--------------------------- MODULE PemCaptureProofs ---------------------------
(***************************************************************************)
(* Proofs about PemCapture, for any blocks, line ends, buffer sizes and    *)
(* bounds.                                                                 *)
(*                                                                         *)
(* That what is stored is framed holds whatever the ring drops: FramedInv. *)
(* The other properties are about a ring that dropped nothing, and there   *)
(* the state of the capture is a function of how much of the last thing    *)
(* sent was read.  WholeInv says which: nothing that is unread has to do   *)
(* with a block (Quiet), or c lines of a block were read, and the mode and *)
(* s_pem are what those c lines make of them (InBlock, InScript, InTail).  *)
(***************************************************************************)
EXTENDS Integers, PemCapture, SequenceTheorems, TLAPS

-----------------------------------------------------------------------------
(* Sequences *)

LEMMA EolCases ==
  ASSUME eol \in Eols
  PROVE  eol \in {<<"cr">>, <<"lf">>, <<"cr", "lf">>}
  BY CaptureAssumption DEF CaptureAssumption

LEMMA EolTokens ==
  ASSUME eol \in Eols
  PROVE  /\ eol \in Seq(Tokens) /\ Len(eol) \in {1, 2} /\ eol[1] \in {"cr", "lf"}
         /\ Len(eol) = 2 => eol[1] = "cr" /\ eol[2] = "lf"
<1>1. CASE eol = <<"cr">>
  BY <1>1 DEF Tokens
<1>2. CASE eol = <<"lf">>
  BY <1>2 DEF Tokens
<1>3. CASE eol = <<"cr", "lf">>
  BY <1>3 DEF Tokens
<1>. QED
  BY <1>1, <1>2, <1>3, EolCases

LEMMA LinesTyped ==
  ASSUME eol \in Eols, NEW texts \in Seq(Texts)
  PROVE  Lines(texts) \in Seq(Tokens)
<1>1. CASE Len(eol) = 1
  <2>1. Lines(texts) = [i \in 1..(2 * Len(texts)) |->
                          IF i % 2 = 1 THEN texts[1 + i \div 2] ELSE eol[(i - 1) % 2]]
    BY <1>1 DEF Lines
  <2>2. ASSUME NEW i \in 1..(2 * Len(texts))
        PROVE  (IF i % 2 = 1 THEN texts[1 + i \div 2] ELSE eol[(i - 1) % 2]) \in Tokens
    <3>1. i % 2 = 1 => 1 + i \div 2 \in 1..Len(texts)
      OBVIOUS
    <3>2. i % 2 # 1 => (i - 1) % 2 = 1
      OBVIOUS
    <3>. QED
      BY <3>1, <3>2, <1>1, EolTokens DEF Tokens
  <2>. QED
    BY <2>1, <2>2
<1>2. CASE Len(eol) = 2
  <2>1. Lines(texts) = [i \in 1..(3 * Len(texts)) |->
                          IF i % 3 = 1 THEN texts[1 + i \div 3] ELSE eol[(i - 1) % 3]]
    BY <1>2 DEF Lines
  <2>2. ASSUME NEW i \in 1..(3 * Len(texts))
        PROVE  (IF i % 3 = 1 THEN texts[1 + i \div 3] ELSE eol[(i - 1) % 3]) \in Tokens
    <3>1. i % 3 = 1 => 1 + i \div 3 \in 1..Len(texts)
      OBVIOUS
    <3>2. i % 3 # 1 => (i - 1) % 3 \in {1, 2}
      OBVIOUS
    <3>3. eol[1] \in Tokens /\ eol[2] \in Tokens
      BY <1>2, EolTokens DEF Tokens
    <3>4. \A k \in 1..Len(texts) : texts[k] \in Tokens
      BY DEF Tokens
    <3>. QED
      BY <3>1, <3>2, <3>3, <3>4
  <2>. QED
    BY <2>1, <2>2
<1>. QED
  BY <1>1, <1>2, EolTokens

(* The lines of a block are texts, and so are those of its parts. *)
LEMMA BlockTexts ==
  ASSUME NEW b \in Blocks
  PROVE  /\ b \in Seq(Texts) /\ Len(b) \in Nat /\ Len(b) > 1
         /\ b[1] \in {"BEGIN", "OTHER"} /\ b[Len(b)] = "END"
         /\ \A i \in 2..(Len(b) - 1) : b[i] \in Bodies
         /\ Front(b) = SubSeq(b, 1, Len(b) - 1) /\ Last(b) = "END"
<1>1. b \in Seq(Frame \cup Bodies)
  BY CaptureAssumption DEF CaptureAssumption
<1>. QED
  BY <1>1, CaptureAssumption DEF CaptureAssumption, Texts, Front, Last

LEMMA PartTexts ==
  ASSUME NEW b \in Blocks
  PROVE  /\ <<"set">> \o b \in Seq(Texts) /\ Tail(b) \in Seq(Texts)
         /\ Front(b) \in Seq(Texts)
         /\ \A n \in 1..(Len(b) - 1) : SubSeq(b, 1, n) \in Seq(Texts)
<1>1. b \in Seq(Texts) /\ Len(b) \in Nat /\ Len(b) > 1 /\ Front(b) = SubSeq(b, 1, Len(b) - 1)
  BY BlockTexts
<1>2. <<"set">> \in Seq(Texts)
  BY DEF Texts
<1>3. <<"set">> \o b \in Seq(Texts) /\ Tail(b) \in Seq(Texts)
  BY <1>1, <1>2
<1>4. ASSUME NEW n \in 1..(Len(b) - 1)
      PROVE  SubSeq(b, 1, n) \in Seq(Texts)
  <2>1. \A i \in 1..n : b[i] \in Texts
    BY <1>1
  <2>. QED
    BY <2>1, <1>1, <1>4
<1>. QED
  BY <1>1, <1>3, <1>4

-----------------------------------------------------------------------------
(* Type correctness *)

LEMMA InitType == Init => TypeOK
<1>1. <<>> \in Seq(Tokens) /\ <<>> \in Seq(Texts) /\ <<>> \in Seq(Seq(Texts)) /\ Len(<<>>) = 0
  BY EmptySeq
<1>2. 0 <= RingRoom /\ 0 <= LineRoom /\ 0 <= PemRoom /\ 0 \in 0..MaxLost
  BY CaptureAssumption DEF CaptureAssumption
<1>. SUFFICES ASSUME Init PROVE TypeOK
  OBVIOUS
<1>3. eol \in Eols /\ wire = <<>> /\ ring = <<>> /\ line = <<>> /\ pem = <<>> /\ stored = <<>>
  BY DEF Init
<1>4. /\ lastCr = FALSE /\ seen = FALSE /\ mode = "prompt" /\ lost = 0 /\ stray = FALSE
      /\ sent = "other" /\ sends = 0
  BY DEF Init
<1>. QED
  BY <1>1, <1>2, <1>3, <1>4 DEF TypeOK

LEMMA SendType ==
  ASSUME TypeOK, NEW tokens \in Seq(Tokens), NEW what \in {"block", "other"},
         Send(tokens, what)
  PROVE  TypeOK'
  BY DEF TypeOK, Send, capture, reader

LEMMA OperatorType ==
  ASSUME TypeOK, Operator
  PROVE  TypeOK'
<1>. USE DEF TypeOK
<1>e. eol \in Seq(Tokens)
  BY EolTokens
<1>1. ASSUME NEW text \in {<<>>, <<"cancel">>, <<"show">>}, TypeLine(text)
      PROVE  TypeOK'
  <2>1. text \in Seq(Tokens)
    <3>1. "cancel" \in Tokens /\ "show" \in Tokens
      BY DEF Tokens, Texts
    <3>2. <<>> \in Seq(Tokens) /\ <<"cancel">> \in Seq(Tokens) /\ <<"show">> \in Seq(Tokens)
      BY <3>1
    <3>. QED
      BY <1>1, <3>2
  <2>2. text \o eol \in Seq(Tokens)
    BY <2>1, <1>e
  <2>. QED
    BY <2>2, <1>1, SendType DEF TypeLine
<1>2. ASSUME NEW b \in Blocks, StartSet(b)
      PROVE  TypeOK'
  <2>1. <<"set">> \in Seq(Tokens)
    BY DEF Tokens, Texts
  <2>2. <<"set">> \o eol \in Seq(Tokens)
    BY <2>1, <1>e
  <2>3. Lines(<<"set">> \o b) \in Seq(Tokens)
    BY LinesTyped, PartTexts
  <2>. QED
    BY <2>2, <2>3, <1>2, SendType DEF StartSet
<1>3. ASSUME NEW b \in Blocks, PasteBlock(b)
      PROVE  TypeOK'
  <2>1. Lines(b) \in Seq(Tokens) /\ Lines(Front(b)) \in Seq(Tokens)
    BY LinesTyped, PartTexts, BlockTexts
  <2>2. Last(b) \in Tokens
    BY BlockTexts DEF Tokens, Texts, Frame
  <2>3. Lines(Front(b)) \o <<Last(b)>> \in Seq(Tokens)
    BY <2>1, <2>2
  <2>. QED
    BY <2>1, <2>3, <1>3, SendType DEF PasteBlock
<1>4. ASSUME NEW b \in Blocks, PastePart(b)
      PROVE  TypeOK'
  <2>1. Lines(Tail(b)) \in Seq(Tokens)
    BY LinesTyped, PartTexts
  <2>2. \A n \in 1..(Len(b) - 1) : Lines(SubSeq(b, 1, n)) \in Seq(Tokens)
    BY LinesTyped, PartTexts
  <2>. QED
    BY <2>1, <2>2, <1>4, SendType DEF PastePart
<1>. QED
  BY <1>1, <1>2, <1>3, <1>4 DEF Operator

LEMMA ReceiveType ==
  ASSUME TypeOK, Receive
  PROVE  TypeOK'
<1>1. Head(wire) \in Tokens /\ Tail(wire) \in Seq(Tokens)
  BY DEF TypeOK, Receive
<1>2. ring' \in Seq(Tokens) /\ Len(ring') <= RingRoom /\ lost' \in 0..MaxLost
  <2>. ring \in Seq(Tokens) /\ Len(ring) <= RingRoom /\ RingRoom \in Nat
       /\ lost \in 0..MaxLost /\ MaxLost \in Nat
    BY CaptureAssumption DEF TypeOK, CaptureAssumption
  <2>1. CASE Len(ring) < RingRoom
    BY <2>1, <1>1 DEF Receive
  <2>2. CASE ~ Len(ring) < RingRoom
    BY <2>2 DEF Receive
  <2>. QED
    BY <2>1, <2>2
<1>. QED
  BY <1>1, <1>2 DEF TypeOK, Receive, capture, reader

(* What a line does to the capture keeps its types. *)
CaptureOK ==
  /\ seen \in BOOLEAN /\ pem \in Seq(Seq(Texts)) /\ stored \in Seq(Seq(Texts))
  /\ Len(pem) <= PemRoom
  /\ mode \in {"prompt", "open", "block", "wrong", "large"}
  /\ (pem # <<>>) <=> (mode \in {"block", "large"})
  /\ mode \in {"block", "wrong", "large"} => seen

LEMMA EndCaptureType ==
  ASSUME NEW result \in Seq(Seq(Texts)), EndCapture(result)
  PROVE  CaptureOK'
<1>1. <<>> \in Seq(Seq(Texts)) /\ Len(<<>>) = 0 /\ 0 <= PemRoom
  BY EmptySeq, CaptureAssumption DEF CaptureAssumption
<1>. QED
  BY <1>1 DEF EndCapture, CaptureOK

LEMMA PemLineType ==
  ASSUME CaptureOK, NEW l \in Seq(Texts), PemLine(l)
  PROVE  CaptureOK'
<1>. USE DEF CaptureOK
<1>1. CASE EmptyLine(l)
  BY <1>1, EndCaptureType DEF EmptyLine, capture
<1>2. CASE CancelLine(l)
  BY <1>2, EndCaptureType DEF CancelLine
<1>3. CASE BeginLine(l)
  <2>1. <<l>> \in Seq(Seq(Texts)) /\ Len(<<l>>) = 1 /\ 1 <= PemRoom /\ <<l>> # <<>>
    BY CaptureAssumption DEF CaptureAssumption
  <2>2. <<>> \in Seq(Seq(Texts)) /\ Len(<<>>) = 0 /\ 0 <= PemRoom
    BY EmptySeq, CaptureAssumption DEF CaptureAssumption
  <2>3. CASE HasLabel(l)
    <3>1. mode' = "block" /\ pem' = <<l>> /\ seen' = TRUE /\ stored' = stored
      BY <1>3, <2>3 DEF BeginLine
    <3>. QED
      BY <3>1, <2>1
  <2>4. CASE ~ HasLabel(l)
    BY <1>3, <2>2, <2>4 DEF BeginLine
  <2>. QED
    BY <2>3, <2>4
<1>4. CASE JunkLine(l)
  BY <1>4 DEF JunkLine
<1>5. CASE BlockLine(l)
  <2>1. Append(pem, l) \in Seq(Seq(Texts)) /\ Append(pem, l) # <<>>
        /\ Len(Append(pem, l)) = Len(pem) + 1
    OBVIOUS
  <2>2. Len(pem) + 1 <= PemRoom
    BY <1>5, CaptureAssumption DEF BlockLine, Fits, CaptureAssumption
  <2>. QED
    BY <1>5, <2>1, <2>2, EndCaptureType DEF BlockLine
<1>6. CASE Swallow(l)
  BY <1>6, EndCaptureType DEF Swallow
<1>. QED
  BY <1>1, <1>2, <1>3, <1>4, <1>5, <1>6 DEF PemLine

LEMMA LineDoneType ==
  ASSUME CaptureOK, stray \in BOOLEAN, NEW l \in Seq(Texts), LineDone(l)
  PROVE  CaptureOK' /\ stray' \in BOOLEAN /\ line' = <<>>
<1>1. CASE mode = "prompt"
  <2>1. CaptureOK'
    BY <1>1 DEF LineDone, PromptLine, CaptureOK, capture
  <2>2. stray' \in BOOLEAN
    BY <1>1, Zenon DEF LineDone, PromptLine
  <2>. QED
    BY <2>1, <2>2 DEF LineDone
<1>2. CASE mode # "prompt"
  BY <1>2, PemLineType DEF LineDone
<1>. QED
  BY <1>1, <1>2

LEMMA CliType ==
  ASSUME TypeOK, CliStep
  PROVE  TypeOK'
<1>1. CaptureOK
  BY DEF TypeOK, CaptureOK
<1>2. /\ ring # <<>> /\ ring' = Tail(ring) /\ lastCr' = (Head(ring) = "cr")
      /\ UNCHANGED <<eol, wire, lost, sent, sends>>
  BY DEF CliStep, DropLf, EndLine, AddText, ReadToken
<1>3. ring' \in Seq(Tokens) /\ Len(ring') <= RingRoom /\ Head(ring) \in Tokens
  <2>1. ring \in Seq(Tokens) /\ ring # <<>> /\ Len(ring) <= RingRoom /\ RingRoom \in Nat
    BY <1>2, CaptureAssumption DEF TypeOK, CaptureAssumption
  <2>. QED
    BY <2>1, <1>2
<1>4. lastCr' \in BOOLEAN
  BY <1>2, Zenon
<1>5. CaptureOK' /\ stray' \in BOOLEAN /\ line' \in Seq(Texts) /\ Len(line') <= LineRoom
  <2>. USE CaptureAssumption DEF CaptureAssumption
  <2>1. CASE DropLf
    BY <2>1, <1>1 DEF DropLf, capture, TypeOK, CaptureOK
  <2>2. CASE EndLine
    <3>1. LineDone(line) /\ line \in Seq(Texts) /\ stray \in BOOLEAN
      BY <2>2 DEF EndLine, TypeOK
    <3>2. CaptureOK' /\ stray' \in BOOLEAN /\ line' = <<>>
      BY <3>1, <1>1, LineDoneType
    <3>. QED
      BY <3>2
  <2>3. CASE AddText
    <3>. DEFINE l == IF Len(line) < LineRoom THEN Append(line, Head(ring)) ELSE line
    <3>1. l \in Seq(Texts) /\ Len(l) <= LineRoom
      <4>1. Head(ring) \in Texts
        BY <1>3, <2>3 DEF AddText, Tokens
      <4>2. line \in Seq(Texts) /\ Len(line) <= LineRoom
        BY DEF TypeOK
      <4>. QED
        BY <4>1, <4>2
    <3>2. CASE LineDone(l)
      <4>1. CaptureOK' /\ stray' \in BOOLEAN /\ line' = <<>>
        BY <3>1, <3>2, <1>1, LineDoneType DEF TypeOK
      <4>. QED
        BY <4>1
    <3>3. CASE line' = l /\ UNCHANGED <<capture, stray>>
      BY <3>1, <3>3, <1>1 DEF capture, TypeOK, CaptureOK
    <3>. QED
      BY <2>3, <3>2, <3>3 DEF AddText
  <2>. QED
    BY <2>1, <2>2, <2>3 DEF CliStep
<1>. QED
  BY <1>2, <1>3, <1>4, <1>5 DEF TypeOK, CaptureOK

LEMMA TypeStep == TypeOK /\ [Next]_vars => TypeOK'
<1>. SUFFICES ASSUME TypeOK, [Next]_vars PROVE TypeOK'
  OBVIOUS
<1>1. CASE UNCHANGED vars
  BY <1>1 DEF TypeOK, vars, capture, reader
<1>. QED
  BY <1>1, OperatorType, ReceiveType, CliType DEF Next

(* The buffers hold what they have room for and the mode agrees with what  *)
(* is in them.  Code: prv_read_pem and prv_read_line (iotc_cli.c) and the   *)
(* ring of console_output.c.                                                *)
THEOREM CaptureTypeCorrect == Spec => []TypeOK
  BY InitType, TypeStep, PTL DEF Spec

-----------------------------------------------------------------------------
(* What is stored is framed *)

(* s_pem begins with a BEGIN line that has the wanted label. *)
Framed == pem # <<>> => IsBegin(Head(pem)) /\ HasLabel(Head(pem))

FramedInv == TypeOK /\ Framed /\ StoredFramed

LEMMA AppendLine ==
  ASSUME pem \in Seq(Seq(Texts)), pem # <<>>, NEW l \in Seq(Texts)
  PROVE  /\ Append(pem, l) # <<>>
         /\ Head(Append(pem, l)) = Head(pem) /\ Last(Append(pem, l)) = l
<1>. DEFINE S == Seq(Texts)
           p == Append(pem, l)
<1>1. pem \in Seq(S) /\ l \in S /\ Len(pem) \in Nat /\ Len(pem) > 0
  OBVIOUS
<1>. HIDE DEF S
<1>2. p \in Seq(S) /\ Len(p) = Len(pem) + 1 /\ p[Len(pem) + 1] = l /\ p[1] = pem[1]
  BY <1>1
<1>. HIDE DEF p
<1>3. p # <<>> /\ Head(p) = p[1] /\ Last(p) = p[Len(p)]
  BY <1>1, <1>2 DEF Last
<1>. QED
  BY <1>1, <1>2, <1>3 DEF p

LEMMA EndCaptureFramed ==
  ASSUME EndCapture(stored), Framed, StoredFramed
  PROVE  Framed' /\ StoredFramed'
  BY DEF EndCapture, Framed, StoredFramed, IsBegin, HasLabel, IsEnd

LEMMA PemLineFramed ==
  ASSUME FramedInv, NEW l \in Seq(Texts), PemLine(l)
  PROVE  Framed' /\ StoredFramed'
<1>. USE DEF FramedInv
<1>1. CASE EmptyLine(l)
  BY <1>1, EndCaptureFramed DEF EmptyLine, capture, Framed, StoredFramed
<1>2. CASE CancelLine(l)
  BY <1>2, EndCaptureFramed DEF CancelLine
<1>3. CASE BeginLine(l)
  BY <1>3 DEF BeginLine, Framed, StoredFramed
<1>4. CASE JunkLine(l)
  BY <1>4 DEF JunkLine, Framed, StoredFramed
<1>5. CASE BlockLine(l)
  <2>1. pem \in Seq(Seq(Texts)) /\ pem # <<>>
    BY <1>5 DEF BlockLine, TypeOK
  <2>2. CASE IsEnd(l)
    <3>1. stored' = Append(pem, l) /\ pem' = <<>>
      BY <1>5, <2>2 DEF BlockLine, EndCapture
    <3>. QED
      BY <3>1, <2>1, <2>2, AppendLine DEF Framed, StoredFramed
  <2>3. CASE ~ IsEnd(l)
    <3>1. pem' = Append(pem, l) /\ stored' = stored
      BY <1>5, <2>3 DEF BlockLine
    <3>. QED
      BY <3>1, <2>1, AppendLine DEF Framed, StoredFramed
  <2>. QED
    BY <2>2, <2>3
<1>6. CASE Swallow(l)
  BY <1>6, EndCaptureFramed DEF Swallow, Framed, StoredFramed
<1>. QED
  BY <1>1, <1>2, <1>3, <1>4, <1>5, <1>6 DEF PemLine

LEMMA LineDoneFramed ==
  ASSUME FramedInv, NEW l \in Seq(Texts), LineDone(l)
  PROVE  Framed' /\ StoredFramed'
  BY PemLineFramed DEF LineDone, PromptLine, capture, FramedInv, Framed, StoredFramed

(* The line that a character read may complete. *)
LEMMA ReadLine ==
  ASSUME TypeOK, CliStep
  PROVE  \E l \in Seq(Texts) : LineDone(l) \/ UNCHANGED <<capture, stray>>
<1>1. line \in Seq(Texts) /\ ring \in Seq(Tokens) /\ ring # <<>>
  BY DEF TypeOK, CliStep, DropLf, EndLine, AddText, ReadToken
<1>2. CASE DropLf
  BY <1>1, <1>2 DEF DropLf
<1>3. CASE EndLine
  BY <1>1, <1>3 DEF EndLine
<1>4. CASE AddText
  <2>. DEFINE l == IF Len(line) < LineRoom THEN Append(line, Head(ring)) ELSE line
  <2>1. Head(ring) \in Texts
    BY <1>1, <1>4 DEF AddText, Tokens
  <2>2. l \in Seq(Texts)
    BY <1>1, <2>1
  <2>. QED
    BY <1>4, <2>2 DEF AddText
<1>. QED
  BY <1>2, <1>3, <1>4 DEF CliStep

LEMMA FramedStep == FramedInv /\ [Next]_vars => FramedInv'
<1>. SUFFICES ASSUME FramedInv, [Next]_vars PROVE FramedInv'
  OBVIOUS
<1>1. TypeOK /\ TypeOK'
  BY TypeStep DEF FramedInv
<1>2. CASE UNCHANGED capture
  BY <1>1, <1>2 DEF FramedInv, Framed, StoredFramed, capture
<1>3. CASE CliStep
  <2>1. PICK l \in Seq(Texts) : LineDone(l) \/ UNCHANGED <<capture, stray>>
    BY <1>1, <1>3, ReadLine
  <2>. QED
    BY <1>1, <1>2, <2>1, LineDoneFramed DEF FramedInv
<1>. QED
  BY <1>2, <1>3 DEF Next, Operator, TypeLine, StartSet, PasteBlock, PastePart, Send,
                    Receive, vars

LEMMA InitFramed == Init => FramedInv
  BY InitType DEF FramedInv, Init, Framed, StoredFramed

THEOREM FramedInvariance == Spec => []FramedInv
  BY InitFramed, FramedStep, PTL DEF Spec

(* Nothing reaches iotc_config_write that is not framed by a BEGIN line     *)
(* with the wanted label and an END line, whatever the ring dropped and     *)
(* whatever was pasted.  Code: prv_read_pem.                                *)
THEOREM FramedIsStored == Spec => []StoredFramed
<1>1. FramedInv => StoredFramed
  BY DEF FramedInv
<1>. QED
  BY <1>1, FramedInvariance, PTL

-----------------------------------------------------------------------------
(* What is still to be read *)

(* The tokens sent and not read yet, in order. *)
Unread == ring \o wire

LEMMA UnreadTyped ==
  ASSUME TypeOK
  PROVE  Unread \in Seq(Tokens) /\ (Unread = <<>> <=> ring = <<>> /\ wire = <<>>)
<1>1. ring \in Seq(Tokens) /\ wire \in Seq(Tokens)
  BY DEF TypeOK
<1>. QED
  BY <1>1, ConcatProperties, EmptySeq DEF Unread

LEMMA UnreadSend ==
  ASSUME TypeOK, NEW tokens \in Seq(Tokens), NEW what, Send(tokens, what)
  PROVE  Unread = <<>> /\ Unread' = tokens
<1>1. ring = <<>> /\ wire = <<>> /\ ring' = <<>> /\ wire' = tokens
  BY DEF Send
<1>. QED
  BY <1>1, ConcatEmptySeq, EmptySeq DEF Unread

(* A token that is not dropped stays in its place. *)
LEMMA UnreadReceive ==
  ASSUME TypeOK, Receive, lost' = lost
  PROVE  Unread' = Unread
<1>1. /\ ring \in Seq(Tokens) /\ wire \in Seq(Tokens) /\ wire # <<>>
      /\ wire' = Tail(wire) /\ lost \in Nat
  BY DEF TypeOK, Receive
<1>2. ring' = Append(ring, Head(wire))
  BY <1>1 DEF Receive
<1>3. Head(wire) \in Tokens /\ Tail(wire) \in Seq(Tokens) /\ Len(Tail(wire)) = Len(wire) - 1
      /\ Head(wire) = wire[1] /\ \A i \in 1..(Len(wire) - 1) : Tail(wire)[i] = wire[i + 1]
  BY <1>1
<1>. DEFINE r == Append(ring, Head(wire))
            w == Tail(wire)
<1>4. r \in Seq(Tokens) /\ Len(r) = Len(ring) + 1 /\ r[Len(ring) + 1] = wire[1]
      /\ \A i \in 1..Len(ring) : r[i] = ring[i]
  BY <1>1, <1>3
<1>5. w \in Seq(Tokens) /\ Len(w) = Len(wire) - 1
      /\ \A i \in 1..Len(w) : w[i] = wire[i + 1]
  BY <1>3
<1>. HIDE DEF r, w
<1>6. /\ r \o w \in Seq(Tokens) /\ ring \o wire \in Seq(Tokens)
      /\ Len(r \o w) = Len(r) + Len(w) /\ Len(ring \o wire) = Len(ring) + Len(wire)
      /\ \A i \in 1..(Len(r) + Len(w)) :
           (r \o w)[i] = IF i <= Len(r) THEN r[i] ELSE w[i - Len(r)]
      /\ \A i \in 1..(Len(ring) + Len(wire)) :
           (ring \o wire)[i] = IF i <= Len(ring) THEN ring[i] ELSE wire[i - Len(ring)]
  BY <1>1, <1>4, <1>5, ConcatProperties
<1>7. Len(r \o w) = Len(ring \o wire) /\ Len(ring) \in Nat /\ Len(wire) \in Nat
  BY <1>1, <1>4, <1>5, <1>6
<1>8. ASSUME NEW i \in 1..Len(r \o w)
      PROVE  (r \o w)[i] = (ring \o wire)[i]
  <2>1. CASE i <= Len(ring)
    BY <1>4, <1>5, <1>6, <1>7, <2>1
  <2>2. CASE i = Len(ring) + 1
    BY <1>4, <1>5, <1>6, <1>7, <2>2
  <2>3. CASE i > Len(ring) + 1
    <3>1. (r \o w)[i] = w[i - Len(r)] /\ i - Len(r) \in 1..Len(w)
      BY <1>4, <1>5, <1>6, <1>7, <2>3
    <3>2. (ring \o wire)[i] = wire[i - Len(ring)]
      BY <1>4, <1>5, <1>6, <1>7, <2>3
    <3>3. w[i - Len(r)] = wire[(i - Len(r)) + 1] /\ (i - Len(r)) + 1 = i - Len(ring)
      BY <1>4, <1>5, <1>7, <3>1
    <3>. QED
      BY <3>1, <3>2, <3>3
  <2>. QED
    BY <1>7, <2>1, <2>2, <2>3
<1>9. r \o w = ring \o wire
  BY <1>6, <1>7, <1>8, SeqEqual
<1>. QED
  BY <1>1, <1>2, <1>9 DEF Unread, r, w

LEMMA UnreadRead ==
  ASSUME TypeOK, ReadToken
  PROVE  /\ Unread \in Seq(Tokens) /\ Unread # <<>> /\ Unread' \in Seq(Tokens)
         /\ Head(ring) = Unread[1] /\ Len(Unread') = Len(Unread) - 1
         /\ \A i \in 1..Len(Unread') : Unread'[i] = Unread[i + 1]
<1>1. /\ ring \in Seq(Tokens) /\ wire \in Seq(Tokens) /\ ring # <<>>
      /\ ring' = Tail(ring) /\ wire' = wire
  BY DEF TypeOK, ReadToken
<1>2. Tail(ring) \in Seq(Tokens) /\ Len(Tail(ring)) = Len(ring) - 1
      /\ Head(ring) = ring[1] /\ \A i \in 1..(Len(ring) - 1) : Tail(ring)[i] = ring[i + 1]
  BY <1>1
<1>. DEFINE r == Tail(ring)
<1>3. r \in Seq(Tokens) /\ Len(r) = Len(ring) - 1
      /\ \A i \in 1..(Len(ring) - 1) : r[i] = ring[i + 1]
  BY <1>2
<1>. HIDE DEF r
<1>4. /\ r \o wire \in Seq(Tokens) /\ ring \o wire \in Seq(Tokens)
      /\ Len(r \o wire) = Len(r) + Len(wire) /\ Len(ring \o wire) = Len(ring) + Len(wire)
      /\ \A i \in 1..(Len(r) + Len(wire)) :
           (r \o wire)[i] = IF i <= Len(r) THEN r[i] ELSE wire[i - Len(r)]
      /\ \A i \in 1..(Len(ring) + Len(wire)) :
           (ring \o wire)[i] = IF i <= Len(ring) THEN ring[i] ELSE wire[i - Len(ring)]
  BY <1>1, <1>3, ConcatProperties
<1>5. Len(ring) \in Nat /\ Len(ring) > 0 /\ Len(wire) \in Nat
  BY <1>1
<1>6. ASSUME NEW i \in 1..Len(r \o wire)
      PROVE  (r \o wire)[i] = (ring \o wire)[i + 1]
  <2>1. CASE i <= Len(r)
    BY <1>3, <1>4, <1>5, <2>1
  <2>2. CASE i > Len(r)
    <3>1. (r \o wire)[i] = wire[i - Len(r)]
      BY <1>3, <1>4, <1>5, <2>2
    <3>2. (ring \o wire)[i + 1] = wire[(i + 1) - Len(ring)]
      BY <1>3, <1>4, <1>5, <2>2
    <3>3. i - Len(r) = (i + 1) - Len(ring)
      BY <1>3, <1>4, <1>5
    <3>. QED
      BY <3>1, <3>2, <3>3
  <2>. QED
    BY <1>3, <1>4, <1>5, <2>1, <2>2
<1>7. (ring \o wire)[1] = ring[1] /\ Len(ring \o wire) > 0
  BY <1>4, <1>5
<1>. QED
  BY <1>1, <1>2, <1>3, <1>4, <1>5, <1>6, <1>7 DEF Unread, r

-----------------------------------------------------------------------------
(* Texts and the ends of their lines *)

Width == 1 + Len(eol)

LEMMA WidthCases ==
  ASSUME eol \in Eols
  PROVE  \/ Width = 2 /\ Len(eol) = 1 /\ eol[1] \in {"cr", "lf"}
         \/ Width = 3 /\ Len(eol) = 2 /\ eol[1] = "cr" /\ eol[2] = "lf"
<1>1. CASE Len(eol) = 1
  BY <1>1, EolTokens DEF Width
<1>2. CASE Len(eol) = 2
  BY <1>2, EolTokens DEF Width
<1>. QED
  BY <1>1, <1>2, EolTokens

LEMMA LinesAt ==
  ASSUME eol \in Eols, NEW texts \in Seq(Texts)
  PROVE  /\ Len(Lines(texts)) = Width * Len(texts)
         /\ \A k \in 0..(Len(texts) - 1) :
              /\ Lines(texts)[Width * k + 1] = texts[k + 1]
              /\ Lines(texts)[Width * k + 2] = eol[1]
              /\ Width = 3 => Lines(texts)[Width * k + 3] = eol[2]
<1>1. CASE Width = 2
  <2>1. Lines(texts) = [i \in 1..(2 * Len(texts)) |->
                          IF i % 2 = 1 THEN texts[1 + i \div 2] ELSE eol[(i - 1) % 2]]
    BY <1>1 DEF Lines, Width
  <2>2. ASSUME NEW k \in 0..(Len(texts) - 1)
        PROVE  Lines(texts)[2 * k + 1] = texts[k + 1] /\ Lines(texts)[2 * k + 2] = eol[1]
    <3>1. 2 * k + 1 \in 1..(2 * Len(texts)) /\ 2 * k + 2 \in 1..(2 * Len(texts))
      OBVIOUS
    <3>2. (2 * k + 1) % 2 = 1 /\ (2 * k + 1) \div 2 = k
      OBVIOUS
    <3>3. (2 * k + 2) % 2 = 0 /\ ((2 * k + 2) - 1) % 2 = 1
      OBVIOUS
    <3>4. 1 + k = k + 1
      OBVIOUS
    <3>. QED
      BY <2>1, <3>1, <3>2, <3>3, <3>4
  <2>3. Len(Lines(texts)) = 2 * Len(texts)
    BY <2>1
  <2>. QED
    BY <1>1, <2>2, <2>3
<1>2. CASE Width = 3
  <2>1. Lines(texts) = [i \in 1..(3 * Len(texts)) |->
                          IF i % 3 = 1 THEN texts[1 + i \div 3] ELSE eol[(i - 1) % 3]]
    BY <1>2 DEF Lines, Width
  <2>2. ASSUME NEW k \in 0..(Len(texts) - 1)
        PROVE  /\ Lines(texts)[3 * k + 1] = texts[k + 1] /\ Lines(texts)[3 * k + 2] = eol[1]
               /\ Lines(texts)[3 * k + 3] = eol[2]
    <3>1. /\ 3 * k + 1 \in 1..(3 * Len(texts)) /\ 3 * k + 2 \in 1..(3 * Len(texts))
          /\ 3 * k + 3 \in 1..(3 * Len(texts))
      OBVIOUS
    <3>2. (3 * k + 1) % 3 = 1 /\ (3 * k + 1) \div 3 = k
      OBVIOUS
    <3>3. (3 * k + 2) % 3 = 2 /\ ((3 * k + 2) - 1) % 3 = 1
      OBVIOUS
    <3>4. (3 * k + 3) % 3 = 0 /\ ((3 * k + 3) - 1) % 3 = 2
      OBVIOUS
    <3>5. 1 + k = k + 1
      OBVIOUS
    <3>. QED
      BY <2>1, <3>1, <3>2, <3>3, <3>4, <3>5
  <2>3. Len(Lines(texts)) = 3 * Len(texts)
    BY <2>1
  <2>. QED
    BY <1>2, <2>2, <2>3
<1>. QED
  BY <1>1, <1>2, WidthCases

(* A prefix of the texts gives a prefix of the lines. *)
LEMMA LinesPrefix ==
  ASSUME eol \in Eols, NEW texts \in Seq(Texts), NEW part \in Seq(Texts),
         Len(part) <= Len(texts), \A i \in 1..Len(part) : part[i] = texts[i],
         NEW i \in 1..(Width * Len(part))
  PROVE  i \in 1..(Width * Len(texts)) /\ Lines(part)[i] = Lines(texts)[i]
<1>1. CASE Width = 2
  <2>1. ASSUME NEW t \in Seq(Texts)
        PROVE  Lines(t) = [j \in 1..(2 * Len(t)) |->
                             IF j % 2 = 1 THEN t[1 + j \div 2] ELSE eol[(j - 1) % 2]]
    BY <1>1 DEF Lines, Width
  <2>2. i \in 1..(2 * Len(part)) /\ i \in 1..(2 * Len(texts))
    BY <1>1
  <2>3. i % 2 = 1 => 1 + i \div 2 \in 1..Len(part)
    BY <2>2
  <2>4. Lines(part)[i] = IF i % 2 = 1 THEN part[1 + i \div 2] ELSE eol[(i - 1) % 2]
    BY <2>1, <2>2
  <2>5. Lines(texts)[i] = IF i % 2 = 1 THEN texts[1 + i \div 2] ELSE eol[(i - 1) % 2]
    BY <2>1, <2>2
  <2>. QED
    BY <1>1, <2>2, <2>3, <2>4, <2>5
<1>2. CASE Width = 3
  <2>1. ASSUME NEW t \in Seq(Texts)
        PROVE  Lines(t) = [j \in 1..(3 * Len(t)) |->
                             IF j % 3 = 1 THEN t[1 + j \div 3] ELSE eol[(j - 1) % 3]]
    BY <1>2 DEF Lines, Width
  <2>2. i \in 1..(3 * Len(part)) /\ i \in 1..(3 * Len(texts))
    BY <1>2
  <2>3. i % 3 = 1 => 1 + i \div 3 \in 1..Len(part)
    BY <2>2
  <2>4. Lines(part)[i] = IF i % 3 = 1 THEN part[1 + i \div 3] ELSE eol[(i - 1) % 3]
    BY <2>1, <2>2
  <2>5. Lines(texts)[i] = IF i % 3 = 1 THEN texts[1 + i \div 3] ELSE eol[(i - 1) % 3]
    BY <2>1, <2>2
  <2>. QED
    BY <1>2, <2>2, <2>3, <2>4, <2>5
<1>. QED
  BY <1>1, <1>2, WidthCases

-----------------------------------------------------------------------------
(* How far the console is with what was sent.  While nothing is dropped it *)
(* reads lines that have nothing to do with a block, or it is somewhere in *)
(* a block that was sent: whole, cut off, or without its first line.       *)

Pasted == Frame \cup Bodies

(* No text of a block is on its way, and the last line will be ended. *)
Quiet ==
  /\ \A i \in 1..Len(line) : line[i] \notin Pasted
  /\ \A i \in 1..Len(Unread) : Unread[i] \notin Pasted
  /\ Unread # <<>> => Unread[Len(Unread)] \in {"cr", "lf"}

(* Where what is sent ends: after a line, or before the end of the last.   *)
Cut(texts, k) ==
  \/ k = Width * (Len(texts) - 1) + 1
  \/ \E m \in 0..Len(texts) : k = Width * m

(* What is unread are the lines of the texts, from token p + 1 on. *)
Arriving(texts, p) ==
  /\ \A i \in 1..Len(Unread) : Unread[i] = Lines(texts)[p + i]
  /\ Cut(texts, p + Len(Unread))

(* c lines were read, and of the next at most its text. *)
Between(texts, c, p) ==
  \/ p = Width * c /\ line = <<>>
  \/ p = Width * c + 1 /\ line = <<texts[c + 1]>> /\ c + 1 < Len(texts)
  \/ p + 1 = Width * c /\ line = <<>> /\ lastCr /\ Width = 3

Reading(texts, c) ==
  /\ c \in 0..(Len(texts) - 1)
  /\ \E p \in Nat : Between(texts, c, p) /\ Arriving(texts, p)

(* What the lines of block b did to the capture when k of them were read.  *)
Captured(b, k) ==
  k > 0 => IF b[1] = "BEGIN"
           THEN mode = "large" \/ (mode = "block" /\ pem = [i \in 1..k |-> <<b[i]>>])
           ELSE mode = "wrong"

(* Block b is being read: by itself, in a script after the command, or     *)
(* without its first line.                                                  *)
InBlock(b) ==
  mode # "prompt" /\ \E c \in 0..(Len(b) - 1) : Reading(b, c) /\ Captured(b, c)
InScript(b) ==
  \/ mode = "prompt" /\ Reading(<<"set">> \o b, 0)
  \/ mode # "prompt" /\ \E c \in 0..(Len(b) - 1) :
       Reading(<<"set">> \o b, c + 1) /\ Captured(b, c)
InTail(b) ==
  mode = "open" /\ sent = "other" /\ \E c \in 0..(Len(b) - 2) : Reading(Tail(b), c)

(* Of a whole block the END line is still to come, or it was read and the  *)
(* console is back at the prompt.                                           *)
Coming == \E i \in 1..Len(Unread) : Unread[i] = "END"
Done == /\ mode = "prompt" /\ line = <<>>
        /\ \A i \in 1..Len(Unread) : Unread[i] \in {"cr", "lf"}

LinesEnd == (Unread = <<>> \/ lastCr) => line = <<>>

Whole ==
  /\ ~ stray /\ StoredWhole /\ LinesEnd
  /\ Quiet \/ \E b \in Blocks : InBlock(b) \/ InScript(b) \/ InTail(b)
  /\ sent = "block" => Done \/ Coming

WholeInv == TypeOK /\ (lost = 0 => Whole)

-----------------------------------------------------------------------------
(* Reading a token of a block *)

LEMMA EolKept ==
  ASSUME eol' = eol
  PROVE  Width' = Width /\ \A texts : Lines(texts)' = Lines(texts)
  BY DEF Width, Lines

LEMMA NoEolInTexts == "cr" \notin Texts /\ "lf" \notin Texts
  BY CaptureAssumption DEF CaptureAssumption, Texts, Frame

(* The texts of something that is sent: END closes it. *)
Closed(texts) ==
  /\ texts \in Seq(Texts) /\ Len(texts) > 0 /\ texts[Len(texts)] = "END"
  /\ \A i \in 1..(Len(texts) - 1) : texts[i] # "END"

LEMMA ArrivingRead ==
  ASSUME TypeOK, ReadToken, NEW texts \in Seq(Texts), NEW p \in Nat, Arriving(texts, p)
  PROVE  /\ Head(ring) = Lines(texts)[p + 1] /\ Arriving(texts, p + 1)'
         /\ Unread' \in Seq(Tokens) /\ Len(Unread') \in Nat
         /\ \A i \in 1..Len(Unread') : Unread'[i] = Lines(texts)[p + 1 + i]
         /\ Cut(texts, p + 1 + Len(Unread'))
         /\ p + 1 + Len(Unread') <= Width * Len(texts)
<1>1. /\ Unread \in Seq(Tokens) /\ Unread # <<>> /\ Unread' \in Seq(Tokens)
      /\ Head(ring) = Unread[1] /\ Len(Unread') = Len(Unread) - 1
      /\ \A i \in 1..Len(Unread') : Unread'[i] = Unread[i + 1]
  BY UnreadRead
<1>2. eol' = eol /\ eol \in Eols
  BY DEF ReadToken, TypeOK
<1>3. Width' = Width /\ Lines(texts)' = Lines(texts)
  BY <1>2, EolKept
<1>4. Len(Unread) \in Nat /\ Len(Unread) > 0 /\ Len(Unread') \in Nat
  BY <1>1
<1>5. Head(ring) = Lines(texts)[p + 1]
  BY <1>1, <1>4 DEF Arriving
<1>6. ASSUME NEW i \in 1..Len(Unread')
      PROVE  Unread'[i] = Lines(texts)[p + 1 + i]
  <2>1. i + 1 \in 1..Len(Unread) /\ p + (i + 1) = p + 1 + i
    BY <1>1, <1>4
  <2>. QED
    BY <1>1, <2>1 DEF Arriving
<1>7. p + 1 + Len(Unread') = p + Len(Unread)
  BY <1>1, <1>4
<1>8. Cut(texts, p + 1 + Len(Unread'))
  BY <1>7 DEF Arriving
<1>9. Cut(texts, p + 1 + Len(Unread))'
  BY <1>8, <1>3 DEF Cut
<1>10. Arriving(texts, p + 1)'
  BY <1>3, <1>6, <1>9 DEF Arriving
<1>11. p + 1 + Len(Unread') <= Width * Len(texts)
  <2>1. Len(texts) \in Nat
    OBVIOUS
  <2>2. CASE Width = 2
    BY <1>4, <1>7, <1>8, <2>1, <2>2 DEF Cut
  <2>3. CASE Width = 3
    BY <1>4, <1>7, <1>8, <2>1, <2>3 DEF Cut
  <2>. QED
    BY <1>2, <2>2, <2>3, WidthCases
<1>. QED
  BY <1>1, <1>4, <1>5, <1>6, <1>8, <1>10, <1>11

LEMMA ReadText ==
  ASSUME TypeOK, NEW texts, Closed(texts), NEW c \in 0..(Len(texts) - 1), NEW p \in Nat,
         p = Width * c, line = <<>>, Arriving(texts, p), CliStep,
         mode = "prompt" => c + 1 < Len(texts)
  PROVE  \/ /\ UNCHANGED <<capture, stray>> /\ Reading(texts, c)' /\ LinesEnd'
            /\ Head(ring) # "END"
         \/ /\ c + 1 = Len(texts) /\ LineDone(<<"END">>) /\ line' = <<>> /\ Quiet'
            /\ \A i \in 1..Len(Unread') : Unread'[i] \in {"cr", "lf"}
<1>1. ReadToken /\ eol' = eol /\ eol \in Eols /\ lastCr' = (Head(ring) = "cr")
  BY DEF CliStep, DropLf, EndLine, AddText, ReadToken, TypeOK
<1>2. texts \in Seq(Texts) /\ Len(texts) \in Nat
  BY DEF Closed
<1>3. /\ Head(ring) = Lines(texts)[p + 1] /\ Arriving(texts, p + 1)'
      /\ Unread' \in Seq(Tokens) /\ Len(Unread') \in Nat
      /\ \A i \in 1..Len(Unread') : Unread'[i] = Lines(texts)[p + 1 + i]
      /\ Cut(texts, p + 1 + Len(Unread'))
      /\ p + 1 + Len(Unread') <= Width * Len(texts)
  BY <1>1, <1>2, ArrivingRead
<1>4. Head(ring) = texts[c + 1] /\ texts[c + 1] \in Texts
  <2>1. Lines(texts)[Width * c + 1] = texts[c + 1]
    BY <1>1, <1>2, LinesAt
  <2>2. c + 1 \in 1..Len(texts)
    BY <1>2
  <2>. QED
    BY <1>2, <1>3, <2>1, <2>2
<1>5. Head(ring) \notin {"cr", "lf"} /\ lastCr' = FALSE
  BY <1>1, <1>4, NoEolInTexts
<1>6. IF mode # "prompt" /\ IsEnd(<<texts[c + 1]>>) /\ Last(<<texts[c + 1]>>) \in Frame
      THEN LineDone(<<texts[c + 1]>>)
      ELSE line' = <<texts[c + 1]>> /\ UNCHANGED <<capture, stray>>
  <2>1. AddText
    BY <1>5 DEF CliStep, DropLf, EndLine
  <2>2. Len(line) < LineRoom /\ Append(line, Head(ring)) = <<texts[c + 1]>>
    BY <1>4, CaptureAssumption DEF CaptureAssumption
  <2>. QED
    BY <2>1, <2>2 DEF AddText
<1>7. CASE c + 1 < Len(texts)
  <2>1. texts[c + 1] # "END"
    BY <1>2, <1>7 DEF Closed
  <2>2. line' = <<texts[c + 1]>> /\ UNCHANGED <<capture, stray>>
    BY <1>6, <2>1 DEF IsEnd
  <2>3. Between(texts, c, p + 1)'
    BY <1>1, <1>7, <2>2, EolKept DEF Between
  <2>4. Reading(texts, c)'
    BY <1>3, <2>3 DEF Reading
  <2>5. Unread' # <<>>
    <3>1. Len(Unread') # 0
      <4>1. CASE Width = 2
        BY <1>2, <1>3, <1>7, <4>1 DEF Cut
      <4>2. CASE Width = 3
        BY <1>2, <1>3, <1>7, <4>2 DEF Cut
      <4>. QED
        BY <1>1, <4>1, <4>2, WidthCases
    <3>. QED
      BY <3>1
  <2>. QED
    BY <1>4, <1>5, <2>1, <2>2, <2>4, <2>5 DEF LinesEnd
<1>8. CASE c + 1 = Len(texts)
  <2>1. texts[c + 1] = "END" /\ mode # "prompt"
    BY <1>8 DEF Closed
  <2>2. LineDone(<<"END">>)
    BY <1>6, <2>1 DEF IsEnd, Last, Frame
  <2>3. line' = <<>>
    BY <2>2 DEF LineDone
  <2>4. ASSUME NEW i \in 1..Len(Unread')
        PROVE  Unread'[i] \in {"cr", "lf"}
    <3>1. CASE Width = 2
      <4>1. i = 1
        BY <1>2, <1>3, <1>8, <3>1
      <4>2. Unread'[i] = Lines(texts)[Width * c + 2]
        BY <1>3, <4>1, <3>1
      <4>. QED
        BY <1>1, <1>2, <4>2, LinesAt, WidthCases
    <3>2. CASE Width = 3
      <4>1. i = 1 \/ i = 2
        BY <1>2, <1>3, <1>8, <3>2
      <4>2. \/ Unread'[i] = Lines(texts)[Width * c + 2]
            \/ Unread'[i] = Lines(texts)[Width * c + 3]
        BY <1>3, <4>1, <3>2
      <4>3. eol[1] = "cr" /\ eol[2] = "lf"
        BY <1>1, <3>2, WidthCases
      <4>. QED
        BY <1>1, <1>2, <4>2, <4>3, <3>2, LinesAt
    <3>. QED
      BY <1>1, <3>1, <3>2, WidthCases
  <2>5. "cr" \notin Pasted /\ "lf" \notin Pasted
    BY NoEolInTexts DEF Pasted, Texts
  <2>6. Unread' # <<>> => Len(Unread') \in 1..Len(Unread')
    BY <1>3
  <2>7. Quiet'
    BY <2>3, <2>4, <2>5, <2>6 DEF Quiet
  <2>. QED
    BY <1>8, <2>2, <2>3, <2>4, <2>7
<1>. QED
  BY <1>2, <1>7, <1>8

LEMMA ReadEol ==
  ASSUME TypeOK, LinesEnd, NEW texts, Closed(texts), NEW c \in 0..(Len(texts) - 1),
         NEW p \in Nat, p = Width * c + 1, line = <<texts[c + 1]>>, c + 1 < Len(texts),
         Arriving(texts, p), CliStep
  PROVE  /\ LineDone(<<texts[c + 1]>>) /\ line' = <<>> /\ Reading(texts, c + 1)'
         /\ Head(ring) # "END"
<1>1. ReadToken /\ eol' = eol /\ eol \in Eols /\ lastCr' = (Head(ring) = "cr")
  BY DEF CliStep, DropLf, EndLine, AddText, ReadToken, TypeOK
<1>2. texts \in Seq(Texts) /\ Len(texts) \in Nat
  BY DEF Closed
<1>3. Head(ring) = Lines(texts)[p + 1] /\ Arriving(texts, p + 1)'
  BY <1>1, <1>2, ArrivingRead
<1>4. Head(ring) = eol[1]
  <2>1. p + 1 = Width * c + 2
    BY <1>1, WidthCases
  <2>. QED
    BY <1>1, <1>2, <1>3, <2>1, LinesAt
<1>5. ~ lastCr
  BY DEF LinesEnd
<1>6. Head(ring) \in {"cr", "lf"}
  BY <1>1, <1>4, WidthCases
<1>7. LineDone(line)
  BY <1>5, <1>6 DEF CliStep, DropLf, EndLine, AddText
<1>8. LineDone(<<texts[c + 1]>>) /\ line' = <<>>
  BY <1>7 DEF LineDone
<1>9. Between(texts, c + 1, p + 1)'
  <2>1. CASE Width = 2
    BY <1>1, <1>8, <2>1, EolKept DEF Between
  <2>2. CASE Width = 3
    <3>1. Head(ring) = "cr"
      BY <1>1, <1>4, <2>2, WidthCases
    <3>2. lastCr'
      BY <1>1, <3>1
    <3>. QED
      BY <1>1, <1>8, <2>2, <3>2, EolKept DEF Between
  <2>. QED
    BY <1>1, <2>1, <2>2, WidthCases
<1>10. Reading(texts, c + 1)'
  <2>1. c + 1 \in 0..(Len(texts) - 1)
    BY <1>2
  <2>. QED
    BY <1>3, <1>9, <2>1 DEF Reading
<1>. QED
  BY <1>6, <1>8, <1>10

LEMMA ReadLf ==
  ASSUME TypeOK, NEW texts, Closed(texts), NEW c \in 0..(Len(texts) - 1),
         NEW p \in Nat, p + 1 = Width * c, line = <<>>, lastCr, Width = 3,
         Arriving(texts, p), CliStep
  PROVE  /\ UNCHANGED <<capture, stray>> /\ Reading(texts, c)' /\ LinesEnd'
         /\ Head(ring) # "END"
<1>1. ReadToken /\ eol' = eol /\ eol \in Eols
  BY DEF CliStep, DropLf, EndLine, AddText, ReadToken, TypeOK
<1>2. texts \in Seq(Texts) /\ Len(texts) \in Nat
  BY DEF Closed
<1>3. Head(ring) = Lines(texts)[p + 1] /\ Arriving(texts, p + 1)'
  BY <1>1, <1>2, ArrivingRead
<1>4. Head(ring) = "lf"
  <2>1. p + 1 = Width * (c - 1) + 3 /\ c - 1 \in 0..(Len(texts) - 1)
    BY <1>2
  <2>2. eol[2] = "lf"
    BY <1>1, WidthCases
  <2>. QED
    BY <1>1, <1>2, <1>3, <2>1, <2>2, LinesAt
<1>5. DropLf
  BY <1>4 DEF CliStep, EndLine, AddText
<1>6. line' = <<>> /\ UNCHANGED <<capture, stray>>
  BY <1>5 DEF DropLf
<1>7. Between(texts, c, p + 1)'
  BY <1>1, <1>6, EolKept DEF Between
<1>8. Reading(texts, c)'
  BY <1>3, <1>7 DEF Reading
<1>. QED
  BY <1>4, <1>6, <1>8 DEF LinesEnd

LEMMA ComingRead ==
  ASSUME TypeOK, CliStep, Coming, Head(ring) # "END"
  PROVE  Coming'
<1>1. ReadToken
  BY DEF CliStep, DropLf, EndLine, AddText
<1>2. /\ Unread \in Seq(Tokens) /\ Unread' \in Seq(Tokens)
      /\ Head(ring) = Unread[1] /\ Len(Unread') = Len(Unread) - 1
      /\ \A i \in 1..Len(Unread') : Unread'[i] = Unread[i + 1]
  BY <1>1, UnreadRead
<1>3. PICK i \in 1..Len(Unread) : Unread[i] = "END"
  BY DEF Coming
<1>4. i - 1 \in 1..Len(Unread') /\ (i - 1) + 1 = i
  BY <1>2, <1>3
<1>. QED
  BY <1>2, <1>3, <1>4 DEF Coming

(* What reading one token of something sent can do. *)
LEMMA ReadingRead ==
  ASSUME TypeOK, LinesEnd, NEW texts, Closed(texts), NEW c, Reading(texts, c), CliStep,
         mode = "prompt" => c + 1 < Len(texts)
  PROVE  \/ /\ UNCHANGED <<capture, stray>> /\ Reading(texts, c)' /\ LinesEnd'
            /\ Coming => Coming'
         \/ /\ c + 1 < Len(texts) /\ LineDone(<<texts[c + 1]>>) /\ line' = <<>>
            /\ Reading(texts, c + 1)'
            /\ Coming => Coming'
         \/ /\ c + 1 = Len(texts) /\ LineDone(<<"END">>) /\ line' = <<>> /\ Quiet'
            /\ mode' = "prompt" => Done'
<1>1. c \in 0..(Len(texts) - 1)
  BY DEF Reading
<1>2. PICK p \in Nat : Between(texts, c, p) /\ Arriving(texts, p)
  BY DEF Reading
<1>3. CASE p = Width * c /\ line = <<>>
  BY <1>1, <1>2, <1>3, ReadText, ComingRead DEF Done
<1>4. CASE p = Width * c + 1 /\ line = <<texts[c + 1]>> /\ c + 1 < Len(texts)
  BY <1>1, <1>2, <1>4, ReadEol, ComingRead
<1>5. CASE p + 1 = Width * c /\ line = <<>> /\ lastCr /\ Width = 3
  BY <1>1, <1>2, <1>5, ReadLf, ComingRead
<1>. QED
  BY <1>2, <1>3, <1>4, <1>5 DEF Between

-----------------------------------------------------------------------------
(* What a line does *)

LEMMA BlockClosed ==
  ASSUME NEW b \in Blocks
  PROVE  /\ Closed(b) /\ Closed(Tail(b)) /\ Closed(<<"set">> \o b)
         /\ Len(b) \in Nat /\ Len(b) > 1
         /\ Len(Tail(b)) = Len(b) - 1 /\ \A i \in 1..(Len(b) - 1) : Tail(b)[i] = b[i + 1]
         /\ Len(<<"set">> \o b) = Len(b) + 1 /\ (<<"set">> \o b)[1] = "set"
         /\ \A i \in 1..Len(b) : (<<"set">> \o b)[i + 1] = b[i]
<1>1. /\ b \in Seq(Texts) /\ Len(b) \in Nat /\ Len(b) > 1
      /\ b[1] \in {"BEGIN", "OTHER"} /\ b[Len(b)] = "END"
      /\ \A i \in 2..(Len(b) - 1) : b[i] \in Bodies
  BY BlockTexts
<1>2. "END" \notin Bodies
  BY CaptureAssumption DEF CaptureAssumption, Frame
<1>3. \A i \in 1..(Len(b) - 1) : b[i] # "END"
  BY <1>1, <1>2
<1>4. Closed(b)
  BY <1>1, <1>3 DEF Closed
<1>. DEFINE t == Tail(b)
            s == <<"set">> \o b
<1>5. t \in Seq(Texts) /\ Len(t) = Len(b) - 1 /\ \A i \in 1..(Len(b) - 1) : t[i] = b[i + 1]
  BY <1>1
<1>6. "set" \in Texts
  BY DEF Texts
<1>7. /\ s \in Seq(Texts) /\ Len(s) = Len(b) + 1 /\ s[1] = "set"
      /\ \A i \in 1..Len(b) : s[i + 1] = b[i]
  <2>1. <<"set">> \in Seq(Texts) /\ Len(<<"set">>) = 1
    BY <1>6
  <2>2. s \in Seq(Texts) /\ Len(s) = 1 + Len(b)
    BY <1>1, <2>1, ConcatProperties
  <2>3. s[1] = "set"
    BY <1>1, <2>1
  <2>4. ASSUME NEW i \in 1..Len(b)
        PROVE  s[i + 1] = b[i]
    BY <1>1, <2>1
  <2>. QED
    BY <1>1, <2>2, <2>3, <2>4
<1>. HIDE DEF t, s
<1>8. Closed(t)
  <2>1. Len(t) > 0 /\ t[Len(t)] = "END"
    BY <1>1, <1>5
  <2>2. ASSUME NEW i \in 1..(Len(t) - 1)
        PROVE  t[i] # "END"
    BY <1>1, <1>3, <1>5
  <2>. QED
    BY <1>5, <2>1, <2>2 DEF Closed
<1>9. Closed(s)
  <2>1. Len(s) > 0 /\ s[Len(s)] = "END"
    BY <1>1, <1>7
  <2>2. ASSUME NEW i \in 1..(Len(s) - 1)
        PROVE  s[i] # "END"
    <3>1. CASE i = 1
      BY <1>7, <3>1
    <3>2. CASE i > 1
      <4>1. i - 1 \in 1..(Len(b) - 1) /\ i = (i - 1) + 1
        BY <1>1, <1>7, <3>2
      <4>2. s[(i - 1) + 1] = b[i - 1]
        BY <1>1, <1>7, <4>1
      <4>. QED
        BY <1>3, <4>1, <4>2
    <3>. QED
      BY <3>1, <3>2
  <2>. QED
    BY <1>7, <2>1, <2>2 DEF Closed
<1>. QED
  BY <1>1, <1>4, <1>5, <1>7, <1>8, <1>9 DEF t, s

LEMMA BodyTexts ==
  ASSUME NEW x \in Bodies
  PROVE  x \notin Frame /\ x \notin {"set", "cancel"}
  BY CaptureAssumption DEF CaptureAssumption

(* A line of a block takes the capture on by one line. *)
LEMMA BlockLineRead ==
  ASSUME TypeOK, NEW b \in Blocks, NEW k \in 0..(Len(b) - 2), mode # "prompt",
         Captured(b, k), LineDone(<<b[k + 1]>>)
  PROVE  mode' # "prompt" /\ Captured(b, k + 1)' /\ UNCHANGED <<stored, stray>>
<1>1. PemLine(<<b[k + 1]>>) /\ UNCHANGED stray
  BY DEF LineDone
<1>2. /\ Len(b) \in Nat /\ Len(b) > 1 /\ b[1] \in {"BEGIN", "OTHER"}
      /\ \A i \in 2..(Len(b) - 1) : b[i] \in Bodies
  BY BlockTexts
<1>3. CASE k = 0
  <2>1. BeginLine(<<b[1]>>)
    BY <1>1, <1>2, <1>3 DEF PemLine, EmptyLine, CancelLine, JunkLine, BlockLine, Swallow,
                            Inside, IsBegin
  <2>2. HasLabel(<<b[1]>>) <=> b[1] = "BEGIN"
    BY DEF HasLabel
  <2>3. CASE b[1] = "BEGIN"
    <3>1. mode' = "block" /\ pem' = <<<<b[1]>>>> /\ stored' = stored
      BY <2>1, <2>2, <2>3 DEF BeginLine
    <3>2. pem' = [i \in 1..1 |-> <<b[i]>>]
      BY <3>1
    <3>. QED
      BY <1>1, <1>3, <2>3, <3>1, <3>2 DEF Captured
  <2>4. CASE b[1] # "BEGIN"
    BY <1>1, <1>3, <2>1, <2>2, <2>4 DEF BeginLine, Captured
  <2>. QED
    BY <2>3, <2>4
<1>4. CASE k > 0
  <2>. DEFINE l == <<b[k + 1]>>
  <2>1. b[k + 1] \in Bodies
    BY <1>2, <1>4
  <2>2. l # <<>> /\ Head(l) = b[k + 1] /\ l # <<"cancel">> /\ ~ IsBegin(l) /\ ~ IsEnd(l)
    BY <2>1, BodyTexts DEF IsBegin, IsEnd, Frame
  <2>3. mode \in {"block", "wrong", "large"}
    BY <1>4 DEF Captured
  <2>4. BlockLine(l) \/ Swallow(l)
    BY <1>1, <2>2, <2>3 DEF PemLine, EmptyLine, CancelLine, BeginLine, JunkLine
  <2>5. UNCHANGED <<stored, stray>> /\ mode' # "prompt"
    BY <1>1, <2>2, <2>3, <2>4 DEF BlockLine, Swallow
  <2>6. CASE b[1] = "BEGIN" /\ mode = "block"
    <3>1. pem = [i \in 1..k |-> <<b[i]>>]
      BY <1>4, <2>6 DEF Captured
    <3>2. CASE BlockLine(l)
      <4>1. mode' = "block" /\ pem' = Append(pem, l)
        BY <2>2, <2>6, <3>2 DEF BlockLine
      <4>2. Append(pem, l) = [i \in 1..(k + 1) |-> <<b[i]>>]
        BY <3>1
      <4>. QED
        BY <1>4, <2>5, <2>6, <4>1, <4>2 DEF Captured
    <3>3. CASE Swallow(l)
      BY <1>4, <2>2, <2>5, <2>6, <3>3 DEF Swallow, Captured
    <3>. QED
      BY <2>4, <3>2, <3>3
  <2>7. CASE b[1] = "BEGIN" /\ mode = "large"
    BY <1>4, <2>2, <2>4, <2>5, <2>7 DEF BlockLine, Swallow, Captured
  <2>8. CASE b[1] # "BEGIN" /\ mode = "wrong"
    BY <1>4, <2>2, <2>4, <2>5, <2>8 DEF BlockLine, Swallow, Captured
  <2>. QED
    BY <1>4, <2>6, <2>7, <2>8 DEF Captured
<1>. QED
  BY <1>3, <1>4

(* The END line stores the whole block or nothing. *)
LEMMA EndLineRead ==
  ASSUME TypeOK, NEW b \in Blocks, mode # "prompt", Captured(b, Len(b) - 1),
         LineDone(<<"END">>)
  PROVE  /\ mode' = "prompt" /\ UNCHANGED stray
         /\ stored' = stored \/ stored' = [i \in DOMAIN b |-> <<b[i]>>]
<1>1. PemLine(<<"END">>) /\ UNCHANGED stray
  BY DEF LineDone
<1>2. b \in Seq(Texts) /\ Len(b) \in Nat /\ Len(b) > 1 /\ b[Len(b)] = "END"
  BY BlockTexts
<1>3. CASE BlockLine(<<"END">>)
  <2>1. mode = "block" /\ mode' = "prompt" /\ stored' = Append(pem, <<"END">>)
    BY <1>3 DEF BlockLine, IsEnd, EndCapture
  <2>2. pem = [i \in 1..(Len(b) - 1) |-> <<b[i]>>]
    BY <1>2, <2>1 DEF Captured
  <2>3. Append(pem, <<"END">>) = [i \in 1..Len(b) |-> <<b[i]>>]
    BY <1>2, <2>2
  <2>4. DOMAIN b = 1..Len(b)
    BY <1>2
  <2>. QED
    BY <1>1, <2>1, <2>3, <2>4
<1>4. CASE Swallow(<<"END">>)
  BY <1>1, <1>4 DEF Swallow, IsEnd, EndCapture
<1>5. mode # "open"
  BY <1>2 DEF Captured
<1>. QED
  BY <1>1, <1>3, <1>4, <1>5 DEF PemLine, EmptyLine, CancelLine, BeginLine, JunkLine, IsBegin

(* Before a block its lines but the first are ignored. *)
LEMMA TailLineRead ==
  ASSUME mode = "open", NEW x \in Bodies \cup {"END"}, LineDone(<<x>>)
  PROVE  mode' = "open" /\ UNCHANGED <<stored, stray>>
<1>1. PemLine(<<x>>) /\ UNCHANGED stray
  BY DEF LineDone
<1>2. x \notin {"BEGIN", "OTHER", "cancel"}
  BY BodyTexts DEF Frame
<1>3. JunkLine(<<x>>)
  BY <1>1, <1>2 DEF PemLine, EmptyLine, CancelLine, BeginLine, BlockLine, Swallow, IsBegin
<1>. QED
  BY <1>1, <1>3 DEF JunkLine

LEMMA SetLineRead ==
  ASSUME mode = "prompt", ~ stray, LineDone(<<"set">>)
  PROVE  mode' = "open" /\ stored' = stored /\ ~ stray'
<1>1. PromptLine(<<"set">>)
  BY DEF LineDone
<1>2. "set" \notin Frame \cup Bodies
  BY CaptureAssumption DEF CaptureAssumption, Frame
<1>3. ~ \E i \in DOMAIN <<"set">> : <<"set">>[i] \in Frame \cup Bodies
  BY <1>2
<1>4. ~ stray'
  BY <1>1, <1>3, Zenon DEF PromptLine
<1>. QED
  BY <1>1, <1>4 DEF PromptLine

(* A line that has nothing to do with a block stores nothing. *)
LEMMA QuietLineRead ==
  ASSUME ~ stray, NEW l \in Seq(Texts), \A i \in 1..Len(l) : l[i] \notin Pasted, LineDone(l)
  PROVE  stored' = stored /\ ~ stray' /\ line' = <<>>
<1>1. CASE mode = "prompt"
  <2>1. PromptLine(l) /\ line' = <<>>
    BY <1>1 DEF LineDone
  <2>2. ~ \E i \in DOMAIN l : l[i] \in Frame \cup Bodies
    BY DEF Pasted
  <2>3. ~ stray'
    BY <2>1, <2>2, Zenon DEF PromptLine
  <2>4. stored' = stored
    BY <2>1 DEF PromptLine, capture
  <2>. QED
    BY <2>1, <2>3, <2>4
<1>2. CASE mode # "prompt"
  <2>1. PemLine(l) /\ UNCHANGED stray
    BY <1>2 DEF LineDone
  <2>2. ~ IsEnd(l) /\ ~ IsBegin(l)
    BY DEF IsEnd, IsBegin, Pasted, Frame
  <2>. QED
    BY <2>1, <2>2 DEF PemLine, EmptyLine, CancelLine, BeginLine, JunkLine, BlockLine, Swallow,
                      EndCapture, capture, LineDone
<1>. QED
  BY <1>1, <1>2

-----------------------------------------------------------------------------
(* The steps of the console *)

LEMMA StoredKept ==
  ASSUME StoredWhole, stored' = stored, lost' = lost
  PROVE  StoredWhole'
  BY DEF StoredWhole

LEMMA QuietRead ==
  ASSUME TypeOK, Quiet, LinesEnd, ~ stray, CliStep
  PROVE  Quiet' /\ LinesEnd' /\ ~ stray' /\ stored' = stored
<1>1. ReadToken /\ lastCr' = (Head(ring) = "cr")
  BY DEF CliStep, DropLf, EndLine, AddText, ReadToken
<1>2. /\ Unread \in Seq(Tokens) /\ Unread # <<>> /\ Unread' \in Seq(Tokens)
      /\ Head(ring) = Unread[1] /\ Len(Unread') = Len(Unread) - 1
      /\ \A i \in 1..Len(Unread') : Unread'[i] = Unread[i + 1]
  BY <1>1, UnreadRead
<1>3. Len(Unread) \in Nat /\ Len(Unread) > 0 /\ Len(Unread') \in Nat
  BY <1>2
<1>4. \A i \in 1..Len(Unread') : Unread'[i] \notin Pasted
  <2>1. \A i \in 1..Len(Unread') : i + 1 \in 1..Len(Unread)
    BY <1>2, <1>3
  <2>. QED
    BY <1>2, <2>1 DEF Quiet
<1>5. Unread' # <<>> => Unread'[Len(Unread')] \in {"cr", "lf"}
  <2>1. ASSUME Unread' # <<>>
        PROVE  Unread'[Len(Unread')] = Unread[Len(Unread)]
    <3>1. Len(Unread') > 0
      BY <1>2, <2>1, EmptySeq
    <3>2. Len(Unread') \in 1..Len(Unread') /\ Len(Unread') + 1 = Len(Unread)
      BY <1>2, <1>3, <3>1
    <3>. QED
      BY <1>2, <3>2
  <2>. QED
    BY <1>2, <2>1 DEF Quiet
<1>6. Head(ring) \notin Pasted
  BY <1>2, <1>3 DEF Quiet
<1>7. line \in Seq(Texts)
  BY DEF TypeOK
<1>8. CASE DropLf
  <2>1. line' = <<>> /\ stored' = stored /\ stray' = stray
    BY <1>8 DEF DropLf, LinesEnd, capture
  <2>. QED
    BY <1>4, <1>5, <2>1 DEF Quiet, LinesEnd
<1>9. CASE EndLine
  <2>1. LineDone(line) /\ \A i \in 1..Len(line) : line[i] \notin Pasted
    BY <1>9 DEF EndLine, Quiet
  <2>2. line' = <<>> /\ stored' = stored /\ ~ stray'
    BY <1>7, <2>1, QuietLineRead
  <2>. QED
    BY <1>4, <1>5, <2>2 DEF Quiet, LinesEnd
<1>10. CASE AddText
  <2>. DEFINE l == IF Len(line) < LineRoom THEN Append(line, Head(ring)) ELSE line
  <2>1. Head(ring) \in Texts /\ Head(ring) \notin {"cr", "lf"}
    BY <1>2, <1>3, <1>10 DEF AddText, Tokens
  <2>2. l \in Seq(Texts) /\ \A i \in 1..Len(l) : l[i] \notin Pasted
    BY <1>6, <1>7, <2>1 DEF Quiet
  <2>3. ~ IsEnd(l)
    BY <2>2 DEF IsEnd, Pasted, Frame
  <2>. HIDE DEF l
  <2>4. line' = l /\ UNCHANGED <<capture, stray>>
    BY <1>10, <2>3 DEF AddText, l
  <2>5. ~ lastCr'
    BY <1>1, <2>1
  <2>6. Unread' # <<>>
    <3>1. Unread[Len(Unread)] \in {"cr", "lf"}
      BY <1>2 DEF Quiet
    <3>2. Len(Unread) # 1
      BY <1>2, <2>1, <3>1
    <3>3. Len(Unread') > 0
      BY <1>2, <1>3, <3>2
    <3>. QED
      BY <3>3
  <2>. QED
    BY <1>4, <1>5, <2>2, <2>4, <2>5, <2>6 DEF Quiet, LinesEnd, capture
<1>. QED
  BY <1>8, <1>9, <1>10 DEF CliStep

LEMMA BlockRead ==
  ASSUME TypeOK, Whole, NEW b \in Blocks, InBlock(b), CliStep,
         sent = "block" => Coming
  PROVE  Whole'
<1>1. PICK c \in 0..(Len(b) - 1) : Reading(b, c) /\ Captured(b, c)
  BY DEF InBlock
<1>2. mode # "prompt" /\ lost' = lost /\ sent' = sent
  BY DEF InBlock, CliStep, DropLf, EndLine, AddText, ReadToken
<1>3. Closed(b) /\ Len(b) \in Nat
  BY BlockClosed
<1>4. CASE /\ UNCHANGED <<capture, stray>> /\ Reading(b, c)' /\ LinesEnd'
           /\ Coming => Coming'
  <2>1. InBlock(b)'
    BY <1>1, <1>2, <1>4 DEF InBlock, Captured, capture
  <2>. QED
    BY <1>2, <1>4, <2>1, StoredKept DEF Whole, capture
<1>5. CASE /\ c + 1 < Len(b) /\ LineDone(<<b[c + 1]>>) /\ line' = <<>>
           /\ Reading(b, c + 1)'
           /\ Coming => Coming'
  <2>1. c \in 0..(Len(b) - 2) /\ c + 1 \in 0..(Len(b) - 1)
    BY <1>3, <1>5
  <2>2. mode' # "prompt" /\ Captured(b, c + 1)' /\ UNCHANGED <<stored, stray>>
    BY <1>1, <1>2, <1>5, <2>1, BlockLineRead
  <2>3. InBlock(b)'
    BY <1>5, <2>1, <2>2 DEF InBlock
  <2>. QED
    BY <1>2, <1>5, <2>2, <2>3, StoredKept DEF Whole, LinesEnd
<1>6. CASE /\ c + 1 = Len(b) /\ LineDone(<<"END">>) /\ line' = <<>> /\ Quiet'
           /\ mode' = "prompt" => Done'
  <2>1. c = Len(b) - 1
    BY <1>3, <1>6
  <2>2. mode' = "prompt" /\ stray' = stray
        /\ (stored' = stored \/ stored' = [i \in DOMAIN b |-> <<b[i]>>])
    BY <1>1, <1>2, <1>6, <2>1, EndLineRead
  <2>3. StoredWhole'
    BY <1>2, <2>2, StoredKept DEF Whole, StoredWhole
  <2>. QED
    BY <1>6, <2>2, <2>3 DEF Whole, LinesEnd
<1>. QED
  BY <1>1, <1>2, <1>3, <1>4, <1>5, <1>6, ReadingRead DEF Whole

LEMMA ScriptRead ==
  ASSUME TypeOK, Whole, NEW b \in Blocks, InScript(b), CliStep,
         sent = "block" => Coming
  PROVE  Whole'
<1>. DEFINE s == <<"set">> \o b
<1>1. /\ Closed(s) /\ Len(b) \in Nat /\ Len(b) > 1 /\ Len(s) = Len(b) + 1
      /\ s[1] = "set" /\ \A i \in 1..Len(b) : s[i + 1] = b[i]
  BY BlockClosed
<1>2. lost' = lost /\ sent' = sent
  BY DEF CliStep, DropLf, EndLine, AddText, ReadToken
<1>3. \/ mode = "prompt" /\ Reading(s, 0)
      \/ mode # "prompt" /\ \E c \in 0..(Len(b) - 1) : Reading(s, c + 1) /\ Captured(b, c)
  BY DEF InScript
<1>4. \/ mode' = "prompt" /\ Reading(s, 0)'
      \/ mode' # "prompt" /\ \E c \in 0..(Len(b) - 1) : Reading(s, c + 1)' /\ Captured(b, c)'
      => InScript(b)'
  BY DEF InScript
<1>. HIDE DEF s
<1>5. CASE mode = "prompt" /\ Reading(s, 0)
  <2>1. CASE /\ UNCHANGED <<capture, stray>> /\ Reading(s, 0)' /\ LinesEnd'
             /\ Coming => Coming'
    <3>1. InScript(b)'
      BY <1>4, <1>5, <2>1 DEF capture
    <3>. QED
      BY <1>2, <2>1, <3>1, StoredKept DEF Whole, capture
  <2>2. CASE /\ LineDone(<<s[0 + 1]>>) /\ line' = <<>> /\ Reading(s, 0 + 1)'
             /\ Coming => Coming'
    <3>1. mode' = "open" /\ stored' = stored /\ ~ stray'
      BY <1>1, <1>5, <2>2, SetLineRead DEF Whole
    <3>2. 0 \in 0..(Len(b) - 1) /\ Captured(b, 0)'
      BY <1>1 DEF Captured
    <3>3. InScript(b)'
      BY <1>4, <2>2, <3>1, <3>2
    <3>. QED
      BY <1>2, <2>2, <3>1, <3>3, StoredKept DEF Whole, LinesEnd
  <2>3. 0 + 1 < Len(s)
    BY <1>1
  <2>. QED
    BY <1>1, <1>5, <2>1, <2>2, <2>3, ReadingRead DEF Whole
<1>6. ASSUME mode # "prompt", NEW c \in 0..(Len(b) - 1), Reading(s, c + 1), Captured(b, c)
      PROVE  Whole'
  <2>1. CASE /\ UNCHANGED <<capture, stray>> /\ Reading(s, c + 1)' /\ LinesEnd'
             /\ Coming => Coming'
    <3>1. InScript(b)'
      BY <1>4, <1>6, <2>1 DEF capture, Captured
    <3>. QED
      BY <1>2, <2>1, <3>1, StoredKept DEF Whole, capture
  <2>2. CASE /\ c + 1 + 1 < Len(s) /\ LineDone(<<s[c + 1 + 1]>>) /\ line' = <<>>
             /\ Reading(s, c + 1 + 1)'
             /\ Coming => Coming'
    <3>1. c \in 0..(Len(b) - 2) /\ c + 1 \in 0..(Len(b) - 1) /\ c + 1 \in 1..Len(b)
      BY <1>1, <2>2
    <3>2. s[c + 1 + 1] = b[c + 1]
      BY <1>1, <3>1
    <3>3. mode' # "prompt" /\ Captured(b, c + 1)' /\ UNCHANGED <<stored, stray>>
      BY <1>6, <2>2, <3>1, <3>2, BlockLineRead
    <3>4. InScript(b)'
      BY <1>4, <2>2, <3>1, <3>3
    <3>. QED
      BY <1>2, <2>2, <3>3, <3>4, StoredKept DEF Whole, LinesEnd
  <2>3. CASE /\ c + 1 + 1 = Len(s) /\ LineDone(<<"END">>) /\ line' = <<>> /\ Quiet'
             /\ mode' = "prompt" => Done'
    <3>1. c = Len(b) - 1
      BY <1>1, <2>3
    <3>2. mode' = "prompt" /\ stray' = stray
          /\ (stored' = stored \/ stored' = [i \in DOMAIN b |-> <<b[i]>>])
      BY <1>6, <2>3, <3>1, EndLineRead
    <3>3. StoredWhole'
      BY <1>2, <3>2, StoredKept DEF Whole, StoredWhole
    <3>. QED
      BY <2>3, <3>2, <3>3 DEF Whole, LinesEnd
  <2>. QED
    BY <1>1, <1>6, <2>1, <2>2, <2>3, ReadingRead DEF Whole
<1>. QED
  BY <1>3, <1>5, <1>6

LEMMA TailRead ==
  ASSUME TypeOK, Whole, NEW b \in Blocks, InTail(b), CliStep
  PROVE  Whole'
<1>. DEFINE t == Tail(b)
<1>1. /\ Closed(t) /\ Len(b) \in Nat /\ Len(b) > 1 /\ Len(t) = Len(b) - 1
      /\ \A i \in 1..(Len(b) - 1) : t[i] = b[i + 1]
  BY BlockClosed
<1>2. mode = "open" /\ lost' = lost /\ sent = "other" /\ sent' = sent
  BY DEF InTail, CliStep, DropLf, EndLine, AddText, ReadToken
<1>3. PICK c \in 0..(Len(b) - 2) : Reading(t, c)
  BY DEF InTail
<1>4. mode' = "open" /\ sent' = "other" /\ (\E k \in 0..(Len(b) - 2) : Reading(t, k)') => InTail(b)'
  BY DEF InTail
<1>. HIDE DEF t
<1>5. CASE UNCHANGED <<capture, stray>> /\ Reading(t, c)' /\ LinesEnd'
  <2>1. InTail(b)'
    BY <1>2, <1>4, <1>5 DEF capture
  <2>. QED
    BY <1>2, <1>5, <2>1, StoredKept DEF Whole, capture
<1>6. CASE c + 1 < Len(t) /\ LineDone(<<t[c + 1]>>) /\ line' = <<>> /\ Reading(t, c + 1)'
  <2>1. c + 1 \in 0..(Len(b) - 2) /\ c + 1 \in 1..(Len(b) - 1) /\ c + 2 \in 2..(Len(b) - 1)
    BY <1>1, <1>6
  <2>2. t[c + 1] = b[c + 2]
    BY <1>1, <2>1
  <2>3. t[c + 1] \in Bodies
    BY <2>1, <2>2, BlockTexts
  <2>4. mode' = "open" /\ UNCHANGED <<stored, stray>>
    BY <1>2, <1>6, <2>3, TailLineRead
  <2>5. InTail(b)'
    BY <1>2, <1>4, <1>6, <2>1, <2>4
  <2>. QED
    BY <1>2, <1>6, <2>4, <2>5, StoredKept DEF Whole, LinesEnd
<1>7. CASE LineDone(<<"END">>) /\ line' = <<>> /\ Quiet'
  <2>1. UNCHANGED <<stored, stray>>
    BY <1>2, <1>7, TailLineRead
  <2>. QED
    BY <1>2, <1>7, <2>1, StoredKept DEF Whole, LinesEnd
<1>. QED
  BY <1>1, <1>2, <1>3, <1>5, <1>6, <1>7, ReadingRead DEF Whole

(* After the END line only the end of that line is read, at the prompt. *)
LEMMA DoneRead ==
  ASSUME TypeOK, Done, CliStep
  PROVE  Done'
<1>1. ReadToken
  BY DEF CliStep, DropLf, EndLine, AddText
<1>2. /\ Unread \in Seq(Tokens) /\ Unread # <<>> /\ Unread' \in Seq(Tokens)
      /\ Head(ring) = Unread[1] /\ Len(Unread') = Len(Unread) - 1
      /\ \A i \in 1..Len(Unread') : Unread'[i] = Unread[i + 1]
  BY <1>1, UnreadRead
<1>3. Head(ring) \in {"cr", "lf"}
  BY <1>2 DEF Done
<1>4. \A i \in 1..Len(Unread') : Unread'[i] \in {"cr", "lf"}
  <2>1. \A i \in 1..Len(Unread') : i + 1 \in 1..Len(Unread)
    BY <1>2
  <2>. QED
    BY <1>2, <2>1 DEF Done
<1>5. mode' = "prompt" /\ line' = <<>>
  <2>1. CASE DropLf
    BY <2>1 DEF DropLf, Done, capture
  <2>2. CASE EndLine
    BY <2>2 DEF EndLine, LineDone, PromptLine, Done, capture
  <2>. QED
    BY <1>3, <2>1, <2>2 DEF CliStep, AddText
<1>. QED
  BY <1>4, <1>5 DEF Done

LEMMA CliWhole ==
  ASSUME TypeOK, Whole, CliStep
  PROVE  Whole'
<1>1. lost' = lost /\ sent' = sent
  BY DEF CliStep, DropLf, EndLine, AddText, ReadToken
<1>2. ASSUME Quiet, sent = "block" => Done
      PROVE  Whole'
  <2>1. Quiet' /\ LinesEnd' /\ ~ stray' /\ stored' = stored
    BY <1>2, QuietRead DEF Whole
  <2>2. sent' = "block" => Done'
    BY <1>1, <1>2, DoneRead
  <2>. QED
    BY <1>1, <2>1, <2>2, StoredKept DEF Whole
<1>3. CASE sent = "block" /\ Done
  <2>1. "cr" \notin Pasted /\ "lf" \notin Pasted
    BY NoEolInTexts DEF Pasted, Texts
  <2>2. Len(line) = 0
    BY <1>3, EmptySeq DEF Done
  <2>3. Unread \in Seq(Tokens)
    BY UnreadTyped
  <2>4. Unread # <<>> => Len(Unread) \in 1..Len(Unread)
    BY <2>3
  <2>5. Quiet
    BY <1>3, <2>1, <2>2, <2>4 DEF Quiet, Done
  <2>. QED
    BY <1>2, <1>3, <2>5
<1>4. CASE sent = "block" => Coming
  <2>1. CASE Quiet
    <3>1. ~ Coming
      BY <2>1 DEF Quiet, Coming, Pasted, Frame
    <3>. QED
      BY <1>2, <1>4, <2>1, <3>1
  <2>2. CASE ~ Quiet
    BY <1>4, <2>2, BlockRead, ScriptRead, TailRead DEF Whole
  <2>. QED
    BY <2>1, <2>2
<1>. QED
  BY <1>3, <1>4 DEF Whole

-----------------------------------------------------------------------------
(* The steps of the operator and of the interrupt *)

(* What depends on what is unread and on the reader only. *)
LEMMA ViewKept ==
  ASSUME Unread' = Unread, UNCHANGED <<eol, reader, capture, stray, lost, sent>>, Whole
  PROVE  Whole'
<1>1. Width' = Width /\ \A texts : Lines(texts)' = Lines(texts)
  BY EolKept
<1>2. line' = line /\ lastCr' = lastCr /\ mode' = mode /\ pem' = pem
      /\ stored' = stored /\ stray' = stray /\ lost' = lost /\ sent' = sent
  BY DEF reader, capture
<1>3. ASSUME NEW texts, NEW c, Reading(texts, c)
      PROVE  Reading(texts, c)'
  <2>1. PICK p \in Nat : Between(texts, c, p) /\ Arriving(texts, p)
    BY <1>3 DEF Reading
  <2>2. Between(texts, c, p)' /\ Arriving(texts, p)'
    BY <1>1, <1>2, <2>1 DEF Between, Arriving, Cut
  <2>. QED
    BY <1>3, <2>2 DEF Reading
<1>4. Quiet => Quiet'
  BY <1>2 DEF Quiet
<1>5. ASSUME NEW b \in Blocks
      PROVE  (InBlock(b) => InBlock(b)') /\ (InScript(b) => InScript(b)')
             /\ (InTail(b) => InTail(b)')
  <2>1. \A k : Captured(b, k) => Captured(b, k)'
    BY <1>2 DEF Captured
  <2>2. InBlock(b) => InBlock(b)'
    BY <1>2, <1>3, <2>1 DEF InBlock
  <2>3. InScript(b) => InScript(b)'
    BY <1>2, <1>3, <2>1 DEF InScript
  <2>4. InTail(b) => InTail(b)'
    BY <1>2, <1>3 DEF InTail
  <2>. QED
    BY <2>2, <2>3, <2>4
<1>6. (Done => Done') /\ (Coming => Coming')
  BY <1>2 DEF Done, Coming
<1>. QED
  BY <1>2, <1>4, <1>5, <1>6, StoredKept DEF Whole, LinesEnd

LEMMA SendQuiet ==
  ASSUME TypeOK, Whole, NEW tokens \in Seq(Tokens), Send(tokens, "other"),
         Len(tokens) > 0, tokens[Len(tokens)] \in {"cr", "lf"},
         \A i \in 1..Len(tokens) : tokens[i] \notin Pasted
  PROVE  Whole'
<1>1. Unread = <<>> /\ Unread' = tokens
  BY UnreadSend
<1>2. line = <<>> /\ Unread' # <<>>
  BY <1>1 DEF Whole, LinesEnd
<1>3. line' = line /\ lastCr' = lastCr /\ stray' = stray /\ stored' = stored /\ lost' = lost
      /\ sent' = "other"
  BY DEF Send, reader, capture
<1>4. Quiet'
  BY <1>1, <1>2, <1>3 DEF Quiet
<1>. QED
  BY <1>2, <1>3, <1>4, StoredKept DEF Whole, LinesEnd

(* A paste that starts on an empty line starts the reading of its lines. *)
LEMMA SendReading ==
  ASSUME TypeOK, Whole, NEW texts, Closed(texts), NEW tokens \in Seq(Tokens), NEW what,
         Send(tokens, what), \A i \in 1..Len(tokens) : tokens[i] = Lines(texts)[i],
         Cut(texts, Len(tokens)),
         what = "block" => \E i \in 1..Len(tokens) : tokens[i] = "END"
  PROVE  /\ Reading(texts, 0)' /\ ~ stray' /\ StoredWhole' /\ LinesEnd'
         /\ UNCHANGED <<capture, stray>> /\ sent' = what
         /\ sent' = "block" => Coming'
<1>1. Unread = <<>> /\ Unread' = tokens
  BY UnreadSend
<1>2. line = <<>>
  BY <1>1 DEF Whole, LinesEnd
<1>3. /\ line' = line /\ lastCr' = lastCr /\ eol' = eol /\ lost' = lost
      /\ UNCHANGED <<capture, stray>> /\ sent' = what
  BY DEF Send, reader
<1>4. Width' = Width /\ Lines(texts)' = Lines(texts)
  BY <1>3, EolKept
<1>5. texts \in Seq(Texts) /\ Len(texts) \in Nat /\ Len(texts) > 0 /\ Len(tokens) \in Nat
  BY DEF Closed
<1>6. \A i \in 1..Len(tokens) : 0 + i = i
  BY <1>5
<1>7. 0 + Len(tokens) = Len(tokens)
  BY <1>5
<1>8. Cut(texts, 0 + Len(Unread))'
  BY <1>1, <1>4, <1>7 DEF Cut
<1>9. Arriving(texts, 0)'
  BY <1>1, <1>4, <1>6, <1>8 DEF Arriving
<1>10. Width * 0 = 0
  <2>1. Width \in Nat
    BY WidthCases DEF TypeOK
  <2>. QED
    BY <2>1
<1>11. Between(texts, 0, 0)'
  BY <1>2, <1>3, <1>4, <1>10 DEF Between
<1>12. Reading(texts, 0)'
  BY <1>5, <1>9, <1>11 DEF Reading
<1>13. sent' = "block" => Coming'
  BY <1>1, <1>3 DEF Coming
<1>. QED
  BY <1>2, <1>3, <1>12, <1>13, StoredKept DEF Whole, LinesEnd, capture

(* What the operator can paste of a block are lines of the block. *)
LEMMA WholeLines ==
  ASSUME TypeOK, NEW texts, Closed(texts)
  PROVE  Lines(texts) \in Seq(Tokens) /\ Cut(texts, Len(Lines(texts)))
         /\ \E i \in 1..Len(Lines(texts)) : Lines(texts)[i] = "END"
<1>1. texts \in Seq(Texts) /\ Len(texts) \in 0..Len(texts) /\ eol \in Eols
  BY DEF Closed, TypeOK
<1>2. Len(Lines(texts)) = Width * Len(texts)
  BY <1>1, LinesAt
<1>3. Len(texts) > 0 /\ texts[Len(texts)] = "END"
  BY DEF Closed
<1>4. Lines(texts)[Width * (Len(texts) - 1) + 1] = "END"
  <2>1. Len(texts) - 1 \in 0..(Len(texts) - 1) /\ (Len(texts) - 1) + 1 = Len(texts)
    BY <1>1, <1>3
  <2>. QED
    BY <1>1, <1>3, <2>1, LinesAt
<1>5. Width * (Len(texts) - 1) + 1 \in 1..Len(Lines(texts))
  <2>1. CASE Width = 2
    BY <1>1, <1>2, <1>3, <2>1
  <2>2. CASE Width = 3
    BY <1>1, <1>2, <1>3, <2>2
  <2>. QED
    BY <1>1, <2>1, <2>2, WidthCases
<1>. QED
  BY <1>1, <1>2, <1>4, <1>5, LinesTyped DEF Cut

LEMMA PartLines ==
  ASSUME TypeOK, NEW b \in Blocks, NEW m \in 1..(Len(b) - 1)
  PROVE  /\ Lines(SubSeq(b, 1, m)) \in Seq(Tokens)
         /\ Len(Lines(SubSeq(b, 1, m))) = Width * m
         /\ Cut(b, Len(Lines(SubSeq(b, 1, m))))
         /\ \A i \in 1..Len(Lines(SubSeq(b, 1, m))) : Lines(SubSeq(b, 1, m))[i] = Lines(b)[i]
<1>. DEFINE part == SubSeq(b, 1, m)
<1>1. b \in Seq(Texts) /\ Len(b) \in Nat /\ eol \in Eols /\ m \in 0..Len(b)
  BY BlockTexts DEF TypeOK
<1>2. /\ part \in Seq(Texts) /\ Len(part) = m /\ \A i \in 1..Len(part) : part[i] = b[i]
  BY <1>1, PartTexts
<1>. HIDE DEF part
<1>3. Lines(part) \in Seq(Tokens) /\ Len(Lines(part)) = Width * m
  BY <1>1, <1>2, LinesTyped, LinesAt
<1>4. \A i \in 1..(Width * Len(part)) : Lines(part)[i] = Lines(b)[i]
  BY <1>1, <1>2, LinesPrefix
<1>5. Cut(b, Len(Lines(part)))
  BY <1>1, <1>3 DEF Cut
<1>. QED
  BY <1>2, <1>3, <1>4, <1>5 DEF part

LEMMA OpenLines ==
  ASSUME TypeOK, NEW b \in Blocks
  PROVE  LET tokens == Lines(Front(b)) \o <<Last(b)>>
         IN  /\ tokens \in Seq(Tokens) /\ Cut(b, Len(tokens))
             /\ \A i \in 1..Len(tokens) : tokens[i] = Lines(b)[i]
             /\ \E i \in 1..Len(tokens) : tokens[i] = "END"
<1>. DEFINE f == Lines(Front(b))
<1>1. b \in Seq(Texts) /\ Len(b) \in Nat /\ Len(b) > 1 /\ eol \in Eols /\ b[Len(b)] = "END"
      /\ Front(b) = SubSeq(b, 1, Len(b) - 1) /\ Last(b) = "END" /\ Len(b) - 1 \in 1..(Len(b) - 1)
  BY BlockTexts DEF TypeOK
<1>2. /\ f \in Seq(Tokens) /\ Len(f) = Width * (Len(b) - 1)
      /\ \A i \in 1..Len(f) : f[i] = Lines(b)[i]
  BY <1>1, PartLines
<1>3. Lines(b)[Width * (Len(b) - 1) + 1] = "END"
  <2>1. Len(b) - 1 \in 0..(Len(b) - 1) /\ (Len(b) - 1) + 1 = Len(b)
    BY <1>1
  <2>. QED
    BY <1>1, <2>1, LinesAt
<1>. HIDE DEF f
<1>. DEFINE tokens == f \o <<"END">>
<1>4. "END" \in Tokens
  BY DEF Tokens, Texts, Frame
<1>5. /\ tokens \in Seq(Tokens) /\ Len(tokens) = Len(f) + 1
      /\ \A i \in 1..Len(f) : tokens[i] = f[i]
      /\ tokens[Len(f) + 1] = "END"
  BY <1>2, <1>4
<1>. HIDE DEF tokens
<1>6. Cut(b, Len(tokens))
  BY <1>2, <1>5 DEF Cut
<1>7. ASSUME NEW i \in 1..Len(tokens)
      PROVE  tokens[i] = Lines(b)[i]
  <2>1. CASE i = Len(f) + 1
    BY <1>2, <1>3, <1>5, <2>1
  <2>2. CASE i # Len(f) + 1
    <3>1. i \in 1..Len(f)
      BY <1>2, <1>5, <2>2
    <3>. QED
      BY <1>2, <1>5, <3>1
  <2>. QED
    BY <2>1, <2>2
<1>8. Len(f) + 1 \in 1..Len(tokens)
  BY <1>2, <1>5
<1>. QED
  BY <1>1, <1>5, <1>6, <1>7, <1>8 DEF tokens, f

LEMMA TypeLineWhole ==
  ASSUME TypeOK, Whole, NEW text \in {<<>>, <<"cancel">>, <<"show">>, <<"set">>},
         Send(text \o eol, "other")
  PROVE  Whole'
<1>1. /\ eol \in Seq(Tokens) /\ Len(eol) \in {1, 2} /\ eol[1] \in {"cr", "lf"}
      /\ Len(eol) = 2 => eol[2] = "lf"
  BY EolTokens DEF TypeOK
<1>2. {"cancel", "show", "set"} \subseteq Tokens
      /\ {"cancel", "show", "set", "cr", "lf"} \cap Pasted = {}
  BY CaptureAssumption DEF CaptureAssumption, Tokens, Texts, Pasted, Frame
<1>3. /\ text \in Seq(Tokens) /\ Len(text) \in {0, 1}
      /\ Len(text) = 1 => text[1] \in {"cancel", "show", "set"}
  <2>1. CASE text = <<>>
    BY <2>1
  <2>2. CASE text = <<"cancel">>
    BY <1>2, <2>2
  <2>3. CASE text = <<"show">>
    BY <1>2, <2>3
  <2>4. CASE text = <<"set">>
    BY <1>2, <2>4
  <2>. QED
    BY <2>1, <2>2, <2>3, <2>4
<1>. DEFINE tokens == text \o eol
<1>4. /\ tokens \in Seq(Tokens) /\ Len(tokens) = Len(text) + Len(eol)
      /\ \A i \in 1..(Len(text) + Len(eol)) :
           tokens[i] = IF i <= Len(text) THEN text[i] ELSE eol[i - Len(text)]
  BY <1>1, <1>3, ConcatProperties
<1>. HIDE DEF tokens
<1>5. \A i \in 1..Len(eol) : eol[i] \in {"cr", "lf"}
  BY <1>1
<1>6. ASSUME NEW i \in 1..Len(tokens)
      PROVE  tokens[i] \in {"cancel", "show", "set", "cr", "lf"}
  <2>1. CASE i <= Len(text)
    BY <1>1, <1>3, <1>4, <2>1
  <2>2. CASE i > Len(text)
    <3>1. i - Len(text) \in 1..Len(eol) /\ tokens[i] = eol[i - Len(text)]
      BY <1>1, <1>3, <1>4, <2>2
    <3>. QED
      BY <1>5, <3>1
  <2>. QED
    BY <1>3, <1>4, <2>1, <2>2
<1>7. Len(tokens) > 0 /\ tokens[Len(tokens)] \in {"cr", "lf"}
  <2>1. /\ Len(tokens) \in 1..(Len(text) + Len(eol)) /\ Len(tokens) > Len(text)
        /\ Len(tokens) - Len(text) = Len(eol) /\ Len(eol) \in 1..Len(eol)
    BY <1>1, <1>3, <1>4
  <2>2. tokens[Len(tokens)] = eol[Len(eol)]
    BY <1>4, <2>1
  <2>. QED
    BY <1>5, <2>1, <2>2
<1>8. \A i \in 1..Len(tokens) : tokens[i] \notin Pasted
  BY <1>2, <1>6
<1>9. Send(tokens, "other")
  BY DEF tokens
<1>. QED
  BY <1>4, <1>7, <1>8, <1>9, SendQuiet

LEMMA OperatorWhole ==
  ASSUME TypeOK, Whole, Operator
  PROVE  Whole'
<1>1. ASSUME NEW text \in {<<>>, <<"cancel">>, <<"show">>}, TypeLine(text)
      PROVE  Whole'
  BY <1>1, TypeLineWhole DEF TypeLine
<1>2. ASSUME NEW b \in Blocks, StartSet(b)
      PROVE  Whole'
  <2>1. CASE Send(<<"set">> \o eol, "other")
    BY <2>1, TypeLineWhole
  <2>2. CASE Send(Lines(<<"set">> \o b), "block")
    <3>1. Closed(<<"set">> \o b)
      BY BlockClosed
    <3>2. Reading(<<"set">> \o b, 0)' /\ ~ stray' /\ StoredWhole' /\ LinesEnd'
          /\ UNCHANGED <<capture, stray>> /\ (sent' = "block" => Coming')
      BY <2>2, <3>1, WholeLines, SendReading
    <3>3. InScript(b)'
      BY <1>2, <3>2 DEF StartSet, InScript, capture
    <3>. QED
      BY <3>2, <3>3 DEF Whole
  <2>. QED
    BY <1>2, <2>1, <2>2 DEF StartSet
<1>3. ASSUME NEW b \in Blocks, mode # "prompt", Reading(b, 0)', ~ stray', StoredWhole',
             LinesEnd', UNCHANGED <<capture, stray>>, sent' = "block" => Coming'
      PROVE  Whole'
  <2>1. 0 \in 0..(Len(b) - 1) /\ Captured(b, 0)'
    BY BlockTexts DEF Captured
  <2>2. InBlock(b)'
    BY <1>3, <2>1 DEF InBlock, capture
  <2>. QED
    BY <1>3, <2>2 DEF Whole
<1>4. ASSUME NEW b \in Blocks, PasteBlock(b)
      PROVE  Whole'
  <2>1. Closed(b)
    BY BlockClosed
  <2>2. CASE Send(Lines(b), "block")
    <3>1. Reading(b, 0)' /\ ~ stray' /\ StoredWhole' /\ LinesEnd'
          /\ UNCHANGED <<capture, stray>> /\ (sent' = "block" => Coming')
      BY <2>1, <2>2, WholeLines, SendReading
    <3>. QED
      BY <1>3, <1>4, <3>1 DEF PasteBlock
  <2>3. CASE Send(Lines(Front(b)) \o <<Last(b)>>, "block")
    <3>. DEFINE tokens == Lines(Front(b)) \o <<Last(b)>>
    <3>1. /\ tokens \in Seq(Tokens) /\ Cut(b, Len(tokens))
          /\ \A i \in 1..Len(tokens) : tokens[i] = Lines(b)[i]
          /\ \E i \in 1..Len(tokens) : tokens[i] = "END"
      BY OpenLines
    <3>2. Send(tokens, "block")
      BY <2>3
    <3>. HIDE DEF tokens
    <3>3. Reading(b, 0)' /\ ~ stray' /\ StoredWhole' /\ LinesEnd'
          /\ UNCHANGED <<capture, stray>> /\ (sent' = "block" => Coming')
      BY <2>1, <3>1, <3>2, SendReading
    <3>. QED
      BY <1>3, <1>4, <3>3 DEF PasteBlock
  <2>. QED
    BY <1>4, <2>2, <2>3 DEF PasteBlock
<1>5. ASSUME NEW b \in Blocks, PastePart(b)
      PROVE  Whole'
  <2>1. ASSUME mode # "prompt", NEW n \in 1..(Len(b) - 1), Send(Lines(SubSeq(b, 1, n)), "other")
        PROVE  Whole'
    <3>1. Closed(b)
      BY BlockClosed
    <3>2. Reading(b, 0)' /\ ~ stray' /\ StoredWhole' /\ LinesEnd'
          /\ UNCHANGED <<capture, stray>> /\ (sent' = "block" => Coming')
      BY <2>1, <3>1, PartLines, SendReading
    <3>. QED
      BY <1>3, <2>1, <3>2
  <2>2. CASE mode = "open" /\ Send(Lines(Tail(b)), "other")
    <3>1. Closed(Tail(b)) /\ 0 \in 0..(Len(b) - 2)
      BY BlockClosed
    <3>2. Reading(Tail(b), 0)' /\ ~ stray' /\ StoredWhole' /\ LinesEnd'
          /\ UNCHANGED <<capture, stray>> /\ sent' = "other"
      BY <2>2, <3>1, WholeLines, SendReading
    <3>3. InTail(b)'
      BY <2>2, <3>1, <3>2 DEF InTail, capture
    <3>. QED
      BY <3>2, <3>3 DEF Whole
  <2>. QED
    BY <1>5, <2>1, <2>2 DEF PastePart
<1>. QED
  BY <1>1, <1>2, <1>4, <1>5 DEF Operator

LEMMA ReceiveWhole ==
  ASSUME TypeOK, Whole, Receive, lost' = lost
  PROVE  Whole'
<1>1. Unread' = Unread
  BY UnreadReceive
<1>2. UNCHANGED <<eol, reader, capture, stray, lost, sent>>
  BY DEF Receive
<1>. QED
  BY <1>1, <1>2, ViewKept

LEMMA WholeStep == WholeInv /\ [Next]_vars => WholeInv'
<1>. SUFFICES ASSUME WholeInv, [Next]_vars PROVE WholeInv'
  OBVIOUS
<1>1. TypeOK /\ TypeOK'
  BY TypeStep DEF WholeInv
<1>2. ASSUME lost' = 0
      PROVE  Whole'
  <2>1. lost = 0
    <3>1. CASE Operator
      BY <1>2, <3>1 DEF Operator, TypeLine, StartSet, PasteBlock, PastePart, Send
    <3>2. CASE Receive
      BY <1>1, <1>2, <3>2 DEF Receive, TypeOK
    <3>3. CASE CliStep
      BY <1>2, <3>3 DEF CliStep, DropLf, EndLine, AddText, ReadToken
    <3>4. CASE UNCHANGED vars
      BY <1>2, <3>4 DEF vars
    <3>. QED
      BY <3>1, <3>2, <3>3, <3>4 DEF Next
  <2>2. Whole
    BY <2>1 DEF WholeInv
  <2>3. CASE UNCHANGED vars
    <3>1. Unread' = Unread /\ UNCHANGED <<eol, reader, capture, stray, lost, sent>>
      BY <2>3 DEF vars, Unread
    <3>. QED
      BY <2>2, <3>1, ViewKept
  <2>. QED
    BY <1>1, <1>2, <2>1, <2>2, <2>3, OperatorWhole, ReceiveWhole, CliWhole DEF Next
<1>. QED
  BY <1>1, <1>2 DEF WholeInv

LEMMA InitWhole == Init => WholeInv
<1>. SUFFICES ASSUME Init PROVE Whole
  BY InitType DEF WholeInv
<1>1. ring = <<>> /\ wire = <<>> /\ line = <<>> /\ stray = FALSE /\ stored = <<>>
      /\ sent = "other"
  BY DEF Init
<1>2. Unread = <<>>
  BY <1>1, ConcatEmptySeq, EmptySeq DEF Unread
<1>3. Len(<<>>) = 0
  BY EmptySeq
<1>. QED
  BY <1>1, <1>2, <1>3 DEF Whole, StoredWhole, LinesEnd, Quiet

THEOREM WholeInvariance == Spec => []WholeInv
  BY InitWhole, WholeStep, PTL DEF Spec

(* If the ring dropped nothing, what is stored is one of the blocks pasted, *)
(* line for line: a block cut off, one with the wrong label or one too      *)
(* large leaves nothing behind that gets into the next.  Code: prv_read_pem *)
(* and prv_read_line.                                                       *)
THEOREM BlockStoredWhole == Spec => []StoredWhole
<1>1. WholeInv => StoredWhole
  BY DEF WholeInv, Whole, StoredWhole
<1>. QED
  BY <1>1, WholeInvariance, PTL

(* If the ring dropped nothing, no line of a paste is run as a command: the *)
(* console returns to the prompt on an END line and not before, and the LF  *)
(* of a CR+LF is not a line.  Code: prv_read_pem, prv_read_line, prv_handle.*)
THEOREM PasteIsNotRun == Spec => []PasteNotRun
<1>1. WholeInv => PasteNotRun
  <2>. SUFFICES ASSUME WholeInv, stray PROVE lost > 0
    BY DEF PasteNotRun
  <2>1. lost # 0 /\ lost \in Nat
    BY DEF WholeInv, Whole, TypeOK
  <2>. QED
    BY <2>1
<1>. QED
  BY <1>1, WholeInvariance, PTL
(* When all of a whole block was read and nothing was dropped, the console  *)
(* is back at the prompt, whatever the block: BlockEndsCapture waits only   *)
(* for the characters to be read.                                           *)
CaptureEnded == sent = "block" /\ lost = 0 /\ ring = <<>> /\ wire = <<>> => mode = "prompt"

(* A whole block sent is read to its end and never leaves the console       *)
(* inside prv_read_pem: not a block with the wrong label, one that is too   *)
(* large, nor one whose last line has no end.  Code: prv_read_pem and the   *)
(* END test of prv_read_line.                                               *)
THEOREM BlockReturnsToPrompt == Spec => []CaptureEnded
<1>1. WholeInv => CaptureEnded
  <2>. SUFFICES ASSUME WholeInv, sent = "block", lost = 0, ring = <<>>, wire = <<>>
                PROVE  mode = "prompt"
    BY DEF CaptureEnded
  <2>1. Unread = <<>> /\ Len(<<>>) = 0
    BY ConcatEmptySeq, EmptySeq DEF Unread
  <2>2. ~ Coming
    BY <2>1 DEF Coming
  <2>. QED
    BY <2>2 DEF WholeInv, Whole, Done
<1>. QED
  BY <1>1, WholeInvariance, PTL
===============================================================================
