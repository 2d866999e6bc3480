-------------------------- MODULE LogFramesProofs --------------------------
(***************************************************************************)
(* decode_docker_log_bytes, for every body.                                *)
(***************************************************************************)
EXTENDS LogFrames, SequenceTheorems, TLAPS

\* A byte of the body is a byte.
LEMMA ByteType ==
  ASSUME TypeOK, NEW c \in Nat, c < Len(body)
  PROVE  Byte(c) \in 0 .. 255
<1>1. body \in Seq(0 .. 255) /\ Len(body) \in Nat
  BY BodiesAssumption, LenProperties DEF TypeOK
<1>2. c + 1 \in 1 .. Len(body)
  BY <1>1
<1>3. QED
  BY <1>1, <1>2, ElementOfSeq DEF Byte

\* Two bytes, or more, are a number.
LEMMA BytesType ==
  ASSUME NEW m \in Nat, NEW n \in 0 .. 255
  PROVE  256 * m + n \in Nat
OBVIOUS

\* A header says a size, so the loop moves on by eight bytes at least.
LEMMA SizeType ==
  ASSUME TypeOK, NEW c \in Nat, HasHeader(c)
  PROVE  Size(c) \in Nat /\ NextIndex(c) \in Nat /\ NextIndex(c) = c + 8 + Size(c)
<1>1. Len(body) \in Nat /\ c + 8 <= Len(body)
  BY BodiesAssumption, LenProperties DEF TypeOK, HasHeader
<1>2. /\ c + 4 \in Nat /\ c + 4 < Len(body)
      /\ c + 5 \in Nat /\ c + 5 < Len(body)
      /\ c + 6 \in Nat /\ c + 6 < Len(body)
      /\ c + 7 \in Nat /\ c + 7 < Len(body)
  BY <1>1
<1>3. /\ Byte(c + 4) \in 0 .. 255
      /\ Byte(c + 5) \in 0 .. 255
      /\ Byte(c + 6) \in 0 .. 255
      /\ Byte(c + 7) \in 0 .. 255
  BY <1>2, ByteType
<1>4. 256 * Byte(c + 4) + Byte(c + 5) \in Nat
  <2>1. Byte(c + 4) \in Nat
    BY <1>3
  <2>2. QED
    BY <1>3, <2>1, BytesType
<1>5. 256 * (256 * Byte(c + 4) + Byte(c + 5)) + Byte(c + 6) \in Nat
  BY <1>3, <1>4, BytesType
<1>6. Size(c) \in Nat
  BY <1>3, <1>5, BytesType DEF Size
<1>7. QED
  BY <1>6 DEF NextIndex

\* A step leaves the body alone, and with it what is at each offset.
LEMMA SameBody ==
  ASSUME body' = body
  PROVE  /\ \A c : HasHeader(c)' = HasHeader(c)
         /\ \A c : NextIndex(c)' = NextIndex(c)
         /\ \A c : Size(c)' = Size(c)
         /\ \A c : FrameAt(c)' = FrameAt(c)
BY DEF HasHeader, NextIndex, Size, FrameAt, Byte

\* At the beginning nothing has been taken.
LEMMA InitInvariant ==
  ASSUME Init
  PROVE  IInv
<1>1. body \in Seq(0 .. 255) /\ Len(body) \in Nat
  BY BodiesAssumption, LenProperties DEF Init
<1>2. chunks \in Seq([from : Nat, to : Nat]) /\ Len(chunks) = 0
  BY DEF Init
<1>3. TypeOK
  BY <1>1, <1>2 DEF Init, TypeOK
<1>4. Tiled
  BY <1>2 DEF Init, Tiled
<1>5. CutSoFar
  <2>1. {0} \in SUBSET Offsets(index)
    BY DEF Init, Offsets
  <2>2. QED
    BY <2>1 DEF Init, CutSoFar
<1>6. NoOtherCut
  BY DEF Init, NoOtherCut, Framing
<1>7. Stopped
  BY DEF Init, Stopped
<1>8. QED
  BY <1>3, <1>4, <1>5, <1>6, <1>7 DEF IInv

\* Taking a frame: what the loop knows grows by that frame.
LEMMA TakeFrameInvariant ==
  ASSUME IInv, TakeFrame
  PROVE  IInv'
<1> USE DEF IInv
<1>1. TypeOK /\ Tiled /\ CutSoFar /\ NoOtherCut
  OBVIOUS
<1>2. /\ body' = body
      /\ text' = "none"
      /\ FrameAt(index)
      /\ chunks' = Append(chunks, Payload(index))
      /\ index' = NextIndex(index)
  BY DEF TakeFrame
<1>3. Len(body) \in Nat /\ index \in 0 .. Len(body)
  BY BodiesAssumption, LenProperties DEF TypeOK
<1>4. HasHeader(index) /\ NextIndex(index) <= Len(body)
  BY <1>2 DEF FrameAt
<1>5. /\ Size(index) \in Nat
      /\ index' \in Nat
      /\ index' = index + 8 + Size(index)
      /\ index' <= Len(body)
  BY <1>2, <1>3, <1>4, SizeType, <1>1
<1>6. /\ \A c : HasHeader(c)' = HasHeader(c)
      /\ \A c : NextIndex(c)' = NextIndex(c)
      /\ \A c : Size(c)' = Size(c)
  BY <1>2, SameBody
<1>7. Payload(index) \in [from : Nat, to : Nat]
  BY <1>2, <1>3, <1>5 DEF Payload
<1>8. chunks \in Seq([from : Nat, to : Nat])
  BY <1>1 DEF TypeOK
<1>9. /\ chunks' \in Seq([from : Nat, to : Nat])
      /\ Len(chunks) \in Nat
      /\ Len(chunks') = Len(chunks) + 1
      /\ \A k \in 1 .. Len(chunks) : chunks'[k] = chunks[k]
      /\ chunks'[Len(chunks) + 1] = Payload(index)
      /\ chunks' # <<>>
  BY <1>2, <1>7, <1>8, AppendProperties, LenProperties
<1>10. TypeOK'
  BY <1>1, <1>2, <1>5, <1>9 DEF TypeOK
<1>11. Payload(index).from = index + 8 /\ Payload(index).to = index'
  BY <1>2 DEF Payload
<1>12. Tiled'
  <2>1. chunks = <<>> <=> Len(chunks) = 0
    BY <1>8, EmptySeq
  <2>2. chunks'[1].from = 8
    BY <1>1, <1>9, <1>11, <2>1, <1>3 DEF Tiled
  <2>3. ASSUME NEW k \in 1 .. Len(chunks') - 1
        PROVE  chunks'[k + 1].from = chunks'[k].to + 8
    <3>1. CASE k = Len(chunks)
      BY <1>1, <1>9, <1>11, <2>1, <3>1 DEF Tiled
    <3>2. CASE k # Len(chunks)
      <4>1. k \in 1 .. Len(chunks) - 1 /\ k + 1 \in 1 .. Len(chunks)
        BY <1>9, <3>2
      <4>2. chunks'[k] = chunks[k] /\ chunks'[k + 1] = chunks[k + 1]
        BY <1>9, <4>1
      <4>3. QED
        BY <1>1, <4>1, <4>2 DEF Tiled
    <3>3. QED
      BY <3>1, <3>2
  <2>4. ASSUME NEW k \in 1 .. Len(chunks')
        PROVE  chunks'[k].from >= 8
               /\ chunks'[k].to - chunks'[k].from = Size(chunks'[k].from - 8)
    <3>1. CASE k = Len(chunks) + 1
      <4>1. chunks'[k].from = index + 8 /\ chunks'[k].to = index'
        BY <1>9, <1>11, <3>1
      <4>2. chunks'[k].from - 8 = index
        BY <1>3, <4>1
      <4>3. QED
        BY <1>3, <1>5, <4>1, <4>2
    <3>2. CASE k # Len(chunks) + 1
      <4>1. k \in 1 .. Len(chunks)
        BY <1>9, <3>2
      <4>2. QED
        BY <1>1, <1>9, <4>1 DEF Tiled
    <3>3. QED
      BY <3>1, <3>2
  <2>5. QED
    BY <1>3, <1>5, <1>6, <1>9, <1>11, <2>2, <2>3, <2>4 DEF Tiled
<1>13. CutSoFar'
  <2>1. PICK cuts \in SUBSET Offsets(index) :
          /\ {0, index} \subseteq cuts
          /\ \A c \in cuts \ {index} : NextIndex(c) \in cuts
    BY <1>1 DEF CutSoFar
  <2>2. ASSUME NEW c \in cuts \cup {index'}
        PROVE  /\ c \in 0 .. index'
               /\ c = index' \/ (HasHeader(c) /\ NextIndex(c) \in 0 .. index')
    <3>1. CASE c = index'
      BY <1>5, <3>1
    <3>2. CASE c = index
      <4>1. HasHeader(c) /\ NextIndex(c) = index'
        BY <1>2, <1>4, <3>2
      <4>2. c \in 0 .. index' /\ index' \in 0 .. index'
        BY <1>3, <1>5, <3>2
      <4>3. QED
        BY <4>1, <4>2
    <3>3. CASE c \in cuts /\ c # index
      <4>1. c \in 0 .. index /\ HasHeader(c) /\ NextIndex(c) \in 0 .. index
        BY <2>1, <3>3 DEF Offsets
      <4>2. QED
        BY <1>3, <1>5, <4>1
    <3>4. QED
      BY <3>1, <3>2, <3>3
  <2>3. cuts \cup {index'} \in SUBSET Offsets(index)'
    BY <1>6, <2>2 DEF Offsets
  <2>4. ASSUME NEW c \in (cuts \cup {index'}) \ {index'}
        PROVE  NextIndex(c)' \in cuts \cup {index'}
    BY <1>2, <1>6, <2>1
  <2>5. QED
    BY <2>1, <2>3, <2>4 DEF CutSoFar
<1>14. NoOtherCut'
  <2>1. SUFFICES ASSUME NEW cuts \in SUBSET Offsets(Len(body)), Framing(cuts)
                 PROVE  index' \in cuts
    BY <1>2, <1>6 DEF NoOtherCut, Framing, Offsets
  <2>2. index \in cuts
    BY <1>1, <2>1 DEF NoOtherCut
  <2>3. index # Len(body)
    BY <1>3, <1>4 DEF HasHeader
  <2>4. QED
    BY <1>2, <2>1, <2>2, <2>3 DEF Framing
<1>15. Stopped'
  BY <1>2 DEF Stopped
<1>16. QED
  BY <1>10, <1>12, <1>13, <1>14, <1>15

\* Any other step moves nothing but the verdict.
LEMMA RestInvariant ==
  ASSUME IInv, Decode \/ UNCHANGED vars
  PROVE  IInv'
<1>1. UNCHANGED <<body, index, chunks>>
  BY DEF Decode, vars
<1>2. TypeOK'
  BY <1>1 DEF IInv, TypeOK, Decode, vars
<1>3. Tiled'
  BY <1>1 DEF IInv, Tiled, Size, Byte
<1>4. CutSoFar'
  BY <1>1 DEF IInv, CutSoFar, Offsets, HasHeader, NextIndex, Size, Byte
<1>5. NoOtherCut'
  BY <1>1 DEF IInv, NoOtherCut, Framing, Offsets, HasHeader, NextIndex, Size, Byte
<1>6. Stopped'
  BY <1>1, SameBody DEF IInv, Stopped, Decode, vars
<1>7. QED
  BY <1>2, <1>3, <1>4, <1>5, <1>6 DEF IInv

\* The loop invariant: what has been taken is made of frames and is what the
\* chunks say, and any way to cut the body up agrees with it so far.
THEOREM LoopInvariant == Spec => []IInv
<1>1. Init => IInv
  BY InitInvariant
<1>2. IInv /\ [Next]_vars => IInv'
  BY TakeFrameInvariant, RestInvariant DEF Next
<1>3. QED
  BY <1>1, <1>2, PTL DEF Spec

\* For every body the loop joins the chunks if and only if the body can be cut
\* into frames and is not empty (FramesRecognised).
THEOREM FramesRecognisedAlways == Spec => []FramesRecognised
<1>1. IInv => FramesRecognised
  <2> SUFFICES ASSUME IInv, text # "none"
               PROVE  text = "joined" <=>
                        /\ body # <<>>
                        /\ \E cuts \in SUBSET Offsets(Len(body)) : Framing(cuts)
    BY DEF FramesRecognised
  <2> USE DEF IInv
  <2>1. body \in Seq(0 .. 255) /\ Len(body) \in Nat /\ index \in 0 .. Len(body)
    BY BodiesAssumption, LenProperties DEF TypeOK
  <2>2. body = <<>> <=> Len(body) = 0
    BY <2>1, EmptySeq
  <2>3. CASE text = "joined"
    <3>1. chunks # <<>> /\ index = Len(body)
      BY <2>3 DEF Stopped
    <3>2. body # <<>>
      BY <2>1, <2>2, <3>1 DEF Tiled
    <3>3. \E cuts \in SUBSET Offsets(Len(body)) : Framing(cuts)
      BY <3>1 DEF CutSoFar, Framing
    <3>4. QED
      BY <2>3, <3>2, <3>3
  <2>4. CASE text = "raw"
    <3>1. ASSUME body # <<>>, NEW cuts \in SUBSET Offsets(Len(body)), Framing(cuts)
          PROVE  FALSE
      <4>1. index \in cuts
        BY <3>1 DEF NoOtherCut
      <4>2. CASE index = Len(body)
        BY <2>1, <2>2, <2>4, <3>1, <4>2 DEF Stopped, Tiled
      <4>3. CASE index # Len(body)
        <5>1. HasHeader(index) /\ NextIndex(index) \in 0 .. Len(body)
          BY <4>1, <4>3 DEF Offsets
        <5>2. FrameAt(index)
          BY <2>1, <5>1 DEF FrameAt
        <5>3. QED
          BY <2>4, <5>2 DEF Stopped
      <4>4. QED
        BY <4>2, <4>3
    <3>2. QED
      BY <2>4, <3>1
  <2>5. QED
    BY <2>3, <2>4 DEF TypeOK
<1>2. QED
  BY <1>1, LoopInvariant, PTL

\* For every body, joining drops the headers and nothing else
\* (NothingButHeadersDropped).
THEOREM NothingButHeadersDroppedAlways == Spec => []NothingButHeadersDropped
<1>1. IInv => NothingButHeadersDropped
  BY DEF IInv, Stopped, Tiled, NothingButHeadersDropped
<1>2. QED
  BY <1>1, LoopInvariant, PTL

=============================================================================
