----------------------------- MODULE LogFrames -----------------------------
(***************************************************************************)
(* decode_docker_log_bytes (src/agent/observer/docker_socket.py): the body *)
(* of a log request is a sequence of frames, each of an eight byte header  *)
(* (the stream, three bytes of padding, the payload's size) and a payload, *)
(* or it is plain text, when the container has a terminal.  Nothing in the *)
(* response says which; the loop finds out while it cuts the body up.      *)
(*                                                                         *)
(* Offsets count from 0, as in the code.                                   *)
(***************************************************************************)
EXTENDS Integers, Sequences

CONSTANT Bodies  \* what the engine can send

ASSUME BodiesAssumption == Bodies \subseteq Seq(0 .. 255)

VARIABLES
  body,    \* the response
  index,   \* how much of it the loop has taken
  chunks,  \* the payloads it has found, as offsets into body
  text     \* what is decoded: the chunks, the body, or nothing yet

vars == <<body, index, chunks, text>>

TypeOK ==
  /\ body \in Bodies
  /\ index \in 0 .. Len(body)
  /\ chunks \in Seq([from : Nat, to : Nat])
  /\ text \in {"none", "joined", "raw"}

Init ==
  /\ body \in Bodies
  /\ index = 0
  /\ chunks = <<>>
  /\ text = "none"

Byte(c) == body[c + 1]

\* int.from_bytes, big-endian.
Size(c) ==
  256 * (256 * (256 * Byte(c + 4) + Byte(c + 5)) + Byte(c + 6)) + Byte(c + 7)

NextIndex(c) == c + 8 + Size(c)

\* The loop condition: there is a header at c, of a stream Docker has.
HasHeader(c) == c + 8 <= Len(body) /\ Byte(c) \in 0 .. 2

\* Faulty variant: a frame that ends the body is taken for a truncated one.
FrameAtButLast(c) == HasHeader(c) /\ NextIndex(c) < Len(body)

FrameAt(c) == HasHeader(c) /\ NextIndex(c) <= Len(body)

\* Faulty variant: the padding is taken for a part of the payload.
PayloadWithPadding(c) == [from |-> c + 4, to |-> NextIndex(c)]

Payload(c) == [from |-> c + 8, to |-> NextIndex(c)]

TakeFrame ==
  /\ text = "none"
  /\ FrameAt(index)
  /\ chunks' = Append(chunks, Payload(index))
  /\ index' = NextIndex(index)
  /\ UNCHANGED <<body, text>>

\* Frames up to the end of the body are joined; anything else is text as it is.
\* An empty body, too.
Decode ==
  /\ text = "none"
  /\ ~ FrameAt(index)
  /\ text' = IF chunks # <<>> /\ index = Len(body) THEN "joined" ELSE "raw"
  /\ UNCHANGED <<body, index, chunks>>

Next == TakeFrame \/ Decode

Spec == Init /\ [][Next]_vars

-----------------------------------------------------------------------------
(* Properties                                                              *)

\* The offset to, and those before it where a frame that ends by to can begin.
Offsets(to) == {c \in 0 .. to : c = to \/ (HasHeader(c) /\ NextIndex(c) \in 0 .. to)}

\* The reference: from 0, frame by frame, cuts lead to the end of the body.
Framing(cuts) ==
  /\ {0, Len(body)} \subseteq cuts
  /\ \A c \in cuts \ {Len(body)} : NextIndex(c) \in cuts

\* The loop, which looks at one frame at a time and never goes back, tells a
\* body made of frames from any other: it joins the chunks if and only if the
\* body can be cut into frames and is not empty.
FramesRecognised ==
  text # "none" =>
    (text = "joined" <=> body # <<>> /\ \E cuts \in SUBSET Offsets(Len(body)) : Framing(cuts))

\* Joined chunks are the payloads: between two of them, and in front of the
\* first, there are the eight bytes of a header and nothing else; none is missing
\* at the end, and no header is in one.
NothingButHeadersDropped ==
  text = "joined" =>
    /\ chunks[1].from = 8
    /\ \A k \in 1 .. Len(chunks) - 1 : chunks[k + 1].from = chunks[k].to + 8
    /\ chunks[Len(chunks)].to = Len(body)
    /\ \A k \in 1 .. Len(chunks) : chunks[k].to - chunks[k].from = Size(chunks[k].from - 8)

-----------------------------------------------------------------------------
(* The inductive invariant                                                 *)

\* The chunks make up what has been taken of the body.
Tiled ==
  /\ chunks = <<>> <=> index = 0
  /\ chunks # <<>> => chunks[1].from = 8 /\ chunks[Len(chunks)].to = index
  /\ \A k \in 1 .. Len(chunks) - 1 : chunks[k + 1].from = chunks[k].to + 8
  /\ \A k \in 1 .. Len(chunks) :
       chunks[k].from >= 8 /\ chunks[k].to - chunks[k].from = Size(chunks[k].from - 8)

\* What has been taken can be cut into frames, in this way.
CutSoFar ==
  \E cuts \in SUBSET Offsets(index) :
    /\ {0, index} \subseteq cuts
    /\ \A c \in cuts \ {index} : NextIndex(c) \in cuts

\* Any way to cut the body up cuts it where the loop is.
NoOtherCut == \A cuts \in SUBSET Offsets(Len(body)) : Framing(cuts) => index \in cuts

\* The end was reached, or no frame begins where the loop stopped.
Stopped ==
  /\ text = "joined" => chunks # <<>> /\ index = Len(body)
  /\ text = "raw" => ~ FrameAt(index) /\ (chunks = <<>> \/ index # Len(body))

IInv == TypeOK /\ Tiled /\ CutSoFar /\ NoOtherCut /\ Stopped

=============================================================================
