---------------------------- MODULE MCLogFrames ----------------------------
(***************************************************************************)
(* Log bodies for TLC: every sequence of up to three pieces, each a whole  *)
(* frame, a part of one, or text, some of which looks like a header.       *)
(***************************************************************************)
EXTENDS LogFrames

Frame(stream, payload) == <<stream, 0, 0, 0, 0, 0, 0, Len(payload)>> \o payload

Pieces ==
  { <<>>, <<65>>, <<1>>, <<2, 0, 0, 0, 0, 0, 0>>,
    Frame(1, <<>>), Frame(1, <<65>>), Frame(2, <<1, 0>>), Frame(3, <<>>),
    <<1, 0, 0, 0, 0, 0, 0, 2, 65>>, <<0, 0, 0, 0, 1, 0, 0, 0>> }

SomeBodies == {a \o b \o c : a, b, c \in Pieces}

=============================================================================
