--------------------------- MODULE MCPacketBytes ---------------------------
(* An instance of PacketBytes: packets of three priorities break each other off. *)
EXTENDS PacketBytes

kHigh == 1
kMedium == 2
kLow == 3
Levels == {kHigh, kMedium, kLow}

\* Nothing, plain bytes and both tokens; one content is too long once escaped.
ManyContents == [p \in Levels |->
  CASE p = kHigh -> {<<170>>}
    [] p = kMedium -> {<< >>, <<255, 0>>}
    [] p = kLow -> {<<0>>, <<1, 170, 255, 0>>, <<170, 255, 170, 255>>}]
OneOrTwo == [p \in Levels |-> IF p = kLow THEN 2 ELSE 1]

SomeNoise == {0, 170, 255}
=============================================================================
