---------------------------- MODULE MCWireInput ----------------------------
(* Small instances of the byte formats for TLC. *)
EXTENDS WireInput

Run(n) == [i \in 1..n |-> 17]

\* Bytes at the borders of the formats, and runs around the long form of RLP.
SomePieces ==
    {<<b>> : b \in {0, 1, 55, 127, 128, 129, 184, 185, 187, 193, 248,
                    253, 254, 255}}
    \cup {Run(55), Run(56), <<56>>, <<1, 0>>, <<0, 0, 1, 0>>, <<255, 255, 0, 0>>}
\* Lists that stay short, lists that become long when the signature is added,
\* and one that is long before.
SomeTransfers ==
    {<<0, 0, 0, 0, 0, 0>>, <<1, 127, 128, 255, 256, 65535>>, <<1, 0, 2, 30, 21000, 500>>,
     <<256, 500, 65535, 256, 21000, 500>>}
SomeFields ==
    {<<192>>, <<193, 1>>, <<129, 5>>, <<0>>, <<129, 128>>, <<130, 0, 5>>,
     <<130, 1, 5>>, RlpPushBytes(Run(37)), RlpPushBytes(Run(60)), RlpPushBytes(Run(3))}
SomeLengths == (0..300) \cup (16000..16700) \cup {65534, 65535, 65536, 70000, 4194303}
SomeScalars == [1..IntBytes -> {0, 1, 128}]
SomeHalfOrder == <<1, 1>>
=============================================================================
