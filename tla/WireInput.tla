----------------------------- MODULE WireInput -----------------------------
(***************************************************************************)
(* The bytes the readers and writers of WireFormats meet: whatever a host  *)
(* sends, piece by piece, transfers it encodes and alters, and what the    *)
(* signer itself writes.                                                   *)
(***************************************************************************)
EXTENDS WireFormats

CONSTANTS
    Pieces,       \* what a host may send next
    MaxSent,      \* bound: no further piece after that many bytes
    Transfers,    \* the six numbers of the transfers a host encodes
    Fields,       \* encoded items a host may put in place of a field
    AlteredBytes, \* bytes a byte may be changed to
    Lengths,      \* numbers written as compact size or short vector
    Scalars,      \* halves of a signature
    AddressBytes  \* bytes of an address: 20 in the code

ASSUME BytesAssumption ==
    /\ IntBytes \in 1..32 /\ HalfOrder \in [1..IntBytes -> Byte]
    /\ Scalars \subseteq [1..IntBytes -> Byte]
    /\ AddressBytes \in Nat \ {0}
    /\ AlteredBytes \subseteq Byte

\* The signed envelope has room for the parity, r, s and a longer list prefix;
\* every length in it has three bytes at most.
ASSUME CapacityAssumption ==
    /\ {MaxUnsigned, MaxSigned, UsizeMax} \subseteq Nat
    /\ 2 * IntBytes + 8 <= MaxUnsigned
    /\ MaxUnsigned + 2 * IntBytes + 11 <= MaxSigned
    /\ MaxSigned < 16777216 /\ MaxSigned <= UsizeMax

\* What a host sends are bytes; its numbers are those its encoder takes.
ASSUME HostAssumption ==
    /\ Pieces \subseteq Seq(Byte) /\ Fields \subseteq Seq(Byte)
    /\ Lengths \subseteq 0..UsizeMax
    /\ \A amounts \in Transfers, i \in 1..6 :
          amounts[i] \in Nat /\ Len(BigEndian(amounts[i])) <= IntBytes

VARIABLES
    input,     \* the bytes on hand
    written    \* what the signer or the host's encoder meant by them, or None

None == [format |-> "None"]
vars == <<input, written>>

Init == input = <<>> /\ written = None

Send(piece) ==
    /\ written = None
    /\ Len(input) < MaxSent
    /\ input' = input \o piece
    /\ Len(input') <= MaxUnsigned
    /\ UNCHANGED written

SomeAddress == [i \in 1..AddressBytes |-> 17]

\* encode_native_transfer; the request holds at most MAX_UNSIGNED_TX_BYTES.
SendTransfer(amounts) ==
    /\ input = <<>>
    /\ input' = EncodeNativeTransfer(amounts, SomeAddress)
    /\ Len(input') <= MaxUnsigned
    /\ written' = [format |-> "Transfer", scalars |-> amounts]

\* The host replaces one field of a transfer.
AlterField(i, field) ==
    /\ written.format = "Transfer"
    /\ LET fields == ParseTypedList(input, UnsignedFields).value
       IN input' = Envelope(Joined([j \in 1..UnsignedFields |->
                              IF j = i THEN field ELSE fields[j].encoded]))
    /\ Len(input') <= MaxUnsigned
    /\ written' = None

\* push_compact_size takes a u32, push_shortvec a u16.
WriteLength(format, n) ==
    /\ input = <<>>
    /\ n \div 65536 < (IF format = "Compact" THEN 65536 ELSE 1)
    /\ input' = IF format = "Compact" THEN PushCompactSize(n) ELSE PushShortvec(n)
    /\ written' = [format |-> format, value |-> n]

WriteSignature(r, s) ==
    /\ input = <<>>
    /\ ValidSignature(r, s)
    /\ input' = EncodeDer(r, s)
    /\ written' = [format |-> "Der", value |-> [r |-> r, s |-> s]]

\* A byte is changed on the way.
AlterByte(i, byte) ==
    /\ written # None
    /\ input' = [input EXCEPT ![i] = byte]
    /\ written' = None

Clear == input # <<>> /\ input' = <<>> /\ written' = None

Next ==
    \/ \E piece \in Pieces : Send(piece)
    \/ \E amounts \in Transfers : SendTransfer(amounts)
    \/ \E i \in 1..UnsignedFields, field \in Fields : AlterField(i, field)
    \/ \E i \in DOMAIN input, byte \in AlteredBytes : AlterByte(i, byte)
    \/ \E format \in {"Compact", "Shortvec"}, n \in Lengths : WriteLength(format, n)
    \/ \E r, s \in Scalars : WriteSignature(r, s)
    \/ Clear

Spec == Init /\ [][Next]_vars

-----------------------------------------------------------------------------
(* Properties *)

Prefix(n) == SubSeq(input, 1, n)

RlpIsCanonical ==
    LET item == ParseRlpItem(input)
    IN item.ok =>
         Prefix(item.used) = IF item.value.is_list THEN RlpPushList(item.value.payload)
                             ELSE RlpPushBytes(item.value.payload)

LengthsAreCanonical ==
    /\ LET n == ReadCompactSize(input)
       IN /\ n.ok => Prefix(n.used) = PushCompactSize(n.value)
          /\ written.format = "Compact" => n = Read(written.value, Len(input))
    /\ LET n == ReadShortvec(input)
       IN /\ n.ok => n.value < 65536 /\ Prefix(n.used) = PushShortvec(n.value)
          /\ written.format = "Shortvec" => n = Read(written.value, Len(input))

DerIsCanonical ==
    LET sig == DecodeDer(input)
    IN /\ sig.ok => /\ ValidSignature(sig.value.r, sig.value.s)
                    /\ input = EncodeDer(sig.value.r, sig.value.s)
       /\ written.format = "Der" => sig = Read(written.value, Len(input))

\* Every reader (parse_rlp_item, read_compact_size, read_shortvec,
\* decode_der_signature) accepts one encoding of each value: writing what was
\* read gives back the bytes that were read, at every change of form or width,
\* and every number and low signature the signer writes is read back.
ReadersAreCanonical == RlpIsCanonical /\ LengthsAreCanonical /\ DerIsCanonical

\* The signed envelope has the reviewed fields and the signature.
Carries(signed, sig) ==
    /\ signed.ok
    /\ SignatureFromSigned(signed.value) = Read(sig, SignedFields)
    /\ SubSeq(ParseTypedList(signed.value, SignedFields).value, 1, UnsignedFields)
         = ParseTypedList(input, UnsignedFields).value

\* What the user reviews is what the host encoded, and whatever envelope the
\* parser accepts, finalize_eip1559 then succeeds within the fixed buffers and
\* the signed envelope carries the reviewed fields byte by byte and the very
\* signature, leading zeros of r and s included.
SignedEnvelopeIsReviewed ==
    LET transfer == ParseEip1559(input, AddressBytes)
    IN /\ written.format = "Transfer" =>
            /\ transfer.ok
            /\ \A i \in 1..6 : transfer.value.scalars[i] = BigEndian(written.scalars[i])
       /\ transfer.ok =>
            \A y \in {0, 1}, r, s \in {x \in Scalars : ~IsZero(x)} :
               LET sig == [y_parity |-> y, r |-> r, s |-> s]
               IN Carries(FinalizeEip1559(input, sig), sig)

-----------------------------------------------------------------------------
(* What the invariants need to be inductive *)

TransferOnHand ==
    \E amounts \in Transfers :
       /\ written = [format |-> "Transfer", scalars |-> amounts]
       /\ input = EncodeNativeTransfer(amounts, SomeAddress)
CompactOnHand ==
    \E n \in Lengths :
       /\ written = [format |-> "Compact", value |-> n]
       /\ input = PushCompactSize(n) /\ n \div 65536 < 65536
ShortvecOnHand ==
    \E n \in Lengths :
       /\ written = [format |-> "Shortvec", value |-> n]
       /\ input = PushShortvec(n) /\ n < 65536
DerOnHand ==
    \E r, s \in Scalars :
       /\ written = [format |-> "Der", value |-> [r |-> r, s |-> s]]
       /\ input = EncodeDer(r, s) /\ ValidSignature(r, s)

\* As long as nobody alters them, the bytes on hand are those that were written.
WrittenIsOnHand ==
    written = None \/ TransferOnHand \/ CompactOnHand \/ ShortvecOnHand \/ DerOnHand

WireInv ==
    /\ input \in Seq(Byte) /\ Len(input) <= MaxUnsigned
    /\ WrittenIsOnHand
=============================================================================
