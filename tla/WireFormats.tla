---------------------------- MODULE WireFormats ----------------------------
(***************************************************************************)
(* The byte formats the signer reads from the host and writes for the      *)
(* network, as functions on sequences of bytes: RLP and the EIP-1559       *)
(* envelope (chain-ethereum), compact sizes and DER signatures             *)
(* (chain-bitcoin), short vectors (chain-solana).                          *)
(*                                                                         *)
(* A reader returns what it read and how many bytes that took, or Failure: *)
(* the reasons of a refusal are not told apart.                            *)
(***************************************************************************)
EXTENDS Naturals, Sequences

CONSTANTS
    IntBytes,       \* bytes of a scalar: 32 in the code
    HalfOrder,      \* SECP256K1_HALF_ORDER, as IntBytes bytes
    UsizeMax,       \* bound: largest usize, 2^32 - 1 on the device
    MaxUnsigned,    \* MAX_UNSIGNED_TX_BYTES
    MaxSigned       \* MAX_SIGNED_TX_BYTES

Byte == 0..255
Failure == [ok |-> FALSE]
Read(value, used) == [ok |-> TRUE, value |-> value, used |-> used]

From(s, i) == SubSeq(s, i, Len(s))
HasHighBit(byte) == byte >= 128

\* The bytes of a number without leading zeros; zero has none.
Significant(s) ==
    IF \A i \in DOMAIN s : s[i] = 0 THEN <<>>
    ELSE From(s, CHOOSE i \in DOMAIN s : s[i] # 0 /\ \A j \in 1..i-1 : s[j] = 0)
LeftPad(s) == [i \in 1..IntBytes - Len(s) |-> 0] \o s

Backwards(s) == [i \in DOMAIN s |-> s[Len(s) + 1 - i]]

\* to_le_bytes of a number of that width.
LittleEndian(n, width) ==
    LET rest[i \in 0..width] == IF i = 0 THEN n ELSE rest[i - 1] \div 256
    IN [i \in 1..width |-> rest[i - 1] % 256]

\* to_be_bytes of a u64 or usize, without the leading zeros.
BigEndian(n) == Significant(Backwards(LittleEndian(n, 8)))

\* One more byte of a number; UsizeMax + 1 stands for what no usize holds.
Shift(n, byte) ==
    IF n * 256 + byte > UsizeMax THEN UsizeMax + 1 ELSE n * 256 + byte

\* The number some bytes write.
Number(s) ==
    LET read[i \in 0..Len(s)] == IF i = 0 THEN 0 ELSE Shift(read[i - 1], s[i])
    IN read[Len(s)]

\* What a loop writes that appends one part after the other.
Joined(parts) ==
    LET all[i \in 0..Len(parts)] == IF i = 0 THEN <<>> ELSE all[i - 1] \o parts[i]
    IN all[Len(parts)]

-----------------------------------------------------------------------------
(* RLP *)

RlpPushLength(short_base, long_base, len) ==
    IF len < 56 THEN <<short_base + len>>
    ELSE <<long_base + Len(BigEndian(len))>> \o BigEndian(len)

RlpPushBytes(value) ==
    IF Len(value) = 1 /\ ~HasHighBit(value[1]) THEN value
    ELSE RlpPushLength(128, 183, Len(value)) \o value
RlpPushList(body) == RlpPushLength(192, 247, Len(body)) \o body

\* Mutant: a scalar is written with its leading zeros.
RlpPushIntegerBytes_Padded(value) == RlpPushBytes(value)
RlpPushIntegerBytes(value) == RlpPushBytes(Significant(value))
RlpPushU64(n) == RlpPushIntegerBytes(BigEndian(n))

Item(input, start, len, is_list) ==
    IF Len(input) < start - 1 + len THEN Failure
    ELSE Read([payload |-> SubSeq(input, start, start - 1 + len),
               is_list |-> is_list], start - 1 + len)

ParseShortItem(input, len, is_list) ==
    IF ~is_list /\ len = 1 /\ Len(input) > 1 /\ ~HasHighBit(input[2]) THEN Failure
    ELSE Item(input, 2, len, is_list)

\* Mutant: the long form is taken for any length.
LongItem_AnyLength(input, start, len, is_list) == Item(input, start, len, is_list)
LongItem(input, start, len, is_list) ==
    IF len < 56 \/ len > UsizeMax THEN Failure ELSE Item(input, start, len, is_list)
ParseLongItem(input, length_bytes, is_list) ==
    IF Len(input) < 1 + length_bytes \/ input[2] = 0 THEN Failure
    ELSE LongItem(input, 2 + length_bytes,
                  Number(SubSeq(input, 2, 1 + length_bytes)), is_list)

ItemWithPrefix(prefix, input) ==
    CASE prefix <= 127 -> Item(input, 1, 1, FALSE)
      [] prefix \in 128..183 -> ParseShortItem(input, prefix - 128, FALSE)
      [] prefix \in 184..191 -> ParseLongItem(input, prefix - 183, FALSE)
      [] prefix \in 192..247 -> ParseShortItem(input, prefix - 192, TRUE)
      [] prefix >= 248 -> ParseLongItem(input, prefix - 247, TRUE)
ParseRlpItem(input) ==
    IF input = <<>> THEN Failure ELSE ItemWithPrefix(input[1], input)

\* The next item moves from what is left of a list to the fields read.
NextField(read) ==
    LET item == ParseRlpItem(read.rest)
    IN IF ~item.ok THEN read
       ELSE [rest |-> From(read.rest, item.used + 1),
             fields |-> Append(read.fields,
                               [value |-> item.value,
                                encoded |-> SubSeq(read.rest, 1, item.used)])]

-----------------------------------------------------------------------------
(* The EIP-1559 envelope *)

EIP1559_TYPE == 2
UnsignedFields == 9
SignedFields == 12

\* An item that cannot be read stays in the rest.
AllRead(read, count) ==
    IF read.rest = <<>> /\ Len(read.fields) = count THEN Read(read.fields, count)
    ELSE Failure
ParseFields(payload, count) ==
    LET read[k \in 0..count] ==
            IF k = 0 THEN [rest |-> payload, fields |-> <<>>] ELSE NextField(read[k - 1])
    IN AllRead(read[count], count)
FieldsOf(top, len, count) ==
    IF ~top.ok \/ ~top.value.is_list \/ top.used # len THEN Failure
    ELSE ParseFields(top.value.payload, count)
ParseTypedList(raw, count) ==
    IF raw = <<>> \/ raw[1] # EIP1559_TYPE THEN Failure
    ELSE FieldsOf(ParseRlpItem(Tail(raw)), Len(raw) - 1, count)

\* Uint256::from_rlp_scalar
IsScalar(payload) ==
    /\ Len(payload) <= IntBytes
    /\ payload # <<>> => payload[1] # 0

\* BoundedBytes<MAX_SIGNED_TX_BYTES>
Bounded(s) == IF Len(s) > MaxSigned THEN Failure ELSE Read(s, Len(s))

Envelope(body) == <<EIP1559_TYPE>> \o RlpPushList(body)

TransferFields(scalars, destination) ==
    [i \in 1..5 |-> RlpPushU64(scalars[i])]
    \o <<RlpPushBytes(destination), RlpPushU64(scalars[6]), RlpPushBytes(<<>>), <<192>>>>
EncodeNativeTransfer(scalars, destination) ==
    Envelope(Joined(TransferFields(scalars, destination)))

\* parse_eip1559: a native transfer without data or access list.
TransferIn(list, address_len) ==
    LET field(i) == list.value[i].value
    IN IF /\ list.ok
          /\ ~field(6).is_list /\ Len(field(6).payload) = address_len
          /\ ~field(8).is_list /\ field(8).payload = <<>>
          /\ field(9).is_list /\ field(9).payload = <<>>
          /\ \A i \in {1, 2, 3, 4, 5, 7} :
                ~field(i).is_list /\ IsScalar(field(i).payload)
       THEN Read([scalars |-> [i \in 1..6 |-> field(IF i = 6 THEN 7 ELSE i).payload],
                  destination |-> field(6).payload], UnsignedFields)
       ELSE Failure
ParseEip1559(unsigned, address_len) ==
    TransferIn(ParseTypedList(unsigned, UnsignedFields), address_len)

SignedFieldsOf(fields, signature) ==
    [i \in 1..UnsignedFields |-> fields[i].encoded]
    \o <<RlpPushU64(signature.y_parity), RlpPushIntegerBytes(signature.r),
         RlpPushIntegerBytes(signature.s)>>
FinalizeEip1559(unsigned, signature) ==
    LET fields == ParseTypedList(unsigned, UnsignedFields).value
    IN Bounded(Envelope(Joined(SignedFieldsOf(fields, signature))))

\* signature_from_signed_eip1559 looks at payloads only: it takes a list for a
\* number.
SignatureIn(list) ==
    LET payload(i) == list.value[i].value.payload
    IN IF /\ list.ok /\ \A i \in 10..12 : IsScalar(payload(i))
          /\ payload(10) \in {<<>>, <<1>>}
          /\ payload(11) # <<>> /\ payload(12) # <<>>
       THEN Read([y_parity |-> Len(payload(10)),
                  r |-> LeftPad(payload(11)), s |-> LeftPad(payload(12))], SignedFields)
       ELSE Failure
SignatureFromSigned(raw) == SignatureIn(ParseTypedList(raw, SignedFields))

-----------------------------------------------------------------------------
(* Bitcoin: compact sizes and DER *)

PushCompactSize(n) ==
    IF n < 253 THEN <<n>>
    ELSE IF n < 65536 THEN <<253>> \o LittleEndian(n, 2)
    ELSE <<254>> \o LittleEndian(n, 4)

\* A wider form than needed is refused.
ReadWide(input, width, least) ==
    IF Len(input) <= width THEN Failure
    ELSE LET n == Number(Backwards(SubSeq(input, 2, width + 1)))
         IN IF n \in least..UsizeMax THEN Read(n, width + 1) ELSE Failure

\* The eight-byte form never fits a 32-bit usize unless it is too wide.
ReadCompactSize(input) ==
    IF input = <<>> \/ input[1] = 255 THEN Failure
    ELSE IF input[1] <= 252 THEN Read(input[1], 1)
    ELSE IF input[1] = 253 THEN ReadWide(input, 2, 253)
    ELSE ReadWide(input, 4, 65536)

IsZero(s) == \A i \in DOMAIN s : s[i] = 0
\* The order of Rust slices of one length.
Exceeds(s, t) ==
    \E i \in DOMAIN s : s[i] > t[i] /\ \A j \in 1..i-1 : s[j] = t[j]

ValidSignature(r, s) == ~IsZero(r) /\ ~IsZero(s) /\ ~Exceeds(s, HalfOrder)

DerInteger(value) ==
    LET significant == IF IsZero(value) THEN <<0>> ELSE Significant(value)
    IN IF HasHighBit(significant[1]) THEN <<0>> \o significant ELSE significant

EncodeDer(r, s) ==
    LET body == <<2, Len(DerInteger(r))>> \o DerInteger(r)
                \o <<2, Len(DerInteger(s))>> \o DerInteger(s)
    IN <<48, Len(body)>> \o body

DerIntegerFits(value) ==
    /\ Len(value) \in 1..IntBytes + 1
    /\ IF Len(value) = IntBytes + 1 THEN value[1] = 0 /\ HasHighBit(value[2])
       ELSE /\ ~(value[1] = 0 /\ Len(value) > 1 /\ ~HasHighBit(value[2]))
            /\ ~HasHighBit(value[1])
DecodeDerInteger(value) ==
    LeftPad(IF Len(value) = IntBytes + 1 THEN Tail(value) ELSE value)

\* The integer that starts at position i: tag, length, value.
IntegerIn(value) ==
    IF DerIntegerFits(value) THEN Read(DecodeDerInteger(value), 2 + Len(value))
    ELSE Failure
DerField(der, i) ==
    IF Len(der) < i + 1 \/ der[i] # 2 \/ Len(der) < i + 1 + der[i + 1] THEN Failure
    ELSE IntegerIn(SubSeq(der, i + 2, i + 1 + der[i + 1]))

SignatureOf(r, s, body) ==
    IF /\ r.ok /\ s.ok /\ r.used + s.used = body
       /\ ValidSignature(r.value, s.value)
    THEN Read([r |-> r.value, s |-> s.value], 2 + body) ELSE Failure
DecodeDer(der) ==
    IF Len(der) < 2 \/ der[1] # 48 \/ der[2] + 2 # Len(der) THEN Failure
    ELSE LET r == DerField(der, 3)
         IN IF r.ok THEN SignatureOf(r, DerField(der, 3 + r.used), der[2]) ELSE Failure

-----------------------------------------------------------------------------
(* Solana: short vectors, seven bits to a byte *)

PushShortvec(n) ==
    IF n < 128 THEN <<n>>
    ELSE IF n < 16384 THEN <<(n % 128) + 128, n \div 128>>
    ELSE <<(n % 128) + 128, ((n \div 128) % 128) + 128, n \div 16384>>

ShortvecRefused(input, last) ==
    \/ last > 3 \/ Len(input) < last
    \/ last = 3 /\ input[3] > 3
    \/ last > 1 /\ input[last] = 0

ReadShortvec(input) ==
    LET ends == {i \in DOMAIN input : ~HasHighBit(input[i])}
        last == IF ends = {} THEN Len(input) + 1
                ELSE CHOOSE i \in ends : \A j \in ends : i <= j
        chunk(i) == IF i <= last THEN input[i] % 128 ELSE 0
    IN IF ShortvecRefused(input, last) THEN Failure
       ELSE Read(chunk(1) + 128 * chunk(2) + 16384 * chunk(3), last)
=============================================================================
