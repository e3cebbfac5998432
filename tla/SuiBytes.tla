------------------------------ MODULE SuiBytes ------------------------------
(***************************************************************************)
(* Integers as bytes, little endian, and values of enums: what transfers   *)
(* are made of (SuiTransfer) and what the encoding of a transaction rests  *)
(* on (SuiTypes, SuiBcs).                                                  *)
(***************************************************************************)
EXTENDS Integers, Sequences, Functions

CONSTANTS ByteBits,     \* the width of a byte
          U64Bytes,     \* the bytes of a uint64
          AddressBytes  \* the bytes of an address

ASSUME BytesAssumption ==
  ByteBits \in Nat \ {0, 1} /\ {U64Bytes, AddressBytes} \subseteq Nat \ {0}

\* The number of values of an unsigned integer of so many bytes.
Size(width) == 2^(ByteBits * width)

ASSUME SizeAssumption ==
  /\ Size(0) = 1 /\ Size(1) \in Nat \ {0, 1}
  /\ \A k \in 0..(U64Bytes + AddressBytes) : Size(k + 1) = Size(k) * Size(1)

IntBytes(n, width) == [k \in 1..width |-> (n \div Size(k - 1)) % Size(1)]

IntValue(bytes) == SumFunction([k \in DOMAIN bytes |-> bytes[k] * Size(k - 1)])

Val(name, fields) == <<name, fields>>
=============================================================================
