-------------------------------- MODULE Bytes --------------------------------
(***************************************************************************)
(* Byte strings: sequences of digits of base Base, and the conversions     *)
(* between them and integers that the code takes from Python.              *)
(***************************************************************************)
EXTENDS Naturals, Sequences, SequencesExt

CONSTANT Base      \* values of a byte, 256 in the code

ASSUME BaseAssumption == Base \in Nat \ {0, 1}

Byte == 0..Base - 1

(* int.to_bytes and int.from_bytes, big and little endian.                 *)
ToBytes(n, size) == [i \in 1..size |-> (n \div Base^(size - i)) % Base]
FromBytes(b) == FoldLeft(LAMBDA n, d : n * Base + d, 0, b)

(* What Python promises of the two: numbers that fit and byte strings of a *)
(* length correspond.  The proofs take it from here: it follows by         *)
(* induction over the digits.                                              *)
Converts(size) ==
    /\ Base^size \in Nat
    /\ \A n \in 0..Base^size - 1 :
          ToBytes(n, size) \in [1..size -> Byte] /\ FromBytes(ToBytes(n, size)) = n
    /\ \A b \in [1..size -> Byte] :
          FromBytes(b) \in 0..Base^size - 1 /\ ToBytes(FromBytes(b), size) = b

ToLittleEndian(n, size) == Reverse(ToBytes(n, size))
FromLittleEndian(b) == FromBytes(Reverse(b))

Zeros(n) == [i \in 1..n |-> 0]

(* Python's b[i:j], which never raises.                                    *)
Slice(b, i, j) == SubSeq(b, i + 1, IF j < Len(b) THEN j ELSE Len(b))
From(b, i) == Slice(b, i, Len(b))

(* The pieces b[0:size], b[size:2*size], ... of b, the last maybe shorter. *)
Pieces(b, size) ==
    [i \in 1..(Len(b) + size - 1) \div size |-> Slice(b, size * (i - 1), size * i)]
=============================================================================
