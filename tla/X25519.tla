------------------------------- MODULE X25519 -------------------------------
(***************************************************************************)
(* crypto/x25519.py: scalar multiplication on a Montgomery curve and its   *)
(* twist by the ladder, on a curve small enough to add points one by one.  *)
(*                                                                         *)
(* A call of x25519 is a behaviour: one action per turn of the loop, then  *)
(* the conversion back from projective coordinates.  A byte string is the  *)
(* number it stands for; the masks of _clamp_scalar are arithmetic.  The   *)
(* code multiplies large integers and reduces once, the model reduces      *)
(* after every product.                                                    *)
(***************************************************************************)
EXTENDS Integers, Sequences, FiniteSets, SequencesExt

CONSTANTS
    P,           \* the field's prime, 2^255 - 19 in the code
    A24,         \* (A - 2) / 4 of the curve's A, 121665 in the code
    BITS,        \* bits of a key, 256 in the code
    BASE_POINT,  \* a coordinate of large prime order, 9 in the code
    NonSquare,   \* not a square modulo P: gives the twist
    Scalars,     \* private keys given to x25519
    Coordinates  \* public keys given to x25519

(* What makes the small curve like Curve25519: every clamped scalar is     *)
(* shorter than the ladder, and P has the bits decoding leaves.            *)
ASSUME CurveAssumption ==
    /\ P \in Nat /\ BITS \in Nat /\ BITS > 5
    /\ 2^(BITS - 2) < P /\ P < 2^(BITS - 1)
    /\ Scalars \subseteq 0..2^BITS - 1 /\ Coordinates \subseteq 0..2^BITS - 1
    /\ \A y \in 1..P - 1 : (y * y) % P # NonSquare

VARIABLES scalar, u_coordinate, bit_index, ladder, result
vars == <<scalar, u_coordinate, bit_index, ladder, result>>

(* _clamp_scalar: & 248 on the first byte, & 127 and | 64 on the last.     *)
Unclamped(s) == s
ClampScalar(s) == 2^(BITS - 2) + ((s - (s % 8)) % 2^(BITS - 2))

(* _decode_u_coordinate drops the top bit.                                 *)
DropsTwoBits(u) == u % 2^(BITS - 2)
DecodeUCoordinate(u) == u % 2^(BITS - 1)

Bit(k, i) == (k \div 2^i) % 2

SwapsOnlyX(swap, r) == IF swap = 1 THEN [r EXCEPT !.x2 = r.x3, !.x3 = r.x2] ELSE r
ConditionalSwap(swap, r) ==
    IF swap = 1 THEN [r EXCEPT !.x2 = r.x3, !.x3 = r.x2, !.z2 = r.z3, !.z3 = r.z2]
    ELSE r

Start(x1) == [x2 |-> 1, z2 |-> 0, x3 |-> x1, z3 |-> 1, swap |-> 0]

(* One turn of the loop, for one bit of the scalar.                        *)
LadderStep(x1, current_bit, r0) ==
    LET r  == ConditionalSwap((r0.swap + current_bit) % 2, r0)
        a  == (r.x2 + r.z2) % P
        aa == (a * a) % P
        b  == (r.x2 - r.z2) % P
        bb == (b * b) % P
        e  == (aa - bb) % P
        da == (((r.x3 - r.z3) % P) * a) % P
        cb == (((r.x3 + r.z3) % P) * b) % P
        Square(v) == ((v % P) * (v % P)) % P
    IN  [x2 |-> (aa * bb) % P, z2 |-> (e * ((aa + A24 * e) % P)) % P,
         x3 |-> Square(da + cb), z3 |-> (x1 * Square(da - cb)) % P,
         swap |-> current_bit]

(* pow(z, n, P), which the code uses with n = P - 2 to invert z.           *)
Power(z, n) ==
    FoldLeft(LAMBDA acc, i : ((((acc * acc) % P) * (IF Bit(n, i) = 1 THEN z ELSE 1)) % P),
             1, Reverse([i \in 1..BITS |-> i - 1]))
ToAffine(r0) == LET r == ConditionalSwap(r0.swap, r0)
                IN (r.x2 * Power(r.z2, P - 2)) % P

TopBit == BITS - 2      \* 254 in the code
X25519(s, u) ==
    LET x1 == DecodeUCoordinate(u) IN
    ToAffine(FoldLeft(LAMBDA r, i : LadderStep(x1, Bit(ClampScalar(s), TopBit - i), r),
                      Start(x1), [i \in 1..TopBit + 1 |-> i - 1]))
-----------------------------------------------------------------------------
Running == -1             \* there is no result yet
k == ClampScalar(scalar)
x1 == DecodeUCoordinate(u_coordinate)

Init ==
    /\ scalar \in Scalars /\ u_coordinate \in Coordinates
    /\ bit_index = TopBit
    /\ ladder = Start(x1)
    /\ result = Running

Step ==
    /\ bit_index >= 0
    /\ ladder' = LadderStep(x1, Bit(k, bit_index), ladder)
    /\ bit_index' = bit_index - 1
    /\ UNCHANGED <<scalar, u_coordinate, result>>

Return ==
    /\ bit_index < 0 /\ result = Running
    /\ result' = ToAffine(ladder)
    /\ UNCHANGED <<scalar, u_coordinate, bit_index, ladder>>

Next == Step \/ Return
Spec == Init /\ [][Next]_vars
-----------------------------------------------------------------------------
(* The reference: adding a point to itself, with the group law of the      *)
(* curve b*y^2 = x^3 + A*x^2 + x.  A coordinate belongs to a point of the  *)
(* curve (b = 1) or of its twist (b = NonSquare).                          *)
A == 4 * A24 + 2
Reciprocal == [z \in 1..P - 1 |-> CHOOSE w \in 1..P - 1 : (z * w) % P = 1]
Divide(m, n) == (m * Reciprocal[n % P]) % P
Infinity == [infinity |-> TRUE]
PointAt(u) ==
    LET x == u % P
        right == (((x * x) % P) * (x + A) + x) % P
        Squares(b) == {y \in 0..P - 1 : (b * ((y * y) % P)) % P = right}
        coefficient == IF Squares(1) # {} THEN 1 ELSE NonSquare
    IN  [b |-> coefficient, x |-> x, y |-> CHOOSE y \in Squares(coefficient) : TRUE]
Points == [u \in {DecodeUCoordinate(c) : c \in Coordinates} |-> PointAt(u)]

Add(p, q) ==
    IF p = Infinity THEN q
    ELSE IF q = Infinity THEN p
    ELSE IF p.x = q.x /\ (p.y + q.y) % P = 0 THEN Infinity
    ELSE LET slope == IF p.x = q.x
                      THEN Divide((3 * ((p.x * p.x) % P) + 2 * A * p.x + 1) % P, 2 * p.b * p.y)
                      ELSE Divide((q.y - p.y) % P, q.x - p.x)
             x == (p.b * ((slope * slope) % P) - A - p.x - q.x) % P
         IN  [p EXCEPT !.x = x, !.y = (slope * (p.x - x) - p.y) % P]

RECURSIVE Multiple(_, _)
Multiple(n, p) ==
    IF n = 0 THEN Infinity
    ELSE LET half == Multiple(n \div 2, p)
             double == Add(half, half)
         IN  IF n % 2 = 0 THEN double ELSE Add(double, p)

(* x and z are projective coordinates of p.                                *)
Represents(x, z, p) ==
    IF p = Infinity THEN x % P # 0 /\ z % P = 0
    ELSE z % P # 0 /\ (x - p.x * z) % P = 0
-----------------------------------------------------------------------------
(* In every turn of the loop the two pairs are [n]P and [n+1]P for the n   *)
(* that the bits read so far spell, on the curve and on the twist alike,   *)
(* and what is returned is the coordinate of [k]P (x25519.py:84-125).      *)
(* u = 0 is left out: there the differential addition has no difference.   *)
LadderFollowsMultiples ==
    x1 % P # 0 =>
        LET n == k \div 2^(bit_index + 1)
            r == ConditionalSwap(ladder.swap, ladder)
            point == Points[x1]
            whole == Multiple(n, point)
        IN  /\ Represents(r.x2, r.z2, whole)
            /\ Represents(r.x3, r.z3, Add(whole, point))
            /\ result # Running => result = IF whole = Infinity THEN 0 ELSE whole.x

(* The all-zero secret that the handshake refuses (handshake.py:145) comes *)
(* out for the points of small order, with every private key, and for no   *)
(* other point with any private key (x25519.py:28-43).                     *)
OnlySmallOrderGivesZero ==
    result # Running => (result = 0 <=> Multiple(8, Points[x1]) = Infinity)

(* Two honest sides, which send each other public_key_from_private of their*)
(* keys, get the same shared_secret (x25519.py:128-139).  What any other   *)
(* coordinate leads to is for LadderFollowsMultiples.                      *)
SecretsAgree ==
    (result # Running /\ u_coordinate = BASE_POINT) =>
        \A t \in Scalars : X25519(t, result) = X25519(scalar, X25519(t, BASE_POINT))
=============================================================================
