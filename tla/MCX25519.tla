------------------------------ MODULE MCX25519 ------------------------------
(***************************************************************************)
(* The curve y^2 = x^3 + 474 x^2 + x over the field of 4073 elements has   *)
(* 8 * 523 points and its twist 4 * 991: cofactors as on Curve25519, and   *)
(* primes too large for a clamped 13-bit scalar to be a multiple of them.  *)
(***************************************************************************)
EXTENDS X25519

(* Keys all over the range, and several that clamp to the same scalar.     *)
MCScalars == {s \in 0..2^BITS - 1 : s % 127 = 5} \cup {0, 1, 7, 8, 2047, 2048, 8191}

(* The points of small order on both curves, the base point, points of     *)
(* the large orders on both, others, and coordinates that decode to these: *)
(* with the top bit set, or P and above.                                   *)
MCCoordinates ==
    {0, 1, 2902, 3993, 4072} \cup {BASE_POINT, 37, 3, 14}
        \cup {u \in 0..P - 1 : u % 397 = 8}
        \cup {4073, 4074, 4080, 4096 + 1, 4096 + 3, 8191}
=============================================================================
