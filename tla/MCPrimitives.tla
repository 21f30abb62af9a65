--------------------------- MODULE MCPrimitives ---------------------------
(***************************************************************************)
(* Bytes of four bits, words of two bytes: a block of SHA-256 and of       *)
(* ChaCha20 has 32 bytes, a digest 16.                                     *)
(***************************************************************************)
EXTENDS Primitives

MCK == [i \in 1..ROUNDS |-> (37 * i + 11) % WORD]
MCInitialHash == <<106, 187, 60, 165, 81, 155, 31, 91>>
MCBigSigma0 == <<1, 3, 6>>
MCBigSigma1 == <<2, 5, 7>>
MCSmallSigma0 == <<1, 5, 2>>
MCSmallSigma1 == <<3, 6, 1>>

MCRotations == <<4, 3, 2, 1>>
MCChacha20Constant == <<6, 5, 7, 8, 7, 0, 6, 1>>

(* A byte of zeros, one that is a length, and the mark that padding adds.  *)
MCValues == {0, 1, 8}

(* Keys that look like lengths and short fields.                           *)
MCPublicKeys == {<<0, 0>>, <<0, 1>>, <<1, 0>>, <<8, 1>>}

MCVersionText == <<5, 3>>
MCKeysLabel == <<5, 11, 7>>

(* r has two bytes; the second keeps its lower half.                       *)
MCClampHigh == {1}
MCClampLow == {}

(* One byte less than, and exactly, what leaves room for the length.       *)
MCPaddedAfter == {0, BLOCK_SIZE - LENGTH_SIZE - 3, BLOCK_SIZE - 1, 2 * BLOCK_SIZE - LENGTH_SIZE - 3}
=============================================================================
