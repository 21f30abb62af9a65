-------------------------------- MODULE Aead --------------------------------
(***************************************************************************)
(* crypto/aead.py: ChaCha20 and Poly1305 combined.                         *)
(***************************************************************************)
EXTENDS Padding, ChaCha20, Poly1305

(* Keystream block 0 is the key of the tag, the text starts with block 1.  *)
FirstBlock == 1
Poly1305KeyGen(key, nonce) == Slice(Chacha20Block(key, 0, nonce), 0, 2 * TAG_SIZE)
Tag(key, nonce, aad, ciphertext) ==
    Poly1305Mac(BuildMacData(aad, ciphertext), Poly1305KeyGen(key, nonce))

Seal(key, nonce, plaintext, aad) ==
    LET ciphertext == Chacha20Encrypt(key, FirstBlock, nonce, plaintext)
    IN  [ciphertext |-> ciphertext, tag |-> Tag(key, nonce, aad, ciphertext)]

(* chacha20_poly1305_decrypt raises when the tag is not the one expected.  *)
Opens(key, nonce, sealed, aad) == sealed.tag = Tag(key, nonce, aad, sealed.ciphertext)
Open(key, nonce, sealed) == Chacha20Encrypt(key, FirstBlock, nonce, sealed.ciphertext)
=============================================================================
