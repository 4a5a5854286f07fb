------------------------------ MODULE Lioness ------------------------------
(***************************************************************************)
(* The Lioness wide-block cipher (src/crypto/lioness.rs): four rounds that *)
(* change the left part of a block by a digest of the right and the right  *)
(* part by a key stream of the left.  Both directions write to an output   *)
(* that may be the input itself, and read from either as they go on.       *)
(*                                                                         *)
(* Bits are told by the set of those that are one.  The digest and the     *)
(* stream cipher are external: any functions of their keys.                *)
(***************************************************************************)
EXTENDS Integers

CONSTANTS
    LeftBits, RightBits,    \* the parts of a block: K bytes and the rest of B
    Iv,                     \* initial vectors of the stream cipher
    Keystream(_, _),        \* S: the key stream for a key and an initial vector
    Digest(_, _)            \* H: the keyed digest of a right part

ASSUME KeystreamAssumption ==
    \A key \in SUBSET LeftBits, iv \in Iv : Keystream(key, iv) \in SUBSET RightBits
ASSUME DigestAssumption ==
    \A key \in SUBSET LeftBits, right \in SUBSET RightBits :
        Digest(key, right) \in SUBSET LeftBits

Left == SUBSET LeftBits
Right == SUBSET RightBits
Block == [left : Left, right : Right]

\* KeyIvInit: the key and the initial vector are cut into their parts.
CipherKey == [k1 : Left, k2 : Left, k3 : Left, k4 : Left, iv1 : Iv, iv2 : Iv]

Xor(a, b) == (a \ b) \cup (b \ a)

\* The two buffers of a call, which are one if it is in place.
Buffers(inPlace, block, out) == [in |-> block, out |-> IF inPlace THEN block ELSE out]

WriteLeft(inPlace, m, left) ==
    [in |-> IF inPlace THEN [m.in EXCEPT !.left = left] ELSE m.in,
     out |-> [m.out EXCEPT !.left = left]]

WriteRight(inPlace, m, right) ==
    [in |-> IF inPlace THEN [m.in EXCEPT !.right = right] ELSE m.in,
     out |-> [m.out EXCEPT !.right = right]]

\* encrypt_block
EncryptBlock(inPlace, key, m0) ==
    LET m1 == WriteRight(inPlace, m0, Xor(m0.in.right, Keystream(Xor(m0.in.left, key.k1), key.iv1)))
        m2 == WriteLeft(inPlace, m1, Xor(m1.in.left, Digest(key.k2, m1.out.right)))
        m3 == WriteRight(inPlace, m2, Xor(m2.out.right, Keystream(Xor(m2.out.left, key.k3), key.iv2)))
    IN  WriteLeft(inPlace, m3, Xor(m3.out.left, Digest(key.k4, m3.out.right)))

\* A slip: the left part is read from the input where the output is meant.
DecryptBlockReadingInput(inPlace, key, m0) ==
    LET m1 == WriteLeft(inPlace, m0, Xor(m0.in.left, Digest(key.k4, m0.in.right)))
        m2 == WriteRight(inPlace, m1, Xor(m1.in.right, Keystream(Xor(m1.in.left, key.k3), key.iv2)))
        m3 == WriteLeft(inPlace, m2, Xor(m2.out.left, Digest(key.k2, m2.out.right)))
    IN  WriteRight(inPlace, m3, Xor(m3.out.right, Keystream(Xor(m3.out.left, key.k1), key.iv1)))

\* decrypt_block
DecryptBlock(inPlace, key, m0) ==
    LET m1 == WriteLeft(inPlace, m0, Xor(m0.in.left, Digest(key.k4, m0.in.right)))
        m2 == WriteRight(inPlace, m1, Xor(m1.in.right, Keystream(Xor(m1.out.left, key.k3), key.iv2)))
        m3 == WriteLeft(inPlace, m2, Xor(m2.out.left, Digest(key.k2, m2.out.right)))
    IN  WriteRight(inPlace, m3, Xor(m3.out.right, Keystream(Xor(m3.out.left, key.k1), key.iv1)))

Encrypted(inPlace, key, block, out) == EncryptBlock(inPlace, key, Buffers(inPlace, block, out)).out
Decrypted(inPlace, key, block, out) == DecryptBlock(inPlace, key, Buffers(inPlace, block, out)).out

\* encrypt_block and decrypt_block undo each other, whichever of the two comes first and
\* whether each is done in place or into another buffer, whatever that held.
BlocksComeBack(key, block, out) ==
    \A p, q \in BOOLEAN :
        /\ Decrypted(q, key, Encrypted(p, key, block, out), out) = block
        /\ Encrypted(q, key, Decrypted(p, key, block, out), out) = block
=============================================================================
