------------------------------- MODULE Envelope -------------------------------
(***************************************************************************)
(* crypto/envelope.rs, symbolically.  An AEAD ciphertext is the record of  *)
(* what it was made from, and opening it yields the plaintext exactly when *)
(* the same keys and the same bound identifier are presented: the header   *)
(* carries the identifier in the clear and is authenticated by both        *)
(* layers, and the subkeys of both layers are derived from it.             *)
(*                                                                         *)
(* Nonces, framing, header constants and the CBOR encoding of the          *)
(* plaintext do not change who can open what and are left out.             *)
(***************************************************************************)

\* What every failed decryption returns (EnvelopeError::Decrypt, IdMismatch).
CONSTANT Unopened

\* seal_bytes: two layers, under the inner and the outer key, bound to `id`.
SealBytes(id, inner, outer, msg) ==
    [id |-> id, inner |-> inner, outer |-> outer, msg |-> msg]

\* open_bytes: the identifier, the outer layer, then the inner layer.
OpenBytes(id, inner, outer, blob) ==
    IF blob.id = id /\ blob.outer = outer /\ blob.inner = inner
    THEN blob.msg
    ELSE Unopened

\* The identifiers envelopes are bound to.  A row's metadata is sealed to a
\* random meta_id, never to the row's own id, so that neither blob opens in
\* the other's place; the fresh UUID of each save is one value per row here.
PayloadId(id) == <<"payload", id>>
MetaId(id) == <<"meta", id>>
VerifyId == <<"verify">>

VerificationPlaintext == "sypherstore-verify"

\* seal_verification and verify_keys.
SealVerification(inner, outer) ==
    SealBytes(VerifyId, inner, outer, VerificationPlaintext)

\* Variant: only the inner layer is checked.
VerifyInner(inner, outer, blob) == blob.inner = inner

VerifyKeys(inner, outer, blob) ==
    OpenBytes(VerifyId, inner, outer, blob) = VerificationPlaintext

\* wrap_key and unwrap_key: one layer, under an authenticator's wrap key.
WrapKey(wrap, key) == [wrap |-> wrap, key |-> key]

UnwrapKey(wrap, blob) == IF blob.wrap = wrap THEN blob.key ELSE Unopened
===============================================================================
