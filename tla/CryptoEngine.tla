------------------------------ MODULE CryptoEngine ------------------------------
(***************************************************************************)
(* RSAEngine and AESEngine, the wrappers over crypto.subtle: which keys    *)
(* open what, and what becomes of the tag of AES-GCM on its way from one   *)
(* to the other.  They keep no state.                                      *)
(*                                                                         *)
(* A key is its name, and both halves of a key pair have the same one.     *)
(* Bytes are a sequence of blocks: what AES-GCM makes is the block of the  *)
(* text, if it is not empty, and the block of the tag.                     *)
(***************************************************************************)
EXTENDS Naturals, Sequences

CONSTANT EmptyText   \* the text without a character

\* CryptoResult, of a function that succeeds and of one that caught an error.
Ok(data) == [success |-> TRUE, data |-> data]
Error == [success |-> FALSE]

-----------------------------------------------------------------------------

\* crypto.subtle.encrypt with AES-GCM appends the tag to the encrypted text.
SubtleEncrypt(key, iv, text) ==
    LET tag == [key |-> key, iv |-> iv, text |-> text]
        body == [key |-> key, iv |-> iv, text |-> text, flipped |-> FALSE]
    IN  IF text = EmptyText THEN <<tag>> ELSE <<body, tag>>

\* crypto.subtle.decrypt with AES-GCM accepts exactly what was encrypted with the
\* same key and iv, the tag included.
IsTag(block) == DOMAIN block = {"key", "iv", "text"}
SubtleDecrypt(key, iv, bytes) ==
    IF /\ bytes # <<>> /\ IsTag(bytes[Len(bytes)])
       /\ bytes = SubtleEncrypt(key, iv, bytes[Len(bytes)].text)
    THEN Ok(bytes[Len(bytes)].text)
    ELSE Error

-----------------------------------------------------------------------------

\* RSAEngine.encrypt and RSAEngine.decrypt
RSAEncrypt(publicKey, data) == [rsa |-> publicKey, data |-> data]
RSADecrypt(privateKey, encryptedData) ==
    IF encryptedData.rsa = privateKey THEN Ok(encryptedData.data) ELSE Error

\* AESEngine.encrypt separates the tag from the ciphertext.
AESEncrypt(key, data, iv) ==
    LET encrypted == SubtleEncrypt(key, iv, data)
    IN  [ciphertext |-> SubSeq(encrypted, 1, Len(encrypted) - 1),
         iv |-> iv,
         authTag |-> SubSeq(encrypted, Len(encrypted), Len(encrypted))]

NoTag == <<>>

\* AESEngine.decrypt puts the tag, if it gets one, behind the ciphertext.
AESDecrypt(key, encryptedData, iv, authTag) ==
    SubtleDecrypt(key, iv, encryptedData \o authTag)

\* The first byte of a ciphertext is altered, if it has one.
Flipped(ciphertext) ==
    IF ciphertext = <<>> THEN ciphertext
    ELSE [ciphertext EXCEPT ![1].flipped = ~@]
=============================================================================
