------------------------------- MODULE Receipts -------------------------------
(***************************************************************************)
(* Signed receipts as pure operators (receipts/): what signing one builds, *)
(* and the furthest stage its verification reaches against the keys that   *)
(* somebody trusts at some instant.  A hash is modelled by what is hashed  *)
(* and a signature by who signed what.                                     *)
(***************************************************************************)
EXTENDS Naturals, Sequences

CONSTANTS
    Content,      \* contents of receipts
    KeyId,        \* identifiers of keys
    Public,       \* key pairs, by their public halves
    MaxTime       \* bound on instants

Instant == 0..MaxTime
Never == MaxTime + 1          \* the instant of an absent expiresAt or revokedAt

Receipt ==
  [content : Content, hash : Content, keyId : KeyId, public : Public,
   signature : [by : Public, over : Content]]

\* buildSignedReceipt
SignedReceipt(content, keyId, public) ==
  [content |-> content, hash |-> content, keyId |-> keyId, public |-> public,
   signature |-> [by |-> public, over |-> content]]

\* A signed receipt whose content was changed afterwards, its hash left as it
\* was or computed anew.
Edited(r, content, rehashed) ==
  [r EXCEPT !.content = content, !.hash = IF rehashed THEN content ELSE @]

\* SigningKeyInfo
KeyInfo ==
  [keyId : KeyId, public : Public, issuedAt : Instant,
   expiresAt : Instant \union {Never}, revokedAt : Instant \union {Never}]

\* What a resolver that knows no such key returns.
UnknownKey == [keyId |-> "", public |-> "", issuedAt |-> 0, expiresAt |-> 0, revokedAt |-> 0]

\* trustedKeysResolver and makeResolver with a list: the first key of that id.
ListedLast(keys, r) ==                                              \* a mutant
  LET same == {i \in DOMAIN keys : keys[i].keyId = r.keyId} IN
  IF same = {} THEN UnknownKey ELSE keys[CHOOSE i \in same : \A j \in same : i >= j]
Listed(keys, r) ==
  LET same == {i \in DOMAIN keys : keys[i].keyId = r.keyId} IN
  IF same = {} THEN UnknownKey ELSE keys[CHOOSE i \in same : \A j \in same : i <= j]

\* selfTrustResolver: the key the receipt carries, current since the epoch.
SelfTrusted(r) ==
  [keyId |-> r.keyId, public |-> r.public, issuedAt |-> 0,
   expiresAt |-> Never, revokedAt |-> Never]

\* verifyReceiptIntegrity and verifyReceiptSignature; verifySignedReceipt is
\* their conjunction.
Intact(r) == r.hash = r.content
SignatureValid(r) == r.signature = [by |-> r.public, over |-> r.content]

\* verifySignedReceiptTrusted: the stage reached at instant now with the
\* resolved key k. A key not issued yet reads as expired, and an expired one
\* does not show that it was revoked.
Verified(r, k, now) ==
  IF ~Intact(r) THEN "PAYLOAD_TAMPERED"
  ELSE IF ~SignatureValid(r) THEN "CONTENT_VALID"
  ELSE IF k = UnknownKey \/ k.public # r.public THEN "UNKNOWN_SIGNER"
  ELSE IF ~(k.issuedAt <= now /\ now < k.expiresAt) THEN "KEY_EXPIRED"
  ELSE IF k.revokedAt <= now THEN "KEY_REVOKED"
  ELSE "SIGNER_TRUSTED"
=============================================================================
