------------------------------ MODULE Trust_proofs ------------------------------
(***************************************************************************)
(* Proofs about Trust.  First its checkpoints, for every set of keys,      *)
(* assignments, receipts and contexts: the type invariant, that trust once *)
(* lost stays lost, and that an R3 approval is the word of two entitled    *)
(* people.  Then its skills, for every set of definitions and signers:     *)
(* that a registration leaves the past alone and that a pin passes exactly *)
(* what it was made over.                                                  *)
(***************************************************************************)
EXTENDS Trust, FiniteSetTheorems, WellFoundedInduction, TLAPS

-----------------------------------------------------------------------------
(* The key a list resolves a receipt to *)

\* The places of the keys of the receipt's identifier.
Places(list, r) == {i \in DOMAIN list : list[i].keyId = r.keyId}

\* A set of positions that is not empty has a first one.
LEMMA FirstExists ==
  ASSUME NEW S \in SUBSET Nat, S # {}
  PROVE  \E i \in S : \A j \in S : i <= j
<1>1. \E i \in S : \A j \in S : ~(<<j, i>> \in OpToRel(<, Nat))
  BY NatLessThanWellFounded, WFMin, Zenon
<1>2. PICK i \in S : \A j \in S : ~(<<j, i>> \in OpToRel(<, Nat))
  BY <1>1
<1>3. \A j \in S : ~(j < i)
  BY <1>2 DEF OpToRel
<1> QED
  BY <1>3

\* A receipt is resolved to the first key of its identifier (trustedKeysResolver).
LEMMA ListedIsFirst ==
  ASSUME NEW list \in Seq(KeyInfo), NEW r, Places(list, r) # {}
  PROVE  \E i \in Places(list, r) :
           /\ \A j \in Places(list, r) : i <= j
           /\ Listed(list, r) = list[i]
<1> DEFINE S == Places(list, r)
<1>1. S \in SUBSET Nat
  BY DEF Places
<1>2. \E i \in S : \A j \in S : i <= j
  BY <1>1, FirstExists
<1>3. LET i == CHOOSE i \in S : \A j \in S : i <= j
      IN  i \in S /\ \A j \in S : i <= j
  BY <1>2
<1>4. Listed(list, r) = list[CHOOSE i \in S : \A j \in S : i <= j]
  BY DEF Listed, Places
<1> QED
  BY <1>3, <1>4

\* A key that is added at the end takes no other key's place.
LEMMA AppendKeepsListed ==
  ASSUME NEW list \in Seq(KeyInfo), NEW k \in KeyInfo, NEW r, Places(list, r) # {}
  PROVE  /\ Places(Append(list, k), r) # {}
         /\ Listed(Append(list, k), r) = Listed(list, r)
<1> DEFINE more == Append(list, k)
<1>1. PICK i \in Places(list, r) :
        /\ \A j \in Places(list, r) : i <= j
        /\ Listed(list, r) = list[i]
  BY ListedIsFirst
<1>2. more \in Seq(KeyInfo) /\ Len(more) = Len(list) + 1
        /\ \A j \in 1..Len(list) : more[j] = list[j]
  OBVIOUS
<1>3. i \in 1..Len(list) /\ i \in Places(more, r)
  BY <1>1, <1>2 DEF Places
<1>4. PICK l \in Places(more, r) :
        /\ \A j \in Places(more, r) : l <= j
        /\ Listed(more, r) = more[l]
  BY <1>2, <1>3, ListedIsFirst
<1>5. l <= i /\ l \in 1..Len(list)
  BY <1>2, <1>3, <1>4 DEF Places
<1>6. l \in Places(list, r)
  BY <1>2, <1>4, <1>5 DEF Places
<1>7. l = i
  BY <1>1, <1>5, <1>6, <1>3
<1> QED
  BY <1>1, <1>2, <1>3, <1>4, <1>7

\* l is the key k, a revocation where there was none aside.
SameButRevoked(l, k) ==
  /\ l.keyId = k.keyId /\ l.public = k.public
  /\ l.issuedAt = k.issuedAt /\ l.expiresAt = k.expiresAt
  /\ l.revokedAt = k.revokedAt \/ k.revokedAt = Never

\* A revocation changes what a receipt is resolved to in its revokedAt only, and
\* only where there was none.
LEMMA RevokeKeepsListed ==
  ASSUME NEW list \in Seq(KeyInfo), NEW more \in Seq(KeyInfo), DOMAIN more = DOMAIN list,
         \A j \in DOMAIN list : SameButRevoked(more[j], list[j]),
         NEW r, Places(list, r) # {}
  PROVE  Places(more, r) # {} /\ SameButRevoked(Listed(more, r), Listed(list, r))
<1>1. Places(more, r) = Places(list, r)
  BY DEF Places, SameButRevoked
<1>2. PICK i \in Places(list, r) :
        /\ \A j \in Places(list, r) : i <= j
        /\ Listed(list, r) = list[i]
  BY ListedIsFirst
<1>3. PICK l \in Places(list, r) :
        /\ \A j \in Places(list, r) : l <= j
        /\ Listed(more, r) = more[l]
  BY <1>1, ListedIsFirst
<1>4. l = i /\ i \in DOMAIN list
  <2>1. Places(list, r) \subseteq Nat
    BY DEF Places
  <2> QED
    BY <1>2, <1>3, <2>1 DEF Places
<1> QED
  BY <1>1, <1>2, <1>3, <1>4
-----------------------------------------------------------------------------
(* Types *)

\* A position taken out of a list of assignments leaves a list of assignments.
LEMMA RemoveType ==
  ASSUME NEW T, NEW list \in Seq(T), NEW i \in DOMAIN list
  PROVE  SubSeq(list, 1, i - 1) \o SubSeq(list, i + 1, Len(list)) \in Seq(T)
<1>1. i \in 1..Len(list) /\ Len(list) \in Nat
  OBVIOUS
<1>2. \A j \in 1..Len(list) : list[j] \in T
  OBVIOUS
<1>3. SubSeq(list, 1, i - 1) \in Seq(T)
  BY <1>1, <1>2
<1>4. SubSeq(list, i + 1, Len(list)) \in Seq(T)
  BY <1>1, <1>2
<1> QED
  BY <1>3, <1>4

\* Noting a receipt's standing keeps the types, of any receipt.
LEMMA NotedType ==
  ASSUME TypeOK, NEW r \in Receipt, NEW trusted \in BOOLEAN, Noted(r, trusted)
  PROVE  accepted' \subseteq Receipt /\ refused' \subseteq accepted'
BY DEF TypeOK, Noted

\* A check's receipt, where it is asked for one, is a receipt.
LEMMA ContextReceipt ==
  ASSUME NEW ctx \in Context, ctx.receipt # None
  PROVE  ctx.receipt \in Receipt
BY CheckpointAssumption DEF None

\* The variables have their types, and what is refused was accepted before.
THEOREM TypeCorrect == Spec => []TypeOK
<1>1. Init => TypeOK
  BY CheckpointAssumption DEF Init, TypeOK, Instant
<1>2. TypeOK /\ [Next]_vars => TypeOK'
  <2> SUFFICES ASSUME TypeOK, [Next]_vars PROVE TypeOK'
    OBVIOUS
  <2>1. CASE \E gates \in GateLists, ctx \in Context : Check(gates, ctx)
    <3> PICK gates \in GateLists, ctx \in Context : Check(gates, ctx)
      BY <2>1
    <3>1. UNCHANGED <<now, keys, assignments>>
      BY DEF Check
    <3>2. \/ /\ ctx.receipt # None
             /\ Noted(ctx.receipt, ReceiptResult(ctx) = "allowed")
          \/ UNCHANGED <<accepted, refused>>
      BY DEF Check
    <3>3. CASE UNCHANGED <<accepted, refused>>
      BY <3>1, <3>3 DEF TypeOK
    <3>4. CASE ctx.receipt # None /\ Noted(ctx.receipt, ReceiptResult(ctx) = "allowed")
      <4>1. ctx.receipt \in Receipt
        BY <3>4, ContextReceipt
      <4>2. accepted' \subseteq Receipt /\ refused' \subseteq accepted'
        BY <3>4, <4>1, NotedType
      <4> QED
        BY <3>1, <4>2 DEF TypeOK
    <3> QED
      BY <3>2, <3>3, <3>4
  <2>2. CASE \E ctx \in Context : ctx.receipt # None /\ VerifyReceipt(ctx.receipt)
    <3> PICK ctx \in Context : ctx.receipt # None /\ VerifyReceipt(ctx.receipt)
      BY <2>2
    <3>1. ctx.receipt \in Receipt
      BY ContextReceipt
    <3>2. accepted' \subseteq Receipt /\ refused' \subseteq accepted'
      BY <3>1, NotedType DEF VerifyReceipt
    <3> QED
      BY <3>2 DEF VerifyReceipt, TypeOK
  <2>3. CASE Tick
    BY <2>3, CheckpointAssumption DEF Tick, TypeOK, Instant
  <2>4. CASE \E k \in NewKeys : AddKey(k)
    <3> PICK k \in NewKeys : AddKey(k)
      BY <2>4
    <3>1. keys' \in Seq(KeyInfo) /\ keys' # <<>>
      BY CheckpointAssumption DEF AddKey, TypeOK
    <3> QED
      BY <3>1 DEF AddKey, TypeOK
  <2>5. CASE \E i \in DOMAIN keys, at \in Instant : RevokeKey(i, at)
    <3> PICK i \in DOMAIN keys, at \in Instant : RevokeKey(i, at)
      BY <2>5
    <3>1. keys[i] \in KeyInfo
      BY DEF TypeOK
    <3>2. [keys[i] EXCEPT !.revokedAt = at] \in KeyInfo
      BY <3>1 DEF KeyInfo
    <3>3. keys' \in Seq(KeyInfo) /\ keys' # <<>>
      BY <3>2 DEF RevokeKey, TypeOK
    <3> QED
      BY <3>3 DEF RevokeKey, TypeOK
  <2>6. CASE \E a \in Given : Assign(a)
    <3> PICK a \in Given : Assign(a)
      BY <2>6
    <3>1. assignments' \in Seq(Assignment)
      BY CheckpointAssumption DEF Assign, TypeOK
    <3> QED
      BY <3>1 DEF Assign, TypeOK
  <2>7. CASE \E i \in DOMAIN assignments : Withdraw(i)
    <3> PICK i \in DOMAIN assignments : Withdraw(i)
      BY <2>7
    <3>1. assignments' \in Seq(Assignment)
      BY RemoveType DEF Withdraw, TypeOK
    <3> QED
      BY <3>1 DEF Withdraw, TypeOK
  <2>8. CASE UNCHANGED vars
    BY <2>8 DEF vars, TypeOK
  <2> QED
    BY <2>1, <2>2, <2>3, <2>4, <2>5, <2>6, <2>7, <2>8 DEF Next
<1> QED
  BY <1>1, <1>2, PTL DEF Spec
-----------------------------------------------------------------------------
(* Trust once lost *)

\* What was accepted is as it was signed, by the key its identifier is resolved
\* to, which was issued by now.
AcceptedWasTrusted ==
  \A r \in accepted :
    /\ Intact(r) /\ SignatureValid(r)
    /\ Places(keys, r) # {}
    /\ Listed(keys, r).public = r.public
    /\ Listed(keys, r).issuedAt <= now

\* The key of what is refused has expired or is revoked.
Lost(list, r, at) == Listed(list, r).expiresAt <= at \/ Listed(list, r).revokedAt <= at
RefusedIsLost == \A r \in refused : Lost(keys, r, now)

TrustInv == TypeOK /\ AcceptedWasTrusted /\ RefusedIsLost

\* The stage a receipt reaches depends on the key's facts in this order.
LEMMA TrustedMeans ==
  ASSUME NEW r, NEW k, NEW at \in Nat, Verified(r, k, at) = "SIGNER_TRUSTED"
  PROVE  /\ Intact(r) /\ SignatureValid(r)
         /\ k # UnknownKey /\ k.public = r.public
         /\ k.issuedAt <= at /\ at < k.expiresAt /\ ~(k.revokedAt <= at)
BY DEF Verified

\* A receipt resolved to a listed key has that key's types.
LEMMA ListedType ==
  ASSUME NEW list \in Seq(KeyInfo), NEW r, Places(list, r) # {}
  PROVE  Listed(list, r) \in KeyInfo
<1>1. PICK i \in Places(list, r) : Listed(list, r) = list[i]
  BY ListedIsFirst
<1> QED
  BY <1>1 DEF Places

\* The instants of a key are numbers.
LEMMA KeyInstants ==
  ASSUME NEW k \in KeyInfo
  PROVE  /\ k.issuedAt \in Nat /\ k.expiresAt \in Nat /\ k.revokedAt \in Nat
         /\ k.revokedAt <= Never
BY CheckpointAssumption DEF KeyInfo, Instant, Never

\* Noting what a verification against the list said keeps the invariant: what
\* is found trusted was signed so, and what no longer is has lost its key.
LEMMA NotedKeepsTrust ==
  ASSUME TrustInv, NEW r \in Receipt,
         Noted(r, Verified(r, Listed(keys, r), now) = "SIGNER_TRUSTED"),
         UNCHANGED <<now, keys>>
  PROVE  AcceptedWasTrusted' /\ RefusedIsLost'
<1>1. now \in Nat /\ keys \in Seq(KeyInfo) /\ refused \subseteq accepted
  BY CheckpointAssumption DEF TrustInv, TypeOK, Instant
<1>2. CASE Verified(r, Listed(keys, r), now) = "SIGNER_TRUSTED"
  <2>1. /\ Intact(r) /\ SignatureValid(r)
        /\ Listed(keys, r) # UnknownKey /\ Listed(keys, r).public = r.public
        /\ Listed(keys, r).issuedAt <= now
    BY <1>1, <1>2, TrustedMeans
  <2>2. Places(keys, r) # {}
    BY <2>1 DEF Listed, Places
  <2>3. accepted' = accepted \union {r} /\ refused' = refused
    BY <1>2 DEF Noted
  <2>4. AcceptedWasTrusted'
    BY <2>1, <2>2, <2>3 DEF TrustInv, AcceptedWasTrusted
  <2>5. RefusedIsLost'
    BY <2>3 DEF TrustInv, RefusedIsLost
  <2> QED
    BY <2>4, <2>5
<1>3. CASE Verified(r, Listed(keys, r), now) # "SIGNER_TRUSTED"
  <2>1. accepted' = accepted
    BY <1>3 DEF Noted
  <2>2. refused' = IF r \in accepted THEN refused \union {r} ELSE refused
    BY <1>3 DEF Noted
  <2>3. AcceptedWasTrusted'
    BY <2>1 DEF TrustInv, AcceptedWasTrusted
  <2>4. r \in accepted => Lost(keys, r, now)
    <3> SUFFICES ASSUME r \in accepted PROVE Lost(keys, r, now)
      OBVIOUS
    <3> DEFINE k == Listed(keys, r)
    <3>1. /\ Intact(r) /\ SignatureValid(r) /\ Places(keys, r) # {}
          /\ k.public = r.public /\ k.issuedAt <= now
      BY DEF TrustInv, AcceptedWasTrusted
    <3>2. k \in KeyInfo
      BY <1>1, <3>1, ListedType
    <3>3. /\ k.issuedAt \in Nat /\ k.expiresAt \in Nat /\ k.revokedAt \in Nat
      BY <3>2, KeyInstants
    <3> HIDE DEF k
    <3>4. CASE k = UnknownKey
      <4>1. k.expiresAt = 0
        BY <3>4 DEF UnknownKey
      <4>2. k.expiresAt <= now
        BY <1>1, <4>1
      <4> QED
        BY <4>2 DEF Lost, k
    <3>5. CASE k # UnknownKey
      <4>1. Verified(r, k, now) # "SIGNER_TRUSTED"
        BY <1>3 DEF k
      <4>2. ~(now < k.expiresAt) \/ k.revokedAt <= now
        BY <3>1, <3>5, <4>1 DEF Verified
      <4>3. k.expiresAt <= now \/ k.revokedAt <= now
        BY <1>1, <3>3, <4>2
      <4> QED
        BY <4>3 DEF Lost, k
    <3> QED
      BY <3>4, <3>5
  <2>5. RefusedIsLost'
    BY <2>2, <2>4 DEF TrustInv, RefusedIsLost
  <2> QED
    BY <2>3, <2>5
<1> QED
  BY <1>2, <1>3

\* Trust once lost is lost for good, for any keys, revoked at any time and
\* listed again under the same identifier (receipts/verify.ts).
THEOREM LostForGood == Spec => []TrustIsLostForGood
<1>1. Init => AcceptedWasTrusted /\ RefusedIsLost
  BY DEF Init, AcceptedWasTrusted, RefusedIsLost
<1>2. TypeOK /\ TypeOK' /\ AcceptedWasTrusted /\ RefusedIsLost /\ [Next]_vars
        => AcceptedWasTrusted' /\ RefusedIsLost'
  <2> SUFFICES ASSUME TrustInv, TypeOK', [Next]_vars
               PROVE  AcceptedWasTrusted' /\ RefusedIsLost'
    BY DEF TrustInv
  <2>1. CASE \E gates \in GateLists, ctx \in Context : Check(gates, ctx)
    <3> PICK gates \in GateLists, ctx \in Context : Check(gates, ctx)
      BY <2>1
    <3>1. UNCHANGED <<now, keys, assignments>>
      BY DEF Check
    <3>2. \/ /\ ctx.receipt # None
             /\ Noted(ctx.receipt, ReceiptResult(ctx) = "allowed")
          \/ UNCHANGED <<accepted, refused>>
      BY DEF Check
    <3>3. CASE UNCHANGED <<accepted, refused>>
      BY <3>1, <3>3 DEF TrustInv, AcceptedWasTrusted, RefusedIsLost
    <3>4. CASE ctx.receipt # None /\ Noted(ctx.receipt, ReceiptResult(ctx) = "allowed")
      <4>1. ctx.receipt \in Receipt
        BY <3>4, ContextReceipt
      <4>2. (ReceiptResult(ctx) = "allowed")
              = (Verified(ctx.receipt, Listed(keys, ctx.receipt), now) = "SIGNER_TRUSTED")
        BY <3>4 DEF ReceiptResult, ReceiptStatus, TrustInv, TypeOK
      <4>3. Noted(ctx.receipt,
                  Verified(ctx.receipt, Listed(keys, ctx.receipt), now) = "SIGNER_TRUSTED")
        BY <3>4, <4>2
      <4> QED
        BY <3>1, <4>1, <4>3, NotedKeepsTrust
    <3> QED
      BY <3>2, <3>3, <3>4
  <2>2. CASE \E ctx \in Context : ctx.receipt # None /\ VerifyReceipt(ctx.receipt)
    <3> PICK ctx \in Context : ctx.receipt # None /\ VerifyReceipt(ctx.receipt)
      BY <2>2
    <3>1. ctx.receipt \in Receipt
      BY ContextReceipt
    <3>2. /\ Noted(ctx.receipt,
                   Verified(ctx.receipt, Listed(keys, ctx.receipt), now) = "SIGNER_TRUSTED")
          /\ UNCHANGED <<now, keys>>
      BY DEF VerifyReceipt
    <3> QED
      BY <3>1, <3>2, NotedKeepsTrust
  <2>3. CASE Tick
    <3>1. now \in Nat /\ now' = now + 1 /\ UNCHANGED <<keys, accepted, refused>>
      BY <2>3, CheckpointAssumption DEF Tick, TrustInv, TypeOK, Instant
    <3>2. \A r \in accepted : Listed(keys, r) \in KeyInfo
      BY ListedType DEF TrustInv, TypeOK, AcceptedWasTrusted
    <3>3. \A r \in accepted :
            /\ Listed(keys, r).issuedAt \in Nat
            /\ Listed(keys, r).expiresAt \in Nat
            /\ Listed(keys, r).revokedAt \in Nat
      BY <3>2, KeyInstants
    <3>4. \A r \in accepted : Listed(keys, r).issuedAt <= now'
      BY <3>1, <3>3 DEF TrustInv, AcceptedWasTrusted
    <3>5. AcceptedWasTrusted'
      BY <3>1, <3>4 DEF TrustInv, AcceptedWasTrusted
    <3>6. \A r \in refused : Lost(keys, r, now')
      BY <3>1, <3>3 DEF TrustInv, TypeOK, RefusedIsLost, Lost
    <3>7. RefusedIsLost'
      BY <3>1, <3>6 DEF RefusedIsLost
    <3> QED
      BY <3>5, <3>7
  <2>4. CASE \E k \in NewKeys : AddKey(k)
    <3> PICK k \in NewKeys : AddKey(k)
      BY <2>4
    <3>1. keys \in Seq(KeyInfo) /\ k \in KeyInfo /\ refused \subseteq accepted
      BY CheckpointAssumption DEF TrustInv, TypeOK
    <3>2. keys' = Append(keys, k) /\ UNCHANGED <<now, accepted, refused>>
      BY DEF AddKey
    <3>3. \A r \in accepted : Places(keys', r) # {} /\ Listed(keys', r) = Listed(keys, r)
      BY <3>1, <3>2, AppendKeepsListed DEF TrustInv, AcceptedWasTrusted
    <3>4. AcceptedWasTrusted'
      BY <3>2, <3>3 DEF TrustInv, AcceptedWasTrusted
    <3>5. RefusedIsLost'
      BY <3>1, <3>2, <3>3 DEF TrustInv, RefusedIsLost, Lost
    <3> QED
      BY <3>4, <3>5
  <2>5. CASE \E i \in DOMAIN keys, at \in Instant : RevokeKey(i, at)
    <3> PICK i \in DOMAIN keys, at \in Instant : RevokeKey(i, at)
      BY <2>5
    <3>1. /\ keys \in Seq(KeyInfo) /\ keys[i].revokedAt = Never
          /\ refused \subseteq accepted /\ now \in Instant
      BY DEF TrustInv, TypeOK, RevokeKey
    <3>2. /\ keys' = [keys EXCEPT ![i].revokedAt = at]
          /\ UNCHANGED <<now, accepted, refused>>
      BY DEF RevokeKey
    <3>3. \A r \in accepted : /\ Places(keys', r) # {}
                              /\ SameButRevoked(Listed(keys', r), Listed(keys, r))
      <4>1. \A j \in DOMAIN keys : keys[j] \in KeyInfo
        BY <3>1
      <4>2. PICK d : d = [keys[i] EXCEPT !.revokedAt = at]
        OBVIOUS
      <4>3. SameButRevoked(d, keys[i])
        BY <3>1, <4>1, <4>2 DEF SameButRevoked, KeyInfo
      <4>4. keys' \in Seq(KeyInfo)
        BY DEF TypeOK
      <4>5. /\ DOMAIN keys' = DOMAIN keys /\ keys'[i] = d
            /\ \A j \in DOMAIN keys \ {i} : keys'[j] = keys[j]
        BY <3>1, <3>2, <4>2
      <4>6. \A j \in DOMAIN keys : SameButRevoked(keys'[j], keys[j])
        BY <4>3, <4>5 DEF SameButRevoked
      <4>7. PICK more : more = keys'
        OBVIOUS
      <4>8. \A r \in accepted : Places(more, r) # {}
                               /\ SameButRevoked(Listed(more, r), Listed(keys, r))
        BY <3>1, <4>4, <4>5, <4>6, <4>7, RevokeKeepsListed DEF TrustInv, AcceptedWasTrusted
      <4> QED
        BY <4>7, <4>8
    <3>4. AcceptedWasTrusted'
      BY <3>2, <3>3 DEF TrustInv, AcceptedWasTrusted, SameButRevoked
    <3>5. ~(Never <= now)
      BY <3>1, CheckpointAssumption DEF Instant, Never
    <3>6. \A r \in refused : Lost(keys', r, now)
      BY <3>1, <3>3, <3>5 DEF TrustInv, RefusedIsLost, Lost, SameButRevoked
    <3>7. RefusedIsLost'
      BY <3>2, <3>6 DEF RefusedIsLost
    <3> QED
      BY <3>4, <3>7
  <2>6. CASE \E a \in Given : Assign(a)
    <3>1. UNCHANGED <<now, keys, accepted, refused>>
      BY <2>6 DEF Assign
    <3> QED
      BY <3>1 DEF TrustInv, AcceptedWasTrusted, RefusedIsLost
  <2>7. CASE \E i \in DOMAIN assignments : Withdraw(i)
    <3>1. UNCHANGED <<now, keys, accepted, refused>>
      BY <2>7 DEF Withdraw
    <3> QED
      BY <3>1 DEF TrustInv, AcceptedWasTrusted, RefusedIsLost
  <2>8. CASE UNCHANGED vars
    <3>1. UNCHANGED <<now, keys, accepted, refused>>
      BY <2>8 DEF vars
    <3> QED
      BY <3>1 DEF TrustInv, AcceptedWasTrusted, RefusedIsLost
  <2> QED
    BY <2>1, <2>2, <2>3, <2>4, <2>5, <2>6, <2>7, <2>8 DEF Next
<1>3. TypeOK /\ AcceptedWasTrusted /\ RefusedIsLost => TrustIsLostForGood
  <2> SUFFICES ASSUME TypeOK, AcceptedWasTrusted, RefusedIsLost,
                      NEW r \in refused, ReceiptStatus(r, keys) = "SIGNER_TRUSTED"
               PROVE  FALSE
    BY DEF TrustIsLostForGood
  <2>1. now \in Nat /\ keys \in Seq(KeyInfo) /\ keys # <<>> /\ r \in accepted
    BY CheckpointAssumption DEF TypeOK, Instant
  <2>2. Verified(r, Listed(keys, r), now) = "SIGNER_TRUSTED"
    BY <2>1 DEF ReceiptStatus
  <2>3. now < Listed(keys, r).expiresAt /\ ~(Listed(keys, r).revokedAt <= now)
    BY <2>1, <2>2, TrustedMeans
  <2>4. Listed(keys, r).expiresAt \in Nat
    BY <2>1, ListedType, KeyInstants DEF AcceptedWasTrusted
  <2> QED
    BY <2>1, <2>3, <2>4 DEF RefusedIsLost, Lost
<1> QED
  BY <1>1, <1>2, <1>3, TypeCorrect, PTL DEF Spec
-----------------------------------------------------------------------------
(* Dual approval *)

\* A run of gates that is allowed to its end has asked every one of them.
LEMMA AllowedAsksAll ==
  ASSUME NEW gates \in Seq({"mission", "receipt", "approval", "authorization"}),
         NEW ctx \in Context, Verdict(Results(gates, ctx)) # "blocked",
         NEW i \in DOMAIN gates
  PROVE  Result(gates[i], ctx) = "allowed"
<1> DEFINE all   == [j \in DOMAIN gates |-> Result(gates[j], ctx)]
           stops == {j \in DOMAIN gates : all[j] # "allowed"}
           T     == {Result(gates[j], ctx) : j \in DOMAIN gates}
<1>1. DOMAIN gates = 1..Len(gates) /\ Len(gates) \in Nat
  OBVIOUS
<1>2. all \in Seq(T) /\ Len(all) = Len(gates)
  <2>1. all \in [1..Len(gates) -> T]
    BY <1>1
  <2> HIDE DEF all, T
  <2> QED
    BY <1>1, <2>1
<1>3. stops = {}
  <2> SUFFICES ASSUME stops # {}
               PROVE  FALSE
    OBVIOUS
  <2> DEFINE m == CHOOSE j \in stops : \A k \in stops : j <= k
  <2>1. stops \subseteq Nat
    BY <1>1
  <2>2. m \in stops
    <3> HIDE DEF stops
    <3> QED
      BY <2>1, FirstExists
  <2>3. m \in 1..Len(gates) /\ all[m] # "allowed"
    BY <1>1, <2>2
  <2>4. Results(gates, ctx) = SubSeq(all, 1, m)
    BY DEF Results
  <2>5. m \in DOMAIN SubSeq(all, 1, m) /\ SubSeq(all, 1, m)[m] = all[m]
    <3> HIDE DEF all, m, T, stops
    <3> QED
      BY <1>1, <1>2, <2>3
  <2> HIDE DEF all, m, T, stops
  <2> QED
    BY <2>3, <2>4, <2>5 DEF Verdict
<1> QED
  BY <1>3

\* Whoever is authorized to approve at a scope has one assignment there, and it
\* holds the approver role.
LEMMA AuthorizedMeans ==
  ASSUME NEW list \in Seq(Assignment), NEW p, NEW s,
         Authorized(list, p, "close:approve", s)
  PROVE  /\ Cardinality(AtTarget(list, p, s)) = 1
         /\ \E i \in AtTarget(list, p, s) : "approver" \in list[i].roles
<1> DEFINE target == AtTarget(list, p, s)
<1>1. /\ Faults(list) = {} /\ target # {} /\ ~(Cardinality(target) > 1)
      /\ \E i \in target : \E r \in list[i].roles : "close:approve" \in RolePermissions[r]
  <2>1. \A a : Fault(a) # "allowed"
    BY DEF Fault
  <2> QED
    BY <2>1 DEF Authorized, Decision
<1>2. Cardinality(target) \in Nat /\ Cardinality(target) # 0
  <2>1. target \subseteq 1..Len(list) /\ Len(list) \in Nat
    BY DEF AtTarget, Mine
  <2>2. IsFiniteSet(1..Len(list))
    BY <2>1, FS_Interval
  <2>3. IsFiniteSet(target)
    BY <2>1, <2>2, FS_Subset
  <2> QED
    BY <1>1, <2>3, FS_EmptySet, FS_CardinalityType
<1>3. PICK i \in target : \E r \in list[i].roles : "close:approve" \in RolePermissions[r]
  BY <1>1
<1>4. i \in DOMAIN list
  BY DEF AtTarget, Mine
<1>5. list[i].roles \subseteq Role
  BY <1>1, <1>4 DEF Faults, Fault
<1>6. \A r \in Role : "close:approve" \in RolePermissions[r] => r = "approver"
  BY DEF Role, RolePermissions
<1> QED
  BY <1>1, <1>2, <1>3, <1>5, <1>6

\* A set of two elements or more has two that differ.
LEMMA TwoDiffer ==
  ASSUME NEW S, ~(Cardinality(S) < 2)
  PROVE  \E p, q \in S : p # q
<1> SUFFICES ASSUME \A p, q \in S : p = q
             PROVE  FALSE
  OBVIOUS
<1>1. CASE S = {}
  BY <1>1, FS_EmptySet
<1>2. CASE S # {}
  <2>1. PICK p : S = {p}
    BY <1>2
  <2>2. Cardinality({p}) = 1
    BY FS_Singleton
  <2> QED
    BY <2>1, <2>2
<1> QED
  BY <1>1, <1>2

\* The authorization gate lets an R3 checkpoint pass on two entitled people.
LEMMA AuthorizationMeans ==
  ASSUME TypeOK, NEW ctx \in Context, ctx.tier = "R3", AuthorizationResult(ctx) = "allowed"
  PROVE  /\ \E p, q \in Approvers(ctx) : p # q
         /\ \A p \in Approvers(ctx) : Entitled(p, ctx.mission.tenant)
<1>1. ApprovalResult(ctx) = "allowed"
  BY DEF AuthorizationResult
<1>2. ~(Cardinality(Approvers(ctx)) < 2)
  BY <1>1 DEF ApprovalResult
<1>3. /\ DerivedScope(ctx) = ctx.mission.tenant
      /\ \A p \in Approvers(ctx) :
           Authorized(assignments, p, "close:approve", DerivedScope(ctx))
  BY <1>1 DEF AuthorizationResult, DerivedScope, NoTier
<1>4. ASSUME NEW p \in Approvers(ctx)
      PROVE  Entitled(p, ctx.mission.tenant)
  <2>1. PICK s : s = ctx.mission.tenant
    OBVIOUS
  <2>2. Authorized(assignments, p, "close:approve", s)
    BY <1>3, <2>1
  <2>3. /\ Cardinality(AtTarget(assignments, p, s)) = 1
        /\ \E i \in AtTarget(assignments, p, s) : "approver" \in assignments[i].roles
    BY <2>2, AuthorizedMeans DEF TypeOK
  <2>4. AtTarget(assignments, p, s) =
          {i \in DOMAIN assignments : assignments[i].identity = p /\ assignments[i].scope = s}
    BY DEF AtTarget, Mine
  <2> QED
    BY <2>1, <2>3, <2>4 DEF Entitled
<1> QED
  BY <1>2, <1>4, TwoDiffer

\* The receipt gate lets nothing pass but what some key pair has signed.
LEMMA ReceiptMeans ==
  ASSUME TypeOK, NEW ctx \in Context, ReceiptResult(ctx) = "allowed"
  PROVE  \E c \in Content, k \in KeyId, p \in Public : ctx.receipt = SignedReceipt(c, k, p)
<1>1. PICK r : r = ctx.receipt
  OBVIOUS
<1>2. r \in Receipt
  BY <1>1, ContextReceipt DEF ReceiptResult
<1>3. PICK k : Verified(r, k, now) = "SIGNER_TRUSTED"
  BY <1>1 DEF ReceiptResult, ReceiptStatus
<1>4. Intact(r) /\ SignatureValid(r)
  <2>1. now \in Nat
    BY CheckpointAssumption DEF TypeOK, Instant
  <2> QED
    BY <1>3, <2>1, TrustedMeans
<1>5. r = SignedReceipt(r.content, r.keyId, r.public)
  BY <1>2, <1>4 DEF Receipt, Intact, SignatureValid, SignedReceipt
<1> QED
  BY <1>1, <1>2, <1>5 DEF Receipt

\* An R3 checkpoint with the authorization gate passes only on the word of two
\* different approvers of the mission's own scope, and one with the receipt gate
\* only on a receipt as it was signed, whatever keys and assignments there are.
THEOREM DualApproval == Spec => []DualApprovalIsReal
<1>1. Init => DualApprovalIsReal
  BY DEF Init, DualApprovalIsReal, NoDecision
<1>2. ASSUME TypeOK, DualApprovalIsReal, [Next]_vars
      PROVE  DualApprovalIsReal'
  <2>1. CASE \E gates \in GateLists, ctx \in Context : Check(gates, ctx)
    <3> PICK gates \in GateLists, ctx \in Context : Check(gates, ctx)
      BY <2>1
    <3>1. CASE Verdict(Results(gates, ctx)) = "blocked"
      BY <3>1 DEF Check, DualApprovalIsReal, Refusal
    <3>2. CASE Verdict(Results(gates, ctx)) # "blocked"
      <4>1. gates \in Seq({"mission", "receipt", "approval", "authorization"})
        BY CheckpointAssumption
      <4>2. \A i \in DOMAIN gates : Result(gates[i], ctx) = "allowed"
        BY <3>2, <4>1, AllowedAsksAll
      <4>3. assignments' = assignments
        BY DEF Check
      <4>4. decided' = [verdict |-> "allowed", gates |-> gates, ctx |-> ctx]
        BY <3>2 DEF Check
      <4>5. ASSUME \E i \in DOMAIN gates : gates[i] = "authorization", ctx.tier = "R3"
            PROVE  /\ \E p, q \in Approvers(ctx) : p # q
                   /\ \A p \in Approvers(ctx) : Entitled(p, ctx.mission.tenant)
        <5>1. AuthorizationResult(ctx) = "allowed"
          BY <4>2, <4>5 DEF Result
        <5> QED
          BY <1>2, <4>5, <5>1, AuthorizationMeans
      <4>6. ASSUME \E i \in DOMAIN gates : gates[i] = "receipt"
            PROVE  \E c \in Content, k \in KeyId, p \in Public :
                     ctx.receipt = SignedReceipt(c, k, p)
        <5>1. ReceiptResult(ctx) = "allowed"
          BY <4>2, <4>6 DEF Result
        <5> QED
          BY <1>2, <5>1, ReceiptMeans
      <4>7. \A p \in Approvers(ctx) :
              Entitled(p, ctx.mission.tenant) => Entitled(p, ctx.mission.tenant)'
        BY <4>3 DEF Entitled
      <4> QED
        BY <4>4, <4>5, <4>6, <4>7 DEF DualApprovalIsReal
    <3> QED
      BY <3>1, <3>2
  <2>2. ASSUME decided' = NoDecision
        PROVE  DualApprovalIsReal'
    BY <2>2 DEF DualApprovalIsReal, NoDecision
  <2>3. CASE UNCHANGED vars
    BY <1>2, <2>3 DEF vars, DualApprovalIsReal, Entitled
  <2>4. CASE \E ctx \in Context : ctx.receipt # None /\ VerifyReceipt(ctx.receipt)
    BY <2>2, <2>4 DEF VerifyReceipt
  <2>5. CASE Tick
    BY <2>2, <2>5 DEF Tick
  <2>6. CASE \E k \in NewKeys : AddKey(k)
    BY <2>2, <2>6 DEF AddKey
  <2>7. CASE \E i \in DOMAIN keys, at \in Instant : RevokeKey(i, at)
    BY <2>2, <2>7 DEF RevokeKey
  <2>8. CASE \E a \in Given : Assign(a)
    BY <2>2, <2>8 DEF Assign
  <2>9. CASE \E i \in DOMAIN assignments : Withdraw(i)
    BY <2>2, <2>9 DEF Withdraw
  <2> QED
    BY <1>2, <2>1, <2>3, <2>4, <2>5, <2>6, <2>7, <2>8, <2>9 DEF Next
<1> QED
  BY <1>1, <1>2, TypeCorrect, PTL DEF Spec

-----------------------------------------------------------------------------
(* The registry of skills *)

\* Of two registered definitions resolveAt prefers the first argument.
Preferred(reg, i, k) ==
  \/ reg[k].version < reg[i].version
  \/ reg[k].version = reg[i].version /\ i <= k

Best(reg, found, i) == i \in found /\ \A k \in found : Preferred(reg, i, k)

\* Of finitely many positions, however many, one is preferred to all others.
LEMMA BestExists ==
  ASSUME NEW n \in Nat, NEW reg, NEW found \in SUBSET (1..n), found # {},
         \A i \in found : reg[i].version \in Nat
  PROVE  \E i \in found : Best(reg, found, i)
<1> DEFINE Upto(m) == {i \in found : i <= m}
           Preferable(m) == \E i \in Upto(m) : Best(reg, Upto(m), i)
           Bad == {m \in Nat : Upto(m) # {} /\ ~Preferable(m)}
<1>0. found \subseteq Nat /\ found \subseteq 1..n
  OBVIOUS
<1>1. ASSUME Bad # {} PROVE FALSE
  <2>0. \A m : m \in Bad <=> m \in Nat /\ Upto(m) # {} /\ ~Preferable(m)
    OBVIOUS
  <2>1. PICK m \in Bad : \A l \in Bad : m <= l
    <3>1. Bad \in SUBSET Nat
      OBVIOUS
    <3> HIDE DEF Bad
    <3> QED
      BY <1>1, <3>1, FirstExists
  <2>2. m \in Nat /\ Upto(m) # {} /\ ~Preferable(m) /\ m # 0
    <3>1. m \in Nat /\ Upto(m) # {} /\ ~Preferable(m)
      BY <2>0
    <3>2. PICK i \in found : i <= m
      BY <3>1
    <3>3. i \in 1..n
      BY <1>0
    <3> HIDE DEF Upto, Preferable, Bad
    <3> QED
      BY <3>1, <3>2, <3>3
  <2>3. m - 1 \in Nat /\ (Upto(m - 1) = {} \/ Preferable(m - 1))
    <3>1. m - 1 \in Nat /\ ~(m <= m - 1)
      BY <2>2
    <3>2. m - 1 \notin Bad
      BY <2>1, <3>1
    <3> HIDE DEF Upto, Preferable, Bad
    <3> QED
      BY <2>0, <3>1, <3>2
  <2>4. Upto(m) = Upto(m - 1) \union (found \intersect {m})
    <3>1. \A i \in found : i <= m <=> (i <= m - 1 \/ i = m)
      BY <1>0, <2>2
    <3> QED
      BY <3>1
  <2>5. CASE m \notin found
    <3>1. Upto(m) = Upto(m - 1)
      BY <2>4, <2>5
    <3> QED
      BY <2>1, <2>2, <2>3, <3>1
  <2>6. CASE m \in found /\ Upto(m - 1) = {}
    <3>1. Upto(m) = {m}
      BY <2>4, <2>6
    <3>2. Best(reg, Upto(m), m)
      BY <2>2, <3>1 DEF Best, Preferred
    <3> QED
      BY <2>1, <3>1, <3>2
  <2>7. CASE m \in found /\ Upto(m - 1) # {}
    <3>1. PICK b \in Upto(m - 1) : Best(reg, Upto(m - 1), b)
      BY <2>3, <2>7
    <3>2. b \in found /\ b < m /\ b \in Nat /\ Upto(m) = Upto(m - 1) \union {m}
      BY <2>2, <2>4, <2>7, <3>1
    <3>3. CASE reg[m].version > reg[b].version
      <4>1. \A k \in Upto(m - 1) : reg[k].version <= reg[b].version
        BY <3>1, <3>2 DEF Best, Preferred
      <4>2. \A k \in Upto(m - 1) : Preferred(reg, m, k)
        BY <2>7, <3>2, <3>3, <4>1 DEF Preferred
      <4>3. Preferred(reg, m, m)
        BY <2>2 DEF Preferred
      <4>4. Best(reg, Upto(m), m)
        BY <3>2, <4>2, <4>3 DEF Best
      <4> QED
        BY <2>1, <3>2, <4>4
    <3>4. CASE ~(reg[m].version > reg[b].version)
      <4>1. Preferred(reg, b, m)
        BY <2>7, <3>2, <3>4 DEF Preferred
      <4>2. Best(reg, Upto(m), b)
        BY <3>1, <3>2, <4>1 DEF Best
      <4> QED
        BY <2>1, <3>2, <4>2
    <3> QED
      BY <3>3, <3>4
  <2> QED
    BY <2>5, <2>6, <2>7
<1>2. Upto(n) = found
  <2>1. \A i \in found : i <= n
    BY <1>0
  <2> QED
    BY <2>1
<1> QED
  BY <1>1, <1>2

\* There is only one, and it is what resolveAt returns.
LEMMA ResolvesToBest ==
  ASSUME NEW reg, NEW found \in SUBSET Nat, NEW i \in found, Best(reg, found, i),
         \A k \in found : reg[k].version \in Nat
  PROVE  Skill!Resolve(reg, found) = reg[i]
<1> DEFINE P(c) == \A k \in found : \/ reg[k].version < reg[c].version
                                    \/ reg[k].version = reg[c].version /\ c <= k
<1>1. ASSUME NEW c \in found, P(c) PROVE c = i
  <2>1. \/ reg[i].version < reg[c].version
        \/ reg[i].version = reg[c].version /\ c <= i
    BY <1>1
  <2>2. \/ reg[c].version < reg[i].version
        \/ reg[c].version = reg[i].version /\ i <= c
    BY DEF Best, Preferred
  <2>3. reg[c].version \in Nat /\ reg[i].version \in Nat /\ c \in Nat /\ i \in Nat
    OBVIOUS
  <2> QED
    BY <2>1, <2>2, <2>3
<1>2. i \in found /\ P(i)
  BY DEF Best, Preferred
<1>3. (CHOOSE c \in found : P(c)) = i
  BY <1>1, <1>2
<1> QED
  BY <1>3 DEF Skill!Resolve

LEMMA DefinitionFacts ==
  ASSUME NEW d \in Definition
  PROVE  d.version \in Nat
BY SkillsAssumption

\* A version resolves to the same definition after any registration.
LEMMA VersionStands ==
  ASSUME NEW reg \in Seq(Definition), NEW d \in Definition, NEW id, NEW version,
         Skill!VersionsOf(reg, id, version) # {}
  PROVE  Skill!ResolveVersion(Append(reg, d), id, version)
           = Skill!ResolveVersion(reg, id, version)
<1> DEFINE more == Append(reg, d)
           S == Skill!VersionsOf(reg, id, version)
           T == Skill!VersionsOf(more, id, version)
<1>1. /\ more \in Seq(Definition) /\ Len(more) = Len(reg) + 1
      /\ \A i \in 1..Len(reg) : more[i] = reg[i]
  OBVIOUS
<1>2. S \in SUBSET Nat /\ S \subseteq 1..Len(reg)
  BY DEF Skill!VersionsOf
<1>3. PICK i \in S : \A k \in S : i <= k
  BY <1>2, FirstExists
<1>4. i \in T /\ \A k \in T : i <= k
  <2>1. \A k \in T : k \in S \/ k = Len(reg) + 1
    BY <1>1 DEF Skill!VersionsOf
  <2>2. i \in T
    BY <1>1, <1>2, <1>3 DEF Skill!VersionsOf
  <2> QED
    BY <1>2, <1>3, <2>1, <2>2
<1>5. T \subseteq Nat
  BY <1>1 DEF Skill!VersionsOf
<1>6. Skill!First(S) = i
  BY <1>2, <1>3 DEF Skill!First
<1>7. Skill!First(T) = i
  BY <1>4, <1>5 DEF Skill!First
<1> QED
  BY <1>1, <1>2, <1>6, <1>7 DEF Skill!ResolveVersion

\* What resolves at a date does so after any registration, unless the new
\* definition was in force then and has a higher version.
LEMMA ResolutionStands ==
  ASSUME NEW reg \in Seq(Definition), NEW d \in Definition, NEW id, NEW at, NEW j,
         Skill!InForceOf(reg, id, at, j) # {}
  PROVE  LET before == Skill!InForceOf(reg, id, at, j)
             after  == Skill!InForceOf(Append(reg, d), id, at, j)
         IN  \/ Skill!Resolve(Append(reg, d), after) = Skill!Resolve(reg, before)
             \/ /\ Skill!Resolve(Append(reg, d), after) = d
                /\ d.version > Skill!Resolve(reg, before).version
                /\ Skill!InForce(d, at)
<1> DEFINE more == Append(reg, d)
           n == Len(reg)
           before == Skill!InForceOf(reg, id, at, j)
           after == Skill!InForceOf(more, id, at, j)
<1>1. /\ more \in Seq(Definition) /\ Len(more) = n + 1 /\ more[n + 1] = d /\ n \in Nat
      /\ \A i \in 1..n : more[i] = reg[i] /\ reg[i] \in Definition
  OBVIOUS
<1>2. before \in SUBSET (1..n) /\ after \in SUBSET (1..n + 1)
  BY <1>1 DEF Skill!InForceOf
<1>3. /\ \A i \in before : i \in after
      /\ \A i \in after : i \in before \/ i = n + 1
  BY <1>1, <1>2 DEF Skill!InForceOf
<1>4. /\ \A i \in before : reg[i].version \in Nat /\ more[i] = reg[i]
      /\ \A i \in after : more[i].version \in Nat
  BY <1>1, <1>2, DefinitionFacts
<1>5. PICK b \in before : Best(reg, before, b)
  BY <1>1, <1>2, <1>4, BestExists
<1>6. Skill!Resolve(reg, before) = reg[b]
  BY <1>2, <1>4, <1>5, ResolvesToBest
<1>7. CASE n + 1 \in after /\ d.version > reg[b].version
  <2>1. \A k \in before : reg[k].version <= reg[b].version
    BY <1>4, <1>5 DEF Best, Preferred
  <2>2. ASSUME NEW k \in after PROVE Preferred(more, n + 1, k)
    <3>1. CASE k = n + 1
      BY <1>1, <3>1 DEF Preferred
    <3>2. CASE k \in before
      <4>1. more[k].version = reg[k].version /\ reg[k].version \in Nat
        BY <1>4, <3>2
      <4>2. reg[k].version <= reg[b].version /\ reg[b].version \in Nat
        BY <1>4, <2>1, <3>2
      <4>3. d.version \in Nat /\ d.version > reg[b].version /\ more[n + 1] = d
        BY <1>1, <1>7, DefinitionFacts
      <4> QED
        BY <4>1, <4>2, <4>3 DEF Preferred
    <3> QED
      BY <1>3, <2>2, <3>1, <3>2
  <2>3. Skill!Resolve(more, after) = more[n + 1]
    <3>1. Best(more, after, n + 1) /\ n + 1 \in after
      BY <1>7, <2>2 DEF Best
    <3>2. after \in SUBSET Nat
      BY <1>1, <1>2
    <3> HIDE DEF after, more
    <3> QED
      BY <1>4, <3>1, <3>2, ResolvesToBest
  <2>4. Skill!InForce(d, at)
    BY <1>1, <1>7 DEF Skill!InForceOf
  <2> QED
    BY <1>1, <1>6, <1>7, <2>3, <2>4
<1>8. CASE ~(n + 1 \in after /\ d.version > reg[b].version)
  <2>1. \A k \in before : Preferred(more, b, k)
    BY <1>4, <1>5 DEF Best, Preferred
  <2>2. n + 1 \in after => Preferred(more, b, n + 1)
    BY <1>1, <1>2, <1>4, <1>8, DefinitionFacts DEF Preferred
  <2>3. Best(more, after, b)
    BY <1>3, <2>1, <2>2 DEF Best
  <2>4. Skill!Resolve(more, after) = more[b]
    <3>1. after \in SUBSET Nat /\ b \in after
      BY <1>1, <1>2, <1>3
    <3> HIDE DEF after, more
    <3> QED
      BY <1>4, <2>3, <3>1, ResolvesToBest
  <2> QED
    BY <1>4, <1>6, <2>4
<1> QED
  BY <1>7, <1>8

RegistryTyped == registry \in Seq(Definition)

\* A step registers one definition or leaves the registry alone.
LEMMA RegistryStep ==
  ASSUME [TrustNext]_<<vars, skillVars>>
  PROVE  UNCHANGED registry \/ \E d \in Definition : registry' = Append(registry, d)
BY DEF TrustNext, skillVars, Skill!Next, Skill!Register, Skill!Sign, Skill!Alter,
   Skill!CreatePin

LEMMA RegistryInvariant == TrustSpec => []RegistryTyped
<1>1. TrustInit => RegistryTyped
  BY DEF TrustInit, Skill!Init, RegistryTyped
<1>2. RegistryTyped /\ [TrustNext]_<<vars, skillVars>> => RegistryTyped'
  BY RegistryStep DEF RegistryTyped
<1> QED
  BY <1>1, <1>2, PTL DEF TrustSpec

\* A registration never moves the past (skills/registry.ts), for every set of
\* definitions and any number of them, several texts of one version included.
THEOREM HistoryIsKept == TrustSpec => HistoryStands
<1>1. ASSUME RegistryTyped, [TrustNext]_<<vars, skillVars>>, registry' # registry
      PROVE  LET new == registry'[Len(registry')] IN
             \A id \in SkillId :
               /\ \A d \in Definition :
                    Skill!VersionsOf(registry, id, d.version) # {} =>
                      Skill!ResolveVersion(registry', id, d.version)
                        = Skill!ResolveVersion(registry, id, d.version)
               /\ \A at \in Skill!Date, j \in Jurisdiction \union {Skill!AnyJurisdiction} :
                    LET before == Skill!InForceOf(registry, id, at, j)
                        after  == Skill!InForceOf(registry', id, at, j)
                    IN  before # {} =>
                          \/ Skill!Resolve(registry', after) = Skill!Resolve(registry, before)
                          \/ /\ Skill!Resolve(registry', after) = new
                             /\ new.version > Skill!Resolve(registry, before).version
                             /\ Skill!InForce(new, at)
  <2>1. PICK d \in Definition : registry' = Append(registry, d)
    BY <1>1, RegistryStep
  <2>2. PICK reg \in Seq(Definition) : reg = registry
    BY <1>1 DEF RegistryTyped
  <2>3. registry' = Append(reg, d) /\ registry'[Len(registry')] = d
    BY <2>1, <2>2
  <2>4. \A id, version : Skill!VersionsOf(reg, id, version) # {} =>
          Skill!ResolveVersion(Append(reg, d), id, version)
            = Skill!ResolveVersion(reg, id, version)
    BY VersionStands
  <2>5. \A id, at, j : Skill!InForceOf(reg, id, at, j) # {} =>
          \/ Skill!Resolve(Append(reg, d), Skill!InForceOf(Append(reg, d), id, at, j))
               = Skill!Resolve(reg, Skill!InForceOf(reg, id, at, j))
          \/ /\ Skill!Resolve(Append(reg, d), Skill!InForceOf(Append(reg, d), id, at, j)) = d
             /\ d.version > Skill!Resolve(reg, Skill!InForceOf(reg, id, at, j)).version
             /\ Skill!InForce(d, at)
    BY ResolutionStands
  <2> QED
    BY <2>2, <2>3, <2>4, <2>5
<1> QED
  BY <1>1, RegistryInvariant, PTL DEF TrustSpec, HistoryStands, Skill!HistoryStands

-----------------------------------------------------------------------------
(* Mission skill pins *)

\* The entry that pins the definition d.
EntryOf(d) ==
  [id |-> d.id, version |-> d.version, checksum |-> d,
   jurisdiction |-> d.jurisdiction, from |-> d.from, to |-> d.to]

SameSkill(d, e) == d.id = e.id /\ d.version = e.version

\* A list of packs with nothing wrong in itself, as of date at.
Signed(p) ==
  p.checksum = p.pack /\ p.signature = [by |-> p.key, over |-> p.pack]
Clean(list, at) ==
  /\ \A i \in DOMAIN list : Signed(list[i]) /\ Skill!InForce(list[i].pack, at)
  /\ \A i, j \in DOMAIN list : SameSkill(list[i].pack, list[j].pack) => i = j

LEMMA NoPackFaults == ASSUME NEW p PROVE (Skill!PackFaults(p) = {}) <=> Signed(p)
<1>1. p.checksum # p.pack <=> "checksum-mismatch" \in Skill!PackFaults(p)
  BY DEF Skill!PackFaults
<1>2. p.signature # [by |-> p.key, over |-> p.pack]
        <=> "candidate-signature-invalid" \in Skill!PackFaults(p)
  BY DEF Skill!PackFaults
<1>3. Skill!PackFaults(p) \subseteq {"checksum-mismatch", "candidate-signature-invalid"}
  BY DEF Skill!PackFaults
<1> QED
  BY <1>1, <1>2, <1>3 DEF Signed

\* The list's own faults are none exactly if it is clean.
LEMMA NoCandidateFaults ==
  ASSUME NEW n \in Nat, NEW list, DOMAIN list = 1..n, NEW at
  PROVE  (Skill!CandidateFaults(list, at) = {}) <=> Clean(list, at)
<1> DEFINE Doubled == {k \in DOMAIN list :
                         \E j \in 1..k - 1 : Skill!SameIdentity(Skill!Entry(list[j]), list[k])}
           Stale == {k \in DOMAIN list :
                       Skill!PackFaults(list[k]) = {} /\ ~Skill!InForce(list[k].pack, at)}
           Own(i) == {Skill!Of(code, list[i]) : code \in Skill!PackFaults(list[i])}
           Faulty == UNION {Own(i) : i \in DOMAIN list}
<1>1. Skill!CandidateFaults(list, at)
        = {Skill!Of("duplicate-candidate-identity", list[i]) : i \in Doubled}
          \union Faulty
          \union {Skill!Of("skill-out-of-force", list[i]) : i \in Stale}
  BY DEF Skill!CandidateFaults
<1>2. (Skill!CandidateFaults(list, at) = {}) <=> (Doubled = {} /\ Faulty = {} /\ Stale = {})
  <2> HIDE DEF Doubled, Faulty, Stale
  <2> QED
    BY <1>1
<1>3. (Faulty = {}) <=> \A i \in DOMAIN list : Skill!PackFaults(list[i]) = {}
  <2>1. \A i : (Own(i) = {}) <=> (Skill!PackFaults(list[i]) = {})
    OBVIOUS
  <2> HIDE DEF Own
  <2>2. (Faulty = {}) <=> \A i \in DOMAIN list : Own(i) = {}
    OBVIOUS
  <2> QED
    BY <2>1, <2>2
<1>4. (Doubled = {}) <=> \A i, j \in DOMAIN list : SameSkill(list[i].pack, list[j].pack) => i = j
  <2>1. \A j, k \in DOMAIN list : Skill!SameIdentity(Skill!Entry(list[j]), list[k])
                                   <=> SameSkill(list[j].pack, list[k].pack)
    BY DEF Skill!SameIdentity, Skill!Entry, SameSkill
  <2>2. \A k \in DOMAIN list : \A j : j \in 1..k - 1 <=> (j \in DOMAIN list /\ j < k)
    OBVIOUS
  <2>3. \A j, k \in DOMAIN list : j = k \/ j < k \/ k < j
    OBVIOUS
  <2>4. \A j, k \in DOMAIN list : SameSkill(list[j].pack, list[k].pack)
                                   <=> SameSkill(list[k].pack, list[j].pack)
    BY DEF SameSkill
  <2>5. \A j, k \in DOMAIN list : j < k => j # k
    OBVIOUS
  <2>6. (Doubled = {}) <=> \A j, k \in DOMAIN list :
                              j < k => ~SameSkill(list[j].pack, list[k].pack)
    BY <2>1, <2>2
  <2> QED
    BY <2>3, <2>4, <2>5, <2>6
<1>5. (\A i \in DOMAIN list : Skill!PackFaults(list[i]) = {})
        <=> \A i \in DOMAIN list : Signed(list[i])
  BY NoPackFaults
<1> QED
  BY <1>2, <1>3, <1>4, <1>5 DEF Clean

\* Lists that callers offer are short sequences of packs.
LEMMA ListShape ==
  ASSUME NEW list \in Skill!Lists
  PROVE  \/ list = <<>>
         \/ \E p \in packs : list = <<p>>
         \/ \E p, q \in packs : list = <<p, q>>
BY DEF Skill!Lists

PacksOf(list) == {list[i].pack : i \in DOMAIN list}

\* Its length is the number of definitions it has exactly if none is repeated.
LEMMA EachOnce ==
  ASSUME NEW list \in Skill!Lists
  PROVE  /\ \E n \in Nat : DOMAIN list = 1..n
         /\ (Len(list) = Cardinality(PacksOf(list)))
              <=> \A i, j \in DOMAIN list : list[i].pack = list[j].pack => i = j
<1>1. CASE list = <<>>
  <2>1. DOMAIN list = 1..0 /\ Len(list) = 0
    BY <1>1
  <2>2. PacksOf(list) = {}
    BY <2>1 DEF PacksOf
  <2> QED
    BY <2>1, <2>2, FS_EmptySet
<1>2. CASE \E p \in packs : list = <<p>>
  <2>1. PICK p \in packs : list = <<p>>
    BY <1>2
  <2>2. DOMAIN list = 1..1 /\ Len(list) = 1 /\ list[1] = p
    BY <2>1
  <2>3. PacksOf(list) = {p.pack}
    BY <2>2 DEF PacksOf
  <2>4. Cardinality(PacksOf(list)) = 1
    BY <2>3, FS_Singleton
  <2> QED
    BY <2>2, <2>4
<1>3. CASE \E p, q \in packs : list = <<p, q>>
  <2>1. PICK p, q \in packs : list = <<p, q>>
    BY <1>3
  <2>2. DOMAIN list = 1..2 /\ Len(list) = 2 /\ list[1] = p /\ list[2] = q
    BY <2>1
  <2>3. PacksOf(list) = {p.pack} \union {q.pack}
    BY <2>2 DEF PacksOf
  <2>4. Cardinality({p.pack}) = 1 /\ IsFiniteSet({p.pack})
    BY FS_Singleton
  <2>5. CASE p.pack = q.pack
    BY <2>2, <2>3, <2>4, <2>5
  <2>6. CASE p.pack # q.pack
    <3>1. Cardinality({p.pack} \union {q.pack}) = 2
      <4>1. q.pack \notin {p.pack}
        BY <2>6
      <4>2. Cardinality({p.pack} \union {q.pack}) = Cardinality({p.pack}) + 1
        BY <2>4, <4>1, FS_AddElement
      <4> QED
        BY <2>4, <4>2
    <3> QED
      BY <2>2, <2>3, <2>6, <3>1
  <2> QED
    BY <2>5, <2>6
<1> QED
  BY <1>1, <1>2, <1>3, ListShape

\* What verifyMissionSkillPin finds nothing in.
LEMMA NoPinFaults ==
  ASSUME NEW pin, NEW list, NEW at
  PROVE  (Skill!PinFaults(pin, list, at) = {}) <=>
           /\ Skill!CandidateFaults(list, at) = {}
           /\ \A i \in DOMAIN list : \E e \in pin.entries : Skill!SameIdentity(e, list[i])
           /\ \A e \in pin.entries :
                /\ Skill!Candidates(list, e) # {}
                /\ Skill!EntryFaults(e, list[Skill!First(Skill!Candidates(list, e))]) = {}
<1> DEFINE missing == {e \in pin.entries : Skill!Candidates(list, e) = {}}
           extra == {i \in DOMAIN list : \A e \in pin.entries : ~Skill!SameIdentity(e, list[i])}
           Alone(e) == /\ \A f \in pin.entries : f.id = e.id => f = e
                       /\ Skill!Cardinality({i \in DOMAIN list : list[i].pack.id = e.id}) = 1
           Other(e) == {Skill!Reason(code, e.id, e.version) :
                          code \in Skill!EntryFaults(e, list[Skill!First(Skill!Candidates(list, e))])}
           One == {Skill!Reason("missing-skill", e.id, e.version) : e \in missing}
           Two == {Skill!Of("additional-skill", list[i]) : i \in extra}
           Three == {Skill!Reason("version-mismatch", e.id, e.version) :
                       e \in {f \in missing : Alone(f)}}
           Four == UNION {Other(e) : e \in pin.entries \ missing}
<1>1. Skill!PinFaults(pin, list, at)
        = Skill!CandidateFaults(list, at) \union One \union Two \union Three \union Four
  BY DEF Skill!PinFaults
<1>2. (One = {}) <=> (missing = {})
  OBVIOUS
<1>3. (Two = {}) <=> (extra = {})
  OBVIOUS
<1>4. missing = {} => Three = {}
  OBVIOUS
<1>5. (Four = {}) <=> \A e \in pin.entries \ missing :
         Skill!EntryFaults(e, list[Skill!First(Skill!Candidates(list, e))]) = {}
  <2>1. \A e : (Other(e) = {}) <=>
           (Skill!EntryFaults(e, list[Skill!First(Skill!Candidates(list, e))]) = {})
    OBVIOUS
  <2> HIDE DEF Other, missing
  <2>2. (Four = {}) <=> \A e \in pin.entries \ missing : Other(e) = {}
    OBVIOUS
  <2> QED
    BY <2>1, <2>2
<1> HIDE DEF One, Two, Three, Four
<1>6. (Skill!PinFaults(pin, list, at) = {}) <=>
         (Skill!CandidateFaults(list, at) = {} /\ missing = {} /\ extra = {} /\ Four = {})
  BY <1>1, <1>2, <1>3, <1>4
<1> QED
  BY <1>5, <1>6

\* A pin as it was made: an entry for each of its definitions, which are of
\* different skills or versions.
PinOK(pin) ==
  /\ pin.entries = {EntryOf(d) : d \in pin.over}
  /\ \A d, e \in pin.over : SameSkill(d, e) => d = e

PinsOK == \A pin \in pins : PinOK(pin)

LEMMA NoEntryFaults ==
  ASSUME NEW d, NEW p
  PROVE  (Skill!EntryFaults(EntryOf(d), p) = {}) <=>
            /\ d = p.checksum /\ d.jurisdiction = p.pack.jurisdiction
            /\ <<d.from, d.to>> = <<p.pack.from, p.pack.to>>
<1> DEFINE F == Skill!EntryFaults(EntryOf(d), p)
<1>1. ("checksum-mismatch" \in F) <=> d # p.checksum
  BY DEF Skill!EntryFaults, EntryOf
<1>2. ("jurisdiction-mismatch" \in F) <=> d.jurisdiction # p.pack.jurisdiction
  BY DEF Skill!EntryFaults, EntryOf
<1>3. ("vigencia-mismatch" \in F) <=> <<d.from, d.to>> # <<p.pack.from, p.pack.to>>
  BY DEF Skill!EntryFaults, EntryOf
<1>4. F \subseteq {"checksum-mismatch", "jurisdiction-mismatch", "vigencia-mismatch"}
  BY DEF Skill!EntryFaults
<1> QED
  BY <1>1, <1>2, <1>3, <1>4

\* The candidate an entry is compared with is one of its skill and version.
LEMMA CandidateIs ==
  ASSUME NEW n \in Nat, NEW list, DOMAIN list = 1..n, NEW d
  PROVE  /\ \A i \in DOMAIN list : i \in Skill!Candidates(list, EntryOf(d))
                                    <=> SameSkill(d, list[i].pack)
         /\ Skill!Candidates(list, EntryOf(d)) \subseteq DOMAIN list
         /\ Skill!Candidates(list, EntryOf(d)) # {} =>
              Skill!First(Skill!Candidates(list, EntryOf(d))) \in Skill!Candidates(list, EntryOf(d))
<1> DEFINE S == Skill!Candidates(list, EntryOf(d))
<1>1. S \in SUBSET Nat /\ S \subseteq DOMAIN list
  BY DEF Skill!Candidates
<1>2. ASSUME S # {} PROVE Skill!First(S) \in S
  <2>1. \E i \in S : \A j \in S : i <= j
    BY <1>1, <1>2, FirstExists
  <2> QED
    BY <2>1 DEF Skill!First
<1>3. \A i \in DOMAIN list : i \in S <=> SameSkill(d, list[i].pack)
  BY DEF Skill!Candidates, Skill!SameIdentity, SameSkill, EntryOf
<1> QED
  BY <1>1, <1>2, <1>3

\* A clean list has nothing to set it apart from a pin exactly if it is the
\* definitions the pin was made over.
LEMMA CleanPasses ==
  ASSUME NEW pin, PinOK(pin), NEW n \in Nat, NEW list, DOMAIN list = 1..n,
         NEW at, Clean(list, at)
  PROVE  (/\ \A i \in DOMAIN list : \E e \in pin.entries : Skill!SameIdentity(e, list[i])
          /\ \A e \in pin.entries :
               /\ Skill!Candidates(list, e) # {}
               /\ Skill!EntryFaults(e, list[Skill!First(Skill!Candidates(list, e))]) = {})
           <=> PacksOf(list) = pin.over
<1>1. ASSUME \A i \in DOMAIN list : \E e \in pin.entries : Skill!SameIdentity(e, list[i]),
             \A e \in pin.entries :
               /\ Skill!Candidates(list, e) # {}
               /\ Skill!EntryFaults(e, list[Skill!First(Skill!Candidates(list, e))]) = {}
      PROVE  PacksOf(list) = pin.over
  <2>1. ASSUME NEW d \in pin.over
        PROVE  \E k \in DOMAIN list : d = list[k].pack
    <3>1. EntryOf(d) \in pin.entries
      BY DEF PinOK
    <3>2. PICK k \in DOMAIN list : k = Skill!First(Skill!Candidates(list, EntryOf(d)))
      BY <1>1, <3>1, CandidateIs
    <3>3. Skill!EntryFaults(EntryOf(d), list[k]) = {}
      BY <1>1, <3>1, <3>2
    <3>4. d = list[k].checksum /\ list[k].checksum = list[k].pack
      BY <3>2, <3>3, NoEntryFaults DEF Clean, Signed
    <3> QED
      BY <3>2, <3>4
  <2>2. ASSUME NEW i \in DOMAIN list
        PROVE  list[i].pack \in pin.over
    <3>1. PICK d \in pin.over : Skill!SameIdentity(EntryOf(d), list[i])
      BY <1>1 DEF PinOK
    <3>2. SameSkill(d, list[i].pack)
      BY <3>1 DEF Skill!SameIdentity, SameSkill, EntryOf
    <3>3. PICK k \in DOMAIN list : d = list[k].pack
      BY <2>1
    <3>4. k = i
      BY <3>2, <3>3 DEF Clean
    <3> QED
      BY <3>3, <3>4
  <2> QED
    BY <2>1, <2>2 DEF PacksOf
<1>2. ASSUME PacksOf(list) = pin.over
      PROVE  /\ \A i \in DOMAIN list : \E e \in pin.entries : Skill!SameIdentity(e, list[i])
             /\ \A e \in pin.entries :
                  /\ Skill!Candidates(list, e) # {}
                  /\ Skill!EntryFaults(e, list[Skill!First(Skill!Candidates(list, e))]) = {}
  <2>1. ASSUME NEW i \in DOMAIN list
        PROVE  \E e \in pin.entries : Skill!SameIdentity(e, list[i])
    <3>1. EntryOf(list[i].pack) \in pin.entries
      BY <1>2 DEF PinOK, PacksOf
    <3>2. Skill!SameIdentity(EntryOf(list[i].pack), list[i])
      BY DEF Skill!SameIdentity, EntryOf
    <3> QED
      BY <3>1, <3>2
  <2>2. ASSUME NEW e \in pin.entries
        PROVE  /\ Skill!Candidates(list, e) # {}
               /\ Skill!EntryFaults(e, list[Skill!First(Skill!Candidates(list, e))]) = {}
    <3>1. PICK d \in pin.over : e = EntryOf(d)
      BY DEF PinOK
    <3>2. PICK i \in DOMAIN list : d = list[i].pack
      BY <1>2 DEF PacksOf
    <3>3. i \in Skill!Candidates(list, e)
      BY <3>1, <3>2, CandidateIs DEF SameSkill
    <3>4. PICK k \in DOMAIN list : k = Skill!First(Skill!Candidates(list, e))
                                    /\ SameSkill(d, list[k].pack)
      BY <3>1, <3>3, CandidateIs
    <3>5. list[k].pack \in pin.over
      BY <1>2 DEF PacksOf
    <3>6. d = list[k].pack /\ list[k].checksum = list[k].pack
      BY <3>4, <3>5 DEF PinOK, Clean, Signed
    <3>7. Skill!EntryFaults(EntryOf(d), list[k]) = {}
      BY <3>6, NoEntryFaults
    <3> QED
      BY <3>1, <3>3, <3>4, <3>7
  <2> QED
    BY <2>1, <2>2
<1> QED
  BY <1>1, <1>2

LEMMA PinPasses ==
  ASSUME NEW pin, PinOK(pin), NEW list \in Skill!Lists, NEW at
  PROVE  (Skill!PinFaults(pin, list, at) = {}) <=>
           /\ PacksOf(list) = pin.over
           /\ Len(list) = Cardinality(pin.over)
           /\ \A i \in DOMAIN list : Signed(list[i]) /\ Skill!InForce(list[i].pack, at)
<1>1. PICK n \in Nat : DOMAIN list = 1..n
  BY EachOnce
<1>2. (Skill!PinFaults(pin, list, at) = {}) <=> Clean(list, at) /\ PacksOf(list) = pin.over
  <2>1. (Skill!CandidateFaults(list, at) = {}) <=> Clean(list, at)
    BY <1>1, NoCandidateFaults
  <2>2. CASE Clean(list, at)
    BY <1>1, <2>1, <2>2, NoPinFaults, CleanPasses
  <2>3. CASE ~Clean(list, at)
    BY <2>1, <2>3, NoPinFaults
  <2> QED
    BY <2>2, <2>3
<1>3. ASSUME PacksOf(list) = pin.over
      PROVE  (\A i, j \in DOMAIN list : SameSkill(list[i].pack, list[j].pack) => i = j)
               <=> Len(list) = Cardinality(pin.over)
  <2>1. \A i, j \in DOMAIN list : SameSkill(list[i].pack, list[j].pack)
                                   <=> list[i].pack = list[j].pack
    BY <1>3 DEF PinOK, PacksOf, SameSkill
  <2> QED
    BY <1>3, <2>1, EachOnce
<1> QED
  BY <1>2, <1>3 DEF Clean

\* What createMissionSkillPin makes of a clean list.
LEMMA CreatedPin ==
  ASSUME NEW list \in Skill!Lists, NEW at, Skill!CandidateFaults(list, at) = {}
  PROVE  PinOK([entries |-> {Skill!Entry(list[i]) : i \in DOMAIN list},
                over |-> PacksOf(list)])
<1>1. PICK n \in Nat : DOMAIN list = 1..n
  BY EachOnce
<1>2. Clean(list, at)
  BY <1>1, NoCandidateFaults
<1>3. \A i \in DOMAIN list : Skill!Entry(list[i]) = EntryOf(list[i].pack)
  BY <1>2 DEF Clean, Signed, Skill!Entry, EntryOf
<1>4. {Skill!Entry(list[i]) : i \in DOMAIN list} = {EntryOf(d) : d \in PacksOf(list)}
  BY <1>3 DEF PacksOf
<1>5. \A d, e \in PacksOf(list) : SameSkill(d, e) => d = e
  BY <1>2 DEF Clean, PacksOf
<1> QED
  BY <1>4, <1>5 DEF PinOK

LEMMA PinsInvariant == TrustSpec => []PinsOK
<1>1. TrustInit => PinsOK
  BY DEF TrustInit, Skill!Init, PinsOK
<1>2. ASSUME PinsOK, [TrustNext]_<<vars, skillVars>>
      PROVE  PinsOK'
  <2>1. CASE UNCHANGED pins
    BY <1>2, <2>1 DEF PinsOK, PinOK
  <2>2. CASE \E list \in Skill!Lists, at \in Skill!Date : Skill!CreatePin(list, at)
    <3>1. PICK list \in Skill!Lists, at \in Skill!Date : Skill!CreatePin(list, at)
      BY <2>2
    <3>2. PICK pin : pin = [entries |-> {Skill!Entry(list[i]) : i \in DOMAIN list},
                            over |-> PacksOf(list)]
      OBVIOUS
    <3>3. PinOK(pin)
      BY <3>1, <3>2, CreatedPin DEF Skill!CreatePin
    <3>4. pins' = pins \union {pin}
      BY <3>1, <3>2 DEF Skill!CreatePin, PacksOf
    <3> QED
      BY <1>2, <3>3, <3>4 DEF PinsOK, PinOK
  <2> QED
    BY <1>2, <2>1, <2>2 DEF TrustNext, skillVars, Skill!Next, Skill!Register, Skill!Sign,
       Skill!Alter
<1> QED
  BY <1>1, <1>2, PTL DEF TrustSpec

\* A pin passes exactly the definitions it was made over (skills/pinning.ts),
\* for every set of definitions and signers, whatever packs are signed, changed
\* and offered, the definitions and packs that are no longer in force included.
THEOREM PinsAreExact == TrustSpec => []PinsHold
<1>1. ASSUME PinsOK PROVE PinsHold
  <2>1. ASSUME NEW pin \in pins, NEW list \in Skill!Lists, NEW at \in Skill!Date
        PROVE  (Skill!PinFaults(pin, list, at) = {}) <=>
                  /\ PacksOf(list) = pin.over
                  /\ Len(list) = Cardinality(pin.over)
                  /\ \A i \in DOMAIN list : Signed(list[i]) /\ Skill!InForce(list[i].pack, at)
    BY <1>1, PinPasses DEF PinsOK
  <2>2. \A S : Skill!Cardinality(S) = Cardinality(S)
    BY Zenon DEF Skill!Cardinality, Cardinality
  <2> QED
    BY <2>1, <2>2 DEF PinsHold, Skill!PinsHold, PacksOf, Signed
<1> QED
  BY <1>1, PinsInvariant, PTL

-----------------------------------------------------------------------------
(* Nobody is granted anything by the assignments of others *)

\* The assignments of p at a scope are as many in two lists that hold the same
\* ones of p.
LEMMA SameAtTarget ==
  ASSUME NEW list \in Seq(Assignment), NEW other \in Seq(Assignment), NEW p, NEW s,
         SameFor(p, list, other)
  PROVE  /\ (Mine(list, p) = {}) <=> (Mine(other, p) = {})
         /\ (AtTarget(list, p, s) = {}) <=> (AtTarget(other, p, s) = {})
         /\ Cardinality(AtTarget(list, p, s)) = Cardinality(AtTarget(other, p, s))
         /\ \A roles : (\E i \in AtTarget(list, p, s) : list[i].roles = roles) <=>
                       (\E j \in AtTarget(other, p, s) : other[j].roles = roles)
<1> DEFINE S == AtTarget(list, p, s)
           T == AtTarget(other, p, s)
<1>1. PICK f \in [Mine(list, p) -> Mine(other, p)] :
        /\ \A i, j \in Mine(list, p) : f[i] = f[j] => i = j
        /\ \A j \in Mine(other, p) : \E i \in Mine(list, p) : f[i] = j
        /\ \A i \in Mine(list, p) : other[f[i]] = list[i]
  BY DEF SameFor
<1>2. S \subseteq Mine(list, p) /\ T \subseteq Mine(other, p)
  BY DEF AtTarget
<1>3. \A i \in Mine(list, p) : f[i] \in T <=> i \in S
  BY <1>1 DEF AtTarget
<1> DEFINE g == [i \in S |-> f[i]]
<1>4. \A i \in S : g[i] = f[i] /\ g[i] \in T
  BY <1>2, <1>3
<1>5. \A i, j \in S : g[i] = g[j] => i = j
  BY <1>1, <1>2, <1>4
<1>6. \A j \in T : \E i \in S : g[i] = j
  BY <1>1, <1>2, <1>3, <1>4
<1>7. g \in [S -> T]
  BY <1>4
<1>8. \A i \in S : other[g[i]] = list[i]
  BY <1>1, <1>2, <1>4
<1> HIDE DEF g, S, T
<1>9. ExistsBijection(S, T)
  BY <1>5, <1>6, <1>7 DEF ExistsBijection, Bijection, Injection, Surjection, IsInjective
<1>10. IsFiniteSet(S)
  <2>1. S \subseteq 1..Len(list)
    BY <1>2 DEF Mine
  <2>2. Len(list) \in Int /\ 1 \in Int
    OBVIOUS
  <2>3. IsFiniteSet(1..Len(list))
    BY <2>2, FS_Interval
  <2> QED
    BY <2>1, <2>3, FS_Subset
<1>11. Cardinality(S) = Cardinality(T)
  BY <1>9, <1>10, FS_Bijection
<1>12. (Mine(list, p) = {}) <=> (Mine(other, p) = {})
  BY <1>1
<1>13. (S = {}) <=> (T = {})
  BY <1>6, <1>7
<1>14. ASSUME NEW roles
       PROVE  (\E i \in S : list[i].roles = roles) <=> (\E j \in T : other[j].roles = roles)
  <2>1. ASSUME NEW i \in S, list[i].roles = roles
        PROVE  \E j \in T : other[j].roles = roles
    BY <1>7, <1>8, <2>1
  <2>2. ASSUME NEW j \in T, other[j].roles = roles
        PROVE  \E i \in S : list[i].roles = roles
    BY <1>6, <1>8, <2>2
  <2> QED
    BY <2>1, <2>2
<1> QED
  BY <1>11, <1>12, <1>13, <1>14 DEF S, T

\* Lists without a malformed assignment that hold the same ones of p decide the
\* same on p (authorization/authorize.ts, authorize).
LEMMA SameDecision ==
  ASSUME NEW list \in Seq(Assignment), NEW other \in Seq(Assignment),
         NEW p, NEW s, NEW permission, SameFor(p, list, other),
         Faults(list) = {}, Faults(other) = {}
  PROVE  Decision(list, p, permission, s) = Decision(other, p, permission, s)
<1> DEFINE Grants(roles) == \E r \in roles : permission \in RolePermissions[r]
           S == AtTarget(list, p, s)
           T == AtTarget(other, p, s)
<1>1. /\ (Mine(list, p) = {}) <=> (Mine(other, p) = {})
      /\ (S = {}) <=> (T = {})
      /\ Cardinality(S) = Cardinality(T)
      /\ \A roles : (\E i \in S : list[i].roles = roles) <=>
                    (\E j \in T : other[j].roles = roles)
  BY SameAtTarget
<1> HIDE DEF Grants, S, T
<1>2. (\E i \in S : Grants(list[i].roles)) <=> (\E j \in T : Grants(other[j].roles))
  <2>1. ASSUME NEW i \in S, Grants(list[i].roles)
        PROVE  \E j \in T : Grants(other[j].roles)
    <3>1. PICK j \in T : other[j].roles = list[i].roles
      BY <1>1
    <3> QED
      BY <2>1, <3>1
  <2>2. ASSUME NEW j \in T, Grants(other[j].roles)
        PROVE  \E i \in S : Grants(list[i].roles)
    <3>1. PICK i \in S : list[i].roles = other[j].roles
      BY <1>1
    <3> QED
      BY <2>2, <3>1
  <2> QED
    BY <2>1, <2>2
<1>3. Decision(list, p, permission, s) =
        IF p = Blank THEN "malformed-context"
        ELSE IF s \notin Scope THEN "missing-scope"
        ELSE IF permission \notin Permission THEN "unknown-permission"
        ELSE IF Mine(list, p) = {} THEN "unknown-identity"
        ELSE IF S = {} THEN "scope-mismatch"
        ELSE IF Cardinality(S) > 1 THEN "malformed-context"
        ELSE IF ~\E i \in S : Grants(list[i].roles) THEN "insufficient-permission"
        ELSE "allowed"
  BY Zenon DEF Decision, S, Grants
<1>4. Decision(other, p, permission, s) =
        IF p = Blank THEN "malformed-context"
        ELSE IF s \notin Scope THEN "missing-scope"
        ELSE IF permission \notin Permission THEN "unknown-permission"
        ELSE IF Mine(other, p) = {} THEN "unknown-identity"
        ELSE IF T = {} THEN "scope-mismatch"
        ELSE IF Cardinality(T) > 1 THEN "malformed-context"
        ELSE IF ~\E j \in T : Grants(other[j].roles) THEN "insufficient-permission"
        ELSE "allowed"
  BY Zenon DEF Decision, T, Grants
<1> QED
  BY <1>1, <1>2, <1>3, <1>4

\* A list with a malformed assignment allows nothing (authorization/authorize.ts,
\* which validates the whole list first).
LEMMA FaultsAllowNothing ==
  ASSUME NEW list, NEW p, NEW s, NEW permission,
         Decision(list, p, permission, s) = "allowed"
  PROVE  Faults(list) = {}
<1> SUFFICES ASSUME Faults(list) # {} PROVE FALSE
  OBVIOUS
<1>1. \E i : Decision(list, p, permission, s) =
               IF p = Blank THEN "malformed-context"
               ELSE IF s \notin Scope THEN "missing-scope"
               ELSE IF permission \notin Permission THEN "unknown-permission"
               ELSE Fault(list[i])
  BY Zenon DEF Decision
<1>2. \A a : Fault(a) # "allowed"
  BY DEF Fault
<1> QED
  BY <1>1, <1>2

\* Nobody gains a permission by what is assigned to somebody else, and as long
\* as no assignment is malformed no decision on him changes
\* (authorization/authorize.ts), for lists of any length.
THEOREM GrantsAreOwn == Spec => OthersNeverGrant
<1> DEFINE Of(list, p, s, permission) == Decision(list, p, permission, s)
<1>1. ASSUME TypeOK, TypeOK',
             NEW p \in Person, NEW s \in Scope, NEW permission \in Permission,
             SameFor(p, assignments, assignments')
      PROVE  /\ Of(assignments', p, s, permission) = "allowed"
                  /\ Of(assignments, p, s, permission) # "allowed" => Faults(assignments) # {}
             /\ Faults(assignments) \union Faults(assignments') = {} =>
                  Of(assignments', p, s, permission) = Of(assignments, p, s, permission)
  <2>1. assignments \in Seq(Assignment) /\ assignments' \in Seq(Assignment)
    BY <1>1 DEF TypeOK
  <2>2. Faults(assignments) = {} /\ Faults(assignments') = {} =>
          Of(assignments', p, s, permission) = Of(assignments, p, s, permission)
    BY <1>1, <2>1, SameDecision
  <2>3. Of(assignments', p, s, permission) = "allowed" => Faults(assignments') = {}
    BY FaultsAllowNothing
  <2> HIDE DEF Of
  <2> QED
    BY <2>2, <2>3
<1>2. TypeOK /\ TypeOK' /\ [Next]_vars =>
        [assignments' # assignments =>
           \A p \in Person, s \in Scope, permission \in Permission :
             LET Now(list) == Decision(list, p, permission, s)
             IN  SameFor(p, assignments, assignments') =>
                   /\ Now(assignments') = "allowed" /\ Now(assignments) # "allowed" =>
                        Faults(assignments) # {}
                   /\ Faults(assignments) \union Faults(assignments') = {} =>
                        Now(assignments') = Now(assignments)]_vars
  BY <1>1
<1> QED
  BY <1>2, TypeCorrect, PTL DEF Spec, OthersNeverGrant

-----------------------------------------------------------------------------
(* Side by side *)

\* The skills take nothing from the checkpoints' promises: an R3 approval is the
\* word of two people and lost trust stays lost beside them too, since neither
\* part writes what the other reads.
THEOREM CheckpointsUndisturbed == TrustSpec => [](DualApprovalIsReal /\ TrustIsLostForGood)
<1>1. TrustInit => Init
  BY DEF TrustInit
<1>2. [TrustNext]_<<vars, skillVars>> => [Next]_vars
  BY DEF TrustNext
<1> QED
  BY <1>1, <1>2, DualApproval, LostForGood, PTL DEF TrustSpec, Spec
=============================================================================
