------------------------ MODULE AccountingBooks_proofs ------------------------
(***************************************************************************)
(* Theorems about AccountingBooks, for all scopes, evidence, identifiers,  *)
(* journal lines and ledgers, and any number of artifacts, entries and     *)
(* ledger entries: every entry stands on its own evidence and receipt, and *)
(* a ledger that lost or mixed entries validates only as a prefix of the   *)
(* true one.                                                               *)
(***************************************************************************)
EXTENDS AccountingBooks, WellFoundedInduction, TLAPS

-----------------------------------------------------------------------------
(* Journal lines *)

Side == {"debit", "credit"}
OtherSide(side) == IF side = "debit" THEN "credit" ELSE "debit"

\* Lines whose sides are sides: what lineTotals and revoke read of a line.
Lines(lines) ==
  \A i \in DOMAIN lines :
    lines[i] \in [account : STRING, side : Side, cents : Int]

\* revoke puts every line on the other side and keeps its account and amount.
LEMMA ReversedLine ==
  ASSUME NEW lines, Lines(lines)
  PROVE  /\ DOMAIN Reversed(lines) = DOMAIN lines
         /\ Lines(Reversed(lines))
         /\ \A i \in DOMAIN lines :
              /\ Reversed(lines)[i].account = lines[i].account
              /\ Reversed(lines)[i].side = OtherSide(lines[i].side)
              /\ Reversed(lines)[i].cents = lines[i].cents
<1>1. \A i \in DOMAIN lines :
        LET l == lines[i]
            r == [l EXCEPT !.side = IF @ = "debit" THEN "credit" ELSE "debit"]
        IN  /\ r \in [account : STRING, side : Side, cents : Int]
            /\ r.account = l.account /\ r.side = OtherSide(l.side) /\ r.cents = l.cents
  BY DEF Lines, Side, OtherSide
<1>2. QED
  BY <1>1 DEF Reversed, Lines

\* Reversed lines total on a side what the lines total on the other.
LEMMA ReversedTotals ==
  ASSUME NEW lines, Lines(lines), NEW side \in Side
  PROVE  Total(Reversed(lines), side) = Total(lines, OtherSide(side))
<1>1. [i \in DOMAIN Reversed(lines) |->
         IF Reversed(lines)[i].side = side THEN Reversed(lines)[i].cents ELSE 0]
      = [i \in DOMAIN lines |->
           IF lines[i].side = OtherSide(side) THEN lines[i].cents ELSE 0]
  BY ReversedLine DEF Lines, Side, OtherSide
<1>2. QED
  BY <1>1 DEF Total

\* The same account by account.
LEMMA ReversedBooked ==
  ASSUME NEW lines, Lines(lines), NEW account, NEW side \in Side
  PROVE  Booked(Reversed(lines), account, side) = Booked(lines, account, OtherSide(side))
<1>1. [i \in DOMAIN Reversed(lines) |->
         IF Reversed(lines)[i].account = account /\ Reversed(lines)[i].side = side
         THEN Reversed(lines)[i].cents ELSE 0]
      = [i \in DOMAIN lines |->
           IF lines[i].account = account /\ lines[i].side = OtherSide(side)
           THEN lines[i].cents ELSE 0]
  BY ReversedLine DEF Lines, Side, OtherSide
<1>2. QED
  BY <1>1 DEF Booked

LEMMA ReversedBalances ==
  ASSUME NEW lines, Lines(lines), Balanced(lines)
  PROVE  Balanced(Reversed(lines))
BY ReversedTotals DEF Balanced, Side, OtherSide

-----------------------------------------------------------------------------
(* Entries *)

\* A snapshot has its six fields.
Snapshot(e) ==
  e = [id |-> e.id, scope |-> e.scope, lines |-> e.lines, evidence |-> e.evidence,
       status |-> e.status, supersedes |-> e.supersedes]

Bound(e) == e.evidence # {} /\ \A a \in e.evidence : a.scope = e.scope

\* A receipt among rs covers what e takes effect for.
Receipted(e, rs) ==
  e.status \in {"posted", "revoked"} =>
    \E r \in rs : r.entry = e.id /\ (r.action = "post" \/ r.supersedes = e.supersedes)

\* An entry among es is the one e takes back.
Reverses(e, es) ==
  e.status = "revoked" =>
    \E p \in es :
      /\ p.id = e.supersedes /\ p.scope = e.scope
      /\ \A a \in AccountsOf(p.lines) \union AccountsOf(e.lines) :
           /\ Booked(e.lines, a, "debit") = Booked(p.lines, a, "credit")
           /\ Booked(e.lines, a, "credit") = Booked(p.lines, a, "debit")

Sound(e, es, rs) ==
  /\ Snapshot(e) /\ Lines(e.lines)
  /\ Balanced(e.lines) /\ Bound(e) /\ Receipted(e, rs) /\ Reverses(e, es)

\* EntriesStand, with the types its steps need.
EntriesInv == \A e \in entries : Sound(e, entries, receipts)

\* What was sound stays so while entries and receipts are added.
LEMMA SoundIsKept ==
  ASSUME NEW es, NEW rs, NEW more, NEW signed, NEW e, Sound(e, es, rs),
         es \subseteq more, rs \subseteq signed
  PROVE  Sound(e, more, signed)
<1>1. Receipted(e, signed)
  BY DEF Sound, Receipted
<1>2. Reverses(e, more)
  BY DEF Sound, Reverses
<1>3. QED
  BY <1>1, <1>2 DEF Sound

\* An entry that validateRecord lets through, with a receipt of its own unless
\* it is only recorded.
LEMMA RecordedIsSound ==
  ASSUME NEW in \in Input, Recordable(in), NEW status \in {"recorded", "posted"},
         NEW supersedes, NEW es, NEW rs,
         status = "posted" => Receipt(in.id, "supersede", supersedes) \in rs
  PROVE  Sound(Entry(in, status, supersedes), es, rs)
<1> DEFINE e == Entry(in, status, supersedes)
<1>1. /\ e = [id |-> in.id, scope |-> in.scope, lines |-> in.lines, evidence |-> in.evidence,
              status |-> status, supersedes |-> supersedes]
      /\ e.id = in.id /\ e.scope = in.scope /\ e.lines = in.lines
      /\ e.evidence = in.evidence /\ e.status = status /\ e.supersedes = supersedes
  BY DEF Entry
<1> HIDE DEF e
<1>2. Snapshot(e)
  BY <1>1 DEF Snapshot
<1>3. in.lines \in Draft
  BY DEF Input
<1>4. Lines(e.lines)
  BY <1>1, <1>3, BooksAssumption DEF Lines, Side
<1>5. Balanced(e.lines)
  BY <1>1 DEF Recordable
<1>6. Bound(e)
  BY <1>1 DEF Recordable, EvidenceBound, Bound
<1>7. Receipted(e, rs)
  BY <1>1 DEF Receipted, Receipt
<1>8. Reverses(e, es)
  BY <1>1 DEF Reverses
<1>9. QED
  BY <1>2, <1>4, <1>5, <1>6, <1>7, <1>8 DEF Sound, e

\* post returns a sound entry.
LEMMA PostedIsSound ==
  ASSUME NEW p, NEW es, NEW rs, Sound(p, es, rs), NEW signed,
         Receipt(p.id, "post", NoEntry) \in signed
  PROVE  Sound([p EXCEPT !.status = "posted"], es, signed)
<1> DEFINE e == [p EXCEPT !.status = "posted"]
<1>1. /\ Snapshot(e)
      /\ e.id = p.id /\ e.scope = p.scope /\ e.lines = p.lines
      /\ e.evidence = p.evidence /\ e.status = "posted"
  BY DEF Sound, Snapshot
<1> HIDE DEF e
<1>2. Receipted(e, signed)
  BY <1>1 DEF Receipted, Receipt
<1>3. Bound(e) /\ Reverses(e, es)
  BY <1>1 DEF Sound, Bound, Reverses
<1>4. QED
  BY <1>1, <1>2, <1>3 DEF Sound, e

\* revoke returns a sound entry, the reversal of the prior one.
LEMMA RevokedIsSound ==
  ASSUME NEW es, NEW p \in es, NEW rs, Sound(p, es, rs), NEW signed, NEW id,
         Receipt(id, "revoke", p.id) \in signed
  PROVE  Sound([p EXCEPT !.id = id, !.lines = Reversed(p.lines),
                         !.status = "revoked", !.supersedes = p.id], es, signed)
<1> DEFINE Names == {"id", "scope", "lines", "evidence", "status", "supersedes"}
           e1 == [p EXCEPT !.id = id]
           e2 == [e1 EXCEPT !.lines = Reversed(p.lines)]
           e3 == [e2 EXCEPT !.status = "revoked"]
           e == [e3 EXCEPT !.supersedes = p.id]
<1>1. /\ Snapshot(e)
      /\ e.id = id /\ e.scope = p.scope /\ e.lines = Reversed(p.lines)
      /\ e.evidence = p.evidence /\ e.status = "revoked" /\ e.supersedes = p.id
  <2>1. p = [n \in Names |-> p[n]]
    BY DEF Sound, Snapshot
  <2>2. e1 = [n \in Names |-> IF n = "id" THEN id ELSE p[n]]
    BY <2>1
  <2> HIDE DEF e1
  <2>3. e2 = [n \in Names |-> IF n = "lines" THEN Reversed(p.lines) ELSE e1[n]]
    BY <2>2
  <2> HIDE DEF e2
  <2>4. e3 = [n \in Names |-> IF n = "status" THEN "revoked" ELSE e2[n]]
    BY <2>3
  <2> HIDE DEF e3
  <2>5. e = [n \in Names |-> IF n = "supersedes" THEN p.id ELSE e3[n]]
    BY <2>4
  <2> HIDE DEF e
  <2>6. /\ e.id = id /\ e.scope = p.scope /\ e.lines = Reversed(p.lines)
        /\ e.evidence = p.evidence /\ e.status = "revoked" /\ e.supersedes = p.id
    BY <2>2, <2>3, <2>4, <2>5
  <2>7. Snapshot(e)
    BY <2>5 DEF Snapshot
  <2>8. QED
    BY <2>6, <2>7
<1> HIDE DEF e
<1>2. Lines(e.lines) /\ Balanced(e.lines)
  BY <1>1, ReversedLine, ReversedBalances DEF Sound
<1>3. Receipted(e, signed)
  BY <1>1 DEF Receipted, Receipt
<1>4. Bound(e)
  BY <1>1 DEF Sound, Bound
<1>5. Reverses(e, es)
  <2>1. \A a : /\ Booked(e.lines, a, "debit") = Booked(p.lines, a, "credit")
               /\ Booked(e.lines, a, "credit") = Booked(p.lines, a, "debit")
    BY <1>1, ReversedBooked DEF Sound, Side, OtherSide
  <2>2. QED
    BY <1>1, <2>1 DEF Reverses
<1>6. Sound(e, es, signed)
  BY <1>1, <1>2, <1>3, <1>4, <1>5 DEF Sound
<1>7. e = [p EXCEPT !.id = id, !.lines = Reversed(p.lines),
                    !.status = "revoked", !.supersedes = p.id]
  BY DEF e, e1, e2, e3
<1>8. QED
  BY <1>6, <1>7

\* A step that signs r and may return e.
LEMMA IssuedKeeps ==
  ASSUME EntriesInv, NEW r, NEW e, Issued(r, e),
         Sound(e, entries, receipts \union {r})
  PROVE  EntriesInv'
<1>1. receipts \subseteq receipts' /\ r \in receipts'
  BY DEF Issued
<1>2. entries \subseteq entries' /\ entries' \subseteq entries \union {e}
  BY DEF Issued, Returned
<1>3. ASSUME NEW f \in entries'
      PROVE  Sound(f, entries', receipts')
  <2>1. CASE f \in entries
    BY <1>1, <1>2, <2>1, SoundIsKept DEF EntriesInv
  <2>2. CASE f = e
    <3>1. receipts' = receipts \union {r}
      BY DEF Issued
    <3>2. QED
      BY <1>2, <2>2, <3>1, SoundIsKept
  <2>3. QED
    BY <1>2, <2>1, <2>2
<1>4. QED
  BY <1>3 DEF EntriesInv

LEMMA EntriesStep == EntriesInv /\ [Next]_vars => EntriesInv'
<1> SUFFICES ASSUME EntriesInv, [Next]_vars
             PROVE  EntriesInv'
  OBVIOUS
<1>1. CASE entries' = entries /\ receipts' = receipts
  BY <1>1 DEF EntriesInv
<1>2. ASSUME NEW in \in Input, Record(in)
      PROVE  EntriesInv'
  <2>1. Sound(Entry(in, "recorded", NoEntry), entries, receipts)
    BY <1>2, RecordedIsSound DEF Record
  <2>2. /\ entries' = entries \union {Entry(in, "recorded", NoEntry)}
        /\ receipts' = receipts
    BY <1>2 DEF Record, Returned
  <2>3. QED
    BY <2>1, <2>2, SoundIsKept DEF EntriesInv
<1>3. ASSUME NEW e \in entries, Post(e)
      PROVE  EntriesInv'
  BY <1>3, IssuedKeeps, PostedIsSound DEF EntriesInv, Post
<1>4. ASSUME NEW e \in entries, Revoke(e)
      PROVE  EntriesInv'
  BY <1>4, IssuedKeeps, RevokedIsSound DEF EntriesInv, Revoke
<1>5. ASSUME NEW e \in entries, NEW in \in Input, Supersede(e, in)
      PROVE  EntriesInv'
  BY <1>5, IssuedKeeps, RecordedIsSound DEF Supersede
<1>6. QED
  <2>1. \/ entries' = entries /\ receipts' = receipts
        \/ \E in \in Input : Record(in)
        \/ \E e \in entries : Post(e) \/ Revoke(e)
        \/ \E e \in entries, in \in Input : Supersede(e, in)
    BY DEF Next, vars, Accept, OpenLedger, Attest, RecordReceipt, Chained
  <2>2. QED
    BY <1>1, <1>2, <1>3, <1>4, <1>5, <2>1

\* However entries are posted, superseded and revoked, and wherever the issuer
\* fails: every entry balances on evidence of its scope, takes effect only under
\* a receipt, and a revocation books the opposite of its prior entry
\* (journal/journal.ts, journal/validate.ts).
THEOREM EntriesAlwaysStand == Spec => []EntriesStand
<1>1. Init => EntriesInv
  BY DEF Init, EntriesInv
<1>2. EntriesInv => EntriesStand
  BY DEF EntriesInv, EntriesStand, Sound, Bound, Receipted, Reverses
<1>3. QED
  BY <1>1, <1>2, EntriesStep, PTL DEF Spec

-----------------------------------------------------------------------------
(* Audit ledgers *)

\* The chain s of ledger l, as its writer made it.
TrueChain(l, s) ==
  /\ \E T : s \in Seq(T)
  /\ \A i \in 1..Len(s) :
       /\ s[i].ledger = l
       /\ s[i].sequence = i
       /\ s[i].previous = IF i = 1 THEN EmptyHash ELSE s[i - 1].payload
       /\ s[i].type = "RECEIPT_RECORDED" => s[i].receipt # EmptyHash
  /\ s # <<>> => s[1].type = "GENESIS"

ChainInv ==
  /\ chain \in [Ledger -> {chain[l] : l \in Ledger}]
  /\ \A l \in Ledger : TrueChain(l, chain[l])
  /\ \A r \in receipts : r.action # EmptyHash

\* Appending a well-formed entry, a genesis entry to an empty chain.
LEMMA AppendedIsTrue ==
  ASSUME NEW l \in Ledger, NEW s, chain[l] = s, TrueChain(l, s),
         NEW type, NEW payload, NEW receipt,
         type = "RECEIPT_RECORDED" => receipt # EmptyHash,
         s = <<>> => type = "GENESIS"
  PROVE  TrueChain(l, Append(s, LedgerEntry(l, type, payload, receipt)))
<1> DEFINE e == LedgerEntry(l, type, payload, receipt)
<1>1. PICK T : s \in Seq(T)
  BY DEF TrueChain
<1>2. /\ e.ledger = l /\ e.type = type /\ e.receipt = receipt
      /\ e.sequence = Len(s) + 1
      /\ e.previous = IF s = <<>> THEN EmptyHash ELSE s[Len(s)].payload
  BY DEF LedgerEntry, Last
<1> HIDE DEF e
<1>3. s \in Seq(T \union {e}) /\ e \in T \union {e}
  BY <1>1
<1>4. /\ Append(s, e) \in Seq(T \union {e})
      /\ Len(Append(s, e)) = Len(s) + 1 /\ Len(s) \in Nat
      /\ \A i \in 1..Len(s) : Append(s, e)[i] = s[i]
      /\ Append(s, e)[Len(s) + 1] = e
  BY <1>3
<1>5. s = <<>> <=> Len(s) = 0
  BY <1>1
<1> DEFINE t == Append(s, e)
<1> HIDE DEF t
<1>6. ASSUME NEW i \in 1..Len(t)
      PROVE  /\ t[i].ledger = l
             /\ t[i].sequence = i
             /\ t[i].previous = IF i = 1 THEN EmptyHash ELSE t[i - 1].payload
             /\ t[i].type = "RECEIPT_RECORDED" => t[i].receipt # EmptyHash
  <2>1. CASE i \in 1..Len(s)
    <3>1. t[i] = s[i] /\ (i # 1 => i - 1 \in 1..Len(s) /\ t[i - 1] = s[i - 1])
      BY <1>4, <2>1 DEF t
    <3>2. QED
      BY <2>1, <3>1 DEF TrueChain
  <2>2. CASE i = Len(s) + 1
    <3>1. t[i] = e /\ (i # 1 => i - 1 = Len(s) /\ Len(s) \in 1..Len(s) /\ t[i - 1] = s[Len(s)])
      BY <1>4, <2>2 DEF t
    <3>2. i = 1 <=> s = <<>>
      BY <1>4, <1>5, <2>2
    <3>3. QED
      BY <1>2, <2>2, <3>1, <3>2
  <2>3. QED
    BY <1>4, <2>1, <2>2 DEF t
<1>7. t[1].type = "GENESIS"
  <2>1. CASE s = <<>>
    BY <1>2, <1>4, <1>5, <2>1 DEF t
  <2>2. CASE s # <<>>
    BY <1>4, <1>5, <2>2 DEF t, TrueChain
  <2>3. QED
    BY <2>1, <2>2
<1>8. QED
  BY <1>4, <1>6, <1>7 DEF TrueChain, t, e

LEMMA ActionIsNoHash ==
  \A action \in {"post", "supersede", "revoke"} : \A id, prior :
    Receipt(id, action, prior).action # EmptyHash
BY DEF Receipt, EmptyHash

LEMMA ChainStep == ChainInv /\ [Next]_vars => ChainInv'
<1> SUFFICES ASSUME ChainInv, [Next]_vars
             PROVE  ChainInv'
  OBVIOUS
<1>1. ASSUME NEW l \in Ledger, NEW type, NEW payload, NEW receipt,
             type = "RECEIPT_RECORDED" => receipt # EmptyHash,
             chain[l] = <<>> => type = "GENESIS",
             Chained(l, LedgerEntry(l, type, payload, receipt))
      PROVE  ChainInv'
  <2> DEFINE e == LedgerEntry(l, type, payload, receipt)
  <2>1. TrueChain(l, Append(chain[l], e))
    BY <1>1, AppendedIsTrue DEF ChainInv
  <2> HIDE DEF e
  <2>2. chain' = [chain EXCEPT ![l] = Append(chain[l], e)] /\ receipts' = receipts
    BY <1>1 DEF Chained, e
  <2>3. DOMAIN chain = Ledger
    BY DEF ChainInv
  <2>4. chain' \in [Ledger -> {chain'[k] : k \in Ledger}]
    BY <2>2, <2>3
  <2>5. \A k \in Ledger : TrueChain(k, chain'[k])
    BY <2>1, <2>2, <2>3 DEF ChainInv
  <2>6. QED
    BY <2>2, <2>4, <2>5 DEF ChainInv
<1>2. ASSUME chain' = chain, \A r \in receipts' : r \in receipts \/ r.action # EmptyHash
      PROVE  ChainInv'
  BY <1>2 DEF ChainInv
<1>3. ASSUME NEW r, NEW e, Issued(r, e), r.action # EmptyHash
      PROVE  ChainInv'
  BY <1>2, <1>3 DEF Issued
<1>4. CASE \E l \in Ledger, p \in Payload : OpenLedger(l, p) \/ Attest(l, p)
  BY <1>1, <1>4 DEF OpenLedger, Attest
<1>5. CASE \E l \in Ledger, r \in receipts : RecordReceipt(l, r)
  BY <1>1, <1>5 DEF RecordReceipt, ChainInv
<1>6. CASE \E e \in entries : Post(e) \/ Revoke(e)
  <2>1. PICK e \in entries : Post(e) \/ Revoke(e)
    BY <1>6
  <2>2. \E action \in {"post", "revoke"} : \E id, prior, f : Issued(Receipt(id, action, prior), f)
    BY <2>1 DEF Post, Revoke
  <2>3. QED
    BY <1>3, <2>2, ActionIsNoHash
<1>7. CASE \E e \in entries, in \in Input : Supersede(e, in)
  <2>1. \E id, prior, f : Issued(Receipt(id, "supersede", prior), f)
    BY <1>7 DEF Supersede
  <2>2. QED
    BY <1>3, <2>1, ActionIsNoHash
<1>8. CASE chain' = chain /\ receipts' = receipts
  BY <1>2, <1>8
<1>9. QED
  BY <1>4, <1>5, <1>6, <1>7, <1>8 DEF Next, vars, Accept, Record

LEMMA ChainInvHolds == Spec => []ChainInv
<1>1. Init => ChainInv
  <2> SUFFICES ASSUME Init
               PROVE  ChainInv
    OBVIOUS
  <2>1. \A l \in Ledger : chain[l] = <<>>
    BY DEF Init
  <2>2. chain \in [Ledger -> {chain[l] : l \in Ledger}] /\ receipts = {}
    BY DEF Init
  <2>3. \A l : TrueChain(l, <<>>)
    <3>1. <<>> \in Seq({}) /\ Len(<<>>) = 0
      OBVIOUS
    <3>2. QED
      BY <3>1 DEF TrueChain
  <2>4. QED
    BY <2>1, <2>2, <2>3 DEF ChainInv
<1>2. QED
  BY <1>1, ChainStep, PTL DEF Spec

-----------------------------------------------------------------------------
(* What validateLedger finds out *)

\* A set of positions that is not empty has a first one.
LEMMA FirstExists ==
  ASSUME NEW S \in SUBSET Nat, S # {}
  PROVE  \E i \in S : \A j \in S : i <= j
<1>1. \E i \in S : \A j \in S : ~(<<j, i>> \in OpToRel(<, Nat))
  BY NatLessThanWellFounded, WFMin, Zenon
<1>2. PICK i \in S : \A j \in S : ~(<<j, i>> \in OpToRel(<, Nat))
  BY <1>1
<1>3. \A j \in S : ~(j < i)
  BY <1>2 DEF OpToRel
<1>4. QED
  BY <1>3

\* The entries of a ledger that validates are numbered from one, each where it
\* stands: no rule says so, the first and every next number do.
LEMMA NumberedInOrder ==
  ASSUME NEW l, NEW copy, NEW n \in Nat, Len(copy) = n, ValidLedger(l, copy)
  PROVE  \A i \in 1..n : copy[i].sequence = i
<1> DEFINE Wrong == {i \in 1..n : copy[i].sequence # i}
<1>1. /\ copy[1].sequence = 1
      /\ \A i \in 2..n : copy[i].sequence = copy[i - 1].sequence + 1
  BY DEF ValidLedger
<1>2. ASSUME Wrong # {}
      PROVE  FALSE
  <2>1. Wrong \in SUBSET Nat
    OBVIOUS
  <2>2. PICK i \in Wrong : \A j \in Wrong : i <= j
    <3> HIDE DEF Wrong
    <3>1. QED
      BY <1>2, <2>1, FirstExists
  <2>3. i \in 2..n /\ i - 1 \in 1..n
    BY <1>1, <2>2
  <2>4. copy[i - 1].sequence = i - 1
    BY <2>2, <2>3
  <2>5. copy[i].sequence = i
    BY <1>1, <2>3, <2>4
  <2>6. QED
    BY <2>2, <2>5
<1>3. QED
  BY <1>2

\* A chain that is not empty validates.
LEMMA TrueChainIsValid ==
  ASSUME NEW l, NEW s, TrueChain(l, s), s # <<>>
  PROVE  ValidLedger(l, s)
<1>1. PICK T : s \in Seq(T)
  BY DEF TrueChain
<1>2. Len(s) \in Nat \ {0} /\ DOMAIN s = 1..Len(s)
  BY <1>1
<1>3. \A i \in 2..Len(s) :
        /\ i \in 1..Len(s) /\ i - 1 \in 1..Len(s) /\ i # 1
        /\ s[i].previous = s[i - 1].payload
        /\ s[i].sequence = s[i - 1].sequence + 1
  BY <1>2 DEF TrueChain
<1>4. QED
  BY <1>2, <1>3 DEF ValidLedger, TrueChain

\* A ledger put together of entries of any chains, if it validates, is a prefix.
LEMMA ValidCopyIsPrefix ==
  ASSUME ChainInv, NEW l \in Ledger, NEW n \in Nat \ {0},
         NEW copy \in [1..n -> UNION {ToSet(chain[k]) : k \in Ledger}],
         ValidLedger(l, copy)
  PROVE  IsPrefix(copy, chain[l])
<1> DEFINE all == UNION {ToSet(chain[k]) : k \in Ledger}
           s == chain[l]
<1>1. copy \in Seq(all) /\ Len(copy) = n
  <2> HIDE DEF all
  <2>1. \A i \in 1..n : copy[i] \in all
    BY DEF all
  <2>2. QED
    BY <2>1 DEF all
<1>2. PICK T : s \in Seq(T)
  BY DEF ChainInv, TrueChain
<1>3. Len(s) \in Nat /\ DOMAIN s = 1..Len(s)
  BY <1>2
<1>4. ASSUME NEW i \in 1..n
      PROVE  i \in 1..Len(s) /\ copy[i] = s[i]
  <2>1. PICK k \in Ledger : copy[i] \in ToSet(chain[k])
    OBVIOUS
  <2>2. PICK j \in 1..Len(chain[k]) : copy[i] = chain[k][j]
    <3>1. PICK U : chain[k] \in Seq(U)
      BY DEF ChainInv, TrueChain
    <3>2. DOMAIN chain[k] = 1..Len(chain[k])
      BY <3>1
    <3>3. QED
      BY <2>1, <3>2 DEF ToSet
  <2>3. chain[k][j].ledger = k /\ chain[k][j].sequence = j
    BY DEF ChainInv, TrueChain
  <2>4. copy[i].ledger = l
    BY DEF ValidLedger
  <2>5. copy[i].sequence = i
    <3>1. Len(copy) = n /\ n \in Nat
      BY <1>1
    <3> HIDE DEF all
    <3>2. QED
      BY <3>1, NumberedInOrder
  <2>6. k = l /\ i = j
    BY <2>2, <2>3, <2>4, <2>5
  <2>7. QED
    BY <2>2, <2>6
<1>5. n <= Len(s)
  BY <1>3, <1>4
<1>6. SubSeq(copy, 1, n) = SubSeq(s, 1, n)
  BY <1>1, <1>2, <1>3, <1>4, <1>5
<1>7. QED
  BY <1>1, <1>5, <1>6 DEF IsPrefix

\* A ledger that lost, repeated, swapped or borrowed entries validates only as a
\* prefix of the true chain (ledger/validate.ts).
THEOREM LossIsAlwaysDetected == Spec => []LossIsDetected
<1>1. ChainInv => LossIsDetected
  <2>1. MaxChain \in Nat
    BY BooksAssumption
  <2>2. ASSUME ChainInv, NEW l \in Ledger
        PROVE  /\ chain[l] # <<>> => ValidLedger(l, chain[l])
               /\ \A n \in 1..MaxChain :
                    \A copy \in [1..n -> UNION {ToSet(chain[k]) : k \in Ledger}] :
                      ValidLedger(l, copy) => IsPrefix(copy, chain[l])
    <3>1. chain[l] # <<>> => ValidLedger(l, chain[l])
      BY <2>2, TrueChainIsValid DEF ChainInv
    <3>2. \A n \in 1..MaxChain : n \in Nat \ {0}
      BY <2>1
    <3>3. QED
      BY <2>2, <3>1, <3>2, ValidCopyIsPrefix
  <2>3. QED
    BY <2>2 DEF LossIsDetected
<1>2. QED
  BY <1>1, ChainInvHolds, PTL
=============================================================================
