--------------------------- MODULE AccountingBooks ---------------------------
(***************************************************************************)
(* The fiscal authority kernel: evidence is accepted for a tenant scope    *)
(* (evidence/), journal entries are recorded on it, posted, superseded and *)
(* revoked under receipts (journal/), and receipts are chained into audit  *)
(* ledgers that anybody can validate (ledger/).                            *)
(*                                                                         *)
(* The code's functions are pure: a caller may use any snapshot it ever    *)
(* got, an old one too, so `entries' is the set of all of them.  The       *)
(* issuer of receipts and the writer of ledgers are not in the repository: *)
(* the issuer may fail, in which case nothing happens, or the caller may   *)
(* die after it has issued.  A hash is modelled by what is hashed.         *)
(***************************************************************************)
EXTENDS Integers, FiniteSets, SequencesExt

CONSTANTS
    Scope,        \* validated tenant scopes
    Item,         \* evidence items
    Channel,      \* channels a submission names: evidence-bearing and others
    Id,           \* identifiers callers give to entries
    Draft,        \* sequences of journal lines that callers try
    Ledger,       \* identifiers of audit ledgers
    Payload,      \* payloads of ledger entries that record no receipt
    MaxTime,      \* bound on the instants of captures and references
    MaxArtifacts, MaxEntries, MaxChain     \* bounds on the three collections

ASSUME BooksAssumption ==
  /\ {MaxTime, MaxArtifacts, MaxEntries, MaxChain} \subseteq Nat
  /\ \A d \in Draft : \A i \in DOMAIN d :
       d[i] \in [account : STRING, side : {"debit", "credit"}, cents : Int]

VARIABLES
    artifacts,    \* accepted evidence
    entries,      \* every journal snapshot that was ever returned
    receipts,     \* receipts the issuer has signed
    chain         \* [Ledger -> its entries]

vars == <<artifacts, entries, receipts, chain>>

Init ==
  /\ artifacts = {}
  /\ entries = {}
  /\ receipts = {}
  /\ chain = [l \in Ledger |-> <<>>]

-----------------------------------------------------------------------------
(* Evidence. *)

EvidenceChannel == {"document", "report", "system", "external"}

\* A submission: a scope with or without its brand, items in some order, and a
\* provenance that may be incomplete.
Submission ==
  [scope : Scope, branded : BOOLEAN, items : {<<>>} \union [1..1 -> Item] \union [1..2 -> Item],
   channel : Channel, capturedAt : 0..MaxTime]

\* registerEvidence: branded scope, no item twice, a readable instant (0 is
\* none), and a channel that bears evidence: memory and advice never do.
Acceptable(s) ==
  /\ s.branded
  /\ IsInjective(s.items)
  /\ s.capturedAt # 0
  /\ s.channel \in EvidenceChannel

\* acceptEvidence. The identity is the hash of scope, items in the order of
\* their ids and provenance, so the artifact itself stands for it.
Accept(s) ==
  /\ Acceptable(s)
  /\ Cardinality(artifacts) < MaxArtifacts
  /\ artifacts' = artifacts \union
       {[scope |-> s.scope, items |-> ToSet(s.items), channel |-> s.channel,
         capturedAt |-> s.capturedAt]}
  /\ UNCHANGED <<entries, receipts, chain>>

-----------------------------------------------------------------------------
(* The journal. *)

Total(lines, side) ==
  SumFunction([i \in DOMAIN lines |-> IF lines[i].side = side THEN lines[i].cents ELSE 0])

\* lineTotals and the comparison of its sums.
Balanced(lines) == Total(lines, "debit") = Total(lines, "credit")

WellFormed(lines) ==
  /\ lines # <<>>
  /\ \A i \in DOMAIN lines : lines[i].cents > 0 /\ lines[i].account # ""

\* assertEvidenceBound
EvidenceBound(evidence, scope, asOf) ==
  /\ evidence # {}
  /\ \A a \in evidence : /\ a.items # {}
                         /\ a.scope = scope
                         /\ a.capturedAt <= asOf

\* validateRecord, of an input with readable id, scope and reference instant.
Recordable(in) ==
  /\ in.id # ""
  /\ in.asOf # 0
  /\ WellFormed(in.lines)
  /\ Balanced(in.lines)
  /\ EvidenceBound(in.evidence, in.scope, in.asOf)

Input == [id : Id, scope : Scope, lines : Draft, evidence : SUBSET artifacts,
          asOf : 0..MaxTime]

NoEntry == "none"
Entry(in, status, supersedes) ==
  [id |-> in.id, scope |-> in.scope, lines |-> in.lines, evidence |-> in.evidence,
   status |-> status, supersedes |-> supersedes]

\* The caller receives e.
Returned(e) ==
  /\ Cardinality(entries \union {e}) <= MaxEntries
  /\ entries' = entries \union {e}

\* record
Record(in) ==
  /\ Recordable(in)
  /\ Returned(Entry(in, "recorded", NoEntry))
  /\ UNCHANGED <<artifacts, receipts, chain>>

Receipt(entry, action, supersedes) ==
  [entry |-> entry, action |-> action, supersedes |-> supersedes]

\* The issuer signs r; then the caller receives e, or has died.
IssuedAfterwards(r, e) ==                                           \* a mutant
  /\ Returned(e)
  /\ receipts' \in {receipts, receipts \union {r}}
  /\ UNCHANGED <<artifacts, chain>>
Issued(r, e) ==
  /\ receipts' = receipts \union {r}
  /\ Returned(e) \/ UNCHANGED entries
  /\ UNCHANGED <<artifacts, chain>>

\* post, of any snapshot: the code does not read its status.
Post(e) ==
  Issued(Receipt(e.id, "post", NoEntry), [e EXCEPT !.status = "posted"])

\* supersede: the new entry is posted at once, the prior one left as it is.
Supersede(prior, in) ==
  /\ Recordable(in)
  /\ Issued(Receipt(in.id, "supersede", prior.id), Entry(in, "posted", prior.id))

\* revoke: the prior entry's lines on the other sides, under an id of its own.
ReversedDebits(lines) ==                                            \* a mutant
  [i \in DOMAIN lines |-> [lines[i] EXCEPT !.side = "credit"]]
Reversed(lines) ==
  [i \in DOMAIN lines |->
     [lines[i] EXCEPT !.side = IF @ = "debit" THEN "credit" ELSE "debit"]]

RevocationId(id) == "revoke:" \o id
Revoke(prior) ==
  LET id == RevocationId(prior.id) IN
  Issued(Receipt(id, "revoke", prior.id),
         [prior EXCEPT !.id = id, !.lines = Reversed(prior.lines),
                       !.status = "revoked", !.supersedes = prior.id])

-----------------------------------------------------------------------------
(* The audit ledger. Its writer is external: it appends well-formed entries. *)

EmptyHash == "sha256 of nothing"

LedgerEntry(l, type, payload, receipt) ==
  [ledger |-> l, type |-> type, payload |-> payload, receipt |-> receipt,
   sequence |-> Len(chain[l]) + 1,
   previous |-> IF chain[l] = <<>> THEN EmptyHash ELSE Last(chain[l]).payload]

Chained(l, e) ==
  /\ Len(chain[l]) < MaxChain
  /\ chain' = [chain EXCEPT ![l] = Append(@, e)]
  /\ UNCHANGED <<artifacts, entries, receipts>>

OpenLedger(l, p) ==
  /\ chain[l] = <<>>
  /\ Chained(l, LedgerEntry(l, "GENESIS", p, EmptyHash))

Attest(l, p) ==
  /\ chain[l] # <<>>
  /\ Chained(l, LedgerEntry(l, "ATTESTATION_ADDED", p, EmptyHash))

RecordReceipt(l, r) ==
  /\ chain[l] # <<>>
  /\ Chained(l, LedgerEntry(l, "RECEIPT_RECORDED", r.entry, r.action))

\* validateLedger finds nothing wrong with the sequence es for ledger l. The
\* formats of hashes, the signature fields and the schema version, which no
\* loss or mixing of well-formed entries touches, are left out.
ValidByLinks(l, es) ==                                              \* a mutant
  /\ es # <<>>
  /\ es[1].type = "GENESIS" /\ es[1].previous = EmptyHash
  /\ \A i \in DOMAIN es : es[i].ledger = l
  /\ \A i \in 2..Len(es) : es[i].previous = es[i - 1].payload
ValidLedger(l, es) ==
  /\ es # <<>>
  /\ es[1].type = "GENESIS" /\ es[1].previous = EmptyHash /\ es[1].sequence = 1
  /\ \A i \in DOMAIN es :
       /\ es[i].ledger = l
       /\ es[i].type = "RECEIPT_RECORDED" => es[i].receipt # EmptyHash
  /\ \A i \in 2..Len(es) : /\ es[i].previous = es[i - 1].payload
                           /\ es[i].sequence = es[i - 1].sequence + 1

Next ==
  \/ \E s \in Submission : Accept(s)
  \/ \E in \in Input : Record(in)
  \/ \E e \in entries : Post(e) \/ Revoke(e)
  \/ \E e \in entries, in \in Input : Supersede(e, in)
  \/ \E l \in Ledger, p \in Payload : OpenLedger(l, p) \/ Attest(l, p)
  \/ \E l \in Ledger, r \in receipts : RecordReceipt(l, r)

Spec == Init /\ [][Next]_vars

-----------------------------------------------------------------------------
\* What lines book on one side of an account.
Booked(lines, account, side) ==
  SumFunction([i \in DOMAIN lines |-> IF lines[i].account = account /\ lines[i].side = side
                                      THEN lines[i].cents ELSE 0])

AccountsOf(lines) == {lines[i].account : i \in DOMAIN lines}

\* Whatever snapshots are posted, superseded and revoked in whatever order, and
\* wherever the issuer fails or the caller dies: every entry balances on
\* evidence of its own scope, takes effect only under a receipt of its own
\* (journal/journal.ts: "issues the signed receipt first"; one whose entry was
\* lost may remain), and a revocation books on each side of every account what
\* its prior entry booked on the other ("an explicit reversal entry").
EntriesStand ==
  \A e \in entries :
    /\ Balanced(e.lines)
    /\ e.evidence # {} /\ \A a \in e.evidence : a.scope = e.scope
    /\ e.status \in {"posted", "revoked"} =>
         \E r \in receipts :
           r.entry = e.id /\ (r.action = "post" \/ r.supersedes = e.supersedes)
    /\ e.status = "revoked" =>
         \E p \in entries :
           /\ p.id = e.supersedes /\ p.scope = e.scope
           /\ \A a \in AccountsOf(p.lines) \union AccountsOf(e.lines) :
                /\ Booked(e.lines, a, "debit") = Booked(p.lines, a, "credit")
                /\ Booked(e.lines, a, "credit") = Booked(p.lines, a, "debit")

\* A ledger that lost, repeated, swapped or borrowed entries validates only as
\* a prefix of the true chain: the first entries, up to a truncation that no
\* validator can see (contracts/ledger.md, rules 2, 3, 4 and 7).
LossIsDetected ==
  LET all == UNION {ToSet(chain[l]) : l \in Ledger} IN
  \A l \in Ledger :
    /\ chain[l] # <<>> => ValidLedger(l, chain[l])
    /\ \A n \in 1..MaxChain : \A copy \in [1..n -> all] :
         ValidLedger(l, copy) => IsPrefix(copy, chain[l])
=============================================================================
