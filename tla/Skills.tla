-------------------------------- MODULE Skills --------------------------------
(***************************************************************************)
(* The skills missions work with (skills/): the registry that validates    *)
(* and resolves their versions, signed packs of them, and the pins that    *)
(* bind a mission to an exact set.  A checksum is modelled by what it was  *)
(* computed over and a signature by who signed what; both leave the        *)
(* checksum field itself out.  Semantic versions are compared by numbers,  *)
(* so they are numbers, and so are dates.                                  *)
(*                                                                         *)
(* Packs travel: whoever holds one may change its definition, and compute  *)
(* the checksum anew or not (external).                                    *)
(***************************************************************************)
EXTENDS Naturals, Sequences, FiniteSets

CONSTANTS
    SkillId, Jurisdiction,
    Definition,     \* the definitions authors write, invalid ones too
    Signer,         \* key pairs that sign packs
    MaxDate,        \* bound on dates
    MaxRegistered, MaxPacks, MaxPinned     \* bounds

NoExpiry == MaxDate + 1       \* an absent validity.to
Date == 0..MaxDate
AnyJurisdiction == "any"

VARIABLES
    registry,       \* the registered definitions, in order
    packs,          \* the signed packs in circulation
    pins            \* mission pins, each with the definitions it was made over

vars == <<registry, packs, pins>>

Init == registry = <<>> /\ packs = {} /\ pins = {}

-----------------------------------------------------------------------------
(* The registry. *)

\* validateSkill
Valid(d) == d.from < d.to

\* isSkillInForce: the start is inclusive, the end is not.
InForce(d, at) == d.from <= at /\ at < d.to

\* register refuses a checksum that is not the definition's; it accepts an
\* identifier and version that are registered already.
Register(d, checksum) ==
  /\ Valid(d) /\ checksum = d
  /\ Len(registry) < MaxRegistered
  /\ registry' = Append(registry, d)
  /\ UNCHANGED <<packs, pins>>

First(S) == CHOOSE i \in S : \A j \in S : i <= j

\* resolveVersion: the first one registered.
VersionsOf(reg, id, version) ==
  {i \in DOMAIN reg : reg[i].id = id /\ reg[i].version = version}
ResolveVersion(reg, id, version) == reg[First(VersionsOf(reg, id, version))]

\* resolveAt: of those in force the highest version, of equal ones the first.
InForceOf(reg, id, at, j) ==
  {i \in DOMAIN reg : /\ reg[i].id = id
                      /\ InForce(reg[i], at)
                      /\ j \in {AnyJurisdiction, reg[i].jurisdiction}}
ResolveLast(reg, found) ==                                          \* a mutant
  reg[CHOOSE i \in found : \A k \in found : \/ reg[k].version < reg[i].version
                                            \/ reg[k].version = reg[i].version /\ k <= i]
Resolve(reg, found) ==
  reg[CHOOSE i \in found : \A k \in found : \/ reg[k].version < reg[i].version
                                            \/ reg[k].version = reg[i].version /\ i <= k]

-----------------------------------------------------------------------------
(* Signed packs. *)

Pack(d, checksum, key, by, over) ==
  [pack |-> d, checksum |-> checksum, key |-> key, signature |-> [by |-> by, over |-> over]]

\* signSkillPack: validates, and signs the definition with a matching key pair.
Sign(d, checksum, key) ==
  /\ Valid(d) /\ checksum = d
  /\ Cardinality(packs) < MaxPacks
  /\ packs' = packs \union {Pack(d, checksum, key, key, d)}
  /\ UNCHANGED <<registry, pins>>

Alter(p, d, recomputed) ==
  /\ Cardinality(packs) < MaxPacks
  /\ packs' = packs \union {[p EXCEPT !.pack = d, !.checksum = IF recomputed THEN d ELSE @]}
  /\ UNCHANGED <<registry, pins>>

\* verifySkillPack with the key the pack itself carries, which is how pins call
\* it; its reasons in the words of pins.
PackFaults(p) ==
  {code \in {"checksum-mismatch", "candidate-signature-invalid"} :
     IF code = "checksum-mismatch" THEN p.checksum # p.pack
     ELSE p.signature # [by |-> p.key, over |-> p.pack]}

-----------------------------------------------------------------------------
(* Mission skill pins. *)

Reason(code, id, version) == [code |-> code, id |-> id, version |-> version]
Of(code, p) == Reason(code, p.pack.id, p.pack.version)

\* projectEntry
Entry(p) ==
  [id |-> p.pack.id, version |-> p.pack.version, checksum |-> p.checksum,
   jurisdiction |-> p.pack.jurisdiction, from |-> p.pack.from, to |-> p.pack.to]

SameIdentity(e, p) == e.id = p.pack.id /\ e.version = p.pack.version

\* What is wrong with a list of packs by itself, for a pin as of date at.
CandidateFaults(list, at) ==
  {Of("duplicate-candidate-identity", list[i]) :
     i \in {k \in DOMAIN list : \E j \in 1..k - 1 : SameIdentity(Entry(list[j]), list[k])}}
  \union (UNION {{Of(code, list[i]) : code \in PackFaults(list[i])} : i \in DOMAIN list})
  \union {Of("skill-out-of-force", list[i]) :
            i \in {k \in DOMAIN list : PackFaults(list[k]) = {} /\ ~InForce(list[k].pack, at)}}

\* createMissionSkillPin, of any list of packs, the empty one too.
CreatePin(list, at) ==
  /\ CandidateFaults(list, at) = {}
  /\ Cardinality(pins) < MaxPinned
  /\ pins' = pins \union {[entries |-> {Entry(list[i]) : i \in DOMAIN list},
                           over |-> {list[i].pack : i \in DOMAIN list}]}
  /\ UNCHANGED <<registry, packs>>

\* The candidate a pinned entry is compared with: the first of its identity.
Candidates(list, e) == {i \in DOMAIN list : SameIdentity(e, list[i])}

\* What separates a pinned entry from the candidate of its identity.
EntryFaultsUnsummed(e, p) ==                                        \* a mutant
  {code \in {"jurisdiction-mismatch", "vigencia-mismatch"} :
     CASE code = "jurisdiction-mismatch" -> e.jurisdiction # p.pack.jurisdiction
       [] code = "vigencia-mismatch"     -> <<e.from, e.to>> # <<p.pack.from, p.pack.to>>}
EntryFaults(e, p) ==
  {code \in {"checksum-mismatch", "jurisdiction-mismatch", "vigencia-mismatch"} :
     CASE code = "checksum-mismatch"     -> e.checksum # p.checksum
       [] code = "jurisdiction-mismatch" -> e.jurisdiction # p.pack.jurisdiction
       [] code = "vigencia-mismatch"     -> <<e.from, e.to>> # <<p.pack.from, p.pack.to>>}

\* verifyMissionSkillPin: the reasons of its denial, for a pin as it was made.
\* Versions mismatch where one entry and one candidate have the identifier.
PinFaults(pin, list, at) ==
  LET missing == {e \in pin.entries : Candidates(list, e) = {}}
      extra   == {i \in DOMAIN list : \A e \in pin.entries : ~SameIdentity(e, list[i])}
      Alone(e) == /\ \A f \in pin.entries : f.id = e.id => f = e
                  /\ Cardinality({i \in DOMAIN list : list[i].pack.id = e.id}) = 1
  IN  CandidateFaults(list, at)
        \union {Reason("missing-skill", e.id, e.version) : e \in missing}
        \union {Of("additional-skill", list[i]) : i \in extra}
        \union {Reason("version-mismatch", e.id, e.version) : e \in {f \in missing : Alone(f)}}
        \union UNION {{Reason(code, e.id, e.version) :
                         code \in EntryFaults(e, list[First(Candidates(list, e))])} :
                        e \in pin.entries \ missing}

Lists == {<<>>} \union {<<p>> : p \in packs} \union {<<p, q>> : p, q \in packs}

Next ==
  \/ \E d, checksum \in Definition : Register(d, checksum)
  \/ \E d, checksum \in Definition, key \in Signer : Sign(d, checksum, key)
  \/ \E p \in packs, d \in Definition, recomputed \in BOOLEAN : Alter(p, d, recomputed)
  \/ \E list \in Lists, at \in Date : CreatePin(list, at)

Spec == Init /\ [][Next]_vars

-----------------------------------------------------------------------------
\* A pin holds its mission to the very definitions it was made over: whatever
\* packs are signed again or changed meanwhile, a list passes only if it is
\* those, each once, signed as they are and in force; and such a list always
\* passes (skills/pinning.ts: "immutable, full-set skill snapshots").
PinsHold ==
  \A pin \in pins, list \in Lists, at \in Date :
    (PinFaults(pin, list, at) = {})
      <=> /\ {list[i].pack : i \in DOMAIN list} = pin.over
          /\ Len(list) = Cardinality(pin.over)
          /\ \A i \in DOMAIN list :
               /\ list[i].checksum = list[i].pack
               /\ list[i].signature = [by |-> list[i].key, over |-> list[i].pack]
               /\ InForce(list[i].pack, at)

\* A registration never moves the past: what resolves at a date, or by a
\* version, goes on doing so, unless a higher version is registered that was
\* itself in force on that date (skills/registry.ts: "A normative update never
\* retroactively modifies a mission").
HistoryStands ==
  [][registry' # registry =>
       LET new == registry'[Len(registry')] IN
       \A id \in SkillId :
         /\ \A d \in Definition :
              VersionsOf(registry, id, d.version) # {} =>
                ResolveVersion(registry', id, d.version) = ResolveVersion(registry, id, d.version)
         /\ \A at \in Date, j \in Jurisdiction \union {AnyJurisdiction} :
              LET before == InForceOf(registry, id, at, j)
                  after  == InForceOf(registry', id, at, j)
              IN  before # {} =>
                    \/ Resolve(registry', after) = Resolve(registry, before)
                    \/ /\ Resolve(registry', after) = new
                       /\ new.version > Resolve(registry, before).version
                       /\ InForce(new, at)]_registry
=============================================================================
