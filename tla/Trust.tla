-------------------------------- MODULE Trust --------------------------------
(***************************************************************************)
(* What the system takes on the word of others: the checkpoints, with      *)
(* their keys and assignments, beside the skills, with their packs and     *)
(* pins.  They live in one process and share no state.                     *)
(***************************************************************************)
EXTENDS Checkpoint

CONSTANTS SkillId, Jurisdiction, Definition, Signer, MaxDate, MaxRegistered,
          MaxPacks, MaxPinned

VARIABLES registry, packs, pins

skillVars == <<registry, packs, pins>>

Skill == INSTANCE Skills

ASSUME SkillsAssumption ==
  /\ {MaxDate, MaxRegistered, MaxPacks, MaxPinned} \subseteq Nat
  /\ \A d \in Definition :
       /\ d.id \in SkillId /\ d.version \in Nat /\ d.jurisdiction \in Jurisdiction
       /\ d.from \in Skill!Date /\ d.to \in Skill!Date \union {Skill!NoExpiry}

TrustInit == Init /\ Skill!Init

TrustNext ==
  \/ Next /\ UNCHANGED skillVars
  \/ Skill!Next /\ UNCHANGED vars

TrustSpec == TrustInit /\ [][TrustNext]_<<vars, skillVars>>

-----------------------------------------------------------------------------
\* Skills!PinsHold: a pin passes exactly the definitions it was made over
\* (skills/pinning.ts).
PinsHold == Skill!PinsHold

\* Skills!HistoryStands: a registration never moves the past
\* (skills/registry.ts).
HistoryStands == Skill!HistoryStands
=============================================================================
