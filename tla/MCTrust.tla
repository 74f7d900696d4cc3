------------------------------- MODULE MCTrust -------------------------------
(* Trust for TLC: two approvers, one scope of theirs and a foreign one, a    *)
(* key that is rotated under its own identifier; and a skill with an update, *)
(* a second text of that update and an invalid version.                      *)
EXTENDS Trust

Assigned(p, s, roles) == [identity |-> p, scope |-> s, roles |-> roles]

MCGiven ==
  {Assigned("ann", "own", {"approver"}), Assigned("ann", "other", {"approver"}),
   Assigned("bea", "own", {"approver", "admin"}), Assigned("bea", "own", {"reviewer"}),
   Assigned("cyd", NoScope, {"approver"}), Assigned("cyd", "own", {"approver", NoRole})}

Key(p, issued, expires) ==
  [keyId |-> "k", public |-> p, issuedAt |-> issued, expiresAt |-> expires,
   revokedAt |-> Never]

MCFirstKey == Key("old", 0, 2)
MCNewKeys == {Key("new", 1, Never), Key("old", 0, Never)}

MCReceipts ==
  LET good == SignedReceipt("c", "k", "old") IN
  {good, SignedReceipt("c", "k", "new"), Edited(good, "d", FALSE), Edited(good, "d", TRUE)}

Mission(status, tenant) == [status |-> status, tenant |-> tenant]

\* A base context and its variations in one or two respects.
Base ==
  [mission |-> Mission("AWAITING_APPROVAL", "own"), target |-> "APPROVED",
   receipt |-> SignedReceipt("c", "k", "old"), tier |-> "R3", approvals |-> <<"ann", "bea">>]

MCContext ==
  {[Base EXCEPT !.approvals = a] : a \in {<<>>, <<"ann">>, <<"ann", "ann">>, <<"ann", "bea">>}}
  \union {[Base EXCEPT !.tier = "R2", !.approvals = a] : a \in {<<>>, <<"ann">>}}
  \union {[Base EXCEPT !.tier = NoTier, !.approvals = <<>>]}
  \union {[Base EXCEPT !.receipt = r] : r \in MCReceipts \union {None}}
  \union {[Base EXCEPT !.mission = m] :
            m \in {None, Mission("COMPLETED", "own"), Mission("AWAITING_APPROVAL", "synthetic")}}
  \union {[Base EXCEPT !.target = t] : t \in {NoStatus, "DRAFT"}}

MCGateLists ==
  {<<"mission", "receipt", "approval">>, <<"mission", "receipt", "authorization">>,
   <<"authorization">>}

Def(id, version, jurisdiction, from, to, body) ==
  [id |-> id, version |-> version, jurisdiction |-> jurisdiction, from |-> from,
   to |-> to, body |-> body]

MCDefinition ==
  {Def("igv", 1, "CL", 0, 2, "a"), Def("igv", 2, "PE", 1, MaxDate + 1, "a"),
   Def("igv", 2, "PE", 1, MaxDate + 1, "b"), Def("igv", 3, "PE", 2, 1, "a")}

\* Checkpoints, the registry and the packs change nothing another reads.
Apart ==
  LET gates == <<now, keys, assignments>> # <<0, <<FirstKey>>, <<>>>>
  IN  /\ ~(gates /\ (registry # <<>> \/ packs # {} \/ pins # {}))
      /\ ~(registry # <<>> /\ (packs # {} \/ pins # {}))
=============================================================================
