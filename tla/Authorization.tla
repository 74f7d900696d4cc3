---------------------------- MODULE Authorization ----------------------------
(***************************************************************************)
(* Role-based authorization as pure operators (authorization/): the matrix *)
(* of roles and permissions, what makes an assignment valid, and the       *)
(* decision on one identity, one permission and one tenant scope against a *)
(* list of assignments, with the code of its denial.  tenant-core/ is here *)
(* as far as a decision needs it: a scope is validated or it is not, and   *)
(* equal scopes are equal values (the trimmed, length-delimited key).      *)
(***************************************************************************)
EXTENDS Integers, Sequences, FiniteSets

CONSTANTS
    Person,       \* identities
    Scope         \* the tenant scopes validateTenantScope accepts

Permission == {"close:propose", "close:approve", "close:review", "close:audit-read",
               "mission:operate", "tenant:admin"}

RolePermissions ==
  [preparer |-> {"close:propose", "mission:operate", "close:audit-read"},
   reviewer |-> {"close:review", "close:audit-read"},
   approver |-> {"close:approve", "close:audit-read"},
   admin    |-> {"tenant:admin", "close:audit-read"}]

Role == DOMAIN RolePermissions

Blank == ""                   \* an identity of white space only
NoScope == "no valid scope"
NoRole == "no role of the set"

\* Assignments as callers supply them, those that assignRoles would refuse too.
Assignment ==
  [identity : Person \union {Blank}, scope : Scope \union {NoScope},
   roles : SUBSET (Role \union {NoRole})]

\* validateAssignment and assignRoles: the code of the first fault, or "ok".
Fault(a) ==
  IF a.scope \notin Scope THEN "missing-scope"
  ELSE IF a.identity = Blank \/ a.roles = {} THEN "invalid-assignment"
  ELSE IF ~(a.roles \subseteq Role) THEN "unknown-role"
  ELSE "ok"

Faults(list) == {i \in DOMAIN list : Fault(list[i]) # "ok"}

Mine(list, who) == {i \in DOMAIN list : list[i].identity = who}

AtTargetOfAnybody(list, who, scope) ==                              \* a mutant
  {i \in DOMAIN list : list[i].scope = scope}
AtTarget(list, who, scope) == {i \in Mine(list, who) : list[i].scope = scope}

\* authorize: "allowed", or the code of the first reason to deny. The whole
\* list is validated before anybody's assignments are looked for.
Decision(list, who, permission, scope) ==
  LET first  == CHOOSE i \in Faults(list) : \A j \in Faults(list) : i <= j
      target == AtTarget(list, who, scope)
      Grants(i) == \E r \in list[i].roles : permission \in RolePermissions[r]
  IN  IF who = Blank THEN "malformed-context"
      ELSE IF scope \notin Scope THEN "missing-scope"
      ELSE IF permission \notin Permission THEN "unknown-permission"
      ELSE IF Faults(list) # {} THEN Fault(list[first])
      ELSE IF Mine(list, who) = {} THEN "unknown-identity"
      ELSE IF target = {} THEN "scope-mismatch"
      ELSE IF Cardinality(target) > 1 THEN "malformed-context"
      ELSE IF ~\E i \in target : Grants(i) THEN "insufficient-permission"
      ELSE "allowed"

Authorized(list, who, permission, scope) ==
  Decision(list, who, permission, scope) = "allowed"
=============================================================================
