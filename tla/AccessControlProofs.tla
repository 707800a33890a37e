------------------------ MODULE AccessControlProofs ------------------------
(***************************************************************************)
(* Types, versions and access that cannot come from nothing, for any       *)
(* number of accounts, controllers, roles and versions.                    *)
(***************************************************************************)
EXTENDS AccessControl, TLAPS

LEMMA InitTypeOK == Init => TypeOK
BY AccessControlAssumption DEF Init, TypeOK, NewMembers, Versions

LEMMA NextTypeOK ==
    ASSUME TypeOK, [Next]_vars
    PROVE  TypeOK'
<1>1. ASSUME NEW c \in Controllers, NEW sender \in Accounts, ControllerStep(c, sender)
      PROVE  TypeOK'
  <2>1. CASE Deploy(c, sender)
    BY <2>1, AccessControlAssumption DEF TypeOK, Deploy, NewMembers, registryVars
  <2>2. ASSUME NEW r \in Roles, NEW a \in Accounts,
               SetupRole(c, sender, r, a) \/ GrantRole(c, sender, r, a)
        PROVE  TypeOK'
    <3>1. AddMember(c, r, a) /\ UNCHANGED <<deployed, roleAdmin, registryVars>>
      BY <2>2 DEF SetupRole, GrantRole
    <3>2. members' \in [Controllers -> [Roles -> SUBSET Accounts]]
      BY <3>1 DEF TypeOK, AddMember
    <3> QED BY <3>1, <3>2 DEF TypeOK, registryVars
  <2>3. ASSUME NEW r \in Roles, NEW a \in Accounts, RevokeRole(c, sender, r, a)
        PROVE  TypeOK'
    BY <2>3 DEF TypeOK, RevokeRole, RemoveMember, registryVars
  <2>4. ASSUME NEW r \in Roles, NEW adminRole \in Roles, SetRoleAdmin(c, sender, r, adminRole)
        PROVE  TypeOK'
    BY <2>4 DEF TypeOK, SetRoleAdmin, registryVars
  <2>5. ASSUME NEW r \in Roles, RenounceRole(c, sender, r)
        PROVE  TypeOK'
    BY <2>5 DEF TypeOK, RenounceRole, RemoveMember, registryVars
  <2> QED BY <1>1, <2>1, <2>2, <2>3, <2>4, <2>5 DEF ControllerStep
<1>2. ASSUME NEW reg \in Registries, NEW sender \in Accounts,
             NEW c \in Controllers \cup {NotAController}, SetAccessControler(reg, sender, c)
      PROVE  TypeOK'
  <2>1. controlVersion[reg] + 1 \in Versions
    BY <1>2, AccessControlAssumption DEF TypeOK, SetAccessControler, Versions
  <2> QED BY <1>2, <2>1 DEF TypeOK, SetAccessControler, controllerVars
<1>3. CASE UNCHANGED vars
  BY <1>3 DEF TypeOK, vars, controllerVars, registryVars
<1> QED BY <1>1, <1>2, <1>3 DEF Next

(* Every variable keeps its type; in particular no version exceeds the     *)
(* largest uint16 (AccessControlRegistry.sol).                             *)
THEOREM AccessTypeCorrect == Spec => []TypeOK
BY InitTypeOK, NextTypeOK, PTL DEF Spec

(***************************************************************************)
(* Versions.                                                               *)
(***************************************************************************)

(* A registry's reached versions keep their controllers, for any limit of  *)
(* the version (AccessControlRegistry.sol).                                *)
THEOREM VersionsAreKept == Spec => VersionsKept
<1>1. ASSUME TypeOK, [Next]_vars
      PROVE  [\A reg \in Registries : \A v \in 0..controlVersion[reg] :
                  accessController'[reg][v] = accessController[reg][v]]_vars
  <2>1. ASSUME NEW c \in Controllers, NEW sender \in Accounts, ControllerStep(c, sender)
        PROVE  UNCHANGED accessController
    BY <2>1 DEF ControllerStep, Deploy, SetupRole, GrantRole, RevokeRole, SetRoleAdmin,
                RenounceRole, registryVars
  <2>2. ASSUME NEW reg \in Registries, NEW sender \in Accounts,
               NEW c \in Controllers \cup {NotAController}, SetAccessControler(reg, sender, c),
               NEW other \in Registries, NEW v \in 0..controlVersion[other]
        PROVE  accessController'[other][v] = accessController[other][v]
    <3>1. reg = other => v # controlVersion[reg] + 1
      BY <1>1, <2>2 DEF TypeOK, Versions
    <3> QED BY <1>1, <2>2, <3>1 DEF SetAccessControler, TypeOK
  <2> QED BY <1>1, <2>1, <2>2 DEF Next
<1> QED BY <1>1, AccessTypeCorrect, PTL DEF Spec, VersionsKept

(***************************************************************************)
(* Closed sets of roles.                                                   *)
(***************************************************************************)
LEMMA ClosedStays ==
    ASSUME TypeOK, [Next]_vars, NEW c \in deployed, NEW S \in SUBSET Roles, Closed(c, S)
    PROVE  Closed(c, S)'
<1> USE DEF Closed
<1>1. ASSUME NEW d \in Controllers, NEW sender \in Accounts, ControllerStep(d, sender)
      PROVE  Closed(c, S)'
  <2>1. CASE Deploy(d, sender)
    BY <2>1 DEF TypeOK, Deploy
  <2>2. ASSUME NEW r \in Roles, NEW a \in Accounts, SetupRole(d, sender, r, a)
        PROVE  Closed(c, S)'
    <3>1. d = c => r \notin S
      BY <2>2 DEF SetupRole, HasRole
    <3> QED BY <2>2, <3>1 DEF TypeOK, SetupRole, AddMember
  <2>3. ASSUME NEW r \in Roles, NEW a \in Accounts, GrantRole(d, sender, r, a)
        PROVE  Closed(c, S)'
    <3>1. d = c => r \notin S
      BY <2>3 DEF GrantRole, HasRole
    <3> QED BY <2>3, <3>1 DEF TypeOK, GrantRole, AddMember
  <2>4. ASSUME NEW r \in Roles, NEW a \in Accounts, RevokeRole(d, sender, r, a)
        PROVE  Closed(c, S)'
    BY <2>4 DEF TypeOK, RevokeRole, RemoveMember
  <2>5. ASSUME NEW r \in Roles, NEW adminRole \in Roles, SetRoleAdmin(d, sender, r, adminRole)
        PROVE  Closed(c, S)'
    <3>1. d # c
      BY <2>5 DEF SetRoleAdmin, HasRole
    <3> QED BY <2>5, <3>1 DEF TypeOK, SetRoleAdmin
  <2>6. ASSUME NEW r \in Roles, RenounceRole(d, sender, r)
        PROVE  Closed(c, S)'
    BY <2>6 DEF TypeOK, RenounceRole, RemoveMember
  <2> QED BY <1>1, <2>1, <2>2, <2>3, <2>4, <2>5, <2>6 DEF ControllerStep
<1>2. CASE UNCHANGED controllerVars
  BY <1>2 DEF controllerVars
<1> QED BY <1>1, <1>2 DEF Next, SetAccessControler, vars

(* No sequence of calls to an AccessController gives a role to anybody     *)
(* when nobody holds one that leads to it.                                 *)
THEOREM AccessNotFromNothing == Spec => NoAccessFromNothing
<1>1. ASSUME TypeOK, [Next]_vars
      PROVE  [\A c \in deployed, S \in SUBSET Roles : Closed(c, S) => Closed(c, S)']_vars
  BY <1>1, ClosedStays
<1> QED BY <1>1, AccessTypeCorrect, PTL DEF Spec, NoAccessFromNothing

(* A registry whose current controller cannot permit anybody keeps that    *)
(* controller: onlyPermited holds for no later caller.                     *)
THEOREM FrozenStays == Spec => FrozenForGood
<1>1. ASSUME TypeOK, [Next]_vars, NEW reg \in Registries, Frozen(reg)
      PROVE  Frozen(reg)' /\ UNCHANGED controlVersion[reg]
  <2>1. ASSUME NEW a \in Accounts
        PROVE  ~Permited(reg, a)
    BY <1>1, AccessControlAssumption DEF TypeOK, Frozen, Permited, HasRole, Closed
  <2>2. UNCHANGED <<controlVersion[reg], Current(reg)>>
    <3>1. ASSUME NEW c \in Controllers, NEW sender \in Accounts, ControllerStep(c, sender)
          PROVE  UNCHANGED registryVars
      BY <3>1 DEF ControllerStep, Deploy, SetupRole, GrantRole, RevokeRole, SetRoleAdmin,
                  RenounceRole
    <3>2. ASSUME NEW other \in Registries, NEW sender \in Accounts,
                 NEW c \in Controllers \cup {NotAController}, SetAccessControler(other, sender, c)
          PROVE  other # reg
      BY <2>1, <3>2 DEF SetAccessControler
    <3> QED BY <1>1, <3>1, <3>2 DEF Next, SetAccessControler, TypeOK, Current, vars, registryVars
  <2>3. deployed \subseteq deployed'
    BY <1>1 DEF Next, ControllerStep, Deploy, SetupRole, GrantRole, RevokeRole, SetRoleAdmin,
                RenounceRole, SetAccessControler, vars, controllerVars
  <2>4. CASE Current(reg) = NotAController
    BY <2>2, <2>4 DEF Frozen
  <2>5. ASSUME Current(reg) \in deployed, NEW S \in SUBSET Roles, RoleOf[reg] \in S,
               Closed(Current(reg), S)
        PROVE  Frozen(reg)'
    <3>1. Closed(Current(reg), S)'
      BY <1>1, <2>2, <2>5, ClosedStays DEF Closed
    <3> QED BY <2>2, <2>3, <2>5, <3>1 DEF Frozen
  <2> QED BY <1>1, <2>2, <2>4, <2>5 DEF Frozen
<1>2. ASSUME TypeOK, [Next]_vars
      PROVE  [\A reg \in Registries : Frozen(reg) => Frozen(reg)' /\ UNCHANGED controlVersion[reg]]_vars
  BY <1>1, <1>2
<1> QED BY <1>2, AccessTypeCorrect, PTL DEF Spec, FrozenForGood

=============================================================================
