---------------------------- MODULE AccessControl ----------------------------
(***************************************************************************)
(* Who may call the guarded functions of the Bank and the Bridge contract. *)
(* Each is a registry (AccessControlRegistry.sol) of versioned controllers *)
(* (AccessController.sol), of which the latest decides.  A step is one     *)
(* transaction that does not revert.                                       *)
(***************************************************************************)
EXTENDS Naturals

CONSTANTS
    Accounts,       \* addresses that can hold a role
    Deployer,       \* the account that deploys the first controller
    Controllers,    \* addresses of AccessControllers
    FirstController,
    NotAController, \* any address that is no AccessController
    Roles,          \* role identifiers
    DEFAULT_ADMIN_ROLE,
    Registries,     \* the contracts that are registries
    RoleOf,         \* RoleOf[reg]: BANK_ACCESS_ROLE or BRIDGE_ACCESS_ROLE
    MaxVersion      \* largest uint16: 65535 in the code

ASSUME AccessControlAssumption ==
    /\ Deployer \in Accounts
    /\ FirstController \in Controllers
    /\ NotAController \notin Controllers
    /\ DEFAULT_ADMIN_ROLE \in Roles
    /\ RoleOf \in [Registries -> Roles]
    /\ MaxVersion \in Nat

VARIABLES
    deployed,         \* controllers that exist
    members,          \* members[c][r]: accounts with role r in controller c
    roleAdmin,        \* roleAdmin[c][r]: role that grants and revokes r in c
    controlVersion,   \* controlVersion[reg]
    accessController  \* accessController[reg][v]

controllerVars == <<deployed, members, roleAdmin>>
registryVars == <<controlVersion, accessController>>
vars == <<controllerVars, registryVars>>

Versions == 0..MaxVersion

TypeOK ==
    /\ deployed \subseteq Controllers
    /\ members \in [Controllers -> [Roles -> SUBSET Accounts]]
    /\ roleAdmin \in [Controllers -> [Roles -> Roles]]
    /\ controlVersion \in [Registries -> Versions]
    /\ accessController \in [Registries -> [Versions -> Controllers \cup {NotAController}]]

(* What the constructor of AccessController leaves: its deployer is the    *)
(* only admin, and the admin role is the admin of every role.              *)
NewMembers(a) == [r \in Roles |-> IF r = DEFAULT_ADMIN_ROLE THEN {a} ELSE {}]

(* The first controller is deployed, then the registries that refer to it. *)
Init ==
    /\ deployed = {FirstController}
    /\ members = [c \in Controllers |->
                    IF c = FirstController THEN NewMembers(Deployer) ELSE [r \in Roles |-> {}]]
    /\ roleAdmin = [c \in Controllers |-> [r \in Roles |-> DEFAULT_ADMIN_ROLE]]
    /\ controlVersion = [reg \in Registries |-> 0]
    /\ accessController = [reg \in Registries |->
                            [v \in Versions |-> IF v = 0 THEN FirstController ELSE NotAController]]

(***************************************************************************)
(* AccessController.                                                       *)
(***************************************************************************)
HasRole(c, r, a) == c \in deployed /\ a \in members[c][r]

AddMember(c, r, a) == members' = [members EXCEPT ![c][r] = @ \cup {a}]
RemoveMember(c, r, a) == members' = [members EXCEPT ![c][r] = @ \ {a}]

Deploy(c, a) ==
    /\ c \notin deployed
    /\ deployed' = deployed \cup {c}
    /\ members' = [members EXCEPT ![c] = NewMembers(a)]
    /\ UNCHANGED <<roleAdmin, registryVars>>

(* Bug: setupRole asks for no role.                                        *)
SetupRoleUnguarded(c, sender, r, a) ==
    /\ c \in deployed
    /\ AddMember(c, r, a)
    /\ UNCHANGED <<deployed, roleAdmin, registryVars>>

(* An admin, and any holder of a role, may give the role to others.        *)
SetupRole(c, sender, r, a) ==
    /\ HasRole(c, DEFAULT_ADMIN_ROLE, sender) \/ HasRole(c, r, sender)
    /\ AddMember(c, r, a)
    /\ UNCHANGED <<deployed, roleAdmin, registryVars>>

SetRoleAdmin(c, sender, r, adminRole) ==
    /\ HasRole(c, DEFAULT_ADMIN_ROLE, sender)
    /\ roleAdmin' = [roleAdmin EXCEPT ![c][r] = adminRole]
    /\ UNCHANGED <<deployed, members, registryVars>>

(* Inherited from OpenZeppelin's AccessControl.                            *)
GrantRole(c, sender, r, a) ==
    /\ HasRole(c, roleAdmin[c][r], sender)
    /\ AddMember(c, r, a)
    /\ UNCHANGED <<deployed, roleAdmin, registryVars>>

RevokeRole(c, sender, r, a) ==
    /\ HasRole(c, roleAdmin[c][r], sender)
    /\ RemoveMember(c, r, a)
    /\ UNCHANGED <<deployed, roleAdmin, registryVars>>

RenounceRole(c, sender, r) ==
    /\ c \in deployed
    /\ RemoveMember(c, r, sender)
    /\ UNCHANGED <<deployed, roleAdmin, registryVars>>

(***************************************************************************)
(* AccessControlRegistry.                                                  *)
(***************************************************************************)
Current(reg) == accessController[reg][controlVersion[reg]]

(* Bug: the first controller is asked, not the latest.                     *)
PermitedByFirst(reg, a) == HasRole(accessController[reg][0], RoleOf[reg], a)

(* onlyPermited: the call of hasRole reverts unless the current controller *)
(* is one.                                                                 *)
Permited(reg, a) == HasRole(Current(reg), RoleOf[reg], a)

(* Bug: the version wraps around.                                          *)
SetAccessControlerWraps(reg, sender, c) ==
    /\ Permited(reg, sender)
    /\ LET next == (controlVersion[reg] + 1) % (MaxVersion + 1) IN
           /\ controlVersion' = [controlVersion EXCEPT ![reg] = next]
           /\ accessController' = [accessController EXCEPT ![reg][next] = c]
    /\ UNCHANGED controllerVars

(* Bug: the version is a wider number than the mapping's key.              *)
SetAccessControlerUnbounded(reg, sender, c) ==
    /\ Permited(reg, sender)
    /\ LET next == controlVersion[reg] + 1 IN
           /\ controlVersion' = [controlVersion EXCEPT ![reg] = next]
           /\ accessController' = [accessController EXCEPT ![reg][next] = c]
    /\ UNCHANGED controllerVars

(* The new controller is any address; controlVersion++ reverts when it     *)
(* overflows.                                                              *)
SetAccessControler(reg, sender, c) ==
    /\ Permited(reg, sender)
    /\ controlVersion[reg] < MaxVersion
    /\ LET next == controlVersion[reg] + 1 IN
           /\ controlVersion' = [controlVersion EXCEPT ![reg] = next]
           /\ accessController' = [accessController EXCEPT ![reg][next] = c]
    /\ UNCHANGED controllerVars

ControllerStep(c, sender) ==
    \/ Deploy(c, sender)
    \/ \E r \in Roles, a \in Accounts :
           SetupRole(c, sender, r, a) \/ GrantRole(c, sender, r, a) \/ RevokeRole(c, sender, r, a)
    \/ \E r \in Roles, adminRole \in Roles : SetRoleAdmin(c, sender, r, adminRole)
    \/ \E r \in Roles : RenounceRole(c, sender, r)

Next ==
    \E sender \in Accounts :
        \/ \E c \in Controllers : ControllerStep(c, sender)
        \/ \E reg \in Registries, c \in Controllers \cup {NotAController} :
               SetAccessControler(reg, sender, c)

Spec == Init /\ [][Next]_vars

(***************************************************************************)
(* Properties.                                                             *)
(***************************************************************************)

(* The controller of a version a registry has reached never changes, not   *)
(* even when the uint16 version is used up.                                *)
VersionsKept ==
    [][\A reg \in Registries : \A v \in 0..controlVersion[reg] :
           accessController'[reg][v] = accessController[reg][v]]_vars

(* S is closed: nobody has a role of S in c, and who could grant one would *)
(* need another role of S.                                                 *)
Closed(c, S) ==
    /\ DEFAULT_ADMIN_ROLE \in S
    /\ \A r \in S : members[c][r] = {} /\ roleAdmin[c][r] \in S

(* No access comes from nothing: when nobody holds a role, nor any role    *)
(* that leads to it through setupRole, setRoleAdmin or grantRole, nobody   *)
(* ever will.                                                              *)
NoAccessFromNothing ==
    [][\A c \in deployed, S \in SUBSET Roles : Closed(c, S) => Closed(c, S)']_vars

(* A registry whose role is closed in its current controller is guarded by *)
(* that controller for ever: no later call of anybody changes it.          *)
Frozen(reg) ==
    \/ Current(reg) = NotAController
    \/ /\ Current(reg) \in deployed
       /\ \E S \in SUBSET Roles : RoleOf[reg] \in S /\ Closed(Current(reg), S)
FrozenForGood ==
    [][\A reg \in Registries : Frozen(reg) => Frozen(reg)' /\ UNCHANGED controlVersion[reg]]_vars

=============================================================================
