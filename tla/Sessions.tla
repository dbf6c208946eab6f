------------------------------- MODULE Sessions -------------------------------
(***************************************************************************)
(* The tokens the server hands to one user.  A pair of an access and a      *)
(* refresh token is known by its number; access tokens expire in the order  *)
(* in which they were made.  A refresh looks the old token up in the        *)
(* blacklist and later puts it there.                                       *)
(***************************************************************************)
EXTENDS Naturals, FiniteSets

CONSTANT MaxPairs    \* bound: pairs of tokens issued

ASSUME SessionsAssumption == MaxPairs \in Nat

VARIABLES
    issued,      \* pairs issued so far
    expired,     \* the access tokens of pairs 1..expired are no longer valid
    blacklist,   \* refresh tokens revoked in Redis
    parent       \* the pair whose refresh token each pair was made for; 0: none

sessions == <<issued, expired, blacklist, parent>>

NoPair == 0
Pairs == 1..MaxPairs

SessionsInit ==
    /\ issued = 0 /\ expired = 0 /\ blacklist = {}
    /\ parent = [n \in Pairs |-> NoPair]

(* AuthRequired, without blacklist entries of access tokens.                *)
AccessValid(n) == n # NoPair /\ n > expired

(* GenerateAccessToken and GenerateRefreshToken; old is the refresh token    *)
(* given for them, if any: Login and SwitchEnterprise revoke none.          *)
Issue(old) ==
    /\ issued < MaxPairs
    /\ issued' = issued + 1
    /\ parent' = [parent EXCEPT ![issued + 1] = old]

(* The first half of Refresh; a lookup that fails lets the token pass.      *)
IsBlacklisted(n) == n \in blacklist
AdmitsRefresh(n, lookupFails) == lookupFails \/ ~IsBlacklisted(n)

(* The second half of Refresh; an Add that fails is ignored.                *)
\* Defect: the token exchanged is not revoked.
AddNothing(n) == blacklist' = blacklist
Add(n) == blacklist' = blacklist \cup {n}
Rotate(n, addFails) ==
    /\ Issue(n)
    /\ IF addFails THEN UNCHANGED blacklist ELSE Add(n)
    /\ UNCHANGED expired

AccessExpires ==
    /\ expired < issued
    /\ expired' = expired + 1
    /\ UNCHANGED <<issued, blacklist, parent>>
=============================================================================
