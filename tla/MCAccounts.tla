----------------------------- MODULE MCAccounts -----------------------------
(***************************************************************************)
(* Accounts for TLC: a first user who may do everything, and a second who  *)
(* may change its own settings; its right to remove itself is for one user *)
(* only, which removeUser does not ask for.                                *)
(***************************************************************************)
EXTENDS Accounts, TLC

CONSTANTS a, b, x, y, i1

MCOld == {<<[name |-> a, password |-> x, sessionIp |-> i1],
            [name |-> b, password |-> y, sessionIp |-> NoSession]>>}
MCRights == {[user |-> 1, name |-> right, target |-> AnyTarget] :
                right \in {"changesetting", "adduser", "removeuser"}}
            \cup {[user |-> 2, name |-> right, target |-> 2] : right \in {"changesetting", "removeuser"}}
MCSymmetry == Permutations(Request)
=============================================================================
