--------------------------- MODULE MCAuthSession ----------------------------
(***************************************************************************)
(* Budgets for AuthSession: how often each user action or fault happens.   *)
(***************************************************************************)
EXTENDS AuthSession, TLC

(* Two logins, and any two of logout, page load, outage, revoked cookie. *)
SharedDevice == [login |-> 2, edit |-> 1, break |-> 2]

(* One sign-in and one sign-out. *)
OneSession == [login |-> 1, edit |-> 0, break |-> 1]

(* One sign-in, an outage, an edit, a page load. *)
OneOutage == [login |-> 1, edit |-> 1, break |-> 2]

UserSymmetry == Permutations(Users)
=============================================================================
