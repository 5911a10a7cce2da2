---------------------------- MODULE VacayFusion ----------------------------
(***************************************************************************)
(* Vacation plans and their fusion.  A plan is named by its owner, of      *)
(* which it has one; a user who has accepted an invite works in that plan  *)
(* instead, and the days the user has logged move there and back.  A       *)
(* request runs to its end before the next one, but it is several          *)
(* statements without a transaction: one that fails leaves the earlier     *)
(* ones done.                                                              *)
(***************************************************************************)
EXTENDS Integers, FiniteSets

CONSTANTS
    Users,
    Dates,
    MaxInvites  \* invites sent (bound)

ASSUME VacayAssumption == MaxInvites \in Nat

VARIABLES
    users,    \* users
    plans,    \* vacay_plans: the users who have one
    member,   \* vacay_plan_members: per plan and user, the status
    logged,   \* vacay_entries: plan, user, date
    invites,  \* invites sent so far
    tangled   \* history: the users whose days may be in two plans

vacayVars == <<users, plans, member, logged, invites, tangled>>

VacayInit ==
    /\ users = Users /\ plans = {} /\ logged = {}
    /\ member = [m \in Users \X Users |-> "none"]
    /\ invites = 0 /\ tangled = {}

Accepted(p, u) == member[<<p, u>>] = "accepted"
Members(p) == {u \in Users : Accepted(p, u)}

(* getPlanUsers *)
PlanUsers(p) == {p} \cup Members(p)

(* getActivePlan: one of the plans accepted, else the own one, made if need be. *)
Sees(u) == IF \E p \in Users : Accepted(p, u) THEN {p \in Users : Accepted(p, u)} ELSE {u}

ActivePlan(u, p) ==
    /\ u \in users /\ p \in Sees(u)
    /\ plans' = IF p = u THEN plans \cup {u} ELSE plans

(* Mutants: as with UPDATE OR REPLACE; the days stay in the plan. *)
CollidesNever(p, q, u) == FALSE
MovedNowhere(p, q, us) == logged

(* UPDATE vacay_entries SET plan_id: fails on a date already logged there. *)
Collides(p, q, u) == \E d \in Dates : <<p, u, d>> \in logged /\ <<q, u, d>> \in logged
Moved(p, q, us) ==
    {IF e[1] = p /\ e[2] \in us THEN <<q[e[2]], e[2], e[3]>> ELSE e : e \in logged}

-----------------------------------------------------------------------------

(* sendInvite, for the inviter's active plan. *)
Invite(u, p, v) ==
    /\ ActivePlan(u, p)
    /\ v # u /\ v \in users
    /\ member[<<p, v>>] = "none"
    /\ \A q \in Users : ~Accepted(q, v)
    /\ invites < MaxInvites
    /\ invites' = invites + 1
    /\ member' = [member EXCEPT ![<<p, v>>] = "pending"]
    /\ UNCHANGED <<users, logged, tangled>>

(* acceptInvite: accepted, then the days are moved from the own plan. *)
Accept(u, p) ==
    LET moves == u \in plans /\ u # p
        twice == \E q \in Users \ {p} : Accepted(q, u)
        hosts == Members(u) \ {u} # {}
        away == p # u /\ \E q \in Users \ {p} : Accepted(q, p)
    IN  /\ member[<<p, u>>] = "pending"
        /\ member' = [member EXCEPT ![<<p, u>>] = "accepted"]
        /\ logged' = IF moves /\ ~Collides(u, p, u)
                      THEN Moved(u, [v \in {u} |-> p], {u}) ELSE logged
        /\ tangled' = tangled \cup (IF twice \/ (p # u /\ hosts) THEN {u} ELSE {})
                              \cup (IF away THEN {p} ELSE {})
        /\ UNCHANGED <<users, plans, invites>>

(* declineInvite, and cancelInvite by a user of the plan. *)
Withdraw(p, u) ==
    /\ member[<<p, u>>] = "pending"
    /\ member' = [member EXCEPT ![<<p, u>>] = "none"]
    /\ UNCHANGED <<users, plans, logged, invites, tangled>>

(* dissolvePlan by the owner: each member's days go to its own plan, then   *)
(* all memberships go.  The move that collides ends the request, after the  *)
(* moves of some other members.                                             *)
DissolveOwned(u) ==
    LET stuck == {v \in Members(u) \ {u} : Collides(u, v, v)}
        home == [v \in Users |-> v]
    IN  /\ u \in users /\ u \in Sees(u)
        /\ IF stuck = {}
           THEN /\ plans' = plans \cup {u} \cup Members(u)
                /\ logged' = Moved(u, home, Members(u))
                /\ member' = [m \in Users \X Users |-> IF m[1] = u THEN "none" ELSE member[m]]
                /\ UNCHANGED tangled
           ELSE \E some \in SUBSET (Members(u) \ stuck) :
                  /\ plans' = plans \cup {u} \cup some
                  /\ logged' = Moved(u, home, some)
                  /\ tangled' = tangled \cup some
                  /\ UNCHANGED member
        /\ UNCHANGED <<users, invites>>

(* dissolvePlan by a member. *)
Leave(u, p) ==
    /\ u \in users /\ p \in Sees(u) \ {u}
    /\ plans' = plans \cup {u}
    /\ IF Collides(p, u, u)
       THEN UNCHANGED <<logged, member>>
       ELSE /\ logged' = Moved(p, [v \in {u} |-> u], {u})
            /\ member' = [member EXCEPT ![<<p, u>>] = "none"]
    /\ UNCHANGED <<users, invites, tangled>>

(* toggleEntry, for oneself or another user of the active plan. *)
ToggleEntry(u, p, v, d) ==
    /\ ActivePlan(u, p) /\ v \in PlanUsers(p)
    /\ logged' = IF <<p, v, d>> \in logged THEN logged \ {<<p, v, d>>}
                  ELSE logged \cup {<<p, v, d>>}
    /\ UNCHANGED <<users, member, invites, tangled>>

(* A company holiday is entered, or a year is deleted: nobody's day is      *)
(* logged on these dates.  A request that only reads clears none.           *)
ClearDates(u, p, ds) ==
    /\ ActivePlan(u, p)
    /\ logged' = {e \in logged : ~(e[1] = p /\ e[3] \in ds)}
    /\ UNCHANGED <<users, member, invites, tangled>>

(* Public holidays have been fetched, for the plan of an earlier request. *)
HolidaysApplied(p, ds) ==
    /\ p \in plans
    /\ logged' = {e \in logged : ~(e[1] = p /\ e[3] \in ds)}
    /\ UNCHANGED <<users, plans, member, invites, tangled>>

(* deleteUserCompletely: the plan goes, and by cascade all that is in it. *)
DeleteUser(u) ==
    /\ u \in users
    /\ users' = users \ {u} /\ plans' = plans \ {u}
    /\ logged' = {e \in logged : e[1] # u /\ e[2] # u}
    /\ member' = [m \in Users \X Users |-> IF m[1] = u \/ m[2] = u THEN "none" ELSE member[m]]
    /\ UNCHANGED <<invites, tangled>>

VacayNext ==
    \/ \E u, p, v \in Users :
         Invite(u, p, v) \/ \E d \in Dates : ToggleEntry(u, p, v, d)
    \/ \E u, p \in Users :
         Accept(u, p) \/ Withdraw(p, u) \/ Leave(u, p) \/ \E ds \in SUBSET Dates : ClearDates(u, p, ds)
    \/ \E p \in Users, ds \in SUBSET Dates : HolidaysApplied(p, ds)
    \/ \E u \in Users : DissolveOwned(u) \/ DeleteUser(u)

VacaySpec == VacayInit /\ [][VacayNext]_vacayVars

-----------------------------------------------------------------------------
(* Properties. *)

(* Type invariant. *)
VacayTypeOK ==
    /\ users \subseteq Users /\ plans \subseteq Users /\ tangled \subseteq Users
    /\ member \in [Users \X Users -> {"none", "pending", "accepted"}]
    /\ logged \subseteq Users \X Users \X Dates
    /\ invites \in Nat

(* A user's days are where the user looks: in the plan it is fused with, or *)
(* in its own.  Only accepting a second invite, or a plan whose owner has   *)
(* itself accepted one, or a dissolution that failed half way, can leave    *)
(* days in a plan the user no longer sees.                                  *)
DaysFollowUser ==
    \A e \in logged : e[2] \notin tangled => e[1] \in Sees(e[2])

(* Fusing, leaving and dissolving neither lose nor add a day, whichever of  *)
(* their statements fails.  Only the deletion of the account that owns a    *)
(* plan takes other users' days with it.                                    *)
DaysOf(u) == {e \in logged : e[2] = u}

DaysKept ==
    [][member' # member =>
         \A u \in users' :
            (\A e \in DaysOf(u) : e[1] \in users') =>
                Cardinality(DaysOf(u)') = Cardinality(DaysOf(u))]_vacayVars

(* What makes DaysFollowUser inductive: an untangled user has accepted one  *)
(* plan at most and none while others have accepted its own; and nothing    *)
(* refers to a plan that does not exist.                                    *)
OnePlan ==
    \A u \in Users \ tangled :
        /\ \A p, q \in Users : Accepted(p, u) /\ Accepted(q, u) => p = q
        /\ \A v \in Users \ {u}, q \in Users \ {u} : ~(Accepted(u, v) /\ Accepted(q, u))

PlansExist ==
    /\ \A e \in logged : e[1] \in plans
    /\ \A p, u \in Users : member[<<p, u>>] # "none" => p \in plans

VacayInv == VacayTypeOK /\ OnePlan /\ PlansExist /\ DaysFollowUser

=============================================================================
