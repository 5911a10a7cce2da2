----------------------------- MODULE VacayProofs -----------------------------
(***************************************************************************)
(* VacayFusion: the days of an untangled user stay in the plan the user    *)
(* sees, and no fusion or its end changes how many there are, for any      *)
(* users, dates and number of invites.                                     *)
(***************************************************************************)
EXTENDS VacayFusion, FiniteSetTheorems, TLAPS

(* What Moved makes of a day: it is the image of some day logged before. *)
LEMMA MovedFrom ==
    ASSUME NEW p, NEW q, NEW us, NEW e \in Moved(p, q, us)
    PROVE  \E f \in logged :
             /\ f[1] = p /\ f[2] \in us => e = <<q[f[2]], f[2], f[3]>>
             /\ ~(f[1] = p /\ f[2] \in us) => e = f
BY DEF Moved

LEMMA MovedType ==
    ASSUME logged \subseteq Users \X Users \X Dates,
           NEW p, NEW us, NEW q, \A v \in us : q[v] \in Users
    PROVE  Moved(p, q, us) \subseteq Users \X Users \X Dates
BY DEF Moved

(* The requests that leave the memberships as they are. *)
Logs ==
    \/ \E u, p, v \in Users, d \in Dates : ToggleEntry(u, p, v, d)
    \/ \E u, p \in Users, ds \in SUBSET Dates : ClearDates(u, p, ds)
    \/ \E p \in Users, ds \in SUBSET Dates : HolidaysApplied(p, ds)

LEMMA VacayTypes == VacayTypeOK /\ [VacayNext]_vacayVars => VacayTypeOK'
<1> SUFFICES ASSUME VacayTypeOK, [VacayNext]_vacayVars PROVE VacayTypeOK'
  OBVIOUS
<1> USE DEF VacayTypeOK
<1>1. CASE Logs
  <2>1. users' = users /\ member' = member /\ invites' = invites /\ tangled' = tangled
    BY <1>1 DEF Logs, ToggleEntry, ClearDates, HolidaysApplied
  <2>2. plans' \subseteq Users /\ logged' \subseteq Users \X Users \X Dates
    <3>1. ASSUME NEW u \in Users, NEW p \in Users, NEW v \in Users, NEW d \in Dates,
                 ToggleEntry(u, p, v, d)
          PROVE  plans' \subseteq Users /\ logged' \subseteq Users \X Users \X Dates
      BY <3>1 DEF ToggleEntry, ActivePlan
    <3>2. ASSUME NEW u \in Users, NEW p \in Users, NEW ds \in SUBSET Dates, ClearDates(u, p, ds)
          PROVE  plans' \subseteq Users /\ logged' \subseteq Users \X Users \X Dates
      BY <3>2 DEF ClearDates, ActivePlan
    <3>3. ASSUME NEW p \in Users, NEW ds \in SUBSET Dates, HolidaysApplied(p, ds)
          PROVE  plans' \subseteq Users /\ logged' \subseteq Users \X Users \X Dates
      BY <3>3 DEF HolidaysApplied
    <3> QED
      BY <1>1, <3>1, <3>2, <3>3 DEF Logs
  <2> QED
    BY <2>1, <2>2
<1>2. ASSUME NEW u \in Users, NEW p \in Users, NEW v \in Users, Invite(u, p, v)
      PROVE  VacayTypeOK'
  BY <1>2 DEF Invite, ActivePlan
<1>3. ASSUME NEW u \in Users, NEW p \in Users, Accept(u, p)
      PROVE  VacayTypeOK'
  <2>1. Moved(u, [v \in {u} |-> p], {u}) \subseteq Users \X Users \X Dates
    BY MovedType
  <2>2. tangled' \subseteq Users
    BY <1>3 DEF Accept
  <2> QED
    BY <1>3, <2>1, <2>2 DEF Accept
<1>4. ASSUME NEW u \in Users, NEW p \in Users, Withdraw(p, u)
      PROVE  VacayTypeOK'
  BY <1>4 DEF Withdraw
<1>5. ASSUME NEW u \in Users, NEW p \in Users, Leave(u, p)
      PROVE  VacayTypeOK'
  <2>1. Moved(p, [v \in {u} |-> u], {u}) \subseteq Users \X Users \X Dates
    BY MovedType
  <2> QED
    BY <1>5, <2>1 DEF Leave
<1>6. ASSUME NEW u \in Users, DissolveOwned(u)
      PROVE  VacayTypeOK'
  <2> DEFINE home == [v \in Users |-> v]
             stuck == {v \in Members(u) \ {u} : Collides(u, v, v)}
  <2>1. \A us \in SUBSET Users : Moved(u, home, us) \subseteq Users \X Users \X Dates
    BY MovedType
  <2>2. Members(u) \subseteq Users
    BY DEF Members
  <2>3. CASE stuck = {}
    BY <1>6, <2>1, <2>2, <2>3 DEF DissolveOwned
  <2>4. CASE stuck # {}
    <3>1. PICK some \in SUBSET (Members(u) \ stuck) :
            /\ plans' = plans \cup {u} \cup some
            /\ logged' = Moved(u, home, some)
            /\ tangled' = tangled \cup some
      BY <1>6, <2>4 DEF DissolveOwned
    <3>2. some \subseteq Users
      BY <2>2
    <3> QED
      BY <1>6, <2>1, <2>4, <3>1, <3>2 DEF DissolveOwned
  <2> QED
    BY <2>3, <2>4
<1>7. ASSUME NEW u \in Users, DeleteUser(u)
      PROVE  VacayTypeOK'
  BY <1>7 DEF DeleteUser
<1>8. CASE UNCHANGED vacayVars
  BY <1>8 DEF vacayVars
<1> QED
  BY <1>1, <1>2, <1>3, <1>4, <1>5, <1>6, <1>7, <1>8 DEF VacayNext, Logs

(* With the memberships unchanged every user sees the same plans. *)
LEMMA SameSees ==
    ASSUME member' = member
    PROVE  /\ \A p, u : Accepted(p, u)' <=> Accepted(p, u)
           /\ \A u : Sees(u)' = Sees(u)
BY DEF Accepted, Sees

(* An untangled user sees one plan. *)
LEMMA SeesOne ==
    ASSUME OnePlan, NEW u \in Users \ tangled, NEW p \in Sees(u)
    PROVE  Sees(u) = {p}
BY DEF OnePlan, Sees

LEMMA LogsStep == VacayInv /\ VacayTypeOK' /\ Logs => VacayInv'
<1> SUFFICES ASSUME VacayInv, VacayTypeOK', Logs PROVE VacayInv'
  OBVIOUS
<1>1. member' = member /\ tangled' = tangled
  BY DEF Logs, ToggleEntry, ClearDates, HolidaysApplied
<1>2. plans \subseteq plans'
  BY DEF Logs, ToggleEntry, ClearDates, HolidaysApplied, ActivePlan
<1>3. (\A p, u : Accepted(p, u)' <=> Accepted(p, u)) /\ \A u : Sees(u)' = Sees(u)
  BY <1>1, SameSees
<1>4. OnePlan'
  BY <1>1, <1>3 DEF VacayInv, OnePlan
<1>5. ASSUME NEW e \in logged'
      PROVE  e[1] \in plans' /\ (e[2] \notin tangled => e[1] \in Sees(e[2]))
  <2>1. CASE e \in logged
    BY <1>2, <2>1 DEF VacayInv, PlansExist, DaysFollowUser
  <2>2. CASE e \notin logged
    <3>1. PICK u \in Users, p \in Users, v \in Users, d \in Dates :
            ToggleEntry(u, p, v, d) /\ e = <<p, v, d>>
      <4>1. \A p \in Users, ds \in SUBSET Dates : ~HolidaysApplied(p, ds)
        BY <2>2 DEF HolidaysApplied
      <4>2. \A u, p \in Users, ds \in SUBSET Dates : ~ClearDates(u, p, ds)
        BY <2>2 DEF ClearDates
      <4>3. PICK u \in Users, p \in Users, v \in Users, d \in Dates : ToggleEntry(u, p, v, d)
        BY <4>1, <4>2 DEF Logs
      <4>4. e = <<p, v, d>>
        BY <2>2, <4>3 DEF ToggleEntry
      <4> QED
        BY <4>3, <4>4
    <3>2. p \in plans'
      <4>1. CASE p = u
        BY <3>1, <4>1 DEF ToggleEntry, ActivePlan
      <4>2. CASE p # u
        BY <1>2, <3>1, <4>2 DEF ToggleEntry, ActivePlan, Sees, Accepted, VacayInv, PlansExist
      <4> QED
        BY <4>1, <4>2
    <3>3. p \in Sees(v) \/ (v = p /\ v # u /\ Accepted(p, u))
      BY <3>1 DEF ToggleEntry, ActivePlan, PlanUsers, Members, Sees
    <3>4. v \notin tangled => p \in Sees(v)
      <4>1. CASE v \notin tangled /\ v = p /\ v # u /\ Accepted(p, u)
        <5>1. \A q \in Users \ {v} : ~Accepted(q, v)
          BY <4>1 DEF VacayInv, OnePlan
        <5> QED
          BY <4>1, <5>1 DEF Sees
      <4> QED
        BY <3>3, <4>1
    <3> QED
      BY <3>1, <3>2, <3>4
  <2> QED
    BY <2>1, <2>2
<1>6. PlansExist'
  BY <1>1, <1>2, <1>5 DEF VacayInv, PlansExist
<1>7. DaysFollowUser'
  BY <1>1, <1>3, <1>5 DEF DaysFollowUser
<1> QED
  BY <1>4, <1>6, <1>7 DEF VacayInv

LEMMA InviteStep ==
    ASSUME VacayInv, NEW u \in Users, NEW p \in Users, NEW v \in Users, Invite(u, p, v)
    PROVE  OnePlan' /\ PlansExist' /\ DaysFollowUser'
<1>1. member \in [Users \X Users -> {"none", "pending", "accepted"}]
  BY DEF VacayInv, VacayTypeOK
<1>2. \A q, w \in Users : Accepted(q, w)' <=> Accepted(q, w)
  <2> SUFFICES ASSUME NEW q \in Users, NEW w \in Users
               PROVE  member'[<<q, w>>] = "accepted" <=> member[<<q, w>>] = "accepted"
    BY DEF Accepted
  <2> QED
    BY <1>1 DEF Invite
<1>3. \A w \in Users : Sees(w)' = Sees(w)
  BY <1>2 DEF Sees
<1>4. p \in plans' /\ plans \subseteq plans'
  <2>1. CASE p = u
    BY <2>1 DEF Invite, ActivePlan
  <2>2. CASE p # u
    <3>1. Accepted(p, u)
      BY <2>2 DEF Invite, ActivePlan, Sees
    <3> QED
      BY <2>2, <3>1 DEF Invite, ActivePlan, Accepted, VacayInv, PlansExist
  <2> QED
    BY <2>1, <2>2
<1>5. logged' = logged /\ tangled' = tangled
  BY DEF Invite
<1>6. OnePlan'
  BY <1>2, <1>5 DEF OnePlan, VacayInv
<1>7. PlansExist'
  <2>1. \A q, w \in Users : member'[<<q, w>>] # "none" => q \in plans'
    BY <1>1, <1>4 DEF Invite, VacayInv, PlansExist
  <2> QED
    BY <1>4, <1>5, <2>1 DEF VacayInv, PlansExist
<1>8. DaysFollowUser'
  <2>1. \A e \in logged : e[2] \in Users
    BY DEF VacayInv, VacayTypeOK
  <2> QED
    BY <1>3, <1>5, <2>1 DEF DaysFollowUser, VacayInv
<1> QED
  BY <1>6, <1>7, <1>8

LEMMA WithdrawStep ==
    ASSUME VacayInv, NEW u \in Users, NEW p \in Users, Withdraw(p, u)
    PROVE  OnePlan' /\ PlansExist' /\ DaysFollowUser'
<1>1. member \in [Users \X Users -> {"none", "pending", "accepted"}]
  BY DEF VacayInv, VacayTypeOK
<1>2. \A q, w \in Users : Accepted(q, w)' <=> Accepted(q, w)
  <2> SUFFICES ASSUME NEW q \in Users, NEW w \in Users
               PROVE  member'[<<q, w>>] = "accepted" <=> member[<<q, w>>] = "accepted"
    BY DEF Accepted
  <2> QED
    BY <1>1 DEF Withdraw
<1>3. \A w \in Users : Sees(w)' = Sees(w)
  BY <1>2 DEF Sees
<1>4. logged' = logged /\ tangled' = tangled /\ plans' = plans
  BY DEF Withdraw
<1>5. OnePlan'
  BY <1>2, <1>4 DEF OnePlan, VacayInv
<1>6. PlansExist'
  <2>1. \A q, w \in Users : member'[<<q, w>>] # "none" => q \in plans
    BY <1>1 DEF Withdraw, VacayInv, PlansExist
  <2> QED
    BY <1>4, <2>1 DEF VacayInv, PlansExist
<1>7. DaysFollowUser'
  <2>1. \A e \in logged : e[2] \in Users
    BY DEF VacayInv, VacayTypeOK
  <2> QED
    BY <1>3, <1>4, <2>1 DEF DaysFollowUser, VacayInv
<1> QED
  BY <1>5, <1>6, <1>7

(* Accepting: an untangled user had its days in its own plan only. *)
LEMMA AcceptStep ==
    ASSUME VacayInv, NEW u \in Users, NEW p \in Users, Accept(u, p)
    PROVE  OnePlan' /\ PlansExist' /\ DaysFollowUser'
<1> DEFINE q == [v \in {u} |-> p]
           moves == u \in plans /\ u # p
<1>1. member \in [Users \X Users -> {"none", "pending", "accepted"}]
  BY DEF VacayInv, VacayTypeOK
<1>2. member[<<p, u>>] = "pending" /\ ~Accepted(p, u)
  BY DEF Accept, Accepted
<1>3. \A r, w \in Users : Accepted(r, w)' <=> (Accepted(r, w) \/ (r = p /\ w = u))
  <2> SUFFICES ASSUME NEW r \in Users, NEW w \in Users
               PROVE  member'[<<r, w>>] = "accepted"
                        <=> (member[<<r, w>>] = "accepted" \/ (r = p /\ w = u))
    BY DEF Accepted
  <2> QED
    BY <1>1 DEF Accept
<1>4. plans' = plans /\ p \in plans /\ tangled \subseteq tangled'
  BY <1>2 DEF Accept, VacayInv, PlansExist
<1>5. u \notin tangled' =>
        /\ \A r \in Users \ {p} : ~Accepted(r, u)
        /\ p # u => \A v \in Users \ {u} : ~Accepted(u, v)
  BY DEF Accept, Members
<1>6. p \notin tangled' /\ p # u => \A r \in Users \ {p} : ~Accepted(r, p)
  BY DEF Accept
<1>7. OnePlan'
  <2> SUFFICES ASSUME NEW w \in Users, w \notin tangled'
               PROVE  /\ \A r, s \in Users : Accepted(r, w)' /\ Accepted(s, w)' => r = s
                      /\ \A v \in Users \ {w}, r \in Users \ {w} :
                            ~(Accepted(w, v)' /\ Accepted(r, w)')
    BY DEF OnePlan
  <2>1. \A r, s \in Users : Accepted(r, w) /\ Accepted(s, w) => r = s
    BY <1>4 DEF VacayInv, OnePlan
  <2>2. \A v \in Users \ {w}, r \in Users \ {w} : ~(Accepted(w, v) /\ Accepted(r, w))
    BY <1>4 DEF VacayInv, OnePlan
  <2>3. \A r, s \in Users : Accepted(r, w)' /\ Accepted(s, w)' => r = s
    BY <1>3, <1>5, <2>1
  <2>4. ASSUME NEW v \in Users \ {w}, NEW r \in Users \ {w}, Accepted(w, v)', Accepted(r, w)'
        PROVE  FALSE
    <3>1. CASE w = u
      BY <1>3, <1>5, <2>2, <2>4, <3>1
    <3>2. CASE w # u
      BY <1>3, <1>6, <2>2, <2>4, <3>2
    <3> QED
      BY <3>1, <3>2
  <2> QED
    BY <2>3, <2>4
<1>8. logged' = IF moves /\ ~Collides(u, p, u) THEN Moved(u, q, {u}) ELSE logged
  BY DEF Accept
<1>9. \A e \in logged : e[1] \in plans /\ e[1] \in Users /\ e[2] \in Users /\ e[3] \in Dates
                        /\ e = <<e[1], e[2], e[3]>>
  BY DEF VacayInv, VacayTypeOK, PlansExist
<1>10. PlansExist'
  <2>1. \A r, w \in Users : member'[<<r, w>>] # "none" => r \in plans
    BY <1>1, <1>2, <1>4 DEF Accept, VacayInv, PlansExist
  <2>2. \A e \in Moved(u, q, {u}) : e[1] \in plans
    BY <1>4, <1>9, MovedFrom
  <2>3. \A e \in logged' : e[1] \in plans
    BY <1>8, <1>9, <2>2
  <2> QED
    BY <1>4, <2>1, <2>3 DEF PlansExist
<1>11. \A w \in Users \ {u} : Sees(w)' = Sees(w)
  BY <1>3 DEF Sees
<1>12. u \notin tangled' => Sees(u)' = {p} /\ (Sees(u) = {u} \/ Sees(u) = {p})
  BY <1>3, <1>5 DEF Sees
<1>13. DaysFollowUser'
  <2>1. ASSUME NEW e \in logged, e[2] # u, e[2] \notin tangled'
        PROVE  e[1] \in Sees(e[2])'
    BY <1>4, <1>9, <1>11, <2>1 DEF DaysFollowUser, VacayInv
  <2>2. ASSUME u \notin tangled', NEW e \in logged, e[2] = u
        PROVE  e[1] = u
    <3>1. Sees(u) = {u}
      BY <1>2, <1>5, <2>2 DEF Sees
    <3> QED
      BY <1>4, <2>2, <3>1 DEF DaysFollowUser, VacayInv
  <2>3. ASSUME u \notin tangled', moves
        PROVE  ~Collides(u, p, u)
    BY <2>2, <2>3 DEF Collides
  <2>4. ASSUME NEW e \in logged', e[2] = u, u \notin tangled'
        PROVE  e[1] = p
    <3>1. CASE moves
      <4>1. PICK f \in logged :
              /\ f[1] = u /\ f[2] \in {u} => e = <<q[f[2]], f[2], f[3]>>
              /\ ~(f[1] = u /\ f[2] \in {u}) => e = f
        BY <1>8, <2>3, <2>4, <3>1, MovedFrom
      <4>2. f[2] = u
        BY <2>4, <4>1
      <4> QED
        BY <2>2, <2>4, <4>1, <4>2
    <3>2. CASE ~moves
      BY <1>8, <1>9, <2>2, <2>4, <3>2
    <3> QED
      BY <3>1, <3>2
  <2>5. ASSUME NEW e \in logged', e[2] # u
        PROVE  e \in logged
    <3>1. CASE e \in Moved(u, q, {u})
      <4>1. PICK f \in logged :
              /\ f[1] = u /\ f[2] \in {u} => e = <<q[f[2]], f[2], f[3]>>
              /\ ~(f[1] = u /\ f[2] \in {u}) => e = f
        BY <3>1, MovedFrom
      <4> QED
        BY <2>5, <4>1
    <3> QED
      BY <1>8, <3>1
  <2> QED
    BY <1>12, <2>1, <2>4, <2>5 DEF DaysFollowUser
<1> QED
  BY <1>7, <1>10, <1>13

(* Leaving: an untangled member sees one plan, and takes its days along. *)
LEMMA LeaveStep ==
    ASSUME VacayInv, NEW u \in Users, NEW p \in Users, Leave(u, p)
    PROVE  OnePlan' /\ PlansExist' /\ DaysFollowUser'
<1> DEFINE q == [v \in {u} |-> u]
<1>1. member \in [Users \X Users -> {"none", "pending", "accepted"}]
  BY DEF VacayInv, VacayTypeOK
<1>2. plans' = plans \cup {u} /\ tangled' = tangled
  BY DEF Leave
<1>3. \A e \in logged : e[1] \in plans /\ e[1] \in Users /\ e[2] \in Users
  BY DEF VacayInv, VacayTypeOK, PlansExist
<1>4. CASE Collides(p, u, u)
  <2>1. member' = member /\ logged' = logged
    BY <1>4 DEF Leave
  <2>2. (\A r, w : Accepted(r, w)' <=> Accepted(r, w)) /\ \A w : Sees(w)' = Sees(w)
    BY <2>1, SameSees
  <2>3. OnePlan'
    BY <1>2, <2>2 DEF VacayInv, OnePlan
  <2>4. PlansExist'
    BY <1>2, <2>1 DEF VacayInv, PlansExist
  <2>5. DaysFollowUser'
    BY <1>2, <2>1, <2>2 DEF VacayInv, DaysFollowUser
  <2> QED
    BY <2>3, <2>4, <2>5
<1>5. CASE ~Collides(p, u, u)
  <2>1. logged' = Moved(p, q, {u}) /\ member' = [member EXCEPT ![<<p, u>>] = "none"]
    BY <1>5 DEF Leave
  <2>2. \A r, w \in Users : Accepted(r, w)' <=> (Accepted(r, w) /\ ~(r = p /\ w = u))
    <3> SUFFICES ASSUME NEW r \in Users, NEW w \in Users
                 PROVE  member'[<<r, w>>] = "accepted"
                          <=> (member[<<r, w>>] = "accepted" /\ ~(r = p /\ w = u))
      BY DEF Accepted
    <3> QED
      BY <1>1, <2>1
  <2>3. OnePlan'
    BY <1>2, <2>2 DEF VacayInv, OnePlan
  <2>4. PlansExist'
    <3>1. \A r, w \in Users : member'[<<r, w>>] # "none" => r \in plans
      BY <1>1, <2>1 DEF VacayInv, PlansExist
    <3>2. \A e \in logged' : e[1] \in plans'
      BY <1>2, <1>3, <2>1, MovedFrom
    <3> QED
      BY <1>2, <3>1, <3>2 DEF PlansExist
  <2>5. \A w \in Users \ {u} : Sees(w)' = Sees(w)
    BY <2>2 DEF Sees
  <2>6. u \notin tangled => Sees(u)' = {u} /\ Sees(u) = {p}
    <3>1. u \notin tangled => \A r \in Users \ {p} : ~Accepted(r, u)
      BY DEF Leave, Sees, VacayInv, OnePlan
    <3>2. u \notin tangled => Sees(u) = {p}
      BY SeesOne DEF Leave, VacayInv
    <3> QED
      BY <2>2, <3>1, <3>2 DEF Sees
  <2>7. DaysFollowUser'
    <3> SUFFICES ASSUME NEW e \in logged', e[2] \notin tangled
                 PROVE  e[1] \in Sees(e[2])'
      BY <1>2 DEF DaysFollowUser
    <3>1. PICK f \in logged :
            /\ f[1] = p /\ f[2] \in {u} => e = <<q[f[2]], f[2], f[3]>>
            /\ ~(f[1] = p /\ f[2] \in {u}) => e = f
      BY <2>1, MovedFrom
    <3>2. f[2] = e[2] /\ f[1] \in Sees(f[2])
      BY <3>1 DEF VacayInv, DaysFollowUser
    <3>3. CASE e[2] = u
      BY <2>6, <3>1, <3>2, <3>3
    <3>4. CASE e[2] # u
      BY <1>3, <2>5, <3>1, <3>2, <3>4
    <3> QED
      BY <3>3, <3>4
  <2> QED
    BY <2>3, <2>4, <2>7
<1> QED
  BY <1>4, <1>5

(* Dissolving, to its end or until a move collides. *)
LEMMA DissolveStep ==
    ASSUME VacayInv, NEW u \in Users, DissolveOwned(u)
    PROVE  OnePlan' /\ PlansExist' /\ DaysFollowUser'
<1> DEFINE home == [v \in Users |-> v]
           stuck == {v \in Members(u) \ {u} : Collides(u, v, v)}
<1>1. member \in [Users \X Users -> {"none", "pending", "accepted"}]
  BY DEF VacayInv, VacayTypeOK
<1>2. \A e \in logged : e[1] \in plans /\ e[1] \in Users /\ e[2] \in Users
  BY DEF VacayInv, VacayTypeOK, PlansExist
<1>3. \A w \in Members(u) : w \in Users /\ Accepted(u, w)
  BY DEF Members
<1>4. CASE stuck = {}
  <2>0. PICK ms : ms = Members(u)
    OBVIOUS
  <2>1. /\ plans' = plans \cup {u} \cup ms /\ tangled' = tangled
        /\ logged' = Moved(u, home, ms)
        /\ member' = [m \in Users \X Users |-> IF m[1] = u THEN "none" ELSE member[m]]
    BY <1>4, <2>0 DEF DissolveOwned
  <2>a. \A e \in logged' :
          \E f \in logged :
            /\ f[1] = u /\ f[2] \in ms => e = <<home[f[2]], f[2], f[3]>>
            /\ ~(f[1] = u /\ f[2] \in ms) => e = f
    <3> HIDE DEF home
    <3>1. logged' = Moved(u, home, ms)
      BY <2>1
    <3> QED
      BY <3>1, MovedFrom
  <2>2. \A r, w \in Users : Accepted(r, w)' <=> (Accepted(r, w) /\ r # u)
    <3> SUFFICES ASSUME NEW r \in Users, NEW w \in Users
                 PROVE  member'[<<r, w>>] = "accepted" <=> (member[<<r, w>>] = "accepted" /\ r # u)
      BY DEF Accepted
    <3> QED
      BY <2>1
  <2>3. OnePlan'
    BY <2>1, <2>2 DEF VacayInv, OnePlan
  <2>4. PlansExist'
    <3>1. \A r, w \in Users : member'[<<r, w>>] # "none" => r \in plans
      BY <1>1, <2>1 DEF VacayInv, PlansExist
    <3>2. ASSUME NEW e \in logged'
          PROVE  e[1] \in plans'
      <4>1. PICK f \in logged :
              /\ f[1] = u /\ f[2] \in ms => e = <<home[f[2]], f[2], f[3]>>
              /\ ~(f[1] = u /\ f[2] \in ms) => e = f
        BY <2>a
      <4>2. CASE f[1] = u /\ f[2] \in ms
        BY <1>3, <2>0, <2>1, <4>1, <4>2
      <4>3. CASE ~(f[1] = u /\ f[2] \in ms)
        BY <1>2, <2>1, <4>1, <4>3
      <4> QED
        BY <4>2, <4>3
    <3> QED
      BY <2>1, <3>1, <3>2 DEF PlansExist
  <2>5. DaysFollowUser'
    <3> SUFFICES ASSUME NEW e \in logged', e[2] \notin tangled
                 PROVE  e[1] \in Sees(e[2])'
      BY <2>1 DEF DaysFollowUser
    <3>1. PICK f \in logged :
            /\ f[1] = u /\ f[2] \in ms => e = <<home[f[2]], f[2], f[3]>>
            /\ ~(f[1] = u /\ f[2] \in ms) => e = f
      BY <2>a
    <3>2. f[2] \in Users /\ f[2] = e[2] /\ f[1] \in Users /\ f[1] \in Sees(f[2])
      <4>1. f[2] \in Users /\ f[1] \in Users
        BY <1>2
      <4>2. f[2] = e[2]
        BY <3>1
      <4> QED
        BY <4>1, <4>2 DEF VacayInv, DaysFollowUser
    <3>3. CASE f[2] \in ms
      <4>1. Accepted(u, f[2]) /\ f[2] \notin tangled
        BY <1>3, <2>0, <3>2, <3>3
      <4>2. \A r \in Users : Accepted(r, f[2]) => r = u
        BY <3>2, <4>1 DEF VacayInv, OnePlan
      <4>3. f[1] = u
        BY <3>2, <4>1, <4>2 DEF Sees
      <4>4. e[1] = e[2]
        BY <3>1, <3>2, <3>3, <4>3
      <4>5. Sees(f[2])' = {f[2]}
        BY <2>2, <3>2, <4>2 DEF Sees
      <4> QED
        BY <3>2, <4>4, <4>5
    <3>4. CASE f[2] \notin ms
      <4>1. ~Accepted(u, f[2])
        BY <2>0, <3>2, <3>4 DEF Members
      <4>2. Sees(f[2])' = Sees(f[2])
        BY <2>2, <3>2, <4>1 DEF Sees
      <4> QED
        BY <3>1, <3>2, <3>4, <4>2
    <3> QED
      BY <3>3, <3>4
  <2> QED
    BY <2>3, <2>4, <2>5
<1>5. CASE stuck # {}
  <2>1. PICK some \in SUBSET (Members(u) \ stuck) :
          /\ plans' = plans \cup {u} \cup some
          /\ logged' = Moved(u, home, some)
          /\ tangled' = tangled \cup some
          /\ member' = member
    BY <1>5 DEF DissolveOwned
  <2>2. (\A r, w : Accepted(r, w)' <=> Accepted(r, w)) /\ \A w : Sees(w)' = Sees(w)
    BY <2>1, SameSees
  <2>3. OnePlan'
    BY <2>1, <2>2 DEF VacayInv, OnePlan
  <2>4. ASSUME NEW e \in logged'
        PROVE  e[1] \in plans' /\ (e[2] \notin tangled' => e[1] \in Sees(e[2]))
    <3>1. PICK f \in logged :
            /\ f[1] = u /\ f[2] \in some => e = <<home[f[2]], f[2], f[3]>>
            /\ ~(f[1] = u /\ f[2] \in some) => e = f
      BY <2>1, MovedFrom
    <3>2. CASE f[1] = u /\ f[2] \in some
      BY <1>3, <2>1, <3>1, <3>2
    <3>3. CASE ~(f[1] = u /\ f[2] \in some)
      BY <1>2, <2>1, <3>1, <3>3 DEF VacayInv, DaysFollowUser
    <3> QED
      BY <3>2, <3>3
  <2>5. PlansExist'
    BY <2>1, <2>4 DEF VacayInv, PlansExist
  <2>6. DaysFollowUser'
    BY <2>2, <2>4 DEF DaysFollowUser
  <2> QED
    BY <2>3, <2>5, <2>6
<1> QED
  BY <1>4, <1>5

LEMMA DeleteStep ==
    ASSUME VacayInv, NEW u \in Users, DeleteUser(u)
    PROVE  OnePlan' /\ PlansExist' /\ DaysFollowUser'
<1>1. member \in [Users \X Users -> {"none", "pending", "accepted"}]
  BY DEF VacayInv, VacayTypeOK
<1>2. \A r, w \in Users : Accepted(r, w)' <=> (Accepted(r, w) /\ r # u /\ w # u)
  <2> SUFFICES ASSUME NEW r \in Users, NEW w \in Users
               PROVE  member'[<<r, w>>] = "accepted"
                        <=> (member[<<r, w>>] = "accepted" /\ r # u /\ w # u)
    BY DEF Accepted
  <2> QED
    BY DEF DeleteUser
<1>3. tangled' = tangled /\ plans' = plans \ {u}
  BY DEF DeleteUser
<1>4. OnePlan'
  BY <1>2, <1>3 DEF VacayInv, OnePlan
<1>5. PlansExist'
  <2>1. \A r, w \in Users : member'[<<r, w>>] # "none" => r \in plans'
    BY <1>1, <1>3 DEF DeleteUser, VacayInv, PlansExist
  <2>2. \A e \in logged' : e[1] \in plans'
    BY <1>3 DEF DeleteUser, VacayInv, PlansExist
  <2> QED
    BY <2>1, <2>2 DEF PlansExist
<1>6. DaysFollowUser'
  <2> SUFFICES ASSUME NEW e \in logged', e[2] \notin tangled
               PROVE  e[1] \in Sees(e[2])'
    BY <1>3 DEF DaysFollowUser
  <2>1. e \in logged /\ e[1] # u /\ e[2] # u
    BY DEF DeleteUser
  <2>2. e[1] \in Sees(e[2]) /\ e[1] \in Users /\ e[2] \in Users
    BY <2>1 DEF VacayInv, DaysFollowUser, VacayTypeOK
  <2>3. CASE \E r \in Users : Accepted(r, e[2])
    BY <1>2, <2>1, <2>2, <2>3 DEF Sees
  <2>4. CASE ~\E r \in Users : Accepted(r, e[2])
    BY <1>2, <2>1, <2>2, <2>4 DEF Sees
  <2> QED
    BY <2>3, <2>4
<1> QED
  BY <1>4, <1>5, <1>6

LEMMA VacayStep == VacayInv /\ [VacayNext]_vacayVars => VacayInv'
<1> SUFFICES ASSUME VacayInv, [VacayNext]_vacayVars PROVE VacayInv'
  OBVIOUS
<1>1. VacayTypeOK'
  BY VacayTypes DEF VacayInv
<1>2. CASE Logs
  BY <1>1, <1>2, LogsStep
<1>3. CASE VacayNext /\ ~Logs
  <2>1. OnePlan' /\ PlansExist' /\ DaysFollowUser'
    BY <1>3, InviteStep, WithdrawStep, AcceptStep, LeaveStep, DissolveStep, DeleteStep
    DEF VacayNext, Logs
  <2> QED
    BY <1>1, <2>1 DEF VacayInv
<1>4. CASE UNCHANGED vacayVars
  <2>1. (\A p, u : Accepted(p, u)' <=> Accepted(p, u)) /\ \A u : Sees(u)' = Sees(u)
    BY <1>4, SameSees DEF vacayVars
  <2>2. OnePlan' /\ PlansExist' /\ DaysFollowUser'
    BY <1>4, <2>1 DEF vacayVars, VacayInv, OnePlan, PlansExist, DaysFollowUser
  <2> QED
    BY <1>1, <2>2 DEF VacayInv
<1> QED
  BY <1>2, <1>3, <1>4

(* Whatever invites, fusions, dissolutions and deletions: the invariant of  *)
(* the vacation plans.                                                      *)
THEOREM VacayInvariant == VacaySpec => []VacayInv
<1>1. VacayInit => VacayInv
  <2> SUFFICES ASSUME VacayInit PROVE VacayInv
    OBVIOUS
  <2>1. \A p, u \in Users : member[<<p, u>>] = "none" /\ ~Accepted(p, u)
    BY DEF VacayInit, Accepted
  <2> QED
    BY <2>1 DEF VacayInit, VacayInv, VacayTypeOK, OnePlan, PlansExist, DaysFollowUser
<1> QED
  BY <1>1, VacayStep, PTL DEF VacaySpec

(* A user's days are in the plan the user sees, unless one of the tangling  *)
(* requests was made.                                                       *)
THEOREM VacayDaysFollowUser == VacaySpec => []DaysFollowUser
BY VacayInvariant, PTL DEF VacayInv

-----------------------------------------------------------------------------
(* How many days a user has. *)

(* A day is a plan, a user and a date. *)
LEMMA DayParts ==
    ASSUME VacayTypeOK, NEW e \in logged
    PROVE  e = <<e[1], e[2], e[3]>> /\ e[1] \in Users /\ e[2] \in Users /\ e[3] \in Dates
BY DEF VacayTypeOK

(* Moving the days of some users maps a user's days before onto those       *)
(* after; that no two become one is what the collision would have refused.  *)
LEMMA MovedDays ==
    ASSUME VacayTypeOK, IsFiniteSet(logged), NEW p \in Users, NEW q, NEW us, NEW u \in Users,
           logged' = Moved(p, q, us),
           u \in us => q[u] \in Users /\ (q[u] = p \/ ~Collides(p, q[u], u))
    PROVE  Cardinality(DaysOf(u)') = Cardinality(DaysOf(u))
<1> DEFINE Goes(e) == e[1] = p /\ u \in us
           To(e) == IF Goes(e) THEN <<q[u], u, e[3]>> ELSE e
           f == [e \in DaysOf(u) |-> To(e)]
<1>1. \A e \in DaysOf(u) : e \in logged /\ e[2] = u /\ e = <<e[1], u, e[3]>> /\ e[3] \in Dates
  BY DayParts DEF DaysOf
<1>2. DaysOf(u)' = {e \in Moved(p, q, us) : e[2] = u}
  BY DEF DaysOf
<1>3. \A e \in DaysOf(u) : To(e) \in DaysOf(u)'
  BY <1>1, <1>2 DEF Moved
<1>4. \A e \in DaysOf(u)' : \E d \in DaysOf(u) : To(d) = e
  <2> SUFFICES ASSUME NEW e \in DaysOf(u)' PROVE \E d \in DaysOf(u) : To(d) = e
    OBVIOUS
  <2>1. PICK d \in logged :
          /\ d[1] = p /\ d[2] \in us => e = <<q[d[2]], d[2], d[3]>>
          /\ ~(d[1] = p /\ d[2] \in us) => e = d
    BY <1>2, MovedFrom
  <2>2. d[2] = u
    BY <1>2, <2>1
  <2> QED
    BY <2>1, <2>2 DEF DaysOf
<1>5. ASSUME NEW d \in DaysOf(u), NEW e \in DaysOf(u), To(d) = To(e)
      PROVE  d = e
  <2>1. d[3] = e[3]
    BY <1>1, <1>5
  <2>2. ASSUME NEW a \in DaysOf(u), NEW b \in DaysOf(u), Goes(a), ~Goes(b), To(a) = To(b)
        PROVE  a = b
    <3>1. a = <<p, u, a[3]>> /\ b = <<q[u], u, a[3]>> /\ a[3] \in Dates
      BY <1>1, <2>2
    <3>2. a \in logged /\ b \in logged /\ u \in us
      BY <1>1, <2>2
    <3>3. q[u] = p
      BY <3>1, <3>2 DEF Collides
    <3> QED
      BY <3>1, <3>3
  <2>3. CASE Goes(d) /\ Goes(e)
    BY <1>1, <2>1, <2>3
  <2>4. CASE ~Goes(d) /\ ~Goes(e)
    BY <1>5, <2>4
  <2>5. CASE Goes(d) /\ ~Goes(e)
    BY <1>5, <2>2, <2>5
  <2>6. CASE ~Goes(d) /\ Goes(e)
    BY <1>5, <2>2, <2>6
  <2> QED
    BY <2>3, <2>4, <2>5, <2>6
<1>6. f \in Bijection(DaysOf(u), DaysOf(u)')
  <2> HIDE DEF To
  <2>1. f \in [DaysOf(u) -> DaysOf(u)']
    BY <1>3
  <2>2. f \in Injection(DaysOf(u), DaysOf(u)')
    BY <1>5, <2>1 DEF Injection, IsInjective
  <2>3. f \in Surjection(DaysOf(u), DaysOf(u)')
    BY <1>4, <2>1 DEF Surjection
  <2> QED
    BY <2>2, <2>3 DEF Bijection
<1>7. IsFiniteSet(DaysOf(u))
  BY FS_Subset DEF DaysOf
<1> QED
  <2> HIDE DEF f
  <2>1. ExistsBijection(DaysOf(u), DaysOf(u)')
    BY <1>6 DEF ExistsBijection
  <2> QED
    BY <1>7, <2>1, FS_Bijection

(* Three finite sets have finitely many triples. *)
LEMMA FiniteTriples ==
    ASSUME IsFiniteSet(Users), IsFiniteSet(Dates)
    PROVE  IsFiniteSet(Users \X Users \X Dates)
<1> DEFINE P == Users \X (Users \X Dates)
           T == Users \X Users \X Dates
           f == [e \in P |-> <<e[1], e[2][1], e[2][2]>>]
<1>1. IsFiniteSet(P)
  BY FS_Product
<1>2. f \in Surjection(P, T)
  <2>1. f \in [P -> T]
    OBVIOUS
  <2>2. ASSUME NEW t \in T
        PROVE  \E e \in P : f[e] = t
    <3>1. <<t[1], <<t[2], t[3]>>>> \in P
      OBVIOUS
    <3>2. f[<<t[1], <<t[2], t[3]>>>>] = t
      BY <3>1
    <3> QED
      BY <3>1, <3>2
  <2> QED
    BY <2>1, <2>2 DEF Surjection
<1> QED
  <2> HIDE DEF f
  <2> QED
    BY <1>1, <1>2, FS_Surjection

(* One request: whoever stays keeps the number of their days, unless the    *)
(* plan they were in is deleted with its owner.                             *)
LEMMA DaysKeptStep ==
    ASSUME VacayTypeOK, IsFiniteSet(logged), [VacayNext]_vacayVars, member' # member,
           NEW u \in users', \A e \in DaysOf(u) : e[1] \in users'
    PROVE  Cardinality(DaysOf(u)') = Cardinality(DaysOf(u))
<1>1. u \in Users
  BY VacayTypes DEF VacayTypeOK
<1>2. CASE logged' = logged
  BY <1>2 DEF DaysOf
<1>3. ASSUME NEW v \in Users, NEW p \in Users, Accept(v, p)
      PROVE  Cardinality(DaysOf(u)') = Cardinality(DaysOf(u))
  <2>1. CASE logged' = Moved(v, [w \in {v} |-> p], {v}) /\ ~Collides(v, p, v)
    BY <1>1, <2>1, MovedDays
  <2> QED
    BY <1>2, <1>3, <2>1 DEF Accept
<1>4. ASSUME NEW v \in Users, NEW p \in Users, Leave(v, p)
      PROVE  Cardinality(DaysOf(u)') = Cardinality(DaysOf(u))
  <2>1. logged' = Moved(p, [w \in {v} |-> v], {v}) /\ ~Collides(p, v, v)
    BY <1>4 DEF Leave
  <2> QED
    BY <1>1, <2>1, MovedDays
<1>5. ASSUME NEW v \in Users, DissolveOwned(v)
      PROVE  Cardinality(DaysOf(u)') = Cardinality(DaysOf(u))
  <2> DEFINE home == [w \in Users |-> w]
  <2>1. /\ logged' = Moved(v, home, Members(v))
        /\ \A w \in Members(v) \ {v} : ~Collides(v, w, w)
    BY <1>5 DEF DissolveOwned
  <2>2. \A w \in Users : home[w] = w
    OBVIOUS
  <2> QED
    <3> HIDE DEF home
    <3> QED
      BY <1>1, <2>1, <2>2, MovedDays
<1>6. ASSUME NEW v \in Users, DeleteUser(v)
      PROVE  Cardinality(DaysOf(u)') = Cardinality(DaysOf(u))
  <2>1. DaysOf(u)' = DaysOf(u)
    BY <1>6 DEF DeleteUser, DaysOf
  <2> QED
    BY <2>1
<1>7. CASE UNCHANGED vacayVars
  BY <1>7 DEF vacayVars
<1>8. CASE Logs
  BY <1>8 DEF Logs, ToggleEntry, ClearDates, HolidaysApplied
<1>9. ASSUME NEW v \in Users, NEW p \in Users, NEW w \in Users, Invite(v, p, w) \/ Withdraw(p, v)
      PROVE  Cardinality(DaysOf(u)') = Cardinality(DaysOf(u))
  BY <1>2, <1>9 DEF Invite, Withdraw
<1> QED
  BY <1>3, <1>4, <1>5, <1>6, <1>7, <1>8, <1>9 DEF VacayNext, Logs

(* Fusing, leaving and dissolving neither lose nor add a day, of finitely   *)
(* many users and dates.                                                    *)
THEOREM VacayDaysKept ==
    ASSUME IsFiniteSet(Users), IsFiniteSet(Dates)
    PROVE  VacaySpec => DaysKept
<1>1. ASSUME VacayInv, [VacayNext]_vacayVars, member' # member, NEW u \in users',
             \A e \in DaysOf(u) : e[1] \in users'
      PROVE  Cardinality(DaysOf(u)') = Cardinality(DaysOf(u))
  <2>1. VacayTypeOK /\ IsFiniteSet(logged)
    BY <1>1, FiniteTriples, FS_Subset DEF VacayInv, VacayTypeOK
  <2> QED
    BY <1>1, <2>1, DaysKeptStep
<1>2. VacayInv /\ [VacayNext]_vacayVars =>
        [member' # member =>
           \A u \in users' :
              (\A e \in DaysOf(u) : e[1] \in users') =>
                  Cardinality(DaysOf(u)') = Cardinality(DaysOf(u))]_vacayVars
  BY <1>1
<1> QED
  BY <1>2, VacayInvariant, PTL DEF VacaySpec, DaysKept

=============================================================================
