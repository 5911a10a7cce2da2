----------------------------- MODULE Settlement -----------------------------
(***************************************************************************)
(* Who owes whom on a trip with one currency: the bills, their equal       *)
(* shares, the transfers recorded so far, and the greedy computation of    *)
(* the flows that square everyone up, one matched pair at a time.          *)
(*                                                                         *)
(* Amounts are cents.  The code has them as floats, so what is exactly one *)
(* cent may compare either way with the threshold 0.01, and equal amounts  *)
(* may be sorted in any order.                                             *)
(***************************************************************************)
EXTENDS Integers, Sequences, FiniteSets, SequencesExt

CONSTANTS
    MaxPersons,
    Totals,      \* totals of the bills, in cents
    MaxBills,    \* bills that are entered (bound)
    MaxTransfers \* transfers that are recorded (bound)

Persons == 1 .. MaxPersons

ASSUME SettlementAssumption == Totals \subseteq Nat \ {0} /\ MaxBills \in Nat

VARIABLES
    bills,      \* budget_items with their payers and members, by id
    moved,      \* per person: what it has sent less what it has received
    transfers,  \* budget_settlements entered so far
    debtors, creditors,
    amount,     \* per person: the amount left to match
    flows,
    loop        \* of the computation: off, on, over

computation == <<debtors, creditors, amount, flows, loop>>
settlementVars == <<bills, moved, transfers, computation>>

SettlementInit ==
    /\ bills = << >> /\ moved = [p \in Persons |-> 0] /\ transfers = 0
    /\ debtors = << >> /\ creditors = << >> /\ amount = [p \in Persons |-> 0]
    /\ flows = << >> /\ loop = "off"

(* splitEqualShares: the odd cents go to some members in a row. *)
Share(bill, id, p) ==
    LET n == Cardinality(bill.members)
        i == Cardinality({q \in bill.members : q < p})
        extra == (i - (id % n) + n) % n < bill.total % n
    IN  (bill.total \div n) + (IF extra THEN 1 ELSE 0)

(* A bill without members is a plan that no one owes. *)
Due(bill, id, p) ==
    IF bill.members = {} THEN 0
    ELSE (IF bill.payer = p THEN bill.total ELSE 0)
         - (IF p \in bill.members THEN Share(bill, id, p) ELSE 0)

Balance(p) ==
    moved[p] + FoldLeft(LAMBDA sum, id : sum + Due(bills[id], id, p), 0, [id \in DOMAIN bills |-> id])

-----------------------------------------------------------------------------

(* createBudgetItem; payer 0: nobody has paid the bill yet. *)
AddBill(payer, total, members) ==
    /\ Len(bills) < MaxBills
    /\ bills' = Append(bills, [payer |-> payer, total |-> total, members |-> members])
    /\ loop' = "off" /\ flows' = << >>
    /\ UNCHANGED <<moved, transfers, debtors, creditors, amount>>

Descending(list) == \A i, j \in DOMAIN list : i < j => amount'[list[i]] >= amount'[list[j]]

(* A list of all persons that are off by more than a cent, and of some who  *)
(* are off by one, the greatest amounts first.                              *)
Lists(off) ==
    UNION {SetToSeqs({p \in Persons : off[p] > 1} \cup some) :
             some \in SUBSET {p \in Persons : off[p] = 1}}

Calculate ==
    /\ loop = "off"
    /\ loop' = "on" /\ flows' = << >>
    /\ amount' = [p \in Persons |-> IF Balance(p) < 0 THEN 0 - Balance(p) ELSE Balance(p)]
    /\ debtors' \in Lists([p \in Persons |-> 0 - Balance(p)]) /\ Descending(debtors')
    /\ creditors' \in Lists([p \in Persons |-> Balance(p)]) /\ Descending(creditors')
    /\ UNCHANGED <<bills, moved, transfers>>

(* Mutant: both are passed after each match. *)
PassedAlways(list, left) == {Tail(list)}

(* The next debtor and creditor: a transfer above a cent is a flow, and who *)
(* has less than a cent left is passed.                                     *)
Passed(list, left) ==
    IF left > 1 THEN {list} ELSE {Tail(list)} \cup (IF left = 1 THEN {list} ELSE {})

Match ==
    /\ loop = "on" /\ debtors # << >> /\ creditors # << >>
    /\ LET d == Head(debtors)
           c == Head(creditors)
           transfer == IF amount[d] < amount[c] THEN amount[d] ELSE amount[c]
       IN  /\ amount' = [amount EXCEPT ![d] = @ - transfer, ![c] = @ - transfer]
           /\ \/ flows' = Append(flows, [from |-> d, to |-> c, amount |-> transfer])
              \/ transfer = 1 /\ UNCHANGED flows
           /\ debtors' \in Passed(debtors, amount'[d])
           /\ creditors' \in Passed(creditors, amount'[c])
    /\ UNCHANGED <<bills, moved, transfers, loop>>

Calculated ==
    /\ loop = "on" /\ (debtors = << >> \/ creditors = << >>)
    /\ loop' = "over" /\ debtors' = << >> /\ creditors' = << >>
    /\ amount' = [p \in Persons |-> 0]
    /\ UNCHANGED <<bills, moved, transfers, flows>>

(* createSettlement, for one of the flows shown. *)
SettleUp(k) ==
    /\ loop = "over" /\ transfers < MaxTransfers
    /\ k \in DOMAIN flows
    /\ transfers' = transfers + 1
    /\ moved' = [moved EXCEPT ![flows[k].from] = @ + flows[k].amount,
                              ![flows[k].to] = @ - flows[k].amount]
    /\ loop' = "off" /\ flows' = << >>
    /\ UNCHANGED <<bills, debtors, creditors, amount>>

SettlementNext ==
    \/ loop # "on" /\ \E payer \in Persons \cup {0}, total \in Totals, members \in SUBSET Persons :
                         AddBill(payer, total, members)
    \/ Calculate \/ Match \/ Calculated
    \/ \E k \in 1 .. MaxPersons : SettleUp(k)

SettlementSpec == SettlementInit /\ [][SettlementNext]_settlementVars

-----------------------------------------------------------------------------
(* Properties. *)

Paid(p) == FoldLeft(LAMBDA sum, f : sum + (IF f.from = p THEN f.amount ELSE 0)
                                        - (IF f.to = p THEN f.amount ELSE 0), 0, flows)

(* When every bill has a payer, paying all the flows shown squares the trip *)
(* up: nobody is then off by more than a cent for each other person, and    *)
(* fewer payments than persons do it.                                       *)
SettlesUp ==
    loop = "over" /\ (\A id \in DOMAIN bills : bills[id].payer # 0) =>
        /\ \A p \in Persons : Balance(p) + Paid(p) \in (1 - MaxPersons) .. (MaxPersons - 1)
        /\ flows # << >> => Len(flows) < MaxPersons

=============================================================================
