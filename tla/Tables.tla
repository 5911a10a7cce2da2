------------------------------- MODULE Tables -------------------------------
(***************************************************************************)
(* Tables: functions on a set of ids or keys.  The tables of SQLite and of *)
(* IndexedDB, and the Maps of the client, are such functions.              *)
(***************************************************************************)
EXTENDS Functions

Empty == << >>

IsTable(f, S, T) == DOMAIN f \subseteq S /\ f \in [DOMAIN f -> T]

(* put: insert or replace. *)
Put(f, x, y) == [z \in DOMAIN f \cup {x} |-> IF z = x THEN y ELSE f[z]]

(* bulkPut: the entries of g, and those of f that g does not replace. *)
PutAll(f, g) == [z \in DOMAIN f \cup DOMAIN g |-> IF z \in DOMAIN g THEN g[z] ELSE f[z]]

(* Dexie's update: nothing happens when there is no such entry. *)
Amend(f, x, y) == IF x \in DOMAIN f THEN [f EXCEPT ![x] = y] ELSE f

Without(f, S) == Restrict(f, DOMAIN f \ S)
=============================================================================
