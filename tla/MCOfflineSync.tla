--------------------------- MODULE MCOfflineSync ----------------------------
(* Small instances of OfflineSync for TLC. *)
EXTENDS OfflineSync, TLC

NoFaults == [f \in Faults |-> 0]

(* One offline trip: edits, then the network comes back, with outside      *)
(* edits, timeouts and denials on the way.                                 *)
TripLimit == [NoFaults EXCEPT !["collab"] = 1, !["giveUp"] = 1, !["deny"] = 1]
DrainLimit == [NoFaults EXCEPT !["collab"] = 1, !["giveUp"] = 1, !["deny"] = 1, !["offline"] = 1]
FaultsLimit == [f \in Faults |-> IF f \in {"collab", "offline"} THEN 0 ELSE 1]
TabsLimit == [NoFaults EXCEPT !["giveUp"] = 1]
TabSymmetry == Permutations(Tabs)
ReloadLimit == [NoFaults EXCEPT !["reload"] = 1]
BackOfflineLimit == [NoFaults EXCEPT !["offline"] = 1]
ReloadCollabLimit == [NoFaults EXCEPT !["reload"] = 1, !["collab"] = 1]
=============================================================================
