------------------------------- MODULE MCLead -------------------------------
(* A lead account with one holding and one exchange order, and one opening *)
(* order, for TLC.  A behaviour is eventful or faulty.  Eventful: the      *)
(* account changes while the stream connects, no call fails and no opening *)
(* order is new.  Faulty: the account is quiet, calls fail, connections    *)
(* break and an order is opened.  Events and opens meet in nothing but the *)
(* faults of the stream.                                                   *)
EXTENDS LeadSupervisor

Eventful ==
    /\ \A p \in Parts : account[p] = 0
    /\ \A o \in Opens : ledger[o] = "settled"
    /\ guard.latched
    /\ mishaps = MaxMishaps

Faulty ==
    /\ \A p \in Parts : account[p] = LastVersion(p)
    /\ \A o \in Opens : ledger[o] # "settled"
    /\ ~guard.latched
    /\ mishaps = 0

MCInit == LeadInit /\ (Eventful \/ Faulty)
MCSpec == MCInit /\ [][LeadNext]_vars /\ LeadFairness
=============================================================================
