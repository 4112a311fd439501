-------------------------- MODULE MCCentralLeader --------------------------
(* Registries and health reports for the runs of CentralLeader. *)
EXTENDS CentralLeader, TLC

CONSTANTS a1, a2, r1, r2, t1, t2

Pools(seq) == [tier \in Tiers |-> seq]

\* The registry may be reduced to one account between two processes.
TwoRegistries == {Pools(<<a1, a2>>), Pools(<<a2>>)}

\* The failover model works with the first account only; a file that cannot be
\* read.
SomeReports == {[ULTRA |-> {a1, a2}, SUPER |-> {a1}], Unreadable}

OwnTask == r1 :> t1 @@ r2 :> t2

=============================================================================
