------------------------------- MODULE MCWork -------------------------------
(* A service and the works of two repositories that call it.               *)
EXTENDS WorkImpact
CONSTANTS api, admin, mobile
MCWorks     == {api, admin, mobile}
MCConsumers == [w \in MCWorks |-> IF w = api THEN {admin, mobile} ELSE {}]
=============================================================================
