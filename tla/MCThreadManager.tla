--------------------------- MODULE MCThreadManager ---------------------------
(***************************************************************************)
(* ThreadManager on a chain of three tasks, linked like ObserverIncoming,  *)
(* Processing and Result, and one lambda task.                             *)
(***************************************************************************)
EXTENDS ThreadManager

CONSTANTS oi, pt, rt, lam, manager

MCChain == <<oi, pt, rt>>
MCLambdas == {lam}
MCTargets == [t \in {oi, pt, rt, lam} |->
                IF t = oi THEN {pt} ELSE IF t = pt THEN {rt} ELSE {}]
=============================================================================
