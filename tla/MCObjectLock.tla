---------------------------- MODULE MCObjectLock ----------------------------
(* Four calls: two share a context (as a request and its task do). *)
EXTENDS ObjectLock

CONSTANTS k1, k2, k3, k4, a, b, c

MCCalls == {k1, k2, k3, k4}
MCContexts == {a, b, c}
MCCtxOf == [k \in MCCalls |-> IF k \in {k1, k2} THEN a ELSE IF k = k3 THEN b ELSE c]
=============================================================================
