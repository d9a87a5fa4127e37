--------------------------- MODULE KeyDestruction ---------------------------
(***************************************************************************)
(* What governed destruction promises, with no processes, locks, versions  *)
(* or triggers: key material disappears only on behalf of a request that   *)
(* is approved and not yet executed, and a request is marked executed only *)
(* while it is approved and once the material it was filed against is      *)
(* gone.  DestroyGovernance implements it.                                 *)
(***************************************************************************)
EXTENDS Naturals

CONSTANTS Key, NoKey, Request

VARIABLES
  incarnation,  \* how often each key name has been created
  existing,     \* keys whose current incarnation still exists
  request,      \* per request: the key and incarnation it targets, its verdict
  executed      \* requests marked executed

vars == <<incarnation, existing, request, executed>>

Verdict == {"pending", "approved", "rejected"}

Unfiled == [verdict |-> "none", key |-> NoKey, target |-> 0]

Exists(k, gen) == k \in existing /\ incarnation[k] = gen

Init ==
  /\ incarnation = [k \in Key |-> 1]
  /\ existing    = Key
  /\ request     = [r \in Request |-> Unfiled]
  /\ executed    = {}

Create(k) ==
  /\ k \notin existing
  /\ incarnation' = [incarnation EXCEPT ![k] = @ + 1]
  /\ existing'    = existing \cup {k}
  /\ UNCHANGED <<request, executed>>

(* target 0: filed without having seen the key.                            *)
File(r, k, target) ==
  /\ request[r] = Unfiled
  /\ target <= incarnation[k]
  /\ request' = [request EXCEPT ![r] =
                   [verdict |-> "pending", key |-> k, target |-> target]]
  /\ UNCHANGED <<incarnation, existing, executed>>

(* A verdict may be overwritten at any time, even after the execution.     *)
Decide(r, verdict) ==
  /\ request[r].verdict # "none"
  /\ request' = [request EXCEPT ![r].verdict = verdict]
  /\ UNCHANGED <<incarnation, existing, executed>>

InForce(r) == request[r].verdict = "approved" /\ r \notin executed

Destroy(r) ==
  /\ InForce(r)
  /\ request[r].target # 0
  /\ request[r].key \in existing
  /\ existing' = existing \ {request[r].key}
  /\ UNCHANGED <<incarnation, request, executed>>

Execute(r) ==
  /\ InForce(r)
  /\ ~Exists(request[r].key, request[r].target)
  /\ executed' = executed \cup {r}
  /\ UNCHANGED <<incarnation, existing, request>>

Next ==
  \/ \E k \in Key : Create(k)
  \/ \E r \in Request, k \in Key :
       \E target \in 0..incarnation[k] : File(r, k, target)
  \/ \E r \in Request : \E verdict \in Verdict : Decide(r, verdict)
  \/ \E r \in Request : Destroy(r) \/ Execute(r)

Spec == Init /\ [][Next]_vars
=============================================================================
