------------------------ MODULE MCSupplierLifecycle ------------------------
(* Three deployments of SupplierLifecycle small enough for TLC.            *)
EXTENDS SupplierLifecycle

CONSTANTS c1, w1, k1, n1, n2, n3, none,
          SyncDeletes, MovedFaults   \* bounds of the deployments below

Leaves == [n \in Namespace |-> IF n = n1 THEN "own" ELSE "shared"]

Sync  == INSTANCE SupplierLifecycle WITH QueueMode <- FALSE, MaxDeletes <- SyncDeletes
Moved == INSTANCE SupplierLifecycle WITH MaxDeletes <- 0, MaxMoved <- 2, MaxFaults <- MovedFaults

VARIABLE deployment

MCInit == Init /\ deployment \in {"queue", "sync", "moved"}

(* All rows name one namespace, one after the other.                       *)
OneNamespace == \A r \in Row : supplier'[r] \in {n1, NoNamespace}

MCNext ==
  /\ UNCHANGED deployment
  /\ \/ deployment = "queue" /\ Next /\ OneNamespace
     \/ deployment = "sync" /\ Sync!Next /\ OneNamespace
     \/ deployment = "moved" /\ Moved!Next

MCApi(c)  == IF deployment = "sync" THEN Sync!Api(c) ELSE Api(c)
MCWork(w) == IF deployment = "sync" THEN Sync!Work(w) ELSE Work(w)

MCSpec ==
  /\ MCInit
  /\ [][MCNext]_<<vars, deployment>>
  /\ \A c \in Caller : WF_vars(MCApi(c))
  /\ \A w \in Worker : WF_vars(MCWork(w))
=============================================================================
