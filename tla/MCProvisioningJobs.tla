------------------------ MODULE MCProvisioningJobs ------------------------
(***************************************************************************)
(* Two deployments in one run: PROVISION_MODE = "queue", as the constants  *)
(* say, and the default, in which API calls run their jobs inline beside   *)
(* one worker, w1, that claims whatever is pending.                        *)
(***************************************************************************)
EXTENDS ProvisioningJobs, TLC

CONSTANTS c1, w1, w2, j1, j2, SyncFaults

(* Steps of provisionApplication, one of each kind.                        *)
AllKinds == <<"vault", "record", "upsert", "read">>

Sync == INSTANCE ProvisioningJobs WITH QueueMode <- FALSE, MaxFaults <- SyncFaults

VARIABLE mode

MCInit == Init /\ mode \in {"queue", "sync"}

MCNext ==
  /\ UNCHANGED mode
  /\ \/ mode = "queue" /\ Next
     \/ mode = "sync" /\ Sync!Next /\ \A w \in Worker \ {w1} : runner'[w] = Idle

MCWorker(w) ==
  \/ mode = "queue" /\ (WorkerLoop(w) \/ StepRunner(w))
  \/ mode = "sync" /\ w = w1 /\ (Sync!WorkerLoop(w) \/ Sync!StepRunner(w))

MCSpec ==
  /\ MCInit
  /\ [][MCNext]_<<vars, mode>>
  /\ \A w \in Worker : WF_vars(MCWorker(w))
  /\ \A c \in Caller : WF_vars(StepRunner(c))
=============================================================================
