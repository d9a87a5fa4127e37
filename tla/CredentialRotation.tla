------------------------- MODULE CredentialRotation -------------------------
(***************************************************************************)
(* One process's Vault token and database credential.  Vault Agent renders *)
(* both to files; directory-watch callbacks and a timer read them again,   *)
(* swap the connection pool and verify the token, and readiness looks up   *)
(* the lease of the credential on record (vault.js, db.js,                 *)
(* routes/health.js).                                                      *)
(*                                                                         *)
(* Credentials and tokens are numbered in the order they are issued.       *)
(* What every specification has - Init, Next, Spec - is named for the      *)
(* rotation here, for DesiredState to be extended beside it.               *)
(***************************************************************************)
EXTENDS Naturals

CONSTANTS
  Query,      \* connection holders: single queries and transactions
  Call,       \* bound: calls of reconcileDbCredsFile under way at once
  MaxCreds,   \* bound: database credentials issued
  MaxTokens,  \* bound: tokens issued
  MaxFaults   \* bound: failed reads and failed requests to Vault

ASSUME RotationConstants ==
  /\ {MaxCreds, MaxTokens} \subseteq Nat \ {0}
  /\ MaxFaults \in Nat

Cred  == 1..MaxCreds
Token == 1..MaxTokens

VARIABLES
  credsFile,      \* what db-creds.json holds
  pool,           \* the credential of db.js's pool
  using,          \* queries that hold a client of that pool
  reconcile,      \* reconcileDbCredsFile, by call
  dbCreds,        \* state.dbCreds and state.dbCredsLeaseId
  rotationError,  \* state.lastDbRotationError is set
  tokenFile,      \* what the token file holds
  token,          \* state.token
  authenticated,  \* state.authenticated
  valid,          \* tokens Vault accepts
  verify,         \* token verifyTokenLive has sent, 0 when it is not running
  lease,          \* leaseTtlCache: whose TTL it holds, younger than 30 s or not
  lookup,         \* lease a readiness probe is looking up, 0 when none is
  faults

db           == <<credsFile, pool, using, reconcile, dbCreds, rotationError>>
auth         == <<tokenFile, token, authenticated, valid, verify>>
probing      == <<lease, lookup>>
rotationVars == <<db, auth, probing, faults>>

(***************************************************************************)
(* A call that has swapped the pool waits, in old.end(), for the queries   *)
(* that still hold clients of the old one, and then records what it read.  *)
(***************************************************************************)
CallState == [pc : {"idle", "drain"}, next : Cred, waits : SUBSET Query]
IdleCall  == [pc |-> "idle", next |-> 1, waits |-> {}]

Fault == faults < MaxFaults /\ faults' = faults + 1

-----------------------------------------------------------------------------
(* Vault, its Agent, and the queries of the process                        *)

RenderCreds ==
  /\ credsFile < MaxCreds
  /\ credsFile' = credsFile + 1
  /\ UNCHANGED <<pool, using, reconcile, dbCreds, rotationError, auth, probing, faults>>

RenderToken ==
  /\ tokenFile < MaxTokens
  /\ tokenFile' = tokenFile + 1
  /\ valid' = valid \cup {tokenFile + 1}
  /\ UNCHANGED <<token, authenticated, verify, db, probing, faults>>

TokenExpires(t) ==
  /\ t \in valid
  /\ valid' = valid \ {t}
  /\ UNCHANGED <<tokenFile, token, authenticated, verify, db, probing, faults>>

Holds(q) == q \in using \/ \E c \in Call : q \in reconcile[c].waits

(* query and withTransaction take the pool that is current.                *)
BeginQuery(q) ==
  /\ ~Holds(q)
  /\ using' = using \cup {q}
  /\ UNCHANGED <<credsFile, pool, reconcile, dbCreds, rotationError, auth, probing, faults>>

EndQuery(q) ==
  /\ Holds(q)
  /\ using' = using \ {q}
  /\ reconcile' = [c \in Call |-> [reconcile[c] EXCEPT !.waits = @ \ {q}]]
  /\ UNCHANGED <<credsFile, pool, dbCreds, rotationError, auth, probing, faults>>

-----------------------------------------------------------------------------
(* reconcileTokenFile, reconcileDbCredsFile, verifyTokenLive               *)

RereadToken ==
  /\ token' = tokenFile
  /\ authenticated' = (authenticated \/ tokenFile # token)
  /\ UNCHANGED <<tokenFile, valid>>

(***************************************************************************)
(* Nothing runs between the read and the swap: db.js is loaded, so the     *)
(* import takes no turn of the event loop.  The file is compared with the  *)
(* credential on record, not with the pool's.                              *)
(***************************************************************************)
RereadCreds(c) ==
  /\ reconcile[c].pc = "idle"
  /\ IF credsFile = dbCreds
     THEN UNCHANGED <<pool, using, reconcile>>
     ELSE /\ pool' = credsFile
          /\ using' = {}
          /\ reconcile' = [reconcile EXCEPT ![c] =
               [pc |-> "drain", next |-> credsFile, waits |-> using]]
  /\ UNCHANGED <<credsFile, dbCreds, rotationError>>

(* The watch callback: the file it names, or both when it names none.      *)
Watch(c) ==
  /\ \/ RereadToken /\ UNCHANGED db
     \/ RereadCreds(c) /\ UNCHANGED <<tokenFile, token, authenticated, valid>>
     \/ RereadToken /\ RereadCreds(c)
  /\ UNCHANGED <<verify, probing, faults>>

TickLeavesCreds(c) ==                            \* mutant: only the watch rereads
  /\ RereadToken
  /\ verify = 0
  /\ verify' = tokenFile
  /\ UNCHANGED <<db, probing, faults>>

(* setInterval; a verification has long been answered by the next tick.    *)
Tick(c) ==
  /\ RereadToken
  /\ RereadCreds(c)
  /\ verify = 0
  /\ verify' = tokenFile
  /\ UNCHANGED <<probing, faults>>

(* db-creds.json cannot be read or is not complete, in a callback or on a  *)
(* tick.                                                                   *)
ReadFails ==
  /\ Fault
  /\ rotationError' = TRUE
  /\ \/ UNCHANGED auth
     \/ RereadToken /\ verify = 0 /\ verify' = tokenFile
  /\ UNCHANGED <<credsFile, pool, using, reconcile, dbCreds, probing>>

(* The token file cannot be read: the tick verifies the token held.        *)
TokenReadFails(c) ==
  /\ Fault
  /\ RereadCreds(c)
  /\ verify = 0
  /\ verify' = token
  /\ UNCHANGED <<tokenFile, token, authenticated, valid, probing>>

RecordAndSwap(c) ==                              \* mutant: the pool after the drain
  /\ reconcile[c].pc = "drain"
  /\ reconcile[c].waits = {}
  /\ pool' = reconcile[c].next
  /\ dbCreds' = reconcile[c].next
  /\ rotationError' = FALSE
  /\ reconcile' = [reconcile EXCEPT ![c] = IdleCall]
  /\ UNCHANGED <<credsFile, using, auth, probing, faults>>

RecordFile(c) ==                                 \* mutant: what the file holds by then
  /\ reconcile[c].pc = "drain"
  /\ reconcile[c].waits = {}
  /\ dbCreds' = credsFile
  /\ rotationError' = FALSE
  /\ reconcile' = [reconcile EXCEPT ![c] = IdleCall]
  /\ UNCHANGED <<credsFile, pool, using, auth, probing, faults>>

(* The old pool has ended.  Calls may get here in another order than they  *)
(* swapped.                                                                *)
Record(c) ==
  /\ reconcile[c].pc = "drain"
  /\ reconcile[c].waits = {}
  /\ dbCreds' = reconcile[c].next
  /\ rotationError' = FALSE
  /\ reconcile' = [reconcile EXCEPT ![c] = IdleCall]
  /\ UNCHANGED <<credsFile, pool, using, auth, probing, faults>>

(* Vault's verdict on the token that was sent counts for the one held now. *)
Verified ==
  /\ verify # 0
  /\ verify' = 0
  /\ authenticated' = (verify \in valid)
  /\ UNCHANGED <<tokenFile, token, valid, db, probing, faults>>

(* Any answer but a verdict, or none within the timeout.                   *)
VerifyFails ==
  /\ verify # 0
  /\ Fault
  /\ verify' = 0
  /\ UNCHANGED <<tokenFile, token, authenticated, valid, db, probing>>

-----------------------------------------------------------------------------
(* checkDbLeaseTtl, called by the readiness probe                          *)

Probe ==
  /\ lookup = 0
  /\ ~lease.fresh
  /\ lookup' = dbCreds
  /\ UNCHANGED <<lease, db, auth, faults>>

LeaseAnswer ==
  /\ lookup # 0
  /\ lookup' = 0
  /\ lease' = [of |-> lookup, fresh |-> TRUE]
  /\ UNCHANGED <<db, auth, faults>>

CacheAges ==
  /\ lease.fresh
  /\ lease' = [lease EXCEPT !.fresh = FALSE]
  /\ UNCHANGED <<lookup, db, auth, faults>>

-----------------------------------------------------------------------------
(* vaultInit and dbInit, with the files rendered                           *)
RotationInit ==
  /\ credsFile = 1
  /\ pool = 1
  /\ using = {}
  /\ reconcile = [c \in Call |-> IdleCall]
  /\ dbCreds = 1
  /\ rotationError = FALSE
  /\ tokenFile = 1
  /\ token = 1
  /\ authenticated = TRUE
  /\ valid = {1}
  /\ verify = 0
  /\ lease = [of |-> 1, fresh |-> FALSE]
  /\ lookup = 0
  /\ faults = 0

RotationNext ==
  \/ RenderCreds
  \/ RenderToken
  \/ \E t \in Token : TokenExpires(t)
  \/ \E q \in Query : BeginQuery(q) \/ EndQuery(q)
  \/ \E c \in Call : Watch(c) \/ Tick(c) \/ TokenReadFails(c) \/ Record(c)
  \/ ReadFails
  \/ Verified
  \/ VerifyFails
  \/ Probe
  \/ LeaseAnswer
  \/ CacheAges

RotationSpec == RotationInit /\ [][RotationNext]_rotationVars

(***************************************************************************)
(* The timer fires, requests to Vault end by their timeout, queries and    *)
(* drains end, time passes.  No watch callback is relied upon.             *)
(***************************************************************************)
Fairness ==
  /\ WF_rotationVars(\E c \in Call : Tick(c))
  /\ \A c \in Call : WF_rotationVars(Record(c))
  /\ \A q \in Query : WF_rotationVars(EndQuery(q))
  /\ WF_rotationVars(Verified)
  /\ WF_rotationVars(LeaseAnswer)
  /\ WF_rotationVars(CacheAges)

LiveSpec == RotationSpec /\ Fairness

-----------------------------------------------------------------------------
(* Type correctness.                                                       *)
RotationTypeOK ==
  /\ credsFile \in Cred
  /\ pool \in Cred
  /\ using \subseteq Query
  /\ reconcile \in [Call -> CallState]
  /\ dbCreds \in Cred
  /\ rotationError \in BOOLEAN
  /\ tokenFile \in Token
  /\ token \in Token
  /\ authenticated \in BOOLEAN
  /\ valid \subseteq Token
  /\ verify \in 0..MaxTokens
  /\ lease \in [of : Cred, fresh : BOOLEAN]
  /\ lookup \in 0..MaxCreds
  /\ faults \in 0..MaxFaults

(***************************************************************************)
(* The credential on record never runs ahead of the pool's.  The decision  *)
(* that there is nothing to do looks at the record alone; were it ahead,   *)
(* the pool would keep a credential that expires.                          *)
(***************************************************************************)
RecordNotAheadOfPool ==
  /\ dbCreds <= pool
  /\ pool <= credsFile
  /\ credsFile = dbCreds => pool = credsFile

(***************************************************************************)
(* Overlapping rotations never put an older credential back into the pool. *)
(***************************************************************************)
PoolNeverStepsBack == [][pool' >= pool]_rotationVars

(***************************************************************************)
(* Once nothing new is issued, pool, record and token are those on file,   *)
(* authenticated says what Vault would say, and readiness no longer judges *)
(* by the lease of a credential that has been replaced: without any watch  *)
(* callback, whatever overlapped, and after late answers.                  *)
(***************************************************************************)
Current ==
  /\ pool = credsFile
  /\ dbCreds = credsFile
  /\ token = tokenFile
  /\ authenticated = (token \in valid)
  /\ lease.fresh => lease.of = credsFile

Settles == <>[]Current
=============================================================================
