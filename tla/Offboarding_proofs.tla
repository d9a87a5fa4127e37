-------------------------- MODULE Offboarding_proofs --------------------------
(***************************************************************************)
(* Proofs about Offboarding, for any number of keys, policies, requests,   *)
(* calls and sweeping workers.                                             *)
(***************************************************************************)
EXTENDS Offboarding, TLAPS

RequestRecord ==
  [verdict : {"none"} \cup Governed!Verdict, key : Key \cup {NoKey}, target : Nat]

DestructionTyped ==
  /\ incarnation \in [Key -> Nat]
  /\ \A k \in Key : incarnation[k] >= 1
  /\ existing \subseteq Key
  /\ request \in [Request -> RequestRecord]
  /\ executed \subseteq Request

(***************************************************************************)
(* What a request says: it is about a key that existed at most as often as *)
(* its target tells; when it is executed that key has been gone; and every *)
(* rejection is remembered.                                                *)
(***************************************************************************)
RequestHonest(r) ==
  /\ request[r].verdict # "none" =>
       /\ request[r].key \in Key
       /\ request[r].target <= incarnation[request[r].key]
  /\ r \in executed => request[r].verdict # "none" /\ OnceGone(request[r].key)
  /\ request[r].verdict = "rejected" => r \in denied
  /\ r \in denied => request[r].verdict # "none"

(* Why a row about key k may be archived.                                  *)
Justified(k) ==
  \/ OnceGone(k)
  \/ k \in Unrecorded
  \/ \E r \in denied : request[r].key = k

(* A call that comes to archive a row has a reason that still stands.      *)
HasReason(x) ==
  /\ process[x].pc \in {"file", "archive", "tombstone"} => process[x].row \in Policy
  /\ process[x].pc \in {"archive", "tombstone"} => Justified(KeyOf[process[x].row])

(* Rows that are there from the start do not become absent.                *)
EarlyRowsStay == \A p \in Policy \ LatePolicy : ds[p] # "absent"

(***************************************************************************)
(* A check that has found everything resolved so far has archived every    *)
(* row it is not still going to look at.                                   *)
(***************************************************************************)
NothingSkipped(x) ==
  process[x].pc \in {"check", "tombstone"} /\ process[x].all =>
    \A p \in Policy \ LatePolicy : ds[p] = "archived" \/ p \in process[x].todo

Inv ==
  /\ TypeOK
  /\ DestructionTyped
  /\ \A r \in Request : RequestHonest(r)
  /\ \A x \in Process : HasReason(x) /\ NothingSkipped(x)
  /\ EarlyRowsStay
  /\ TombstoneJustified
  /\ OffboardedLeavesNoRow

-----------------------------------------------------------------------------
LEMMA IdleIsIdle == Idle \in ProcessState /\ Idle.pc = "idle"
  BY DEF Idle, ProcessState

LEMMA InitInv == Init => Inv
<1> SUFFICES ASSUME Init PROVE Inv
  OBVIOUS
<1>1. process \in [Process -> ProcessState] /\ \A x \in Process : process[x].pc = "idle"
  BY IdleIsIdle DEF Init
<1>2. decisions \in 0..MaxDecisions /\ faults \in 0..MaxFaults
  BY ConstantsAssumption DEF Init
<1>3. ds \in [Policy -> {"absent", "live", "archived"}]
  BY DEF Init
<1>4. TypeOK
  BY <1>1, <1>2, <1>3 DEF Init, TypeOK
<1>5. DestructionTyped
  BY DEF Init, Governed!Init, Governed!Unfiled, DestructionTyped, RequestRecord
<1>6. \A r \in Request : RequestHonest(r)
  BY DEF Init, Governed!Init, Governed!Unfiled, RequestHonest
<1>7. \A x \in Process : HasReason(x) /\ NothingSkipped(x)
  BY <1>1 DEF HasReason, NothingSkipped
<1>8. EarlyRowsStay /\ TombstoneJustified /\ OffboardedLeavesNoRow
  BY ConstantsAssumption DEF Init, EarlyRowsStay, TombstoneJustified, OffboardedLeavesNoRow
<1> QED
  BY <1>4, <1>5, <1>6, <1>7, <1>8 DEF Inv

-----------------------------------------------------------------------------
(***************************************************************************)
(* The environment.  Whatever it does, a reason to archive a row stands:   *)
(* a key that was gone has been gone, and a refusal is not forgotten.      *)
(***************************************************************************)
ReasonsStand == \A k \in Key : Justified(k) => Justified(k)'

LEMMA EnvironmentFrame ==
  ASSUME Inv, ReasonsStand, DestructionTyped', \A r \in Request : RequestHonest(r)',
         UNCHANGED <<ds, stage, process, faults>>,
         denied' \subseteq Request, decisions' \in 0..MaxDecisions
  PROVE  Inv'
<1>1. TypeOK'
  BY DEF Inv, TypeOK
<1>2. \A p \in Policy : KeyOf[p] \in Key
  BY ConstantsAssumption
<1>3. \A x \in Process : HasReason(x)' /\ NothingSkipped(x)'
  BY <1>2 DEF Inv, HasReason, NothingSkipped, ReasonsStand
<1>4. TombstoneJustified'
  BY <1>2 DEF Inv, TombstoneJustified, ReasonsStand, Justified
<1> QED
  BY <1>1, <1>3, <1>4 DEF Inv, EarlyRowsStay, OffboardedLeavesNoRow

(* requestKeyDestroy: a new row, and nothing else.                         *)
LEMMA FilingIsHonest ==
  ASSUME Inv, NEW r \in Request, NEW k \in Key, requestKeyDestroy(r, k), UNCHANGED denied
  PROVE  /\ DestructionTyped' /\ ReasonsStand
         /\ \A q \in Request : RequestHonest(q)'
<1> USE DEF Inv
<1>1. PICK target \in Nat :
        /\ request[r] = Governed!Unfiled
        /\ target <= incarnation[k]
        /\ request' = [request EXCEPT ![r] =
                         [verdict |-> "pending", key |-> k, target |-> target]]
        /\ UNCHANGED <<incarnation, existing, executed>>
  BY DEF requestKeyDestroy, NextRow, Governed!File, DestructionTyped
<1>2. request[r].verdict = "none" /\ r \notin denied /\ r \notin executed
  BY <1>1 DEF Governed!Unfiled, RequestHonest
<1>3. DestructionTyped'
  BY <1>1 DEF DestructionTyped, RequestRecord, Governed!Verdict
<1>4. \A q \in Request \ {r} : request'[q] = request[q]
  BY <1>1 DEF DestructionTyped
<1>5. request'[r] = [verdict |-> "pending", key |-> k, target |-> target]
  BY <1>1 DEF DestructionTyped
<1>6. \A q \in Request : RequestHonest(q)'
  BY <1>1, <1>2, <1>4, <1>5 DEF RequestHonest, OnceGone
<1>7. ReasonsStand
  BY <1>1, <1>2, <1>4 DEF ReasonsStand, Justified, OnceGone, TypeOK
<1> QED
  BY <1>3, <1>6, <1>7

LEMMA EnvironmentKeepsInv ==
  ASSUME Inv, Environment
  PROVE  Inv'
<1> USE DEF Inv
<1>t. TypeOK /\ DestructionTyped
  OBVIOUS
<1>1. CASE \E k \in Key : CreateKey(k)
  <2>1. PICK k \in Key :
          /\ k \notin existing
          /\ incarnation' = [incarnation EXCEPT ![k] = @ + 1]
          /\ existing' = existing \cup {k}
          /\ UNCHANGED <<request, executed, ds, stage, process, denied, decisions, faults>>
    BY <1>1 DEF CreateKey, Governed!Create, ghosts
  <2>2. /\ incarnation'[k] = incarnation[k] + 1 /\ incarnation[k] \in Nat
        /\ \A j \in Key \ {k} : incarnation'[j] = incarnation[j]
    BY <2>1, <1>t DEF DestructionTyped
  <2>3. DestructionTyped'
    BY <2>1, <2>2, <1>t DEF DestructionTyped
  <2>4. \A j \in Key : OnceGone(j) => OnceGone(j)'
    BY <2>1, <2>2, <1>t DEF OnceGone, DestructionTyped
  <2>5. \A j \in Key : incarnation[j] \in Nat /\ incarnation'[j] >= incarnation[j]
    BY <2>2, <1>t DEF DestructionTyped
  <2>6. ASSUME NEW r \in Request PROVE RequestHonest(r)'
    <3>1. request[r].target \in Nat /\ (incarnation' \in [Key -> Nat])
      BY <1>t, <2>3 DEF DestructionTyped, RequestRecord
    <3> QED
      BY <2>1, <2>4, <2>5, <3>1 DEF RequestHonest
  <2>7. ReasonsStand
    BY <2>1, <2>4 DEF ReasonsStand, Justified
  <2> QED
    BY <2>1, <2>3, <2>6, <2>7, <1>t, EnvironmentFrame DEF TypeOK
<1>2. CASE \E r \in Request, verdict \in {"approved", "rejected"} : Decide(r, verdict)
  <2>1. PICK r \in Request, verdict \in {"approved", "rejected"} : Decide(r, verdict)
    BY <1>2
  <2>2. /\ request[r].verdict # "none"
        /\ request' = [request EXCEPT ![r].verdict = verdict]
        /\ denied' = IF verdict = "rejected" THEN denied \cup {r} ELSE denied
        /\ UNCHANGED <<incarnation, existing, executed, ds, stage, process, faults>>
    BY <2>1 DEF Decide, Governed!Decide
  <2>3. /\ request'[r].verdict = verdict
        /\ \A q \in Request : /\ request'[q].key = request[q].key
                              /\ request'[q].target = request[q].target
                              /\ q # r => request'[q] = request[q]
    BY <2>2, <1>t DEF DestructionTyped, RequestRecord
  <2>4. DestructionTyped'
    BY <2>2, <1>t DEF DestructionTyped, RequestRecord, Governed!Verdict
  <2>5. \A q \in Request : RequestHonest(q)'
    BY <2>2, <2>3 DEF RequestHonest, OnceGone
  <2>6. denied' \subseteq Request /\ denied \subseteq denied'
    BY <2>2, <1>t DEF TypeOK
  <2>7. ReasonsStand
    BY <2>2, <2>3, <2>6, <1>t DEF ReasonsStand, Justified, OnceGone, TypeOK
  <2>8. decisions' \in 0..MaxDecisions
    BY <2>1, <1>t, ConstantsAssumption DEF Decide, TypeOK
  <2> QED
    BY <2>2, <2>4, <2>5, <2>6, <2>7, <2>8, EnvironmentFrame
<1>3. CASE \E r \in Request : DestroyKey(r)
  <2>1. PICK r \in Request :
          /\ existing' = existing \ {request[r].key}
          /\ UNCHANGED <<incarnation, request, executed, ds, stage, process,
                         denied, decisions, faults>>
    BY <1>3 DEF DestroyKey, Governed!Destroy, ghosts
  <2>2. \A j \in Key : OnceGone(j) => OnceGone(j)'
    BY <2>1 DEF OnceGone
  <2>3. DestructionTyped'
    BY <2>1, <1>t DEF DestructionTyped
  <2>4. \A q \in Request : RequestHonest(q)'
    BY <2>1, <2>2 DEF RequestHonest
  <2>5. ReasonsStand
    BY <2>1, <2>2 DEF ReasonsStand, Justified
  <2> QED
    BY <2>1, <2>3, <2>4, <2>5, <1>t, EnvironmentFrame DEF TypeOK
<1>4. CASE \E r \in Request : Execute(r)
  <2>1. PICK r \in Request :
          /\ request[r].target = 0 => request[r].key \notin existing
          /\ request[r].verdict = "approved"
          /\ ~(request[r].key \in existing /\ incarnation[request[r].key] = request[r].target)
          /\ executed' = executed \cup {r}
          /\ UNCHANGED <<incarnation, existing, request, ds, stage, process,
                         denied, decisions, faults>>
    BY <1>4 DEF Execute, Governed!Execute, Governed!InForce, Governed!Exists, ghosts
  <2>2. OnceGone(request[r].key)
    <3>1. /\ request[r].key \in Key /\ request[r].target \in Nat
          /\ request[r].target <= incarnation[request[r].key]
          /\ incarnation[request[r].key] \in Nat
      BY <2>1, <1>t DEF RequestHonest, DestructionTyped, RequestRecord
    <3> QED
      BY <2>1, <3>1 DEF OnceGone
  <2>3. DestructionTyped'
    BY <2>1, <1>t DEF DestructionTyped
  <2>4. \A q \in Request : RequestHonest(q)'
    BY <2>1, <2>2 DEF RequestHonest, OnceGone
  <2>5. ReasonsStand
    BY <2>1 DEF ReasonsStand, Justified, OnceGone
  <2> QED
    BY <2>1, <2>3, <2>4, <2>5, <1>t, EnvironmentFrame DEF TypeOK
<1>5. CASE \E o \in Other, r \in Request, k \in Key : FileOther(o, r, k)
  <2>1. PICK r \in Request, k \in Key :
          /\ requestKeyDestroy(r, k)
          /\ UNCHANGED <<ds, stage, process, denied, decisions, faults>>
    BY <1>5 DEF FileOther, ghosts
  <2> QED
    BY <2>1, <1>t, FilingIsHonest, EnvironmentFrame DEF TypeOK
<1>6. CASE \E p \in Policy : DeclarePolicy(p)
  <2>1. PICK p \in Policy :
          /\ ds[p] = "absent" /\ ds' = [ds EXCEPT ![p] = "live"]
          /\ UNCHANGED <<incarnation, existing, request, executed, stage, process,
                         denied, decisions, faults>>
    BY <1>6 DEF DeclarePolicy, destruction, ghosts
  <2>2. p \in LatePolicy
    BY <2>1 DEF EarlyRowsStay
  <2>3. \A q \in Policy : ds'[q] = IF q = p THEN "live" ELSE ds[q]
    BY <2>1, <1>t DEF TypeOK
  <2>4. TypeOK' /\ DestructionTyped'
    BY <2>1, <1>t DEF TypeOK, DestructionTyped
  <2>5. \A r \in Request : RequestHonest(r)'
    BY <2>1 DEF RequestHonest, OnceGone
  <2>6. \A x \in Process : HasReason(x)' /\ NothingSkipped(x)'
    BY <2>1, <2>2, <2>3 DEF HasReason, NothingSkipped, Justified, OnceGone
  <2>7. EarlyRowsStay' /\ TombstoneJustified' /\ OffboardedLeavesNoRow'
    BY <2>1, <2>2, <2>3 DEF EarlyRowsStay, TombstoneJustified, OffboardedLeavesNoRow, OnceGone
  <2> QED
    BY <2>4, <2>5, <2>6, <2>7
<1> QED
  BY <1>1, <1>2, <1>3, <1>4, <1>5, <1>6 DEF Environment

-----------------------------------------------------------------------------
(***************************************************************************)
(* The calls.  What must be shown of the state s a call moves to is what   *)
(* HasReason and NothingSkipped say of it.                                 *)
(***************************************************************************)
ReasonIn(s) ==
  /\ s.pc \in {"file", "archive", "tombstone"} => s.row \in Policy
  /\ s.pc \in {"archive", "tombstone"} => Justified(KeyOf[s.row])

SkipsNothing(s) ==
  s.pc \in {"check", "tombstone"} /\ s.all =>
    \A p \in Policy \ LatePolicy : ds[p] = "archived" \/ p \in s.todo

LEMMA IdleIsFine == ReasonIn(Idle) /\ SkipsNothing(Idle)
  BY DEF Idle, ReasonIn, SkipsNothing

LEMMA CallMoves ==
  ASSUME Inv, NEW x \in Process, NEW s \in ProcessState, Become(x, s),
         UNCHANGED <<destruction, ds, stage, denied, decisions>>, faults' \in 0..MaxFaults,
         ReasonIn(s), SkipsNothing(s)
  PROVE  Inv'
<1> USE DEF Inv
<1>1. /\ UNCHANGED <<incarnation, existing, request, executed>>
      /\ process \in [Process -> ProcessState]
      /\ process' = [process EXCEPT ![x] = s]
  BY DEF destruction, TypeOK, Become
<1>2. process'[x] = s /\ \A y \in Process \ {x} : process'[y] = process[y]
  BY <1>1
<1>3. TypeOK' /\ DestructionTyped'
  BY <1>1 DEF TypeOK, DestructionTyped
<1>4. \A r \in Request : RequestHonest(r)'
  BY <1>1 DEF RequestHonest, OnceGone
<1>5. \A k : Justified(k) => Justified(k)'
  BY <1>1 DEF Justified, OnceGone
<1>6. ASSUME NEW y \in Process PROVE HasReason(y)' /\ NothingSkipped(y)'
  <2>1. CASE y = x
    BY <1>2, <1>5, <2>1 DEF HasReason, NothingSkipped, ReasonIn, SkipsNothing
  <2>2. CASE y # x
    BY <1>2, <1>5, <2>2 DEF HasReason, NothingSkipped
  <2> QED
    BY <2>1, <2>2
<1>7. EarlyRowsStay' /\ TombstoneJustified' /\ OffboardedLeavesNoRow'
  BY <1>1 DEF EarlyRowsStay, TombstoneJustified, OffboardedLeavesNoRow, OnceGone
<1> QED
  BY <1>3, <1>4, <1>6, <1>7

(* A call that archives the row it has a reason for, on its way on.        *)
LEMMA CallArchives ==
  ASSUME Inv, NEW x \in Process, NEW s \in ProcessState, NEW p \in Policy, Become(x, s),
         ds' = [ds EXCEPT ![p] = "archived"], Justified(KeyOf[p]),
         UNCHANGED <<destruction, stage, ghosts>>,
         s.pc \in {"look", "check"},
         s.all = process[x].all, s.todo = process[x].todo \ {p},
         s.pc = "check" => process[x].pc = "tombstone"
  PROVE  Inv'
<1> USE DEF Inv
<1>1. /\ UNCHANGED <<incarnation, existing, request, executed, stage, denied, decisions, faults>>
      /\ process \in [Process -> ProcessState]
      /\ process' = [process EXCEPT ![x] = s]
      /\ ds \in [Policy -> {"absent", "live", "archived"}]
  BY DEF destruction, ghosts, TypeOK, Become
<1>2. process'[x] = s /\ \A y \in Process \ {x} : process'[y] = process[y]
  BY <1>1
<1>3. \A q \in Policy : ds'[q] = IF q = p THEN "archived" ELSE ds[q]
  BY <1>1
<1>4. TypeOK' /\ DestructionTyped'
  BY <1>1 DEF TypeOK, DestructionTyped
<1>5. \A r \in Request : RequestHonest(r)'
  BY <1>1 DEF RequestHonest, OnceGone
<1>6. \A k : Justified(k) => Justified(k)'
  BY <1>1 DEF Justified, OnceGone
<1>7. ASSUME NEW y \in Process PROVE HasReason(y)' /\ NothingSkipped(y)'
  <2>1. CASE y = x
    BY <1>2, <1>3, <2>1 DEF HasReason, NothingSkipped
  <2>2. CASE y # x
    BY <1>2, <1>3, <1>6, <2>2 DEF HasReason, NothingSkipped
  <2> QED
    BY <2>1, <2>2
<1>8. TombstoneJustified'
  BY <1>1, <1>3 DEF TombstoneJustified, Justified, OnceGone
<1>9. EarlyRowsStay' /\ OffboardedLeavesNoRow'
  BY <1>1, <1>3 DEF EarlyRowsStay, OffboardedLeavesNoRow
<1> QED
  BY <1>4, <1>5, <1>7, <1>8, <1>9

LEMMA CallFacts ==
  ASSUME Inv, NEW x \in Process
  PROVE  /\ process[x] \in ProcessState
         /\ faults \in 0..MaxFaults
         /\ KeyOf \in [Policy -> Key]
         /\ UNCHANGED ghosts => UNCHANGED <<denied, decisions>> /\ faults' \in 0..MaxFaults
  BY ConstantsAssumption DEF Inv, TypeOK, ghosts

LEMMA InitiateKeepsInv ==
  ASSUME Inv, NEW c \in Caller, InitiateStep(c)
  PROVE  Inv'
<1>x. c \in Process
  BY DEF Process
<1>t. process[c] \in ProcessState /\ KeyOf \in [Policy -> Key]
  BY <1>x, CallFacts
<1>1. CASE Initiate(c)
  <2> DEFINE s == [Idle EXCEPT !.pc = "list"]
  <2>1. s \in ProcessState /\ s.pc = "list"
    BY DEF Idle, ProcessState
  <2> HIDE DEF s
  <2>2. /\ stage # "offboarded" /\ stage' = "initiated"
        /\ process' = [process EXCEPT ![c] = s]
        /\ UNCHANGED <<incarnation, existing, request, executed, ds, denied, decisions, faults>>
    BY <1>1 DEF Initiate, Become, destruction, ghosts, s
  <2>3. process'[c] = s /\ \A y \in Process \ {c} : process'[y] = process[y]
    BY <1>x, <2>2 DEF Inv, TypeOK
  <2>4. TypeOK' /\ DestructionTyped'
    BY <2>1, <2>2 DEF Inv, TypeOK, DestructionTyped
  <2>5. \A r \in Request : RequestHonest(r)'
    BY <2>2 DEF Inv, RequestHonest, OnceGone
  <2>6. ASSUME NEW y \in Process PROVE HasReason(y)' /\ NothingSkipped(y)'
    <3>1. CASE y = c
      BY <2>1, <2>3, <3>1 DEF HasReason, NothingSkipped
    <3>2. CASE y # c
      BY <2>2, <2>3, <3>2 DEF Inv, HasReason, NothingSkipped, Justified, OnceGone
    <3> QED
      BY <3>1, <3>2
  <2>7. EarlyRowsStay' /\ TombstoneJustified' /\ OffboardedLeavesNoRow'
    BY <2>2 DEF Inv, EarlyRowsStay, TombstoneJustified, OffboardedLeavesNoRow, OnceGone
  <2> QED
    BY <2>4, <2>5, <2>6, <2>7 DEF Inv
<1>2. CASE ListLive(c)
  <2> DEFINE s == [Idle EXCEPT !.pc = "look", !.todo = Unarchived]
  <2>1. s \in ProcessState /\ s.pc = "look"
    BY DEF Idle, ProcessState, Unarchived
  <2>2. Become(c, s) /\ UNCHANGED <<destruction, ds, stage, denied, decisions>>
        /\ faults' \in 0..MaxFaults
    BY <1>x, <1>2, CallFacts DEF ListLive
  <2> HIDE DEF s
  <2> QED
    BY <1>x, <2>1, <2>2, CallMoves DEF ReasonIn, SkipsNothing
<1>3. CASE \E p \in Policy : Look(c, p)
  <2>1. PICK p \in Policy : Look(c, p)
    BY <1>3
  <2> DEFINE active == KeyOf[p] \in existing \ Unrecorded
             s == [process[c] EXCEPT !.pc = IF active THEN "file" ELSE "archive", !.row = p]
  <2>2. s \in ProcessState /\ s.row = p /\ s.pc = IF active THEN "file" ELSE "archive"
    BY <1>t DEF ProcessState
  <2>3. Become(c, s) /\ UNCHANGED <<destruction, ds, stage, denied, decisions>>
        /\ faults' \in 0..MaxFaults
    BY <1>x, <2>1, CallFacts DEF Look
  <2>4. ~active => Justified(KeyOf[p])
    BY DEF Justified, OnceGone
  <2> HIDE DEF s, active
  <2> QED
    BY <1>x, <2>2, <2>3, <2>4, CallMoves DEF ReasonIn, SkipsNothing
<1>4. CASE \E p \in Policy : LookFails(c, p)
  <2>1. PICK p \in Policy : LookFails(c, p)
    BY <1>4
  <2> DEFINE s == [process[c] EXCEPT !.pc = "file", !.row = p]
  <2>2. s \in ProcessState /\ s.row = p /\ s.pc = "file"
    BY <1>t DEF ProcessState
  <2>3. Become(c, s) /\ UNCHANGED <<destruction, ds, stage, denied, decisions>>
    BY <2>1 DEF LookFails
  <2>4. faults' \in 0..MaxFaults
    BY <1>x, <2>1, CallFacts, ConstantsAssumption DEF LookFails, Fault
  <2> HIDE DEF s
  <2> QED
    BY <1>x, <2>2, <2>3, <2>4, CallMoves DEF ReasonIn, SkipsNothing
<1>5. CASE \E r \in Request : File(c, r)
  <2>1. PICK r \in Request : File(c, r)
    BY <1>5
  <2> DEFINE p == process[c].row
             s == [process[c] EXCEPT !.pc = "look", !.row = NoPolicy, !.todo = @ \ {p}]
  <2>2. process[c].pc = "file" /\ p \in Policy /\ KeyOf[p] \in Key
    BY <1>x, <1>t, <2>1 DEF File, At, Inv, HasReason
  <2>3. s \in ProcessState /\ s.pc = "look"
    BY <1>t DEF ProcessState
  <2>4. /\ requestKeyDestroy(r, KeyOf[p]) /\ process' = [process EXCEPT ![c] = s]
        /\ UNCHANGED <<ds, stage, denied, decisions, faults>>
    BY <2>1 DEF File, Onward, Become, ghosts
  <2>5. DestructionTyped' /\ ReasonsStand /\ \A q \in Request : RequestHonest(q)'
    BY <2>2, <2>4, FilingIsHonest
  <2> HIDE DEF s, p
  <2>6. process'[c] = s /\ \A y \in Process \ {c} : process'[y] = process[y]
    BY <1>x, <2>4 DEF Inv, TypeOK
  <2>7. TypeOK'
    BY <2>3, <2>4 DEF Inv, TypeOK
  <2>8. ASSUME NEW y \in Process PROVE HasReason(y)' /\ NothingSkipped(y)'
    <3>1. CASE y = c
      BY <2>3, <2>6, <3>1 DEF HasReason, NothingSkipped
    <3>2. CASE y # c
      BY <1>t, <2>4, <2>5, <2>6, <3>2 DEF Inv, HasReason, NothingSkipped, ReasonsStand
    <3> QED
      BY <3>1, <3>2
  <2>9. TombstoneJustified'
    BY <1>t, <2>4, <2>5 DEF Inv, TombstoneJustified, ReasonsStand, Justified
  <2>10. EarlyRowsStay' /\ OffboardedLeavesNoRow'
    BY <2>4 DEF Inv, EarlyRowsStay, OffboardedLeavesNoRow
  <2> QED
    BY <2>5, <2>7, <2>8, <2>9, <2>10 DEF Inv
<1>6. CASE Archive(c)
  <2> DEFINE p == process[c].row
             s == [process[c] EXCEPT !.pc = "look", !.row = NoPolicy, !.todo = @ \ {p}]
  <2>1. p \in Policy /\ Justified(KeyOf[p])
    BY <1>x, <1>6 DEF Archive, At, Inv, HasReason
  <2>2. /\ s \in ProcessState /\ s.pc = "look"
        /\ s.all = process[c].all /\ s.todo = process[c].todo \ {p}
    BY <1>t DEF ProcessState
  <2>3. Become(c, s) /\ ds' = [ds EXCEPT ![p] = "archived"]
        /\ UNCHANGED <<destruction, stage, ghosts>>
    BY <1>6 DEF Archive, Onward
  <2> HIDE DEF s, p
  <2> QED
    BY <1>x, <2>1, <2>2, <2>3, CallArchives
<1>7. CASE DoneFiling(c)
  <2> DEFINE s == [Idle EXCEPT !.pc = "begin"]
  <2>1. s \in ProcessState /\ s.pc = "begin"
    BY DEF Idle, ProcessState
  <2>2. Become(c, s) /\ UNCHANGED <<destruction, ds, stage, denied, decisions>>
        /\ faults' \in 0..MaxFaults
    BY <1>x, <1>7, CallFacts DEF DoneFiling
  <2> HIDE DEF s
  <2> QED
    BY <1>x, <2>1, <2>2, CallMoves DEF ReasonIn, SkipsNothing
<1> QED
  BY <1>1, <1>2, <1>3, <1>4, <1>5, <1>6, <1>7 DEF InitiateStep

-----------------------------------------------------------------------------
(* checkOffboardingCompletion                                              *)

(* A resolved request is a reason: refused, or executed.                   *)
LEMMA ResolvedIsReason ==
  ASSUME Inv, NEW p \in Policy, ResolvedFor(p)
  PROVE  Justified(KeyOf[p])
<1>1. PICK r \in Request : request[r].key = KeyOf[p] /\ Resolved(r)
  BY DEF ResolvedFor, LatestRequest
<1>2. RequestHonest(r)
  BY DEF Inv
<1> QED
  BY <1>1, <1>2 DEF Resolved, RequestHonest, Justified

LEMMA CompleteKeepsInv ==
  ASSUME Inv, NEW x \in Process, Complete(x)
  PROVE  Inv'
<1> USE DEF Inv
<1>1. /\ process[x].pc = "check" /\ process[x].todo = {}
      /\ stage' = IF process[x].all THEN "offboarded" ELSE stage
      /\ process' = [process EXCEPT ![x] = Idle]
      /\ UNCHANGED <<incarnation, existing, request, executed, ds, denied, decisions, faults>>
  BY DEF Complete, At, Become, destruction, ghosts
<1>2. process'[x] = Idle /\ \A y \in Process \ {x} : process'[y] = process[y]
  BY <1>1 DEF TypeOK
<1>3. TypeOK' /\ DestructionTyped'
  BY <1>1, IdleIsIdle DEF TypeOK, DestructionTyped
<1>4. \A r \in Request : RequestHonest(r)'
  BY <1>1 DEF RequestHonest, OnceGone
<1>5. ASSUME NEW y \in Process PROVE HasReason(y)' /\ NothingSkipped(y)'
  <2>1. CASE y = x
    BY <1>2, <2>1, IdleIsIdle DEF HasReason, NothingSkipped
  <2>2. CASE y # x
    BY <1>1, <1>2, <2>2 DEF HasReason, NothingSkipped, Justified, OnceGone
  <2> QED
    BY <2>1, <2>2
<1>6. EarlyRowsStay' /\ TombstoneJustified'
  BY <1>1 DEF EarlyRowsStay, TombstoneJustified, OnceGone
<1>7. OffboardedLeavesNoRow'
  BY <1>1 DEF OffboardedLeavesNoRow, NothingSkipped
<1> QED
  BY <1>3, <1>4, <1>5, <1>6, <1>7

LEMMA CheckKeepsInv ==
  ASSUME Inv, NEW x \in Process, Check(x)
  PROVE  Inv'
<1>t. process[x] \in ProcessState /\ KeyOf \in [Policy -> Key]
  BY CallFacts
<1>1. CASE BeginCheck(x)
  <2>1. PICK s \in {[Idle EXCEPT !.pc = "rows"], Idle} : Become(x, s)
    BY <1>1 DEF BeginCheck
  <2>2. s \in ProcessState /\ s.pc \in {"rows", "idle"}
    <3>1. CASE s = Idle
      BY <3>1, IdleIsIdle
    <3>2. CASE s = [Idle EXCEPT !.pc = "rows"]
      BY <3>2 DEF Idle, ProcessState
    <3> QED
      BY <2>1, <3>1, <3>2
  <2>3. UNCHANGED <<destruction, ds, stage, denied, decisions>> /\ faults' \in 0..MaxFaults
    BY <1>1, CallFacts DEF BeginCheck
  <2> QED
    BY <2>1, <2>2, <2>3, CallMoves DEF ReasonIn, SkipsNothing
<1>2. CASE ListRows(x)
  <2> DEFINE s == [Idle EXCEPT !.pc = "check", !.todo = Unarchived]
  <2>1. s \in ProcessState /\ s.pc = "check" /\ s.todo = Unarchived
    BY DEF Idle, ProcessState, Unarchived
  <2>2. Become(x, s) /\ UNCHANGED <<destruction, ds, stage, denied, decisions>>
        /\ faults' \in 0..MaxFaults
    BY <1>2, CallFacts DEF ListRows
  <2>3. \A p \in Policy \ LatePolicy : ds[p] = "archived" \/ p \in Unarchived
    BY DEF Inv, TypeOK, EarlyRowsStay, Unarchived
  <2> HIDE DEF s
  <2> QED
    BY <2>1, <2>2, <2>3, CallMoves DEF ReasonIn, SkipsNothing
<1>3. CASE \E p \in Policy : ReadRequest(x, p)
  <2>1. PICK p \in Policy : ReadRequest(x, p)
    BY <1>3
  <2>2. UNCHANGED <<destruction, ds, stage, denied, decisions>> /\ faults' \in 0..MaxFaults
        /\ process[x].pc = "check"
    BY <2>1, CallFacts DEF ReadRequest, At
  <2>3. CASE ResolvedFor(p)
    <3> DEFINE s == [process[x] EXCEPT !.pc = "tombstone", !.row = p]
    <3>1. /\ s \in ProcessState /\ s.pc = "tombstone" /\ s.row = p
          /\ s.todo = process[x].todo /\ s.all = process[x].all
      BY <1>t DEF ProcessState
    <3>2. Become(x, s)
      BY <2>1, <2>3 DEF ReadRequest
    <3>3. Justified(KeyOf[p])
      BY <2>3, ResolvedIsReason
    <3> HIDE DEF s
    <3>4. ReasonIn(s) /\ SkipsNothing(s)
      BY <2>2, <3>1, <3>3 DEF ReasonIn, SkipsNothing, Inv, NothingSkipped
    <3> QED
      BY <2>2, <3>1, <3>2, <3>4, CallMoves
  <2>4. CASE ~ResolvedFor(p)
    <3> DEFINE s == [process[x] EXCEPT !.todo = @ \ {p}, !.all = FALSE]
    <3>1. s \in ProcessState /\ s.pc = "check" /\ ~s.all
      BY <1>t, <2>2 DEF ProcessState
    <3>2. Become(x, s)
      BY <2>1, <2>4 DEF ReadRequest
    <3> HIDE DEF s
    <3> QED
      BY <2>2, <3>1, <3>2, CallMoves DEF ReasonIn, SkipsNothing
  <2> QED
    BY <2>3, <2>4
<1>4. CASE Tombstone(x)
  <2> DEFINE p == process[x].row
             s == [process[x] EXCEPT !.pc = "check", !.row = NoPolicy, !.todo = @ \ {p}]
  <2>1. p \in Policy /\ Justified(KeyOf[p]) /\ process[x].pc = "tombstone"
    BY <1>4 DEF Tombstone, At, Inv, HasReason
  <2>2. /\ s \in ProcessState /\ s.pc = "check"
        /\ s.all = process[x].all /\ s.todo = process[x].todo \ {p}
    BY <1>t DEF ProcessState
  <2>3. Become(x, s) /\ ds' = [ds EXCEPT ![p] = "archived"]
        /\ UNCHANGED <<destruction, stage, ghosts>>
    BY <1>4 DEF Tombstone, Onward
  <2> HIDE DEF s, p
  <2> QED
    BY <2>1, <2>2, <2>3, CallArchives
<1>5. CASE Complete(x)
  BY <1>5, CompleteKeepsInv
<1> QED
  BY <1>1, <1>2, <1>3, <1>4, <1>5 DEF Check

LEMMA StepKeepsInv ==
  ASSUME Inv, [Next]_vars
  PROVE  Inv'
<1>1. CASE \E s \in Sweeper : Sweep(s)
  <2>1. PICK x \in Sweeper : Sweep(x)
    BY <1>1
  <2> DEFINE s == [Idle EXCEPT !.pc = "begin"]
  <2>2. s \in ProcessState /\ s.pc = "begin" /\ x \in Process
    BY DEF Idle, ProcessState, Process
  <2>3. Become(x, s) /\ UNCHANGED <<destruction, ds, stage, denied, decisions>>
        /\ faults' \in 0..MaxFaults
    BY <2>1, <2>2, CallFacts DEF Sweep
  <2> HIDE DEF s
  <2> QED
    BY <2>2, <2>3, CallMoves DEF ReasonIn, SkipsNothing
<1>2. CASE \E x \in Process : CallFails(x)
  <2>1. PICK x \in Process : CallFails(x)
    BY <1>2
  <2>2. Become(x, Idle) /\ UNCHANGED <<destruction, ds, stage, denied, decisions>>
    BY <2>1 DEF CallFails
  <2>3. faults' \in 0..MaxFaults
    BY <2>1, CallFacts, ConstantsAssumption DEF CallFails, Fault
  <2> QED
    BY <2>2, <2>3, IdleIsIdle, IdleIsFine, CallMoves
<1>3. CASE UNCHANGED vars
  <2>1. /\ UNCHANGED <<incarnation, existing, request, executed, ds, stage, process>>
        /\ UNCHANGED <<denied, decisions, faults>>
    BY <1>3 DEF vars, destruction, ghosts
  <2> QED
    BY <2>1 DEF Inv, TypeOK, DestructionTyped, RequestHonest, HasReason, NothingSkipped,
       EarlyRowsStay, TombstoneJustified, OffboardedLeavesNoRow, Justified, OnceGone
<1> QED
  BY <1>1, <1>2, <1>3, EnvironmentKeepsInv, InitiateKeepsInv, CheckKeepsInv DEF Next

LEMMA AlwaysInv == Spec => []Inv
  BY InitInv, StepKeepsInv, PTL DEF Spec

-----------------------------------------------------------------------------
(***************************************************************************)
(* Type correctness of policies, calls and the stage.                      *)
(***************************************************************************)
THEOREM TypeCorrect == Spec => []TypeOK
  BY AlwaysInv, PTL DEF Inv

(***************************************************************************)
(* No governance row is archived on the strength of an approval alone.     *)
(***************************************************************************)
THEOREM TombstonesAreJustified == Spec => []TombstoneJustified
  BY AlwaysInv, PTL DEF Inv

(***************************************************************************)
(* An offboarded application has no early row left, for any number of      *)
(* overlapping calls and sweeps.                                           *)
(***************************************************************************)
THEOREM NothingLeftBehind == Spec => []OffboardedLeavesNoRow
  BY AlwaysInv, PTL DEF Inv
=============================================================================
