--------------------------- MODULE EvidenceIngest ---------------------------
(***************************************************************************)
(* Audit evidence: a worker tails Vault's audit file from a byte offset    *)
(* kept in Postgres and inserts one evidence row per entry                 *)
(* (evidence/ingest.js, called by worker.js).  Nothing keeps two workers   *)
(* from tailing the same file at once.                                     *)
(*                                                                         *)
(* Entries are numbered in the order Vault writes them.  Every line is two *)
(* units long, so an odd size is a line half written; cursors are even.    *)
(* Entries the ingest has no row for (classify) are not modelled.          *)
(***************************************************************************)
EXTENDS Integers, Sequences, FiniteSetsExt

CONSTANTS
  Worker,
  Tenant,        \* entries made in the supplier's namespace
  MaxEntries,    \* bound: entries Vault writes
  MaxRotations,  \* bound: rotations of the audit file
  MaxSuppliers,  \* bound: supplier rows created for the namespace
  MaxFaults      \* bound: failed reads, failed queries and crashes

ASSUME ConstantsAssumption ==
  /\ {MaxEntries, MaxRotations, MaxSuppliers, MaxFaults} \subseteq Nat
  /\ Tenant \subseteq 1..MaxEntries

Entry == 1..MaxEntries

VARIABLES
  file,      \* the audit file: its number, the entries before it, its lines
  supplier,  \* id of the supplier row of the namespace, 0 without one
  ids,       \* supplier ids used so far
  cursor,    \* ingest_cursor: offset, and whose lines it counts
  evidence,  \* evidence[e]: rows of entry e
  dropped,   \* entries whose INSERT failed
  worker,    \* ingestAuditLog, one call at a time per worker
  cache,     \* supplierCache of each worker process
  faults

world  == <<file, supplier, ids>>
tables == <<cursor, evidence, dropped>>
vars   == <<world, tables, worker, cache, faults>>

(***************************************************************************)
(* A cursor carries, beside the offset the code saves, the number of the   *)
(* file whose lines it counts (history).  pc is the await about to be      *)
(* issued; at is the cursor to read from and, once that is done, to save;  *)
(* todo are the entries read and not inserted yet.                         *)
(***************************************************************************)
Cursor == [offset : Nat, of : Nat]
WorkerState ==
  [pc : {"idle", "cursor", "read", "lookup", "insert", "save"}, size : Nat,
   at : Cursor, todo : Seq(Entry)]

Idle == [pc |-> "idle", size |-> 0, at |-> [offset |-> 0, of |-> 0], todo |-> << >>]

Size      == 2 * file.lines + (IF file.half THEN 1 ELSE 0)
Written   == 1..(file.before + file.lines)
Settled(e) == evidence[e] > 0 \/ e \in dropped
Fault     == faults < MaxFaults /\ faults' = faults + 1

-----------------------------------------------------------------------------
(* Vault, the rotation of its audit file, and the supplier registry        *)

WriteHalf ==
  /\ ~file.half
  /\ file.before + file.lines < MaxEntries
  /\ file' = [file EXCEPT !.half = TRUE]
  /\ UNCHANGED <<supplier, ids, tables, worker, cache, faults>>

WriteRest ==
  /\ file.half
  /\ file' = [file EXCEPT !.half = FALSE, !.lines = @ + 1]
  /\ UNCHANGED <<supplier, ids, tables, worker, cache, faults>>

Rotate ==
  /\ ~file.half
  /\ file.number < MaxRotations
  /\ file' = [number |-> file.number + 1, before |-> file.before + file.lines,
              lines |-> 0, half |-> FALSE]
  /\ UNCHANGED <<supplier, ids, tables, worker, cache, faults>>

RegisterSupplier ==
  /\ supplier = 0
  /\ ids < MaxSuppliers
  /\ ids' = ids + 1
  /\ supplier' = ids + 1
  /\ UNCHANGED <<file, tables, worker, cache, faults>>

DeleteSupplier ==
  /\ supplier # 0
  /\ supplier' = 0
  /\ UNCHANGED <<file, ids, tables, worker, cache, faults>>

-----------------------------------------------------------------------------
(* ingestAuditLog                                                          *)

Stat(w) ==
  /\ worker[w].pc = "idle"
  /\ worker' = [worker EXCEPT ![w].pc = "cursor", ![w].size = Size]
  /\ UNCHANGED <<world, tables, cache, faults>>

(* A file shorter than the cursor has been rotated: start from its head.   *)
ReadCursor(w) ==
  LET from == IF cursor.offset > worker[w].size THEN [cursor EXCEPT !.offset = 0]
                                                ELSE cursor
  IN  /\ worker[w].pc = "cursor"
      /\ worker' = [worker EXCEPT ![w] =
           IF from.offset < worker[w].size
           THEN [@ EXCEPT !.pc = "read", !.at = from] ELSE Idle]
      /\ UNCHANGED <<world, tables, cache, faults>>

(* An entry of the tenant needs the supplier map, unless it is fresh.      *)
PcFor(w, todo) ==
  IF todo = << >> THEN "save"
  ELSE IF Head(todo) \in Tenant /\ ~cache[w].fresh THEN "lookup" ELSE "insert"

(* n lines from the offset on.  From the head, the cursor is this file's.  *)
Take(w, n, next) ==
  LET at   == worker[w].at
      todo == [k \in 1..n |-> file.before + (at.offset \div 2) + k]
  IN  worker' = [worker EXCEPT ![w] =
        [pc |-> PcFor(w, todo), size |-> 0, todo |-> todo,
         at |-> [offset |-> next, of |-> IF at.offset = 0 THEN file.number ELSE at.of]]]

(* Whole lines between the offset and the size stat saw.                   *)
Readable(w) ==
  Max({0, (Min({worker[w].size, Size}) - worker[w].at.offset) \div 2})

ReadPartialLine(w) ==                            \* mutant: partialLen forgotten
  /\ worker[w].pc = "read"
  /\ Take(w, Readable(w), worker[w].size)
  /\ UNCHANGED <<world, tables, cache, faults>>

(***************************************************************************)
(* open and read: the file may be another one than stat saw, or longer.    *)
(* What is missing stays zero in the buffer, so it counts as part of the   *)
(* line that is left for later.                                            *)
(***************************************************************************)
ReadFile(w) ==
  /\ worker[w].pc = "read"
  /\ Take(w, Readable(w), worker[w].at.offset + 2 * Readable(w))
  /\ UNCHANGED <<world, tables, cache, faults>>

(* A read may return fewer bytes than asked; nothing looks at bytesRead.   *)
ShortRead(w) ==
  /\ worker[w].pc = "read"
  /\ Fault
  /\ \E n \in 0..(Readable(w) - 1) : Take(w, n, worker[w].at.offset + 2 * n)
  /\ UNCHANGED <<world, tables, cache>>

(* SELECT id, vault_namespace FROM suppliers, kept for a minute.           *)
LookUp(w) ==
  /\ worker[w].pc = "lookup"
  /\ cache' = [cache EXCEPT ![w] = [fresh |-> TRUE, id |-> supplier]]
  /\ worker' = [worker EXCEPT ![w].pc = "insert"]
  /\ UNCHANGED <<world, tables, faults>>

CacheAges(w) ==
  /\ cache[w].fresh
  /\ cache' = [cache EXCEPT ![w].fresh = FALSE]
  /\ UNCHANGED <<world, tables, worker, faults>>

Advance(w) ==
  LET todo == Tail(worker[w].todo)
  IN  worker' = [worker EXCEPT ![w].todo = todo, ![w].pc = PcFor(w, todo)]

(* evidence.supplier_id is NULL or the id of a supplier that exists.       *)
Attributable(w, e) == e \in Tenant => cache[w].id \in {0, supplier}

InsertAlways(w) ==                               \* mutant: no dedupe key
  LET e == Head(worker[w].todo)
  IN  /\ worker[w].pc = "insert"
      /\ Attributable(w, e)
      /\ evidence' = [evidence EXCEPT ![e] = @ + 1]
      /\ Advance(w)
      /\ UNCHANGED <<world, cursor, dropped, cache, faults>>

InsertOrDrop(w) ==                               \* mutant: no ON CONFLICT
  LET e == Head(worker[w].todo)
  IN  /\ worker[w].pc = "insert"
      /\ Attributable(w, e)
      /\ evidence' = [evidence EXCEPT ![e] = 1]
      /\ dropped' = IF evidence[e] = 1 THEN dropped \cup {e} ELSE dropped
      /\ Advance(w)
      /\ UNCHANGED <<world, cursor, cache, faults>>

(* ON CONFLICT (dedupe_key) DO NOTHING                                     *)
InsertEvidence(w) ==
  LET e == Head(worker[w].todo)
  IN  /\ worker[w].pc = "insert"
      /\ Attributable(w, e)
      /\ evidence' = [evidence EXCEPT ![e] = IF @ = 0 THEN 1 ELSE @]
      /\ Advance(w)
      /\ UNCHANGED <<world, cursor, dropped, cache, faults>>

(* The row is given up: the database refuses the id of a supplier deleted  *)
(* since it was cached, or fails.                                          *)
DropRow(w) ==
  LET e == Head(worker[w].todo)
  IN  /\ worker[w].pc = "insert"
      /\ IF Attributable(w, e) THEN Fault ELSE UNCHANGED faults
      /\ dropped' = dropped \cup {e}
      /\ Advance(w)
      /\ UNCHANGED <<world, cursor, evidence, cache>>

SaveCursor(w) ==
  /\ worker[w].pc = "save"
  /\ cursor' = worker[w].at
  /\ worker' = [worker EXCEPT ![w] = Idle]
  /\ UNCHANGED <<world, evidence, dropped, cache, faults>>

(* A query outside the try, the read, or the process fails.                *)
Abort(w) ==
  /\ worker[w].pc # "idle"
  /\ Fault
  /\ worker' = [worker EXCEPT ![w] = Idle]
  /\ UNCHANGED <<world, tables, cache>>

-----------------------------------------------------------------------------
Init ==
  /\ file = [number |-> 0, before |-> 0, lines |-> 0, half |-> FALSE]
  /\ supplier = 0
  /\ ids = 0
  /\ cursor = [offset |-> 0, of |-> 0]
  /\ evidence = [e \in Entry |-> 0]
  /\ dropped = {}
  /\ worker = [w \in Worker |-> Idle]
  /\ cache = [w \in Worker |-> [fresh |-> FALSE, id |-> 0]]
  /\ faults = 0

World ==
  \/ WriteHalf
  \/ WriteRest
  \/ Rotate
  \/ RegisterSupplier
  \/ DeleteSupplier

ingestAuditLog(w) ==
  \/ Stat(w)
  \/ ReadCursor(w)
  \/ ReadFile(w)
  \/ ShortRead(w)
  \/ LookUp(w)
  \/ InsertEvidence(w)
  \/ DropRow(w)
  \/ SaveCursor(w)

Next ==
  \/ World
  \/ \E w \in Worker : ingestAuditLog(w) \/ CacheAges(w) \/ Abort(w)

Spec == Init /\ [][Next]_vars

(* The worker's loop survives every error.                                 *)
Fairness == \A w \in Worker : WF_vars(ingestAuditLog(w))

LiveSpec == Spec /\ Fairness

-----------------------------------------------------------------------------
(* Type correctness.                                                       *)
TypeOK ==
  /\ file \in [number : 0..MaxRotations, before : 0..MaxEntries,
               lines : 0..MaxEntries, half : BOOLEAN]
  /\ supplier \in 0..ids
  /\ ids \in 0..MaxSuppliers
  /\ cursor \in Cursor
  /\ evidence \in [Entry -> Nat]
  /\ dropped \subseteq Entry
  /\ worker \in [Worker -> WorkerState]
  /\ cache \in [Worker -> [fresh : BOOLEAN, id : 0..MaxSuppliers]]
  /\ faults \in 0..MaxFaults

(***************************************************************************)
(* The cursor does not pass a line nobody has read: as long as it counts   *)
(* the lines of the file that is there, every entry before it has its row  *)
(* or was given up.  Two workers may save their cursors in either order.   *)
(***************************************************************************)
CursorPassesNothing ==
  cursor.of = file.number =>
    \A k \in 1..(cursor.offset \div 2) : k <= file.lines /\ Settled(file.before + k)

(***************************************************************************)
(* Reading a line again, after a crash or beside another worker, does not  *)
(* make a second row, and rows are only made for what Vault has written.   *)
(***************************************************************************)
OneRowPerEntry ==
  \A e \in Entry : evidence[e] <= (IF e \in Written THEN 1 ELSE 0)

(* The namespace has had a supplier row that is gone.                      *)
Deleted == ids > 1 \/ supplier # ids

(***************************************************************************)
(* An entry is given up only for a database error, or because its supplier *)
(* was deleted while a worker had it cached.                               *)
(***************************************************************************)
DroppedForAReason ==
  \A e \in dropped : faults > 0 \/ (e \in Tenant /\ Deleted)

(* A cursor of another file, taken for one of this file, hides entry e.    *)
Hidden(e) ==
  /\ cursor.of # file.number
  /\ cursor.offset <= Size
  /\ e <= file.before + (cursor.offset \div 2)

(***************************************************************************)
(* An entry is recorded or given up in the end, unless the file is rotated *)
(* before a worker has come to it, or has been and has since outgrown the  *)
(* cursor of the file before it.                                           *)
(***************************************************************************)
EntriesAreIngested ==
  \A e \in Entry :
    (e \in Written) ~> (Settled(e) \/ e <= file.before \/ Hidden(e))
=============================================================================
