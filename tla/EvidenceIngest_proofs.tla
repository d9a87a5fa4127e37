------------------------- MODULE EvidenceIngest_proofs -------------------------
(***************************************************************************)
(* Proofs about EvidenceIngest, for any number of workers, entries,        *)
(* rotations of the file and supplier rows.                                *)
(***************************************************************************)
EXTENDS EvidenceIngest, SequenceTheorems, TLAPS

Queued(w, e) == \E i \in 1..Len(worker[w].todo) : worker[w].todo[i] = e

(* The file holds no more than Vault has written.                          *)
FileWithinBounds ==
  file.before + file.lines + (IF file.half THEN 1 ELSE 0) <= MaxEntries

(* No cursor counts the lines of a file that is still to come.             *)
OfKnownFile(c) == c.of <= file.number /\ c.offset % 2 = 0

(* What the worker's cursor has behind it is settled or still queued.      *)
Covers(w) ==
  worker[w].at.of = file.number =>
    \A k \in 1..(worker[w].at.offset \div 2) :
      k <= file.lines /\ (Settled(file.before + k) \/ Queued(w, file.before + k))

(***************************************************************************)
(* A worker between its read and its save has queued lines Vault has       *)
(* written, and a cursor that covers what is settled or queued.            *)
(***************************************************************************)
Reading(w) ==
  /\ OfKnownFile(worker[w].at)
  /\ \A i \in 1..Len(worker[w].todo) : worker[w].todo[i] \in Written
  /\ worker[w].pc \in {"lookup", "insert"} => worker[w].todo # << >>
  /\ worker[w].pc \in {"idle", "cursor", "read", "save"} => worker[w].todo = << >>
  /\ worker[w].pc \in {"read", "lookup", "insert", "save"} =>
       Covers(w)

Inv ==
  /\ TypeOK
  /\ FileWithinBounds
  /\ OfKnownFile(cursor)
  /\ CursorPassesNothing
  /\ \A w \in Worker : Reading(w) /\ cache[w].id <= ids
  /\ OneRowPerEntry
  /\ DroppedForAReason

-----------------------------------------------------------------------------
(* Arithmetic of the offsets                                               *)
LEMMA MaxOfTwo ==
  ASSUME NEW a \in Int, NEW b \in Int
  PROVE  Max({a, b}) = IF a >= b THEN a ELSE b
<1>1. CASE a >= b
  <2>1. \A x \in {a, b} : (\A y \in {a, b} : x >= y) <=> x = a
    BY <1>1
  <2> QED
    BY <1>1, <2>1 DEF Max
<1>2. CASE ~(a >= b)
  <2>1. \A x \in {a, b} : (\A y \in {a, b} : x >= y) <=> x = b
    BY <1>2
  <2> QED
    BY <1>2, <2>1 DEF Max
<1> QED
  BY <1>1, <1>2

LEMMA MinOfTwo ==
  ASSUME NEW a \in Int, NEW b \in Int
  PROVE  Min({a, b}) = IF a <= b THEN a ELSE b
<1>1. CASE a <= b
  <2>1. \A x \in {a, b} : (\A y \in {a, b} : x <= y) <=> x = a
    BY <1>1
  <2> QED
    BY <1>1, <2>1 DEF Min
<1>2. CASE ~(a <= b)
  <2>1. \A x \in {a, b} : (\A y \in {a, b} : x <= y) <=> x = b
    BY <1>2
  <2> QED
    BY <1>2, <2>1 DEF Min
<1> QED
  BY <1>1, <1>2

(* What can be read from an offset on ends with the last whole line.       *)
LEMMA ReadableEndsInFile ==
  ASSUME Inv, NEW w \in Worker
  PROVE  /\ Readable(w) \in Nat
         /\ \A n \in 1..Readable(w) : (worker[w].at.offset \div 2) + n <= file.lines
<1> DEFINE off == worker[w].at.offset
           size == worker[w].size
           m == Min({size, Size})
           a == (m - off) \div 2
<1>1. off \in Nat /\ size \in Nat /\ file.lines \in Nat
  BY DEF Inv, TypeOK, WorkerState, Cursor
<1>2. Size \in Nat /\ Size <= 2 * file.lines + 1
  BY <1>1 DEF Size
<1>3. m \in Int /\ m <= Size
  BY <1>1, <1>2, MinOfTwo
<1> HIDE DEF m
<1>4. a \in Int /\ 2 * a <= m - off
  BY <1>1, <1>3
<1>a. Readable(w) = Max({0, a})
  BY DEF Readable, m
<1> HIDE DEF a
<1>5. Readable(w) = IF 0 >= a THEN 0 ELSE a
  BY <1>4, <1>a, MaxOfTwo
<1> HIDE DEF off
<1>6. off \div 2 \in Nat /\ 2 * (off \div 2) <= off
  BY <1>1
<1>7. Readable(w) \in Nat
  BY <1>4, <1>5
<1>8. ASSUME NEW n \in 1..Readable(w) PROVE (off \div 2) + n <= file.lines
  <2>1. n <= a /\ a \in Int
    BY <1>4, <1>5, <1>8
  <2>2. 2 * ((off \div 2) + n) <= 2 * file.lines + 1
    BY <1>1, <1>2, <1>3, <1>4, <1>6, <2>1
  <2> QED
    BY <1>1, <1>6, <2>2
<1> QED
  BY <1>7, <1>8 DEF off

-----------------------------------------------------------------------------
LEMMA IdleIsIdle ==
  Idle \in WorkerState /\ Idle.pc = "idle" /\ Idle.todo = << >> /\ Idle.at.of = 0
    /\ Idle.at.offset = 0
  BY EmptySeq DEF Idle, WorkerState, Cursor

LEMMA InitInv == Init => Inv
<1> SUFFICES ASSUME Init PROVE Inv
  OBVIOUS
<1>1. file.number = 0 /\ file.before = 0 /\ file.lines = 0 /\ ~file.half
  BY DEF Init
<1>2. \A w \in Worker : worker[w] = Idle
  BY DEF Init
<1>3. cursor.offset = 0 /\ cursor.of = 0
  BY DEF Init
<1>4. TypeOK
  <2>1. file \in [number : 0..MaxRotations, before : 0..MaxEntries,
                  lines : 0..MaxEntries, half : BOOLEAN]
    BY ConstantsAssumption DEF Init
  <2>2. supplier \in 0..ids /\ ids \in 0..MaxSuppliers /\ faults \in 0..MaxFaults
    BY ConstantsAssumption DEF Init
  <2>3. cursor \in Cursor /\ evidence \in [Entry -> Nat] /\ dropped \subseteq Entry
    BY DEF Init, Cursor
  <2>4. worker \in [Worker -> WorkerState]
    BY IdleIsIdle DEF Init
  <2>5. cache \in [Worker -> [fresh : BOOLEAN, id : 0..MaxSuppliers]]
    BY ConstantsAssumption DEF Init
  <2> QED
    BY <2>1, <2>2, <2>3, <2>4, <2>5 DEF TypeOK
<1>5. FileWithinBounds /\ OfKnownFile(cursor)
  BY <1>1, <1>3, ConstantsAssumption DEF FileWithinBounds, OfKnownFile
<1>6. CursorPassesNothing
  BY <1>3 DEF CursorPassesNothing
<1>7. \A w \in Worker : Reading(w) /\ cache[w].id <= ids
  BY <1>1, <1>2, IdleIsIdle, EmptySeq DEF Init, Reading, OfKnownFile
<1>8. OneRowPerEntry /\ DroppedForAReason
  BY DEF Init, OneRowPerEntry, DroppedForAReason
<1> QED
  BY <1>4, <1>5, <1>6, <1>7, <1>8 DEF Inv

LEMMA FileFacts ==
  ASSUME Inv
  PROVE  /\ {file.number, file.before, file.lines, cursor.offset, cursor.of} \subseteq Nat
         /\ file.before + file.lines <= MaxEntries
         /\ MaxEntries \in Nat /\ Entry = 1..MaxEntries
         /\ \A k \in Nat \ {0} : k <= file.lines => file.before + k \in Entry
         /\ worker \in [Worker -> WorkerState]
         /\ \A w \in Worker : {worker[w].at.of, worker[w].at.offset} \subseteq Nat
<1>1. {file.number, file.before, file.lines, cursor.offset, cursor.of} \subseteq Nat
      /\ MaxEntries \in Nat /\ worker \in [Worker -> WorkerState]
  BY ConstantsAssumption DEF Inv, TypeOK, Cursor
<1>2. file.before + file.lines <= MaxEntries
  BY <1>1 DEF Inv, FileWithinBounds
<1>3. \A w \in Worker : {worker[w].at.of, worker[w].at.offset} \subseteq Nat
  BY <1>1 DEF WorkerState, Cursor
<1> QED
  BY <1>1, <1>2, <1>3 DEF Entry

-----------------------------------------------------------------------------
(***************************************************************************)
(* Vault and the rotation.  A file that grows keeps its lines where they   *)
(* were; one that replaces it is not the file any cursor counts.           *)
(***************************************************************************)
LEMMA FileMoves ==
  ASSUME Inv, TypeOK', FileWithinBounds',
         UNCHANGED <<supplier, ids, tables, worker, cache, faults>>,
         file'.number >= file.number,
         file'.before + file'.lines >= file.before + file.lines,
         file'.number = file.number => file'.before = file.before /\ file'.lines >= file.lines
  PROVE  Inv'
<1> USE DEF Inv
<1>1. UNCHANGED <<cursor, evidence, dropped>>
  BY DEF tables
<1>2. /\ {file.number, file.before, file.lines, cursor.of} \subseteq Nat
      /\ \A w \in Worker : worker[w].at.of \in Nat
  BY FileFacts
<1>3. {file'.number, file'.before, file'.lines} \subseteq Nat
  BY DEF TypeOK
<1>4. Written \subseteq Written'
  BY <1>2, <1>3 DEF Written
<1>5. \A e : Settled(e) <=> Settled(e)'
  BY <1>1 DEF Settled
<1>6. OfKnownFile(cursor)' /\ \A w \in Worker : OfKnownFile(worker[w].at)'
  BY <1>1, <1>2, <1>3 DEF OfKnownFile, Reading
<1>7. CursorPassesNothing'
  <2>1. CASE file'.number = file.number
    BY <1>1, <1>2, <1>3, <1>5, <2>1 DEF CursorPassesNothing
  <2>2. CASE file'.number # file.number
    BY <1>1, <1>2, <1>3, <2>2 DEF CursorPassesNothing, OfKnownFile
  <2> QED
    BY <2>1, <2>2
<1>8. ASSUME NEW w \in Worker PROVE Covers(w) => Covers(w)'
  <2>1. CASE file'.number = file.number
    BY <1>1, <1>2, <1>3, <1>5, <2>1 DEF Covers, Queued
  <2>2. CASE file'.number # file.number
    BY <1>2, <1>3, <2>2 DEF Covers, OfKnownFile, Reading
  <2> QED
    BY <2>1, <2>2
<1>9. \A w \in Worker : Reading(w)' /\ (cache[w].id <= ids)'
  BY <1>4, <1>6, <1>8 DEF Reading
<1>10. OneRowPerEntry'
  BY <1>1, <1>4 DEF OneRowPerEntry, TypeOK
<1>11. DroppedForAReason'
  BY <1>1 DEF DroppedForAReason, Deleted
<1> QED
  BY <1>6, <1>7, <1>9, <1>10, <1>11

(* The registry: an id that was cached is not used again.                  *)
LEMMA RegistryMoves ==
  ASSUME Inv, RegisterSupplier \/ DeleteSupplier
  PROVE  Inv'
<1> USE DEF Inv
<1>1. UNCHANGED <<file, cursor, evidence, dropped, worker, cache, faults>>
  BY DEF RegisterSupplier, DeleteSupplier, tables
<1>2. supplier \in Nat /\ ids \in Nat /\ supplier <= ids /\ ids <= MaxSuppliers
  BY ConstantsAssumption DEF TypeOK
<1>3. ids' \in 0..MaxSuppliers /\ supplier' \in 0..ids' /\ ids' >= ids /\ (Deleted => Deleted')
  BY <1>2, ConstantsAssumption DEF RegisterSupplier, DeleteSupplier, Deleted
<1>4. TypeOK'
  BY <1>1, <1>3 DEF TypeOK
<1>5. FileWithinBounds' /\ OfKnownFile(cursor)' /\ CursorPassesNothing' /\ OneRowPerEntry'
  BY <1>1 DEF FileWithinBounds, OfKnownFile, CursorPassesNothing, OneRowPerEntry, Settled, Written
<1>6. \A w \in Worker : Reading(w)'
  BY <1>1 DEF Reading, OfKnownFile, Covers, Queued, Settled, Written
<1>7. \A w \in Worker : (cache[w].id <= ids)'
  <2>1. \A w \in Worker : cache[w].id \in Nat
    BY DEF TypeOK
  <2> QED
    BY <1>1, <1>2, <1>3, <2>1
<1>8. DroppedForAReason'
  BY <1>1, <1>3 DEF DroppedForAReason
<1> QED
  BY <1>4, <1>5, <1>6, <1>7, <1>8

LEMMA WorldKeepsInv ==
  ASSUME Inv, World
  PROVE  Inv'
<1>t. /\ file \in [number : 0..MaxRotations, before : 0..MaxEntries,
                   lines : 0..MaxEntries, half : BOOLEAN]
      /\ file.before + file.lines + (IF file.half THEN 1 ELSE 0) <= MaxEntries
      /\ MaxEntries \in Nat /\ MaxRotations \in Nat
  BY ConstantsAssumption DEF Inv, TypeOK, FileWithinBounds
<1>a. /\ {file.number, file.before, file.lines} \subseteq Nat
      /\ file.half \in BOOLEAN /\ file.number <= MaxRotations
  BY <1>t
<1>1. CASE WriteHalf
  <2>1. /\ UNCHANGED <<supplier, ids, tables, worker, cache, faults>>
        /\ ~file.half /\ file.before + file.lines < MaxEntries
        /\ file' = [file EXCEPT !.half = TRUE]
    BY <1>1 DEF WriteHalf
  <2>2. /\ file'.number = file.number /\ file'.before = file.before
        /\ file'.lines = file.lines /\ file'.half
        /\ file' \in [number : 0..MaxRotations, before : 0..MaxEntries,
                      lines : 0..MaxEntries, half : BOOLEAN]
    BY <1>t, <2>1
  <2>3. TypeOK'
    BY <2>1, <2>2 DEF Inv, TypeOK, tables
  <2>4. FileWithinBounds'
    BY <1>a, <1>t, <2>1, <2>2 DEF FileWithinBounds
  <2> QED
    BY <1>a, <2>1, <2>2, <2>3, <2>4, FileMoves
<1>2. CASE WriteRest
  <2>1. /\ UNCHANGED <<supplier, ids, tables, worker, cache, faults>>
        /\ file.half
        /\ file' = [file EXCEPT !.half = FALSE, !.lines = file.lines + 1]
    BY <1>2 DEF WriteRest
  <2>2. file.before + file.lines + 1 <= MaxEntries
    BY <1>t, <2>1
  <2>3. file.lines + 1 \in 0..MaxEntries
    BY <1>a, <1>t, <2>2
  <2>4. /\ file'.number = file.number /\ file'.before = file.before
        /\ file'.lines = file.lines + 1 /\ ~file'.half
        /\ file' \in [number : 0..MaxRotations, before : 0..MaxEntries,
                      lines : 0..MaxEntries, half : BOOLEAN]
    BY <1>t, <2>1, <2>3
  <2>5. TypeOK'
    BY <2>1, <2>4 DEF Inv, TypeOK, tables
  <2>6. FileWithinBounds'
    BY <1>a, <1>t, <2>2, <2>4 DEF FileWithinBounds
  <2> QED
    BY <1>a, <2>1, <2>4, <2>5, <2>6, FileMoves
<1>3. CASE Rotate
  <2>1. /\ UNCHANGED <<supplier, ids, tables, worker, cache, faults>>
        /\ file.number < MaxRotations
        /\ file' = [number |-> file.number + 1, before |-> file.before + file.lines,
                    lines |-> 0, half |-> FALSE]
    BY <1>3 DEF Rotate
  <2>2. file.before + file.lines <= MaxEntries
    BY FileFacts DEF Inv
  <2>3. file.before + file.lines \in 0..MaxEntries /\ file.number + 1 \in 0..MaxRotations
    BY <1>a, <1>t, <2>1, <2>2
  <2>4. /\ file'.number = file.number + 1 /\ file'.before = file.before + file.lines
        /\ file'.lines = 0 /\ ~file'.half
        /\ file' \in [number : 0..MaxRotations, before : 0..MaxEntries,
                      lines : 0..MaxEntries, half : BOOLEAN]
    BY <1>t, <2>1, <2>3
  <2>5. TypeOK'
    BY <2>1, <2>4 DEF Inv, TypeOK, tables
  <2>6. FileWithinBounds'
    BY <1>a, <1>t, <2>2, <2>4 DEF FileWithinBounds
  <2> QED
    BY <1>a, <2>1, <2>4, <2>5, <2>6, FileMoves
<1> QED
  BY <1>1, <1>2, <1>3, RegistryMoves DEF World

-----------------------------------------------------------------------------
(***************************************************************************)
(* The workers.  What one of them does leaves the others' cursors covered, *)
(* because what is settled stays settled.                                  *)
(***************************************************************************)
LEMMA WorkerMoves ==
  ASSUME Inv, NEW w \in Worker, NEW s \in WorkerState, worker' = [worker EXCEPT ![w] = s],
         UNCHANGED world, evidence' \in [Entry -> Nat], dropped' \subseteq Entry,
         \A e \in Entry : Settled(e) => Settled(e)',
         cursor' \in Cursor, OfKnownFile(cursor)', CursorPassesNothing',
         cache' \in [Worker -> [fresh : BOOLEAN, id : 0..MaxSuppliers]],
         \A v \in Worker : cache'[v].id <= ids,
         faults' \in 0..MaxFaults,
         OneRowPerEntry', DroppedForAReason', Reading(w)'
  PROVE  Inv'
<1> USE DEF Inv
<1>1. UNCHANGED <<file, supplier, ids>>
  BY DEF world
<1>2. /\ worker'[w] = s /\ \A v \in Worker \ {w} : worker'[v] = worker[v]
      /\ worker' \in [Worker -> WorkerState]
  BY DEF TypeOK
<1>3. TypeOK'
  BY <1>1, <1>2 DEF TypeOK
<1>4. FileWithinBounds'
  BY <1>1 DEF FileWithinBounds
<1>5. ASSUME NEW v \in Worker, v # w PROVE Reading(v)'
  <2>1. worker'[v] = worker[v]
    BY <1>2, <1>5
  <2>2. Covers(v) => Covers(v)'
    <3>1. \A k \in 1..(worker[v].at.offset \div 2) :
            k <= file.lines => file.before + k \in Entry
      BY FileFacts
    <3> QED
      BY <1>1, <2>1, <3>1 DEF Covers, Queued
  <2> QED
    BY <1>1, <2>1, <2>2 DEF Reading, OfKnownFile, Written
<1>6. \A v \in Worker : Reading(v)' /\ (cache[v].id <= ids)'
  BY <1>1, <1>5
<1> QED
  BY <1>3, <1>4, <1>6

(* The same when neither a row nor the saved cursor is touched.            *)
LEMMA WorkerLooks ==
  ASSUME Inv, NEW w \in Worker, NEW s \in WorkerState, worker' = [worker EXCEPT ![w] = s],
         UNCHANGED <<world, tables>>,
         cache' \in [Worker -> [fresh : BOOLEAN, id : 0..MaxSuppliers]],
         \A v \in Worker : cache'[v].id <= ids,
         faults' \in 0..MaxFaults, faults' >= faults, Reading(w)'
  PROVE  Inv'
<1>1. UNCHANGED <<file, supplier, ids, cursor, evidence, dropped>>
  BY DEF world, tables
<1>2. \A e \in Entry : Settled(e) => Settled(e)'
  BY <1>1 DEF Settled
<1>3. /\ evidence' \in [Entry -> Nat] /\ dropped' \subseteq Entry /\ cursor' \in Cursor
      /\ faults \in Nat /\ faults' \in Nat
  BY <1>1, ConstantsAssumption DEF Inv, TypeOK
<1>4. OfKnownFile(cursor)' /\ CursorPassesNothing' /\ OneRowPerEntry'
  BY <1>1 DEF Inv, OfKnownFile, CursorPassesNothing, OneRowPerEntry, Settled, Written
<1>5. DroppedForAReason'
  BY <1>1, <1>3 DEF Inv, DroppedForAReason, Deleted
<1> QED
  BY <1>2, <1>3, <1>4, <1>5, WorkerMoves

LEMMA CacheStays ==
  ASSUME Inv
  PROVE  /\ UNCHANGED cache =>
              /\ cache' \in [Worker -> [fresh : BOOLEAN, id : 0..MaxSuppliers]]
              /\ \A v \in Worker : cache'[v].id <= ids
         /\ UNCHANGED faults => faults' \in 0..MaxFaults /\ faults' >= faults
         /\ Fault => faults' \in 0..MaxFaults /\ faults' >= faults /\ faults' > 0
  BY ConstantsAssumption DEF Inv, TypeOK, Fault

(* A worker with nothing queued and a covered cursor is fine.              *)
LEMMA QuietReading ==
  ASSUME Inv, NEW w \in Worker, NEW s \in WorkerState, worker' = [worker EXCEPT ![w] = s],
         UNCHANGED <<world, tables>>,
         s.pc \in {"idle", "cursor", "read"}, s.todo = << >>,
         \/ s.at.offset = 0 /\ s.at.of <= file.number
         \/ s.at = cursor
         \/ s.pc \in {"idle", "cursor"} /\ OfKnownFile(s.at)
  PROVE  Reading(w)'
<1>1. worker'[w] = s /\ UNCHANGED <<file, cursor, evidence, dropped>>
  BY FileFacts DEF world, tables
<1>2. OfKnownFile(s.at)
  BY DEF Inv, OfKnownFile
<1>3. s.pc = "read" => Covers(w)'
  BY <1>1 DEF Inv, CursorPassesNothing, Covers, Settled
<1>4. Len(s.todo) = 0
  BY EmptySeq
<1> QED
  BY <1>1, <1>2, <1>3, <1>4 DEF Reading, OfKnownFile

-----------------------------------------------------------------------------
(* stat and the cursor                                                     *)
LEMMA StatKeepsInv ==
  ASSUME Inv, NEW w \in Worker, Stat(w) \/ ReadCursor(w)
  PROVE  Inv'
<1>t. /\ worker[w] \in WorkerState /\ Reading(w)
      /\ UNCHANGED <<world, tables, cache, faults>>
  BY FileFacts DEF Inv, Stat, ReadCursor
<1>1. CASE Stat(w)
  <2> DEFINE s == [worker[w] EXCEPT !.pc = "cursor", !.size = Size]
  <2>1. Size \in Nat
    BY FileFacts DEF Size
  <2>2. /\ s \in WorkerState /\ s.pc = "cursor"
        /\ s.todo = worker[w].todo /\ s.at = worker[w].at
    BY <1>t, <2>1 DEF WorkerState
  <2>3. worker' = [worker EXCEPT ![w] = s] /\ worker[w].pc = "idle"
    BY <1>1 DEF Stat
  <2> HIDE DEF s
  <2>4. Reading(w)'
    BY <1>t, <2>2, <2>3, QuietReading DEF Reading
  <2> QED
    BY <1>t, <2>2, <2>3, <2>4, WorkerLooks, CacheStays
<1>2. CASE ReadCursor(w)
  <2> DEFINE from == IF cursor.offset > worker[w].size THEN [cursor EXCEPT !.offset = 0]
                                                       ELSE cursor
             s == IF from.offset < worker[w].size
                  THEN [worker[w] EXCEPT !.pc = "read", !.at = from] ELSE Idle
  <2>1. worker' = [worker EXCEPT ![w] = s] /\ worker[w].pc = "cursor"
    BY <1>2 DEF ReadCursor
  <2>2. /\ from \in Cursor
        /\ from = cursor \/ (from.offset = 0 /\ from.of <= file.number)
    BY DEF Inv, TypeOK, Cursor, OfKnownFile
  <2> HIDE DEF from
  <2>3. CASE s = Idle
    <3>1. /\ s \in WorkerState /\ s.pc = "idle" /\ s.todo = << >>
          /\ s.at.offset = 0 /\ s.at.of <= file.number
      <4> HIDE DEF s
      <4>1. file.number \in Nat
        BY FileFacts
      <4> QED
        BY <2>3, <4>1, IdleIsIdle
    <3> HIDE DEF s
    <3>2. Reading(w)'
      BY <1>t, <2>1, <3>1, QuietReading
    <3> QED
      BY <1>t, <2>1, <3>1, <3>2, WorkerLooks, CacheStays
  <2>4. CASE s # Idle
    <3>1. s = [worker[w] EXCEPT !.pc = "read", !.at = from]
      BY <2>4
    <3>2. /\ s \in WorkerState /\ s.pc = "read"
          /\ s.todo = worker[w].todo /\ s.at = from
      BY <1>t, <2>2, <3>1 DEF WorkerState
    <3> HIDE DEF s
    <3>3. Reading(w)'
      BY <1>t, <2>1, <2>2, <3>2, QuietReading DEF Reading
    <3> QED
      BY <1>t, <2>1, <3>2, <3>3, WorkerLooks, CacheStays
  <2> QED
    BY <2>3, <2>4
<1> QED
  BY <1>1, <1>2

LEMMA AbortKeepsInv ==
  ASSUME Inv, NEW w \in Worker, Abort(w)
  PROVE  Inv'
<1>1. /\ worker' = [worker EXCEPT ![w] = Idle]
      /\ UNCHANGED <<world, tables, cache>> /\ Fault
  BY DEF Abort
<1>2. file.number \in Nat
  BY FileFacts
<1>3. Reading(w)'
  <2> DEFINE s == Idle
  <2>1. /\ s \in WorkerState /\ s.pc = "idle" /\ s.todo = << >>
        /\ s.at.offset = 0 /\ s.at.of <= file.number
    BY <1>2, IdleIsIdle
  <2>2. worker' = [worker EXCEPT ![w] = s]
    BY <1>1
  <2> HIDE DEF s
  <2> QED
    BY <1>1, <2>1, <2>2, QuietReading
<1> QED
  BY <1>1, <1>3, IdleIsIdle, CacheStays, WorkerLooks

-----------------------------------------------------------------------------
(***************************************************************************)
(* The read.  The n lines after the offset are queued, so the cursor that  *)
(* comes after them covers what the old one did and these.  From the head  *)
(* of a file nothing was behind the cursor, whichever file it counted.     *)
(***************************************************************************)
LEMMA TakeKeepsInv ==
  ASSUME Inv, NEW w \in Worker, worker[w].pc = "read",
         NEW n \in 0..Readable(w), Take(w, n, worker[w].at.offset + 2 * n),
         UNCHANGED <<world, tables, cache>>, faults' \in 0..MaxFaults, faults' >= faults
  PROVE  Inv'
<1> DEFINE off  == worker[w].at.offset
           todo == [k \in 1..n |-> file.before + (off \div 2) + k]
           of   == IF off = 0 THEN file.number ELSE worker[w].at.of
           at   == [offset |-> off + 2 * n, of |-> of]
           s    == [pc |-> PcFor(w, todo), size |-> 0, todo |-> todo, at |-> at]
<1>1. worker' = [worker EXCEPT ![w] = s]
  BY DEF Take
<1>2. /\ {off, worker[w].at.of, file.number, file.before, file.lines} \subseteq Nat
      /\ off % 2 = 0 /\ worker[w].at.of <= file.number
  BY FileFacts DEF Inv, Reading, OfKnownFile
<1>3. n \in Nat /\ \A j \in 1..n : (off \div 2) + j <= file.lines
  BY ReadableEndsInFile
<1>4. ASSUME NEW j \in 1..n
      PROVE  /\ (off \div 2) + j \in Nat \ {0}
             /\ file.before + (off \div 2) + j = file.before + ((off \div 2) + j)
             /\ file.before + ((off \div 2) + j) \in Entry \cap Written
  <2>1. off \div 2 \in Nat
    BY <1>2
  <2> DEFINE h == off \div 2
  <2> HIDE DEF h
  <2>2. h \in Nat /\ j \in Nat \ {0} /\ h + j <= file.lines
    BY <1>3, <2>1 DEF h
  <2>3. h + j \in Nat \ {0} /\ file.before + h + j = file.before + (h + j)
    BY <1>2, <2>2
  <2>4. file.before + (h + j) \in Entry
    BY <2>2, <2>3, FileFacts
  <2>5. file.before + (h + j) \in Written
    BY <1>2, <2>2, <2>3 DEF Written
  <2> QED
    BY <2>3, <2>4, <2>5 DEF h
<1>5. /\ todo \in [1..n -> Entry] /\ todo \in Seq(Entry) /\ Len(todo) = n
      /\ \A i \in 1..n : todo[i] \in Written
  BY <1>3, <1>4, SeqDef
<1>6. /\ of \in Nat /\ of <= file.number /\ off + 2 * n \in Nat
      /\ (off + 2 * n) % 2 = 0 /\ (off + 2 * n) \div 2 = (off \div 2) + n
  BY <1>2, <1>3
<1>7. /\ s \in WorkerState
      /\ s.pc \in {"lookup", "insert"} => todo # << >>
      /\ s.pc = "save" => todo = << >>
      /\ s.pc \in {"lookup", "insert", "save"}
  <2>1. at \in Cursor
    BY <1>6 DEF Cursor
  <2> HIDE DEF at, todo
  <2>2. PcFor(w, todo) \in {"lookup", "insert", "save"}
    BY DEF PcFor
  <2> QED
    BY <1>5, <2>1, <2>2 DEF PcFor, WorkerState
<1>8. /\ worker'[w].pc = s.pc /\ worker'[w].todo = todo
      /\ worker'[w].at.of = of /\ worker'[w].at.offset = off + 2 * n
  BY <1>1, FileFacts
<1>9. UNCHANGED <<file, evidence, dropped>>
  BY DEF world, tables
<1>10. Covers(w)'
  <2> SUFFICES ASSUME of = file.number, NEW k \in 1..((off \div 2) + n)
               PROVE  k <= file.lines
                        /\ (Settled(file.before + k)' \/ Queued(w, file.before + k)')
    BY <1>6, <1>8, <1>9 DEF Covers, Queued, Settled
  <2>1. CASE k <= off \div 2
    <3>1. off # 0 /\ k \in 1..(off \div 2)
      BY <1>2, <2>1
    <3>2. worker[w].at.of = file.number
      BY <3>1
    <3>3. Covers(w) /\ worker[w].todo = << >>
      BY DEF Inv, Reading
    <3>4. ~Queued(w, file.before + k)
      BY <3>3, EmptySeq DEF Queued
    <3> QED
      BY <1>9, <3>1, <3>2, <3>3, <3>4 DEF Covers, Settled
  <2>2. CASE ~(k <= off \div 2)
    <3> DEFINE h == off \div 2
    <3>1. h \in Nat
      BY <1>2
    <3> HIDE DEF h
    <3>2. k \in 1..(h + n) /\ ~(k <= h)
      BY <2>2 DEF h
    <3>3. PICK j \in 1..n : k = h + j
      <4>1. k - h \in 1..n /\ k = h + (k - h)
        BY <1>3, <3>1, <3>2
      <4> QED
        BY <4>1
    <3>4. k <= file.lines /\ todo[j] = file.before + k
      BY <1>3, <1>4, <3>3 DEF h
    <3>5. Queued(w, file.before + k)'
      BY <1>5, <1>8, <1>9, <3>4 DEF Queued
    <3> QED
      BY <3>4, <3>5
  <2> QED
    BY <2>1, <2>2
<1>11. Reading(w)'
  <2> HIDE DEF s, todo, of, off
  <2> QED
    BY <1>5, <1>6, <1>7, <1>8, <1>9, <1>10 DEF Reading, OfKnownFile, Written
<1>12. \A v \in Worker : cache'[v].id <= ids
  BY CacheStays
<1> QED
  BY <1>1, <1>7, <1>11, <1>12, CacheStays, WorkerLooks

LEMMA ReadKeepsInv ==
  ASSUME Inv, NEW w \in Worker, ReadFile(w) \/ ShortRead(w)
  PROVE  Inv'
<1>1. Readable(w) \in Nat
  BY ReadableEndsInFile
<1>2. CASE ReadFile(w)
  <2>1. Readable(w) \in 0..Readable(w)
    BY <1>1
  <2> QED
    BY <1>2, <2>1, TakeKeepsInv, CacheStays DEF ReadFile
<1>3. CASE ShortRead(w)
  <2>1. PICK n \in 0..(Readable(w) - 1) : Take(w, n, worker[w].at.offset + 2 * n)
    BY <1>3 DEF ShortRead
  <2>2. n \in 0..Readable(w)
    BY <1>1
  <2> QED
    BY <1>3, <2>1, <2>2, TakeKeepsInv, CacheStays DEF ShortRead
<1> QED
  BY <1>2, <1>3

-----------------------------------------------------------------------------
(* The supplier map                                                        *)
LEMMA CacheKeepsInv ==
  ASSUME Inv, NEW w \in Worker, LookUp(w) \/ CacheAges(w)
  PROVE  Inv'
<1>1. /\ UNCHANGED <<world, tables, faults>>
      /\ UNCHANGED <<file, evidence, dropped, supplier, ids>>
      /\ worker[w] \in WorkerState
  BY FileFacts DEF LookUp, CacheAges, world, tables
<1>2. /\ cache \in [Worker -> [fresh : BOOLEAN, id : 0..MaxSuppliers]]
      /\ \A v \in Worker : cache[v].id <= ids
      /\ supplier \in 0..MaxSuppliers /\ supplier <= ids
  BY ConstantsAssumption DEF Inv, TypeOK
<1>3. /\ cache' \in [Worker -> [fresh : BOOLEAN, id : 0..MaxSuppliers]]
      /\ \A v \in Worker : cache'[v].id <= ids
  <2>1. CASE LookUp(w)
    BY <1>2, <2>1 DEF LookUp
  <2>2. CASE CacheAges(w)
    BY <1>2, <2>2 DEF CacheAges
  <2> QED
    BY <2>1, <2>2
<1>4. CASE LookUp(w)
  <2> DEFINE s == [worker[w] EXCEPT !.pc = "insert"]
  <2>1. /\ worker' = [worker EXCEPT ![w] = s] /\ worker[w].pc = "lookup"
        /\ s \in WorkerState /\ s.pc = "insert" /\ s.todo = worker[w].todo /\ s.at = worker[w].at
    BY <1>1, <1>4 DEF LookUp, WorkerState
  <2> HIDE DEF s
  <2>2. worker'[w] = s
    BY <2>1, FileFacts
  <2>3. Reading(w)'
    BY <1>1, <2>1, <2>2 DEF Inv, Reading, OfKnownFile, Covers, Queued, Settled, Written
  <2> QED
    BY <1>1, <1>3, <2>1, <2>3, CacheStays, WorkerLooks
<1>5. CASE CacheAges(w)
  <2>1. worker' = worker
    BY <1>5 DEF CacheAges
  <2>2. worker' = [worker EXCEPT ![w] = worker[w]]
    BY <2>1, FileFacts
  <2>3. Reading(w)'
    BY <1>1, <2>1 DEF Inv, Reading, OfKnownFile, Covers, Queued, Settled, Written
  <2> QED
    BY <1>1, <1>3, <2>2, <2>3, CacheStays, WorkerLooks
<1> QED
  BY <1>4, <1>5

-----------------------------------------------------------------------------
(***************************************************************************)
(* The rows.  Once the first of the queue is settled, the rest of it and   *)
(* what is settled still make up all the cursor has behind it.             *)
(***************************************************************************)
LEMMA AdvanceKeepsReading ==
  ASSUME Inv, NEW w \in Worker, worker[w].pc = "insert", Advance(w), UNCHANGED world,
         NEW h \in Entry, h = Head(worker[w].todo), Settled(h)',
         \A e \in Entry : Settled(e) => Settled(e)'
  PROVE  /\ Reading(w)'
         /\ \E s \in WorkerState : worker' = [worker EXCEPT ![w] = s]
<1> DEFINE q == worker[w].todo
           todo == Tail(q)
           s == [worker[w] EXCEPT !.todo = todo, !.pc = PcFor(w, todo)]
<1>1. worker' = [worker EXCEPT ![w] = s] /\ UNCHANGED file
  BY DEF Advance, world
<1>2. worker[w] \in WorkerState /\ q \in Seq(Entry) /\ q # << >> /\ Covers(w)
  BY FileFacts DEF Inv, Reading, WorkerState
<1>3. /\ todo \in Seq(Entry) /\ Len(q) \in Nat \ {0} /\ Len(todo) = Len(q) - 1
      /\ \A i \in 1..Len(todo) : todo[i] = q[i + 1] /\ i + 1 \in 1..Len(q)
      /\ Head(q) = q[1]
  BY <1>2
<1>4. PcFor(w, todo) \in {"lookup", "insert", "save"}
  BY DEF PcFor
<1>5. /\ s \in WorkerState /\ s.at = worker[w].at /\ s.todo = todo /\ s.pc = PcFor(w, todo)
  BY <1>2, <1>3, <1>4 DEF WorkerState
<1> HIDE DEF s
<1>6. worker'[w] = s
  BY <1>1, FileFacts
<1>7. \A i \in 1..Len(todo) : todo[i] \in Written
  BY <1>3 DEF Inv, Reading
<1>8. Covers(w)'
  <2> SUFFICES ASSUME worker[w].at.of = file.number,
                      NEW k \in 1..(worker[w].at.offset \div 2)
               PROVE  k <= file.lines
                        /\ (Settled(file.before + k)' \/ Queued(w, file.before + k)')
    BY <1>1, <1>5, <1>6 DEF Covers, Settled, Queued
  <2>1. k <= file.lines /\ (Settled(file.before + k) \/ Queued(w, file.before + k))
    BY <1>2 DEF Covers
  <2>2. file.before + k \in Entry
    BY <2>1, FileFacts
  <2>3. CASE Settled(file.before + k)
    BY <1>1, <2>1, <2>2, <2>3
  <2>4. CASE Queued(w, file.before + k)
    <3>1. PICK i \in 1..Len(q) : q[i] = file.before + k
      BY <2>4 DEF Queued
    <3>2. CASE i = 1
      BY <1>1, <1>3, <2>1, <3>1, <3>2
    <3>3. CASE i # 1
      <4>1. i - 1 \in 1..Len(todo) /\ (i - 1) + 1 = i
        BY <1>3, <3>3
      <4>2. todo[i - 1] = file.before + k
        BY <1>3, <3>1, <4>1
      <4> QED
        BY <1>1, <1>5, <1>6, <2>1, <4>1, <4>2 DEF Queued
    <3> QED
      BY <3>2, <3>3
  <2> QED
    BY <2>1, <2>3, <2>4
<1>9. Reading(w)'
  <2> HIDE DEF todo
  <2> QED
    BY <1>1, <1>4, <1>5, <1>6, <1>7, <1>8 DEF Inv, Reading, OfKnownFile, Written, PcFor
<1> QED
  BY <1>1, <1>5, <1>9

LEMMA RowKeepsInv ==
  ASSUME Inv, NEW w \in Worker, InsertEvidence(w) \/ DropRow(w)
  PROVE  Inv'
<1>1. /\ worker[w].pc = "insert" /\ Advance(w) /\ UNCHANGED <<world, cursor, cache>>
      /\ UNCHANGED <<file, supplier, ids>>
  BY DEF InsertEvidence, DropRow, world
<1>2. /\ worker[w].todo \in Seq(Entry) /\ worker[w].todo # << >>
      /\ \A i \in 1..Len(worker[w].todo) : worker[w].todo[i] \in Written
  BY <1>1, FileFacts DEF Inv, Reading, WorkerState
<1>3. PICK e \in Entry : e = Head(worker[w].todo) /\ e \in Written
  <2>1. 1 \in 1..Len(worker[w].todo) /\ Head(worker[w].todo) = worker[w].todo[1]
        /\ Head(worker[w].todo) \in Entry
    BY <1>2
  <2> QED
    BY <1>2, <2>1
<1>4. /\ evidence \in [Entry -> Nat] /\ dropped \subseteq Entry /\ cursor \in Cursor
      /\ faults \in 0..MaxFaults /\ MaxFaults \in Nat
      /\ OfKnownFile(cursor) /\ CursorPassesNothing
      /\ OneRowPerEntry /\ DroppedForAReason
  BY ConstantsAssumption DEF Inv, TypeOK
<1>5. CASE InsertEvidence(w)
  <2>1. /\ evidence' = [evidence EXCEPT ![e] = IF evidence[e] = 0 THEN 1 ELSE evidence[e]]
        /\ UNCHANGED <<dropped, faults>>
    BY <1>3, <1>5 DEF InsertEvidence
  <2>2. evidence' \in [Entry -> Nat] /\ dropped' \subseteq Entry
    BY <1>4, <2>1
  <2>3. /\ \A f \in Entry : Settled(f) => Settled(f)'
        /\ Settled(e)'
    BY <1>3, <1>4, <2>1 DEF Settled
  <2>4. OneRowPerEntry'
    BY <1>1, <1>3, <1>4, <2>1 DEF OneRowPerEntry, Written
  <2>5. DroppedForAReason'
    BY <1>1, <1>4, <2>1 DEF DroppedForAReason, Deleted
  <2>6. PICK s \in WorkerState : worker' = [worker EXCEPT ![w] = s]
    BY <1>1, <1>3, <2>3, AdvanceKeepsReading
  <2>7. Reading(w)'
    BY <1>1, <1>3, <2>3, AdvanceKeepsReading
  <2>8. /\ cursor' \in Cursor /\ OfKnownFile(cursor)'
        /\ CursorPassesNothing'
    <3>1. \A k \in 1..(cursor.offset \div 2) : k <= file.lines => file.before + k \in Entry
      BY FileFacts
    <3> QED
      BY <1>1, <1>4, <2>3, <3>1 DEF OfKnownFile, CursorPassesNothing
  <2> QED
    BY <1>1, <2>1, <2>2, <2>3, <2>4, <2>5, <2>6, <2>7, <2>8, CacheStays, WorkerMoves
<1>6. CASE DropRow(w)
  <2>1. /\ dropped' = dropped \cup {e} /\ UNCHANGED evidence
        /\ IF Attributable(w, e) THEN Fault ELSE UNCHANGED faults
    BY <1>3, <1>6 DEF DropRow
  <2>2. evidence' \in [Entry -> Nat] /\ dropped' \subseteq Entry
    BY <1>3, <1>4, <2>1
  <2>3. /\ \A f \in Entry : Settled(f) => Settled(f)'
        /\ Settled(e)'
    BY <1>3, <1>4, <2>1 DEF Settled
  <2>4. OneRowPerEntry'
    BY <1>1, <1>4, <2>1 DEF OneRowPerEntry, Written
  <2>5. faults' \in 0..MaxFaults /\ faults' >= faults
    BY <2>1, CacheStays
  <2>6. faults' > 0 \/ (e \in Tenant /\ Deleted)
    <3>1. CASE Attributable(w, e)
      BY <2>1, <3>1, CacheStays
    <3>2. CASE ~Attributable(w, e)
      <4>1. /\ e \in Tenant /\ cache[w].id \notin {0, supplier}
            /\ cache[w].id \in Nat /\ cache[w].id <= ids
        BY <3>2 DEF Attributable, Inv, TypeOK
      <4>2. ids \in Nat /\ supplier \in 0..ids
        BY ConstantsAssumption DEF Inv, TypeOK
      <4> QED
        BY <4>1, <4>2 DEF Deleted
    <3> QED
      BY <3>1, <3>2
  <2>7. DroppedForAReason'
    BY <1>1, <1>4, <2>1, <2>5, <2>6 DEF DroppedForAReason, Deleted
  <2>8. PICK s \in WorkerState : worker' = [worker EXCEPT ![w] = s]
    BY <1>1, <1>3, <2>3, AdvanceKeepsReading
  <2>9. Reading(w)'
    BY <1>1, <1>3, <2>3, AdvanceKeepsReading
  <2>10. /\ cursor' \in Cursor /\ OfKnownFile(cursor)'
         /\ CursorPassesNothing'
    <3>1. \A k \in 1..(cursor.offset \div 2) : k <= file.lines => file.before + k \in Entry
      BY FileFacts
    <3> QED
      BY <1>1, <1>4, <2>3, <3>1 DEF OfKnownFile, CursorPassesNothing
  <2> QED
    BY <1>1, <2>2, <2>3, <2>4, <2>5, <2>7, <2>8, <2>9, <2>10, CacheStays, WorkerMoves
<1> QED
  BY <1>5, <1>6

(* The cursor that is saved has nothing queued behind it any more.         *)
LEMMA SaveKeepsInv ==
  ASSUME Inv, NEW w \in Worker, SaveCursor(w)
  PROVE  Inv'
<1>1. /\ worker[w].pc = "save" /\ cursor' = worker[w].at
      /\ worker' = [worker EXCEPT ![w] = Idle]
      /\ UNCHANGED <<world, evidence, dropped, cache, faults>>
      /\ UNCHANGED <<file, supplier, ids>>
  BY DEF SaveCursor, world
<1>2. /\ worker[w] \in WorkerState /\ worker[w].at \in Cursor /\ Reading(w)
      /\ worker[w].todo = << >> /\ Covers(w)
  BY <1>1, FileFacts DEF Inv, Reading, WorkerState
<1>3. \A e : ~Queued(w, e)
  BY <1>2, EmptySeq DEF Queued
<1>4. \A e : Settled(e)' <=> Settled(e)
  BY <1>1 DEF Settled
<1>5. cursor' \in Cursor /\ OfKnownFile(cursor)'
  BY <1>1, <1>2 DEF OfKnownFile, Reading
<1>6. CursorPassesNothing'
  BY <1>1, <1>2, <1>3, <1>4 DEF CursorPassesNothing, Covers
<1>7. Reading(w)'
  <2>1. worker'[w] = Idle /\ Len(<< >>) = 0 /\ file.number \in Nat
    BY <1>1, FileFacts, EmptySeq
  <2> QED
    BY <1>1, <2>1, IdleIsIdle DEF Reading, OfKnownFile
<1>8. /\ evidence' \in [Entry -> Nat] /\ dropped' \subseteq Entry
      /\ OneRowPerEntry' /\ DroppedForAReason'
  BY <1>1 DEF Inv, TypeOK, OneRowPerEntry, DroppedForAReason, Written, Deleted
<1>9. Idle \in WorkerState
  BY IdleIsIdle
<1> QED
  BY <1>1, <1>4, <1>5, <1>6, <1>7, <1>8, <1>9, CacheStays, WorkerMoves

-----------------------------------------------------------------------------
LEMMA StepKeepsInv == Inv /\ [Next]_vars => Inv'
<1> SUFFICES ASSUME Inv, [Next]_vars PROVE Inv'
  OBVIOUS
<1>1. CASE World
  BY <1>1, WorldKeepsInv
<1>2. ASSUME NEW w \in Worker, ingestAuditLog(w) \/ CacheAges(w) \/ Abort(w) PROVE Inv'
  BY <1>2, StatKeepsInv, ReadKeepsInv, CacheKeepsInv, RowKeepsInv, SaveKeepsInv, AbortKeepsInv
     DEF ingestAuditLog
<1>3. CASE UNCHANGED vars
  BY <1>3 DEF vars, world, tables, Inv, TypeOK, FileWithinBounds, OfKnownFile,
              CursorPassesNothing, Reading, Covers, Queued, OneRowPerEntry,
              DroppedForAReason, Deleted, Settled, Written
<1> QED
  BY <1>1, <1>2, <1>3 DEF Next

LEMMA Invariance == Spec => []Inv
  BY InitInv, StepKeepsInv, PTL DEF Spec

(* Type correctness.                                                       *)
THEOREM TypeCorrect == Spec => []TypeOK
<1>1. Inv => TypeOK
  BY DEF Inv
<1> QED
  BY <1>1, Invariance, PTL

(***************************************************************************)
(* ingest_cursor never passes a line that has neither its row nor been     *)
(* given up, in whatever order the workers save, and wherever they crash.  *)
(***************************************************************************)
THEOREM CursorNeverPasses == Spec => []CursorPassesNothing
<1>1. Inv => CursorPassesNothing
  BY DEF Inv
<1> QED
  BY <1>1, Invariance, PTL

(* However often a line is read, one row at most is made for its entry.    *)
THEOREM OneRowEach == Spec => []OneRowPerEntry
<1>1. Inv => OneRowPerEntry
  BY DEF Inv
<1> QED
  BY <1>1, Invariance, PTL

(***************************************************************************)
(* An entry whose INSERT is given up met a database error or the id of a   *)
(* supplier that was deleted after it was cached.                          *)
(***************************************************************************)
THEOREM DropsHaveReasons == Spec => []DroppedForAReason
<1>1. Inv => DroppedForAReason
  BY DEF Inv
<1> QED
  BY <1>1, Invariance, PTL
=============================================================================
