------------------------------ MODULE UnitQueue ------------------------------
(***************************************************************************)
(* CUnitQueue (queue.cpp): the pool of packet buffers of a multiplexer.    *)
(* The worker of the receiving queue looks for a free unit for each        *)
(* datagram and CRcvBuffer::addData marks it used; the readers of the      *)
(* sockets free units from their own threads.  Nothing guards m_iCount: an *)
(* increment and a decrement are a load and a store each, so updates get   *)
(* lost and the count drifts from the marks.  Used with 32 units an entry  *)
(* and nine tenths; here both are constants.                               *)
(***************************************************************************)
EXTENDS Integers, FiniteSets

CONSTANTS EntrySize,     \* units of one CQEntry
          MaxEntries,    \* bound: entries that can be allocated
          FullNum, FullDen,  \* the share of used units from which the pool grows
          Readers,       \* threads that free units
          MaxDrift       \* bound: how far below zero the count may get

VARIABLES pool,      \* entries, marks (m_iFlag) and the place of the search
          count,     \* m_iCount
          worker,    \* what the worker is about to do, with the value it loaded
          reader,    \* of each reader: NoValue, Freed, or what it will store
          missed     \* times in a row no unit was found although one was free

unitVars == <<pool, count, worker, reader, missed>>

NoValue == -MaxDrift - 2   \* no count
Freed == -MaxDrift - 3     \* a unit was freed and the count not read yet
UnitCount(p) == p.entries * EntrySize
UnitsOf(e) == {<<e, i>> : i \in 0 .. (EntrySize - 1)}
UnitsIn(p) == UNION {UnitsOf(e) : e \in 0 .. (p.entries - 1)}

\* Where the search can ever find one: the last unit of an entry is only the
\* sentinel of the loop.
Usable(p) == {u \in UnitsIn(p) : u[2] # EntrySize - 1}

\* init.
UnitInit ==
    /\ pool = [entries |-> 1, used |-> {}, entry |-> 0, avail |-> 0]
    /\ count = 0
    /\ worker = [pc |-> "look", value |-> NoValue]
    /\ reader = [r \in Readers |-> NoValue]
    /\ missed = 0

\* increase: the count is corrected from the marks, and an entry added where
\* they confirm it, unless there is no memory.
Grown(p) ==
    IF Cardinality(p.used) * FullDen >= UnitCount(p) * FullNum /\ p.entries < MaxEntries
    THEN [p EXCEPT !.entries = @ + 1] ELSE p

\* Variant: the count is left as it drifted.
NotCorrected(p, c) == c
Corrected(p, c) == Cardinality(p.used)

\* The units the search visits, in its order: the rest of its entry without
\* the sentinel, the first of that entry, and the other entries likewise.
VisitedIn(p, e, from) == {<<e, i>> : i \in from .. (EntrySize - 2)} \cup {<<e, 0>>}
Later(p, k) == (p.entry + k) % p.entries

Start(p, k) == IF k = 0 THEN p.avail ELSE 0

\* How many entries it passes over before one has a free unit for it.
FreeAt(p, k) == VisitedIn(p, Later(p, k), Start(p, k)) \ p.used
Hits(p) == {k \in 0 .. (p.entries - 1) : FreeAt(p, k) # {}}

\* The unit it stops at: the first free one of the entry, unit 0 last.
FirstFree(units, from) ==
    LET ahead == {u \in units : u[2] >= from}
        among == IF ahead = {} THEN units ELSE ahead
    IN  CHOOSE u \in among : \A v \in among : u[2] <= v[2]

-----------------------------------------------------------------------------
(* getNextAvailUnit, in the worker, and what it does with the unit.        *)

NearlyFull == count * FullDen > UnitCount(pool) * FullNum

\* The pool is looked after before the search.
Look ==
    /\ worker.pc = "look"
    /\ pool' = IF NearlyFull THEN Grown(pool) ELSE pool
    /\ count' = IF NearlyFull THEN Corrected(pool, count) ELSE count
    /\ worker' = [worker EXCEPT !.pc = "search"]
    /\ UNCHANGED <<reader, missed>>

\* No unit: the datagram is read and thrown away.
Miss(p, c) ==
    /\ pool' = p /\ count' = c
    /\ missed' = IF Usable(pool) \subseteq pool.used THEN 0 ELSE missed + 1
    /\ worker' = [worker EXCEPT !.pc = "look"]

Search ==
    /\ worker.pc = "search"
    /\ UNCHANGED reader
    /\ IF count >= UnitCount(pool) THEN Miss(pool, count)
       ELSE IF Hits(pool) = {}
       THEN Miss(Grown([pool EXCEPT !.avail = 0]), Corrected(pool, count))
       ELSE LET k == CHOOSE k \in Hits(pool) : \A j \in Hits(pool) : k <= j
                u == FirstFree(FreeAt(pool, k), Start(pool, k))
            IN  /\ pool' = [pool EXCEPT !.entry = u[1], !.avail = u[2]]
                /\ worker' = [worker EXCEPT !.pc = "fill"]
                /\ missed' = 0
                /\ UNCHANGED count

\* The datagram is not data, or is refused: the unit was never marked.
Refuse ==
    /\ worker.pc = "fill"
    /\ worker' = [worker EXCEPT !.pc = "look"]
    /\ UNCHANGED <<pool, count, reader, missed>>

\* addData marks it and loads the count.
AddData ==
    /\ worker.pc = "fill"
    /\ pool' = [pool EXCEPT !.used = @ \cup {<<pool.entry, pool.avail>>}]
    /\ worker' = [pc |-> "store", value |-> count + 1]
    /\ UNCHANGED <<count, reader, missed>>

StoreCount ==
    /\ worker.pc = "store"
    /\ count' = worker.value
    /\ worker' = [pc |-> "look", value |-> NoValue]
    /\ UNCHANGED <<pool, reader, missed>>

-----------------------------------------------------------------------------
(* readBuffer, readBufferToFile, readMsg, dropMsg and the destructor, in a *)
(* reader.                                                                 *)

Free(r, u) ==
    /\ reader[r] = NoValue /\ u \in pool.used /\ count >= -MaxDrift
    /\ pool' = [pool EXCEPT !.used = @ \ {u}]
    /\ reader' = [reader EXCEPT ![r] = Freed]
    /\ UNCHANGED <<count, worker, missed>>

LoadFreed(r) ==
    /\ reader[r] = Freed
    /\ reader' = [reader EXCEPT ![r] = count - 1]
    /\ UNCHANGED <<pool, count, worker, missed>>

StoreFreed(r) ==
    /\ reader[r] \notin {NoValue, Freed}
    /\ count' = reader[r]
    /\ reader' = [reader EXCEPT ![r] = NoValue]
    /\ UNCHANGED <<pool, worker, missed>>

UnitNext ==
    \/ Look \/ Search \/ Refuse \/ AddData \/ StoreCount
    \/ \E r \in Readers : LoadFreed(r) \/ StoreFreed(r) \/ \E u \in UnitsIn(pool) : Free(r, u)

UnitSpec == UnitInit /\ [][UnitNext]_unitVars

\* However far the count has drifted, the worker does not turn datagrams away
\* for long while there is room: of the searches of getNextAvailUnit that begin
\* with a unit free that they could hand out, no two in a row come back empty.
FreeUnitIsFound == missed <= 1
=============================================================================
