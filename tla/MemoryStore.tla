----------------------------- MODULE MemoryStore ------------------------------
(***************************************************************************)
(* The memories of the agents: a vector and a row per entry, in two        *)
(* databases that several processes share (the daemon, the web chat), and  *)
(* the index each process keeps in its own memory.  store() writes the     *)
(* vector, then the row, then evicts what exceeds the limit; every         *)
(* statement is a step of its own, for the other processes run between     *)
(* them.  Within a process only the await before the row lets another      *)
(* store in.                                                               *)
(***************************************************************************)
EXTENDS Naturals, FiniteSets, Sequences, SequencesExt

CONSTANTS
  Entry,        \* one memory for each call of store()
  MProc,        \* processes that opened the databases
  Home,         \* the process that stores an entry
  MemoryMax,    \* config.memoryMaxEntries
  MaxCuts       \* bound: crashes and statements that throw

ASSUME MemoryAssumption ==
  /\ IsFiniteSet(Entry)
  /\ Home \in [Entry -> MProc]
  /\ MemoryMax \in Nat \ {0}
  /\ MaxCuts \in Nat

VARIABLES
  vectors,  \* table embeddings, in the vector store's file
  rows,     \* table memory_entries, oldest first
  index,    \* the KD-tree of each process, as the set of its entries
  at,       \* where each store() is
  doomed,   \* rows a store() still has to evict
  excess,   \* how many it counted
  cut,      \* history: entries a crash or an exception touched
  cuts

mvars == <<vectors, rows, index, at, doomed, excess, cut, cuts>>

\* From the row to the end a store() awaits nothing.
Sync == {"outcome", "count", "pick", "evict", "evictRow"}

MTypeOK ==
  /\ vectors \subseteq Entry
  /\ rows \in Seq(Entry) /\ IsInjective(rows)
  /\ index \in [MProc -> SUBSET Entry]
  /\ at \in [Entry -> Sync \cup {"new", "row", "stored", "failed", "lost"}]
  /\ doomed \in [Entry -> Seq(Entry)]
  /\ excess \in [Entry -> 0..Cardinality(Entry)]
  /\ cut \subseteq Entry
  /\ cuts \in 0..MaxCuts

MInit ==
  /\ vectors = {} /\ rows = <<>>
  /\ index = [p \in MProc |-> {}]
  /\ at = [e \in Entry |-> "new"]
  /\ doomed = [e \in Entry |-> <<>>]
  /\ excess = [e \in Entry |-> 0]
  /\ cut = {} /\ cuts = 0

\* No store() of the same process is in the middle of its statements.
Turn(e) == \A d \in Entry \ {e} : Home[d] = Home[e] => at[d] \notin Sync

At(e, where) == at[e] = where /\ Turn(e)

Goto(e, where) == at' = [at EXCEPT ![e] = where]

\* vectorStore.delete: the index is rebuilt from the table when a vector went.
DeleteVector(e, p) ==
  /\ vectors' = vectors \ {e}
  /\ index' = IF e \in vectors
              THEN [index EXCEPT ![p] = vectors \ {e}] ELSE index

\* One more statement throws.
Throws(e) == cuts < MaxCuts /\ cuts' = cuts + 1 /\ cut' = cut \cup {e}

-----------------------------------------------------------------------------
\* embedAndStore: redaction, permission and embedding are over.
StoreVector(e) ==
  /\ At(e, "new")
  /\ vectors' = vectors \cup {e}
  /\ index' = [index EXCEPT ![Home[e]] = @ \cup {e}]
  /\ Goto(e, "row")
  /\ UNCHANGED <<rows, doomed, excess, cut, cuts>>

InsertRow(e) ==
  /\ At(e, "row")
  /\ rows' = Append(rows, e)
  /\ Goto(e, "outcome")
  /\ UNCHANGED <<vectors, index, doomed, excess, cut, cuts>>

WriteOutcome(e) ==
  /\ At(e, "outcome")
  /\ Goto(e, "count")
  /\ UNCHANGED <<vectors, rows, index, doomed, excess, cut, cuts>>

\* A limit that lets one more in.
CountLoosely(e) ==
  /\ At(e, "count")
  /\ excess' = [excess EXCEPT ![e] =
       IF Len(rows) <= MemoryMax + 1 THEN 0 ELSE Len(rows) - MemoryMax]
  /\ Goto(e, IF Len(rows) <= MemoryMax + 1 THEN "stored" ELSE "pick")
  /\ UNCHANGED <<vectors, rows, index, doomed, cut, cuts>>

CountRows(e) ==
  /\ At(e, "count")
  /\ excess' = [excess EXCEPT ![e] =
       IF Len(rows) <= MemoryMax THEN 0 ELSE Len(rows) - MemoryMax]
  /\ Goto(e, IF Len(rows) <= MemoryMax THEN "stored" ELSE "pick")
  /\ UNCHANGED <<vectors, rows, index, doomed, cut, cuts>>

\* The oldest rows, as many as were counted too many a statement ago.
PickOldest(e) ==
  /\ At(e, "pick")
  /\ doomed' = [doomed EXCEPT ![e] =
       SubSeq(rows, 1, IF excess[e] < Len(rows) THEN excess[e] ELSE Len(rows))]
  /\ Goto(e, IF rows = <<>> THEN "stored" ELSE "evict")
  /\ UNCHANGED <<vectors, rows, index, excess, cut, cuts>>

\* An eviction that forgets the vector.
EvictRowOnly(e) ==
  /\ At(e, "evict")
  /\ Goto(e, "evictRow")
  /\ UNCHANGED <<vectors, index, rows, doomed, excess, cut, cuts>>

EvictVector(e) ==
  /\ At(e, "evict")
  /\ DeleteVector(Head(doomed[e]), Home[e])
  /\ Goto(e, "evictRow")
  /\ UNCHANGED <<rows, doomed, excess, cut, cuts>>

NextDoomed(e) ==
  /\ doomed' = [doomed EXCEPT ![e] = Tail(@)]
  /\ Goto(e, IF Len(doomed[e]) = 1 THEN "stored" ELSE "evict")

\* DELETE of one id, which another process may have deleted.
RowsWithout(d) ==
  IF d \in ToSet(rows)
  THEN RemoveAt(rows, CHOOSE i \in DOMAIN rows : rows[i] = d) ELSE rows

EvictRow(e) ==
  /\ At(e, "evictRow")
  /\ rows' = RowsWithout(Head(doomed[e]))
  /\ NextDoomed(e)
  /\ UNCHANGED <<vectors, index, excess, cut, cuts>>

\* An eviction that throws is logged; the next one is tried.
EvictionThrows(e) ==
  /\ At(e, "evict") \/ At(e, "evictRow")
  /\ Throws(Head(doomed[e]))
  /\ NextDoomed(e)
  /\ UNCHANGED <<vectors, index, rows, excess>>

\* Anything else that throws deletes the vector again, also when the row is
\* already there; the deletion may throw too.
StoreThrows(e) ==
  /\ At(e, "row") \/ At(e, "outcome") \/ At(e, "count") \/ At(e, "pick")
  /\ Throws(e)
  /\ Goto(e, "failed")
  /\ DeleteVector(e, Home[e]) \/ UNCHANGED <<vectors, index>>
  /\ UNCHANGED <<rows, doomed, excess>>

\* The process ends in the middle of its statements and is started again.
MCrash(p) ==
  LET mine == {e \in Entry : Home[e] = p /\ at[e] \in Sync \cup {"row"}} IN
  /\ mine # {} /\ cuts < MaxCuts
  /\ cuts' = cuts + 1
  /\ cut' = cut \cup mine \cup UNION {ToSet(doomed[e]) : e \in mine}
  /\ at' = [e \in Entry |-> IF e \in mine THEN "lost" ELSE at[e]]
  /\ doomed' = [e \in Entry |-> IF e \in mine THEN <<>> ELSE doomed[e]]
  /\ index' = [index EXCEPT ![p] = vectors]
  /\ UNCHANGED <<vectors, rows, excess>>

MNext ==
  \/ \E e \in Entry :
       \/ StoreVector(e) \/ InsertRow(e) \/ WriteOutcome(e)
       \/ CountRows(e) \/ PickOldest(e) \/ EvictVector(e) \/ EvictRow(e)
       \/ EvictionThrows(e) \/ StoreThrows(e)
  \/ \E p \in MProc : MCrash(p)

MSpec == MInit /\ [][MNext]_mvars

-----------------------------------------------------------------------------
\* An entry being written, or being evicted by somebody.
InFlux(e) ==
  \/ at[e] = "row"
  \/ \E d \in Entry : at[d] = "evictRow" /\ Head(doomed[d]) = e

\* query() reaches a row by its vector, through the index of its process:
\* what no crash and no exception touched has both or neither, and the
\* process that stored it finds it, whatever the others store and evict.
FindableUnlessCut ==
  \A e \in Entry \ cut : ~InFlux(e) =>
    /\ e \in vectors <=> e \in ToSet(rows)
    /\ e \in vectors => e \in index[Home[e]]

\* When nobody stores, the rows exceed the limit by no more than the stores
\* and evictions that were cut short.
WithinLimit ==
  (\A e \in Entry : at[e] \notin Sync) =>
    Len(rows) <= MemoryMax + Cardinality(cut)
=============================================================================
