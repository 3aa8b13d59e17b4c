-------------------------------- MODULE Heap --------------------------------
(***************************************************************************)
(* The shared-memory allocator of billiard/heap.py: malloc, called by      *)
(* threads, and free, called by finalizers that the garbage collector may  *)
(* run in any thread at any moment, also in the one that is inside malloc. *)
(* The indexes by start, by stop and by length hold the same free blocks   *)
(* and are one set; which of several blocks of one length malloc takes is  *)
(* left open.                                                              *)
(***************************************************************************)
EXTENDS Integers, Sequences, FiniteSets, FiniteSetsExt

CONSTANTS
  HeapThreads,  \* the threads of the process
  NoThread,     \* stands for no thread
  Sizes,        \* sizes that are asked for
  Align,        \* _alignment
  PageSize,     \* mmap.PAGESIZE and the initial _size
  HeapCalls     \* bound: calls of malloc

ASSUME HeapAssumption ==
  /\ NoThread \notin HeapThreads
  /\ Sizes \subseteq Nat /\ HeapCalls \in Nat
  /\ Align \in Nat \ {0} /\ PageSize \in Nat \ {0}

VARIABLES
  heapSize,     \* _size: the least length of the next arena
  heapArenas,   \* _arenas: their lengths
  heapFree,     \* the free blocks
  heapAlloc,    \* _allocated_blocks
  heapPending,  \* _pending_free_blocks
  heapOwned,    \* blocks in use: returned by malloc and not yet passed to free
  heapLock,     \* holder of _lock
  heapPc,       \* thread -> "idle" or where it is in malloc or free
  heapArg,      \* thread -> the block to be freed, or one of the size asked for
  heapCalls     \* calls of malloc so far

heapVars == <<heapSize, heapArenas, heapFree, heapAlloc, heapPending, heapOwned,
              heapLock, heapPc, heapArg, heapCalls>>

Block(a, i, j) == [arena |-> a, start |-> i, stop |-> j]
Length(b) == b.stop - b.start

\* _roundup
Roundup(n, a) == ((n + a - 1) \div a) * a

\* Mutant of Insert: the block is not merged with the one before it.
InsertForward(free, b) ==
  LET next == {f \in free : f.arena = b.arena /\ f.start = b.stop}
      stop == IF next = {} THEN b.stop ELSE (CHOOSE f \in next : TRUE).stop
  IN (free \ next) \cup {Block(b.arena, b.start, stop)}

\* _free and _absorb: the free blocks once b is merged with its neighbours.
Insert(free, b) ==
  LET prev  == {f \in free : f.arena = b.arena /\ f.stop = b.start}
      next  == {f \in free : f.arena = b.arena /\ f.start = b.stop}
      start == IF prev = {} THEN b.start ELSE (CHOOSE f \in prev : TRUE).start
      stop  == IF next = {} THEN b.stop ELSE (CHOOSE f \in next : TRUE).stop
  IN (free \ (prev \cup next)) \cup {Block(b.arena, start, stop)}

HeapInit ==
  /\ heapSize = PageSize /\ heapArenas = <<>>
  /\ heapFree = {} /\ heapAlloc = {} /\ heapPending = {} /\ heapOwned = {}
  /\ heapLock = NoThread
  /\ heapPc = [t \in HeapThreads |-> "idle"]
  /\ heapArg = [t \in HeapThreads |-> Block(0, 0, 0)]
  /\ heapCalls = 0

\* malloc enters "with self._lock".
Malloc(t, size) ==
  /\ heapPc[t] = "idle" /\ heapCalls < HeapCalls
  /\ heapLock = NoThread
  /\ heapLock' = t
  /\ heapCalls' = heapCalls + 1
  /\ heapArg' = [heapArg EXCEPT ![t] = Block(0, 0, size)]
  /\ heapPc' = [heapPc EXCEPT ![t] = "malloc"]
  /\ UNCHANGED <<heapSize, heapArenas, heapFree, heapAlloc, heapPending, heapOwned>>

\* free gets the lock at once ...
Free(t, b) ==
  /\ heapPc[t] = "idle" /\ b \in heapOwned
  /\ heapLock = NoThread
  /\ heapLock' = t
  /\ heapOwned' = heapOwned \ {b}
  /\ heapArg' = [heapArg EXCEPT ![t] = b]
  /\ heapPc' = [heapPc EXCEPT ![t] = "free"]
  /\ UNCHANGED <<heapSize, heapArenas, heapFree, heapAlloc, heapPending, heapCalls>>

\* Mutant of FreeLater: free waits for the lock.
FreeBlocks(t, b) ==
  /\ heapLock # NoThread /\ b \in heapOwned
  /\ heapOwned' = heapOwned \ {b}
  /\ heapPc' = [heapPc EXCEPT ![t] = "blocked"]
  /\ UNCHANGED <<heapSize, heapArenas, heapFree, heapAlloc, heapPending, heapLock,
                 heapArg, heapCalls>>

\* ... or puts the block aside.  The garbage collector calls it in any thread
\* t, which may be the one that holds the lock, without otherwise disturbing it.
FreeLater(t, b) ==
  /\ heapLock # NoThread /\ b \in heapOwned
  /\ heapOwned' = heapOwned \ {b}
  /\ heapPending' = heapPending \cup {b}
  /\ UNCHANGED <<heapSize, heapArenas, heapFree, heapAlloc, heapLock, heapPc,
                 heapArg, heapCalls>>

\* One round of _free_pending_blocks
DrainOne(t, b) ==
  /\ heapPc[t] \in {"malloc", "free"} /\ b \in heapPending
  /\ heapPending' = heapPending \ {b}
  /\ heapAlloc' = heapAlloc \ {b}
  /\ heapFree' = Insert(heapFree, b)
  /\ UNCHANGED <<heapSize, heapArenas, heapOwned, heapLock, heapPc, heapArg, heapCalls>>

\* The pop that finds the list empty ends it; blocks put aside from now on wait
\* for the next call.
DrainEnd(t) ==
  /\ heapPc[t] \in {"malloc", "free"} /\ heapPending = {}
  /\ heapPc' = [heapPc EXCEPT ![t] = IF @ = "malloc" THEN "take" ELSE "give"]
  /\ UNCHANGED <<heapSize, heapArenas, heapFree, heapAlloc, heapPending, heapOwned,
                 heapLock, heapArg, heapCalls>>

\* _malloc takes a shortest block that is long enough, or a new arena, and
\* malloc gives back what it need not have.
Allocate(t) ==
  /\ heapPc[t] = "take"
  /\ LET size == Roundup(Max({Length(heapArg[t]), 1}), Align)
         fits == {f \in heapFree : Length(f) >= size}
         new  == Roundup(Max({heapSize, size}), PageSize)
         from == IF fits = {} THEN {Block(Len(heapArenas) + 1, 0, new)}
                 ELSE {f \in fits : \A g \in fits : Length(f) <= Length(g)}
     IN \E f \in from :
          LET b == Block(f.arena, f.start, f.start + size)
              rest == heapFree \ {f}
          IN
          /\ heapAlloc' = heapAlloc \cup {b}
          /\ heapOwned' = heapOwned \cup {b}
          /\ heapFree' = IF b.stop < f.stop
                         THEN Insert(rest, Block(f.arena, b.stop, f.stop)) ELSE rest
          /\ heapArenas' = IF fits = {} THEN Append(heapArenas, new) ELSE heapArenas
          /\ heapSize' = IF fits = {} THEN heapSize * 2 ELSE heapSize
  /\ heapPc' = [heapPc EXCEPT ![t] = "return"]
  /\ UNCHANGED <<heapPending, heapLock, heapArg, heapCalls>>

\* free frees its own block.
FreeNow(t) ==
  /\ heapPc[t] = "give"
  /\ heapAlloc' = heapAlloc \ {heapArg[t]}
  /\ heapFree' = Insert(heapFree, heapArg[t])
  /\ heapPc' = [heapPc EXCEPT ![t] = "return"]
  /\ UNCHANGED <<heapSize, heapArenas, heapPending, heapOwned, heapLock, heapArg,
                 heapCalls>>

\* The lock is released.
HeapReturn(t) ==
  /\ heapPc[t] = "return"
  /\ heapLock' = NoThread
  /\ heapArg' = [heapArg EXCEPT ![t] = Block(0, 0, 0)]
  /\ heapPc' = [heapPc EXCEPT ![t] = "idle"]
  /\ UNCHANGED <<heapSize, heapArenas, heapFree, heapAlloc, heapPending, heapOwned,
                 heapCalls>>

HeapStep(t) ==
  (\E b \in heapPending : DrainOne(t, b)) \/ DrainEnd(t)
  \/ Allocate(t) \/ FreeNow(t) \/ HeapReturn(t)

HeapNext ==
  \E t \in HeapThreads :
    \/ \E size \in Sizes : Malloc(t, size)
    \/ \E b \in heapOwned : Free(t, b) \/ FreeLater(t, b)
    \/ HeapStep(t)

HeapSpec == HeapInit /\ [][HeapNext]_heapVars

\* The thread that holds the lock goes on.
HeapProgress == \E t \in HeapThreads : HeapStep(t)
HeapFairness == WF_heapVars(HeapProgress)

\* The blocks that are not free: allocated ones, pending ones included.
Covers(b, a, i) == b.arena = a /\ b.start <= i /\ i < b.stop

\* Every byte of every arena is in exactly one block, free or allocated: no two
\* users share memory and none of it leaks, whichever frees were put aside.
HeapPartition ==
  \A a \in DOMAIN heapArenas : \A i \in 0..(heapArenas[a] - 1) :
    /\ Cardinality({b \in heapFree \cup heapAlloc : Covers(b, a, i)}) = 1
    /\ heapFree \cap heapAlloc = {}

\* Free blocks never touch: freed neighbours are merged whatever the order in
\* which they are freed, so that a later malloc can use them as one.
HeapCoalesced == \A f, g \in heapFree : f.arena = g.arena => f.stop # g.start

\* Blocks in use, put aside or about to be freed are exactly the allocated
\* ones: a free that found the lock taken is neither lost nor done twice.
HeapPendingKept ==
  heapAlloc = heapOwned \cup heapPending
              \cup {heapArg[t] : t \in {u \in HeapThreads : heapPc[u] \in {"free", "give"}}}

\* The blocks partition the arenas, free neighbours are merged, and a free that
\* was put aside is done once.
HeapSafe ==
  /\ HeapPartition
  /\ HeapCoalesced
  /\ HeapPendingKept

\* malloc and free always return, although frees arrive while the lock is held.
HeapCallsReturn ==
  (\E t \in HeapThreads : heapPc[t] # "idle") ~> (\A t \in HeapThreads : heapPc[t] = "idle")

=============================================================================
