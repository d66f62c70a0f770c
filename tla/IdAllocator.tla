------------------------------ MODULE IdAllocator ------------------------------
(***************************************************************************)
(* One IdAllocator (utils/IdAllocator.h, utils/IdAllocator.cpp) shared by  *)
(* threads.  allocate() and release() run under a lock_guard; each         *)
(* statement that touches the shared members is a step of its own, so that *)
(* it is the mutex, and not the model, that makes the calls atomic.        *)
(*                                                                         *)
(* Inserting into allocated_ and pushing onto freeIds_ allocate memory and *)
(* may throw bad_alloc after the id was already taken from its old place:  *)
(* the guard unlocks, and the id is in neither container any more.         *)
(*                                                                         *)
(* Callers release what they were given, and any id of Strays whether they *)
(* own it or not.  Callers are Careful when no stray id is one that may be *)
(* handed out; careless ones may release an id twice, and the second       *)
(* release of an id that was handed out again frees the new owner's id.    *)
(***************************************************************************)
EXTENDS Integers, FiniteSets

CONSTANTS Threads,
          Nobody,     \* the owner of an unlocked mutex
          StartId,    \* the constructor's argument
          MaxInt,     \* INT_MAX
          Strays,     \* ids callers may release without owning them
          MaxLost     \* bound on the number of ids lost to failed allocations

Ids == StartId .. MaxInt

ASSUME IdAllocatorAssumption ==
  /\ StartId \in Int /\ MaxInt \in Int /\ StartId <= MaxInt
  /\ Strays \subseteq Int
  /\ Nobody \notin Threads
  /\ MaxLost \in Nat

Careful == Strays \cap Ids = {}

VARIABLES
  nextId, freeIds, allocated, mutex,  \* members; freeIds counts each id's entries
  pc, id,                             \* per thread: its next statement, local id
  held,                               \* per thread: the ids its callers own
  lost                                \* ids dropped by a failed allocation

vars == <<nextId, freeIds, allocated, mutex, pc, id, held, lost>>

Steps == { "idle",
           "allocate", "pick", "pop", "insert", "return",
           "release", "erase", "push",
           "overflow" }

Critical == {"pick", "pop", "insert", "return", "erase", "push"}

TypeOK ==
  /\ nextId \in Ids
  /\ freeIds \in [Ids -> Nat]
  /\ allocated \subseteq Ids
  /\ mutex \in Threads \cup {Nobody}
  /\ pc \in [Threads -> Steps]
  /\ id \in [Threads -> Int]
  /\ held \in [Threads -> SUBSET Ids]
  /\ lost \subseteq Ids

\* The ids in the heap.
Free == {i \in Ids : freeIds[i] > 0}

Init ==
  /\ nextId = StartId
  /\ freeIds = [i \in Ids |-> 0]
  /\ allocated = {}
  /\ mutex = Nobody
  /\ pc = [t \in Threads |-> "idle"]
  /\ id = [t \in Threads |-> StartId]
  /\ held = [t \in Threads |-> {}]
  /\ lost = {}

--------------------------------------------------------------------------------

Goto(t, from, to) == pc[t] = from /\ pc' = [pc EXCEPT ![t] = to]

\* The destructor of the lock_guard, on return and on a throw alike.
Unlock == mutex' = Nobody

CallAllocate(t) ==
  /\ Goto(t, "idle", "allocate")
  /\ UNCHANGED <<nextId, freeIds, allocated, mutex, id, held, lost>>

\* The caller gives the id up when it calls.
CallRelease(t, i) ==
  /\ Goto(t, "idle", "release")
  /\ id' = [id EXCEPT ![t] = i]
  /\ held' = [held EXCEPT ![t] = @ \ {i}]
  /\ UNCHANGED <<nextId, freeIds, allocated, mutex, lost>>

\* Mutant: no lock_guard.
NoLock(t) ==
  /\ mutex' = t
  /\ Goto(t, "allocate", "pick") \/ Goto(t, "release", "erase")
  /\ UNCHANGED <<nextId, freeIds, allocated, id, held, lost>>

Lock(t) ==
  /\ mutex = Nobody
  /\ mutex' = t
  /\ Goto(t, "allocate", "pick") \/ Goto(t, "release", "erase")
  /\ UNCHANGED <<nextId, freeIds, allocated, id, held, lost>>

\* Mutant: the priority queue's default order, the largest on top.
IsLargest(i) == i \in Free /\ \A j \in Free : i >= j

\* i is what freeIds_.top() returns.
IsTop(i) == i \in Free /\ \A j \in Free : i <= j

Top(t) ==
  /\ Goto(t, "pick", "pop")
  /\ \E i \in Free : IsTop(i) /\ id' = [id EXCEPT ![t] = i]
  /\ UNCHANGED <<nextId, freeIds, allocated, mutex, held, lost>>

\* Mutant: the id stays in the heap.
NoPop(t) ==
  /\ Goto(t, "pop", "insert")
  /\ UNCHANGED <<nextId, freeIds, allocated, mutex, id, held, lost>>

Pop(t) ==
  /\ Goto(t, "pop", "insert")
  /\ \E i \in Free : IsTop(i) /\ freeIds' = [freeIds EXCEPT ![i] = @ - 1]
  /\ UNCHANGED <<nextId, allocated, mutex, id, held, lost>>

\* Mutant: nextId_ is incremented twice.
PickNextTwice(t) ==
  /\ Free = {} /\ nextId < MaxInt
  /\ Goto(t, "pick", "insert")
  /\ id' = [id EXCEPT ![t] = nextId]
  /\ nextId' = nextId + 2
  /\ UNCHANGED <<freeIds, allocated, mutex, held, lost>>

PickNext(t) ==
  /\ Free = {} /\ nextId < MaxInt
  /\ Goto(t, "pick", "insert")
  /\ id' = [id EXCEPT ![t] = nextId]
  /\ nextId' = nextId + 1
  /\ UNCHANGED <<freeIds, allocated, mutex, held, lost>>

\* nextId_++ on INT_MAX: undefined from here.
PickOverflow(t) ==
  /\ Free = {} /\ nextId = MaxInt
  /\ Goto(t, "pick", "overflow")
  /\ UNCHANGED <<nextId, freeIds, allocated, mutex, id, held, lost>>

\* Mutant: the id is not recorded as allocated.
NoInsert(t) ==
  /\ Goto(t, "insert", "return")
  /\ UNCHANGED <<nextId, freeIds, allocated, mutex, id, held, lost>>

Insert(t) ==
  /\ Goto(t, "insert", "return")
  /\ allocated' = allocated \cup {id[t]}
  /\ UNCHANGED <<nextId, freeIds, mutex, id, held, lost>>

Lose(t) ==
  /\ Cardinality(lost) < MaxLost
  /\ lost' = lost \cup {id[t]}
  /\ Unlock
  /\ UNCHANGED <<nextId, freeIds, allocated, id, held>>

InsertThrows(t) == Goto(t, "insert", "idle") /\ Lose(t)

Return(t) ==
  /\ Goto(t, "return", "idle")
  /\ held' = [held EXCEPT ![t] = @ \cup {id[t]}]
  /\ Unlock
  /\ UNCHANGED <<nextId, freeIds, allocated, id, lost>>

\* Mutant: count() in the place of erase().
NoErase(t) ==
  /\ id[t] \in allocated
  /\ Goto(t, "erase", "push")
  /\ UNCHANGED <<nextId, freeIds, allocated, mutex, id, held, lost>>

Erase(t) ==
  /\ id[t] \in allocated
  /\ Goto(t, "erase", "push")
  /\ allocated' = allocated \ {id[t]}
  /\ UNCHANGED <<nextId, freeIds, mutex, id, held, lost>>

\* Mutant: an early return before the unlock.
KeepsMutex(t) ==
  /\ id[t] \notin allocated
  /\ Goto(t, "erase", "idle")
  /\ UNCHANGED <<nextId, freeIds, allocated, mutex, id, held, lost>>

\* erase() found nothing: the id is not pushed.
EraseUnknown(t) ==
  /\ id[t] \notin allocated
  /\ Goto(t, "erase", "idle")
  /\ Unlock
  /\ UNCHANGED <<nextId, freeIds, allocated, id, held, lost>>

\* Mutant: the released id is forgotten.
NoPush(t) ==
  /\ Goto(t, "push", "idle")
  /\ Unlock
  /\ UNCHANGED <<nextId, freeIds, allocated, id, held, lost>>

Push(t) ==
  /\ Goto(t, "push", "idle")
  /\ freeIds' = [freeIds EXCEPT ![id[t]] = @ + 1]
  /\ Unlock
  /\ UNCHANGED <<nextId, allocated, id, held, lost>>

PushThrows(t) == Goto(t, "push", "idle") /\ Lose(t)

--------------------------------------------------------------------------------

\* What a thread does once it has called.
Step(t) ==
  \/ Lock(t) \/ Top(t) \/ Pop(t) \/ PickNext(t) \/ PickOverflow(t)
  \/ Insert(t) \/ InsertThrows(t) \/ Return(t)
  \/ Erase(t) \/ EraseUnknown(t) \/ Push(t) \/ PushThrows(t)

Next ==
  /\ \A t \in Threads : pc[t] # "overflow"
  /\ \E t \in Threads :
       \/ CallAllocate(t)
       \/ \E i \in held[t] \cup Strays : CallRelease(t, i)
       \/ Step(t)

Spec == Init /\ [][Next]_vars

\* A thread that runs keeps running; nothing is assumed of who gets the mutex.
FairSpec == Spec /\ \A t \in Threads : WF_vars(Step(t))

--------------------------------------------------------------------------------
(***************************************************************************)
(* What the callers of a correct allocator rely on.                        *)
(***************************************************************************)

\* Never do two callers own the same id, nor is an id about to be returned by
\* allocate() that somebody still owns.
Unique ==
  \A t, u \in Threads :
    /\ t # u => held[t] \cap held[u] = {}
    /\ pc[t] = "return" => id[t] \notin held[u]

\* The ids that are in no container because a thread is moving them.
Moving == {id[t] : t \in {u \in Threads : pc[u] \in {"insert", "push"}}}

\* Every id allocate() ever issued is accounted for, in one place only: in
\* allocated_, once in the heap, on its way between them, or lost to a failed
\* allocation.
Accounting ==
  /\ StartId .. nextId - 1 = allocated \cup Free \cup Moving \cup lost
  /\ allocated \cap (Free \cup Moving \cup lost) = {}
  /\ Free \cap (Moving \cup lost) = {}
  /\ Moving \cap lost = {}
  /\ \A i \in Ids : freeIds[i] <= 1

\* The ids a call to allocate() is about to return, or to release() has not taken yet.
Passing == {id[t] : t \in {u \in Threads : pc[u] \in {"return", "release", "erase"}}}

\* allocated_ holds what callers own and what they are just being given or giving
\* back, and nothing else: no id stays marked as allocated that nobody can release.
AllocatedIsOwned ==
  /\ \A t \in Threads : held[t] \subseteq allocated
  /\ \A i \in allocated \ Passing : \E t \in Threads : i \in held[t]

\* allocate() runs past INT_MAX only when all smaller ids are out or lost.
OverflowOnlyWhenExhausted ==
  (\E t \in Threads : pc[t] = "overflow") =>
     StartId .. MaxInt - 1 \subseteq allocated \cup lost

\* allocate() chooses the lowest id that is not out or lost, so the ids stay dense.
LowestIdFirst ==
  [][\A t \in Threads :
       pc[t] = "pick" /\ pc'[t] \in {"pop", "insert"} =>
         StartId .. id'[t] - 1 \subseteq allocated \cup lost]_vars

\* Whoever holds the mutex gives it back, whether its call returns or throws.
MutexReleased ==
  mutex # Nobody ~> (mutex = Nobody \/ \E t \in Threads : pc[t] = "overflow")

Promise == INSTANCE UniqueIds

\* Seen by the callers, the allocator does nothing but hand out ids that are nobody
\* else's and take back what it is given.
HandsOutUniqueIds == Promise!Spec
================================================================================
