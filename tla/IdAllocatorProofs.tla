--------------------------- MODULE IdAllocatorProofs ---------------------------
(***************************************************************************)
(* Every property of IdAllocator that TLC checks on three threads and four *)
(* ids, liveness excepted, proved for any number of threads, any range of  *)
(* ids and any number of failed allocations.                               *)
(*                                                                         *)
(* Unique is not inductive by itself: that an id is handed out once        *)
(* depends on where all other ids are and on who holds the mutex.  CInv    *)
(* says so of the containers, whatever callers release; OInv says who owns *)
(* what, when callers are Careful.  One lemma per action shows that each   *)
(* is kept.                                                                *)
(*                                                                         *)
(* At the end the same for the allocator of a NetworkBase, which is called *)
(* before it is constructed.                                               *)
(***************************************************************************)
EXTENDS NetworkBase, TLAPS

\* The ids that allocate() has issued so far.
Issued == StartId .. nextId - 1

MutexHeld ==
  \A t \in Threads : pc[t] \in Critical \cup {"overflow"} => mutex = t

IssuedOnly == allocated \subseteq Issued /\ Free \subseteq Issued /\ lost \subseteq Issued

OnePlace ==
  /\ allocated \cap (Free \cup lost) = {} /\ Free \cap lost = {}
  /\ \A i \in Ids : freeIds[i] <= 1

\* Nothing comes between top() and pop().
PopsTop == \A t \in Threads : pc[t] = "pop" => IsTop(id[t])

MovingNowhere ==
  \A t \in Threads : pc[t] \in {"insert", "push"} =>
    id[t] \in Issued \ (allocated \cup Free \cup lost)

NothingForgotten == Issued \subseteq allocated \cup Free \cup Moving \cup lost

\* What allocate() is about to return was issued.
ReturnsIssued == \A t \in Threads : pc[t] = "return" => id[t] \in Issued

OverflowIsFull ==
  \A t \in Threads : pc[t] = "overflow" => Free = {} /\ nextId = MaxInt

CInv ==
  /\ TypeOK /\ MutexHeld /\ IssuedOnly /\ OnePlace /\ PopsTop /\ MovingNowhere
  /\ NothingForgotten /\ ReturnsIssued /\ OverflowIsFull

OwnedIsAllocated ==
  /\ \A t \in Threads : held[t] \subseteq allocated
  /\ \A t, u \in Threads : t # u => held[t] \cap held[u] = {}

\* An id between a caller and allocated_ is nobody else's.
PassingIsUnowned ==
  \A t \in Threads : pc[t] \in {"return", "release", "erase"} =>
    /\ id[t] \in allocated \/ (pc[t] # "return" /\ id[t] \in Strays)
    /\ \A u \in Threads : id[t] \notin held[u]
    /\ \A u \in Threads : u # t /\ pc[u] \in {"return", "release", "erase"} =>
         id[t] # id[u] \/ id[t] \in Strays

AllocatedIsPassing ==
  \A i \in allocated : \E t \in Threads :
    i \in held[t] \/ (pc[t] \in {"return", "release", "erase"} /\ id[t] = i)

OInv == OwnedIsAllocated /\ PassingIsUnowned /\ AllocatedIsPassing

IInv == CInv /\ OInv

--------------------------------------------------------------------------------
(***************************************************************************)
(* CInv is inductive, and so is IInv when callers are careful.             *)
(***************************************************************************)

LEMMA InitIInv == Init => IInv
BY IdAllocatorAssumption
   DEF Init, IInv, CInv, OInv, TypeOK, MutexHeld, IssuedOnly, OnePlace, PopsTop,
       MovingNowhere, NothingForgotten, OwnedIsAllocated, PassingIsUnowned,
       AllocatedIsPassing, ReturnsIssued, OverflowIsFull, Ids, Steps, Critical, Free,
       Issued, Moving

LEMMA CallAllocateKeeps ==
  ASSUME CInv, NEW t \in Threads, CallAllocate(t)
  PROVE  CInv'
<1>1. TypeOK'
  BY IdAllocatorAssumption DEF CInv, TypeOK, Ids, Steps, Goto, CallAllocate
<1>2. MutexHeld'
  BY IdAllocatorAssumption DEF CInv, TypeOK, Ids, Steps, MutexHeld, Critical,
     Goto, CallAllocate
<1>3. IssuedOnly'
  BY IdAllocatorAssumption DEF CInv, TypeOK, Ids, Steps, IssuedOnly, Issued,
     Free, Goto, CallAllocate
<1>4. OnePlace'
  BY IdAllocatorAssumption DEF CInv, TypeOK, Ids, Steps, OnePlace, Free, Goto,
     CallAllocate
<1>5. PopsTop'
  BY IdAllocatorAssumption DEF CInv, TypeOK, Ids, Steps, PopsTop, IsTop, Free,
     Goto, CallAllocate
<1>6. MovingNowhere'
  BY IdAllocatorAssumption DEF CInv, TypeOK, Ids, Steps, MovingNowhere,
     Issued, Free, Goto, CallAllocate
<1>7. NothingForgotten'
  BY IdAllocatorAssumption DEF CInv, TypeOK, Ids, Steps, NothingForgotten,
     Issued, Free, Moving, Goto, CallAllocate
<1>8. OverflowIsFull'
  BY IdAllocatorAssumption DEF CInv, TypeOK, Ids, Steps, OverflowIsFull, Free,
     Goto, CallAllocate
<1>9. ReturnsIssued'
  BY IdAllocatorAssumption DEF CInv, TypeOK, Ids, Steps, MutexHeld,
     Critical, ReturnsIssued, MovingNowhere, IssuedOnly, Issued, Goto,
     CallAllocate
<1>. QED
  BY <1>1, <1>2, <1>3, <1>4, <1>5, <1>6, <1>7, <1>8, <1>9 DEF CInv

LEMMA CallReleaseKeeps ==
  ASSUME CInv, NEW t \in Threads, NEW i \in held[t] \cup Strays,
         CallRelease(t, i)
  PROVE  CInv'
<1>1. TypeOK'
  BY IdAllocatorAssumption DEF CInv, TypeOK, Ids, Steps, Goto, CallRelease
<1>2. MutexHeld'
  BY IdAllocatorAssumption DEF CInv, TypeOK, Ids, Steps, MutexHeld, Critical,
     Goto, CallRelease
<1>3. IssuedOnly'
  BY IdAllocatorAssumption DEF CInv, TypeOK, Ids, Steps, IssuedOnly, Issued,
     Free, Goto, CallRelease
<1>4. OnePlace'
  BY IdAllocatorAssumption DEF CInv, TypeOK, Ids, Steps, OnePlace, Free, Goto,
     CallRelease
<1>5. PopsTop'
  BY IdAllocatorAssumption DEF CInv, TypeOK, Ids, Steps, PopsTop, IsTop, Free,
     Goto, CallRelease
<1>6. MovingNowhere'
  BY IdAllocatorAssumption DEF CInv, TypeOK, Ids, Steps, MovingNowhere,
     Issued, Free, Goto, CallRelease
<1>7. NothingForgotten'
  BY IdAllocatorAssumption DEF CInv, TypeOK, Ids, Steps, NothingForgotten,
     Issued, Free, Moving, Goto, CallRelease
<1>8. OverflowIsFull'
  BY IdAllocatorAssumption DEF CInv, TypeOK, Ids, Steps, OverflowIsFull, Free,
     Goto, CallRelease
<1>9. ReturnsIssued'
  BY IdAllocatorAssumption DEF CInv, TypeOK, Ids, Steps, MutexHeld,
     Critical, ReturnsIssued, MovingNowhere, IssuedOnly, Issued, Goto,
     CallRelease
<1>. QED
  BY <1>1, <1>2, <1>3, <1>4, <1>5, <1>6, <1>7, <1>8, <1>9 DEF CInv

LEMMA LockKeeps ==
  ASSUME CInv, NEW t \in Threads, Lock(t)
  PROVE  CInv'
<1>1. TypeOK'
  BY IdAllocatorAssumption DEF CInv, TypeOK, Ids, Steps, Goto, Lock
<1>2. MutexHeld'
  BY IdAllocatorAssumption DEF CInv, TypeOK, Ids, Steps, MutexHeld, Critical,
     Goto, Lock
<1>3. IssuedOnly'
  BY IdAllocatorAssumption DEF CInv, TypeOK, Ids, Steps, IssuedOnly, Issued,
     Free, Goto, Lock
<1>4. OnePlace'
  BY IdAllocatorAssumption DEF CInv, TypeOK, Ids, Steps, OnePlace, Free, Goto,
     Lock
<1>5. PopsTop'
  BY IdAllocatorAssumption DEF CInv, TypeOK, Ids, Steps, PopsTop, IsTop, Free,
     Goto, Lock
<1>6. MovingNowhere'
  BY IdAllocatorAssumption DEF CInv, TypeOK, Ids, Steps, MovingNowhere,
     Issued, Free, Goto, Lock
<1>7. NothingForgotten'
  BY IdAllocatorAssumption DEF CInv, TypeOK, Ids, Steps, NothingForgotten,
     Issued, Free, Moving, Goto, Lock
<1>8. OverflowIsFull'
  BY IdAllocatorAssumption DEF CInv, TypeOK, Ids, Steps, MutexHeld, Critical,
     OverflowIsFull, Free, Goto, Lock
<1>9. ReturnsIssued'
  BY IdAllocatorAssumption DEF CInv, TypeOK, Ids, Steps, MutexHeld,
     Critical, ReturnsIssued, MovingNowhere, IssuedOnly, Issued, Goto, Lock
<1>. QED
  BY <1>1, <1>2, <1>3, <1>4, <1>5, <1>6, <1>7, <1>8, <1>9 DEF CInv

LEMMA TopKeeps ==
  ASSUME CInv, NEW t \in Threads, Top(t)
  PROVE  CInv'
<1>1. TypeOK'
  BY IdAllocatorAssumption DEF CInv, TypeOK, Ids, Steps, MutexHeld, Critical,
     OnePlace, Free, IssuedOnly, Issued, MovingNowhere, Goto, Top
<1>2. MutexHeld'
  BY IdAllocatorAssumption DEF CInv, TypeOK, Ids, Steps, MutexHeld, Critical,
     Goto, Top
<1>3. IssuedOnly'
  BY IdAllocatorAssumption DEF CInv, TypeOK, Ids, Steps, IssuedOnly, Issued,
     Free, Goto, Top
<1>4. OnePlace'
  BY IdAllocatorAssumption DEF CInv, TypeOK, Ids, Steps, OnePlace, Free, Goto,
     Top
<1>5. PopsTop'
  BY IdAllocatorAssumption DEF CInv, TypeOK, Ids, Steps, PopsTop, IsTop, Free,
     Goto, Top
<1>6. MovingNowhere'
  BY IdAllocatorAssumption DEF CInv, TypeOK, Ids, Steps, MovingNowhere,
     Issued, Free, Goto, Top
<1>7. NothingForgotten'
  <2>1. \A u \in Threads :
          /\ pc'[u] \in {"insert", "push"} <=> pc[u] \in {"insert", "push"}
          /\ pc[u] \in {"insert", "push"} => id'[u] = id[u]
    BY DEF CInv, TypeOK, Goto, Top
  <2>2. Moving' = Moving
    BY <2>1 DEF Moving
  <2>3. Issued' = Issued /\ Free' = Free /\ allocated' = allocated /\ lost' = lost
    BY DEF Top, Issued, Free
  <2>. QED
    BY <2>2, <2>3 DEF CInv, NothingForgotten
<1>8. OverflowIsFull'
  BY IdAllocatorAssumption DEF CInv, TypeOK, Ids, Steps, MutexHeld, Critical,
     OverflowIsFull, Free, Goto, Top
<1>9. ReturnsIssued'
  BY IdAllocatorAssumption DEF CInv, TypeOK, Ids, Steps, MutexHeld,
     Critical, ReturnsIssued, MovingNowhere, IssuedOnly, Issued, Goto, Top
<1>. QED
  BY <1>1, <1>2, <1>3, <1>4, <1>5, <1>6, <1>7, <1>8, <1>9 DEF CInv

LEMMA PopKeeps ==
  ASSUME CInv, NEW t \in Threads, Pop(t)
  PROVE  CInv'
<1>1. TypeOK'
  BY IdAllocatorAssumption DEF CInv, TypeOK, Ids, Steps, MutexHeld, Critical,
     OnePlace, Free, IssuedOnly, Issued, MovingNowhere, Goto, Pop
<1>2. MutexHeld'
  BY IdAllocatorAssumption DEF CInv, TypeOK, Ids, Steps, MutexHeld, Critical,
     Goto, Pop
<1>3. IssuedOnly'
  BY IdAllocatorAssumption DEF CInv, TypeOK, Ids, Steps, IssuedOnly, Issued,
     Free, Goto, Pop
<1>4. OnePlace'
  BY IdAllocatorAssumption DEF CInv, TypeOK, Ids, Steps, OnePlace, Free, Goto,
     Pop
<1>5. PopsTop'
  BY IdAllocatorAssumption DEF CInv, TypeOK, Ids, Steps, MutexHeld, Critical,
     PopsTop, IsTop, Free, Goto, Pop
<1>6. MovingNowhere'
  BY IdAllocatorAssumption DEF CInv, TypeOK, Ids, Steps, MutexHeld, Critical,
     OnePlace, Free, IssuedOnly, Issued, PopsTop, IsTop, MovingNowhere, Goto,
     Pop
<1>7. NothingForgotten'
  BY IdAllocatorAssumption DEF CInv, TypeOK, Ids, Steps, MutexHeld, Critical,
     OnePlace, Free, PopsTop, IsTop, NothingForgotten, Issued, Moving, Goto,
     Pop
<1>8. OverflowIsFull'
  BY IdAllocatorAssumption DEF CInv, TypeOK, Ids, Steps, MutexHeld, Critical,
     OverflowIsFull, Free, Goto, Pop
<1>9. ReturnsIssued'
  BY IdAllocatorAssumption DEF CInv, TypeOK, Ids, Steps, MutexHeld,
     Critical, ReturnsIssued, MovingNowhere, IssuedOnly, Issued, Goto, Pop
<1>. QED
  BY <1>1, <1>2, <1>3, <1>4, <1>5, <1>6, <1>7, <1>8, <1>9 DEF CInv

LEMMA PickNextKeeps ==
  ASSUME CInv, NEW t \in Threads, PickNext(t)
  PROVE  CInv'
<1>1. TypeOK'
  BY IdAllocatorAssumption DEF CInv, TypeOK, Ids, Steps, Goto, PickNext
<1>2. MutexHeld'
  BY IdAllocatorAssumption DEF CInv, TypeOK, Ids, Steps, MutexHeld, Critical,
     Goto, PickNext
<1>3. IssuedOnly'
  BY IdAllocatorAssumption DEF CInv, TypeOK, Ids, Steps, IssuedOnly, Issued,
     Free, Goto, PickNext
<1>4. OnePlace'
  BY IdAllocatorAssumption DEF CInv, TypeOK, Ids, Steps, OnePlace, Free, Goto,
     PickNext
<1>5. PopsTop'
  BY IdAllocatorAssumption DEF CInv, TypeOK, Ids, Steps, PopsTop, IsTop, Free,
     Goto, PickNext
<1>6. MovingNowhere'
  <2>1. id'[t] = nextId /\ nextId \in Issued' \ (allocated \cup Free \cup lost)
    BY IdAllocatorAssumption
       DEF CInv, TypeOK, IssuedOnly, Issued, Ids, PickNext
  <2>2. \A u \in Threads : u # t => pc'[u] \notin {"insert", "push"}
    BY DEF CInv, TypeOK, MutexHeld, Critical, Goto, PickNext
  <2>3. allocated' = allocated /\ Free' = Free /\ lost' = lost
    BY DEF PickNext, Free
  <2>. QED
    BY <2>1, <2>2, <2>3 DEF MovingNowhere
<1>7. NothingForgotten'
  BY IdAllocatorAssumption DEF CInv, TypeOK, Ids, Steps, NothingForgotten,
     Issued, Free, Moving, Goto, PickNext
<1>8. OverflowIsFull'
  BY IdAllocatorAssumption DEF CInv, TypeOK, Ids, Steps, MutexHeld, Critical,
     OverflowIsFull, Free, Goto, PickNext
<1>9. ReturnsIssued'
  BY IdAllocatorAssumption DEF CInv, TypeOK, Ids, Steps, MutexHeld,
     Critical, ReturnsIssued, MovingNowhere, IssuedOnly, Issued, Goto,
     PickNext
<1>. QED
  BY <1>1, <1>2, <1>3, <1>4, <1>5, <1>6, <1>7, <1>8, <1>9 DEF CInv

LEMMA PickOverflowKeeps ==
  ASSUME CInv, NEW t \in Threads, PickOverflow(t)
  PROVE  CInv'
<1>1. TypeOK'
  BY IdAllocatorAssumption DEF CInv, TypeOK, Ids, Steps, Goto, PickOverflow
<1>2. MutexHeld'
  BY IdAllocatorAssumption DEF CInv, TypeOK, Ids, Steps, MutexHeld, Critical,
     Goto, PickOverflow
<1>3. IssuedOnly'
  BY IdAllocatorAssumption DEF CInv, TypeOK, Ids, Steps, IssuedOnly, Issued,
     Free, Goto, PickOverflow
<1>4. OnePlace'
  BY IdAllocatorAssumption DEF CInv, TypeOK, Ids, Steps, OnePlace, Free, Goto,
     PickOverflow
<1>5. PopsTop'
  BY IdAllocatorAssumption DEF CInv, TypeOK, Ids, Steps, PopsTop, IsTop, Free,
     Goto, PickOverflow
<1>6. MovingNowhere'
  BY IdAllocatorAssumption DEF CInv, TypeOK, Ids, Steps, MovingNowhere,
     Issued, Free, Goto, PickOverflow
<1>7. NothingForgotten'
  BY IdAllocatorAssumption DEF CInv, TypeOK, Ids, Steps, NothingForgotten,
     Issued, Free, Moving, Goto, PickOverflow
<1>8. OverflowIsFull'
  BY IdAllocatorAssumption DEF CInv, TypeOK, Ids, Steps, MutexHeld, Critical,
     OverflowIsFull, Free, Goto, PickOverflow
<1>9. ReturnsIssued'
  BY IdAllocatorAssumption DEF CInv, TypeOK, Ids, Steps, MutexHeld,
     Critical, ReturnsIssued, MovingNowhere, IssuedOnly, Issued, Goto,
     PickOverflow
<1>. QED
  BY <1>1, <1>2, <1>3, <1>4, <1>5, <1>6, <1>7, <1>8, <1>9 DEF CInv

LEMMA InsertKeeps ==
  ASSUME CInv, NEW t \in Threads, Insert(t)
  PROVE  CInv'
<1>1. id[t] \in Ids
  BY IdAllocatorAssumption DEF CInv, TypeOK, MovingNowhere, Issued, Ids, Goto,
     Insert
<1>2. TypeOK'
  BY IdAllocatorAssumption, <1>1 DEF CInv, TypeOK, Steps, Goto, Insert
<1>3. MutexHeld'
  BY IdAllocatorAssumption DEF CInv, TypeOK, Ids, Steps, MutexHeld, Critical,
     Goto, Insert
<1>4. IssuedOnly'
  BY IdAllocatorAssumption DEF CInv, TypeOK, Ids, Steps, MutexHeld, Critical,
     OnePlace, Free, IssuedOnly, Issued, MovingNowhere, Goto, Insert
<1>5. OnePlace'
  BY IdAllocatorAssumption DEF CInv, TypeOK, Ids, Steps, MutexHeld, Critical,
     OnePlace, Free, IssuedOnly, Issued, MovingNowhere, Goto, Insert
<1>6. PopsTop'
  BY IdAllocatorAssumption DEF CInv, TypeOK, Ids, Steps, PopsTop, IsTop, Free,
     Goto, Insert
<1>7. MovingNowhere'
  BY IdAllocatorAssumption DEF CInv, TypeOK, Ids, Steps, MutexHeld, Critical,
     MovingNowhere, Issued, Free, Goto, Insert
<1>8. NothingForgotten'
  BY IdAllocatorAssumption DEF CInv, TypeOK, Ids, Steps, NothingForgotten,
     Issued, Free, Moving, Goto, Insert
<1>9. OverflowIsFull'
  BY IdAllocatorAssumption DEF CInv, TypeOK, Ids, Steps, MutexHeld, Critical,
     OverflowIsFull, Free, Goto, Insert
<1>10. ReturnsIssued'
  BY IdAllocatorAssumption DEF CInv, TypeOK, Ids, Steps, MutexHeld,
     Critical, ReturnsIssued, MovingNowhere, IssuedOnly, Issued, Goto,
     Insert
<1>. QED
  BY <1>2, <1>3, <1>4, <1>5, <1>6, <1>7, <1>8, <1>9, <1>10 DEF CInv

LEMMA InsertThrowsKeeps ==
  ASSUME CInv, NEW t \in Threads, InsertThrows(t)
  PROVE  CInv'
<1>1. id[t] \in Ids
  BY IdAllocatorAssumption DEF CInv, TypeOK, MovingNowhere, Issued, Ids, Goto,
     InsertThrows
<1>2. TypeOK'
  BY IdAllocatorAssumption, <1>1 DEF CInv, TypeOK, Steps, Goto, InsertThrows,
     Lose, Unlock
<1>3. MutexHeld'
  BY IdAllocatorAssumption DEF CInv, TypeOK, Ids, Steps, MutexHeld, Critical,
     Goto, InsertThrows, Lose, Unlock
<1>4. IssuedOnly'
  BY IdAllocatorAssumption DEF CInv, TypeOK, Ids, Steps, MutexHeld, Critical,
     OnePlace, Free, IssuedOnly, Issued, MovingNowhere, Goto, InsertThrows,
     Lose
<1>5. OnePlace'
  BY IdAllocatorAssumption DEF CInv, TypeOK, Ids, Steps, MutexHeld, Critical,
     OnePlace, Free, IssuedOnly, Issued, MovingNowhere, Goto, InsertThrows,
     Lose
<1>6. PopsTop'
  BY IdAllocatorAssumption DEF CInv, TypeOK, Ids, Steps, PopsTop, IsTop, Free,
     Goto, InsertThrows, Lose
<1>7. MovingNowhere'
  BY IdAllocatorAssumption DEF CInv, TypeOK, Ids, Steps, MutexHeld, Critical,
     MovingNowhere, Issued, Free, Goto, InsertThrows, Lose
<1>8. NothingForgotten'
  BY IdAllocatorAssumption DEF CInv, TypeOK, Ids, Steps, NothingForgotten,
     Issued, Free, Moving, Goto, InsertThrows, Lose
<1>9. OverflowIsFull'
  BY IdAllocatorAssumption DEF CInv, TypeOK, Ids, Steps, MutexHeld, Critical,
     OverflowIsFull, Free, Goto, InsertThrows, Lose
<1>10. ReturnsIssued'
  BY IdAllocatorAssumption DEF CInv, TypeOK, Ids, Steps, MutexHeld,
     Critical, ReturnsIssued, MovingNowhere, IssuedOnly, Issued, Goto,
     InsertThrows, Lose
<1>. QED
  BY <1>2, <1>3, <1>4, <1>5, <1>6, <1>7, <1>8, <1>9, <1>10 DEF CInv

LEMMA ReturnKeeps ==
  ASSUME CInv, NEW t \in Threads, Return(t)
  PROVE  CInv'
<1>1. TypeOK'
  BY IdAllocatorAssumption DEF CInv, TypeOK, Ids, Steps, MutexHeld,
     Critical, ReturnsIssued, Issued, Goto, Return, Unlock
<1>2. MutexHeld'
  BY IdAllocatorAssumption DEF CInv, TypeOK, Ids, Steps, MutexHeld, Critical,
     Goto, Return, Unlock
<1>3. IssuedOnly'
  BY IdAllocatorAssumption DEF CInv, TypeOK, Ids, Steps, IssuedOnly, Issued,
     Free, Goto, Return
<1>4. OnePlace'
  BY IdAllocatorAssumption DEF CInv, TypeOK, Ids, Steps, OnePlace, Free, Goto,
     Return
<1>5. PopsTop'
  BY IdAllocatorAssumption DEF CInv, TypeOK, Ids, Steps, PopsTop, IsTop, Free,
     Goto, Return
<1>6. MovingNowhere'
  BY IdAllocatorAssumption DEF CInv, TypeOK, Ids, Steps, MovingNowhere,
     Issued, Free, Goto, Return
<1>7. NothingForgotten'
  BY IdAllocatorAssumption DEF CInv, TypeOK, Ids, Steps, NothingForgotten,
     Issued, Free, Moving, Goto, Return
<1>8. OverflowIsFull'
  BY IdAllocatorAssumption DEF CInv, TypeOK, Ids, Steps, MutexHeld, Critical,
     OverflowIsFull, Free, Goto, Return
<1>9. ReturnsIssued'
  BY IdAllocatorAssumption DEF CInv, TypeOK, Ids, Steps, MutexHeld,
     Critical, ReturnsIssued, MovingNowhere, IssuedOnly, Issued, Goto,
     Return
<1>. QED
  BY <1>1, <1>2, <1>3, <1>4, <1>5, <1>6, <1>7, <1>8, <1>9 DEF CInv

LEMMA EraseKeeps ==
  ASSUME CInv, NEW t \in Threads, Erase(t)
  PROVE  CInv'
<1>1. TypeOK'
  BY IdAllocatorAssumption DEF CInv, TypeOK, Ids, Steps, Goto, Erase
<1>2. MutexHeld'
  BY IdAllocatorAssumption DEF CInv, TypeOK, Ids, Steps, MutexHeld, Critical,
     Goto, Erase
<1>3. IssuedOnly'
  BY IdAllocatorAssumption DEF CInv, TypeOK, Ids, Steps, IssuedOnly, Issued,
     Free, Goto, Erase
<1>4. OnePlace'
  BY IdAllocatorAssumption DEF CInv, TypeOK, Ids, Steps, OnePlace, Free, Goto,
     Erase
<1>5. PopsTop'
  BY IdAllocatorAssumption DEF CInv, TypeOK, Ids, Steps, PopsTop, IsTop, Free,
     Goto, Erase
<1>6. MovingNowhere'
  BY IdAllocatorAssumption DEF CInv, TypeOK, Ids, Steps, MutexHeld, Critical,
     OnePlace, Free, IssuedOnly, Issued, MovingNowhere, Goto, Erase
<1>7. NothingForgotten'
  BY IdAllocatorAssumption DEF CInv, TypeOK, Ids, Steps, NothingForgotten,
     Issued, Free, Moving, Goto, Erase
<1>8. OverflowIsFull'
  BY IdAllocatorAssumption DEF CInv, TypeOK, Ids, Steps, MutexHeld, Critical,
     OverflowIsFull, Free, Goto, Erase
<1>9. ReturnsIssued'
  BY IdAllocatorAssumption DEF CInv, TypeOK, Ids, Steps, MutexHeld,
     Critical, ReturnsIssued, MovingNowhere, IssuedOnly, Issued, Goto, Erase
<1>. QED
  BY <1>1, <1>2, <1>3, <1>4, <1>5, <1>6, <1>7, <1>8, <1>9 DEF CInv

LEMMA EraseUnknownKeeps ==
  ASSUME CInv, NEW t \in Threads, EraseUnknown(t)
  PROVE  CInv'
<1>1. TypeOK'
  BY IdAllocatorAssumption DEF CInv, TypeOK, Ids, Steps, Goto, EraseUnknown,
     Unlock
<1>2. MutexHeld'
  BY IdAllocatorAssumption DEF CInv, TypeOK, Ids, Steps, MutexHeld, Critical,
     Goto, EraseUnknown, Unlock
<1>3. IssuedOnly'
  BY IdAllocatorAssumption DEF CInv, TypeOK, Ids, Steps, IssuedOnly, Issued,
     Free, Goto, EraseUnknown
<1>4. OnePlace'
  BY IdAllocatorAssumption DEF CInv, TypeOK, Ids, Steps, OnePlace, Free, Goto,
     EraseUnknown
<1>5. PopsTop'
  BY IdAllocatorAssumption DEF CInv, TypeOK, Ids, Steps, PopsTop, IsTop, Free,
     Goto, EraseUnknown
<1>6. MovingNowhere'
  BY IdAllocatorAssumption DEF CInv, TypeOK, Ids, Steps, MovingNowhere,
     Issued, Free, Goto, EraseUnknown
<1>7. NothingForgotten'
  BY IdAllocatorAssumption DEF CInv, TypeOK, Ids, Steps, NothingForgotten,
     Issued, Free, Moving, Goto, EraseUnknown
<1>8. OverflowIsFull'
  BY IdAllocatorAssumption DEF CInv, TypeOK, Ids, Steps, MutexHeld, Critical,
     OverflowIsFull, Free, Goto, EraseUnknown
<1>9. ReturnsIssued'
  BY IdAllocatorAssumption DEF CInv, TypeOK, Ids, Steps, MutexHeld,
     Critical, ReturnsIssued, MovingNowhere, IssuedOnly, Issued, Goto,
     EraseUnknown
<1>. QED
  BY <1>1, <1>2, <1>3, <1>4, <1>5, <1>6, <1>7, <1>8, <1>9 DEF CInv

LEMMA PushKeeps ==
  ASSUME CInv, NEW t \in Threads, Push(t)
  PROVE  CInv'
<1>1. TypeOK'
  BY IdAllocatorAssumption DEF CInv, TypeOK, Ids, Steps, MutexHeld, Critical,
     OnePlace, Free, IssuedOnly, Issued, MovingNowhere, Goto, Push, Unlock
<1>2. MutexHeld'
  BY IdAllocatorAssumption DEF CInv, TypeOK, Ids, Steps, MutexHeld, Critical,
     Goto, Push, Unlock
<1>3. IssuedOnly'
  BY IdAllocatorAssumption DEF CInv, TypeOK, Ids, Steps, MutexHeld, Critical,
     OnePlace, Free, IssuedOnly, Issued, MovingNowhere, Goto, Push
<1>4. OnePlace'
  BY IdAllocatorAssumption DEF CInv, TypeOK, Ids, Steps, MutexHeld, Critical,
     OnePlace, Free, IssuedOnly, Issued, MovingNowhere, Goto, Push
<1>5. PopsTop'
  BY IdAllocatorAssumption DEF CInv, TypeOK, Ids, Steps, MutexHeld, Critical,
     PopsTop, IsTop, Free, Goto, Push
<1>6. MovingNowhere'
  BY IdAllocatorAssumption DEF CInv, TypeOK, Ids, Steps, MutexHeld, Critical,
     MovingNowhere, Issued, Free, Goto, Push
<1>7. NothingForgotten'
  BY IdAllocatorAssumption DEF CInv, TypeOK, Ids, Steps, NothingForgotten,
     Issued, Free, Moving, Goto, Push
<1>8. OverflowIsFull'
  BY IdAllocatorAssumption DEF CInv, TypeOK, Ids, Steps, MutexHeld, Critical,
     OverflowIsFull, Free, Goto, Push
<1>9. ReturnsIssued'
  BY IdAllocatorAssumption DEF CInv, TypeOK, Ids, Steps, MutexHeld,
     Critical, ReturnsIssued, MovingNowhere, IssuedOnly, Issued, Goto, Push
<1>. QED
  BY <1>1, <1>2, <1>3, <1>4, <1>5, <1>6, <1>7, <1>8, <1>9 DEF CInv

LEMMA PushThrowsKeeps ==
  ASSUME CInv, NEW t \in Threads, PushThrows(t)
  PROVE  CInv'
<1>1. id[t] \in Ids
  BY IdAllocatorAssumption DEF CInv, TypeOK, MovingNowhere, Issued, Ids, Goto,
     PushThrows
<1>2. TypeOK'
  BY IdAllocatorAssumption, <1>1 DEF CInv, TypeOK, Steps, Goto, PushThrows,
     Lose, Unlock
<1>3. MutexHeld'
  BY IdAllocatorAssumption DEF CInv, TypeOK, Ids, Steps, MutexHeld, Critical,
     Goto, PushThrows, Lose, Unlock
<1>4. IssuedOnly'
  BY IdAllocatorAssumption DEF CInv, TypeOK, Ids, Steps, MutexHeld, Critical,
     OnePlace, Free, IssuedOnly, Issued, MovingNowhere, Goto, PushThrows, Lose
<1>5. OnePlace'
  BY IdAllocatorAssumption DEF CInv, TypeOK, Ids, Steps, MutexHeld, Critical,
     OnePlace, Free, IssuedOnly, Issued, MovingNowhere, Goto, PushThrows, Lose
<1>6. PopsTop'
  BY IdAllocatorAssumption DEF CInv, TypeOK, Ids, Steps, PopsTop, IsTop, Free,
     Goto, PushThrows, Lose
<1>7. MovingNowhere'
  BY IdAllocatorAssumption DEF CInv, TypeOK, Ids, Steps, MutexHeld, Critical,
     MovingNowhere, Issued, Free, Goto, PushThrows, Lose
<1>8. NothingForgotten'
  BY IdAllocatorAssumption DEF CInv, TypeOK, Ids, Steps, NothingForgotten,
     Issued, Free, Moving, Goto, PushThrows, Lose
<1>9. OverflowIsFull'
  BY IdAllocatorAssumption DEF CInv, TypeOK, Ids, Steps, MutexHeld, Critical,
     OverflowIsFull, Free, Goto, PushThrows, Lose
<1>10. ReturnsIssued'
  BY IdAllocatorAssumption DEF CInv, TypeOK, Ids, Steps, MutexHeld,
     Critical, ReturnsIssued, MovingNowhere, IssuedOnly, Issued, Goto,
     PushThrows, Lose
<1>. QED
  BY <1>2, <1>3, <1>4, <1>5, <1>6, <1>7, <1>8, <1>9, <1>10 DEF CInv

LEMMA StutterKeeps ==
  ASSUME UNCHANGED vars
  PROVE  (CInv => CInv') /\ (OInv => OInv')
BY DEF vars, CInv, OInv, TypeOK, MutexHeld, IssuedOnly, OnePlace, PopsTop, MovingNowhere,
       NothingForgotten, OwnedIsAllocated, PassingIsUnowned, AllocatedIsPassing,
       ReturnsIssued, OverflowIsFull, Free, Issued, Moving, IsTop

LEMMA NextKeeps == CInv /\ [Next]_vars => CInv'
<1>1. SUFFICES ASSUME CInv, Next PROVE CInv'
  BY StutterKeeps
<1>2. PICK t \in Threads :
        CallAllocate(t) \/ (\E i \in held[t] \cup Strays : CallRelease(t, i)) \/ Step(t)
  BY <1>1 DEF Next
<1>3. CASE CallAllocate(t)
  BY <1>1, <1>3, CallAllocateKeeps
<1>4. CASE \E i \in held[t] \cup Strays : CallRelease(t, i)
  BY <1>1, <1>4, CallReleaseKeeps
<1>5. CASE Step(t)
  <2>1. CASE Lock(t) \/ Top(t) \/ Pop(t) \/ PickNext(t) \/ PickOverflow(t)
    BY <1>1, <2>1, LockKeeps, TopKeeps, PopKeeps, PickNextKeeps,
       PickOverflowKeeps
  <2>2. CASE Insert(t) \/ InsertThrows(t) \/ Return(t)
    BY <1>1, <2>2, InsertKeeps, InsertThrowsKeeps, ReturnKeeps
  <2>3. CASE Erase(t) \/ EraseUnknown(t) \/ Push(t) \/ PushThrows(t)
    BY <1>1, <2>3, EraseKeeps, EraseUnknownKeeps, PushKeeps,
       PushThrowsKeeps
  <2>. QED
    BY <1>5, <2>1, <2>2, <2>3 DEF Step
<1>. QED
  BY <1>2, <1>3, <1>4, <1>5

LEMMA CallAllocateKeepsOwners ==
  ASSUME Careful, CInv, OInv, NEW t \in Threads, CallAllocate(t)
  PROVE  OInv'
<1>1. OwnedIsAllocated'
  BY IdAllocatorAssumption DEF Careful, CInv, OInv, TypeOK, Ids, Steps,
     OwnedIsAllocated, Goto, CallAllocate
<1>2. PassingIsUnowned'
  BY IdAllocatorAssumption DEF Careful, CInv, OInv, TypeOK, Ids, Steps,
     PassingIsUnowned, Goto, CallAllocate
<1>3. AllocatedIsPassing'
  BY IdAllocatorAssumption DEF Careful, CInv, OInv, TypeOK, Ids, Steps,
     AllocatedIsPassing, Goto, CallAllocate
<1>. QED
  BY <1>1, <1>2, <1>3 DEF OInv

LEMMA CallReleaseKeepsOwners ==
  ASSUME Careful, CInv, OInv, NEW t \in Threads, NEW i \in held[t] \cup Strays,
         CallRelease(t, i)
  PROVE  OInv'
<1>1. OwnedIsAllocated'
  BY IdAllocatorAssumption DEF Careful, CInv, OInv, TypeOK, Ids, Steps,
     OwnedIsAllocated, Goto, CallRelease
<1>2. PassingIsUnowned'
  BY IdAllocatorAssumption DEF Careful, CInv, OInv, TypeOK, Ids, Steps,
     MutexHeld, Critical, OwnedIsAllocated, PassingIsUnowned,
     AllocatedIsPassing, Goto, CallRelease
<1>3. AllocatedIsPassing'
  BY IdAllocatorAssumption DEF Careful, CInv, OInv, TypeOK, Ids, Steps,
     AllocatedIsPassing, Goto, CallRelease
<1>. QED
  BY <1>1, <1>2, <1>3 DEF OInv

LEMMA LockKeepsOwners ==
  ASSUME Careful, CInv, OInv, NEW t \in Threads, Lock(t)
  PROVE  OInv'
<1>1. OwnedIsAllocated'
  BY IdAllocatorAssumption DEF Careful, CInv, OInv, TypeOK, Ids, Steps,
     OwnedIsAllocated, Goto, Lock
<1>2. PassingIsUnowned'
  BY IdAllocatorAssumption DEF Careful, CInv, OInv, TypeOK, Ids, Steps,
     PassingIsUnowned, Goto, Lock
<1>3. AllocatedIsPassing'
  BY IdAllocatorAssumption DEF Careful, CInv, OInv, TypeOK, Ids, Steps,
     AllocatedIsPassing, Goto, Lock
<1>. QED
  BY <1>1, <1>2, <1>3 DEF OInv

LEMMA TopKeepsOwners ==
  ASSUME Careful, CInv, OInv, NEW t \in Threads, Top(t)
  PROVE  OInv'
<1>1. OwnedIsAllocated'
  BY IdAllocatorAssumption DEF Careful, CInv, OInv, TypeOK, Ids, Steps,
     OwnedIsAllocated, Goto, Top
<1>2. PassingIsUnowned'
  BY IdAllocatorAssumption DEF Careful, CInv, OInv, TypeOK, Ids, Steps,
     PassingIsUnowned, Goto, Top
<1>3. AllocatedIsPassing'
  BY IdAllocatorAssumption DEF Careful, CInv, OInv, TypeOK, Ids, Steps,
     AllocatedIsPassing, Goto, Top
<1>. QED
  BY <1>1, <1>2, <1>3 DEF OInv

LEMMA PopKeepsOwners ==
  ASSUME Careful, CInv, OInv, NEW t \in Threads, Pop(t)
  PROVE  OInv'
<1>1. OwnedIsAllocated'
  BY IdAllocatorAssumption DEF Careful, CInv, OInv, TypeOK, Ids, Steps,
     OwnedIsAllocated, Goto, Pop
<1>2. PassingIsUnowned'
  BY IdAllocatorAssumption DEF Careful, CInv, OInv, TypeOK, Ids, Steps,
     PassingIsUnowned, Goto, Pop
<1>3. AllocatedIsPassing'
  BY IdAllocatorAssumption DEF Careful, CInv, OInv, TypeOK, Ids, Steps,
     AllocatedIsPassing, Goto, Pop
<1>. QED
  BY <1>1, <1>2, <1>3 DEF OInv

LEMMA PickNextKeepsOwners ==
  ASSUME Careful, CInv, OInv, NEW t \in Threads, PickNext(t)
  PROVE  OInv'
<1>1. OwnedIsAllocated'
  BY IdAllocatorAssumption DEF Careful, CInv, OInv, TypeOK, Ids, Steps,
     OwnedIsAllocated, Goto, PickNext
<1>2. PassingIsUnowned'
  BY IdAllocatorAssumption DEF Careful, CInv, OInv, TypeOK, Ids, Steps,
     PassingIsUnowned, Goto, PickNext
<1>3. AllocatedIsPassing'
  BY IdAllocatorAssumption DEF Careful, CInv, OInv, TypeOK, Ids, Steps,
     AllocatedIsPassing, Goto, PickNext
<1>. QED
  BY <1>1, <1>2, <1>3 DEF OInv

LEMMA PickOverflowKeepsOwners ==
  ASSUME Careful, CInv, OInv, NEW t \in Threads, PickOverflow(t)
  PROVE  OInv'
<1>1. OwnedIsAllocated'
  BY IdAllocatorAssumption DEF Careful, CInv, OInv, TypeOK, Ids, Steps,
     OwnedIsAllocated, Goto, PickOverflow
<1>2. PassingIsUnowned'
  BY IdAllocatorAssumption DEF Careful, CInv, OInv, TypeOK, Ids, Steps,
     PassingIsUnowned, Goto, PickOverflow
<1>3. AllocatedIsPassing'
  BY IdAllocatorAssumption DEF Careful, CInv, OInv, TypeOK, Ids, Steps,
     AllocatedIsPassing, Goto, PickOverflow
<1>. QED
  BY <1>1, <1>2, <1>3 DEF OInv

LEMMA InsertKeepsOwners ==
  ASSUME Careful, CInv, OInv, NEW t \in Threads, Insert(t)
  PROVE  OInv'
<1>1. OwnedIsAllocated'
  BY IdAllocatorAssumption DEF Careful, CInv, OInv, TypeOK, Ids, Steps,
     OwnedIsAllocated, Goto, Insert
<1>2. PassingIsUnowned'
  BY IdAllocatorAssumption DEF Careful, CInv, OInv, TypeOK, Ids, Steps,
     MutexHeld, Critical, MovingNowhere, Issued, Free, OwnedIsAllocated,
     IssuedOnly, PassingIsUnowned, Goto, Insert
<1>3. AllocatedIsPassing'
  BY IdAllocatorAssumption DEF Careful, CInv, OInv, TypeOK, Ids, Steps,
     AllocatedIsPassing, Goto, Insert
<1>. QED
  BY <1>1, <1>2, <1>3 DEF OInv

LEMMA InsertThrowsKeepsOwners ==
  ASSUME Careful, CInv, OInv, NEW t \in Threads, InsertThrows(t)
  PROVE  OInv'
<1>1. OwnedIsAllocated'
  BY IdAllocatorAssumption DEF Careful, CInv, OInv, TypeOK, Ids, Steps,
     OwnedIsAllocated, Goto, InsertThrows, Lose
<1>2. PassingIsUnowned'
  BY IdAllocatorAssumption DEF Careful, CInv, OInv, TypeOK, Ids, Steps,
     PassingIsUnowned, Goto, InsertThrows, Lose
<1>3. AllocatedIsPassing'
  BY IdAllocatorAssumption DEF Careful, CInv, OInv, TypeOK, Ids, Steps,
     AllocatedIsPassing, Goto, InsertThrows, Lose
<1>. QED
  BY <1>1, <1>2, <1>3 DEF OInv

LEMMA ReturnKeepsOwners ==
  ASSUME Careful, CInv, OInv, NEW t \in Threads, Return(t)
  PROVE  OInv'
<1>1. OwnedIsAllocated'
  BY IdAllocatorAssumption DEF Careful, CInv, OInv, TypeOK, Ids, Steps,
     MutexHeld, Critical, OwnedIsAllocated, PassingIsUnowned,
     AllocatedIsPassing, Goto, Return
<1>2. PassingIsUnowned'
  BY IdAllocatorAssumption DEF Careful, CInv, OInv, TypeOK, Ids, Steps,
     PassingIsUnowned, Goto, Return
<1>3. AllocatedIsPassing'
  BY IdAllocatorAssumption DEF Careful, CInv, OInv, TypeOK, Ids, Steps,
     AllocatedIsPassing, Goto, Return
<1>. QED
  BY <1>1, <1>2, <1>3 DEF OInv

LEMMA EraseKeepsOwners ==
  ASSUME Careful, CInv, OInv, NEW t \in Threads, Erase(t)
  PROVE  OInv'
<1>1. OwnedIsAllocated'
  BY IdAllocatorAssumption DEF Careful, CInv, OInv, TypeOK, Ids, Steps,
     MutexHeld, Critical, OwnedIsAllocated, PassingIsUnowned,
     AllocatedIsPassing, Goto, Erase
<1>2. PassingIsUnowned'
  BY IdAllocatorAssumption DEF Careful, CInv, OInv, TypeOK, Ids, Steps,
     PassingIsUnowned, Goto, Erase
<1>3. AllocatedIsPassing'
  BY IdAllocatorAssumption DEF Careful, CInv, OInv, TypeOK, Ids, Steps,
     AllocatedIsPassing, Goto, Erase
<1>. QED
  BY <1>1, <1>2, <1>3 DEF OInv

LEMMA EraseUnknownKeepsOwners ==
  ASSUME Careful, CInv, OInv, NEW t \in Threads, EraseUnknown(t)
  PROVE  OInv'
<1>1. OwnedIsAllocated'
  BY IdAllocatorAssumption DEF Careful, CInv, OInv, TypeOK, Ids, Steps,
     OwnedIsAllocated, Goto, EraseUnknown
<1>2. PassingIsUnowned'
  BY IdAllocatorAssumption DEF Careful, CInv, OInv, TypeOK, Ids, Steps,
     PassingIsUnowned, Goto, EraseUnknown
<1>3. AllocatedIsPassing'
  BY IdAllocatorAssumption DEF Careful, CInv, OInv, TypeOK, Ids, Steps,
     AllocatedIsPassing, Goto, EraseUnknown
<1>. QED
  BY <1>1, <1>2, <1>3 DEF OInv

LEMMA PushKeepsOwners ==
  ASSUME Careful, CInv, OInv, NEW t \in Threads, Push(t)
  PROVE  OInv'
<1>1. OwnedIsAllocated'
  BY IdAllocatorAssumption DEF Careful, CInv, OInv, TypeOK, Ids, Steps,
     OwnedIsAllocated, Goto, Push
<1>2. PassingIsUnowned'
  BY IdAllocatorAssumption DEF Careful, CInv, OInv, TypeOK, Ids, Steps,
     PassingIsUnowned, Goto, Push
<1>3. AllocatedIsPassing'
  BY IdAllocatorAssumption DEF Careful, CInv, OInv, TypeOK, Ids, Steps,
     AllocatedIsPassing, Goto, Push
<1>. QED
  BY <1>1, <1>2, <1>3 DEF OInv

LEMMA PushThrowsKeepsOwners ==
  ASSUME Careful, CInv, OInv, NEW t \in Threads, PushThrows(t)
  PROVE  OInv'
<1>1. OwnedIsAllocated'
  BY IdAllocatorAssumption DEF Careful, CInv, OInv, TypeOK, Ids, Steps,
     OwnedIsAllocated, Goto, PushThrows, Lose
<1>2. PassingIsUnowned'
  BY IdAllocatorAssumption DEF Careful, CInv, OInv, TypeOK, Ids, Steps,
     PassingIsUnowned, Goto, PushThrows, Lose
<1>3. AllocatedIsPassing'
  BY IdAllocatorAssumption DEF Careful, CInv, OInv, TypeOK, Ids, Steps,
     AllocatedIsPassing, Goto, PushThrows, Lose
<1>. QED
  BY <1>1, <1>2, <1>3 DEF OInv

LEMMA NextKeepsOwners == Careful /\ CInv /\ OInv /\ [Next]_vars => OInv'
<1>1. SUFFICES ASSUME Careful, CInv, OInv, Next PROVE OInv'
  BY StutterKeeps
<1>2. PICK t \in Threads :
        CallAllocate(t) \/ (\E i \in held[t] \cup Strays : CallRelease(t, i)) \/ Step(t)
  BY <1>1 DEF Next
<1>3. CASE CallAllocate(t)
  BY <1>1, <1>3, CallAllocateKeepsOwners
<1>4. CASE \E i \in held[t] \cup Strays : CallRelease(t, i)
  BY <1>1, <1>4, CallReleaseKeepsOwners
<1>5. CASE Step(t)
  <2>1. CASE Lock(t) \/ Top(t) \/ Pop(t) \/ PickNext(t) \/ PickOverflow(t)
    BY <1>1, <2>1, LockKeepsOwners, TopKeepsOwners, PopKeepsOwners, PickNextKeepsOwners,
       PickOverflowKeepsOwners
  <2>2. CASE Insert(t) \/ InsertThrows(t) \/ Return(t)
    BY <1>1, <2>2, InsertKeepsOwners, InsertThrowsKeepsOwners, ReturnKeepsOwners
  <2>3. CASE Erase(t) \/ EraseUnknown(t) \/ Push(t) \/ PushThrows(t)
    BY <1>1, <2>3, EraseKeepsOwners, EraseUnknownKeepsOwners, PushKeepsOwners,
       PushThrowsKeepsOwners
  <2>. QED
    BY <1>5, <2>1, <2>2, <2>3 DEF Step
<1>. QED
  BY <1>2, <1>3, <1>4, <1>5

LEMMA Inductive == Spec => []CInv
<1>1. Init => CInv
  BY InitIInv DEF IInv
<1>. QED
  BY <1>1, NextKeeps, PTL DEF Spec

LEMMA InductiveOwners ==
  ASSUME Careful
  PROVE  Spec => []IInv
<1>1. IInv /\ [Next]_vars => IInv'
  BY NextKeeps, NextKeepsOwners DEF IInv
<1>. QED
  BY <1>1, InitIInv, PTL DEF Spec

--------------------------------------------------------------------------------
(***************************************************************************)
(* What follows from it.                                                   *)
(***************************************************************************)

\* nextId_, the heap, allocated_, the mutex and the threads' locals keep their types;
\* in particular nextId_ never leaves the range of int.
THEOREM TypeCorrect == Spec => []TypeOK
BY Inductive, PTL DEF CInv

LEMMA IInvUnique == IInv => Unique
BY DEF IInv, CInv, OInv, OwnedIsAllocated, PassingIsUnowned, Unique

\* However allocate() and release() interleave, no id has two owners.
THEOREM Uniqueness ==
  ASSUME Careful
  PROVE  Spec => []Unique
BY InductiveOwners, IInvUnique, PTL

LEMMA CInvAccounting == CInv => Accounting
<1>1. SUFFICES ASSUME CInv PROVE Accounting
  OBVIOUS
<1>2. Moving \subseteq Issued \ (allocated \cup Free \cup lost)
  BY <1>1 DEF CInv, MovingNowhere, Moving
<1>. QED
  BY <1>1, <1>2 DEF CInv, IssuedOnly, OnePlace, NothingForgotten, Issued, Accounting

\* Between allocated_, the heap and the calls in progress no id is duplicated, and
\* none disappears but through a failed allocation.
THEOREM NothingLeaks == Spec => []Accounting
BY Inductive, CInvAccounting, PTL

LEMMA IInvAllocatedIsOwned == IInv => AllocatedIsOwned
<1>1. SUFFICES ASSUME IInv, NEW i \in allocated \ Passing
               PROVE  \E t \in Threads : i \in held[t]
  BY DEF IInv, CInv, OInv, OwnedIsAllocated, AllocatedIsOwned
<1>2. PICK t \in Threads :
        i \in held[t] \/ (pc[t] \in {"return", "release", "erase"} /\ id[t] = i)
  BY <1>1 DEF IInv, CInv, OInv, AllocatedIsPassing
<1>3. ASSUME pc[t] \in {"return", "release", "erase"}, id[t] = i PROVE FALSE
  <2>1. t \in {u \in Threads : pc[u] \in {"return", "release", "erase"}}
    BY <1>3
  <2>. QED
    BY <1>1, <1>3, <2>1, Zenon DEF Passing
<1>. QED
  BY <1>2, <1>3

\* allocated_ is what the callers own, up to the calls in progress.
THEOREM AllocatedMatchesCallers ==
  ASSUME Careful
  PROVE  Spec => []AllocatedIsOwned
BY InductiveOwners, IInvAllocatedIsOwned, PTL

LEMMA CInvOverflow == CInv => OverflowOnlyWhenExhausted
<1>1. SUFFICES ASSUME CInv, NEW t \in Threads, pc[t] = "overflow"
               PROVE  StartId .. MaxInt - 1 \subseteq allocated \cup lost
  BY DEF OverflowOnlyWhenExhausted
<1>2. Moving = {}
  BY <1>1 DEF CInv, MutexHeld, Critical, Moving
<1>. QED
  BY <1>1, <1>2 DEF CInv, OverflowIsFull, NothingForgotten, Issued

\* The undefined increment of INT_MAX needs all smaller ids to be out or lost.
THEOREM OverflowNeedsExhaustion == Spec => []OverflowOnlyWhenExhausted
BY Inductive, CInvOverflow, PTL

LEMMA PicksLowest ==
  ASSUME CInv, NEW t \in Threads, Top(t) \/ PickNext(t)
  PROVE  StartId .. id'[t] - 1 \subseteq allocated \cup lost
<1>1. Moving = {}
  BY DEF CInv, TypeOK, MutexHeld, Critical, Moving, Goto, Top, PickNext
<1>2. CASE Top(t)
  <2>1. PICK i \in Free : IsTop(i) /\ id'[t] = i
    BY <1>2 DEF Top, CInv, TypeOK
  <2>2. StartId .. i - 1 \subseteq Issued \ Free
    <3>1. i \in Issued /\ \A j \in Free : i <= j
      BY <2>1 DEF CInv, IssuedOnly, IsTop
    <3>2. StartId \in Int /\ nextId \in Int /\ i \in Int
      BY <3>1, IdAllocatorAssumption DEF CInv, TypeOK, Ids, Issued
    <3>. QED
      BY <3>1, <3>2 DEF Issued
  <2>. QED
    BY <1>1, <2>1, <2>2 DEF CInv, NothingForgotten
<1>3. CASE PickNext(t)
  <2>1. id'[t] = nextId /\ Free = {}
    BY <1>3 DEF PickNext, CInv, TypeOK
  <2>. QED
    BY <1>1, <2>1 DEF CInv, NothingForgotten, Issued
<1>. QED
  BY <1>2, <1>3

LEMMA NextLowest ==
  ASSUME CInv, [Next]_vars, NEW t \in Threads,
         pc[t] = "pick", pc'[t] \in {"pop", "insert"}
  PROVE  StartId .. id'[t] - 1 \subseteq allocated \cup lost
<1>1. Next
  BY DEF vars
<1>2. PICK u \in Threads :
        CallAllocate(u) \/ (\E i \in held[u] \cup Strays : CallRelease(u, i)) \/ Step(u)
  BY <1>1 DEF Next
<1>3. u = t
  BY <1>2 DEF CInv, TypeOK, Goto, CallAllocate, CallRelease, Step, Lock, Top, Pop,
              PickNext, PickOverflow, Insert, InsertThrows, Return, Erase,
              EraseUnknown, Push, PushThrows
<1>4. Top(t) \/ PickNext(t)
  BY <1>2, <1>3 DEF CInv, TypeOK, Goto, CallAllocate, CallRelease, Step, Lock, Pop,
              PickOverflow, Insert, InsertThrows, Return, Erase,
              EraseUnknown, Push, PushThrows
<1>. QED
  BY <1>4, PicksLowest

\* Whatever else is going on, allocate() takes the lowest id that can be had.
THEOREM LowestFirst == Spec => LowestIdFirst
<1>1. CInv /\ [Next]_vars =>
        [\A t \in Threads :
           pc[t] = "pick" /\ pc'[t] \in {"pop", "insert"} =>
             StartId .. id'[t] - 1 \subseteq allocated \cup lost]_vars
  BY NextLowest
<1>. QED
  BY <1>1, Inductive, PTL DEF Spec, LowestIdFirst

LEMMA StepImplements == IInv /\ [Next]_vars => [Promise!Next]_held
<1>1. SUFFICES ASSUME IInv, Next, held' # held PROVE Promise!Next
  BY DEF vars
<1>2. PICK t \in Threads :
        CallAllocate(t) \/ (\E i \in held[t] \cup Strays : CallRelease(t, i)) \/ Step(t)
  BY <1>1 DEF Next
<1>3. (\E i \in held[t] \cup Strays : CallRelease(t, i)) \/ Return(t)
  BY <1>1, <1>2 DEF CallAllocate, Step, Lock, Top, Pop, PickNext, PickOverflow, Insert,
                    InsertThrows, Lose, Erase, EraseUnknown, Push, PushThrows
<1>4. CASE \E i \in held[t] \cup Strays : CallRelease(t, i)
  <2>1. PICK i \in held[t] \cup Strays : CallRelease(t, i)
    BY <1>4
  <2>2. i \in held[t]
    BY <1>1, <2>1 DEF IInv, CInv, OInv, TypeOK, CallRelease
  <2>3. i \in Ids /\ Promise!GiveBack(t, i)
    BY <1>1, <2>1, <2>2 DEF IInv, CInv, OInv, TypeOK, CallRelease, Promise!GiveBack
  <2>. QED
    BY <2>3 DEF Promise!Next
<1>5. CASE Return(t)
  <2>1. id[t] \in Ids /\ Promise!Get(t, id[t])
    BY <1>1, <1>5 DEF IInv, CInv, OInv, TypeOK, PassingIsUnowned, Careful, Goto, Return, Promise!Get
  <2>. QED
    BY <2>1 DEF Promise!Next
<1>. QED
  BY <1>3, <1>4, <1>5

\* The allocator implements UniqueIds: seen by its callers, it hands out ids nobody
\* has and takes back what it is given, and does nothing else.
THEOREM ImplementsUniqueIds ==
  ASSUME Careful
  PROVE  Spec => HandsOutUniqueIds
<1>1. Init => Promise!Init
  BY DEF Init, Promise!Init
<1>. QED
  BY <1>1, StepImplements, InductiveOwners, PTL DEF Spec, HandsOutUniqueIds, Promise!Spec

--------------------------------------------------------------------------------
(***************************************************************************)
(* A NetworkBase object: its allocator is sound once it is constructed,    *)
(* whatever the call on the unconstructed member did.                      *)
(***************************************************************************)

\* Until its constructor ran nobody uses the allocator; from then on it is one of
\* which CInv holds, and OInv too if its callers are careful.
BaseInv ==
  /\ stage \in {"id_", "idAllocator_"} => Unused
  /\ stage = "constructed" => CInv

OwnersInv == stage = "constructed" => OInv

LEMMA BaseNextKeeps ==
  ASSUME BaseInv, [BaseNext]_baseVars, Init' => IInv'
  PROVE  BaseInv' /\ (Careful /\ OwnersInv => OwnersInv')
<1>1. CASE UNCHANGED baseVars
  <2>1. (CInv => CInv') /\ (OInv => OInv') /\ (Unused => Unused') /\ stage' = stage
    BY <1>1, StutterKeeps DEF baseVars, vars, Unused
  <2>. QED
    BY <2>1 DEF BaseInv, OwnersInv
<1>2. CASE InitId
  BY <1>2 DEF InitId, BaseInv, OwnersInv, Unused
<1>3. CASE InitAllocator
  <2>1. Init'
    BY <1>3 DEF InitAllocator, BaseInv, Unused, Init
  <2>. QED
    BY <1>3, <2>1 DEF InitAllocator, BaseInv, OwnersInv, IInv
<1>4. CASE Use
  <2>1. CInv' /\ (Careful /\ OInv => OInv')
    BY <1>4, NextKeeps, NextKeepsOwners DEF Use, BaseInv
  <2>. QED
    BY <1>4, <2>1 DEF Use, BaseInv, OwnersInv
<1>. QED
  BY <1>1, <1>2, <1>3, <1>4 DEF BaseNext

LEMMA BaseInductive == BaseSpec => []BaseInv
<1>1. BaseInit => BaseInv
  BY DEF BaseInit, BaseInv
<1>2. Init' => IInv'
  BY InitIInv, PTL
<1>3. BaseInv /\ [BaseNext]_baseVars => BaseInv'
  BY <1>2, BaseNextKeeps
<1>. QED
  BY <1>1, <1>3, PTL DEF BaseSpec

\* The undefined call that initialises id_ cannot harm the allocator: its constructor
\* writes every member, and from then on no id it issues is lost or in two places.
THEOREM AllocatorSurvives == BaseSpec => []AllocatorSound
<1>1. BaseInv => AllocatorSound
  BY CInvAccounting, CInvOverflow DEF BaseInv, AllocatorSound
<1>. QED
  BY <1>1, BaseInductive, PTL

\* Nor does that call make careful callers of a constructed object share an id.
THEOREM CallersSurvive ==
  ASSUME Careful
  PROVE  BaseSpec => [](stage = "constructed" => Unique /\ AllocatedIsOwned)
<1>1. BaseInit => OwnersInv
  BY DEF BaseInit, OwnersInv
<1>2. Init' => IInv'
  BY InitIInv, PTL
<1>3. BaseInv /\ OwnersInv /\ [BaseNext]_baseVars => OwnersInv'
  BY <1>2, BaseNextKeeps
<1>4. BaseInv /\ OwnersInv => (stage = "constructed" => Unique /\ AllocatedIsOwned)
  BY IInvUnique, IInvAllocatedIsOwned DEF BaseInv, OwnersInv, IInv
<1>. QED
  BY <1>1, <1>3, <1>4, BaseInductive, PTL DEF BaseSpec
================================================================================
