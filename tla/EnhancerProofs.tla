---------------------------- MODULE EnhancerProofs ----------------------------
(* Proofs about Enhancer, for any number of elements and of slots: the      *)
(* semaphore, the end of the call, and the document that is patched.        *)
EXTENDS Enhancer, TLAPS, FiniteSetTheorems, SequenceTheorems, WellFoundedInduction

-----------------------------------------------------------------------------
(* 1. The invariant.                                                        *)

Stages == {"ready", "waiting", "calling", "answered", "unwinding", "over", "cancelled"}

TaskTypeOK ==
  /\ task \in [Elements -> Stages]
  /\ pc \in {"gather", "close", "done"}
  /\ closed \in BOOLEAN /\ cancelled \in BOOLEAN

(* The queue holds each task that waits once, and nobody else.              *)
QueueInv ==
  /\ waiters \in Seq(Elements)
  /\ \A i, j \in DOMAIN waiters : waiters[i] = waiters[j] => i = j
  /\ \A i \in DOMAIN waiters : task[waiters[i]] = "waiting"
  /\ \A e \in Elements : task[e] = "waiting" => \E i \in DOMAIN waiters : waiters[i] = e
  /\ \A e \in granted : \E i \in DOMAIN waiters : waiters[i] = e

(* No slot is lost, and none is given twice.                                *)
SlotInv ==
  /\ free \in Nat
  /\ granted \subseteq Elements
  /\ SlotsAreConserved

(* While a slot is free and somebody waits, somebody who waits has been     *)
(* given one, and will wake the next when it runs, unless all are told to   *)
(* end.                                                                     *)
NobodyIsForgotten == free > 0 /\ waiters # <<>> /\ ~cancelled => granted # {}

(* enhance() goes on when its tasks are over, or cancelled; every call is   *)
(* told of the cancellation.                                                *)
MainInv ==
  /\ pc # "gather" => \A e \in Elements : task[e] = "over" \/ cancelled
  /\ \A e \in Elements : task[e] \in {"calling", "answered"} => ~cancelled
  /\ \A e \in Elements : task[e] = "cancelled" => cancelled
  /\ closed => pc = "done"

Inv ==
  /\ TaskTypeOK
  /\ QueueInv
  /\ SlotInv
  /\ NobodyIsForgotten
  /\ MainInv

(* What the invariant needs of the initial state and of a step: nothing of  *)
(* the document and of the results.                                         *)
Start ==
  /\ pc = "gather" /\ closed = FALSE /\ cancelled = FALSE
  /\ task = [e \in Elements |-> "ready"]
  /\ free = MaxConcurrent /\ waiters = <<>> /\ granted = {}

GoesOn ==
  /\ pc = "gather"
  /\ AllOver \/ \E e \in Elements : task[e] = "cancelled"
  /\ pc' = "close"
  /\ UNCHANGED <<slotVars, closed, cancelled, task>>

Moves ==
  \/ GoesOn \/ Close \/ Cancel
  \/ \E e \in Elements : Task(e) \/ Answer(e) \/ Expire(e) \/ Unwind(e)
  \/ UNCHANGED vars

-----------------------------------------------------------------------------
(* 2. The queue.                                                            *)

LEMMA ElementsFinite == EnhancerAssumption => IsFiniteSet(Elements) /\ Cardinality(Elements) = N
BY FS_Interval DEF EnhancerAssumption, Elements

(* What is left of a queue when the task at one position leaves it.         *)
LEMMA Leaving ==
  ASSUME NEW S, NEW s \in Seq(S), NEW k \in DOMAIN s
  PROVE  /\ RemoveAt(s, k) \in Seq(S)
         /\ Len(RemoveAt(s, k)) = Len(s) - 1
         /\ \A i \in 1 .. Len(s) - 1 :
              RemoveAt(s, k)[i] = IF i < k THEN s[i] ELSE s[i + 1]
<1>. DEFINE before == SubSeq(s, 1, k - 1)
            after == SubSeq(s, k + 1, Len(s))
<1>1. k \in 1 .. Len(s) /\ Len(s) \in Nat /\ k \in Nat
  BY LenProperties
<1>2. before \in Seq(S) /\ Len(before) = k - 1 /\ \A i \in 1 .. k - 1 : before[i] = s[i]
  BY <1>1, SubSeqProperties
<1>3. /\ after \in Seq(S) /\ Len(after) = Len(s) - k
      /\ \A i \in 1 .. Len(s) - k : after[i] = s[k + i]
  BY <1>1, SubSeqProperties
<1>4. RemoveAt(s, k) = before \o after
  BY DEF RemoveAt
<1>. HIDE DEF before, after
<1>. QED  BY <1>1, <1>2, <1>3, <1>4, ConcatProperties

(* The queue without a task that waits in it.                               *)
LEMMA WithoutOne ==
  ASSUME TaskTypeOK, QueueInv, NEW e \in Elements, task[e] = "waiting"
  PROVE  /\ Without(e) \in Seq(Elements)
         /\ \A i, j \in DOMAIN Without(e) : Without(e)[i] = Without(e)[j] => i = j
         /\ \A i \in DOMAIN Without(e) : Without(e)[i] # e /\ task[Without(e)[i]] = "waiting"
         /\ \A o \in Elements \ {e} :
              task[o] = "waiting" => \E i \in DOMAIN Without(e) : Without(e)[i] = o
<1>. DEFINE k == CHOOSE i \in DOMAIN waiters : waiters[i] = e
<1>1. k \in DOMAIN waiters /\ waiters[k] = e
  BY DEF QueueInv
<1>2. Without(e) = RemoveAt(waiters, k)
  BY DEF Without
<1>. HIDE DEF k
<1>3. PICK rest : rest = Without(e)
  OBVIOUS
<1>4. waiters \in Seq(Elements) /\ DOMAIN waiters = 1 .. Len(waiters) /\ Len(waiters) \in Nat
  BY LenProperties DEF QueueInv
<1>5. /\ rest \in Seq(Elements) /\ Len(rest) = Len(waiters) - 1
      /\ \A i \in 1 .. Len(waiters) - 1 :
           rest[i] = IF i < k THEN waiters[i] ELSE waiters[i + 1]
  BY <1>1, <1>2, <1>3, <1>4, Leaving
<1>6. DOMAIN rest = 1 .. Len(waiters) - 1
  BY <1>5, LenProperties
<1>7. \A i \in DOMAIN rest : \E j \in DOMAIN waiters : j # k /\ rest[i] = waiters[j]
  <2>. TAKE i \in DOMAIN rest
  <2>1. CASE i < k
    BY <2>1, <1>1, <1>4, <1>5, <1>6
  <2>2. CASE ~(i < k)
    <3>1. i + 1 \in DOMAIN waiters /\ i + 1 # k /\ rest[i] = waiters[i + 1]
      BY <2>2, <1>1, <1>4, <1>5, <1>6
    <3>. QED  BY <3>1
  <2>. QED  BY <2>1, <2>2
<1>8. \A i, j \in DOMAIN rest : rest[i] = rest[j] => i = j
  <2>. SUFFICES ASSUME NEW i \in DOMAIN rest, NEW j \in DOMAIN rest, rest[i] = rest[j]
                PROVE  i = j
    OBVIOUS
  <2>. DEFINE old(n) == IF n < k THEN n ELSE n + 1
  <2>1. /\ old(i) \in DOMAIN waiters /\ rest[i] = waiters[old(i)]
        /\ old(j) \in DOMAIN waiters /\ rest[j] = waiters[old(j)]
    BY <1>1, <1>4, <1>5, <1>6
  <2>2. old(i) = old(j)
    <3>. HIDE DEF old
    <3>. QED  BY <2>1 DEF QueueInv
  <2>. QED  BY <2>2, <1>1, <1>4, <1>6
<1>9. \A i \in DOMAIN rest : rest[i] # e /\ task[rest[i]] = "waiting"
  BY <1>1, <1>7 DEF QueueInv
<1>10. ASSUME NEW o \in Elements \ {e}, task[o] = "waiting"
       PROVE  \E i \in DOMAIN rest : rest[i] = o
  <2>1. PICK j \in DOMAIN waiters : waiters[j] = o
    BY <1>10 DEF QueueInv
  <2>2. j # k
    BY <2>1, <1>1
  <2>3. CASE j < k
    BY <2>1, <2>3, <1>1, <1>4, <1>5, <1>6
  <2>4. CASE j > k
    <3>1. j - 1 \in DOMAIN rest /\ rest[j - 1] = waiters[j]
      BY <2>4, <1>1, <1>4, <1>5, <1>6
    <3>. QED  BY <3>1, <2>1
  <2>. QED  BY <2>2, <2>3, <2>4, <1>1, <1>4
<1>. QED  BY <1>3, <1>5, <1>8, <1>9, <1>10

-----------------------------------------------------------------------------
(* 3. The semaphore.                                                        *)

LEMMA LeastOfThree ==
  ASSUME NEW a \in Int, NEW b \in Int, NEW c \in Int
  PROVE  /\ Min({a, b, c}) \in {a, b, c}
         /\ Min({a, b, c}) <= a /\ Min({a, b, c}) <= b /\ Min({a, b, c}) <= c
<1>1. \E x \in {a, b, c} : \A y \in {a, b, c} : x <= y
  OBVIOUS
<1>. QED  BY <1>1 DEF Min

(* Slots that are given away are neither lost nor given twice; they go to   *)
(* tasks in the queue; and one that stays free is wanted by nobody, or      *)
(* somebody in the queue has been given another, unless all are told to     *)
(* end.                                                                     *)
LEMMA Waking ==
  ASSUME EnhancerAssumption, NEW value \in Nat, NEW queue \in Seq(Elements),
         NEW some \in SUBSET Elements, NEW n \in Nat \ {0}, WakeUp(value, queue, some, n)
  PROVE  /\ waiters' = queue
         /\ free' \in Nat
         /\ granted' \in SUBSET Elements /\ some \subseteq granted'
         /\ granted' \ some \subseteq ToSet(queue)
         /\ free' + Cardinality(granted') = value + Cardinality(some)
         /\ queue # <<>> /\ ~cancelled => granted' # {} \/ free' = 0
<1>. DEFINE others == Others(queue, some)
<1>1. PICK woken \in SUBSET others :
        /\ Cardinality(woken) = Min({n, value, Cardinality(others)})
        /\ waiters' = queue /\ free' = value - Cardinality(woken)
        /\ granted' = some \union woken
  BY DEF WakeUp
<1>2. DOMAIN queue = 1 .. Len(queue) /\ \A i \in DOMAIN queue : queue[i] \in Elements
  BY LenProperties, ElementOfSeq
<1>3. ToSet(queue) = {queue[i] : i \in DOMAIN queue}
  BY DEF ToSet
<1>4. /\ others \subseteq Elements
      /\ \A e \in others : \E i \in DOMAIN queue : queue[i] = e
      /\ ~cancelled => \A i \in DOMAIN queue : queue[i] \in some \/ queue[i] \in others
      /\ others \subseteq ToSet(queue) /\ others \intersect some = {}
  BY <1>2, <1>3 DEF Others
<1>. HIDE DEF others
<1>5. /\ IsFiniteSet(some) /\ IsFiniteSet(others) /\ IsFiniteSet(woken)
      /\ Cardinality(some) \in Nat /\ Cardinality(others) \in Nat /\ Cardinality(woken) \in Nat
  BY <1>4, ElementsFinite, FS_Subset, FS_CardinalityType
<1>6. Cardinality(woken) <= value /\ Cardinality(woken) \in {n, value, Cardinality(others)}
  <2>1. PICK c \in Nat : c = Cardinality(others)
    BY <1>5
  <2>2. Cardinality(woken) = Min({n, value, c})
    BY <1>1, <2>1
  <2>3. n \in Int /\ value \in Int /\ c \in Int
    OBVIOUS
  <2>4. Min({n, value, c}) \in {n, value, c} /\ Min({n, value, c}) <= value
    BY <2>3, LeastOfThree, Zenon
  <2>. QED  BY <2>1, <2>2, <2>4
<1>7. Cardinality(some \union woken) = Cardinality(some) + Cardinality(woken)
  <2>1. some \intersect woken = {}
    BY <1>1, <1>4
  <2>2. Cardinality(some \intersect woken) = 0
    BY <2>1, FS_EmptySet
  <2>3. Cardinality(some \union woken)
          = Cardinality(some) + Cardinality(woken) - Cardinality(some \intersect woken)
    BY <1>5, FS_Union
  <2>. QED  BY <2>2, <2>3, <1>5
<1>8. queue # <<>> /\ ~cancelled => granted' # {} \/ free' = 0
  <2>. SUFFICES ASSUME queue # <<>>, ~cancelled, granted' = {} PROVE free' = 0
    OBVIOUS
  <2>1. woken = {} /\ some = {} /\ Cardinality(woken) = 0
    BY <1>1, FS_EmptySet
  <2>2. 1 \in DOMAIN queue
    BY <1>2, EmptySeq, LenProperties
  <2>3. others # {} /\ Cardinality(others) # 0
    BY <2>1, <2>2, <1>4, <1>5, FS_EmptySet
  <2>. QED  BY <1>1, <1>5, <1>6, <2>1, <2>3
<1>9. granted' \ some \subseteq ToSet(queue)
  BY <1>1, <1>4
<1>. QED  BY <1>1, <1>4, <1>5, <1>6, <1>7, <1>8, <1>9

-----------------------------------------------------------------------------
(* 4. Each step keeps the invariant.                                        *)

LEMMA InitInv == EnhancerAssumption /\ Start => Inv
<1>. SUFFICES ASSUME EnhancerAssumption, Start PROVE Inv
  OBVIOUS
<1>1. TaskTypeOK /\ MainInv
  BY DEF Start, TaskTypeOK, Stages, MainInv
<1>2. QueueInv
  BY DEF Start, QueueInv
<1>3. SlotInv
  <2>1. HasSlot = {} /\ granted = {}
    BY DEF Start, HasSlot
  <2>. QED
    BY <2>1, FS_EmptySet DEF Start, SlotInv, SlotsAreConserved, EnhancerAssumption
<1>4. NobodyIsForgotten
  BY DEF Start, NobodyIsForgotten
<1>. QED  BY <1>1, <1>2, <1>3, <1>4 DEF Inv

(* How many hold a slot when one task begins or ends to hold one.           *)
Holds == {"calling", "answered", "unwinding"}

LEMMA Holders ==
  ASSUME EnhancerAssumption, TaskTypeOK, NEW e \in Elements, NEW s \in Stages,
         task' = [task EXCEPT ![e] = s]
  PROVE  /\ Cardinality(HasSlot) \in Nat
         /\ s \in Holds /\ task[e] \notin Holds =>
              Cardinality(HasSlot') = Cardinality(HasSlot) + 1
         /\ s \notin Holds /\ task[e] \in Holds =>
              Cardinality(HasSlot') = Cardinality(HasSlot) - 1
         /\ (s \in Holds <=> task[e] \in Holds) =>
              Cardinality(HasSlot') = Cardinality(HasSlot)
<1>1. IsFiniteSet(HasSlot) /\ Cardinality(HasSlot) \in Nat
  BY ElementsFinite, FS_Subset, FS_CardinalityType DEF HasSlot
<1>2. HasSlot' = IF s \in Holds THEN HasSlot \union {e} ELSE HasSlot \ {e}
  BY DEF HasSlot, TaskTypeOK, Holds
<1>3. e \in HasSlot <=> task[e] \in Holds
  BY DEF HasSlot, Holds
<1>4. HasSlot \union {e} = HasSlot <=> e \in HasSlot
  OBVIOUS
<1>5. HasSlot \ {e} = HasSlot <=> e \notin HasSlot
  OBVIOUS
<1>6. e \notin HasSlot => Cardinality(HasSlot \union {e}) = Cardinality(HasSlot) + 1
  BY <1>1, FS_AddElement
<1>7. e \in HasSlot => Cardinality(HasSlot \ {e}) = Cardinality(HasSlot) - 1
  BY <1>1, FS_RemoveElement
<1>. QED  BY <1>1, <1>2, <1>3, <1>4, <1>5, <1>6, <1>7

(* A step of a task is one of a call that goes on.                          *)
LEMMA TypeKept ==
  ASSUME TaskTypeOK, MainInv, NEW e \in Elements, task[e] # "over", NEW s \in Stages,
         task' = [task EXCEPT ![e] = s], UNCHANGED mainVars,
         s \in {"calling", "answered"} => ~cancelled, s = "cancelled" => cancelled
  PROVE  TaskTypeOK' /\ MainInv'
<1>1. \A o \in Elements : task'[o] = IF o = e THEN s ELSE task[o]
  BY DEF TaskTypeOK
<1>2. pc # "gather" => cancelled
  BY DEF MainInv
<1>. QED  BY <1>1, <1>2 DEF TaskTypeOK, MainInv, mainVars

(* The task of e, which does not wait, goes where it does not wait either,  *)
(* with the queue as it is.                                                 *)
LEMMA QueueKept ==
  ASSUME TaskTypeOK, QueueInv, NEW e \in Elements, task[e] # "waiting",
         NEW s \in Stages \ {"waiting"}, task' = [task EXCEPT ![e] = s], waiters' = waiters,
         \A o \in granted' \ granted : \E i \in DOMAIN waiters : waiters[i] = o
  PROVE  QueueInv'
<1>1. \A o \in Elements : task'[o] = "waiting" <=> task[o] = "waiting"
  BY DEF TaskTypeOK
<1>2. \A i \in DOMAIN waiters : waiters[i] \in Elements
  BY ElementOfSeq, LenProperties DEF QueueInv
<1>. QED  BY <1>1, <1>2 DEF QueueInv

(* The task of e leaves the queue.                                          *)
LEMMA QueueLeft ==
  ASSUME TaskTypeOK, QueueInv, NEW e \in Elements, task[e] = "waiting",
         NEW s \in Stages \ {"waiting"}, task' = [task EXCEPT ![e] = s],
         waiters' = Without(e), granted \subseteq Elements,
         \A o \in granted' \ (granted \ {e}) :
           \E i \in DOMAIN Without(e) : Without(e)[i] = o
  PROVE  QueueInv'
<1>1. PICK rest : rest = Without(e)
  OBVIOUS
<1>2. /\ rest \in Seq(Elements)
      /\ \A i, j \in DOMAIN rest : rest[i] = rest[j] => i = j
      /\ \A i \in DOMAIN rest : rest[i] # e /\ task[rest[i]] = "waiting"
      /\ \A o \in Elements \ {e} : task[o] = "waiting" => \E i \in DOMAIN rest : rest[i] = o
  BY <1>1, WithoutOne
<1>3. \A i \in DOMAIN rest : rest[i] \in Elements
  BY <1>2, ElementOfSeq, LenProperties
<1>4. \A o \in Elements : task'[o] = IF o = e THEN s ELSE task[o]
  BY DEF TaskTypeOK
<1>5. \A o \in granted \ {e} : \E i \in DOMAIN rest : rest[i] = o
  <2>. SUFFICES ASSUME NEW o \in granted \ {e}
                PROVE  \E i \in DOMAIN rest : rest[i] = o
    OBVIOUS
  <2>1. task[o] = "waiting"
    BY DEF QueueInv
  <2>. QED  BY <2>1, <1>2
<1>. QED  BY <1>1, <1>2, <1>3, <1>4, <1>5 DEF QueueInv

(* The task of e gives back or takes over a slot: it is no longer among     *)
(* those that were given one, and the queue is woken.                       *)
LEMMA Handover ==
  ASSUME EnhancerAssumption, Inv, NEW e \in Elements, NEW s \in Stages,
         task' = [task EXCEPT ![e] = s],
         NEW value \in Nat, NEW queue \in Seq(Elements), NEW some \in SUBSET Elements,
         NEW n \in Nat \ {0}, WakeUp(value, queue, some, n),
         value + Cardinality(some) + Cardinality(HasSlot')
           = free + Cardinality(granted) + Cardinality(HasSlot),
         cancelled' = cancelled
  PROVE  SlotInv' /\ NobodyIsForgotten'
<1>1. /\ waiters' = queue /\ free' \in Nat /\ granted' \in SUBSET Elements
      /\ free' + Cardinality(granted') = value + Cardinality(some)
      /\ queue # <<>> /\ ~cancelled => granted' # {} \/ free' = 0
  BY Waking
<1>2. Cardinality(HasSlot') \in Nat
  BY ElementsFinite, FS_Subset, FS_CardinalityType DEF HasSlot
<1>3. Cardinality(some) \in Nat /\ Cardinality(granted') \in Nat
  BY <1>1, ElementsFinite, FS_Subset, FS_CardinalityType
<1>4. SlotsAreConserved'
  BY <1>1, <1>2, <1>3 DEF Inv, SlotInv, SlotsAreConserved
<1>. QED  BY <1>1, <1>4 DEF SlotInv, NobodyIsForgotten

(* A slot is given back.                                                    *)
LEMMA Releasing ==
  ASSUME EnhancerAssumption, Inv, NEW e \in Elements, NEW s \in {"over", "cancelled"},
         task' = [task EXCEPT ![e] = s], task[e] \in Holds,
         Release, cancelled' = cancelled
  PROVE  QueueInv' /\ SlotInv' /\ NobodyIsForgotten'
<1>1. /\ free \in Nat /\ free + 1 \in Nat /\ granted \in SUBSET Elements
      /\ waiters \in Seq(Elements)
  BY DEF Inv, SlotInv, QueueInv
<1>2. Cardinality(HasSlot') = Cardinality(HasSlot) - 1 /\ Cardinality(HasSlot) \in Nat
  <2>1. s \in Stages /\ s \notin Holds
    BY DEF Stages, Holds
  <2>. QED  BY <2>1, Holders DEF Inv
<1>3. Cardinality(granted) \in Nat
  BY <1>1, ElementsFinite, FS_Subset, FS_CardinalityType
<1>4. PICK value \in Nat, queue \in Seq(Elements), some \in SUBSET Elements :
        /\ value = free + 1 /\ queue = waiters /\ some = granted
        /\ WakeUp(value, queue, some, 1)
  BY <1>1 DEF Release, WakeUp
<1>5. /\ waiters' = waiters
      /\ \A o \in granted' \ granted : \E i \in DOMAIN waiters : waiters[i] = o
  <2>1. 1 \in Nat \ {0}
    OBVIOUS
  <2>2. /\ waiters' = queue
        /\ \A o \in granted' \ some : \E i \in DOMAIN queue : queue[i] = o
    <3>1. waiters' = queue /\ granted' \ some \subseteq ToSet(queue)
      BY <1>4, <2>1, Waking
    <3>. QED  BY <3>1 DEF ToSet
  <2>. QED  BY <2>2, <1>4
<1>6. QueueInv'
  BY <1>5, QueueKept DEF Inv, Stages, Holds
<1>7. value + Cardinality(some) + Cardinality(HasSlot')
        = free + Cardinality(granted) + Cardinality(HasSlot)
  BY <1>1, <1>2, <1>3, <1>4
<1>8. SlotInv' /\ NobodyIsForgotten'
  <2>1. s \in Stages /\ 1 \in Nat \ {0}
    BY DEF Stages
  <2>. QED  BY <2>1, <1>4, <1>7, Handover
<1>. QED  BY <1>6, <1>8

(* A task that waits leaves the queue with as many slots as it had.         *)
LEMMA Dequeuing ==
  ASSUME EnhancerAssumption, Inv, NEW e \in Elements, task[e] = "waiting",
         NEW s \in {"calling", "over", "cancelled"}, task' = [task EXCEPT ![e] = s],
         cancelled' = cancelled,
         NEW value \in Nat, WakeUp(value, Without(e), granted \ {e}, N),
         value = free + (IF e \in granted THEN 1 ELSE 0) - (IF s = "calling" THEN 1 ELSE 0)
  PROVE  QueueInv' /\ SlotInv' /\ NobodyIsForgotten'
<1>1. /\ free \in Nat /\ granted \in SUBSET Elements /\ granted \ {e} \in SUBSET Elements
      /\ Without(e) \in Seq(Elements) /\ N \in Nat \ {0}
  BY WithoutOne DEF Inv, SlotInv, EnhancerAssumption, Elements
<1>2. /\ Cardinality(HasSlot') = Cardinality(HasSlot) + (IF s = "calling" THEN 1 ELSE 0)
      /\ Cardinality(HasSlot) \in Nat
  <2>1. s \in Stages /\ task[e] \notin Holds /\ (s \in Holds <=> s = "calling")
    BY DEF Stages, Holds
  <2>2. /\ Cardinality(HasSlot) \in Nat
        /\ s \in Holds => Cardinality(HasSlot') = Cardinality(HasSlot) + 1
        /\ s \notin Holds => Cardinality(HasSlot') = Cardinality(HasSlot)
    BY <2>1, Holders DEF Inv
  <2>. QED  BY <2>1, <2>2
<1>3. /\ IsFiniteSet(granted) /\ Cardinality(granted) \in Nat
      /\ Cardinality(granted \ {e}) = Cardinality(granted) - (IF e \in granted THEN 1 ELSE 0)
  BY <1>1, ElementsFinite, FS_Subset, FS_CardinalityType, FS_RemoveElement
<1>4. PICK queue \in Seq(Elements), some \in SUBSET Elements :
        /\ queue = Without(e) /\ some = granted \ {e}
        /\ WakeUp(value, queue, some, N)
  BY <1>1 DEF WakeUp
<1>5. /\ waiters' = queue
      /\ \A o \in granted' \ some : \E i \in DOMAIN queue : queue[i] = o
  <2>1. waiters' = queue /\ granted' \ some \subseteq ToSet(queue)
    BY <1>1, <1>4, Waking
  <2>. QED  BY <2>1 DEF ToSet
<1>6. QueueInv'
  BY <1>1, <1>4, <1>5, QueueLeft DEF Inv, Stages
<1>7. value + Cardinality(some) + Cardinality(HasSlot')
        = free + Cardinality(granted) + Cardinality(HasSlot)
  <2>1. PICK was, left, had, have :
          /\ was = Cardinality(granted) /\ left = Cardinality(some)
          /\ had = Cardinality(HasSlot) /\ have = Cardinality(HasSlot')
    OBVIOUS
  <2>2. /\ was \in Nat /\ left = was - (IF e \in granted THEN 1 ELSE 0)
        /\ had \in Nat /\ have = had + (IF s = "calling" THEN 1 ELSE 0)
    BY <2>1, <1>2, <1>3, <1>4
  <2>3. value + left + have = free + was + had
    BY <2>2, <1>1
  <2>. QED  BY <2>1, <2>3
<1>8. SlotInv' /\ NobodyIsForgotten'
  <2>1. s \in Stages
    BY DEF Stages
  <2>. QED  BY <2>1, <1>1, <1>4, <1>7, Handover
<1>. QED  BY <1>6, <1>8

(* Nothing changes hands.                                                   *)
LEMMA SlotsKept ==
  ASSUME EnhancerAssumption, Inv, NEW e \in Elements, task[e] # "waiting",
         NEW s \in Stages \ {"waiting"}, task' = [task EXCEPT ![e] = s],
         s \in Holds
           <=> task[e] \in Holds,
         UNCHANGED slotVars, cancelled' = cancelled
  PROVE  QueueInv' /\ SlotInv' /\ NobodyIsForgotten'
<1>1. QueueInv'
  BY QueueKept DEF Inv, slotVars
<1>2. Cardinality(HasSlot') = Cardinality(HasSlot) /\ Cardinality(HasSlot) \in Nat
  BY Holders DEF Inv, Holds
<1>3. SlotInv'
  BY <1>2 DEF Inv, SlotInv, SlotsAreConserved, slotVars
<1>. QED  BY <1>1, <1>3 DEF Inv, NobodyIsForgotten, slotVars

-----------------------------------------------------------------------------

LEMMA NoHandlerStep ==
  ASSUME EnhancerAssumption, Inv, NEW e \in Elements, NoHandler(e)
  PROVE  Inv'
<1>1. task[e] = "ready" /\ task' = [task EXCEPT ![e] = "over"]
  BY DEF NoHandler, Finish
<1>2. UNCHANGED slotVars /\ UNCHANGED mainVars /\ cancelled' = cancelled
  BY DEF NoHandler, mainVars
<1>3. QueueInv' /\ SlotInv' /\ NobodyIsForgotten'
  BY <1>1, <1>2, SlotsKept DEF Stages, Holds
<1>4. TaskTypeOK' /\ MainInv'
  BY <1>1, <1>2, TypeKept DEF Inv, Stages
<1>. QED  BY <1>3, <1>4 DEF Inv

LEMMA WaitStep ==
  ASSUME EnhancerAssumption, Inv, NEW e \in Elements, Wait(e)
  PROVE  Inv'
<1>1. /\ task[e] = "ready" /\ task' = [task EXCEPT ![e] = "waiting"]
      /\ Locked /\ waiters' = Append(waiters, e)
      /\ free' = free /\ granted' = granted /\ UNCHANGED mainVars /\ cancelled' = cancelled
  BY DEF Wait, mainVars
<1>2. TaskTypeOK' /\ MainInv'
  BY <1>1, TypeKept DEF Inv, Stages
<1>3. /\ waiters \in Seq(Elements) /\ Len(waiters) \in Nat
      /\ DOMAIN waiters = 1 .. Len(waiters)
  BY LenProperties DEF Inv, QueueInv
<1>4. /\ waiters' \in Seq(Elements)
      /\ DOMAIN waiters' = 1 .. Len(waiters) + 1
      /\ \A i \in 1 .. Len(waiters) : waiters'[i] = waiters[i]
      /\ waiters'[Len(waiters) + 1] = e
  <2>1. /\ waiters' \in Seq(Elements) /\ Len(waiters') = Len(waiters) + 1
        /\ \A i \in 1 .. Len(waiters) : waiters'[i] = waiters[i]
        /\ waiters'[Len(waiters) + 1] = e
    BY <1>1, <1>3, AppendProperties
  <2>. QED  BY <2>1, LenProperties
<1>5. \A o \in Elements : task'[o] = IF o = e THEN "waiting" ELSE task[o]
  BY <1>1 DEF Inv, TaskTypeOK
<1>6. \A i \in DOMAIN waiters : waiters[i] \in Elements /\ waiters[i] # e
  BY <1>1, <1>3, ElementOfSeq DEF Inv, QueueInv
<1>7. QueueInv'
  <2>1. \A i, j \in DOMAIN waiters' : waiters'[i] = waiters'[j] => i = j
    BY <1>3, <1>4, <1>6 DEF Inv, QueueInv
  <2>2. \A i \in DOMAIN waiters' : task'[waiters'[i]] = "waiting"
    BY <1>3, <1>4, <1>5, <1>6 DEF Inv, QueueInv
  <2>3. ASSUME NEW o \in Elements, o = e \/ \E i \in DOMAIN waiters : waiters[i] = o
        PROVE  \E i \in DOMAIN waiters' : waiters'[i] = o
    <3>1. CASE o = e
      <4>1. Len(waiters) + 1 \in DOMAIN waiters'
        BY <1>3, <1>4
      <4>. QED  BY <3>1, <4>1, <1>4
    <3>2. CASE \E i \in DOMAIN waiters : waiters[i] = o
      BY <3>2, <1>3, <1>4
    <3>. QED  BY <2>3, <3>1, <3>2
  <2>4. \A o \in Elements : task'[o] = "waiting" => \E i \in DOMAIN waiters' : waiters'[i] = o
    BY <2>3, <1>5 DEF Inv, QueueInv
  <2>5. \A o \in granted' : \E i \in DOMAIN waiters' : waiters'[i] = o
    BY <2>3, <1>1 DEF Inv, QueueInv, SlotInv
  <2>. QED  BY <1>4, <2>1, <2>2, <2>4, <2>5 DEF QueueInv
<1>8. SlotInv'
  <2>1. Cardinality(HasSlot') = Cardinality(HasSlot) /\ Cardinality(HasSlot) \in Nat
    BY <1>1, Holders DEF Inv, Stages, Holds
  <2>. QED  BY <2>1, <1>1 DEF Inv, SlotInv, SlotsAreConserved
<1>9. NobodyIsForgotten'
  BY <1>1 DEF Inv, SlotInv, NobodyIsForgotten, Locked
<1>. QED  BY <1>2, <1>7, <1>8, <1>9 DEF Inv

LEMMA CallProviderStep ==
  ASSUME EnhancerAssumption, Inv, NEW e \in Elements, CallProvider(e)
  PROVE  Inv'
<1>1. /\ task' = [task EXCEPT ![e] = "calling"] /\ UNCHANGED mainVars
      /\ ~cancelled /\ cancelled' = cancelled
  BY DEF CallProvider, mainVars
<1>2. CASE FindsFree(e) /\ free' = free - 1 /\ UNCHANGED <<waiters, granted>>
  <2>1. task[e] = "ready" /\ free # 0 /\ waiters = <<>>
    BY <1>2 DEF FindsFree, Locked
  <2>2. TaskTypeOK' /\ MainInv'
    BY <1>1, <2>1, TypeKept DEF Inv, Stages
  <2>3. QueueInv'
    BY <1>1, <1>2, <2>1, QueueKept DEF Inv, Stages
  <2>4. Cardinality(HasSlot') = Cardinality(HasSlot) + 1 /\ Cardinality(HasSlot) \in Nat
    BY <1>1, <2>1, Holders DEF Inv, Stages, Holds
  <2>5. Cardinality(granted) \in Nat
    BY ElementsFinite, FS_Subset, FS_CardinalityType DEF Inv, SlotInv
  <2>6. SlotInv'
    BY <1>2, <2>1, <2>4, <2>5 DEF Inv, SlotInv, SlotsAreConserved
  <2>7. NobodyIsForgotten'
    BY <1>2, <2>1 DEF NobodyIsForgotten
  <2>. QED  BY <2>2, <2>3, <2>6, <2>7 DEF Inv
<1>3. CASE WasGranted(e) /\ WakeUp(free, Without(e), granted \ {e}, N)
  <2>1. task[e] = "waiting" /\ e \in granted /\ free \in Nat
    BY <1>3 DEF WasGranted, Inv, SlotInv
  <2>2. TaskTypeOK' /\ MainInv'
    BY <1>1, <2>1, TypeKept DEF Inv, Stages
  <2>3. PICK value \in Nat : value = free /\ WakeUp(value, Without(e), granted \ {e}, N)
    BY <1>3, <2>1 DEF WakeUp
  <2>4. value = free + (IF e \in granted THEN 1 ELSE 0) - 1
    BY <2>1, <2>3
  <2>5. QueueInv' /\ SlotInv' /\ NobodyIsForgotten'
    BY <1>1, <2>1, <2>3, <2>4, Dequeuing
  <2>. QED  BY <2>2, <2>5 DEF Inv
<1>. QED  BY <1>2, <1>3 DEF CallProvider

LEMMA ConvertByRuleStep ==
  ASSUME EnhancerAssumption, Inv, NEW e \in Elements, ConvertByRule(e)
  PROVE  Inv'
<1>1. /\ task' = [task EXCEPT ![e] = "over"] /\ UNCHANGED mainVars
      /\ cancelled' = cancelled
  BY DEF ConvertByRule, Finish, mainVars
<1>2. CASE FindsFree(e) /\ UNCHANGED slotVars
  <2>1. task[e] = "ready"
    BY <1>2 DEF FindsFree
  <2>2. TaskTypeOK' /\ MainInv'
    BY <1>1, <2>1, TypeKept DEF Inv, Stages
  <2>3. QueueInv' /\ SlotInv' /\ NobodyIsForgotten'
    BY <1>1, <1>2, <2>1, SlotsKept DEF Stages, Holds
  <2>. QED  BY <2>2, <2>3 DEF Inv
<1>3. CASE WasGranted(e) /\ WakeUp(free + 1, Without(e), granted \ {e}, N)
  <2>1. task[e] = "waiting" /\ e \in granted /\ free \in Nat /\ free + 1 \in Nat
    BY <1>3 DEF WasGranted, Inv, SlotInv
  <2>2. TaskTypeOK' /\ MainInv'
    BY <1>1, <2>1, TypeKept DEF Inv, Stages
  <2>3. PICK value \in Nat :
          value = free + 1 /\ WakeUp(value, Without(e), granted \ {e}, N)
    BY <1>3, <2>1 DEF WakeUp
  <2>4. value = free + (IF e \in granted THEN 1 ELSE 0) - 0
    BY <2>1, <2>3
  <2>5. QueueInv' /\ SlotInv' /\ NobodyIsForgotten'
    BY <1>1, <2>1, <2>3, <2>4, Dequeuing
  <2>. QED  BY <2>2, <2>5 DEF Inv
<1>. QED  BY <1>2, <1>3 DEF ConvertByRule

(* The provider answers, or the time is over.                               *)
LEMMA AnswerStep ==
  ASSUME EnhancerAssumption, Inv, NEW e \in Elements, Answer(e) \/ Expire(e)
  PROVE  Inv'
<1>1. /\ \E s \in {"answered", "unwinding"} : task' = [task EXCEPT ![e] = s]
      /\ task[e] \in {"calling", "answered"} /\ ~cancelled
      /\ UNCHANGED slotVars /\ UNCHANGED mainVars
  BY DEF Answer, Expire
<1>2. PICK s \in {"answered", "unwinding"} : task' = [task EXCEPT ![e] = s]
  BY <1>1
<1>3. s \in Stages /\ s \in Holds /\ task[e] \in Holds /\ cancelled' = cancelled
  BY <1>1 DEF Stages, Holds, mainVars
<1>4. QueueInv' /\ SlotInv' /\ NobodyIsForgotten'
  BY <1>1, <1>2, <1>3, SlotsKept
<1>5. TaskTypeOK' /\ MainInv'
  BY <1>1, <1>2, <1>3, TypeKept DEF Inv
<1>. QED  BY <1>4, <1>5 DEF Inv

(* A call of the provider ends.                                             *)
LEMMA ResumeStep ==
  ASSUME EnhancerAssumption, Inv, NEW e \in Elements, Resume(e) \/ Unwind(e)
  PROVE  Inv'
<1>1. /\ task[e] \in Holds /\ task[e] # "over"
      /\ \E s \in {"over", "cancelled"} :
           task' = [task EXCEPT ![e] = s] /\ (s = "cancelled" => cancelled)
      /\ Release /\ UNCHANGED mainVars
  BY DEF Resume, Unwind, Finish, Drop, Holds
<1>2. PICK s \in {"over", "cancelled"} :
        task' = [task EXCEPT ![e] = s] /\ (s = "cancelled" => cancelled)
  BY <1>1
<1>3. QueueInv' /\ SlotInv' /\ NobodyIsForgotten'
  BY <1>1, <1>2, Releasing DEF mainVars
<1>4. TaskTypeOK' /\ MainInv'
  BY <1>1, <1>2, TypeKept DEF Inv, Stages
<1>. QED  BY <1>3, <1>4 DEF Inv

LEMMA AbandonStep ==
  ASSUME EnhancerAssumption, Inv, NEW e \in Elements, Abandon(e)
  PROVE  Inv'
<1>1. /\ task[e] # "over" /\ task' = [task EXCEPT ![e] = "cancelled"] /\ cancelled
      /\ UNCHANGED mainVars /\ cancelled' = cancelled
      /\ \/ task[e] = "ready" /\ UNCHANGED slotVars
         \/ /\ task[e] = "waiting"
            /\ WakeUp(IF e \in granted THEN free + 1 ELSE free, Without(e), granted \ {e}, N)
  BY DEF Abandon, Drop, mainVars
<1>2. TaskTypeOK' /\ MainInv'
  BY <1>1, TypeKept DEF Inv, Stages
<1>3. CASE task[e] = "ready" /\ UNCHANGED slotVars
  BY <1>1, <1>2, <1>3, SlotsKept DEF Inv, Stages, Holds
<1>4. CASE /\ task[e] = "waiting"
           /\ WakeUp(IF e \in granted THEN free + 1 ELSE free, Without(e), granted \ {e}, N)
  <2>1. PICK value \in Nat :
          /\ value = IF e \in granted THEN free + 1 ELSE free
          /\ WakeUp(value, Without(e), granted \ {e}, N)
    <3>1. (IF e \in granted THEN free + 1 ELSE free) \in Nat
      BY DEF Inv, SlotInv
    <3>. QED  BY <3>1, <1>4 DEF WakeUp
  <2>2. value = free + (IF e \in granted THEN 1 ELSE 0) - 0
    BY <2>1 DEF Inv, SlotInv
  <2>3. QueueInv' /\ SlotInv' /\ NobodyIsForgotten'
    BY <1>1, <1>4, <2>1, <2>2, Dequeuing
  <2>. QED  BY <1>2, <2>3 DEF Inv
<1>. QED  BY <1>1, <1>3, <1>4

(* enhance() itself: it patches the document and closes the provider, or    *)
(* every call is told that it is cancelled.                                 *)
LEMMA MainStep ==
  ASSUME Inv, Cancel \/ GoesOn \/ Close
  PROVE  Inv'
<1>1. CASE Cancel
  <2>1. /\ UNCHANGED slotVars /\ pc' = "gather" /\ cancelled' = TRUE /\ closed' = closed
        /\ task' = [e \in Elements |->
             IF task[e] \in {"calling", "answered"} THEN "unwinding" ELSE task[e]]
    BY <1>1 DEF Cancel
  <2>2. TaskTypeOK' /\ MainInv'
    <3>1. task \in [Elements -> Stages] /\ pc = "gather" /\ closed \in BOOLEAN
          /\ (closed => pc = "done")
      BY <1>1 DEF Inv, TaskTypeOK, MainInv, Cancel
    <3>2. \A e \in Elements : /\ task'[e] \in Stages
                             /\ task'[e] \notin {"calling", "answered"}
      BY <2>1, <3>1 DEF Stages
    <3>. QED  BY <2>1, <3>1, <3>2 DEF TaskTypeOK, MainInv
  <2>3. \A e \in Elements : task'[e] = "waiting" <=> task[e] = "waiting"
    BY <2>1
  <2>4. QueueInv'
    <3>1. \A i \in DOMAIN waiters : waiters[i] \in Elements
      BY ElementOfSeq, LenProperties DEF Inv, QueueInv
    <3>. QED  BY <2>1, <2>3, <3>1 DEF Inv, QueueInv, slotVars
  <2>5. HasSlot' = HasSlot
    BY <2>1 DEF HasSlot
  <2>6. SlotInv' /\ NobodyIsForgotten'
    BY <2>1, <2>5 DEF Inv, SlotInv, SlotsAreConserved, NobodyIsForgotten, slotVars
  <2>. QED  BY <2>2, <2>4, <2>6 DEF Inv
<1>2. CASE GoesOn \/ Close
  <2>1. UNCHANGED slotVars /\ task' = task /\ cancelled' = cancelled
    BY <1>2 DEF GoesOn, Close
  <2>2. QueueInv' /\ SlotInv' /\ NobodyIsForgotten'
    BY <2>1 DEF Inv, QueueInv, SlotInv, SlotsAreConserved, HasSlot, NobodyIsForgotten, slotVars
  <2>3. TaskTypeOK' /\ MainInv'
    <3>1. CASE GoesOn
      BY <2>1, <3>1 DEF Inv, TaskTypeOK, MainInv, AllOver, GoesOn
    <3>2. CASE Close
      BY <2>1, <3>2 DEF Inv, TaskTypeOK, MainInv, Close
    <3>. QED  BY <1>2, <3>1, <3>2
  <2>. QED  BY <2>2, <2>3 DEF Inv
<1>. QED  BY <1>1, <1>2

LEMMA InvStep == EnhancerAssumption /\ Inv /\ Moves => Inv'
<1>. SUFFICES ASSUME EnhancerAssumption, Inv, Moves PROVE Inv'
  OBVIOUS
<1>1. ASSUME NEW e \in Elements, Task(e) \/ Answer(e) \/ Expire(e) \/ Unwind(e)
      PROVE  Inv'
  BY <1>1, NoHandlerStep, WaitStep, CallProviderStep, ConvertByRuleStep, ResumeStep,
     AbandonStep, AnswerStep DEF Task
<1>2. CASE UNCHANGED vars
  BY <1>2 DEF vars, slotVars, mainVars, Inv, TaskTypeOK, QueueInv, SlotInv,
     SlotsAreConserved, HasSlot, NobodyIsForgotten, MainInv
<1>. QED  BY <1>1, <1>2, MainStep DEF Moves

LEMMA Invariant ==
  ASSUME EnhancerAssumption
  PROVE  Spec => []Inv
<1>1. Init => Start
  BY DEF Init, Start
<1>2. [Next]_vars => Moves
  BY DEF Next, Gather, GoesOn, Moves
<1>. QED  BY <1>1, <1>2, InitInv, InvStep, PTL DEF Spec

-----------------------------------------------------------------------------
(* 5. What follows.                                                         *)

(* After gather a call of the provider is under way only if it was told to  *)
(* end.                                                                     *)
LEMMA Outlives == Inv => ProviderOutlivesCalls
BY DEF Inv, MainInv, ProviderOutlivesCalls, HasSlot

(* At most max_concurrent calls of the provider are under way at a time,    *)
(* and whoever waits while a slot is free is woken by one that has been     *)
(* given another, unless the call is cancelled.                             *)
Bounded ==
  /\ Cardinality(HasSlot) <= MaxConcurrent
  /\ free > 0 /\ ~cancelled /\ (\E e \in Elements : task[e] = "waiting") =>
       \E e \in granted : task[e] = "waiting"

(* The semaphore, for every number of elements and of slots.                *)
THEOREM CallsAreBounded ==
  ASSUME EnhancerAssumption
  PROVE  Spec => []Bounded
<1>1. Inv => Bounded
  <2>. SUFFICES ASSUME Inv PROVE Bounded
    OBVIOUS
  <2>1. Cardinality(HasSlot) \in Nat /\ Cardinality(granted) \in Nat
    BY ElementsFinite, FS_Subset, FS_CardinalityType DEF HasSlot, Inv, SlotInv
  <2>2. Cardinality(HasSlot) <= MaxConcurrent
    BY <2>1 DEF Inv, SlotInv, SlotsAreConserved, EnhancerAssumption
  <2>3. ASSUME free > 0, ~cancelled, NEW e \in Elements, task[e] = "waiting"
        PROVE  \E o \in granted : task[o] = "waiting"
    <3>1. waiters # <<>>
      <4>1. PICK i \in DOMAIN waiters : waiters[i] = e
        BY <2>3 DEF Inv, QueueInv
      <4>. QED  BY <4>1
    <3>2. PICK o \in granted : TRUE
      BY <2>3, <3>1 DEF Inv, NobodyIsForgotten
    <3>3. task[o] = "waiting"
      BY DEF Inv, QueueInv
    <3>. QED  BY <3>3
  <2>. QED  BY <2>2, <2>3 DEF Bounded
<1>. QED  BY <1>1, Invariant, PTL

-----------------------------------------------------------------------------
(* 6. The patched document.  What holds of every natural number is shown    *)
(* by the least one that it does not hold of.                               *)

LEMMA LeastNatural ==
  ASSUME NEW S \in SUBSET Nat, S # {}
  PROVE  \E n \in S : \A m \in S : n <= m
<1>1. IsWellFoundedOn(OpToRel(<, Nat), Nat)
  BY NatLessThanWellFounded
<1>2. \E x \in S : \A y \in S : ~ (<<y, x>> \in OpToRel(<, Nat))
  BY <1>1, WFMin
<1>3. PICK x \in S : \A y \in S : ~ (<<y, x>> \in {p \in Nat \X Nat : p[1] < p[2]})
  BY <1>2 DEF OpToRel
<1>4. \A y \in S : ~ (y < x)
  <2>. TAKE y \in S
  <2>1. y < x => <<y, x>> \in {p \in Nat \X Nat : p[1] < p[2]}
    OBVIOUS
  <2>. QED  BY <1>3, <2>1
<1>5. \A y \in S : x <= y
  BY <1>4
<1>. QED  BY <1>5

LEMMA MinOfNaturals ==
  ASSUME NEW S \in SUBSET Nat, S # {}
  PROVE  Min(S) \in S /\ \A n \in S : Min(S) <= n
BY LeastNatural DEF Min

LEMMA MaxOfElements ==
  ASSUME N \in Nat, NEW S \in SUBSET Elements, S # {}
  PROVE  Max(S) \in S /\ \A n \in S : n <= Max(S)
<1>. DEFINE R == {k \in Nat : N - k \in S}
<1>1. R # {}
  <2>1. PICK e \in S : TRUE
    OBVIOUS
  <2>2. N - e \in R
    BY <2>1 DEF Elements
  <2>. QED  BY <2>2
<1>2. PICK k \in R : \A m \in R : k <= m
  BY <1>1, LeastNatural
<1>3. \A e \in S : e <= N - k
  <2>. TAKE e \in S
  <2>1. N - e \in R
    BY DEF Elements
  <2>2. k <= N - e
    BY <1>2, <2>1
  <2>. QED  BY <1>2, <2>2 DEF Elements
<1>4. \E e \in S : \A n \in S : n <= e
  BY <1>2, <1>3
<1>. QED  BY <1>4 DEF Max, Elements

Node == [id : Ids, from : {0} \cup Elements, depth : Nat]

(* A piece of a sequence is replaced by another.                            *)
Spliced(s, w, i, m) == SubSeq(s, 1, i - 1) \o w \o SubSeq(s, m, Len(s))

LEMMA Splice ==
  ASSUME NEW s \in Seq(Node), NEW w \in Seq(Node), NEW i \in 1 .. Len(s),
         NEW m \in (i + 1) .. (Len(s) + 1), NEW t,
         t = Spliced(s, w, i, m)
  PROVE  /\ t \in Seq(Node) /\ Len(t) = (i - 1) + Len(w) + (Len(s) - m) + 1
         /\ \A k \in 1 .. (i - 1) : t[k] = s[k]
         /\ \A k \in 1 .. Len(w) : t[(i - 1) + k] = w[k]
         /\ \A k \in m .. Len(s) : t[(k - m) + i + Len(w)] = s[k]
<1>. DEFINE a == SubSeq(s, 1, i - 1)
            b == SubSeq(s, m, Len(s))
<1>1. /\ a \in Seq(Node) /\ Len(a) = i - 1
      /\ \A k \in 1 .. (i - 1) : a[k] = s[k]
  <2>1. \A k \in 1 .. (i - 1) : s[k] \in Node
    OBVIOUS
  <2>. QED  BY <2>1, SubSeqProperties
<1>2. /\ b \in Seq(Node) /\ Len(b) = (Len(s) - m) + 1
      /\ \A k \in m .. Len(s) : b[(k - m) + 1] = s[k]
  <2>1. /\ b \in Seq(Node) /\ Len(b) = (Len(s) - m) + 1
        /\ \A n \in 1 .. ((Len(s) - m) + 1) : b[n] = s[m + n - 1]
    BY SubSeqProperties
  <2>2. ASSUME NEW k \in m .. Len(s)
        PROVE  b[(k - m) + 1] = s[k]
    <3>1. (k - m) + 1 \in 1 .. ((Len(s) - m) + 1) /\ m + ((k - m) + 1) - 1 = k
      OBVIOUS
    <3>. QED  BY <2>1, <3>1
  <2>. QED  BY <2>1, <2>2
<1>. HIDE DEF a, b
<1>3. /\ a \o w \in Seq(Node) /\ Len(a \o w) = Len(a) + Len(w)
      /\ \A k \in 1 .. Len(a) : (a \o w)[k] = a[k]
      /\ \A k \in 1 .. Len(w) : (a \o w)[Len(a) + k] = w[k]
  <2>1. /\ a \o w \in Seq(Node) /\ Len(a \o w) = Len(a) + Len(w)
        /\ \A k \in 1 .. (Len(a) + Len(w)) :
             (a \o w)[k] = IF k <= Len(a) THEN a[k] ELSE w[k - Len(a)]
    BY <1>1, ConcatProperties
  <2>2. Len(a) \in Nat /\ Len(w) \in Nat
    BY <1>1
  <2>3. \A k \in 1 .. Len(a) : (a \o w)[k] = a[k]
    BY <2>1, <2>2
  <2>4. ASSUME NEW k \in 1 .. Len(w)
        PROVE  (a \o w)[Len(a) + k] = w[k]
    <3>1. Len(a) + k \in 1 .. (Len(a) + Len(w)) /\ ~ (Len(a) + k <= Len(a))
          /\ (Len(a) + k) - Len(a) = k
      BY <2>2
    <3>. QED  BY <2>1, <3>1
  <2>. QED  BY <2>1, <2>3, <2>4
<1>4. /\ t \in Seq(Node) /\ Len(t) = Len(a \o w) + Len(b)
      /\ \A k \in 1 .. Len(a \o w) : t[k] = (a \o w)[k]
      /\ \A k \in 1 .. Len(b) : t[Len(a \o w) + k] = b[k]
  <2>. DEFINE c == a \o w
  <2>0. t = c \o b
    BY DEF a, b, Spliced
  <2>. HIDE DEF c
  <2>1. /\ t \in Seq(Node) /\ Len(t) = Len(c) + Len(b)
        /\ \A k \in 1 .. (Len(c) + Len(b)) : t[k] = IF k <= Len(c) THEN c[k] ELSE b[k - Len(c)]
    <3>1. c \in Seq(Node)
      BY <1>3 DEF c
    <3>2. b \in Seq(Node)
      BY <1>2
    <3>3. /\ c \o b \in Seq(Node) /\ Len(c \o b) = Len(c) + Len(b)
          /\ \A k \in 1 .. (Len(c) + Len(b)) :
               (c \o b)[k] = IF k <= Len(c) THEN c[k] ELSE b[k - Len(c)]
      BY <3>1, <3>2, ConcatProperties
    <3>. QED  BY <2>0, <3>3
  <2>2. Len(c) \in Nat /\ Len(b) \in Nat
    BY <1>2, <1>3 DEF c
  <2>3. ASSUME NEW k \in 1 .. Len(c)
        PROVE  t[k] = c[k]
    <3>1. k \in 1 .. (Len(c) + Len(b)) /\ k <= Len(c)
      BY <2>2
    <3>. QED  BY <2>1, <3>1
  <2>4. ASSUME NEW k \in 1 .. Len(b)
        PROVE  t[Len(c) + k] = b[k]
    <3>1. Len(c) + k \in 1 .. (Len(c) + Len(b)) /\ ~ (Len(c) + k <= Len(c))
          /\ (Len(c) + k) - Len(c) = k
      BY <2>2
    <3>. QED  BY <2>1, <3>1
  <2>. QED  BY <2>1, <2>3, <2>4 DEF c
<1>5. ASSUME NEW k \in 1 .. (i - 1)
      PROVE  t[k] = s[k]
  <2>1. Len(a \o w) = (i - 1) + Len(w) /\ Len(w) \in Nat
    BY <1>1, <1>3
  <2>2. k \in 1 .. Len(a) /\ k \in 1 .. Len(a \o w)
    BY <1>1, <2>1
  <2>3. t[k] = (a \o w)[k]
    BY <1>4, <2>2
  <2>4. (a \o w)[k] = a[k]
    BY <1>3, <2>2
  <2>. QED  BY <1>1, <2>3, <2>4
<1>6. ASSUME NEW k \in 1 .. Len(w)
      PROVE  t[(i - 1) + k] = w[k]
  <2>1. (i - 1) + k \in 1 .. Len(a \o w)
    BY <1>1, <1>3
  <2>2. t[(i - 1) + k] = (a \o w)[(i - 1) + k]
    BY <1>4, <2>1
  <2>. QED  BY <1>1, <1>3, <2>2
<1>7. ASSUME NEW k \in m .. Len(s)
      PROVE  t[(k - m) + i + Len(w)] = s[k]
  <2>1. (k - m) + 1 \in 1 .. Len(b) /\ (k - m) + i + Len(w) = Len(a \o w) + ((k - m) + 1)
    BY <1>1, <1>2, <1>3
  <2>2. t[Len(a \o w) + ((k - m) + 1)] = b[(k - m) + 1]
    BY <1>4, <2>1
  <2>. QED  BY <1>2, <2>1, <2>2
<1>8. Len(t) = (i - 1) + Len(w) + (Len(s) - m) + 1
  <2>1. Len(a \o w) = (i - 1) + Len(w) /\ Len(b) = (Len(s) - m) + 1
    BY <1>1, <1>2, <1>3
  <2>2. PICK x \in Int, y \in Int, z \in Int : x = i - 1 /\ y = Len(w) /\ z = Len(s) - m
    OBVIOUS
  <2>3. Len(t) = (x + y) + (z + 1)
    BY <1>4, <2>1, <2>2
  <2>4. (x + y) + (z + 1) = x + y + z + 1
    OBVIOUS
  <2>. QED  BY <2>2, <2>3, <2>4
<1>. QED  BY <1>4, <1>5, <1>6, <1>7, <1>8

-----------------------------------------------------------------------------
(* The nodes that are left stay, in their order.                            *)
Well(nodes) ==
  /\ nodes \in Seq(Node)
  /\ \A i \in DOMAIN nodes : nodes[i].from = 0 => nodes[i].depth = 0

Stay(a, b) ==
  \E at \in [Left(a) -> Left(b)] :
    /\ \A i \in Left(a) : b[at[i]] = a[i]
    /\ \A i, j \in Left(a) : i < j => at[i] < at[j]
    /\ \A k \in Left(b) : \E i \in Left(a) : at[i] = k

LEMMA StaySame == ASSUME NEW a, a \in Seq(Node) PROVE Stay(a, a)
<1>. DEFINE at == [i \in Left(a) |-> i]
<1>1. at \in [Left(a) -> Left(a)]
  OBVIOUS
<1>2. \A i \in Left(a) : at[i] = i
  OBVIOUS
<1>. HIDE DEF at
<1>. QED  BY <1>1, <1>2 DEF Stay

LEMMA StayLonger ==
  ASSUME NEW a, NEW b, NEW c, Stay(a, b), Stay(b, c)
  PROVE  Stay(a, c)
<1>1. PICK f \in [Left(a) -> Left(b)] :
        /\ \A i \in Left(a) : b[f[i]] = a[i]
        /\ \A i, j \in Left(a) : i < j => f[i] < f[j]
        /\ \A k \in Left(b) : \E i \in Left(a) : f[i] = k
  BY DEF Stay
<1>2. PICK g \in [Left(b) -> Left(c)] :
        /\ \A i \in Left(b) : c[g[i]] = b[i]
        /\ \A i, j \in Left(b) : i < j => g[i] < g[j]
        /\ \A k \in Left(c) : \E i \in Left(b) : g[i] = k
  BY DEF Stay
<1>. DEFINE h == [i \in Left(a) |-> g[f[i]]]
<1>3. h \in [Left(a) -> Left(c)] /\ \A i \in Left(a) : h[i] = g[f[i]] /\ f[i] \in Left(b)
  OBVIOUS
<1>. HIDE DEF h
<1>4. \A i \in Left(a) : c[h[i]] = a[i]
  BY <1>1, <1>2, <1>3
<1>5. \A i, j \in Left(a) : i < j => h[i] < h[j]
  BY <1>1, <1>2, <1>3
<1>6. \A k \in Left(c) : \E i \in Left(a) : h[i] = k
  BY <1>1, <1>2, <1>3
<1>. QED  BY <1>3, <1>4, <1>5, <1>6 DEF Stay

DataOK ==
  /\ N \in Nat /\ NoId \notin Ids
  /\ placeholder \in [Elements -> Ids]
  /\ result \in [Elements -> Results]

LEMMA FragmentOf ==
  ASSUME DataOK, NEW e \in Succeeded
  PROVE  \E f \in Fragment : result[e] = {f} /\ (CHOOSE g \in Fragment : g \in result[e]) = f
<1>1. result[e] \in Results /\ result[e] # {} /\ e \in Elements
  BY DEF DataOK, Succeeded
<1>2. PICK f \in Fragment : result[e] = {f}
  BY <1>1 DEF Results
<1>. QED  BY <1>2

(* The first node with the id of e is replaced by a wrapper ...             *)
LEMMA WrapperNodes ==
  ASSUME DataOK, NEW e \in Elements, NEW f \in Fragment, NEW depth \in Nat
  PROVE  LET w == Wrapper(e, f, depth)
         IN  /\ w \in Seq(Node) /\ Len(w) \in {1, 2}
             /\ \A k \in DOMAIN w : w[k].from = e
             /\ f.carries = NoId =>
                  w = <<[id |-> placeholder[e], from |-> e, depth |-> depth]>>
<1>. DEFINE n1 == [id |-> placeholder[e], from |-> e, depth |-> depth]
            n2 == [id |-> f.carries, from |-> e, depth |-> depth + 1]
<1>1. n1 \in Node /\ n1.from = e
  BY DEF DataOK, Node
<1>2. f.carries \in Ids \cup {NoId}
  BY DEF Fragment
<1>3. f.carries # NoId => n2 \in Node /\ n2.from = e
  BY <1>2 DEF Node
<1>4. Wrapper(e, f, depth) = <<n1>> \o (IF f.carries = NoId THEN <<>> ELSE <<n2>>)
  BY DEF Wrapper
<1>. HIDE DEF n1, n2
<1>5. CASE f.carries = NoId
  <2>1. Wrapper(e, f, depth) = <<n1>>
    BY <1>1, <1>4, <1>5
  <2>. QED  BY <1>1, <2>1 DEF n1
<1>6. CASE f.carries # NoId
  <2>0. n2 \in Node
    BY <1>3, <1>6
  <2>1. <<n1>> \o <<n2>> = <<n1, n2>>
    <3>1. PICK a \in Seq(Node), b \in Seq(Node), c \in Seq(Node) :
            a = <<n1>> /\ b = <<n2>> /\ c = <<n1, n2>>
      <4>1. <<n1>> \in Seq(Node)
        BY <1>1
      <4>2. <<n2>> \in Seq(Node)
        BY <2>0
      <4>3. <<n1, n2>> \in Seq(Node)
        BY <1>1, <2>0
      <4>. QED  BY <4>1, <4>2, <4>3
    <3>2. /\ Len(a) = 1 /\ Len(b) = 1 /\ Len(c) = 2
          /\ a[1] = n1 /\ b[1] = n2 /\ c[1] = n1 /\ c[2] = n2
      BY <3>1
    <3>3. /\ a \o b \in Seq(Node) /\ Len(a \o b) = Len(a) + Len(b)
          /\ \A k \in 1 .. (Len(a) + Len(b)) :
               (a \o b)[k] = IF k <= Len(a) THEN a[k] ELSE b[k - Len(a)]
      BY ConcatProperties
    <3>4. (a \o b)[1] = n1 /\ (a \o b)[2] = n2 /\ Len(a \o b) = 2
      BY <3>2, <3>3
    <3>5. \A k \in 1 .. 2 : (a \o b)[k] = c[k]
      <4>1. \A k \in 1 .. 2 : k = 1 \/ k = 2
        OBVIOUS
      <4>. QED  BY <3>2, <3>4, <4>1
    <3>6. a \o b = c
      BY <3>2, <3>3, <3>4, <3>5, SeqEqual
    <3>. QED  BY <3>1, <3>6
  <2>2. Wrapper(e, f, depth) = <<n1, n2>>
    BY <1>4, <1>6, <2>1
  <2>3. n1 \in Node /\ n2 \in Node /\ n1.from = e /\ n2.from = e
    BY <1>1, <1>3, <1>6
  <2>4. <<n1, n2>> \in Seq(Node) /\ Len(<<n1, n2>>) = 2 /\ DOMAIN <<n1, n2>> = {1, 2}
    BY <2>3
  <2>. QED  BY <1>6, <2>2, <2>3, <2>4
<1>. QED  BY <1>5, <1>6

(* A piece that holds no node that is left is replaced by another such.     *)
LEMMA SpliceStays ==
  ASSUME NEW s \in Seq(Node), Well(s), NEW w \in Seq(Node),
         NEW len \in Nat, len = Len(s), NEW n \in Nat, n = Len(w),
         NEW i \in 1 .. len, NEW m \in (i + 1) .. (len + 1), NEW t,
         t = Spliced(s, w, i, m),
         \A k \in DOMAIN w : w[k].from # 0,
         \A k \in i .. (m - 1) : k \notin Left(s)
  PROVE  Well(t) /\ Stay(s, t)
<1>1. DOMAIN s = 1 .. len
  BY LenProperties
<1>2. DOMAIN w = 1 .. n
  BY LenProperties
<1>0. /\ i \in Int /\ m \in Int /\ len \in Int /\ n \in Int /\ 0 <= n
      /\ 1 <= i /\ i <= len /\ i + 1 <= m /\ m <= len + 1
  OBVIOUS
<1>9a. i \in 1 .. Len(s) /\ m \in (i + 1) .. (Len(s) + 1)
  OBVIOUS
<1>3. /\ t \in Seq(Node) /\ Len(t) = (i - 1) + Len(w) + (Len(s) - m) + 1
      /\ \A k \in 1 .. (i - 1) : t[k] = s[k]
      /\ \A k \in 1 .. Len(w) : t[(i - 1) + k] = w[k]
      /\ \A k \in m .. Len(s) : t[(k - m) + i + Len(w)] = s[k]
  <2>2. \A u, v \in Seq(Node) : \A j \in 1 .. Len(u) : \A o \in (j + 1) .. (Len(u) + 1) : \A x :
          x = Spliced(u, v, j, o) =>
          /\ x \in Seq(Node) /\ Len(x) = (j - 1) + Len(v) + (Len(u) - o) + 1
          /\ \A k \in 1 .. (j - 1) : x[k] = u[k]
          /\ \A k \in 1 .. Len(v) : x[(j - 1) + k] = v[k]
          /\ \A k \in o .. Len(u) : x[(k - o) + j + Len(v)] = u[k]
    BY Splice
  <2>3. \A x :
          x = Spliced(s, w, i, m) =>
          /\ x \in Seq(Node) /\ Len(x) = (i - 1) + Len(w) + (Len(s) - m) + 1
          /\ \A k \in 1 .. (i - 1) : x[k] = s[k]
          /\ \A k \in 1 .. Len(w) : x[(i - 1) + k] = w[k]
          /\ \A k \in m .. Len(s) : x[(k - m) + i + Len(w)] = s[k]
    BY <2>2, <1>9a, Zenon
  <2>. QED  BY <2>3, Zenon
<1>31. \A k \in Int : 1 <= k /\ k < i => t[k] = s[k]
  <2>1. \A k \in Int : 1 <= k /\ k < i => k \in 1 .. (i - 1)
    BY <1>0
  <2>. QED  BY <1>3, <2>1
<1>32. \A k \in 1 .. n : t[(i - 1) + k] = w[k]
  BY <1>3
<1>33. \A k \in Int : m <= k /\ k <= len => t[(k - m) + i + n] = s[k]
  <2>1. \A k \in Int : m <= k /\ k <= len => k \in m .. Len(s)
    BY <1>0
  <2>. QED  BY <1>3, <2>1
<1>34. PICK last \in Int : last = (len - m) + i + n
  <2>1. (len - m) + i + n \in Int
    BY <1>0
  <2>. QED  BY <2>1, Zenon
<1>4. \A q : q \in DOMAIN t <=> q \in Int /\ 1 <= q /\ q <= last
  <2>1. Len(t) = last
    <3>1. Len(t) = (i - 1) + n + (len - m) + 1
      BY <1>3
    <3>2. (i - 1) + n + (len - m) + 1 = last
      BY <1>0, <1>34
    <3>. QED  BY <3>1, <3>2
  <2>2. DOMAIN t = 1 .. last
    BY <1>3, <2>1, LenProperties
  <2>. QED  BY <2>2
<1>5. ASSUME NEW q \in DOMAIN t
      PROVE  \/ q \in Int /\ 1 <= q /\ q < i /\ t[q] = s[q]
             \/ t[q].from # 0
             \/ \E k \in Int : m <= k /\ k <= len /\ q = (k - m) + i + n /\ t[q] = s[k]
  <2>0. q \in Int /\ 1 <= q /\ q <= last
    BY <1>4
  <2>1. CASE q < i
    BY <1>31, <2>0, <2>1
  <2>2. CASE i <= q /\ q <= (i - 1) + n
    <3>1. PICK k \in Int : k = q - (i - 1)
      BY <1>0, <2>0
    <3>2. k \in 1 .. n /\ (i - 1) + k = q
      BY <1>0, <2>0, <2>2, <3>1
    <3>3. t[q] = w[k]
      BY <1>32, <3>2
    <3>. QED  BY <1>2, <3>2, <3>3
  <2>3. CASE q > (i - 1) + n
    <3>1. PICK k \in Int : k = q - i - n + m
      BY <1>0, <2>0
    <3>2. m <= k /\ k <= len /\ q = (k - m) + i + n
      BY <1>0, <1>34, <2>0, <2>3, <3>1
    <3>3. t[q] = s[k]
      BY <1>33, <3>2
    <3>. QED  BY <3>2, <3>3
  <2>4. q < i \/ (i <= q /\ q <= (i - 1) + n) \/ q > (i - 1) + n
    BY <1>0, <2>0
  <2>. QED  BY <2>1, <2>2, <2>3, <2>4
<1>51. \A k : k \in DOMAIN s <=> k \in Int /\ 1 <= k /\ k <= len
  BY <1>1
<1>52. \A k \in Int : m <= k => 1 <= k
  BY <1>0
<1>53. \A k \in Int : k < i => k <= len
  BY <1>0
<1>6. Well(t)
  <2>1. \A k \in DOMAIN s : s[k].from = 0 => s[k].depth = 0
    BY DEF Well
  <2>2. ASSUME NEW q \in DOMAIN t, t[q].from = 0
        PROVE  t[q].depth = 0
    <3>1. CASE q \in Int /\ 1 <= q /\ q < i /\ t[q] = s[q]
      BY <1>51, <1>53, <2>1, <2>2, <3>1
    <3>2. ASSUME NEW k \in Int, m <= k, k <= len, t[q] = s[k]
          PROVE  t[q].depth = 0
      BY <1>51, <1>52, <2>1, <2>2, <3>2
    <3>. QED  BY <1>5, <2>2, <3>1, <3>2
  <2>. QED  BY <1>3, <2>2 DEF Well
<1>. DEFINE at == [k \in Left(s) |-> IF k < i THEN k ELSE (k - m) + i + n]
<1>70. ASSUME NEW k \in Left(s)
       PROVE  /\ k \in Int /\ 1 <= k /\ k <= len /\ (k < i \/ m <= k)
              /\ k < i => at[k] = k
              /\ m <= k => at[k] = (k - m) + i + n
  <2>1. k \in Int /\ 1 <= k /\ k <= len
    BY <1>51 DEF Left
  <2>2. k < i \/ m <= k
    <3>1. k \notin i .. (m - 1)
      OBVIOUS
    <3>. QED  BY <1>0, <2>1, <3>1
  <2>3. k < i => at[k] = k
    OBVIOUS
  <2>4. m <= k => at[k] = (k - m) + i + n
    <3>1. m <= k => ~ (k < i)
      BY <1>0, <2>1
    <3>. QED  BY <3>1
  <2>. QED  BY <2>1, <2>2, <2>3, <2>4
<1>71. at = [k \in Left(s) |-> at[k]]
  OBVIOUS
<1>. HIDE DEF at
<1>7. ASSUME NEW k \in Left(s)
      PROVE  at[k] \in DOMAIN t /\ t[at[k]] = s[k]
  <2>1. CASE k < i
    <3>1. k <= last
      BY <1>0, <1>34, <1>70, <2>1
    <3>. QED  BY <1>4, <1>31, <1>70, <2>1, <3>1
  <2>2. CASE m <= k
    <3>1. PICK q \in Int : q = (k - m) + i + n /\ at[k] = q
      BY <1>0, <1>70, <2>2
    <3>2. 1 <= q /\ q <= last
      BY <1>0, <1>34, <1>70, <2>2, <3>1
    <3>3. t[q] = s[k]
      BY <1>33, <1>70, <2>2, <3>1
    <3>. QED  BY <1>4, <3>1, <3>2, <3>3
  <2>. QED  BY <1>70, <2>1, <2>2
<1>8. \A k \in Left(s) : at[k] \in Left(t)
  <2>. TAKE k \in Left(s)
  <2>1. s[k].from = 0 /\ Sharing(s[k].id) = {}
    BY DEF Left
  <2>. QED  BY <1>7, <2>1 DEF Left
<1>9. at \in [Left(s) -> Left(t)]
  BY <1>8, <1>71
<1>10. ASSUME NEW j \in Left(s), NEW k \in Left(s), j < k
       PROVE  at[j] < at[k]
  <2>1. CASE k < i
    <3>1. j < i
      BY <1>0, <1>70, <1>10, <2>1
    <3>. QED  BY <1>70, <1>10, <2>1, <3>1
  <2>2. CASE m <= k /\ j < i
    <3>1. j < (k - m) + i + n
      BY <1>0, <1>70, <2>2
    <3>. QED  BY <1>70, <2>2, <3>1
  <2>3. CASE m <= k /\ m <= j
    <3>1. (j - m) + i + n < (k - m) + i + n
      BY <1>0, <1>70, <1>10
    <3>. QED  BY <1>70, <2>3, <3>1
  <2>. QED  BY <1>70, <2>1, <2>2, <2>3
<1>11. ASSUME NEW q \in Left(t)
       PROVE  \E k \in Left(s) : at[k] = q
  <2>1. q \in DOMAIN t /\ t[q].from = 0 /\ Sharing(t[q].id) = {}
    BY DEF Left
  <2>2. CASE q \in Int /\ 1 <= q /\ q < i /\ t[q] = s[q]
    <3>1. q \in Left(s)
      BY <1>51, <1>53, <2>1, <2>2 DEF Left
    <3>. QED  BY <1>70, <2>2, <3>1
  <2>3. ASSUME NEW k \in Int, m <= k, k <= len, q = (k - m) + i + n, t[q] = s[k]
        PROVE  \E o \in Left(s) : at[o] = q
    <3>1. k \in Left(s)
      BY <1>51, <1>52, <2>1, <2>3 DEF Left
    <3>. QED  BY <1>70, <2>3, <3>1
  <2>. QED  BY <1>5, <2>1, <2>2, <2>3
<1>12. \A k \in Left(s) : t[at[k]] = s[k]
  BY <1>7
<1>. QED  BY <1>6, <1>9, <1>10, <1>11, <1>12 DEF Stay

(* Where the piece ends that a replacement takes out.                       *)
LEMMA PieceOf ==
  ASSUME NEW s, s \in Seq(Node), NEW i \in 1 .. Len(s)
  PROVE  \E m \in (i + 1) .. (Len(s) + 1) :
           /\ After(s, i) = SubSeq(s, m, Len(s))
           /\ \A k \in (i + 1) .. (m - 1) : ~ (s[k].depth <= s[i].depth)
           /\ m <= Len(s) => s[m].depth <= s[i].depth
<1>1. DOMAIN s = 1 .. Len(s) /\ Len(s) \in Nat
  BY LenProperties
<1>. DEFINE rest == {j \in DOMAIN s : j > i /\ s[j].depth <= s[i].depth}
<1>2. CASE rest = {}
  <2>1. After(s, i) = <<>>
    BY <1>2 DEF After
  <2>2. SubSeq(s, Len(s) + 1, Len(s)) = <<>>
    BY <1>1
  <2>3. \A k \in (i + 1) .. (Len(s) + 1 - 1) : ~ (s[k].depth <= s[i].depth)
    BY <1>1, <1>2
  <2>4. Len(s) + 1 \in (i + 1) .. (Len(s) + 1) /\ ~ (Len(s) + 1 <= Len(s))
    BY <1>1
  <2>. QED  BY <2>1, <2>2, <2>3, <2>4
<1>3. CASE rest # {}
  <2>1. PICK m : m = Min(rest)
    OBVIOUS
  <2>2. After(s, i) = SubSeq(s, m, Len(s))
    BY <1>3, <2>1 DEF After
  <2>3. m \in rest /\ \A k \in rest : m <= k
    <3>1. rest \in SUBSET Nat
      BY <1>1
    <3>. HIDE DEF rest
    <3>. QED  BY <1>3, <2>1, <3>1, MinOfNaturals
  <2>4. m \in (i + 1) .. (Len(s) + 1) /\ s[m].depth <= s[i].depth
    BY <1>1, <2>3
  <2>5. \A k \in (i + 1) .. (m - 1) : ~ (s[k].depth <= s[i].depth)
    BY <1>1, <2>3, <2>4
  <2>. QED  BY <2>2, <2>4, <2>5
<1>. QED  BY <1>2, <1>3

(* A replacement takes out none of the nodes that are left.                 *)
LEMMA Replaced ==
  ASSUME DataOK, NEW nodes, Well(nodes), NEW e \in Succeeded
  PROVE  Well(Replace(nodes, e)) /\ Stay(nodes, Replace(nodes, e))
<1>0. nodes \in Seq(Node) /\ DOMAIN nodes = 1 .. Len(nodes) /\ Len(nodes) \in Nat
      /\ \A k \in DOMAIN nodes : nodes[k] \in Node
  BY LenProperties, ElementOfSeq DEF Well
<1>1. PICK f \in Fragment :
        result[e] = {f} /\ (CHOOSE g \in Fragment : g \in result[e]) = f
  BY FragmentOf
<1>. DEFINE i == Min(Found(nodes, placeholder[e]))
<1>2. CASE Found(nodes, placeholder[e]) = {} \/ ~f.body
  <2>1. Replace(nodes, e) = nodes
    BY <1>1, <1>2 DEF Replace
  <2>. QED  BY <1>0, <2>1, StaySame
<1>3. CASE Found(nodes, placeholder[e]) # {} /\ f.body
  <2>1. PICK j : j = Min(Found(nodes, placeholder[e]))
    OBVIOUS
  <2>2. j \in 1 .. Len(nodes) /\ nodes[j].id = placeholder[e]
    <3>1. Found(nodes, placeholder[e]) \in SUBSET Nat
      BY <1>0 DEF Found
    <3>2. j \in Found(nodes, placeholder[e])
      BY <1>3, <2>1, <3>1, MinOfNaturals
    <3>. QED  BY <1>0, <3>2 DEF Found
  <2>3. PICK m \in (j + 1) .. (Len(nodes) + 1) :
          /\ After(nodes, j) = SubSeq(nodes, m, Len(nodes))
          /\ \A k \in (j + 1) .. (m - 1) : ~ (nodes[k].depth <= nodes[j].depth)
    BY <1>0, <2>2, PieceOf
  <2>4. nodes[j].depth \in Nat /\ e \in Elements
    BY <1>0, <2>2 DEF Node, Succeeded
  <2>5. PICK w : w = Wrapper(e, f, nodes[j].depth)
    OBVIOUS
  <2>6. w \in Seq(Node) /\ \A k \in DOMAIN w : w[k].from # 0
    <3>1. w \in Seq(Node) /\ \A k \in DOMAIN w : w[k].from = e
      BY <2>4, <2>5, WrapperNodes
    <3>. QED  BY <2>4, <3>1 DEF DataOK, Elements
  <2>7. Replace(nodes, e) = Spliced(nodes, w, j, m)
    BY <1>1, <1>3, <2>1, <2>3, <2>5 DEF Replace, Spliced
  <2>8. \A k \in j .. (m - 1) : k \notin Left(nodes)
    <3>1. j \notin Left(nodes)
      BY <2>2 DEF Left, Sharing
    <3>2. ASSUME NEW k \in (j + 1) .. (m - 1), k \in Left(nodes)
          PROVE  FALSE
      <4>1. nodes[k].depth = 0
        BY <3>2 DEF Left, Well
      <4>. QED  BY <2>3, <2>4, <4>1
    <3>3. \A k \in j .. (m - 1) : k = j \/ k \in (j + 1) .. (m - 1)
      BY <1>0, <2>2, <2>3
    <3>. QED  BY <3>1, <3>2, <3>3
  <2>9. PICK len \in Nat, n \in Nat : len = Len(nodes) /\ n = Len(w)
    BY <1>0, <2>6, LenProperties
  <2>10. j \in 1 .. len /\ m \in (j + 1) .. (len + 1)
    BY <2>2, <2>9
  <2>. QED  BY <1>0, <2>6, <2>7, <2>8, <2>9, <2>10, SpliceStays
<1>. QED  BY <1>2, <1>3

-----------------------------------------------------------------------------
(* The replacements, one after the other.                                   *)
Chain(g, n) ==
  /\ g = [k \in 0 .. n |-> g[k]]
  /\ g[0] = document
  /\ \A e \in 1 .. n :
       g[e] = IF IsFirst(e) THEN Replace(g[e - 1], Shown(placeholder[e])) ELSE g[e - 1]

LEMMA ChainExists == ASSUME NEW m \in Nat PROVE \E g : Chain(g, m)
<1>. DEFINE S == {n \in Nat : ~ \E g : Chain(g, n)}
<1>. SUFFICES ASSUME m \in S PROVE FALSE
  OBVIOUS
<1>1. PICK n \in S : \A k \in S : n <= k
  <2>. HIDE DEF S
  <2>1. S \in SUBSET Nat
    BY DEF S
  <2>. QED  BY <2>1, LeastNatural
<1>2. n \in Nat /\ ~ \E g : Chain(g, n)
  OBVIOUS
<1>3. CASE n = 0
  <2>1. PICK g : g = [k \in 0 .. 0 |-> document]
    OBVIOUS
  <2>2. g = [k \in 0 .. 0 |-> g[k]] /\ g[0] = document
    BY <2>1
  <2>3. 1 .. 0 = {}
    OBVIOUS
  <2>4. Chain(g, 0)
    BY <2>2, <2>3 DEF Chain
  <2>. QED  BY <1>2, <1>3, <2>4
<1>4. CASE n # 0
  <2>1. PICK k \in Nat : n = k + 1
    <3>1. n - 1 \in Nat /\ n = (n - 1) + 1
      BY <1>2, <1>4
    <3>. QED  BY <3>1
  <2>2. ~ (n <= k)
    BY <2>1
  <2>3. PICK h : Chain(h, k)
    BY <1>1, <2>2
  <2>. DEFINE next == IF IsFirst(n) THEN Replace(h[k], Shown(placeholder[n])) ELSE h[k]
  <2>4. PICK g : g = [j \in 0 .. n |-> IF j = n THEN next ELSE h[j]]
    OBVIOUS
  <2>5. g = [j \in 0 .. n |-> g[j]] /\ g[n] = next /\ \A j \in 0 .. k : g[j] = h[j]
    <3>. HIDE DEF next
    <3>1. \A j \in 0 .. k : j \in 0 .. n /\ j # n
      BY <2>1
    <3>2. n \in 0 .. n
      BY <1>2
    <3>. QED  BY <2>4, <3>1, <3>2
  <2>6. g[0] = document
    <3>1. 0 \in 0 .. k
      OBVIOUS
    <3>. QED  BY <2>3, <2>5, <3>1 DEF Chain
  <2>7. ASSUME NEW e \in 1 .. n
        PROVE  g[e] = IF IsFirst(e) THEN Replace(g[e - 1], Shown(placeholder[e])) ELSE g[e - 1]
    <3>1. CASE e = n
      <4>1. e - 1 = k /\ k \in 0 .. k
        BY <2>1, <3>1
      <4>2. g[e - 1] = h[k]
        BY <2>5, <4>1
      <4>. QED  BY <2>5, <3>1, <4>2
    <3>2. CASE e # n
      <4>1. e \in 1 .. k /\ e \in 0 .. k /\ e - 1 \in 0 .. k
        BY <2>1, <3>2
      <4>2. g[e] = h[e] /\ g[e - 1] = h[e - 1]
        BY <2>5, <4>1
      <4>. QED  BY <2>3, <4>1, <4>2 DEF Chain
    <3>. QED  BY <3>1, <3>2
  <2>8. Chain(g, n)
    BY <2>5, <2>6, <2>7 DEF Chain
  <2>. QED  BY <1>2, <2>8
<1>. QED  BY <1>3, <1>4

LEMMA PatchedIsChain ==
  ASSUME N \in Nat
  PROVE  \E g : Chain(g, N) /\ Patched = g[N]
<1>. DEFINE Eq(g) == g = [e \in 0 .. N |->
              IF e = 0 THEN document
              ELSE IF IsFirst(e) THEN Replace(g[e - 1], Shown(placeholder[e]))
              ELSE g[e - 1]]
<1>1. PICK h : Chain(h, N)
  BY ChainExists
<1>2. Eq(h)
  <2>. DEFINE r == [e \in 0 .. N |->
              IF e = 0 THEN document
              ELSE IF IsFirst(e) THEN Replace(h[e - 1], Shown(placeholder[e]))
              ELSE h[e - 1]]
  <2>1. h = [k \in 0 .. N |-> h[k]] /\ h[0] = document
    BY <1>1 DEF Chain
  <2>2. ASSUME NEW e \in 0 .. N PROVE h[e] = r[e]
    <3>1. e # 0 => e \in 1 .. N
      OBVIOUS
    <3>. QED  BY <1>1, <3>1 DEF Chain
  <2>3. r = [k \in 0 .. N |-> r[k]]
    OBVIOUS
  <2>. HIDE DEF r
  <2>4. h = r
    BY <2>1, <2>2, <2>3
  <2>. QED  BY <2>4 DEF r
<1>3. PICK g : g = CHOOSE f : Eq(f)
  OBVIOUS
<1>4. Eq(g)
  <2>. HIDE DEF Eq
  <2>. QED  BY <1>2, <1>3
<1>5. Patched = g[N]
  BY <1>3 DEF Patched
<1>6. Chain(g, N)
  <2>1. g = [k \in 0 .. N |-> g[k]]
    BY <1>4
  <2>2. g[0] = document
    <3>1. 0 \in 0 .. N
      OBVIOUS
    <3>. QED  BY <1>4, <3>1
  <2>3. ASSUME NEW e \in 1 .. N
        PROVE  g[e] = IF IsFirst(e) THEN Replace(g[e - 1], Shown(placeholder[e])) ELSE g[e - 1]
    <3>1. e \in 0 .. N /\ e # 0
      OBVIOUS
    <3>. QED  BY <1>4, <3>1
  <2>. QED  BY <2>1, <2>2, <2>3 DEF Chain
<1>. QED  BY <1>5, <1>6

(* The fragment that is shown at the place of an id is one of its own.      *)
LEMMA ShownIsOne ==
  ASSUME N \in Nat, NEW id, Sharing(id) # {}
  PROVE  /\ Shown(id) \in Succeeded /\ placeholder[Shown(id)] = id
         /\ Min(Sharing(id)) \in Sharing(id) /\ Min(Sharing(id)) \in 1 .. N
         /\ \A e \in Sharing(id) : Min(Sharing(id)) <= e
<1>1. Sharing(id) \in SUBSET Elements /\ Sharing(id) \in SUBSET Nat
  BY DEF Sharing, Succeeded, Elements
<1>2. Max(Sharing(id)) \in Sharing(id)
  BY <1>1, MaxOfElements
<1>3. Min(Sharing(id)) \in Sharing(id) /\ \A e \in Sharing(id) : Min(Sharing(id)) <= e
  BY <1>1, MinOfNaturals
<1>. QED  BY <1>1, <1>2, <1>3 DEF Shown, Sharing, Elements

LEMMA PatchStays ==
  ASSUME DataOK, Well(document)
  PROVE  Stay(document, Patched)
<1>0. N \in Nat
  BY DEF DataOK
<1>1. PICK g : Chain(g, N) /\ Patched = g[N]
  BY <1>0, PatchedIsChain
<1>. DEFINE Good(k) == Well(g[k]) /\ Stay(document, g[k])
            S == {k \in 0 .. N : ~ Good(k)}
<1>2. Good(0)
  BY <1>1, StaySame DEF Chain, Well
<1>3. ASSUME NEW k \in 1 .. N, Good(k - 1)
      PROVE  Good(k)
  <2>1. CASE IsFirst(k)
    <3>1. Sharing(placeholder[k]) # {}
      BY <2>1 DEF IsFirst, Sharing
    <3>2. PICK e \in Succeeded : e = Shown(placeholder[k])
      BY <1>0, <3>1, ShownIsOne
    <3>3. g[k] = Replace(g[k - 1], e)
      BY <1>1, <2>1, <3>2 DEF Chain
    <3>4. PICK d : d = g[k - 1]
      OBVIOUS
    <3>5. Well(Replace(d, e)) /\ Stay(d, Replace(d, e))
      BY <1>3, <3>4, Replaced
    <3>6. Stay(document, Replace(d, e))
      BY <1>3, <3>4, <3>5, StayLonger
    <3>. QED  BY <3>3, <3>4, <3>5, <3>6
  <2>2. CASE ~ IsFirst(k)
    BY <1>1, <1>3, <2>2 DEF Chain
  <2>. QED  BY <2>1, <2>2
<1>. HIDE DEF Good
<1>4. S = {}
  <2>. SUFFICES ASSUME S # {} PROVE FALSE
    OBVIOUS
  <2>1. S \in SUBSET Nat
    BY <1>0
  <2>. HIDE DEF S
  <2>2. PICK k \in S : \A j \in S : k <= j
    BY <2>1, LeastNatural
  <2>3. k \in 1 .. N /\ k - 1 \in 0 .. N /\ ~ (k <= k - 1)
    BY <1>0, <1>2, <2>2 DEF S
  <2>4. Good(k - 1)
    BY <2>2, <2>3 DEF S
  <2>5. Good(k)
    BY <1>3, <2>3, <2>4
  <2>. QED  BY <2>2, <2>5 DEF S
<1>5. Good(N)
  <2>1. N \in 0 .. N
    BY <1>0
  <2>. QED  BY <1>4, <2>1
<1>. QED  BY <1>1, <1>5 DEF Good

(* A fragment with a body and no id takes the place of the one node that    *)
(* has the id of its element.                                               *)
LEMMA CleanReplace ==
  ASSUME DataOK, NEW s \in Seq(Node), NEW e \in Succeeded, Clean(e),
         \A i \in DOMAIN s : s[i].depth = 0,
         \A i, j \in DOMAIN s : s[i].id = s[j].id => i = j
  PROVE  Replace(s, e) = [i \in DOMAIN s |->
            IF s[i].id = placeholder[e]
            THEN [id |-> placeholder[e], from |-> e, depth |-> 0] ELSE s[i]]
<1>0. PICK len \in Nat : len = Len(s) /\ DOMAIN s = 1 .. len
  BY LenProperties
<1>1. PICK f \in Fragment :
        result[e] = {f} /\ (CHOOSE g \in Fragment : g \in result[e]) = f
  BY FragmentOf
<1>2. f.body /\ f.carries = NoId
  BY <1>1 DEF Clean
<1>. DEFINE new == [id |-> placeholder[e], from |-> e, depth |-> 0]
            r == [i \in DOMAIN s |-> IF s[i].id = placeholder[e] THEN new ELSE s[i]]
<1>3. CASE Found(s, placeholder[e]) = {}
  <2>1. Replace(s, e) = s
    BY <1>1, <1>3 DEF Replace
  <2>2. \A i \in DOMAIN s : s[i].id # placeholder[e]
    BY <1>3 DEF Found
  <2>3. s = [i \in DOMAIN s |-> s[i]]
    OBVIOUS
  <2>4. \A i \in DOMAIN s : r[i] = s[i]
    BY <2>2
  <2>5. r = [i \in DOMAIN s |-> r[i]]
    OBVIOUS
  <2>. HIDE DEF r
  <2>6. r = s
    BY <2>3, <2>4, <2>5
  <2>. QED  BY <2>1, <2>6 DEF r
<1>4. CASE Found(s, placeholder[e]) # {}
  <2>1. PICK j : j = Min(Found(s, placeholder[e]))
    OBVIOUS
  <2>2. j \in 1 .. len /\ s[j].id = placeholder[e]
    <3>1. Found(s, placeholder[e]) \in SUBSET Nat
      BY <1>0 DEF Found
    <3>2. j \in Found(s, placeholder[e])
      BY <1>4, <2>1, <3>1, MinOfNaturals
    <3>. QED  BY <1>0, <3>2 DEF Found
  <2>3. \A i \in 1 .. len : s[i].id = placeholder[e] <=> i = j
    BY <1>0, <2>2
  <2>4. PICK m \in (j + 1) .. (Len(s) + 1) :
          /\ After(s, j) = SubSeq(s, m, Len(s))
          /\ \A k \in (j + 1) .. (m - 1) : ~ (s[k].depth <= s[j].depth)
    BY <1>0, <2>2, PieceOf
  <2>5. m = j + 1
    <3>1. m \in Int /\ j + 1 <= m /\ m <= len + 1 /\ j \in Int /\ 1 <= j
      BY <1>0, <2>2, <2>4
    <3>2. ASSUME j + 1 <= m - 1 PROVE FALSE
      <4>1. j + 1 \in (j + 1) .. (m - 1) /\ j + 1 \in 1 .. len
        BY <3>1, <3>2
      <4>2. s[j + 1].depth = 0 /\ s[j].depth = 0
        BY <1>0, <2>2, <4>1
      <4>. QED  BY <2>4, <4>1, <4>2
    <3>. QED  BY <3>1, <3>2
  <2>6. new \in Node /\ <<new>> \in Seq(Node) /\ Len(<<new>>) = 1 /\ <<new>>[1] = new
    BY DEF DataOK, Node, Succeeded, Elements
  <2>. HIDE DEF new
  <2>7. PICK w \in Seq(Node) : w = Wrapper(e, f, s[j].depth) /\ Len(w) = 1 /\ w[1] = new
    <3>1. s[j].depth = 0 /\ 0 \in Nat /\ e \in Elements
      BY <1>0, <2>2 DEF Succeeded
    <3>2. Wrapper(e, f, 0) = <<new>>
      <4>1. f.carries = NoId =>
              Wrapper(e, f, 0) = <<[id |-> placeholder[e], from |-> e, depth |-> 0]>>
        BY <3>1, WrapperNodes
      <4>. QED  BY <1>2, <4>1 DEF new
    <3>. QED  BY <2>6, <3>1, <3>2
  <2>8. PICK t : t = Replace(s, e)
    OBVIOUS
  <2>9. t = Spliced(s, w, j, m)
    BY <1>1, <1>2, <1>4, <2>1, <2>4, <2>7, <2>8 DEF Replace, Spliced
  <2>10. /\ t \in Seq(Node) /\ Len(t) = (j - 1) + Len(w) + (Len(s) - m) + 1
         /\ \A k \in 1 .. (j - 1) : t[k] = s[k]
         /\ \A k \in 1 .. Len(w) : t[(j - 1) + k] = w[k]
         /\ \A k \in m .. Len(s) : t[(k - m) + j + Len(w)] = s[k]
    <3>1. \A u, v \in Seq(Node) : \A i \in 1 .. Len(u) : \A o \in (i + 1) .. (Len(u) + 1) : \A x :
          x = Spliced(u, v, i, o) =>
          /\ x \in Seq(Node) /\ Len(x) = (i - 1) + Len(v) + (Len(u) - o) + 1
          /\ \A k \in 1 .. (i - 1) : x[k] = u[k]
          /\ \A k \in 1 .. Len(v) : x[(i - 1) + k] = v[k]
          /\ \A k \in o .. Len(u) : x[(k - o) + i + Len(v)] = u[k]
      BY Splice
    <3>2. j \in 1 .. Len(s)
      BY <1>0, <2>2
    <3>3. \A x :
          x = Spliced(s, w, j, m) =>
          /\ x \in Seq(Node) /\ Len(x) = (j - 1) + Len(w) + (Len(s) - m) + 1
          /\ \A k \in 1 .. (j - 1) : x[k] = s[k]
          /\ \A k \in 1 .. Len(w) : x[(j - 1) + k] = w[k]
          /\ \A k \in m .. Len(s) : x[(k - m) + j + Len(w)] = s[k]
      BY <3>1, <3>2, Zenon
    <3>. QED  BY <2>9, <3>3, Zenon
  <2>11. j \in Int /\ 1 <= j /\ j <= len
    BY <2>2
  <2>12. DOMAIN t = 1 .. len
    <3>1. Len(t) = (j - 1) + 1 + (len - (j + 1)) + 1
      BY <1>0, <2>5, <2>7, <2>10
    <3>2. (j - 1) + 1 + (len - (j + 1)) + 1 = len
      BY <2>11
    <3>. QED  BY <2>10, <3>1, <3>2, LenProperties
  <2>13. ASSUME NEW i \in 1 .. len
         PROVE  t[i] = r[i]
    <3>0. r[i] = IF s[i].id = placeholder[e] THEN new ELSE s[i]
      BY <1>0
    <3>1. CASE i < j
      <4>1. i \in 1 .. (j - 1) /\ i # j
        BY <2>11, <3>1
      <4>. QED  BY <2>3, <2>10, <3>0, <4>1
    <3>2. CASE i = j
      <4>1. 1 \in 1 .. Len(w) /\ (j - 1) + 1 = i
        BY <2>7, <2>11, <3>2
      <4>2. t[i] = new
        BY <2>7, <2>10, <4>1
      <4>. QED  BY <2>2, <3>0, <3>2, <4>2
    <3>3. CASE i > j
      <4>1. i \in m .. len /\ (i - m) + j + 1 = i /\ i # j
        BY <2>5, <2>11, <3>3
      <4>2. i \in m .. Len(s) /\ (i - m) + j + Len(w) = i
        BY <1>0, <2>7, <4>1
      <4>3. t[i] = s[i]
        BY <2>10, <4>2
      <4>. QED  BY <2>3, <3>0, <4>1, <4>3
    <3>. QED  BY <2>11, <3>1, <3>2, <3>3
  <2>14. t = [i \in 1 .. len |-> t[i]] /\ r = [i \in 1 .. len |-> r[i]]
    BY <1>0, <2>10, <2>12
  <2>. HIDE DEF r
  <2>15. t = r
    BY <2>13, <2>14
  <2>. QED  BY <2>8, <2>15 DEF r, new
<1>. QED  BY <1>3, <1>4

(* A document as it is given: placeholders, each id once.                   *)
Fresh(nodes) ==
  /\ nodes \in Seq(Node)
  /\ \A i \in DOMAIN nodes : nodes[i] = Placeholder(nodes[i].id)
  /\ \A i, j \in DOMAIN nodes : nodes[i].id = nodes[j].id => i = j

LEMMA FreshIsWell == ASSUME NEW nodes, Fresh(nodes) PROVE Well(nodes)
<1>1. \A i \in DOMAIN nodes : nodes[i].depth = 0
  BY DEF Fresh, Placeholder
<1>. QED  BY <1>1 DEF Fresh, Well

(* With fragments of that kind, the node of each id has the last fragment   *)
(* of its elements once the first of them is reached.                       *)
Reached(id, k) == Sharing(id) # {} /\ Min(Sharing(id)) <= k

ShowsAt(nodes, i, k) ==
  IF Reached(nodes[i].id, k)
  THEN [id |-> nodes[i].id, from |-> Shown(nodes[i].id), depth |-> 0]
  ELSE nodes[i]

LEMMA ReachedNext ==
  ASSUME N \in Nat, NEW k \in 1 .. N, NEW id
  PROVE  Reached(id, k) <=> Reached(id, k - 1) \/ (IsFirst(k) /\ id = placeholder[k])
<1>1. CASE Sharing(id) = {}
  <2>1. ~ (IsFirst(k) /\ id = placeholder[k])
    BY <1>1 DEF IsFirst, Sharing
  <2>. QED  BY <1>1, <2>1 DEF Reached
<1>2. CASE Sharing(id) # {}
  <2>1. PICK m \in 1 .. N : m = Min(Sharing(id)) /\ m \in Sharing(id)
    BY <1>2, ShownIsOne
  <2>2. Reached(id, k) <=> m <= k
    BY <1>2, <2>1 DEF Reached
  <2>3. Reached(id, k - 1) <=> m <= k - 1
    BY <1>2, <2>1 DEF Reached
  <2>4. m = k <=> IsFirst(k) /\ id = placeholder[k]
    <3>1. m = k => IsFirst(k) /\ id = placeholder[k]
      BY <2>1 DEF IsFirst, Sharing
    <3>2. IsFirst(k) /\ id = placeholder[k] => m = k
      BY <2>1 DEF IsFirst
    <3>. QED  BY <3>1, <3>2
  <2>5. m <= k <=> m <= k - 1 \/ m = k
    OBVIOUS
  <2>. QED  BY <2>2, <2>3, <2>4, <2>5
<1>. QED  BY <1>1, <1>2

LEMMA ShowsAtIs ==
  ASSUME DataOK, NEW nodes, Fresh(nodes), NEW i \in DOMAIN nodes, NEW k
  PROVE  /\ ShowsAt(nodes, i, k) \in Node
         /\ ShowsAt(nodes, i, k).id = nodes[i].id
         /\ ShowsAt(nodes, i, k).depth = 0
<1>1. nodes[i] \in Node /\ nodes[i].depth = 0 /\ nodes[i].id \in Ids
  <2>1. nodes[i] \in Node
    BY ElementOfSeq, LenProperties DEF Fresh
  <2>. QED  BY <2>1 DEF Fresh, Placeholder, Node
<1>2. Reached(nodes[i].id, k) => Shown(nodes[i].id) \in Elements
  BY ShownIsOne DEF DataOK, Succeeded, Reached
<1>. QED  BY <1>1, <1>2 DEF ShowsAt, Node

LEMMA PatchIsClean ==
  ASSUME DataOK, Fresh(document), \A e \in Succeeded : Clean(e)
  PROVE  Patched = [i \in DOMAIN document |-> ShowsAt(document, i, N)]
<1>0. N \in Nat
  BY DEF DataOK
<1>1. PICK g : Chain(g, N) /\ Patched = g[N]
  BY <1>0, PatchedIsChain
<1>. DEFINE As(k) == [i \in DOMAIN document |-> ShowsAt(document, i, k)]
            Good(k) == g[k] = As(k)
            S == {k \in 0 .. N : ~ Good(k)}
<1>2. Good(0)
  <2>1. g[0] = document
    BY <1>1 DEF Chain
  <2>2. document = [i \in DOMAIN document |-> document[i]]
    BY LenProperties DEF Fresh
  <2>3. ASSUME NEW i \in DOMAIN document
        PROVE  ShowsAt(document, i, 0) = document[i]
    <3>1. ~ Reached(document[i].id, 0)
      BY <1>0, ShownIsOne DEF Reached
    <3>. QED  BY <3>1 DEF ShowsAt
  <2>. QED  BY <2>1, <2>2, <2>3
<1>3. ASSUME NEW k \in 1 .. N, Good(k - 1)
      PROVE  Good(k)
  <2>1. CASE IsFirst(k)
    <3>1. Sharing(placeholder[k]) # {}
      BY <2>1 DEF IsFirst, Sharing
    <3>2. PICK e \in Succeeded : e = Shown(placeholder[k]) /\ placeholder[e] = placeholder[k]
      BY <1>0, <3>1, ShownIsOne
    <3>3. PICK s : s = As(k - 1)
      OBVIOUS
    <3>4. g[k] = Replace(s, e)
      BY <1>1, <1>3, <2>1, <3>2, <3>3 DEF Chain
    <3>5. /\ DOMAIN s = DOMAIN document
          /\ \A i \in DOMAIN document : s[i] = ShowsAt(document, i, k - 1)
      BY <3>3
    <3>6. \A i \in DOMAIN s :
            s[i] \in Node /\ s[i].id = document[i].id /\ s[i].depth = 0
      BY <3>5, ShowsAtIs
    <3>7. s \in Seq(Node)
      <4>1. PICK len \in Nat : DOMAIN document = 1 .. len
        BY LenProperties DEF Fresh
      <4>2. s = [i \in 1 .. len |-> s[i]]
        BY <3>3, <3>5, <4>1
      <4>3. s \in [1 .. len -> Node]
        BY <3>5, <3>6, <4>1, <4>2
      <4>. QED  BY <4>3, SeqDef
    <3>8. \A i, j \in DOMAIN s : s[i].id = s[j].id => i = j
      BY <3>5, <3>6 DEF Fresh
    <3>9. Replace(s, e) = [i \in DOMAIN s |->
            IF s[i].id = placeholder[e]
            THEN [id |-> placeholder[e], from |-> e, depth |-> 0] ELSE s[i]]
      BY <3>6, <3>7, <3>8, CleanReplace
    <3>10. ASSUME NEW i \in DOMAIN document
           PROVE  ShowsAt(document, i, k) =
                    IF s[i].id = placeholder[e]
                    THEN [id |-> placeholder[e], from |-> e, depth |-> 0] ELSE s[i]
      <4>1. Reached(document[i].id, k)
              <=> Reached(document[i].id, k - 1) \/ document[i].id = placeholder[k]
        BY <1>0, <2>1, ReachedNext
      <4>2. s[i].id = document[i].id
        BY <3>5, <3>6
      <4>3. CASE document[i].id = placeholder[k]
        BY <3>2, <4>1, <4>2, <4>3 DEF ShowsAt
      <4>4. CASE document[i].id # placeholder[k]
        BY <3>2, <3>5, <4>1, <4>2, <4>4 DEF ShowsAt
      <4>. QED  BY <4>3, <4>4
    <3>11. As(k) = [i \in DOMAIN s |->
            IF s[i].id = placeholder[e]
            THEN [id |-> placeholder[e], from |-> e, depth |-> 0] ELSE s[i]]
      BY <3>5, <3>10
    <3>. QED  BY <3>4, <3>9, <3>11
  <2>2. CASE ~ IsFirst(k)
    <3>1. \A i \in DOMAIN document : ShowsAt(document, i, k) = ShowsAt(document, i, k - 1)
      BY <1>0, <2>2, ReachedNext DEF ShowsAt
    <3>2. As(k) = As(k - 1)
      BY <3>1
    <3>. QED  BY <1>1, <1>3, <2>2, <3>2 DEF Chain
  <2>. QED  BY <2>1, <2>2
<1>. HIDE DEF Good
<1>4. S = {}
  <2>. SUFFICES ASSUME S # {} PROVE FALSE
    OBVIOUS
  <2>1. S \in SUBSET Nat
    BY <1>0
  <2>. HIDE DEF S
  <2>2. PICK k \in S : \A j \in S : k <= j
    BY <2>1, LeastNatural
  <2>3. k \in 1 .. N /\ k - 1 \in 0 .. N /\ ~ (k <= k - 1)
    BY <1>0, <1>2, <2>2 DEF S
  <2>4. Good(k - 1)
    BY <2>2, <2>3 DEF S
  <2>5. Good(k)
    BY <1>3, <2>3, <2>4
  <2>. QED  BY <2>2, <2>5 DEF S
<1>5. Good(N)
  <2>1. N \in 0 .. N
    BY <1>0
  <2>. QED  BY <1>4, <2>1
<1>. QED  BY <1>1, <1>5 DEF Good

-----------------------------------------------------------------------------
(* 7. The document of a call.                                               *)
LEMMA DocumentsAreFresh ==
  ASSUME EnhancerAssumption, NEW nodes \in Documents
  PROVE  Fresh(nodes)
<1>1. PICK present, order :
        /\ present \in SUBSET Ids /\ order \in SetToSeqs(present)
        /\ nodes = [i \in DOMAIN order |-> Placeholder(order[i])]
  BY DEF Documents
<1>2. PICK len \in Nat : len = Cardinality(present)
  BY <1>1, FS_Subset, FS_CardinalityType DEF EnhancerAssumption
<1>3. /\ order \in [1 .. len -> present]
      /\ \A i, j \in 1 .. len : i # j => order[i] # order[j]
  BY <1>1, <1>2 DEF SetToSeqs
<1>4. nodes = [i \in 1 .. len |-> Placeholder(order[i])] /\ DOMAIN nodes = 1 .. len
  BY <1>1, <1>3
<1>5. \A i \in 1 .. len :
        nodes[i] \in Node /\ nodes[i].id = order[i] /\ nodes[i] = Placeholder(nodes[i].id)
  BY <1>1, <1>3, <1>4 DEF Placeholder, Node
<1>6. nodes \in Seq(Node)
  <2>1. nodes \in [1 .. len -> Node]
    BY <1>4, <1>5
  <2>. QED  BY <2>1, SeqDef
<1>. QED  BY <1>3, <1>4, <1>5, <1>6 DEF Fresh

(* The results are there when gather ends, and the document changes then.   *)
PatchInv ==
  /\ DataOK
  /\ Fresh(original)
  /\ pc = "gather" => document = original
  /\ FailedIsPreserved
  /\ CleanIsReplaced

PatchStart ==
  /\ placeholder \in [Elements -> Ids]
  /\ document \in Documents
  /\ original = document
  /\ pc = "gather"
  /\ result = [e \in Elements |-> {}]

Patching ==
  /\ pc = "gather" /\ pc' = "close"
  /\ document' = IF cancelled THEN document ELSE Patched
  /\ UNCHANGED <<cancelled, result>>

Collecting(e) ==
  /\ task[e] # "over"
  /\ \E r \in Results \union {result[e]} : result' = [result EXCEPT ![e] = r]
  /\ UNCHANGED <<document, pc, cancelled>>

PatchMoves ==
  /\ UNCHANGED <<placeholder, original>>
  /\ \/ Patching
     \/ Cancel
     \/ \E e \in Elements : Collecting(e)
     \/ (pc' = "gather" => pc = "gather") /\ (pc = "gather" => pc' = "gather")
        /\ UNCHANGED <<document, cancelled, result>>

LEMMA PatchInvInit == EnhancerAssumption /\ PatchStart => PatchInv
<1>. SUFFICES ASSUME EnhancerAssumption, PatchStart PROVE PatchInv
  OBVIOUS
<1>1. DataOK
  BY DEF PatchStart, DataOK, EnhancerAssumption, Results
<1>2. Fresh(original)
  BY DocumentsAreFresh DEF PatchStart
<1>. QED  BY <1>1, <1>2 DEF PatchStart, PatchInv, FailedIsPreserved, CleanIsReplaced, Returned

(* What the properties say depends on the results and on the documents.     *)
LEMMA SameResults ==
  ASSUME result' = result, placeholder' = placeholder
  PROVE  /\ Succeeded' = Succeeded
         /\ \A id : Sharing(id)' = Sharing(id)
         /\ \A e : Clean(e)' = Clean(e)
BY DEF Succeeded, Sharing, Clean

LEMMA FrozenStep ==
  ASSUME PatchInv, UNCHANGED <<placeholder, original, document, cancelled, result>>,
         pc = "gather" <=> pc' = "gather"
  PROVE  PatchInv'
<1>1. DataOK'
  BY DEF PatchInv, DataOK
<1>2. Returned' <=> Returned
  BY DEF Returned
<1>3. /\ Succeeded' = Succeeded /\ \A id : Sharing(id)' = Sharing(id)
      /\ \A e : Clean(e)' = Clean(e)
  BY SameResults
<1>4. FailedIsPreserved'
  <2>1. Left(original)' = Left(original) /\ Left(document)' = Left(document)
    BY <1>3 DEF Left
  <2>2. Returned => FailedIsPreserved
    BY DEF PatchInv
  <2>. QED  BY <1>2, <2>1, <2>2 DEF FailedIsPreserved
<1>5. CleanIsReplaced'
  BY <1>2, <1>3 DEF PatchInv, CleanIsReplaced
<1>6. Fresh(original)'
  BY DEF PatchInv, Fresh
<1>. QED  BY <1>1, <1>4, <1>5, <1>6 DEF PatchInv

(* Nothing is returned yet.                                                 *)
LEMMA PendingStep ==
  ASSUME PatchInv, UNCHANGED <<placeholder, original, document>>, DataOK',
         pc' = pc, ~ Returned'
  PROVE  PatchInv'
<1>1. Fresh(original)'
  BY DEF PatchInv, Fresh
<1>. QED  BY <1>1 DEF PatchInv, FailedIsPreserved, CleanIsReplaced

LEMMA PatchingStep ==
  ASSUME PatchInv, UNCHANGED <<placeholder, original>>, Patching
  PROVE  PatchInv'
<1>1. DataOK'
  BY DEF PatchInv, DataOK, Patching
<1>2. Fresh(original)'
  BY DEF PatchInv, Fresh
<1>3. pc' # "gather"
  BY DEF Patching
<1>4. CASE cancelled
  <2>1. ~ Returned'
    BY <1>4 DEF Patching, Returned
  <2>. QED  BY <1>1, <1>2, <1>3, <2>1 DEF PatchInv, FailedIsPreserved, CleanIsReplaced
<1>5. CASE ~ cancelled
  <2>1. document = original /\ Fresh(document) /\ DataOK
    BY DEF PatchInv, Patching
  <2>2. /\ Succeeded' = Succeeded /\ \A id : Sharing(id)' = Sharing(id)
        /\ \A e : Clean(e)' = Clean(e)
    BY SameResults DEF Patching
  <2>3. PICK d : d = Patched
    OBVIOUS
  <2>4. document' = d
    BY <1>5, <2>3 DEF Patching
  <2>5. FailedIsPreserved'
    <3>1. Stay(document, d)
      BY <2>1, <2>3, PatchStays, FreshIsWell
    <3>2. Left(original)' = Left(document) /\ Left(document)' = Left(d)
      BY <2>1, <2>2, <2>4 DEF Left
    <3>. QED  BY <2>1, <2>4, <3>1, <3>2 DEF FailedIsPreserved, Stay
  <2>6. CleanIsReplaced'
    <3>. SUFFICES ASSUME \A e \in Succeeded : Clean(e)
                  PROVE  d = [i \in DOMAIN original |->
                           IF Sharing(original[i].id) = {} THEN original[i]
                           ELSE [original[i] EXCEPT !.from = Max(Sharing(original[i].id))]]
      BY <2>2, <2>4 DEF CleanIsReplaced
    <3>2. d = [i \in DOMAIN original |-> ShowsAt(original, i, N)]
      BY <2>1, <2>3, PatchIsClean
    <3>3. ASSUME NEW i \in DOMAIN original
          PROVE  ShowsAt(original, i, N) =
                   IF Sharing(original[i].id) = {} THEN original[i]
                   ELSE [original[i] EXCEPT !.from = Max(Sharing(original[i].id))]
      <4>1. PICK id : id = original[i].id
        OBVIOUS
      <4>2. original[i] = [id |-> id, from |-> 0, depth |-> 0]
        BY <2>1, <4>1 DEF Fresh, Placeholder
      <4>3. Sharing(id) # {} => Reached(id, N)
        <5>1. N \in Nat
          BY <2>1 DEF DataOK
        <5>2. Sharing(id) # {} => Min(Sharing(id)) \in 1 .. N
          BY <5>1, ShownIsOne
        <5>. QED  BY <5>1, <5>2 DEF Reached
      <4>4. Sharing(id) = {} => ~ Reached(id, N)
        BY DEF Reached
      <4>. QED  BY <4>1, <4>2, <4>3, <4>4 DEF ShowsAt, Shown
    <3>. QED  BY <3>2, <3>3
  <2>. QED  BY <1>1, <1>2, <1>3, <2>5, <2>6 DEF PatchInv
<1>. QED  BY <1>4, <1>5

LEMMA CollectingStep ==
  ASSUME TaskTypeOK, MainInv, PatchInv, UNCHANGED <<placeholder, original>>,
         NEW e \in Elements, Collecting(e)
  PROVE  PatchInv'
<1>1. pc = "gather" \/ cancelled
  BY DEF TaskTypeOK, MainInv, Collecting
<1>2. ~ Returned' /\ pc' = pc /\ document' = document
  BY <1>1 DEF Collecting, Returned
<1>3. DataOK'
  BY DEF PatchInv, DataOK, Collecting
<1>. QED  BY <1>2, <1>3, PendingStep

LEMMA PatchInvStep ==
  EnhancerAssumption /\ TaskTypeOK /\ MainInv /\ PatchInv /\ PatchMoves => PatchInv'
<1>. SUFFICES ASSUME EnhancerAssumption, TaskTypeOK, MainInv, PatchInv, PatchMoves
              PROVE  PatchInv'
  OBVIOUS
<1>1. UNCHANGED <<placeholder, original>>
  BY DEF PatchMoves
<1>2. CASE Patching
  BY <1>1, <1>2, PatchingStep
<1>3. CASE Cancel
  <2>1. UNCHANGED <<placeholder, original, document>> /\ pc' = pc /\ ~ Returned'
        /\ result' = result
    BY <1>1, <1>3 DEF Cancel, Returned
  <2>2. DataOK'
    BY <2>1 DEF PatchInv, DataOK
  <2>. QED  BY <2>1, <2>2, PendingStep
<1>4. ASSUME NEW e \in Elements, Collecting(e)
      PROVE  PatchInv'
  BY <1>1, <1>4, CollectingStep
<1>5. CASE /\ (pc' = "gather" => pc = "gather") /\ (pc = "gather" => pc' = "gather")
           /\ UNCHANGED <<document, cancelled, result>>
  BY <1>1, <1>5, FrozenStep
<1>. QED  BY <1>2, <1>3, <1>4, <1>5 DEF PatchMoves

(* A step of the enhancer is such a step.                                   *)
LEMMA NextIsPatchMove == [Next]_vars => PatchMoves
<1>. SUFFICES ASSUME [Next]_vars PROVE PatchMoves
  OBVIOUS
<1>1. CASE Gather
  BY <1>1 DEF Gather, PatchMoves, Patching, inputVars
<1>2. CASE Close
  BY <1>2 DEF Close, PatchMoves, inputVars
<1>3. CASE Cancel
  BY <1>3 DEF Cancel, PatchMoves, inputVars
<1>4. ASSUME NEW e \in Elements, Task(e)
      PROVE  PatchMoves
  <2>1. UNCHANGED <<placeholder, original, document, pc, cancelled>>
    BY <1>4 DEF Task, NoHandler, Wait, CallProvider, ConvertByRule, Resume, Abandon,
       inputVars, mainVars
  <2>2. CASE Wait(e) \/ CallProvider(e)
    BY <2>1, <2>2 DEF Wait, CallProvider, PatchMoves
  <2>3. CASE NoHandler(e) \/ Resume(e) \/ Abandon(e)
    BY <2>1, <2>3 DEF NoHandler, Resume, Abandon, Finish, Drop, Results, PatchMoves, Collecting
  <2>4. CASE ConvertByRule(e)
    <3>1. task[e] # "over"
      BY <2>4 DEF ConvertByRule, FindsFree, WasGranted
    <3>. QED  BY <2>1, <2>4, <3>1 DEF ConvertByRule, Finish, PatchMoves, Collecting
  <2>. QED  BY <1>4, <2>2, <2>3, <2>4 DEF Task
<1>5. ASSUME NEW e \in Elements, Answer(e) \/ Expire(e) \/ Unwind(e)
      PROVE  PatchMoves
  <2>1. UNCHANGED <<placeholder, original, document, pc, cancelled>>
    BY <1>5 DEF Answer, Expire, Unwind, inputVars, mainVars
  <2>2. CASE Answer(e)
    BY <2>1, <2>2 DEF Answer, PatchMoves, Collecting
  <2>3. CASE Expire(e)
    BY <2>1, <2>3 DEF Expire, PatchMoves
  <2>4. CASE Unwind(e)
    BY <2>1, <2>4 DEF Unwind, Finish, Drop, Results, PatchMoves, Collecting
  <2>. QED  BY <1>5, <2>2, <2>3, <2>4
<1>6. CASE UNCHANGED vars
  BY <1>6 DEF vars, inputVars, mainVars, PatchMoves
<1>. QED  BY <1>1, <1>2, <1>3, <1>4, <1>5, <1>6 DEF Next

(* A call keeps its slots and its document as they should be.               *)
CallInv == Inv /\ PatchInv

LEMMA CallInvInit == EnhancerAssumption /\ Init => CallInv
<1>1. Init => Start /\ PatchStart
  BY DEF Init, Start, PatchStart
<1>. QED  BY <1>1, InitInv, PatchInvInit DEF CallInv

LEMMA CallInvStep == EnhancerAssumption /\ CallInv /\ [Next]_vars => CallInv'
<1>1. [Next]_vars => Moves
  BY DEF Next, Gather, GoesOn, Moves
<1>. QED  BY <1>1, InvStep, PatchInvStep, NextIsPatchMove DEF CallInv, Inv

(* Every document is patched in place, whatever the fragments carry, for    *)
(* every number of elements and of placeholders.                            *)
THEOREM DocumentIsPatched ==
  ASSUME EnhancerAssumption
  PROVE  Spec => [](FailedIsPreserved /\ CleanIsReplaced)
<1>1. CallInv => FailedIsPreserved /\ CleanIsReplaced
  BY DEF CallInv, PatchInv
<1>. QED  BY <1>1, CallInvInit, CallInvStep, PTL DEF Spec
=============================================================================
