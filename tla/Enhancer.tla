------------------------------- MODULE Enhancer -------------------------------
(***************************************************************************)
(* pptx2html_enhance: enhance() and Enhancer.enhance_with_report, which    *)
(* replace the placeholders of a converted document by fragments that a    *)
(* language model generates.                                               *)
(*                                                                         *)
(* One asyncio task per element waits for a slot of a semaphore and runs   *)
(* its handler under a timeout; gather collects the results; the document  *)
(* is patched; the provider is closed.  The event loop runs one task at a  *)
(* time, from one await to the next: an action is what happens between two *)
(* awaits.  The caller may cancel the whole call, once, before its tasks   *)
(* are collected.  A call of the provider that is cancelled, by the        *)
(* timeout or by the caller, ends when the provider has unwound it, after  *)
(* any time, and with any outcome.  A provider that raises CancelledError  *)
(* when nobody has cancelled it is left out.                               *)
(***************************************************************************)
EXTENDS Integers, FiniteSets, SequencesExt

CONSTANTS
  N,              (* how many unresolved elements                          *)
  MaxConcurrent,  (* max_concurrent                                        *)
  Ids,            (* placeholder ids                                       *)
  NoId            (* a fragment that carries no placeholder id             *)

(* What the instances must satisfy.  Enhancer accepts 0 slots too; then no   *)
(* element that has a handler is ever processed.                            *)
EnhancerAssumption ==
  /\ N \in Nat
  /\ MaxConcurrent \in Nat \ {0}
  /\ IsFiniteSet(Ids) /\ NoId \notin Ids

Elements == 1 .. N

(* What a handler generates: whether lxml finds a body in it ("" has none), *)
(* and an element id that its markup carries.                               *)
Fragment ==
  [body : {TRUE}, carries : Ids \union {NoId}] \union
  [body : {FALSE}, carries : {NoId}]

(* A result: {f} for the fragment f, {} for a failure, whatever the error.  *)
Results == {{}} \union {{f} : f \in Fragment}

VARIABLES
  placeholder,  (* per element, its placeholder_id                         *)
  handled,      (* elements whose type has a handler                       *)
  document,     (* the nodes that have an id, in document order            *)
  original,     (* the document as it was given                            *)
  pc,           (* where enhance() is                                      *)
  cancelled,    (* the caller cancelled the call                           *)
  task,         (* per element, its task: "over" with a result, or         *)
                (* "cancelled"                                             *)
  result,       (* per element, its result or the answer of its handler    *)
  free,         (* the value of the semaphore                              *)
  waiters,      (* the tasks that wait for a slot, in order                *)
  granted,      (* those of them that got one and have not run since       *)
  closed        (* the provider is closed                                  *)

inputVars == <<placeholder, handled, original>>
slotVars == <<free, waiters, granted>>
mainVars == <<document, pc, cancelled, closed>>
vars == <<inputVars, slotVars, mainVars, task, result>>

(* A node: its id, the element that it comes from (0: it is a placeholder   *)
(* of the document), and how deep it is nested.                             *)
Placeholder(id) == [id |-> id, from |-> 0, depth |-> 0]

(* The documents that hold each id of a set once, in any order.             *)
Documents ==
  {[i \in DOMAIN order |-> Placeholder(order[i])] :
     order \in UNION {SetToSeqs(present) : present \in SUBSET Ids}}

Init ==
  /\ placeholder \in [Elements -> Ids]
  /\ handled \in SUBSET Elements
  /\ document \in Documents
  /\ original = document
  /\ pc = "gather"
  /\ cancelled = FALSE
  /\ task = [e \in Elements |-> "ready"]
  /\ result = [e \in Elements |-> {}]
  /\ free = MaxConcurrent
  /\ waiters = <<>>
  /\ granted = {}
  /\ closed = FALSE

-----------------------------------------------------------------------------
(* asyncio.Semaphore.                                                       *)

Locked == free = 0 \/ waiters # <<>>

Without(e) == RemoveAt(waiters, CHOOSE i \in DOMAIN waiters : waiters[i] = e)

(* Those in the queue that can be given a slot: the futures of cancelled    *)
(* tasks are done.                                                          *)
Others(queue, some) == IF cancelled THEN {} ELSE ToSet(queue) \ some

(* The semaphore with value slots and the waiters queue, of whom some have  *)
(* a slot, gives slots to at most n of the others, in their order.          *)
WakeUp(value, queue, some, n) ==
  \E woken \in SUBSET Others(queue, some) :
    /\ Cardinality(woken) = Min({n, value, Cardinality(Others(queue, some))})
    /\ \A i, j \in DOMAIN queue :
         i < j /\ queue[j] \in woken => queue[i] \in some \union woken
    /\ waiters' = queue
    /\ free' = value - Cardinality(woken)
    /\ granted' = some \union woken

Release == WakeUp(free + 1, waiters, granted, 1)

-----------------------------------------------------------------------------
(* _process_element, one task per element.                                  *)

Finish(e, r) ==
  /\ task' = [task EXCEPT ![e] = "over"]
  /\ result' = [result EXCEPT ![e] = r]

NoHandler(e) ==
  /\ ~cancelled
  /\ task[e] = "ready"
  /\ e \notin handled
  /\ Finish(e, {})
  /\ UNCHANGED <<inputVars, slotVars, mainVars>>

Wait(e) ==
  /\ ~cancelled
  /\ task[e] = "ready"
  /\ e \in handled
  /\ Locked
  /\ task' = [task EXCEPT ![e] = "waiting"]
  /\ waiters' = Append(waiters, e)
  /\ UNCHANGED <<inputVars, free, granted, mainVars, result>>

FindsFree(e) == task[e] = "ready" /\ e \in handled /\ ~Locked

WasGranted(e) == task[e] = "waiting" /\ e \in granted

(* The task enters the semaphore, and its handler calls the provider.       *)
CallProvider(e) ==
  /\ ~cancelled
  /\ \/ /\ FindsFree(e)
        /\ free' = free - 1
        /\ UNCHANGED <<waiters, granted>>
     \/ /\ WasGranted(e)
        /\ WakeUp(free, Without(e), granted \ {e}, N)
  /\ task' = [task EXCEPT ![e] = "calling"]
  /\ UNCHANGED <<inputVars, mainVars, result>>

(* The handler needs no provider (it converts by rule, or its input is      *)
(* empty): the semaphore is entered and left without an await.              *)
ConvertByRule(e) ==
  /\ ~cancelled
  /\ \E r \in Results : Finish(e, r)
  /\ \/ FindsFree(e) /\ UNCHANGED slotVars
     \/ WasGranted(e) /\ WakeUp(free + 1, Without(e), granted \ {e}, N)
  /\ UNCHANGED <<inputVars, mainVars>>

(* The provider answers or fails; the task is told, and runs later.         *)
Answer(e) ==
  /\ ~cancelled
  /\ task[e] = "calling"
  /\ \E r \in Results : result' = [result EXCEPT ![e] = r]
  /\ task' = [task EXCEPT ![e] = "answered"]
  /\ UNCHANGED <<inputVars, slotVars, mainVars>>

(* Mutant of Expire: the call of the provider is not timed.                 *)
ExpireAnswered(e) ==
  /\ ~cancelled
  /\ task[e] = "answered"
  /\ task' = [task EXCEPT ![e] = "unwinding"]
  /\ UNCHANGED <<inputVars, slotVars, mainVars, result>>

(* The timeout cancels the handler, which may have its answer already.      *)
Expire(e) ==
  /\ ~cancelled
  /\ task[e] \in {"calling", "answered"}
  /\ task' = [task EXCEPT ![e] = "unwinding"]
  /\ UNCHANGED <<inputVars, slotVars, mainVars, result>>

Resume(e) ==
  /\ task[e] = "answered"
  /\ Finish(e, result[e])
  /\ Release
  /\ UNCHANGED <<inputVars, mainVars>>

(* The task ends with CancelledError.                                       *)
Drop(e) ==
  /\ task' = [task EXCEPT ![e] = "cancelled"]
  /\ result' = [result EXCEPT ![e] = {}]

(* Mutant of Unwind: the slot is given back only by a task that ends with a *)
(* result.                                                                  *)
UnwindKeepsSlot(e) ==
  /\ task[e] = "unwinding"
  /\ \/ (\E r \in Results : Finish(e, r)) /\ Release
     \/ cancelled /\ Drop(e) /\ UNCHANGED slotVars
  /\ UNCHANGED <<inputVars, mainVars>>

(* The provider has unwound the call: with a timeout, with an error of its  *)
(* own, or with a result after all; and the slot is given back.             *)
Unwind(e) ==
  /\ task[e] = "unwinding"
  /\ (\E r \in Results : Finish(e, r)) \/ (cancelled /\ Drop(e))
  /\ Release
  /\ UNCHANGED <<inputVars, mainVars>>

(* CancelledError is raised in a task that has made no call: one that has   *)
(* not begun never does, one that waits leaves the queue.                   *)
Abandon(e) ==
  /\ cancelled
  /\ \/ task[e] = "ready" /\ UNCHANGED slotVars
     \/ /\ task[e] = "waiting"
        /\ LET value == IF e \in granted THEN free + 1 ELSE free
           IN  WakeUp(value, Without(e), granted \ {e}, N)
  /\ Drop(e)
  /\ UNCHANGED <<inputVars, mainVars>>

Task(e) ==
  \/ NoHandler(e) \/ Wait(e) \/ CallProvider(e) \/ ConvertByRule(e)
  \/ Resume(e) \/ Abandon(e)

-----------------------------------------------------------------------------
(* patch_html.                                                              *)

Succeeded == {e \in Elements : result[e] # {}}

Sharing(id) == {e \in Succeeded : placeholder[e] = id}

(* The map of replacements holds the last fragment of an id ...             *)
Shown(id) == Max(Sharing(id))

(* ... at the place of the first.                                           *)
IsFirst(e) == e \in Succeeded /\ e = Min(Sharing(placeholder[e]))

Found(nodes, id) == {i \in DOMAIN nodes : nodes[i].id = id}

(* Mutant of After: the sibling that follows is taken for a child.          *)
AfterSibling(nodes, i) ==
  LET rest == {j \in DOMAIN nodes : j > i + 1 /\ nodes[j].depth <= nodes[i].depth}
  IN  IF rest = {} THEN <<>> ELSE SubSeq(nodes, Min(rest), Len(nodes))

(* What follows a node and everything inside it.                            *)
After(nodes, i) ==
  LET rest == {j \in DOMAIN nodes : j > i /\ nodes[j].depth <= nodes[i].depth}
  IN  IF rest = {} THEN <<>> ELSE SubSeq(nodes, Min(rest), Len(nodes))

(* The wrapper keeps the id; the fragment goes inside it.                   *)
Wrapper(e, fragment, depth) ==
  <<[id |-> placeholder[e], from |-> e, depth |-> depth]>> \o
  (IF fragment.carries = NoId THEN <<>>
   ELSE <<[id |-> fragment.carries, from |-> e, depth |-> depth + 1]>>)

(* The first node that has the id is replaced, if there is one and the      *)
(* fragment has a body.                                                     *)
Replace(nodes, e) ==
  LET fragment == CHOOSE f \in Fragment : f \in result[e]
      i == Min(Found(nodes, placeholder[e]))
  IN  IF Found(nodes, placeholder[e]) = {} \/ ~fragment.body THEN nodes
      ELSE SubSeq(nodes, 1, i - 1) \o Wrapper(e, fragment, nodes[i].depth)
           \o After(nodes, i)

(* The replacements are made one after the other.                           *)
Patched ==
  LET patched[e \in 0 .. N] ==
        IF e = 0 THEN document
        ELSE IF IsFirst(e) THEN Replace(patched[e - 1], Shown(placeholder[e]))
        ELSE patched[e - 1]
  IN  patched[N]

-----------------------------------------------------------------------------
(* enhance() and enhance_with_report.                                       *)

AllOver == \A e \in Elements : task[e] = "over"

(* Mutant of Cancel: the calls of the provider are shielded from it.        *)
CancelShielded ==
  /\ pc = "gather"
  /\ ~cancelled
  /\ cancelled' = TRUE
  /\ UNCHANGED <<inputVars, slotVars, document, pc, closed, task, result>>

(* gather cancels every task: CancelledError is raised in the calls, and in *)
(* the other tasks when they run next.                                      *)
Cancel ==
  /\ pc = "gather"
  /\ ~cancelled
  /\ cancelled' = TRUE
  /\ task' = [e \in Elements |->
                IF task[e] \in {"calling", "answered"} THEN "unwinding" ELSE task[e]]
  /\ UNCHANGED <<inputVars, slotVars, document, pc, closed, result>>

(* gather ends when all tasks are over, and before that when one of them    *)
(* ends with CancelledError; a cancelled call ends with that in any case.   *)
Gather ==
  /\ pc = "gather"
  /\ AllOver \/ \E e \in Elements : task[e] = "cancelled"
  /\ pc' = "close"
  /\ document' = IF cancelled THEN document ELSE Patched
  /\ UNCHANGED <<inputVars, slotVars, cancelled, closed, task, result>>

(* The finally of enhance(): the provider is closed if enhance() created    *)
(* it; that may take any time, and fail.                                    *)
Close ==
  /\ pc = "close"
  /\ pc' = "done"
  /\ closed' \in BOOLEAN
  /\ UNCHANGED <<inputVars, slotVars, document, cancelled, task, result>>

Next ==
  \/ Gather \/ Close \/ Cancel
  \/ \E e \in Elements : Task(e) \/ Answer(e) \/ Expire(e) \/ Unwind(e)

Spec == Init /\ [][Next]_vars

(* The event loop runs what is ready and fires timers that are due; nothing *)
(* is assumed of the provider: that it answers, that it unwinds a call that *)
(* is cancelled, or that its close() returns.                               *)
Fairness ==
  /\ WF_vars(Gather)
  /\ \A e \in Elements : WF_vars(Task(e)) /\ WF_vars(Expire(e))

FairSpec == Spec /\ Fairness

-----------------------------------------------------------------------------
(* Properties.                                                              *)

HasSlot == {e \in Elements : task[e] \in {"calling", "answered", "unwinding"}}

(* Every slot is free, granted or in use, however tasks end: so an Enhancer *)
(* that is used again, after a timeout or a cancelled call too, has them    *)
(* all, and a slot is never given twice.  As free is never negative, at     *)
(* most max_concurrent calls of the provider are under way at a time.       *)
SlotsAreConserved ==
  free + Cardinality(granted) + Cardinality(HasSlot) = MaxConcurrent

(* When the tasks have been collected, before the provider is closed, a     *)
(* call of it is under way only if it was told to end: that is after a      *)
(* cancellation, as gather waits for nobody then.                           *)
ProviderOutlivesCalls ==
  pc # "gather" => \A e \in HasSlot : cancelled /\ task[e] = "unwinding"

Returned == pc # "gather" /\ ~cancelled

(* The placeholders of elements that all failed, and of nobody, are left,   *)
(* in their order: at the places at[i] of the document.                     *)
Left(nodes) == {i \in DOMAIN nodes : nodes[i].from = 0 /\ Sharing(nodes[i].id) = {}}

FailedIsPreserved ==
  Returned =>
    \E at \in [Left(original) -> Left(document)] :
      /\ \A i \in Left(original) : document[at[i]] = original[i]
      /\ \A i, j \in Left(original) : i < j => at[i] < at[j]
      /\ \A k \in Left(document) : \E i \in Left(original) : at[i] = k

Clean(e) == \A f \in result[e] : f.body /\ f.carries = NoId

(* When the fragments have a body and carry no placeholder id, the document *)
(* has the nodes it had, each one with a fragment of it replaced by the     *)
(* last of them.                                                            *)
CleanIsReplaced ==
  Returned /\ (\A e \in Succeeded : Clean(e)) =>
    document = [i \in DOMAIN original |->
                  LET id == original[i].id
                  IN  IF Sharing(id) = {} THEN original[i]
                      ELSE [original[i] EXCEPT !.from = Max(Sharing(id))]]

(* The calls that were told to end and have not.                            *)
Held == {e \in DOMAIN task : task[e] = "unwinding"}

(* The call ends, unless the provider keeps a call that was told to end, or *)
(* its close() does not return.                                             *)
EndsUnlessHeld ==
  \/ <>(pc = "done")
  \/ \E e \in Elements : <>[](e \in Held)
  \/ <>[](pc = "close")
=============================================================================
