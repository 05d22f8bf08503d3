------------------------- MODULE OfflineQueueProofs -------------------------
(***************************************************************************)
(* Proofs about OfflineQueue, for every value of the constants and however *)
(* many flushes overlap: its type invariant, Durable, NeverLost, the order *)
(* of first deliveries and the buffer it implements, each with the mishaps *)
(* it exempts in its own statement.                                        *)
(***************************************************************************)
EXTENDS OfflineQueue, FiniteSetTheorems, NaturalsInduction, WellFoundedInduction, TLAPS

\* The front of a set of reports is its least element.
LEMMA OldestIsLeast ==
  ASSUME NEW S \in SUBSET Report
  PROVE  /\ S = {} => Oldest(S) = None
         /\ S # {} => Oldest(S) \in S /\ \A q \in S : Oldest(S) <= q
<1>1. CASE S = {}
  BY <1>1 DEF Oldest
<1>2. CASE S # {}
  <2>1. S \subseteq Nat
    BY QueueAssumption DEF Report
  <2>2. PICK x \in S : \A y \in S : ~(<<y, x>> \in OpToRel(<, Nat))
    BY <1>2, <2>1, NatLessThanWellFounded, WFMin
  <2>3. \A y \in S : ~(y < x)
    BY <2>1, <2>2 DEF OpToRel
  <2>4. \A y \in S : x <= y
    BY <2>1, <2>3
  <2>5. QED
    BY <1>2, <2>4 DEF Oldest
<1>3. QED
  BY <1>1, <1>2

LEMMA OldestType ==
  ASSUME NEW S \in SUBSET Report
  PROVE  Oldest(S) \in Report \cup {None}
BY OldestIsLeast

LEMMA ReportsFinite ==
  ASSUME NEW S \in SUBSET Report
  PROVE  IsFiniteSet(S) /\ Cardinality(S) \in Nat /\ Cardinality(S) <= MaxReports
<1>1. IsFiniteSet(1 .. MaxReports) /\ Cardinality(1 .. MaxReports) = MaxReports
  BY FS_Interval, QueueAssumption
<1>2. IsFiniteSet(S) /\ Cardinality(S) <= MaxReports
  BY <1>1, FS_Subset DEF Report
<1>3. QED
  BY <1>2, FS_CardinalityType

LEMMA ShiftShrinks ==
  ASSUME NEW S \in SUBSET Report, S # {}
  PROVE  /\ Shift(S) \in SUBSET Report
         /\ Cardinality(S) \in Nat
         /\ Cardinality(Shift(S)) = Cardinality(S) - 1
<1>1. Oldest(S) \in S
  BY OldestIsLeast
<1>2. IsFiniteSet(S)
  BY ReportsFinite
<1>3. Cardinality(S \ {Oldest(S)}) = Cardinality(S) - 1
  BY <1>1, <1>2, FS_RemoveElement
<1>4. QED
  BY <1>3, ReportsFinite DEF Shift

-----------------------------------------------------------------------------
(* A running flush has something left of its copy, and the position in the *)
(* copy plus what is left never exceed the number of reports: this bounds  *)
(* the index done.                                                         *)
CopyBounded ==
  \A f \in Flushers :
    /\ flush[f].pc = "idle" <=> flush[f].todo = {}
    /\ flush[f].done + Cardinality(flush[f].todo) <= MaxReports

\* A running enqueue() carries its report.
ItemPending == enq.pc # "idle" => enq.item \in Report

TypeInv == TypeOK /\ CopyBounded /\ ItemPending

FlushTask == [pc : {"idle", "send", "acking", "select", "delete", "bump", "check"},
              todo : SUBSET Report, done : 0 .. MaxReports,
              victim : Report \cup {None}, dropping : BOOLEAN]

TaskInv(task) ==
  /\ task \in FlushTask
  /\ task.pc = "idle" <=> task.todo = {}
  /\ task.done + Cardinality(task.todo) <= MaxReports

LEMMA IdleTask == TaskInv(IdleFlush)
BY FS_EmptySet, QueueAssumption DEF TaskInv, FlushTask, IdleFlush

LEMMA AdvancedTask ==
  ASSUME NEW task, TaskInv(task), task.todo # {}
  PROVE  TaskInv(Advanced(task))
<1> DEFINE rest == Shift(task.todo)
<1>1. /\ rest \in SUBSET Report
      /\ Cardinality(task.todo) \in Nat
      /\ Cardinality(rest) = Cardinality(task.todo) - 1
  BY ShiftShrinks DEF TaskInv, FlushTask
<1>2. CASE rest = {}
  BY <1>2, IdleTask DEF Advanced
<1>3. CASE rest # {}
  <2>1. Advanced(task) = [pc |-> "send", todo |-> rest, done |-> task.done + 1,
                          victim |-> None, dropping |-> FALSE]
    BY <1>3 DEF Advanced, IdleFlush
  <2>2. task.done + 1 + Cardinality(rest) <= MaxReports /\ task.done + 1 \in Nat
    BY <1>1 DEF TaskInv, FlushTask
  <2>3. Cardinality(rest) \in Nat
    BY <1>1, ReportsFinite
  <2>4. task.done + 1 \in 0 .. MaxReports
    BY <2>2, <2>3, QueueAssumption
  <2> HIDE DEF rest
  <2>5. QED
    BY <1>1, <1>3, <2>1, <2>2, <2>4 DEF TaskInv, FlushTask
<1>4. QED
  BY <1>2, <1>3

\* TypeInv restated task by task; every action changes at most one of them.
LEMMA TypeInvByTask ==
  TypeInv <=> /\ up \in BOOLEAN
              /\ memory \in SUBSET Report
              /\ disk \in SUBSET Report
              /\ attempts \in [Report -> 0 .. MaxRetries]
              /\ issued \in 0 .. MaxReports
              /\ enq \in [pc : {"idle", "select", "delete", "insert"},
                          item : Report \cup {None}, victim : Report \cup {None}]
              /\ ItemPending
              /\ flush \in [Flushers -> FlushTask]
              /\ \A f \in Flushers : TaskInv(flush[f])
              /\ clearing \in BOOLEAN
              /\ accepted \in SUBSET Report
              /\ dropped \in SUBSET Report
              /\ delivered \in SUBSET Report
              /\ mishap \in {"none", "disk", "array"}
              /\ exposed \in 0 .. MaxReports
BY DEF TypeInv, TypeOK, CopyBounded, ItemPending, TaskInv, FlushTask

LEMMA TypeInit == Init => TypeInv
<1>1. ASSUME Init PROVE TypeInv
  <2>1. \A f \in Flushers : TaskInv(flush[f])
    BY <1>1, IdleTask DEF Init
  <2>2. flush \in [Flushers -> FlushTask]
    BY <1>1, IdleTask DEF Init, TaskInv
  <2>3. /\ attempts \in [Report -> 0 .. MaxRetries]
        /\ issued \in 0 .. MaxReports /\ exposed \in 0 .. MaxReports
    BY <1>1, QueueAssumption DEF Init
  <2>4. /\ enq \in [pc : {"idle", "select", "delete", "insert"},
                    item : Report \cup {None}, victim : Report \cup {None}]
        /\ ItemPending
    BY <1>1 DEF Init, IdleEnq, ItemPending
  <2>5. QED
    BY <1>1, <2>1, <2>2, <2>3, <2>4, TypeInvByTask DEF Init
<1>2. QED
  BY <1>1

\* A step that replaces the record of one flush by a well-formed one.
LEMMA TaskStep ==
  ASSUME TypeInv, NEW f \in Flushers, NEW task, TaskInv(task),
         flush' = [flush EXCEPT ![f] = task]
  PROVE  flush' \in [Flushers -> FlushTask] /\ \A g \in Flushers : TaskInv(flush'[g])
BY TypeInvByTask DEF TaskInv

\* A step moves the record of mishaps within its range.
LEMMA MishapTyped ==
  ASSUME TypeInv, [Next]_vars
  PROVE  mishap' \in {"none", "disk", "array"} /\ exposed' \in 0 .. MaxReports
<1>1. mishap \in {"none", "disk", "array"} /\ exposed \in 0 .. MaxReports /\ issued \in 0 .. MaxReports
  BY TypeInvByTask
<1>2. CASE Enqueue
  BY <1>1, <1>2 DEF Enqueue
<1>3. CASE EnqueueSelect \/ EnqueueDelete \/ EnqueueInsert \/ EnqueueFault
  BY <1>1, <1>3 DEF EnqueueSelect, EnqueueDelete, EnqueueInsert, EnqueueFault, Worse
<1>4. ASSUME NEW f \in Flushers, FlushStart(f) \/ Deliver(f) \/ SendFails(f) \/ FlushFault(f)
      PROVE  mishap' \in {"none", "disk", "array"} /\ exposed' \in 0 .. MaxReports
  BY <1>1, <1>4 DEF FlushStart, Deliver, SendFails, FlushFault, Worse
<1>5. ASSUME NEW f \in Flushers, FlushStep(f)
      PROVE  mishap' \in {"none", "disk", "array"} /\ exposed' \in 0 .. MaxReports
  BY <1>1, <1>5 DEF FlushStep, Acknowledge, FlushSelect, FlushDelete, BumpAttempts, CheckAttempts
<1>6. CASE ClearMemory \/ ClearDisk \/ Crash \/ Restart
  BY <1>1, <1>6 DEF ClearMemory, ClearDisk, Crash, Restart, Worse
<1>7. CASE UNCHANGED vars
  BY <1>1, <1>7 DEF vars
<1>. QED
  BY <1>2, <1>3, <1>4, <1>5, <1>6, <1>7 DEF Next

LEMMA TypeStep == TypeInv /\ [Next]_vars => TypeInv'
<1> SUFFICES ASSUME TypeInv, [Next]_vars PROVE TypeInv'
  OBVIOUS
<1> USE QueueAssumption
<1>a. \A S \in SUBSET Report : Oldest(S) \in Report \cup {None} /\ Shift(S) \in SUBSET Report
  BY OldestType DEF Shift
<1>b. TypeInv' <=> /\ up' \in BOOLEAN
                   /\ memory' \in SUBSET Report
                   /\ disk' \in SUBSET Report
                   /\ attempts' \in [Report -> 0 .. MaxRetries]
                   /\ issued' \in 0 .. MaxReports
                   /\ enq' \in [pc : {"idle", "select", "delete", "insert"},
                                item : Report \cup {None}, victim : Report \cup {None}]
                   /\ enq'.pc # "idle" => enq'.item \in Report
                   /\ flush' \in [Flushers -> FlushTask]
                   /\ \A f \in Flushers : TaskInv(flush'[f])
                   /\ clearing' \in BOOLEAN
                   /\ accepted' \in SUBSET Report
                   /\ dropped' \in SUBSET Report
                   /\ delivered' \in SUBSET Report
  BY MishapTyped DEF TypeInv, TypeOK, CopyBounded, ItemPending, TaskInv, FlushTask
<1>1. CASE Enqueue
  <2> DEFINE pushed == memory \cup {issued + 1}
  <2>1. issued + 1 \in Report /\ issued + 1 \in 0 .. MaxReports
    BY <1>1, TypeInvByTask DEF Enqueue, Report
  <2>2. pushed \in SUBSET Report
    BY <2>1, TypeInvByTask
  <2>3. memory' \in SUBSET Report
    BY <1>1, <1>a, <2>2 DEF Enqueue
  <2>4. dropped' \in SUBSET Report
    <3>1. CASE Cardinality(pushed) > MaxSize
      <4>1. Oldest(pushed) \in pushed
        BY <2>2, OldestIsLeast
      <4>2. QED
        BY <1>1, <2>2, <3>1, <4>1, TypeInvByTask DEF Enqueue
    <3>2. CASE ~(Cardinality(pushed) > MaxSize)
      BY <1>1, <3>2, TypeInvByTask DEF Enqueue
    <3>3. QED
      BY <3>1, <3>2
  <2>5. enq' \in [pc : {"idle", "select", "delete", "insert"},
                  item : Report \cup {None}, victim : Report \cup {None}]
    BY <1>1, <2>1 DEF Enqueue
  <2>6. QED
    BY <1>1, <1>b, <2>1, <2>3, <2>4, <2>5, TypeInvByTask DEF Enqueue
<1>2. CASE EnqueueSelect
  BY <1>2, <1>a, <1>b, TypeInvByTask DEF EnqueueSelect, ItemPending
<1>3. CASE EnqueueDelete
  BY <1>3, <1>b, TypeInvByTask DEF EnqueueDelete, ItemPending
<1>4. CASE EnqueueInsert
  <2>1. enq.item \in Report
    BY <1>4, TypeInvByTask DEF EnqueueInsert, ItemPending
  <2>2. attempts' \in [Report -> 0 .. MaxRetries]
    BY <1>4, <2>1, TypeInvByTask DEF EnqueueInsert
  <2>3. QED
    BY <1>4, <1>b, <2>1, <2>2, TypeInvByTask DEF EnqueueInsert, IdleEnq
<1>5. CASE EnqueueFault
  BY <1>5, <1>b, TypeInvByTask DEF EnqueueFault, IdleEnq
<1>6. ASSUME NEW f \in Flushers, FlushStart(f) PROVE TypeInv'
  <2> DEFINE task == [IdleFlush EXCEPT !.pc = "send", !.todo = memory]
  <2>1. TaskInv(task)
    <3>1. Cardinality(memory) <= MaxReports /\ Cardinality(memory) \in Nat
      BY ReportsFinite, TypeInvByTask
    <3>2. memory # {} /\ memory \in SUBSET Report /\ 0 \in 0 .. MaxReports
      BY <1>6, TypeInvByTask DEF FlushStart
    <3>3. task \in FlushTask /\ task.todo = memory /\ task.done = 0
      BY <3>2 DEF FlushTask, IdleFlush
    <3>4. task.pc = "send"
      BY DEF IdleFlush
    <3> HIDE DEF task
    <3>. QED
      BY <3>1, <3>2, <3>3, <3>4 DEF TaskInv
  <2>2. flush' = [flush EXCEPT ![f] = task]
    BY <1>6 DEF FlushStart
  <2>3. QED
    BY <1>6, <1>b, <2>1, <2>2, TaskStep, TypeInvByTask DEF FlushStart, ItemPending
<1>7. ASSUME NEW f \in Flushers, Deliver(f) PROVE TypeInv'
  <2> DEFINE task == [flush[f] EXCEPT !.pc = "acking"]
  <2>1. TaskInv(flush[f]) /\ flush[f].pc # "idle" /\ flush[f].todo \in SUBSET Report
    BY <1>7, TypeInvByTask DEF Deliver, TaskInv, FlushTask
  <2>2. TaskInv(task)
    BY <2>1 DEF TaskInv, FlushTask
  <2>3. flush' = [flush EXCEPT ![f] = task]
    BY <1>7, TypeInvByTask DEF Deliver
  <2>4. Oldest(flush[f].todo) \in Report
    BY <2>1, OldestIsLeast DEF TaskInv
  <2>5. QED
    BY <1>7, <1>b, <2>2, <2>3, <2>4, TaskStep, TypeInvByTask DEF Deliver, ItemPending
<1>8. ASSUME NEW f \in Flushers, Acknowledge(f) PROVE TypeInv'
  <2> DEFINE task == [flush[f] EXCEPT !.pc = "select"]
  <2>1. TaskInv(flush[f]) /\ flush[f].pc # "idle"
    BY <1>8, TypeInvByTask DEF Acknowledge
  <2>2. TaskInv(task)
    BY <2>1 DEF TaskInv, FlushTask
  <2>3. flush' = [flush EXCEPT ![f] = task]
    BY <1>8, TypeInvByTask DEF Acknowledge
  <2>4. QED
    BY <1>8, <1>a, <1>b, <2>2, <2>3, TaskStep, TypeInvByTask DEF Acknowledge, ItemPending
<1>9. ASSUME NEW f \in Flushers, SendFails(f) PROVE TypeInv'
  <2> DEFINE task == [flush[f] EXCEPT !.pc = "bump"]
  <2>1. TaskInv(flush[f]) /\ flush[f].pc # "idle"
    BY <1>9, TypeInvByTask DEF SendFails
  <2>2. TaskInv(task)
    BY <2>1 DEF TaskInv, FlushTask
  <2>3. flush' = [flush EXCEPT ![f] = task]
    BY <1>9, TypeInvByTask DEF SendFails
  <2>4. QED
    BY <1>9, <1>b, <2>2, <2>3, TaskStep, TypeInvByTask DEF SendFails, ItemPending
<1>10. ASSUME NEW f \in Flushers, FlushSelect(f) PROVE TypeInv'
  <2> DEFINE task == IF disk = {} THEN Advanced(flush[f])
                     ELSE [flush[f] EXCEPT !.pc = "delete", !.victim = Oldest(disk)]
  <2>1. TaskInv(flush[f]) /\ flush[f].pc # "idle" /\ disk \in SUBSET Report
    BY <1>10, TypeInvByTask DEF FlushSelect
  <2>2. TaskInv(task)
    <3>1. CASE disk = {}
      BY <2>1, <3>1, AdvancedTask DEF TaskInv
    <3>2. CASE disk # {}
      BY <2>1, <3>2, <1>a DEF TaskInv, FlushTask
    <3>3. QED
      BY <3>1, <3>2
  <2>3. flush' = [flush EXCEPT ![f] = task]
    BY <1>10, TypeInvByTask DEF FlushSelect
  <2> HIDE DEF task
  <2>4. QED
    BY <1>10, <1>b, <2>2, <2>3, TaskStep, TypeInvByTask DEF FlushSelect, ItemPending
<1>11. ASSUME NEW f \in Flushers, FlushDelete(f) PROVE TypeInv'
  <2>1. TaskInv(flush[f]) /\ flush[f].pc # "idle"
    BY <1>11, TypeInvByTask DEF FlushDelete
  <2>2. TaskInv(Advanced(flush[f]))
    BY <2>1, AdvancedTask DEF TaskInv
  <2>3. flush' = [flush EXCEPT ![f] = Advanced(flush[f])]
    BY <1>11, TypeInvByTask DEF FlushDelete
  <2>4. QED
    BY <1>11, <1>b, <2>2, <2>3, TaskStep, TypeInvByTask DEF FlushDelete, ItemPending
<1>12. ASSUME NEW f \in Flushers, BumpAttempts(f) PROVE TypeInv'
  <2> DEFINE task == IF ContinueOnError THEN [flush[f] EXCEPT !.pc = "check"] ELSE IdleFlush
             row == RowAt(flush[f].done)
  <2>1. TaskInv(flush[f]) /\ flush[f].pc # "idle"
    BY <1>12, TypeInvByTask DEF BumpAttempts
  <2>2. TaskInv(task)
    <3>1. CASE ContinueOnError
      BY <2>1, <3>1 DEF TaskInv, FlushTask
    <3>2. CASE ~ContinueOnError
      BY <3>2, IdleTask
    <3>3. QED
      BY <3>1, <3>2
  <2>3. flush' = [flush EXCEPT ![f] = task]
    BY <1>12, TypeInvByTask DEF BumpAttempts
  <2>4. row \in Report \cup {None}
    BY TypeInvByTask DEF RowAt
  <2> HIDE DEF row, task
  <2>5. attempts' \in [Report -> 0 .. MaxRetries]
    <3>1. CASE row = None \/ attempts[row] = MaxRetries
      BY <1>12, <3>1, TypeInvByTask DEF BumpAttempts, row
    <3>2. CASE ~(row = None \/ attempts[row] = MaxRetries)
      <4>1. row \in Report /\ attempts[row] \in 0 .. MaxRetries /\ attempts[row] # MaxRetries
        BY <2>4, <3>2, TypeInvByTask
      <4>2. attempts[row] + 1 \in 0 .. MaxRetries
        BY <4>1
      <4>3. attempts' = [attempts EXCEPT ![row] = attempts[row] + 1]
        BY <1>12, <3>2 DEF BumpAttempts, row
      <4>4. QED
        BY <4>2, <4>3, TypeInvByTask
    <3>3. QED
      BY <3>1, <3>2
  <2>6. QED
    BY <1>12, <1>b, <2>2, <2>3, <2>5, TaskStep, TypeInvByTask DEF BumpAttempts, ItemPending
<1>13. ASSUME NEW f \in Flushers, CheckAttempts(f) PROVE TypeInv'
  <2> DEFINE row == RowAt(flush[f].done)
             exhausted == row # None /\ attempts[row] >= MaxRetries
             task == IF exhausted THEN [flush[f] EXCEPT !.pc = "select", !.dropping = TRUE]
                     ELSE IdleFlush
  <2>1. TaskInv(flush[f]) /\ flush[f].pc # "idle"
    BY <1>13, TypeInvByTask DEF CheckAttempts
  <2>2. TaskInv(task)
    <3>1. CASE exhausted
      BY <2>1, <3>1 DEF TaskInv, FlushTask
    <3>2. CASE ~exhausted
      BY <3>2, IdleTask
    <3>3. QED
      BY <3>1, <3>2
  <2>3. flush' = [flush EXCEPT ![f] = task]
    BY <1>13, TypeInvByTask DEF CheckAttempts
  <2>4. memory' \in SUBSET Report /\ dropped' \in SUBSET Report
    BY <1>13, <1>a, TypeInvByTask DEF CheckAttempts
  <2> HIDE DEF task, exhausted
  <2>5. QED
    BY <1>13, <1>b, <2>2, <2>3, <2>4, TaskStep, TypeInvByTask DEF CheckAttempts, ItemPending
<1>14. ASSUME NEW f \in Flushers, FlushFault(f) PROVE TypeInv'
  <2> DEFINE task == IF flush[f].pc \in {"select", "delete"} /\ ~flush[f].dropping
                     THEN [flush[f] EXCEPT !.pc = "bump"] ELSE IdleFlush
  <2>1. TaskInv(flush[f]) /\ flush[f].pc # "idle"
    BY <1>14, TypeInvByTask DEF FlushFault
  <2>2. TaskInv(task)
    <3>1. CASE flush[f].pc \in {"select", "delete"} /\ ~flush[f].dropping
      BY <2>1, <3>1 DEF TaskInv, FlushTask
    <3>2. CASE ~(flush[f].pc \in {"select", "delete"} /\ ~flush[f].dropping)
      BY <3>2, IdleTask
    <3>3. QED
      BY <3>1, <3>2
  <2>3. flush' = [flush EXCEPT ![f] = task]
    BY <1>14, TypeInvByTask DEF FlushFault
  <2> HIDE DEF task
  <2>4. QED
    BY <1>14, <1>b, <2>2, <2>3, TaskStep, TypeInvByTask DEF FlushFault, ItemPending
<1>15. CASE ClearMemory
  BY <1>15, <1>b, TypeInvByTask DEF ClearMemory, ItemPending
<1>16. CASE ClearDisk
  BY <1>16, <1>b, TypeInvByTask DEF ClearDisk, ItemPending
<1>17. CASE Crash
  <2>1. flush' \in [Flushers -> FlushTask] /\ \A f \in Flushers : TaskInv(flush'[f])
    BY <1>17, IdleTask DEF Crash, TaskInv
  <2>2. QED
    BY <1>17, <1>b, <2>1, TypeInvByTask DEF Crash, IdleEnq
<1>18. CASE Restart
  BY <1>18, <1>b, TypeInvByTask DEF Restart, ItemPending
<1>19. CASE UNCHANGED vars
  BY <1>19, <1>b, TypeInvByTask DEF vars, ItemPending
<1>20. QED
  BY <1>1, <1>2, <1>3, <1>4, <1>5, <1>6, <1>7, <1>8, <1>9, <1>10, <1>11, <1>12, <1>13,
     <1>14, <1>15, <1>16, <1>17, <1>18, <1>19 DEF Next, FlushStep

(* Every state the queue reaches, whatever its callers do and whichever    *)
(* database calls reject, is well formed: in particular the position a     *)
(* flush uses to look up its row stays within the reports there are.       *)
THEOREM TypeCorrect == Spec => []TypeOK
<1>1. TypeInv => TypeOK
  BY DEF TypeInv
<1>2. QED
  BY <1>1, TypeInit, TypeStep, PTL DEF Spec
-----------------------------------------------------------------------------
(***************************************************************************)
(* Until two calls get in each other's way at most one flush is under way, *)
(* and every step is taken by one flush f or by none.  The invariant       *)
(* DurableInv is restated for that f; each action then preserves its parts. *)
(***************************************************************************)
Alone(f) == \A g \in Flushers : g # f => flush[g].pc = "idle"

\* A step in which no flush but f takes part.
StepBy(f) ==
  \/ Enqueue \/ EnqueueSelect \/ EnqueueDelete \/ EnqueueInsert \/ EnqueueFault
  \/ FlushStart(f) \/ Deliver(f) \/ SendFails(f) \/ FlushStep(f) \/ FlushFault(f)
  \/ ClearMemory \/ ClearDisk \/ Crash \/ Restart
  \/ UNCHANGED vars

LEMMA Owner ==
  ASSUME TypeInv, OneFlush, mishap # "array", mishap' # "array", [Next]_vars
  PROVE  \E f \in Flushers : Alone(f) /\ StepBy(f)
<1>1. \A f, g \in Flushers : flush[f].pc # "idle" /\ flush[g].pc # "idle" => f = g
  BY DEF OneFlush
<1>2. ASSUME NEW f \in Flushers, FlushStart(f) PROVE Alone(f) /\ StepBy(f)
  <2>1. ~Flushing
    BY <1>2 DEF FlushStart
  <2>. QED
    BY <1>2, <2>1 DEF Flushing, Alone, StepBy
<1>3. ASSUME NEW f \in Flushers, Deliver(f) \/ SendFails(f) \/ FlushStep(f) \/ FlushFault(f)
      PROVE  Alone(f) /\ StepBy(f)
  <2>1. flush[f].pc # "idle"
    BY <1>3 DEF Deliver, SendFails, FlushStep, Acknowledge, FlushSelect, FlushDelete,
                BumpAttempts, CheckAttempts, FlushFault
  <2>. QED
    BY <1>1, <1>3, <2>1 DEF Alone, StepBy
<1>4. \E f \in Flushers : Alone(f)
  <2>1. CASE Flushing
    BY <1>1, <2>1 DEF Flushing, Alone
  <2>2. CASE ~Flushing
    BY <2>2, QueueAssumption DEF Flushing, Alone
  <2>. QED
    BY <2>1, <2>2
<1>5. CASE \/ Enqueue \/ EnqueueSelect \/ EnqueueDelete \/ EnqueueInsert \/ EnqueueFault
           \/ ClearMemory \/ ClearDisk \/ Crash \/ Restart \/ UNCHANGED vars
  BY <1>4, <1>5 DEF StepBy
<1>. QED
  BY <1>2, <1>3, <1>5 DEF Next

\* The others stay idle.
LEMMA AloneStep ==
  ASSUME TypeInv, NEW f \in Flushers, Alone(f), StepBy(f)
  PROVE  Alone(f)'
<1>1. flush \in [Flushers -> FlushTask]
  BY TypeInvByTask
<1>2. CASE flush' = flush
  BY <1>2 DEF Alone
<1>3. CASE \E task : flush' = [flush EXCEPT ![f] = task]
  BY <1>1, <1>3 DEF Alone
<1>4. CASE Crash
  BY <1>4 DEF Crash, Alone, IdleFlush
<1>5. CASE FlushStart(f) \/ Deliver(f) \/ SendFails(f) \/ FlushFault(f)
  BY <1>3, <1>5 DEF FlushStart, Deliver, SendFails, FlushFault
<1>6. CASE FlushStep(f)
  BY <1>3, <1>6 DEF FlushStep, Acknowledge, FlushSelect, FlushDelete, BumpAttempts, CheckAttempts
<1>7. CASE Enqueue \/ EnqueueSelect \/ EnqueueDelete \/ EnqueueInsert \/ EnqueueFault
  BY <1>2, <1>7 DEF Enqueue, EnqueueSelect, EnqueueDelete, EnqueueInsert, EnqueueFault
<1>8. CASE ClearMemory \/ ClearDisk \/ Restart \/ UNCHANGED vars
  BY <1>2, <1>8 DEF ClearMemory, ClearDisk, Restart, vars
<1>. QED
  BY <1>4, <1>5, <1>6, <1>7, <1>8 DEF StepBy

\* Durable for the reports younger than bound.
DurableAbove(bound) ==
  \A r \in accepted : r > bound => r \in disk \cup delivered \cup dropped

NumberedBy(f) ==
  /\ memory \cup disk \cup accepted \cup delivered \cup dropped \subseteq 1 .. issued
  /\ exposed <= issued
  /\ enq.pc # "idle" => up /\ enq.item = issued /\ issued \notin disk \cup accepted /\ issued # 0
  /\ enq.pc = "idle" => enq.item = None
  /\ ~up => memory = {} /\ flush[f].pc = "idle"
  /\ ~clearing

CoveredBy(f) ==
  /\ enq.pc = "delete" => enq.victim \in (delivered \cup dropped) \ memory
  /\ flush[f].pc = "delete" => flush[f].victim \in (delivered \cup dropped) \ memory
  /\ enq.pc = "idle" \/ enq.item \in memory =>
       /\ enq.pc = "select" =>
            \E s \in disk : s \notin memory /\ (flush[f].pc = "delete" => s # flush[f].victim)
       /\ flush[f].pc = "select" =>
            /\ \E s \in disk : s \notin memory /\ (enq.pc = "delete" => s # enq.victim)
            /\ enq.pc = "select" => \E r, s \in disk : r \notin memory /\ s \notin memory /\ r # s

InStepBy(f) ==
  /\ flush[f].pc = "idle" => flush[f].todo = {}
  /\ Left(flush[f]) \subseteq memory
  /\ \A m \in memory \ Left(flush[f]), t \in Left(flush[f]) : t < m
  /\ flush[f].pc = "acking" => Oldest(flush[f].todo) \in delivered

SurplusBy ==
  up => /\ \A s \in disk : s \notin memory => s \in delivered \cup dropped
        /\ \A s \in disk, m \in memory : s \notin memory => s < m
        /\ enq.pc # "idle" /\ enq.item \notin memory =>
             memory = {} /\ enq.item \in delivered \cup dropped

PartsBy(f) == NumberedBy(f) /\ SurplusBy /\ CoveredBy(f) /\ InStepBy(f) /\ MemoryBacked

InvBy(f) == PartsBy(f) /\ DurableAbove(exposed)

LEMMA InvByMeans ==
  ASSUME NEW f
  PROVE  InvBy(f) <=> /\ NumberedBy(f) /\ SurplusBy /\ CoveredBy(f) /\ InStepBy(f)
                      /\ MemoryBacked /\ DurableAbove(exposed)
BY DEF InvBy, PartsBy

LEMMA DurableInvBy ==
  ASSUME TypeInv, CopiesNumbered, NEW f \in Flushers, Alone(f), mishap = "none"
  PROVE  DurableInv <=> InvBy(f)
<1>a. \A g \in Flushers : g # f => /\ flush[g].pc = "idle" /\ flush[g].todo = {}
                                   /\ Left(flush[g]) = {}
  BY TypeInvByTask DEF Alone, TaskInv, Left
<1>1. Numbered /\ ~clearing <=> NumberedBy(f)
  BY <1>a DEF Numbered, NumberedBy, Flushing, Handled
<1>2. SurplusHandled <=> SurplusBy
  BY DEF SurplusHandled, SurplusBy, Surplus, InsertOvertaken, Handled
<1>3. RemovalsCovered <=> CoveredBy(f)
  <2>1. FlushVictims = IF flush[f].pc = "delete" THEN {flush[f].victim} ELSE {}
    BY <1>a DEF FlushVictims
  <2>. QED
    BY <1>a, <2>1 DEF RemovalsCovered, CoveredBy, Surplus, InsertOvertaken, Handled, EnqVictims
<1>4. CopyInStep <=> InStepBy(f)
  BY <1>a DEF CopyInStep, InStepBy
<1>5. Durable <=> DurableAbove(exposed)
  BY DEF Durable, DurableAbove, Safe, Handled
<1>6. OneFlush
  BY <1>a DEF OneFlush
<1>. QED
  BY <1>1, <1>2, <1>3, <1>4, <1>5, <1>6 DEF DurableInv, InvBy, PartsBy

LEMMA DurableInit ==
  ASSUME NEW f \in Flushers, Init
  PROVE  Alone(f) /\ InvBy(f)
<1>1. \A g \in Flushers : flush[g] = IdleFlush
  BY DEF Init
<1>2. \A g \in Flushers : flush[g].pc = "idle" /\ flush[g].todo = {}
  BY <1>1 DEF IdleFlush
<1>3. enq.pc = "idle" /\ enq.item = None
  BY DEF Init, IdleEnq
<1>4. Left(flush[f]) = {}
  BY <1>2 DEF Left
<1>5. NumberedBy(f) /\ SurplusBy /\ CoveredBy(f) /\ InStepBy(f)
  BY <1>2, <1>3, <1>4 DEF Init, NumberedBy, SurplusBy, CoveredBy, InStepBy
<1>6. QED
  BY <1>2, <1>5 DEF Init, Alone, InvBy, PartsBy, MemoryBacked, DurableAbove

\* What a flush sends, or gives up, next is the front of the array.
LEMMA CopyFront ==
  ASSUME NEW f \in Flushers, TypeInv, InStepBy(f),
         flush[f].pc # "idle", flush[f].pc \notin {"select", "delete"}
  PROVE  /\ Oldest(flush[f].todo) \in memory
         /\ Oldest(memory) = Oldest(flush[f].todo)
         /\ Left(flush[f]) = flush[f].todo
<1> DEFINE todo == flush[f].todo
           front == Oldest(todo)
<1>t. memory \in SUBSET Report /\ memory \subseteq Nat /\ todo \in SUBSET Report /\ todo # {}
  BY TypeInvByTask, QueueAssumption DEF TaskInv, FlushTask, Report
<1>1. Left(flush[f]) = todo
  BY DEF Left
<1>2. todo \subseteq memory /\ \A m \in memory \ todo, t \in todo : t < m
  BY <1>1 DEF InStepBy
<1>3. front \in todo /\ \A q \in todo : front <= q
  BY <1>t, OldestIsLeast
<1> HIDE DEF front, todo
<1>4. ASSUME NEW m \in memory PROVE front <= m /\ front \in Nat /\ m \in Nat
  <2>1. m \in todo \/ front < m
    BY <1>2, <1>3
  <2>2. QED
    BY <2>1, <1>2, <1>3, <1>t
<1>5. Oldest(memory) \in memory /\ Oldest(memory) <= front
  BY OldestIsLeast, <1>t, <1>2, <1>3
<1>6. front \in memory /\ Oldest(memory) = front
  BY <1>2, <1>3, <1>4, <1>5
<1>7. QED
  BY <1>1, <1>6 DEF front, todo

\* enqueue() pushes, and evicts only while no flush is under way.
LEMMA EnqueueKeeps ==
  ASSUME NEW f \in Flushers, TypeInv, Alone(f), PartsBy(f), DurableAbove(exposed'),
         exposed' \in {exposed, issued}, Enqueue, mishap' = "none"
  PROVE  InvBy(f)'
<1> USE DEF None
<1> DEFINE task == flush[f]
<1>t. /\ memory \in SUBSET Report /\ disk \in SUBSET Report
      /\ task \in FlushTask /\ task.todo \in SUBSET Report
      /\ issued \in Nat /\ exposed \in Nat
      /\ accepted \in SUBSET Report /\ delivered \in SUBSET Report /\ dropped \in SUBSET Report
  BY TypeInvByTask, QueueAssumption DEF TaskInv, FlushTask
<1>r. Report \subseteq Nat /\ None \notin Report
  BY QueueAssumption DEF Report
<1>o. ASSUME NEW S \in SUBSET Report, S # {}
      PROVE  Oldest(S) \in S /\ \A q \in S : Oldest(S) <= q
  BY <1>o, OldestIsLeast
<1>i. NumberedBy(f) /\ SurplusBy /\ CoveredBy(f) /\ InStepBy(f) /\ MemoryBacked
  BY DEF PartsBy
<1>q. ASSUME NumberedBy(f)', SurplusBy', CoveredBy(f)', InStepBy(f)', MemoryBacked',
             DurableAbove(exposed)'
      PROVE  InvBy(f)'
  BY <1>q DEF InvBy, PartsBy
<1> HIDE DEF task
<1> DEFINE pushed == memory \cup {issued + 1}
<1>1. /\ up' /\ up /\ enq.pc = "idle" /\ flush' = flush /\ disk' = disk
      /\ issued' = issued + 1 /\ enq'.item = issued + 1 /\ accepted' = accepted
      /\ delivered' = delivered /\ clearing' = clearing
  BY DEF Enqueue
<1>x. issued + 1 \in Report
  BY <1>t, QueueAssumption DEF Enqueue, Report
<1>2. disk \cup memory \cup accepted \cup delivered \cup dropped \subseteq 1 .. issued
      /\ memory \subseteq disk
  BY <1>i, <1>1, <1>t, <1>r DEF NumberedBy, MemoryBacked
<1>3. CASE Cardinality(pushed) > MaxSize
  <2>1. /\ task.pc = "idle" /\ memory' = Shift(pushed)
        /\ dropped' = dropped \cup {Oldest(pushed)} /\ enq'.pc = "select"
    BY <1>3 DEF Enqueue, Flushing, task
  <2>2. /\ memory # {} /\ pushed \in SUBSET Report /\ issued + 1 \notin memory
    <3>1. CASE memory = {}
      <4>1. Cardinality({issued + 1}) = 1
        BY FS_Singleton
      <4>2. QED
        BY <3>1, <4>1, <1>3, QueueAssumption
    <3>2. QED
      BY <3>1, <1>x, <1>t, <1>2
  <2>3. PICK o \in memory : o = Oldest(pushed) /\ \A m \in memory : o <= m
    BY <2>2, <1>o, <1>2, <1>t
  <2> HIDE DEF pushed
  <2>4. /\ memory' = (memory \ {o}) \cup {issued + 1} /\ dropped' = dropped \cup {o}
        /\ o \in disk /\ o # issued + 1 /\ o \in 1 .. issued
    BY <2>1, <2>2, <2>3, <1>2, <1>t DEF Shift, pushed
  <2>5. NumberedBy(f)'
    <3>1. /\ memory' \cup disk' \cup accepted' \cup delivered' \cup dropped' \subseteq 1 .. issued'
          /\ issued' \notin disk' \cup accepted' /\ issued' # 0
      <4>1. /\ 1 .. issued \subseteq 1 .. issued' /\ issued + 1 \in 1 .. issued'
            /\ issued' \notin 1 .. issued /\ issued' # 0
        BY <1>1, <1>t
      <4>2. memory' \subseteq memory \cup {issued + 1} /\ dropped' \subseteq dropped \cup memory
        BY <2>4
      <4>3. QED
        BY <1>1, <1>2, <4>1, <4>2
    <3>2. exposed' <= issued'
      BY <1>i, <1>1, <1>t DEF NumberedBy
    <3>3. QED
      BY <3>2, <1>i, <1>1, <2>1, <3>1 DEF NumberedBy
  <2>6. SurplusBy'
    <3>1. \A s \in disk : s \notin memory' => s = o \/ s \notin memory
      BY <1>2, <2>4
    <3>2. \A s \in disk : s <= issued /\ s \in Nat
      BY <1>2, <1>t
    <3>3. \A m \in memory' : m = issued + 1 \/ (m \in memory /\ m # o /\ o <= m)
      BY <2>3, <2>4, <1>t, <1>r
    <3>4. \A s \in disk, m \in memory' : s \notin memory' => s < m
      BY <3>1, <3>2, <3>3, <1>i, <1>1, <1>t, <1>r, <2>4 DEF SurplusBy
    <3>5. QED
      BY <1>i, <1>1, <2>4, <3>1, <3>4 DEF SurplusBy
  <2>7. CoveredBy(f)'
    BY <1>i, <1>1, <2>1, <2>4 DEF CoveredBy, task
  <2>8. InStepBy(f)'
    BY <1>i, <1>1, <2>1 DEF InStepBy, Left, task
  <2>9. MemoryBacked' /\ DurableAbove(exposed)'
    BY <1>i, <1>1, <1>2, <2>4 DEF MemoryBacked, DurableAbove
  <2>10. QED
    BY <1>q, <2>5, <2>6, <2>7, <2>8, <2>9
<1>4. CASE ~(Cardinality(pushed) > MaxSize)
  <2>1. memory' = pushed /\ dropped' = dropped /\ enq'.pc = "insert"
    BY <1>4 DEF Enqueue
  <2>2. NumberedBy(f)'
    <3>1. exposed' <= issued'
      BY <1>i, <1>1, <1>t DEF NumberedBy
    <3>. QED
      BY <3>1, <1>i, <1>1, <1>2, <2>1, <1>t DEF NumberedBy
  <2>3. SurplusBy'
    BY <1>i, <1>1, <1>2, <2>1, <1>t DEF SurplusBy
  <2>4. CoveredBy(f)'
    BY <1>i, <1>1, <1>2, <2>1, <1>t DEF CoveredBy
  <2>5. InStepBy(f)'
    <3>1. Left(flush[f])' = Left(flush[f]) /\ Left(flush[f]) \subseteq 1 .. issued
      BY <1>i, <1>1, <1>2 DEF InStepBy, Left
    <3>2. \A t \in Left(flush[f]) : t < issued + 1
      BY <3>1, <1>t
    <3>3. QED
      BY <1>i, <1>1, <2>1, <3>1, <3>2 DEF InStepBy
  <2>6. MemoryBacked' /\ DurableAbove(exposed)'
    BY <1>i, <1>1, <1>2, <2>1 DEF MemoryBacked, DurableAbove
  <2>7. QED
    BY <1>q, <2>2, <2>3, <2>4, <2>5, <2>6
<1>5. QED
  BY <1>3, <1>4

LEMMA DurableStep ==
  ASSUME NEW f \in Flushers, TypeInv, Alone(f), mishap = "none", mishap' = "none", InvBy(f), StepBy(f)
  PROVE  InvBy(f)'
<1> USE DEF None
<1> DEFINE task == flush[f]
<1>t. /\ memory \in SUBSET Report /\ disk \in SUBSET Report
      /\ task \in FlushTask /\ task.todo \in SUBSET Report
      /\ flush \in [Flushers -> FlushTask]
      /\ task.pc # "idle" => task.todo # {}
      /\ issued \in Nat
      /\ enq \in [pc : {"idle", "select", "delete", "insert"},
                  item : Report \cup {None}, victim : Report \cup {None}]
      /\ accepted \in SUBSET Report /\ delivered \in SUBSET Report /\ dropped \in SUBSET Report
  BY TypeInvByTask DEF TaskInv, FlushTask
<1>r. Report \subseteq Nat /\ None \notin Report
  BY QueueAssumption DEF Report
<1>o. ASSUME NEW S \in SUBSET Report, S # {}
      PROVE  Oldest(S) \in S /\ \A q \in S : Oldest(S) <= q
  BY <1>o, OldestIsLeast
<1>i. NumberedBy(f) /\ SurplusBy /\ CoveredBy(f) /\ InStepBy(f) /\ MemoryBacked
      /\ DurableAbove(exposed)
  BY DEF InvBy, PartsBy
<1>q. ASSUME NumberedBy(f)', SurplusBy', CoveredBy(f)', InStepBy(f)', MemoryBacked', DurableAbove(exposed)'
      PROVE  InvBy(f)'
  BY <1>q DEF InvBy, PartsBy
<1> HIDE DEF task
<1>l. task.pc # "idle" /\ task.pc \notin {"select", "delete"} =>
        /\ Oldest(task.todo) \in memory /\ Oldest(memory) = Oldest(task.todo)
        /\ Left(task) = task.todo
  BY <1>i, CopyFront DEF task
<1>s. ASSUME task.pc # "idle", task.pc \notin {"select", "delete"}, up,
             flush[f]'.pc = "select", flush[f]'.todo = task.todo, memory' = Shift(memory),
             delivered' \cup dropped' = delivered \cup dropped \cup {Oldest(task.todo)},
             UNCHANGED <<up, disk, issued, enq, clearing, accepted, exposed>>
      PROVE  InvBy(f)'
  <2> DEFINE x == Oldest(task.todo)
  <2>1. /\ x \in memory /\ Left(task) = task.todo /\ memory' = memory \ {x}
        /\ x \in Nat /\ \A m \in memory : x <= m
    BY <1>s, <1>l, <1>o, <1>t, <1>r DEF Shift
  <2>2. delivered' \cup dropped' = delivered \cup dropped \cup {x}
    BY <1>s
  <2>3. Left(flush[f])' = task.todo \ {x}
    BY <1>s DEF Left, Shift
  <2>x. ASSUME NEW m \in memory' PROVE x < m /\ m \in Nat
    <3>1. m \in memory /\ m # x
      BY <2>1
    <3>2. x <= m /\ m \in Nat /\ x \in Nat
      BY <3>1, <2>1, <1>t, <1>r
    <3> HIDE DEF x
    <3>. QED
      BY <3>1, <3>2
  <2>i. enq.pc = "idle" => x \in disk
    BY <2>1, <1>i DEF MemoryBacked, NumberedBy
  <2>j. enq.pc # "idle" => x \in disk \/ x = enq.item
    BY <2>1, <1>i DEF MemoryBacked
  <2> HIDE DEF x
  <2>4. NumberedBy(f)'
    <3>1. memory' \cup disk' \cup accepted' \cup delivered' \cup dropped' \subseteq 1 .. issued'
      BY <1>i, <1>s, <2>1, <2>2 DEF NumberedBy
    <3>2. QED
      BY <1>i, <1>s, <3>1 DEF NumberedBy
  <2>5. SurplusBy'
    <3>1. \A s \in disk : s \notin memory' => s = x \/ s \notin memory
      BY <2>1
    <3>2. \A s \in disk : s \notin memory' => s \in delivered' \cup dropped'
      BY <1>i, <1>s, <2>2, <3>1 DEF SurplusBy
    <3>3. \A s \in disk, m \in memory' : s \notin memory' => s < m
      BY <1>i, <1>s, <2>1, <2>x, <3>1 DEF SurplusBy
    <3>4. ASSUME enq.pc # "idle", enq.item \notin memory'
          PROVE  memory' = {} /\ enq.item \in delivered' \cup dropped'
      <4>1. CASE enq.item \in memory
        <5>1. enq.item = x
          BY <2>1, <3>4, <4>1
        <5>2. memory \subseteq 1 .. issued /\ x = issued
          BY <1>i, <3>4, <5>1 DEF NumberedBy
        <5>3. \A m \in memory' : m <= x
          BY <5>2, <2>1, <1>t
        <5>4. memory' = {}
          BY <5>3, <2>x, <2>1
        <5>5. QED
          BY <5>1, <5>4, <2>2
      <4>2. CASE enq.item \notin memory
        BY <1>i, <1>s, <2>1, <2>2, <3>4, <4>2 DEF SurplusBy
      <4>3. QED
        BY <4>1, <4>2
    <3>5. QED
      BY <1>s, <3>2, <3>3, <3>4 DEF SurplusBy
  <2>6. CoveredBy(f)'
    <3>1. enq.pc = "delete" => enq.victim \in (delivered' \cup dropped') \ memory' /\ enq.victim # x
      BY <1>i, <2>1, <2>2 DEF CoveredBy
    <3>2. CASE enq.pc = "idle" \/ enq.item \in memory'
      <4>1. x \in disk /\ x \notin memory'
        BY <2>1, <2>i, <2>j, <3>2
      <4>2. enq.pc = "select" => \E s \in disk : s \notin memory
        BY <1>i, <1>s, <2>1, <3>2 DEF CoveredBy, task
      <4>3. enq.pc = "select" => \E s \in disk : s \notin memory' /\ s # x
        BY <4>2, <2>1
      <4>4. QED
        BY <1>s, <3>1, <4>1, <4>3 DEF CoveredBy
    <3>3. CASE ~(enq.pc = "idle" \/ enq.item \in memory')
      BY <1>s, <3>1, <3>3 DEF CoveredBy
    <3>4. QED
      BY <3>2, <3>3
  <2>7. InStepBy(f)'
    BY <1>i, <1>s, <2>1, <2>3 DEF InStepBy, task
  <2>8. MemoryBacked' /\ DurableAbove(exposed)'
    BY <1>i, <1>s, <2>1, <2>2 DEF MemoryBacked, DurableAbove
  <2>9. QED
    BY <1>q, <2>4, <2>5, <2>6, <2>7, <2>8
<1>a. ASSUME task.pc \in {"select", "delete"}
      PROVE  /\ Advanced(task).pc \in {"idle", "send"}
             /\ Advanced(task).todo = Left(task)
             /\ Advanced(task).pc = "idle" => Left(task) = {}
  <2>1. Left(task) = Shift(task.todo)
    BY <1>a DEF Left
  <2>2. CASE Shift(task.todo) = {}
    BY <2>1, <2>2 DEF Advanced, IdleFlush
  <2>3. CASE Shift(task.todo) # {}
    BY <2>1, <2>3 DEF Advanced, IdleFlush
  <2>4. QED
    BY <2>2, <2>3
<1>1. CASE Enqueue
  <2>1. exposed' = exposed
    BY <1>1 DEF Enqueue
  <2>. QED
    BY <1>1, <2>1, EnqueueKeeps DEF InvBy
<1>2. CASE EnqueueSelect
  <2>1. /\ enq.pc = "select" /\ up /\ up' = up /\ enq'.item = enq.item /\ enq'.victim = Oldest(disk)
        /\ enq'.pc = (IF disk = {} THEN "insert" ELSE "delete")
        /\ UNCHANGED <<memory, disk, issued, flush, clearing, accepted, dropped, delivered, exposed>>
    BY <1>2, <1>i, <1>t DEF EnqueueSelect, NumberedBy
  <2>2. disk # {} => Oldest(disk) \in (delivered \cup dropped) \ memory
    <3>1. ASSUME disk # {} PROVE Oldest(disk) \notin memory
      <4>1. CASE enq.item \in memory
        <5>1. PICK s \in disk : s \notin memory
          BY <1>i, <2>1, <4>1 DEF CoveredBy
        <5>2. ASSUME Oldest(disk) \in memory PROVE FALSE
          <6>1. s < Oldest(disk)
            BY <5>1, <5>2, <1>i, <2>1 DEF SurplusBy
          <6>2. Oldest(disk) <= s /\ Oldest(disk) \in Nat /\ s \in Nat
            BY <5>1, <1>o, <1>r, <1>t, <3>1
          <6>3. QED
            BY <6>1, <6>2
        <5>3. QED
          BY <5>2
      <4>2. CASE enq.item \notin memory
        BY <1>i, <2>1, <4>2 DEF SurplusBy
      <4>3. QED
        BY <4>1, <4>2
    <3>2. QED
      BY <3>1, <1>i, <1>o, <1>t, <2>1 DEF SurplusBy
  <2>3. NumberedBy(f)'
    BY <1>i, <2>1 DEF NumberedBy
  <2>4. SurplusBy'
    BY <1>i, <2>1 DEF SurplusBy
  <2>5. CoveredBy(f)'
    BY <1>i, <2>1, <2>2 DEF CoveredBy
  <2>6. InStepBy(f)' /\ MemoryBacked' /\ DurableAbove(exposed)'
    BY <1>i, <2>1 DEF InStepBy, Left, MemoryBacked, DurableAbove
  <2>7. QED
    BY <1>q, <2>3, <2>4, <2>5, <2>6
<1>3. CASE EnqueueDelete
  <2>1. /\ enq.pc = "delete" /\ up /\ up' = up /\ enq'.item = enq.item /\ enq'.pc = "insert"
        /\ disk' = disk \ {enq.victim}
        /\ UNCHANGED <<memory, issued, flush, clearing, accepted, dropped, delivered, exposed>>
    BY <1>3, <1>i, <1>t DEF EnqueueDelete, NumberedBy
  <2>2. enq.victim \in (delivered \cup dropped) \ memory
    BY <1>i, <2>1 DEF CoveredBy
  <2>3. NumberedBy(f)'
    BY <1>i, <2>1 DEF NumberedBy
  <2>4. SurplusBy'
    BY <1>i, <2>1 DEF SurplusBy
  <2>5. CoveredBy(f)'
    BY <1>i, <2>1, <2>2 DEF CoveredBy
  <2>6. InStepBy(f)'
    BY <1>i, <2>1 DEF InStepBy, Left
  <2>7. MemoryBacked' /\ DurableAbove(exposed)'
    BY <1>i, <2>1, <2>2 DEF MemoryBacked, DurableAbove
  <2>8. QED
    BY <1>q, <2>3, <2>4, <2>5, <2>6, <2>7
<1>4. CASE EnqueueInsert
  <2>1. /\ enq.pc = "insert" /\ up /\ up' = up /\ enq'.item = None /\ enq'.pc = "idle"
        /\ disk' = disk \cup {enq.item} /\ accepted' = accepted \cup {enq.item}
        /\ enq.item = issued /\ issued # 0
        /\ UNCHANGED <<memory, issued, flush, clearing, dropped, delivered, exposed>>
    BY <1>4, <1>i, <1>t DEF EnqueueInsert, NumberedBy, IdleEnq
  <2>2. enq.item \notin memory => memory = {} /\ enq.item \in delivered \cup dropped
    BY <1>i, <2>1 DEF SurplusBy
  <2>3. NumberedBy(f)'
    BY <1>i, <2>1, <1>t DEF NumberedBy
  <2>4. SurplusBy'
    BY <1>i, <2>1, <2>2 DEF SurplusBy
  <2>5. CoveredBy(f)'
    <3>1. CASE enq.item \in memory
      BY <1>i, <2>1, <3>1 DEF CoveredBy
    <3>2. CASE enq.item \notin memory
      BY <1>i, <2>1, <2>2, <3>2 DEF CoveredBy
    <3>3. QED
      BY <3>1, <3>2
  <2>6. InStepBy(f)'
    BY <1>i, <2>1 DEF InStepBy, Left
  <2>7. MemoryBacked' /\ DurableAbove(exposed)'
    BY <1>i, <2>1 DEF MemoryBacked, DurableAbove
  <2>8. QED
    BY <1>q, <2>3, <2>4, <2>5, <2>6, <2>7
<1>5. CASE FlushStart(f)
  <2>1. /\ task.pc = "idle" /\ up /\ flush[f]'.pc = "send" /\ flush[f]'.todo = memory
        /\ UNCHANGED <<up, memory, disk, issued, enq, clearing, accepted, dropped, delivered, exposed>>
    BY <1>5, <1>t DEF FlushStart, IdleFlush, task
  <2>2. NumberedBy(f)' /\ SurplusBy' /\ CoveredBy(f)' /\ MemoryBacked' /\ DurableAbove(exposed)'
    BY <1>i, <2>1 DEF NumberedBy, SurplusBy, CoveredBy, MemoryBacked, DurableAbove
  <2>3. InStepBy(f)'
    BY <2>1 DEF InStepBy, Left
  <2>4. QED
    BY <1>q, <2>2, <2>3
<1>6. CASE Deliver(f)
  <2>1. /\ task.pc = "send" /\ flush[f]'.pc = "acking" /\ flush[f]'.todo = task.todo
        /\ delivered' = delivered \cup {Oldest(task.todo)}
        /\ UNCHANGED <<up, memory, disk, issued, enq, clearing, accepted, dropped, exposed>>
    BY <1>6, <1>t DEF Deliver, task
  <2>2. Oldest(task.todo) \in task.todo /\ Left(task) = task.todo
    BY <1>o, <1>t, <2>1 DEF Left
  <2>3. Oldest(task.todo) \in memory
    BY <1>i, <2>2 DEF InStepBy, task
  <2>4. NumberedBy(f)'
    BY <1>i, <2>1, <2>3 DEF NumberedBy, task
  <2>5. SurplusBy' /\ CoveredBy(f)'
    BY <1>i, <2>1 DEF SurplusBy, CoveredBy, task
  <2>6. InStepBy(f)' /\ MemoryBacked' /\ DurableAbove(exposed)'
    BY <1>i, <2>1, <2>2 DEF InStepBy, Left, MemoryBacked, DurableAbove, task
  <2>7. QED
    BY <1>q, <2>4, <2>5, <2>6
<1>7. CASE Acknowledge(f)
  <2>1. /\ task.pc = "acking" /\ flush[f]'.pc = "select" /\ flush[f]'.todo = task.todo
        /\ memory' = Shift(memory)
        /\ UNCHANGED <<up, disk, issued, enq, clearing, accepted, dropped, delivered, exposed>>
    BY <1>7, <1>t DEF Acknowledge, task
  <2>2. up /\ Oldest(task.todo) \in delivered
    BY <1>i, <2>1 DEF NumberedBy, InStepBy, task
  <2>3. QED
    BY <1>s, <2>1, <2>2
<1>8. CASE SendFails(f)
  <2>1. /\ task.pc \in {"send", "acking"} /\ flush[f]'.pc = "bump" /\ flush[f]'.todo = task.todo
        /\ UNCHANGED <<up, memory, disk, issued, enq, clearing, accepted, dropped, delivered, exposed>>
    BY <1>8, <1>t DEF SendFails, task
  <2>2. NumberedBy(f)' /\ SurplusBy' /\ CoveredBy(f)' /\ MemoryBacked' /\ DurableAbove(exposed)'
    BY <1>i, <2>1 DEF NumberedBy, SurplusBy, CoveredBy, MemoryBacked, DurableAbove, task
  <2>3. InStepBy(f)'
    BY <1>i, <2>1 DEF InStepBy, Left, task
  <2>4. QED
    BY <1>q, <2>2, <2>3
<1>9. CASE FlushSelect(f)
  <2>1. /\ task.pc = "select" /\ up
        /\ UNCHANGED <<up, memory, disk, issued, enq, clearing, accepted, dropped, delivered, exposed>>
    BY <1>9, <1>i DEF FlushSelect, NumberedBy, task
  <2>2. MemoryBacked' /\ DurableAbove(exposed)' /\ NumberedBy(f)' /\ SurplusBy'
    BY <1>i, <2>1 DEF MemoryBacked, DurableAbove, NumberedBy, SurplusBy
  <2>3. CASE disk = {}
    <3>1. flush[f]' = Advanced(task)
      BY <1>9, <1>t, <2>3 DEF FlushSelect, task
    <3>2. CoveredBy(f)'
      BY <1>i, <1>a, <2>1, <2>3, <3>1 DEF CoveredBy, task
    <3>3. InStepBy(f)'
      BY <1>i, <1>a, <2>1, <3>1 DEF InStepBy, Left, task
    <3>4. QED
      BY <1>q, <2>2, <3>2, <3>3
  <2>4. CASE disk # {}
    <3>1. /\ flush[f]'.pc = "delete" /\ flush[f]'.todo = task.todo
          /\ flush[f]'.victim = Oldest(disk)
      BY <1>9, <1>t, <2>4 DEF FlushSelect, task
    <3>2. Oldest(disk) \in (delivered \cup dropped) \ memory
      <4>1. ASSUME Oldest(disk) \in memory PROVE FALSE
        <5>1. CASE enq.pc = "idle" \/ enq.item \in memory
          <6>1. PICK s \in disk : s \notin memory
            BY <1>i, <2>1, <5>1 DEF CoveredBy, task
          <6>2. s < Oldest(disk)
            BY <4>1, <6>1, <1>i, <2>1 DEF SurplusBy
          <6>3. Oldest(disk) <= s /\ Oldest(disk) \in Nat /\ s \in Nat
            BY <6>1, <1>o, <1>r, <1>t, <2>4
          <6>4. QED
            BY <6>2, <6>3
        <5>2. CASE ~(enq.pc = "idle" \/ enq.item \in memory)
          BY <1>i, <2>1, <4>1, <5>2 DEF SurplusBy
        <5>3. QED
          BY <5>1, <5>2
      <4>2. QED
        BY <4>1, <1>i, <1>o, <1>t, <2>1, <2>4 DEF SurplusBy
    <3>3. CoveredBy(f)'
      BY <1>i, <2>1, <3>1, <3>2 DEF CoveredBy, task
    <3>4. InStepBy(f)'
      BY <1>i, <2>1, <3>1 DEF InStepBy, Left, task
    <3>5. QED
      BY <1>q, <2>2, <3>3, <3>4
  <2>5. QED
    BY <2>3, <2>4
<1>10. CASE FlushDelete(f)
  <2>1. /\ task.pc = "delete" /\ up /\ flush[f]' = Advanced(task) /\ disk' = disk \ {task.victim}
        /\ UNCHANGED <<up, memory, issued, enq, clearing, accepted, dropped, delivered, exposed>>
    BY <1>10, <1>i, <1>t DEF FlushDelete, NumberedBy, task
  <2>2. task.victim \in (delivered \cup dropped) \ memory
    BY <1>i, <2>1 DEF CoveredBy, task
  <2>3. NumberedBy(f)' /\ SurplusBy'
    BY <1>i, <2>1 DEF NumberedBy, SurplusBy, task
  <2>4. CoveredBy(f)'
    BY <1>a, <1>i, <2>1 DEF CoveredBy, task
  <2>5. InStepBy(f)'
    BY <1>a, <1>i, <2>1 DEF InStepBy, Left, task
  <2>6. MemoryBacked' /\ DurableAbove(exposed)'
    BY <1>i, <2>1, <2>2 DEF MemoryBacked, DurableAbove
  <2>7. QED
    BY <1>q, <2>3, <2>4, <2>5, <2>6
<1>11. CASE BumpAttempts(f)
  <2>1. /\ task.pc = "bump" /\ up
        /\ \/ flush[f]'.pc = "check" /\ flush[f]'.todo = task.todo
           \/ flush[f]'.pc = "idle" /\ flush[f]'.todo = {}
        /\ UNCHANGED <<up, memory, disk, issued, enq, clearing, accepted, dropped, delivered, exposed>>
    BY <1>11, <1>i, <1>t DEF BumpAttempts, NumberedBy, IdleFlush, task
  <2>2. NumberedBy(f)' /\ SurplusBy' /\ CoveredBy(f)' /\ MemoryBacked' /\ DurableAbove(exposed)'
    BY <1>i, <2>1 DEF NumberedBy, SurplusBy, CoveredBy, MemoryBacked, DurableAbove, task
  <2>3. InStepBy(f)'
    BY <1>i, <2>1 DEF InStepBy, Left, task
  <2>4. QED
    BY <1>q, <2>2, <2>3
<1>12. CASE CheckAttempts(f)
  <2> DEFINE row == RowAt(task.done)
             exhausted == row # None /\ attempts[row] >= MaxRetries
  <2>1. /\ task.pc = "check" /\ up
        /\ UNCHANGED <<up, disk, issued, enq, clearing, accepted, delivered, exposed>>
    BY <1>12, <1>i DEF CheckAttempts, NumberedBy, task
  <2>2. CASE exhausted
    <3>1. /\ flush[f]'.pc = "select" /\ flush[f]'.todo = task.todo
          /\ memory' = Shift(memory) /\ dropped' = dropped \cup ({Oldest(memory)} \ {None})
      BY <1>12, <1>t, <2>2 DEF CheckAttempts, task
    <3>2. Oldest(memory) = Oldest(task.todo) /\ Oldest(memory) # None
      BY <1>l, <1>r, <1>t, <2>1
    <3>3. QED
      BY <1>s, <2>1, <3>1, <3>2
  <2>3. CASE ~exhausted
    <3>1. /\ flush[f]'.pc = "idle" /\ flush[f]'.todo = {}
          /\ memory' = memory /\ dropped' = dropped
      BY <1>12, <1>t, <2>3 DEF CheckAttempts, IdleFlush, task
    <3>2. NumberedBy(f)' /\ SurplusBy' /\ CoveredBy(f)' /\ MemoryBacked' /\ DurableAbove(exposed)'
      BY <1>i, <2>1, <3>1 DEF NumberedBy, SurplusBy, CoveredBy, MemoryBacked, DurableAbove, task
    <3>3. InStepBy(f)'
      BY <1>i, <2>1, <3>1 DEF InStepBy, Left, task
    <3>4. QED
      BY <1>q, <3>2, <3>3
  <2>4. QED
    BY <2>2, <2>3
<1>13. CASE Crash
  <2>1. /\ up /\ ~up' /\ memory' = {} /\ enq'.pc = "idle" /\ enq'.item = None
        /\ flush[f]'.pc = "idle" /\ flush[f]'.todo = {} /\ ~clearing'
        /\ UNCHANGED <<disk, issued, accepted, dropped, delivered, exposed>>
    BY <1>13, <1>t DEF Crash, IdleEnq, IdleFlush
  <2>2. NumberedBy(f)' /\ SurplusBy' /\ CoveredBy(f)' /\ MemoryBacked' /\ DurableAbove(exposed)'
    BY <1>i, <2>1 DEF NumberedBy, SurplusBy, CoveredBy, MemoryBacked, DurableAbove
  <2>3. InStepBy(f)'
    BY <2>1 DEF InStepBy, Left
  <2>4. QED
    BY <1>q, <2>2, <2>3
<1>14. CASE Restart
  <2>1. /\ ~up /\ up' /\ memory' = disk
        /\ UNCHANGED <<disk, issued, enq, flush, clearing, accepted, dropped, delivered, exposed>>
    BY <1>14 DEF Restart
  <2>2. task.pc = "idle" /\ enq.pc = "idle" /\ task.todo = {}
    BY <1>i, <2>1 DEF NumberedBy, InStepBy, task
  <2>3. NumberedBy(f)' /\ SurplusBy' /\ CoveredBy(f)' /\ MemoryBacked' /\ DurableAbove(exposed)'
    BY <1>i, <2>1, <2>2 DEF NumberedBy, SurplusBy, CoveredBy, MemoryBacked, DurableAbove, task
  <2>4. InStepBy(f)'
    BY <2>1, <2>2 DEF InStepBy, Left, task
  <2>5. QED
    BY <1>q, <2>3, <2>4
<1>15. CASE UNCHANGED vars
  <2>1. /\ NumberedBy(f)' /\ SurplusBy' /\ CoveredBy(f)' /\ InStepBy(f)' /\ MemoryBacked'
        /\ DurableAbove(exposed)'
    BY <1>15, <1>i DEF vars, NumberedBy, SurplusBy, CoveredBy, InStepBy, Left, MemoryBacked,
                       DurableAbove
  <2>. QED
    BY <1>q, <2>1
<1>16. ~EnqueueFault /\ ~FlushFault(f) /\ ~ClearMemory /\ ~ClearDisk
  BY <1>i DEF EnqueueFault, FlushFault, ClearMemory, ClearDisk, Worse, NumberedBy
<1>. QED
  BY <1>1, <1>2, <1>3, <1>4, <1>5, <1>6, <1>7, <1>8, <1>9, <1>10, <1>11, <1>12, <1>13,
     <1>14, <1>15, <1>16 DEF StepBy, FlushStep


-----------------------------------------------------------------------------
\* A step that begins beside a mishap and ends without one: the process dies,
\* or a report finds no call running and the array and the rows agreeing.
LEMMA MishapOver ==
  ASSUME NEW f \in Flushers, TypeInv, Numbered, mishap # "none", mishap' = "none", StepBy(f)
  PROVE  Alone(f)' /\ InvBy(f)' /\ exposed' = issued
<1>t. /\ flush \in [Flushers -> FlushTask]
      /\ \A g \in Flushers : flush[g].pc = "idle" => flush[g].todo = {}
      /\ enq.pc \in {"idle", "select", "delete", "insert"}
      /\ issued \in Nat
  BY TypeInvByTask DEF TaskInv
<1>n. /\ memory \cup disk \cup accepted \cup delivered \cup dropped \subseteq 1 .. issued
      /\ enq.pc = "idle" => enq.item = None
      /\ up
  BY DEF Numbered, Handled
<1>1. CASE Enqueue
  <2>1. /\ enq.pc = "idle" /\ ~clearing /\ memory = disk /\ exposed' = issued
        /\ \A g \in Flushers : flush[g].pc = "idle"
    BY <1>1 DEF Enqueue, Settled, Flushing
  <2>2. Left(flush[f]) = {} /\ flush[f].todo = {}
    BY <1>t, <2>1 DEF Left
  <2>3. Alone(f) /\ NumberedBy(f)
    BY <1>n, <2>1 DEF Alone, NumberedBy, Numbered
  <2>4. SurplusBy /\ CoveredBy(f) /\ InStepBy(f) /\ MemoryBacked
    BY <2>1, <2>2 DEF SurplusBy, CoveredBy, InStepBy, MemoryBacked
  <2>5. DurableAbove(exposed')
    BY <1>n, <1>t, <2>1 DEF DurableAbove
  <2>6. Alone(f)'
    BY <1>1, <2>3 DEF Alone, Enqueue
  <2>. QED
    BY <1>1, <2>1, <2>3, <2>4, <2>5, <2>6, EnqueueKeeps DEF PartsBy
<1>2. CASE Crash
  <2>1. /\ up /\ ~up' /\ memory' = {} /\ enq'.pc = "idle" /\ enq'.item = None /\ ~clearing'
        /\ \A g \in Flushers : flush'[g].pc = "idle" /\ flush'[g].todo = {}
        /\ exposed' = issued
        /\ UNCHANGED <<disk, issued, accepted, dropped, delivered>>
    BY <1>2 DEF Crash, IdleEnq, IdleFlush
  <2>2. Alone(f)' /\ NumberedBy(f)'
    BY <1>n, <1>t, <2>1 DEF Alone, NumberedBy
  <2>3. SurplusBy' /\ CoveredBy(f)' /\ MemoryBacked'
    BY <2>1 DEF SurplusBy, CoveredBy, MemoryBacked
  <2>4. InStepBy(f)'
    BY <2>1 DEF InStepBy, Left
  <2>5. DurableAbove(exposed)'
    BY <1>n, <1>t, <2>1 DEF DurableAbove
  <2>. QED
    BY <2>1, <2>2, <2>3, <2>4, <2>5 DEF InvBy, PartsBy
<1>3. ~Restart
  BY <1>n DEF Restart
<1>4. CASE \/ EnqueueSelect \/ EnqueueDelete \/ EnqueueInsert \/ ClearDisk
           \/ Deliver(f) \/ SendFails(f) \/ FlushStep(f) \/ UNCHANGED vars
  BY <1>4 DEF EnqueueSelect, EnqueueDelete, EnqueueInsert, ClearDisk, Deliver, SendFails,
              FlushStep, Acknowledge, FlushSelect, FlushDelete, BumpAttempts, CheckAttempts, vars
<1>5. ~(EnqueueFault \/ FlushFault(f) \/ ClearMemory \/ FlushStart(f))
  BY DEF EnqueueFault, FlushFault, ClearMemory, FlushStart, Worse
<1>. QED
  BY <1>1, <1>2, <1>3, <1>4, <1>5 DEF StepBy

\* The numbering holds whatever happens.
LEMMA NumberedStep ==
  ASSUME TypeInv, Numbered, CopiesNumbered, [Next]_vars
  PROVE  Numbered' /\ CopiesNumbered'
<1> USE DEF None
<1>t. /\ memory \in SUBSET Report /\ disk \in SUBSET Report
      /\ flush \in [Flushers -> FlushTask] /\ issued \in Nat /\ exposed \in Nat
      /\ enq \in [pc : {"idle", "select", "delete", "insert"},
                  item : Report \cup {None}, victim : Report \cup {None}]
      /\ \A f \in Flushers : flush[f].pc # "idle" => flush[f].todo # {}
  BY TypeInvByTask, QueueAssumption DEF TaskInv
<1>c. ASSUME NEW f \in Flushers
      PROVE  flush[f] \in FlushTask /\ flush[f].todo \in SUBSET Report /\ flush[f].todo \subseteq 1 .. issued
  BY <1>t DEF FlushTask, CopiesNumbered
<1>o. \A S \in SUBSET Report : /\ S # {} => Oldest(S) \in S
                               /\ Oldest(S) = None \/ Oldest(S) \in S
                               /\ Shift(S) \subseteq S
  BY OldestIsLeast DEF Shift
<1>n. /\ memory \subseteq 1 .. issued /\ disk \subseteq 1 .. issued /\ accepted \subseteq 1 .. issued
      /\ delivered \subseteq 1 .. issued /\ dropped \subseteq 1 .. issued
      /\ exposed <= issued
      /\ enq.pc # "idle" => up /\ enq.item = issued /\ issued \notin disk \cup accepted /\ issued # 0
      /\ enq.pc = "idle" => enq.item = None
      /\ ~up => memory = {} /\ ~clearing /\ mishap = "none"
      /\ ~up => \A f \in Flushers : flush[f].pc = "idle"
  BY DEF Numbered, Handled, Flushing
<1>g. ASSUME /\ memory' \subseteq 1 .. issued' /\ disk' \subseteq 1 .. issued'
             /\ accepted' \subseteq 1 .. issued'
             /\ delivered' \subseteq 1 .. issued' /\ dropped' \subseteq 1 .. issued'
             /\ exposed' <= issued',
             enq'.pc # "idle" => up' /\ enq'.item = issued' /\ issued' \notin disk' \cup accepted' /\ issued' # 0,
             enq'.pc = "idle" => enq'.item = None,
             ~up' => memory' = {} /\ ~clearing' /\ mishap' = "none",
             ~up' => \A f \in Flushers : flush'[f].pc = "idle",
             \A f \in Flushers : flush'[f].todo \subseteq 1 .. issued'
      PROVE  Numbered' /\ CopiesNumbered'
  BY <1>g DEF Numbered, CopiesNumbered, Handled, Flushing
\* Steps of a flush: it keeps to its copy, and what it handles was numbered.
<1>f. ASSUME NEW f \in Flushers, NEW next, flush' = [flush EXCEPT ![f] = next],
             next.todo \subseteq 1 .. issued, up,
             memory' \subseteq memory, disk' \subseteq disk,
             delivered' \subseteq delivered \cup (1 .. issued),
             dropped' \subseteq dropped \cup (1 .. issued),
             UNCHANGED <<up, issued, enq, accepted, exposed>>
      PROVE  Numbered' /\ CopiesNumbered'
  <2>1. \A g \in Flushers : flush'[g].todo \subseteq 1 .. issued
    <3>1. ASSUME NEW g \in Flushers PROVE flush'[g].todo \subseteq 1 .. issued
      <4>1. flush'[g] = IF g = f THEN next ELSE flush[g]
        BY <1>f, <1>t
      <4>. QED
        BY <4>1, <1>c, <1>f
    <3>. QED
      BY <3>1
  <2>2. /\ memory' \subseteq 1 .. issued' /\ disk' \subseteq 1 .. issued'
        /\ accepted' \subseteq 1 .. issued'
        /\ delivered' \subseteq 1 .. issued' /\ dropped' \subseteq 1 .. issued'
        /\ exposed' <= issued'
    BY <1>f, <1>n
  <2>3. /\ enq'.pc # "idle" => up' /\ enq'.item = issued' /\ issued' \notin disk' \cup accepted' /\ issued' # 0
        /\ enq'.pc = "idle" => enq'.item = None
    BY <1>f, <1>n
  <2>. QED
    BY <1>f, <1>g, <2>1, <2>2, <2>3
<1>r. ASSUME NEW f \in Flushers, flush[f].pc # "idle" PROVE up
  BY <1>n, <1>r
<1>e. Oldest(memory) \in (1 .. issued) \cup {None}
  BY <1>n, <1>o, <1>t
<1>1. CASE Enqueue
  <2> DEFINE r == issued + 1
             pushed == memory \cup {r}
  <2>1. /\ issued' = r /\ up /\ up' = up /\ disk' = disk /\ accepted' = accepted
        /\ delivered' = delivered /\ flush' = flush /\ enq'.item = r /\ enq'.pc # "idle"
        /\ exposed' \in {exposed, issued}
    BY <1>1 DEF Enqueue
  <2>2. 1 .. issued \subseteq 1 .. r /\ r \in 1 .. r /\ r \notin 1 .. issued /\ r # 0
    BY <1>t
  <2>3. pushed \in SUBSET Report /\ pushed \subseteq 1 .. r /\ pushed # {}
    <3>1. r \in Report
      BY <1>1, <1>t, QueueAssumption DEF Enqueue, Report
    <3>. QED
      BY <3>1, <1>n, <1>t, <2>2
  <2>4. memory' \subseteq 1 .. r /\ dropped' \subseteq 1 .. r
    <3>1. memory' \subseteq pushed /\ dropped' \subseteq dropped \cup pushed
      BY <1>1, <1>o, <2>3 DEF Enqueue
    <3>. QED
      BY <3>1, <1>n, <2>2, <2>3
  <2>5. exposed' <= issued' /\ issued' \notin disk' \cup accepted'
    BY <1>n, <1>t, <2>1, <2>2
  <2> HIDE DEF r
  <2>6. \A f \in Flushers : flush'[f].todo \subseteq 1 .. r
    BY <1>c, <2>1, <2>2
  <2>. QED
    BY <1>g, <1>n, <2>1, <2>2, <2>4, <2>5, <2>6
<1>2. CASE EnqueueSelect \/ EnqueueDelete
  <2>1. /\ enq.pc # "idle" /\ enq'.pc # "idle" /\ enq'.item = enq.item /\ disk' \subseteq disk
        /\ UNCHANGED <<up, memory, issued, flush, clearing, accepted, dropped, delivered, mishap, exposed>>
    BY <1>2, <1>t DEF EnqueueSelect, EnqueueDelete
  <2>. QED
    BY <1>c, <1>g, <1>n, <2>1
<1>3. CASE EnqueueInsert \/ EnqueueFault
  <2>1. /\ enq.pc # "idle" /\ enq'.pc = "idle" /\ enq'.item = None
        /\ disk' \subseteq disk \cup {enq.item} /\ accepted' \subseteq accepted \cup {enq.item}
        /\ UNCHANGED <<up, memory, issued, flush, clearing, dropped, delivered, exposed>>
    BY <1>3 DEF EnqueueInsert, EnqueueFault, IdleEnq
  <2>2. enq.item \in 1 .. issued /\ up
    BY <1>n, <1>t, <2>1
  <2>. QED
    BY <1>c, <1>g, <1>n, <2>1, <2>2
<1>4. ASSUME NEW f \in Flushers, FlushStart(f) PROVE Numbered' /\ CopiesNumbered'
  <2> DEFINE next == [IdleFlush EXCEPT !.pc = "send", !.todo = memory]
  <2>1. next.todo = memory
    BY DEF IdleFlush
  <2>2. /\ flush' = [flush EXCEPT ![f] = next] /\ up
        /\ UNCHANGED <<up, memory, disk, issued, enq, accepted, dropped, delivered, exposed>>
    BY <1>4 DEF FlushStart
  <2> HIDE DEF next
  <2>. QED
    BY <1>f, <1>n, <2>1, <2>2
<1>5. ASSUME NEW f \in Flushers, Deliver(f) PROVE Numbered' /\ CopiesNumbered'
  <2> DEFINE next == [flush[f] EXCEPT !.pc = "acking"]
  <2>1. /\ flush' = [flush EXCEPT ![f] = next] /\ flush[f].pc # "idle"
        /\ delivered' = delivered \cup {Oldest(flush[f].todo)}
        /\ UNCHANGED <<up, memory, disk, issued, enq, accepted, dropped, exposed>>
    BY <1>5 DEF Deliver
  <2>2. next.todo = flush[f].todo
    BY <1>c DEF FlushTask
  <2>3. Oldest(flush[f].todo) \in 1 .. issued
    BY <1>c, <1>o, <1>t, <2>1
  <2> HIDE DEF next
  <2>. QED
    BY <1>c, <1>f, <1>r, <2>1, <2>2, <2>3
\* What is left of a flush after any other step of its own.
<1>a. ASSUME NEW f \in Flushers PROVE Advanced(flush[f]).todo \subseteq 1 .. issued
  <2>1. CASE Shift(flush[f].todo) = {}
    BY <2>1 DEF Advanced, IdleFlush
  <2>2. CASE Shift(flush[f].todo) # {}
    <3>1. Advanced(flush[f]).todo = Shift(flush[f].todo)
      BY <2>2 DEF Advanced, IdleFlush
    <3>. QED
      BY <1>c, <1>o, <3>1
  <2>. QED
    BY <2>1, <2>2
<1>6. ASSUME NEW f \in Flushers, SendFails(f) \/ FlushStep(f) \/ FlushFault(f)
      PROVE  Numbered' /\ CopiesNumbered'
  <2> DEFINE task == flush[f]
  <2>1. /\ task.pc # "idle" /\ disk' \subseteq disk
        /\ UNCHANGED <<up, issued, enq, accepted, delivered, exposed>>
    BY <1>6 DEF SendFails, FlushStep, Acknowledge, FlushSelect, FlushDelete, BumpAttempts,
                CheckAttempts, FlushFault
  <2>2. memory' \in {memory, Shift(memory)} /\ dropped' \subseteq dropped \cup ({Oldest(memory)} \ {None})
    BY <1>6 DEF SendFails, FlushStep, Acknowledge, FlushSelect, FlushDelete, BumpAttempts,
                CheckAttempts, FlushFault
  <2>3. memory' \subseteq memory /\ dropped' \subseteq dropped \cup (1 .. issued)
    BY <1>e, <1>o, <1>t, <2>2
  <2>4. \E next : next.todo \subseteq 1 .. issued /\ flush' = [flush EXCEPT ![f] = next]
    <3>1. IdleFlush.todo \subseteq 1 .. issued
      BY DEF IdleFlush
    <3>2. /\ [task EXCEPT !.pc = "bump"].todo \subseteq 1 .. issued
          /\ [task EXCEPT !.pc = "select"].todo \subseteq 1 .. issued
          /\ [task EXCEPT !.pc = "check"].todo \subseteq 1 .. issued
          /\ [task EXCEPT !.pc = "select", !.dropping = TRUE].todo \subseteq 1 .. issued
          /\ [task EXCEPT !.pc = "delete", !.victim = Oldest(disk)].todo \subseteq 1 .. issued
      BY <1>c DEF FlushTask
    <3>3. CASE SendFails(f)
      BY <3>2, <3>3 DEF SendFails
    <3>4. CASE Acknowledge(f)
      BY <3>2, <3>4 DEF Acknowledge
    <3>5. CASE FlushSelect(f)
      BY <1>a, <3>2, <3>5 DEF FlushSelect
    <3>6. CASE FlushDelete(f)
      BY <1>a, <3>6 DEF FlushDelete
    <3>7. CASE BumpAttempts(f)
      BY <3>1, <3>2, <3>7 DEF BumpAttempts
    <3>8. CASE CheckAttempts(f)
      BY <3>1, <3>2, <3>8 DEF CheckAttempts
    <3>9. CASE FlushFault(f)
      BY <3>1, <3>2, <3>9 DEF FlushFault
    <3>. QED
      BY <1>6, <3>3, <3>4, <3>5, <3>6, <3>7, <3>8, <3>9 DEF FlushStep
  <2>5. PICK next : next.todo \subseteq 1 .. issued /\ flush' = [flush EXCEPT ![f] = next]
    BY <2>4
  <2>6. up
    BY <1>r, <2>1
  <2>. QED
    BY <1>f, <2>1, <2>3, <2>5, <2>6
<1>7. CASE ClearMemory \/ ClearDisk
  <2>1. /\ memory' \subseteq memory /\ disk' \subseteq disk
        /\ dropped' \subseteq dropped \cup memory \cup disk
        /\ up /\ UNCHANGED <<up, issued, enq, flush, accepted, delivered, exposed>>
    BY <1>7, <1>n DEF ClearMemory, ClearDisk
  <2>. QED
    BY <1>c, <1>g, <1>n, <2>1
<1>8. CASE Crash
  <2>1. /\ ~up' /\ memory' = {} /\ enq'.pc = "idle" /\ enq'.item = None /\ ~clearing'
        /\ \A f \in Flushers : flush'[f].pc = "idle" /\ flush'[f].todo = {}
        /\ mishap' = "none" /\ exposed' \in {exposed, issued}
        /\ UNCHANGED <<disk, issued, accepted, dropped, delivered>>
    BY <1>8 DEF Crash, IdleEnq, IdleFlush
  <2>2. exposed' <= issued'
    BY <1>n, <1>t, <2>1
  <2>. QED
    BY <1>g, <1>n, <2>1, <2>2
<1>9. CASE Restart
  <2>1. /\ up' /\ ~up /\ memory' \subseteq disk /\ exposed' \in {exposed, issued}
        /\ UNCHANGED <<disk, issued, enq, flush, accepted, dropped, delivered>>
    BY <1>9 DEF Restart
  <2>2. exposed' <= issued'
    BY <1>n, <1>t, <2>1
  <2>. QED
    BY <1>c, <1>g, <1>n, <2>1, <2>2
<1>10. CASE UNCHANGED vars
  BY <1>10 DEF vars, Numbered, CopiesNumbered, Handled, Flushing
<1>. QED
  BY <1>1, <1>2, <1>3, <1>4, <1>5, <1>6, <1>7, <1>8, <1>9, <1>10 DEF Next

\* Calls that have got in each other's way stay so until the process dies or a
\* report finds the queue settled.
LEMMA ArrayOver ==
  ASSUME TypeInv, Numbered, mishap = "array", mishap' # "array", [Next]_vars
  PROVE  Crash \/ (Enqueue /\ ~Flushing)
<1>1. CASE Enqueue
  BY <1>1 DEF Enqueue, Settled
<1>2. CASE EnqueueSelect \/ EnqueueDelete \/ EnqueueInsert \/ EnqueueFault
  BY <1>2 DEF EnqueueSelect, EnqueueDelete, EnqueueInsert, EnqueueFault, Worse
<1>3. ASSUME NEW f \in Flushers PROVE ~(FlushStart(f) \/ Deliver(f) \/ SendFails(f) \/ FlushFault(f))
  BY DEF FlushStart, Deliver, SendFails, FlushFault, Worse
<1>4. ASSUME NEW f \in Flushers PROVE ~FlushStep(f)
  BY DEF FlushStep, Acknowledge, FlushSelect, FlushDelete, BumpAttempts, CheckAttempts
<1>5. CASE ClearMemory \/ ClearDisk \/ UNCHANGED vars
  BY <1>5 DEF ClearMemory, ClearDisk, Worse, vars
<1>6. ~Restart
  BY DEF Numbered, Restart
<1>. QED
  BY <1>1, <1>2, <1>3, <1>4, <1>5, <1>6 DEF Next

LEMMA OneFlushStep ==
  ASSUME TypeInv, OneFlush, Numbered, [Next]_vars
  PROVE  OneFlush'
<1>1. CASE mishap' = "array"
  BY <1>1 DEF OneFlush
<1>2. CASE mishap' # "array" /\ mishap # "array"
  <2>1. PICK f \in Flushers : Alone(f) /\ StepBy(f)
    BY <1>2, Owner
  <2>2. Alone(f)'
    BY <2>1, AloneStep
  <2>. QED
    BY <2>2 DEF Alone, OneFlush
<1>3. CASE mishap' # "array" /\ mishap = "array"
  <2>1. CASE Crash
    BY <2>1 DEF Crash, IdleFlush, OneFlush
  <2>2. CASE Enqueue /\ ~Flushing
    BY <2>2 DEF Enqueue, Flushing, OneFlush
  <2>. QED
    BY <1>3, <2>1, <2>2, ArrayOver
<1>. QED
  BY <1>1, <1>2, <1>3

\* DurableInv in the form the steps preserve.
DurableInd ==
  /\ TypeInv /\ Numbered /\ CopiesNumbered /\ OneFlush
  /\ mishap = "none" => \E f \in Flushers : Alone(f) /\ InvBy(f)

LEMMA DurableIndMeans == DurableInd => DurableInv
<1> SUFFICES ASSUME DurableInd PROVE DurableInv
  OBVIOUS
<1>1. CASE mishap = "none"
  <2>1. PICK f \in Flushers : Alone(f) /\ InvBy(f)
    BY <1>1 DEF DurableInd
  <2>. QED
    BY <1>1, <2>1, DurableInvBy DEF DurableInd
<1>2. CASE mishap # "none"
  BY <1>2 DEF DurableInd, DurableInv, Durable
<1>. QED
  BY <1>1, <1>2

LEMMA DurableIndInit == Init => DurableInd
<1> SUFFICES ASSUME Init PROVE DurableInd
  OBVIOUS
<1>1. PICK f \in Flushers : TRUE
  BY QueueAssumption
<1>2. Alone(f) /\ InvBy(f) /\ TypeInv
  BY DurableInit, TypeInit
<1>3. \A g \in Flushers : flush[g].pc = "idle" /\ flush[g].todo = {}
  BY DEF Init, IdleFlush
<1>4. CopiesNumbered /\ OneFlush
  BY <1>3 DEF CopiesNumbered, OneFlush
<1>5. Numbered
  BY DEF Init, Numbered, Handled, IdleEnq
<1>. QED
  BY <1>2, <1>4, <1>5 DEF DurableInd

LEMMA DurableIndStep == DurableInd /\ [Next]_vars => DurableInd'
<1> SUFFICES ASSUME DurableInd, [Next]_vars PROVE DurableInd'
  OBVIOUS
<1>i. TypeInv /\ Numbered /\ CopiesNumbered /\ OneFlush /\ DurableInv
  BY DurableIndMeans DEF DurableInd
<1>1. TypeInv' /\ Numbered' /\ CopiesNumbered' /\ OneFlush'
  BY <1>i, TypeStep, NumberedStep, OneFlushStep
<1>2. ASSUME mishap' = "none" PROVE \E f \in Flushers : Alone(f)' /\ InvBy(f)'
  <2>1. CASE mishap = "none"
    <3>1. PICK f \in Flushers : Alone(f) /\ StepBy(f)
      BY <1>2, <1>i, <2>1, Owner
    <3>2. InvBy(f)
      BY <1>i, <2>1, <3>1, DurableInvBy
    <3>. QED
      BY <1>2, <1>i, <2>1, <3>1, <3>2, AloneStep, DurableStep
  <2>2. CASE mishap # "none"
    <3>1. \E f \in Flushers : StepBy(f)
      <4>1. CASE mishap # "array"
        BY <1>2, <1>i, <4>1, Owner
      <4>2. CASE mishap = "array"
        BY <1>2, <1>i, <4>2, ArrayOver, QueueAssumption DEF StepBy
      <4>. QED
        BY <4>1, <4>2
    <3>. QED
      BY <1>2, <1>i, <2>2, <3>1, MishapOver
  <2>. QED
    BY <2>1, <2>2
<1>. QED
  BY <1>1, <1>2 DEF DurableInd

(* The inductive invariant: until two calls get in each other's way or a   *)
(* database call rejects, removeOldestFromDisk() always finds a row whose  *)
(* report has been handled, and everything the running process would still *)
(* send also survives its death; and that is so again once the process has *)
(* died or the queue has settled.                                          *)
THEOREM DurableInvCorrect == Spec => []DurableInv
<1>1. Spec => []DurableInd
  BY DurableIndInit, DurableIndStep, PTL DEF Spec
<1>. QED
  BY <1>1, DurableIndMeans, PTL

(* Whatever the crashes, restarts, failed sends and evictions, an accepted *)
(* report that no mishap has come near is on disk until the cloud has it   *)
(* or the queue gave it up on purpose.                                     *)
THEOREM DurableCorrect == Spec => []Durable
<1>1. DurableInv => Durable
  BY DEF DurableInv
<1>. QED
  BY <1>1, DurableInvCorrect, PTL

(***************************************************************************)
(* The queue implements ReportBuffer.  Each action is an action of the     *)
(* buffer or leaves what the buffer holds alone; that a removed row never  *)
(* takes a held report with it is the inductive invariant above.           *)
(***************************************************************************)
LEMMA BufferInit == Init => Buffer!Init
BY DEF Init, Buffer!Init, Held, Handled

LEMMA BufferStep ==
  ASSUME NEW f \in Flushers, TypeInv, mishap = "none", mishap' = "none", InvBy(f), StepBy(f)
  PROVE  [Buffer!Kept]_Buffer!vars
<1> USE DEF None
<1> DEFINE Gone == delivered \cup dropped
<1>t. /\ memory \in SUBSET Report /\ disk \in SUBSET Report
      /\ accepted \in SUBSET Report /\ delivered \in SUBSET Report /\ dropped \in SUBSET Report
      /\ issued \in Nat /\ Report \subseteq Nat
      /\ flush[f].todo \in SUBSET Report
      /\ enq.pc # "idle" => enq.item \in Report
  BY TypeInvByTask, QueueAssumption DEF TaskInv, FlushTask, Report, ItemPending
<1>i. NumberedBy(f) /\ SurplusBy /\ CoveredBy(f) /\ InStepBy(f) /\ MemoryBacked
      /\ DurableAbove(exposed)
  BY DEF InvBy, PartsBy
<1>o. ASSUME NEW S \in SUBSET Report, S # {}
      PROVE  Oldest(S) \in S /\ \A q \in S : Oldest(S) <= q
  BY <1>o, OldestIsLeast
<1>h. up => Held \subseteq memory
  BY <1>i DEF SurplusBy, Held, Handled
<1>m. up => disk \ memory \subseteq Gone
  BY <1>i DEF SurplusBy
<1>g. Buffer!Gone = Gone
  BY DEF Buffer!Gone
<1>u. UNCHANGED <<Held, accepted, delivered, dropped>> => [Buffer!Kept]_Buffer!vars
  BY DEF Buffer!vars
<1>f. ASSUME flush[f].pc # "idle", flush[f].pc \notin {"select", "delete"}
      PROVE  /\ Oldest(flush[f].todo) \in memory /\ Oldest(memory) = Oldest(flush[f].todo)
             /\ \A m \in memory : Oldest(memory) <= m
  BY <1>f, <1>i, <1>o, <1>t, CopyFront
<1>1. CASE Enqueue
  <2> DEFINE r == issued + 1
             pushed == memory \cup {r}
  <2>1. /\ up /\ disk' = disk /\ accepted' = accepted /\ delivered' = delivered
        /\ r \in Report
    BY <1>1, <1>t, QueueAssumption DEF Enqueue, Report
  <2>2. /\ r \in Nat /\ \A q \in memory \cup disk \cup accepted \cup Gone : q < r
        /\ r \notin memory \cup disk \cup Gone
    BY <1>i, <1>t DEF NumberedBy
  <2>3. \A q \in Held \cup accepted \cup Buffer!Gone : q < r
    BY <1>g, <2>2 DEF Held, Handled
  <2>4. CASE Cardinality(pushed) > MaxSize
    <3> DEFINE v == Oldest(pushed)
    <3>1. memory' = pushed \ {v} /\ dropped' = dropped \cup {v}
      BY <1>1, <2>4 DEF Enqueue, Shift
    <3>2. v \in pushed /\ \A q \in pushed : v <= q
      BY <1>o, <1>t, <2>1
    <3> HIDE DEF v, r
    <3>3. Held' = (Held \cup {r}) \ {v}
      BY <2>1, <2>2, <3>1 DEF Held, Handled
    <3>4. v \in Buffer!Gone \/ Buffer!Front(v, Held \cup {r})
      BY <1>g, <1>h, <2>1, <3>2 DEF Buffer!Front, Held, Handled
    <3>5. v \in Held \cup Buffer!Gone \cup {r}
      BY <3>4 DEF Buffer!Front
    <3>6. Buffer!OfferWhenFull(r)
      BY <2>1, <2>3, <3>1, <3>3, <3>4, <3>5 DEF Buffer!OfferWhenFull
    <3>7. QED
      BY <2>1, <3>6 DEF Buffer!Kept
  <2>5. CASE ~(Cardinality(pushed) > MaxSize)
    <3>1. memory' = pushed /\ dropped' = dropped
      BY <1>1, <2>5 DEF Enqueue
    <3> HIDE DEF r
    <3>2. Held' = Held \cup {r}
      BY <2>1, <2>2, <3>1 DEF Held, Handled
    <3>3. Buffer!Offer(r)
      BY <2>1, <2>3, <3>1, <3>2 DEF Buffer!Offer
    <3>4. QED
      BY <2>1, <3>3 DEF Buffer!Kept
  <2>6. QED
    BY <2>4, <2>5
<1>2. CASE EnqueueSelect
  BY <1>2, <1>u DEF EnqueueSelect, Held, Handled
<1>3. CASE EnqueueDelete
  BY <1>3, <1>i, <1>u DEF EnqueueDelete, CoveredBy, Held, Handled
<1>4. CASE EnqueueInsert
  <2> DEFINE r == enq.item
  <2>1. /\ up /\ r \in Report /\ enq.pc = "insert" /\ disk' = disk \cup {r}
        /\ accepted' = accepted \cup {r} /\ UNCHANGED <<memory, delivered, dropped>>
    BY <1>4, <1>i, <1>t DEF EnqueueInsert, NumberedBy
  <2>2. r \in memory \/ r \in Gone
    BY <1>i, <2>1 DEF SurplusBy
  <2>3. Held' = Held /\ r \in Held \cup Buffer!Gone
    BY <1>g, <2>1, <2>2 DEF Held, Handled
  <2>4. Buffer!Accept(r)
    BY <2>1, <2>3 DEF Buffer!Accept
  <2>5. QED
    BY <2>3, <2>4 DEF Buffer!Kept
<1>5. CASE FlushStart(f)
  BY <1>5, <1>u DEF FlushStart, Held, Handled
<1>6. CASE Deliver(f)
  <2> DEFINE r == Oldest(flush[f].todo)
  <2>1. /\ flush[f].pc = "send" /\ up /\ delivered' = delivered \cup {r}
        /\ UNCHANGED <<memory, disk, accepted, dropped>>
    BY <1>6, <1>i DEF Deliver, NumberedBy
  <2>2. r \in memory /\ \A m \in memory : r <= m
    BY <1>f, <2>1
  <2>3. r \in Buffer!Gone \/ Buffer!Front(r, Held)
    BY <1>g, <1>h, <2>1, <2>2 DEF Buffer!Front, Held, Handled
  <2>4. Held' = Held \ {r}
    BY <2>1 DEF Held, Handled
  <2>5. Buffer!Deliver(r) /\ r \in Held \cup Buffer!Gone
    BY <2>1, <2>3, <2>4 DEF Buffer!Deliver, Buffer!Front
  <2>6. QED
    BY <2>5 DEF Buffer!Kept
<1>7. CASE Acknowledge(f)
  <2>1. /\ flush[f].pc = "acking" /\ memory' = memory \ {Oldest(memory)}
        /\ UNCHANGED <<disk, accepted, delivered, dropped>>
    BY <1>7 DEF Acknowledge, Shift
  <2>2. Oldest(memory) \in delivered
    BY <1>f, <1>i, <2>1 DEF InStepBy
  <2>3. QED
    BY <1>u, <2>1, <2>2 DEF Held, Handled
<1>8. CASE SendFails(f)
  BY <1>8, <1>u DEF SendFails, Held, Handled
<1>9. CASE FlushSelect(f)
  BY <1>9, <1>u DEF FlushSelect, Held, Handled
<1>10. CASE FlushDelete(f)
  BY <1>10, <1>i, <1>u DEF FlushDelete, CoveredBy, Held, Handled
<1>11. CASE BumpAttempts(f)
  BY <1>11, <1>u DEF BumpAttempts, Held, Handled
<1>12. CASE CheckAttempts(f)
  <2> DEFINE r == Oldest(memory)
  <2>1. flush[f].pc = "check" /\ up /\ UNCHANGED <<disk, accepted, delivered>>
    BY <1>12, <1>i DEF CheckAttempts, NumberedBy
  <2>2. r \in memory /\ \A m \in memory : r <= m
    BY <1>f, <2>1
  <2>3. CASE memory' = memory /\ dropped' = dropped
    BY <1>u, <2>1, <2>3 DEF Held, Handled
  <2>4. CASE memory' = Shift(memory) /\ dropped' = dropped \cup ({r} \ {None})
    <3>1. r # None
      BY <1>t, <2>2, QueueAssumption DEF Report
    <3>2. Held' = Held \ {r} /\ dropped' = dropped \cup {r}
      BY <2>1, <2>4, <3>1 DEF Held, Handled, Shift
    <3>3. r \in Buffer!Gone \/ Buffer!Front(r, Held)
      BY <1>g, <1>h, <2>1, <2>2 DEF Buffer!Front, Held, Handled
    <3>4. Buffer!GiveUp(r) /\ r \in Held \cup Buffer!Gone
      BY <2>1, <3>2, <3>3 DEF Buffer!GiveUp, Buffer!Front
    <3>5. QED
      BY <3>4 DEF Buffer!Kept
  <2>5. QED
    BY <1>12, <2>3, <2>4 DEF CheckAttempts
<1>13. CASE Crash
  <2>1. memory' = {} /\ UNCHANGED <<disk, accepted, delivered, dropped>>
    BY <1>13 DEF Crash
  <2>2. Held' = Held \ (Held \ disk)
    BY <2>1 DEF Held, Handled
  <2>3. Held \ disk \subseteq Held \ accepted
    <3>1. ASSUME NEW r \in Held \ disk PROVE r \notin accepted
      <4>1. r \in memory /\ r = enq.item
        BY <1>i DEF Held, Handled, MemoryBacked
      <4>2. r # None
        BY <1>t, <4>1 DEF Report
      <4>3. enq.pc # "idle" /\ enq.item \notin accepted
        BY <1>i, <4>1, <4>2 DEF NumberedBy
      <4>. QED
        BY <4>1, <4>3
    <3>. QED
      BY <3>1
  <2>4. Buffer!Die
    BY <2>1, <2>2, <2>3 DEF Buffer!Die
  <2>5. QED
    BY <2>4 DEF Buffer!Kept
<1>14. CASE Restart
  <2>1. memory' = disk /\ memory = {} /\ UNCHANGED <<disk, accepted, delivered, dropped>>
    BY <1>14, <1>i DEF Restart, NumberedBy
  <2>2. QED
    BY <1>u, <2>1 DEF Held, Handled
<1>15. CASE UNCHANGED vars
  BY <1>15, <1>u DEF vars, Held, Handled
<1>16. ~EnqueueFault /\ ~FlushFault(f) /\ ~ClearMemory /\ ~ClearDisk
  BY <1>i DEF EnqueueFault, FlushFault, ClearMemory, ClearDisk, Worse, NumberedBy
<1>. QED
  BY <1>1, <1>2, <1>3, <1>4, <1>5, <1>6, <1>7, <1>8, <1>9, <1>10, <1>11, <1>12, <1>13,
     <1>14, <1>15, <1>16 DEF StepBy, FlushStep

\* What has happened stays so.
LEMMA HistoryGrows ==
  ASSUME [Next]_vars
  PROVE  accepted \subseteq accepted' /\ delivered \subseteq delivered' /\ dropped \subseteq dropped'
<1>1. CASE Enqueue \/ EnqueueSelect \/ EnqueueDelete \/ EnqueueInsert \/ EnqueueFault
  BY <1>1 DEF Enqueue, EnqueueSelect, EnqueueDelete, EnqueueInsert, EnqueueFault
<1>2. ASSUME NEW f \in Flushers,
             \/ FlushStart(f) \/ Deliver(f) \/ SendFails(f) \/ FlushStep(f) \/ FlushFault(f)
      PROVE  accepted \subseteq accepted' /\ delivered \subseteq delivered' /\ dropped \subseteq dropped'
  BY <1>2 DEF FlushStart, Deliver, SendFails, FlushFault, FlushStep, Acknowledge, FlushSelect,
              FlushDelete, BumpAttempts, CheckAttempts
<1>3. CASE ClearMemory \/ ClearDisk \/ Crash \/ Restart \/ UNCHANGED vars
  BY <1>3 DEF ClearMemory, ClearDisk, Crash, Restart, vars
<1>. QED
  BY <1>1, <1>2, <1>3 DEF Next

\* While nothing has gone wrong a step is one of the buffer or a stutter.
LEMMA BufferStepKept ==
  ASSUME DurableInd, mishap = "none", mishap' = "none", [Next]_vars
  PROVE  [Buffer!Kept]_Buffer!vars
<1>i. TypeInv /\ CopiesNumbered /\ OneFlush /\ DurableInv
  BY DurableIndMeans DEF DurableInd
<1>1. PICK f \in Flushers : Alone(f) /\ StepBy(f)
  BY <1>i, Owner
<1>2. InvBy(f)
  BY <1>i, <1>1, DurableInvBy
<1>. QED
  BY <1>i, <1>1, <1>2, BufferStep

(* The queue is a buffer that delivers oldest first, at least once, and    *)
(* whose crashes forget unaccepted reports only, except from the moment    *)
(* its calls get in each other's way until that is over.                   *)
THEOREM BufferImplemented == Spec => BufferSpec
<1>1. Init => DurableInd /\ Buffer!Init
  BY DurableIndInit, BufferInit
<1>2. DurableInd /\ [Next]_vars => DurableInd'
  BY DurableIndStep
<1>3. DurableInd /\ [Next]_vars => [Buffer!Next]_Buffer!vars
  <2> SUFFICES ASSUME DurableInd, [Next]_vars PROVE [Buffer!Next]_Buffer!vars
    OBVIOUS
  <2>1. CASE mishap = "none" /\ mishap' = "none"
    BY <2>1, BufferStepKept DEF Buffer!Next
  <2>2. CASE ~(mishap = "none" /\ mishap' = "none")
    BY <2>2, HistoryGrows DEF Buffer!Next, Buffer!Muddle
  <2>. QED
    BY <2>1, <2>2
<1>. QED
  BY <1>1, <1>2, <1>3, PTL DEF Spec, BufferSpec, Buffer!Spec

\* Whatever is gone is older than whatever is held above the bound.
OrderedAbove(bound) ==
  \A old \in delivered \cup dropped, new \in Held : new > bound => old < new

\* Every step of the buffer keeps that order, and so first deliveries do.
LEMMA BufferOrder ==
  ASSUME NEW bound \in Nat, OrderedAbove(bound), [Buffer!Kept]_Buffer!vars,
         (delivered \cup dropped \cup Held) \subseteq Nat,
         (delivered \cup dropped \cup Held)' \subseteq Nat
  PROVE  /\ OrderedAbove(bound)'
         /\ \A new \in delivered' \ (delivered \cup dropped), old \in delivered :
              new > bound => old < new
<1> DEFINE held == Held
           next == Held'
           gone == delivered \cup dropped
           goneNext == delivered' \cup dropped'
           first == \A new \in delivered' \ gone, old \in delivered : new > bound => old < new
<1>1. \A old \in gone, new \in held : new > bound => old < new
  BY DEF OrderedAbove
<1>2. OrderedAbove(bound)' <=> \A old \in goneNext, new \in next : new > bound => old < new
  BY DEF OrderedAbove
<1>3. /\ \A n \in gone \cup held \cup goneNext \cup next : n \in Nat
  OBVIOUS
<1>4. SUFFICES (\A old \in goneNext, new \in next : new > bound => old < new) /\ first
  BY <1>2
<1>5. ASSUME NEW r, Buffer!Offer(r) PROVE (\A old \in goneNext, new \in next : new > bound => old < new) /\ first
  <2>1. /\ \A q \in held \cup gone : q < r
        /\ next = held \cup {r} /\ delivered' = delivered /\ dropped' = dropped
    BY <1>5 DEF Buffer!Offer, Buffer!Gone
  <2> HIDE DEF held, next
  <2>. QED
    BY <1>1, <2>1
<1>6. ASSUME NEW r, Buffer!OfferWhenFull(r)
      PROVE  (\A old \in goneNext, new \in next : new > bound => old < new) /\ first
  <2>1. \A q \in held \cup gone : q < r
    BY <1>6 DEF Buffer!OfferWhenFull, Buffer!Gone
  <2>2. delivered' = delivered
    BY <1>6 DEF Buffer!OfferWhenFull
  <2>3. PICK victim \in held \cup gone \cup {r} :
          /\ victim \in gone \/ (victim \in held \cup {r} /\ \A q \in held \cup {r} : victim <= q)
          /\ next = (held \cup {r}) \ {victim}
          /\ dropped' = dropped \cup {victim}
    BY <1>6 DEF Buffer!OfferWhenFull, Buffer!Gone, Buffer!Front
  <2>4. ASSUME NEW old \in goneNext, NEW new \in next, new > bound PROVE old < new
    <3>1. new \in held \cup {r} /\ new # victim /\ old \in gone \cup {victim}
      BY <2>2, <2>3, <2>4
    <3>2. old \in Nat /\ new \in Nat /\ victim \in Nat
      BY <1>3, <2>3, <2>4
    <3> HIDE DEF held, next, gone, goneNext
    <3>3. CASE old \in gone
      BY <1>1, <2>1, <2>4, <3>1, <3>2, <3>3
    <3>4. CASE old = victim /\ old \notin gone
      BY <2>3, <3>1, <3>2, <3>4
    <3>. QED
      BY <3>1, <3>3, <3>4
  <2>. QED
    BY <2>2, <2>4
<1>7. ASSUME NEW r, Buffer!Deliver(r) \/ Buffer!GiveUp(r)
      PROVE  (\A old \in goneNext, new \in next : new > bound => old < new) /\ first
  <2>1. /\ r \in gone \/ (r \in held /\ \A q \in held : r <= q)
        /\ next = held \ {r}
        /\ goneNext = gone \cup {r} /\ delivered' \subseteq delivered \cup {r}
    BY <1>7 DEF Buffer!Deliver, Buffer!GiveUp, Buffer!Gone, Buffer!Front
  <2>2. ASSUME NEW old \in goneNext, NEW new \in next, new > bound PROVE old < new
    <3>1. new \in held /\ new # r /\ (old \in gone \/ old = r)
      BY <2>1, <2>2
    <3>2. old \in Nat /\ new \in Nat
      BY <1>3, <2>2
    <3> HIDE DEF held, next, gone, goneNext
    <3>. QED
      BY <1>1, <2>1, <2>2, <3>1, <3>2
  <2>3. first
    <3>1. ASSUME NEW new \in delivered' \ gone, NEW old \in delivered, new > bound PROVE old < new
      <4>1. new = r /\ r \in held /\ old \in gone
        BY <2>1, <3>1
      <4>. QED
        BY <1>1, <3>1, <4>1
    <3>. QED
      BY <3>1
  <2>. QED
    BY <2>2, <2>3
<1>8. ASSUME next \subseteq held, goneNext = gone, delivered' = delivered
      PROVE  (\A old \in goneNext, new \in next : new > bound => old < new) /\ first
  BY <1>1, <1>8
<1>9. ASSUME NEW r, Buffer!Accept(r) PROVE next \subseteq held /\ goneNext = gone /\ delivered' = delivered
  BY <1>9 DEF Buffer!Accept
<1>10. CASE Buffer!Die
  <2>1. next \subseteq held /\ goneNext = gone /\ delivered' = delivered
    BY <1>10 DEF Buffer!Die
  <2>. QED
    BY <1>8, <2>1
<1>11. CASE UNCHANGED Buffer!vars
  <2>1. next \subseteq held /\ goneNext = gone /\ delivered' = delivered
    BY <1>11 DEF Buffer!vars
  <2>. QED
    BY <1>8, <2>1
<1>. QED
  BY <1>5, <1>6, <1>7, <1>8, <1>9, <1>10, <1>11 DEF Buffer!Kept

\* The order holds of the reports that no mishap has come near.
Ordered == mishap = "none" => OrderedAbove(exposed)

LEMMA OrderedStep ==
  ASSUME DurableInd, Ordered, [Next]_vars
  PROVE  /\ Ordered'
         /\ mishap = "none" =>
              \A new \in delivered' \ Handled, old \in delivered : new > exposed => old < new
<1>t. /\ TypeInv /\ TypeInv' /\ Numbered /\ Numbered' /\ CopiesNumbered /\ OneFlush
      /\ (delivered \cup dropped \cup Held) \subseteq Nat
      /\ (delivered \cup dropped \cup Held)' \subseteq Nat
      /\ exposed \in Nat /\ issued \in Nat
  <2>1. TypeInv /\ TypeInv' /\ Numbered /\ Numbered' /\ CopiesNumbered /\ OneFlush
    BY DurableIndStep DEF DurableInd
  <2>2. (delivered \cup dropped \cup Held) \subseteq Nat /\ exposed \in Nat /\ issued \in Nat
    BY <2>1, QueueAssumption DEF TypeInv, TypeOK, Held, Handled, Report
  <2>3. (delivered \cup dropped \cup Held)' \subseteq Nat
    BY <2>1, QueueAssumption DEF TypeInv, TypeOK, Held, Handled, Report
  <2>. QED
    BY <2>1, <2>2, <2>3
<1>1. CASE mishap = "none" /\ mishap' = "none"
  <2>1. exposed' = exposed
    <3>1. PICK f \in Flushers : StepBy(f)
      BY <1>1, <1>t, Owner
    <3>. QED
      BY <1>1, <3>1 DEF StepBy, Enqueue, EnqueueSelect, EnqueueDelete, EnqueueInsert, EnqueueFault,
         FlushStart, Deliver, SendFails, FlushStep, Acknowledge, FlushSelect, FlushDelete,
         BumpAttempts, CheckAttempts, FlushFault, ClearMemory, ClearDisk, Crash, Restart, vars
  <2>2. /\ OrderedAbove(exposed)'
        /\ \A new \in delivered' \ (delivered \cup dropped), old \in delivered :
             new > exposed => old < new
    <3>1. [Buffer!Kept]_Buffer!vars /\ OrderedAbove(exposed)
      BY <1>1, BufferStepKept DEF Ordered
    <3>2. \A bound \in Nat : OrderedAbove(bound) =>
            /\ \A old \in delivered' \cup dropped', new \in Held' : new > bound => old < new
            /\ \A new \in delivered' \ (delivered \cup dropped), old \in delivered :
                 new > bound => old < new
      BY <1>t, <3>1, BufferOrder DEF OrderedAbove
    <3>. QED
      BY <1>t, <2>1, <3>1, <3>2 DEF OrderedAbove
  <2>. QED
    BY <1>1, <2>2 DEF Ordered, Handled
\* A step into a mishap delivers nothing.
<1>2. CASE mishap = "none" /\ mishap' # "none"
  <2>1. ASSUME NEW f \in Flushers PROVE ~Deliver(f)
    BY <1>2 DEF Deliver
  <2>2. ASSUME NEW f \in Flushers,
               FlushStart(f) \/ SendFails(f) \/ FlushStep(f) \/ FlushFault(f)
        PROVE  delivered' = delivered
    BY <2>2 DEF FlushStart, SendFails, FlushStep, Acknowledge, FlushSelect, FlushDelete,
                BumpAttempts, CheckAttempts, FlushFault
  <2>3. delivered' = delivered
    BY <2>1, <2>2 DEF Next, Enqueue, EnqueueSelect, EnqueueDelete, EnqueueInsert, EnqueueFault,
       ClearMemory, ClearDisk, Crash, Restart, vars
  <2>. QED
    BY <1>2, <2>3 DEF Ordered, Handled
\* After a mishap only a report issued since can be held above the bound.
<1>3. CASE mishap # "none" /\ mishap' = "none"
  <2>1. exposed' = issued
    <3>1. CASE mishap = "array"
      BY <1>3, <1>t, <3>1, ArrayOver DEF Enqueue, Settled, Crash
    <3>2. CASE mishap # "array"
      BY <1>3, <1>t, <3>2, Owner, MishapOver
    <3>. QED
      BY <3>1, <3>2
  <2>2. /\ delivered' \cup dropped' \cup Held' \subseteq 1 .. issued'
        /\ (delivered' \cup dropped') \cap Held' = {}
        /\ issued' \in Nat /\ (issued' = issued \/ issued' = issued + 1)
    <3>1. issued' = issued \/ issued' = issued + 1
      BY <1>3 DEF Next, Enqueue, EnqueueSelect, EnqueueDelete, EnqueueInsert, EnqueueFault,
         FlushStart, Deliver, SendFails, FlushStep, Acknowledge, FlushSelect, FlushDelete,
         BumpAttempts, CheckAttempts, FlushFault, ClearMemory, ClearDisk, Crash, Restart, vars
    <3>. QED
      BY <1>t, <3>1 DEF Numbered, Held, Handled
  <2>3. ASSUME NEW old \in delivered' \cup dropped', NEW new \in Held', new > exposed'
        PROVE  old < new
    <3>1. old \in 1 .. issued' /\ new \in 1 .. issued' /\ old # new
      BY <2>2
    <3>2. new = issued'
      BY <1>t, <2>1, <2>2, <2>3, <3>1
    <3>. QED
      BY <2>2, <3>1, <3>2
  <2>. QED
    BY <1>3, <2>3 DEF Ordered, OrderedAbove
<1>. QED
  BY <1>1, <1>2, <1>3 DEF Ordered

(* FIFO: the cloud never gets a report for the first time after a newer    *)
(* one, whatever crashes, restarts and refused sends come between, unless  *)
(* the older one has met a mishap.  It follows from the buffer: what is    *)
(* gone is older than all that is held.                                    *)
THEOREM FirstDeliveryInOrderCorrect == Spec => FirstDeliveryInOrder
<1>1. Init => DurableInd /\ Ordered
  BY DurableIndInit DEF Init, Ordered, OrderedAbove
<1>2. DurableInd /\ Ordered /\ [Next]_vars => (DurableInd /\ Ordered)'
  BY DurableIndStep, OrderedStep
<1>3. DurableInd /\ Ordered /\ [Next]_vars =>
        [mishap = "none" =>
           \A new \in delivered' \ Handled, old \in delivered : new > exposed => old < new]_vars
  BY OrderedStep
<1>. QED
  BY <1>1, <1>2, <1>3, PTL DEF Spec, FirstDeliveryInOrder
-----------------------------------------------------------------------------
(***************************************************************************)
(* While the process lives: database calls may reject and clear() may be   *)
(* called, and nothing accepted leaves the array before it is delivered or *)
(* given up.  A flush that a rejected DELETE has thrown off its item ends  *)
(* before it could shift again, unless it continues on errors: from there  *)
(* on mishap is "array".                                                   *)
(***************************************************************************)
\* What a flush that goes on has still to send is the front of the array.
GoesOn(pc) == \/ pc \in {"send", "acking", "select", "delete", "check"}
              \/ pc = "bump" /\ ContinueOnError

SendingFront(f) ==
  /\ flush[f].pc = "check" => ContinueOnError
  /\ GoesOn(flush[f].pc) =>
       /\ Left(flush[f]) \subseteq memory
       /\ \A m \in memory \ Left(flush[f]), t \in Left(flush[f]) : t < m
  /\ flush[f].pc = "acking" => Oldest(flush[f].todo) \in delivered

Kept == /\ \A r \in accepted : r > exposed => r \in memory \cup delivered \cup dropped
        /\ enq.pc # "idle" => enq.item \in memory \cup delivered \cup dropped

LEMMA LivingStep ==
  ASSUME NEW f \in Flushers, TypeInv, Numbered, Alone(f), StepBy(f), SendingFront(f), Kept,
         up, up', mishap # "array", mishap' # "array"
  PROVE  SendingFront(f)' /\ Kept'
<1> DEFINE task == flush[f]
<1>t. /\ memory \in SUBSET Report /\ task.todo \in SUBSET Report
      /\ flush \in [Flushers -> FlushTask] /\ (task.pc # "idle" => task.todo # {})
      /\ issued \in Nat /\ Report \subseteq Nat /\ MaxReports \in Nat
  BY TypeInvByTask, QueueAssumption DEF TaskInv, FlushTask, Report
<1>i. memory \subseteq 1 .. issued /\ accepted \subseteq 1 .. issued
  BY DEF Numbered
<1>a. Flushing => task.pc # "idle"
  BY DEF Flushing, Alone
\* Steps that leave the flush and the array alone.
<1>f. ASSUME UNCHANGED <<flush, memory>>, delivered \subseteq delivered' PROVE SendingFront(f)'
  BY <1>f DEF SendingFront, GoesOn, Left, Shift
<1>k. ASSUME UNCHANGED <<memory, accepted, enq, exposed>>,
             delivered \cup dropped \subseteq delivered' \cup dropped'
      PROVE  Kept'
  BY <1>k DEF Kept
<1>1. CASE Enqueue
  <2> DEFINE r == issued + 1
             pushed == memory \cup {r}
  <2>1. /\ flush' = flush /\ accepted' = accepted /\ delivered' = delivered
        /\ enq'.item = r /\ (exposed' = exposed \/ exposed' = issued)
        /\ \/ memory' = pushed /\ dropped' = dropped
           \/ /\ memory' = Shift(pushed) /\ dropped' = dropped \cup {Oldest(pushed)}
              /\ ~Flushing
    BY <1>1 DEF Enqueue
  <2>2. r \in Nat /\ \A m \in memory : m < r
    BY <1>i, <1>t
  <2>5. pushed \subseteq memory' \cup delivered' \cup dropped'
    BY <2>1 DEF Shift
  <2>a. ASSUME NEW s \in accepted', s > exposed'
        PROVE  s \in memory' \cup delivered' \cup dropped'
    <3>1. s \in accepted /\ s <= issued /\ s \in Nat /\ exposed' = exposed
      BY <1>i, <1>t, <2>1, <2>a
    <3>2. s \in memory \cup delivered \cup dropped
      BY <2>a, <3>1 DEF Kept
    <3>. QED
      BY <2>1, <2>5, <3>2
  <2>6. Kept'
    BY <2>1, <2>5, <2>a DEF Kept
  <2>7. SendingFront(f)'
    <3>1. CASE memory' = pushed
      <4>1. \A m \in memory' \ Left(task), t \in Left(task) :
              Left(task) \subseteq memory /\ (\A n \in memory \ Left(task) : t < n) => t < m
        BY <2>2, <3>1
      <4>2. Left(flush'[f]) = Left(task) /\ Left(flush[f])' = Left(task)
        BY <2>1 DEF Left, Shift
      <4> HIDE DEF task, pushed
      <4>. QED
        BY <2>1, <3>1, <4>1, <4>2 DEF SendingFront, GoesOn, task, pushed
    <3>2. CASE ~Flushing
      BY <1>t, <2>1, <3>2 DEF SendingFront, GoesOn, Flushing
    <3>. QED
      BY <2>1, <3>1, <3>2
  <2>. QED
    BY <2>6, <2>7
<1>2. CASE EnqueueSelect \/ EnqueueDelete
  <2>1. /\ UNCHANGED <<memory, flush, accepted, dropped, delivered, exposed>>
        /\ enq.pc # "idle" /\ enq'.item = enq.item
    BY <1>2, TypeInvByTask DEF EnqueueSelect, EnqueueDelete
  <2>2. Kept'
    BY <2>1 DEF Kept
  <2>. QED
    BY <1>f, <2>1, <2>2
<1>3. CASE EnqueueInsert \/ EnqueueFault
  <2>1. /\ UNCHANGED <<memory, flush, dropped, delivered, exposed>>
        /\ enq.pc # "idle" /\ enq'.pc = "idle" /\ accepted' \subseteq accepted \cup {enq.item}
    BY <1>3 DEF EnqueueInsert, EnqueueFault, IdleEnq
  <2>2. Kept'
    BY <2>1 DEF Kept
  <2>. QED
    BY <1>f, <2>1, <2>2
\* Steps of the flush, by what they make of its task.
<1>s. ASSUME NEW next, flush' = [flush EXCEPT ![f] = next],
             next.pc = "check" => ContinueOnError,
             GoesOn(next.pc) => GoesOn(task.pc) /\ Left(next) = Left(task),
             next.pc # "acking",
             UNCHANGED <<memory, enq, accepted, dropped, delivered, exposed>>
      PROVE  SendingFront(f)' /\ Kept'
  <2>1. flush'[f] = next
    BY <1>s, <1>t
  <2>2. Left(flush[f])' = Left(next)
    BY <2>1 DEF Left, Shift
  <2>3. SendingFront(f)'
    BY <1>s, <2>1, <2>2 DEF SendingFront, GoesOn
  <2>. QED
    BY <1>k, <1>s, <2>3
<1>4. CASE FlushStart(f)
  <2>1. /\ flush' = [flush EXCEPT ![f] = [IdleFlush EXCEPT !.pc = "send", !.todo = memory]]
        /\ UNCHANGED <<memory, enq, accepted, dropped, delivered, exposed>>
    BY <1>4 DEF FlushStart
  <2>2. flush'[f].pc = "send" /\ flush'[f].todo = memory
    BY <1>t, <2>1 DEF IdleFlush
  <2>3. Left(flush[f])' = memory
    BY <2>2 DEF Left
  <2>4. SendingFront(f)'
    BY <2>1, <2>2, <2>3 DEF SendingFront, GoesOn
  <2>. QED
    BY <1>k, <2>1, <2>4
<1>5. CASE Deliver(f)
  <2>1. /\ task.pc = "send" /\ delivered' = delivered \cup {Oldest(task.todo)}
        /\ flush' = [flush EXCEPT ![f].pc = "acking"]
        /\ UNCHANGED <<memory, enq, accepted, dropped, exposed>>
    BY <1>5 DEF Deliver
  <2>2. flush'[f].pc = "acking" /\ flush'[f].todo = task.todo
    BY <1>t, <2>1 DEF FlushTask
  <2>3. Left(flush[f])' = Left(task)
    BY <2>1, <2>2 DEF Left
  <2>4. SendingFront(f)'
    BY <2>1, <2>2, <2>3 DEF SendingFront, GoesOn
  <2>. QED
    BY <1>k, <2>1, <2>4
\* The front of the array is the item the flush is at.
<1>6. ASSUME task.pc \in {"acking", "check"}
      PROVE  /\ task.todo \subseteq memory /\ \A m \in memory \ task.todo, t \in task.todo : t < m
             /\ Oldest(memory) = Oldest(task.todo) /\ Oldest(task.todo) \in task.todo
  <2> DEFINE x == Oldest(task.todo)
  <2>2. /\ task.todo \subseteq memory /\ \A m \in memory \ task.todo, t \in task.todo : t < m
        /\ task.todo # {}
    BY <1>6, <1>t DEF SendingFront, GoesOn, Left
  <2>3. x \in task.todo /\ \A q \in task.todo : x <= q
    BY <1>t, <2>2, OldestIsLeast
  <2>4. Oldest(memory) = x
    <3>1. Oldest(memory) \in memory /\ \A q \in memory : Oldest(memory) <= q
      BY <1>t, <2>2, <2>3, OldestIsLeast
    <3> HIDE DEF x, task
    <3>2. Oldest(memory) <= x /\ (Oldest(memory) \in task.todo \/ x < Oldest(memory))
      BY <2>2, <2>3, <3>1
    <3>3. x \in Nat /\ Oldest(memory) \in Nat
      BY <1>t, <2>2, <2>3, <3>1
    <3>4. Oldest(memory) \in task.todo => x <= Oldest(memory)
      BY <2>3
    <3>. QED
      BY <3>2, <3>3, <3>4
  <2>. QED
    BY <2>2, <2>3, <2>4
\* It is shifted once it is delivered, or given up.
<1>7. ASSUME task.pc \in {"acking", "check"}, memory' = Shift(memory),
             NEW next, flush' = [flush EXCEPT ![f] = next],
             next.pc = "select", next.todo = task.todo,
             UNCHANGED <<enq, accepted, exposed>>,
             delivered \cup dropped \cup {Oldest(memory)} \subseteq delivered' \cup dropped'
      PROVE  SendingFront(f)' /\ Kept'
  <2>1. memory' = memory \ {Oldest(task.todo)}
    BY <1>6, <1>7 DEF Shift
  <2>2. Kept'
    BY <1>7 DEF Kept, Shift
  <2>3. flush'[f].pc = "select" /\ flush'[f].todo = task.todo
    BY <1>t, <1>7
  <2>4. Left(flush[f])' = task.todo \ {Oldest(task.todo)}
    BY <2>3 DEF Left, Shift
  <2>5. SendingFront(f)'
    BY <1>6, <1>7, <2>1, <2>3, <2>4 DEF SendingFront
  <2>. QED
    BY <2>2, <2>5
<1>8. CASE Acknowledge(f)
  <2> DEFINE next == [task EXCEPT !.pc = "select"]
  <2>1. /\ task.pc = "acking" /\ memory' = Shift(memory) /\ flush' = [flush EXCEPT ![f] = next]
        /\ UNCHANGED <<enq, accepted, dropped, delivered, exposed>>
    BY <1>8 DEF Acknowledge
  <2>2. next.pc = "select" /\ next.todo = task.todo
    BY <1>t DEF FlushTask
  <2>3. Oldest(memory) \in delivered
    BY <1>6, <2>1 DEF SendingFront
  <2> HIDE DEF next
  <2>. QED
    BY <1>7, <2>1, <2>2, <2>3
<1>9. CASE SendFails(f)
  <2>1. /\ flush' = [flush EXCEPT ![f] = [task EXCEPT !.pc = "bump"]]
        /\ task.pc \in {"send", "acking"}
        /\ UNCHANGED <<memory, enq, accepted, dropped, delivered, exposed>>
    BY <1>9 DEF SendFails
  <2>2. [task EXCEPT !.pc = "bump"].pc = "bump" /\ [task EXCEPT !.pc = "bump"].todo = task.todo
    BY <1>t DEF FlushTask
  <2>3. GoesOn(task.pc) /\ Left([task EXCEPT !.pc = "bump"]) = Left(task)
    BY <2>1, <2>2 DEF GoesOn, Left
  <2>. QED
    BY <1>s, <2>1, <2>2, <2>3
<1>10. ASSUME task.pc \in {"select", "delete"},
             flush' = [flush EXCEPT ![f] = Advanced(task)],
             UNCHANGED <<memory, enq, accepted, dropped, delivered, exposed>>
      PROVE  SendingFront(f)' /\ Kept'
  <2>1. Left(task) = Shift(task.todo) /\ GoesOn(task.pc)
    BY <1>10 DEF Left, GoesOn
  <2>2. /\ Advanced(task).pc \in {"idle", "send"}
        /\ Advanced(task).pc = "send" => Left(Advanced(task)) = Left(task)
    <3>1. CASE Shift(task.todo) = {}
      BY <3>1 DEF Advanced, IdleFlush
    <3>2. CASE Shift(task.todo) # {}
      <4>1. Advanced(task).pc = "send" /\ Advanced(task).todo = Shift(task.todo)
        BY <3>2 DEF Advanced, IdleFlush
      <4>. QED
        BY <2>1, <4>1 DEF Left
    <3>. QED
      BY <3>1, <3>2
  <2>. QED
    BY <1>10, <1>s, <2>1, <2>2 DEF GoesOn
<1>11. CASE FlushSelect(f)
  <2>1. task.pc = "select" /\ UNCHANGED <<memory, enq, accepted, dropped, delivered, exposed>>
    BY <1>11 DEF FlushSelect
  <2>2. CASE disk = {}
    BY <1>10, <1>11, <2>1, <2>2 DEF FlushSelect
  <2>3. CASE disk # {}
    <3> DEFINE next == [task EXCEPT !.pc = "delete", !.victim = Oldest(disk)]
    <3>1. flush' = [flush EXCEPT ![f] = next]
      BY <1>11, <2>3 DEF FlushSelect
    <3>2. next.pc = "delete" /\ next.todo = task.todo
      BY <1>t DEF FlushTask
    <3>3. Left(next) = Left(task) /\ GoesOn(task.pc)
      BY <2>1, <3>2 DEF Left, GoesOn
    <3> HIDE DEF next
    <3>. QED
      BY <1>s, <2>1, <3>1, <3>2, <3>3
  <2>. QED
    BY <2>2, <2>3
<1>12. CASE FlushDelete(f)
  BY <1>10, <1>12 DEF FlushDelete
\* The flush ends, or goes on to look at the attempts.
<1>e. IdleFlush.pc = "idle"
  BY DEF IdleFlush
<1>13. CASE BumpAttempts(f)
  <2>1. task.pc = "bump" /\ UNCHANGED <<memory, enq, accepted, dropped, delivered, exposed>>
    BY <1>13 DEF BumpAttempts
  <2>2. CASE ContinueOnError
    <3> DEFINE next == [task EXCEPT !.pc = "check"]
    <3>1. flush' = [flush EXCEPT ![f] = next]
      BY <1>13, <2>2 DEF BumpAttempts
    <3>2. next.pc = "check" /\ next.todo = task.todo
      BY <1>t DEF FlushTask
    <3>3. GoesOn(task.pc) /\ Left(next) = Left(task)
      BY <2>1, <2>2, <3>2 DEF GoesOn, Left
    <3> HIDE DEF next
    <3>. QED
      BY <1>s, <2>1, <2>2, <3>1, <3>2, <3>3
  <2>3. CASE ~ContinueOnError
    <3>1. flush' = [flush EXCEPT ![f] = IdleFlush]
      BY <1>13, <2>3 DEF BumpAttempts
    <3>. QED
      BY <1>e, <1>s, <2>1, <3>1 DEF GoesOn
  <2>. QED
    BY <2>2, <2>3
<1>14. CASE CheckAttempts(f)
  <2>1. task.pc = "check" /\ UNCHANGED <<enq, accepted, delivered, exposed>>
    BY <1>14 DEF CheckAttempts
  <2>2. CASE /\ memory' = memory /\ dropped' = dropped
             /\ flush' = [flush EXCEPT ![f] = IdleFlush]
    BY <1>e, <1>s, <2>1, <2>2 DEF GoesOn
  <2>3. CASE /\ memory' = Shift(memory) /\ dropped' = dropped \cup ({Oldest(memory)} \ {None})
             /\ flush' = [flush EXCEPT ![f] = [task EXCEPT !.pc = "select", !.dropping = TRUE]]
    <3> DEFINE next == [task EXCEPT !.pc = "select", !.dropping = TRUE]
    <3>1. next.pc = "select" /\ next.todo = task.todo
      BY <1>t DEF FlushTask
    <3>2. Oldest(memory) # None
      BY <1>6, <1>i, <2>1 DEF None
    <3>3. flush' = [flush EXCEPT ![f] = next]
      BY <2>3
    <3> HIDE DEF next
    <3>. QED
      BY <1>7, <2>1, <2>3, <3>1, <3>2, <3>3
  <2>. QED
    BY <1>14, <2>2, <2>3 DEF CheckAttempts
<1>15. CASE FlushFault(f)
  <2>1. /\ UNCHANGED <<memory, enq, accepted, dropped, delivered, exposed>>
        /\ \/ flush' = [flush EXCEPT ![f] = IdleFlush]
           \/ flush' = [flush EXCEPT ![f] = [task EXCEPT !.pc = "bump"]] /\ ~ContinueOnError
    BY <1>15 DEF FlushFault
  <2>2. [task EXCEPT !.pc = "bump"].pc = "bump"
    BY <1>t DEF FlushTask
  <2>. QED
    BY <1>e, <1>s, <2>1, <2>2 DEF GoesOn
<1>16. CASE ClearMemory
  <2>1. /\ memory' = {} /\ dropped' = dropped \cup memory \cup disk
        /\ UNCHANGED <<enq, flush, accepted, delivered, exposed>> /\ ~Flushing
    BY <1>16 DEF ClearMemory
  <2>2. flush'[f].pc = "idle"
    BY <1>t, <2>1 DEF Flushing
  <2>3. Kept' /\ SendingFront(f)'
    BY <2>1, <2>2 DEF Kept, SendingFront, GoesOn
  <2>. QED
    BY <2>3
<1>17. CASE ClearDisk
  BY <1>17, <1>f, <1>k DEF ClearDisk
<1>18. CASE UNCHANGED vars
  BY <1>18, <1>f, <1>k DEF vars
<1>19. ~Crash /\ ~Restart
  BY DEF Crash, Restart
<1>. QED
  BY <1>1, <1>2, <1>3, <1>4, <1>5, <1>8, <1>9, <1>11, <1>12, <1>13, <1>14, <1>15, <1>16,
     <1>17, <1>18, <1>19 DEF StepBy, FlushStep

LivingInv == up /\ mishap # "array" => (\A f \in Flushers : SendingFront(f)) /\ Kept

\* The process comes up, or finds the array in order again.
LEMMA LivingAnew ==
  ASSUME DurableInd, [Next]_vars, up', mishap' # "array", ~up \/ mishap = "array"
  PROVE  (\A f \in Flushers : SendingFront(f)') /\ Kept'
<1>i. TypeInv /\ Numbered /\ Durable /\ flush \in [Flushers -> FlushTask] /\ issued \in Nat
  BY DurableIndMeans, TypeInvByTask DEF DurableInd, DurableInv
<1>s. ASSUME flush' = flush, ~Flushing PROVE \A f \in Flushers : SendingFront(f)'
  BY <1>s DEF SendingFront, GoesOn, Flushing
<1>n. accepted \subseteq 1 .. issued
  BY <1>i DEF Numbered
<1>1. CASE ~up
  <2>1. /\ mishap = "none" /\ enq.pc = "idle" /\ ~Flushing /\ ~clearing
        /\ \A f \in Flushers : flush[f].pc = "idle"
    BY <1>1, <1>i DEF Numbered, Flushing
  <2>2. Restart
    <3>1. ~Enqueue /\ ~EnqueueSelect /\ ~EnqueueDelete /\ ~EnqueueInsert /\ ~EnqueueFault
      BY <1>1, <2>1 DEF Enqueue, EnqueueSelect, EnqueueDelete, EnqueueInsert, EnqueueFault
    <3>2. ASSUME NEW f \in Flushers
          PROVE  ~(FlushStart(f) \/ Deliver(f) \/ SendFails(f) \/ FlushStep(f) \/ FlushFault(f))
      BY <1>1, <2>1 DEF FlushStart, Deliver, SendFails, FlushFault, FlushStep, Acknowledge,
                        FlushSelect, FlushDelete, BumpAttempts, CheckAttempts
    <3>3. ~ClearMemory /\ ~ClearDisk /\ ~Crash /\ ~(UNCHANGED vars)
      BY <1>1, <2>1 DEF ClearMemory, ClearDisk, Crash, vars
    <3>. QED
      BY <3>1, <3>2, <3>3 DEF Next
  <2>3. /\ UNCHANGED <<issued, enq, flush, accepted, dropped, delivered>>
        /\ (memory' = disk /\ exposed' = exposed) \/ exposed' = issued
    BY <2>2 DEF Restart
  <2>4. Kept'
    <3>1. CASE memory' = disk /\ exposed' = exposed
      BY <1>i, <2>1, <2>3, <3>1 DEF Durable, Safe, Handled, Kept
    <3>2. CASE exposed' = issued
      BY <1>i, <1>n, <2>1, <2>3, <3>2 DEF Kept
    <3>. QED
      BY <2>3, <3>1, <3>2
  <2>. QED
    BY <1>s, <2>1, <2>3, <2>4
<1>2. CASE up /\ mishap = "array"
  <2>1. Enqueue /\ ~Flushing
    BY <1>2, <1>i, ArrayOver DEF Crash
  <2>2. /\ UNCHANGED <<flush, accepted, delivered>> /\ exposed' = issued /\ enq'.item = issued + 1
        /\ \/ memory' = memory \cup {issued + 1}
           \/ /\ memory' = Shift(memory \cup {issued + 1})
              /\ dropped' = dropped \cup {Oldest(memory \cup {issued + 1})}
    BY <1>2, <2>1 DEF Enqueue
  <2>3. Kept'
    BY <1>i, <1>n, <2>2 DEF Kept, Shift
  <2>. QED
    BY <1>s, <2>1, <2>2, <2>3
<1>. QED
  BY <1>1, <1>2

LEMMA LivingInvStep ==
  ASSUME DurableInd, LivingInv, [Next]_vars
  PROVE  LivingInv'
<1> SUFFICES ASSUME up', mishap' # "array"
             PROVE  (\A f \in Flushers : SendingFront(f)') /\ Kept'
  BY DEF LivingInv
<1>1. CASE up /\ mishap # "array"
  <2>1. PICK f \in Flushers : Alone(f) /\ StepBy(f)
    BY <1>1, Owner DEF DurableInd
  <2>2. SendingFront(f)' /\ Kept'
    BY <1>1, <2>1, LivingStep DEF DurableInd, LivingInv
  <2>3. Alone(f)'
    BY <2>1, AloneStep DEF DurableInd
  <2>4. ASSUME NEW g \in Flushers, g # f PROVE SendingFront(g)'
    BY <2>3, <2>4 DEF Alone, SendingFront, GoesOn
  <2>. QED
    BY <2>2, <2>4
<1>2. CASE ~up \/ mishap = "array"
  BY <1>2, LivingAnew
<1>. QED
  BY <1>1, <1>2

(* Nothing vanishes while the process lives: until its calls get in each   *)
(* other's way, and again when that is over, an accepted report is queued, *)
(* delivered or given up, whichever database calls reject and whatever     *)
(* clear() empties.                                                        *)
THEOREM NeverLostCorrect == Spec => []NeverLost
<1>1. Init => DurableInd /\ LivingInv
  <2>1. ASSUME Init PROVE LivingInv
    <3>1. \A f \in Flushers : flush[f].pc = "idle"
      BY <2>1 DEF Init, IdleFlush
    <3>. QED
      BY <2>1, <3>1 DEF Init, LivingInv, SendingFront, GoesOn, Kept, IdleEnq
  <2>. QED
    BY <2>1, DurableIndInit
<1>2. DurableInd /\ LivingInv /\ [Next]_vars => (DurableInd /\ LivingInv)'
  BY DurableIndStep, LivingInvStep
<1>3. LivingInv => NeverLost
  BY QueueAssumption DEF LivingInv, Kept, NeverLost, Safe, Handled
<1>. QED
  BY <1>1, <1>2, <1>3, PTL DEF Spec
=============================================================================
