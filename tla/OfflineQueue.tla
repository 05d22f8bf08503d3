---------------------------- MODULE OfflineQueue ----------------------------
(***************************************************************************)
(* The agent's persistent report queue: agent/src/logging/offline-queue.ts *)
(*                                                                         *)
(* The queue keeps its items twice, in the array inMemoryQueue and in the  *)
(* rows of the SQLite table offline_queue.  Every database call is awaited, *)
(* so an enqueue, a flush and a clear interleave at each of their awaits.  *)
(*                                                                         *)
(* Reports are numbered in the order they are handed to enqueue().  The    *)
(* array is only pushed at its end and shifted at its front, and rows are  *)
(* read back in creation order, so both are represented by the SET of the  *)
(* numbers they hold: the front is the smallest number.                    *)
(***************************************************************************)
EXTENDS Naturals, FiniteSets

CONSTANTS
  Flushers,        \* calls of flush() that may be running at the same time
  MaxSize,         \* maxSize of the queue (1000 for 'state-reports')
  MaxReports,      \* bound: number of reports handed to enqueue()
  MaxRetries,      \* options.maxRetries of flush()
  ContinueOnError, \* options.continueOnError of flush()
  DiskFaults,      \* may a database call reject?
  Crashes,         \* may the agent process die and restart?
  Clears           \* may clear() be called?

ASSUME QueueAssumption ==
  /\ Flushers # {}
  /\ MaxSize \in Nat \ {0}
  /\ MaxReports \in Nat
  /\ MaxRetries \in Nat \ {0}
  /\ {ContinueOnError, DiskFaults, Crashes, Clears} \subseteq BOOLEAN

Report == 1 .. MaxReports
None == 0                          \* no report

VARIABLES
  up,        \* the process runs and the queue is initialised
  memory,    \* inMemoryQueue
  disk,      \* rows of offline_queue
  attempts,  \* column attempts, at most MaxRetries matters
  issued,    \* number of reports handed to enqueue() so far
  enq,       \* the running enqueue(): [pc, item, victim]
  flush,     \* the running flush() calls: [pc, todo, done, victim] each
  clearing,  \* clear() has emptied the array and awaits the DELETE
  accepted,  \* history: reports whose enqueue() resolved
  dropped,   \* history: reports given up by eviction, clear() or max retries
  delivered, \* history: reports the cloud has received
  mishap,    \* history: what the calls of this process have done to each other
  exposed    \* history: reports up to this one were queued beside a mishap

vars == <<up, memory, disk, attempts, issued, enq, flush, clearing,
          accepted, dropped, delivered, mishap, exposed>>

(***************************************************************************)
(* The report loop awaits its flush (sync.ts:751), the online handler does *)
(* not (sync.ts:139), so two flushes may send the same copy, and the loop  *)
(* may evict under the handler's flush: each call then shifts an item that *)
(* the other has sent, or nobody has.  The queue loses reports that way.   *)
(* mishap records that calls got in each other's way and how far it goes:  *)
(*   "disk"   a database call rejected, or clear() ran: the rows may not   *)
(*            match the array;                                             *)
(*   "array"  flushes overlapped, or one was under way when an item was    *)
(*            evicted or the array cleared, or went on after its own       *)
(*            removal had failed: the array may lack an item as well.      *)
(* It is over when the process dies, or when the next report finds no call *)
(* running and the array and the rows agree; the reports issued until then *)
(* are exposed.  Both variables only record: no guard reads them.          *)
(***************************************************************************)
Worse(m) == IF mishap = "array" THEN "array" ELSE m

\* Defect: the newest item is taken instead of the oldest.
OldestIsNewest(S) == IF S = {} THEN None ELSE CHOOSE r \in S : \A q \in S : r >= q

Oldest(S) == IF S = {} THEN None ELSE CHOOSE r \in S : \A q \in S : r <= q

\* array.shift(): nothing happens on an empty array
Shift(S) == S \ {Oldest(S)}

\* items[index] of the rows in creation order, None past the end
RowAt(index) ==
  IF \E r \in disk : Cardinality({q \in disk : q < r}) = index
  THEN CHOOSE r \in disk : Cardinality({q \in disk : q < r}) = index
  ELSE None

IdleEnq == [pc |-> "idle", item |-> None, victim |-> None]
IdleFlush == [pc |-> "idle", todo |-> {}, done |-> 0, victim |-> None, dropping |-> FALSE]

TypeOK ==
  /\ up \in BOOLEAN
  /\ memory \in SUBSET Report
  /\ disk \in SUBSET Report
  /\ attempts \in [Report -> 0 .. MaxRetries]
  /\ issued \in 0 .. MaxReports
  /\ enq \in [pc : {"idle", "select", "delete", "insert"},
              item : Report \cup {None}, victim : Report \cup {None}]
  /\ flush \in [Flushers ->
                 [pc : {"idle", "send", "acking", "select", "delete", "bump", "check"},
                  todo : SUBSET Report, done : 0 .. MaxReports, victim : Report \cup {None},
                  dropping : BOOLEAN]]
  /\ clearing \in BOOLEAN
  /\ accepted \in SUBSET Report
  /\ dropped \in SUBSET Report
  /\ delivered \in SUBSET Report
  /\ mishap \in {"none", "disk", "array"}
  /\ exposed \in 0 .. MaxReports

Init ==
  /\ up = TRUE
  /\ memory = {} /\ disk = {}
  /\ attempts = [r \in Report |-> 0]
  /\ issued = 0
  /\ enq = IdleEnq
  /\ flush = [f \in Flushers |-> IdleFlush]
  /\ clearing = FALSE
  /\ accepted = {} /\ dropped = {} /\ delivered = {}
  /\ mishap = "none" /\ exposed = 0

Flushing == \E f \in Flushers : flush[f].pc # "idle"

\* No call is running and the array and the rows hold the same reports.
Settled == enq.pc = "idle" /\ ~Flushing /\ ~clearing /\ memory = disk
-----------------------------------------------------------------------------
(***************************************************************************)
(* enqueue(): push, evict the front when over the limit, then the awaited  *)
(* database calls.  Only the report loop enqueues, so one call at a time.  *)
(***************************************************************************)
Enqueue ==
  LET r == issued + 1
      pushed == memory \cup {r}
      full == Cardinality(pushed) > MaxSize
  IN /\ up /\ enq.pc = "idle" /\ issued < MaxReports
     /\ issued' = r
     /\ memory' = IF full THEN Shift(pushed) ELSE pushed
     /\ dropped' = IF full THEN dropped \cup {Oldest(pushed)} ELSE dropped
     /\ enq' = [pc |-> IF full THEN "select" ELSE "insert", item |-> r, victim |-> None]
     /\ mishap' = IF full /\ Flushing THEN "array" ELSE IF Settled THEN "none" ELSE mishap
     /\ exposed' = IF Settled /\ mishap # "none" THEN issued ELSE exposed
     /\ UNCHANGED <<up, disk, attempts, flush, clearing, accepted, delivered>>

EnqueueSelect ==
  /\ enq.pc = "select"
  /\ enq' = [enq EXCEPT !.pc = IF disk = {} THEN "insert" ELSE "delete",
                        !.victim = Oldest(disk)]
  /\ UNCHANGED <<up, memory, disk, attempts, issued, flush, clearing,
                 accepted, dropped, delivered, mishap, exposed>>

EnqueueDelete ==
  /\ enq.pc = "delete"
  /\ disk' = disk \ {enq.victim}
  /\ enq' = [enq EXCEPT !.pc = "insert"]
  /\ UNCHANGED <<up, memory, attempts, issued, flush, clearing, accepted,
                 dropped, delivered, mishap, exposed>>

EnqueueInsert ==
  /\ enq.pc = "insert"
  /\ disk' = disk \cup {enq.item}
  /\ attempts' = [attempts EXCEPT ![enq.item] = 0]
  /\ accepted' = accepted \cup {enq.item}
  /\ enq' = IdleEnq
  /\ UNCHANGED <<up, memory, issued, flush, clearing, dropped, delivered,
                 mishap, exposed>>

\* A database call of enqueue() rejects: the caller gets the error, the array
\* keeps the item.
EnqueueFault ==
  /\ DiskFaults /\ enq.pc # "idle"
  /\ enq' = IdleEnq
  /\ mishap' = Worse("disk")
  /\ UNCHANGED <<up, memory, disk, attempts, issued, flush, clearing,
                 accepted, dropped, delivered, exposed>>
-----------------------------------------------------------------------------
(***************************************************************************)
(* flush(): sends a copy of the array item by item.                        *)
(***************************************************************************)
FlushStart(f) ==
  /\ up /\ flush[f].pc = "idle" /\ memory # {}
  /\ flush' = [flush EXCEPT ![f] = [IdleFlush EXCEPT !.pc = "send", !.todo = memory]]
  /\ mishap' = IF Flushing THEN "array" ELSE mishap
  /\ UNCHANGED <<up, memory, disk, attempts, issued, enq, clearing,
                 accepted, dropped, delivered, exposed>>

\* sendFn reaches the cloud; its answer is still on the way.
Deliver(f) ==
  /\ flush[f].pc = "send"
  /\ delivered' = delivered \cup {Oldest(flush[f].todo)}
  /\ flush' = [flush EXCEPT ![f].pc = "acking"]
  /\ UNCHANGED <<up, memory, disk, attempts, issued, enq, clearing,
                 accepted, dropped, mishap, exposed>>

\* sendFn resolves: the FRONT of the array is shifted, whatever it now is.
Acknowledge(f) ==
  /\ flush[f].pc = "acking"
  /\ memory' = Shift(memory)
  /\ flush' = [flush EXCEPT ![f].pc = "select"]
  /\ UNCHANGED <<up, disk, attempts, issued, enq, clearing, accepted,
                 dropped, delivered, mishap, exposed>>

\* Defect: a failed send is treated like an acknowledged one.
SendFailsAcknowledged(f) ==
  /\ flush[f].pc \in {"send", "acking"}
  /\ memory' = Shift(memory)
  /\ flush' = [flush EXCEPT ![f].pc = "select"]
  /\ UNCHANGED <<up, disk, attempts, issued, enq, clearing, accepted,
                 dropped, delivered, mishap, exposed>>

\* sendFn rejects, before or after the cloud got the report.
SendFails(f) ==
  /\ flush[f].pc \in {"send", "acking"}
  /\ flush' = [flush EXCEPT ![f].pc = "bump"]
  /\ UNCHANGED <<up, memory, disk, attempts, issued, enq, clearing,
                 accepted, dropped, delivered, mishap, exposed>>

\* Defect: the loop does not advance past the item it has sent.
AdvancedNot(task) == [IdleFlush EXCEPT !.pc = "send", !.todo = task.todo,
                                       !.done = task.done + 1]

\* The next item of the copy, or the end of the loop.
Advanced(task) ==
  LET rest == Shift(task.todo)
  IN IF rest = {} THEN IdleFlush
     ELSE [IdleFlush EXCEPT !.pc = "send", !.todo = rest, !.done = task.done + 1]

\* removeOldestFromDisk(): first() and then the DELETE by id.
FlushSelect(f) ==
  /\ flush[f].pc = "select"
  /\ flush' = [flush EXCEPT ![f] = IF disk = {} THEN Advanced(@)
                                   ELSE [@ EXCEPT !.pc = "delete", !.victim = Oldest(disk)]]
  /\ UNCHANGED <<up, memory, disk, attempts, issued, enq, clearing,
                 accepted, dropped, delivered, mishap, exposed>>

FlushDelete(f) ==
  /\ flush[f].pc = "delete"
  /\ disk' = disk \ {flush[f].victim}
  /\ flush' = [flush EXCEPT ![f] = Advanced(@)]
  /\ UNCHANGED <<up, memory, attempts, issued, enq, clearing, accepted,
                 dropped, delivered, mishap, exposed>>

\* Defect: the failed flush never returns.
BumpAttemptsStuck(f) ==
  /\ flush[f].pc = "bump"
  /\ UNCHANGED vars

\* incrementAttempts(i): the row at the position the item had in the COPY.
\* Without continueOnError the flush stops here.
BumpAttempts(f) ==
  LET row == RowAt(flush[f].done)
  IN /\ flush[f].pc = "bump"
     /\ attempts' = IF row = None \/ attempts[row] = MaxRetries THEN attempts
                    ELSE [attempts EXCEPT ![row] = @ + 1]
     /\ flush' = [flush EXCEPT ![f] = IF ContinueOnError THEN [@ EXCEPT !.pc = "check"]
                                      ELSE IdleFlush]
     /\ UNCHANGED <<up, memory, disk, issued, enq, clearing, accepted,
                    dropped, delivered, mishap, exposed>>

\* getAttempts(i) >= maxRetries gives the front up, otherwise the flush stops.
CheckAttempts(f) ==
  LET row == RowAt(flush[f].done)
      exhausted == row # None /\ attempts[row] >= MaxRetries
  IN /\ flush[f].pc = "check"
     /\ memory' = IF exhausted THEN Shift(memory) ELSE memory
     /\ dropped' = IF exhausted THEN dropped \cup ({Oldest(memory)} \ {None}) ELSE dropped
     /\ flush' = [flush EXCEPT ![f] = IF exhausted
                                      THEN [@ EXCEPT !.pc = "select", !.dropping = TRUE]
                                      ELSE IdleFlush]
     /\ UNCHANGED <<up, disk, attempts, issued, enq, clearing, accepted,
                    delivered, mishap, exposed>>

\* A database call of flush() rejects: inside the try block it is handled like
\* a failed send; in the catch block flush() itself rejects.
FlushFault(f) ==
  LET caught == flush[f].pc \in {"select", "delete"} /\ ~flush[f].dropping
  IN /\ DiskFaults
     /\ flush[f].pc \in {"select", "delete", "bump", "check"}
     /\ flush' = [flush EXCEPT ![f] = IF caught THEN [@ EXCEPT !.pc = "bump"] ELSE IdleFlush]
     /\ mishap' = IF caught /\ ContinueOnError THEN "array" ELSE Worse("disk")
     /\ UNCHANGED <<up, memory, disk, attempts, issued, enq, clearing,
                    accepted, dropped, delivered, exposed>>
-----------------------------------------------------------------------------
(***************************************************************************)
(* clear(), the death of the process, and init() with loadFromDisk().      *)
(***************************************************************************)
ClearMemory ==
  /\ Clears /\ up /\ ~clearing
  /\ memory' = {}
  /\ dropped' = dropped \cup memory \cup disk
  /\ clearing' = TRUE
  /\ mishap' = IF Flushing THEN "array" ELSE Worse("disk")
  /\ UNCHANGED <<up, disk, attempts, issued, enq, flush, accepted, delivered, exposed>>

ClearDisk ==
  /\ clearing
  /\ disk' = {}
  /\ clearing' = FALSE
  /\ UNCHANGED <<up, memory, attempts, issued, enq, flush, accepted,
                 dropped, delivered, mishap, exposed>>

Crash ==
  /\ Crashes /\ up
  /\ up' = FALSE
  /\ memory' = {}
  /\ enq' = IdleEnq
  /\ flush' = [f \in Flushers |-> IdleFlush]
  /\ clearing' = FALSE
  /\ mishap' = "none"
  /\ exposed' = IF mishap = "none" THEN exposed ELSE issued
  /\ UNCHANGED <<disk, attempts, issued, accepted, dropped, delivered>>

\* Defect: rows that were tried before are not read back.
RestartWithoutRetried ==
  /\ ~up
  /\ up' = TRUE
  /\ memory' = {r \in disk : attempts[r] = 0}
  /\ UNCHANGED <<disk, attempts, issued, enq, flush, clearing, accepted,
                 dropped, delivered, mishap, exposed>>

\* A failed load is logged and leaves the array empty.
Restart ==
  /\ ~up
  /\ up' = TRUE
  /\ \/ memory' = disk /\ UNCHANGED <<mishap, exposed>>
     \/ DiskFaults /\ memory' = {} /\ mishap' = "disk" /\ exposed' = issued
  /\ UNCHANGED <<disk, attempts, issued, enq, flush, clearing, accepted,
                 dropped, delivered>>

FlushStep(f) ==
  \/ Acknowledge(f) \/ FlushSelect(f) \/ FlushDelete(f)
  \/ BumpAttempts(f) \/ CheckAttempts(f)

Next ==
  \/ Enqueue \/ EnqueueSelect \/ EnqueueDelete \/ EnqueueInsert \/ EnqueueFault
  \/ \E f \in Flushers : \/ FlushStart(f) \/ Deliver(f) \/ SendFails(f)
                         \/ FlushStep(f) \/ FlushFault(f)
  \/ ClearMemory \/ ClearDisk \/ Crash \/ Restart

Spec == Init /\ [][Next]_vars

(***************************************************************************)
(* Every started call gets through its awaits; whenever no flush is under  *)
(* way and the queue is not empty one is started (sync.ts flushes after    *)
(* each successful report); the cloud does not refuse or time out for      *)
(* ever.  Nothing says that a second flush must start beside the first.    *)
(***************************************************************************)
Fairness ==
  /\ WF_vars(EnqueueSelect) /\ WF_vars(EnqueueDelete) /\ WF_vars(EnqueueInsert)
  /\ WF_vars(~Flushing /\ \E f \in Flushers : FlushStart(f))
  /\ \A f \in Flushers :
       /\ WF_vars(FlushStep(f))
       /\ SF_vars(Deliver(f))
       /\ SF_vars(Acknowledge(f))

FairSpec == Spec /\ Fairness
-----------------------------------------------------------------------------
Handled == delivered \cup dropped

\* The accepted reports that no mishap has come near.
Safe == {r \in accepted : r > exposed}

(* As long as nothing has gone wrong in this process, a report whose       *)
(* enqueue() resolved, after the last mishap, is on disk until the cloud   *)
(* has it or the queue gave it up on purpose.                              *)
Durable == mishap = "none" => Safe \subseteq disk \cup Handled

(* Whatever database calls reject and whenever the queue is cleared, as    *)
(* long as no two calls have shifted each other's items nothing vanishes   *)
(* from a running process: such a report is in the array until the cloud   *)
(* has it or it is given up.                                               *)
NeverLost == up /\ mishap # "array" => Safe \subseteq memory \cup Handled

(* FIFO: the cloud never gets a report for the first time after a newer    *)
(* one, unless it is one the queue had already given up (its row can still *)
(* be there when the process restarts) or one of a mishap.                 *)
FirstDeliveryInOrder ==
  [][mishap = "none" =>
       \A new \in delivered' \ Handled, old \in delivered : new > exposed => old < new]_vars

(* While the process stays up, every accepted report reaches the cloud or  *)
(* is given up; one that a mishap has met leaves the array all the same:   *)
(* overlapping flushes may lose reports but never block the queue.         *)
Drains ==
  <>[]up => \A r \in Report :
              r \in accepted ~> \/ r \in Handled
                                \/ r \notin memory /\ (mishap # "none" \/ r <= exposed)

(* The queue implements the buffer of ReportBuffer: what it still holds is *)
(* what the array or a row has and nobody has disposed of.  Whatever the   *)
(* awaits, crashes and restarts in between, first deliveries take the      *)
(* oldest report held, and only a report whose enqueue() has not resolved  *)
(* can be forgotten; during a mishap all bets are off but one: what is     *)
(* accepted, delivered or given up stays so.                               *)
Held == (memory \cup disk) \ Handled

Buffer == INSTANCE ReportBuffer WITH Reports <- Report, held <- Held, givenUp <- dropped,
                                     sound <- mishap = "none"

BufferSpec == Buffer!Spec
-----------------------------------------------------------------------------
(***************************************************************************)
(* Why Durable holds until a mishap.  removeOldestFromDisk() deletes the   *)
(* oldest row, not the row of the report just handled; that is right only  *)
(* because every surplus row belongs to a report already handled and is    *)
(* older than all reports still in the array.                              *)
(***************************************************************************)
\* Rows whose report has left the array.
Surplus == disk \ memory

EnqVictims == IF enq.pc = "delete" THEN {enq.victim} ELSE {}
FlushVictims == {flush[f].victim : f \in {g \in Flushers : flush[g].pc = "delete"}}

\* The report being inserted was flushed before its row exists.
InsertOvertaken == enq.pc # "idle" /\ enq.item \notin memory

\* What a flush has still to send.
Left(task) == IF task.pc \in {"select", "delete"} THEN Shift(task.todo) ELSE task.todo

Numbered ==
  /\ memory \cup disk \cup accepted \cup Handled \subseteq 1 .. issued
  /\ exposed <= issued
  /\ enq.pc # "idle" => up /\ enq.item = issued /\ issued \notin disk \cup accepted /\ issued # 0
  /\ enq.pc = "idle" => enq.item = None
  /\ ~up => memory = {} /\ ~Flushing /\ ~clearing /\ mishap = "none"

\* A flush sends nothing that was not queued.
CopiesNumbered == \A f \in Flushers : flush[f].todo \subseteq 1 .. issued

\* Until two calls get in each other's way at most one flush is under way.
OneFlush ==
  mishap # "array" =>
    \A f, g \in Flushers : flush[f].pc # "idle" /\ flush[g].pc # "idle" => f = g

\* What the running process would still send is also on disk, so a crash
\* loses nothing that is queued: every array item but the one being
\* inserted has its row.
MemoryBacked == memory \subseteq disk \cup {enq.item}

SurplusHandled ==
  up => /\ Surplus \subseteq Handled
        /\ \A s \in Surplus, m \in memory : s < m
        /\ InsertOvertaken => memory = {} /\ enq.item \in Handled

\* A pending removal finds a surplus row that no other removal is about to take.
RemovalsCovered ==
  /\ EnqVictims \cup FlushVictims \subseteq Handled \ memory
  /\ ~InsertOvertaken =>
       /\ enq.pc = "select" => Surplus \ FlushVictims # {}
       /\ \A f \in Flushers :
            flush[f].pc = "select" =>
              /\ Surplus \ EnqVictims # {}
              /\ enq.pc = "select" => \E r, s \in Surplus : r # s

CopyInStep ==
  \A f \in Flushers :
    /\ flush[f].pc = "idle" => flush[f].todo = {}
    /\ Left(flush[f]) \subseteq memory
    /\ \A m \in memory \ Left(flush[f]), t \in Left(flush[f]) : t < m
    /\ flush[f].pc = "acking" => Oldest(flush[f].todo) \in delivered

(* The inductive invariant behind Durable: until a mishap a removal always *)
(* takes the row of a report that has been handled.                        *)
DurableInv ==
  /\ Numbered /\ CopiesNumbered /\ OneFlush /\ Durable
  /\ mishap = "none" =>
       ~clearing /\ SurplusHandled /\ RemovalsCovered /\ CopyInStep /\ MemoryBacked
=============================================================================
