---------------------------- MODULE ReportBuffer ----------------------------
(***************************************************************************)
(* What the queue of agent/src/logging/offline-queue.ts promises to the    *)
(* report loop, without arrays, rows, awaits or retries: a buffer that     *)
(* hands its reports to the cloud oldest first and at least once, and that *)
(* forgets, when the process dies, only reports it has not accepted yet.   *)
(* The promise is off while the buffer is not sound: its users have got in *)
(* each other's way.  OfflineQueue implements it (its property BufferSpec). *)
(***************************************************************************)
EXTENDS Naturals

CONSTANT Reports    \* the numbers of the reports, in the order they are made

VARIABLES
  held,       \* reports still to be handed to the cloud
  accepted,   \* reports whose caller was told that they are safe
  delivered,  \* reports the cloud has received
  givenUp,    \* reports dropped on purpose
  sound       \* the promise is on

vars == <<held, accepted, delivered, givenUp, sound>>

Gone == delivered \cup givenUp

\* r is the oldest of S.
Front(r, S) == r \in S /\ \A q \in S : r <= q

Init == held = {} /\ accepted = {} /\ delivered = {} /\ givenUp = {} /\ sound = TRUE

\* A report is offered; it is younger than every report before it.
Offer(r) ==
  /\ \A q \in held \cup accepted \cup Gone : q < r
  /\ held' = held \cup {r}
  /\ UNCHANGED <<accepted, delivered, givenUp>>

\* The buffer is full: the oldest report makes room, or one that is gone
\* already but still took up space.
OfferWhenFull(r) ==
  /\ \A q \in held \cup accepted \cup Gone : q < r
  /\ \E victim \in held \cup Gone \cup {r} :
       /\ victim \in Gone \/ Front(victim, held \cup {r})
       /\ held' = (held \cup {r}) \ {victim}
       /\ givenUp' = givenUp \cup {victim}
  /\ UNCHANGED <<accepted, delivered>>

Accept(r) ==
  /\ r \in held \cup Gone
  /\ accepted' = accepted \cup {r}
  /\ UNCHANGED <<held, delivered, givenUp>>

\* First deliveries take the oldest report; what is gone may be sent again.
Deliver(r) ==
  /\ r \in Gone \/ Front(r, held)
  /\ held' = held \ {r}
  /\ delivered' = delivered \cup {r}
  /\ UNCHANGED <<accepted, givenUp>>

GiveUp(r) ==
  /\ r \in Gone \/ Front(r, held)
  /\ held' = held \ {r}
  /\ givenUp' = givenUp \cup {r}
  /\ UNCHANGED <<accepted, delivered>>

\* The process dies: a report that was not accepted may be forgotten.
Die ==
  /\ \E lost \in SUBSET (held \ accepted) : held' = held \ lost
  /\ UNCHANGED <<accepted, delivered, givenUp>>

Kept ==
  /\ sound /\ sound'
  /\ \/ \E r \in Reports : Offer(r) \/ OfferWhenFull(r)
     \/ \E r \in held \cup Gone : Accept(r) \/ Deliver(r) \/ GiveUp(r)
     \/ Die

\* The promise is off before or after the step; what has happened stays so.
Muddle ==
  /\ ~(sound /\ sound')
  /\ accepted \subseteq accepted' /\ delivered \subseteq delivered' /\ givenUp \subseteq givenUp'

Next == Kept \/ Muddle

Spec == Init /\ [][Next]_vars
=============================================================================
