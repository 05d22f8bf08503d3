-------------------------- MODULE TargetSyncProofs -------------------------
(***************************************************************************)
(* Proofs about TargetSync, for any number of apps and config objects,     *)
(* versions and clients.                                                   *)
(***************************************************************************)
EXTENDS TargetSync, TLAPS

\* Where the saving of a target has got to: which of the snapshot, the two
\* hashes and the managed apps already agree with the target or one another.
\* The hashes do so whatever has been rejected, the snapshot does not.
SavedBefore ==
  up /\ ~unsaved /\ phase \in {"idle", "answered", "deleteBoth"} =>
    /\ snapshot.content.apps = managed
    /\ savedHash.content.apps = managed

SavedBoth ==
  up /\ phase \in {"insertBoth", "setApps", "deleteApps", "insertApps", "apply"} =>
    savedHash = Both(target)

SavedApps ==
  up /\ ~unsaved /\ phase \in {"setApps", "apply"} => snapshot.content.apps = target.apps

ManagedApps ==
  up /\ phase \in {"deleteApps", "insertApps", "apply"} => managed = target.apps

SaveInv ==
  /\ phase \in Phases /\ (up \/ phase = "idle")
  /\ SavedBefore /\ SavedBoth /\ SavedApps /\ ManagedApps

LEMMA Bounds ==
  /\ 0 \in 0 .. MaxApps /\ 0 \in 0 .. MaxConfig
  /\ 0 \in 0 .. MaxVersion /\ 1 \in 0 .. MaxVersion
  BY RowAssumption

LEMMA EmptyContent == Empty \in Content /\ NoRequest \in Request
  BY RowAssumption DEF Empty, Content, NoRequest, Request, Kinds

\* One step per operation of the API; each writes a content it was given.
LEMMA RowTypes == RowTypeOK /\ RowNext => RowTypeOK'
<1> SUFFICES ASSUME RowTypeOK, RowNext PROVE RowTypeOK'
  OBVIOUS
<1> USE RowAssumption, EmptyContent, Bounds DEF RowTypeOK
<1>n. row.version < MaxVersion => row.version + 1 \in 0 .. MaxVersion
  OBVIOUS
<1>1. CASE Clear
  BY <1>1 DEF Clear
<1>2. ASSUME NEW c \in Clients, Read(c) PROVE RowTypeOK'
  BY <1>2 DEF Read, Request
<1>3. ASSUME NEW c \in Clients, Set(c) PROVE RowTypeOK'
  <2>1. request[c].content \in Content
    BY DEF Request
  <2>2. row' \in [version : 0 .. MaxVersion, content : Content, needs : BOOLEAN,
                  deployed : BOOLEAN]
    <3>1. (IF Exists THEN row.version ELSE 1) \in 0 .. MaxVersion
      OBVIOUS
    <3>2. QED
      BY <1>3, <2>1, <3>1 DEF Set
  <2>3. QED
    BY <1>3, <2>2 DEF Set, Done
<1>4. ASSUME NEW c \in Clients, SaveDraft(c) PROVE RowTypeOK'
  <2>1. request[c].content \in Content
    BY DEF Request
  <2>2. [row.content EXCEPT !.config = request[c].content.config] \in Content
    BY <2>1 DEF Content
  <2>3. row' \in [version : 0 .. MaxVersion, content : Content, needs : BOOLEAN,
                  deployed : BOOLEAN]
    <3>1. (IF Exists THEN row.version ELSE 1) \in 0 .. MaxVersion
      OBVIOUS
    <3>2. QED
      BY <1>4, <2>1, <2>2, <3>1 DEF SaveDraft
  <2>4. QED
    BY <1>4, <2>3 DEF SaveDraft, Done
<1>5. ASSUME NEW c \in Clients, UpdateSensors(c) PROVE RowTypeOK'
  <2>1. request[c].content \in Content
    BY DEF Request
  <2>2. row' \in [version : 0 .. MaxVersion, content : Content, needs : BOOLEAN,
                  deployed : BOOLEAN]
    BY <1>5, <1>n, <2>1 DEF UpdateSensors
  <2>3. QED
    BY <1>5, <2>1, <2>2 DEF UpdateSensors, Done
<1>6. ASSUME NEW c \in Clients, Deploy(c) PROVE RowTypeOK'
  BY <1>6, <1>n DEF Deploy, Done
<1>7. ASSUME NEW c \in Clients, Cancel(c) PROVE RowTypeOK'
  <2>1. PICK restored \in Content :
          row' = [row EXCEPT !.needs = FALSE, !.content = restored]
    BY <1>7 DEF Cancel
  <2>2. row' \in [version : 0 .. MaxVersion, content : Content, needs : BOOLEAN,
                  deployed : BOOLEAN]
    BY <2>1
  <2>3. QED
    BY <1>7, <2>2 DEF Cancel, Done
<1>8. QED
  BY <1>1, <1>2, <1>3, <1>4, <1>5, <1>6, <1>7 DEF RowNext

\* What the agent keeps: tags, contents and saved targets.
LEMMA AgentValues ==
  ASSUME TypeOK
  PROVE  /\ TagOf(row) \in Tags /\ NoTag.content \in Content
         /\ answer.content \in Content /\ snapshot.content \in Content
         /\ answer \in Tags => VersionOf(answer) \in 0 .. MaxVersion
         /\ Both(target) \in Saved /\ OnlyApps(target) \in Saved
<1> USE RowAssumption, EmptyContent DEF TypeOK
<1>1. TagOf(row) \in Tags
  BY DEF TagOf, Tags, RowTypeOK
<1>2. NoTag.content \in Content /\ Nothing.content \in Content
  BY DEF NoTag, Nothing
<1>3. answer.content \in Content
  BY <1>2 DEF Tags
<1>4. \A s \in Saved : s.content \in Content
  BY DEF Saved, Content
<1>5. snapshot.content \in Content
  BY <1>2, <1>4
<1>6. answer \in Tags => VersionOf(answer) \in 0 .. MaxVersion
  BY DEF VersionOf, Tags
<1>7. Both(target) \in Saved
  BY DEF Both, Saved
<1>8. OnlyApps(target) \in Saved
  BY DEF OnlyApps, Saved, Content
<1>9. QED
  BY <1>1, <1>2, <1>3, <1>5, <1>6, <1>7, <1>8

\* An answer is on its way in the phase that waits for it, and only then.
Awaited == answer \in Tags <=> phase = "answered"

(* Every variable keeps its type, for every choice of the constants.       *)
THEOREM TypeCorrect == Spec => []TypeOK
<1>1. Init => TypeOK /\ Awaited
  <2> SUFFICES ASSUME Init PROVE TypeOK /\ Awaited
    OBVIOUS
  <2>1. RowTypeOK
    BY EmptyContent, Bounds DEF Init, RowInit, RowTypeOK
  <2>2. TypeOK
    BY <2>1, EmptyContent, Bounds DEF Init, TypeOK, Phases
  <2>3. Awaited
    BY RowAssumption DEF Init, Awaited, NoTag, Tags
  <2>4. QED
    BY <2>2, <2>3
<1>2. TypeOK /\ Awaited /\ [Next]_vars => (TypeOK /\ Awaited)'
  <2> SUFFICES ASSUME TypeOK, Awaited, [Next]_vars PROVE TypeOK' /\ Awaited'
    OBVIOUS
  <2>t. NoTag \notin Tags
    BY RowAssumption DEF NoTag, Tags
  <2>1. CASE Cloud
    BY <2>1, RowTypes DEF Cloud, agentVars, TypeOK, Awaited
  <2>2. CASE Poll
    BY <2>2, AgentValues DEF Poll, TypeOK, Awaited, rowVars, RowTypeOK, Phases
  <2>3. CASE AnswerLost \/ BodyLost
    BY <2>3, <2>t DEF AnswerLost, BodyLost, TypeOK, Awaited, rowVars, RowTypeOK, Phases
  <2>4. CASE Receive
    BY <2>4, <2>t, AgentValues DEF Receive, TypeOK, Awaited, rowVars, RowTypeOK, Phases
  <2>5. CASE Save
    <3>1. managed' \in 0 .. MaxApps
      <4>1. managed' \in {managed, target.apps}
        BY <2>5 DEF Save, DeleteBoth, InsertBoth, SetApps, DeleteApps, InsertApps, Apply
      <4>2. QED
        BY <4>1 DEF TypeOK, Content
    <3>2. {savedHash', appsHash', snapshot'} \subseteq Saved \cup {Nothing}
      BY <2>5, AgentValues DEF Save, DeleteBoth, InsertBoth, SetApps, DeleteApps,
                               InsertApps, Apply, TypeOK
    <3>3. /\ UNCHANGED <<rowVars, up, answer, etag, target, version, torn>>
          /\ unsaved' \in BOOLEAN
          /\ phase' \in Phases \ {"answered"} /\ phase # "answered"
      BY <2>5 DEF Save, DeleteBoth, InsertBoth, SetApps, DeleteApps, InsertApps, Apply,
                  Phases, TypeOK
    <3>4. QED
      BY <3>1, <3>2, <3>3 DEF TypeOK, Awaited, rowVars, RowTypeOK
  <2>6. CASE Crash
    BY <2>6, <2>t, EmptyContent, Bounds
       DEF Crash, TypeOK, Awaited, rowVars, RowTypeOK, Phases
  <2>7. CASE Restart
    <3>1. \A loaded \in {snapshot, Nothing} : loaded.content.apps \in 0 .. MaxApps
      BY AgentValues, EmptyContent DEF Content, Nothing
    <3>2. QED
      BY <2>7, <3>1 DEF Restart, TypeOK, Awaited, rowVars, RowTypeOK, Phases
  <2>8. CASE UNCHANGED vars
    BY <2>8 DEF vars, agentVars, rowVars, TypeOK, Awaited, RowTypeOK
  <2>9. QED
    BY <2>1, <2>2, <2>3, <2>4, <2>5, <2>6, <2>7, <2>8 DEF Next
<1>3. QED
  BY <1>1, <1>2, PTL DEF Spec

(* The tag vouches for the target unless a body was lost, in every         *)
(* reachable state, for every choice of the constants.                     *)
THEOREM TagCoherentCorrect == Spec => []TagCoherent
<1>1. Init => TagCoherent
  BY DEF Init, TagCoherent
<1>2. TagCoherent /\ [Next]_vars => TagCoherent'
  <2> SUFFICES ASSUME TagCoherent, [Next]_vars PROVE TagCoherent'
    OBVIOUS
  <2>1. CASE Receive
    BY <2>1 DEF TagCoherent, Receive
  <2>2. CASE Crash
    BY <2>2 DEF TagCoherent, Crash
  <2>3. CASE Restart
    BY <2>3 DEF TagCoherent, Restart
  <2>4. CASE Save
    BY <2>4 DEF TagCoherent, Save, DeleteBoth, InsertBoth, SetApps, DeleteApps,
                InsertApps, Apply
  <2>5. CASE Poll \/ AnswerLost \/ BodyLost \/ Cloud \/ UNCHANGED vars
    BY <2>5 DEF TagCoherent, Poll, AnswerLost, BodyLost, Cloud, agentVars, vars
  <2>6. QED
    BY <2>1, <2>2, <2>3, <2>4, <2>5 DEF Next
<1>3. QED
  BY <1>1, <1>2, PTL DEF Spec
-----------------------------------------------------------------------------
(***************************************************************************)
(* AppsPersisted is not inductive: a save goes through states in which the *)
(* snapshot is gone.  SaveInv adds how far it has got.                     *)
(***************************************************************************)
LEMMA SaveInvInit == Init => SaveInv
  BY DEF Init, SaveInv, Phases, SavedBefore, SavedBoth, SavedApps, ManagedApps,
         Nothing, Empty

\* The poll up to the target: only a new target opens a save.
LEMMA SaveInvPoll ==
  SaveInv /\ (Poll \/ AnswerLost \/ BodyLost \/ Receive) => SaveInv'
<1> SUFFICES ASSUME SaveInv, Poll \/ AnswerLost \/ BodyLost \/ Receive PROVE SaveInv'
  OBVIOUS
<1>1. UNCHANGED <<up, savedHash, appsHash, snapshot, managed, unsaved>>
  BY DEF Poll, AnswerLost, BodyLost, Receive
<1>2. phase \in {"idle", "answered"} /\ phase' \in {"idle", "answered", "deleteBoth"}
  BY DEF Poll, AnswerLost, BodyLost, Receive
<1>u. up
  BY DEF Poll, AnswerLost, BodyLost, Receive
<1>3. QED
  BY <1>1, <1>2, <1>u DEF SaveInv, Phases, SavedBefore, SavedBoth, SavedApps, ManagedApps

LEMMA SaveInvSave == TypeOK /\ SaveInv /\ Save => SaveInv'
<1> SUFFICES ASSUME TypeOK, SaveInv, Save PROVE SaveInv'
  OBVIOUS
<1> USE DEF SaveInv, Phases, SavedBefore, SavedBoth, SavedApps, ManagedApps
<1>b. /\ Both(target).content = target
      /\ OnlyApps(target).content.apps = target.apps
  BY DEF TypeOK, Content, Both, OnlyApps
<1>1. CASE DeleteBoth
  <2>1. CASE savedHash = Both(target)
    BY <1>1, <2>1, <1>b DEF DeleteBoth
  <2>2. CASE savedHash # Both(target)
    BY <1>1, <2>2 DEF DeleteBoth
  <2>3. QED
    BY <2>1, <2>2
<1>2. CASE InsertBoth
  BY <1>2, <1>b DEF InsertBoth
<1>3. CASE SetApps
  BY <1>3 DEF SetApps
<1>4. CASE DeleteApps
  BY <1>4 DEF DeleteApps
<1>5. CASE InsertApps
  BY <1>5, <1>b DEF InsertApps
<1>6. CASE Apply
  BY <1>6, <1>b DEF Apply
<1>7. QED
  BY <1>1, <1>2, <1>3, <1>4, <1>5, <1>6 DEF Save

(* Between two polls the snapshot holds the apps in force, for every       *)
(* choice of the constants and wherever a crash hits, from the first write *)
(* that gets through after a rejected one.                                 *)
THEOREM AppsPersistedCorrect == Spec => []AppsPersisted
<1>1. TypeOK /\ SaveInv /\ [Next]_vars => SaveInv'
  <2> SUFFICES ASSUME TypeOK, SaveInv, [Next]_vars PROVE SaveInv'
    OBVIOUS
  <2>1. CASE Poll \/ AnswerLost \/ BodyLost \/ Receive
    BY <2>1, SaveInvPoll
  <2>2. CASE Save
    BY <2>2, SaveInvSave
  <2>3. CASE Crash
    BY <2>3 DEF Crash, SaveInv, Phases, SavedBefore, SavedBoth, SavedApps, ManagedApps
  <2>4. CASE Restart
    BY <2>4 DEF Restart, SaveInv, Phases, SavedBefore, SavedBoth, SavedApps, ManagedApps
  <2>5. CASE Cloud \/ UNCHANGED vars
    BY <2>5 DEF Cloud, agentVars, vars, SaveInv, SavedBefore, SavedBoth, SavedApps,
                ManagedApps
  <2>6. QED
    BY <2>1, <2>2, <2>3, <2>4, <2>5 DEF Next
<1>2. SaveInv => AppsPersisted
  BY DEF SaveInv, SavedBefore, AppsPersisted, Idle
<1>3. QED
  BY SaveInvInit, TypeCorrect, <1>1, <1>2, PTL DEF Spec
=============================================================================
