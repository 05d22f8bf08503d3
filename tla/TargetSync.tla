----------------------------- MODULE TargetSync ----------------------------
(***************************************************************************)
(* How a target state reaches the device: GET /device/:uuid/state of the    *)
(* API, pollTargetState() of agent/src/device-manager/sync.ts, and what the *)
(* reconciler and the container manager persist of it so that a restarted   *)
(* agent can go on (reconciler.ts, container-manager.ts).                  *)
(***************************************************************************)
EXTENDS TargetRow

\* generateETag() hashes version, apps and config; no row has a tag of its own.
Tags == [version : 0 .. MaxVersion, content : Content]
NoTag == [version |-> MaxVersion + 1, content |-> Empty]
TagOf(r) == [version |-> r.version, content |-> r.content]

\* deviceState.version || 1
VersionOf(tag) == IF tag.version = 0 THEN 1 ELSE tag.version

\* A saved target: the reconciler's has both parts, the container manager's
\* only the apps; a hash stands for what was hashed.
Saved == [part : {"both"}, content : Content]
         \cup [part : {"apps"}, content : [apps : 0 .. MaxApps, config : {0}]]
Nothing == [part |-> "none", content |-> Empty]
Both(content) == [part |-> "both", content |-> content]
OnlyApps(content) == [part |-> "apps", content |-> [content EXCEPT !.config = 0]]

Phases == {"idle", "answered", "deleteBoth", "insertBoth", "setApps", "deleteApps",
           "insertApps", "apply"}

VARIABLES
  up,          \* the agent's process runs
  phase,       \* where pollTargetState() is
  answer,      \* the 200 answer on its way
  etag,        \* targetStateETag
  target,      \* CloudSync.targetState
  version,     \* currentVersion
  savedHash,   \* lastSavedStateHash of the reconciler
  appsHash,    \* lastSavedTargetStateHash of the container manager
  snapshot,    \* the 'target' row of stateSnapshot
  managed,     \* the apps that the container manager enforces
  torn,        \* history: the body of the answer with the tag kept was lost
  unsaved      \* history: the last access to the row of stateSnapshot was rejected

agentVars == <<up, phase, answer, etag, target, version, savedHash, appsHash,
               snapshot, managed, torn, unsaved>>
vars == <<rowVars, agentVars>>

TypeOK ==
  /\ RowTypeOK
  /\ {up, torn, unsaved} \subseteq BOOLEAN /\ phase \in Phases
  /\ {answer, etag} \subseteq Tags \cup {NoTag}
  /\ target \in Content /\ managed \in 0 .. MaxApps
  /\ version \in 0 .. MaxVersion
  /\ {savedHash, appsHash, snapshot} \subseteq Saved \cup {Nothing}

Init ==
  /\ RowInit
  /\ up = TRUE /\ phase = "idle"
  /\ answer = NoTag /\ etag = NoTag
  /\ target = Empty /\ version = 0
  /\ savedHash = Nothing /\ appsHash = Nothing
  /\ snapshot = Nothing /\ managed = 0 /\ torn = FALSE /\ unsaved = FALSE
-----------------------------------------------------------------------------
\* Defect: the tag is made of the version only.
AnswersVersion == ~row.needs /\ row.version # etag.version

\* A 200 answer; otherwise 304.
Answers == ~row.needs /\ TagOf(row) # etag

Poll ==
  /\ up /\ phase = "idle"
  /\ Answers
  /\ answer' = TagOf(row) /\ phase' = "answered"
  /\ UNCHANGED <<rowVars, up, etag, target, version, savedHash, appsHash, snapshot, managed,
                 torn, unsaved>>

\* Before its headers: afterwards the tag is kept although the body is lost.
AnswerLost ==
  /\ up /\ phase = "answered"
  /\ answer' = NoTag /\ phase' = "idle"
  /\ UNCHANGED <<rowVars, up, etag, target, version, savedHash, appsHash, snapshot, managed,
                 torn, unsaved>>

BodyLost ==
  /\ up /\ phase = "answered"
  /\ etag' = answer /\ torn' = TRUE
  /\ answer' = NoTag /\ phase' = "idle"
  /\ UNCHANGED <<rowVars, up, target, version, savedHash, appsHash, snapshot, managed,
                 unsaved>>

\* Defect: the version is only taken over with a target that differs.
ReceiveVersionOnChange ==
  /\ up /\ phase = "answered"
  /\ etag' = answer /\ torn' = FALSE
  /\ target' = answer.content
  /\ IF target = answer.content
     THEN phase' = "idle" /\ UNCHANGED version
     ELSE phase' = "deleteBoth" /\ version' = VersionOf(answer)
  /\ answer' = NoTag
  /\ UNCHANGED <<rowVars, up, savedHash, appsHash, snapshot, managed, unsaved>>

\* The tag, the version and, if it differs, the target; setTarget() begins.
Receive ==
  /\ up /\ phase = "answered"
  /\ etag' = answer /\ torn' = FALSE
  /\ version' = VersionOf(answer)
  /\ target' = answer.content
  /\ phase' = IF target # answer.content THEN "deleteBoth" ELSE "idle"
  /\ answer' = NoTag
  /\ UNCHANGED <<rowVars, up, savedHash, appsHash, snapshot, managed, unsaved>>
-----------------------------------------------------------------------------
(***************************************************************************)
(* StateReconciler.setTarget(): save, then the container manager, which    *)
(* saves the same row again, then the config manager.  Each save sets its  *)
(* hash first and only logs a rejected delete or insert, so nothing makes  *)
(* up for it: the old row stays, or none is left.                          *)
(***************************************************************************)
DeleteBoth ==
  /\ up /\ phase = "deleteBoth"
  /\ savedHash' = Both(target)
  /\ \/ /\ savedHash = Both(target)
        /\ phase' = "setApps" /\ UNCHANGED <<snapshot, unsaved>>
     \/ /\ savedHash # Both(target)
        /\ \/ phase' = "insertBoth" /\ snapshot' = Nothing /\ UNCHANGED unsaved
           \/ phase' = "setApps" /\ unsaved' = TRUE /\ UNCHANGED snapshot
  /\ UNCHANGED <<rowVars, up, answer, etag, target, version, appsHash, managed, torn>>

InsertBoth ==
  /\ up /\ phase = "insertBoth"
  /\ \/ snapshot' = Both(target) /\ unsaved' = FALSE
     \/ unsaved' = TRUE /\ UNCHANGED snapshot
  /\ phase' = "setApps"
  /\ UNCHANGED <<rowVars, up, answer, etag, target, version, savedHash, appsHash, managed,
                 torn>>

\* The container manager has the apps; its own hash says whether to save.
SetApps ==
  /\ up /\ phase = "setApps"
  /\ managed' = target.apps
  /\ phase' = IF appsHash = OnlyApps(target) THEN "apply" ELSE "deleteApps"
  /\ appsHash' = OnlyApps(target)
  /\ UNCHANGED <<rowVars, up, answer, etag, target, version, savedHash, snapshot,
                 torn, unsaved>>

DeleteApps ==
  /\ up /\ phase = "deleteApps"
  /\ \/ phase' = "insertApps" /\ snapshot' = Nothing /\ UNCHANGED unsaved
     \/ phase' = "apply" /\ unsaved' = TRUE /\ UNCHANGED snapshot
  /\ UNCHANGED <<rowVars, up, answer, etag, target, version, savedHash, appsHash, managed,
                 torn>>

\* Defect: the new row is written before the old ones are deleted.
InsertAppsFirst ==
  /\ up /\ phase = "insertApps"
  /\ snapshot' = Nothing /\ unsaved' = FALSE
  /\ phase' = "apply"
  /\ UNCHANGED <<rowVars, up, answer, etag, target, version, savedHash, appsHash, managed,
                 torn>>

InsertApps ==
  /\ up /\ phase = "insertApps"
  /\ \/ snapshot' = OnlyApps(target) /\ unsaved' = FALSE
     \/ unsaved' = TRUE /\ UNCHANGED snapshot
  /\ phase' = "apply"
  /\ UNCHANGED <<rowVars, up, answer, etag, target, version, savedHash, appsHash, managed,
                 torn>>

\* The poll waits until the containers are reconciled and the config manager
\* has had its part of the target.
Apply ==
  /\ up /\ phase = "apply"
  /\ phase' = "idle"
  /\ UNCHANGED <<rowVars, up, answer, etag, target, version, savedHash, appsHash, snapshot,
                 managed, torn, unsaved>>
-----------------------------------------------------------------------------
Crash ==
  /\ up
  /\ up' = FALSE /\ phase' = "idle"
  /\ answer' = NoTag /\ etag' = NoTag
  /\ target' = Empty /\ version' = 0
  /\ savedHash' = Nothing /\ appsHash' = Nothing
  /\ managed' = 0 /\ torn' = FALSE /\ unsaved' = FALSE
  /\ UNCHANGED <<rowVars, snapshot>>

\* The reconciler and the container manager load the snapshot, CloudSync does
\* not: its target is empty whatever the manager enforces.  The manager only logs
\* a rejected query and starts without apps; one of the reconciler, which would
\* make it save its next target once more, is left out.
Restart ==
  /\ ~up
  /\ up' = TRUE
  /\ savedHash' = snapshot
  /\ \E loaded \in {snapshot, Nothing} :
       /\ appsHash' = loaded /\ managed' = loaded.content.apps
       /\ unsaved' = (loaded # snapshot)
  /\ UNCHANGED <<rowVars, phase, answer, etag, target, version, snapshot, torn>>

Cloud == RowNext /\ UNCHANGED agentVars

Save == DeleteBoth \/ InsertBoth \/ SetApps \/ DeleteApps \/ InsertApps \/ Apply

Next == Cloud \/ Poll \/ AnswerLost \/ BodyLost \/ Receive \/ Save \/ Crash \/ Restart

Spec == Init /\ [][Next]_vars

\* The poll loop never stops (CloudLink), the steps it awaits end, answers are not lost
\* for ever; the API owes nothing.
Fairness == WF_vars(Poll \/ Save) /\ SF_vars(Receive)

FairSpec == Spec /\ Fairness
-----------------------------------------------------------------------------
Idle == up /\ phase = "idle"

(* The tag vouches for the target, unless a body was lost: what the server *)
(* would answer 304 to is what the agent has, and the version it reports   *)
(* is that of its target.                                                  *)
TagCoherent ==
  etag # NoTag /\ ~torn =>
    target = etag.content /\ version = VersionOf(etag)

(* Between two polls the snapshot holds the apps in force, so that a       *)
(* restart at that moment changes nothing, although two components delete  *)
(* and write the same row, each by its own hash.  A rejected delete,       *)
(* insert or load breaks that until the row is next written: nobody tries  *)
(* again, but no fault outlives the next write that gets through.          *)
AppsPersisted == Idle /\ ~unsaved => snapshot.content.apps = managed

\* Nobody writes the row any more, no change is pending, the agent stays up,
\* and the last answer is not one whose body was lost.
Settles == <>[](up /\ ~row.needs /\ Exists /\ ~torn) /\ <>[][UNCHANGED row]_vars

Follows ==
  target = row.content /\ managed = row.content.apps /\ version = row.version

(* Once nobody edits the target state and nothing waits for deployment,    *)
(* the device has the target of the row, runs its apps and reports its     *)
(* version.                                                                *)
Converges == Settles => <>[]Follows

(* The same unless the row has become empty, whatever crashes came before  *)
(* and wherever they hit the saving of the snapshot.                       *)
ConvergesNonEmpty == Settles => <>[](row.content # Empty => Follows)
=============================================================================
