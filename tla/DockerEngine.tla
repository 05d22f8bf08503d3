---------------------------- MODULE DockerEngine ----------------------------
(***************************************************************************)
(* The Docker engine of a device, as agent/src/compose/docker-manager.ts   *)
(* uses it.  A container is created under the name                         *)
(* <appName>_<serviceName>_<serviceId>, and the engine keeps names unique: *)
(* there is at most one container per service.  Every operation names its  *)
(* answer r ("ok" or "error", the exception the wrapper lets through) as a *)
(* parameter; the caller chooses it with \E.                               *)
(***************************************************************************)
EXTENDS Naturals, FiniteSets

CONSTANTS Services, Images,
          FlakyImages    \* the images whose pull may fail

ASSUME FlakyAssumption == FlakyImages \subseteq Images

VARIABLES docker,   \* service -> its container, status "none" when it has none
          images    \* the images present on the device

engine == <<docker, images>>

Statuses == {"none", "created", "running", "paused", "exited", "crashed"}

NoContainer == [id |-> 0, image |-> "none", status |-> "none"]

\* The containers that run when the behaviour begins: image "none", no one.
EngineInit(running) ==
  /\ docker = [s \in Services |->
                 IF running[s] = "none" THEN NoContainer
                 ELSE [id |-> 1, image |-> running[s], status |-> "running"]]
  /\ images = {running[s] : s \in Services} \ {"none"}

Exists(s, id) == docker[s].status # "none" /\ docker[s].id = id

(* hasImage and pullImage: a pull asks the registry, which may fail even   *)
(* when the image is present.                                              *)
PullImage(image, r) ==
  /\ r = "ok" \/ image \in FlakyImages
  /\ images' = IF r = "ok" THEN images \cup {image} ELSE images
  /\ UNCHANGED docker

(* A stopped container answers 304, which the wrapper swallows; an unknown *)
(* one answers 404, which it does not.                                     *)
StopContainer(s, id, r) ==
  /\ r = IF Exists(s, id) THEN "ok" ELSE "error"
  /\ docker' = IF r = "ok" /\ docker[s].status # "created"
                 THEN [docker EXCEPT ![s].status = "exited"] ELSE docker
  /\ UNCHANGED images

PauseContainer(s, id, r) ==
  /\ r = IF Exists(s, id) /\ docker[s].status = "running" THEN "ok" ELSE "error"
  /\ docker' = IF r = "ok" THEN [docker EXCEPT ![s].status = "paused"] ELSE docker
  /\ UNCHANGED images

UnpauseContainer(s, id, r) ==
  /\ r = IF Exists(s, id) /\ docker[s].status = "paused" THEN "ok" ELSE "error"
  /\ docker' = IF r = "ok" THEN [docker EXCEPT ![s].status = "running"] ELSE docker
  /\ UNCHANGED images

(* Without force, a running or paused container is refused (409); a        *)
(* missing one answers 404, which the wrapper swallows.                    *)
RemoveContainer(s, id, r) ==
  /\ r = IF Exists(s, id) /\ docker[s].status \in {"running", "paused"}
           THEN "error" ELSE "ok"
  /\ docker' = IF r = "ok" /\ Exists(s, id)
                 THEN [docker EXCEPT ![s] = NoContainer] ELSE docker
  /\ UNCHANGED images

(* startContainer: pull the image if it is absent, create (409 when the    *)
(* name is taken), start.  The three ways to fail leave different things   *)
(* behind: nothing; the pulled image; a container that was never started.  *)
StartContainer(s, id, image, r) ==
  \/ /\ r = "error" /\ image \in FlakyImages \ images
     /\ UNCHANGED engine
  \/ /\ r = "error" /\ docker[s].status # "none"
     /\ images' = images \cup {image}
     /\ UNCHANGED docker
  \/ /\ r = "ok" /\ docker[s].status = "none"
     /\ images' = images \cup {image}
     /\ docker' = [docker EXCEPT ![s] = [id |-> id, image |-> image,
                                         status |-> "running"]]

StartFails(s, id, image, r) ==
  /\ r = "error" /\ docker[s].status = "none"
  /\ images' = images \cup {image}
  /\ docker' = [docker EXCEPT ![s] = [id |-> id, image |-> image,
                                      status |-> "created"]]

(* A container may die by itself; its restart policy may revive it.        *)
Dies(s) ==
  /\ docker[s].status = "running"
  /\ docker' = [docker EXCEPT ![s].status = "crashed"]
  /\ UNCHANGED images

Revives(s) ==
  /\ docker[s].status = "crashed"
  /\ docker' = [docker EXCEPT ![s].status = "running"]
  /\ UNCHANGED images
=============================================================================
