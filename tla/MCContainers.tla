---------------------------- MODULE MCContainers ----------------------------
(* Instance of ContainerManager: service "a" may be given every state of   *)
(* the image v1, the image v2 running, or be withdrawn; its companion "b"  *)
(* is deployed as it is or not at all.                                     *)
EXTENDS ContainerManager

MCWanted ==
  [s \in Services |->
     IF s = "a" THEN [image: {"v1"}, state: States] \cup
                     {[image |-> i, state |-> "running"] : i \in Images} \cup {Absent}
     ELSE {[image |-> "v1", state |-> "running"]}]

MCDeployed ==
  [s \in Services |-> IF s = "a" THEN [image |-> "v1", state |-> "running"]
                     ELSE Absent]
=============================================================================
