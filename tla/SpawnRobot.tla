----------------------------- MODULE SpawnRobot -----------------------------
(* The program that puts a robot into the simulation                         *)
(* (tuw_spike_simulation/src/spawn_robot.cpp) and the launch file that runs  *)
(* it (launch/spawn_robot.launch.py), for several robots at a time.  main()  *)
(* asks the simulator which models there are, asks it to create the robot if *)
(* there is none of its name, and exits with 0 or 1; with 1 the launch shuts *)
(* down and may be started again.                                            *)
(*                                                                           *)
(* The simulator is external: it serves the requests in any order, one after *)
(* the other.  Each request has a result of the call and its reply data.  A  *)
(* request that has timed out for the program is served all the same.        *)
EXTENDS Integers

CONSTANTS
    Spawners,
    NameOf,      \* the robot's name: the node's namespace, or "robot0"
    MaxAttempts  \* bound: launches of one spawner

ASSUME MaxAttemptsAssumption == MaxAttempts \in Nat \ {0}

VARIABLES
    pc,        \* "description", "scene", "scene_info", "creating", "exited"
    attempt,   \* which launch of the spawner it is
    exit_code,
    requests,  \* requests that the simulator has not served
    replies,   \* replies on their way, or too late
    world,     \* the robots in the simulation
    timeouts,  \* ghost: attempts whose create request has timed out
    refused    \* ghost: attempts whose create request was executed and refused

simVars == <<requests, replies, world, refused>>
vars == <<pc, attempt, exit_code, timeouts, simVars>>

Attempts == Spawners \X (1 .. MaxAttempts)
Now(s) == <<s, attempt[s]>>
Name(a) == NameOf[a[1]]

(* A robot is known by the attempt that has created it, and by the robots    *)
(* that attempt had been told of.                                            *)
Robot(a, scene) == [by |-> a, scene |-> scene]
Robots == [by : Attempts, scene : SUBSET Attempts]
Creators == {robot.by : robot \in world}

Init ==
    /\ pc = [s \in Spawners |-> "description"]
    /\ attempt = [s \in Spawners |-> 1]
    /\ exit_code = [s \in Spawners |-> 0]
    /\ requests = {}
    /\ replies = {}
    /\ world = {}
    /\ timeouts = {}
    /\ refused = {}

-----------------------------------------------------------------------------
Goes(s, to) == pc' = [pc EXCEPT ![s] = to]

(* Slip: main() returns -1 for a failure.                                    *)
Exits_Negative(s, code) ==
    /\ Goes(s, "exited")
    /\ exit_code' = [exit_code EXCEPT ![s] = -code]

Exits(s, code) ==
    /\ Goes(s, "exited")
    /\ exit_code' = [exit_code EXCEPT ![s] = code]

(* The loop that waits for the robot's description ends.                     *)
Description(s) ==
    /\ pc[s] = "description"
    /\ Goes(s, "scene")
    /\ UNCHANGED <<attempt, exit_code, timeouts, simVars>>

AskScene(s) ==
    /\ pc[s] = "scene"
    /\ Goes(s, "scene_info")
    /\ requests' = requests \cup {[service |-> "scene", by |-> Now(s), scene |-> {}]}
    /\ UNCHANGED <<attempt, exit_code, timeouts, replies, world, refused>>

(* Slip: only the result of the call is looked at.                           *)
SceneInfo_NotCompared(s) ==
    /\ pc[s] = "scene_info"
    /\ \E m \in replies :
           /\ m.service = "scene" /\ m.by = Now(s)
           /\ replies' = replies \ {m}
           /\ IF m.result
              THEN /\ Goes(s, "creating")
                   /\ requests' = requests \cup
                          {[service |-> "create", by |-> Now(s), scene |-> m.scene]}
                   /\ UNCHANGED exit_code
              ELSE Exits(s, 1) /\ UNCHANGED requests
    /\ UNCHANGED <<attempt, timeouts, world, refused>>

(* If the call has worked and no model has the robot's name, the program     *)
(* asks for it to be created.                                                *)
SceneInfo(s) ==
    /\ pc[s] = "scene_info"
    /\ \E m \in replies :
           /\ m.service = "scene" /\ m.by = Now(s)
           /\ replies' = replies \ {m}
           /\ IF m.result /\ \A a \in m.scene : Name(a) # NameOf[s]
              THEN /\ Goes(s, "creating")
                   /\ requests' = requests \cup
                          {[service |-> "create", by |-> Now(s), scene |-> m.scene]}
                   /\ UNCHANGED exit_code
              ELSE Exits(s, 1) /\ UNCHANGED requests
    /\ UNCHANGED <<attempt, timeouts, world, refused>>

SceneTimeout(s) ==
    /\ pc[s] = "scene_info"
    /\ Exits(s, 1)
    /\ UNCHANGED <<attempt, timeouts, simVars>>

(* Slip: a call that has failed is taken for one that has worked.            *)
Created_ResultDropped(s) ==
    /\ pc[s] = "creating"
    /\ \E m \in replies :
           /\ m.service = "create" /\ m.by = Now(s)
           /\ replies' = replies \ {m}
           /\ Exits(s, 0)
    /\ UNCHANGED <<attempt, timeouts, requests, world, refused>>

(* The exit code is the result of the call; the reply's data is only printed.*)
Created(s) ==
    /\ pc[s] = "creating"
    /\ \E m \in replies :
           /\ m.service = "create" /\ m.by = Now(s)
           /\ replies' = replies \ {m}
           /\ Exits(s, IF m.result THEN 0 ELSE 1)
    /\ UNCHANGED <<attempt, timeouts, requests, world, refused>>

CreateTimeout(s) ==
    /\ pc[s] = "creating"
    /\ Exits(s, 1)
    /\ timeouts' = timeouts \cup {Now(s)}
    /\ UNCHANGED <<attempt, simVars>>

(* spawner_exit() has shut the launch down, and it is started again.         *)
Relaunch(s) ==
    /\ pc[s] = "exited" /\ exit_code[s] = 1
    /\ attempt[s] < MaxAttempts
    /\ attempt' = [attempt EXCEPT ![s] = @ + 1]
    /\ exit_code' = [exit_code EXCEPT ![s] = 0]
    /\ Goes(s, "description")
    /\ UNCHANGED <<timeouts, simVars>>

-----------------------------------------------------------------------------
Reply(m, ok) ==
    /\ requests' = requests \ {m}
    /\ replies' = replies \cup {[service |-> m.service, by |-> m.by, result |-> ok,
                                 scene |-> IF m.service = "scene" /\ ok
                                           THEN Creators ELSE {}]}
    /\ UNCHANGED <<pc, attempt, exit_code, timeouts>>

(* The simulator tells which models there are.                               *)
ServeScene(m) ==
    /\ m \in requests /\ m.service = "scene"
    /\ Reply(m, TRUE)
    /\ UNCHANGED <<world, refused>>

(* It creates the robot, or has a reason not to, which it tells in the data. *)
ServeCreate(m) ==
    /\ m \in requests /\ m.service = "create"
    /\ Reply(m, TRUE)
    /\ \/ world' = world \cup {Robot(m.by, m.scene)} /\ UNCHANGED refused
       \/ refused' = refused \cup {m.by} /\ UNCHANGED world

(* The call fails.                                                           *)
Fail(m) ==
    /\ m \in requests
    /\ Reply(m, FALSE)
    /\ UNCHANGED <<world, refused>>

Ended == (\A s \in Spawners : pc[s] = "exited") /\ UNCHANGED vars

Next ==
    \/ \E s \in Spawners :
           \/ Description(s) \/ AskScene(s) \/ SceneInfo(s) \/ SceneTimeout(s)
           \/ Created(s) \/ CreateTimeout(s) \/ Relaunch(s)
    \/ \E m \in requests : ServeScene(m) \/ ServeCreate(m) \/ Fail(m)
    \/ Ended

Spec == Init /\ [][Next]_vars

-----------------------------------------------------------------------------
Requests == [service : {"scene", "create"}, by : Attempts, scene : SUBSET Attempts]
Replies == [service : {"scene", "create"}, by : Attempts, scene : SUBSET Attempts,
            result : BOOLEAN]

(* Every variable has its type.                                              *)
TypeOK ==
    /\ pc \in [Spawners -> {"description", "scene", "scene_info", "creating",
                            "exited"}]
    /\ attempt \in [Spawners -> 1 .. MaxAttempts]
    /\ exit_code \in [Spawners -> {0, 1}]
    /\ requests \subseteq Requests
    /\ replies \subseteq Replies
    /\ world \subseteq Robots
    /\ timeouts \subseteq Attempts
    /\ refused \subseteq Attempts

(* The exit code, by which the launch file decides whether the robot's nodes *)
(* go on, tells whether this launch has put its robot into the simulation;   *)
(* except that a refusal in the reply's data counts as a creation, and that  *)
(* a request which has timed out may be executed all the same.               *)
ExitCodeTrue ==
    \A s \in Spawners : pc[s] = "exited" =>
        IF exit_code[s] = 0 THEN Now(s) \in Creators \cup refused
                            ELSE Now(s) \in Creators => Now(s) \in timeouts

(* Two robots of one name come only from launches that have raced: neither   *)
(* was in the scene that the other one's launch had been shown.  In          *)
(* particular a launch that is repeated after the robot has appeared, for    *)
(* whatever reason the earlier one has failed, adds no second one.           *)
TwinsHaveRaced ==
    \A p, q \in world :
        p # q /\ Name(p.by) = Name(q.by) => p.by \notin q.scene /\ q.by \notin p.scene
=============================================================================
