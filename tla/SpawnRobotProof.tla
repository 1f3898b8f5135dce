--------------------------- MODULE SpawnRobotProof --------------------------
(* Proofs about SpawnRobot, for any number of spawners, launches and names,  *)
(* and whatever the simulator does with the requests.                        *)
EXTENDS SpawnRobot, TLAPS

(* The launch a has not asked the simulator to create its robot.             *)
Early(a) ==
    \/ attempt[a[1]] < a[2]
    \/ attempt[a[1]] = a[2] /\ pc[a[1]] \in {"description", "scene", "scene_info"}

(* What the simulator knows of a launch, it has been asked by it.            *)
NothingEarly ==
    /\ \A m \in requests \cup replies : m.service = "create" => ~Early(m.by)
    /\ \A a \in Creators : ~Early(a)

(* A launch asks once: as long as its request is not served there is neither *)
(* a robot of it, nor a reply, nor a second request.                         *)
AskedOnce ==
    \A m \in requests : m.service = "create" =>
        /\ m.by \notin Creators
        /\ \A n \in replies : n.service = "create" => n.by # m.by
        /\ \A n \in requests : n.service = "create" /\ n.by = m.by => n = m

(* The result of the call is true, but for a refusal.                        *)
RepliesTrue ==
    \A m \in replies : m.service = "create" =>
        IF m.result THEN m.by \in Creators \cup refused ELSE m.by \notin Creators

(* A program that ends has had its answer, or it has timed out.              *)
NothingLeft ==
    \A s \in Spawners : pc[s] = "exited" /\ Now(s) \notin timeouts =>
        \A m \in requests : m.service = "create" => m.by # Now(s)

SpawnInv ==
    /\ TypeOK
    /\ NothingEarly
    /\ AskedOnce
    /\ RepliesTrue
    /\ NothingLeft
    /\ ExitCodeTrue

-----------------------------------------------------------------------------
LEMMA AttemptType ==
    ASSUME TypeOK, NEW s \in Spawners
    PROVE  Now(s) \in Attempts /\ Now(s)[1] = s /\ Now(s)[2] = attempt[s]
BY DEF TypeOK, Now, Attempts

LEMMA CreatorsType == TypeOK => Creators \subseteq Attempts
BY DEF TypeOK, Creators, Robots

(* Every variable keeps its type.                                            *)
LEMMA TypeStep == TypeOK /\ [Next]_vars => TypeOK'
<1> SUFFICES ASSUME TypeOK, [Next]_vars PROVE TypeOK'
    OBVIOUS
<1> USE MaxAttemptsAssumption, AttemptType DEF TypeOK
<1>1. ASSUME NEW s \in Spawners, Description(s) PROVE TypeOK'
    BY <1>1 DEF Description, Goes, simVars
<1>2. ASSUME NEW s \in Spawners, AskScene(s) PROVE TypeOK'
    BY <1>2 DEF AskScene, Goes, Requests
<1>3. ASSUME NEW s \in Spawners, SceneInfo(s) PROVE TypeOK'
    BY <1>3 DEF SceneInfo, Goes, Exits, Requests, Replies
<1>4. ASSUME NEW s \in Spawners, SceneTimeout(s) PROVE TypeOK'
    BY <1>4 DEF SceneTimeout, Goes, Exits, simVars
<1>5. ASSUME NEW s \in Spawners, Created(s) PROVE TypeOK'
    BY <1>5 DEF Created, Goes, Exits
<1>6. ASSUME NEW s \in Spawners, CreateTimeout(s) PROVE TypeOK'
    BY <1>6 DEF CreateTimeout, Goes, Exits, simVars
<1>7. ASSUME NEW s \in Spawners, Relaunch(s) PROVE TypeOK'
    BY <1>7 DEF Relaunch, Goes, simVars
<1>8. ASSUME NEW m \in requests, ServeScene(m) \/ ServeCreate(m) \/ Fail(m)
      PROVE  TypeOK'
    <2>1. m \in Requests
        OBVIOUS
    <2>2. \A ok \in BOOLEAN :
              [service |-> m.service, by |-> m.by, result |-> ok,
               scene |-> IF m.service = "scene" /\ ok THEN Creators ELSE {}] \in Replies
        BY <2>1, CreatorsType DEF Requests, Replies
    <2>3. Robot(m.by, m.scene) \in Robots /\ m.by \in Attempts
        BY <2>1 DEF Requests, Robot, Robots
    <2> QED BY <1>8, <2>2, <2>3 DEF ServeScene, ServeCreate, Fail, Reply
<1>9. CASE UNCHANGED vars
    BY <1>9 DEF vars, simVars
<1> QED BY <1>1, <1>2, <1>3, <1>4, <1>5, <1>6, <1>7, <1>8, <1>9 DEF Next, Ended

-----------------------------------------------------------------------------
LEMMA SpawnInit == Init => SpawnInv
BY MaxAttemptsAssumption DEF Init, SpawnInv, TypeOK, NothingEarly, AskedOnce, RepliesTrue,
   NothingLeft, ExitCodeTrue, Creators, Requests, Replies, Attempts

(* A program that goes on, in this launch or in the next, does not take back *)
(* its request.                                                              *)
LEMMA EarlyNoMore ==
    ASSUME TypeOK, NEW s \in Spawners, NEW to,
           pc' = [pc EXCEPT ![s] = to],
           \/ attempt' = [attempt EXCEPT ![s] = @ + 1]
           \/ /\ attempt' = attempt
              /\ \/ pc[s] \in {"description", "scene", "scene_info"}
                 \/ to \notin {"description", "scene", "scene_info"}
    PROVE  \A a \in Attempts : Early(a)' => Early(a)
<1> SUFFICES ASSUME NEW a \in Attempts, Early(a)' PROVE Early(a)
  OBVIOUS
<1>1. a[1] \in Spawners /\ a[2] \in Nat /\ \A t \in Spawners : attempt[t] \in Nat
  BY DEF Attempts, TypeOK
<1>2. CASE a[1] # s
  BY <1>1, <1>2 DEF Early, TypeOK
<1>3. CASE a[1] = s
  <2>1. pc'[s] = to
    BY DEF TypeOK
  <2>2. CASE attempt' = attempt
    BY <1>1, <1>3, <2>1, <2>2 DEF Early, TypeOK
  <2>3. CASE attempt' = [attempt EXCEPT ![s] = @ + 1]
    <3>1. attempt'[s] = attempt[s] + 1
      BY <2>3 DEF TypeOK
    <3> QED BY <1>1, <1>3, <3>1 DEF Early
  <2> QED BY <2>2, <2>3
<1> QED BY <1>2, <1>3

(* A step of a program leaves alone what is known of the others; its own     *)
(* exit code has to be true.                                                 *)
LEMMA OthersKeep ==
    ASSUME SpawnInv, TypeOK', NEW s \in Spawners,
           \A t \in Spawners \ {s} :
               pc'[t] = pc[t] /\ attempt'[t] = attempt[t] /\ exit_code'[t] = exit_code[t],
           world' = world, refused' = refused, timeouts \subseteq timeouts',
           \A m \in requests' : m.service = "create" => m \in requests \/ m.by = Now(s),
           pc'[s] = "exited" =>
               /\ attempt'[s] = attempt[s]
               /\ Now(s) \notin timeouts' =>
                      \A m \in requests' : m.service = "create" => m.by # Now(s)
               /\ IF exit_code'[s] = 0 THEN Now(s) \in Creators \cup refused
                                       ELSE Now(s) \in Creators => Now(s) \in timeouts'
    PROVE  NothingLeft' /\ ExitCodeTrue'
<1>1. Creators' = Creators
  BY DEF Creators
<1>2. ASSUME NEW t \in Spawners, t # s, pc'[t] = "exited"
      PROVE  /\ Now(t)' = Now(t) /\ Now(t) # Now(s)
             /\ Now(t) \notin timeouts' =>
                    \A m \in requests' : m.service = "create" => m.by # Now(t)
             /\ IF exit_code'[t] = 0 THEN Now(t) \in Creators \cup refused
                                     ELSE Now(t) \in Creators => Now(t) \in timeouts'
  BY <1>2 DEF SpawnInv, NothingLeft, ExitCodeTrue, Now
<1>3. pc'[s] = "exited" => Now(s)' = Now(s)
  BY DEF Now
<1>4. NothingLeft'
  BY <1>2, <1>3 DEF NothingLeft
<1>5. ExitCodeTrue'
  BY <1>1, <1>2, <1>3 DEF ExitCodeTrue
<1> QED BY <1>4, <1>5

(* Of the requests under way, a step that creates no robot and serves no     *)
(* create request says nothing new.                                          *)
LEMMA RequestsKeep ==
    ASSUME SpawnInv, world' = world, refused' = refused,
           \A a \in Attempts : Early(a)' => Early(a),
           \A m \in requests' : m.service = "create" => m \in requests,
           \A m \in replies' : m.service = "create" => m \in replies
    PROVE  NothingEarly' /\ AskedOnce' /\ RepliesTrue'
<1>1. Creators' = Creators /\ Creators \subseteq Attempts
  BY CreatorsType DEF Creators, SpawnInv
<1>2. \A m \in requests \cup replies : m.by \in Attempts
  BY DEF SpawnInv, TypeOK, Requests, Replies
<1>3. NothingEarly'
  BY <1>1, <1>2 DEF SpawnInv, NothingEarly
<1>4. AskedOnce'
  BY <1>1 DEF SpawnInv, AskedOnce
<1>5. RepliesTrue'
  BY <1>1 DEF SpawnInv, RepliesTrue
<1> QED BY <1>3, <1>4, <1>5

(* The steps of a program ...                                                *)
LEMMA ProgramKeeps ==
    ASSUME SpawnInv, TypeOK', NEW s \in Spawners,
           \/ Description(s) \/ AskScene(s) \/ SceneInfo(s) \/ SceneTimeout(s)
           \/ Created(s) \/ CreateTimeout(s) \/ Relaunch(s)
    PROVE  SpawnInv'
<1>1. TypeOK /\ pc[s] \in {"description", "scene", "scene_info", "creating", "exited"}
  BY DEF SpawnInv, TypeOK
<1>2. Now(s) \in Attempts /\ Now(s)[1] = s /\ Now(s)[2] = attempt[s]
  BY <1>1, AttemptType
<1>3. ASSUME pc[s] \in {"description", "scene", "scene_info"}
      PROVE  /\ Now(s) \notin Creators
             /\ \A m \in requests \cup replies : m.service = "create" => m.by # Now(s)
  BY <1>2, <1>3 DEF SpawnInv, NothingEarly, Early
<1>4. CASE Description(s) \/ AskScene(s)
  <2> USE <1>4 DEF Description, AskScene, Goes, simVars
  <2>1. PICK to : pc' = [pc EXCEPT ![s] = to] /\ to \in {"scene", "scene_info"}
    OBVIOUS
  <2>2. NothingEarly' /\ AskedOnce' /\ RepliesTrue'
    <3>1. pc[s] \in {"description", "scene", "scene_info"} /\ attempt' = attempt
      OBVIOUS
    <3>2. \A a \in Attempts : Early(a)' => Early(a)
      BY <1>1, <2>1, <3>1, EarlyNoMore
    <3> QED BY <3>2, RequestsKeep
  <2>3. NothingLeft' /\ ExitCodeTrue'
    <3>1. pc'[s] # "exited"
      BY <1>1, <2>1 DEF TypeOK
    <3>2. \A t \in Spawners \ {s} : pc'[t] = pc[t]
      BY <1>1, <2>1 DEF TypeOK
    <3> QED BY <3>1, <3>2, OthersKeep
  <2> QED BY <2>2, <2>3 DEF SpawnInv
<1>5. CASE SceneInfo(s)
  <2> USE <1>5 DEF SceneInfo
  <2>1. PICK m \in replies :
            /\ m.service = "scene" /\ m.by = Now(s)
            /\ replies' = replies \ {m}
            /\ \/ /\ Goes(s, "creating")
                  /\ requests' = requests \cup
                         {[service |-> "create", by |-> Now(s), scene |-> m.scene]}
                  /\ UNCHANGED exit_code
               \/ Exits(s, 1) /\ UNCHANGED requests
    OBVIOUS
  <2>2. PICK to : pc' = [pc EXCEPT ![s] = to] /\ to \in {"creating", "exited"}
    BY <2>1 DEF Goes, Exits
  <2>3. \A a \in Attempts : Early(a)' => Early(a)
    BY <1>1, <2>2, EarlyNoMore
  <2>4. pc'[s] = to /\ \A t \in Spawners \ {s} : pc'[t] = pc[t]
    BY <1>1, <2>2 DEF TypeOK
  <2>5. ASSUME NEW a \in Attempts, a = Now(s) PROVE ~Early(a)'
    <3>1. a[1] = s /\ a[2] = attempt[s] /\ attempt[s] \in Nat
      BY <1>1, <1>2, <2>5 DEF TypeOK
    <3> QED BY <2>2, <2>4, <3>1 DEF Early
  <2>6. Creators' = Creators /\ Creators \subseteq Attempts
    BY <1>1, CreatorsType DEF Creators
  <2>7. \A n \in requests' : n.service = "create" =>
            n \in requests \/ n = [service |-> "create", by |-> Now(s), scene |-> m.scene]
    BY <2>1
  <2>8. NothingEarly'
    <3>1. \A n \in requests \cup replies : n.by \in Attempts
      BY <1>1 DEF TypeOK, Requests, Replies
    <3> QED BY <1>2, <2>1, <2>3, <2>5, <2>6, <2>7, <3>1 DEF SpawnInv, NothingEarly
  <2>9. AskedOnce'
    <3>0. pc[s] \in {"description", "scene", "scene_info"}
      OBVIOUS
    <3> QED BY <1>3, <2>1, <2>6, <2>7, <3>0 DEF SpawnInv, AskedOnce
  <2>10. RepliesTrue'
    BY <2>1, <2>6 DEF SpawnInv, RepliesTrue
  <2>11. NothingLeft' /\ ExitCodeTrue'
    <3>1. \A t \in Spawners \ {s} : exit_code'[t] = exit_code[t]
      BY <1>1, <2>1 DEF TypeOK, Exits
    <3>2. pc'[s] = "exited" => requests' = requests
      BY <2>1, <2>4, <1>1 DEF TypeOK, Goes
    <3>3. pc'[s] = "exited" => exit_code'[s] = 1
      BY <2>1, <2>4, <1>1 DEF TypeOK, Goes, Exits
    <3>4. pc[s] = "scene_info" /\ attempt' = attempt /\ timeouts' = timeouts
          /\ world' = world /\ refused' = refused
      OBVIOUS
    <3>5. \A n \in requests' : n.service = "create" => n \in requests \/ n.by = Now(s)
      BY <2>7
    <3> HIDE <1>5
    <3> QED BY <1>3, <2>4, <3>1, <3>2, <3>3, <3>4, <3>5, OthersKeep
  <2> QED BY <2>8, <2>9, <2>10, <2>11 DEF SpawnInv
<1>6. CASE SceneTimeout(s)
  <2> USE <1>6 DEF SceneTimeout, Goes, Exits, simVars
  <2>1. \A a \in Attempts : Early(a)' => Early(a)
    BY <1>1, EarlyNoMore
  <2>2. NothingEarly' /\ AskedOnce' /\ RepliesTrue'
    BY <2>1, RequestsKeep
  <2>3. pc'[s] = "exited" /\ exit_code'[s] = 1
        /\ \A t \in Spawners \ {s} : pc'[t] = pc[t] /\ exit_code'[t] = exit_code[t]
    BY <1>1 DEF TypeOK
  <2>4. NothingLeft' /\ ExitCodeTrue'
    BY <1>3, <2>3, OthersKeep
  <2> QED BY <2>2, <2>4 DEF SpawnInv
<1>7. CASE Created(s)
  <2> USE <1>7 DEF Created, Goes, Exits
  <2>1. PICK m \in replies :
            /\ m.service = "create" /\ m.by = Now(s)
            /\ replies' = replies \ {m}
            /\ exit_code' = [exit_code EXCEPT ![s] = IF m.result THEN 0 ELSE 1]
    OBVIOUS
  <2>2. \A a \in Attempts : Early(a)' => Early(a)
    BY <1>1, EarlyNoMore
  <2>3. NothingEarly' /\ AskedOnce' /\ RepliesTrue'
    BY <2>1, <2>2, RequestsKeep
  <2>4. /\ pc'[s] = "exited" /\ exit_code'[s] = IF m.result THEN 0 ELSE 1
        /\ \A t \in Spawners \ {s} : pc'[t] = pc[t] /\ exit_code'[t] = exit_code[t]
    BY <1>1, <2>1 DEF TypeOK
  <2>5. \A n \in requests : n.service = "create" => n.by # Now(s)
    BY <2>1 DEF SpawnInv, AskedOnce
  <2>6. IF m.result THEN Now(s) \in Creators \cup refused ELSE Now(s) \notin Creators
    BY <2>1 DEF SpawnInv, RepliesTrue
  <2>7. NothingLeft' /\ ExitCodeTrue'
    BY <2>4, <2>5, <2>6, OthersKeep
  <2> QED BY <2>3, <2>7 DEF SpawnInv
<1>8. CASE CreateTimeout(s)
  <2> USE <1>8 DEF CreateTimeout, Goes, Exits, simVars
  <2>1. \A a \in Attempts : Early(a)' => Early(a)
    BY <1>1, EarlyNoMore
  <2>2. NothingEarly' /\ AskedOnce' /\ RepliesTrue'
    BY <2>1, RequestsKeep
  <2>3. pc'[s] = "exited" /\ exit_code'[s] = 1
        /\ \A t \in Spawners \ {s} : pc'[t] = pc[t] /\ exit_code'[t] = exit_code[t]
    BY <1>1 DEF TypeOK
  <2>4. NothingLeft' /\ ExitCodeTrue'
    BY <2>3, OthersKeep
  <2> QED BY <2>2, <2>4 DEF SpawnInv
<1>9. CASE Relaunch(s)
  <2> USE <1>9 DEF Relaunch, Goes, simVars
  <2>1. \A a \in Attempts : Early(a)' => Early(a)
    BY <1>1, EarlyNoMore
  <2>2. NothingEarly' /\ AskedOnce' /\ RepliesTrue'
    BY <2>1, RequestsKeep
  <2>3. pc'[s] = "description"
        /\ \A t \in Spawners \ {s} :
              pc'[t] = pc[t] /\ exit_code'[t] = exit_code[t] /\ attempt'[t] = attempt[t]
    BY <1>1 DEF TypeOK
  <2>4. NothingLeft' /\ ExitCodeTrue'
    BY <2>3, OthersKeep
  <2> QED BY <2>2, <2>4 DEF SpawnInv
<1> QED BY <1>4, <1>5, <1>6, <1>7, <1>8, <1>9

(* ... and those of the simulator.                                           *)
LEMMA SimulatorKeeps ==
    ASSUME SpawnInv, TypeOK', NEW m \in requests,
           ServeScene(m) \/ ServeCreate(m) \/ Fail(m)
    PROVE  SpawnInv'
<1> USE DEF SpawnInv, Reply
<1>1. CASE ServeScene(m)
  <2> USE <1>1 DEF ServeScene
  <2>1. NothingEarly'
    BY DEF NothingEarly, Early, Creators
  <2>2. AskedOnce' /\ RepliesTrue'
    BY DEF AskedOnce, RepliesTrue, Creators
  <2>3. NothingLeft' /\ ExitCodeTrue'
    BY DEF NothingLeft, ExitCodeTrue, Now, Creators
  <2> QED BY <2>1, <2>2, <2>3
<1>2. CASE ServeCreate(m)
  <2> USE <1>2 DEF ServeCreate
  <2>0. Creators' \subseteq Creators \cup {m.by} /\ Creators \subseteq Creators'
        /\ m.by \in Creators' \cup refused' /\ refused \subseteq refused'
    <3>1. Robot(m.by, m.scene).by = m.by
      BY DEF Robot
    <3>2. CASE world' = world \cup {Robot(m.by, m.scene)} /\ refused' = refused
      BY <3>1, <3>2 DEF Creators
    <3>3. CASE refused' = refused \cup {m.by} /\ world' = world
      BY <3>3 DEF Creators
    <3> QED BY <3>2, <3>3
  <2>1. NothingEarly'
    BY <2>0 DEF NothingEarly, Early
  <2>2. AskedOnce'
    BY <2>0 DEF AskedOnce
  <2>3. RepliesTrue'
    BY <2>0 DEF RepliesTrue, AskedOnce
  <2>4. NothingLeft'
    BY DEF NothingLeft, Now
  <2>5. ExitCodeTrue'
    BY <2>0 DEF ExitCodeTrue, NothingLeft, Now
  <2> QED BY <2>1, <2>2, <2>3, <2>4, <2>5
<1>3. CASE Fail(m)
  <2> USE <1>3 DEF Fail
  <2>1. NothingEarly'
    BY DEF NothingEarly, Early, Creators
  <2>2. AskedOnce' /\ RepliesTrue'
    BY DEF AskedOnce, RepliesTrue, Creators
  <2>3. NothingLeft' /\ ExitCodeTrue'
    BY DEF NothingLeft, ExitCodeTrue, Now, Creators
  <2> QED BY <2>1, <2>2, <2>3
<1> QED BY <1>1, <1>2, <1>3

LEMMA SpawnStep == SpawnInv /\ [Next]_vars => SpawnInv'
<1> SUFFICES ASSUME SpawnInv, [Next]_vars PROVE SpawnInv'
  OBVIOUS
<1>1. TypeOK'
  BY TypeStep DEF SpawnInv
<1>2. CASE UNCHANGED vars
  BY <1>2 DEF vars, simVars, SpawnInv, TypeOK, NothingEarly, Early, AskedOnce, RepliesTrue,
     NothingLeft, ExitCodeTrue, Creators, Now
<1> QED BY <1>1, <1>2, ProgramKeeps, SimulatorKeeps DEF Next, Ended

LEMMA SpawnInvariant == Spec => []SpawnInv
<1> QED BY SpawnInit, SpawnStep, PTL DEF Spec

(* Every variable has its type.                                              *)
THEOREM TypeCorrect == Spec => []TypeOK
<1>1. SpawnInv => TypeOK
  BY DEF SpawnInv
<1> QED BY <1>1, SpawnInvariant, PTL

(* The exit code tells the launch file whether this launch has put its robot *)
(* into the simulation, but for refusals and timeouts.                       *)
THEOREM ExitCodesTrue == Spec => []ExitCodeTrue
<1>1. SpawnInv => ExitCodeTrue
  BY DEF SpawnInv
<1> QED BY <1>1, SpawnInvariant, PTL

-----------------------------------------------------------------------------
(* A launch asks for a robot only if it has been shown none of its name.     *)
SceneWithout ==
    /\ \A m \in requests : m.service = "create" =>
           \A a \in m.scene : Name(a) # Name(m.by)
    /\ \A p \in world : \A a \in p.scene : Name(a) # Name(p.by)

(* Two robots of one name come only from launches that have raced.           *)
THEOREM TwinsOnlyRaced == Spec => []TwinsHaveRaced
<1>1. Init => SceneWithout
  BY DEF Init, SceneWithout
<1>2. TypeOK /\ SceneWithout /\ [Next]_vars => SceneWithout'
  <2> SUFFICES ASSUME TypeOK, SceneWithout, [Next]_vars PROVE SceneWithout'
    OBVIOUS
  <2>1. ASSUME NEW s \in Spawners,
               \/ Description(s) \/ AskScene(s) \/ SceneTimeout(s)
               \/ Created(s) \/ CreateTimeout(s) \/ Relaunch(s)
        PROVE  SceneWithout'
    BY <2>1 DEF SceneWithout, Description, AskScene, SceneTimeout, Created,
       CreateTimeout, Relaunch, simVars
  <2>2. ASSUME NEW s \in Spawners, SceneInfo(s) PROVE SceneWithout'
    BY <2>2, AttemptType DEF SceneWithout, SceneInfo, Name
  <2>3. ASSUME NEW m \in requests, ServeScene(m) \/ ServeCreate(m) \/ Fail(m)
        PROVE  SceneWithout'
    BY <2>3 DEF SceneWithout, ServeScene, ServeCreate, Fail, Reply, Robot
  <2>4. CASE UNCHANGED vars
    BY <2>4 DEF SceneWithout, vars, simVars
  <2> QED BY <2>1, <2>2, <2>3, <2>4 DEF Next, Ended
<1>3. SceneWithout => TwinsHaveRaced
  BY DEF SceneWithout, TwinsHaveRaced
<1> QED BY <1>1, <1>2, <1>3, TypeCorrect, PTL DEF Spec
=============================================================================
