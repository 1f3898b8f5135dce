------------------------ MODULE RequestHandlerProof -------------------------
(* Proofs about RequestHandler, for every number of requests, every width of *)
(* the counter and with or without visible metadata.                         *)
EXTENDS RequestHandlerRefinement, FiniteSetTheorems, TLAPS

(* Who may touch a request: the flag is up only on a completed request, or   *)
(* on the one execute() is about to release; handle() starts with the flag   *)
(* down; execute() holds a flagged request up to its release and a pending   *)
(* one up to its queueing; start() has the requests before it.               *)
Ownership ==
    /\ camPc # "threw"
    /\ \A r \in Requests :
          waiting[r] => \/ status[r] = "Complete"
                        \/ status[r] = "Pending" /\ exePc = "release" /\ exeIdx = r
    /\ camPc = "handle" =>
          status[camReq] \in {"Complete", "Cancelled"} /\ ~waiting[camReq]
    /\ exePc \in {"publish", "publish_stale", "update"} =>
          waiting[exeIdx] /\ status[exeIdx] = "Complete"
    /\ exePc = "release" => waiting[exeIdx] /\ status[exeIdx] = "Pending"
    /\ exePc = "queue" => ~waiting[exeIdx] /\ status[exeIdx] = "Pending"
    /\ exePc = "start" =>
          \A r \in Requests : exeIdx <= r => status[r] = "Pending" /\ ~waiting[r]

(* A flag execute() or start() has passed by, and any flag while the         *)
(* executor waits, has a wake-up on its way.                                 *)
PassedBy(r) ==
    \/ exePc = "wait"
    \/ /\ exePc \in Processing \cup {"start", "scan", "queue"}
       /\ r < exeIdx

WakeupPending ==
    \A r \in Requests :
        waiting[r] /\ PassedBy(r) => gc \/ camPc \in {"count", "trigger"}

-----------------------------------------------------------------------------
(* The variables keep their types.                                           *)
THEOREM TypeCorrect == Spec => []TypeOK
<1> USE NumRequestsAssumption, CounterModAssumption, MaxFramesAssumption
<1>1. Init => TypeOK
  <2>1. 0 \in Requests
    BY NumRequestsAssumption DEF Requests
  <2>2. 0 \in 0 .. CounterMod - 1
    BY CounterModAssumption
  <2> SUFFICES ASSUME Init PROVE TypeOK
    OBVIOUS
  <2>3. status \in [Requests -> {"Pending", "Queued", "Complete", "Cancelled"}]
    BY DEF Init
  <2>4. sequence \in [Requests -> Nat] /\ waiting \in [Requests -> BOOLEAN]
    BY DEF Init
  <2>5. QED
    BY <2>1, <2>2, <2>3, <2>4 DEF Init, TypeOK
<1>2. TypeOK /\ [Next]_vars => TypeOK'
  <2> SUFFICES ASSUME TypeOK, [Next]_vars PROVE TypeOK'
    OBVIOUS
  <2>1. ASSUME NEW r \in Requests, CompleteRequest(r) PROVE TypeOK'
    BY <2>1 DEF TypeOK, CompleteRequest, Oldest, exeVars
  <2>2. ASSUME NEW r \in Requests, CancelRequest(r) PROVE TypeOK'
    BY <2>2 DEF TypeOK, CancelRequest, Oldest, exeVars
  <2>3. CASE HandleCancelled
    BY <2>3 DEF TypeOK, HandleCancelled, reqVars, exeVars
  <2>4. CASE HandleWaiting
    BY <2>4 DEF TypeOK, HandleWaiting, reqVars, exeVars
  <2>5. CASE HandleCount
    BY <2>5 DEF TypeOK, HandleCount, Incremented, reqVars, exeVars
  <2>6. CASE HandleTrigger
    BY <2>6 DEF TypeOK, HandleTrigger, reqVars, exeVars
  <2>7. CASE Start
    BY <2>7 DEF TypeOK, Start, QueueRequest, Advance, Requests, camVars
  <2>8. CASE WakeOnGuard
    BY <2>8 DEF TypeOK, WakeOnGuard, reqVars, camVars
  <2>9. CASE WakeOnOther
    BY <2>9 DEF TypeOK, WakeOnOther, reqVars, camVars
  <2>10. CASE IsReady
    BY <2>10 DEF TypeOK, IsReady, Requests, reqVars, camVars
  <2>11. CASE ScanSkip
    BY <2>11 DEF TypeOK, ScanSkip, Advance, Requests, reqVars, camVars
  <2>12. CASE ScanTake
    BY <2>12 DEF TypeOK, ScanTake, Decremented, reqVars, camVars
  <2>13. CASE Publish
    BY <2>13 DEF TypeOK, Publish, reqVars, camVars
  <2>14. CASE Reuse
    BY <2>14 DEF TypeOK, Reuse, camVars
  <2>15. CASE Release
    BY <2>15 DEF TypeOK, Release, reqVars, camVars
  <2>16. CASE Queue
    BY <2>16 DEF TypeOK, Queue, QueueRequest, Advance, Requests, camVars
  <2>17. CASE Stop
    BY <2>17 DEF TypeOK, Stop, reqVars, camVars
  <2>18. CASE Stopped
    BY <2>18 DEF TypeOK, Stopped, reqVars, camVars
  <2>19. CASE UNCHANGED vars
    BY <2>19 DEF TypeOK, vars
  <2>20. QED
    BY <2>1, <2>2, <2>3, <2>4, <2>5, <2>6, <2>7, <2>8, <2>9, <2>10, <2>11,
       <2>12, <2>13, <2>14, <2>15, <2>16, <2>17, <2>18, <2>19
       DEF Next, Camera, Handle, Execute, Destroyed
<1>3. QED
  BY <1>1, <1>2, PTL DEF Spec

(* Requests and flags change hands as Ownership says.                        *)
LEMMA OwnershipInvariant == Spec => []Ownership
<1> USE NumRequestsAssumption
<1>1. Init => Ownership
  BY DEF Init, Ownership
<1>2. TypeOK /\ Ownership /\ [Next]_vars => Ownership'
  <2> SUFFICES ASSUME TypeOK, Ownership, [Next]_vars PROVE Ownership'
    OBVIOUS
  <2>1. ASSUME NEW r \in Requests, CompleteRequest(r) PROVE Ownership'
    BY <2>1 DEF TypeOK, Ownership, CompleteRequest, Oldest, exeVars
  <2>2. ASSUME NEW r \in Requests, CancelRequest(r) PROVE Ownership'
    BY <2>2 DEF TypeOK, Ownership, CancelRequest, Oldest, exeVars
  <2>3. CASE HandleCancelled
    BY <2>3 DEF TypeOK, Ownership, HandleCancelled, reqVars, exeVars
  <2>4. CASE HandleWaiting
    BY <2>4 DEF TypeOK, Ownership, HandleWaiting, reqVars, exeVars
  <2>5. CASE HandleCount
    BY <2>5 DEF TypeOK, Ownership, HandleCount, reqVars, exeVars
  <2>6. CASE HandleTrigger
    BY <2>6 DEF TypeOK, Ownership, HandleTrigger, reqVars, exeVars
  <2>7. CASE Start
    BY <2>7, SMTT(40) DEF TypeOK, Ownership, Start, QueueRequest, Advance, Requests, camVars
  <2>8. CASE WakeOnGuard
    BY <2>8 DEF TypeOK, Ownership, WakeOnGuard, reqVars, camVars
  <2>9. CASE WakeOnOther
    BY <2>9 DEF TypeOK, Ownership, WakeOnOther, reqVars, camVars
  <2>10. CASE IsReady
    BY <2>10 DEF TypeOK, Ownership, IsReady, reqVars, camVars
  <2>11. CASE ScanSkip
    BY <2>11 DEF TypeOK, Ownership, ScanSkip, Advance, reqVars, camVars
  <2>12. CASE ScanTake
    BY <2>12 DEF TypeOK, Ownership, ScanTake, reqVars, camVars
  <2>13. CASE Publish
    BY <2>13 DEF TypeOK, Ownership, Publish, reqVars, camVars
  <2>14. CASE Reuse
    BY <2>14 DEF TypeOK, Ownership, Reuse, camVars
  <2>15. CASE Release
    BY <2>15 DEF TypeOK, Ownership, Release, reqVars, camVars
  <2>16. CASE Queue
    BY <2>16 DEF TypeOK, Ownership, Queue, QueueRequest, Advance, camVars
  <2>17. CASE Stop
    BY <2>17 DEF TypeOK, Ownership, Stop, reqVars, camVars
  <2>18. CASE Stopped
    BY <2>18 DEF TypeOK, Ownership, Stopped, reqVars, camVars
  <2>19. CASE UNCHANGED vars
    BY <2>19 DEF Ownership, vars
  <2>20. QED
    BY <2>1, <2>2, <2>3, <2>4, <2>5, <2>6, <2>7, <2>8, <2>9, <2>10, <2>11,
       <2>12, <2>13, <2>14, <2>15, <2>16, <2>17, <2>18, <2>19
       DEF Next, Camera, Handle, Execute, Destroyed
<1>3. QED
  BY <1>1, <1>2, TypeCorrect, PTL DEF Spec

(* The assertion in handle() never fires.                                    *)
THEOREM AssertionHolds == Spec => []NeverThrows
<1>1. Ownership => NeverThrows
  BY DEF Ownership, NeverThrows
<1>2. QED
  BY <1>1, OwnershipInvariant, PTL

(* execute() publishes only buffers the camera has given up.                 *)
THEOREM BuffersExclusive == Spec => []ExclusiveBuffers
<1>1. Ownership => ExclusiveBuffers
  BY DEF Ownership, ExclusiveBuffers
<1>2. QED
  BY <1>1, OwnershipInvariant, PTL

(* No request is dropped between the two threads.                            *)
THEOREM RequestsKept == Spec => []NoRequestLost
<1> USE NumRequestsAssumption
<1>1. Init => NoRequestLost
  BY DEF Init, NoRequestLost, Requests
<1>2. TypeOK /\ Ownership /\ NoRequestLost /\ [Next]_vars => NoRequestLost'
  <2> SUFFICES ASSUME TypeOK, Ownership, NoRequestLost, [Next]_vars
               PROVE  NoRequestLost'
    OBVIOUS
  <2>1. ASSUME NEW r \in Requests, CompleteRequest(r) PROVE NoRequestLost'
    BY <2>1 DEF TypeOK, Ownership, NoRequestLost, CompleteRequest, Oldest, exeVars
  <2>2. ASSUME NEW r \in Requests, CancelRequest(r) PROVE NoRequestLost'
    BY <2>2 DEF TypeOK, Ownership, NoRequestLost, CancelRequest, Oldest, exeVars
  <2>3. CASE HandleCancelled
    BY <2>3 DEF TypeOK, Ownership, NoRequestLost, HandleCancelled, reqVars, exeVars
  <2>4. CASE HandleWaiting
    BY <2>4 DEF TypeOK, Ownership, NoRequestLost, HandleWaiting, reqVars, exeVars
  <2>5. CASE HandleCount
    BY <2>5 DEF TypeOK, Ownership, NoRequestLost, HandleCount, reqVars, exeVars
  <2>6. CASE HandleTrigger
    BY <2>6 DEF TypeOK, Ownership, NoRequestLost, HandleTrigger, reqVars, exeVars
  <2>7. CASE Start
    BY <2>7, SMTT(40) DEF TypeOK, Ownership, NoRequestLost, Start, QueueRequest, Advance, Requests, camVars
  <2>8. CASE WakeOnGuard
    BY <2>8 DEF TypeOK, Ownership, NoRequestLost, WakeOnGuard, reqVars, camVars
  <2>9. CASE WakeOnOther
    BY <2>9 DEF TypeOK, Ownership, NoRequestLost, WakeOnOther, reqVars, camVars
  <2>10. CASE IsReady
    BY <2>10 DEF TypeOK, Ownership, NoRequestLost, IsReady, reqVars, camVars
  <2>11. CASE ScanSkip
    BY <2>11 DEF TypeOK, Ownership, NoRequestLost, ScanSkip, Advance, reqVars, camVars
  <2>12. CASE ScanTake
    BY <2>12 DEF TypeOK, Ownership, NoRequestLost, ScanTake, reqVars, camVars
  <2>13. CASE Publish
    BY <2>13 DEF TypeOK, Ownership, NoRequestLost, Publish, reqVars, camVars
  <2>14. CASE Reuse
    BY <2>14 DEF TypeOK, Ownership, NoRequestLost, Reuse, camVars
  <2>15. CASE Release
    BY <2>15 DEF TypeOK, Ownership, NoRequestLost, Release, reqVars, camVars
  <2>16. CASE Queue
    BY <2>16 DEF TypeOK, Ownership, NoRequestLost, Queue, QueueRequest, Advance, camVars
  <2>17. CASE Stop
    BY <2>17 DEF TypeOK, Ownership, NoRequestLost, Stop, reqVars, camVars
  <2>18. CASE Stopped
    BY <2>18 DEF TypeOK, Ownership, NoRequestLost, Stopped, reqVars, camVars
  <2>19. CASE UNCHANGED vars
    BY <2>19 DEF NoRequestLost, vars
  <2>20. QED
    BY <2>1, <2>2, <2>3, <2>4, <2>5, <2>6, <2>7, <2>8, <2>9, <2>10, <2>11,
       <2>12, <2>13, <2>14, <2>15, <2>16, <2>17, <2>18, <2>19
       DEF Next, Camera, Handle, Execute, Destroyed
<1>3. QED
  BY <1>1, <1>2, TypeCorrect, OwnershipInvariant, PTL DEF Spec

-----------------------------------------------------------------------------
(* The raised flags are finitely many, at most one per request.              *)
LEMMA WaitingFinite ==
  ASSUME TypeOK
  PROVE  /\ IsFiniteSet(Waiting)
         /\ Cardinality(Waiting) \in 0 .. NumRequests
         /\ Waiting # {} <=> Cardinality(Waiting) > 0
<1>1. IsFiniteSet(Requests) /\ Cardinality(Requests) = NumRequests
  BY NumRequestsAssumption, FS_Interval DEF Requests
<1>2. Waiting \subseteq Requests
  BY DEF Waiting
<1>3. IsFiniteSet(Waiting) /\ Cardinality(Waiting) <= NumRequests
  BY <1>1, <1>2, FS_Subset
<1>4. Cardinality(Waiting) \in Nat
  BY <1>3, FS_CardinalityType
<1>5. Cardinality(Waiting) = 0 <=> Waiting = {}
  BY <1>3, FS_EmptySet
<1>6. QED
  BY <1>3, <1>4, <1>5, NumRequestsAssumption

(* Raising a lowered flag adds one to their number ...                       *)
LEMMA FlagRaised ==
  ASSUME TypeOK, NEW r \in Requests, ~waiting[r],
         waiting' = [waiting EXCEPT ![r] = TRUE]
  PROVE  Cardinality(Waiting)' = Cardinality(Waiting) + 1
<1>1. r \notin Waiting /\ Waiting' = Waiting \cup {r}
  BY DEF TypeOK, Waiting
<1>2. QED
  BY <1>1, WaitingFinite, FS_AddElement

(* ... and lowering a raised one takes one off.                              *)
LEMMA FlagLowered ==
  ASSUME TypeOK, NEW r \in Requests, waiting[r],
         waiting' = [waiting EXCEPT ![r] = FALSE]
  PROVE  Cardinality(Waiting)' = Cardinality(Waiting) - 1
<1>1. r \in Waiting /\ Waiting' = Waiting \ {r}
  BY DEF TypeOK, Waiting
<1>2. QED
  BY <1>1, WaitingFinite, FS_RemoveElement

(* waiting_requests counts the raised flags, give or take the two operations *)
(* the threads have under way.                                               *)
THEOREM CounterCorrect == Spec => []CounterExact
<1> USE NumRequestsAssumption, CounterModAssumption
<1>1. Init => CounterExact
  <2> SUFFICES ASSUME Init PROVE CounterExact
    OBVIOUS
  <2>1. Waiting = {}
    BY DEF Init, Waiting
  <2>2. Balance = 0
    BY <2>1, FS_EmptySet DEF Init, Balance, Processing
  <2>3. QED
    BY <2>2 DEF Init, CounterExact
<1>2. TypeOK /\ Ownership /\ CounterExact /\ [Next]_vars => CounterExact'
  <2> SUFFICES ASSUME TypeOK, Ownership, CounterExact, [Next]_vars
               PROVE  CounterExact'
    OBVIOUS
  <2> DEFINE flags == Cardinality(Waiting)
             owed  == IF camPc = "count" THEN 1 ELSE 0
             busy  == IF exePc \in Processing THEN 1 ELSE 0
  <2>a. flags \in 0 .. NumRequests
    BY WaitingFinite
  <2>b. Balance = flags - owed - busy
    BY DEF Balance
  <2>c. Balance' = flags' - owed' - busy'
    BY DEF Balance
  <2>d. busy = 1 => flags > 0
    BY WaitingFinite DEF Ownership, Processing, Waiting, TypeOK
  <2>e. waiting' = waiting => flags' = flags
    BY DEF Waiting
  <2> HIDE DEF flags
  <2>1. ASSUME waiting' = waiting, waiting_requests' = waiting_requests,
               owed' = owed, busy' = busy
        PROVE  CounterExact'
    BY <2>1, <2>b, <2>c, <2>e DEF CounterExact
  <2> USE DEF Processing
  <2>2. ASSUME NEW r \in Requests, CompleteRequest(r) \/ CancelRequest(r)
        PROVE  CounterExact'
    BY <2>1, <2>2 DEF CompleteRequest, CancelRequest, exeVars
  <2>3. CASE HandleCancelled
    BY <2>1, <2>3 DEF HandleCancelled, exeVars
  <2>4. CASE HandleWaiting
    <3>1. flags' = flags + 1
      BY <2>4, FlagRaised DEF HandleWaiting, Ownership, TypeOK, flags
    <3>2. owed = 0 /\ owed' = 1 /\ busy' = busy
      BY <2>4 DEF HandleWaiting, Ownership, exeVars
    <3>3. QED
      BY <3>1, <3>2, <2>4, <2>a, <2>b, <2>c DEF CounterExact, HandleWaiting
  <2>5. CASE HandleCount
    <3>1. owed = 1 /\ owed' = 0 /\ busy' = busy /\ flags' = flags
      BY <2>5, <2>e DEF HandleCount, exeVars
    <3>2. QED
      BY <3>1, <2>5, <2>a, <2>b, <2>c, <2>d
         DEF CounterExact, HandleCount, Incremented
  <2>6. CASE HandleTrigger
    BY <2>1, <2>6 DEF HandleTrigger, exeVars
  <2>7. CASE Start
    BY <2>1, <2>7 DEF Start, Advance, camVars
  <2>8. CASE WakeOnGuard \/ WakeOnOther
    BY <2>1, <2>8 DEF WakeOnGuard, WakeOnOther, camVars
  <2>9. CASE IsReady
    BY <2>1, <2>9 DEF IsReady, camVars
  <2>10. CASE ScanSkip
    BY <2>1, <2>10 DEF ScanSkip, Advance, camVars
  <2>11. CASE ScanTake
    <3>1. flags > 0
      BY <2>11, WaitingFinite DEF ScanTake, Waiting, TypeOK, flags
    <3>2. busy = 0 /\ busy' = 1 /\ owed' = owed /\ flags' = flags
      BY <2>11, <2>e DEF ScanTake, camVars
    <3>3. QED
      BY <3>1, <3>2, <2>11, <2>a, <2>b, <2>c
         DEF CounterExact, ScanTake, Decremented
  <2>12. CASE Publish
    BY <2>1, <2>12 DEF Publish, camVars
  <2>13. CASE Reuse
    BY <2>1, <2>13 DEF Reuse, camVars
  <2>14. CASE Release
    <3>1. flags' = flags - 1
      BY <2>14, FlagLowered DEF Release, Ownership, TypeOK, flags
    <3>2. busy = 1 /\ busy' = 0 /\ owed' = owed
      BY <2>14 DEF Release, camVars
    <3>3. QED
      BY <3>1, <3>2, <2>14, <2>a, <2>b, <2>c DEF CounterExact, Release
  <2>15. CASE Queue
    BY <2>1, <2>15 DEF Queue, Advance, camVars
  <2>16. CASE Stop \/ Stopped
    BY <2>1, <2>16 DEF Stop, Stopped, camVars
  <2>17. CASE UNCHANGED vars
    BY <2>1, <2>17 DEF vars
  <2>18. QED
    BY <2>2, <2>3, <2>4, <2>5, <2>6, <2>7, <2>8, <2>9, <2>10, <2>11, <2>12,
       <2>13, <2>14, <2>15, <2>16, <2>17
       DEF Next, Camera, Handle, Execute, Destroyed
<1>3. QED
  BY <1>1, <1>2, TypeCorrect, OwnershipInvariant, PTL DEF Spec

-----------------------------------------------------------------------------
(* A sleeping executor never sleeps on a raised flag: a flag raised behind   *)
(* the scan has its trigger still to come, and the executor goes to sleep    *)
(* after is_ready() only if the counter is zero, which by CounterExact means *)
(* that the only flag that can be up is one not counted yet.                 *)
THEOREM WakeupCorrect == Spec => []NoLostWakeup
<1> USE NumRequestsAssumption
<1>1. Init => WakeupPending
  BY DEF Init, WakeupPending
<1>2. TypeOK /\ Ownership /\ CounterExact /\ WakeupPending /\ [Next]_vars
         => WakeupPending'
  <2> SUFFICES ASSUME TypeOK, Ownership, CounterExact, WakeupPending,
                      [Next]_vars
               PROVE  WakeupPending'
    OBVIOUS
  <2>1. ASSUME NEW r \in Requests, CompleteRequest(r) PROVE WakeupPending'
    BY <2>1 DEF TypeOK, WakeupPending, PassedBy, Processing,
       CompleteRequest, Oldest, exeVars
  <2>2. ASSUME NEW r \in Requests, CancelRequest(r) PROVE WakeupPending'
    BY <2>2 DEF TypeOK, WakeupPending, PassedBy, Processing,
       CancelRequest, Oldest, exeVars
  <2>3. CASE HandleCancelled
    BY <2>3 DEF TypeOK, WakeupPending, PassedBy, Processing,
       HandleCancelled, reqVars, exeVars
  <2>4. CASE HandleWaiting
    BY <2>4 DEF TypeOK, WakeupPending, PassedBy, Processing,
       HandleWaiting, reqVars, exeVars
  <2>5. CASE HandleCount
    BY <2>5 DEF TypeOK, WakeupPending, PassedBy, Processing,
       HandleCount, reqVars, exeVars
  <2>6. CASE HandleTrigger
    BY <2>6 DEF TypeOK, WakeupPending, PassedBy, Processing,
       HandleTrigger, reqVars, exeVars
  <2>7. CASE Start
    BY <2>7 DEF TypeOK, WakeupPending, PassedBy, Processing,
       Ownership, Start, QueueRequest, Advance, Requests, camVars
  <2>8. CASE WakeOnGuard
    BY <2>8 DEF TypeOK, WakeupPending, PassedBy, Processing,
       WakeOnGuard, reqVars, camVars
  <2>9. CASE WakeOnOther
    BY <2>9 DEF TypeOK, WakeupPending, PassedBy, Processing,
       WakeOnOther, reqVars, camVars
  <2>10. CASE IsReady
    <3>1. CASE waiting_requests > 0
      BY <3>1, <2>10 DEF TypeOK, PassedBy, Processing, WakeupPending, IsReady,
         Requests, reqVars, camVars
    <3>2. CASE waiting_requests = 0
      <4>1. Waiting # {} => camPc = "count"
        BY <3>2, <2>10, WaitingFinite, CounterModAssumption
           DEF IsReady, CounterExact, Balance, Processing
      <4>2. QED
        BY <4>1, <2>10 DEF TypeOK, WakeupPending, Waiting, IsReady, camVars
    <3>3. QED
      BY <3>1, <3>2 DEF TypeOK
  <2>11. CASE ScanSkip
    BY <2>11 DEF TypeOK, WakeupPending, PassedBy, Processing,
       ScanSkip, Advance, Requests, reqVars, camVars
  <2>12. CASE ScanTake
    BY <2>12 DEF TypeOK, WakeupPending, PassedBy, Processing,
       ScanTake, reqVars, camVars
  <2>13. CASE Publish
    BY <2>13 DEF TypeOK, WakeupPending, PassedBy, Processing,
       Publish, reqVars, camVars
  <2>14. CASE Reuse
    BY <2>14 DEF TypeOK, WakeupPending, PassedBy, Processing,
       Reuse, camVars
  <2>15. CASE Release
    BY <2>15 DEF TypeOK, WakeupPending, PassedBy, Processing,
       Release, reqVars, camVars
  <2>16. CASE Queue
    BY <2>16 DEF TypeOK, WakeupPending, PassedBy, Processing,
       Queue, Ownership, QueueRequest, Advance, Requests, camVars
  <2>17. CASE Stop
    BY <2>17 DEF TypeOK, WakeupPending, PassedBy, Processing,
       Stop, reqVars, camVars
  <2>18. CASE Stopped
    BY <2>18 DEF TypeOK, WakeupPending, PassedBy, Processing,
       Stopped, reqVars, camVars
  <2>19. CASE UNCHANGED vars
    BY <2>19 DEF WakeupPending, PassedBy, vars
  <2>20. QED
    BY <2>1, <2>2, <2>3, <2>4, <2>5, <2>6, <2>7, <2>8, <2>9, <2>10, <2>11,
       <2>12, <2>13, <2>14, <2>15, <2>16, <2>17, <2>18, <2>19
       DEF Next, Camera, Handle, Execute, Destroyed
<1>3. WakeupPending => NoLostWakeup
  BY DEF WakeupPending, PassedBy, NoLostWakeup, Waiting
<1>4. QED
  BY <1>1, <1>2, <1>3, TypeCorrect, OwnershipInvariant, CounterCorrect, PTL
     DEF Spec
-----------------------------------------------------------------------------
(* Why a frame is overtaken by fewer frames than there are requests.  The    *)
(* camera completes its requests in order, so while it has frame f every     *)
(* younger frame is still on a request of its own: there are fewer than      *)
(* NumRequests.  From the moment the flag is up, execute() reaches f before  *)
(* it comes to a request for the second time.                                *)
Active == {r \in Requests : status[r] # "Pending"}

Coming ==
    {r \in Requests : \/ status[r] = "Queued"
                      \/ status[r] = "Complete" /\ camPc = "handle" /\ camReq = r}

FramesDistinct ==
    /\ \A r \in Active : sequence[r] < nextSequence
    /\ \A r, q \in Active : sequence[r] = sequence[q] => r = q

FramesInOrder ==
    \A r \in Requests : status[r] = "Complete" =>
        \A q \in Coming : q = r \/ sequence[r] < sequence[q]

FramesHeld ==
    \A q \in Coming : \A f \in sequence[q] .. nextSequence - 1 :
        \E r \in Active : sequence[r] = f

PublishedOnce ==
    /\ \A f \in published : f < nextSequence
    /\ \A r \in Requests :
          status[r] = "Queued" \/ r \in Unpublished => sequence[r] \notin published

(* The loop over the contexts comes to r before it comes to q.               *)
Ahead(r, q) ==
    \/ exeIdx <= r /\ r < q
    \/ q < exeIdx /\ exeIdx <= r
    \/ r < q /\ q < exeIdx

OvertakenOnce ==
    \A r \in Active, q \in Requests :
        status[q] = "Complete" /\ waiting[q] /\ Ahead(r, q) =>
            sequence[r] < sequence[q] + NumRequests

RestsAtFirst == exePc \in {"wait", "ready", "stopping", "released"} => exeIdx = 0

FrameInv ==
    /\ FramesDistinct
    /\ FramesInOrder
    /\ FramesHeld
    /\ PublishedOnce
    /\ OvertakenOnce
    /\ RestsAtFirst

(* There are at most as many frames as requests that carry them.             *)
LEMMA FramesOfRequests ==
    ASSUME TypeOK, NEW R \in SUBSET Requests
    PROVE  /\ IsFiniteSet({sequence[r] : r \in R}) /\ IsFiniteSet(R)
           /\ Cardinality({sequence[r] : r \in R}) <= Cardinality(R)
           /\ Cardinality(R) <= NumRequests
<1> DEFINE F == {sequence[r] : r \in R}
           f == [r \in R |-> sequence[r]]
<1>1. IsFiniteSet(Requests) /\ Cardinality(Requests) = NumRequests
  BY NumRequestsAssumption, FS_Interval DEF Requests
<1>2. IsFiniteSet(R) /\ Cardinality(R) <= NumRequests
  BY <1>1, FS_Subset
<1>3. f \in Surjection(R, F)
  BY DEF Surjection
<1> HIDE DEF F, f
<1>4. IsFiniteSet(F) /\ Cardinality(F) <= Cardinality(R)
  BY <1>2, <1>3, FS_Surjection
<1> QED BY <1>2, <1>4 DEF F

(* While the camera has a frame, fewer than NumRequests are younger.         *)
LEMMA FewYounger ==
    ASSUME TypeOK, FramesDistinct, FramesHeld, NEW q \in Coming
    PROVE  nextSequence <= sequence[q] + NumRequests
<1> DEFINE I == sequence[q] .. nextSequence - 1
           F == {sequence[r] : r \in Requests}
<1>1. /\ sequence[q] \in Int /\ nextSequence \in Int /\ NumRequests \in Int
      /\ sequence[q] < nextSequence /\ nextSequence - 1 \in Int
  BY NumRequestsAssumption DEF TypeOK, FramesDistinct, Coming, Active
<1>2. Cardinality(I) = nextSequence - sequence[q]
  BY <1>1, FS_Interval
<1>3. I \in SUBSET F
  BY DEF FramesHeld, Active
<1>4. IsFiniteSet(F) /\ Cardinality(F) <= NumRequests
  <2>1. IsFiniteSet(F) /\ IsFiniteSet(Requests) /\ Cardinality(F) <= Cardinality(Requests)
        /\ Cardinality(Requests) <= NumRequests
    BY FramesOfRequests
  <2> HIDE DEF F
  <2>2. Cardinality(F) \in Nat /\ Cardinality(Requests) \in Nat
    BY <2>1, FS_CardinalityType
  <2> QED BY <1>1, <2>1, <2>2
<1> HIDE DEF I, F
<1>5. Cardinality(I) <= Cardinality(F) /\ Cardinality(F) \in Nat
  BY <1>3, <1>4, FS_Subset, FS_CardinalityType
<1> QED BY <1>1, <1>2, <1>4, <1>5

(* A request that start() or execute() queues gets the next frame.           *)
LEMMA QueuedIs ==
    ASSUME TypeOK, NEW r \in Requests, status[r] = "Pending", QueueRequest(r)
    PROVE  /\ status' = [status EXCEPT ![r] = "Queued"]
           /\ sequence' = [sequence EXCEPT ![r] = nextSequence]
           /\ nextSequence' = nextSequence + 1
BY DEF QueueRequest

(* The loop moves on: the request it leaves behind is the last it comes to.  *)
LEMMA LoopMovesOn ==
    ASSUME TypeOK, TypeOK', NEW pc, pc \in {"start", "scan"}, Advance(pc),
           NEW r \in Requests, NEW q \in Requests, Ahead(r, q)'
    PROVE  /\ r # exeIdx
           /\ q # exeIdx => Ahead(r, q)
BY NumRequestsAssumption, SMTT(40) DEF TypeOK, Advance, Ahead, Requests

LEMMA RestsAfterAdvance ==
    ASSUME NEW pc, pc \in {"start", "scan"}, Advance(pc)
    PROVE  RestsAtFirst'
BY DEF Advance, RestsAtFirst

(* Queueing keeps FrameInv: the frame is the youngest, its request the last. *)
LEMMA QueueKeepsFrames ==
    ASSUME TypeOK, TypeOK', Ownership, FrameInv,
           status[exeIdx] = "Pending", QueueRequest(exeIdx),
           NEW pc, pc \in {"start", "scan"}, Advance(pc),
           exePc # "update", exePc' # "update",
           UNCHANGED <<waiting, waiting_requests, gc, camVars, published>>
    PROVE  FrameInv'
<1>1. /\ exeIdx \in Requests
      /\ status' = [status EXCEPT ![exeIdx] = "Queued"]
      /\ sequence' = [sequence EXCEPT ![exeIdx] = nextSequence]
      /\ nextSequence' = nextSequence + 1
      /\ UNCHANGED <<waiting, camPc, camReq, published>>
  BY QueuedIs DEF TypeOK, camVars
<1>2. nextSequence \in Nat /\ \A r \in Requests : sequence[r] \in Nat
  BY DEF TypeOK
<1>3. /\ sequence'[exeIdx] = nextSequence /\ status'[exeIdx] = "Queued"
      /\ \A r \in Requests : r # exeIdx =>
             sequence'[r] = sequence[r] /\ status'[r] = status[r]
  BY <1>1 DEF TypeOK
<1>4. Active' = Active \cup {exeIdx} /\ exeIdx \notin Active
  BY <1>1, <1>3 DEF Active
<1>5. Coming' = Coming \cup {exeIdx} /\ exeIdx \notin Coming
  BY <1>1, <1>3 DEF Coming
<1>6. Unpublished' = Unpublished /\ exeIdx \notin Unpublished
  BY <1>1, <1>3 DEF Unpublished
<1>7. FramesDistinct'
  BY <1>1, <1>2, <1>3, <1>4 DEF FrameInv, FramesDistinct, Active
<1>8. FramesInOrder'
  <2> SUFFICES ASSUME NEW r \in Requests, status'[r] = "Complete", NEW q \in Coming', q # r
               PROVE  sequence'[r] < sequence'[q]
    BY DEF FramesInOrder
  <2>1. r # exeIdx /\ sequence'[r] = sequence[r] /\ status[r] = "Complete" /\ r \in Active
    BY <1>3 DEF Active
  <2>2. CASE q = exeIdx
    BY <1>2, <1>3, <2>1, <2>2 DEF FrameInv, FramesDistinct
  <2>3. CASE q # exeIdx
    <3>1. q \in Coming /\ q \in Requests
      BY <1>5, <2>3 DEF Coming
    <3> QED BY <1>3, <2>1, <2>3, <3>1 DEF FrameInv, FramesInOrder
  <2> QED BY <2>2, <2>3
<1>9. FramesHeld'
  <2> SUFFICES ASSUME NEW q \in Coming', NEW f \in sequence'[q] .. nextSequence' - 1
               PROVE  \E r \in Active' : sequence'[r] = f
    BY DEF FramesHeld
  <2>1. CASE f = nextSequence
    BY <1>3, <1>4, <2>1
  <2>2. CASE f # nextSequence
    <3>1. q # exeIdx
      BY <1>1, <1>2, <1>3, <2>2
    <3>2. q \in Coming /\ q \in Requests
      BY <1>5, <3>1 DEF Coming
    <3>3. f \in sequence[q] .. nextSequence - 1
      BY <1>1, <1>2, <1>3, <2>2, <3>1, <3>2
    <3>4. PICK r \in Active : sequence[r] = f
      BY <3>2, <3>3 DEF FrameInv, FramesHeld
    <3>5. r \in Requests /\ r # exeIdx
      BY <1>4 DEF Active
    <3> QED BY <1>3, <1>4, <3>4, <3>5
  <2> QED BY <2>1, <2>2
<1>10. PublishedOnce'
  <2>1. \A f \in published : f \in Nat /\ f < nextSequence
    BY DEF TypeOK, FrameInv, PublishedOnce
  <2>2. nextSequence \notin published
    BY <1>2, <2>1
  <2>3. \A r \in Requests :
            status'[r] = "Queued" \/ r \in Unpublished' => sequence'[r] \notin published
    BY <1>3, <1>6, <2>2 DEF FrameInv, PublishedOnce
  <2> QED BY <1>1, <1>2, <2>1, <2>3 DEF PublishedOnce
<1>11. OvertakenOnce'
  <2> SUFFICES ASSUME NEW r \in Active', NEW q \in Requests, status'[q] = "Complete",
                      waiting'[q], Ahead(r, q)'
               PROVE  sequence'[r] < sequence'[q] + NumRequests
    BY DEF OvertakenOnce
  <2>1. r \in Requests /\ q # exeIdx
    BY <1>3 DEF Active
  <2>2. r # exeIdx /\ Ahead(r, q)
    BY <2>1, LoopMovesOn
  <2>3. r \in Active
    BY <1>4, <2>2
  <2> QED BY <1>1, <1>3, <2>1, <2>2, <2>3 DEF FrameInv, OvertakenOnce
<1> QED BY <1>7, <1>8, <1>9, <1>10, <1>11, RestsAfterAdvance DEF FrameInv
(* Steps that move neither a request nor the loop.                           *)
LEMMA FramesStay ==
    ASSUME FrameInv, RestsAtFirst', Coming' = Coming, Unpublished' = Unpublished,
           \A r \in Requests : waiting'[r] => waiting[r],
           UNCHANGED <<reqVars, exeIdx, published>>
    PROVE  FrameInv'
BY DEF FrameInv, FramesDistinct, FramesInOrder, FramesHeld, PublishedOnce,
   OvertakenOnce, Ahead, Active, reqVars

LEMMA FrameInvariant == Spec => [](TypeOK /\ Ownership /\ NoRequestLost /\ FrameInv)
<1>1. Init => FrameInv
  <2> SUFFICES ASSUME Init PROVE FrameInv
    OBVIOUS
  <2>1. Active = {} /\ Coming = {} /\ Unpublished = {} /\ published = {}
    BY DEF Init, Active, Coming, Unpublished
  <2> QED BY <2>1 DEF Init, FrameInv, FramesDistinct, FramesInOrder, FramesHeld,
             PublishedOnce, OvertakenOnce, RestsAtFirst, Active
<1>2. TypeOK /\ TypeOK' /\ Ownership /\ NoRequestLost /\ FrameInv /\ [Next]_vars => FrameInv'
  <2> SUFFICES ASSUME TypeOK, TypeOK', Ownership, NoRequestLost, FrameInv, [Next]_vars
               PROVE  FrameInv'
    OBVIOUS
  <2>a. /\ \A r \in Requests : sequence[r] \in Nat
        /\ nextSequence \in Nat
    BY DEF TypeOK
  <2>1. ASSUME NEW r \in Requests, CompleteRequest(r) PROVE FrameInv'
    <3>1. /\ status[r] = "Queued" /\ status' = [status EXCEPT ![r] = "Complete"]
          /\ camPc = "run" /\ camPc' = "handle" /\ camReq' = r
          /\ UNCHANGED <<sequence, nextSequence, waiting, exePc, exeIdx, published>>
      BY <2>1 DEF CompleteRequest, Oldest, exeVars
    <3>2. /\ status'[r] = "Complete"
          /\ \A q \in Requests : q # r => status'[q] = status[q]
          /\ ~waiting[r]
      BY <3>1 DEF TypeOK, Ownership
    <3>3. Active' = Active /\ Coming' = Coming /\ r \in Coming /\ r \in Active
      BY <3>1, <3>2 DEF Active, Coming
    <3>4. FramesInOrder'
      <4> SUFFICES ASSUME NEW p \in Requests, status'[p] = "Complete",
                          NEW q \in Coming, q # p
                   PROVE  sequence[p] < sequence[q]
        BY <3>1, <3>3 DEF FramesInOrder
      <4>1. CASE p # r
        BY <3>2, <4>1 DEF FrameInv, FramesInOrder
      <4>2. CASE p = r
        <5>1. q \in Active /\ q \in Requests /\ status[q] = "Queued"
          BY <3>1 DEF Coming, Active
        <5>2. sequence[r] <= sequence[q]
          BY <2>1, <5>1 DEF CompleteRequest, Oldest
        <5>3. sequence[r] # sequence[q]
          BY <3>3, <4>2, <5>1 DEF FrameInv, FramesDistinct
        <5> QED BY <2>a, <4>2, <5>1, <5>2, <5>3
      <4> QED BY <4>1, <4>2
    <3>5. PublishedOnce'
      BY <3>1, <3>2 DEF FrameInv, PublishedOnce, Unpublished
    <3>6. OvertakenOnce'
      BY <3>1, <3>2, <3>3 DEF FrameInv, OvertakenOnce, Ahead
    <3> QED BY <3>1, <3>3, <3>4, <3>5, <3>6
            DEF FrameInv, FramesDistinct, FramesHeld, RestsAtFirst
  <2>2. ASSUME NEW r \in Requests, CancelRequest(r) PROVE FrameInv'
    <3>1. /\ status[r] = "Queued" /\ status' = [status EXCEPT ![r] = "Cancelled"]
          /\ camPc = "run" /\ camPc' = "handle" /\ camReq' = r
          /\ UNCHANGED <<sequence, nextSequence, waiting, exePc, exeIdx, published>>
      BY <2>2 DEF CancelRequest, Oldest, exeVars
    <3>2. /\ status'[r] = "Cancelled"
          /\ \A q \in Requests : q # r => status'[q] = status[q]
      BY <3>1 DEF TypeOK
    <3>3. Active' = Active /\ Coming' \subseteq Coming /\ Unpublished' = Unpublished
      BY <3>1, <3>2 DEF Active, Coming, Unpublished
    <3> QED BY <3>1, <3>2, <3>3
            DEF FrameInv, FramesDistinct, FramesInOrder, FramesHeld, PublishedOnce,
                OvertakenOnce, Ahead, RestsAtFirst
  <2>3. CASE HandleCancelled \/ HandleCount \/ HandleTrigger
    BY <2>3, FramesStay DEF HandleCancelled, HandleCount, HandleTrigger, Coming,
       Unpublished, reqVars, exeVars, FrameInv, RestsAtFirst
  <2>4. CASE HandleWaiting
    <3>1. /\ camPc = "handle" /\ status[camReq] = "Complete" /\ camReq \in Requests
          /\ waiting' = [waiting EXCEPT ![camReq] = TRUE] /\ camPc' # "handle"
          /\ UNCHANGED <<status, sequence, nextSequence, exePc, exeIdx, published>>
      BY <2>4 DEF HandleWaiting, Ownership, TypeOK, reqVars, exeVars
    <3>2. camReq \in Coming
      BY <3>1 DEF Coming
    <3>3. Active' = Active /\ Coming' \subseteq Coming /\ Unpublished' = Unpublished
      BY <3>1 DEF Active, Coming, Unpublished
    <3>4. nextSequence <= sequence[camReq] + NumRequests
      BY <3>2, FewYounger DEF FrameInv
    <3>5. \A r \in Active : sequence[r] < sequence[camReq] + NumRequests
      <4>1. \A r \in Active : r \in Requests /\ sequence[r] < nextSequence
        BY DEF FrameInv, FramesDistinct, Active
      <4> QED BY <2>a, <3>1, <3>4, <4>1, NumRequestsAssumption
    <3>6. OvertakenOnce'
      <4> SUFFICES ASSUME NEW r \in Active, NEW q \in Requests, status[q] = "Complete",
                          waiting'[q], Ahead(r, q)
                   PROVE  sequence[r] < sequence[q] + NumRequests
        BY <3>1, <3>3 DEF OvertakenOnce, Ahead
      <4>1. q # camReq => waiting[q]
        BY <3>1 DEF TypeOK
      <4> QED BY <3>5, <4>1 DEF FrameInv, OvertakenOnce
    <3> QED BY <3>1, <3>3, <3>6
            DEF FrameInv, FramesDistinct, FramesInOrder, FramesHeld, PublishedOnce,
                RestsAtFirst
  <2>5. CASE Start
    <3>1. status[exeIdx] = "Pending"
      BY <2>5 DEF Start, Ownership, TypeOK, Requests
    <3> QED BY <2>5, <3>1, QueueKeepsFrames DEF Start, Advance
  <2>6. CASE WakeOnGuard \/ WakeOnOther \/ Stop \/ Stopped \/ IsReady
    BY <2>6, FramesStay DEF WakeOnGuard, WakeOnOther, Stop, Stopped, IsReady, Coming,
       Unpublished, reqVars, camVars, FrameInv, RestsAtFirst
  <2>7. CASE ScanSkip
    <3>1. /\ ~waiting[exeIdx] /\ Advance("scan") /\ exePc = "scan" /\ exePc' # "update"
          /\ UNCHANGED <<status, sequence, nextSequence, waiting, camPc, camReq, published>>
      BY <2>7 DEF ScanSkip, Advance, reqVars, camVars
    <3>2. Active' = Active /\ Coming' = Coming /\ Unpublished' = Unpublished
      BY <3>1 DEF Active, Coming, Unpublished
    <3>3. OvertakenOnce'
      <4> SUFFICES ASSUME NEW r \in Active, NEW q \in Requests, status[q] = "Complete",
                          waiting[q], Ahead(r, q)'
                   PROVE  sequence[r] < sequence[q] + NumRequests
        BY <3>1, <3>2 DEF OvertakenOnce
      <4>1. q # exeIdx /\ r \in Requests
        BY <3>1 DEF Active
      <4>2. Ahead(r, q)
        BY <3>1, <4>1, LoopMovesOn
      <4> QED BY <4>2 DEF FrameInv, OvertakenOnce
    <3> QED BY <3>1, <3>2, <3>3, RestsAfterAdvance
            DEF FrameInv, FramesDistinct, FramesInOrder, FramesHeld, PublishedOnce
  <2>8. CASE ScanTake
    BY <2>8, FramesStay DEF ScanTake, Coming, Unpublished, reqVars, camVars, FrameInv,
       RestsAtFirst
  <2>9. CASE Publish
    <3>1. /\ published' = published \cup {sequence[exeIdx]} \/ published' = published
          /\ exePc \in {"publish", "publish_stale"} /\ exePc' = "update"
          /\ exeIdx \in Requests /\ status[exeIdx] = "Complete"
          /\ UNCHANGED <<status, sequence, nextSequence, waiting, camPc, camReq, exeIdx>>
      BY <2>9 DEF Publish, Ownership, TypeOK, reqVars, camVars
    <3>2. Active' = Active /\ Coming' = Coming /\ Unpublished' = Unpublished \ {exeIdx}
      BY <3>1 DEF Active, Coming, Unpublished
    <3>3. PublishedOnce'
      <4>1. exeIdx \in Active
        BY <3>1 DEF Active
      <4>2. \A r \in Requests :
                status[r] = "Queued" \/ r \in Unpublished' =>
                    r \in Active /\ r # exeIdx /\ sequence[r] \notin published
        BY <3>1, <3>2 DEF Active, Unpublished, FrameInv, PublishedOnce
      <4>3. \A r \in Requests :
                status[r] = "Queued" \/ r \in Unpublished' =>
                    sequence[r] # sequence[exeIdx]
        BY <4>1, <4>2 DEF FrameInv, FramesDistinct
      <4> QED BY <3>1, <4>1, <4>2, <4>3 DEF FrameInv, FramesDistinct, PublishedOnce
    <3> QED BY <3>1, <3>2, <3>3
            DEF FrameInv, FramesDistinct, FramesInOrder, FramesHeld, OvertakenOnce,
                Ahead, RestsAtFirst
  <2>10. CASE Reuse
    <3>1. /\ status' = [status EXCEPT ![exeIdx] = "Pending"] /\ exeIdx \in Requests
          /\ status[exeIdx] = "Complete" /\ waiting[exeIdx]
          /\ exePc = "update" /\ exePc' = "release"
          /\ UNCHANGED <<sequence, nextSequence, waiting, camPc, camReq, exeIdx, published>>
      BY <2>10 DEF Reuse, Ownership, TypeOK, camVars
    <3>2. /\ status'[exeIdx] = "Pending"
          /\ \A r \in Requests : r # exeIdx => status'[r] = status[r]
      BY <3>1 DEF TypeOK
    <3>3. /\ Active' = Active \ {exeIdx} /\ Unpublished' = Unpublished
          /\ Coming' = Coming /\ exeIdx \notin Coming
      BY <3>1, <3>2 DEF Active, Unpublished, Coming, Ownership
    <3>4. FramesHeld'
      <4> SUFFICES ASSUME NEW q \in Coming, NEW f \in sequence[q] .. nextSequence - 1
                   PROVE  \E r \in Active' : sequence[r] = f
        BY <3>1, <3>3 DEF FramesHeld
      <4>1. PICK r \in Active : sequence[r] = f
        BY DEF FrameInv, FramesHeld
      <4>2. sequence[exeIdx] < sequence[q]
        BY <3>1, <3>3 DEF FrameInv, FramesInOrder
      <4>3. q \in Requests
        BY DEF Coming
      <4>4. sequence[exeIdx] \in Int /\ sequence[q] \in Int /\ nextSequence \in Int
        BY <2>a, <3>1, <4>3
      <4>5. sequence[exeIdx] # f
        BY <4>2, <4>4
      <4> QED BY <3>3, <4>1, <4>5
    <3>5. FramesInOrder' /\ PublishedOnce' /\ OvertakenOnce'
      BY <3>1, <3>2, <3>3 DEF FrameInv, FramesInOrder, PublishedOnce, OvertakenOnce, Ahead
    <3> QED BY <3>1, <3>3, <3>4, <3>5 DEF FrameInv, FramesDistinct, RestsAtFirst
  <2>11. CASE Release
    <3>1. \A r \in Requests : waiting'[r] => waiting[r]
      BY <2>11 DEF Release, TypeOK
    <3> QED BY <2>11, <3>1, FramesStay DEF Release, Coming, Unpublished, reqVars,
            camVars, FrameInv, RestsAtFirst
  <2>12. CASE Queue
    <3>1. status[exeIdx] = "Pending"
      BY <2>12 DEF Queue, Ownership
    <3> QED BY <2>12, <3>1, QueueKeepsFrames DEF Queue, Advance
  <2>13. CASE UNCHANGED vars
    BY <2>13, FramesStay DEF vars, Coming, Unpublished, reqVars, FrameInv, RestsAtFirst
  <2> QED BY <2>1, <2>2, <2>3, <2>4, <2>5, <2>6, <2>7, <2>8, <2>9, <2>10, <2>11, <2>12,
             <2>13 DEF Next, Camera, Handle, Execute, Destroyed
<1> QED BY <1>1, <1>2, TypeCorrect, OwnershipInvariant, RequestsKept, PTL DEF Spec

-----------------------------------------------------------------------------
(* The refinement mapping of RequestHandlerRefinement.                       *)
InCamera == {sequence[r] : r \in {q \in Requests : status[q] = "Queued"}}
Captured == {sequence[r] : r \in Unpublished}
Open == exePc \notin {"stopping", "released"}

LEMMA CycleCardinality == \A S : Cycle!Cardinality(S) = Cardinality(S)
BY DEF Cycle!Cardinality, Cardinality, Cycle!IsFiniteSet, IsFiniteSet

(* A pending request leaves room for a frame.                                *)
LEMMA RoomForAFrame ==
    ASSUME TypeOK, NEW p \in Requests, status[p] = "Pending"
    PROVE  Cardinality(InCamera \cup Captured) < NumRequests
<1> DEFINE R == Requests \ {p}
           F == {sequence[r] : r \in R}
<1>1. InCamera \cup Captured \in SUBSET F
  BY DEF InCamera, Captured, Unpublished
<1>2. IsFiniteSet(F) /\ IsFiniteSet(R) /\ Cardinality(F) <= Cardinality(R)
  BY FramesOfRequests
<1>3. Cardinality(R) = NumRequests - 1
  <2>1. IsFiniteSet(Requests) /\ Cardinality(Requests) = NumRequests
    BY NumRequestsAssumption, FS_Interval DEF Requests
  <2> QED BY <2>1, FS_RemoveElement
<1> HIDE DEF R, F
<1>4. /\ IsFiniteSet(InCamera \cup Captured)
      /\ Cardinality(InCamera \cup Captured) <= Cardinality(F)
  BY <1>1, <1>2, FS_Subset
<1>5. Cardinality(InCamera \cup Captured) \in Nat /\ Cardinality(F) \in Nat
  BY <1>2, <1>4, FS_CardinalityType
<1> QED BY <1>2, <1>3, <1>4, <1>5, NumRequestsAssumption

(* Queueing a request orders a frame.                                        *)
LEMMA QueueOrders ==
    ASSUME TypeOK, status[exeIdx] = "Pending", QueueRequest(exeIdx),
           exePc \in {"start", "queue"}, exePc' \in {"start", "scan", "wait"},
           UNCHANGED published
    PROVE  Cycle!Order
<1>1. /\ exeIdx \in Requests
      /\ status' = [status EXCEPT ![exeIdx] = "Queued"]
      /\ sequence' = [sequence EXCEPT ![exeIdx] = nextSequence]
      /\ nextSequence' = nextSequence + 1
  BY QueuedIs DEF TypeOK
<1>2. /\ sequence'[exeIdx] = nextSequence /\ status'[exeIdx] = "Queued"
      /\ \A r \in Requests : r # exeIdx =>
             sequence'[r] = sequence[r] /\ status'[r] = status[r]
  BY <1>1 DEF TypeOK
<1>3. InCamera' = InCamera \cup {nextSequence}
  BY <1>1, <1>2 DEF InCamera
<1>4. Captured' = Captured
  <2>1. Unpublished' = Unpublished /\ exeIdx \notin Unpublished
    BY <1>2 DEF Unpublished
  <2> QED BY <1>2, <2>1 DEF Captured, Unpublished
<1>5. Open /\ Open'
  BY DEF Open
<1>6. Cardinality(InCamera \cup Captured) < NumRequests
  BY <1>1, RoomForAFrame
<1> QED BY <1>1, <1>3, <1>4, <1>5, <1>6, CycleCardinality
        DEF Cycle!Order, InCamera, Captured, Open

(* Steps that the frame cycle does not see.                                  *)
LEMMA CycleStutters ==
    ASSUME InCamera' = InCamera, Captured' = Captured, Open' = Open,
           UNCHANGED <<nextSequence, published>>
    PROVE  UNCHANGED Cycle!vars
BY DEF Cycle!vars, InCamera, Captured, Open

(* Each step of the threads is a step of the frame cycle or none.            *)
LEMMA CycleStep ==
    ASSUME ~WeakMemory, TypeOK, Ownership, NoRequestLost, FrameInv,
           exePc # "publish_stale", [Next]_vars
    PROVE  [Cycle!Next]_(Cycle!vars)
<1>a. \A r \in Requests : sequence[r] \in Nat
  BY DEF TypeOK
<1>1. ASSUME NEW r \in Requests, CompleteRequest(r), NEW f, f = sequence[r]
      PROVE  Cycle!Next
  <2>1. /\ status[r] = "Queued" /\ status' = [status EXCEPT ![r] = "Complete"]
        /\ \A q \in Requests : status[q] = "Queued" => sequence[r] <= sequence[q]
        /\ UNCHANGED <<sequence, nextSequence, exePc, exeIdx, published>>
    BY <1>1 DEF CompleteRequest, Oldest, exeVars
  <2>2. /\ status'[r] = "Complete"
        /\ \A q \in Requests : q # r => status'[q] = status[q]
    BY <2>1 DEF TypeOK
  <2>3. \A q \in Requests : status[q] = "Queued" /\ q # r => sequence[q] # sequence[r]
    BY <2>1 DEF FrameInv, FramesDistinct, Active
  <2>4. InCamera' = InCamera \ {sequence[r]}
    BY <2>1, <2>2, <2>3 DEF InCamera
  <2>5. Captured' = Captured \cup {sequence[r]}
    <3>1. Unpublished' = Unpublished \cup {r}
      BY <2>1, <2>2 DEF Unpublished, Ownership
    <3> QED BY <2>1, <3>1 DEF Captured
  <2>6. sequence[r] \in InCamera /\ \A g \in InCamera : sequence[r] <= g
    BY <2>1 DEF InCamera
  <2>7. Cycle!Capture(f)
    BY <1>1, <2>1, <2>4, <2>5, <2>6 DEF Cycle!Capture, InCamera, Captured
  <2> QED BY <1>1, <2>6, <2>7 DEF Cycle!Next, InCamera
<1>2. ASSUME NEW r \in Requests, CancelRequest(r), NEW f, f = sequence[r]
      PROVE  Cycle!Next
  <2>1. /\ status[r] = "Queued" /\ status' = [status EXCEPT ![r] = "Cancelled"]
        /\ exePc = "stopping"
        /\ UNCHANGED <<sequence, nextSequence, exePc, exeIdx, published>>
    BY <1>2 DEF CancelRequest, Oldest, exeVars
  <2>2. /\ status'[r] = "Cancelled"
        /\ \A q \in Requests : q # r => status'[q] = status[q]
    BY <2>1 DEF TypeOK
  <2>3. \A q \in Requests : status[q] = "Queued" /\ q # r => sequence[q] # sequence[r]
    BY <2>1 DEF FrameInv, FramesDistinct, Active
  <2>4. InCamera' = InCamera \ {sequence[r]} /\ sequence[r] \in InCamera
    BY <2>1, <2>2, <2>3 DEF InCamera
  <2>5. Captured' = Captured
    <3>1. Unpublished' = Unpublished
      BY <2>1, <2>2 DEF Unpublished
    <3> QED BY <2>1, <3>1 DEF Captured
  <2>6. Cycle!Cancel(f)
    BY <1>2, <2>1, <2>4, <2>5 DEF Cycle!Cancel, InCamera, Captured
  <2> QED BY <1>2, <2>4, <2>6 DEF Cycle!Next, InCamera
<1>3. ASSUME Publish, NEW f, f = sequence[exeIdx]
      PROVE  Cycle!Next
  <2>1. /\ exePc = "publish" /\ exePc' = "update" /\ exeIdx \in Requests
        /\ status[exeIdx] = "Complete"
        /\ published' = published \cup {sequence[exeIdx]}
        /\ UNCHANGED <<status, sequence, nextSequence, exeIdx>>
    BY <1>3 DEF Publish, Ownership, TypeOK, reqVars
  <2>2. exeIdx \in Unpublished /\ Unpublished' = Unpublished \ {exeIdx}
    BY <2>1 DEF Unpublished
  <2>3. \A q \in Unpublished : q # exeIdx => sequence[q] # sequence[exeIdx]
    BY <2>1 DEF Unpublished, FrameInv, FramesDistinct, Active
  <2>4. /\ Captured' = Captured \ {sequence[exeIdx]} /\ sequence[exeIdx] \in Captured
        /\ InCamera' = InCamera /\ Open /\ Open'
    BY <2>1, <2>2, <2>3 DEF Captured, InCamera, Open
  <2>5. sequence[exeIdx] \notin published
    BY <2>1, <2>2 DEF FrameInv, PublishedOnce
  <2>6. ASSUME NEW q \in Unpublished
        PROVE  sequence[exeIdx] < sequence[q] + NumRequests
    <3>1. q \in Requests /\ status[q] = "Complete" /\ exeIdx \in Active
      BY <2>1 DEF Unpublished, Active
    <3>2. CASE q = exeIdx
      BY <1>a, <2>1, <3>2, NumRequestsAssumption
    <3>3. CASE q # exeIdx /\ waiting[q]
      <4>1. Ahead(exeIdx, q)
        BY <2>1, <3>1, <3>3 DEF Ahead, Requests
      <4> QED BY <3>1, <3>3, <4>1 DEF FrameInv, OvertakenOnce
    <3>4. CASE ~waiting[q]
      <4>1. q \in Coming
        BY <3>1, <3>4 DEF NoRequestLost, Coming
      <4>2. nextSequence <= sequence[q] + NumRequests /\ sequence[exeIdx] < nextSequence
        BY <3>1, <4>1, FewYounger DEF FrameInv, FramesDistinct
      <4>3. sequence[exeIdx] \in Int /\ sequence[q] \in Int /\ nextSequence \in Int
            /\ NumRequests \in Int
        BY <1>a, <2>1, <3>1, NumRequestsAssumption DEF TypeOK
      <4> QED BY <4>2, <4>3
    <3> QED BY <3>2, <3>3, <3>4
  <2>7. \A g \in Captured : sequence[exeIdx] < g + NumRequests
    BY <2>6 DEF Captured
  <2>8. Cycle!Publish(f)
    BY <1>3, <2>1, <2>4, <2>5, <2>7 DEF Cycle!Publish, InCamera, Captured, Open
  <2> QED BY <1>3, <2>4, <2>8 DEF Cycle!Next, Captured
<1>4. CASE Start
  <2>1. status[exeIdx] = "Pending" /\ exePc' \in {"start", "wait"}
    BY <1>4 DEF Start, Advance, Ownership, TypeOK, Requests
  <2> QED BY <1>4, <2>1, QueueOrders DEF Start, Cycle!Next
<1>5. CASE Queue
  <2>1. status[exeIdx] = "Pending" /\ exePc' \in {"scan", "wait"}
    BY <1>5 DEF Queue, Advance, Ownership
  <2> QED BY <1>5, <2>1, QueueOrders DEF Queue, Cycle!Next
<1>6. CASE Stop
  <2>1. /\ InCamera' = InCamera /\ Captured' = Captured /\ Open /\ ~Open'
        /\ UNCHANGED <<nextSequence, published>>
    BY <1>6 DEF Stop, InCamera, Captured, Unpublished, Open, reqVars
  <2>2. Cycle!Close
    BY <2>1 DEF Cycle!Close, InCamera, Captured, Open
  <2> QED BY <2>2 DEF Cycle!Next
<1>7. CASE Reuse
  <2>1. /\ status' = [status EXCEPT ![exeIdx] = "Pending"] /\ exeIdx \in Requests
        /\ status[exeIdx] = "Complete" /\ exePc = "update" /\ exePc' = "release"
        /\ UNCHANGED <<sequence, nextSequence, exeIdx, published>>
    BY <1>7 DEF Reuse, Ownership, TypeOK
  <2>2. /\ status'[exeIdx] = "Pending"
        /\ \A r \in Requests : r # exeIdx => status'[r] = status[r]
    BY <2>1 DEF TypeOK
  <2>3. InCamera' = InCamera
    BY <2>1, <2>2 DEF InCamera
  <2>4. Captured' = Captured
    <3>1. Unpublished' = Unpublished
      BY <2>1, <2>2 DEF Unpublished
    <3> QED BY <2>1, <3>1 DEF Captured
  <2> QED BY <2>1, <2>3, <2>4, CycleStutters DEF Open
<1>8. CASE Handle
  <2>1. UNCHANGED <<status, sequence, nextSequence, exePc, exeIdx, published>>
    BY <1>8 DEF Handle, HandleCancelled, HandleWaiting, HandleCount, HandleTrigger,
       reqVars, exeVars
  <2> QED BY <2>1, CycleStutters DEF InCamera, Captured, Unpublished, Open
<1>9. CASE WakeOnGuard \/ WakeOnOther \/ IsReady \/ ScanSkip \/ ScanTake \/ Release \/ Stopped
  <2>1. /\ UNCHANGED <<status, sequence, nextSequence, published>>
        /\ exePc # "update" /\ exePc' # "update" /\ Open' = Open
    BY <1>9 DEF WakeOnGuard, WakeOnOther, IsReady, ScanSkip, ScanTake, Release, Stopped,
       Advance, Open, reqVars
  <2> QED BY <2>1, CycleStutters DEF InCamera, Captured, Unpublished
<1>10. CASE UNCHANGED vars
  BY <1>10, CycleStutters DEF vars, InCamera, Captured, Unpublished, Open
<1> QED BY <1>1, <1>2, <1>3, <1>4, <1>5, <1>6, <1>7, <1>8, <1>9, <1>10
        DEF Next, Camera, Execute, Destroyed

(* Where execute()'s read of the metadata follows handle()'s increment, each *)
(* step of the threads is a step of the frame cycle or none: frames are      *)
(* captured in order, and each is published once, overtaken by fewer than    *)
(* NumRequests.                                                              *)
THEOREM CycleImplemented == ASSUME ~WeakMemory PROVE Spec => Cycle!Spec
<1>1. Init => Cycle!Init
  BY DEF Init, Cycle!Init, Unpublished
<1>2. Init => exePc # "publish_stale"
  BY DEF Init
<1>3. exePc # "publish_stale" /\ [Next]_vars => (exePc # "publish_stale")'
  BY DEF Next, Camera, Handle, Execute, CompleteRequest, CancelRequest,
     HandleCancelled, HandleWaiting, HandleCount, HandleTrigger, Start, Advance,
     WakeOnGuard, WakeOnOther, IsReady, ScanSkip, ScanTake, Publish, Reuse, Release,
     Queue, Stop, Stopped, Destroyed, vars, exeVars
<1>4. TypeOK /\ Ownership /\ NoRequestLost /\ FrameInv /\ exePc # "publish_stale"
          /\ [Next]_vars => [Cycle!Next]_(Cycle!vars)
  BY CycleStep
<1> QED BY <1>1, <1>2, <1>3, <1>4, FrameInvariant, PTL DEF Spec, Cycle!Spec
=============================================================================
