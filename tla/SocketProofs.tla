---------------------------- MODULE SocketProofs ----------------------------
(***************************************************************************)
(* Theorems about Socket, for every value of its constants: any budget of  *)
(* synchronous operations, any set of timeouts, any use of the methods,    *)
(* any capacity of the pipes.                                              *)
(***************************************************************************)
EXTENDS Socket, TLAPS

(* The facts about libzmq, the worker and the peers are the same for every *)
(* action; only opVars, state, socket, work, race and careless matter to   *)
(* the invariants below.                                                   *)

LEMMA DirFacts ==
  /\ \A d \in Dir : Other(d) \in Dir /\ Other(d) # d
  /\ \A d \in Dir : Triggered(d) \subseteq {d} /\ Triggered(d) \subseteq events
  /\ Ready \subseteq Dir
BY DEF Dir, Other, Triggered, Ready

-----------------------------------------------------------------------------
(* Type correctness.                                                       *)

LEMMA TypeInit == Init => TypeOK
<1> SUFFICES ASSUME Init PROVE TypeOK OBVIOUS
<1>1. 0 \in 0 .. Cap /\ 0 \in 0 .. MaxEndpoints /\ 0 \in 0 .. Wrap - 1
  BY BoundsAssumption
<1>2. avail \in [Dir -> 0 .. Cap] /\ outcome \in [Dir -> Outcomes]
  BY <1>1 DEF Init, Outcomes
<1>3. QED
  BY <1>1, <1>2 DEF Init, TypeOK

LEMMA NoneSettledType == NoneSettled => outcome' \in [Dir -> Outcomes]
BY DEF NoneSettled, Outcomes

LEMMA TransferType ==
  ASSUME TypeOK, NEW D, Transfer(D)
  PROVE  avail' \in [Dir -> 0 .. Cap] /\ outcome' \in [Dir -> Outcomes]
<1>1. \A d \in D \cap Ready : avail[d] - 1 \in 0 .. Cap
  BY BoundsAssumption DEF TypeOK, Ready
<1>2. QED
  BY <1>1 DEF Transfer, TypeOK, Outcomes

LEMMA TypeNext == TypeOK /\ [Next]_vars => TypeOK'
<1> SUFFICES ASSUME TypeOK, [Next]_vars PROVE TypeOK' OBVIOUS
<1> USE MaxSyncAssumption, TimeoutsAssumption, BoundsAssumption
<1>1. ASSUME NEW d \in Dir, Start(d) PROVE TypeOK'
  <2>1. PICK t \in Timeouts : SyncOperation(d, t) \/ DelayOperation(d, t)
                                \/ PollOperation(d, t)
    BY <1>1 DEF Start, Attempt
  <2>2. UNCHANGED <<state, socket, request_close, endpoints, attached, work,
                    resume, careless, drift>>
    BY <1>1 DEF Start, Attempt, sockVars
  <2>3. race' \in BOOLEAN
    BY <1>1 DEF Start, Attempt, Access, TypeOK
  <2>4. CASE SyncOperation(d, t)
    <3>1. avail' \in [Dir -> 0 .. Cap] /\ outcome' \in [Dir -> Outcomes]
      BY <2>4, TransferType DEF SyncOperation
    <3>2. fd' \in BOOLEAN
      BY <2>4 DEF SyncOperation, Edge, TypeOK
    <3>3. sync_operations' \in Nat
      BY <2>4 DEF SyncOperation, Callbacks, Counted, TypeOK
    <3>4. QED
      BY <2>2, <2>3, <2>4, <3>1, <3>2, <3>3
         DEF SyncOperation, Trigger, Callbacks, TypeOK
  <2>5. CASE DelayOperation(d, t)
    <3>1. sync_operations' \in Nat /\ avail' \in [Dir -> 0 .. Cap]
      BY <2>5 DEF DelayOperation, TypeOK
    <3>2. QED
      BY <2>2, <2>3, <2>5, <3>1, NoneSettledType DEF DelayOperation, TypeOK
  <2>6. CASE PollOperation(d, t)
    BY <2>2, <2>3, <2>6
       DEF PollOperation, StartPoll, NoneSettled, Outcomes, TypeOK
  <2>7. QED BY <2>1, <2>4, <2>5, <2>6
<1>2. ASSUME NEW op \in {"bind", "unbind"}, Block(op) PROVE TypeOK'
  BY <1>2 DEF Block, Enqueue, NoneSettled, Outcomes, Jobs, TypeOK, zmqVars,
              opVars
<1>3. ASSUME Release PROVE
        /\ avail' \in [Dir -> 0 .. Cap] /\ outcome' \in [Dir -> Outcomes]
        /\ sync_operations' \in Nat /\ failed' \in BOOLEAN
        /\ deferred' \subseteq Dir /\ delayed' \subseteq Dir
        /\ endpoints' \in 0 .. Wrap - 1 /\ attached' \in 0 .. MaxEndpoints
        /\ drift' \in 0 .. Wrap - 1
        /\ events' = {} /\ timer' = {} /\ polling' = FALSE /\ fd' = FALSE
        /\ state' = "Closed" /\ socket' = FALSE
  BY <1>3 DEF Release, PollerClose, Callbacks, Outcomes, TypeOK
<1>4. ASSUME WorkDone PROVE TypeOK'
  <2>1. CASE Release
    BY <1>3, <1>4, <2>1 DEF WorkDone, Access, NoWork, Jobs, TypeOK
  <2>2. CASE Reopen
    <3>1. endpoints' \in 0 .. Wrap - 1
      BY <2>2 DEF Reopen, Recount, TypeOK
    <3>2. QED
      BY <1>4, <2>2, <3>1
         DEF WorkDone, Reopen, Access, NoWork, Jobs, NoneSettled, Outcomes,
             TypeOK, zmqVars, opVars
  <2>3. QED BY <1>4, <2>1, <2>2 DEF WorkDone, Complete
<1>5. ASSUME Close PROVE TypeOK'
  <2>1. CASE CloseLater
    BY <1>5, <2>1 DEF Close, CloseLater, NoneSettled, Outcomes, TypeOK,
                      zmqVars, opVars, histVars
  <2>2. CASE CloseNow
    BY <1>3, <1>5, <2>2 DEF Close, CloseNow, Access, TypeOK
  <2>3. QED BY <1>5, <2>1, <2>2 DEF Close
<1>6. ASSUME Connect PROVE TypeOK'
  BY <1>6 DEF Connect, Access, NoneSettled, Outcomes, TypeOK, opVars
<1>7. ASSUME Disconnect PROVE TypeOK'
  <2>1. endpoints' \in 0 .. Wrap - 1 /\ attached' \in 0 .. MaxEndpoints
    BY <1>7 DEF Disconnect, TypeOK
  <2>2. avail' \in [Dir -> 0 .. Cap] /\ fd' \in BOOLEAN /\ race' \in BOOLEAN
    BY <1>7 DEF Disconnect, Access, TypeOK
  <2>3. QED
    BY <1>7, <2>1, <2>2, NoneSettledType DEF Disconnect, TypeOK, opVars
<1>8. ASSUME GetEvents PROVE TypeOK'
  BY <1>8 DEF GetEvents, Access, NoneSettled, Outcomes, TypeOK, sockVars,
              opVars
<1>9. ASSUME UseOption PROVE TypeOK'
  BY <1>9 DEF UseOption, Access, NoneSettled, Outcomes, TypeOK, sockVars,
              zmqVars, opVars
<1>10. ASSUME NEW d \in Dir, TriggerOne(d), UNCHANGED <<sockVars, work,
                careless, drift>>, resume' \in Dir \cup {NoResume}
       PROVE TypeOK'
  <2>1. avail' \in [Dir -> 0 .. Cap] /\ outcome' \in [Dir -> Outcomes]
    BY <1>10, TransferType DEF TriggerOne
  <2>2. QED
    BY <1>10, <2>1 DEF TriggerOne, Trigger, Callbacks, Access, TypeOK, sockVars
<1>11. ASSUME PollCallback PROVE TypeOK'
  <2>1. CASE Triggered("read") # {}
    BY <1>10, <1>11, <2>1 DEF PollCallback, Dir
  <2>2. CASE Triggered("read") = {}
    <3>1. avail' \in [Dir -> 0 .. Cap] /\ outcome' \in [Dir -> Outcomes]
      BY <1>11, <2>2, TransferType DEF PollCallback
    <3>2. /\ events' \subseteq Dir /\ timer' \subseteq Dir
          /\ deferred' \subseteq Dir /\ sync_operations' \in Nat
      BY <1>11, <2>2 DEF PollCallback, Trigger, Callbacks, TypeOK
    <3>6. failed' \in BOOLEAN /\ polling' \in BOOLEAN
      BY <1>11, <2>2 DEF PollCallback, Trigger, Callbacks, TypeOK
    <3>3. fd' \in BOOLEAN /\ race' \in BOOLEAN
      BY <1>11, <2>2 DEF PollCallback, Access, TypeOK
    <3>4. UNCHANGED <<state, socket, request_close, endpoints, attached,
                      delayed, resume, work, careless, drift>>
      BY <1>11, <2>2 DEF PollCallback, sockVars
    <3>5. QED
      BY <3>1, <3>2, <3>6, <3>3, <3>4 DEF TypeOK
  <2>3. QED BY <2>1, <2>2
<1>12. ASSUME Resume PROVE TypeOK'
  <2>1. CASE socket
    BY <1>10, <1>12, <2>1 DEF Resume, TypeOK
  <2>2. CASE ~socket
    BY <1>12, <2>2 DEF Resume, NoneSettled, Outcomes, TypeOK, sockVars,
                       zmqVars, opVars
  <2>3. QED BY <2>1, <2>2
<1>13. ASSUME NEW d \in Dir, TimerCallback(d) PROVE TypeOK'
  <2>1. avail' \in [Dir -> 0 .. Cap] /\ outcome' \in [Dir -> Outcomes]
    BY <1>13, TransferType DEF TimerCallback
  <2>2. QED
    BY <1>13, <2>1 DEF TimerCallback, Trigger, Callbacks, Access, Edge,
                       TypeOK, sockVars
<1>14. ASSUME NEW d \in Dir, DelayedCallback(d) PROVE TypeOK'
  <2>1. avail' \in [Dir -> 0 .. Cap] /\ outcome' \in [Dir -> Outcomes]
    BY <1>14, TransferType DEF DelayedCallback
  <2>2. QED
    BY <1>14, <2>1, DirFacts
       DEF DelayedCallback, Callbacks, Access, Edge, TypeOK, sockVars
<1>15. ASSUME WorkBegin PROVE TypeOK'
  BY <1>15 DEF WorkBegin, NoWork, Jobs, NoneSettled, Outcomes, TypeOK,
               sockVars, zmqVars, opVars, histVars
<1>16. ASSUME WorkEnd PROVE TypeOK'
  <2>1. work \in Jobs
    BY <1>16 DEF WorkEnd, TypeOK, NoWork
  <2>2. work' \in Jobs
    <3>1. \/ work' = [op |-> work.op, phase |-> "done", error |-> TRUE]
          \/ work' = [work EXCEPT !.phase = "done"]
      BY <1>16 DEF WorkEnd
    <3>2. CASE work' = [op |-> work.op, phase |-> "done", error |-> TRUE]
      BY <2>1, <3>2 DEF Jobs
    <3>3. CASE work' = [work EXCEPT !.phase = "done"]
      BY <2>1, <3>3 DEF Jobs
    <3>4. QED
      BY <3>1, <3>2, <3>3
  <2>3. drift' \in 0 .. Wrap - 1
    BY <1>16 DEF WorkEnd, TypeOK
  <2>4. attached' \in 0 .. MaxEndpoints
    BY <1>16 DEF WorkEnd, TypeOK
  <2>5. avail' \in [Dir -> 0 .. Cap]
    BY <1>16 DEF WorkEnd, TypeOK
  <2>6. outcome' \in [Dir -> Outcomes] /\ fd' \in BOOLEAN
    <3>1. NoneSettled /\ fd' \in {fd, FALSE}
      BY <1>16 DEF WorkEnd
    <3>2. QED
      BY <3>1, NoneSettledType DEF TypeOK
  <2>7. UNCHANGED <<state, socket, request_close, endpoints, opVars, failed,
                    race, careless, resume>>
    BY <1>16 DEF WorkEnd
  <2>8. QED
    BY <2>2, <2>3, <2>4, <2>5, <2>6, <2>7 DEF TypeOK, opVars
<1>17. ASSUME Withdraw PROVE TypeOK'
  <2>1. avail' \in [Dir -> 0 .. Cap] /\ fd' \in BOOLEAN
    <3>1. 0 \in 0 .. Cap
      OBVIOUS
    <3>2. avail' = [avail EXCEPT !["write"] = 0] /\ fd' \in {fd, TRUE}
      BY <1>17 DEF Withdraw
    <3>3. QED
      BY <3>1, <3>2 DEF TypeOK
  <2>2. QED
    BY <1>17, <2>1, NoneSettledType
       DEF Withdraw, TypeOK, sockVars, opVars, histVars
<1>18. ASSUME NEW d \in Dir, Arrive(d) PROVE TypeOK'
  <2>1. avail[d] + 1 \in 0 .. Cap
    BY <1>18 DEF Arrive, TypeOK
  <2>2. avail' \in [Dir -> 0 .. Cap] /\ fd' \in BOOLEAN
    BY <1>18, <2>1 DEF Arrive, TypeOK
  <2>3. QED
    BY <1>18, <2>2, NoneSettledType
       DEF Arrive, TypeOK, sockVars, opVars, histVars
<1>19. ASSUME UNCHANGED vars PROVE TypeOK'
  BY <1>19 DEF vars, TypeOK, sockVars, zmqVars, opVars, histVars
<1>20. QED
  BY <1>1, <1>2, <1>4, <1>5, <1>6, <1>7, <1>8, <1>9, <1>11, <1>12, <1>13,
     <1>14, <1>15, <1>16, <1>17, <1>18, <1>19
     DEF Next, JavaScript, EventLoop, Worker, Peers, Send, Receive, Bind,
         Unbind, Dir

(* Every variable keeps its type, in particular the endpoint counter its   *)
(* width and the pipes their capacity.                                     *)
THEOREM TypeCorrect == Spec => []TypeOK
<1>1. Init => TypeOK BY TypeInit
<1>2. TypeOK /\ [Next]_vars => TypeOK' BY TypeNext
<1>3. QED BY <1>1, <1>2, PTL DEF Spec

-----------------------------------------------------------------------------
(* The safety of the poller, the promise slots and the worker's socket.    *)

LEMMA InvInit == Init => IInv
<1> SUFFICES ASSUME Init PROVE IInv OBVIOUS
<1>1. TypeOK BY TypeInit
<1>2. SyncBounded
  BY MaxSyncAssumption DEF Init, SyncBounded, Delaying
<1>3. NoAssertFails /\ PollerConsistent /\ WorkerOwnership
  BY DEF Init, NoAssertFails, PollerConsistent, WorkerOwnership
<1>4. RaceOnlyIfCareless /\ Undisturbed
  BY DEF Init, RaceOnlyIfCareless, Undisturbed
<1>5. QED BY <1>1, <1>2, <1>3, <1>4 DEF IInv

(* Poller::Trigger with the callbacks, for watched directions only: the    *)
(* poller stays consistent and finds every promise it settles.             *)
LEMMA TriggerConsistent ==
  ASSUME IInv, NEW D, D \subseteq events, NEW n \in Nat,
         n <= MaxSync + Delaying("read") + Delaying("write"),
         Trigger(D), Callbacks(D, n), delayed' = delayed,
         state' = state, socket' = socket, work' = work
  PROVE  NoAssertFails' /\ PollerConsistent' /\ SyncBounded'
<1>1. NoAssertFails'
  BY DEF IInv, NoAssertFails, PollerConsistent, Callbacks
<1>2. deferred' = events' \cup delayed' /\ events' \cap delayed' = {}
  BY DEF IInv, PollerConsistent, Trigger, Callbacks
<1>3. timer' \subseteq events'
  BY DEF IInv, PollerConsistent, Trigger
<1>4. polling' = (events' # {})
  BY DEF IInv, TypeOK, PollerConsistent, Trigger
<1>5. state' = "Closed" => events' = {}
  BY DEF IInv, PollerConsistent, Trigger
<1>6. SyncBounded'
  <2>1. Delaying("read") \in Nat /\ Delaying("write") \in Nat
    BY DEF Delaying
  <2>2. Delaying("read")' = Delaying("read")
          /\ Delaying("write")' = Delaying("write")
    BY DEF Delaying
  <2>3. sync_operations' = 0 \/ sync_operations' = n
    BY DEF Callbacks
  <2>4. QED
    BY <2>1, <2>2, <2>3, MaxSyncAssumption DEF SyncBounded
<1>7. QED BY <1>1, <1>2, <1>3, <1>4, <1>5, <1>6 DEF PollerConsistent

(* Steps that leave the operations alone.                                  *)
LEMMA OpsUntouched ==
  ASSUME IInv, UNCHANGED <<opVars, failed>>,
         state' = "Closed" => state = "Closed"
  PROVE  NoAssertFails' /\ PollerConsistent' /\ SyncBounded'
BY DEF IInv, opVars, NoAssertFails, PollerConsistent, SyncBounded, Delaying

(* Steps of the main thread that respect the discipline: either no job is  *)
(* under way, or the application was careless already.                     *)
LEMMA AccessAllowed ==
  ASSUME IInv, Access \/ race' = race, careless' = careless,
         state' = state, socket' = socket, work' = work,
         deferred' \subseteq deferred,
         state = "Blocked" => careless \/ race' = race
  PROVE  WorkerOwnership' /\ RaceOnlyIfCareless' /\ Undisturbed'
<1>1. WorkerOwnership'
  BY DEF IInv, WorkerOwnership
<1>2. work.phase = "running" => state = "Blocked"
  BY DEF IInv, WorkerOwnership, TypeOK, NoWork
<1>3. RaceOnlyIfCareless'
  BY <1>2 DEF IInv, RaceOnlyIfCareless, Access
<1>4. Undisturbed'
  BY DEF IInv, Undisturbed
<1>5. QED BY <1>1, <1>3, <1>4

(* Nothing is pending on an undisturbed blocked socket, so a callback that *)
(* settles something runs on one that is not blocked, or after careless    *)
(* use.                                                                    *)
LEMMA CallbackAllowed ==
  ASSUME IInv, deferred # {}
  PROVE  state = "Blocked" => careless
BY DEF IInv, Undisturbed

LEMMA InvNext == IInv /\ [Next]_vars => IInv'
<1> SUFFICES ASSUME IInv, [Next]_vars PROVE IInv' OBVIOUS
<1> DEFINE Goal == /\ NoAssertFails' /\ PollerConsistent' /\ SyncBounded'
                   /\ WorkerOwnership' /\ RaceOnlyIfCareless' /\ Undisturbed'
<1>t. TypeOK'
  BY TypeNext DEF IInv
<1>a. sync_operations \in Nat
        /\ sync_operations <= MaxSync + Delaying("read") + Delaying("write")
  BY DEF IInv, TypeOK, SyncBounded
<1>1. ASSUME NEW d \in Dir, Start(d) PROVE Goal
  <2>1. PICK t \in Timeouts : SyncOperation(d, t) \/ DelayOperation(d, t)
                                \/ PollOperation(d, t)
    BY <1>1 DEF Start, Attempt
  <2>2. /\ state = "Open" /\ d \notin deferred
        /\ UNCHANGED <<state, socket, work, careless>>
    BY <1>1 DEF Start, Attempt, sockVars
  <2>3. WorkerOwnership' /\ Undisturbed'
    BY <2>2 DEF IInv, WorkerOwnership, Undisturbed
  <2>4. RaceOnlyIfCareless'
    <3>1. work = NoWork
      BY <2>2 DEF IInv, WorkerOwnership
    <3>2. race' = race
      BY <1>1, <3>1 DEF Start, Attempt, Access, NoWork, IInv, TypeOK
    <3>3. QED
      BY <2>2, <3>2 DEF IInv, RaceOnlyIfCareless
  <2>5. Delaying("read") \in Nat /\ Delaying("write") \in Nat
    BY DEF Delaying
  <2>6. CASE SyncOperation(d, t)
    <3> DEFINE T == Triggered(Other(d))
    <3>1. T \subseteq events
      BY DEF Triggered
    <3>2. Counted(t) \in Nat
            /\ Counted(t) <= MaxSync + Delaying("read") + Delaying("write")
      BY <1>a, <2>5, <2>6, MaxSyncAssumption DEF SyncOperation, Counted
    <3>3. Trigger(T) /\ Callbacks(T, Counted(t)) /\ delayed' = delayed
      BY <2>6 DEF SyncOperation
    <3>4. NoAssertFails' /\ PollerConsistent' /\ SyncBounded'
      BY <2>2, <3>1, <3>2, <3>3, TriggerConsistent
    <3>5. QED BY <2>3, <2>4, <3>4
  <2>7. CASE DelayOperation(d, t)
    <3>1. NoAssertFails'
      BY <2>2, <2>7 DEF DelayOperation, IInv, NoAssertFails
    <3>2. PollerConsistent'
      BY <2>2, <2>7 DEF DelayOperation, IInv, PollerConsistent
    <3>3. SyncBounded'
      <4>1. d \notin delayed
        BY <2>2 DEF IInv, PollerConsistent
      <4>2. Delaying("read")' + Delaying("write")'
              = Delaying("read") + Delaying("write") + 1
        BY <2>7, <4>1 DEF DelayOperation, Delaying, Dir
      <4>3. QED
        BY <1>a, <2>5, <2>7, <4>2, MaxSyncAssumption
           DEF DelayOperation, SyncBounded, Delaying
    <3>4. QED BY <2>3, <2>4, <3>1, <3>2, <3>3
  <2>8. CASE PollOperation(d, t)
    <3>1. NoAssertFails'
      BY <2>2, <2>8 DEF PollOperation, IInv, NoAssertFails, PollerConsistent
    <3>2. PollerConsistent'
      BY <2>2, <2>8 DEF PollOperation, StartPoll, IInv, PollerConsistent
    <3>3. SyncBounded'
      BY <2>8 DEF PollOperation, IInv, SyncBounded, Delaying
    <3>4. QED BY <2>3, <2>4, <3>1, <3>2, <3>3
  <2>9. QED BY <2>1, <2>6, <2>7, <2>8
<1>2. ASSUME NEW op \in {"bind", "unbind"}, Block(op) PROVE Goal
  <2>1. NoAssertFails' /\ PollerConsistent' /\ SyncBounded'
    BY <1>2, OpsUntouched DEF Block, Enqueue
  <2>2. WorkerOwnership' /\ RaceOnlyIfCareless' /\ Undisturbed'
    BY <1>2 DEF Block, Enqueue, IInv, WorkerOwnership, RaceOnlyIfCareless,
                Undisturbed, NoWork, opVars
  <2>3. QED BY <2>1, <2>2
<1>3. ASSUME Release PROVE NoAssertFails' /\ PollerConsistent' /\ SyncBounded'
  <2>1. NoAssertFails'
    BY <1>3 DEF Release, PollerClose, Callbacks, IInv, NoAssertFails, PollerConsistent
  <2>2. PollerConsistent'
    BY <1>3 DEF Release, PollerClose, Callbacks, IInv, PollerConsistent
  <2>3. SyncBounded'
    <3>1. Delaying("read") \in Nat /\ Delaying("write") \in Nat
      BY DEF Delaying
    <3>2. sync_operations' = 0 \/ sync_operations' = sync_operations
      BY <1>3 DEF Release, PollerClose, Callbacks
    <3>3. QED
      BY <1>3, <1>a, <3>1, <3>2, MaxSyncAssumption
         DEF Release, PollerClose, SyncBounded, Delaying
  <2>4. QED BY <2>1, <2>2, <2>3
<1>4. ASSUME WorkDone PROVE Goal
  <2>1. state = "Blocked" /\ race' = race /\ careless' = careless
          /\ work' = NoWork
    BY <1>4 DEF WorkDone, Access, IInv, TypeOK, WorkerOwnership, NoWork
  <2>2. CASE Release
    <3>1. state' = "Closed" /\ socket' = FALSE
      BY <2>2 DEF Release
    <3>2. QED
      BY <1>3, <2>1, <2>2, <3>1
         DEF IInv, WorkerOwnership, RaceOnlyIfCareless, Undisturbed
  <2>3. CASE Reopen
    <3>1. state' = "Open" /\ socket' = socket /\ UNCHANGED <<opVars, failed>>
      BY <2>3 DEF Reopen
    <3>2. NoAssertFails' /\ PollerConsistent' /\ SyncBounded'
      BY <3>1, OpsUntouched
    <3>3. QED
      BY <2>1, <3>1, <3>2
         DEF IInv, WorkerOwnership, RaceOnlyIfCareless, Undisturbed
  <2>4. QED BY <1>4, <2>2, <2>3 DEF WorkDone, Complete
<1>5. ASSUME Close PROVE Goal
  <2>1. CASE state = "Blocked"
    <3>1. CloseLater /\ work' = work
      BY <1>5, <2>1 DEF Close
    <3>2. NoAssertFails' /\ PollerConsistent' /\ SyncBounded'
      BY <3>1, OpsUntouched DEF CloseLater, histVars
    <3>3. QED
      BY <3>1, <3>2 DEF CloseLater, histVars, opVars, IInv, WorkerOwnership,
                        RaceOnlyIfCareless, Undisturbed
  <2>2. CASE state # "Blocked"
    <3>1. Release /\ Access /\ careless' = careless /\ work' = work
      BY <1>5, <2>2 DEF Close, CloseNow
    <3>2. work = NoWork /\ race' = race
      BY <2>2, <3>1 DEF Access, NoWork, IInv, TypeOK, WorkerOwnership
    <3>3. state' = "Closed" /\ socket' = FALSE
      BY <3>1 DEF Release
    <3>4. QED
      BY <1>3, <3>1, <3>2, <3>3
         DEF IInv, WorkerOwnership, RaceOnlyIfCareless, Undisturbed
  <2>3. QED BY <2>1, <2>2
<1>6. ASSUME Connect \/ Disconnect PROVE Goal
  <2>1. /\ state = "Open" /\ Access
        /\ UNCHANGED <<state, socket, opVars, failed, careless, work>>
    BY <1>6 DEF Connect, Disconnect
  <2>2. NoAssertFails' /\ PollerConsistent' /\ SyncBounded'
    BY <2>1, OpsUntouched
  <2>3. WorkerOwnership' /\ RaceOnlyIfCareless' /\ Undisturbed'
    BY <2>1, AccessAllowed DEF opVars
  <2>4. QED BY <2>2, <2>3
<1>7. ASSUME GetEvents \/ UseOption PROVE Goal
  <2>1. /\ Access /\ careless' = (careless \/ state = "Blocked")
        /\ UNCHANGED <<state, socket, opVars, failed, work>>
    BY <1>7 DEF GetEvents, UseOption, sockVars
  <2>2. NoAssertFails' /\ PollerConsistent' /\ SyncBounded'
    BY <2>1, OpsUntouched
  <2>3. work.phase = "running" => state = "Blocked"
    BY DEF IInv, WorkerOwnership, TypeOK, NoWork
  <2>4. WorkerOwnership' /\ RaceOnlyIfCareless' /\ Undisturbed'
    BY <2>1, <2>3 DEF Access, opVars, IInv, WorkerOwnership,
                      RaceOnlyIfCareless, Undisturbed
  <2>5. QED BY <2>2, <2>4
<1>8. ASSUME NEW d \in Dir, TriggerOne(d),
             UNCHANGED <<sockVars, work, careless>>
      PROVE  Goal
  <2>1. Triggered(d) \subseteq events
    BY DEF Triggered
  <2>2. NoAssertFails' /\ PollerConsistent' /\ SyncBounded'
    BY <1>8, <1>a, <2>1, TriggerConsistent DEF TriggerOne, sockVars
  <2>3. d \in events => deferred # {}
    BY DEF IInv, PollerConsistent
  <2>4. state = "Blocked" => careless \/ race' = race
    BY <1>8, <2>3, CallbackAllowed DEF TriggerOne
  <2>5. deferred' \subseteq deferred /\ (Access \/ race' = race)
    BY <1>8 DEF TriggerOne, Callbacks
  <2>6. WorkerOwnership' /\ RaceOnlyIfCareless' /\ Undisturbed'
    BY <1>8, <2>4, <2>5, AccessAllowed DEF sockVars
  <2>7. QED BY <2>2, <2>6
<1>9. ASSUME PollCallback PROVE Goal
  <2>1. CASE Triggered("read") # {}
    BY <1>8, <1>9, <2>1 DEF PollCallback, Dir
  <2>2. CASE Triggered("read") = {}
    <3>1. Triggered("write") \subseteq events
      BY DEF Triggered
    <3>2. /\ Trigger(Triggered("write")) /\ Access
          /\ Callbacks(Triggered("write"), sync_operations)
          /\ UNCHANGED <<state, socket, delayed, work, careless>>
      BY <1>9, <2>2 DEF PollCallback, sockVars
    <3>3. NoAssertFails' /\ PollerConsistent' /\ SyncBounded'
      BY <1>a, <3>1, <3>2, TriggerConsistent
    <3>4. deferred # {}
      BY <1>9 DEF PollCallback, IInv, PollerConsistent
    <3>5. deferred' \subseteq deferred
      BY <3>2 DEF Callbacks
    <3>6. WorkerOwnership' /\ RaceOnlyIfCareless' /\ Undisturbed'
      BY <3>2, <3>4, <3>5, CallbackAllowed, AccessAllowed
    <3>7. QED BY <3>3, <3>6
  <2>3. QED BY <2>1, <2>2
<1>10. ASSUME Resume PROVE Goal
  <2>1. CASE socket
    <3>1. resume \in Dir
      BY <1>10 DEF Resume, IInv, TypeOK
    <3>2. QED
      BY <1>8, <1>10, <2>1, <3>1 DEF Resume
  <2>2. CASE ~socket
    <3>1. UNCHANGED <<state, socket, opVars, failed, race, work, careless>>
      BY <1>10, <2>2 DEF Resume, sockVars
    <3>2. NoAssertFails' /\ PollerConsistent' /\ SyncBounded'
      BY <3>1, OpsUntouched
    <3>3. QED
      BY <3>1, <3>2, AccessAllowed DEF opVars
  <2>3. QED BY <2>1, <2>2
<1>11. ASSUME NEW d \in Dir, TimerCallback(d) PROVE Goal
  <2>1. {d} \subseteq events
    BY <1>11 DEF TimerCallback, IInv, PollerConsistent
  <2>2. /\ Trigger({d}) /\ Callbacks({d}, sync_operations) /\ Access
        /\ UNCHANGED <<state, socket, delayed, work, careless>>
    BY <1>11 DEF TimerCallback, Expired, sockVars
  <2>3. NoAssertFails' /\ PollerConsistent' /\ SyncBounded'
    BY <1>a, <2>1, <2>2, TriggerConsistent
  <2>4. deferred # {} /\ deferred' \subseteq deferred
    BY <2>1, <2>2 DEF IInv, PollerConsistent, Callbacks
  <2>5. WorkerOwnership' /\ RaceOnlyIfCareless' /\ Undisturbed'
    BY <2>2, <2>4, CallbackAllowed, AccessAllowed
  <2>6. QED BY <2>3, <2>5
<1>12. ASSUME NEW d \in Dir, DelayedCallback(d) PROVE Goal
  <2>1. /\ d \in delayed /\ delayed' = delayed \ {d} /\ Access
        /\ Callbacks({d}, sync_operations)
        /\ UNCHANGED <<state, socket, events, polling, timer, work, careless>>
    BY <1>12 DEF DelayedCallback, sockVars
  <2>2. d \in deferred /\ d \notin events
    BY <2>1 DEF IInv, PollerConsistent
  <2>3. NoAssertFails'
    BY <2>1, <2>2 DEF Callbacks, IInv, NoAssertFails
  <2>4. PollerConsistent'
    BY <2>1, <2>2 DEF Callbacks, IInv, PollerConsistent
  <2>5. SyncBounded'
    <3>1. sync_operations' = 0
      BY <2>1 DEF Callbacks
    <3>2. Delaying("read")' \in Nat /\ Delaying("write")' \in Nat
      BY DEF Delaying
    <3>3. QED BY <3>1, <3>2, MaxSyncAssumption DEF SyncBounded
  <2>6. deferred # {} /\ deferred' \subseteq deferred
    BY <2>1, <2>2 DEF Callbacks
  <2>7. WorkerOwnership' /\ RaceOnlyIfCareless' /\ Undisturbed'
    BY <2>1, <2>6, CallbackAllowed, AccessAllowed
  <2>8. QED BY <2>3, <2>4, <2>5, <2>7
<1>13. ASSUME WorkBegin \/ WorkEnd PROVE Goal
  <2>1. /\ work # NoWork /\ work' # NoWork
        /\ UNCHANGED <<state, socket, opVars, failed, race, careless>>
    <3>1. work \in Jobs
      <4>1. work.phase \in {"queued", "running"}
        BY <1>13 DEF WorkBegin, WorkEnd
      <4>2. work # NoWork
        BY <4>1 DEF NoWork
      <4>3. QED BY <4>2 DEF IInv, TypeOK
    <3>2. CASE WorkBegin
      BY <3>1, <3>2 DEF WorkBegin, Jobs, NoWork, sockVars, histVars
    <3>3. CASE WorkEnd
      <4>1. \/ work' = [op |-> work.op, phase |-> "done", error |-> TRUE]
            \/ work' = [work EXCEPT !.phase = "done"]
        BY <3>3 DEF WorkEnd
      <4>2. work # NoWork /\ work' # NoWork
        BY <3>1, <4>1 DEF Jobs, NoWork
      <4>3. QED BY <3>3, <4>2 DEF WorkEnd
    <3>4. QED BY <1>13, <3>2, <3>3
  <2>2. NoAssertFails' /\ PollerConsistent' /\ SyncBounded'
    BY <2>1, OpsUntouched
  <2>3. WorkerOwnership' /\ RaceOnlyIfCareless' /\ Undisturbed'
    BY <2>1 DEF opVars, IInv, WorkerOwnership, RaceOnlyIfCareless, Undisturbed
  <2>4. QED BY <2>2, <2>3
<1>14. ASSUME UNCHANGED <<sockVars, opVars, histVars, work>> PROVE Goal
  <2>1. NoAssertFails' /\ PollerConsistent' /\ SyncBounded'
    BY <1>14, OpsUntouched DEF sockVars, histVars
  <2>2. WorkerOwnership' /\ RaceOnlyIfCareless' /\ Undisturbed'
    BY <1>14, AccessAllowed DEF sockVars, histVars, opVars
  <2>3. QED BY <2>1, <2>2
<1>15. ASSUME Withdraw \/ (\E d \in Dir : Arrive(d)) \/ UNCHANGED vars
       PROVE  Goal
  BY <1>14, <1>15 DEF Withdraw, Arrive, vars
<1>16. Goal
  BY <1>1, <1>2, <1>4, <1>5, <1>6, <1>7, <1>9, <1>10, <1>11, <1>12, <1>13,
     <1>15
     DEF Next, JavaScript, EventLoop, Worker, Peers, Send, Receive, Bind,
         Unbind, Dir
<1>17. QED BY <1>t, <1>16 DEF IInv

LEMMA InvAlways == Spec => []IInv
<1>1. Init => IInv BY InvInit
<1>2. IInv /\ [Next]_vars => IInv' BY InvNext
<1>3. QED BY <1>1, <1>2, PTL DEF Spec

(* No assert() of the poller and of the promise slots ever fails, for any  *)
(* interleaving of methods, callbacks, workers and peers.                  *)
THEOREM AssertsHold == Spec => []NoAssertFails
<1>1. IInv => NoAssertFails BY DEF IInv
<1>2. QED BY <1>1, InvAlways, PTL

(* Every pending promise has exactly one source that will settle it, and   *)
(* close() leaves nothing watched behind.                                  *)
THEOREM OneSource == Spec => []PollerConsistent
<1>1. IInv => PollerConsistent BY DEF IInv
<1>2. QED BY <1>1, InvAlways, PTL

(* The socket of a worker is never closed under it nor given to a second   *)
(* job.                                                                    *)
THEOREM WorkerOwns == Spec => []WorkerOwnership
<1>1. IInv => WorkerOwnership BY DEF IInv
<1>2. QED BY <1>1, InvAlways, PTL

(* The budget of synchronous operations is exceeded by at most the delayed *)
(* operations, so the counter cannot wrap around.                          *)
THEOREM BudgetBounded == Spec => []SyncBounded
<1>1. IInv => SyncBounded BY DEF IInv
<1>2. QED BY <1>1, InvAlways, PTL

(* Only a careless application gets two threads into the libzmq socket.    *)
THEOREM CarefulIsExclusive == Spec => []RaceOnlyIfCareless
<1>1. IInv => RaceOnlyIfCareless BY DEF IInv
<1>2. QED BY <1>1, InvAlways, PTL

-----------------------------------------------------------------------------
(* The endpoint counter.                                                   *)

(* A multiple of the width has remainder 0.                               *)
LEMMA ModZero == ASSUME NEW w \in Nat \ {0} PROVE 0 % w = 0
OBVIOUS

(* Adding modulo the width is adding, modulo the width.                    *)
LEMMA ModAdd ==
  ASSUME NEW w \in Nat \ {0}, NEW a \in Int, NEW b \in Int
  PROVE  ((a % w) + b) % w = (a + b) % w
<1> DEFINE q == a \div w
           r == a % w
           p == (r + b) \div w
           s == (r + b) % w
<1>1. q \in Int /\ r \in 0 .. w - 1 /\ p \in Int /\ s \in 0 .. w - 1
  OBVIOUS
<1>2. a = w * q + r /\ r + b = w * p + s
  BY <1>1
<1> HIDE DEF q, r, p, s
<1>3. a + b = w * (q + p) + s
  BY <1>1, <1>2
<1>4. \A n \in Int, u \in Int : n = w * u + s => n % w = s
  BY <1>1
<1>5. (a + b) % w = s
  <2>1. q + p \in Int /\ a + b \in Int
    BY <1>1
  <2>2. QED BY ONLY <1>3, <1>4, <2>1
<1>6. QED BY <1>5 DEF s, r

(* What EndpointLaw needs of the other states: during a job the counter is *)
(* still the old one, and after it what the completion will write agrees.  *)
EndpointInv ==
  state # "Closed" =>
    (IF work.phase = "done" THEN Recount ELSE endpoints)
       = (attached + drift) % Wrap

LEMMA EndpointInit == Init => EndpointInv
<1> SUFFICES ASSUME Init PROVE EndpointInv OBVIOUS
<1>1. 0 % Wrap = 0
  BY ModZero, BoundsAssumption
<1>2. QED
  BY <1>1 DEF Init, EndpointInv, NoWork

LEMMA EndpointNext == IInv /\ EndpointInv /\ [Next]_vars => EndpointInv'
<1> SUFFICES ASSUME IInv, EndpointInv, [Next]_vars PROVE EndpointInv'
  OBVIOUS
<1> DEFINE total == attached + drift
<1>1. /\ Wrap \in Nat \ {0} /\ attached \in Int /\ drift \in Int
      /\ endpoints \in Int /\ total \in Int /\ drift + attached = total
  BY BoundsAssumption DEF IInv, TypeOK
<1>2. state # "Blocked" => work = NoWork
  BY DEF IInv, WorkerOwnership
<1>3. ASSUME UNCHANGED <<state, endpoints, attached, drift, work>>
      PROVE  EndpointInv'
  BY <1>3 DEF EndpointInv, Recount
<1>4. ASSUME NEW k \in {1, -1}
      PROVE  (endpoints = total % Wrap) =>
                (endpoints + k) % Wrap = (total + k) % Wrap
  <2>1. Wrap \in Nat \ {0} /\ total \in Int /\ k \in Int
    BY <1>1
  <2>2. ((total % Wrap) + k) % Wrap = (total + k) % Wrap
    BY ONLY <2>1, ModAdd
  <2>3. QED BY <2>2
<1>5. ASSUME NEW k \in {1, -1}
      PROVE  (attached + ((drift + k) % Wrap)) % Wrap = (total + k) % Wrap
  <2>1. drift + k \in Int /\ (drift + k) % Wrap \in Int
          /\ (drift + k) + attached = total + k
    BY <1>1
  <2>2. (((drift + k) % Wrap) + attached) % Wrap = ((drift + k) + attached) % Wrap
    BY <1>1, <2>1, ModAdd
  <2>3. ((drift + k) % Wrap) + attached = attached + ((drift + k) % Wrap)
    BY <1>1, <2>1
  <2>4. QED BY <2>1, <2>2, <2>3
<1> HIDE DEF total
<1>6. CASE Connect \/ Disconnect
  <2>1. state = "Open" /\ state' = "Open" /\ work' = work /\ drift' = drift
    BY <1>6 DEF Connect, Disconnect
  <2>2. work.phase = "idle" /\ endpoints = total % Wrap
    BY <1>2, <2>1 DEF NoWork, EndpointInv, total
  <2>3. PICK k \in {1, -1} : /\ attached' = attached + k
                             /\ endpoints' = (endpoints + k) % Wrap
    BY <1>1, <1>6 DEF Connect, Disconnect
  <2>4. attached' + drift' = total + k
    BY <1>1, <2>1, <2>3 DEF total
  <2>5. endpoints' = (attached' + drift') % Wrap
    BY <1>4, <2>2, <2>3, <2>4
  <2>6. QED BY <2>1, <2>2, <2>5 DEF EndpointInv
<1>7. CASE WorkEnd
  <2>1. work.phase = "running" /\ state = "Blocked" /\ state' = state
          /\ endpoints' = endpoints
    BY <1>2, <1>7 DEF WorkEnd, NoWork, IInv, TypeOK
  <2>2. endpoints = total % Wrap
    BY <2>1 DEF EndpointInv, total
  <2>3. work \in Jobs
    BY <2>1 DEF IInv, TypeOK, NoWork
  <2> DEFINE k == IF work.op = "bind" THEN 1 ELSE -1
  <2>4. k \in {1, -1}
    OBVIOUS
  <2>5. work'.phase = "done" /\ work'.op = work.op
    BY <1>7, <2>3 DEF WorkEnd, Jobs
  <2>6. Recount' = (endpoints + k) % Wrap
    BY <1>1, <2>1, <2>5 DEF Recount
  <2>7. (attached' + drift') % Wrap = (total + k) % Wrap
    <3>1. CASE drift' = (IF work.op = "bind" THEN drift + 1 ELSE drift - 1) % Wrap
               /\ attached' = attached
      <4>1. drift' = (drift + k) % Wrap
        BY <1>1, <3>1
      <4>2. (attached + ((drift + k) % Wrap)) % Wrap = (total + k) % Wrap
        BY <1>5, <2>4
      <4>3. attached' + drift' = attached + ((drift + k) % Wrap)
        BY <3>1, <4>1
      <4>4. QED BY <4>2, <4>3
    <3>2. CASE attached' = attached + k /\ drift' = drift
      <4>1. attached' + drift' = total + k
        BY <1>1, <2>4, <3>2 DEF total
      <4>2. QED BY <4>1
    <3>3. QED BY <1>1, <1>7, <3>1, <3>2 DEF WorkEnd
  <2>8. Recount' = (attached' + drift') % Wrap
    BY <1>4, <2>2, <2>4, <2>6, <2>7
  <2>9. QED BY <2>5, <2>8 DEF EndpointInv
<1>8. CASE WorkDone
  <2>1. CASE Release
    BY <2>1 DEF Release, EndpointInv
  <2>2. CASE Reopen
    <3>1. work.phase = "done" /\ state = "Blocked" /\ work' = NoWork
      BY <1>2, <1>8 DEF WorkDone, NoWork
    <3>2. endpoints' = Recount /\ UNCHANGED <<attached, drift>>
      BY <2>2 DEF Reopen
    <3>3. QED BY <3>1, <3>2 DEF EndpointInv, NoWork
  <2>3. QED BY <1>8, <2>1, <2>2 DEF WorkDone, Complete
<1>9. CASE Close
  <2>1. CASE CloseLater
    BY <1>3, <1>9, <2>1 DEF Close, CloseLater, histVars
  <2>2. CASE CloseNow
    BY <2>2 DEF CloseNow, Release, EndpointInv
  <2>3. QED BY <1>9, <2>1, <2>2 DEF Close
<1>10. CASE WorkBegin
  <2>1. /\ work.phase = "queued" /\ work \in Jobs
        /\ work' = [work EXCEPT !.phase = "running"]
        /\ UNCHANGED <<state, endpoints, attached, drift>>
    BY <1>10 DEF WorkBegin, NoWork, IInv, TypeOK, sockVars, histVars
  <2>2. work'.phase = "running"
    BY <2>1 DEF Jobs
  <2>3. QED BY <2>1, <2>2 DEF EndpointInv
<1>11. ASSUME NEW op \in {"bind", "unbind"}, Block(op) PROVE EndpointInv'
  <2>1. state = "Open" /\ work'.phase = "queued"
          /\ UNCHANGED <<endpoints, attached, drift>>
    BY <1>11 DEF Block, Enqueue
  <2>2. work.phase = "idle"
    BY <1>2, <2>1 DEF NoWork
  <2>3. QED BY <2>1, <2>2 DEF EndpointInv
<1>12. CASE (\E d \in Dir : Start(d) \/ TimerCallback(d) \/ DelayedCallback(d)
                              \/ Arrive(d))
            \/ GetEvents \/ UseOption \/ PollCallback \/ Resume \/ Withdraw
            \/ UNCHANGED vars
  BY <1>3, <1>12 DEF Start, Attempt, TimerCallback, DelayedCallback, Arrive,
       GetEvents, UseOption, PollCallback, Resume, Withdraw, vars, sockVars,
       histVars
<1>13. QED
  BY <1>6, <1>7, <1>8, <1>9, <1>10, <1>11, <1>12
     DEF Next, JavaScript, EventLoop, Worker, Peers, Send, Receive, Bind,
         Unbind, Dir

(* The endpoint counter of an open socket agrees with libzmq, modulo its   *)
(* width and up to the failed jobs, for any width and any number of        *)
(* endpoints; also when connects, jobs and closing interleave.             *)
THEOREM EndpointsCounted == Spec => []EndpointLaw
<1>1. Init => EndpointInv BY EndpointInit
<1>2. IInv /\ EndpointInv /\ [Next]_vars => EndpointInv' BY EndpointNext
<1>3. IInv /\ EndpointInv => EndpointLaw
  BY DEF IInv, WorkerOwnership, EndpointInv, EndpointLaw, NoWork
<1>4. QED BY <1>1, <1>2, <1>3, InvAlways, PTL DEF Spec

-----------------------------------------------------------------------------
(* What a step may do.                                                     *)

LEMMA ClosedStep == IInv /\ [Next]_vars => (state = "Closed" => state' = "Closed")
<1> SUFFICES ASSUME IInv, [Next]_vars, state = "Closed" PROVE state' = "Closed"
  OBVIOUS
<1>1. work = NoWork /\ socket = FALSE
  BY DEF IInv, WorkerOwnership
<1>2. ~WorkDone
  BY <1>1 DEF WorkDone, NoWork
<1>3. CASE JavaScript
  BY <1>1, <1>3 DEF JavaScript, Send, Receive, Start, Bind, Unbind, Block,
       Close, CloseNow, Connect, Disconnect, GetEvents, UseOption, sockVars
<1>4. CASE EventLoop
  BY <1>2, <1>4 DEF EventLoop, PollCallback, Resume, TimerCallback,
       DelayedCallback, sockVars
<1>5. CASE Worker \/ Peers \/ UNCHANGED vars
  BY <1>5 DEF Worker, WorkBegin, WorkEnd, Peers, Withdraw, Arrive, vars,
       sockVars
<1>6. QED BY <1>3, <1>4, <1>5 DEF Next

(* Once closed, a socket is never open or blocked again: no completion of  *)
(* a job and no late callback brings it back.                              *)
THEOREM StaysClosed == Spec => ClosedIsFinal
<1>1. IInv /\ [Next]_vars => [state = "Closed" => state' = "Closed"]_vars
  BY ClosedStep
<1>2. QED BY <1>1, InvAlways, PTL DEF Spec, ClosedIsFinal

(* What Rejections says of one direction that a step has settled.          *)
Rejected(d) ==
  /\ outcome'[d] = "EAGAIN" => d \in timer \cup delayed \/ state' = "Closed"
  /\ outcome'[d] = "ENOTSOCK" => d \in delayed /\ state = "Closed"

LEMMA RejectionsNext ==
  IInv /\ [Next]_vars => \A d \in deferred \ deferred' : Rejected(d)
<1> SUFFICES ASSUME IInv, [Next]_vars, NEW d \in deferred, d \notin deferred'
             PROVE  Rejected(d)
  OBVIOUS
<1> d \in Dir
  BY DEF IInv, TypeOK
(* What is triggered after a validation is settled with "ok".              *)
<1>1. ASSUME NEW D, Transfer(D), D \cap deferred \subseteq Ready
      PROVE  Rejected(d)
  BY <1>1 DEF Transfer, Rejected, Ready
<1>2. ASSUME NEW c \in Dir, Start(c) PROVE Rejected(d)
  <2>1. PICK t \in Timeouts : SyncOperation(c, t) \/ DelayOperation(c, t)
                                \/ PollOperation(c, t)
    BY <1>2 DEF Start, Attempt
  <2>2. CASE SyncOperation(c, t)
    <3>1. Transfer({c} \cup Triggered(Other(c))) /\ c \notin deferred
      BY <1>2, <2>2 DEF SyncOperation, Start
    <3>2. ({c} \cup Triggered(Other(c))) \cap deferred \subseteq Ready
      BY <3>1 DEF Triggered
    <3>3. QED BY <1>1, <3>1, <3>2
  <2>3. CASE DelayOperation(c, t) \/ PollOperation(c, t)
    BY <2>3 DEF DelayOperation, PollOperation
  <2>4. QED BY <2>1, <2>2, <2>3
<1>3. CASE Release
  <2>1. events \subseteq Dir /\ state' = "Closed" /\ outcome'[d] # "ENOTSOCK"
    BY <1>3 DEF Release, PollerClose, IInv, TypeOK
  <2>2. QED BY <2>1 DEF Rejected
<1>4. ASSUME NEW c \in Dir, TriggerOne(c) PROVE Rejected(d)
  BY <1>1, <1>4 DEF TriggerOne, Triggered
<1>5. CASE PollCallback
  <2>1. CASE Triggered("read") # {}
    BY <1>4, <1>5, <2>1 DEF PollCallback, Dir
  <2>2. CASE Triggered("read") = {}
    BY <1>1, <1>5, <2>2 DEF PollCallback, Triggered
  <2>3. QED BY <2>1, <2>2
<1>6. CASE Resume
  <2>1. CASE socket
    BY <1>4, <1>6, <2>1 DEF Resume, IInv, TypeOK
  <2>2. CASE ~socket
    BY <1>6, <2>2 DEF Resume, opVars
  <2>3. QED BY <2>1, <2>2
<1>7. ASSUME NEW c \in Dir, TimerCallback(c) PROVE Rejected(d)
  <2>1. Transfer({c}) /\ c \in timer /\ deferred' = deferred \ {c}
    BY <1>7 DEF TimerCallback, Expired, Callbacks
  <2>2. socket
    BY <2>1 DEF IInv, PollerConsistent, WorkerOwnership
  <2>3. QED BY <2>1, <2>2 DEF Transfer, Rejected
<1>8. ASSUME NEW c \in Dir, DelayedCallback(c) PROVE Rejected(d)
  <2>1. Transfer({c}) /\ c \in delayed /\ deferred' = deferred \ {c}
    BY <1>8 DEF DelayedCallback, Callbacks
  <2>2. socket = (state # "Closed")
    BY DEF IInv, WorkerOwnership
  <2>3. QED BY <2>1, <2>2 DEF Transfer, Rejected
<1>9. CASE WorkDone \/ Close
  BY <1>3, <1>9 DEF WorkDone, Complete, Reopen, Close, CloseLater, CloseNow,
       opVars
<1>10. CASE \/ \E op \in {"bind", "unbind"} : Block(op)
            \/ \E c \in Dir : Arrive(c)
            \/ Connect \/ Disconnect \/ GetEvents \/ UseOption
            \/ WorkBegin \/ WorkEnd \/ Withdraw \/ UNCHANGED vars
  BY <1>10 DEF Block, Enqueue, Arrive, Connect, Disconnect, GetEvents,
       UseOption, WorkBegin, WorkEnd, Withdraw, vars, opVars
<1>11. QED
  BY <1>2, <1>5, <1>6, <1>7, <1>8, <1>9, <1>10
     DEF Next, JavaScript, EventLoop, Worker, Peers, Send, Receive, Bind,
         Unbind, Dir

(* Spurious edges and validation never fail an operation: EAGAIN comes     *)
(* from the operation's own timer, its own delayed callback or close(),    *)
(* and ENOTSOCK only from a delayed callback that finds the socket closed. *)
THEOREM RejectedForAReason == Spec => Rejections
<1>1. IInv /\ [Next]_vars =>
        [\A d \in deferred \ deferred' :
           /\ outcome'[d] = "EAGAIN" =>
                d \in timer \cup delayed \/ state' = "Closed"
           /\ outcome'[d] = "ENOTSOCK" =>
                d \in delayed /\ state = "Closed"]_vars
  BY RejectionsNext DEF Rejected
<1>2. QED BY <1>1, InvAlways, PTL DEF Spec, Rejections

(* A socket that is used in one direction only: nothing is ever pending in *)
(* the other.                                                              *)
OneWay(d) == Other(d) \notin deferred
MethodOf(d) == IF d = "read" THEN "receive" ELSE "send"

LEMMA OneWayNext ==
  ASSUME NEW d \in Dir, MethodOf(Other(d)) \notin Calls,
         OneWay(d), [Next]_vars
  PROVE  OneWay(d)'
<1>1. ASSUME NEW c \in Dir, c # Other(d), Start(c) PROVE OneWay(d)'
  BY <1>1 DEF Start, Attempt, SyncOperation, DelayOperation, PollOperation,
              Callbacks, OneWay
<1>2. Send \/ Receive => \E c \in Dir : c # Other(d) /\ Start(c)
  BY DEF Send, Receive, MethodOf, Other, Dir
<1>3. ASSUME deferred' \subseteq deferred PROVE OneWay(d)'
  BY <1>3 DEF OneWay
<1>4. CASE EventLoop
  BY <1>3, <1>4 DEF EventLoop, PollCallback, Resume, WorkDone, TimerCallback,
       DelayedCallback, TriggerOne, Callbacks, Complete, Reopen, Release,
       PollerClose, opVars
<1>5. CASE Bind \/ Unbind \/ Close \/ Connect \/ Disconnect \/ GetEvents
             \/ UseOption
  BY <1>3, <1>5 DEF Bind, Unbind, Block, Enqueue, Close, CloseLater, CloseNow,
       Release, PollerClose, Callbacks, Connect, Disconnect, GetEvents,
       UseOption, opVars
<1>6. CASE Worker \/ Peers \/ UNCHANGED vars
  BY <1>3, <1>6 DEF Worker, WorkBegin, WorkEnd, Peers, Withdraw, Arrive, vars,
       opVars
<1>7. QED BY <1>1, <1>2, <1>4, <1>5, <1>6 DEF Next, JavaScript

(* What SyncBudget says of a step of the application.                      *)
Spends ==
  sync_operations' >= sync_operations +
    (IF \E d \in Dir : outcome'[d] # "none" THEN 1 ELSE 0)

LEMMA SpendsNext ==
  ASSUME NEW d \in Dir, MethodOf(Other(d)) \notin Calls, 0 \notin Timeouts,
         IInv, OneWay(d), JavaScript, state' # "Closed"
  PROVE  Spends
<1>1. sync_operations \in Nat
  BY DEF IInv, TypeOK
<1>2. ASSUME NEW c \in Dir, c # Other(d), Start(c) PROVE Spends
  <2>1. PICK t \in Timeouts : SyncOperation(c, t) \/ DelayOperation(c, t)
                                \/ PollOperation(c, t)
    BY <1>2 DEF Start, Attempt
  <2>2. CASE SyncOperation(c, t)
    <3>1. Triggered(Other(c)) = {}
      BY <1>2 DEF Triggered, OneWay, Other, Dir, IInv, PollerConsistent
    <3>2. sync_operations' = sync_operations + 1
      BY <2>1, <2>2, <3>1 DEF SyncOperation, Callbacks, Counted
    <3>3. QED BY <1>1, <3>2 DEF Spends
  <2>3. CASE DelayOperation(c, t) \/ PollOperation(c, t)
    BY <1>1, <2>3 DEF DelayOperation, PollOperation, NoneSettled, Spends
  <2>4. QED BY <2>1, <2>2, <2>3
<1>3. Send \/ Receive => \E c \in Dir : c # Other(d) /\ Start(c)
  BY DEF Send, Receive, MethodOf, Other, Dir
<1>4. CASE NoneSettled /\ sync_operations' = sync_operations
  BY <1>1, <1>4 DEF NoneSettled, Spends
<1>5. CASE Bind \/ Unbind \/ Close \/ Connect \/ Disconnect \/ GetEvents
             \/ UseOption
  BY <1>4, <1>5 DEF Bind, Unbind, Block, Enqueue, Close, CloseLater, CloseNow,
       Release, Connect, Disconnect, GetEvents, UseOption, opVars
<1>6. QED BY <1>2, <1>3, <1>5 DEF JavaScript

(* The budget of a tick, for a socket used in one direction and never with *)
(* a timeout of 0 (which the code exempts): between two callbacks of the   *)
(* event loop each synchronous completion uses a unit and nothing renews   *)
(* it, whatever else the application calls.                                *)
THEOREM BudgetPerTick ==
  ASSUME NEW w \in Dir, MethodOf(Other(w)) \notin Calls, 0 \notin Timeouts
  PROVE  Spec => SyncBudget
<1>1. Init => OneWay(w)
  BY DEF Init, OneWay
<1>2. OneWay(w) /\ [Next]_vars => OneWay(w)'
  BY OneWayNext
<1>3. IInv /\ OneWay(w) /\ [Next]_vars =>
        [JavaScript /\ state' # "Closed" =>
           sync_operations' >= sync_operations +
             (IF \E d \in Dir : outcome'[d] # "none" THEN 1 ELSE 0)]_vars
  BY SpendsNext DEF Spends
<1>4. Spec => []OneWay(w)
  BY <1>1, <1>2, PTL DEF Spec
<1>5. QED BY <1>3, <1>4, InvAlways, PTL DEF Spec, SyncBudget

-----------------------------------------------------------------------------
(* What the event loop owes to a polled operation.                         *)

(* A polled operation for which the socket is ready has the edge of ZMQ_FD *)
(* left to call back: PollCallback is enabled, unless a callback is        *)
(* interrupted.                                                            *)
Owed(w) == ~careless /\ w \in events /\ w \in Ready => polling /\ fd

(* The methods that may take the edge away from operations in direction w. *)
TakeEdge(w) == {MethodOf(Other(w)), "events", "connect", "disconnect"}

LEMMA OwedNext ==
  ASSUME NEW w \in Dir, Calls \cap TakeEdge(w) = {},
         IInv, OneWay(w), Owed(w), [Next]_vars
  PROVE  Owed(w)'
<1>1. \A c \in Dir : c \in deferred => c = w
  BY DEF OneWay, Other, Dir
<1>2. events \subseteq deferred /\ (w \in events => polling)
  BY DEF IInv, PollerConsistent
(* Steps after which nothing is polled, or the application was careless.   *)
<1>3. ASSUME w \notin events' \/ careless' PROVE Owed(w)'
  BY <1>3 DEF Owed
(* Steps that leave the edge and the operations alone.                     *)
<1>4. ASSUME NEW c \in Dir, Start(c), c = w PROVE Owed(w)'
  <2>1. PICK t \in Timeouts : SyncOperation(w, t) \/ DelayOperation(w, t)
                                \/ PollOperation(w, t)
    BY <1>4 DEF Start, Attempt
  <2>2. w \notin events /\ socket' = socket
    BY <1>2, <1>4 DEF Start, Attempt, sockVars
  <2>3. CASE SyncOperation(w, t) \/ DelayOperation(w, t)
    BY <1>3, <2>2, <2>3 DEF SyncOperation, DelayOperation, Trigger
  <2>4. CASE PollOperation(w, t)
    BY <2>2, <2>4 DEF PollOperation, Ready, Owed
  <2>5. QED BY <2>1, <2>3, <2>4
<1>5. CASE Send \/ Receive
  BY <1>4, <1>5 DEF Send, Receive, TakeEdge, MethodOf, Other, Dir
<1>6. CASE Release
  BY <1>3, <1>6 DEF Release, PollerClose
<1>7. CASE Bind \/ Unbind
  BY <1>7 DEF Bind, Unbind, Block, Enqueue, zmqVars, opVars, Ready, Owed
<1>8. CASE Close
  BY <1>6, <1>8 DEF Close, CloseNow, CloseLater, zmqVars, opVars, histVars,
                    Ready, Owed
<1>9. CASE UseOption
  BY <1>9 DEF UseOption, sockVars, zmqVars, opVars, Ready, Owed
<1>10. ~(Connect \/ Disconnect \/ GetEvents)
  BY DEF Connect, Disconnect, GetEvents, TakeEdge
<1>11. ASSUME NEW c \in Dir, TriggerOne(c), UNCHANGED <<sockVars, careless>>
       PROVE  Owed(w)'
  <2>1. CASE c \in events
    <3>1. c = w
      BY <1>1, <1>2, <2>1
    <3>2. CASE w \in Ready
      BY <1>3, <1>11, <2>1, <3>1, <3>2 DEF TriggerOne, Triggered, Trigger
    <3>3. CASE w \notin Ready
      BY <1>11, <3>1, <3>3
         DEF TriggerOne, Triggered, Transfer, sockVars, Ready, Owed
    <3>4. QED BY <3>2, <3>3
  <2>2. CASE c \notin events
    BY <1>11, <2>2 DEF TriggerOne, Triggered, Trigger, Transfer, sockVars,
                       Ready, Owed, IInv, TypeOK
  <2>3. QED BY <2>1, <2>2
<1>12. CASE PollCallback
  <2>1. CASE Triggered("read") # {}
    BY <1>11, <1>12, <2>1 DEF PollCallback, Dir
  <2>2. CASE Triggered("read") = {}
    <3>1. /\ Transfer(Triggered("write")) /\ Trigger(Triggered("write"))
          /\ UNCHANGED <<sockVars, careless>>
      BY <1>12, <2>2 DEF PollCallback
    <3>2. CASE w \in events /\ w \in Ready
      <4>1. w = "write"
        BY <2>2, <3>2 DEF Triggered, Dir
      <4>2. QED BY <1>3, <3>1, <3>2, <4>1 DEF Trigger, Triggered
    <3>3. CASE w \notin events
      BY <1>3, <3>1, <3>3 DEF Trigger
    <3>4. CASE w \notin Ready
      BY <3>1, <3>4 DEF Transfer, sockVars, Ready, Owed
    <3>5. QED BY <3>2, <3>3, <3>4
  <2>3. QED BY <2>1, <2>2
<1>13. CASE Resume
  <2>1. CASE socket
    BY <1>11, <1>13, <2>1 DEF Resume, IInv, TypeOK
  <2>2. CASE ~socket
    BY <1>13, <2>2 DEF Resume, Ready, sockVars, zmqVars, opVars, Owed
  <2>3. QED BY <2>1, <2>2
<1>14. ASSUME NEW c \in Dir, TimerCallback(c) PROVE Owed(w)'
  <2>1. c = w
    BY <1>1, <1>2, <1>14 DEF TimerCallback, IInv, PollerConsistent
  <2>2. QED BY <1>3, <1>14, <2>1 DEF TimerCallback, Expired, Trigger
<1>15. ASSUME NEW c \in Dir, DelayedCallback(c) PROVE Owed(w)'
  <2>1. c = w /\ w \notin events
    BY <1>1, <1>15 DEF DelayedCallback, IInv, PollerConsistent
  <2>2. QED BY <1>3, <1>15, <2>1 DEF DelayedCallback
<1>16. CASE WorkDone
  BY <1>6, <1>16 DEF WorkDone, Complete, Reopen, zmqVars, opVars, Ready, Owed
<1>17. CASE Worker
  <2>1. state = "Blocked" /\ UNCHANGED <<events, careless>>
    <3>1. work # NoWork
      <4>1. work.phase \in {"queued", "running"}
        BY <1>17 DEF Worker, WorkBegin, WorkEnd
      <4>2. QED BY <4>1 DEF NoWork
    <3>2. state = "Blocked"
      BY <3>1 DEF IInv, WorkerOwnership
    <3>3. UNCHANGED <<events, careless>>
      BY <1>17 DEF Worker, WorkBegin, WorkEnd, opVars, histVars
    <3>4. QED BY <3>2, <3>3
  <2>2. careless \/ w \notin events
    BY <1>2, <2>1 DEF IInv, Undisturbed
  <2>3. QED BY <1>3, <2>1, <2>2 DEF IInv, TypeOK
<1>18. CASE Peers
  <2>1. UNCHANGED <<sockVars, opVars, histVars>>
    BY <1>18 DEF Peers, Withdraw, Arrive
  <2>2. fd' = fd \/ fd' = TRUE
    BY <1>18 DEF Peers, Withdraw, Arrive
  <2>3. w \in Ready' => w \in Ready \/ fd' = TRUE
    <3>1. socket' = socket
      BY <2>1 DEF sockVars
    <3>2. avail \in [Dir -> 0 .. Cap]
      BY DEF IInv, TypeOK
    <3>3. CASE Withdraw
      BY <3>1, <3>2, <3>3 DEF Withdraw, Ready, Dir
    <3>4. ASSUME NEW d \in Dir, Arrive(d)
          PROVE  w \in Ready' => w \in Ready \/ fd' = TRUE
      <4>1. avail[w] \in 0 .. Cap /\ avail[d] \in 0 .. Cap
        BY <3>2
      <4>2. avail'[w] # avail[w] => d = w
        BY <3>2, <3>4 DEF Arrive
      <4>3. avail[d] = 0 => fd'
        BY <3>4 DEF Arrive
      <4>4. CASE d = w /\ avail[d] = 0
        BY <3>4, <4>4 DEF Arrive
      <4>5. CASE d # w \/ avail[d] # 0
        BY <3>1, <4>1, <4>2, <4>5 DEF Ready
      <4>6. QED BY <4>4, <4>5
    <3>5. QED BY <1>18, <3>3, <3>4 DEF Peers
  <2>4. QED BY <1>2, <2>1, <2>2, <2>3 DEF Owed, opVars, histVars, IInv, TypeOK
<1>19. CASE UNCHANGED vars
  BY <1>19 DEF vars, sockVars, zmqVars, opVars, histVars, Ready, Owed
<1>20. QED
  BY <1>5, <1>7, <1>8, <1>9, <1>10, <1>12, <1>13, <1>14, <1>15, <1>16, <1>17,
     <1>18, <1>19
     DEF Next, JavaScript, EventLoop

(* No wakeup is lost, its safety half: on a socket used in one direction,  *)
(* with careful use of bind() and unbind() and without the methods that    *)
(* consume the edge, a polled operation is never ready without an edge     *)
(* that calls it back, whatever else the application, the workers and the  *)
(* peers do (poller.h:158-167).  With the fairness of PollCallback and     *)
(* Resume this gives NoLostWakeup.                                         *)
THEOREM WakeupOwed ==
  ASSUME NEW w \in Dir, Calls \cap TakeEdge(w) = {}
  PROVE  Spec => []Owed(w)
<1>1. Init => OneWay(w) /\ Owed(w)
  BY DEF Init, OneWay, Owed
<1>2. MethodOf(Other(w)) \notin Calls
  BY DEF TakeEdge
<1>3. OneWay(w) /\ [Next]_vars => OneWay(w)'
  BY <1>2, OneWayNext
<1>4. IInv /\ OneWay(w) /\ Owed(w) /\ [Next]_vars => Owed(w)'
  BY OwedNext
<1>5. QED BY <1>1, <1>3, <1>4, InvAlways, PTL DEF Spec

-----------------------------------------------------------------------------
(* What a deferred close() is owed.                                        *)

(* A requested close never leaves an open socket behind.                   *)
CloseOwed == request_close => state # "Open"

(* A requested close is only forgotten by making it true: until then the   *)
(* socket stays with the job it was given, which no other job follows.     *)
CloseKept ==
  request_close /\ state = "Blocked" =>
    \/ state' = "Closed"
    \/ request_close' /\ state' = "Blocked" /\ work'.op = work.op

LEMMA CloseNext ==
  IInv /\ CloseOwed /\ [Next]_vars => CloseOwed' /\ CloseKept
<1> SUFFICES ASSUME IInv, CloseOwed, [Next]_vars PROVE CloseOwed' /\ CloseKept
  OBVIOUS
<1>1. ASSUME UNCHANGED <<state, request_close>>, work'.op = work.op
      PROVE  CloseOwed' /\ CloseKept
  BY <1>1 DEF CloseOwed, CloseKept
<1>2. ASSUME NEW op, Block(op) PROVE CloseOwed' /\ CloseKept
  BY <1>2 DEF Block, Enqueue, CloseOwed, CloseKept
<1>3. CASE Close
  <2>1. CASE state = "Blocked"
    BY <1>3, <2>1 DEF Close, CloseLater, CloseOwed, CloseKept
  <2>2. CASE state # "Blocked"
    BY <1>3, <2>2 DEF Close, CloseNow, Release, CloseOwed, CloseKept
  <2>3. QED BY <2>1, <2>2
<1>4. CASE WorkDone
  <2>1. work # NoWork /\ request_close' = request_close
    BY <1>4 DEF WorkDone, NoWork
  <2>2. socket
    BY <2>1 DEF IInv, WorkerOwnership
  <2>3. request_close => state' = "Closed"
    BY <1>4, <2>2 DEF WorkDone, Complete, Release
  <2>4. QED BY <2>1, <2>3 DEF CloseOwed, CloseKept
<1>5. CASE Worker
  <2>1. UNCHANGED <<state, request_close>>
    BY <1>5 DEF Worker, WorkBegin, WorkEnd, sockVars
  <2>2. CASE WorkBegin
    <3>1. work' = [work EXCEPT !.phase = "running"] /\ work.phase = "queued"
      BY <2>2 DEF WorkBegin
    <3>2. work \in Jobs
      BY <3>1 DEF IInv, TypeOK, NoWork
    <3>3. work'.op = work.op
      BY <3>1, <3>2 DEF Jobs
    <3>4. QED BY <1>1, <2>1, <3>3
  <2>3. CASE WorkEnd
    <3>1. /\ \/ work' = [op |-> work.op, phase |-> "done", error |-> TRUE]
             \/ work' = [work EXCEPT !.phase = "done"]
          /\ work.phase = "running"
      BY <2>3 DEF WorkEnd
    <3>2. work \in Jobs
      BY <3>1 DEF IInv, TypeOK, NoWork
    <3>3. work'.op = work.op
      BY <3>1, <3>2 DEF Jobs
    <3>4. QED BY <1>1, <2>1, <3>3
  <2>4. QED BY <1>5, <2>2, <2>3 DEF Worker
<1>6. CASE Peers \/ UNCHANGED vars
  BY <1>1, <1>6 DEF Peers, Arrive, Withdraw, vars, sockVars
<1>7. CASE Send \/ Receive \/ Connect \/ Disconnect \/ GetEvents \/ UseOption
  BY <1>1, <1>7 DEF Send, Receive, Start, Attempt, Connect, Disconnect,
                    GetEvents, UseOption, sockVars
<1>8. CASE \/ PollCallback \/ Resume
           \/ \E d \in Dir : TimerCallback(d) \/ DelayedCallback(d)
  BY <1>1, <1>8 DEF PollCallback, Resume, TimerCallback, DelayedCallback,
                    sockVars
<1>9. QED
  BY <1>2, <1>3, <1>4, <1>5, <1>6, <1>7, <1>8
     DEF Next, JavaScript, EventLoop, Bind, Unbind

(* A close() during bind() or unbind() is honoured, its safety half: no    *)
(* completion reopens the socket, no other call withdraws the request, and *)
(* no second job is put before it (socket.cc:370-372, 421-423, 481-487).  With the  *)
(* fairness of the worker and of WorkDone this gives CloseHonoured.        *)
THEOREM CloseIsKept == Spec => []CloseOwed /\ [][CloseKept]_vars
<1>1. Init => CloseOwed
  BY DEF Init, CloseOwed
<1>2. IInv /\ CloseOwed /\ [Next]_vars => CloseOwed' /\ [CloseKept]_vars
  BY CloseNext
<1>3. QED BY <1>1, <1>2, InvAlways, PTL DEF Spec

-----------------------------------------------------------------------------
(* A socket implements the promises of PendingOps (their safety part).     *)

LEMMA OpsInit == Init => Ops!Init
BY DEF Init, Ops!Init

LEMMA OpsNext == IInv /\ [Next]_vars => [Ops!Next]_(Ops!vars)
<1> SUFFICES ASSUME IInv, [Next]_vars PROVE [Ops!Next]_(Ops!vars)
  OBVIOUS
<1> DEFINE Idle == UNCHANGED <<deferred, timer, delayed, state>>
           Same == (state' = "Closed") = (state = "Closed")
<1>1. ASSUME Idle PROVE UNCHANGED Ops!vars
  BY <1>1 DEF Ops!vars
<1>2. ASSUME NEW D, D \subseteq deferred, deferred' = deferred \ D, Same,
             timer' = timer \ D, delayed' = delayed \ D
      PROVE  [Ops!Next]_(Ops!vars)
  <2>1. CASE D = {}
    BY <1>2, <2>1 DEF Ops!vars
  <2>2. CASE D # {}
    <3>1. D \in SUBSET Dir
      BY <1>2 DEF IInv, TypeOK
    <3>2. Ops!Settle(D)
      BY <1>2, <2>2 DEF Ops!Settle
    <3>3. QED BY <3>1, <3>2 DEF Ops!Next
  <2>3. QED BY <2>1, <2>2
<1>3. ASSUME NEW d \in Dir, Start(d) PROVE [Ops!Next]_(Ops!vars)
  <2>1. PICK t \in Timeouts : SyncOperation(d, t) \/ DelayOperation(d, t)
                                \/ PollOperation(d, t)
    BY <1>3 DEF Start, Attempt
  <2>2. d \notin deferred /\ state = "Open" /\ state' = "Open"
    BY <1>3 DEF Start, Attempt, sockVars
  <2>3. CASE SyncOperation(d, t)
    <3> DEFINE T == Triggered(Other(d))
    <3>1. T \subseteq events /\ T \cap delayed = {} /\ T \subseteq deferred
      BY DEF Triggered, IInv, PollerConsistent
    <3>2. deferred' = deferred \ T /\ timer' = timer \ T
            /\ delayed' = delayed \ T
      BY <2>3, <3>1 DEF SyncOperation, Trigger, Callbacks
    <3>3. QED BY <1>2, <2>2, <3>1, <3>2
  <2>4. CASE DelayOperation(d, t) \/ PollOperation(d, t)
    <3>1. deferred' = deferred \cup {d}
            /\ (timer \cup delayed)' \in {timer \cup delayed,
                                          timer \cup delayed \cup {d}}
      BY <2>4 DEF DelayOperation, PollOperation
    <3>2. Ops!Begin(d)
      BY <2>2, <3>1 DEF Ops!Begin
    <3>3. QED BY <3>2 DEF Ops!Next
  <2>5. QED BY <2>1, <2>3, <2>4
<1>4. ASSUME Release, state # "Closed" PROVE [Ops!Next]_(Ops!vars)
  <2>1. deferred' = delayed /\ timer' = {} /\ delayed' = delayed
          /\ state' = "Closed"
    BY <1>4 DEF Release, PollerClose, Callbacks, IInv, PollerConsistent
  <2>2. Ops!Close
    BY <1>4, <2>1 DEF Ops!Close, IInv, PollerConsistent
  <2>3. QED BY <2>2 DEF Ops!Next
<1>5. CASE JavaScript
  <2>1. CASE \E d \in Dir : Start(d)
    BY <1>3, <2>1
  <2>2. CASE Close
    <3>1. CASE state = "Blocked"
      BY <1>1, <2>2, <3>1 DEF Close, CloseLater, opVars
    <3>2. CASE state # "Blocked"
      <4>1. Release /\ socket
        BY <2>2, <3>2 DEF Close, CloseNow
      <4>2. state # "Closed"
        BY <4>1 DEF IInv, WorkerOwnership
      <4>3. QED BY <1>4, <4>1, <4>2
    <3>3. QED BY <3>1, <3>2
  <2>3. CASE Connect \/ Disconnect \/ GetEvents \/ UseOption
    BY <1>1, <2>3 DEF Connect, Disconnect, GetEvents, UseOption, opVars,
                      sockVars
  <2>4. CASE \E op \in {"bind", "unbind"} : Block(op)
    BY <1>2, <2>4 DEF Block, Enqueue, opVars, Ops!vars
  <2>5. QED
    BY <1>5, <2>1, <2>2, <2>3, <2>4
       DEF JavaScript, Send, Receive, Bind, Unbind, Dir
<1>6. ASSUME NEW d \in Dir, TriggerOne(d), UNCHANGED sockVars
      PROVE  [Ops!Next]_(Ops!vars)
  <2>1. Triggered(d) \subseteq deferred /\ Triggered(d) \cap delayed = {}
    BY DEF Triggered, IInv, PollerConsistent
  <2>2. QED
    BY <1>2, <1>6, <2>1 DEF TriggerOne, Trigger, Callbacks, sockVars
<1>7. CASE EventLoop
  <2>1. CASE PollCallback
    <3>1. CASE Triggered("read") # {}
      BY <1>6, <2>1, <3>1 DEF PollCallback, Dir
    <3>2. CASE Triggered("read") = {}
      <4>1. Triggered("write") \subseteq deferred
              /\ Triggered("write") \cap delayed = {}
        BY DEF Triggered, IInv, PollerConsistent
      <4>2. QED
        BY <1>2, <2>1, <3>2, <4>1
           DEF PollCallback, Trigger, Callbacks, sockVars
    <3>3. QED BY <3>1, <3>2
  <2>2. CASE Resume
    <3>1. CASE socket
      BY <1>6, <2>2, <3>1 DEF Resume, IInv, TypeOK
    <3>2. CASE ~socket
      BY <1>1, <2>2, <3>2 DEF Resume, opVars, sockVars
    <3>3. QED BY <3>1, <3>2
  <2>3. CASE WorkDone
    <3>1. state = "Blocked"
      BY <2>3 DEF WorkDone, IInv, WorkerOwnership, NoWork
    <3>2. CASE Release
      BY <1>4, <3>1, <3>2
    <3>3. CASE Reopen
      BY <3>1, <3>3 DEF Reopen, opVars, Ops!vars
    <3>4. QED BY <2>3, <3>2, <3>3 DEF WorkDone, Complete
  <2>4. ASSUME NEW d \in Dir, TimerCallback(d) PROVE [Ops!Next]_(Ops!vars)
    <3>1. {d} \subseteq deferred /\ delayed \ {d} = delayed
      BY <2>4 DEF TimerCallback, IInv, PollerConsistent
    <3>2. QED
      BY <1>2, <2>4, <3>1
         DEF TimerCallback, Expired, Trigger, Callbacks, sockVars
  <2>5. ASSUME NEW d \in Dir, DelayedCallback(d) PROVE [Ops!Next]_(Ops!vars)
    <3>1. {d} \subseteq deferred /\ timer \ {d} = timer
      BY <2>5 DEF DelayedCallback, IInv, PollerConsistent
    <3>2. QED
      BY <1>2, <2>5, <3>1 DEF DelayedCallback, Callbacks, sockVars
  <2>6. QED BY <1>7, <2>1, <2>2, <2>3, <2>4, <2>5 DEF EventLoop
<1>8. CASE Worker \/ Peers \/ UNCHANGED vars
  BY <1>1, <1>8 DEF Worker, WorkBegin, WorkEnd, Peers, Withdraw, Arrive, vars,
       sockVars, opVars
<1>9. QED BY <1>5, <1>7, <1>8 DEF Next

(* Every step of a socket is a step of PendingOps, or changes nothing      *)
(* there: a promise is only ever created in a free slot of an open socket, *)
(* is settled once, and is due once the socket is closed.                  *)
THEOREM Refinement == Spec => Ops!SafeSpec
<1>1. Init => Ops!Init BY OpsInit
<1>2. IInv /\ [Next]_vars => [Ops!Next]_(Ops!vars) BY OpsNext
<1>3. QED BY <1>1, <1>2, InvAlways, PTL DEF Spec, Ops!SafeSpec
=============================================================================
