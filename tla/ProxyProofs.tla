----------------------------- MODULE ProxyProofs -----------------------------
(***************************************************************************)
(* Theorems about Proxy, for all bounds: a careful application never sees  *)
(* a failing assertion, a race, a control socket without its run, or a     *)
(* socket brought back after it has been closed.                           *)
(***************************************************************************)
EXTENDS Proxy, SequenceTheorems, TLAPS

(* An open socket has no bind job, so that a job's completion still finds  *)
(* room in the counter.                                                    *)
JobsCounted ==
  \A s \in Sockets : /\ state[s] = "Open" => job[s] = "none"
                     /\ job[s] # "none" => endpoints[s] < MaxEndpoints

(* With a careful application a pending operation belongs to an open       *)
(* socket, and the control sockets in the members are those of the run     *)
(* that is under way.                                                      *)
AtRest ==
  ~careless =>
    /\ \A s \in pending : state[s] = "Open"
    /\ \A r \in Runs : InFlight(r) => control_sub = r /\ control_pub = r

IInv ==
  /\ TypeOK
  /\ JobsCounted
  /\ AtRest
  /\ Owned
  /\ AssertOnlyIfCareless
  /\ RaceOnlyIfCareless

-----------------------------------------------------------------------------
LEMMA InvInit == Init => IInv
<1> SUFFICES ASSUME Init PROVE IInv
  OBVIOUS
<1>1. TypeOK
  <2>1. commands \in Seq(Commands) /\ control \subseteq {"sub", "pub"} \X Runs
    BY DEF Init
  <2>2. /\ endpoints \in [Sockets -> 0 .. MaxEndpoints]
        /\ control_sub \in 0 .. MaxRuns
        /\ control_pub \in 0 .. MaxRuns
    BY BoundsAssumption DEF Init
  <2> QED
    BY <2>1, <2>2 DEF Init, TypeOK, Phases
<1>2. JobsCounted
  BY DEF Init, JobsCounted
<1>3. \A r \in Runs : ~InFlight(r)
  BY DEF Init, InFlight
<1>4. AtRest
  BY <1>3 DEF Init, AtRest
<1>5. Owned
  BY <1>3 DEF Init, Owned
<1> QED
  BY <1>1, <1>2, <1>4, <1>5
     DEF Init, IInv, AssertOnlyIfCareless, RaceOnlyIfCareless

LEMMA AccessType == ASSUME NEW S, Access(S) PROVE race' \in BOOLEAN
BY DEF Access

ReleaseTyped ==
  /\ state' \in [Sockets -> {"Open", "Blocked", "Closed"}]
  /\ socket' \in [Sockets -> BOOLEAN]
  /\ endpoints' \in [Sockets -> 0 .. MaxEndpoints]
  /\ pending' \subseteq Sockets

LEMMA ReleaseType ==
  ASSUME TypeOK, NEW S, Release(S)
  PROVE  ReleaseTyped
<1> USE BoundsAssumption DEF TypeOK, Release
<1>1. state' \in [Sockets -> {"Open", "Blocked", "Closed"}]
  OBVIOUS
<1>2. socket' \in [Sockets -> BOOLEAN]
  OBVIOUS
<1>3. endpoints' \in [Sockets -> 0 .. MaxEndpoints]
  OBVIOUS
<1>4. pending' \subseteq Sockets
  OBVIOUS
<1> QED  BY <1>1, <1>2, <1>3, <1>4 DEF ReleaseTyped

(* Type correctness is preserved, given that jobs leave room in the        *)
(* counters.                                                               *)
LEMMA TypeNext == TypeOK /\ JobsCounted /\ [Next]_vars => TypeOK'
<1> SUFFICES ASSUME TypeOK, JobsCounted, [Next]_vars PROVE TypeOK'
  OBVIOUS
<1> USE BoundsAssumption DEF TypeOK, Phases, sockVars, proxyVars
<1>1. ASSUME NEW s \in Sockets, Connect(s) \/ Disconnect(s) PROVE TypeOK'
  <2>1. endpoints' \in [Sockets -> 0 .. MaxEndpoints]
    <3>1. CASE Connect(s)
      <4>1. endpoints[s] + 1 \in 0 .. MaxEndpoints  BY <3>1 DEF Connect
      <4> QED  BY <3>1, <4>1 DEF Connect
    <3>2. CASE Disconnect(s)
      <4>1. endpoints[s] - 1 \in 0 .. MaxEndpoints  BY <3>2 DEF Disconnect
      <4> QED  BY <3>2, <4>1 DEF Disconnect
    <3> QED  BY <1>1, <3>1, <3>2
  <2>2. race' \in BOOLEAN
    BY <1>1, AccessType DEF Connect, Disconnect
  <2> QED  BY <1>1, <2>1, <2>2 DEF Connect, Disconnect
<1>2. ASSUME NEW s \in Sockets, Start(s) \/ Wake(s) PROVE TypeOK'
  BY <1>2, AccessType DEF Start, Wake
<1>3. ASSUME NEW s \in Sockets, Bind(s) \/ BindWork(s) PROVE TypeOK'
  BY <1>3, AccessType DEF Bind, BindWork
<1>4. ASSUME NEW s \in Sockets, BindDone(s) PROVE TypeOK'
  <2>1. CASE request_close[s] /\ socket[s]
    <3>1. ReleaseTyped  BY <1>4, <2>1, ReleaseType DEF BindDone
    <3> QED  BY <1>4, <2>1, <3>1, AccessType DEF BindDone, ReleaseTyped
  <2>2. CASE ~(request_close[s] /\ socket[s])
    <3>1. endpoints' \in [Sockets -> 0 .. MaxEndpoints]
      BY <1>4, <2>2 DEF BindDone, Counted, JobsCounted
    <3>2. state' \in [Sockets -> {"Open", "Blocked", "Closed"}]
      BY <1>4, <2>2 DEF BindDone
    <3> QED  BY <1>4, <2>2, <3>1, <3>2 DEF BindDone
  <2> QED  BY <2>1, <2>2
<1>5. ASSUME NEW s \in Sockets, Close(s) PROVE TypeOK'
  <2>1. CASE state[s] = "Blocked"
    BY <1>5, <2>1 DEF Close
  <2>2. CASE state[s] # "Blocked"
    <3>1. ReleaseTyped  BY <1>5, <2>2, ReleaseType DEF Close
    <3> QED  BY <1>5, <2>2, <3>1, AccessType DEF Close, ReleaseTyped
  <2> QED  BY <2>1, <2>2
<1>6. ASSUME NEW r \in Runs, Run(r) PROVE TypeOK'
  BY <1>6 DEF Run, Runnable, Queue, Runs
<1>7. ASSUME NEW r \in Runs, Refused(r) PROVE TypeOK'
  BY <1>7 DEF Refused, Runnable, Runs
<1>8. ASSUME NEW c \in Commands, SendCommand(c) PROVE TypeOK'
  BY <1>8 DEF SendCommand
<1>9. ASSUME NEW r \in Runs, RunBegin(r) \/ RunFails(r) PROVE TypeOK'
  BY <1>9, AccessType DEF RunBegin, RunFails
<1>10. ASSUME NEW r \in Runs, Steer(r) PROVE TypeOK'
  BY <1>10 DEF Steer
<1>11. ASSUME NEW r \in Runs, RunDone(r) PROVE TypeOK'
  BY <1>11, AccessType DEF RunDone, CloseBoth, CloseControl, Release
<1>12. CASE UNCHANGED vars
  BY <1>12 DEF vars
<1> QED
  BY <1>1, <1>2, <1>3, <1>4, <1>5, <1>6, <1>7, <1>8, <1>9, <1>10, <1>11, <1>12
     DEF Next, JavaScript, EventLoop, Workers

LEMMA JobsNext == TypeOK /\ JobsCounted /\ [Next]_vars => JobsCounted'
<1> SUFFICES ASSUME TypeOK, JobsCounted, [Next]_vars PROVE JobsCounted'
  OBVIOUS
<1> USE BoundsAssumption DEF TypeOK, JobsCounted, Phases, sockVars
<1>1. ASSUME NEW s \in Sockets, Connect(s) \/ Disconnect(s) \/ Start(s) \/ Wake(s)
      PROVE JobsCounted'
  BY <1>1 DEF Connect, Disconnect, Start, Wake
<1>2. ASSUME NEW s \in Sockets, Bind(s) \/ BindWork(s) PROVE JobsCounted'
  BY <1>2 DEF Bind, BindWork
<1>3. ASSUME NEW s \in Sockets, BindDone(s) PROVE JobsCounted'
  BY <1>3 DEF BindDone, Counted, Release
<1>4. ASSUME NEW s \in Sockets, Close(s) PROVE JobsCounted'
  BY <1>4 DEF Close, Release
<1>5. ASSUME NEW r \in Runs, Run(r) \/ Refused(r) PROVE JobsCounted'
  BY <1>5 DEF Run, Queue, Refused
<1>6. ASSUME NEW c \in Commands, SendCommand(c) PROVE JobsCounted'
  BY <1>6 DEF SendCommand
<1>7. ASSUME NEW r \in Runs, RunBegin(r) \/ RunFails(r) \/ Steer(r)
      PROVE JobsCounted'
  BY <1>7 DEF RunBegin, RunFails, Steer
<1>8. ASSUME NEW r \in Runs, RunDone(r) PROVE JobsCounted'
  BY <1>8 DEF RunDone, CloseBoth, Release
<1>9. CASE UNCHANGED vars
  BY <1>9 DEF vars
<1> QED
  BY <1>1, <1>2, <1>3, <1>4, <1>5, <1>6, <1>7, <1>8, <1>9
     DEF Next, JavaScript, EventLoop, Workers

-----------------------------------------------------------------------------
(* What AtRest and the three properties say of a careful application.      *)
Sound ==
  /\ \A s \in pending : state[s] = "Open"
  /\ \A r \in Runs : InFlight(r) => control_sub = r /\ control_pub = r
  /\ \A s \in Sockets :
       /\ (state[s] = "Blocked") = (job[s] # "none" \/ \E r \in Runs : InFlight(r))
       /\ ~(job[s] # "none" /\ \E r \in Runs : InFlight(r))
       /\ socket[s] = (state[s] # "Closed")
  /\ ~failed
  /\ ~race

(* Only the owner of a blocked socket has a worker in it: the main thread  *)
(* may enter an open or a closed one.                                      *)
LEMMA FreeSocket ==
  ASSUME Sound, NEW s \in Sockets, state[s] # "Blocked"
  PROVE  ~Held(s)
BY DEF Sound, Held, InFlight

LEMMA AccessFree ==
  ASSUME Sound, NEW S \in SUBSET Sockets, Access(S), \A s \in S : ~Held(s)
  PROVE  ~race'
BY DEF Sound, Access

(* Releasing one open socket closes it and leaves the other alone.         *)
LEMMA ReleaseOne ==
  ASSUME TypeOK, Sound, NEW s \in Sockets, state[s] # "Blocked", Release({s})
  PROVE  /\ state'[s] = "Closed" /\ ~socket'[s]
         /\ \A q \in Sockets : q # s => state'[q] = state[q] /\ socket'[q] = socket[q]
         /\ \A q \in pending' : q \in pending /\ q # s
<1> DEFINE closing == {q \in {s} : socket[q]}
<1>1. /\ \A q \in Sockets : state'[q] = IF q \in closing THEN "Closed" ELSE state[q]
      /\ \A q \in Sockets : socket'[q] = (socket[q] /\ q \notin closing)
      /\ pending' = pending \ closing
  BY DEF Release, TypeOK
<1>2. CASE socket[s]
  <2>1. closing = {s}  BY <1>2
  <2> HIDE DEF closing
  <2> QED  BY <1>1, <2>1 DEF TypeOK
<1>3. CASE ~socket[s]
  <2>1. closing = {}  BY <1>3
  <2>2. state[s] = "Closed"  BY <1>3 DEF Sound, TypeOK
  <2>3. s \notin pending  BY <2>2 DEF Sound
  <2> HIDE DEF closing
  <2> QED  BY <1>1, <1>3, <2>1, <2>2, <2>3 DEF TypeOK
<1> QED  BY <1>2, <1>3

LEMMA SoundNext ==
  ASSUME TypeOK, Sound, [Next]_vars, ~careless'
  PROVE  Sound'
<1> USE BoundsAssumption DEF TypeOK, Phases, sockVars, proxyVars
<1>1. ASSUME NEW s \in Sockets, Connect(s) \/ Disconnect(s) \/ Start(s) PROVE Sound'
  <2>1. ~race'
    BY <1>1, FreeSocket, AccessFree DEF Connect, Disconnect, Start
  <2> QED  BY <1>1, <2>1 DEF Connect, Disconnect, Start, Sound, InFlight
<1>2. ASSUME NEW s \in Sockets, Wake(s) PROVE Sound'
  <2>1. state[s] = "Open"  BY <1>2 DEF Wake, Sound
  <2>2. ~race'  BY <1>2, <2>1, FreeSocket, AccessFree DEF Wake
  <2> QED  BY <1>2, <2>2 DEF Wake, Sound, InFlight
<1>3. ASSUME NEW s \in Sockets, Bind(s) PROVE Sound'
  <2>1. s \notin pending  BY <1>3 DEF Bind
  <2> QED  BY <1>3, <2>1 DEF Bind, Sound, InFlight
<1>4. ASSUME NEW s \in Sockets, BindWork(s) PROVE Sound'
  <2>1. job[s] \in {"queued", "running"} /\ \A r \in Runs : ~InFlight(r)
    BY <1>4 DEF BindWork, Sound
  <2>2. ~race'
    BY <1>4, <2>1 DEF BindWork, Access, Held, Sound, InFlight
  <2>3. \A q \in Sockets : (job'[q] # "none") = (job[q] # "none")
    BY <1>4 DEF BindWork
  <2>4. \A r \in Runs : InFlight(r)' = InFlight(r)
    BY <1>4 DEF BindWork, InFlight
  <2> QED  BY <1>4, <2>2, <2>3, <2>4 DEF BindWork, Sound
<1>5. ASSUME NEW s \in Sockets, BindDone(s) PROVE Sound'
  <2>1. /\ state[s] = "Blocked" /\ s \notin pending /\ socket[s]
        /\ \A r \in Runs : ~InFlight(r)
    BY <1>5 DEF BindDone, Sound
  <2>2. ~Held(s)  BY <1>5, <2>1 DEF BindDone, Held, InFlight
  <2>3. ~race'  BY <1>5, <2>2, AccessFree DEF BindDone, Sound
  <2> QED  BY <1>5, <2>1, <2>3 DEF BindDone, Release, Sound, InFlight
<1>6. ASSUME NEW s \in Sockets, Close(s) PROVE Sound'
  <2>1. \A r \in Runs : InFlight(r)' = InFlight(r)
    BY <1>6 DEF Close, InFlight
  <2>2. CASE state[s] = "Blocked"
    BY <1>6, <2>1, <2>2 DEF Close, Sound
  <2>3. CASE state[s] # "Blocked"
    <3>1. ~race'
      BY <1>6, <2>3, FreeSocket, AccessFree DEF Close
    <3>2. \A q \in Sockets : q # s => state'[q] = state[q] /\ socket'[q] = socket[q]
      BY <1>6, <2>3, ReleaseOne DEF Close
    <3>3. state'[s] = "Closed" /\ ~socket'[s]
      BY <1>6, <2>3, ReleaseOne DEF Close
    <3>4. \A q \in pending' : q \in pending /\ q # s
      BY <1>6, <2>3, ReleaseOne DEF Close
    <3>5. job' = job /\ control_sub' = control_sub /\ control_pub' = control_pub
          /\ failed' = failed
      BY <1>6, <2>3 DEF Close
    <3>6. \A q \in pending' : state'[q] = "Open"
      BY <3>2, <3>4 DEF Sound
    <3>7. (state'[s] = "Blocked") = (state[s] = "Blocked")
      BY <2>3, <3>3
    <3>9. socket'[s] \in BOOLEAN
      <4>1. ReleaseTyped  BY <1>6, <2>3, ReleaseType DEF Close
      <4> QED  BY <4>1 DEF ReleaseTyped
    <3>10. socket'[s] = (state'[s] # "Closed")
      BY <3>3, <3>9
    <3>8. \A q \in Sockets :
            /\ (state'[q] = "Blocked") = (state[q] = "Blocked")
            /\ socket'[q] = (state'[q] # "Closed")
      BY <3>2, <3>7, <3>10 DEF Sound
    <3> QED  BY <2>1, <3>1, <3>5, <3>6, <3>8 DEF Sound
  <2> QED  BY <2>2, <2>3
<1>7. ASSUME NEW r \in Runs, Runnable(r)
      PROVE  /\ pending = {}
             /\ \A s \in Sockets : state[s] = "Open"
             /\ \A q \in Runs : ~InFlight(q)
  <2>1. pending = {} /\ \A s \in Sockets : state[s] = "Open"
    BY <1>7 DEF Runnable
  <2>2. "front" \in Sockets
    BY DEF Sockets
  <2> QED  BY <2>1, <2>2 DEF Sound
<1>8. ASSUME NEW r \in Runs, Refused(r) PROVE Sound'
  BY <1>7, <1>8 DEF Refused, Sound, InFlight
<1>9. ASSUME NEW r \in Runs, Run(r) PROVE Sound'
  <2>1. \A q \in Runs : InFlight(q)' => q = r
    BY <1>7, <1>9 DEF Run, Queue, InFlight
  <2>2. InFlight(r)'
    BY <1>9 DEF Run, Queue, InFlight
  <2>3. \A s \in Sockets : job[s] = "none" /\ socket[s]
    BY <1>7, <1>9 DEF Run, Sound
  <2> QED  BY <1>7, <1>9, <2>1, <2>2, <2>3 DEF Run, Queue, Sound
<1>10. ASSUME NEW c \in Commands, SendCommand(c) PROVE Sound'
  BY <1>10 DEF SendCommand, Sound, InFlight
<1>11. ASSUME NEW r \in Runs, InFlight(r)
       PROVE  /\ r # 0 /\ control_sub = r /\ control_pub = r
              /\ \A q \in Runs : InFlight(q) => q = r
              /\ \A s \in Sockets : state[s] = "Blocked" /\ job[s] = "none" /\ socket[s]
              /\ pending = {}
  <2>0. r # 0
    BY DEF Runs
  <2>1. r # 0 /\ control_sub = r /\ control_pub = r
    BY <1>11, <2>0 DEF Sound
  <2>2. \A q \in Runs : InFlight(q) => q = r
    BY <2>1 DEF Sound
  <2>3. \A s \in Sockets : state[s] = "Blocked" /\ job[s] = "none" /\ socket[s]
    BY <1>11 DEF Sound
  <2>4. pending = {}
    BY <2>3 DEF Sound
  <2> QED  BY <2>1, <2>2, <2>3, <2>4
<1>12. ASSUME NEW r \in Runs, RunBegin(r) PROVE Sound'
  <2>1. InFlight(r)  BY <1>12 DEF RunBegin, InFlight
  <2>2. \A q \in Runs : run[q] # "running"
    BY <1>11, <1>12, <2>1 DEF RunBegin, InFlight
  <2>3. ~race'
    BY <1>11, <1>12, <2>1, <2>2 DEF RunBegin, Access, Held, Sound
  <2>4. \A q \in Runs : InFlight(q)' = InFlight(q)
    BY <1>12 DEF RunBegin, InFlight
  <2> QED  BY <1>12, <2>3, <2>4 DEF RunBegin, Sound
<1>13. ASSUME NEW r \in Runs, Steer(r) \/ RunFails(r) PROVE Sound'
  <2>1. \A q \in Runs : InFlight(q)' = InFlight(q)
    BY <1>13 DEF Steer, RunFails, InFlight
  <2> QED  BY <1>13, <2>1 DEF Steer, RunFails, Sound
<1>14. ASSUME NEW r \in Runs, RunDone(r) PROVE Sound'
  <2>1. InFlight(r)  BY <1>14 DEF RunDone, InFlight
  <2>2. \A q \in Runs : ~InFlight(q)'
    BY <1>11, <1>14, <2>1 DEF RunDone, InFlight
  <2>3. \A s \in Sockets : ~Held(s)
    BY <1>11, <1>14, <2>1 DEF RunDone, Held, InFlight
  <2>4. ~race'  BY <1>14, <2>3, AccessFree DEF RunDone
  <2>5. ~failed'
    BY <1>11, <1>14, <2>1 DEF RunDone, CloseControl, Sound
  <2>6. \A s \in Sockets : state'[s] = "Closed" /\ ~socket'[s] /\ job'[s] = "none"
    BY <1>11, <1>14, <2>1 DEF RunDone, CloseBoth, Release
  <2>7. pending' = {}
    BY <1>11, <1>14, <2>1 DEF RunDone, CloseBoth, Release
  <2>8. \A s \in Sockets : (state'[s] = "Blocked") = FALSE /\ (socket'[s] = FALSE)
    BY <2>6
  <2> QED  BY <2>2, <2>4, <2>5, <2>6, <2>7, <2>8 DEF Sound
<1>15. CASE UNCHANGED vars
  BY <1>15 DEF vars, Sound, InFlight
<1> QED
  BY <1>1, <1>2, <1>3, <1>4, <1>5, <1>6, <1>8, <1>9, <1>10, <1>12, <1>13, <1>14, <1>15
     DEF Next, JavaScript, EventLoop, Workers

(* Carelessness is not forgotten.                                          *)
LEMMA CarelessStays == [Next]_vars /\ careless => careless'
BY DEF Next, JavaScript, EventLoop, Workers, vars, Connect, Disconnect, Start, Wake,
       Bind, BindWork, BindDone, Close, Run, Refused, Runnable, SendCommand,
       RunBegin, Steer, RunFails, RunDone

LEMMA InvNext == IInv /\ [Next]_vars => IInv'
<1> SUFFICES ASSUME IInv, [Next]_vars PROVE IInv'
  OBVIOUS
<1>1. TypeOK' /\ JobsCounted'
  BY TypeNext, JobsNext DEF IInv
<1>2. CASE careless'
  BY <1>1, <1>2 DEF IInv, AtRest, Owned, AssertOnlyIfCareless, RaceOnlyIfCareless
<1>3. CASE ~careless'
  <2>1. ~careless  BY <1>3, CarelessStays
  <2>2. Sound
    BY <2>1 DEF IInv, AtRest, Owned, AssertOnlyIfCareless, RaceOnlyIfCareless, Sound
  <2>3. Sound'  BY <1>3, <2>2, SoundNext DEF IInv
  <2> QED
    BY <1>1, <2>3
       DEF IInv, AtRest, Owned, AssertOnlyIfCareless, RaceOnlyIfCareless, Sound
<1> QED  BY <1>2, <1>3

LEMMA ReachInv == Spec => []IInv
<1>1. Init => IInv  BY InvInit
<1>2. IInv /\ [Next]_vars => IInv'  BY InvNext
<1> QED  BY <1>1, <1>2, PTL DEF Spec

(* No variable leaves its type; the endpoint counters keep their bound     *)
(* although completions add to them.                                       *)
THEOREM ProxyTypeCorrect == Spec => []TypeOK
<1>1. IInv => TypeOK  BY DEF IInv
<1> QED  BY <1>1, ReachInv, PTL

(* For any number of runs, endpoints and commands: with a careful          *)
(* application a blocked socket has exactly one owner, a bind job or a     *)
(* run, and a closed one is never brought back by a completion             *)
(* (socket.cc:367, proxy.cc:91).                                           *)
THEOREM OneOwner == Spec => []Owned
<1>1. IInv => Owned  BY DEF IInv
<1> QED  BY <1>1, ReachInv, PTL

(* The assertions of the proxy's completion (proxy.cc:121, 124) fail only  *)
(* when run() was called on sockets that were not at rest.                 *)
THEOREM AssertsNeedCare == Spec => []AssertOnlyIfCareless
<1>1. IInv => AssertOnlyIfCareless  BY DEF IInv
<1> QED  BY <1>1, ReachInv, PTL

(* No libzmq socket is entered by the main thread while a worker is in it, *)
(* nor by two workers, as long as the application is careful.              *)
THEOREM RacesNeedCare == Spec => []RaceOnlyIfCareless
<1>1. IInv => RaceOnlyIfCareless  BY DEF IInv
<1> QED  BY <1>1, ReachInv, PTL

-----------------------------------------------------------------------------
(* The control sockets.                                                    *)

LEMMA BrokenStays == [Next]_vars /\ broken => broken'
BY DEF Next, JavaScript, EventLoop, Workers, vars, Connect, Disconnect, Start, Wake,
       Bind, BindWork, BindDone, Close, Run, Queue, Refused, Runnable, SendCommand,
       RunBegin, Steer, RunFails, RunDone

LEMMA IInvSound == IInv /\ ~careless => Sound
BY DEF IInv, AtRest, Owned, AssertOnlyIfCareless, RaceOnlyIfCareless, Sound

(* A step that neither starts nor settles a run.                           *)
LEMMA ControlStutter ==
  ASSUME ControlSockets, ~careless, ~broken, UNCHANGED <<control, control_pub>>,
         \A r \in Runs : InFlight(r)' = InFlight(r)
  PROVE  ControlSockets'
<1>1. {r \in Runs : InFlight(r)}' = {r \in Runs : InFlight(r)}
  OBVIOUS
<1>2. (\E r \in Runs : InFlight(r))' = (\E r \in Runs : InFlight(r))
  OBVIOUS
<1> QED  BY <1>1, <1>2 DEF ControlSockets

LEMMA ControlNext ==
  ASSUME IInv, ControlSockets, [Next]_vars, ~careless', ~broken'
  PROVE  ControlSockets'
<1>0. ~careless /\ ~broken /\ Sound
  BY CarelessStays, BrokenStays, IInvSound
<1> USE DEF sockVars, proxyVars
<1>1. ASSUME NEW s \in Sockets,
             \/ Connect(s) \/ Disconnect(s) \/ Start(s) \/ Wake(s)
             \/ Bind(s) \/ BindWork(s) \/ BindDone(s) \/ Close(s)
      PROVE  ControlSockets'
  <2>1. UNCHANGED <<control, control_pub, run>>
    BY <1>1 DEF Connect, Disconnect, Start, Wake, Bind, BindWork, BindDone, Close
  <2> QED  BY <1>0, <2>1, ControlStutter DEF InFlight
<1>2. ASSUME NEW r \in Runs, Run(r) PROVE ControlSockets'
  <2>1. \A q \in Runs : ~InFlight(q)
    <3>1. \A s \in Sockets : state[s] = "Open"
      BY <1>2 DEF Run, Runnable
    <3> QED  BY <1>0, <3>1 DEF Sound, Sockets
  <2>2. control = {}
    BY <1>0, <2>1 DEF ControlSockets
  <2>3. control' = {<<"sub", r>>, <<"pub", r>>} /\ control_pub' = r
    BY <1>2, <2>2 DEF Run
  <2>4. \A q \in Runs : InFlight(q)' <=> q = r
    BY <1>2, <2>1 DEF Run, Queue, InFlight, IInv, TypeOK
  <2>5. {q \in Runs : InFlight(q)'} = {r}
    BY <2>4
  <2>6. {"sub", "pub"} \X {r} = {<<"sub", r>>, <<"pub", r>>}
    OBVIOUS
  <2>7. (control_pub # 0)' = (\E q \in Runs : InFlight(q)')
    <3>1. r # 0  BY DEF Runs
    <3> QED  BY <2>3, <2>4, <3>1
  <2> QED  BY <2>3, <2>5, <2>6, <2>7 DEF ControlSockets
<1>3. ASSUME NEW r \in Runs, Refused(r) PROVE ControlSockets'
  BY <1>3 DEF Refused
<1>4. ASSUME NEW c \in Commands, SendCommand(c) PROVE ControlSockets'
  BY <1>0, <1>4, ControlStutter DEF SendCommand, InFlight
<1>5. ASSUME NEW r \in Runs, RunBegin(r) \/ Steer(r) \/ RunFails(r)
      PROVE  ControlSockets'
  <2>1. UNCHANGED <<control, control_pub>>
    BY <1>5 DEF RunBegin, Steer, RunFails
  <2>2. \A q \in Runs : InFlight(q)' = InFlight(q)
    BY <1>5 DEF RunBegin, Steer, RunFails, InFlight, IInv, TypeOK
  <2> QED  BY <1>0, <2>1, <2>2, ControlStutter
<1>6. ASSUME NEW r \in Runs, RunDone(r) PROVE ControlSockets'
  <2>1. InFlight(r)  BY <1>6 DEF RunDone, InFlight
  <2>2. control_sub = r /\ control_pub = r
    BY <1>0, <2>1 DEF Sound
  <2>3. \A q \in Runs : InFlight(q) => q = r
    BY <1>0, <2>2 DEF Sound
  <2>4. control \subseteq {"sub", "pub"} \X {r}
    BY <1>0, <2>3 DEF ControlSockets
  <2>5. control' = {} /\ control_pub' = 0
    BY <1>6, <2>2, <2>4 DEF RunDone, CloseControl
  <2>6. \A q \in Runs : ~InFlight(q)'
    BY <1>6, <2>3 DEF RunDone, InFlight, IInv, TypeOK
  <2> QED  BY <2>5, <2>6 DEF ControlSockets
<1>7. CASE UNCHANGED vars
  BY <1>0, <1>7, ControlStutter DEF vars, InFlight
<1> QED
  BY <1>1, <1>2, <1>3, <1>4, <1>5, <1>6, <1>7
     DEF Next, JavaScript, EventLoop, Workers

(* Unless libzmq refuses one of them in the middle of run(), the two       *)
(* control sockets exist exactly while a run is under way: no command is   *)
(* accepted by a proxy that has ended, and none is refused by one that has *)
(* not (proxy.cc:75-89, 120-127).                                          *)
THEOREM ControlMatchesRun == Spec => []ControlSockets
<1>1. Init => ControlSockets
  BY DEF Init, ControlSockets, InFlight
<1>2. IInv /\ ControlSockets /\ [Next]_vars => ControlSockets'
  BY ControlNext DEF ControlSockets
<1> QED  BY <1>1, <1>2, ReachInv, PTL DEF Spec

-----------------------------------------------------------------------------
(* A careful application's closed sockets count no endpoint, which is what *)
(* keeps run() from blocking them again: it checks nothing else.           *)
ClosedCountsNone ==
  ~careless => \A s \in Sockets : state[s] = "Closed" => endpoints[s] = 0

LEMMA ReleaseCounts ==
  ASSUME TypeOK, Sound, ClosedCountsNone, ~careless, NEW S, Release(S)
  PROVE  \A s \in Sockets : state'[s] = "Closed" => endpoints'[s] = 0
BY DEF TypeOK, ClosedCountsNone, Release

LEMMA CountsNext ==
  ASSUME IInv, ClosedCountsNone, [Next]_vars, ~careless'
  PROVE  ClosedCountsNone'
<1>0. ~careless /\ Sound /\ TypeOK
  BY CarelessStays, IInvSound DEF IInv
<1> USE DEF sockVars
<1>1. ASSUME NEW s \in Sockets,
             Connect(s) \/ Disconnect(s) \/ Start(s) \/ Wake(s) \/ Bind(s) \/ BindWork(s)
      PROVE  ClosedCountsNone'
  BY <1>0, <1>1
     DEF Connect, Disconnect, Start, Wake, Bind, BindWork, ClosedCountsNone, TypeOK
<1>2. ASSUME NEW s \in Sockets, BindDone(s) PROVE ClosedCountsNone'
  <2>1. CASE request_close[s] /\ socket[s]
    BY <1>0, <1>2, <2>1, ReleaseCounts DEF BindDone, ClosedCountsNone
  <2>2. CASE ~(request_close[s] /\ socket[s])
    BY <1>0, <1>2, <2>2 DEF BindDone, ClosedCountsNone, TypeOK
  <2> QED  BY <2>1, <2>2
<1>3. ASSUME NEW s \in Sockets, Close(s) PROVE ClosedCountsNone'
  BY <1>0, <1>3, ReleaseCounts DEF Close, ClosedCountsNone
<1>4. ASSUME NEW r \in Runs, Run(r) \/ Refused(r) PROVE ClosedCountsNone'
  BY <1>0, <1>4 DEF Run, Queue, Refused, ClosedCountsNone
<1>5. ASSUME NEW r \in Runs, RunDone(r) PROVE ClosedCountsNone'
  BY <1>0, <1>5, ReleaseCounts DEF RunDone, CloseBoth, ClosedCountsNone
<1>6. ASSUME NEW c \in Commands, SendCommand(c) PROVE ClosedCountsNone'
  BY <1>0, <1>6 DEF SendCommand, ClosedCountsNone
<1>7. ASSUME NEW r \in Runs, RunBegin(r) \/ Steer(r) \/ RunFails(r)
      PROVE  ClosedCountsNone'
  BY <1>0, <1>7 DEF RunBegin, Steer, RunFails, ClosedCountsNone
<1>8. CASE UNCHANGED vars
  BY <1>0, <1>8 DEF vars, ClosedCountsNone
<1> QED
  BY <1>1, <1>2, <1>3, <1>4, <1>5, <1>6, <1>7, <1>8
     DEF Next, JavaScript, EventLoop, Workers

SettleCloses ==
  \A r \in Runs : InFlight(r) /\ run'[r] = "settled" =>
    \A s \in Sockets : state'[s] = "Closed"

StayClosed == \A s \in Sockets : state[s] = "Closed" => state'[s] = "Closed"

LEMMA ClosesBothNext ==
  ASSUME IInv, ClosedCountsNone, [Next]_vars, ~careless
  PROVE  SettleCloses /\ StayClosed
<1>0. Sound /\ TypeOK
  BY IInvSound DEF IInv
<1> USE DEF sockVars
<1>1. ASSUME NEW s \in Sockets,
             Connect(s) \/ Disconnect(s) \/ Start(s) \/ Wake(s) \/ Bind(s) \/ BindWork(s)
      PROVE  SettleCloses /\ StayClosed
  BY <1>0, <1>1 DEF Connect, Disconnect, Start, Wake, Bind, BindWork,
                    SettleCloses, StayClosed, InFlight, TypeOK
<1>2. ASSUME NEW s \in Sockets, BindDone(s) PROVE SettleCloses /\ StayClosed
  <2>1. state[s] = "Blocked"
    BY <1>0, <1>2 DEF BindDone, Sound
  <2> QED  BY <1>0, <1>2, <2>1 DEF BindDone, Release, SettleCloses, StayClosed,
                                   InFlight, TypeOK
<1>3. ASSUME NEW s \in Sockets, Close(s) PROVE SettleCloses /\ StayClosed
  BY <1>0, <1>3 DEF Close, Release, SettleCloses, StayClosed, InFlight, TypeOK
<1>4. ASSUME NEW r \in Runs, Run(r) PROVE SettleCloses /\ StayClosed
  <2>1. \A s \in Sockets : state[s] # "Closed"
    BY <1>4 DEF Run, Runnable, ClosedCountsNone
  <2>2. \A q \in Runs : run'[q] = run[q] \/ run'[q] = "queued"
    BY <1>0, <1>4 DEF Run, Queue, TypeOK
  <2> QED  BY <2>1, <2>2 DEF SettleCloses, StayClosed, InFlight
<1>5. ASSUME NEW r \in Runs, Refused(r) PROVE SettleCloses /\ StayClosed
  <2>1. \A q \in Runs : run'[q] = run[q] \/ run'[q] = "refused"
    BY <1>0, <1>5 DEF Refused, TypeOK
  <2> QED  BY <1>5, <2>1 DEF Refused, SettleCloses, StayClosed, InFlight
<1>6. ASSUME NEW r \in Runs, RunDone(r) PROVE SettleCloses /\ StayClosed
  <2>1. \A s \in Sockets : socket[s]
    BY <1>0, <1>6 DEF RunDone, InFlight, Sound
  <2>2. \A s \in Sockets : state'[s] = "Closed"
    BY <1>6, <2>1 DEF RunDone, CloseBoth, Release
  <2> QED  BY <2>2 DEF SettleCloses, StayClosed
<1>7. ASSUME NEW c \in Commands, SendCommand(c) PROVE SettleCloses /\ StayClosed
  BY <1>7 DEF SendCommand, SettleCloses, StayClosed, InFlight
<1>8. ASSUME NEW r \in Runs, RunBegin(r) \/ Steer(r) \/ RunFails(r)
      PROVE  SettleCloses /\ StayClosed
  <2>1. state' = state
    BY <1>8 DEF RunBegin, Steer, RunFails
  <2>2. \A q \in Runs : run'[q] = run[q] \/ run'[q] \in {"running", "done"}
    BY <1>0, <1>8 DEF RunBegin, Steer, RunFails, TypeOK
  <2> QED  BY <2>1, <2>2 DEF SettleCloses, StayClosed, InFlight
<1>9. CASE UNCHANGED vars
  BY <1>9 DEF vars, SettleCloses, StayClosed, InFlight
<1> QED
  BY <1>1, <1>2, <1>3, <1>4, <1>5, <1>6, <1>7, <1>8, <1>9
     DEF Next, JavaScript, EventLoop, Workers

(* For a careful application, the completion of run() closes both sockets, *)
(* and whatever happens later, a second run() included, they stay closed   *)
(* (proxy.cc:54-63, 117-118).                                              *)
THEOREM RunClosesBoth == Spec => ClosesBoth
<1>1. Init => ClosedCountsNone
  BY DEF Init, ClosedCountsNone
<1>2. IInv /\ ClosedCountsNone /\ [Next]_vars => ClosedCountsNone'
  BY CountsNext DEF ClosedCountsNone
<1>3. IInv /\ ClosedCountsNone /\ [Next]_vars => (~careless => SettleCloses /\ StayClosed)
  BY ClosesBothNext
<1>4. Spec => [][~careless => SettleCloses /\ StayClosed]_vars
  BY <1>1, <1>2, <1>3, ReachInv, PTL DEF Spec
<1> QED  BY <1>4, PTL DEF ClosesBoth, SettleCloses, StayClosed

-----------------------------------------------------------------------------
(* What an accepted terminate() is owed.                                   *)

Terminating == \E i \in 1 .. Len(commands) : commands[i] = "TERMINATE"

(* A run that has been told to terminate, or has ended, is on its way to   *)
(* its completion, which closes the sockets.                               *)
Ending(r) == InFlight(r) /\ (Terminating \/ run[r] = "done")

EndKept(r) == Ending(r) => Ending(r)' \/ \A s \in Sockets : state'[s] = "Closed"

LEMMA SteerKeeps ==
  ASSUME TypeOK, NEW r \in Runs, Steer(r), Terminating
  PROVE  Terminating' \/ run'[r] = "done"
<1>1. commands \in Seq(Commands) /\ commands # <<>>
  BY DEF Steer, TypeOK
<1>2. CASE Head(commands) = "TERMINATE"
  BY <1>2 DEF Steer, TypeOK
<1>3. CASE Head(commands) # "TERMINATE"
  <2>1. PICK i \in 1 .. Len(commands) : commands[i] = "TERMINATE"
    BY DEF Terminating
  <2>2. /\ Len(Tail(commands)) = Len(commands) - 1
        /\ \A j \in 1 .. Len(Tail(commands)) :
             Tail(commands)[j] = commands[j + 1]
        /\ Head(commands) = commands[1] /\ Len(commands) \in Nat
    BY <1>1, HeadTailProperties, LenProperties
  <2>3. /\ i - 1 \in 1 .. Len(Tail(commands))
        /\ Tail(commands)[i - 1] = commands[i]
    BY <1>3, <2>1, <2>2
  <2> QED  BY <2>1, <2>3 DEF Steer, Terminating
<1> QED  BY <1>2, <1>3

LEMMA EndNext ==
  ASSUME IInv, [Next]_vars, ~careless, NEW r \in Runs, Ending(r)
  PROVE  Ending(r)' \/ \A s \in Sockets : state'[s] = "Closed"
<1>0. Sound /\ TypeOK
  BY IInvSound DEF IInv
<1> USE DEF sockVars
<1>1. ASSUME UNCHANGED commands, run'[r] = run[r] PROVE Ending(r)'
  BY <1>1 DEF Ending, Terminating, InFlight
<1>2. ASSUME NEW s \in Sockets,
             \/ Connect(s) \/ Disconnect(s) \/ Start(s) \/ Wake(s)
             \/ Bind(s) \/ BindWork(s) \/ BindDone(s) \/ Close(s)
      PROVE  Ending(r)'
  BY <1>1, <1>2 DEF Connect, Disconnect, Start, Wake, Bind, BindWork, BindDone,
                    Close
<1>3. ASSUME NEW q \in Runs, Run(q) \/ Refused(q) PROVE Ending(r)'
  <2>1. q # r
    BY <1>3 DEF Run, Refused, Runnable, Ending, InFlight
  <2> QED  BY <1>0, <1>1, <1>3, <2>1 DEF Run, Queue, Refused, TypeOK
<1>4. ASSUME NEW c \in Commands, SendCommand(c) PROVE Ending(r)'
  <2>1. commands' = Append(commands, c) /\ commands \in Seq(Commands)
    BY <1>0, <1>4 DEF SendCommand, TypeOK
  <2>2. Terminating => Terminating'
    BY <2>1, AppendProperties, LenProperties DEF Terminating
  <2> QED  BY <1>4, <2>2 DEF SendCommand, Ending, InFlight
<1>5. ASSUME NEW q \in Runs, RunBegin(q) \/ RunFails(q) PROVE Ending(r)'
  <2>1. commands' = commands
    BY <1>5 DEF RunBegin, RunFails
  <2>2. \/ run'[r] = run[r]
        \/ run'[r] = "done"
        \/ run[r] = "queued" /\ run'[r] = "running"
    BY <1>0, <1>5 DEF RunBegin, RunFails, TypeOK
  <2> QED  BY <2>1, <2>2 DEF Ending, Terminating, InFlight
<1>6. ASSUME NEW q \in Runs, Steer(q) PROVE Ending(r)'
  <2>1. q = r
    BY <1>0, <1>6 DEF Steer, Sound, Ending, InFlight
  <2>2. Terminating' \/ run'[r] = "done"
    BY <1>0, <1>6, <2>1, SteerKeeps DEF Ending, Steer
  <2>3. run'[r] \in {"running", "done"}
    BY <1>0, <1>6, <2>1 DEF Steer, TypeOK
  <2> QED  BY <2>2, <2>3 DEF Ending, InFlight
<1>7. ASSUME NEW q \in Runs, RunDone(q)
      PROVE  \A s \in Sockets : state'[s] = "Closed"
  <2>1. \A s \in Sockets : socket[s]
    BY <1>0, <1>7 DEF RunDone, InFlight, Sound
  <2> QED  BY <1>7, <2>1 DEF RunDone, CloseBoth, Release
<1>8. CASE UNCHANGED vars
  BY <1>1, <1>8 DEF vars
<1> QED
  BY <1>2, <1>3, <1>4, <1>5, <1>6, <1>7, <1>8
     DEF Next, JavaScript, EventLoop, Workers

(* terminate() ends the proxy, its safety half: for a careful application  *)
(* an accepted command is neither lost nor overtaken (an earlier pause()   *)
(* or resume(), a refused second run() included) before the run ends, and  *)
(* a run that has ended settles by closing both sockets (proxy.cc:114-127, *)
(* 145-158).  With the fairness of the worker this gives TerminateEnds.    *)
THEOREM TerminateIsKept == Spec => [][~careless => \A r \in Runs : EndKept(r)]_vars
<1>1. IInv /\ [Next]_vars => (~careless => \A r \in Runs : EndKept(r))
  BY EndNext DEF EndKept
<1> QED  BY <1>1, ReachInv, PTL DEF Spec
=============================================================================
