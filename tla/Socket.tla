------------------------------- MODULE Socket -------------------------------
(***************************************************************************)
(* The native Socket of zeromq.js (socket.cc, socket.h) together with its  *)
(* Poller (poller.h), the delayed callbacks (util/uvdelayed.h) and the     *)
(* worker jobs (util/uvwork.h) it uses.                                    *)
(*                                                                         *)
(* Three kinds of actors interleave:                                       *)
(*   - the Node.js main thread: JavaScript calling the socket's methods,   *)
(*     and the callbacks the libuv loop makes (poll, timer, check, work    *)
(*     completion).  A method or a callback runs without interruption,     *)
(*     with one exception: when the outermost AsyncScope of a callback     *)
(*     closes, pending JavaScript continuations run before the callback    *)
(*     goes on.  `resume' holds what such a callback still has to do.      *)
(*   - a worker thread of the libuv pool, which runs zmq_bind/zmq_unbind;  *)
(*   - the peers, through the I/O threads of libzmq.                       *)
(*                                                                         *)
(* Reading and writing are symmetric in the code, so the state of the two  *)
(* directions is kept in sets and functions over Dir.                      *)
(***************************************************************************)
EXTENDS Integers, FiniteSets

CONSTANTS
  MaxSync,       \* max_sync_operations (512 in the code)
  Timeouts,      \* the values receive_timeout/send_timeout take; the
                 \* application may change them before any operation
  Calls,         \* the methods the application uses, a subset of Methods
  Cap,           \* bound: messages waiting, or room to write, per direction
  MaxEndpoints,  \* bound: endpoints libzmq has attached at any time
  Wrap           \* the width of the endpoint counter, 2^32 in the code

Dir == {"read", "write"}
Other(d) == IF d = "read" THEN "write" ELSE "read"

Methods == {"send", "receive", "bind", "unbind", "connect", "disconnect",
            "close", "events", "option"}

ASSUME MaxSyncAssumption == MaxSync \in Nat \ {0}
ASSUME TimeoutsAssumption == Timeouts \subseteq Int
ASSUME CallsAssumption == Calls \subseteq Methods
ASSUME BoundsAssumption ==
  Cap \in Nat \ {0} /\ MaxEndpoints \in Nat /\ Wrap \in Nat \ {0}

VARIABLES
  \* fields of Socket
  state,            \* State::Open, Blocked or Closed
  socket,           \* the libzmq socket pointer is not null
  request_close,
  endpoints,
  sync_operations,
  \* fields of Poller and the handles it owns
  deferred,         \* read_deferred and write_deferred that hold a promise
  events,           \* the directions the poller watches
  polling,          \* the uv_poll handle is started
  timer,            \* the readable/writable timers that are running
  \* work the socket has handed to libuv
  delayed,          \* UvScheduleDelayed callbacks that have not run yet
  work,             \* the bind/unbind job, and how far it has come
  resume,           \* what the interrupted callback will trigger next
  \* libzmq, as the socket sees it
  avail,            \* [Dir -> 0..Cap]: messages to receive, room to send
  fd,               \* ZMQ_FD is readable: an edge nobody has consumed yet
  attached,         \* endpoints libzmq really is bound or connected to
  \* history, read by properties only
  outcome,          \* [Dir -> how the last step settled an operation, if so]
  failed,           \* an assert() of the code has been violated
  race,             \* two threads have been inside the libzmq socket at once
  careless,         \* the application used a socket it had blocked, see below
  drift             \* what failed jobs added to `endpoints', modulo Wrap

sockVars == <<state, socket, request_close, endpoints, attached>>
zmqVars == <<avail, fd>>
opVars == <<deferred, events, polling, timer, delayed, sync_operations>>
histVars == <<failed, race, careless, drift>>
vars == <<sockVars, zmqVars, opVars, histVars, outcome, work, resume>>

NoWork == [op |-> "none", phase |-> "idle", error |-> FALSE]
Jobs == [op : {"bind", "unbind"}, phase : {"queued", "running", "done"},
         error : BOOLEAN]
NoResume == "none"
Outcomes == {"none", "ok", "EAGAIN", "ENOTSOCK"}

TypeOK ==
  /\ state \in {"Open", "Blocked", "Closed"}
  /\ socket \in BOOLEAN
  /\ request_close \in BOOLEAN
  /\ endpoints \in 0 .. Wrap - 1
  /\ sync_operations \in Nat
  /\ deferred \subseteq Dir
  /\ events \subseteq Dir
  /\ polling \in BOOLEAN
  /\ timer \subseteq Dir
  /\ delayed \subseteq Dir
  /\ work \in Jobs \cup {NoWork}
  /\ resume \in Dir \cup {NoResume}
  /\ avail \in [Dir -> 0 .. Cap]
  /\ fd \in BOOLEAN
  /\ attached \in 0 .. MaxEndpoints
  /\ outcome \in [Dir -> Outcomes]
  /\ failed \in BOOLEAN
  /\ race \in BOOLEAN
  /\ careless \in BOOLEAN
  /\ drift \in 0 .. Wrap - 1

Init ==
  /\ state = "Open"
  /\ socket = TRUE
  /\ request_close = FALSE
  /\ endpoints = 0
  /\ sync_operations = 0
  /\ deferred = {}
  /\ events = {}
  /\ polling = FALSE
  /\ timer = {}
  /\ delayed = {}
  /\ work = NoWork
  /\ resume = NoResume
  /\ avail = [d \in Dir |-> 0]
  /\ fd = FALSE
  /\ attached = 0
  /\ outcome = [d \in Dir |-> "none"]
  /\ failed = FALSE
  /\ race = FALSE
  /\ careless = FALSE
  /\ drift = 0

-----------------------------------------------------------------------------
(* Building blocks: libzmq calls, and the poller's methods.                *)

(* The directions for which HasEvents answers true; false on a null socket.*)
Ready == {d \in Dir : socket /\ avail[d] > 0}

(* The main thread enters libzmq while the worker may be inside.           *)
Access == race' = (race \/ work.phase = "running")

NoneSettled == outcome' = [d \in Dir |-> "none"]

(* Send/Receive with ZMQ_DONTWAIT in every direction of D, and the promise *)
(* settled with the outcome.                                               *)
Transfer(D) ==
  /\ avail' = [d \in Dir |-> IF d \in D \cap Ready THEN avail[d] - 1
                                                   ELSE avail[d]]
  /\ outcome' = [d \in Dir |->
                   IF d \notin D THEN "none"
                   ELSE IF ~socket THEN "ENOTSOCK"
                   ELSE IF d \in Ready THEN "ok" ELSE "EAGAIN"]

\* Mutant of Callbacks: sync_operations is never reset.
CallbacksKeepBudget(D, synced) ==
  /\ failed' = (failed \/ ~(D \subseteq deferred))
  /\ deferred' = deferred \ D
  /\ sync_operations' = synced

(* ReadableCallback/WritableCallback for the directions of D: the deferred *)
(* must be there, is taken, and the synchronous budget starts anew.        *)
Callbacks(D, synced) ==
  /\ failed' = (failed \/ ~(D \subseteq deferred))
  /\ deferred' = deferred \ D
  /\ sync_operations' = IF D = {} THEN synced ELSE 0

\* Mutant of Trigger: the timer is left running.
TriggerKeepTimer(D) ==
  /\ events' = events \ D
  /\ polling' = (polling /\ ~(D # {} /\ events \ D = {}))
  /\ timer' = timer

(* Poller::Trigger, without the callbacks: forget the events, stop the     *)
(* poll handle once nothing is watched, stop the timers.                   *)
Trigger(D) ==
  /\ events' = events \ D
  /\ polling' = (polling /\ ~(D # {} /\ events \ D = {}))
  /\ timer' = timer \ D

\* Mutant of Triggered: no validation with HasEvents.
TriggeredUnvalidated(d) == {d} \cap events

(* TriggerReadable/TriggerWritable: only if watched, and validated with    *)
(* HasEvents, is the event triggered.                                      *)
Triggered(d) == {d} \cap events \cap Ready

(* HasEvents reads ZMQ_EVENTS, which makes libzmq process its commands and *)
(* so consumes the edge on ZMQ_FD.  A zmq_msg_recv/send that returns       *)
(* EAGAIN does too, one that succeeds may or may not.                      *)
Edge(validated, D) ==
  IF validated \/ ~(D \subseteq Ready) THEN {FALSE} ELSE {fd, FALSE}

-----------------------------------------------------------------------------
(* send() and receive(): three ways to go, all of them behind ValidateOpen *)
(* and the check that no operation in this direction is pending.           *)

\* Mutant of Counted: the budget is never used up.
Uncounted(t) == sync_operations

(* sync_operations++ is behind the check of the timeout.                   *)
Counted(t) == IF t = 0 THEN sync_operations ELSE sync_operations + 1

(* Fast path: settle at once, then update the poller for the other         *)
(* direction by hand.                                                      *)
SyncOperation(d, t) ==
  LET T == Triggered(Other(d))
      validated == t # 0 \/ Other(d) \in events
  IN
  /\ t = 0 \/ (d \in Ready /\ sync_operations < MaxSync)
  /\ Transfer({d} \cup T)
  /\ Trigger(T)
  /\ Callbacks(T, Counted(t))
  /\ fd' \in Edge(validated, {d} \cup T)
  /\ UNCHANGED delayed

(* The budget of synchronous operations is spent: leave it to the next     *)
(* tick, although the socket is ready.                                     *)
DelayOperation(d, t) ==
  /\ t # 0
  /\ d \in Ready
  /\ sync_operations >= MaxSync
  /\ sync_operations' = sync_operations + 1
  /\ delayed' = delayed \cup {d}
  /\ failed' = (failed \/ d \in deferred)
  /\ deferred' = deferred \cup {d}
  /\ fd' = FALSE
  /\ NoneSettled
  /\ UNCHANGED <<events, polling, timer, avail>>

\* Mutant of StartPoll: the handle is only started once.
StartPollOnce == polling' = polling

(* Only start polling if we were not polling already.                      *)
StartPoll == polling' = IF events = {} THEN TRUE ELSE polling

(* PollReadable/PollWritable: wait for an edge, and for the timer if the   *)
(* timeout is positive.                                                    *)
PollOperation(d, t) ==
  /\ t # 0
  /\ d \notin Ready
  /\ failed' = (failed \/ d \in events \/ d \in deferred)
  /\ timer' = IF t > 0 THEN timer \cup {d} ELSE timer
  /\ StartPoll
  /\ events' = events \cup {d}
  /\ deferred' = deferred \cup {d}
  /\ fd' = FALSE
  /\ NoneSettled
  /\ UNCHANGED <<sync_operations, delayed, avail>>

Attempt(d) ==
  /\ \E t \in Timeouts :
       SyncOperation(d, t) \/ DelayOperation(d, t) \/ PollOperation(d, t)
  /\ Access
  /\ UNCHANGED <<sockVars, work, resume, careless, drift>>

\* Mutants of Start: without the Reading()/Writing() check, and without
\* ValidateOpen().
StartBusy(d) == state = "Open" /\ Attempt(d)
StartBlocked(d) == state # "Closed" /\ d \notin deferred /\ Attempt(d)

Start(d) ==
  /\ state = "Open"
  /\ d \notin deferred
  /\ Attempt(d)

Send == "send" \in Calls /\ Start("write")
Receive == "receive" \in Calls /\ Start("read")

-----------------------------------------------------------------------------
(* bind() and unbind(): block the socket and hand the job to a worker.     *)
(* Nothing checks that no operation is pending.  `careless' records that   *)
(* one is, or that a getter or an option is used while the socket is       *)
(* blocked.                                                                *)

Enqueue(op) ==
  /\ state' = "Blocked"
  /\ work' = [op |-> op, phase |-> "queued", error |-> FALSE]
  /\ careless' = (careless \/ deferred # {})
  /\ NoneSettled
  /\ UNCHANGED <<socket, request_close, endpoints, attached, zmqVars, opVars,
                 failed, race, drift, resume>>

\* Mutant of Block: a closed socket is not refused.
BlockClosed(op) == state # "Blocked" /\ Enqueue(op)

Block(op) == state = "Open" /\ Enqueue(op)

Bind == "bind" \in Calls /\ Block("bind")
Unbind == "unbind" \in Calls /\ Block("unbind")

WorkBegin ==
  /\ work.phase = "queued"
  /\ work' = [work EXCEPT !.phase = "running"]
  /\ NoneSettled
  /\ UNCHANGED <<sockVars, zmqVars, opVars, histVars, resume>>

(* zmq_bind/zmq_unbind returns, in the worker.  The call processes the     *)
(* socket's commands; unbinding may take pipes away.                       *)
WorkEnd ==
  /\ work.phase = "running"
  /\ \/ /\ work' = [op |-> work.op, phase |-> "done", error |-> TRUE]
        /\ drift' = (IF work.op = "bind" THEN drift + 1 ELSE drift - 1) % Wrap
        /\ UNCHANGED <<attached, avail>>
     \/ /\ work.op = "bind"
        /\ attached < MaxEndpoints
        /\ attached' = attached + 1
        /\ work' = [work EXCEPT !.phase = "done"]
        /\ UNCHANGED <<avail, drift>>
     \/ /\ work.op = "unbind"
        /\ attached > 0
        /\ attached' = attached - 1
        /\ work' = [work EXCEPT !.phase = "done"]
        /\ avail' \in {avail} \cup {[avail EXCEPT !["write"] = 0],
                                    [avail EXCEPT !["read"] = 0]}
        /\ UNCHANGED drift
  /\ fd' \in {fd, FALSE}
  /\ NoneSettled
  /\ UNCHANGED <<state, socket, request_close, endpoints, opVars, failed, race,
                 careless, resume>>

(* Poller::Close(): trigger whatever is watched, then drop the handles.    *)
PollerClose ==
  /\ outcome' = [d \in Dir |-> IF d \notin events THEN "none"
                               ELSE IF d \in Ready THEN "ok" ELSE "EAGAIN"]
  /\ Callbacks(events, sync_operations)
  /\ events' = {}
  /\ polling' = FALSE
  /\ timer' = {}

(* Socket::Close() with a live socket: the poller closes while the socket  *)
(* still exists, then everything is released.  Delayed operations are left *)
(* to their callback.                                                      *)
Release ==
  /\ PollerClose
  /\ endpoints' = 0
  /\ attached' = 0
  /\ avail' = [d \in Dir |-> 0]
  /\ fd' = FALSE
  /\ state' = "Closed"
  /\ socket' = FALSE
  /\ drift' = 0
  /\ UNCHANGED delayed

\* Mutants of Recount: the counter is not the unsigned one of the code, and
\* it is only updated by a successful job.
RecountSigned ==
  IF work.op = "bind" THEN endpoints + 1 ELSE endpoints - 1
RecountSuccess ==
  IF work.error THEN endpoints
  ELSE (IF work.op = "bind" THEN endpoints + 1 ELSE endpoints - 1) % Wrap

Recount ==
  (IF work.op = "bind" THEN endpoints + 1 ELSE endpoints - 1) % Wrap

Reopen ==
  /\ state' = "Open"
  /\ endpoints' = Recount
  /\ NoneSettled
  /\ UNCHANGED <<socket, attached, zmqVars, opVars, failed, drift>>

(* The job's completion, back on the main thread.                          *)
Complete == IF request_close /\ socket THEN Release ELSE Reopen

WorkDone ==
  /\ work.phase = "done"
  /\ resume = NoResume
  /\ Complete
  /\ work' = NoWork
  /\ Access
  /\ UNCHANGED <<request_close, resume, careless>>

CloseNow ==
  /\ socket
  /\ request_close' = FALSE
  /\ Release
  /\ Access
  /\ UNCHANGED careless

CloseLater ==
  /\ request_close' = TRUE
  /\ NoneSettled
  /\ UNCHANGED <<state, socket, endpoints, attached, zmqVars, opVars, histVars>>

Close ==
  /\ "close" \in Calls
  /\ IF state = "Blocked" THEN CloseLater ELSE CloseNow
  /\ UNCHANGED <<work, resume>>

-----------------------------------------------------------------------------
(* The remaining methods.                                                  *)

(* connect() attaches a pipe, which may offer room to write.               *)
Connect ==
  /\ "connect" \in Calls
  /\ state = "Open"
  /\ attached < MaxEndpoints
  /\ attached' = attached + 1
  /\ endpoints' = (endpoints + 1) % Wrap
  /\ avail' \in {avail, [avail EXCEPT !["write"] = Cap]}
  /\ fd' \in BOOLEAN
  /\ Access
  /\ NoneSettled
  /\ UNCHANGED <<state, socket, request_close, opVars, failed, careless,
                 drift, work, resume>>

(* disconnect() takes a pipe away, with the messages and the room in it.   *)
Disconnect ==
  /\ "disconnect" \in Calls
  /\ state = "Open"
  /\ attached > 0
  /\ attached' = attached - 1
  /\ endpoints' = (endpoints - 1) % Wrap
  /\ avail' \in [Dir -> 0 .. Cap]
  /\ \A d \in Dir : avail'[d] \in {0, avail[d]}
  /\ fd' \in {fd, FALSE}
  /\ Access
  /\ NoneSettled
  /\ UNCHANGED <<state, socket, request_close, opVars, failed, careless,
                 drift, work, resume>>

(* The readable and writable getters ask HasEvents, in any state.          *)
GetEvents ==
  /\ "events" \in Calls
  /\ fd' = FALSE
  /\ Access
  /\ careless' = (careless \/ state = "Blocked")
  /\ NoneSettled
  /\ UNCHANGED <<sockVars, avail, opVars, failed, drift, work, resume>>

(* getsockopt and setsockopt are available in any state; which value the   *)
(* timeouts have is left to Timeouts.                                      *)
UseOption ==
  /\ "option" \in Calls
  /\ Access
  /\ careless' = (careless \/ state = "Blocked")
  /\ NoneSettled
  /\ UNCHANGED <<sockVars, zmqVars, opVars, failed, drift, work, resume>>

-----------------------------------------------------------------------------
(* Callbacks of the event loop.                                            *)

(* The timer has expired: Trigger, without validation.                     *)
Expired(d) == {d}

TimerCallback(d) ==
  /\ resume = NoResume
  /\ d \in timer
  /\ Transfer(Expired(d))
  /\ Trigger(Expired(d))
  /\ Callbacks(Expired(d), sync_operations)
  /\ fd' \in Edge(FALSE, Expired(d))
  /\ Access
  /\ UNCHANGED <<sockVars, delayed, work, resume, careless, drift>>

(* TriggerReadable or TriggerWritable called by a callback.                *)
TriggerOne(d) ==
  /\ Transfer(Triggered(d))
  /\ Trigger(Triggered(d))
  /\ Callbacks(Triggered(d), sync_operations)
  /\ IF d \in events THEN fd' = FALSE /\ Access ELSE UNCHANGED <<fd, race>>
  /\ UNCHANGED delayed

(* The poll callback: TriggerReadable and, JavaScript having run if that   *)
(* settled a promise, TriggerWritable.                                     *)
PollCallback ==
  /\ resume = NoResume
  /\ polling
  /\ fd
  /\ IF Triggered("read") # {}
     THEN TriggerOne("read") /\ resume' = "write"
     ELSE /\ Transfer(Triggered("write"))
          /\ Trigger(Triggered("write"))
          /\ Callbacks(Triggered("write"), sync_operations)
          /\ fd' = FALSE
          /\ Access
          /\ UNCHANGED <<delayed, resume>>
  /\ UNCHANGED <<sockVars, work, careless, drift>>

(* The delayed callback performs the operation, on whatever the socket has *)
(* become, JavaScript runs, and the other direction is triggered.          *)
DelayedCallback(d) ==
  /\ resume = NoResume
  /\ d \in delayed
  /\ delayed' = delayed \ {d}
  /\ Transfer({d})
  /\ Callbacks({d}, sync_operations)
  /\ fd' \in Edge(FALSE, {d})
  /\ resume' = Other(d)
  /\ Access
  /\ UNCHANGED <<sockVars, events, polling, timer, work, careless,
                 drift>>

(* The rest of an interrupted poll or delayed callback.                    *)
Resume ==
  /\ resume # NoResume
  /\ resume' = NoResume
  /\ IF socket THEN TriggerOne(resume)
               ELSE NoneSettled /\ UNCHANGED <<zmqVars, opVars, failed, race>>
  /\ UNCHANGED <<sockVars, work, careless, drift>>

-----------------------------------------------------------------------------
(* The peers and the I/O threads of libzmq.                                *)

(* A message, or room for one, arrives.  The edge is certain when there    *)
(* was none; the commands libzmq exchanges may raise it at other times.    *)
Arrive(d) ==
  /\ socket
  /\ avail[d] < Cap
  /\ avail' = [avail EXCEPT ![d] = @ + 1]
  /\ fd' \in IF avail[d] = 0 THEN {TRUE} ELSE {fd, TRUE}
  /\ NoneSettled
  /\ UNCHANGED <<sockVars, opVars, histVars, work, resume>>

(* A peer goes away and the room in its pipe with it.                      *)
Withdraw ==
  /\ socket
  /\ avail["write"] > 0
  /\ avail' = [avail EXCEPT !["write"] = 0]
  /\ fd' \in {fd, TRUE}
  /\ NoneSettled
  /\ UNCHANGED <<sockVars, opVars, histVars, work, resume>>

-----------------------------------------------------------------------------
JavaScript ==
  \/ Send \/ Receive \/ Bind \/ Unbind \/ Close
  \/ Connect \/ Disconnect \/ GetEvents
  \/ UseOption

EventLoop ==
  \/ PollCallback \/ Resume \/ WorkDone
  \/ \E d \in Dir : TimerCallback(d) \/ DelayedCallback(d)

Worker == WorkBegin \/ WorkEnd

Peers == Withdraw \/ \E d \in Dir : Arrive(d)

Next == JavaScript \/ EventLoop \/ Worker \/ Peers

(* libuv visits every kind of handle in every iteration of its loop, and   *)
(* JavaScript run by a callback returns.  A timer, check or completion     *)
(* callback that is ready is therefore called, although other callbacks    *)
(* may be interrupted in between; a callback once interrupted goes on, and *)
(* the worker pool makes progress.  The poll callback is only owed while   *)
(* the edge stays: code that consumes it before every poll phase prevents  *)
(* the callback.  Neither the application nor the peers owe anything.      *)
Fairness ==
  /\ WF_vars(PollCallback)
  /\ SF_vars(WorkDone)
  /\ \A d \in Dir : SF_vars(TimerCallback(d)) /\ SF_vars(DelayedCallback(d))
  /\ WF_vars(Resume)
  /\ WF_vars(WorkBegin)
  /\ WF_vars(WorkEnd)

Spec == Init /\ [][Next]_vars
FairSpec == Spec /\ Fairness
-----------------------------------------------------------------------------
(* Safety.                                                                 *)

(* No assert() of the poller and the promise slots can fail: a callback    *)
(* always finds the promise it settles (socket.cc:896, 904), a promise is  *)
(* never stored over another one (socket.cc:913, 920), and polling never   *)
(* starts twice in one direction (poller.h:67, 91).                        *)
NoAssertFails == ~failed

(* Every pending promise has exactly one source that will settle it, the   *)
(* poller or a delayed callback; a timer only runs for a polled operation; *)
(* the poll handle is started exactly while something is watched; and      *)
(* nothing is left behind by close().                                      *)
PollerConsistent ==
  /\ deferred = events \cup delayed
  /\ events \cap delayed = {}
  /\ timer \subseteq events
  /\ polling = (events # {})
  /\ state = "Closed" => events = {}

(* The socket a worker has been given is never closed, nor given to a      *)
(* second job, before the first job's completion: close() while blocked    *)
(* waits (socket.cc:481).                                                  *)
WorkerOwnership ==
  /\ (state = "Blocked") = (work # NoWork)
  /\ socket = (state # "Closed")

Delaying(d) == IF d \in delayed THEN 1 ELSE 0

(* The counter of synchronous operations overshoots max_sync_operations by *)
(* at most one per direction, so it cannot wrap around: each overshooting  *)
(* operation blocks its direction until its callback resets the counter.   *)
SyncBounded ==
  sync_operations <= MaxSync + Delaying("read") + Delaying("write")

(* If the application never calls bind or unbind with an operation pending *)
(* and leaves a blocked socket's getters and options alone, then only one  *)
(* thread at a time is inside the libzmq socket (socket.h:27).             *)
RaceOnlyIfCareless == race => careless

Undisturbed == state = "Blocked" /\ ~careless => deferred = {}

(* The inductive invariant behind the properties above.                    *)
IInv ==
  /\ TypeOK
  /\ NoAssertFails
  /\ PollerConsistent
  /\ WorkerOwnership
  /\ SyncBounded
  /\ RaceOnlyIfCareless
  /\ Undisturbed

(* While no job is under way, `endpoints' counts the endpoints of the      *)
(* libzmq socket, up to what failed jobs have added (a failed bind) or     *)
(* taken away (a failed unbind), in 32-bit arithmetic.                     *)
EndpointLaw ==
  state = "Open" => endpoints = (attached + drift) % Wrap

(* A closed socket stays closed, whatever completes afterwards.            *)
ClosedIsFinal == [][state = "Closed" => state' = "Closed"]_vars

(* A polled operation is rejected with EAGAIN only by its own timer or by  *)
(* close(): the edge-triggered callbacks validate before they trigger.     *)
(* The documentation promises this of every operation: it waits as long as *)
(* its timeout says (for ever if -1), and an iterator returns on close().  *)
(* The code does not keep that for an operation that the budget delayed:   *)
(* its callback does not validate, so that it is rejected with EAGAIN,     *)
(* whatever its timeout, if the message or the room has gone meanwhile     *)
(* (socket.cc:568, 612), and with ENOTSOCK if the socket has been closed.  *)
(* These two are the exceptions named here.                                *)
Rejections ==
  [][\A d \in deferred \ deferred' :
       /\ outcome'[d] = "EAGAIN" =>
            d \in timer \cup delayed \/ state' = "Closed"
       /\ outcome'[d] = "ENOTSOCK" =>
            d \in delayed /\ state = "Closed"]_vars

(* Between two callbacks of the event loop every synchronous completion    *)
(* uses up a unit of the budget and nothing renews it, so that at most     *)
(* max_sync_operations complete in one tick (socket.cc:23-25, 546-551).    *)
(* Operations with a timeout of 0 are exempt.                              *)
SyncBudget ==
  [][JavaScript /\ state' # "Closed" =>
       sync_operations' >= sync_operations +
         (IF \E d \in Dir : outcome'[d] # "none" THEN 1 ELSE 0)]_vars

(* A socket's operations as the one-slot-per-direction promises of         *)
(* PendingOps.                                                             *)
Ops == INSTANCE PendingOps WITH
         Slots <- Dir,
         pending <- deferred,
         due <- timer \cup delayed,
         closed <- (state = "Closed")

(* The worker and the main thread are never in the libzmq socket at once:  *)
(* a blocked socket has an "async operation in progress that disallows     *)
(* socket access" (socket.h:27).                                           *)
ExclusiveAccess == ~race

-----------------------------------------------------------------------------
(* Liveness.                                                               *)

(* The socket implements the promises of PendingOps, in particular:        *)
(* operations with a positive timeout, delayed ones, and those pending     *)
(* when the socket is closed are all settled in the end.                   *)
OpsImplemented == Ops!Spec

(* close() called during bind() or unbind() takes effect.                  *)
CloseHonoured == request_close ~> (state = "Closed")

(* A polled operation for which the socket is ready does not wait for ever *)
(* (index.ts:216-217: "The promise will be resolved [...] when available").*)
NoLostWakeup ==
  \A d \in Dir : (d \in events /\ d \in Ready) ~>
                   (d \notin events \/ d \notin Ready)
=============================================================================
