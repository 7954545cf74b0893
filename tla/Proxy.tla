-------------------------------- MODULE Proxy --------------------------------
(***************************************************************************)
(* A Proxy (proxy.cc) between two sockets of its own.  run() blocks both   *)
(* sockets and gives them to a worker thread, steered by commands through  *)
(* a pair of control sockets; the completion closes everything.            *)
(*                                                                         *)
(* Of the two sockets only what the proxy shares with them is modelled:    *)
(* the fields it reads and writes as a friend, the bind job that may be    *)
(* under way, and whether an operation is pending.  Socket.tla has the     *)
(* rest.                                                                   *)
(***************************************************************************)
EXTENDS Naturals, Sequences

CONSTANTS
  MaxRuns,       \* bound: how often run() gets past its checks
  MaxEndpoints,  \* bound: endpoints counted per socket
  MaxCommands    \* bound: commands that wait to be read

ASSUME BoundsAssumption ==
  MaxRuns \in Nat /\ MaxEndpoints \in Nat /\ MaxCommands \in Nat

Sockets == {"front", "back"}
Runs == 1 .. MaxRuns
Commands == {"FLOW", "TERMINATE"}   \* FLOW stands for PAUSE and RESUME

VARIABLES
  \* the two sockets
  state,           \* State::Open, Blocked or Closed
  socket,          \* the libzmq socket pointer is not null
  request_close,
  endpoints,
  pending,         \* the sockets with a pending send or receive
  job,             \* how far the socket's own bind job has come
  \* the proxy
  control_sub,     \* the run that created the control sockets, 0 for null
  control_pub,
  run,             \* how far each run has come
  \* libzmq
  control,         \* control sockets that exist: <<"sub" or "pub", run>>
  commands,        \* what the bound control socket has to read
  \* history, read by properties only
  failed,          \* an assert() of the code has been violated
  race,            \* a libzmq socket was used by two threads at once
  careless,        \* run() was called on sockets that were not at rest, or
                   \* bind() with an operation pending
  broken           \* libzmq refused run() a control socket

sockVars == <<state, socket, request_close, endpoints, pending>>
proxyVars == <<control_sub, control_pub, control>>
vars == <<sockVars, job, proxyVars, run, commands,
          failed, race, careless, broken>>

Phases == {"none", "queued", "running", "done"}

TypeOK ==
  /\ state \in [Sockets -> {"Open", "Blocked", "Closed"}]
  /\ socket \in [Sockets -> BOOLEAN]
  /\ request_close \in [Sockets -> BOOLEAN]
  /\ endpoints \in [Sockets -> 0 .. MaxEndpoints]
  /\ pending \subseteq Sockets
  /\ job \in [Sockets -> Phases]
  /\ control_sub \in 0 .. MaxRuns
  /\ control_pub \in 0 .. MaxRuns
  /\ run \in [Runs -> Phases \cup {"refused", "settled"}]
  /\ control \subseteq {"sub", "pub"} \X Runs
  /\ commands \in Seq(Commands)
  /\ failed \in BOOLEAN
  /\ race \in BOOLEAN
  /\ careless \in BOOLEAN
  /\ broken \in BOOLEAN

Init ==
  /\ state = [s \in Sockets |-> "Open"]
  /\ socket = [s \in Sockets |-> TRUE]
  /\ request_close = [s \in Sockets |-> FALSE]
  /\ endpoints = [s \in Sockets |-> 0]
  /\ pending = {}
  /\ job = [s \in Sockets |-> "none"]
  /\ control_sub = 0
  /\ control_pub = 0
  /\ run = [r \in Runs |-> "none"]
  /\ control = {}
  /\ commands = <<>>
  /\ failed = FALSE
  /\ race = FALSE
  /\ careless = FALSE
  /\ broken = FALSE

-----------------------------------------------------------------------------
InFlight(r) == run[r] \in {"queued", "running", "done"}

(* A worker is inside the libzmq socket.                                   *)
Held(s) == job[s] = "running" \/ \E r \in Runs : run[r] = "running"

(* The main thread enters the libzmq sockets of S.                         *)
Access(S) == race' = (race \/ \E s \in S : socket[s] /\ Held(s))

(* Socket::Close() for the sockets of S, without effect on a null pointer. *)
Release(S) ==
  LET closing == {s \in S : socket[s]} IN
  /\ state' = [s \in Sockets |-> IF s \in closing THEN "Closed" ELSE state[s]]
  /\ socket' = [s \in Sockets |-> socket[s] /\ s \notin closing]
  /\ endpoints' = [s \in Sockets |-> IF s \in closing THEN 0 ELSE endpoints[s]]
  /\ pending' = pending \ closing

-----------------------------------------------------------------------------
(* The sockets' own methods.                                               *)

Connect(s) ==
  /\ state[s] = "Open"
  /\ socket[s]
  /\ endpoints[s] < MaxEndpoints
  /\ endpoints' = [endpoints EXCEPT ![s] = @ + 1]
  /\ Access({s})
  /\ UNCHANGED <<state, socket, request_close, pending, job, proxyVars, run,
                 commands, failed, careless, broken>>

Disconnect(s) ==
  /\ state[s] = "Open"
  /\ socket[s]
  /\ endpoints[s] > 0
  /\ endpoints' = [endpoints EXCEPT ![s] = @ - 1]
  /\ Access({s})
  /\ UNCHANGED <<state, socket, request_close, pending, job, proxyVars, run,
                 commands, failed, careless, broken>>

(* send() or receive() that has to wait, and what later settles it.        *)
Start(s) ==
  /\ state[s] = "Open"
  /\ socket[s]
  /\ s \notin pending
  /\ pending' = pending \cup {s}
  /\ Access({s})
  /\ UNCHANGED <<state, socket, request_close, endpoints, job, proxyVars, run,
                 commands, failed, careless, broken>>

Wake(s) ==
  /\ s \in pending
  /\ pending' = pending \ {s}
  /\ Access({s})
  /\ UNCHANGED <<state, socket, request_close, endpoints, job, proxyVars, run,
                 commands, failed, careless, broken>>

Bind(s) ==
  /\ state[s] = "Open"
  /\ job[s] = "none"
  /\ endpoints[s] < MaxEndpoints
  /\ state' = [state EXCEPT ![s] = "Blocked"]
  /\ job' = [job EXCEPT ![s] = "queued"]
  /\ careless' = (careless \/ s \in pending)
  /\ UNCHANGED <<socket, request_close, endpoints, pending, proxyVars, run,
                 commands, failed, race, broken>>

(* zmq_bind in the worker.                                                 *)
BindWork(s) ==
  /\ \/ /\ job[s] = "queued"
        /\ job' = [job EXCEPT ![s] = "running"]
        /\ Access({s})
     \/ /\ job[s] = "running"
        /\ job' = [job EXCEPT ![s] = "done"]
        /\ UNCHANGED race
  /\ UNCHANGED <<sockVars, proxyVars, run, commands, failed, careless, broken>>

\* Mutant of Counted: the counter of a failed or successful unbind.
CountedDown(s) == endpoints[s] - 1

Counted(s) == endpoints[s] + 1

(* The completion of bind(): open again, whatever happened meanwhile, and  *)
(* closed if that was requested.                                           *)
BindDone(s) ==
  /\ job[s] = "done"
  /\ job' = [job EXCEPT ![s] = "none"]
  /\ IF request_close[s] /\ socket[s]
     THEN Release({s}) /\ Access({s})
     ELSE /\ state' = [state EXCEPT ![s] = "Open"]
          /\ endpoints' = [endpoints EXCEPT ![s] = Counted(s)]
          /\ UNCHANGED <<socket, pending, race>>
  /\ UNCHANGED <<request_close, proxyVars, run, commands, failed, careless,
                 broken>>

\* Mutant of Close: a blocked socket is closed at once.
CloseAtOnce(s) ==
  /\ Release({s})
  /\ Access({s})
  /\ UNCHANGED <<request_close, job, proxyVars, run, commands, failed,
                 careless, broken>>

Close(s) ==
  /\ IF state[s] = "Blocked"
     THEN /\ request_close' = [request_close EXCEPT ![s] = TRUE]
          /\ UNCHANGED <<state, socket, endpoints, pending, race>>
     ELSE /\ request_close' = [request_close EXCEPT ![s] = FALSE]
          /\ Release({s})
          /\ Access({s})
  /\ UNCHANGED <<job, proxyVars, run, commands, failed, careless, broken>>

-----------------------------------------------------------------------------
(* run(): nothing but the endpoint counters is checked.  (A front-end that *)
(* was closed has no context any more.)                                    *)

Runnable(r) ==
  /\ run[r] = "none"
  /\ \A q \in Runs : q < r => run[q] # "none"
  /\ \A s \in Sockets : endpoints[s] # 0
  /\ socket["front"]
  /\ careless' = (careless \/ pending # {} \/
                    \E s \in Sockets : state[s] # "Open")

(* The first, or the second control socket cannot be had, or the second    *)
(* not connected: what exists stays, and so do the members.                *)
Refused(r) ==
  /\ Runnable(r)
  /\ broken' = TRUE
  /\ run' = [run EXCEPT ![r] = "refused"]
  /\ \/ control_sub' = 0 /\ UNCHANGED <<control_pub, control>>
     \/ control_sub' = r /\ control_pub' = 0 /\ control' = control \cup {<<"sub", r>>}
     \/ control_sub' = r /\ control_pub' = r
        /\ control' = control \cup {<<"sub", r>>, <<"pub", r>>}
  /\ UNCHANGED <<sockVars, job, commands, failed, race>>

(* Both sockets are blocked.                                               *)
Queue(r) ==
  /\ state' = [s \in Sockets |-> "Blocked"]
  /\ run' = [run EXCEPT ![r] = "queued"]
  /\ UNCHANGED <<socket, request_close, endpoints, pending, job, commands,
                 failed, race>>

\* Mutant of Run: the second control socket is not checked.
RunUnchecked(r) ==
  /\ Runnable(r)
  /\ control_sub' = r
  /\ control_pub' \in {0, r}
  /\ control' = control \cup {<<"sub", r>>} \cup
                  (IF control_pub' = 0 THEN {} ELSE {<<"pub", r>>})
  /\ Queue(r)
  /\ UNCHANGED broken

Run(r) ==
  /\ Runnable(r)
  /\ control_sub' = r
  /\ control_pub' = r
  /\ control' = control \cup {<<"sub", r>>, <<"pub", r>>}
  /\ Queue(r)
  /\ UNCHANGED broken

(* The worker binds the control socket, whose address is the proxy's own,  *)
(* and enters the proxy loop on the two sockets.                           *)
RunBegin(r) ==
  /\ run[r] = "queued"
  /\ IF control_sub = 0 \/ \E q \in Runs : run[q] = "running"
     THEN run' = [run EXCEPT ![r] = "done"] /\ UNCHANGED race
     ELSE run' = [run EXCEPT ![r] = "running"] /\ Access(Sockets)
  /\ UNCHANGED <<sockVars, job, proxyVars, commands, failed, careless, broken>>

(* The loop obeys the next command.                                        *)
Steer(r) ==
  /\ run[r] = "running"
  /\ commands # <<>>
  /\ commands' = Tail(commands)
  /\ run' = IF Head(commands) = "TERMINATE" THEN [run EXCEPT ![r] = "done"]
                                            ELSE run
  /\ UNCHANGED <<sockVars, job, proxyVars, failed, race, careless, broken>>

(* The loop fails, because the context is terminated for instance.         *)
RunFails(r) ==
  /\ run[r] = "running"
  /\ run' = [run EXCEPT ![r] = "done"]
  /\ UNCHANGED <<sockVars, job, proxyVars, commands, failed, race, careless,
                 broken>>

\* Mutant of CloseBoth: the back-end stays open.
CloseFront == Release({"front"})

CloseBoth == Release(Sockets)

\* Mutant of CloseControl: one of the control sockets is forgotten.
CloseControlPub ==
  /\ failed' = (failed \/ control_sub = 0 \/ control_pub = 0)
  /\ control' = control \ {<<"pub", control_pub>>}
  /\ control_sub' = 0
  /\ control_pub' = 0

(* zmq_close must succeed for both control sockets.                        *)
CloseControl ==
  /\ failed' = (failed \/ control_sub = 0 \/ control_pub = 0)
  /\ control' = control \ {<<"sub", control_sub>>, <<"pub", control_pub>>}
  /\ control_sub' = 0
  /\ control_pub' = 0

(* The completion of run() on the main thread.                             *)
RunDone(r) ==
  /\ run[r] = "done"
  /\ run' = [run EXCEPT ![r] = "settled"]
  /\ CloseBoth
  /\ CloseControl
  /\ commands' = <<>>
  /\ Access(Sockets)
  /\ UNCHANGED <<request_close, job, careless, broken>>

(* pause(), resume() and terminate(): EBADF once the proxy has terminated. *)
SendCommand(c) ==
  /\ control_pub # 0
  /\ Len(commands) < MaxCommands
  /\ commands' = Append(commands, c)
  /\ UNCHANGED <<sockVars, job, proxyVars, run, failed, race, careless, broken>>

-----------------------------------------------------------------------------
JavaScript ==
  \/ \E s \in Sockets : Connect(s) \/ Disconnect(s) \/ Start(s) \/ Bind(s) \/ Close(s)
  \/ \E r \in Runs : Run(r) \/ Refused(r)
  \/ \E c \in Commands : SendCommand(c)

EventLoop ==
  \/ \E s \in Sockets : Wake(s) \/ BindDone(s)
  \/ \E r \in Runs : RunDone(r)

Workers ==
  \/ \E s \in Sockets : BindWork(s)
  \/ \E r \in Runs : RunBegin(r) \/ Steer(r) \/ RunFails(r)

Next == JavaScript \/ EventLoop \/ Workers

(* The worker pool starts what is queued and the proxy loop reads its      *)
(* commands; libuv delivers completions.                                   *)
Fairness ==
  \A r \in Runs : WF_vars(RunBegin(r)) /\ WF_vars(Steer(r)) /\ WF_vars(RunDone(r))

Spec == Init /\ [][Next]_vars
FairSpec == Spec /\ Fairness
-----------------------------------------------------------------------------
(* With a careful application a socket is blocked exactly while one job or *)
(* one run owns it, and its pointer is valid exactly until it is closed:   *)
(* no completion brings a closed socket back (socket.cc:367, proxy.cc:91). *)
Owned ==
  ~careless =>
    \A s \in Sockets :
      /\ (state[s] = "Blocked") =
           (job[s] # "none" \/ \E r \in Runs : InFlight(r))
      /\ ~(job[s] # "none" /\ \E r \in Runs : InFlight(r))
      /\ socket[s] = (state[s] # "Closed")

(* Closing the control sockets succeeds (proxy.cc:121, 124), unless the    *)
(* application runs a proxy on sockets that are not at rest.               *)
AssertOnlyIfCareless == failed => careless

(* The sockets are used by one thread at a time, and never closed under    *)
(* the worker, unless the application is careless.                         *)
RaceOnlyIfCareless == race => careless

(* The control sockets exist exactly while a run is under way, so commands *)
(* are accepted exactly then and none is left behind, unless libzmq        *)
(* refused one in the middle of run() (proxy.cc:75-89).                    *)
ControlSockets ==
  ~careless /\ ~broken =>
    /\ control = {"sub", "pub"} \X {r \in Runs : InFlight(r)}
    /\ (control_pub # 0) = (\E r \in Runs : InFlight(r))

(* "On termination the front-end and back-end sockets will be closed       *)
(* automatically" (native.ts:404-405), and they stay closed.               *)
ClosesBoth ==
  [][~careless =>
       /\ \A r \in Runs : InFlight(r) /\ run'[r] = "settled" =>
            \A s \in Sockets : state'[s] = "Closed"
       /\ \A s \in Sockets : state[s] = "Closed" => state'[s] = "Closed"]_vars

(* terminate() ends the proxy: once the command is accepted, whatever was  *)
(* sent before it, run() settles and both sockets are closed.              *)
TerminateEnds ==
  (/\ ~careless
   /\ \E r \in Runs : InFlight(r)
   /\ \E i \in 1 .. Len(commands) : commands[i] = "TERMINATE")
    ~> (careless \/ \A s \in Sockets : state[s] = "Closed")

(* The assertions of the completion (proxy.cc:121, 124), libzmq having     *)
(* refused nothing.                                                        *)
AssertsHold == failed => broken
=============================================================================
