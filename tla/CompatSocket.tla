---------------------------- MODULE CompatSocket ----------------------------
(***************************************************************************)
(* The Socket of the compatibility layer (compat.ts): the event emitter    *)
(* interface of zeromq 5 on top of the promises of the new sockets.        *)
(*                                                                         *)
(* A receive loop, a send loop and monitor loops are async functions.  All *)
(* JavaScript runs on one thread, in turns: a callback of the event loop,  *)
(* then the queue of process.nextTick and the microtasks until both are    *)
(* empty.  Only then does the event loop go on.  It completes what is      *)
(* pending: a receive, a send, a bind() that ran in a worker.  A receive   *)
(* or a send that is polled is also completed by an operation in the other *)
(* direction, and by close().                                              *)
(*                                                                         *)
(* The two flush loops are in one of these places (`recvLoop', `sendLoop'):*)
(*   armed    the once() listener is registered                            *)
(*   wait     awaiting the promise of receive() or send(), which is polled *)
(*   delayed  awaiting it; it could have been settled at once, but is left *)
(*            to a callback of the event loop to give that a turn          *)
(*   got      that promise is settled, the microtask has not run           *)
(*   step     _recv() or _send() has ended, its awaiter has not run        *)
(*   cb, cbErr   (sending) the callback, or the error listener, is running *)
(*   off      neither a listener nor a running handler is left             *)
(***************************************************************************)
EXTENDS Integers, Sequences, FiniteSets, SequencesExt

CONSTANTS
  Apps,       \* the applications, see AppType
  MaxMoves,   \* bound: method calls, and callbacks that make them
  MaxRecv     \* bound: messages that arrive

Methods == {"send", "sndmore", "pause", "resume", "close", "bind",
            "monitor", "unmonitor", "throw"}

(* An application: the methods it uses, its type of socket (push and pub   *)
(* only write, pull and sub only read), the receive and send timeouts it   *)
(* has set, whether it listens to "error" events, and its share of         *)
(* MaxMoves.                                                               *)
AppType == [uses : SUBSET Methods, kind : {"duplex", "writer", "reader"},
            timeo : {"none", "zero", "some"}, listener : BOOLEAN,
            moves : 0 .. MaxMoves]

ASSUME AppsAssumption == Apps \subseteq AppType
ASSUME BoundsAssumption == {MaxMoves, MaxRecv} \subseteq Nat

VARIABLES
  app,          \* the application that uses the socket
  \* the JavaScript engine
  phase,        \* what runs below `stack': "loop", "ticks" or "micro"
  stack,        \* application code that is running, innermost first
  ticks,        \* the queue of process.nextTick
  moves,        \* calls made so far
  \* the native socket, and its bind() or unbind() job
  state, requestClose,
  job,          \* "none", "running"; then its outcome, until then() runs
  avail,        \* messages that have arrived
  taken,        \* of these, received
  room,         \* send() need not wait
  \* the fields of the compat Socket
  paused, msg, recvQueue, sendQueue,
  recvLoop, received,          \* received: the result of receive()
  sendLoop, current, sent,     \* the message being sent, send()'s result
  \* the observer of monitor()
  observer,     \* "none", "open" or "closed"
  notices,      \* monitor events that can be read at once
  monitors,     \* the read loops of up to two calls
  \* history, read by properties only
  emitted,      \* the messages emitted so far
  wire,         \* the messages libzmq has accepted
  calls,        \* how often the callback of a message was called
  threw,        \* the messages whose callback has thrown
  rejected,     \* the send handler has been rejected
  binds         \* [started, called]: bind() calls, and callbacks of these

engine == <<phase, stack, ticks>>
native == <<state, requestClose, job, avail, taken, room>>
recvVars == <<recvLoop, received, recvQueue>>
sendVars == <<sendLoop, current, sent, sendQueue>>
monVars == <<observer, notices, monitors>>
sendHist == <<wire, calls, threw, rejected>>
vars == <<app, engine, moves, native, paused, msg, recvVars, sendVars,
          monVars, emitted, sendHist, binds>>

Ids == 1 .. MaxMoves
Messages == [parts : Seq(Ids), cb : BOOLEAN]
NoMessage == [parts |-> <<>>, cb |-> FALSE]
Id(m) == Last(m.parts)
MonitorLoops == {"mon1", "mon2"}

TypeOK ==
  /\ app \in Apps
  /\ phase \in {"loop", "ticks", "micro", "exited", "hung"}
  /\ stack \in Seq({"task", "tick", "send"} \cup MonitorLoops)
  /\ ticks \in Seq((1 .. MaxRecv) \cup {0, -1})
  /\ moves \in 0 .. app.moves
  /\ state \in {"Open", "Blocked", "Closed"}
  /\ requestClose \in BOOLEAN
  /\ job \in {"none", "running", "settled"}
  /\ avail \in 0 .. MaxRecv /\ taken \in 0 .. avail
  /\ room \in BOOLEAN
  /\ paused \in BOOLEAN
  /\ msg \in Seq(Ids)
  /\ recvLoop \in {"off", "armed", "wait", "delayed", "got", "step"}
  /\ received \in 0 .. MaxRecv
  /\ recvQueue \in Seq(1 .. MaxRecv)
  /\ sendLoop \in {"off", "armed", "wait", "delayed", "got", "step", "cb", "cbErr"}
  /\ current \in Messages
  /\ sent \in BOOLEAN
  /\ sendQueue \in Seq(Messages)
  /\ observer \in {"none", "open", "closed"}
  /\ notices \in 0 .. 1
  /\ monitors \in [MonitorLoops -> {"off", "wait", "got", "emit", "failed"}]
  /\ emitted \in Seq(1 .. MaxRecv)
  /\ wire \in Seq(Ids)
  /\ calls \in [Ids -> Nat]
  /\ threw \subseteq Ids
  /\ rejected \in BOOLEAN
  /\ binds \in [started : Nat, called : Nat]

(* The constructor has run, in some callback of the event loop: the listen-*)
(* ers are registered and a first receive() is pending.                    *)
Init ==
  /\ app \in Apps
  /\ phase = "loop" /\ stack = <<"task">> /\ ticks = <<>> /\ moves = 0
  /\ state = "Open" /\ requestClose = FALSE /\ job = "none"
  /\ avail = 0 /\ taken = 0 /\ room = FALSE
  /\ paused = FALSE /\ msg = <<>> /\ recvQueue = <<>> /\ sendQueue = <<>>
  /\ recvLoop = IF app.kind = "writer" THEN "off" ELSE "wait"
  /\ received = 0
  /\ sendLoop = "armed" /\ current = NoMessage /\ sent = FALSE
  /\ observer = "none" /\ notices = 0
  /\ monitors = [m \in MonitorLoops |-> "off"]
  /\ emitted = <<>> /\ wire = <<>> /\ threw = {} /\ rejected = FALSE
  /\ calls = [i \in Ids |-> 0]
  /\ binds = [started |-> 0, called |-> 0]

-----------------------------------------------------------------------------
(* The engine.  A microtask is pending where a loop is not waiting for the *)
(* event loop; which one runs first is left open.                          *)
Microtasks ==
  \/ recvLoop \in {"got", "step"}
  \/ sendLoop \in {"got", "step"}
  \/ job = "settled"
  \/ \E m \in MonitorLoops : monitors[m] \in {"got", "failed"}

(* What runs next once a step has ended.  Microtasks are drained before    *)
(* the next tick runs, ticks before microtasks.                            *)
Proceed ==
  phase' = IF stack' # <<>> THEN phase
           ELSE IF phase = "micro" /\ Microtasks' THEN "micro"
           ELSE IF ticks' # <<>> THEN "ticks"
           ELSE IF Microtasks' THEN "micro" ELSE "loop"

AtLoop == phase = "loop" /\ stack = <<>>
InTick == phase = "ticks" /\ stack = <<>>
InMicrotask == phase = "micro" /\ stack = <<>>
Running == stack # <<>> /\ phase \in {"loop", "ticks", "micro"}

(* process.nextTick(): 0 stands for an "error" event, -1 for the callback  *)
(* of bind().  Errors in a row are merged.                                 *)
Schedule(queue, t) == IF t = 0 /\ queue # <<>> /\ Last(queue) = 0
                      THEN queue ELSE Append(queue, t)

-----------------------------------------------------------------------------
(* The native socket.                                                      *)

(* Socket::Receive(res): the promise is settled, with the next message or, *)
(* if there is none or the socket is gone, an error.                       *)
NativeReceive ==
  LET ok == state # "Closed" /\ taken < avail
  IN  /\ recvLoop' = "got"
      /\ received' = IF ok THEN taken + 1 ELSE 0
      /\ taken' = IF ok THEN taken + 1 ELSE taken

(* Socket::Send(res, parts), likewise.                                     *)
NativeSend(m) ==
  LET ok == state # "Closed" /\ room
  IN  /\ sendLoop' = "got"
      /\ sent' = ok
      /\ wire' = IF ok THEN wire \o m.parts ELSE wire
      /\ room' = (room /\ ~ok)

(* A receive() or a send() that is settled at once looks after a polled    *)
(* operation in the other direction.                                       *)
AfterReceive ==
  IF recvLoop' = "got" /\ sendLoop = "wait" /\ room
  THEN NativeSend(current)
  ELSE UNCHANGED <<sendLoop, sent, wire, room>>

AfterSend ==
  IF sendLoop' = "got" /\ recvLoop = "wait" /\ taken < avail
  THEN NativeReceive
  ELSE UNCHANGED <<recvLoop, received, taken>>

\* Mutant of CloseNow: the messages that are there are lost.
CloseNowLoses ==
  /\ state' = "Closed"
  /\ recvLoop' = IF recvLoop = "wait" THEN "got" ELSE recvLoop
  /\ taken' = IF recvLoop = "wait" THEN avail ELSE taken
  /\ sendLoop' = IF sendLoop = "wait" THEN "got" ELSE sendLoop
  /\ UNCHANGED <<received, sent, wire, room>>

(* Socket::Close(): first the poller closes, which triggers what it polls: *)
(* an operation still succeeds if the message, or the room, is there.      *)
(* Delayed operations are left to their callback.                          *)
CloseNow ==
  /\ state' = "Closed"
  /\ IF recvLoop = "wait" THEN NativeReceive
     ELSE UNCHANGED <<recvLoop, received, taken>>
  /\ IF sendLoop = "wait" THEN NativeSend(current)
     ELSE UNCHANGED <<sendLoop, sent, wire, room>>

-----------------------------------------------------------------------------
(* Receiving.                                                              *)

\* Mutant of Recv: receive() does not wait for a message.
RecvUnchecked ==
  /\ recvLoop' = "got" /\ received' = taken + 1 /\ taken' = taken + 1
  /\ UNCHANGED <<ticks, recvQueue>>

(* One call of _recv(), on a socket that is not closed: hand on a queued   *)
(* message, then receive().  A blocked socket throws EBUSY, which the      *)
(* catch clause swallows.                                                  *)
Recv ==
  /\ ticks' = IF recvQueue = <<>> THEN ticks
              ELSE Schedule(ticks, Head(recvQueue))
  /\ recvQueue' = IF recvQueue = <<>> THEN <<>> ELSE Tail(recvQueue)
  /\ \/ /\ state = "Blocked"
        /\ recvLoop' = "step"
        /\ UNCHANGED <<received, taken>>
     \/ /\ state = "Open" /\ (taken < avail \/ app.timeo = "zero")
        /\ NativeReceive
     \/ /\ state = "Open" /\ app.timeo # "zero"
        /\ recvLoop' = IF taken < avail THEN "delayed" ELSE "wait"
        /\ UNCHANGED <<received, taken>>

\* Mutant of RecvHandler: the loop goes on after close().
RecvHandlerNoClose(isPaused) ==
  \/ ~isPaused /\ state # "Closed" /\ Recv
  \/ ~isPaused /\ state = "Closed" /\ recvLoop' = "step"
     /\ UNCHANGED <<received, recvQueue, taken, ticks>>
  \/ /\ isPaused
     /\ recvLoop' = "armed"
     /\ UNCHANGED <<received, recvQueue, taken, ticks>>

(* The _flushRecv handler up to its next await: loop, or register anew.    *)
RecvHandler(isPaused) ==
  \/ ~isPaused /\ state # "Closed" /\ Recv
  \/ /\ isPaused \/ state = "Closed"
     /\ recvLoop' = IF state = "Closed" THEN "off" ELSE "armed"
     /\ UNCHANGED <<received, recvQueue, taken, ticks>>

(* _recv() goes on: a message is emitted, or kept while paused; an error   *)
(* is emitted unless the socket is closed.                                 *)
RecvGot ==
  /\ InMicrotask /\ recvLoop = "got"
  /\ recvLoop' = "step"
  /\ received' = 0
  /\ recvQueue' = IF received > 0 /\ paused THEN Append(recvQueue, received)
                                            ELSE recvQueue
  /\ ticks' = IF received > 0
              THEN IF paused THEN ticks ELSE Schedule(ticks, received)
              ELSE IF state = "Closed" THEN ticks ELSE Schedule(ticks, 0)
  /\ UNCHANGED <<app, stack, moves, native, paused, msg, sendVars, monVars,
                 emitted, sendHist, binds>>
  /\ Proceed

(* The handler goes on after _recv().                                      *)
RecvStep ==
  /\ InMicrotask /\ recvLoop = "step"
  /\ RecvHandler(paused)
  /\ AfterReceive
  /\ UNCHANGED <<app, stack, moves, state, requestClose, job, avail, paused,
                 msg, current, sendQueue, monVars, emitted, calls, threw,
                 rejected, binds>>
  /\ Proceed

(* Callbacks of the event loop settle a pending receive(), even while the  *)
(* socket is blocked.                                                      *)
ReceiveSettles ==
  /\ AtLoop
  /\ NativeReceive
  /\ UNCHANGED <<app, stack, ticks, moves, state, requestClose, job, avail,
                 room, paused, msg, recvQueue, sendVars, monVars, emitted,
                 sendHist, binds>>
  /\ Proceed

(* ... one that is polled when there is a message or its time is up.       *)
RecvCompletes ==
  recvLoop = "wait" /\ (taken < avail \/ app.timeo = "some") /\ ReceiveSettles

RecvDelayed == recvLoop = "delayed" /\ ReceiveSettles

-----------------------------------------------------------------------------
(* Sending.                                                                *)

(* send() has failed, at once or later: the callback gets the error, or    *)
(* the "error" listener does; without one, emit() throws and nobody ever   *)
(* registers the handler again.                                            *)
SendFailed(m) ==
  IF m.cb \/ app.listener
  THEN /\ sendLoop' = "cbErr"
       /\ stack' = <<"send">> \o stack
       /\ calls' = IF m.cb THEN [calls EXCEPT ![Id(m)] = @ + 1] ELSE calls
       /\ UNCHANGED rejected
  ELSE /\ sendLoop' = "off"
       /\ rejected' = TRUE
       /\ UNCHANGED <<stack, calls>>

\* Mutant of SendMessage: the message stays in the queue.
SendMessagePeek(m, rest, queue) ==
  /\ current' = m /\ sendQueue' = queue
  /\ state = "Open" /\ room /\ NativeSend(m)
  /\ UNCHANGED <<stack, calls, rejected>>

(* One call of _send() on a socket that is not closed.                     *)
SendMessage(m, rest, queue) ==
  IF app.kind = "reader"
  THEN /\ sendLoop' = "off" /\ sendQueue' = queue /\ rejected' = TRUE
       /\ UNCHANGED <<current, sent, room, wire, stack, calls>>
  ELSE /\ current' = m /\ sendQueue' = rest
       /\ \/ /\ state = "Blocked"
             /\ SendFailed(m)
             /\ UNCHANGED <<sent, room, wire>>
          \/ /\ state = "Open" /\ (room \/ app.timeo = "zero")
             /\ NativeSend(m)
             /\ UNCHANGED <<stack, calls, rejected>>
          \/ /\ state = "Open" /\ app.timeo # "zero"
             /\ sendLoop' = IF room THEN "delayed" ELSE "wait"
             /\ sent' = FALSE
             /\ UNCHANGED <<room, wire, stack, calls, rejected>>

\* Mutant of SendHandler: after the loop the listener is not registered.
SendHandlerOnce(isPaused, queue) ==
  IF state # "Closed" /\ ~isPaused /\ queue # <<>>
  THEN SendMessage(Head(queue), Tail(queue), queue)
  ELSE /\ sendLoop' = "off" /\ sendQueue' = queue
       /\ UNCHANGED <<current, sent, room, wire, stack, calls, rejected>>

(* The _flushSend handler up to its next await: loop, or register anew.    *)
SendHandler(isPaused, queue) ==
  IF state # "Closed" /\ ~isPaused /\ queue # <<>>
  THEN SendMessage(Head(queue), Tail(queue), queue)
  ELSE /\ sendLoop' = IF state = "Closed" THEN "off" ELSE "armed"
       /\ sendQueue' = queue
       /\ UNCHANGED <<current, sent, room, wire, stack, calls, rejected>>

(* emit("_flushSend"): only a registered handler hears it.                 *)
FlushSend(isPaused, queue) ==
  IF sendLoop = "armed" THEN SendHandler(isPaused, queue) /\ AfterSend
  ELSE /\ sendQueue' = queue
       /\ UNCHANGED <<sendLoop, current, sent, room, wire, stack, calls,
                      rejected, recvLoop, received, taken>>

(* _send() goes on after its await: the callback runs, inside the try.     *)
SendGot ==
  /\ InMicrotask /\ sendLoop = "got"
  /\ \/ /\ sent /\ current.cb
        /\ sendLoop' = "cb"
        /\ stack' = <<"send">>
        /\ calls' = [calls EXCEPT ![Id(current)] = @ + 1]
        /\ UNCHANGED rejected
     \/ /\ sent /\ ~current.cb
        /\ sendLoop' = "step"
        /\ UNCHANGED <<stack, calls, rejected>>
     \/ ~sent /\ SendFailed(current)
  /\ UNCHANGED <<app, ticks, moves, native, paused, msg, recvVars, current,
                 sent, sendQueue, monVars, emitted, wire, threw, binds>>
  /\ Proceed

(* The handler goes on after _send().                                      *)
SendStep ==
  /\ InMicrotask /\ sendLoop = "step"
  /\ SendHandler(paused, sendQueue)
  /\ AfterSend
  /\ UNCHANGED <<app, ticks, moves, state, requestClose, job, avail, paused,
                 msg, recvQueue, monVars, emitted, threw, binds>>
  /\ Proceed

(* Callbacks of the event loop settle a pending send().                    *)
SendSettles ==
  /\ AtLoop
  /\ NativeSend(current)
  /\ UNCHANGED <<app, stack, ticks, moves, state, requestClose, job, avail,
                 taken, paused, msg, recvVars, current, sendQueue, monVars,
                 emitted, calls, threw, rejected, binds>>
  /\ Proceed

SendCompletes ==
  sendLoop = "wait" /\ (room \/ app.timeo = "some") /\ SendSettles

SendDelayed == sendLoop = "delayed" /\ SendSettles

-----------------------------------------------------------------------------
(* monitor(): `while (!events.closed)' around events.receive().            *)

(* A loop asks for the next event.  While another loop is reading,         *)
(* receive() throws EBUSY at once; the catch clause emits an "error" and   *)
(* the loop tries again, without an await in between.                      *)
MonitorRead(m) ==
  LET busy == \E o \in MonitorLoops \ {m} : monitors[o] = "wait"
  IN  IF observer' = "closed"
      THEN monitors' = [monitors EXCEPT ![m] = "off"] /\ UNCHANGED notices
      ELSE IF ~busy
      THEN /\ monitors' = [monitors EXCEPT ![m] =
                             IF notices = 1 THEN "got" ELSE "wait"]
           /\ notices' = 0
      ELSE monitors' = [monitors EXCEPT ![m] = "off"] /\ UNCHANGED notices

(* ... which never ends if the socket has an "error" listener, or if it is *)
(* closed: then no "error" is emitted.  Without a listener emit() throws,  *)
(* which ends the loop.                                                    *)
MonitorSpins(m) ==
  /\ \E o \in MonitorLoops \ {m} : monitors[o] = "wait"
  /\ observer' # "closed" /\ (app.listener \/ state = "Closed")

(* A read loop goes on: the event is emitted.  An observer that was closed *)
(* rejects, which is an "error" unless the socket is closed, too.          *)
MonitorGot(m) ==
  /\ InMicrotask /\ monitors[m] \in {"got", "failed"}
  /\ IF monitors[m] = "got" \/ (state # "Closed" /\ app.listener)
     THEN monitors' = [monitors EXCEPT ![m] = "emit"] /\ stack' = <<m>>
     ELSE monitors' = [monitors EXCEPT ![m] = "off"] /\ UNCHANGED stack
  /\ UNCHANGED <<app, ticks, moves, native, paused, msg, recvVars, sendVars,
                 observer, notices, emitted, sendHist, binds>>
  /\ Proceed

(* The event loop: one or two events, the first for the pending read; the  *)
(* "end" event of a closed socket closes the observer and ends the loop.   *)
Notice ==
  /\ AtLoop /\ observer = "open"
  /\ monitors' = [m \in MonitorLoops |->
                    IF monitors[m] # "wait" THEN monitors[m]
                    ELSE IF state = "Closed" THEN "off" ELSE "got"]
  /\ notices' \in IF state = "Closed" THEN {0} ELSE {0, 1}
  /\ observer' = IF state = "Closed" THEN "closed" ELSE "open"
  /\ UNCHANGED <<app, stack, ticks, moves, native, paused, msg, recvVars,
                 sendVars, emitted, sendHist, binds>>
  /\ Proceed

-----------------------------------------------------------------------------
(* Methods, called by application code; each call costs a move.            *)
Call(method) ==
  /\ Running /\ method \in app.uses /\ moves < app.moves
  /\ moves' = moves + 1
  /\ UNCHANGED <<app, avail, binds>>

(* send(): parts are collected until one is sent without ZMQ_SNDMORE.      *)
Send(cb) ==
  /\ Call("send")
  /\ msg' = <<>>
  /\ LET queue == Append(sendQueue,
                         [parts |-> Append(msg, moves + 1), cb |-> cb])
     IN  IF paused
         THEN /\ sendQueue' = queue
              /\ UNCHANGED <<sendLoop, current, sent, room, wire, stack,
                             calls, rejected, recvLoop, received, taken>>
         ELSE FlushSend(paused, queue)
  /\ UNCHANGED <<ticks, state, requestClose, job, paused, recvQueue, monVars,
                 emitted, threw>>
  /\ Proceed

SendMore ==
  /\ Call("sndmore")
  /\ msg' = Append(msg, moves + 1)
  /\ UNCHANGED <<engine, state, requestClose, job, taken, room, paused,
                 recvVars, sendVars, monVars, emitted, sendHist>>

Pause ==
  /\ Call("pause")
  /\ paused' = TRUE
  /\ UNCHANGED <<engine, state, requestClose, job, taken, room, msg, recvVars,
                 sendVars, monVars, emitted, sendHist>>

(* resume(): both handlers are woken, in this order.  A receive() that has *)
(* just found no message finds none after the send, either.                *)
Resume ==
  /\ Call("resume")
  /\ paused' = FALSE
  /\ IF recvLoop = "armed"
     THEN /\ RecvHandler(FALSE)
          /\ IF sendLoop = "armed" THEN SendHandler(FALSE, sendQueue)
             ELSE /\ AfterReceive
                  /\ UNCHANGED <<current, sendQueue, stack, calls, rejected>>
     ELSE FlushSend(FALSE, sendQueue) /\ UNCHANGED <<recvQueue, ticks>>
  /\ UNCHANGED <<state, requestClose, job, msg, monVars, emitted, threw>>
  /\ Proceed

Close ==
  /\ Call("close")
  /\ IF state = "Blocked"
     THEN /\ requestClose' = TRUE
          /\ UNCHANGED <<state, recvLoop, received, taken, sendLoop, sent,
                         wire, room>>
     ELSE CloseNow /\ requestClose' = FALSE
  /\ UNCHANGED <<engine, job, paused, msg, recvQueue, current, sendQueue,
                 monVars, emitted, calls, threw, rejected>>

(* bind() and unbind(); on a blocked or closed socket they throw.          *)
Bind ==
  /\ Running /\ "bind" \in app.uses /\ moves < app.moves
  /\ moves' = moves + 1
  /\ state = "Open" /\ job = "none"
  /\ state' = "Blocked" /\ job' = "running"
  /\ binds' = [binds EXCEPT !.started = @ + 1]
  /\ UNCHANGED <<app, engine, avail, requestClose, taken, room, paused, msg,
                 recvVars, sendVars, monVars, emitted, sendHist>>

(* The event loop: the job is done, the socket can be used or is closed.   *)
JobDone ==
  /\ AtLoop /\ job = "running"
  /\ job' = "settled"
  /\ IF requestClose THEN CloseNow
     ELSE /\ state' = "Open"
          /\ UNCHANGED <<recvLoop, received, taken, sendLoop, sent, wire, room>>
  /\ UNCHANGED <<app, stack, ticks, moves, requestClose, avail, paused, msg,
                 recvQueue, current, sendQueue, monVars, emitted, calls, threw,
                 rejected, binds>>
  /\ Proceed

\* Mutant of BindSettled: no callback once the socket is closed.
BindSettledOpen ==
  /\ InMicrotask /\ job = "settled"
  /\ job' = "none"
  /\ ticks' = IF state = "Closed" THEN ticks ELSE Schedule(ticks, -1)
  /\ UNCHANGED <<app, stack, moves, state, requestClose, avail, taken, room,
                 paused, msg, recvVars, sendVars, monVars, emitted, sendHist,
                 binds>>
  /\ Proceed

(* then() or catch() schedules the callback and the event.                 *)
BindSettled ==
  /\ InMicrotask /\ job = "settled"
  /\ job' = "none"
  /\ ticks' = Schedule(ticks, -1)
  /\ UNCHANGED <<app, stack, moves, state, requestClose, avail, taken, room,
                 paused, msg, recvVars, sendVars, monVars, emitted, sendHist,
                 binds>>
  /\ Proceed

(* monitor(); on a closed socket it throws.  It starts a read loop, also   *)
(* on an observer that unmonitor() has closed, where it ends at once.      *)
Monitor ==
  /\ Call("monitor") /\ state # "Closed"
  /\ observer' = IF observer = "none" THEN "open" ELSE observer
  /\ \E m \in MonitorLoops :
       /\ monitors[m] = "off"
       /\ IF MonitorSpins(m)
          THEN phase' = "hung" /\ UNCHANGED <<monitors, notices>>
          ELSE MonitorRead(m) /\ UNCHANGED phase
  /\ UNCHANGED <<stack, ticks, state, requestClose, job, taken, room, paused,
                 msg, recvVars, sendVars, emitted, sendHist>>

(* unmonitor(): the observer closes, its pending read is rejected.         *)
Unmonitor ==
  /\ Call("unmonitor") /\ state # "Closed"
  /\ observer' = "closed"
  /\ monitors' = [m \in MonitorLoops |->
                    IF monitors[m] = "wait" THEN "failed" ELSE monitors[m]]
  /\ UNCHANGED <<engine, notices, state, requestClose, job, taken, room,
                 paused, msg, recvVars, sendVars, emitted, sendHist>>

(* Application code returns; the code that called it goes on.              *)
Return ==
  /\ Running
  /\ stack' = Tail(stack)
  /\ sendLoop' = IF Head(stack) = "send" THEN "step" ELSE sendLoop
  /\ UNCHANGED observer
  /\ UNCHANGED <<app, ticks, moves, native, paused, msg, recvVars, current,
                 sent, sendQueue, emitted, sendHist, binds>>
  /\ IF Head(stack) \notin MonitorLoops
     THEN UNCHANGED <<monitors, notices>> /\ Proceed
     ELSE IF MonitorSpins(Head(stack))
     THEN phase' = "hung" /\ UNCHANGED <<monitors, notices>>
     ELSE MonitorRead(Head(stack)) /\ Proceed

(* The callback of a message that was sent throws: the catch clause calls  *)
(* it again, with what it has thrown.  If the callback or the listener     *)
(* throws on an error, the handler is rejected.                            *)
Throw ==
  /\ Running /\ "throw" \in app.uses /\ Head(stack) = "send"
  /\ threw' = IF current.cb THEN threw \cup {Id(current)} ELSE threw
  /\ IF sendLoop = "cb"
     THEN /\ sendLoop' = "cbErr"
          /\ calls' = [calls EXCEPT ![Id(current)] = @ + 1]
          /\ UNCHANGED <<stack, rejected>>
     ELSE /\ sendLoop' = "off"
          /\ rejected' = TRUE
          /\ stack' = Tail(stack)
          /\ UNCHANGED calls
  /\ UNCHANGED <<app, ticks, moves, native, paused, msg, recvVars, current,
                 sent, sendQueue, monVars, emitted, wire, binds>>
  /\ Proceed

-----------------------------------------------------------------------------
(* The next tick runs: listeners and callbacks are called.  An "error"     *)
(* nobody listens to is an uncaught exception: one from the receive loop,  *)
(* or that of a bind() that failed and was not given a callback.           *)
RunTick ==
  /\ InTick
  /\ ticks' = Tail(ticks)
  /\ \/ /\ Head(ticks) \in {0, -1} /\ ~app.listener
        /\ phase' = "exited" /\ UNCHANGED stack
     \/ /\ Head(ticks) # 0 \/ app.listener
        /\ phase' = "ticks" /\ stack' = <<"tick">>
  /\ emitted' = IF Head(ticks) > 0 THEN Append(emitted, Head(ticks))
                                   ELSE emitted
  /\ binds' = IF Head(ticks) = -1 THEN [binds EXCEPT !.called = @ + 1]
                                  ELSE binds
  /\ UNCHANGED <<app, moves, native, paused, msg, recvVars, sendVars, monVars,
                 sendHist>>

(* The event loop calls back into the application.                         *)
Task ==
  /\ AtLoop /\ moves < app.moves
  /\ moves' = moves + 1
  /\ stack' = <<"task">>
  /\ UNCHANGED <<app, phase, ticks, native, paused, msg, recvVars, sendVars,
                 monVars, emitted, sendHist, binds>>

(* The peers.                                                              *)
Arrive ==
  /\ avail < MaxRecv /\ app.kind # "writer" /\ state # "Closed"
  /\ avail' = avail + 1
  /\ UNCHANGED <<app, engine, moves, state, requestClose, job, taken, room,
                 paused, msg, recvVars, sendVars, monVars, emitted, sendHist,
                 binds>>

GiveRoom ==
  /\ ~room /\ app.kind # "reader" /\ state # "Closed"
  /\ room' = TRUE
  /\ UNCHANGED <<app, engine, moves, state, requestClose, job, avail, taken,
                 paused, msg, recvVars, sendVars, monVars, emitted, sendHist,
                 binds>>

Next ==
  \/ \E cb \in BOOLEAN : Send(cb)
  \/ SendMore \/ Pause \/ Resume \/ Close \/ Bind \/ Monitor \/ Unmonitor
  \/ Return \/ Throw
  \/ RecvGot \/ RecvStep \/ SendGot \/ SendStep \/ BindSettled \/ RunTick
  \/ \E m \in MonitorLoops : MonitorGot(m)
  \/ RecvCompletes \/ RecvDelayed \/ SendCompletes \/ SendDelayed
  \/ JobDone \/ Notice \/ Task
  \/ Arrive \/ GiveRoom

Spec == Init /\ [][Next]_vars

(* Ticks and microtasks run as long as there are any; application code     *)
(* returns; libuv gets round to every completed job, and every delayed     *)
(* operation, in each of its turns.                                        *)
Fairness ==
  /\ WF_vars(RecvGot) /\ WF_vars(RecvStep)
  /\ WF_vars(SendGot) /\ WF_vars(SendStep)
  /\ WF_vars(BindSettled) /\ WF_vars(RunTick)
  /\ \A m \in MonitorLoops : WF_vars(MonitorGot(m))
  /\ WF_vars(Return)
  /\ SF_vars(JobDone) /\ SF_vars(RecvDelayed) /\ SF_vars(SendDelayed)

FairSpec == Spec /\ Fairness

-----------------------------------------------------------------------------
(* Properties.                                                             *)

(* The messages in a queue of nextTick are those after `from' up to `to',  *)
(* in this order.                                                          *)
InOrder(queue, from, to) ==
  /\ \A n \in 1 .. MaxRecv :
       (\E i \in DOMAIN queue : queue[i] = n) <=> from < n /\ n <= to
  /\ \A i, j \in DOMAIN queue : i < j /\ queue[i] > 0 => queue[j] \notin 1 .. queue[i]

(* Every message that was received is emitted once and in order: those not *)
(* emitted yet are in the queue of nextTick, kept by pause(), or just      *)
(* received, in this order.  No interleaving of pause() and resume() with  *)
(* the receive loop loses or reorders one.                                 *)
Delivery ==
  LET passed == taken - Len(recvQueue) - (IF received > 0 THEN 1 ELSE 0) IN
  /\ \A i \in DOMAIN emitted : emitted[i] = i
  /\ Len(emitted) <= passed
  /\ InOrder(ticks, Len(emitted), passed)
  /\ \A i \in DOMAIN recvQueue : recvQueue[i] = passed + i
  /\ received > 0 => received = taken

Increasing(s) == \A i, j \in DOMAIN s : i < j => s[i] < s[j]
Before(s, t) == \A i \in DOMAIN s, j \in DOMAIN t : s[i] < t[j]
Pending == IF sendLoop \in {"wait", "delayed"} THEN current.parts ELSE <<>>
Batches ==
  <<wire, Pending>> \o [k \in DOMAIN sendQueue |-> sendQueue[k].parts] \o <<msg>>

(* Messages reach libzmq whole, once and in the order of the send() calls; *)
(* what waits is behind what was sent.  The callback of a message is       *)
(* called at most once, twice only if it has thrown, and never while the   *)
(* message still waits.                                                    *)
SendLaw ==
  /\ \A k, l \in DOMAIN Batches : IF k = l THEN Increasing(Batches[k])
                                  ELSE k < l => Before(Batches[k], Batches[l])
  /\ \A i \in Ids : calls[i] <= IF i \in threw THEN 2 ELSE 1
  /\ \A k \in DOMAIN sendQueue : calls[Id(sendQueue[k])] = 0

(* The turn of the event loop never comes again: the receive loop retries  *)
(* in microtasks on a socket that only the event loop can unblock, or      *)
(* without waiting because the timeout is zero; or two monitor loops fight *)
(* for one observer.                                                       *)
Spinning ==
  \/ state = "Blocked" /\ recvLoop = "step" /\ ~paused
  \/ app.timeo = "zero" /\ recvLoop \in {"got", "step"}
  \/ phase = "hung"

(* The loops of the compatibility layer do not starve the event loop,      *)
(* except in the three ways above.                                         *)
LoopTurns == []<>(AtLoop \/ phase = "exited" \/ Spinning)

(* The callback of every bind() that did not throw is called, unless the   *)
(* event loop is starved; close() does not prevent it.                     *)
BindsCalledBack ==
  binds.called < binds.started ~>
    binds.called = binds.started \/ Spinning \/ phase = "exited"

(* Nothing waits for a flush nobody makes: messages in a queue move on, to *)
(* the native socket or to the listeners, while the socket is neither      *)
(* paused nor closed.  A handler that was rejected never sends again.      *)
Flushed ==
  /\ sendQueue # <<>> ~>
       \/ sendQueue = <<>> \/ sendLoop = "wait"
       \/ paused \/ state = "Closed" \/ rejected
       \/ Spinning \/ phase = "exited"
  /\ recvQueue # <<>> ~>
       recvQueue = <<>> \/ paused \/ state = "Closed" \/ phase = "exited"

=============================================================================
