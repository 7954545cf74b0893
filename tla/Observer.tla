------------------------------ MODULE Observer ------------------------------
(***************************************************************************)
(* The Observer of a socket (observer.cc): a libzmq monitor socket with a  *)
(* poller, read through one promise slot, and the two loops index.ts       *)
(* builds on its receive(): the async iterator and the event emitter.      *)
(*                                                                         *)
(* All of it runs on the main thread.  A settled promise is noticed by its *)
(* consumer in a microtask: other JavaScript may run first, but no         *)
(* callback of the event loop does.                                        *)
(***************************************************************************)
EXTENDS Naturals, Sequences

CONSTANTS
  Uses,   \* what the application does, a subset of Usages
  Cap     \* bound: events that wait to be read

Usages == {"receive", "iterate", "on", "close", "closeSocket"}

ASSUME UsesAssumption == Uses \subseteq Usages
ASSUME CapAssumption == Cap \in Nat \ {0}

Loops == {"iterator", "emitter"}
Consumers == Loops \cup {"app"}

VARIABLES
  monitored,   \* the observed socket: "open", "closing" or "ended"
  queue,       \* what the monitor socket has to read: events, then "end"
  fd,          \* an edge on the monitor's ZMQ_FD nobody has consumed yet
  socket,      \* the observer's libzmq socket pointer is not null
  events,      \* the poller watches for readability
  polling,     \* the uv_poll handle is started
  deferred,    \* whose promise is in the slot, or "none"
  result,      \* how a consumer's promise was settled, until it notices
  loop         \* how far the loops have come

zmqVars == <<monitored, queue, fd>>
pollVars == <<socket, events, polling, deferred>>
vars == <<zmqVars, pollVars, result, loop>>

Results == {"none", "event", "end", "EAGAIN", "ENOTSOCK"}

TypeOK ==
  /\ monitored \in {"open", "closing", "ended"}
  /\ queue \in Seq({"event", "end"})
  /\ fd \in BOOLEAN
  /\ socket \in BOOLEAN
  /\ events \in BOOLEAN
  /\ polling \in BOOLEAN
  /\ deferred \in Consumers \cup {"none"}
  /\ result \in [Consumers -> Results]
  /\ loop \in [Loops -> {"off", "ready", "waiting", "returned", "threw"}]

Init ==
  /\ monitored = "open"
  /\ queue = <<>>
  /\ fd = FALSE
  /\ socket = TRUE
  /\ events = FALSE
  /\ polling = FALSE
  /\ deferred = "none"
  /\ result = [c \in Consumers |-> "none"]
  /\ loop = [l \in Loops |-> "off"]

-----------------------------------------------------------------------------
(* Settling the promise of a consumer; nobody's if the slot was empty.     *)
Settle(who, r) ==
  result' = [c \in DOMAIN result \cup {who} |->
               IF c = who THEN r ELSE result[c]]

\* Mutant of Trigger: the event is not forgotten.
TriggerRemember ==
  /\ deferred' = "none"
  /\ UNCHANGED <<events, polling>>

(* Poller::Trigger: forget the event, stop polling; the callback then      *)
(* takes the promise.                                                      *)
Trigger ==
  /\ events' = FALSE
  /\ polling' = FALSE
  /\ deferred' = "none"

\* Mutant of Read: the last event does not close the observer.
ReadOn(who) ==
  /\ Settle(who, Head(queue))
  /\ queue' = Tail(queue)
  /\ UNCHANGED socket

(* Receive(res): read one event, both frames of it.  The last event of a   *)
(* monitor also closes the observer, whose slot is empty by then.          *)
Read(who) ==
  /\ Settle(who, Head(queue))
  /\ queue' = IF Head(queue) = "end" THEN <<>> ELSE Tail(queue)
  /\ socket' = (Head(queue) # "end")

(* receive(): at once if HasEvents, otherwise wait without a timer.        *)
Wait(who) ==
  /\ events' = TRUE
  /\ polling' = TRUE
  /\ deferred' = who
  /\ UNCHANGED <<socket, queue, result>>

\* Mutant of ReceiveBy: without the Reading() check.
ReceiveBusy(who) ==
  /\ socket
  /\ fd' = FALSE
  /\ IF queue # <<>> THEN Read(who) /\ UNCHANGED <<events, polling, deferred>>
                     ELSE Wait(who)
  /\ UNCHANGED monitored

ReceiveBy(who) ==
  /\ socket
  /\ deferred = "none"
  /\ fd' = FALSE
  /\ IF queue # <<>> THEN Read(who) /\ UNCHANGED <<events, polling, deferred>>
                     ELSE Wait(who)
  /\ UNCHANGED monitored

-----------------------------------------------------------------------------
(* JavaScript.                                                             *)

\* Mutant of Replaced: the accessor is not installed.
NotReplaced == FALSE

(* In emitter mode receive is an accessor that throws.                     *)
Replaced == loop["emitter"] # "off"

(* The application's own receive().                                        *)
AppReceive ==
  /\ "receive" \in Uses
  /\ ~Replaced
  /\ result["app"] = "none"
  /\ ReceiveBy("app")
  /\ UNCHANGED loop

(* for await (const event of observer) begins.                             *)
Iterate ==
  /\ "iterate" \in Uses
  /\ loop["iterator"] = "off"
  /\ loop' = [loop EXCEPT !["iterator"] = "ready"]
  /\ UNCHANGED <<zmqVars, pollVars, result>>

(* One turn of a loop: it ends when the observer is closed, calls receive  *)
(* otherwise, and fails if that throws: EBUSY while another promise is     *)
(* pending, or the accessor of the emitter mode.                           *)
Turn(l) ==
  \/ /\ ~socket
     /\ loop' = [loop EXCEPT ![l] = "returned"]
     /\ UNCHANGED <<zmqVars, pollVars, result>>
  \/ /\ socket
     /\ deferred # "none" \/ (l = "iterator" /\ Replaced)
     /\ loop' = [loop EXCEPT ![l] = "threw"]
     /\ UNCHANGED <<zmqVars, pollVars, result>>
  \/ /\ ~(l = "iterator" /\ Replaced)
     /\ ReceiveBy(l)
     /\ loop' = [loop EXCEPT ![l] = "waiting"]

(* The first on() or off() starts the emitter's loop.                      *)
On ==
  /\ "on" \in Uses
  /\ loop["emitter"] = "off"
  /\ Turn("emitter")

(* The next turn: at once in the emitter, whose listeners return; whenever *)
(* the body of the loop is done in the iterator.                           *)
Again(l) == loop[l] = "ready" /\ Turn(l)

(* The continuation after `await receive()'.  The iterator takes EAGAIN on *)
(* a closed observer for the end; the emitter has no handler.              *)
Quiet(l) == l = "iterator" /\ ~socket /\ result[l] = "EAGAIN"

Continue(l) ==
  /\ result[l] # "none"
  /\ loop' = [loop EXCEPT ![l] =
                IF result[l] \in {"event", "end"} THEN "ready"
                ELSE IF Quiet(l) THEN "returned" ELSE "threw"]
  /\ result' = [result EXCEPT ![l] = "none"]
  /\ UNCHANGED <<zmqVars, pollVars>>

AppContinue ==
  /\ result["app"] # "none"
  /\ result' = [result EXCEPT !["app"] = "none"]
  /\ UNCHANGED <<zmqVars, pollVars, loop>>

\* Mutant of Close: the poller is not closed.
CloseSocketOnly ==
  /\ "close" \in Uses
  /\ socket
  /\ socket' = FALSE
  /\ queue' = <<>>
  /\ fd' = FALSE
  /\ UNCHANGED <<monitored, events, polling, deferred, result, loop>>

(* close(): first the socket, then the poller, which triggers the pending  *)
(* receive on the null pointer.                                            *)
Close ==
  /\ "close" \in Uses
  /\ socket
  /\ socket' = FALSE
  /\ queue' = <<>>
  /\ fd' = FALSE
  /\ IF events THEN Settle(deferred, "ENOTSOCK") ELSE UNCHANGED result
  /\ Trigger
  /\ UNCHANGED <<monitored, loop>>

(* The application closes the observed socket; libzmq will tell.           *)
CloseSocket ==
  /\ "closeSocket" \in Uses
  /\ monitored = "open"
  /\ monitored' = "closing"
  /\ UNCHANGED <<queue, fd, pollVars, result, loop>>

-----------------------------------------------------------------------------
\* Mutant of PollCallback: without the validation.
PollUnvalidated ==
  /\ \A c \in Consumers : result[c] = "none"
  /\ loop["emitter"] # "ready"
  /\ polling
  /\ fd
  /\ fd' = FALSE
  /\ IF queue # <<>> THEN Read(deferred)
                     ELSE Settle(deferred, "EAGAIN") /\ UNCHANGED <<queue, socket>>
  /\ Trigger
  /\ UNCHANGED <<monitored, loop>>

(* The event loop: TriggerReadable with its validation.  The observer is   *)
(* never watched for writability.                                          *)
PollCallback ==
  /\ \A c \in Consumers : result[c] = "none"
  /\ loop["emitter"] # "ready"
  /\ polling
  /\ fd
  /\ fd' = FALSE
  /\ IF queue # <<>>
     THEN Read(deferred) /\ Trigger
     ELSE UNCHANGED <<queue, socket, events, polling, deferred, result>>
  /\ UNCHANGED <<monitored, loop>>

-----------------------------------------------------------------------------
(* libzmq: something happens to the observed socket, and the last event.   *)
Publish(e) ==
  /\ queue' = IF socket THEN Append(queue, e) ELSE queue
  /\ fd' \in IF ~socket THEN {fd} ELSE IF queue = <<>> THEN {TRUE} ELSE {fd, TRUE}
  /\ UNCHANGED <<pollVars, result, loop>>

Happen ==
  /\ monitored # "ended"
  /\ socket
  /\ Len(queue) < Cap
  /\ Publish("event")
  /\ UNCHANGED monitored

(* "There is no guarantee that any events are available" (poller.h:160):   *)
(* libzmq's own commands make the descriptor readable too.                 *)
Signal ==
  /\ socket
  /\ fd' = TRUE
  /\ UNCHANGED <<monitored, queue, pollVars, result, loop>>

StopMonitor ==
  /\ monitored = "closing"
  /\ monitored' = "ended"
  /\ Publish("end")

-----------------------------------------------------------------------------
Next ==
  \/ AppReceive \/ AppContinue \/ Iterate \/ On \/ Close \/ CloseSocket
  \/ \E l \in Loops : Again(l) \/ Continue(l)
  \/ PollCallback
  \/ Happen \/ Signal \/ StopMonitor

(* Microtasks run, the emitter's turns with them; the poll callback is     *)
(* called while its edge stays; libzmq reaps a closed socket.  Neither the *)
(* application nor the body of its for-await loop owes anything.           *)
Fairness ==
  /\ WF_vars(AppContinue)
  /\ \A l \in Loops : WF_vars(Continue(l))
  /\ WF_vars(Again("emitter"))
  /\ WF_vars(PollCallback)
  /\ WF_vars(StopMonitor)

Spec == Init /\ [][Next]_vars
FairSpec == Spec /\ Fairness
-----------------------------------------------------------------------------
(* A promise is in the slot exactly while the poller watches and polls for *)
(* it, and a closed observer has none: close() leaves no one waiting.      *)
ObserverConsistent ==
  /\ (deferred # "none") = events
  /\ polling = events
  /\ events => socket
  /\ \A l \in Loops :
       loop[l] = "waiting" => (deferred = l) # (result[l] # "none")

(* The observer keeps the promises of PendingOps with one slot: a second   *)
(* receive() never displaces a pending one, each is settled once, and none *)
(* is pending after close() or after the last event.                       *)
Ops == INSTANCE PendingOps WITH
         Slots <- {"read"},
         pending <- IF deferred = "none" THEN {} ELSE {"read"},
         due <- {},
         closed <- ~socket

OpsImplemented == Ops!SafeSpec

(* receive() and listeners are mutually exclusive (native.ts:291): once    *)
(* the emitter has been started no other consumer begins to wait or reads. *)
EmitterExclusive ==
  [][loop["emitter"] # "off" =>
       \A c \in Consumers \ {"emitter"} :
         /\ deferred' = c => deferred = c
         /\ result[c] = "none" /\ result'[c] # "none" => deferred = c]_vars

(* A waiting loop only fails when the observer was closed by hand: no      *)
(* spurious edge and no event ends it.                                     *)
FailsOnlyIfClosed ==
  [][\A l \in Loops :
       loop[l] = "waiting" /\ loop'[l] = "threw" => ~socket]_vars

(* When the observed socket is closed the emitter's loop ends, and no      *)
(* iteration keeps waiting (index.ts:934, observer.cc:299-303).            *)
LoopsEnd ==
  /\ (loop["emitter"] # "off" /\ monitored # "open") ~>
       loop["emitter"] \in {"returned", "threw"}
  /\ (loop["iterator"] = "waiting" /\ monitored # "open") ~>
       loop["iterator"] # "waiting"

(* "When the socket is closed or when the observer is closed manually with *)
(* close(), the iterator will return." (index.ts:934-936)                  *)
IteratorReturns == loop["iterator"] # "threw"
=============================================================================
