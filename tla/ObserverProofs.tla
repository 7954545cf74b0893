--------------------------- MODULE ObserverProofs ---------------------------
(***************************************************************************)
(* Theorems about Observer, for every use of it and any number of events   *)
(* that wait to be read.                                                   *)
(***************************************************************************)
EXTENDS Observer, SequenceTheorems, TLAPS

(* What ObserverConsistent rests on: a loop that is not waiting has no     *)
(* promise, neither a pending nor a settled one, and a promise is only     *)
(* rejected once the observer is closed.                                   *)
NoStrayPromise ==
  /\ \A l \in Loops : loop[l] # "waiting" => deferred # l /\ result[l] = "none"
  /\ \A c \in Consumers : result[c] \in {"EAGAIN", "ENOTSOCK"} => ~socket

IInv == TypeOK /\ ObserverConsistent /\ NoStrayPromise

-----------------------------------------------------------------------------
(* The effect of the shared operators on the invariant.                    *)

LEMMA SettleOne ==
  ASSUME TypeOK, NEW who \in Consumers, NEW r \in Results, Settle(who, r)
  PROVE  /\ result' \in [Consumers -> Results]
         /\ result'[who] = r
         /\ \A c \in Consumers \ {who} : result'[c] = result[c]
<1>1. DOMAIN result \cup {who} = Consumers
  BY DEF TypeOK
<1>2. QED
  BY <1>1 DEF Settle, TypeOK

LEMMA ReadOne ==
  ASSUME TypeOK, NEW who \in Consumers, queue # <<>>, Read(who)
  PROVE  /\ queue' \in Seq({"event", "end"})
         /\ socket' \in BOOLEAN
         /\ result' \in [Consumers -> Results]
         /\ result'[who] \in {"event", "end"}
         /\ \A c \in Consumers \ {who} : result'[c] = result[c]
<1>1. queue \in Seq({"event", "end"})
  BY DEF TypeOK
<1>2. Head(queue) \in {"event", "end"} /\ Tail(queue) \in Seq({"event", "end"})
  BY <1>1, HeadTailProperties
<1>3. <<>> \in Seq({"event", "end"})
  BY EmptySeq
<1>4. Head(queue) \in Results
  BY <1>2 DEF Results
<1>5. QED
  BY <1>2, <1>3, <1>4, SettleOne DEF Read

(* A receive() that is accepted: an event at once, or a wait.              *)
LEMMA ReceiveOne ==
  ASSUME IInv, NEW who \in Consumers, ReceiveBy(who), result[who] = "none"
  PROVE  /\ queue' \in Seq({"event", "end"})
         /\ fd' \in BOOLEAN /\ monitored' = monitored
         /\ socket' \in BOOLEAN /\ events' \in BOOLEAN /\ polling' \in BOOLEAN
         /\ result' \in [Consumers -> Results]
         /\ (deferred' # "none") = events' /\ polling' = events'
         /\ events' => socket'
         /\ \/ deferred' = who /\ result' = result /\ socket' = socket
            \/ deferred' = "none" /\ result'[who] \in {"event", "end"}
         /\ \A c \in Consumers \ {who} : result'[c] = result[c]
         /\ \A c \in Consumers : result[c] \notin {"EAGAIN", "ENOTSOCK"}
<1>1. socket /\ deferred = "none" /\ ~events /\ ~polling
  BY DEF ReceiveBy, IInv, ObserverConsistent, TypeOK
<1>2. \A c \in Consumers : result[c] \notin {"EAGAIN", "ENOTSOCK"}
  BY <1>1 DEF IInv, NoStrayPromise
<1>3. who # "none"
  BY DEF Consumers, Loops
<1>4. CASE queue # <<>>
  <2>1. Read(who) /\ UNCHANGED <<events, polling, deferred>>
    BY <1>4 DEF ReceiveBy
  <2>2. QED
    BY <1>1, <1>2, <1>4, <2>1, ReadOne DEF ReceiveBy, IInv, TypeOK
<1>5. CASE queue = <<>>
  BY <1>1, <1>2, <1>3, <1>5 DEF ReceiveBy, Wait, IInv, TypeOK
<1>6. QED BY <1>4, <1>5
-----------------------------------------------------------------------------
(* The inductive invariant.                                                *)

LEMMA InvInit == Init => IInv
<1> SUFFICES ASSUME Init PROVE IInv OBVIOUS
<1>1. TypeOK
  BY EmptySeq DEF Init, TypeOK, Results
<1>2. ObserverConsistent /\ NoStrayPromise
  BY DEF Init, ObserverConsistent, NoStrayPromise, Loops, Consumers
<1>3. QED BY <1>1, <1>2 DEF IInv

(* One turn of a loop that is not waiting.                                 *)
LEMMA TurnKeeps ==
  ASSUME IInv, NEW l \in Loops, loop[l] # "waiting", Turn(l)
  PROVE  IInv'
<1> USE DEF Loops, Consumers
<1>1. result[l] = "none" /\ deferred # l
  BY DEF IInv, NoStrayPromise
<1>2. CASE UNCHANGED <<zmqVars, pollVars, result>>
             /\ \E x \in {"returned", "threw"} : loop' = [loop EXCEPT ![l] = x]
  BY <1>1, <1>2 DEF IInv, TypeOK, ObserverConsistent, NoStrayPromise, zmqVars,
                    pollVars
<1>3. CASE ReceiveBy(l) /\ loop' = [loop EXCEPT ![l] = "waiting"]
  <2>1. /\ queue' \in Seq({"event", "end"})
        /\ fd' \in BOOLEAN /\ monitored' = monitored
        /\ socket' \in BOOLEAN /\ events' \in BOOLEAN /\ polling' \in BOOLEAN
        /\ result' \in [Consumers -> Results]
    BY <1>1, <1>3, ReceiveOne
  <2>2. (deferred' # "none") = events' /\ polling' = events'
          /\ (events' => socket')
    BY <1>1, <1>3, ReceiveOne
  <2>3. /\ \/ deferred' = l /\ result' = result /\ socket' = socket
           \/ deferred' = "none" /\ result'[l] \in {"event", "end"}
        /\ \A c \in Consumers \ {l} : result'[c] = result[c]
        /\ \A c \in Consumers : result[c] \notin {"EAGAIN", "ENOTSOCK"}
    BY <1>1, <1>3, ReceiveOne
  <2>4. deferred = "none"
    BY <1>3 DEF ReceiveBy
  <2>5. TypeOK'
    BY <1>3, <2>1, <2>3 DEF IInv, TypeOK
  <2>6. ObserverConsistent'
    BY <1>1, <1>3, <2>2, <2>3, <2>4
       DEF IInv, TypeOK, ObserverConsistent
  <2>7. NoStrayPromise'
    BY <1>1, <1>3, <2>3, <2>4 DEF IInv, TypeOK, NoStrayPromise
  <2>8. QED BY <2>5, <2>6, <2>7 DEF IInv
<1>4. QED BY <1>2, <1>3 DEF Turn

LEMMA InvNext == IInv /\ [Next]_vars => IInv'
<1> SUFFICES ASSUME IInv, [Next]_vars PROVE IInv' OBVIOUS
<1> USE DEF Loops, Consumers
<1>1. CASE AppReceive
  <2>1. ReceiveBy("app") /\ result["app"] = "none" /\ loop' = loop
    BY <1>1 DEF AppReceive
  <2>2. /\ queue' \in Seq({"event", "end"})
        /\ fd' \in BOOLEAN /\ monitored' = monitored
        /\ socket' \in BOOLEAN /\ events' \in BOOLEAN /\ polling' \in BOOLEAN
        /\ result' \in [Consumers -> Results]
    BY <2>1, ReceiveOne
  <2>3. (deferred' # "none") = events' /\ polling' = events'
          /\ (events' => socket')
    BY <2>1, ReceiveOne
  <2>4. /\ \/ deferred' = "app" /\ result' = result /\ socket' = socket
           \/ deferred' = "none" /\ result'["app"] \in {"event", "end"}
        /\ \A c \in Consumers \ {"app"} : result'[c] = result[c]
        /\ \A c \in Consumers : result[c] \notin {"EAGAIN", "ENOTSOCK"}
    BY <2>1, ReceiveOne
  <2>5. deferred = "none"
    BY <2>1 DEF ReceiveBy
  <2>6. TypeOK'
    BY <2>1, <2>2, <2>4 DEF IInv, TypeOK
  <2>7. ObserverConsistent'
    BY <2>1, <2>3, <2>4, <2>5 DEF IInv, ObserverConsistent
  <2>8. NoStrayPromise'
    BY <2>1, <2>4, <2>5 DEF IInv, NoStrayPromise
  <2>9. QED BY <2>6, <2>7, <2>8 DEF IInv
<1>2. CASE AppContinue
  BY <1>2 DEF AppContinue, IInv, TypeOK, ObserverConsistent, NoStrayPromise,
       Results, zmqVars, pollVars
<1>3. CASE Iterate
  BY <1>3 DEF Iterate, IInv, TypeOK, ObserverConsistent, NoStrayPromise,
       zmqVars, pollVars
<1>4. CASE On
  BY <1>4, TurnKeeps DEF On
<1>5. ASSUME NEW l \in Loops, Again(l) PROVE IInv'
  BY <1>5, TurnKeeps DEF Again
<1>6. ASSUME NEW l \in Loops, Continue(l) PROVE IInv'
  <2>1. loop[l] = "waiting" /\ deferred # l
    BY <1>6 DEF Continue, IInv, NoStrayPromise, ObserverConsistent
  <2>2. PICK x \in {"ready", "returned", "threw"} : loop' = [loop EXCEPT ![l] = x]
    BY <1>6 DEF Continue
  <2>3. result' = [result EXCEPT ![l] = "none"] /\ UNCHANGED <<zmqVars, pollVars>>
    BY <1>6 DEF Continue
  <2>4. QED
    BY <2>1, <2>2, <2>3 DEF IInv, TypeOK, ObserverConsistent, NoStrayPromise,
       Results, zmqVars, pollVars
<1>7. CASE Close
  <2>1. /\ ~socket' /\ ~events' /\ ~polling' /\ deferred' = "none"
        /\ socket' = FALSE /\ queue' = <<>> /\ fd' = FALSE
        /\ events' = FALSE /\ polling' = FALSE
        /\ monitored' = monitored /\ loop' = loop
    BY <1>7 DEF Close, Trigger
  <2>2. <<>> \in Seq({"event", "end"})
    BY EmptySeq
  <2>3. CASE events
    <3>1. deferred \in Consumers /\ "ENOTSOCK" \in Results
      BY <2>3 DEF IInv, TypeOK, ObserverConsistent, Results
    <3>2. /\ result' \in [Consumers -> Results]
          /\ result'[deferred] = "ENOTSOCK"
          /\ \A c \in Consumers \ {deferred} : result'[c] = result[c]
      BY <1>7, <2>3, <3>1, SettleOne DEF Close, IInv
    <3>3. TypeOK'
      BY <2>1, <2>2, <3>2 DEF IInv, TypeOK
    <3>4. \A l \in Loops : loop[l] = "waiting" => result'[l] # "none"
      BY <3>2 DEF IInv, ObserverConsistent
    <3>5. \A l \in Loops : loop[l] # "waiting" => result'[l] = "none"
      BY <3>2 DEF IInv, NoStrayPromise
    <3>6. QED
      BY <2>1, <3>3, <3>4, <3>5 DEF IInv, ObserverConsistent, NoStrayPromise
  <2>4. CASE ~events
    <3>1. result' = result /\ deferred = "none"
      BY <1>7, <2>4 DEF Close, IInv, ObserverConsistent
    <3>2. QED
      BY <2>1, <2>2, <3>1 DEF IInv, TypeOK, ObserverConsistent, NoStrayPromise
  <2>5. QED BY <2>3, <2>4
<1>8. CASE PollCallback
  <2>1. /\ events /\ socket /\ deferred \in Consumers
        /\ \A c \in Consumers : result[c] = "none"
    BY <1>8 DEF PollCallback, IInv, TypeOK, ObserverConsistent
  <2>2. CASE queue # <<>>
    <3>1. Read(deferred) /\ fd' = FALSE /\ monitored' = monitored /\ loop' = loop
            /\ events' = FALSE /\ polling' = FALSE /\ deferred' = "none"
      BY <1>8, <2>2 DEF PollCallback, Trigger
    <3>2. /\ queue' \in Seq({"event", "end"})
          /\ socket' \in BOOLEAN
          /\ result' \in [Consumers -> Results]
          /\ result'[deferred] \in {"event", "end"}
          /\ \A c \in Consumers \ {deferred} : result'[c] = "none"
      BY <2>1, <2>2, <3>1, ReadOne DEF IInv
    <3>3. TypeOK'
      BY <3>1, <3>2 DEF IInv, TypeOK
    <3>4. \A l \in Loops : (loop[l] = "waiting") = (result'[l] # "none")
      BY <2>1, <3>2 DEF IInv, ObserverConsistent, NoStrayPromise
    <3>5. QED
      BY <3>1, <3>2, <3>3, <3>4 DEF IInv, ObserverConsistent, NoStrayPromise
  <2>3. CASE queue = <<>>
    BY <1>8, <2>3 DEF PollCallback, IInv, TypeOK, ObserverConsistent,
         NoStrayPromise
  <2>4. QED BY <2>2, <2>3
<1>9. ASSUME NEW e \in {"event", "end"}, Publish(e),
             monitored' \in {"open", "closing", "ended"}
      PROVE  IInv'
  <2>1. queue' \in Seq({"event", "end"})
    BY <1>9, AppendProperties DEF Publish, IInv, TypeOK
  <2>2. fd' \in BOOLEAN
    BY <1>9 DEF Publish, IInv, TypeOK
  <2>3. UNCHANGED <<pollVars, result, loop>>
    BY <1>9 DEF Publish
  <2>4. QED
    BY <1>9, <2>1, <2>2, <2>3
       DEF IInv, TypeOK, ObserverConsistent, NoStrayPromise, pollVars
<1>10. CASE Happen \/ StopMonitor
  BY <1>9, <1>10 DEF Happen, StopMonitor, IInv, TypeOK
<1>11. CASE CloseSocket \/ Signal \/ UNCHANGED vars
  <2>1. /\ monitored' \in {"open", "closing", "ended"} /\ fd' \in BOOLEAN
        /\ UNCHANGED <<queue, pollVars, result, loop>>
    BY <1>11 DEF CloseSocket, Signal, vars, zmqVars, IInv, TypeOK
  <2>2. QED
    BY <2>1 DEF pollVars, IInv, TypeOK, ObserverConsistent, NoStrayPromise
<1>12. QED
  BY <1>1, <1>2, <1>3, <1>4, <1>5, <1>6, <1>7, <1>8, <1>10, <1>11 DEF Next

LEMMA InvAlways == Spec => []IInv
<1>1. Init => IInv BY InvInit
<1>2. IInv /\ [Next]_vars => IInv' BY InvNext
<1>3. QED BY <1>1, <1>2, PTL DEF Spec

(* Every variable of the observer and its loops keeps its type; only       *)
(* consumers are ever settled.                                             *)
THEOREM ObserverTypeCorrect == Spec => []TypeOK
<1>1. IInv => TypeOK BY DEF IInv
<1>2. QED BY <1>1, InvAlways, PTL

(* Slot, poller and loops agree, however reads, events, close() and the    *)
(* last event of the monitor interleave; no loop waits for a promise that  *)
(* nobody will settle.                                                     *)
THEOREM ObserverSafety == Spec => []ObserverConsistent
<1>1. IInv => ObserverConsistent BY DEF IInv
<1>2. QED BY <1>1, InvAlways, PTL
-----------------------------------------------------------------------------
(* An observer implements the promises of PendingOps with one slot.        *)

LEMMA OpsInit == Init => Ops!Init
BY DEF Init, Ops!Init

(* An accepted receive() reads, and closes with the last event, or waits.  *)
LEMMA ReceiveRefines ==
  ASSUME IInv, NEW who \in Consumers, ReceiveBy(who)
  PROVE  [Ops!Next]_(Ops!vars)
<1>1. socket /\ deferred = "none" /\ who # "none"
  BY DEF ReceiveBy, Consumers, Loops
<1>2. CASE queue # <<>>
  <2>1. deferred' = "none" /\ socket' \in BOOLEAN
    BY <1>1, <1>2 DEF ReceiveBy, Read
  <2>2. CASE socket'
    BY <1>1, <2>1, <2>2 DEF Ops!vars, IInv, TypeOK
  <2>3. CASE ~socket'
    <3>1. Ops!Close
      BY <1>1, <2>1, <2>3 DEF Ops!Close
    <3>2. QED BY <3>1 DEF Ops!Next
  <2>4. QED BY <2>2, <2>3
<1>3. CASE queue = <<>>
  <2>1. deferred' = who /\ socket' = socket
    BY <1>3 DEF ReceiveBy, Wait
  <2>2. Ops!Begin("read")
    BY <1>1, <2>1 DEF Ops!Begin
  <2>3. QED BY <2>2 DEF Ops!Next
<1>4. QED BY <1>2, <1>3

LEMMA OpsNext == IInv /\ [Next]_vars => [Ops!Next]_(Ops!vars)
<1> SUFFICES ASSUME IInv, [Next]_vars PROVE [Ops!Next]_(Ops!vars)
  OBVIOUS
<1>1. ASSUME UNCHANGED <<deferred, socket>> PROVE [Ops!Next]_(Ops!vars)
  BY <1>1 DEF Ops!vars
<1>2. CASE AppReceive
  BY <1>2, ReceiveRefines DEF AppReceive, Consumers
<1>3. ASSUME NEW l \in Loops, Turn(l) PROVE [Ops!Next]_(Ops!vars)
  <2>1. CASE UNCHANGED <<zmqVars, pollVars, result>>
    BY <1>1, <2>1 DEF pollVars
  <2>2. CASE ReceiveBy(l)
    BY <2>2, ReceiveRefines DEF Consumers
  <2>3. QED BY <1>3, <2>1, <2>2 DEF Turn
<1>4. CASE Close
  <2>1. socket /\ ~socket' /\ deferred' = "none"
    BY <1>4 DEF Close, Trigger
  <2>2. Ops!Close
    BY <2>1 DEF Ops!Close
  <2>3. QED BY <2>2 DEF Ops!Next
<1>5. CASE PollCallback
  <2>1. CASE queue # <<>>
    <3>1. /\ deferred # "none" /\ deferred' = "none" /\ socket
          /\ socket' \in BOOLEAN
      BY <1>5, <2>1 DEF PollCallback, Read, Trigger, IInv, ObserverConsistent
    <3>2. CASE socket'
      <4>1. Ops!Settle({"read"})
        BY <3>1, <3>2 DEF Ops!Settle
      <4>2. QED BY <4>1 DEF Ops!Next
    <3>3. CASE ~socket'
      <4>1. Ops!Close
        BY <3>1, <3>3 DEF Ops!Close
      <4>2. QED BY <4>1 DEF Ops!Next
    <3>4. QED BY <3>2, <3>3
  <2>2. CASE queue = <<>>
    BY <1>1, <1>5, <2>2 DEF PollCallback
  <2>3. QED BY <2>1, <2>2
<1>6. CASE \/ AppContinue \/ Iterate \/ CloseSocket \/ Happen \/ Signal
           \/ StopMonitor \/ (\E l \in Loops : Continue(l)) \/ UNCHANGED vars
  BY <1>1, <1>6 DEF AppContinue, Iterate, CloseSocket, Happen, Signal,
       StopMonitor, Publish, Continue, vars, pollVars
<1>7. QED
  BY <1>2, <1>3, <1>4, <1>5, <1>6 DEF Next, On, Again, Loops

(* A second receive() never displaces a pending one, each is settled once, *)
(* and closing, by hand or with the last event, leaves none pending.       *)
THEOREM ObserverRefinement == Spec => OpsImplemented
<1>1. Init => Ops!Init BY OpsInit
<1>2. IInv /\ [Next]_vars => [Ops!Next]_(Ops!vars) BY OpsNext
<1>3. QED
  BY <1>1, <1>2, InvAlways, PTL DEF Spec, OpsImplemented, Ops!SafeSpec

-----------------------------------------------------------------------------
(* What a step may do.                                                     *)

(* What EmitterExclusive says of one consumer.                             *)
OwnPromiseOnly(c) ==
  /\ deferred' = c => deferred = c
  /\ result[c] = "none" /\ result'[c] # "none" => deferred = c

LEMMA ExclusiveNext ==
  ASSUME IInv, [Next]_vars, loop["emitter"] # "off",
         NEW c \in Consumers \ {"emitter"}
  PROVE  OwnPromiseOnly(c)
<1> USE DEF Consumers, Loops
<1>0. c # "none"
  OBVIOUS
<1>1. ASSUME UNCHANGED <<deferred, result>> PROVE OwnPromiseOnly(c)
  BY <1>1 DEF OwnPromiseOnly
<1>2. Replaced
  BY DEF Replaced
<1>3. ASSUME NEW l \in Loops, Again(l) PROVE OwnPromiseOnly(c)
  <2>1. CASE UNCHANGED <<zmqVars, pollVars, result>>
    BY <1>1, <2>1 DEF pollVars
  <2>2. CASE l = "emitter" /\ ReceiveBy(l)
    <3>1. result[l] = "none"
      BY <1>3, <2>2 DEF Again, IInv, NoStrayPromise
    <3>2. /\ deferred' = l \/ deferred' = "none"
          /\ \A k \in Consumers \ {l} : result'[k] = result[k]
      BY <2>2, <3>1, ReceiveOne
    <3>3. QED BY <1>0, <2>2, <3>2 DEF OwnPromiseOnly
  <2>3. QED BY <1>2, <1>3, <2>1, <2>2 DEF Again, Turn
<1>4. ASSUME NEW l \in Loops, Continue(l) PROVE OwnPromiseOnly(c)
  BY <1>4 DEF Continue, OwnPromiseOnly, pollVars, IInv, TypeOK
<1>5. CASE AppContinue
  BY <1>5 DEF AppContinue, OwnPromiseOnly, pollVars, IInv, TypeOK
<1>6. CASE Close
  <2>1. deferred' = "none"
    BY <1>6 DEF Close, Trigger
  <2>2. CASE events
    <3>1. deferred \in Consumers /\ Settle(deferred, "ENOTSOCK")
            /\ "ENOTSOCK" \in Results
      BY <1>6, <2>2 DEF Close, IInv, TypeOK, ObserverConsistent, Results
    <3>2. \A k \in Consumers \ {deferred} : result'[k] = result[k]
      BY <3>1, SettleOne DEF IInv
    <3>3. QED BY <1>0, <2>1, <3>2 DEF OwnPromiseOnly
  <2>3. CASE ~events
    BY <1>0, <1>6, <2>1, <2>3 DEF Close, OwnPromiseOnly
  <2>4. QED BY <2>2, <2>3
<1>7. CASE PollCallback
  <2>1. CASE queue # <<>>
    <3>1. deferred \in Consumers /\ Read(deferred) /\ deferred' = "none"
      BY <1>7, <2>1 DEF PollCallback, Trigger, IInv, TypeOK, ObserverConsistent
    <3>2. \A k \in Consumers \ {deferred} : result'[k] = result[k]
      BY <2>1, <3>1, ReadOne DEF IInv
    <3>3. QED BY <1>0, <3>1, <3>2 DEF OwnPromiseOnly
  <2>2. CASE queue = <<>>
    BY <1>1, <1>7, <2>2 DEF PollCallback
  <2>3. QED BY <2>1, <2>2
<1>8. CASE \/ Iterate \/ CloseSocket \/ Happen \/ Signal \/ StopMonitor
           \/ UNCHANGED vars
  BY <1>1, <1>8 DEF Iterate, CloseSocket, Happen, Signal, StopMonitor, Publish,
       vars, pollVars
<1>9. ~AppReceive /\ ~On
  BY <1>2 DEF AppReceive, On
<1>10. QED
  BY <1>3, <1>4, <1>5, <1>6, <1>7, <1>8, <1>9 DEF Next

(* Once the emitter runs, nobody else begins to wait or reads an event:    *)
(* listeners and receive() exclude each other (native.ts:291), whatever    *)
(* was pending when the emitter was started.                               *)
THEOREM EmitterExcludes == Spec => EmitterExclusive
<1>1. IInv /\ [Next]_vars =>
        [loop["emitter"] # "off" =>
           \A c \in Consumers \ {"emitter"} :
             /\ deferred' = c => deferred = c
             /\ result[c] = "none" /\ result'[c] # "none" => deferred = c]_vars
  BY ExclusiveNext DEF OwnPromiseOnly
<1>2. QED BY <1>1, InvAlways, PTL DEF Spec, EmitterExclusive

LEMMA FailsNext ==
  ASSUME IInv, [Next]_vars, NEW l \in Loops, loop[l] = "waiting",
         loop'[l] = "threw"
  PROVE  ~socket
<1> USE DEF Loops
<1>1. loop' # loop
  OBVIOUS
<1>2. ASSUME NEW k \in Loops, Turn(k), loop[k] # "waiting" PROVE FALSE
  BY <1>2 DEF Turn, IInv, TypeOK
<1>3. ~On /\ ~Iterate /\ ~(\E k \in Loops : Again(k))
  BY <1>2 DEF On, Iterate, Again, IInv, TypeOK
<1>4. PICK k \in Loops : Continue(k)
  BY <1>1, <1>3
     DEF Next, AppReceive, AppContinue, Close, CloseSocket, PollCallback, Happen,
         Signal, StopMonitor, Publish, vars
<1>5. Continue(l)
  BY <1>4 DEF Continue, IInv, TypeOK
<1>6. result[l] \in {"EAGAIN", "ENOTSOCK"}
  BY <1>5 DEF Continue, IInv, TypeOK, Consumers, Results
<1>7. QED BY <1>6 DEF IInv, NoStrayPromise, Consumers

(* A loop that waits is only ended by close(): no spurious edge of the     *)
(* descriptor, no event and no other consumer makes it fail.               *)
THEOREM FailsWhenClosed == Spec => FailsOnlyIfClosed
<1>1. IInv /\ [Next]_vars =>
        [\A l \in Loops :
           loop[l] = "waiting" /\ loop'[l] = "threw" => ~socket]_vars
  BY FailsNext
<1>2. QED BY <1>1, InvAlways, PTL DEF Spec, FailsOnlyIfClosed

-----------------------------------------------------------------------------
(* The safety half of LoopsEnd.                                            *)

EndQueued == \E i \in 1 .. Len(queue) : queue[i] = "end"

(* An event that waits for a pending receive() has an edge nobody consumed *)
(* yet, and what the ended monitor said last is in the queue until it is   *)
(* read, which closes the observer.                                        *)
LastEventKept ==
  /\ deferred # "none" /\ queue # <<>> => fd
  /\ monitored = "ended" /\ socket => EndQueued

(* A read either closes the observer or leaves the last event in place.    *)
LEMMA ReadKeepsEnd ==
  ASSUME TypeOK, NEW who, queue # <<>>, Read(who), EndQueued, socket'
  PROVE  EndQueued'
<1>1. Head(queue) # "end" /\ queue' = Tail(queue)
  BY DEF Read
<1>2. queue \in Seq({"event", "end"})
  BY DEF TypeOK
<1>3. PICK i \in 1 .. Len(queue) : queue[i] = "end"
  BY DEF EndQueued
<1>4. /\ Len(Tail(queue)) = Len(queue) - 1
      /\ \A j \in 1 .. Len(Tail(queue)) : Tail(queue)[j] = queue[j + 1]
      /\ Head(queue) = queue[1] /\ Len(queue) \in Nat
  BY <1>2, HeadTailProperties, LenProperties
<1>5. i - 1 \in 1 .. Len(Tail(queue)) /\ Tail(queue)[i - 1] = queue[i]
  BY <1>1, <1>3, <1>4
<1>6. QED BY <1>1, <1>3, <1>5 DEF EndQueued

LEMMA LastInit == Init => LastEventKept
BY DEF Init, LastEventKept

LEMMA LastNext == IInv /\ LastEventKept /\ [Next]_vars => LastEventKept'
<1> SUFFICES ASSUME IInv, LastEventKept, [Next]_vars PROVE LastEventKept'
  OBVIOUS
<1> USE DEF Consumers, Loops
<1>1. ASSUME UNCHANGED <<monitored, queue, fd, socket, deferred>>
      PROVE  LastEventKept'
  BY <1>1 DEF LastEventKept, EndQueued
<1>2. ASSUME NEW who \in Consumers, queue # <<>>, Read(who), socket,
             monitored' = monitored, deferred' = "none"
      PROVE  LastEventKept'
  BY <1>2, ReadKeepsEnd DEF LastEventKept, IInv
<1>3. ASSUME NEW who \in Consumers, ReceiveBy(who) PROVE LastEventKept'
  <2>1. CASE queue # <<>>
    <3>1. Read(who) /\ monitored' = monitored /\ deferred' = "none"
      BY <1>3, <2>1 DEF ReceiveBy
    <3>2. QED BY <1>2, <1>3, <2>1, <3>1 DEF ReceiveBy
  <2>2. CASE queue = <<>>
    BY <1>3, <2>2 DEF ReceiveBy, Wait, LastEventKept, EndQueued
  <2>3. QED BY <2>1, <2>2
<1>4. ASSUME NEW l \in Loops, Turn(l) PROVE LastEventKept'
  BY <1>1, <1>3, <1>4 DEF Turn, zmqVars, pollVars
<1>5. CASE AppReceive
  BY <1>3, <1>5 DEF AppReceive
<1>6. CASE Close
  <2>1. ~socket' /\ queue' = <<>>
    BY <1>6 DEF Close
  <2>2. QED BY <2>1 DEF LastEventKept
<1>7. CASE PollCallback
  <2>1. socket /\ deferred \in Consumers /\ monitored' = monitored
    BY <1>7 DEF PollCallback, IInv, TypeOK, ObserverConsistent
  <2>2. CASE queue # <<>>
    <3>1. Read(deferred) /\ deferred' = "none"
      BY <1>7, <2>2 DEF PollCallback, Trigger
    <3>2. QED BY <1>2, <2>1, <2>2, <3>1
  <2>3. CASE queue = <<>>
    BY <1>7, <2>3 DEF PollCallback, LastEventKept, EndQueued
  <2>4. QED BY <2>2, <2>3
<1>8. ASSUME NEW e \in {"event", "end"}, Publish(e),
             socket => monitored' # "ended" \/ e = "end"
      PROVE  LastEventKept'
  <2>1. deferred' = deferred /\ socket' = socket
    BY <1>8 DEF Publish, pollVars
  <2>2. CASE ~socket
    BY <2>1, <2>2 DEF LastEventKept, IInv, ObserverConsistent
  <2>3. CASE socket
    <3>1. queue' = Append(queue, e) /\ queue \in Seq({"event", "end"})
      BY <1>8, <2>3 DEF Publish, IInv, TypeOK
    <3>2. /\ Len(queue) + 1 \in 1 .. Len(Append(queue, e))
          /\ Append(queue, e)[Len(queue) + 1] = e
      BY <3>1, AppendProperties, LenProperties
    <3>3. e = "end" => EndQueued'
      BY <3>1, <3>2 DEF EndQueued
    <3>4. deferred # "none" => fd'
      BY <1>8, <2>3 DEF Publish, LastEventKept
    <3>5. QED BY <1>8, <2>1, <2>3, <3>3, <3>4 DEF LastEventKept
  <2>4. QED BY <2>2, <2>3
<1>9. CASE Happen \/ StopMonitor
  BY <1>8, <1>9 DEF Happen, StopMonitor
<1>10. CASE CloseSocket \/ Signal
  BY <1>10 DEF CloseSocket, Signal, LastEventKept, EndQueued, pollVars
<1>11. CASE \/ AppContinue \/ Iterate \/ (\E l \in Loops : Continue(l))
            \/ UNCHANGED vars
  BY <1>1, <1>11 DEF AppContinue, Iterate, Continue, zmqVars, pollVars, vars
<1>12. QED
  BY <1>4, <1>5, <1>6, <1>7, <1>9, <1>10, <1>11 DEF Next, On, Again

(* A loop that still waits is polled for; it has an edge for every event   *)
(* that waits, and once the monitor has ended the last event is among      *)
(* them: the poll callback that ends the wait is enabled.                  *)
WaiterCalled ==
  \A l \in Loops :
    loop[l] = "waiting" /\ result[l] = "none" =>
      /\ polling
      /\ queue # <<>> => fd
      /\ monitored = "ended" => EndQueued

(* What LoopsEnd needs of the state, for every use of the observer and any *)
(* number of events: neither reads, nor edges consumed without an event,   *)
(* nor events that arrive together lose the wakeup of a waiting loop       *)
(* (observer.cc:232-304, poller.h:158-167).                                *)
THEOREM LoopsAreCalled == Spec => []WaiterCalled
<1>1. IInv /\ LastEventKept => WaiterCalled
  BY DEF IInv, TypeOK, ObserverConsistent, LastEventKept, WaiterCalled, Loops
<1>2. QED
  BY <1>1, InvAlways, LastInit, LastNext, PTL DEF Spec
=============================================================================
