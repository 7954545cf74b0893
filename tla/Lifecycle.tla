----------------------------- MODULE Lifecycle -----------------------------
(***************************************************************************)
(* The lifetime of what the native module allocates, over the environments *)
(* (main thread and workers) of one process: Module and its Global state   *)
(* (module.h, module.cc), contexts (context.cc), the registration and      *)
(* closing of sockets and observers (socket.cc, observer.cc), the reapers  *)
(* and the trash (util/reaper.h, util/trash.h), and the JavaScript buffers *)
(* that zero-copy messages keep (outgoing_msg.cc, incoming_msg.cc).        *)
(*                                                                         *)
(* JavaScript may let go of an object at any time, and the collector may   *)
(* destroy it then: one step here, since an object that is let go and not  *)
(* collected is one that is not called.  An environment that ends runs     *)
(* `delete module`, one member after the other, while the other threads    *)
(* go on.  Messages of at most 128 bytes are copied and not modelled.      *)
(***************************************************************************)
EXTENDS Naturals, FiniteSets

CONSTANTS
  Envs,        \* environments that may load the module
  Main,        \* the one of the main thread
  Own,         \* contexts that new Context() may create
  MaxObjects,  \* bound: sockets and observers that may be created
  Msgs         \* zero-copy messages that may be sent

ASSUME EnvsAssumption == IsFiniteSet(Envs) /\ Main \in Envs
ASSUME ObjectsAssumption == MaxObjects \in Nat \ {0}

Gens == 1 .. Cardinality(Envs)   \* a generation and its SharedContext
Contexts == Own \cup Gens
FirstObject == Cardinality(Envs) + 1     \* numbered after the generations
Objects == FirstObject .. Cardinality(Envs) + MaxObjects

(* Pointers to different things differ.                                    *)
ASSUME OwnAssumption == Own \cap (Gens \cup Objects) = {}

VARIABLES
  stage,       \* how far an environment and its `delete module` have come
  global,      \* the generation of Global a module shares, 0 for none
  reaper,      \* Module::ObjectReaper: contexts and objects it would close
  terminator,  \* Global::ContextTerminator of each generation
  ctx,         \* the libzmq contexts
  obj,         \* sockets and observers
  pending,     \* the libuv callback that holds a raw pointer to a socket
  msg,         \* zero-copy messages and the buffers they keep
  ended,       \* history: environments that destroyed their Global
  dangling     \* history: what has taken sockets from jobs and callbacks

vars == <<stage, global, reaper, terminator, ctx, obj, pending, msg, ended,
          dangling>>

Stages == {"none", "up", "reaping", "terminating", "released", "gone"}
CtxStates ==
  [st : {"none", "open", "shutdown", "terminating", "terminated"},
   gen : Gens \cup {0}, env : Envs]
ObjStates ==
  [st : {"none", "open", "closed", "freed"}, env : Envs, ctx : Contexts,
   observes : SUBSET Objects, closing : BOOLEAN]
MsgStates ==
  [place : {"none", "queued", "buffer", "trash", "released",
            "lost from queue", "lost from buffer"},
   env : Envs, ctx : Contexts, stuck : BOOLEAN]

NoCtx == [st |-> "none", gen |-> 0, env |-> Main]
NoObj == [st |-> "none", env |-> Main, ctx |-> 1, observes |-> {},
          closing |-> FALSE]
NoMsg == [place |-> "none", env |-> Main, ctx |-> 1, stuck |-> FALSE]

Registered(e) ==
  {o \in Objects : obj[o].st = "open" /\ obj[o].env = e}
    \cup {c \in Own : ctx[c].st = "open" /\ ctx[c].env = e}

(***************************************************************************)
(* The types, and what a reaper holds: exactly the objects of its          *)
(* environment that are still to be closed (and the wrapper of the shared  *)
(* context), never a pointer to one that is closed or freed.               *)
(***************************************************************************)
TypeOK ==
  /\ stage \in [Envs -> Stages]
  /\ global \in [Envs -> Gens \cup {0}]
  /\ reaper \in [Envs -> SUBSET (Contexts \cup Objects)]
  /\ terminator \in [Gens -> SUBSET Contexts]
  /\ ctx \in [Contexts -> CtxStates]
  /\ obj \in [Objects -> ObjStates]
  /\ pending \in [Objects -> {"none", "job", "delayed"}]
  /\ msg \in [Msgs -> MsgStates]
  /\ ended \subseteq Envs
  /\ dangling \subseteq {"closed", "collected", "reaped"}
  /\ \A e \in Envs :
       reaper[e] \ Gens = IF stage[e] \in {"up", "reaping"}
                            THEN Registered(e) ELSE {}

-----------------------------------------------------------------------------
(* Closing.  The libzmq operations show their effect on the record.        *)

(* Socket::Close and Observer::Close once the pointer is not null: the     *)
(* references to the context and the observer are released.                *)
Closed(o, st) ==
  obj' = [obj EXCEPT ![o] = [NoObj EXCEPT !.st = st, !.env = obj[o].env,
                                          !.observes = obj[o].observes]]

(* Mutant of Unregister: only the reaper takes its pointers out.           *)
UnregisterLate(e, x) ==
  reaper' = IF stage[e] = "reaping" THEN [reaper EXCEPT ![e] = @ \ {x}]
            ELSE reaper

Unregister(e, x) == reaper' = [reaper EXCEPT ![e] = @ \ {x}]

(* Mutant of ContextClose: every context is shut down.                     *)
ContextCloseShared(e, c) ==
  /\ Unregister(e, c)
  /\ ctx' = [ctx EXCEPT ![c].st = "shutdown"]
  /\ terminator' = [terminator EXCEPT ![ctx[c].gen] = @ \cup {c}]

(* Mutant of ContextClose: nobody will terminate the context.              *)
ContextCloseForget(e, c) ==
  /\ Unregister(e, c)
  /\ UNCHANGED terminator
  /\ ctx' = IF c \in Gens THEN ctx ELSE [ctx EXCEPT ![c].st = "shutdown"]

(* Context::Close: the shared context stays as it is, another one is shut  *)
(* down and passed on to be terminated with the generation.                *)
ContextClose(e, c) ==
  /\ Unregister(e, c)
  /\ \/ c \in Gens /\ UNCHANGED <<ctx, terminator>>
     \/ /\ c \in Own
        /\ ctx' = [ctx EXCEPT ![c].st = "shutdown"]
        /\ terminator' = [terminator EXCEPT ![global[e]] = @ \cup {c}]

(* The context_ref of an open socket keeps its context from the collector; *)
(* an observer keeps none.                                                 *)
ContextHeld(c) ==
  \E o \in Objects :
    obj[o].st = "open" /\ obj[o].ctx = c /\ obj[o].observes = {}

(* The observer_ref of an open socket keeps its observer.                  *)
ObjectHeld(o) == \E s \in obj[o].observes : obj[s].st = "open"

(* Mutant of TrashAlive: the trash is deleted before the global state.     *)
TrashAliveFirst(e) == stage[e] \in {"up", "reaping"}

(* The trash is the last member of a module to be destroyed.               *)
TrashAlive(e) == stage[e] \in {"up", "reaping", "terminating", "released"}

(* The recycle callback of libzmq, on whatever thread drops the message.   *)
Recycled(m, from) ==
  msg' = [msg EXCEPT ![m] = [NoMsg EXCEPT !.env = msg[m].env, !.place =
            IF TrashAlive(msg[m].env) THEN "trash" ELSE from]]

-----------------------------------------------------------------------------
(* An environment that is up.                                              *)

AliveGens == {global[f] : f \in {f \in Envs :
                stage[f] \in {"up", "reaping"}}}

(* Node.js stops the workers before it tears the main thread down.         *)
MainRuns == stage[Main] \in {"none", "up"}

(* Mutant of Instance: the lock on the weak pointer is not tried.          *)
InstanceNew(e) ==
  Cardinality({f \in Envs : stage[f] # "none"}) + 1

(* Global::Instance: the Global that is still shared, or a new one.        *)
Instance(e) ==
  IF AliveGens # {} THEN CHOOSE g \in AliveGens : TRUE
                    ELSE CHOOSE g \in Gens : ctx[g].st = "none"

(* Module::Module and Context::Initialize: the wrapper of the shared       *)
(* context is the module's first object.                                   *)
Load(e) ==
  LET g == Instance(e) IN
  /\ stage[e] = "none" /\ MainRuns
  /\ stage' = [stage EXCEPT ![e] = "up"]
  /\ global' = [global EXCEPT ![e] = g]
  /\ reaper' = [reaper EXCEPT ![e] = {g}]
  /\ \/ ctx[g].st # "none" /\ UNCHANGED <<ctx, terminator>>
     \/ /\ ctx[g].st = "none"
        /\ terminator' = [terminator EXCEPT ![g] = {g}]
        /\ ctx' = [ctx EXCEPT ![g] = [st |-> "open", gen |-> g, env |-> e]]
  /\ UNCHANGED <<obj, pending, msg, ended, dangling>>

(* new Context().                                                          *)
CreateContext(e, c) ==
  /\ stage[e] = "up" /\ ctx[c].st = "none"
  /\ ctx' = [ctx EXCEPT ![c] =
               [st |-> "open", gen |-> global[e], env |-> e]]
  /\ reaper' = [reaper EXCEPT ![e] = @ \cup {c}]
  /\ UNCHANGED <<stage, global, terminator, obj, pending, msg, ended,
                 dangling>>

Create(e, o, c, observes) ==
  /\ stage[e] = "up" /\ obj[o].st = "none"
  /\ \A p \in Objects : p < o => obj[p].st # "none"
  /\ obj' = [obj EXCEPT ![o] = [NoObj EXCEPT !.st = "open", !.env = e,
                                !.ctx = c, !.observes = observes]]
  /\ reaper' = [reaper EXCEPT ![e] = @ \cup {o}]
  /\ UNCHANGED <<stage, global, terminator, ctx, pending, msg, ended,
                 dangling>>

(* The constructor of Socket, in the default context or one given.         *)
CreateSocket(e, o, c) ==
  /\ c = global[e] \/ (c \in Own /\ ctx[c].st = "open" /\ ctx[c].env = e)
  /\ Create(e, o, c, {})

(* Socket::GetEvents, which keeps the observer it has made, and Observer's *)
(* constructor, which fails once the socket is closed.                     *)
CreateObserver(e, o, s) ==
  /\ obj[s].st = "open" /\ obj[s].env = e
  /\ obj[s].observes = {}
  /\ \A p \in Objects : obj[p].observes # {s}
  /\ Create(e, o, obj[s].ctx, {s})

(* bind() or unbind() queue a job; an operation over its budget schedules  *)
(* a callback.  Both capture `this`.                                       *)
Call(o, kind) ==
  /\ obj[o].st = "open" /\ stage[obj[o].env] = "up"
  /\ obj[o].observes = {} /\ pending[o] = "none"
  /\ pending' = [pending EXCEPT ![o] = kind]
  /\ UNCHANGED <<stage, global, reaper, terminator, ctx, obj, msg, ended,
                 dangling>>

(* The callback runs on the loop; the one of a job closes the socket if    *)
(* that was asked for.                                                     *)
Callback(o) ==
  /\ pending[o] # "none" /\ stage[obj[o].env] = "up"
  /\ pending' = [pending EXCEPT ![o] = "none"]
  /\ dangling' = IF obj[o].st = "freed" THEN dangling \cup {"collected"}
                   ELSE dangling
  /\ \/ /\ obj[o].closing
        /\ Closed(o, "closed") /\ Unregister(obj[o].env, o)
     \/ ~obj[o].closing /\ UNCHANGED <<obj, reaper>>
  /\ UNCHANGED <<stage, global, terminator, ctx, msg, ended>>

(* A socket whose worker is inside libzmq loses its libzmq socket.         *)
TakenFromWorker(o, by) ==
  dangling' = IF pending[o] = "job" THEN dangling \cup {by} ELSE dangling

(* Mutant of CloseObject: close() does not wait for the job.               *)
CloseObjectAtOnce(o) ==
  /\ obj[o].st = "open" /\ stage[obj[o].env] = "up"
  /\ Closed(o, "closed") /\ Unregister(obj[o].env, o)
  /\ TakenFromWorker(o, "closed")
  /\ UNCHANGED <<stage, global, terminator, ctx, pending, msg, ended>>

(* close(): at once, or when the job is done.                              *)
CloseObject(o) ==
  /\ obj[o].st = "open" /\ stage[obj[o].env] = "up"
  /\ \/ /\ pending[o] = "job" /\ ~obj[o].closing
        /\ obj' = [obj EXCEPT ![o].closing = TRUE]
        /\ UNCHANGED reaper
     \/ /\ pending[o] # "job"
        /\ Closed(o, "closed") /\ Unregister(obj[o].env, o)
  /\ UNCHANGED <<stage, global, terminator, ctx, pending, msg, ended,
                 dangling>>

(* The collector runs ~Socket or ~Observer, which close what is open.      *)
(* That it is freed too matters if a callback has its address.             *)
CollectObject(o) ==
  /\ stage[obj[o].env] = "up" /\ ~ObjectHeld(o)
  /\ \/ obj[o].st = "open"
     \/ obj[o].st = "closed" /\ pending[o] # "none"
  /\ Closed(o, IF pending[o] = "none" THEN "closed" ELSE "freed")
  /\ Unregister(obj[o].env, o)
  /\ TakenFromWorker(o, "collected")
  /\ UNCHANGED <<stage, global, terminator, ctx, pending, msg, ended>>

(* The collector runs ~Context.                                            *)
CollectContext(c) ==
  /\ ctx[c].st = "open" /\ ~ContextHeld(c) /\ stage[ctx[c].env] = "up"
  /\ ContextClose(ctx[c].env, c)
  /\ UNCHANGED <<stage, global, obj, pending, msg, ended, dangling>>

-----------------------------------------------------------------------------
(* Zero-copy messages.                                                     *)

Usable(o) ==
  /\ obj[o].st = "open" /\ obj[o].observes = {} /\ pending[o] # "job"
  /\ stage[obj[o].env] = "up" /\ ctx[obj[o].ctx].st = "open"

(* send(): the Reference goes into libzmq's queues with the message; it is *)
(* stuck there if no peer will take it and its linger period is infinite.  *)
Send(o, m) ==
  /\ Usable(o) /\ msg[m].place = "none"
  /\ \E stuck \in BOOLEAN :
       msg' = [msg EXCEPT ![m] = [place |-> "queued", env |-> obj[o].env,
                                  ctx |-> obj[o].ctx, stuck |-> stuck]]
  /\ UNCHANGED <<stage, global, reaper, terminator, ctx, obj, pending,
                 ended, dangling>>

(* receive() at the other end of an inproc connection: IntoBuffer makes    *)
(* the libzmq message the storage of a JavaScript buffer.                  *)
Receive(o, m) ==
  /\ Usable(o) /\ msg[m].place = "queued"
  /\ obj[o].ctx = msg[m].ctx
  /\ msg' = [msg EXCEPT ![m] = [NoMsg EXCEPT !.env = msg[m].env,
                                             !.place = "buffer"]]
  /\ UNCHANGED <<stage, global, reaper, terminator, ctx, obj, pending,
                 ended, dangling>>

(* An I/O thread has sent the message, or its linger period is over.       *)
IoDone(m) ==
  /\ msg[m].place = "queued" /\ ~msg[m].stuck
  /\ Recycled(m, "lost from queue")
  /\ UNCHANGED <<stage, global, reaper, terminator, ctx, obj, pending,
                 ended, dangling>>

(* The finalizer of a received buffer, run by the collector or, at any     *)
(* point of its holder's end, by Node.js.                                  *)
Finalize(m) ==
  /\ msg[m].place = "buffer"
  /\ Recycled(m, "lost from buffer")
  /\ UNCHANGED <<stage, global, reaper, terminator, ctx, obj, pending,
                 ended, dangling>>

(* Trash::Clear on the loop.                                               *)
ClearTrash(e) ==
  LET mine == {m \in Msgs : /\ msg[m].place = "trash"
                            /\ msg[m].env = e} IN
  /\ stage[e] = "up" /\ mine # {}
  /\ msg' = [m \in Msgs |-> IF m \in mine
               THEN [NoMsg EXCEPT !.place = "released"] ELSE msg[m]]
  /\ UNCHANGED <<stage, global, reaper, terminator, ctx, obj, pending,
                 ended, dangling>>

-----------------------------------------------------------------------------
(* delete module, in the reverse order of its members.                     *)

TearDown(e) ==
  /\ stage[e] = "up"
  /\ e = Main => \A f \in Envs \ {Main} : stage[f] \in {"none", "gone"}
  /\ stage' = [stage EXCEPT ![e] = "reaping"]
  /\ UNCHANGED <<global, reaper, terminator, ctx, obj, pending, msg,
                 ended, dangling>>

(* Mutant of ReapObject: the reaper forgets a blocked socket.              *)
ReapObjectIdle(e, o) ==
  /\ stage[e] = "reaping" /\ o \in reaper[e]
  /\ Unregister(e, o)
  /\ obj' = IF pending[o] = "job"
              THEN [obj EXCEPT ![o].closing = TRUE]
              ELSE [obj EXCEPT ![o].st = "closed"]
  /\ UNCHANGED <<stage, global, terminator, ctx, pending, msg, ended,
                 dangling>>

(* ~Reaper closes what is registered in the order of the addresses,        *)
(* blocked sockets too.                                                    *)
ReapObject(e, o) ==
  /\ stage[e] = "reaping" /\ o \in reaper[e]
  /\ Closed(o, "closed") /\ Unregister(e, o)
  /\ TakenFromWorker(o, "reaped")
  /\ UNCHANGED <<stage, global, terminator, ctx, pending, msg, ended>>

ReapContext(e, c) ==
  /\ stage[e] = "reaping" /\ c \in reaper[e]
  /\ ContextClose(e, c)
  /\ UNCHANGED <<stage, global, obj, pending, msg, ended, dangling>>

(* The module drops its share of the Global; the last share destroys it.   *)
ReleaseGlobal(e) ==
  LET last == \A f \in Envs \ {e} :
                global[f] = global[e] => stage[f] \notin {"up", "reaping"}
  IN
  /\ stage[e] = "reaping" /\ reaper[e] = {}
  /\ stage' = [stage EXCEPT ![e] = IF last THEN "terminating"
                                   ELSE "released"]
  /\ ended' = IF last THEN ended \cup {e} ELSE ended
  /\ UNCHANGED <<global, reaper, terminator, ctx, obj, pending, msg,
                 dangling>>

Terminating(g) == {c \in terminator[g] : ctx[c].st = "terminating"}

(* Terminator: zmq_ctx_term, one context after the other ...               *)
Terminate(e, c) ==
  /\ stage[e] = "terminating" /\ c \in terminator[global[e]]
  /\ Terminating(global[e]) = {}
  /\ ctx' = [ctx EXCEPT ![c].st = "terminating"]
  /\ UNCHANGED <<stage, global, reaper, terminator, obj, pending, msg,
                 ended, dangling>>

(* ... each of which waits until its sockets are closed and its messages   *)
(* sent or given up.                                                       *)
Terminated(e, c) ==
  /\ stage[e] = "terminating" /\ c \in Terminating(global[e])
  /\ \A o \in Objects : obj[o].ctx = c => obj[o].st # "open"
  /\ \A m \in Msgs : msg[m].place = "queued" => msg[m].ctx # c
  /\ ctx' = [ctx EXCEPT ![c].st = "terminated"]
  /\ terminator' = [terminator EXCEPT ![global[e]] = @ \ {c}]
  /\ UNCHANGED <<stage, global, reaper, obj, pending, msg, ended,
                 dangling>>

(* The trash is destroyed with what is left in it.                         *)
Leave(e) ==
  /\ \/ stage[e] = "released"
     \/ stage[e] = "terminating" /\ terminator[global[e]] = {}
  /\ stage' = [stage EXCEPT ![e] = "gone"]
  /\ msg' = [m \in Msgs |->
       IF msg[m].place = "trash" /\ msg[m].env = e
         THEN [NoMsg EXCEPT !.place = "released"] ELSE msg[m]]
  /\ UNCHANGED <<global, reaper, terminator, ctx, obj, pending, ended,
                 dangling>>

-----------------------------------------------------------------------------
Init ==
  /\ stage = [e \in Envs |-> "none"]
  /\ global = [e \in Envs |-> 0]
  /\ reaper = [e \in Envs |-> {}]
  /\ terminator = [g \in Gens |-> {}]
  /\ ctx = [c \in Contexts |-> NoCtx]
  /\ obj = [o \in Objects |-> NoObj]
  /\ pending = [o \in Objects |-> "none"]
  /\ msg = [m \in Msgs |-> NoMsg]
  /\ ended = {}
  /\ dangling = {}

Unload(e) ==
  \/ \E o \in Objects : ReapObject(e, o)
  \/ \E c \in Contexts : \/ ReapContext(e, c)
                         \/ Terminate(e, c)
                         \/ Terminated(e, c)
  \/ ReleaseGlobal(e)
  \/ Leave(e)

Next ==
  \/ \E e \in Envs :
       \/ Load(e)
       \/ \E c \in Own : CreateContext(e, c)
       \/ \E o \in Objects : \/ \E c \in Contexts : CreateSocket(e, o, c)
                             \/ \E s \in Objects : CreateObserver(e, o, s)
       \/ ClearTrash(e)
       \/ TearDown(e)
       \/ Unload(e)
  \/ \E c \in Own : CollectContext(c)
  \/ \E o \in Objects :
       \/ \E kind \in {"job", "delayed"} : Call(o, kind)
       \/ Callback(o)
       \/ CloseObject(o)
       \/ CollectObject(o)
       \/ \E m \in Msgs : Send(o, m) \/ Receive(o, m)
  \/ \E m \in Msgs : IoDone(m) \/ Finalize(m)

Spec == Init /\ [][Next]_vars

(* Node.js runs a cleanup hook to its end; libzmq's threads go on.         *)
Fairness ==
  /\ \A e \in Envs : WF_vars(Unload(e))
  /\ \A m \in Msgs : WF_vars(IoDone(m))

FairSpec == Spec /\ Fairness

-----------------------------------------------------------------------------
(***************************************************************************)
(* Raw pointers.  A message's Reference reaches a module that is gone only *)
(* if the module left while others shared its Global, or through a         *)
(* received buffer: the last module to leave outlives every message in     *)
(* libzmq's queues (the destruction order module.h asks for).  And a job   *)
(* or delayed callback meets a socket that is gone only if the collector   *)
(* or the reaper took it: close() by itself never does that.               *)
(***************************************************************************)
Dangling ==
  /\ \A m \in Msgs : msg[m].place = "lost from queue" =>
                       msg[m].env \notin ended
  /\ "closed" \notin dangling

(***************************************************************************)
(* Contexts.  Environments that are up together share their default        *)
(* context.  An open socket of a running environment has a context that    *)
(* has not been shut down, whatever other threads and the collector do;    *)
(* an observer has, unless its socket is closed and their own context      *)
(* collected (it holds no reference to it).  When the last module of a     *)
(* generation is gone, so is every context of the generation.              *)
(***************************************************************************)
ContextLaw ==
  /\ \A e, f \in Envs :
       stage[e] = "up" /\ stage[f] = "up" => global[e] = global[f]
  /\ \A o \in Objects :
       obj[o].st = "open" /\ stage[obj[o].env] = "up" =>
         \/ ctx[obj[o].ctx].st = "open"
         \/ obj[o].ctx \in Own /\ \E s \in obj[o].observes :
                                    obj[s].st # "open"
  /\ \A e \in ended : stage[e] = "gone" =>
       \A c \in Contexts :
         ctx[c].gen = global[e] => ctx[c].st = "terminated"

(***************************************************************************)
(* The end of an environment comes to its end, whatever is open or blocked *)
(* and whatever the other threads do: only the last of a generation may    *)
(* wait forever, and only for messages that nobody takes and libzmq keeps. *)
(***************************************************************************)
Undeliverable(e) ==
  e \in ended /\ \E m \in Msgs :
    /\ msg[m].place = "queued" /\ msg[m].stuck
    /\ ctx[msg[m].ctx].gen = global[e]

TeardownEnds ==
  \A e \in Envs : [](stage[e] = "reaping" =>
                       <>(stage[e] = "gone" \/ []Undeliverable(e)))
=============================================================================
