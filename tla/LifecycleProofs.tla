--------------------------- MODULE LifecycleProofs ---------------------------
(***************************************************************************)
(* Theorems about Lifecycle, for any number of environments, contexts,     *)
(* objects and messages: what a reaper holds, who may still reach a module *)
(* that is gone, and that a context outlives the sockets made from it.     *)
(***************************************************************************)
EXTENDS Lifecycle, FiniteSetTheorems, TLAPS

(* A module whose share of the Global has not been dropped.                *)
Alive(e) == stage[e] \in {"up", "reaping"}

(* Generations: one is shared by all modules that are alive, its context   *)
(* is open then, and one that has ended is not shared by anyone again.     *)
GenInv ==
  /\ \A e \in Envs : (stage[e] = "none") <=> (global[e] = 0)
  /\ \A g \in Gens : ctx[g].st # "none" => \E e \in Envs : global[e] = g
  /\ \A e \in Envs : global[e] # 0 => ctx[global[e]].st # "none"
  /\ \A e, f \in Envs : Alive(e) /\ Alive(f) => global[e] = global[f]
  /\ \A e \in Envs : Alive(e) => ctx[global[e]].st = "open"
  /\ \A e \in Envs : stage[e] = "terminating" => e \in ended
  /\ \A e \in ended : /\ stage[e] \in {"terminating", "gone"}
                      /\ \A f \in Envs : global[f] = global[e] => ~Alive(f)

(* Contexts: one of the application's is open only while its module is     *)
(* alive; whatever is not open and not terminated yet waits in the         *)
(* terminator of its generation, and so does the default context.          *)
CtxInv ==
  /\ \A c \in Contexts : (ctx[c].st = "none") <=> (ctx[c].gen = 0)
  /\ \A g \in Gens : ctx[g].st # "none" => ctx[g].gen = g
  /\ \A c \in Own : ctx[c].st # "none" => ctx[c].gen = global[ctx[c].env]
  /\ \A c \in Own : ctx[c].st = "open" => Alive(ctx[c].env)
  /\ \A g \in Gens : \A c \in terminator[g] :
       ctx[c].gen = g /\ ctx[c].st # "terminated"
  /\ \A c \in Contexts :
       \/ ctx[c].st \in {"shutdown", "terminating"}
       \/ c \in Gens /\ ctx[c].st = "open"
       => c \in terminator[ctx[c].gen]

(* Objects: an open one belongs to a module that is alive and uses a       *)
(* context of that module, which a socket keeps open while the module is   *)
(* up; an observer has the context of its socket.                          *)
ObjInv ==
  \A o \in Objects : obj[o].st = "open" =>
    /\ Alive(obj[o].env)
    /\ \/ obj[o].ctx = global[obj[o].env]
       \/ /\ obj[o].ctx \in Own /\ ctx[obj[o].ctx].env = obj[o].env
          /\ ctx[obj[o].ctx].st # "none"
    /\ \A s \in obj[o].observes :
         /\ obj[s].observes = {}
         /\ obj[s].st # "none"
         /\ obj[s].st = "open" => obj[s].ctx = obj[o].ctx
    /\ stage[obj[o].env] = "up" /\ obj[o].ctx \in Own /\ obj[o].observes = {} =>
         ctx[obj[o].ctx].st = "open"

(* Messages: what libzmq has queued keeps its context from termination.    *)
MsgInv ==
  \A m \in Msgs :
    /\ msg[m].place = "queued" =>
         /\ ctx[msg[m].ctx].gen = global[msg[m].env]
         /\ ctx[msg[m].ctx].st \notin {"none", "terminated"}
         /\ stage[msg[m].env] # "none"
    /\ msg[m].place = "lost from queue" =>
         stage[msg[m].env] = "gone" /\ msg[m].env \notin ended

(* When the last module of a generation is gone, so are its contexts.      *)
EndInv ==
  \A e \in ended : stage[e] = "gone" =>
    \A c \in Contexts : ctx[c].gen = global[e] => ctx[c].st = "terminated"

IInv ==
  TypeOK /\ GenInv /\ CtxInv /\ ObjInv /\ MsgInv /\ EndInv /\ "closed" \notin dangling

-----------------------------------------------------------------------------
(* Generations, objects and the application's contexts are different       *)
(* things, and there is a generation.                                      *)
LEMMA Apart ==
  /\ Gens \subseteq Nat \ {0} /\ 1 \in Gens
  /\ Objects \cap Gens = {}
  /\ Own \cap Gens = {} /\ Own \cap Objects = {}
  /\ Main \in Envs
  /\ Cardinality(Gens) = Cardinality(Envs) /\ IsFiniteSet(Gens)
<1>1. Cardinality(Envs) \in Nat \ {0}
  BY EnvsAssumption, FS_CardinalityType, FS_EmptySet
<1>2. Gens \subseteq Nat \ {0} /\ 1 \in Gens /\ Objects \cap Gens = {}
  BY <1>1, ObjectsAssumption DEF Gens, Objects, FirstObject
<1>3. Cardinality(Gens) = Cardinality(Envs) /\ IsFiniteSet(Gens)
  BY <1>1, FS_Interval DEF Gens
<1> QED  BY <1>2, <1>3, OwnAssumption, EnvsAssumption

(* There is a generation left for a module to start: the ones in use are   *)
(* those of the modules that have been loaded, and this one has not.       *)
LEMMA FreshGen ==
  ASSUME TypeOK, GenInv, NEW e \in Envs, stage[e] = "none"
  PROVE  \E g \in Gens : ctx[g].st = "none"
<1> SUFFICES ASSUME \A g \in Gens : ctx[g].st # "none" PROVE FALSE
  OBVIOUS
<1> DEFINE Loaded == {f \in Envs : global[f] # 0}
           gen == [f \in Loaded |-> global[f]]
<1>1. gen \in Surjection(Loaded, Gens)
  <2>1. gen \in [Loaded -> Gens]
    BY Apart DEF TypeOK
  <2>2. \A g \in Gens : \E f \in Loaded : gen[f] = g
    BY Apart DEF GenInv
  <2> HIDE DEF gen, Loaded
  <2> QED  BY <2>1, <2>2, Zenon DEF Surjection
<1>2. Loaded \subseteq Envs \ {e}
  BY DEF GenInv
<1>3. IsFiniteSet(Envs \ {e}) /\ Cardinality(Envs \ {e}) = Cardinality(Envs) - 1
  BY EnvsAssumption, FS_RemoveElement
<1> HIDE DEF gen, Loaded
<1>4. IsFiniteSet(Loaded) /\ Cardinality(Loaded) <= Cardinality(Envs \ {e})
  BY <1>2, <1>3, FS_Subset
<1>5. Cardinality(Gens) <= Cardinality(Loaded)
  BY <1>1, <1>4, FS_Surjection
<1>6. Cardinality(Envs) \in Nat /\ Cardinality(Loaded) \in Nat
  BY <1>4, EnvsAssumption, FS_CardinalityType
<1> QED  BY <1>3, <1>4, <1>5, <1>6, Apart

(* The module that is loaded shares the generation of those alive, if any, *)
(* or has one that nobody has used.                                        *)
LEMMA InstanceIs ==
  ASSUME TypeOK, GenInv, NEW e \in Envs, stage[e] = "none"
  PROVE  /\ Instance(e) \in Gens
         /\ \A f \in Envs : Alive(f) => Instance(e) = global[f]
         /\ ctx[Instance(e)].st # "none" => ctx[Instance(e)].st = "open"
         /\ ctx[Instance(e)].st # "none" => \E f \in Envs : Alive(f) /\ global[f] = Instance(e)
<1>1. CASE AliveGens = {}
  <2>1. \A f \in Envs : ~Alive(f)
    BY <1>1 DEF AliveGens, Alive
  <2>2. Instance(e) \in Gens /\ ctx[Instance(e)].st = "none"
    BY <1>1, FreshGen DEF Instance
  <2> QED  BY <2>1, <2>2
<1>2. CASE AliveGens # {}
  <2>1. Instance(e) \in AliveGens
    BY <1>2 DEF Instance
  <2>2. PICK f \in Envs : Alive(f) /\ Instance(e) = global[f]
    BY <2>1 DEF AliveGens, Alive
  <2>3. global[f] \in Gens
    BY <2>2 DEF TypeOK, GenInv, Alive
  <2> QED  BY <2>2, <2>3 DEF GenInv
<1> QED  BY <1>1, <1>2

LEMMA InvInit == Init => IInv
<1> SUFFICES ASSUME Init PROVE IInv
  OBVIOUS
<1>0. 1 \in Gens /\ 0 \notin Gens /\ Main \in Envs
  BY Apart
<1>1. ctx \in [Contexts -> CtxStates] /\ obj \in [Objects -> ObjStates]
      /\ msg \in [Msgs -> MsgStates]
  BY <1>0 DEF Init, NoCtx, NoObj, NoMsg, CtxStates, ObjStates, MsgStates, Contexts
<1>2. \A c \in Contexts : ctx[c].st = "none" /\ ctx[c].gen = 0
  BY DEF Init, NoCtx
<1>3. \A o \in Objects : obj[o].st = "none"
  BY DEF Init, NoObj
<1>4. \A m \in Msgs : msg[m].place = "none"
  BY DEF Init, NoMsg
<1>5. \A e \in Envs : stage[e] = "none" /\ global[e] = 0 /\ reaper[e] = {}
  BY DEF Init
<1>6. TypeOK
  BY <1>1, <1>5 DEF Init, TypeOK, Stages
<1>7. GenInv /\ CtxInv
  BY <1>0, <1>2, <1>5 DEF Init, GenInv, CtxInv, Alive, Contexts
<1>8. ObjInv /\ MsgInv /\ EndInv
  BY <1>3, <1>4 DEF Init, ObjInv, MsgInv, EndInv
<1> QED  BY <1>6, <1>7, <1>8 DEF Init, IInv

-----------------------------------------------------------------------------
(* Object by object, what TypeOK says of the reapers.                      *)
Reapers ==
  \A e \in Envs :
    /\ \A o \in Objects :
         o \in reaper[e] <=> Alive(e) /\ obj[o].st = "open" /\ obj[o].env = e
    /\ \A c \in Own :
         c \in reaper[e] <=> Alive(e) /\ ctx[c].st = "open" /\ ctx[c].env = e

ReaperType == reaper \in [Envs -> SUBSET (Contexts \cup Objects)]

ReaperLaw ==
  \A e \in Envs :
    reaper[e] \ Gens = IF stage[e] \in {"up", "reaping"} THEN Registered(e) ELSE {}

LEMMA ReapersLaw == ReaperType => (Reapers <=> ReaperLaw)
<1> SUFFICES ASSUME ReaperType PROVE Reapers <=> ReaperLaw
  OBVIOUS
<1>1. ASSUME Reapers, NEW e \in Envs
      PROVE  reaper[e] \ Gens = IF stage[e] \in {"up", "reaping"} THEN Registered(e) ELSE {}
  <2>1. \A x \in reaper[e] \ Gens : x \in Own \/ x \in Objects
    BY DEF ReaperType, Contexts
  <2>2. CASE Alive(e)
    <3>1. \A x : x \in reaper[e] \ Gens <=> x \in Registered(e)
      BY <1>1, <2>1, <2>2, Apart DEF Reapers, Registered
    <3> QED  BY <2>2, <3>1 DEF Alive
  <2>3. CASE ~Alive(e)
    <3>1. \A x : x \notin reaper[e] \ Gens
      BY <1>1, <2>1, <2>3, Apart DEF Reapers
    <3> QED  BY <2>3, <3>1 DEF Alive
  <2> QED  BY <2>2, <2>3
<1>2. ASSUME ReaperLaw PROVE Reapers
  <2> SUFFICES ASSUME NEW e \in Envs
               PROVE  /\ \A o \in Objects : o \in reaper[e] <=>
                           Alive(e) /\ obj[o].st = "open" /\ obj[o].env = e
                      /\ \A c \in Own : c \in reaper[e] <=>
                           Alive(e) /\ ctx[c].st = "open" /\ ctx[c].env = e
    BY DEF Reapers
  <2>1. \A x : x \in reaper[e] \ Gens <=> Alive(e) /\ x \in Registered(e)
    BY <1>2 DEF ReaperLaw, Alive
  <2> QED  BY <2>1, Apart DEF Registered
<1> QED  BY <1>1, <1>2 DEF ReaperLaw

(* The types proper.                                                       *)
Typed ==
  /\ stage \in [Envs -> Stages]
  /\ global \in [Envs -> Gens \cup {0}]
  /\ ReaperType
  /\ terminator \in [Gens -> SUBSET Contexts]
  /\ ctx \in [Contexts -> CtxStates]
  /\ obj \in [Objects -> ObjStates]
  /\ pending \in [Objects -> {"none", "job", "delayed"}]
  /\ msg \in [Msgs -> MsgStates]
  /\ ended \subseteq Envs
  /\ dangling \subseteq {"closed", "collected", "reaped"}

LEMMA TypeIs == TypeOK <=> Typed /\ Reapers
BY ReapersLaw DEF TypeOK, Typed, ReaperType, ReaperLaw

-----------------------------------------------------------------------------
(* Steps on objects.                                                       *)

(* Objects are closed or freed, or marked to be, and none is made.         *)
ObjLoses ==
  /\ obj' \in [Objects -> ObjStates]
  /\ \A p \in Objects :
       /\ obj'[p].env = obj[p].env
       /\ obj'[p].observes = obj[p].observes
       /\ obj[p].st # "none" => obj'[p].st # "none"
       /\ obj'[p].st = "open" => obj[p].st = "open" /\ obj'[p].ctx = obj[p].ctx

LEMMA ObjectStep ==
  ASSUME IInv, ObjLoses, TypeOK', "closed" \notin dangling',
         UNCHANGED <<stage, global, terminator, ctx, msg, ended>>
  PROVE  IInv'
<1>1. ObjInv'
  BY DEF IInv, ObjInv, ObjLoses, Alive, TypeOK, ObjStates
<1>2. GenInv'  BY DEF IInv, GenInv, Alive
<1>3. CtxInv'  BY DEF IInv, CtxInv, Alive
<1>4. MsgInv'  BY DEF IInv, MsgInv
<1>5. EndInv'  BY DEF IInv, EndInv
<1> QED  BY <1>1, <1>2, <1>3, <1>4, <1>5 DEF IInv

LEMMA ClosedLoses ==
  ASSUME TypeOK, NEW o \in Objects, NEW st \in {"closed", "freed"}, Closed(o, st)
  PROVE  /\ ObjLoses
         /\ obj'[o].st = st
         /\ \A p \in Objects : p # o => obj'[p] = obj[p]
<1>1. [NoObj EXCEPT !.st = st, !.env = obj[o].env, !.observes = obj[o].observes]
        \in ObjStates
  BY Apart DEF NoObj, ObjStates, TypeOK, Contexts
<1>2. \A p \in Objects : p # o => obj'[p] = obj[p]
  BY DEF Closed, TypeOK
<1>3. /\ obj'[o].st = st
      /\ obj'[o].env = obj[o].env
      /\ obj'[o].observes = obj[o].observes
  BY <1>1 DEF Closed, TypeOK, NoObj, ObjStates
<1>4. obj' \in [Objects -> ObjStates]
  BY <1>1 DEF Closed, TypeOK
<1> QED  BY <1>2, <1>3, <1>4 DEF ObjLoses

(* An object is closed and its reaper forgets it.                          *)
LEMMA CloseStep ==
  ASSUME IInv, NEW o \in Objects, NEW st \in {"closed", "freed"},
         Closed(o, st), Unregister(obj[o].env, o),
         pending' \in [Objects -> {"none", "job", "delayed"}],
         dangling' \subseteq dangling \cup {"collected", "reaped"},
         UNCHANGED <<stage, global, terminator, ctx, msg, ended>>
  PROVE  IInv'
<1>0. TypeOK /\ Typed /\ Reapers
  BY TypeIs DEF IInv
<1>1. ObjLoses /\ obj'[o].st # "open" /\ \A p \in Objects : p # o => obj'[p] = obj[p]
  BY <1>0, ClosedLoses
<1>2. obj[o].env \in Envs
  BY <1>0 DEF TypeOK, ObjStates
<1>3. ReaperType'
  BY <1>0, <1>2 DEF Typed, ReaperType, Unregister
<1>4. \A e \in Envs : \A x \in Objects \cup Own :
        x # o => (x \in reaper'[e] <=> x \in reaper[e])
  BY <1>0, <1>2 DEF Typed, ReaperType, Unregister
<1>5. \A e \in Envs : o \notin reaper'[e]
  BY <1>0, <1>2 DEF Typed, ReaperType, Unregister, Reapers
<1>6. \A c \in Own : c # o
  BY Apart
<1>7. Reapers'
  BY <1>0, <1>1, <1>4, <1>5, <1>6 DEF Reapers, Alive
<1>8. Typed'
  BY <1>0, <1>1, <1>3 DEF Typed, ObjLoses
<1>9. TypeOK'
  BY <1>7, <1>8, TypeIs, PTL
<1> QED  BY <1>1, <1>9, ObjectStep DEF IInv

LEMMA ObjectsNext ==
  ASSUME IInv, NEW o \in Objects,
         \/ \E kind \in {"job", "delayed"} : Call(o, kind)
         \/ Callback(o) \/ CloseObject(o) \/ CollectObject(o)
         \/ \E e \in Envs : ReapObject(e, o)
  PROVE  IInv'
<1>0. TypeOK /\ Typed /\ Reapers
  BY TypeIs DEF IInv
<1>1. ASSUME pending' \in [Objects -> {"none", "job", "delayed"}],
             dangling' \subseteq dangling \cup {"collected", "reaped"},
             ObjLoses, \A p \in Objects : obj'[p].st = obj[p].st,
             UNCHANGED <<stage, global, reaper, terminator, ctx, msg, ended>>
      PROVE  IInv'
  <2>1. Typed'
    BY <1>0, <1>1 DEF Typed, ReaperType, ObjLoses
  <2>2. Reapers'
    BY <1>0, <1>1 DEF Reapers, Alive, ObjLoses
  <2>3. TypeOK'
    BY <2>1, <2>2, TypeIs, PTL
  <2> QED  BY <1>1, <2>3, ObjectStep DEF IInv
<1>2. obj' = obj => ObjLoses /\ \A p \in Objects : obj'[p].st = obj[p].st
  BY <1>0 DEF Typed, ObjLoses
<1>3. ASSUME NEW kind \in {"job", "delayed"}, Call(o, kind) PROVE IInv'
  BY <1>0, <1>1, <1>2, <1>3 DEF Call, Typed
<1>4. CASE Callback(o)
  <2>1. /\ pending' \in [Objects -> {"none", "job", "delayed"}]
        /\ dangling' \subseteq dangling \cup {"collected", "reaped"}
        /\ UNCHANGED <<stage, global, terminator, ctx, msg, ended>>
    BY <1>0, <1>4 DEF Callback, Typed
  <2>2. CASE Closed(o, "closed") /\ Unregister(obj[o].env, o)
    BY <2>1, <2>2, CloseStep
  <2>3. CASE UNCHANGED <<obj, reaper>>
    BY <1>1, <1>2, <2>1, <2>3
  <2> QED  BY <1>4, <2>2, <2>3 DEF Callback
<1>5. CASE CloseObject(o)
  <2>1. /\ pending' \in [Objects -> {"none", "job", "delayed"}]
        /\ dangling' \subseteq dangling \cup {"collected", "reaped"}
        /\ UNCHANGED <<stage, global, terminator, ctx, msg, ended>>
    BY <1>0, <1>5 DEF CloseObject, Typed
  <2>2. CASE Closed(o, "closed") /\ Unregister(obj[o].env, o)
    BY <2>1, <2>2, CloseStep
  <2>3. CASE obj' = [obj EXCEPT ![o].closing = TRUE] /\ UNCHANGED reaper
    <3>1. obj' \in [Objects -> ObjStates]
      <4>1. obj[o] \in ObjStates
        BY <1>0 DEF Typed
      <4>2. [obj[o] EXCEPT !.closing = TRUE] \in ObjStates
        BY <4>1 DEF ObjStates
      <4> QED  BY <1>0, <2>3, <4>2 DEF Typed
    <3>2. \A p \in Objects : /\ obj'[p].st = obj[p].st /\ obj'[p].env = obj[p].env
                             /\ obj'[p].ctx = obj[p].ctx
                             /\ obj'[p].observes = obj[p].observes
      BY <1>0, <2>3 DEF Typed, ObjStates
    <3> QED  BY <1>1, <2>1, <2>3, <3>1, <3>2 DEF ObjLoses
  <2> QED  BY <1>5, <2>2, <2>3 DEF CloseObject
<1>6. CASE CollectObject(o)
  <2>1. /\ pending' \in [Objects -> {"none", "job", "delayed"}]
        /\ dangling' \subseteq dangling \cup {"collected", "reaped"}
        /\ UNCHANGED <<stage, global, terminator, ctx, msg, ended>>
    BY <1>0, <1>6 DEF CollectObject, TakenFromWorker, Typed
  <2> QED  BY <1>6, <2>1, CloseStep DEF CollectObject
<1>7. ASSUME NEW e \in Envs, ReapObject(e, o) PROVE IInv'
  <2>1. /\ pending' \in [Objects -> {"none", "job", "delayed"}]
        /\ dangling' \subseteq dangling \cup {"collected", "reaped"}
        /\ UNCHANGED <<stage, global, terminator, ctx, msg, ended>>
    BY <1>0, <1>7 DEF ReapObject, TakenFromWorker, Typed
  <2>2. obj[o].env = e
    BY <1>0, <1>7 DEF ReapObject, Reapers
  <2> QED  BY <1>7, <2>1, <2>2, CloseStep DEF ReapObject
<1> QED  BY <1>3, <1>4, <1>5, <1>6, <1>7

(* A new object: its module is up, and so its context is open.             *)
LEMMA CreateNext ==
  ASSUME IInv, NEW e \in Envs, NEW o \in Objects, NEW c \in Contexts,
         NEW observes \in SUBSET Objects, Create(e, o, c, observes),
         \/ c = global[e]
         \/ /\ c \in Own /\ ctx[c].env = e /\ ctx[c].st # "none"
            /\ observes = {} => ctx[c].st = "open",
         \A s \in observes : obj[s].st = "open" /\ obj[s].observes = {} /\ obj[s].ctx = c
  PROVE  IInv'
<1>0. TypeOK /\ Typed /\ Reapers
  BY TypeIs DEF IInv
<1>1. [NoObj EXCEPT !.st = "open", !.env = e, !.ctx = c, !.observes = observes]
        \in ObjStates
  BY Apart DEF NoObj, ObjStates, Contexts
<1>2. obj' \in [Objects -> ObjStates] /\ \A p \in Objects : p # o => obj'[p] = obj[p]
  BY <1>0, <1>1 DEF Create, Typed
<1>3. /\ obj'[o].st = "open" /\ obj'[o].env = e
      /\ obj'[o].ctx = c /\ obj'[o].observes = observes
  BY <1>0, <1>1 DEF Create, Typed, NoObj, ObjStates
<1>4. /\ stage[e] = "up" /\ obj[o].st = "none"
      /\ UNCHANGED <<stage, global, terminator, ctx, pending, msg, ended, dangling>>
  BY DEF Create
<1>5. ReaperType'
  BY <1>0 DEF Typed, ReaperType, Create
<1>6. \A f \in Envs : \A x \in Objects \cup Own :
        x \in reaper'[f] <=> x \in reaper[f] \/ (x = o /\ f = e)
  BY <1>0 DEF Typed, ReaperType, Create
<1>7. \A d \in Own : d # o
  BY Apart
<1>8. Reapers'
  BY <1>0, <1>2, <1>3, <1>4, <1>6, <1>7 DEF Reapers, Alive
<1>9. Typed'
  BY <1>0, <1>2, <1>4, <1>5 DEF Typed
<1>10. TypeOK'
  BY <1>8, <1>9, TypeIs, PTL
<1>11. \A s \in observes : s # o
  BY <1>4
<1>12. \A p \in Objects : p # o /\ obj[p].st = "open" => o \notin obj[p].observes
  BY <1>4 DEF IInv, ObjInv
<1>13. ObjInv'
  <2> SUFFICES ASSUME NEW p \in Objects, obj'[p].st = "open"
               PROVE  /\ stage'[obj'[p].env] \in {"up", "reaping"}
                      /\ \/ obj'[p].ctx = global'[obj'[p].env]
                         \/ /\ obj'[p].ctx \in Own /\ ctx'[obj'[p].ctx].env = obj'[p].env
                            /\ ctx'[obj'[p].ctx].st # "none"
                      /\ \A s \in obj'[p].observes :
                           /\ obj'[s].observes = {}
                           /\ obj'[s].st # "none"
                           /\ obj'[s].st = "open" => obj'[s].ctx = obj'[p].ctx
                      /\ stage'[obj'[p].env] = "up" /\ obj'[p].ctx \in Own
                           /\ obj'[p].observes = {} => ctx'[obj'[p].ctx].st = "open"
    BY DEF ObjInv, Alive
  <2>1. CASE p = o
    <3>1. \A s \in observes : obj'[s] = obj[s]
      BY <1>2, <1>11
    <3>2. c \in Own => c # global[e]
      BY <1>0, <1>4, Apart DEF Typed, IInv, GenInv
    <3> QED  BY <1>3, <1>4, <2>1, <3>1, <3>2 DEF Alive
  <2>2. CASE p # o
    <3>1. obj'[p] = obj[p] /\ obj[p].st = "open" /\ obj[p].observes \subseteq Objects
      BY <1>0, <1>2, <2>2 DEF Typed, ObjStates
    <3>2. \A s \in obj[p].observes : obj'[s] = obj[s]
      BY <1>2, <1>12, <2>2, <3>1
    <3> QED  BY <1>4, <3>1, <3>2 DEF IInv, ObjInv, Alive
  <2> QED  BY <2>1, <2>2
<1>14. GenInv'  BY <1>4 DEF IInv, GenInv, Alive
<1>15. CtxInv'  BY <1>4 DEF IInv, CtxInv, Alive
<1>16. MsgInv'  BY <1>4 DEF IInv, MsgInv
<1>17. EndInv'  BY <1>4 DEF IInv, EndInv
<1> QED  BY <1>4, <1>10, <1>13, <1>14, <1>15, <1>16, <1>17 DEF IInv

LEMMA CreateSocketNext ==
  ASSUME IInv, NEW e \in Envs, NEW o \in Objects, NEW c \in Contexts,
         CreateSocket(e, o, c)
  PROVE  IInv'
BY CreateNext DEF CreateSocket

LEMMA CreateObserverNext ==
  ASSUME IInv, NEW e \in Envs, NEW o \in Objects, NEW s \in Objects,
         CreateObserver(e, o, s)
  PROVE  IInv'
<1>1. /\ obj[s].st = "open" /\ obj[s].env = e /\ obj[s].observes = {}
      /\ obj[s].ctx \in Contexts
      /\ Create(e, o, obj[s].ctx, {s})
  BY DEF CreateObserver, IInv, TypeOK, ObjStates
<1>2. \/ obj[s].ctx = global[e]
      \/ /\ obj[s].ctx \in Own /\ ctx[obj[s].ctx].env = e
         /\ ctx[obj[s].ctx].st # "none"
  BY <1>1 DEF IInv, ObjInv
<1>3. {s} \in SUBSET Objects /\ {s} # {}
  OBVIOUS
<1>4. \A q \in {s} : obj[q].st = "open" /\ obj[q].observes = {} /\ obj[q].ctx = obj[s].ctx
  BY <1>1
<1> QED  BY <1>1, <1>2, <1>3, <1>4, CreateNext

-----------------------------------------------------------------------------
(* Steps on messages.                                                      *)

MsgStep ==
  UNCHANGED <<stage, global, reaper, terminator, ctx, obj, pending, ended, dangling>>

LEMMA MessageStep ==
  ASSUME IInv, MsgStep, msg' \in [Msgs -> MsgStates], MsgInv'
  PROVE  IInv'
<1>0. TypeOK /\ Typed /\ Reapers
  BY TypeIs DEF IInv
<1>1. Typed'  BY <1>0 DEF MsgStep, Typed, ReaperType
<1>2. Reapers'  BY <1>0 DEF MsgStep, Reapers, Alive
<1>3. TypeOK'  BY <1>1, <1>2, TypeIs, PTL
<1>4. GenInv'  BY DEF MsgStep, IInv, GenInv, Alive
<1>5. CtxInv'  BY DEF MsgStep, IInv, CtxInv, Alive
<1>6. ObjInv'  BY DEF MsgStep, IInv, ObjInv, Alive
<1>7. EndInv'  BY DEF MsgStep, IInv, EndInv
<1> QED  BY <1>3, <1>4, <1>5, <1>6, <1>7 DEF MsgStep, IInv

(* Once libzmq drops a message, its buffer is in the trash or lost.        *)
LEMMA RecycledType ==
  ASSUME TypeOK, NEW m \in Msgs,
         NEW from \in {"lost from queue", "lost from buffer"}, Recycled(m, from)
  PROVE  /\ msg' \in [Msgs -> MsgStates]
         /\ \A n \in Msgs : n # m => msg'[n] = msg[n]
         /\ msg'[m].env = msg[m].env
         /\ msg'[m].place = (IF TrashAlive(msg[m].env) THEN "trash" ELSE from)
BY Apart DEF TypeOK, MsgStates, NoMsg, Recycled, Contexts

LEMMA MessagesNext ==
  ASSUME IInv, NEW m \in Msgs,
         \/ \E o \in Objects : Send(o, m) \/ Receive(o, m)
         \/ IoDone(m) \/ Finalize(m)
  PROVE  IInv'
<1>0. TypeOK
  BY DEF IInv
<1>1. ASSUME NEW o \in Objects, Send(o, m) PROVE IInv'
  <2>1. /\ obj[o].st = "open" /\ stage[obj[o].env] = "up" /\ ctx[obj[o].ctx].st = "open"
        /\ obj[o].env \in Envs /\ obj[o].ctx \in Contexts
    BY <1>0, <1>1 DEF Send, Usable, TypeOK, ObjStates
  <2>2. PICK stuck \in BOOLEAN :
          msg' = [msg EXCEPT ![m] = [place |-> "queued", env |-> obj[o].env,
                                     ctx |-> obj[o].ctx, stuck |-> stuck]]
    BY <1>1 DEF Send
  <2>3. msg' \in [Msgs -> MsgStates]
    BY <1>0, <2>1, <2>2 DEF TypeOK, MsgStates
  <2>4. /\ msg'[m].place = "queued" /\ msg'[m].env = obj[o].env
        /\ msg'[m].ctx = obj[o].ctx
        /\ \A n \in Msgs : n # m => msg'[n] = msg[n]
    BY <1>0, <2>2 DEF TypeOK
  <2>5. ctx[obj[o].ctx].gen = global[obj[o].env]
    <3>1. CASE obj[o].ctx = global[obj[o].env]
      <4>1. obj[o].ctx \in Gens
        BY <1>0, <2>1, <3>1 DEF TypeOK, IInv, GenInv
      <4> QED  BY <2>1, <3>1, <4>1 DEF IInv, CtxInv
    <3>2. CASE obj[o].ctx \in Own /\ ctx[obj[o].ctx].env = obj[o].env
      BY <2>1, <3>2 DEF IInv, CtxInv
    <3> QED  BY <2>1, <3>1, <3>2 DEF IInv, ObjInv
  <2>6. MsgStep
    BY <1>1 DEF Send, MsgStep
  <2>7. MsgInv'
    <3> SUFFICES ASSUME NEW n \in Msgs
                 PROVE  /\ msg'[n].place = "queued" =>
                             /\ ctx[msg'[n].ctx].gen = global[msg'[n].env]
                             /\ ctx[msg'[n].ctx].st \notin {"none", "terminated"}
                             /\ stage[msg'[n].env] # "none"
                        /\ msg'[n].place = "lost from queue" =>
                             /\ stage[msg'[n].env] = "gone"
                             /\ msg'[n].env \notin ended
      BY <2>6 DEF MsgInv, MsgStep
    <3>1. CASE n = m
      BY <2>1, <2>4, <2>5, <3>1
    <3>2. CASE n # m
      BY <2>4, <3>2 DEF IInv, MsgInv
    <3> QED  BY <3>1, <3>2
  <2> QED  BY <2>3, <2>6, <2>7, MessageStep
<1>2. ASSUME NEW o \in Objects, Receive(o, m) PROVE IInv'
  <2>1. [NoMsg EXCEPT !.env = msg[m].env, !.place = "buffer"] \in MsgStates
    BY <1>0, Apart DEF TypeOK, MsgStates, NoMsg, Contexts
  <2>2. /\ msg' \in [Msgs -> MsgStates] /\ msg'[m].place = "buffer"
        /\ \A n \in Msgs : n # m => msg'[n] = msg[n]
    BY <1>0, <1>2, <2>1 DEF Receive, TypeOK, NoMsg
  <2>3. MsgStep
    BY <1>2 DEF Receive, MsgStep
  <2>4. MsgInv'
    BY <2>2, <2>3 DEF IInv, MsgInv, MsgStep
  <2> QED  BY <2>2, <2>3, <2>4, MessageStep
<1>3. CASE IoDone(m)
  <2>1. /\ msg' \in [Msgs -> MsgStates]
        /\ \A n \in Msgs : n # m => msg'[n] = msg[n]
        /\ msg'[m].env = msg[m].env
        /\ msg'[m].place = (IF TrashAlive(msg[m].env) THEN "trash" ELSE "lost from queue")
    BY <1>0, <1>3, RecycledType DEF IoDone
  <2>2. MsgStep
    BY <1>3 DEF IoDone, MsgStep
  <2>3. msg[m].env \in Envs /\ stage[msg[m].env] \in Stages
    BY <1>0 DEF TypeOK, MsgStates
  <2>4. msg'[m].place = "lost from queue" => stage[msg[m].env] = "gone"
    BY <1>3, <2>1, <2>3 DEF IoDone, TrashAlive, Stages, IInv, MsgInv
  (* An ended module that is gone has no context left for the message to   *)
  (* have been queued in.                                                  *)
  <2>5. msg'[m].place = "lost from queue" => msg[m].env \notin ended
    <3> SUFFICES ASSUME msg'[m].place = "lost from queue", msg[m].env \in ended
                 PROVE  FALSE
      OBVIOUS
    <3>1. msg[m].ctx \in Contexts
      BY <1>0 DEF TypeOK, MsgStates
    <3>2. /\ ctx[msg[m].ctx].gen = global[msg[m].env]
          /\ ctx[msg[m].ctx].st # "terminated"
      BY <1>3 DEF IoDone, IInv, MsgInv
    <3> QED  BY <2>4, <3>1, <3>2 DEF IInv, EndInv
  <2>6. MsgInv'
    BY <2>1, <2>2, <2>4, <2>5 DEF IInv, MsgInv, MsgStep
  <2> QED  BY <2>1, <2>2, <2>6, MessageStep
<1>4. CASE Finalize(m)
  <2>1. /\ msg' \in [Msgs -> MsgStates]
        /\ \A n \in Msgs : n # m => msg'[n] = msg[n]
        /\ msg'[m].place \notin {"queued", "lost from queue"}
    BY <1>0, <1>4, RecycledType DEF Finalize
  <2>2. MsgStep
    BY <1>4 DEF Finalize, MsgStep
  <2>3. MsgInv'
    BY <2>1, <2>2 DEF IInv, MsgInv, MsgStep
  <2> QED  BY <2>1, <2>2, <2>3, MessageStep
<1> QED  BY <1>1, <1>2, <1>3, <1>4

(* Emptying a trash releases messages and touches no other.                *)
LEMMA TrashEmptied ==
  ASSUME TypeOK, NEW e \in Envs,
         msg' = [m \in Msgs |-> IF msg[m].place = "trash" /\ msg[m].env = e
                                  THEN [NoMsg EXCEPT !.place = "released"] ELSE msg[m]]
  PROVE  /\ msg' \in [Msgs -> MsgStates]
         /\ \A n \in Msgs : msg'[n] = msg[n] \/ msg'[n].place = "released"
<1>1. [NoMsg EXCEPT !.place = "released"] \in MsgStates
  BY Apart DEF MsgStates, NoMsg, Contexts
<1>2. [NoMsg EXCEPT !.place = "released"].place = "released"
  BY DEF NoMsg
<1> QED  BY <1>1, <1>2 DEF TypeOK

LEMMA ClearTrashNext ==
  ASSUME IInv, NEW e \in Envs, ClearTrash(e)
  PROVE  IInv'
<1>1. msg' = [m \in Msgs |-> IF msg[m].place = "trash" /\ msg[m].env = e
                                THEN [NoMsg EXCEPT !.place = "released"] ELSE msg[m]]
  BY DEF ClearTrash
<1>2. /\ msg' \in [Msgs -> MsgStates]
      /\ \A n \in Msgs : msg'[n] = msg[n] \/ msg'[n].place = "released"
  BY <1>1, TrashEmptied DEF IInv
<1>3. MsgStep
  BY DEF ClearTrash, MsgStep
<1>4. MsgInv'
  BY <1>2, <1>3 DEF IInv, MsgInv, MsgStep
<1> QED  BY <1>2, <1>3, <1>4, MessageStep

-----------------------------------------------------------------------------
(* Steps on contexts.                                                      *)

LEMMA CreateContextNext ==
  ASSUME IInv, NEW e \in Envs, NEW c \in Own, CreateContext(e, c)
  PROVE  IInv'
<1>0. TypeOK /\ Typed /\ Reapers
  BY TypeIs DEF IInv
<1>1. /\ stage[e] = "up" /\ ctx[c].st = "none" /\ ctx[c].gen = 0
      /\ global[e] \in Gens /\ c \in Contexts /\ c \notin Gens
      /\ UNCHANGED <<stage, global, terminator, obj, pending, msg, ended, dangling>>
  BY <1>0, Apart DEF CreateContext, Typed, IInv, GenInv, CtxInv, Contexts
<1>2. /\ ctx' \in [Contexts -> CtxStates]
      /\ ctx'[c].st = "open" /\ ctx'[c].gen = global[e] /\ ctx'[c].env = e
      /\ \A d \in Contexts : d # c => ctx'[d] = ctx[d]
  BY <1>0, <1>1 DEF CreateContext, Typed, CtxStates
<1>3. ReaperType'
  BY <1>0, <1>1 DEF Typed, ReaperType, CreateContext
<1>4. \A f \in Envs : \A x \in Objects \cup Own :
        x \in reaper'[f] <=> x \in reaper[f] \/ (x = c /\ f = e)
  BY <1>0 DEF Typed, ReaperType, CreateContext
<1>5. \A o \in Objects : o # c
  BY Apart
<1>6. \A d \in Own : d \in Contexts
  BY DEF Contexts
<1>7. Reapers'
  BY <1>0, <1>1, <1>2, <1>4, <1>5, <1>6 DEF Reapers, Alive
<1>8. Typed'
  BY <1>0, <1>1, <1>2, <1>3 DEF Typed
<1>9. TypeOK'
  BY <1>7, <1>8, TypeIs, PTL
<1>10. \A g \in Gens : ctx'[g] = ctx[g]
  BY <1>1, <1>2 DEF Contexts
<1>11. GenInv'
  <2>1. \A f \in Envs : global[f] # 0 => ctx'[global[f]] = ctx[global[f]]
    BY <1>0, <1>10 DEF Typed
  <2>2. \A f \in Envs : Alive(f) => global[f] # 0
    BY DEF IInv, GenInv, Alive
  <2> QED  BY <1>1, <1>10, <2>1, <2>2 DEF IInv, GenInv, Alive
<1>12. \A g \in Gens : g # 0 /\ c \notin terminator[g]
  BY <1>1, Apart DEF IInv, CtxInv
<1>13. CtxInv'
  <2>1. \A g \in Gens : \A d \in terminator[g] : d \in Contexts /\ ctx'[d] = ctx[d]
    BY <1>0, <1>2, <1>12 DEF Typed
  <2>2. (\A d \in Contexts : (ctx[d].st = "none") <=> (ctx[d].gen = 0))'
    BY <1>1, <1>2, <1>12 DEF IInv, CtxInv
  <2>3. (\A d \in Own : ctx[d].st # "none" => ctx[d].gen = global[ctx[d].env])'
    BY <1>1, <1>2, <1>6 DEF IInv, CtxInv
  <2>4. (\A d \in Own : ctx[d].st = "open" => Alive(ctx[d].env))'
    BY <1>1, <1>2, <1>6 DEF IInv, CtxInv, Alive
  <2>5. (\A d \in Contexts :
          \/ ctx[d].st \in {"shutdown", "terminating"}
          \/ d \in Gens /\ ctx[d].st = "open"
          => d \in terminator[ctx[d].gen])'
    BY <1>1, <1>2 DEF IInv, CtxInv
  <2> QED  BY <1>1, <1>10, <2>1, <2>2, <2>3, <2>4, <2>5 DEF IInv, CtxInv
<1>14. ObjInv'
  <2>1. \A o \in Objects : obj[o].st = "open" /\ obj[o].ctx \in Own => obj[o].ctx # c
    <3> SUFFICES ASSUME NEW o \in Objects, obj[o].st = "open", obj[o].ctx = c PROVE FALSE
      OBVIOUS
    <3>1. obj[o].env \in Envs /\ Alive(obj[o].env)
      BY <1>0 DEF IInv, ObjInv, Typed, ObjStates
    <3>2. global[obj[o].env] \in Gens
      BY <1>0, <3>1 DEF Typed, IInv, GenInv, Alive
    <3> QED  BY <1>1, <3>2 DEF IInv, ObjInv
  <2>2. \A o \in Objects : obj[o].st = "open" /\ obj[o].ctx \in Own =>
          ctx'[obj[o].ctx] = ctx[obj[o].ctx]
    BY <1>2, <1>6, <2>1
  <2> QED  BY <1>1, <2>2 DEF IInv, ObjInv, Alive
<1>15. MsgInv'
  <2>1. \A m \in Msgs : msg[m].place = "queued" => ctx'[msg[m].ctx] = ctx[msg[m].ctx]
    <3> TAKE m \in Msgs
    <3>1. msg[m].ctx \in Contexts
      BY <1>0 DEF Typed, MsgStates
    <3>2. msg[m].place = "queued" => ctx[msg[m].ctx].st # "none"
      BY DEF IInv, MsgInv
    <3> QED  BY <1>1, <1>2, <3>1, <3>2
  <2> QED  BY <1>1, <2>1 DEF IInv, MsgInv
<1>16. EndInv'
  <2>1. \A f \in ended : global[f] # global[e]
    BY <1>0, <1>1 DEF IInv, GenInv, Alive, Typed
  <2> QED  BY <1>1, <1>2, <2>1 DEF IInv, EndInv
<1> QED  BY <1>1, <1>9, <1>11, <1>13, <1>14, <1>15, <1>16 DEF IInv

(* The context of an object of the application's own is in use by its      *)
(* module, and no module that is alive shares the generation of one that   *)
(* has ended.                                                              *)
LEMMA AliveGen ==
  ASSUME IInv, NEW e \in Envs, Alive(e)
  PROVE  /\ global[e] \in Gens
         /\ e \notin ended
         /\ \A f \in ended : global[f] # global[e]
BY DEF IInv, TypeOK, GenInv, Alive

(* What a step on one context leaves to be shown, if no state goes back to *)
(* "none", no generation or owner changes, and nothing opens.              *)
CtxLoses(c) ==
  /\ ctx' \in [Contexts -> CtxStates]
  /\ ctx'[c].st \notin {"none", "open"}
  /\ ctx'[c].gen = ctx[c].gen /\ ctx'[c].env = ctx[c].env
  /\ \A d \in Contexts : d # c => ctx'[d] = ctx[d]

LEMMA ContextStep ==
  ASSUME IInv, NEW c \in Contexts, CtxLoses(c), ctx[c].st # "none",
         TypeOK', UNCHANGED <<stage, global, obj, pending, msg, ended, dangling>>,
         \A g \in Gens : \A d \in terminator'[g] :
           d \in Contexts /\ ctx[d].gen = g /\ ctx'[d].st # "terminated",
         \A d \in Contexts :
           d # c /\ ctx[d].st # "none" /\ d \in terminator[ctx[d].gen] =>
             d \in terminator'[ctx[d].gen],
         ctx'[c].st # "terminated" => c \in terminator'[ctx[c].gen],
         \A e \in Envs : Alive(e) => global[e] # c,
         \A o \in Objects : obj[o].st = "open" /\ stage[obj[o].env] = "up" =>
           obj[o].ctx # c \/ obj[o].observes # {},
         \A m \in Msgs : msg[m].place = "queued" =>
           msg[m].ctx # c \/ ctx'[c].st # "terminated",
         ctx[c].st # "terminated"
  PROVE  IInv'
<1>1. \A d \in Contexts : /\ ctx'[d].gen = ctx[d].gen /\ ctx'[d].env = ctx[d].env
                          /\ (ctx'[d].st = "none") = (ctx[d].st = "none")
                          /\ ctx'[d].st = "open" => ctx[d].st = "open" /\ d # c
  BY DEF CtxLoses
<1>2. Gens \subseteq Contexts /\ Own \subseteq Contexts
  BY DEF Contexts
<1>3. GenInv'
  <2>1. \A e \in Envs : global[e] # 0 => global[e] \in Gens
    BY DEF IInv, TypeOK
  <2>2. \A e \in Envs : global[e] # 0 => ctx'[global[e]].st # "none"
    BY <1>1, <1>2, <2>1 DEF IInv, GenInv
  <2>3. \A e \in Envs : Alive(e) => ctx'[global[e]].st = "open"
    BY <1>2, AliveGen DEF IInv, GenInv, CtxLoses
  <2>4. \A g \in Gens : ctx'[g].st # "none" => \E e \in Envs : global[e] = g
    BY <1>1, <1>2 DEF IInv, GenInv
  <2> QED  BY <2>2, <2>3, <2>4 DEF IInv, GenInv, Alive
<1>4. CtxInv'
  <2>1. (\A d \in Contexts : (ctx[d].st = "none") <=> (ctx[d].gen = 0))'
    BY <1>1 DEF IInv, CtxInv
  <2>2. (\A g \in Gens : ctx[g].st # "none" => ctx[g].gen = g)'
    BY <1>1, <1>2 DEF IInv, CtxInv
  <2>3. (\A d \in Own : ctx[d].st # "none" => ctx[d].gen = global[ctx[d].env])'
    BY <1>1, <1>2 DEF IInv, CtxInv
  <2>4. (\A d \in Own : ctx[d].st = "open" => Alive(ctx[d].env))'
    BY <1>1, <1>2 DEF IInv, CtxInv, Alive
  <2>5. (\A g \in Gens : \A d \in terminator[g] :
           ctx[d].gen = g /\ ctx[d].st # "terminated")'
    BY <1>1
  <2>6. (\A d \in Contexts :
          \/ ctx[d].st \in {"shutdown", "terminating"}
          \/ d \in Gens /\ ctx[d].st = "open"
          => d \in terminator[ctx[d].gen])'
    BY <1>1 DEF IInv, CtxInv, CtxLoses
  <2> QED  BY <2>1, <2>2, <2>3, <2>4, <2>5, <2>6 DEF CtxInv
<1>5. ObjInv'
  <2> SUFFICES ASSUME NEW o \in Objects, obj[o].st = "open"
               PROVE  /\ obj[o].ctx \in Own => /\ ctx'[obj[o].ctx].env = ctx[obj[o].ctx].env
                                               /\ (ctx'[obj[o].ctx].st = "none")
                                                    = (ctx[obj[o].ctx].st = "none")
                      /\ stage[obj[o].env] = "up" /\ obj[o].observes = {} =>
                           ctx'[obj[o].ctx] = ctx[obj[o].ctx]
    BY DEF IInv, ObjInv, Alive
  <2>1. obj[o].ctx \in Contexts
    BY DEF IInv, TypeOK, ObjStates
  <2> QED  BY <1>1, <1>2, <2>1 DEF CtxLoses
<1>6. MsgInv'
  <2> SUFFICES ASSUME NEW m \in Msgs, msg[m].place = "queued"
               PROVE  /\ ctx'[msg[m].ctx].gen = ctx[msg[m].ctx].gen
                      /\ ctx'[msg[m].ctx].st \notin {"none", "terminated"}
    BY DEF IInv, MsgInv
  <2>1. msg[m].ctx \in Contexts
    BY DEF IInv, TypeOK, MsgStates
  <2>2. ctx[msg[m].ctx].st \notin {"none", "terminated"}
    BY DEF IInv, MsgInv
  <2> QED  BY <1>1, <2>1, <2>2 DEF CtxLoses
<1>7. EndInv'
  BY <1>1 DEF IInv, EndInv, CtxLoses
<1> QED  BY <1>3, <1>4, <1>5, <1>6, <1>7 DEF IInv

(* Context::Close on a context that is registered: the collector's, which  *)
(* finds no open socket made from it, or the reaper's.                     *)
LEMMA ContextCloseStep ==
  ASSUME IInv, NEW e \in Envs, Alive(e), NEW c \in Contexts, ContextClose(e, c),
         c \in Own => ctx[c].st = "open" /\ ctx[c].env = e,
         c \in Own /\ stage[e] = "up" => ~ContextHeld(c),
         UNCHANGED <<stage, global, obj, pending, msg, ended, dangling>>
  PROVE  IInv'
<1>0. TypeOK /\ Typed /\ Reapers
  BY TypeIs DEF IInv
<1>1. ReaperType'
  BY <1>0 DEF Typed, ReaperType, ContextClose, Unregister
<1>2. \A f \in Envs : \A x \in Objects \cup Own :
        x \in reaper'[f] <=> x \in reaper[f] /\ (x # c \/ f # e)
  BY <1>0 DEF Typed, ReaperType, ContextClose, Unregister
<1>3. \A o \in Objects : o # c
  BY Apart DEF Contexts
<1>4. CASE c \in Gens /\ UNCHANGED <<ctx, terminator>>
  <2>1. \A d \in Own : d # c
    BY <1>4, Apart
  <2>2. Reapers'
    BY <1>0, <1>2, <1>3, <1>4, <2>1 DEF Reapers, Alive
  <2>3. Typed'
    BY <1>0, <1>1, <1>4 DEF Typed
  <2>4. TypeOK'
    BY <2>2, <2>3, TypeIs, PTL
  <2>5. GenInv'  BY <1>4 DEF IInv, GenInv, Alive
  <2>6. CtxInv'  BY <1>4 DEF IInv, CtxInv, Alive
  <2>7. ObjInv'  BY <1>4 DEF IInv, ObjInv, Alive
  <2>8. MsgInv'  BY <1>4 DEF IInv, MsgInv
  <2>9. EndInv'  BY <1>4 DEF IInv, EndInv
  <2> QED  BY <2>4, <2>5, <2>6, <2>7, <2>8, <2>9 DEF IInv
<1>5. CASE /\ c \in Own
           /\ ctx' = [ctx EXCEPT ![c].st = "shutdown"]
           /\ terminator' = [terminator EXCEPT ![global[e]] = @ \cup {c}]
  <2>1. CtxLoses(c) /\ ctx'[c].st = "shutdown"
    BY <1>0, <1>5 DEF Typed, CtxStates, CtxLoses
  <2>2. global[e] \in Gens
    BY AliveGen
  <2>3. terminator' \in [Gens -> SUBSET Contexts]
    BY <1>0, <1>5 DEF Typed
  <2>4. \A d \in Own : d \in Contexts
    BY DEF Contexts
  <2>5. Reapers'
    BY <1>0, <1>2, <1>3, <1>5, <2>1, <2>4 DEF Reapers, Alive, CtxLoses
  <2>6. Typed'
    BY <1>0, <1>1, <2>1, <2>3 DEF Typed, CtxLoses
  <2>7. TypeOK'
    BY <2>5, <2>6, TypeIs, PTL
  <2>8. ctx[c].gen = global[e]
    BY <1>5 DEF IInv, CtxInv
  <2>9. \A g \in Gens : \A d \in terminator'[g] : d \in terminator[g] \/ (d = c /\ g = global[e])
    BY <1>0, <1>5, <2>2 DEF Typed
  <2>10. \A g \in Gens : \A d \in terminator'[g] :
           d \in Contexts /\ ctx[d].gen = g /\ ctx'[d].st # "terminated"
    <3> SUFFICES ASSUME NEW g \in Gens, NEW d \in terminator'[g]
                 PROVE  d \in Contexts /\ ctx[d].gen = g /\ ctx'[d].st # "terminated"
      OBVIOUS
    <3>1. CASE d = c /\ g = global[e]
      BY <2>1, <2>8, <3>1
    <3>2. CASE d # c /\ d \in terminator[g]
      BY <1>0, <2>1, <3>2 DEF IInv, CtxInv, Typed, CtxLoses
    <3>3. CASE d = c /\ d \in terminator[g]
      BY <2>1, <3>3 DEF IInv, CtxInv
    <3> QED  BY <2>9, <3>1, <3>2, <3>3
  <2>11. \A g \in Gens : terminator[g] \subseteq terminator'[g]
    BY <1>0, <1>5 DEF Typed
  <2>12. c \in terminator'[ctx[c].gen]
    BY <1>0, <1>5, <2>2, <2>8 DEF Typed
  <2>13. \A d \in Contexts : d \in terminator[ctx[d].gen] => d \in terminator'[ctx[d].gen]
    BY <1>0, <1>5 DEF Typed
  <2>14. \A f \in Envs : Alive(f) => global[f] # c
    BY <1>5, AliveGen, Apart
  <2>15. \A o \in Objects : obj[o].st = "open" /\ stage[obj[o].env] = "up" =>
           obj[o].ctx # c \/ obj[o].observes # {}
    <3> SUFFICES ASSUME NEW o \in Objects, obj[o].st = "open", stage[obj[o].env] = "up",
                        obj[o].ctx = c, obj[o].observes = {}
                 PROVE  FALSE
      OBVIOUS
    <3>1. obj[o].env \in Envs /\ Alive(obj[o].env)
      BY <1>0 DEF Typed, ObjStates, Alive
    <3>2. obj[o].env = e
      BY <1>5, <2>14, <3>1 DEF IInv, ObjInv
    <3> QED  BY <1>5, <3>2 DEF ContextHeld
  <2> QED
    BY <1>5, <2>1, <2>7, <2>10, <2>12, <2>13, <2>14, <2>15, ContextStep
<1> QED  BY <1>4, <1>5 DEF ContextClose

LEMMA CollectContextNext ==
  ASSUME IInv, NEW c \in Own, CollectContext(c)
  PROVE  IInv'
<1>1. c \in Contexts /\ ctx[c].env \in Envs /\ Alive(ctx[c].env)
  BY DEF CollectContext, IInv, TypeOK, CtxStates, Contexts, Alive
<1>2. ctx[c].st = "open" /\ ~ContextHeld(c) /\ ContextClose(ctx[c].env, c)
  BY DEF CollectContext
<1> QED  BY <1>1, <1>2, ContextCloseStep DEF CollectContext

LEMMA ReapContextNext ==
  ASSUME IInv, NEW e \in Envs, NEW c \in Contexts, ReapContext(e, c)
  PROVE  IInv'
<1>1. Alive(e) /\ stage[e] # "up" /\ c \in reaper[e] /\ ContextClose(e, c)
  BY DEF ReapContext, Alive
<1>2. c \in Own => ctx[c].st = "open" /\ ctx[c].env = e
  BY <1>1, TypeIs DEF IInv, Reapers
<1> QED  BY <1>1, <1>2, ContextCloseStep DEF ReapContext

(* The contexts in the terminator of an ended generation are no alive      *)
(* module's, and nothing open there is made from one.                      *)
LEMMA EndedContext ==
  ASSUME IInv, NEW e \in ended, NEW c \in Contexts, ctx[c].gen = global[e]
  PROVE  /\ global[e] \in Gens /\ ctx[c].st # "none"
         /\ ctx[c].st = "open" => c \in Gens
         /\ \A f \in Envs : Alive(f) => global[f] # c
         /\ \A o \in Objects : obj[o].st = "open" => obj[o].ctx # c
<1>1. e \in Envs /\ global[e] \in Gens
  BY DEF IInv, TypeOK, GenInv
<1>2. ctx[c].st # "none"
  BY <1>1, Apart DEF IInv, CtxInv
<1>3. \A f \in Envs : Alive(f) => global[f] # global[e]
  BY DEF IInv, GenInv
<1>4. \A f \in Envs : Alive(f) => global[f] # c
  <2> SUFFICES ASSUME NEW f \in Envs, Alive(f), global[f] = c PROVE FALSE
    OBVIOUS
  <2>1. c \in Gens
    BY AliveGen
  <2>2. ctx[c].gen = c
    BY <1>2, <2>1 DEF IInv, CtxInv
  <2> QED  BY <1>3, <2>2
<1>5. c \in Own => ctx[c].st # "open"
  BY <1>3 DEF IInv, CtxInv, TypeOK, CtxStates
<1>6. ASSUME NEW o \in Objects, obj[o].st = "open", obj[o].ctx = c PROVE FALSE
  <2>1. obj[o].env \in Envs /\ Alive(obj[o].env)
    BY <1>6 DEF IInv, ObjInv, TypeOK, ObjStates
  <2>2. c \in Own /\ ctx[c].env = obj[o].env
    BY <1>4, <1>6, <2>1 DEF IInv, ObjInv
  <2> QED  BY <1>2, <1>3, <2>1, <2>2 DEF IInv, CtxInv
<1> QED  BY <1>1, <1>2, <1>4, <1>5, <1>6 DEF Contexts

LEMMA TerminateNext ==
  ASSUME IInv, NEW e \in Envs, NEW c \in Contexts, Terminate(e, c) \/ Terminated(e, c)
  PROVE  IInv'
<1>0. TypeOK /\ Typed /\ Reapers
  BY TypeIs DEF IInv
<1>1. /\ e \in ended
      /\ c \in terminator[global[e]]
      /\ UNCHANGED <<stage, global, reaper, obj, pending, msg, ended, dangling>>
  BY DEF Terminate, Terminated, Terminating, IInv, GenInv
<1>2. global[e] \in Gens
  BY <1>1 DEF IInv, TypeOK, GenInv
<1>3. ctx[c].gen = global[e] /\ ctx[c].st # "terminated"
  BY <1>1, <1>2 DEF IInv, CtxInv
<1>4. /\ ctx[c].st # "none"
      /\ ctx[c].st = "open" => c \in Gens
      /\ \A f \in Envs : Alive(f) => global[f] # c
      /\ \A o \in Objects : obj[o].st = "open" => obj[o].ctx # c
  BY <1>1, <1>3, EndedContext
<1>5. CtxLoses(c)
  <2>1. CASE Terminate(e, c)
    BY <1>0, <2>1 DEF Typed, CtxStates, CtxLoses, Terminate
  <2>2. CASE Terminated(e, c)
    <3>1. ctx[c] \in CtxStates /\ ctx' = [ctx EXCEPT ![c].st = "terminated"]
      BY <1>0, <2>2 DEF Typed, Terminated
    <3>2. [ctx[c] EXCEPT !.st = "terminated"] \in CtxStates
      BY <3>1 DEF CtxStates
    <3> QED  BY <1>0, <3>1, <3>2 DEF Typed, CtxStates, CtxLoses
  <2> QED  BY <2>1, <2>2
<1>6. terminator' \in [Gens -> SUBSET Contexts]
  BY <1>0 DEF Typed, Terminate, Terminated
<1>7. Reapers'
  <2>1. \A d \in Own : d \in Contexts
    BY DEF Contexts
  <2>2. c \in Own => ctx[c].st # "open"
    BY <1>4, Apart
  <2> QED  BY <1>0, <1>1, <1>5, <2>1, <2>2 DEF Reapers, Alive, CtxLoses
<1>8. Typed'
  BY <1>0, <1>1, <1>5, <1>6 DEF Typed, ReaperType, CtxLoses
<1>9. TypeOK'
  BY <1>7, <1>8, TypeIs, PTL
<1>10. \A g \in Gens : \A d \in terminator'[g] : d \in terminator[g]
  BY <1>0 DEF Typed, Terminate, Terminated
<1>11. \A g \in Gens : \A d \in terminator'[g] : d = c => ctx'[c].st # "terminated"
  <2>1. CASE Terminate(e, c)
    BY <1>0, <2>1 DEF Typed, CtxStates, Terminate
  <2>2. CASE Terminated(e, c)
    BY <1>0, <1>2, <1>3, <2>2 DEF Typed, Terminated, IInv, CtxInv
  <2> QED  BY <2>1, <2>2
<1>12. \A g \in Gens : \A d \in terminator'[g] :
         d \in Contexts /\ ctx[d].gen = g /\ ctx'[d].st # "terminated"
  BY <1>0, <1>5, <1>10, <1>11 DEF Typed, IInv, CtxInv, CtxLoses
<1>13. \A d \in Contexts :
         d # c /\ ctx[d].st # "none" /\ d \in terminator[ctx[d].gen] =>
           d \in terminator'[ctx[d].gen]
  <2> TAKE d \in Contexts
  <2>1. ctx[d].st # "none" => ctx[d].gen \in Gens
    BY <1>0 DEF Typed, CtxStates, IInv, CtxInv
  <2> QED  BY <1>0, <1>2, <2>1 DEF Typed, Terminate, Terminated
<1>14. ctx'[c].st # "terminated" => c \in terminator'[ctx[c].gen]
  BY <1>0, <1>1, <1>3 DEF Typed, CtxStates, Terminate, Terminated
<1>15. \A m \in Msgs : msg[m].place = "queued" =>
         msg[m].ctx # c \/ ctx'[c].st # "terminated"
  BY <1>0 DEF Typed, CtxStates, Terminate, Terminated
<1> QED
  BY <1>1, <1>3, <1>4, <1>5, <1>9, <1>12, <1>13, <1>14, <1>15, ContextStep

-----------------------------------------------------------------------------
(* Steps of the modules themselves.                                        *)

LEMMA LoadNext ==
  ASSUME IInv, NEW e \in Envs, Load(e)
  PROVE  IInv'
<1>0. TypeOK /\ Typed /\ Reapers
  BY TypeIs DEF IInv
<1> DEFINE g == Instance(e)
<1>1. stage[e] = "none" /\ global[e] = 0 /\ ~Alive(e) /\ e \notin ended
  BY DEF Load, IInv, GenInv, Alive
<1>2. /\ g \in Gens /\ g \in Contexts /\ g # 0
      /\ \A f \in Envs : Alive(f) => g = global[f]
      /\ ctx[g].st # "none" => ctx[g].st = "open"
      /\ ctx[g].st # "none" => \E f \in Envs : Alive(f) /\ global[f] = g
  BY <1>0, <1>1, InstanceIs, Apart DEF IInv, Contexts
<1> HIDE DEF g
<1>3. /\ stage' = [stage EXCEPT ![e] = "up"]
      /\ global' = [global EXCEPT ![e] = g]
      /\ reaper' = [reaper EXCEPT ![e] = {g}]
      /\ UNCHANGED <<obj, pending, msg, ended, dangling>>
      /\ \/ ctx[g].st # "none" /\ UNCHANGED <<ctx, terminator>>
         \/ /\ ctx[g].st = "none"
            /\ terminator' = [terminator EXCEPT ![g] = {g}]
            /\ ctx' = [ctx EXCEPT ![g] = [st |-> "open", gen |-> g, env |-> e]]
  BY DEF Load, g
<1>4. /\ stage'[e] = "up" /\ global'[e] = g /\ reaper'[e] = {g}
      /\ \A f \in Envs : f # e => stage'[f] = stage[f] /\ global'[f] = global[f]
                                 /\ reaper'[f] = reaper[f]
  BY <1>0, <1>3 DEF Typed, ReaperType
<1>5. /\ ctx' \in [Contexts -> CtxStates] /\ terminator' \in [Gens -> SUBSET Contexts]
      /\ \A d \in Contexts : d # g => ctx'[d] = ctx[d]
      /\ ctx'[g].st = "open" /\ ctx'[g].gen = g
  <2>1. CASE ctx[g].st # "none" /\ UNCHANGED <<ctx, terminator>>
    BY <1>0, <1>2, <2>1 DEF Typed, IInv, CtxInv
  <2>2. CASE /\ ctx[g].st = "none"
             /\ terminator' = [terminator EXCEPT ![g] = {g}]
             /\ ctx' = [ctx EXCEPT ![g] = [st |-> "open", gen |-> g, env |-> e]]
    BY <1>0, <1>2, <2>2 DEF Typed, CtxStates
  <2> QED  BY <1>3, <2>1, <2>2
<1>6. \A d \in Own : d \in Contexts /\ ctx'[d] = ctx[d] /\ d # g
  BY <1>2, <1>5, Apart DEF Contexts
<1>7. \A o \in Objects : o # g
  BY <1>2, Apart
<1>8. \A d \in Own : ctx[d].st # "none" => ctx[d].env # e
  BY <1>0, <1>1, <1>6 DEF IInv, CtxInv, Typed, CtxStates
<1>9. \A o \in Objects : obj[o].st = "open" => obj[o].env # e
  BY <1>1 DEF IInv, ObjInv
<1>10. TypeOK'
  <2>1. Reapers'
    <3> SUFFICES ASSUME NEW f \in Envs
                 PROVE  /\ \A o \in Objects : o \in reaper'[f] <=>
                             stage'[f] \in {"up", "reaping"} /\ obj[o].st = "open" /\ obj[o].env = f
                        /\ \A c \in Own : c \in reaper'[f] <=>
                             stage'[f] \in {"up", "reaping"} /\ ctx[c].st = "open" /\ ctx[c].env = f
      BY <1>3, <1>6 DEF Reapers, Alive
    <3>1. CASE f = e
      BY <1>4, <1>6, <1>7, <1>8, <1>9, <3>1
    <3>2. CASE f # e
      BY <1>0, <1>4, <3>2 DEF Reapers, Alive
    <3> QED  BY <3>1, <3>2
  <2>2. Typed'
    BY <1>0, <1>2, <1>3, <1>5 DEF Typed, Stages, ReaperType
  <2> QED  BY <2>1, <2>2, TypeIs, PTL
<1>11. \A f \in ended : /\ f \in Envs /\ f # e /\ global[f] # g
                         /\ global[f] # 0
  <2> TAKE f \in ended
  <2>1. f \in Envs /\ f # e /\ global[f] # 0
    BY <1>0, <1>1 DEF Typed, IInv, GenInv
  <2>2. global[f] # g
    BY <1>2, <2>1 DEF IInv, GenInv
  <2> QED  BY <2>1, <2>2
<1>12. GenInv'
  <2>1. (\A f \in Envs : (stage[f] = "none") <=> (global[f] = 0))'
    BY <1>2, <1>4 DEF IInv, GenInv
  <2>2. (\A h \in Gens : ctx[h].st # "none" => \E f \in Envs : global[f] = h)'
    <3> SUFFICES ASSUME NEW h \in Gens, ctx'[h].st # "none"
                 PROVE  \E f \in Envs : global'[f] = h
      OBVIOUS
    <3>1. CASE h = g
      BY <1>4, <3>1
    <3>2. CASE h # g
      <4>1. ctx[h].st # "none"
        BY <1>5, <3>2 DEF Contexts
      <4>2. PICK f \in Envs : global[f] = h
        BY <4>1 DEF IInv, GenInv
      <4>3. f # e
        BY <1>1, <4>2, Apart
      <4> QED  BY <1>4, <4>2, <4>3
    <3> QED  BY <3>1, <3>2
  <2>3. \A f \in Envs : f # e /\ global[f] # 0 => global[f] \in Contexts /\ ctx[global[f]].st # "none"
    BY <1>0 DEF Typed, IInv, GenInv, Contexts
  <2>4. (\A f \in Envs : global[f] # 0 => ctx[global[f]].st # "none")'
    BY <1>4, <1>5, <2>3
  <2>5. \A f \in Envs : stage'[f] \in {"up", "reaping"} => global'[f] = g
    BY <1>2, <1>4 DEF Alive
  <2>6. (\A f \in Envs : stage[f] = "terminating" => f \in ended)'
    BY <1>3, <1>4 DEF IInv, GenInv
  <2>7. (\A f \in ended : stage[f] \in {"terminating", "gone"})'
    BY <1>3, <1>4, <1>11 DEF IInv, GenInv
  <2>8. (\A f \in ended : \A h \in Envs : global[h] = global[f] => ~Alive(h))'
    BY <1>3, <1>4, <1>11, <2>5 DEF Alive
  <2> QED  BY <1>5, <2>1, <2>2, <2>4, <2>5, <2>6, <2>7, <2>8 DEF GenInv, Alive
<1>13. CtxInv'
  <2>1. (\A d \in Contexts : (ctx[d].st = "none") <=> (ctx[d].gen = 0))'
    BY <1>2, <1>5 DEF IInv, CtxInv
  <2>2. (\A h \in Gens : ctx[h].st # "none" => ctx[h].gen = h)'
    BY <1>5 DEF IInv, CtxInv, Contexts
  <2>3. \A d \in Own : ctx[d].st # "none" =>
          ctx[d].env \in Envs /\ stage'[ctx[d].env] = stage[ctx[d].env]
          /\ global'[ctx[d].env] = global[ctx[d].env]
    BY <1>0, <1>4, <1>6, <1>8 DEF Typed, CtxStates
  <2>4. (\A d \in Own : ctx[d].st # "none" => ctx[d].gen = global[ctx[d].env])'
    BY <1>6, <2>3 DEF IInv, CtxInv
  <2>5. (\A d \in Own : ctx[d].st = "open" => Alive(ctx[d].env))'
    BY <1>6, <2>3 DEF IInv, CtxInv, Alive
  <2>6. (\A h \in Gens : \A d \in terminator[h] :
           ctx[d].gen = h /\ ctx[d].st # "terminated")'
    <3> SUFFICES ASSUME NEW h \in Gens, NEW d \in terminator'[h]
                 PROVE  ctx'[d].gen = h /\ ctx'[d].st # "terminated"
      OBVIOUS
    <3>1. d \in terminator[h] \/ (d = g /\ h = g)
      BY <1>0, <1>3 DEF Typed
    <3>2. CASE d = g /\ h = g
      BY <1>5, <3>2
    <3>3. CASE d \in terminator[h] /\ d # g
      BY <1>0, <1>5, <3>3 DEF IInv, CtxInv, Typed
    <3>4. CASE d \in terminator[h] /\ d = g
      <4>1. ctx[g].gen = h /\ h # 0
        BY <3>4, Apart DEF IInv, CtxInv
      <4>2. h = g
        BY <1>2, <4>1 DEF IInv, CtxInv
      <4> QED  BY <1>5, <3>4, <4>2
    <3> QED  BY <3>1, <3>2, <3>3, <3>4
  <2>7. (\A d \in Contexts :
          \/ ctx[d].st \in {"shutdown", "terminating"}
          \/ d \in Gens /\ ctx[d].st = "open"
          => d \in terminator[ctx[d].gen])'
    <3> SUFFICES ASSUME NEW d \in Contexts,
                        \/ ctx'[d].st \in {"shutdown", "terminating"}
                        \/ d \in Gens /\ ctx'[d].st = "open"
                 PROVE  d \in terminator'[ctx'[d].gen]
      OBVIOUS
    <3>1. CASE d = g
      BY <1>0, <1>2, <1>3, <1>5, <3>1 DEF Typed, IInv, CtxInv
    <3>2. CASE d # g
      <4>1. ctx'[d] = ctx[d] /\ d \in terminator[ctx[d].gen]
        BY <1>5, <3>2 DEF IInv, CtxInv
      <4>2. ctx[d].gen \in Gens
        BY <1>0, <1>5, <3>2 DEF IInv, CtxInv, Typed, CtxStates
      <4>3. ctx[g].st = "none" => ctx[d].gen # g
        <5>1. CASE d \in Gens
          BY <1>2, <3>2, <4>2, <5>1, Apart DEF IInv, CtxInv
        <5>2. CASE d \in Own
          <6>1. ctx[d].env \in Envs /\ ctx[d].gen = global[ctx[d].env]
            BY <1>0, <4>2, <5>2, Apart DEF Typed, CtxStates, IInv, CtxInv
          <6> QED  BY <1>2, <6>1 DEF IInv, GenInv
        <5> QED  BY <5>1, <5>2 DEF Contexts
      <4> QED  BY <1>0, <1>3, <4>1, <4>2, <4>3 DEF Typed
    <3> QED  BY <3>1, <3>2
  <2> QED  BY <2>1, <2>2, <2>4, <2>5, <2>6, <2>7 DEF CtxInv
<1>14. ObjInv'
  <2>1. \A o \in Objects : obj[o].st = "open" =>
          /\ stage'[obj[o].env] = stage[obj[o].env]
          /\ global'[obj[o].env] = global[obj[o].env]
    BY <1>0, <1>4, <1>9 DEF Typed, ObjStates
  <2> QED  BY <1>3, <1>6, <2>1 DEF IInv, ObjInv, Alive
<1>15. MsgInv'
  <2> SUFFICES ASSUME NEW m \in Msgs
               PROVE  /\ msg[m].place = "queued" =>
                           /\ ctx'[msg[m].ctx].gen = global'[msg[m].env]
                           /\ ctx'[msg[m].ctx].st \notin {"none", "terminated"}
                           /\ stage'[msg[m].env] # "none"
                      /\ msg[m].place = "lost from queue" =>
                           stage'[msg[m].env] = "gone" /\ msg[m].env \notin ended
    BY <1>3 DEF MsgInv
  <2>1. msg[m].ctx \in Contexts /\ msg[m].env \in Envs
    BY <1>0 DEF Typed, MsgStates
  <2>2. msg[m].place \in {"queued", "lost from queue"} => msg[m].env # e
    BY <1>1 DEF IInv, MsgInv
  <2>3. ctx[msg[m].ctx].st \notin {"none", "terminated"} =>
          /\ ctx'[msg[m].ctx].st \notin {"none", "terminated"}
          /\ ctx'[msg[m].ctx].gen = ctx[msg[m].ctx].gen
    BY <1>2, <1>5, <2>1 DEF IInv, CtxInv
  <2> QED  BY <1>4, <1>5, <2>1, <2>2, <2>3 DEF IInv, MsgInv
<1>16. EndInv'
  BY <1>3, <1>4, <1>5, <1>11 DEF IInv, EndInv
<1> QED  BY <1>3, <1>10, <1>12, <1>13, <1>14, <1>15, <1>16 DEF IInv

LEMMA ContextsKept ==
  ASSUME IInv, UNCHANGED <<global, terminator, ctx>>,
         \A c \in Own : ctx[c].st = "open" => stage'[ctx[c].env] \in {"up", "reaping"}
  PROVE  CtxInv'
BY DEF IInv, CtxInv, Alive

LEMMA TearDownNext ==
  ASSUME IInv, NEW e \in Envs, TearDown(e)
  PROVE  IInv'
<1>0. TypeOK /\ Typed /\ Reapers
  BY TypeIs DEF IInv
<1>1. /\ stage[e] = "up" /\ stage'[e] = "reaping"
      /\ \A f \in Envs : f # e => stage'[f] = stage[f]
      /\ stage' \in [Envs -> Stages]
      /\ UNCHANGED <<global, reaper, terminator, ctx, obj, pending, msg, ended, dangling>>
  BY <1>0 DEF TearDown, Typed, Stages
<1>2. \A f \in Envs : stage'[f] \in {"up", "reaping"} <=> Alive(f)
  BY <1>1 DEF Alive
<1>3. TypeOK'
  <2>1. Reapers'  BY <1>0, <1>1, <1>2 DEF Reapers, Alive
  <2>2. Typed'  BY <1>0, <1>1 DEF Typed, ReaperType
  <2> QED  BY <2>1, <2>2, TypeIs, PTL
<1>4. GenInv'
  <2>1. e \notin ended  BY <1>1 DEF IInv, GenInv
  <2> QED  BY <1>0, <1>1, <1>2, <2>1 DEF IInv, GenInv, Alive, Typed
<1>5. CtxInv'
  <2>1. \A c \in Own : ctx[c].st = "open" => stage'[ctx[c].env] \in {"up", "reaping"}
    BY <1>0, <1>2 DEF IInv, CtxInv, Typed, CtxStates, Contexts
  <2> QED  BY <1>1, <2>1, ContextsKept
<1>6. ObjInv'
  <2>1. \A o \in Objects : obj[o].env \in Envs
    BY <1>0 DEF Typed, ObjStates
  <2>2. \A f \in Envs : stage'[f] = "up" => stage[f] = "up"
    BY <1>1
  <2> QED  BY <1>1, <1>2, <2>1, <2>2 DEF IInv, ObjInv, Alive
<1>7. MsgInv'
  <2> SUFFICES ASSUME NEW m \in Msgs
               PROVE  /\ msg[m].place = "queued" => stage'[msg[m].env] # "none"
                      /\ msg[m].place = "lost from queue" => stage'[msg[m].env] = "gone"
    BY <1>1 DEF IInv, MsgInv
  <2>1. msg[m].env \in Envs
    BY <1>0 DEF Typed, MsgStates
  <2> QED  BY <1>1, <2>1 DEF IInv, MsgInv
<1>8. EndInv'
  BY <1>0, <1>1 DEF IInv, EndInv, Typed
<1> QED  BY <1>1, <1>3, <1>4, <1>5, <1>6, <1>7, <1>8 DEF IInv

(* A module whose reaper is empty has nothing open left.                   *)
LEMMA ReleaseGlobalNext ==
  ASSUME IInv, NEW e \in Envs, ReleaseGlobal(e)
  PROVE  IInv'
<1>0. TypeOK /\ Typed /\ Reapers
  BY TypeIs DEF IInv
<1>1. /\ stage[e] = "reaping" /\ stage'[e] \in {"terminating", "released"}
      /\ \A f \in Envs : f # e => stage'[f] = stage[f]
      /\ stage' \in [Envs -> Stages]
      /\ UNCHANGED <<global, reaper, terminator, ctx, obj, pending, msg, dangling>>
  BY <1>0 DEF ReleaseGlobal, Typed, Stages
<1>2. /\ ended \subseteq ended' /\ ended' \subseteq ended \cup {e}
      /\ stage'[e] = "terminating" => e \in ended'
      /\ e \in ended' \ ended =>
           /\ stage'[e] = "terminating"
           /\ \A f \in Envs \ {e} : global[f] = global[e] => ~Alive(f)
  BY <1>0 DEF ReleaseGlobal, Typed, Alive
<1>3. e \notin ended
  BY <1>1 DEF IInv, GenInv
<1>4. \A f \in Envs : stage'[f] \in {"up", "reaping"} <=> Alive(f) /\ f # e
  BY <1>1 DEF Alive
<1>5. /\ \A o \in Objects : obj[o].st = "open" => obj[o].env # e
      /\ \A c \in Own : ctx[c].st = "open" => ctx[c].env # e
  BY <1>0, <1>1 DEF Reapers, ReleaseGlobal, Alive
<1>6. TypeOK'
  <2>1. \A f \in Envs : f = e => \A x : x \notin reaper[f]
    BY DEF ReleaseGlobal
  <2>2. Reapers'  BY <1>0, <1>1, <1>4, <2>1 DEF Reapers, Alive
  <2>3. Typed'  BY <1>0, <1>1, <1>2 DEF Typed, ReaperType
  <2> QED  BY <2>2, <2>3, TypeIs, PTL
<1>7. GenInv'
  <2>1. (\A f \in ended : /\ stage[f] \in {"terminating", "gone"}
                          /\ \A h \in Envs : global[h] = global[f] => ~Alive(h))'
    <3> SUFFICES ASSUME NEW f \in ended'
                 PROVE  /\ stage'[f] \in {"terminating", "gone"}
                        /\ \A h \in Envs : global[h] = global[f] =>
                             stage'[h] \notin {"up", "reaping"}
      BY <1>1 DEF Alive
    <3>1. CASE f \in ended
      BY <1>0, <1>1, <1>3, <1>4, <3>1 DEF IInv, GenInv, Typed
    <3>2. CASE f = e /\ f \notin ended
      BY <1>2, <1>4, <3>2
    <3> QED  BY <1>2, <3>1, <3>2
  <2>2. (\A f \in Envs : stage[f] = "terminating" => f \in ended)'
    BY <1>1, <1>2 DEF IInv, GenInv
  <2>3. (\A f \in Envs : (stage[f] = "none") <=> (global[f] = 0))'
    BY <1>1 DEF IInv, GenInv
  <2> QED  BY <1>1, <1>4, <2>1, <2>2, <2>3 DEF IInv, GenInv, Alive
<1>8. CtxInv'
  <2>1. \A c \in Own : ctx[c].st = "open" => stage'[ctx[c].env] \in {"up", "reaping"}
    BY <1>0, <1>4, <1>5 DEF IInv, CtxInv, Typed, CtxStates, Contexts
  <2> QED  BY <1>1, <2>1, ContextsKept
<1>9. ObjInv'
  <2>1. \A o \in Objects : obj[o].env \in Envs
    BY <1>0 DEF Typed, ObjStates
  <2>2. \A f \in Envs : stage'[f] = "up" => stage[f] = "up"
    BY <1>1
  <2> QED  BY <1>1, <1>4, <1>5, <2>1, <2>2 DEF IInv, ObjInv, Alive
<1>10. MsgInv'
  <2> SUFFICES ASSUME NEW m \in Msgs
               PROVE  /\ msg[m].place = "queued" => stage'[msg[m].env] # "none"
                      /\ msg[m].place = "lost from queue" =>
                           stage'[msg[m].env] = "gone" /\ msg[m].env \notin ended'
    BY <1>1 DEF IInv, MsgInv
  <2>1. msg[m].env \in Envs
    BY <1>0 DEF Typed, MsgStates
  <2> QED  BY <1>1, <1>2, <2>1 DEF IInv, MsgInv
<1>11. EndInv'
  BY <1>0, <1>1, <1>2 DEF IInv, EndInv, Typed
<1> QED  BY <1>1, <1>6, <1>7, <1>8, <1>9, <1>10, <1>11 DEF IInv

(* A module that has ended leaves no context of its generation behind.     *)
LEMMA LeaveNext ==
  ASSUME IInv, NEW e \in Envs, Leave(e)
  PROVE  IInv'
<1>0. TypeOK /\ Typed /\ Reapers
  BY TypeIs DEF IInv
<1>1. /\ stage[e] \in {"released", "terminating"} /\ stage'[e] = "gone"
      /\ \A f \in Envs : f # e => stage'[f] = stage[f]
      /\ stage' \in [Envs -> Stages]
      /\ UNCHANGED <<global, reaper, terminator, ctx, obj, pending, ended, dangling>>
  BY <1>0 DEF Leave, Typed, Stages
<1>2. \A f \in Envs : stage'[f] \in {"up", "reaping"} <=> Alive(f)
  BY <1>1 DEF Alive
<1>3. /\ msg' \in [Msgs -> MsgStates]
      /\ \A n \in Msgs : msg'[n] = msg[n] \/ msg'[n].place = "released"
  BY <1>0, TrashEmptied DEF Leave
<1>4. TypeOK'
  <2>1. Reapers'  BY <1>0, <1>1, <1>2 DEF Reapers, Alive
  <2>2. Typed'  BY <1>0, <1>1, <1>3 DEF Typed, ReaperType
  <2> QED  BY <2>1, <2>2, TypeIs, PTL
<1>5. GenInv'
  BY <1>0, <1>1, <1>2 DEF IInv, GenInv, Alive, Typed
<1>6. CtxInv'
  <2>1. \A c \in Own : ctx[c].st = "open" => stage'[ctx[c].env] \in {"up", "reaping"}
    BY <1>0, <1>2 DEF IInv, CtxInv, Typed, CtxStates, Contexts
  <2> QED  BY <1>1, <2>1, ContextsKept
<1>7. ObjInv'
  <2>1. \A o \in Objects : obj[o].env \in Envs
    BY <1>0 DEF Typed, ObjStates
  <2>2. \A f \in Envs : stage'[f] = "up" => stage[f] = "up"
    BY <1>1
  <2> QED  BY <1>1, <1>2, <2>1, <2>2 DEF IInv, ObjInv, Alive
<1>8. MsgInv'
  <2> SUFFICES ASSUME NEW m \in Msgs, msg'[m] = msg[m]
               PROVE  /\ msg[m].place = "queued" => stage'[msg[m].env] # "none"
                      /\ msg[m].place = "lost from queue" => stage'[msg[m].env] = "gone"
    BY <1>1, <1>3 DEF IInv, MsgInv
  <2>1. msg[m].env \in Envs
    BY <1>0 DEF Typed, MsgStates
  <2> QED  BY <1>1, <2>1 DEF IInv, MsgInv
<1>9. EndInv'
  <2> SUFFICES ASSUME NEW f \in ended, stage'[f] = "gone", NEW c \in Contexts,
                      ctx[c].gen = global[f]
               PROVE  ctx[c].st = "terminated"
    BY <1>1 DEF EndInv
  <2>1. CASE f # e
    BY <1>0, <1>1, <2>1 DEF IInv, EndInv, Typed
  <2>2. CASE f = e
    <3>1. terminator[global[e]] = {}
      BY <2>2 DEF Leave, IInv, GenInv
    <3>2. ctx[c].st # "none" /\ (ctx[c].st = "open" => c \in Gens)
      BY <2>2, EndedContext
    <3>3. ctx[c].st \notin {"shutdown", "terminating", "open"}
      BY <2>2, <3>1, <3>2 DEF IInv, CtxInv
    <3> QED  BY <1>0, <3>2, <3>3 DEF Typed, CtxStates
  <2> QED  BY <2>1, <2>2
<1> QED  BY <1>1, <1>4, <1>5, <1>6, <1>7, <1>8, <1>9 DEF IInv

-----------------------------------------------------------------------------
LEMMA InvNext == IInv /\ [Next]_vars => IInv'
<1> SUFFICES ASSUME IInv, [Next]_vars PROVE IInv'
  OBVIOUS
<1>1. ASSUME NEW e \in Envs,
             \/ Load(e)
             \/ \E c \in Own : CreateContext(e, c)
             \/ \E o \in Objects : \/ \E c \in Contexts : CreateSocket(e, o, c)
                                   \/ \E s \in Objects : CreateObserver(e, o, s)
             \/ ClearTrash(e)
             \/ TearDown(e)
      PROVE  IInv'
  BY <1>1, LoadNext, CreateContextNext, CreateSocketNext, CreateObserverNext,
     ClearTrashNext, TearDownNext
<1>2. ASSUME NEW e \in Envs, Unload(e) PROVE IInv'
  BY <1>2, ObjectsNext, ReapContextNext, TerminateNext, ReleaseGlobalNext, LeaveNext
     DEF Unload
<1>3. ASSUME NEW c \in Own, CollectContext(c) PROVE IInv'
  BY <1>3, CollectContextNext
<1>4. ASSUME NEW o \in Objects,
             \/ \E kind \in {"job", "delayed"} : Call(o, kind)
             \/ Callback(o) \/ CloseObject(o) \/ CollectObject(o)
      PROVE  IInv'
  BY <1>4, ObjectsNext
<1>5. ASSUME NEW m \in Msgs,
             \/ \E o \in Objects : Send(o, m) \/ Receive(o, m)
             \/ IoDone(m) \/ Finalize(m)
      PROVE  IInv'
  BY <1>5, MessagesNext
<1>6. CASE UNCHANGED vars
  <2>1. MsgStep /\ msg' = msg
    BY <1>6 DEF vars, MsgStep
  <2>2. msg' \in [Msgs -> MsgStates] /\ MsgInv'
    BY <2>1 DEF IInv, TypeOK, MsgInv, MsgStep
  <2> QED  BY <2>1, <2>2, MessageStep
<1> QED
  BY <1>1, <1>2, <1>3, <1>4, <1>5, <1>6 DEF Next

LEMMA InvAlways == Spec => []IInv
<1>1. Init => IInv  BY InvInit
<1>2. IInv /\ [Next]_vars => IInv'  BY InvNext
<1> QED  BY <1>1, <1>2, PTL DEF Spec

(* Every variable keeps its type, and a reaper holds exactly the open      *)
(* objects and contexts of its module: what is closed, by whichever of     *)
(* close(), the collector, a callback and the reaper comes first, is       *)
(* unregistered, so that ~Reaper follows no stale pointer (reaper.h).      *)
THEOREM LifecycleTypeCorrect == Spec => []TypeOK
<1>1. IInv => TypeOK  BY DEF IInv
<1> QED  BY <1>1, InvAlways, PTL

(* The buffer of a message still in libzmq's queues is never lost with the *)
(* last module of its generation, whose destruction order terminates the   *)
(* contexts before the trash (module.h); and close() never takes a socket  *)
(* from its worker.                                                        *)
THEOREM NothingDangles == Spec => []Dangling
<1>1. IInv => Dangling  BY DEF IInv, MsgInv, Dangling
<1> QED  BY <1>1, InvAlways, PTL

(* For any number of environments that load and unload the module in any   *)
(* order: those that are up share one default context, no open socket of   *)
(* theirs loses its context, and the last one leaves none behind.          *)
THEOREM ContextsOutlive == Spec => []ContextLaw
<1>1. IInv => ContextLaw
  <2> SUFFICES ASSUME IInv PROVE ContextLaw
    OBVIOUS
  <2>1. \A e, f \in Envs :
          stage[e] = "up" /\ stage[f] = "up" => global[e] = global[f]
    BY DEF IInv, GenInv, Alive
  <2>2. ASSUME NEW o \in Objects, obj[o].st = "open", stage[obj[o].env] = "up"
        PROVE  \/ ctx[obj[o].ctx].st = "open"
               \/ obj[o].ctx \in Own /\ \E s \in obj[o].observes : obj[s].st # "open"
    <3>1. obj[o].env \in Envs /\ obj[o].observes \subseteq Objects
      BY DEF IInv, TypeOK, ObjStates
    <3>2. CASE obj[o].ctx = global[obj[o].env]
      BY <2>2, <3>1, <3>2 DEF IInv, GenInv, Alive
    <3>3. CASE obj[o].ctx \in Own /\ obj[o].observes = {}
      BY <2>2, <3>3 DEF IInv, ObjInv
    <3>4. CASE /\ obj[o].ctx \in Own /\ ctx[obj[o].ctx].env = obj[o].env
               /\ obj[o].observes # {}
               /\ \A s \in obj[o].observes : obj[s].st = "open"
      <4>1. PICK s \in obj[o].observes : s \in Objects /\ obj[s].st = "open"
        BY <3>1, <3>4
      <4>2. obj[s].observes = {} /\ obj[s].ctx = obj[o].ctx
        BY <2>2, <4>1 DEF IInv, ObjInv
      <4>3. obj[s].env = obj[o].env
        <5>1. obj[s].env \in Envs /\ Alive(obj[s].env)
          BY <4>1 DEF IInv, ObjInv, TypeOK, ObjStates
        <5>2. obj[s].ctx # global[obj[s].env]
          BY <3>4, <4>2, <5>1, AliveGen, Apart
        <5> QED  BY <3>4, <4>1, <4>2, <5>2 DEF IInv, ObjInv
      <4> QED  BY <2>2, <3>4, <4>1, <4>2, <4>3 DEF IInv, ObjInv
    <3> QED  BY <2>2, <3>2, <3>3, <3>4 DEF IInv, ObjInv
  <2>3. \A e \in ended : stage[e] = "gone" =>
          \A c \in Contexts : ctx[c].gen = global[e] => ctx[c].st = "terminated"
    BY DEF IInv, EndInv
  <2> QED  BY <2>1, <2>2, <2>3 DEF ContextLaw
<1> QED  BY <1>1, InvAlways, PTL

-----------------------------------------------------------------------------
(* zmq_ctx_term waits for the sockets of its context and for the messages  *)
(* in its queues.  What the last module of a generation terminates has no  *)
(* open socket, of its own or of another thread's module.                  *)
TermReady ==
  \A e \in Envs : stage[e] = "terminating" =>
    \A c \in terminator[global[e]] :
      /\ ctx[c].st # "terminated"
      /\ \A o \in Objects : obj[o].ctx = c => obj[o].st # "open"

(* Terminator (module.h:23-55) calls zmq_ctx_term when no thread is left   *)
(* to close a socket: it must find all of them closed, or the process      *)
(* hangs as it exits.  For any number of environments it does, so that     *)
(* only a message that no peer takes can hold it (the safety half of       *)
(* TeardownEnds).                                                          *)
THEOREM NoSocketBlocksTerm == Spec => []TermReady
<1>1. IInv => TermReady
  <2> SUFFICES ASSUME IInv, NEW e \in Envs, stage[e] = "terminating",
                      NEW c \in terminator[global[e]]
               PROVE  /\ ctx[c].st # "terminated"
                      /\ \A o \in Objects : obj[o].ctx = c => obj[o].st # "open"
    BY DEF TermReady
  <2>1. e \in ended /\ global[e] \in Gens
    BY DEF IInv, GenInv, TypeOK
  <2>2. c \in Contexts /\ ctx[c].gen = global[e] /\ ctx[c].st # "terminated"
    BY <2>1 DEF IInv, CtxInv, TypeOK
  <2> QED  BY <2>1, <2>2, EndedContext
<1> QED  BY <1>1, InvAlways, PTL
=============================================================================
