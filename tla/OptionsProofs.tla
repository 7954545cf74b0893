---------------------------- MODULE OptionsProofs ----------------------------
(***************************************************************************)
(* Theorems about Options, for every build, class, option and value and    *)
(* for every width of integers and doubles: the ids that connect() gives   *)
(* to connections, the copy of a timeout that send() and receive() use,    *)
(* the verbosity of an XPublisher, and that every interface reads what was *)
(* written through any.  The tables of SocketTypes and of the compatibility*)
(* layer enter through a few lemmas: two accessors of one cell treat it    *)
(* alike (SameCell), a way to write converts by the type of the option     *)
(* (WayConverts), and getsockopt() has one source per number (OneSource).  *)
(***************************************************************************)
EXTENDS NumberProofs

(* An id that libzmq still has for the next connection was asked for by a  *)
(* call that has thrown.                                                   *)
RoutingInv ==
  /\ routing = None \/ routing \in leftover
  /\ RoutingIdLaw

LEMMA WriteKeepsRouting ==
  ASSUME NEW way, Write(way) \/ WriteVerbosity(way)
  PROVE  UNCHANGED <<kind, focus, routing, leftover, conn>>
BY DEF Write, WriteVerbosity

LEMMA RoutingNext == RoutingInv /\ [Next]_vars => RoutingInv'
<1> SUFFICES ASSUME RoutingInv, [Next]_vars PROVE RoutingInv'
  OBVIOUS
<1>1. ASSUME UNCHANGED <<routing, leftover, conn>> PROVE RoutingInv'
  BY <1>1 DEF RoutingInv, RoutingIdLaw
<1>2. ASSUME NEW way \in Ways, Write(way) \/ WriteVerbosity(way) PROVE RoutingInv'
  BY <1>1, <1>2, WriteKeepsRouting
<1>3. ASSUME NEW asked \in RoutingIds \cup {None}, NEW ok \in BOOLEAN, Connect(asked, ok)
      PROVE  RoutingInv'
  <2> DEFINE next == IF asked # None THEN asked ELSE routing
  <2>1. CASE ok
    <3>1. /\ conn' = [asked |-> asked, got |-> next, left |-> leftover]
          /\ routing' = None
      BY <1>3, <2>1 DEF Connect
    <3>2. next = asked \/ (asked = None /\ next \in leftover)
      BY DEF RoutingInv
    <3> QED  BY <3>1, <3>2 DEF RoutingInv, RoutingIdLaw
  <2>2. CASE ~ok
    <3>1. routing' = next /\ leftover' = leftover \cup ({asked} \ {None}) /\ conn' = conn
      BY <1>3, <2>2 DEF Connect
    <3>2. next = None \/ next \in leftover'
      BY <3>1 DEF RoutingInv
    <3> QED  BY <3>1, <3>2 DEF RoutingInv, RoutingIdLaw
  <2> QED  BY <2>1, <2>2
<1>4. CASE UNCHANGED vars
  BY <1>1, <1>4 DEF vars
<1> QED  BY <1>2, <1>3, <1>4 DEF Next

(* Whatever ids are used, in whatever order calls of connect() succeed and *)
(* throw: a connection has the id it asked for, or it asked for none and   *)
(* inherits one of a call that has thrown since the last connection.       *)
THEOREM RoutingIdsKept == Spec => []RoutingIdLaw
<1>1. Init => RoutingInv
  <2> SUFFICES ASSUME Init PROVE RoutingInv
    OBVIOUS
  <2>1. routing = None /\ conn = [asked |-> None, got |-> None, left |-> {}]
    BY DEF Init
  <2> QED  BY <2>1 DEF RoutingInv, RoutingIdLaw
<1>2. RoutingInv => RoutingIdLaw
  BY DEF RoutingInv
<1> QED  BY <1>1, <1>2, RoutingNext, PTL DEF Spec

-----------------------------------------------------------------------------
LEMMA MirroredNext == Mirrored /\ [Next]_vars => Mirrored'
<1> SUFFICES ASSUME Mirrored, [Next]_vars PROVE Mirrored'
  OBVIOUS
<1>1. ASSUME NEW way \in Ways, Write(way) PROVE Mirrored'
  BY <1>1 DEF Write, Assign, Mirrored
<1>2. ASSUME NEW way \in Ways, WriteVerbosity(way) PROVE Mirrored'
  BY <1>2 DEF WriteVerbosity, SetVerbosity, Mirrored
<1>3. ASSUME NEW asked \in RoutingIds \cup {None}, NEW ok \in BOOLEAN, Connect(asked, ok)
      PROVE  Mirrored'
  BY <1>3 DEF Connect, Mirrored
<1>4. CASE UNCHANGED vars
  BY <1>4 DEF vars, Mirrored
<1> QED  BY <1>1, <1>2, <1>3, <1>4 DEF Next

(* The timeout that send() and receive() use is the one libzmq has, for    *)
(* every value and width and by whatever interface it was set              *)
(* (socket.cc:818-826).  This is the first part of RoundTrip.               *)
THEOREM TimeoutMirrored == Spec => []Mirrored
<1>1. Init => Mirrored
  BY DEF Init, Mirrored
<1> QED  BY <1>1, MirroredNext, PTL DEF Spec

-----------------------------------------------------------------------------
(* The tables.                                                             *)

LEMMA Row ==
  ASSUME NEW targets, NEW type, NEW acc, NEW names,
         NEW o \in DefineOpts(targets, type, acc, names)
  PROVE  \E n \in names : /\ o.name = n[1] /\ o.id = n[2] /\ o.values = <<>>
                          /\ o.type = type /\ o.acc = acc /\ o.targets = targets
BY DEF DefineOpts

(* No accessor is made by defineOpt() for the cell of the verbosity.       *)
LEMMA NoAccessorOf40 ==
  ASSUME NEW o \in ContextOptions \cup BufferOptions \cup ClassOptions \cup SocketOptions
                     \cup CurveOptions \cup GssapiOptions
  PROVE  o.id # 40
<1>1. CASE o \in ContextOptions
  BY <1>1, Row DEF ContextOptions
<1>2. CASE o \in BufferOptions
  BY <1>2, Row DEF BufferOptions
<1>3. CASE o \in ClassOptions
  BY <1>3, Row DEF ClassOptions
<1>4. CASE o \in SocketOptions
  BY <1>4, Row DEF SocketOptions, MechanismOption
<1>5. CASE o \in CurveOptions
  BY <1>5, Row DEF CurveOptions
<1>6. CASE o \in GssapiOptions
  BY <1>6, Row DEF GssapiOptions, NameTypeOption
<1> QED  BY <1>1, <1>2, <1>3, <1>4, <1>5, <1>6

(* The kinds of objects there are.                                         *)
Kinds ==
  /\ capability \in SUBSET {"curve", "gssapi"}
  /\ kind \in SocketKinds \cup {"Context"}

LEMMA AccessorsAre ==
  ASSUME NEW c \in SUBSET {"curve", "gssapi"}, NEW k \in SocketKinds \cup {"Context"}
  PROVE  Accessors[c][k] \subseteq
           ContextOptions \cup BufferOptions \cup ClassOptions \cup SocketOptions
             \cup CurveOptions \cup GssapiOptions
BY DEF Accessors

LEMMA NoWriteOf40 ==
  ASSUME capability \in SUBSET {"curve", "gssapi"}, kind \in SocketKinds \cup {"Context"},
         focus = 40, NEW way, Write(way)
  PROVE  FALSE
<1>1. PICK o \in Defined, x \in Values :
        Assign(o, SetConversion(way.convert, Argument(way.key, x)))
  BY DEF Write
<1>2. o.id = 40
  BY <1>1 DEF Assign
<1>3. o \in ContextOptions \cup BufferOptions \cup ClassOptions \cup SocketOptions
              \cup CurveOptions \cup GssapiOptions
  BY <1>1, AccessorsAre DEF Defined
<1> QED  BY <1>2, <1>3, NoAccessorOf40

(* setsockopt() sets the verbosity with true or false; there is no short   *)
(* property for it.                                                        *)
LEMMA VerboseTarget ==
  ASSUME NEW s \in SetTargets, s.prop = "verbosity"
  PROVE  s.id = 40 /\ s.convert = "verbose"
<1>1. ASSUME NEW convert, NEW names, NEW t \in Assigns(convert, names)
      PROVE  \E n \in names : t = [id |-> n[1], prop |-> n[2], convert |-> convert]
  BY <1>1 DEF Assigns
<1> QED  BY <1>1 DEF SetTargets

LEMMA NoShortOf40 ==
  \A n \in DOMAIN ShortOptions : LongOptions[ShortOptions[n]] # 40
BY DEF ShortOptions, LongOptions

LEMMA VerboseWays ==
  ASSUME NEW way \in Ways, way.prop = "verbosity"
  PROVE  \/ way.key.via = "class" /\ way.convert = "same"
         \/ way.key.via = "long" /\ way.convert = "verbose"
<1>1. CASE way \in {[key |-> Key("class", n), prop |-> n, convert |-> "same"] : n \in Names}
  BY <1>1 DEF Key
<1>2. CASE way \in SetSockOpt
  <2>1. PICK n \in DOMAIN LongOptions, s \in SetTargets : way = Way(Key("long", n), s)
    BY <1>2 DEF SetSockOpt
  <2>2. s.prop = "verbosity" /\ way.convert = s.convert /\ way.key.via = "long"
    BY <2>1 DEF Way, Key
  <2> QED  BY <2>2, VerboseTarget
<1>3. CASE way \in ShortSet
  <2>1. PICK n \in DOMAIN ShortOptions, s \in SetTargets :
          way = Way(Key("short", n), s) /\ s.id = LongOptions[ShortOptions[n]]
    BY <1>3 DEF ShortSet
  <2>2. s.prop = "verbosity"
    BY <2>1 DEF Way
  <2> QED  BY <2>1, <2>2, VerboseTarget, NoShortOf40
<1>4. CASE way \in ContextFunctions
  BY <1>4 DEF ContextFunctions
<1> QED  BY <1>1, <1>2, <1>3, <1>4 DEF Ways

(* The mode is kept, with what is known of the object.                     *)
VerbosityInv == Kinds /\ Verbosity

LEMMA VerbosityNext == VerbosityInv /\ [Next]_vars => VerbosityInv'
<1> SUFFICES ASSUME VerbosityInv, [Next]_vars PROVE VerbosityInv'
  OBVIOUS
<1>1. ASSUME NEW way \in Ways, Write(way) PROVE VerbosityInv'
  <2>1. focus # 40
    BY <1>1, NoWriteOf40 DEF VerbosityInv, Kinds
  <2> QED  BY <1>1, <2>1 DEF Write, VerbosityInv, Kinds, Verbosity
<1>2. ASSUME NEW way \in Ways, WriteVerbosity(way) PROVE VerbosityInv'
  <2>1. PICK x \in Values :
          /\ way.prop = "verbosity"
          /\ SetVerbosity(SetConversion(way.convert, Argument(way.key, x)))
          /\ last' = [key |-> way.key, value |-> x]
          /\ UNCHANGED <<capability, kind, focus>>
    BY <1>2 DEF WriteVerbosity
  <2>2. /\ Null # AllSubs /\ Null # AllSubsUnsubs /\ AllSubs # AllSubsUnsubs
        /\ Truthy(AllSubs)
    BY DEF Null, AllSubs, AllSubsUnsubs, Str, Js, Truthy
  <2>3. CASE way.key.via = "class" /\ way.convert = "same"
    <3>1. SetVerbosity(x)
      BY <2>1, <2>3 DEF SetConversion, Argument
    <3>2. /\ x = Null => cell' = 0
          /\ x = AllSubs => cell' = 1
          /\ x = AllSubsUnsubs => cell' = 3
      BY <2>2, <3>1 DEF SetVerbosity
    <3> QED  BY <2>1, <3>2 DEF VerbosityInv, Kinds, Verbosity
  <2>4. CASE way.key.via = "long" /\ way.convert = "verbose"
    <3>1. SetVerbosity(IF Truthy(x) THEN AllSubs ELSE Null)
      BY <2>1, <2>4 DEF SetConversion, Argument
    <3>2. x = AllSubs => cell' = 1
      BY <2>2, <3>1 DEF SetVerbosity
    <3> QED  BY <2>1, <2>4, <3>2 DEF VerbosityInv, Kinds, Verbosity
  <2> QED  BY <2>1, <2>3, <2>4, VerboseWays
<1>3. ASSUME NEW asked \in RoutingIds \cup {None}, NEW ok \in BOOLEAN, Connect(asked, ok)
      PROVE  VerbosityInv'
  BY <1>3 DEF Connect, VerbosityInv, Kinds, Verbosity
<1>4. CASE UNCHANGED vars
  BY <1>4 DEF vars, VerbosityInv, Kinds, Verbosity
<1> QED  BY <1>1, <1>2, <1>3, <1>4 DEF Next

(* The verbosity of an XPublisher is the mode that was set last, whatever  *)
(* modes were set before and through whichever interface: no accessor and  *)
(* no short property reaches its cell in another way (index.ts:1495-1515). *)
(* This is the second part of RoundTrip.                                   *)
THEOREM VerbosityAsSet == Spec => []Verbosity
<1>1. Init => VerbosityInv
  <2> SUFFICES ASSUME Init PROVE VerbosityInv
    OBVIOUS
  <2>1. last.value = Undefined /\ capability \in Builds /\ kind \in SocketKinds \cup {"Context"}
    BY DEF Init
  <2>2. Undefined # Null /\ Undefined # AllSubs /\ Undefined # AllSubsUnsubs
    BY DEF Undefined, Null, AllSubs, AllSubsUnsubs, Str, Js
  <2> QED  BY <2>1, <2>2, BuildsAssumption DEF VerbosityInv, Kinds, Verbosity
<1>2. VerbosityInv => Verbosity
  BY DEF VerbosityInv, Kinds
<1> QED  BY <1>1, <1>2, VerbosityNext, PTL DEF Spec
(* The type of an option of sockets, by its number and by its name.        *)
TypeOfId(i) ==
  CASE i \in {4, 85, 86, 87} -> "Uint64"
    [] i = 22 -> "Int64"
    [] i = 57 -> "Uint32"
    [] i \in {5, 32, 38, 45, 46, 48, 49, 50, 55, 63, 64, 68, 72, 92} -> "String"
    [] i \in {33, 39, 42, 44, 47, 51, 52, 53, 54, 56, 62, 65, 69, 71, 73, 74,
              81, 93, 94} -> "Bool"
    [] i = 43 -> "mechanism"
    [] i \in {90, 91} -> "nameType"
    [] OTHER -> "Int32"

TypeOfName(n) ==
  CASE n \in {"affinity", "vmciBufferSize", "vmciBufferMinSize",
              "vmciBufferMaxSize"} -> "Uint64"
    [] n = "maxMessageSize" -> "Int64"
    [] n = "typeOfService" -> "Uint32"
    [] n \in {"routingId", "lastEndpoint", "tcpAcceptFilter", "plainUsername",
              "plainPassword", "curvePublicKey", "curveSecretKey",
              "curveServerKey", "zapDomain", "gssapiPrincipal",
              "gssapiServicePrincipal", "socksProxy", "welcomeMessage",
              "interface"} -> "String"
    [] n \in {"mandatory", "immediate", "ipv6", "plainServer", "curveServer",
              "probeRouter", "correlate", "relaxed", "conflate", "handover",
              "gssapiServer", "gssapiPlainText", "noDrop", "manual", "notify",
              "invertMatching", "threadSafe", "zapEnforceDomain",
              "loopbackFastPath"} -> "Bool"
    [] n = "securityMechanism" -> "mechanism"
    [] n \in {"gssapiPrincipalNameType", "gssapiServicePrincipalNameType"}
         -> "nameType"
    [] n = "verbosity" -> "none"
    [] OTHER -> "Int32"

NameTypes == <<HostBased, UserName, Krb5Principal>>

LEMMA Lists ==
  /\ MechanismOption.values = <<Null, Plain, Curve, Gssapi>>
  /\ \A name, id : NameTypeOption(name, id).values = NameTypes
  /\ NameTypes # <<>> /\ MechanismOption.values # <<>>
  /\ NameTypes # MechanismOption.values
<1>1. MechanismOption.values = <<Null, Plain, Curve, Gssapi>>
  BY DEF MechanismOption
<1>2. \A name, id : NameTypeOption(name, id).values = NameTypes
  BY DEF NameTypeOption, NameTypes
<1>3. Len(NameTypes) = 3
  BY DEF NameTypes
<1>4. Len(<<Null, Plain, Curve, Gssapi>>) = 4 /\ Len(<<>>) = 0
  OBVIOUS
<1>5. NameTypes # <<>> /\ NameTypes # <<Null, Plain, Curve, Gssapi>>
  BY <1>3, <1>4
<1>6. <<Null, Plain, Curve, Gssapi>> # <<>>
  BY <1>4
<1>7. MechanismOption.values # <<>> /\ NameTypes # MechanismOption.values
  BY <1>1, <1>5, <1>6
<1> QED  BY <1>2, <1>1, <1>5, <1>7

(* What an accessor does with its cell: the native type, or the list of    *)
(* values it translates to.                                                *)
RowType(o) ==
  IF o.values = <<>> THEN o.type
  ELSE IF o.values = NameTypes THEN "nameType" ELSE "mechanism"

Filed(o) ==
  /\ o.type \in NativeTypes
  /\ RowType(o) = TypeOfId(o.id)
  /\ RowType(o) = TypeOfName(o.name)
  /\ \/ o.values = <<>>
     \/ o = MechanismOption
     \/ o.values = NameTypes /\ o.type = "Int32"

LEMMA Rows ==
  ASSUME NEW targets, NEW type, NEW acc, NEW names, type \in NativeTypes,
         \A n \in names : TypeOfId(n[2]) = type /\ TypeOfName(n[1]) = type,
         NEW o \in DefineOpts(targets, type, acc, names)
  PROVE  Filed(o)
<1>1. o.values = <<>> /\ o.type = type /\ \E n \in names : o.name = n[1] /\ o.id = n[2]
  BY Row
<1> QED  BY <1>1 DEF Filed, RowType

LEMMA ListRows ==
  /\ Filed(MechanismOption)
  /\ Filed(NameTypeOption("gssapiPrincipalNameType", 90))
  /\ Filed(NameTypeOption("gssapiServicePrincipalNameType", 91))
<1>1. RowType(MechanismOption) = "mechanism"
  BY Lists DEF RowType
<1>2. MechanismOption.id = 43 /\ MechanismOption.name = "securityMechanism"
  BY DEF MechanismOption
<1>3. TypeOfId(43) = "mechanism" /\ TypeOfName("securityMechanism") = "mechanism"
  BY DEF TypeOfId, TypeOfName
<1>4. Filed(MechanismOption)
  BY <1>1, <1>2, <1>3 DEF Filed, MechanismOption, NativeTypes
<1>5. ASSUME NEW name, NEW id
      PROVE  /\ NameTypeOption(name, id).id = id /\ NameTypeOption(name, id).name = name
             /\ NameTypeOption(name, id).type = "Int32"
             /\ RowType(NameTypeOption(name, id)) = "nameType"
  BY Lists DEF RowType, NameTypeOption
<1>6. /\ TypeOfId(90) = "nameType" /\ TypeOfName("gssapiPrincipalNameType") = "nameType"
      /\ TypeOfId(91) = "nameType" /\ TypeOfName("gssapiServicePrincipalNameType") = "nameType"
  BY DEF TypeOfId, TypeOfName
<1> QED  BY <1>4, <1>5, <1>6, Lists DEF Filed, NativeTypes

LEMMA SocketRows ==
  ASSUME NEW o \in BufferOptions \cup ClassOptions \cup SocketOptions
                     \cup CurveOptions \cup GssapiOptions
  PROVE  Filed(o)
<1>1. CASE o \in BufferOptions
  BY <1>1, Rows DEF BufferOptions, NativeTypes, TypeOfId, TypeOfName
<1>2. CASE o \in ClassOptions
  BY <1>2, Rows DEF ClassOptions, NativeTypes, TypeOfId, TypeOfName
<1>3. CASE o \in SocketOptions
  BY <1>3, Rows, ListRows DEF SocketOptions, NativeTypes, TypeOfId, TypeOfName
<1>4. CASE o \in CurveOptions
  BY <1>4, Rows DEF CurveOptions, NativeTypes, TypeOfId, TypeOfName
<1>5. CASE o \in GssapiOptions
  BY <1>5, Rows, ListRows DEF GssapiOptions, NativeTypes, TypeOfId, TypeOfName
<1> QED  BY <1>1, <1>2, <1>3, <1>4, <1>5

(* Those of a context.                                                     *)
LEMMA ContextRows ==
  ASSUME NEW o \in ContextOptions
  PROVE  /\ o.values = <<>>
         /\ o.type = IF o.id \in {42, 70} THEN "Bool" ELSE "Int32"
         /\ o.type = IF o.name \in {"ipv6", "blocky"} THEN "Bool" ELSE "Int32"
         /\ o.name # "verbosity"
         /\ o.targets = {"Context"}
BY Row DEF ContextOptions

-----------------------------------------------------------------------------
(* The accessors of one object.                                            *)

LEMMA ContextIsNoSocket == "Context" \notin SocketKinds /\ ~HasCompat("Context")
<1>1. "Context" \notin SocketKinds
  BY DEF SocketKinds, ClassTables, PubSubDeclared, ReqRepDeclared,
         RouterDeclared, PipelineDeclared, XPubSubDeclared, PairStreamDeclared,
         DraftDeclared
<1>2. ~HasCompat("Context")
  BY DEF HasCompat, CompatClass
<1> QED  BY <1>1, <1>2

LEMMA SocketTargets ==
  ASSUME NEW o \in BufferOptions \cup ClassOptions \cup SocketOptions
                     \cup CurveOptions \cup GssapiOptions
  PROVE  "Context" \notin o.targets
<1>1. CASE o \in BufferOptions
  BY <1>1, Row DEF BufferOptions, Writables, Readables
<1>2. CASE o \in ClassOptions
  BY <1>2, Row DEF ClassOptions
<1>3. CASE o \in SocketOptions
  <2>1. "Context" \notin MechanismOption.targets
    BY ContextIsNoSocket DEF MechanismOption
  <2> QED  BY <1>3, <2>1, Row, ContextIsNoSocket DEF SocketOptions
<1>4. CASE o \in CurveOptions
  BY <1>4, Row, ContextIsNoSocket DEF CurveOptions
<1>5. CASE o \in GssapiOptions
  <2>1. \A name, id : "Context" \notin NameTypeOption(name, id).targets
    BY ContextIsNoSocket DEF NameTypeOption
  <2> QED  BY <1>5, <2>1, Row, ContextIsNoSocket DEF GssapiOptions
<1> QED  BY <1>1, <1>2, <1>3, <1>4, <1>5

(* The accessors of an object.                                             *)
LEMMA DefinedRows ==
  ASSUME Kinds, NEW o \in Defined
  PROVE  /\ kind \in o.targets
         /\ kind = "Context" => o \in ContextOptions
         /\ kind # "Context" =>
              o \in BufferOptions \cup ClassOptions \cup SocketOptions
                      \cup CurveOptions \cup GssapiOptions
<1>1. /\ o \in ContextOptions \cup BufferOptions \cup ClassOptions \cup SocketOptions
                 \cup CurveOptions \cup GssapiOptions
      /\ kind \in o.targets
  BY DEF Defined, Accessors, Kinds
<1> QED  BY <1>1, SocketTargets, ContextRows

TypeAt(i) ==
  IF kind = "Context" THEN IF i \in {42, 70} THEN "Bool" ELSE "Int32"
                      ELSE TypeOfId(i)
TypeNamed(n) ==
  IF kind = "Context" THEN IF n \in {"ipv6", "blocky"} THEN "Bool" ELSE "Int32"
                      ELSE TypeOfName(n)

LEMMA Shapes ==
  ASSUME Kinds, NEW o \in Defined
  PROVE  /\ o.type \in NativeTypes
         /\ RowType(o) = TypeAt(o.id)
         /\ RowType(o) = TypeNamed(o.name)
         /\ \/ o.values = <<>>
            \/ o = MechanismOption
            \/ o.values = NameTypes /\ o.type = "Int32"
         /\ o.name # "verbosity"
<1>1. CASE kind = "Context"
  BY <1>1, DefinedRows, ContextRows DEF RowType, TypeAt, TypeNamed, NativeTypes
<1>2. CASE kind # "Context"
  <2>1. Filed(o)
    BY <1>2, DefinedRows, SocketRows
  <2>2. RowType(o) \in NativeTypes \cup {"mechanism", "nameType"}
    BY <2>1 DEF Filed, RowType
  <2>3. TypeOfName("verbosity") \notin NativeTypes \cup {"mechanism", "nameType"}
    BY DEF TypeOfName, NativeTypes
  <2> QED  BY <1>2, <2>1, <2>2, <2>3 DEF Filed, TypeAt, TypeNamed
<1> QED  BY <1>1, <1>2

(* Two accessors of one number, or of one name, treat the cell alike.      *)
Twins(o, r) == o.type = r.type /\ o.values = r.values

LEMMA SameCell ==
  ASSUME Kinds, NEW o \in Defined, NEW r \in Defined, o.id = r.id \/ o.name = r.name
  PROVE  Twins(o, r)
<1>1. RowType(o) = RowType(r)
  BY Shapes
<1>2. CASE o.values = <<>>
  <2>1. r.values = <<>>
    <3>1. RowType(o) \in NativeTypes
      BY <1>2, Shapes DEF RowType
    <3> QED  BY <1>1, <3>1 DEF RowType, NativeTypes
  <2> QED  BY <1>1, <1>2, <2>1 DEF RowType, Twins
<1>3. CASE o = MechanismOption
  <2>1. RowType(o) = "mechanism" /\ "mechanism" \notin NativeTypes \cup {"nameType"}
    BY <1>3, Lists DEF RowType, NativeTypes
  <2>2. r.values # <<>> /\ r.values # NameTypes
    BY <1>1, <2>1, Shapes DEF RowType
  <2> QED  BY <1>3, <2>2, Shapes DEF Twins
<1>4. CASE o.values = NameTypes /\ o.type = "Int32"
  <2>1. RowType(o) = "nameType" /\ "nameType" \notin NativeTypes \cup {"mechanism"}
    BY <1>4, Lists DEF RowType, NativeTypes
  <2>2. r.values = NameTypes
    BY <1>1, <2>1, Shapes DEF RowType
  <2> QED  BY <1>4, <2>2, Shapes, Lists DEF Twins
<1> QED  BY <1>2, <1>3, <1>4, Shapes

-----------------------------------------------------------------------------
(* The ways to write.                                                      *)

(* What setsockopt() converts, by the type of the property.                *)
LEMMA Targets ==
  ASSUME NEW s \in SetTargets
  PROVE  \/ /\ s.convert = "same" /\ s.id # 31
            /\ s.prop \notin {"securityMechanism", "gssapiPrincipalNameType",
                              "gssapiServicePrincipalNameType"}
         \/ s.convert = "boolean" /\ s.id # 31 /\ TypeOfName(s.prop) = "Bool"
         \/ s.convert = "not" /\ s.id = 31 /\ TypeOfName(s.prop) = "Bool"
         \/ s.convert = "verbose" /\ s.id # 31 /\ s.prop = "verbosity"
<1>1. ASSUME NEW convert, NEW names, NEW t \in Assigns(convert, names)
      PROVE  \E n \in names : t.id = n[1] /\ t.prop = n[2] /\ t.convert = convert
  BY <1>1 DEF Assigns
<1> QED  BY <1>1 DEF SetTargets, TypeOfName

LEMMA Ipv4Only ==
  /\ \A n \in DOMAIN LongOptions : LongOptions[n] = 31 <=> n = "ZMQ_IPV4ONLY"
  /\ \A n \in DOMAIN ShortOptions : LongOptions[ShortOptions[n]] # 31
BY DEF LongOptions, ShortOptions

LEMMA WayShape ==
  ASSUME NEW way \in Ways
  PROVE  \/ /\ way.convert = "same" /\ way.key.via \in {"class", "context"}
            /\ Sense(way.key)
         \/ /\ HasCompat(kind)
            /\ way.key.via \in {"long", "short"}
            /\ \E s \in SetTargets :
                 /\ way.prop = s.prop /\ way.convert = s.convert
                 /\ Sense(way.key) <=> s.id # 31
<1>1. CASE way \in {[key |-> Key("class", n), prop |-> n, convert |-> "same"] : n \in Names}
  BY <1>1 DEF Key, Sense
<1>2. CASE way \in SetSockOpt /\ HasCompat(kind)
  <2>1. PICK n \in DOMAIN LongOptions, s \in SetTargets :
          way = Way(Key("long", n), s) /\ s.id = LongOptions[n]
    BY <1>2 DEF SetSockOpt
  <2>2. /\ way.prop = s.prop /\ way.convert = s.convert /\ way.key.via = "long"
        /\ Sense(way.key) <=> n # "ZMQ_IPV4ONLY"
    BY <2>1 DEF Way, Key, Sense
  <2> QED  BY <1>2, <2>1, <2>2, Ipv4Only
<1>3. CASE way \in ShortSet /\ HasCompat(kind)
  <2>1. PICK n \in DOMAIN ShortOptions, s \in SetTargets :
          way = Way(Key("short", n), s) /\ s.id = LongOptions[ShortOptions[n]]
    BY <1>3 DEF ShortSet
  <2>2. /\ way.prop = s.prop /\ way.convert = s.convert /\ way.key.via = "short"
        /\ Sense(way.key)
    BY <2>1 DEF Way, Key, Sense
  <2> QED  BY <1>3, <2>1, <2>2, Ipv4Only
<1>4. CASE way \in ContextFunctions
  BY <1>4 DEF ContextFunctions, Key, Sense
<1> QED  BY <1>1, <1>2, <1>3, <1>4 DEF Ways

-----------------------------------------------------------------------------
(* The values.                                                             *)

LEMMA JsFacts ==
  ASSUME NEW x \in JsValues
  PROVE  /\ x.t \in {"number", "boolean", "string", "buffer", "null", "undefined"}
         /\ x.t = "number" => x.v \in Doubles
         /\ x.t = "boolean" => x.v \in {0, 1}
         /\ x.t \in {"string", "buffer"} => x.v \in Bytes
         /\ x.t = "null" => x.v = 0
BY DEF JsValues, Null, Undefined, Js

LEMMA Given ==
  ASSUME NEW key, NEW x \in Values
  PROVE  /\ Argument(key, x) \in JsValues /\ x \in JsValues
         /\ \/ Argument(key, x) = x
            \/ /\ key.via = "short" /\ x.t = "string"
               /\ Argument(key, x).t = "buffer" /\ Argument(key, x).v = x.v
<1>1. x \in JsValues
  BY ValuesAssumption
<1>2. CASE key.via = "short" /\ x.t = "string"
  <2>1. Argument(key, x) = Js("buffer", x.v) /\ x.v \in Bytes
    BY <1>1, <1>2, JsFacts DEF Argument
  <2> QED  BY <1>1, <1>2, <2>1 DEF Js, JsValues
<1>3. CASE ~(key.via = "short" /\ x.t = "string")
  BY <1>1, <1>3 DEF Argument
<1> QED  BY <1>2, <1>3

LEMMA Converted ==
  ASSUME NEW convert, NEW a \in JsValues
  PROVE  SetConversion(convert, a) \in JsValues
<1>1. \A b : Bool(b) \in JsValues /\ Bool(b).t = "boolean"
  BY DEF Bool, Js, JsValues
<1>2. AllSubs \in JsValues /\ Null \in JsValues
  BY TextAssumption DEF AllSubs, Str, Js, Null, JsValues
<1> QED  BY <1>1, <1>2 DEF SetConversion

(* What a setter accepts, and the cell it leaves.                          *)
Translated(o, y) == IF o.values = <<>> THEN y ELSE Num(IndexOf(o.values, y))
Accepts(o, y, c) ==
  /\ Valid(o.type, Translated(o, y))
  /\ o.values # <<>> =>
       Stored(o.type, Translated(o, y)) \in 0 .. Len(o.values) - 1
  /\ IsTimeToLive(o) => Stored(o.type, Translated(o, y)) > -Decisecond
  /\ c = Rounded(o, Stored(o.type, Translated(o, y)))

(* What a getter makes of the cell.                                        *)
ValueOf(o, c) == IF o.values # <<>> THEN o.values[c + 1] ELSE Fetched(o.type, c)

LEMMA NameIndex ==
  ASSUME NEW y
  PROVE  /\ IndexOf(NameTypes, y) \in -1 .. 2
         /\ IndexOf(NameTypes, y) >= 0 => NameTypes[IndexOf(NameTypes, y) + 1] = y
<1>1. DOMAIN NameTypes = 1 .. 3
  BY DEF NameTypes
<1>2. CASE \E i \in DOMAIN NameTypes : NameTypes[i] = y
  <2> DEFINE i == CHOOSE j \in DOMAIN NameTypes : NameTypes[j] = y
  <2>1. i \in DOMAIN NameTypes /\ NameTypes[i] = y
    BY <1>2
  <2>2. IndexOf(NameTypes, y) = i - 1
    BY <1>2 DEF IndexOf
  <2> HIDE DEF i
  <2> QED  BY <1>1, <2>1, <2>2
<1>3. CASE ~\E i \in DOMAIN NameTypes : NameTypes[i] = y
  BY <1>3 DEF IndexOf
<1> QED  BY <1>2, <1>3

(* Small indexes wrap to themselves, or to a number that is refused.       *)
LEMMA SmallWrap ==
  ASSUME NEW n \in -1 .. 2, ToInt32(n) >= 0
  PROVE  ToInt32(n) = n
<1> DEFINE h == 2 ^ (IntBits - 1)
<1>1. h \in Nat /\ h >= 2 /\ 2 ^ IntBits = 2 * h
  BY Bits, IntPowers
<1>2. CASE n < h
  BY <1>1, <1>2, Int32Range
<1>3. CASE n >= h
  <2>1. n = 2 /\ h = 2 /\ n + h = 4 /\ 2 ^ IntBits = 4
    BY <1>1, <1>3
  <2>2. ToInt32(n) = (4 % 4) - 2
    BY <2>1 DEF ToInt32
  <2> QED  BY <2>2
<1> QED  BY <1>1, <1>2, <1>3

(* A setter that accepts a value leaves a cell of the option's type.       *)
CellRange(type) ==
  CASE type = "Bool" -> {0, 1}
    [] type = "Int32" -> -(2 ^ (IntBits - 1)) .. 2 ^ (IntBits - 1) - 1
    [] type = "Uint32" -> 0 .. 2 ^ IntBits - 1
    [] type = "Int64" -> -(2 ^ (WordBits - 1)) .. 2 ^ (WordBits - 1) - 1
    [] type = "Uint64" -> 0 .. 2 ^ WordBits - 1
    [] OTHER -> Bytes

(* Only a time to live is rounded, which is an Int32 of its own value.     *)
LEMMA WhatIsRounded ==
  ASSUME Kinds, NEW o \in Defined
  PROVE  /\ IsTimeToLive(o) => o.type = "Int32" /\ o.values = <<>>
         /\ ~IsTimeToLive(o) => \A n : Rounded(o, n) = n
<1>1. ASSUME IsTimeToLive(o) PROVE o.type = "Int32" /\ o.values = <<>>
  <2>1. RowType(o) = "Int32"
    <3>1. TypeAt(76) = "Int32"
      BY DEF TypeAt, TypeOfId
    <3> QED  BY <1>1, <3>1, Shapes DEF IsTimeToLive
  <2> QED  BY <2>1, Shapes DEF RowType
<1>2. ~IsTimeToLive(o) => \A n : Rounded(o, n) = n
  BY DEF Rounded
<1> QED  BY <1>1, <1>2

LEMMA DecisecondsBelow ==
  ASSUME NEW n \in Int
  PROVE  /\ InDeciseconds(n) \in Nat
         /\ InDeciseconds(n) <= n \/ InDeciseconds(n) = 0
<1>1. CASE n < 0
  BY <1>1 DEF InDeciseconds
<1>2. CASE n >= 0
  <2>1. InDeciseconds(n) = n - (n % Decisecond) /\ n \in Nat
    BY <1>2 DEF InDeciseconds
  <2>2. n % Decisecond \in Nat /\ n % Decisecond <= n
    <3>1. n % Decisecond \in 0 .. Decisecond - 1
      BY <2>1, DecisecondAssumption, Wrapped
    <3>2. CASE n < Decisecond
      <4>1. n \in 0 .. Decisecond - 1
        BY <2>1, <3>2, DecisecondAssumption
      <4>2. n % Decisecond = n
        BY <4>1, DecisecondAssumption, Wrapped
      <4> QED  BY <2>1, <4>2
    <3>3. CASE n >= Decisecond
      BY <2>1, <3>1, <3>3, DecisecondAssumption
    <3> QED  BY <2>1, <3>2, <3>3, DecisecondAssumption
  <2> QED  BY <2>1, <2>2
<1> QED  BY <1>1, <1>2

LEMMA StoredInRange ==
  ASSUME NEW type \in NativeTypes, NEW x \in JsValues, Valid(type, x)
  PROVE  Stored(type, x) \in CellRange(type)
<1>1. CASE type \in NumberTypes
  <2>1. x.v \in Doubles /\ x.v \in Int
    <3>1. x.t = "number"
      BY <1>1 DEF Valid, NumberTypes
    <3> QED  BY <3>1, JsFacts, DoubleFacts
  <2>2. CASE type = "Int32"
    BY <2>1, <2>2, Int32Range DEF Stored, CellRange
  <2>3. CASE type = "Uint32"
    BY <2>1, <2>3, Uint32Range DEF Stored, CellRange
  <2>4. CASE type = "Int64"
    BY <2>1, <2>4, Int64Range DEF Stored, CellRange
  <2>5. CASE type = "Uint64"
    BY <2>1, <2>5, CastRange DEF Stored, CellRange
  <2> QED  BY <1>1, <2>2, <2>3, <2>4, <2>5 DEF NumberTypes
<1>2. CASE type = "Bool"
  BY <1>2, JsFacts DEF Valid, Stored, CellRange
<1>3. CASE type = "String"
  BY <1>3, JsFacts, TextAssumption DEF Valid, Stored, CellRange
<1> QED  BY <1>1, <1>2, <1>3 DEF NativeTypes, NumberTypes

(* How a way to write treats a value, by the type of the option.           *)
LEMMA WayConverts ==
  ASSUME Kinds, NEW way \in Ways, NEW o \in Defined, o.name = way.prop
  PROVE  \/ /\ way.convert = "same" /\ Sense(way.key)
            /\ o.values # <<>> /\ CanWrite(o) => way.key.via # "short"
         \/ /\ way.convert = "boolean" /\ Sense(way.key)
            /\ o.type = "Bool" /\ o.values = <<>>
         \/ /\ way.convert = "not" /\ ~Sense(way.key)
            /\ o.type = "Bool" /\ o.values = <<>>
<1>1. CASE way.convert = "same" /\ way.key.via \in {"class", "context"} /\ Sense(way.key)
  BY <1>1
<1>2. CASE /\ HasCompat(kind)
           /\ \E s \in SetTargets :
                /\ way.prop = s.prop /\ way.convert = s.convert
                /\ Sense(way.key) <=> s.id # 31
  <2>1. PICK s \in SetTargets :
          /\ way.prop = s.prop /\ way.convert = s.convert
          /\ Sense(way.key) <=> s.id # 31
    BY <1>2
  <2>2. kind # "Context" /\ RowType(o) = TypeOfName(o.name) /\ o.name = s.prop
    BY <1>2, <2>1, Shapes, ContextIsNoSocket DEF TypeNamed
  <2>3. TypeOfName(s.prop) = "Bool" => o.type = "Bool" /\ o.values = <<>>
    BY <2>2 DEF RowType
  <2>4. s.convert = "same" => o.values = <<>>
    <3>1. ASSUME s.convert = "same", o.values # <<>> PROVE FALSE
      <4>1. s.prop \notin {"securityMechanism", "gssapiPrincipalNameType",
                           "gssapiServicePrincipalNameType"}
        BY <3>1, Targets
      <4>2. TypeOfName(s.prop) \in NativeTypes \cup {"none"}
        BY <4>1 DEF TypeOfName, NativeTypes
      <4>3. RowType(o) \in {"mechanism", "nameType"}
        BY <3>1 DEF RowType
      <4> QED  BY <2>2, <4>2, <4>3 DEF NativeTypes
    <3> QED  BY <3>1
  <2>5. s.prop # "verbosity"
    BY <2>2, Shapes
  <2> QED  BY <2>1, <2>3, <2>4, <2>5, Targets
<1> QED  BY <1>1, <1>2, WayShape

LEMMA WrittenIsRead ==
  ASSUME Kinds, NEW way \in Ways, NEW o \in Defined, o.name = way.prop, CanWrite(o),
         NEW x \in Values, NEW c,
         Accepts(o, SetConversion(way.convert, Argument(way.key, x)), c),
         JsType(o) = "number" => Holds(o, x.v),
         ~(way.key.via = "short" /\ JsType(o) = "boolean" /\ x.t = "string")
  PROVE  Meaning(o, ValueOf(o, c), FALSE) = Intent(o, x, ~Sense(way.key))
<1> DEFINE a == Argument(way.key, x)
           y == SetConversion(way.convert, a)
<1>1. x \in JsValues /\ a \in JsValues /\ y \in JsValues
  BY Given, Converted
<1>2. Sense(way.key) \in BOOLEAN
  BY DEF Sense
<1>3. CASE o.type = "Bool" /\ o.values = <<>>
  <2>1. JsType(o) = "boolean"
    BY <1>3 DEF JsType
  <2>2. y.t = "boolean" /\ c = y.v /\ y.v \in {0, 1}
    BY <1>1, <1>3, JsFacts, WhatIsRounded DEF Accepts, Translated, Valid, Stored
  <2>3. a = x
    BY <2>1, <2>2, WayConverts, Given DEF SetConversion, Argument, Js
  <2>4. Truthy(y) <=> (Truthy(x) # ~Sense(way.key))
    <3>1. \A b \in BOOLEAN : Truthy(Bool(b)) <=> b
      BY DEF Truthy, Bool, Js
    <3>2. Truthy(x) \in BOOLEAN
      BY DEF Truthy
    <3> QED  BY <1>2, <2>3, <3>1, <3>2, WayConverts DEF SetConversion
  <2>5. Truthy(ValueOf(o, c)) <=> c # 0
    BY <1>3 DEF ValueOf, Fetched, Truthy, Bool, Js
  <2>6. Truthy(y) <=> c # 0
    BY <2>2 DEF Truthy
  <2>7. Truthy(ValueOf(o, c)) \in BOOLEAN /\ Truthy(x) \in BOOLEAN
    BY DEF Truthy
  <2>8. (Truthy(ValueOf(o, c)) # FALSE) = (Truthy(x) # ~Sense(way.key))
    BY <1>2, <2>4, <2>5, <2>6, <2>7
  <2>9. \A z, flip : Meaning(o, z, flip) = (Truthy(z) # flip)
    BY <2>1 DEF Meaning
  <2>10. Intent(o, x, ~Sense(way.key)) = Meaning(o, x, ~Sense(way.key))
    BY <2>1 DEF Intent
  <2> QED  BY <2>8, <2>9, <2>10, Zenon
<1>4. CASE o.type # "Bool" /\ o.values = <<>>
  <2>1. way.convert = "same" /\ y = a
    BY <1>4, WayConverts DEF SetConversion
  <2>2. CASE o.type = "String"
    <3>1. JsType(o) = "string"
      BY <1>4, <2>2 DEF JsType
    <3>2. y.t \in {"string", "buffer", "null"} /\ c = y.v
      BY <1>4, <2>2, WhatIsRounded DEF Accepts, Translated, Valid, Stored
    <3>3. c = x.v
      BY <1>1, <2>1, <3>2, Given, JsFacts
    <3>4. Meaning(o, ValueOf(o, c), FALSE) = AsText[c]
      <4>1. ValueOf(o, c) = IF c \in {0, ZeroByte} THEN Null ELSE Str(AsText[c])
        BY <1>4, <2>2 DEF ValueOf, Fetched
      <4>2. ValueOf(o, c).v = AsText[c]
        BY <4>1, TextAssumption DEF Null, Str, Js
      <4> QED  BY <3>1, <4>2 DEF Meaning
    <3>5. Intent(o, x, ~Sense(way.key)) = AsText[x.v]
      BY <3>1 DEF Intent
    <3> QED  BY <3>3, <3>4, <3>5
  <2>3. CASE o.type \in NumberTypes
    <3>1. JsType(o) = "number"
      BY <1>4, <2>3 DEF JsType, NumberTypes
    <3>2. y.t = "number" /\ c = Rounded(o, Stored(o.type, y))
      BY <1>4, <2>3 DEF Accepts, Translated, Valid, NumberTypes
    <3>3. y = x /\ x.v \in Doubles /\ Holds(o, x.v)
      BY <1>1, <2>1, <3>1, <3>2, Given, JsFacts
    <3>4. AsDouble(c) = IF o.type = "Uint64" /\ x.v < 0 THEN 0 ELSE Rounded(o, x.v)
      <4>1. CASE ~IsTimeToLive(o)
        BY <2>3, <3>2, <3>3, <4>1, ReadBack, WhatIsRounded
      <4>2. CASE IsTimeToLive(o)
        <5>1. o.type = "Int32" /\ x.v \in Int
          BY <3>3, <4>2, WhatIsRounded, DoubleFacts
        <5>2. Stored(o.type, y) = x.v /\ x.v < 2 ^ (IntBits - 1)
          <6>1. x.v \in -(2 ^ (IntBits - 1)) .. 2 ^ (IntBits - 1) - 1
            BY <3>3, <5>1, Bits, IntPowers DEF Holds
          <6> QED  BY <3>3, <5>1, <6>1, Bits, IntPowers, Int32Range DEF Stored
        <5>3. c = InDeciseconds(x.v) /\ Rounded(o, x.v) = c
          BY <3>2, <4>2, <5>2 DEF Rounded
        <5>4. c \in Nat /\ c <= 2 ^ SafeBits
          <6>1. 2 ^ (IntBits - 1) \in Nat /\ 2 ^ (IntBits - 1) <= 2 ^ SafeBits
            <7>1. IntBits - 1 \in Nat /\ IntBits - 1 <= SafeBits
              BY Bits
            <7> QED  BY <7>1, Bits, PowerGrows, PowerType
          <6>2. 2 ^ SafeBits \in Nat
            BY Bits, PowerType
          <6> QED  BY <5>1, <5>2, <5>3, <6>1, <6>2, DecisecondsBelow
        <5> QED  BY <5>1, <5>3, <5>4, SmallIsExact
      <4> QED  BY <4>1, <4>2
    <3>5. Intent(o, x, ~Sense(way.key))
            = IF o.type = "Uint64" /\ x.v < 0 THEN 0 ELSE Rounded(o, x.v)
      BY <3>1 DEF Intent
    <3>6. ValueOf(o, c).v = AsDouble(c)
      BY <1>4, <2>3 DEF ValueOf, Fetched, NumberTypes, Num, Js
    <3>7. Meaning(o, ValueOf(o, c), FALSE) = AsDouble(c)
      BY <3>1, <3>6 DEF Meaning
    <3> QED  BY <3>4, <3>5, <3>7
  <2> QED  BY <1>4, <2>2, <2>3, Shapes DEF NativeTypes, NumberTypes
<1>5. CASE o.values # <<>>
  <2>1. o.values = NameTypes /\ o.type = "Int32"
    <3>1. ~CanWrite(MechanismOption)
      BY DEF MechanismOption, CanWrite
    <3> QED  BY <1>5, <3>1, Shapes
  <2>2. y = x
    BY <1>5, WayConverts, Given DEF SetConversion
  <2> DEFINE i == IndexOf(NameTypes, x)
  <2>3. c = ToInt32(i) /\ c \in 0 .. Len(NameTypes) - 1
    BY <1>5, <2>1, <2>2, WhatIsRounded DEF Accepts, Translated, Stored, Num, Js
  <2>4. c = i /\ NameTypes[c + 1] = x
    BY <2>3, NameIndex, SmallWrap
  <2>5. ValueOf(o, c) = x
    BY <1>5, <2>1, <2>4 DEF ValueOf
  <2>6. JsType(o) = "enum"
    BY <1>5, <2>1 DEF JsType
  <2> QED  BY <2>5, <2>6 DEF Meaning, Intent
<1> QED  BY <1>3, <1>4, <1>5

-----------------------------------------------------------------------------
(* The last write decides what the cell means, whichever accessor reads it.*)

Kept ==
  \A o \in {r \in Defined : r.id = focus} :
    /\ last.key.via # "none"
    /\ JsType(o) = "number" => Holds(o, last.value.v)
    /\ ~(last.key.via = "short" /\ JsType(o) = "boolean"
           /\ last.value.t = "string")
    => Meaning(o, ValueOf(o, cell), FALSE) = Intent(o, last.value, ~Sense(last.key))

LEMMA TwinsMean ==
  ASSUME NEW o, NEW r, Twins(o, r)
  PROVE  /\ JsType(o) = JsType(r)
         /\ \A n : Holds(o, n) <=> Holds(r, n)
         /\ \A x, flip : Meaning(o, x, flip) = Meaning(r, x, flip)
         /\ o.id = r.id => \A x, flip : Intent(o, x, flip) = Intent(r, x, flip)
         /\ \A c : ValueOf(o, c) = ValueOf(r, c)
<1>1. JsType(o) = JsType(r)
  BY DEF Twins, JsType
<1>2. \A n : Holds(o, n) <=> Holds(r, n)
  BY DEF Twins, Holds
<1>3. \A x, flip : Meaning(o, x, flip) = Meaning(r, x, flip)
  BY <1>1 DEF Twins, Meaning
<1>5. o.id = r.id => \A x, flip : Intent(o, x, flip) = Intent(r, x, flip)
  <2>1. o.id = r.id => \A n : Rounded(o, n) = Rounded(r, n)
    BY DEF Rounded, IsTimeToLive
  <2> QED  BY <1>1, <1>3, <2>1 DEF Twins, Intent
<1>4. \A c : ValueOf(o, c) = ValueOf(r, c)
  BY DEF Twins, ValueOf
<1> QED  BY <1>1, <1>2, <1>3, <1>4, <1>5

LEMMA WriteIs ==
  ASSUME NEW way, Write(way)
  PROVE  \E r \in Defined, x \in Values :
           /\ r.name = way.prop /\ r.id = focus /\ CanWrite(r)
           /\ Accepts(r, SetConversion(way.convert, Argument(way.key, x)), cell')
           /\ last' = [key |-> way.key, value |-> x]
           /\ UNCHANGED <<capability, kind, focus, routing, leftover, conn>>
<1>1. PICK r \in Defined, x \in Values :
        /\ r.name = way.prop
        /\ Assign(r, SetConversion(way.convert, Argument(way.key, x)))
        /\ last' = [key |-> way.key, value |-> x]
        /\ UNCHANGED <<capability, kind, focus, routing, leftover, conn>>
  BY DEF Write
<1>2. \A y : Assign(r, y) => r.id = focus /\ CanWrite(r) /\ Accepts(r, y, cell')
  BY DEF Assign, Keep, Accepts, Translated
<1> QED  BY <1>1, <1>2

LEMMA KeptNext == Kinds /\ Kept /\ [Next]_vars => Kept'
<1> SUFFICES ASSUME Kinds, Kept, [Next]_vars PROVE Kept'
  OBVIOUS
<1>1. ASSUME NEW way \in Ways, Write(way) PROVE Kept'
  <2>1. PICK r \in Defined, x \in Values :
          /\ r.name = way.prop /\ r.id = focus /\ CanWrite(r)
          /\ Accepts(r, SetConversion(way.convert, Argument(way.key, x)), cell')
          /\ last' = [key |-> way.key, value |-> x]
          /\ UNCHANGED <<capability, kind, focus>>
    BY <1>1, WriteIs
  <2>2. last'.key = way.key /\ last'.value = x /\ Defined' = Defined /\ focus' = focus
    BY <2>1 DEF Defined
  <2>3. ASSUME NEW o \in Defined, o.id = focus,
               JsType(o) = "number" => Holds(o, x.v),
               ~(way.key.via = "short" /\ JsType(o) = "boolean" /\ x.t = "string")
        PROVE  Meaning(o, ValueOf(o, cell'), FALSE) = Intent(o, x, ~Sense(way.key))
    <3>1. Twins(o, r)
      BY <2>1, <2>3, SameCell
    <3>2. /\ JsType(r) = "number" => Holds(r, x.v)
          /\ ~(way.key.via = "short" /\ JsType(r) = "boolean" /\ x.t = "string")
      BY <2>3, <3>1, TwinsMean
    <3>3. Meaning(r, ValueOf(r, cell'), FALSE) = Intent(r, x, ~Sense(way.key))
      BY <2>1, <3>2, WrittenIsRead
    <3>4. ValueOf(o, cell') = ValueOf(r, cell')
      BY <3>1, TwinsMean
    <3>5. \A z, flip : /\ Meaning(o, z, flip) = Meaning(r, z, flip)
                       /\ Intent(o, z, flip) = Intent(r, z, flip)
      BY <2>1, <2>3, <3>1, TwinsMean
    <3> QED  BY <3>3, <3>4, <3>5, Zenon
  <2> QED  BY <2>2, <2>3 DEF Kept
<1>2. ASSUME NEW way \in Ways, WriteVerbosity(way) PROVE Kept'
  <2>1. focus = 40 /\ focus' = focus /\ Defined' = Defined
    BY <1>2 DEF WriteVerbosity, SetVerbosity, Defined
  <2>2. \A o \in Defined : o.id # 40
    BY AccessorsAre, NoAccessorOf40 DEF Kinds, Defined
  <2> QED  BY <2>1, <2>2 DEF Kept
<1>3. ASSUME UNCHANGED <<capability, kind, focus, cell, last>> PROVE Kept'
  <2>1. Defined' = Defined
    BY <1>3 DEF Defined
  <2> QED  BY <1>3, <2>1 DEF Kept
<1>4. ASSUME NEW asked \in RoutingIds \cup {None}, NEW ok \in BOOLEAN, Connect(asked, ok)
      PROVE  Kept'
  BY <1>3, <1>4 DEF Connect
<1>5. CASE UNCHANGED vars
  BY <1>3, <1>5 DEF vars
<1> QED  BY <1>1, <1>2, <1>4, <1>5 DEF Next

-----------------------------------------------------------------------------
(* Reading.                                                                *)

LEMMA PropertyIs ==
  ASSUME Kinds, NEW o \in Defined, CanRead(o)
  PROVE  Property(o.name) = ValueOf(o, cell)
<1> DEFINE r == CHOOSE q \in Defined : q.name = o.name
<1>1. r \in Defined /\ r.name = o.name
  OBVIOUS
<1>2. Property(o.name) = IF r.values # <<>> THEN r.values[cell + 1]
                                            ELSE Fetched(r.type, cell)
  BY DEF Property
<1> HIDE DEF r
<1>3. Twins(r, o)
  BY <1>1, SameCell
<1> QED  BY <1>2, <1>3 DEF ValueOf, Twins

LEMMA Sources ==
  ASSUME NEW s \in GetSources
  PROVE  /\ \/ s.convert = "same" /\ s.id # 31
            \/ s.convert = "boolean" /\ s.id # 31 /\ TypeOfName(s.prop) = "Bool"
            \/ s.convert = "not" /\ s.id = 31 /\ TypeOfName(s.prop) = "Bool"
            \/ s.convert = "mechanism" /\ s.id # 31 /\ s.prop = "securityMechanism"
<1>1. ASSUME NEW convert, NEW names, NEW t \in Assigns(convert, names)
      PROVE  \E n \in names : t.id = n[1] /\ t.prop = n[2] /\ t.convert = convert
  BY <1>1 DEF Assigns
<1>2. CASE s \in SetTargets /\ s.convert = "same"
  BY <1>2, Targets
<1>3. CASE ~(s \in SetTargets /\ s.convert = "same")
  BY <1>1, <1>3 DEF GetSources, TypeOfName
<1> QED  BY <1>2, <1>3

(* getsockopt() has one source for a number.                               *)
LEMMA OneSource ==
  ASSUME NEW s \in GetSources, NEW r \in GetSources, s.id = r.id
  PROVE  s.prop = r.prop /\ s.convert = r.convert
<1>1. ASSUME NEW convert, NEW names, NEW t \in Assigns(convert, names)
      PROVE  \E n \in names : t.id = n[1] /\ t.prop = n[2] /\ t.convert = convert
  BY <1>1 DEF Assigns
<1>2. s.convert = r.convert
  <2>1. ASSUME NEW t \in GetSources
        PROVE  t.convert = CASE t.id = 31 -> "not"
                             [] t.id = 43 -> "mechanism"
                             [] t.id \in {33, 39, 42, 44, 47} -> "boolean"
                             [] OTHER -> "same"
    BY <1>1, <2>1 DEF GetSources, SetTargets
  <2> QED  BY <2>1, Zenon
<1>3. s.prop = r.prop
  BY <1>1, <1>2 DEF GetSources, SetTargets
<1> QED  BY <1>2, <1>3

(* Every way to read gives the meaning of the cell.                        *)
LEMMA KeptIsRead == Kinds /\ Kept => ReadAsWritten
<1> SUFFICES ASSUME Kinds, Kept,
                    NEW o \in Defined, o.id = focus, CanRead(o), CanWrite(o),
                    last.key.via # "none",
                    JsType(o) = "number" => Holds(o, last.value.v),
                    ~(last.key.via = "short" /\ JsType(o) = "boolean"
                        /\ last.value.t = "string")
             PROVE  /\ Meaning(o, Property(o.name), FALSE)
                         = Intent(o, last.value, ~Sense(last.key))
                    /\ HasCompat(kind) =>
                       \A s \in {g \in GetSources : g.prop = o.name} :
                       \A n \in {m \in DOMAIN LongOptions : LongOptions[m] = s.id} :
                         Meaning(o, GetSockOpt(s.id), ~Sense(Key("long", n)))
                           = Intent(o, last.value, ~Sense(last.key))
  BY DEF ReadAsWritten
<1> DEFINE v == Property(o.name)
           written == Intent(o, last.value, ~Sense(last.key))
<1>1. Meaning(o, v, FALSE) = written
  <2>1. v = ValueOf(o, cell)
    BY PropertyIs
  <2>2. Meaning(o, ValueOf(o, cell), FALSE) = written
    BY DEF Kept
  <2> QED  BY <2>1, <2>2
<1>2. ASSUME HasCompat(kind), NEW s \in GetSources, s.prop = o.name,
             NEW n \in DOMAIN LongOptions, LongOptions[n] = s.id
      PROVE  Meaning(o, GetSockOpt(s.id), ~Sense(Key("long", n))) = written
  <2> DEFINE flip == ~Sense(Key("long", n))
             got == GetConversion(s.convert, v)
  <2>1. GetSockOpt(s.id) = got
    <3> DEFINE r == CHOOSE q \in GetSources : q.id = s.id
    <3>1. r \in GetSources /\ r.id = s.id
      OBVIOUS
    <3>2. GetSockOpt(s.id) = GetConversion(r.convert, Property(r.prop))
      BY DEF GetSockOpt
    <3> HIDE DEF r
    <3>3. r.convert = s.convert /\ r.prop = o.name
      BY <1>2, <3>1, OneSource
    <3> QED  BY <3>2, <3>3
  <2>2. flip <=> s.id = 31
    BY <1>2, Ipv4Only DEF Key, Sense
  <2>3. flip \in BOOLEAN
    BY DEF Sense
  <2>4. kind # "Context" /\ RowType(o) = TypeOfName(o.name)
    BY <1>2, Shapes, ContextIsNoSocket DEF TypeNamed
  <2>5. CASE s.convert = "same" /\ s.id # 31
    <3>1. got = v /\ flip = FALSE
      BY <2>2, <2>3, <2>5 DEF GetConversion
    <3> QED  BY <1>1, <2>1, <3>1
  <2>6. CASE s.convert \in {"boolean", "not"} /\ TypeOfName(s.prop) = "Bool"
    <3>1. o.type = "Bool" /\ o.values = <<>> /\ JsType(o) = "boolean"
      BY <1>2, <2>4, <2>6 DEF RowType, JsType
    <3>2. \A z, f : Meaning(o, z, f) = (Truthy(z) # f)
      BY <3>1 DEF Meaning
    <3>3. Truthy(v) \in BOOLEAN /\ Truthy(got) \in BOOLEAN
      BY DEF Truthy
    <3>4. Truthy(got) <=> (Truthy(v) # flip)
      <4>1. \A b \in BOOLEAN : Truthy(Bool(b)) <=> b
        BY DEF Truthy, Bool, Js
      <4>2. \A b \in BOOLEAN : Truthy(Num(IF b THEN 1 ELSE 0)) <=> b
        BY DEF Truthy, Num, Js
      <4>3. CASE s.convert = "boolean"
        <5>1. got = Num(IF Truthy(v) THEN 1 ELSE 0) /\ ~flip
          BY <2>2, <2>6, <4>3, Sources DEF GetConversion
        <5> QED  BY <2>3, <3>3, <4>2, <5>1
      <4>4. CASE s.convert = "not"
        <5>1. got = Bool(~Truthy(v)) /\ flip
          BY <2>2, <2>6, <4>4, Sources DEF GetConversion
        <5> QED  BY <2>3, <3>3, <4>1, <5>1
      <4> QED  BY <2>6, <4>3, <4>4
    <3>5. (Truthy(got) # flip) = (Truthy(v) # FALSE)
      BY <2>3, <3>3, <3>4
    <3>6. Meaning(o, got, flip) = Meaning(o, v, FALSE)
      BY <3>2, <3>5, Zenon
    <3> QED  BY <1>1, <2>1, <3>6
  <2>7. CASE s.convert = "mechanism" /\ s.prop = "securityMechanism"
    <3>1. RowType(o) = "mechanism"
      BY <1>2, <2>4, <2>7 DEF TypeOfName
    <3>2. o = MechanismOption
      BY <3>1, Shapes, Lists DEF RowType, NativeTypes
    <3> QED  BY <3>2 DEF MechanismOption, CanWrite
  <2> QED  BY <2>5, <2>6, <2>7, Sources
<1> QED  BY <1>1, <1>2

LEMMA KindsNext == Kinds /\ [Next]_vars => Kinds'
BY DEF Kinds, Next, Write, WriteVerbosity, Connect, vars

(* What a write leaves is what every interface reads until the next write, *)
(* for every option of every class in every build, every value JavaScript  *)
(* can pass, and all widths of integers and doubles that BitsAssumption    *)
(* allows: the property of the class, getsockopt() with every name of the  *)
(* option, and the copy of a timeout give the value that was written,      *)
(* through whichever property, name or function that was (index.ts:        *)
(* 1652-1676, socket.cc:680-827, compat.ts:587-859).  Of a string or a     *)
(* buffer that value is the text before its first zero, however AsText     *)
(* decodes it (socket.cc:736-741), and a time to live is rounded down to a *)
(* decisecond (index.ts:763-764).                                          *)
THEOREM WrittenValuesKept == Spec => []RoundTrip
<1>1. Init => Kinds /\ Kept
  <2> SUFFICES ASSUME Init PROVE Kinds /\ Kept
    OBVIOUS
  <2>1. Kinds
    BY BuildsAssumption DEF Init, Kinds
  <2>2. last.key.via = "none"
    BY DEF Init, Key
  <2> QED  BY <2>1, <2>2 DEF Kept
<1>2. Kinds /\ Kept /\ [Next]_vars => (Kinds /\ Kept)'
  BY KindsNext, KeptNext
<1>3. Spec => [](Kinds /\ Kept)
  BY <1>1, <1>2, PTL DEF Spec
<1>4. Mirrored /\ Verbosity /\ Kinds /\ Kept => RoundTrip
  BY KeptIsRead DEF RoundTrip
<1> QED  BY <1>3, <1>4, TimeoutMirrored, VerbosityAsSet, PTL

-----------------------------------------------------------------------------
(* Types.  CellRange is the clause of TypeOK for one type.                 *)

CellTypes ==
  /\ capability \in Builds
  /\ focus \in Numbers
  /\ \A o \in Defined : o.id = focus => cell \in CellRange(o.type)
  /\ mirror \in Int
  /\ last.value \in Values \cup {Undefined}

ConnTypes ==
  /\ routing \in RoutingIds \cup {None}
  /\ leftover \subseteq RoutingIds
  /\ conn \in [asked : RoutingIds \cup {None}, got : RoutingIds \cup {None},
               left : SUBSET RoutingIds]

LEMMA RangeIsInt == \A type \in NativeTypes : CellRange(type) \subseteq Int
<1> SUFFICES ASSUME NEW type \in NativeTypes PROVE CellRange(type) \subseteq Int
  OBVIOUS
<1>1. /\ 2 ^ (IntBits - 1) \in Nat /\ 2 ^ IntBits \in Nat
      /\ 2 ^ (WordBits - 1) \in Nat /\ 2 ^ WordBits \in Nat
  BY Bits, IntPowers
<1> QED  BY <1>1, TextAssumption DEF CellRange, NativeTypes

LEMMA FirstInRange ==
  /\ \A type \in NativeTypes : 0 \in CellRange(type)
  /\ -1 \in CellRange("Int32")
<1>1. /\ 2 ^ (IntBits - 1) \in Nat \ {0} /\ 2 ^ IntBits \in Nat \ {0}
      /\ 2 ^ (WordBits - 1) \in Nat \ {0} /\ 2 ^ WordBits \in Nat \ {0}
  BY Bits, IntPowers
<1> QED  BY <1>1, TextAssumption DEF CellRange, NativeTypes

LEMMA NumbersNext == UNCHANGED <<capability, kind>> => Numbers' = Numbers
BY DEF Numbers, Defined

(* A cell that a setter leaves has the type of every accessor it has.      *)
LEMMA AcceptedInRange ==
  ASSUME Kinds, NEW r \in Defined, CanWrite(r), NEW y \in JsValues, NEW c, Accepts(r, y, c)
  PROVE  c \in CellRange(r.type)
<1> DEFINE n == Stored(r.type, Translated(r, y))
<1>1. CASE r.values = <<>>
  <2>1. n \in CellRange(r.type) /\ c = Rounded(r, n)
    BY <1>1, StoredInRange, Shapes DEF Accepts, Translated
  <2>2. CASE ~IsTimeToLive(r)
    BY <2>1, <2>2, WhatIsRounded
  <2>3. CASE IsTimeToLive(r)
    <3>1. CellRange(r.type) = -(2 ^ (IntBits - 1)) .. 2 ^ (IntBits - 1) - 1
      BY <2>3, WhatIsRounded DEF CellRange
    <3>2. 2 ^ (IntBits - 1) \in Nat \ {0}
      BY Bits, IntPowers
    <3>3. c = InDeciseconds(n)
      BY <2>1, <2>3 DEF Rounded
    <3> HIDE DEF n
    <3>4. n \in Int /\ n < 2 ^ (IntBits - 1)
      BY <2>1, <3>1, <3>2
    <3>5. c \in Nat /\ (c <= n \/ c = 0)
      BY <3>3, <3>4, DecisecondsBelow
    <3> QED  BY <3>1, <3>2, <3>4, <3>5
  <2> QED  BY <2>2, <2>3
<1>2. CASE r.values # <<>>
  <2>1. r.values = NameTypes /\ r.type = "Int32"
    <3>1. ~CanWrite(MechanismOption)
      BY DEF MechanismOption, CanWrite
    <3> QED  BY <1>2, <3>1, Shapes
  <2> DEFINE i == IndexOf(NameTypes, y)
  <2>2. c = ToInt32(i)
    BY <1>2, <2>1, WhatIsRounded DEF Accepts, Translated, Stored, Num, Js
  <2>3. i \in Int
    BY NameIndex
  <2> HIDE DEF i
  <2> QED  BY <2>1, <2>2, <2>3, Int32Range DEF CellRange
<1> QED  BY <1>1, <1>2

LEMMA CellTypesNext == Kinds /\ CellTypes /\ [Next]_vars => CellTypes'
<1> SUFFICES ASSUME Kinds, CellTypes, [Next]_vars PROVE CellTypes'
  OBVIOUS
<1>1. ASSUME NEW way \in Ways, Write(way) PROVE CellTypes'
  <2>1. PICK r \in Defined, x \in Values :
          /\ r.name = way.prop /\ r.id = focus /\ CanWrite(r)
          /\ Accepts(r, SetConversion(way.convert, Argument(way.key, x)), cell')
          /\ last' = [key |-> way.key, value |-> x]
          /\ UNCHANGED <<capability, kind, focus>>
    BY <1>1, WriteIs
  <2>2. cell' \in CellRange(r.type) /\ cell' \in Int
    <3>1. SetConversion(way.convert, Argument(way.key, x)) \in JsValues
      BY Given, Converted
    <3> QED  BY <2>1, <3>1, AcceptedInRange, RangeIsInt, Shapes
  <2>3. \A o \in Defined : o.id = focus => o.type = r.type
    BY <2>1, SameCell DEF Twins
  <2>4. mirror' \in Int
    <3>1. mirror' = mirror \/ mirror' = cell'
      BY <1>1 DEF Write, Assign
    <3> QED  BY <2>2, <3>1 DEF CellTypes
  <2>5. /\ Numbers' = Numbers /\ Defined' = Defined
        /\ capability' = capability /\ focus' = focus
    BY <2>1, NumbersNext DEF Defined
  <2> QED  BY <2>1, <2>2, <2>3, <2>4, <2>5 DEF CellTypes
<1>2. ASSUME NEW way \in Ways, WriteVerbosity(way) PROVE CellTypes'
  <2>1. /\ focus = 40 /\ UNCHANGED <<capability, kind, focus, mirror>>
        /\ \E x \in Values : last' = [key |-> way.key, value |-> x]
    BY <1>2 DEF WriteVerbosity, SetVerbosity
  <2>2. Numbers' = Numbers /\ Defined' = Defined
    BY <2>1, NumbersNext DEF Defined
  <2>3. \A o \in Defined : o.id # 40
    BY AccessorsAre, NoAccessorOf40 DEF Kinds, Defined
  <2> QED  BY <2>1, <2>2, <2>3 DEF CellTypes
<1>3. ASSUME UNCHANGED <<capability, kind, focus, cell, mirror, last>> PROVE CellTypes'
  <2>1. Numbers' = Numbers /\ Defined' = Defined
    BY <1>3, NumbersNext DEF Defined
  <2> QED  BY <1>3, <2>1 DEF CellTypes
<1>4. ASSUME NEW asked \in RoutingIds \cup {None}, NEW ok \in BOOLEAN, Connect(asked, ok)
      PROVE  CellTypes'
  BY <1>3, <1>4 DEF Connect
<1>5. CASE UNCHANGED vars
  BY <1>3, <1>5 DEF vars
<1> QED  BY <1>1, <1>2, <1>4, <1>5 DEF Next

LEMMA ConnTypesNext == ConnTypes /\ [Next]_vars => ConnTypes'
<1> SUFFICES ASSUME ConnTypes, [Next]_vars PROVE ConnTypes'
  OBVIOUS
<1>1. ASSUME UNCHANGED <<routing, leftover, conn>> PROVE ConnTypes'
  BY <1>1 DEF ConnTypes
<1>2. ASSUME NEW way \in Ways, Write(way) \/ WriteVerbosity(way) PROVE ConnTypes'
  BY <1>1, <1>2, WriteKeepsRouting
<1>3. ASSUME NEW asked \in RoutingIds \cup {None}, NEW ok \in BOOLEAN, Connect(asked, ok)
      PROVE  ConnTypes'
  BY <1>3 DEF Connect, ConnTypes
<1>4. CASE UNCHANGED vars
  BY <1>1, <1>4 DEF vars
<1> QED  BY <1>2, <1>3, <1>4 DEF Next

LEMMA InitTypes == Init => Kinds /\ CellTypes /\ ConnTypes
<1> SUFFICES ASSUME Init PROVE Kinds /\ CellTypes /\ ConnTypes
  OBVIOUS
<1>1. Kinds
  BY BuildsAssumption DEF Init, Kinds
<1>2. cell = (IF focus \in {27, 28} THEN -1 ELSE 0) /\ mirror = cell
  BY DEF Init
<1>3. ASSUME NEW o \in Defined, o.id = focus PROVE cell \in CellRange(o.type)
  <2>1. CASE focus \in {27, 28}
    <3>1. RowType(o) = "Int32"
      <4>1. TypeAt(27) = "Int32" /\ TypeAt(28) = "Int32"
        BY DEF TypeAt, TypeOfId
      <4> QED  BY <1>1, <1>3, <2>1, <4>1, Shapes
    <3>2. o.type = "Int32"
      BY <1>1, <3>1, Shapes, Lists DEF RowType, NativeTypes, MechanismOption
    <3> QED  BY <1>2, <2>1, <3>2, FirstInRange
  <2>2. CASE focus \notin {27, 28}
    BY <1>1, <1>2, <2>2, FirstInRange, Shapes
  <2> QED  BY <2>1, <2>2
<1>4. CellTypes
  <2>1. last.value = Undefined /\ focus \in Numbers /\ capability \in Builds
    BY DEF Init
  <2>2. mirror \in Int
    BY <1>2
  <2> QED  BY <1>3, <2>1, <2>2 DEF CellTypes
<1>5. ConnTypes
  BY DEF Init, ConnTypes
<1> QED  BY <1>1, <1>4, <1>5

(* Every cell has a value of the native type of its accessors, which share *)
(* one type, for every width: what the conversions hand to libzmq always   *)
(* fits (socket.cc:35-55, 700-818); and the ids of connections are ids.    *)
THEOREM OptionsTypeCorrect == Spec => []TypeOK
<1>1. Kinds /\ CellTypes /\ ConnTypes /\ [Next]_vars => (Kinds /\ CellTypes /\ ConnTypes)'
  BY KindsNext, CellTypesNext, ConnTypesNext
<1>2. Spec => [](Kinds /\ CellTypes /\ ConnTypes)
  BY <1>1, InitTypes, PTL DEF Spec
<1>3. Kinds /\ CellTypes /\ ConnTypes => TypeOK
  BY DEF Kinds, CellTypes, ConnTypes, TypeOK, CellRange
<1> QED  BY <1>2, <1>3, PTL
=============================================================================
