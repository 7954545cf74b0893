------------------------------ MODULE Options ------------------------------
(***************************************************************************)
(* One option of one socket (or context), set in any of the ways there are *)
(* and read back: the properties of the classes, setsockopt() and the      *)
(* short properties of the compatibility layer; and the routing id that    *)
(* connect() gives to the next connection.                                 *)
(*                                                                         *)
(* Options are independent, but for those that share a cell of libzmq: the *)
(* model follows the cell `focus' of one object of the class `kind'.       *)
(* Numbers are scaled: 32-bit integers have IntBits bits, 64-bit ones      *)
(* WordBits, and doubles are exact up to 2^SafeBits.  Strings and buffers  *)
(* are numbered by the bytes they hand to libzmq; AsText is what Node-API  *)
(* makes of a C string: the bytes before the first zero, as UTF-8.         *)
(***************************************************************************)
EXTENDS SocketTypes

CONSTANTS Builds, Values, RoutingIds, IntBits, SafeBits, WordBits,
          AsText, ZeroByte, Decisecond

ASSUME BuildsAssumption == Builds \subseteq SUBSET {"curve", "gssapi"}
ASSUME BitsAssumption == /\ {IntBits, SafeBits, WordBits} \subseteq Nat
                         /\ 1 < IntBits /\ IntBits <= SafeBits
                         /\ SafeBits + 1 < WordBits

Bytes == DOMAIN AsText
(* The strings of SocketTypes are among them; 0 is the empty one.          *)
ASSUME TextAssumption == /\ Bytes \subseteq Nat /\ 0 .. 9 \subseteq Bytes
                         /\ AsText \in [Bytes -> Bytes] /\ ZeroByte \in Bytes
                         /\ AsText[0] = 0 /\ AsText[ZeroByte] = 0
(* The milliseconds of a decisecond, scaled.                               *)
ASSUME DecisecondAssumption == Decisecond \in Nat \ {0}

VARIABLES
  capability,  \* what libzmq was built with
  kind,        \* the class of the object
  focus,       \* the number of the option
  cell,        \* its value in libzmq
  mirror,      \* the copy that send() and receive() use, of a timeout
  routing,     \* the id libzmq gives to the next connection
  \* history
  last,        \* the last write that returned: through which key, and what
  leftover,    \* ids of calls of connect() that have thrown since the last
               \* connection was made
  conn         \* the last connection: the id asked for, the id it got, and
               \* `leftover' at that time

vars == <<capability, kind, focus, cell, mirror, routing, last, leftover, conn>>

None == 0

-----------------------------------------------------------------------------
(* The names of the compatibility layer.                                   *)

LongOptions ==
  [ZMQ_AFFINITY |-> 4, ZMQ_IDENTITY |-> 5, ZMQ_SUBSCRIBE |-> 6,
   ZMQ_UNSUBSCRIBE |-> 7, ZMQ_RATE |-> 8, ZMQ_RECOVERY_IVL |-> 9,
   ZMQ_RECOVERY_IVL_MSEC |-> 9, ZMQ_SNDBUF |-> 11, ZMQ_RCVBUF |-> 12,
   ZMQ_RCVMORE |-> 13, ZMQ_FD |-> 14, ZMQ_EVENTS |-> 15, ZMQ_TYPE |-> 16,
   ZMQ_LINGER |-> 17, ZMQ_RECONNECT_IVL |-> 18, ZMQ_BACKLOG |-> 19,
   ZMQ_RECONNECT_IVL_MAX |-> 21, ZMQ_MAXMSGSIZE |-> 22, ZMQ_SNDHWM |-> 23,
   ZMQ_RCVHWM |-> 24, ZMQ_MULTICAST_HOPS |-> 25, ZMQ_RCVTIMEO |-> 27,
   ZMQ_SNDTIMEO |-> 28, ZMQ_IPV4ONLY |-> 31, ZMQ_LAST_ENDPOINT |-> 32,
   ZMQ_ROUTER_MANDATORY |-> 33, ZMQ_TCP_KEEPALIVE |-> 34,
   ZMQ_TCP_KEEPALIVE_CNT |-> 35, ZMQ_TCP_KEEPALIVE_IDLE |-> 36,
   ZMQ_TCP_KEEPALIVE_INTVL |-> 37, ZMQ_TCP_ACCEPT_FILTER |-> 38,
   ZMQ_DELAY_ATTACH_ON_CONNECT |-> 39, ZMQ_XPUB_VERBOSE |-> 40,
   ZMQ_ROUTER_RAW |-> 41, ZMQ_IPV6 |-> 42, ZMQ_MECHANISM |-> 43,
   ZMQ_PLAIN_SERVER |-> 44, ZMQ_PLAIN_USERNAME |-> 45,
   ZMQ_PLAIN_PASSWORD |-> 46, ZMQ_CURVE_SERVER |-> 47,
   ZMQ_CURVE_PUBLICKEY |-> 48, ZMQ_CURVE_SECRETKEY |-> 49,
   ZMQ_CURVE_SERVERKEY |-> 50, ZMQ_ZAP_DOMAIN |-> 55,
   ZMQ_ROUTER_HANDOVER |-> 56, ZMQ_HEARTBEAT_IVL |-> 75,
   ZMQ_HEARTBEAT_TTL |-> 76, ZMQ_HEARTBEAT_TIMEOUT |-> 77,
   ZMQ_CONNECT_TIMEOUT |-> 79, ZMQ_IO_THREADS |-> 1, ZMQ_MAX_SOCKETS |-> 2]

ShortOptions ==
  [_fd |-> "ZMQ_FD", _ioevents |-> "ZMQ_EVENTS",
   _receiveMore |-> "ZMQ_RCVMORE", _subscribe |-> "ZMQ_SUBSCRIBE",
   _unsubscribe |-> "ZMQ_UNSUBSCRIBE", affinity |-> "ZMQ_AFFINITY",
   backlog |-> "ZMQ_BACKLOG", identity |-> "ZMQ_IDENTITY",
   linger |-> "ZMQ_LINGER", rate |-> "ZMQ_RATE", rcvbuf |-> "ZMQ_RCVBUF",
   last_endpoint |-> "ZMQ_LAST_ENDPOINT",
   reconnect_ivl |-> "ZMQ_RECONNECT_IVL", recovery_ivl |-> "ZMQ_RECOVERY_IVL",
   sndbuf |-> "ZMQ_SNDBUF", mechanism |-> "ZMQ_MECHANISM",
   plain_server |-> "ZMQ_PLAIN_SERVER", plain_username |-> "ZMQ_PLAIN_USERNAME",
   plain_password |-> "ZMQ_PLAIN_PASSWORD", curve_server |-> "ZMQ_CURVE_SERVER",
   curve_publickey |-> "ZMQ_CURVE_PUBLICKEY",
   curve_secretkey |-> "ZMQ_CURVE_SECRETKEY",
   curve_serverkey |-> "ZMQ_CURVE_SERVERKEY", zap_domain |-> "ZMQ_ZAP_DOMAIN",
   heartbeat_ivl |-> "ZMQ_HEARTBEAT_IVL", heartbeat_ttl |-> "ZMQ_HEARTBEAT_TTL",
   heartbeat_timeout |-> "ZMQ_HEARTBEAT_TIMEOUT",
   connect_timeout |-> "ZMQ_CONNECT_TIMEOUT"]

(* createSocket's types, the class the constructor chooses, and the number *)
(* exported for it.                                                        *)
CompatClass ==
  [pair |-> "Pair", req |-> "Request", rep |-> "Reply", pub |-> "Publisher",
   sub |-> "Subscriber", dealer |-> "Dealer", xreq |-> "Dealer",
   router |-> "Router", xrep |-> "Router", pull |-> "Pull", push |-> "Push",
   xpub |-> "XPublisher", xsub |-> "XSubscriber", stream |-> "Stream"]

CompatType ==
  [pair |-> 0, pub |-> 1, sub |-> 2, req |-> 3, rep |-> 4, dealer |-> 5,
   xreq |-> 5, router |-> 6, xrep |-> 6, pull |-> 7, push |-> 8, xpub |-> 9,
   xsub |-> 10, stream |-> 11]

HasCompat(k) == \E t \in DOMAIN CompatClass : CompatClass[t] = k

(* What setsockopt() assigns for an option: the property of the new socket *)
(* and how it converts the value.  Others throw or call a method.          *)
Assigns(convert, names) ==
  {[id |-> n[1], prop |-> n[2], convert |-> convert] : n \in names}

SetTargets ==
  Assigns("same",
    {<<4, "affinity">>, <<5, "routingId">>, <<8, "rate">>,
     <<9, "recoveryInterval">>, <<11, "sendBufferSize">>,
     <<12, "receiveBufferSize">>, <<17, "linger">>,
     <<18, "reconnectInterval">>, <<19, "backlog">>,
     <<21, "reconnectMaxInterval">>, <<22, "maxMessageSize">>,
     <<23, "sendHighWaterMark">>, <<24, "receiveHighWaterMark">>,
     <<25, "multicastHops">>, <<27, "receiveTimeout">>, <<28, "sendTimeout">>,
     <<34, "tcpKeepalive">>, <<35, "tcpKeepaliveCount">>,
     <<36, "tcpKeepaliveIdle">>, <<37, "tcpKeepaliveInterval">>,
     <<38, "tcpAcceptFilter">>, <<45, "plainUsername">>,
     <<46, "plainPassword">>, <<48, "curvePublicKey">>,
     <<49, "curveSecretKey">>, <<50, "curveServerKey">>, <<55, "zapDomain">>,
     <<75, "heartbeatInterval">>, <<76, "heartbeatTimeToLive">>,
     <<77, "heartbeatTimeout">>, <<79, "connectTimeout">>})
  \cup Assigns("boolean",
    {<<33, "mandatory">>, <<39, "immediate">>, <<42, "ipv6">>,
     <<44, "plainServer">>, <<47, "curveServer">>, <<56, "handover">>})
  \cup Assigns("not", {<<31, "ipv6">>})
  \cup Assigns("verbose", {<<40, "verbosity">>})

(* What getsockopt() reads, and how it converts that.  ZMQ_EVENTS is read  *)
(* from `readable' and `writable'; others throw.                           *)
GetSources ==
  {s \in SetTargets : s.convert = "same" /\ s.id # 38}
  \cup Assigns("same", {<<16, "type">>, <<32, "lastEndpoint">>})
  \cup Assigns("boolean",
    {<<33, "mandatory">>, <<39, "immediate">>, <<42, "ipv6">>,
     <<44, "plainServer">>, <<47, "curveServer">>})
  \cup Assigns("not", {<<31, "ipv6">>})
  \cup Assigns("mechanism", {<<43, "securityMechanism">>})

-----------------------------------------------------------------------------
(* The accessors of this object, and the names of those for the cell.      *)
Defined == Accessors[capability][kind]
Names == {o.name : o \in {r \in Defined : r.id = focus}}
           \cup (IF kind = "XPublisher" /\ focus = 40 THEN {"verbosity"} ELSE {})

(* The ways to write: a key, which is the interface used and the name in   *)
(* it, the property that is assigned, and the conversion of the value.     *)
Key(via, name) == [via |-> via, name |-> name]
Way(key, s) == [key |-> key, prop |-> s.prop, convert |-> s.convert]

SetSockOpt ==
  UNION {{Way(Key("long", n), s) : s \in {t \in SetTargets :
                                             t.id = LongOptions[n]}} :
           n \in DOMAIN LongOptions}

ShortSet ==
  UNION {{Way(Key("short", n), s) : s \in {t \in SetTargets :
                                    t.id = LongOptions[ShortOptions[n]]}} :
           n \in DOMAIN ShortOptions}

ContextFunctions ==
  {[key |-> Key("context", f[1]), prop |-> f[2], convert |-> "same"] :
     f \in {<<"setMaxThreads", "ioThreads">>, <<"setMaxSockets", "maxSockets">>}}

Ways ==
  {[key |-> Key("class", n), prop |-> n, convert |-> "same"] : n \in Names}
  \cup {w \in SetSockOpt \cup ShortSet : HasCompat(kind) /\ w.prop \in Names}
  \cup {w \in ContextFunctions : kind = "Context" /\ w.prop \in Names}

-----------------------------------------------------------------------------
(* Numbers.                                                                *)

(* The distance between doubles at n: they have SafeBits binary digits.    *)
Ulp(n) == 2 ^ (CHOOSE j \in 0 .. WordBits :
                 /\ n <= 2 ^ (SafeBits + j)
                 /\ \A i \in 0 .. j - 1 : n > 2 ^ (SafeBits + i))
AsDouble(n) == IF n <= 2 ^ SafeBits THEN n
               ELSE LET u == Ulp(n) IN ((n + u \div 2) \div u) * u
NextUp(n) == n + Ulp(n + 1)

(* The numbers and the other values JavaScript can pass; numbers end at    *)
(* 2^(SafeBits + WordBits), a bound.                                       *)
Doubles == {n \in Int : n < 2 ^ (SafeBits + WordBits) /\ AsDouble(n) = n}
JsValues ==
  [t : {"number"}, v : Doubles] \cup [t : {"boolean"}, v : {0, 1}]
    \cup [t : {"string", "buffer"}, v : Bytes] \cup {Null, Undefined}
ASSUME ValuesAssumption == Values \subseteq JsValues

\* Mutant of NumberCast: without nextafter(), 2^64 is cast, to 0 say.
NumberCastPlain(n) ==
  IF n < 0 THEN 0
  ELSE IF n > AsDouble(2 ^ WordBits - 1) THEN 2 ^ WordBits - 1
  ELSE n % 2 ^ WordBits

(* To uint64_t, in the native code.                                        *)
NumberCast(n) ==
  IF n < 0 THEN 0
  ELSE IF NextUp(n) > AsDouble(2 ^ WordBits - 1) THEN 2 ^ WordBits - 1
  ELSE n

\* Mutant of ToInt32: no wrapping.
ToInt32Plain(n) == n

(* To the other types, by Node-API: 32-bit integers wrap.                  *)
ToInt32(n) == ((n + 2 ^ (IntBits - 1)) % 2 ^ IntBits) - 2 ^ (IntBits - 1)
ToUint32(n) == n % 2 ^ IntBits
ToInt64(n) == IF n >= 2 ^ (WordBits - 1) THEN 2 ^ (WordBits - 1) - 1
              ELSE IF n < -(2 ^ (WordBits - 1)) THEN -(2 ^ (WordBits - 1))
              ELSE n

(* The arguments that the native setters take.                             *)
Valid(type, x) ==
  CASE type = "Bool"   -> x.t = "boolean"
    [] type = "String" -> x.t \in {"string", "buffer", "null"}
    [] OTHER           -> x.t = "number"

(* What they hand to zmq_setsockopt().                                     *)
Stored(type, x) ==
  CASE type = "Int32"  -> ToInt32(x.v)
    [] type = "Uint32" -> ToUint32(x.v)
    [] type = "Int64"  -> ToInt64(x.v)
    [] type = "Uint64" -> NumberCast(x.v)
    [] OTHER           -> x.v

(* What the native getters make of it.  A string is null if it is empty or *)
(* a single zero, and ends at its first zero.                              *)
Fetched(type, n) ==
  CASE type = "Bool"   -> Bool(n # 0)
    [] type = "String" -> IF n \in {0, ZeroByte} THEN Null ELSE Str(AsText[n])
    [] OTHER           -> Num(AsDouble(n))

-----------------------------------------------------------------------------
(* Properties of the classes.                                              *)

(* values.indexOf(x)                                                       *)
IndexOf(values, x) ==
  IF \E i \in DOMAIN values : values[i] = x
  THEN (CHOOSE i \in DOMAIN values : values[i] = x) - 1 ELSE -1

(* ZMQ_HEARTBEAT_TTL is kept in whole deciseconds; no context has it.      *)
IsTimeToLive(o) == o.id = 76
InDeciseconds(n) == IF n < 0 THEN 0 ELSE n - (n % Decisecond)
Rounded(o, n) == IF IsTimeToLive(o) THEN InDeciseconds(n) ELSE n

(* libzmq keeps a value, or refuses it: the setter throws.  It refuses all *)
(* but the known ones for the types of names, and negative deciseconds.    *)
Keep(o, n) ==
  /\ o.values # <<>> => n \in 0 .. Len(o.values) - 1
  /\ IsTimeToLive(o) => n > -Decisecond
  /\ cell' = Rounded(o, n)

(* The setter of a property: the argument is translated if the property    *)
(* has values, checked and converted, and a timeout is mirrored once       *)
(* libzmq has it.                                                          *)
Assign(o, x) ==
  LET arg == IF o.values = <<>> THEN x ELSE Num(IndexOf(o.values, x))
  IN  /\ CanWrite(o) /\ o.id = focus
      /\ Valid(o.type, arg)
      /\ Keep(o, Stored(o.type, arg))
      /\ mirror' = IF o.id \in {27, 28} /\ kind # "Context" THEN cell'
                                                            ELSE mirror

\* Mutant of SetVerbosity: null clears VERBOSER (by setting it to false).
SetVerbosityTwice(x) ==
  /\ kind = "XPublisher" /\ focus = 40
  /\ cell' = CASE x = Null -> cell [] x = AllSubs -> 1
               [] x = AllSubsUnsubs -> 3 [] OTHER -> cell
  /\ UNCHANGED mirror

(* The setter of XPublisher.verbosity.  The cell of libzmq has two bits:   *)
(* ZMQ_XPUB_VERBOSE sets the first to its argument and clears the second,  *)
(* ZMQ_XPUB_VERBOSER sets both.  Other values are ignored.                 *)
SetVerbosity(x) ==
  /\ kind = "XPublisher" /\ focus = 40
  /\ cell' = CASE x = Null -> 0 [] x = AllSubs -> 1
               [] x = AllSubsUnsubs -> 3 [] OTHER -> cell
  /\ UNCHANGED mirror

(* The value of a property; there is none without a getter.                *)
Property(name) ==
  IF \E o \in Defined : o.name = name /\ CanRead(o)
  THEN LET o == CHOOSE r \in Defined : r.name = name
       IN  IF o.values # <<>> THEN o.values[cell + 1]
           ELSE Fetched(o.type, cell)
  ELSE Undefined

-----------------------------------------------------------------------------
(* The compatibility layer.                                                *)

\* Mutant of SetConversion: ZMQ_IPV4ONLY is taken for ZMQ_IPV6.
SetConversionDirect(convert, x) ==
  CASE convert \in {"boolean", "not"} -> Bool(Truthy(x))
    [] convert = "verbose" -> IF Truthy(x) THEN AllSubs ELSE Null
    [] OTHER               -> x

SetConversion(convert, x) ==
  CASE convert = "boolean" -> Bool(Truthy(x))
    [] convert = "not"     -> Bool(~Truthy(x))
    [] convert = "verbose" -> IF Truthy(x) THEN AllSubs ELSE Null
    [] OTHER               -> x

GetConversion(convert, x) ==
  CASE convert = "boolean" -> Num(IF Truthy(x) THEN 1 ELSE 0)
    [] convert = "not"     -> Bool(~Truthy(x))
    [] convert = "mechanism" ->
         Num(CASE x = Plain -> 1 [] x = Curve -> 2 [] x = Gssapi -> 3
               [] OTHER -> 0)
    [] OTHER               -> x

GetSockOpt(id) ==
  LET s == CHOOSE r \in GetSources : r.id = id
  IN  GetConversion(s.convert, Property(s.prop))

(* The short properties make a buffer of a string.                         *)
Argument(key, x) ==
  IF key.via = "short" /\ x.t = "string" THEN Js("buffer", x.v) ELSE x

-----------------------------------------------------------------------------
(* Actions.                                                                *)

(* A write that returns.  One that throws changes nothing.                 *)
Write(way) ==
  \E o \in {r \in Defined : r.name = way.prop}, x \in Values :
    /\ Assign(o, SetConversion(way.convert, Argument(way.key, x)))
    /\ last' = [key |-> way.key, value |-> x]
    /\ UNCHANGED <<capability, kind, focus, routing, leftover, conn>>

WriteVerbosity(way) ==
  \E x \in Values :
    /\ way.prop = "verbosity"
    /\ SetVerbosity(SetConversion(way.convert, Argument(way.key, x)))
    /\ last' = [key |-> way.key, value |-> x]
    /\ UNCHANGED <<capability, kind, focus, routing, leftover, conn>>

\* Mutant of Connect: connects first.
ConnectFirst(asked, ok) ==
  /\ kind \in {"Router", "Stream"} /\ focus = 61
  /\ IF ok
     THEN /\ conn' = [asked |-> asked, got |-> routing, left |-> leftover]
          /\ routing' = asked
          /\ leftover' = {}
     ELSE UNCHANGED <<routing, leftover, conn>>
  /\ UNCHANGED <<capability, kind, focus, cell, mirror, last>>

(* connect() of Router and Stream sets the id, then calls the native       *)
(* connect(), which may throw; libzmq gives the id to a connection once.   *)
Connect(asked, ok) ==
  /\ kind \in {"Router", "Stream"} /\ focus = 61
  /\ LET next == IF asked # None THEN asked ELSE routing
     IN  IF ok
         THEN /\ conn' = [asked |-> asked, got |-> next, left |-> leftover]
              /\ routing' = None
              /\ leftover' = {}
         ELSE /\ routing' = next
              /\ leftover' = leftover \cup ({asked} \ {None})
              /\ UNCHANGED conn
  /\ UNCHANGED <<capability, kind, focus, cell, mirror, last>>

(* The numbers an object has a cell for; 61 is the routing id.  Of a       *)
(* context, 3 is a limit to read and a priority to write: two cells, of    *)
(* which the model follows the second.                                     *)
Numbers ==
  {o.id : o \in Defined} \cup (IF kind = "XPublisher" THEN {40} ELSE {})
  \cup (IF kind \in {"Router", "Stream"} THEN {61} ELSE {})

(* A timeout is -1 at first, in libzmq and in its copy.                    *)
Init ==
  /\ capability \in Builds
  /\ kind \in SocketKinds \cup {"Context"}
  /\ focus \in Numbers
  /\ cell = IF focus \in {27, 28} THEN -1 ELSE 0
  /\ mirror = cell
  /\ routing = None /\ leftover = {}
  /\ last = [key |-> Key("none", ""), value |-> Undefined]
  /\ conn = [asked |-> None, got |-> None, left |-> {}]

Next ==
  \/ \E way \in Ways : Write(way) \/ WriteVerbosity(way)
  \/ \E asked \in RoutingIds \cup {None}, ok \in BOOLEAN : Connect(asked, ok)

Spec == Init /\ [][Next]_vars

-----------------------------------------------------------------------------
(* Properties.                                                             *)

TypeOK ==
  /\ capability \in Builds
  /\ kind \in SocketKinds \cup {"Context"}
  /\ focus \in Numbers
  /\ \A o \in Defined :
       o.id = focus =>
         cell \in CASE o.type = "Bool" -> {0, 1}
                    [] o.type = "Int32" ->
                         -(2 ^ (IntBits - 1)) .. 2 ^ (IntBits - 1) - 1
                    [] o.type = "Uint32" -> 0 .. 2 ^ IntBits - 1
                    [] o.type = "Int64" ->
                         -(2 ^ (WordBits - 1)) .. 2 ^ (WordBits - 1) - 1
                    [] o.type = "Uint64" -> 0 .. 2 ^ WordBits - 1
                    [] OTHER -> Bytes
  /\ mirror \in Int
  /\ last.value \in Values \cup {Undefined}
  /\ routing \in RoutingIds \cup {None}
  /\ leftover \subseteq RoutingIds
  /\ conn \in [asked : RoutingIds \cup {None}, got : RoutingIds \cup {None},
               left : SUBSET RoutingIds]

(* Declared readable and writable, and not documented as write-only, yet   *)
(* defined without a getter: reading one gives undefined.                  *)
Unreadable == {"noDrop", "conflate", "correlate", "relaxed", "handover",
               "manual", "welcomeMessage", "notify"}

JsType(o) == CASE o.values # <<>>     -> "enum"
               [] o.type = "Bool"     -> "boolean"
               [] o.type = "String"   -> "string"
               [] OTHER               -> "number"

(* The statements about the lists, for a build and a class.                *)
DeclaredIsDefined(c, k) ==
  \A d \in Declared(k) :
    \/ \E o \in Accessors[c][k] :
         /\ o.name = d.name /\ JsType(o) = d.type
         /\ d.native # Unnamed => o.id = NativeIds[d.native]
         /\ CanWrite(o) <=> d.acc # "ro"
         /\ CanRead(o) <=> d.acc # "wo" /\ d.name \notin Unreadable
    \/ \E o \in (CurveOptions \cup GssapiOptions) \ Accessors[c][k] : o.name = d.name
DefinedIsDeclared(c, k) ==
  \A o \in Accessors[c][k] : /\ o.type \in NativeTypes
                             /\ \E d \in Declared(k) : d.name = o.name
                             /\ o.name \notin NativeMembers
CompatNamesIt(c, k) ==
  \A s \in SetTargets \cup GetSources, o \in Accessors[c][k] :
    k # "Context" /\ o.name = s.prop => s.id \in {o.id, 31}
MethodsListed(k) ==
  k # "Context" =>
    LET class == Classes[k]
    IN  /\ "Writable" \in class.has <=> k \in Writables
        /\ "Readable" \in class.has <=> k \in Readables
        /\ "send" \in class.methods <=> k \in Writables
        /\ "receive" \in class.methods <=> k \in Readables
        /\ NativeMethods \subseteq Methods(k)
CompatTypesAgree ==
  \A t \in DOMAIN CompatClass : CompatType[t] = SocketType[CompatClass[t]]
Agreement ==
  [c \in SUBSET {"curve", "gssapi"} |->
     [k \in SocketKinds \cup {"Context"} |->
        /\ DeclaredIsDefined(c, k) /\ DefinedIsDeclared(c, k)
        /\ CompatNamesIt(c, k) /\ MethodsListed(k) /\ CompatTypesAgree]]
(* The declarations, the accessors and the compatibility layer are three   *)
(* lists kept by hand.  They agree on every class: what is declared is     *)
(* defined if the build has it, on the option the documentation names, of  *)
(* that type, writable unless read-only, and readable but for those above; *)
(* nothing else is defined; every native type has accessors; and           *)
(* setsockopt() and getsockopt() go to the property of the same option,    *)
(* but for one they translate.  A class lists send() and receive() as its  *)
(* interfaces and the accessors of its buffers have it; allowMethods()     *)
(* takes none of the native ones away.                                     *)
TablesAgree == Agreement[capability][kind]

(* What reading should give after writing x, whatever the interfaces: the  *)
(* same truth, up to the sense of ZMQ_IPV4ONLY; the same number if the     *)
(* type can hold it (0 for an affinity below 0), rounded down to a         *)
(* decisecond for a time to live; of a string or buffer, the text before   *)
(* its first zero (null or the empty string if there is none).             *)
Sense(key) == ~(key.via = "long" /\ key.name = "ZMQ_IPV4ONLY")
Meaning(o, x, flip) ==
  CASE JsType(o) = "boolean" -> Truthy(x) # flip
    [] JsType(o) = "string"  -> x.v
    [] JsType(o) = "number"  -> x.v
    [] OTHER -> x
Intent(o, x, flip) ==
  CASE JsType(o) = "string" -> AsText[x.v]
    [] JsType(o) = "number" ->
         IF o.type = "Uint64" /\ x.v < 0 THEN 0 ELSE Rounded(o, x.v)
    [] OTHER -> Meaning(o, x, flip)
Holds(o, n) ==
  CASE o.type = "Int32"  -> n >= -(2 ^ (IntBits - 1)) /\ n < 2 ^ (IntBits - 1)
    [] o.type = "Uint32" -> n >= 0 /\ n < 2 ^ IntBits
    [] o.type = "Int64"  -> n >= -(2 ^ (WordBits - 1)) /\ n <= 2 ^ (WordBits - 1)
    [] o.type = "Uint64" -> n <= 2 ^ WordBits
    [] OTHER             -> TRUE

(* A write that returns is what every interface reads until the next one,  *)
(* and what send() and receive() use as their timeout; verbosity gives the *)
(* mode its documentation describes, in whatever order modes are set.  Not *)
(* for a string given to a boolean option by its short name: as a buffer   *)
(* it is true, even if it is empty.                                        *)
Mirrored == focus \in {27, 28} /\ kind # "Context" => mirror = cell
Verbosity ==
  focus = 40 =>
    /\ last.value = Null /\ last.key.via = "class" => cell = 0
    /\ last.value = AllSubs => cell = 1
    /\ last.value = AllSubsUnsubs /\ last.key.via = "class" => cell = 3
ReadAsWritten ==
  \A o \in {r \in Defined : r.id = focus /\ CanRead(r) /\ CanWrite(r)} :
    /\ last.key.via # "none"
    /\ JsType(o) = "number" => Holds(o, last.value.v)
    /\ ~(last.key.via = "short" /\ JsType(o) = "boolean"
           /\ last.value.t = "string")
    => /\ Meaning(o, Property(o.name), FALSE)
            = Intent(o, last.value, ~Sense(last.key))
       /\ HasCompat(kind) =>
          \A s \in {g \in GetSources : g.prop = o.name} :
          \A n \in {m \in DOMAIN LongOptions : LongOptions[m] = s.id} :
            Meaning(o, GetSockOpt(s.id), ~Sense(Key("long", n)))
              = Intent(o, last.value, ~Sense(last.key))
RoundTrip == Mirrored /\ Verbosity /\ ReadAsWritten

(* A connection gets the routing id asked for, and none if none was.  But  *)
(* an id stays behind when connect() throws: the next call that asks for   *)
(* none gets it.                                                           *)
RoutingIdLaw ==
  \/ conn.got = conn.asked
  \/ conn.asked = None /\ conn.got \in conn.left

=============================================================================
