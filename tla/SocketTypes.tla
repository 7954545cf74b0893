---------------------------- MODULE SocketTypes ----------------------------
(***************************************************************************)
(* The classes of sockets and their options, as tables: what the TypeScript*)
(* interfaces declare (index.ts, draft.ts, native.ts), which accessors     *)
(* defineOpt() puts on the prototypes, and how the compatibility layer     *)
(* names them.  The wording of the documentation is left out, except for   *)
(* what it says an option is: its libzmq name and whether it can be read   *)
(* and written.                                                            *)
(***************************************************************************)
EXTENDS Integers, Sequences

(* Numbers of the libzmq options as in its header, those of contexts last. *)
NativeIds ==
  [ZMQ_AFFINITY |-> 4, ZMQ_ROUTING_ID |-> 5, ZMQ_RATE |-> 8,
   ZMQ_RECOVERY_IVL |-> 9, ZMQ_SNDBUF |-> 11, ZMQ_RCVBUF |-> 12,
   ZMQ_TYPE |-> 16, ZMQ_LINGER |-> 17, ZMQ_RECONNECT_IVL |-> 18,
   ZMQ_BACKLOG |-> 19, ZMQ_RECONNECT_IVL_MAX |-> 21, ZMQ_MAXMSGSIZE |-> 22,
   ZMQ_SNDHWM |-> 23, ZMQ_RCVHWM |-> 24, ZMQ_MULTICAST_HOPS |-> 25,
   ZMQ_RCVTIMEO |-> 27, ZMQ_SNDTIMEO |-> 28, ZMQ_LAST_ENDPOINT |-> 32,
   ZMQ_ROUTER_MANDATORY |-> 33, ZMQ_TCP_KEEPALIVE |-> 34,
   ZMQ_TCP_KEEPALIVE_CNT |-> 35, ZMQ_TCP_KEEPALIVE_IDLE |-> 36,
   ZMQ_TCP_KEEPALIVE_INTVL |-> 37, ZMQ_TCP_ACCEPT_FILTER |-> 38,
   ZMQ_IMMEDIATE |-> 39, ZMQ_IPV6 |-> 42, ZMQ_MECHANISM |-> 43,
   ZMQ_PLAIN_SERVER |-> 44, ZMQ_PLAIN_USERNAME |-> 45,
   ZMQ_PLAIN_PASSWORD |-> 46, ZMQ_CURVE_SERVER |-> 47,
   ZMQ_CURVE_PUBLICKEY |-> 48, ZMQ_CURVE_SECRETKEY |-> 49,
   ZMQ_CURVE_SERVERKEY |-> 50, ZMQ_PROBE_ROUTER |-> 51,
   ZMQ_REQ_CORRELATE |-> 52, ZMQ_REQ_RELAXED |-> 53, ZMQ_CONFLATE |-> 54,
   ZMQ_ZAP_DOMAIN |-> 55, ZMQ_ROUTER_HANDOVER |-> 56, ZMQ_TOS |-> 57,
   ZMQ_GSSAPI_SERVER |-> 62, ZMQ_GSSAPI_PRINCIPAL |-> 63,
   ZMQ_GSSAPI_SERVICE_PRINCIPAL |-> 64, ZMQ_GSSAPI_PLAINTEXT |-> 65,
   ZMQ_HANDSHAKE_IVL |-> 66, ZMQ_SOCKS_PROXY |-> 68, ZMQ_XPUB_NODROP |-> 69,
   ZMQ_XPUB_MANUAL |-> 71, ZMQ_XPUB_WELCOME_MSG |-> 72,
   ZMQ_STREAM_NOTIFY |-> 73, ZMQ_INVERT_MATCHING |-> 74,
   ZMQ_HEARTBEAT_IVL |-> 75, ZMQ_HEARTBEAT_TTL |-> 76,
   ZMQ_HEARTBEAT_TIMEOUT |-> 77, ZMQ_CONNECT_TIMEOUT |-> 79,
   ZMQ_TCP_MAXRT |-> 80, ZMQ_THREAD_SAFE |-> 81,
   ZMQ_MULTICAST_MAXTPDU |-> 84, ZMQ_VMCI_BUFFER_SIZE |-> 85,
   ZMQ_VMCI_BUFFER_MIN_SIZE |-> 86, ZMQ_VMCI_BUFFER_MAX_SIZE |-> 87,
   ZMQ_VMCI_CONNECT_TIMEOUT |-> 88, ZMQ_GSSAPI_PRINCIPAL_NAMETYPE |-> 90,
   ZMQ_GSSAPI_SERVICE_PRINCIPAL_NAMETYPE |-> 91, ZMQ_BINDTODEVICE |-> 92,
   ZMQ_ZAP_ENFORCE_DOMAIN |-> 93, ZMQ_LOOPBACK_FASTPATH |-> 94,
   ZMQ_IO_THREADS |-> 1, ZMQ_MAX_SOCKETS |-> 2, ZMQ_SOCKET_LIMIT |-> 3,
   ZMQ_THREAD_PRIORITY |-> 3, ZMQ_THREAD_SCHED_POLICY |-> 4,
   ZMQ_MAX_MSGSZ |-> 5, ZMQ_BLOCKY |-> 70]

-----------------------------------------------------------------------------
(* JavaScript values: the type, and a number.  Strings are numbered by     *)
(* their bytes, 0 is the empty one; a buffer has the number of its bytes.  *)
Js(t, v) == [t |-> t, v |-> v]
Bool(b) == Js("boolean", IF b THEN 1 ELSE 0)
Num(n) == Js("number", n)
Str(n) == Js("string", n)
Null == Js("null", 0)
Undefined == Js("undefined", 0)
Truthy(x) == x.t = "buffer" \/ x.v # 0

Plain == Str(2)
Curve == Str(3)
Gssapi == Str(4)
HostBased == Str(5)
UserName == Str(6)
Krb5Principal == Str(7)
AllSubs == Str(8)
AllSubsUnsubs == Str(9)

-----------------------------------------------------------------------------
(* What is declared.  An option is read-only ("ro"), documented as write-  *)
(* only ("wo"), or readable and writable.                                  *)
Unnamed == ""  \* where the documentation does not name the option of libzmq
Declare(type, acc, names) ==
  {[name |-> n[1], native |-> n[2], type |-> type, acc |-> acc] : n \in names}

WritableDeclared ==
  Declare("number", "rw",
    {<<"multicastHops", "ZMQ_MULTICAST_HOPS">>,
     <<"sendBufferSize", "ZMQ_SNDBUF">>,
     <<"sendHighWaterMark", "ZMQ_SNDHWM">>, <<"sendTimeout", "ZMQ_SNDTIMEO">>})

ReadableDeclared ==
  Declare("number", "rw",
    {<<"receiveBufferSize", "ZMQ_RCVBUF">>,
     <<"receiveHighWaterMark", "ZMQ_RCVHWM">>,
     <<"receiveTimeout", "ZMQ_RCVTIMEO">>})

ContextDeclared ==
  Declare("boolean", "rw",
    {<<"blocky", "ZMQ_BLOCKY">>, <<"ipv6", "ZMQ_IPV6">>})
  \cup Declare("number", "rw",
    {<<"ioThreads", "ZMQ_IO_THREADS">>, <<"maxMessageSize", "ZMQ_MAX_MSGSZ">>,
     <<"maxSockets", "ZMQ_MAX_SOCKETS">>})
  \cup Declare("number", "wo",
    {<<"threadPriority", "ZMQ_THREAD_PRIORITY">>,
     <<"threadSchedulingPolicy", "ZMQ_THREAD_SCHED_POLICY">>})
  \cup Declare("number", "ro", {<<"maxSocketsLimit", "ZMQ_SOCKET_LIMIT">>})

(* Of every socket: buffers, reconnecting, TCP.                            *)
TransportDeclared ==
  Declare("number", "rw",
    {<<"affinity", "ZMQ_AFFINITY">>, <<"rate", "ZMQ_RATE">>,
     <<"recoveryInterval", "ZMQ_RECOVERY_IVL">>, <<"linger", "ZMQ_LINGER">>,
     <<"reconnectInterval", "ZMQ_RECONNECT_IVL">>,
     <<"backlog", "ZMQ_BACKLOG">>,
     <<"reconnectMaxInterval", "ZMQ_RECONNECT_IVL_MAX">>,
     <<"maxMessageSize", "ZMQ_MAXMSGSIZE">>,
     <<"tcpKeepalive", "ZMQ_TCP_KEEPALIVE">>,
     <<"tcpKeepaliveCount", "ZMQ_TCP_KEEPALIVE_CNT">>,
     <<"tcpKeepaliveIdle", "ZMQ_TCP_KEEPALIVE_IDLE">>,
     <<"tcpKeepaliveInterval", "ZMQ_TCP_KEEPALIVE_INTVL">>})
  \cup Declare("string", "rw", {<<"tcpAcceptFilter", "ZMQ_TCP_ACCEPT_FILTER">>})
  \cup Declare("boolean", "rw", {<<"immediate", "ZMQ_IMMEDIATE">>})

(* ... security and handshake; the documentation of some is still empty.   *)
SecurityDeclared ==
  Declare("boolean", "rw",
    {<<"ipv6", "ZMQ_IPV6">>, <<"plainServer", "ZMQ_PLAIN_SERVER">>,
     <<"curveServer", "ZMQ_CURVE_SERVER">>, <<"gssapiServer", Unnamed>>,
     <<"gssapiPlainText", Unnamed>>})
  \cup Declare("string", "rw",
    {<<"plainUsername", "ZMQ_PLAIN_USERNAME">>,
     <<"plainPassword", "ZMQ_PLAIN_PASSWORD">>,
     <<"curvePublicKey", "ZMQ_CURVE_PUBLICKEY">>,
     <<"curveSecretKey", "ZMQ_CURVE_SECRETKEY">>,
     <<"curveServerKey", "ZMQ_CURVE_SERVERKEY">>, <<"gssapiPrincipal", Unnamed>>,
     <<"gssapiServicePrincipal", Unnamed>>, <<"zapDomain", "ZMQ_ZAP_DOMAIN">>,
     <<"socksProxy", "ZMQ_SOCKS_PROXY">>})
  \cup Declare("enum", "rw",
    {<<"gssapiPrincipalNameType", Unnamed>>,
     <<"gssapiServicePrincipalNameType", Unnamed>>})
  \cup Declare("number", "rw",
    {<<"typeOfService", "ZMQ_TOS">>,
     <<"handshakeInterval", "ZMQ_HANDSHAKE_IVL">>})

(* ... heartbeats and the other transports.                                *)
HeartbeatDeclared ==
  Declare("number", "rw",
    {<<"heartbeatInterval", "ZMQ_HEARTBEAT_IVL">>,
     <<"heartbeatTimeToLive", "ZMQ_HEARTBEAT_TTL">>,
     <<"heartbeatTimeout", "ZMQ_HEARTBEAT_TIMEOUT">>,
     <<"connectTimeout", "ZMQ_CONNECT_TIMEOUT">>,
     <<"tcpMaxRetransmitTimeout", "ZMQ_TCP_MAXRT">>,
     <<"multicastMaxTransportDataUnit", "ZMQ_MULTICAST_MAXTPDU">>,
     <<"vmciBufferSize", "ZMQ_VMCI_BUFFER_SIZE">>,
     <<"vmciBufferMinSize", "ZMQ_VMCI_BUFFER_MIN_SIZE">>,
     <<"vmciBufferMaxSize", "ZMQ_VMCI_BUFFER_MAX_SIZE">>,
     <<"vmciConnectTimeout", "ZMQ_VMCI_CONNECT_TIMEOUT">>})
  \cup Declare("string", "rw", {<<"interface", "ZMQ_BINDTODEVICE">>})
  \cup Declare("boolean", "rw",
    {<<"zapEnforceDomain", "ZMQ_ZAP_ENFORCE_DOMAIN">>,
     <<"loopbackFastPath", "ZMQ_LOOPBACK_FASTPATH">>})

(* ... and what can only be read.                                          *)
ReadOnlyDeclared ==
  Declare("number", "ro", {<<"type", "ZMQ_TYPE">>})
  \cup Declare("string", "ro", {<<"lastEndpoint", "ZMQ_LAST_ENDPOINT">>})
  \cup Declare("enum", "ro", {<<"securityMechanism", "ZMQ_MECHANISM">>})
  \cup Declare("boolean", "ro", {<<"threadSafe", "ZMQ_THREAD_SAFE">>})

(* A class: the interfaces it has, the options of its own and the methods  *)
(* its declaration passes to allowMethods().                               *)
Class(has, methods, own) ==
  [has |-> has, methods |-> methods, own |-> own]

Both == {"Readable", "Writable"}
SendReceive == {"send", "receive"}
RoutingId == Declare("string", "rw", {<<"routingId", "ZMQ_ROUTING_ID">>})
ProbeRouter == Declare("boolean", "wo", {<<"probeRouter", "ZMQ_PROBE_ROUTER">>})
Conflate == Declare("boolean", "rw", {<<"conflate", "ZMQ_CONFLATE">>})
NoDrop == Declare("boolean", "rw", {<<"noDrop", "ZMQ_XPUB_NODROP">>})
InvertMatching ==
  Declare("boolean", "rw", {<<"invertMatching", "ZMQ_INVERT_MATCHING">>})

PubSubDeclared ==
  [Publisher  |-> Class({"Writable"}, {"send"},
                        NoDrop \cup Conflate \cup InvertMatching),
   Subscriber |-> Class({"Readable"}, {"receive"},
                        Conflate \cup InvertMatching)]

ReqRepDeclared ==
  [Request |-> Class(Both, SendReceive, RoutingId \cup ProbeRouter \cup
                 Declare("boolean", "rw",
                   {<<"correlate", "ZMQ_REQ_CORRELATE">>,
                    <<"relaxed", "ZMQ_REQ_RELAXED">>})),
   Reply   |-> Class(Both, SendReceive, RoutingId),
   Dealer  |-> Class(Both, SendReceive,
                     RoutingId \cup ProbeRouter \cup Conflate)]

RouterDeclared ==
  [Router |-> Class(Both, SendReceive, RoutingId \cup ProbeRouter \cup
                Declare("boolean", "rw",
                  {<<"mandatory", "ZMQ_ROUTER_MANDATORY">>,
                   <<"handover", "ZMQ_ROUTER_HANDOVER">>}))]

PipelineDeclared ==
  [Pull |-> Class({"Readable"}, {"receive"}, Conflate),
   Push |-> Class({"Writable"}, {"send"}, Conflate)]

(* verbosity is a setter written out in the class, see SetVerbosity.       *)
XPubSubDeclared ==
  [XPublisher  |-> Class(Both, SendReceive, NoDrop \cup InvertMatching \cup
                     Declare("boolean", "rw", {<<"manual", "ZMQ_XPUB_MANUAL">>})
                     \cup Declare("string", "rw",
                       {<<"welcomeMessage", "ZMQ_XPUB_WELCOME_MSG">>})),
   XSubscriber |-> Class(Both, SendReceive, {})]

PairStreamDeclared ==
  [Pair   |-> Class(Both, SendReceive, {}),
   Stream |-> Class(Both, SendReceive,
                Declare("boolean", "rw", {<<"notify", "ZMQ_STREAM_NOTIFY">>}))]

DraftDeclared ==
  [Server   |-> Class(Both, SendReceive, {}),
   Client   |-> Class(Both, SendReceive, {}),
   Radio    |-> Class({"Writable"}, {"send"}, {}),
   Dish     |-> Class({"Readable"}, {"receive", "join", "leave"}, {}),
   Gather   |-> Class({"Readable"}, {"receive"}, Conflate),
   Scatter  |-> Class({"Writable"}, {"send"}, Conflate),
   Datagram |-> Class(Both, SendReceive, {})]

ClassTables == {PubSubDeclared, ReqRepDeclared, RouterDeclared,
                PipelineDeclared, XPubSubDeclared, PairStreamDeclared,
                DraftDeclared}
SocketKinds == UNION {DOMAIN t : t \in ClassTables}
Classes == [k \in SocketKinds |-> (CHOOSE t \in ClassTables : k \in DOMAIN t)[k]]

(* All that is declared for an object of a class.                          *)
Declared(kind) ==
  IF kind = "Context" THEN ContextDeclared
  ELSE TransportDeclared \cup SecurityDeclared \cup HeartbeatDeclared
         \cup ReadOnlyDeclared \cup Classes[kind].own
         \cup (IF "Writable" \in Classes[kind].has THEN WritableDeclared ELSE {})
         \cup (IF "Readable" \in Classes[kind].has THEN ReadableDeclared ELSE {})

-----------------------------------------------------------------------------
(* Methods.  allowMethods() deletes from the prototype of the class, which *)
(* has none of these methods of its own, but for those of Dish; the native *)
(* class has all four, and it is next in the prototype chain.              *)
NativeMethods == {"send", "receive", "join", "leave"}
OwnMethods(kind) == IF kind = "Dish" THEN {"join", "leave"} ELSE {}

AllowMethods(own, methods) == own \ methods

Methods(kind) ==
  AllowMethods(OwnMethods(kind), Classes[kind].methods) \cup NativeMethods

(* Members the native class declares readonly, which have a getter only.   *)
NativeMembers == {"events", "context", "closed", "readable", "writable"}

(* The numbers that the constructors pass on to zmq_socket().              *)
SocketType ==
  [Pair |-> 0, Publisher |-> 1, Subscriber |-> 2, Request |-> 3, Reply |-> 4,
   Dealer |-> 5, Router |-> 6, Pull |-> 7, Push |-> 8, XPublisher |-> 9,
   XSubscriber |-> 10, Stream |-> 11, Server |-> 12, Client |-> 13,
   Radio |-> 14, Dish |-> 15, Gather |-> 16, Scatter |-> 17, Datagram |-> 18]

-----------------------------------------------------------------------------
(* What is defined.  A row is one property on the prototypes of `targets'; *)
(* `values' translates the numbers of libzmq, from 0 on.                   *)
DefineOpts(targets, type, acc, names) ==
  {[targets |-> targets, type |-> type, acc |-> acc, name |-> n[1],
    id |-> n[2], values |-> <<>>] : n \in names}

(* The types for which the native class has a getter and a setter.         *)
NativeTypes == {"Bool", "Int32", "Uint32", "Int64", "Uint64", "String"}

ContextOptions ==
  DefineOpts({"Context"}, "Int32", "rw",
    {<<"ioThreads", 1>>, <<"maxSockets", 2>>, <<"maxMessageSize", 5>>})
  \cup DefineOpts({"Context"}, "Int32", "r", {<<"maxSocketsLimit", 3>>})
  \cup DefineOpts({"Context"}, "Int32", "w",
    {<<"threadPriority", 3>>, <<"threadSchedulingPolicy", 4>>})
  \cup DefineOpts({"Context"}, "Bool", "rw", {<<"ipv6", 42>>, <<"blocky", 70>>})

Writables == {"Pair", "Publisher", "Request", "Reply", "Dealer", "Router",
              "Push", "XPublisher", "XSubscriber", "Stream", "Server",
              "Client", "Radio", "Scatter", "Datagram"}

\* Mutant of Readables: a class is forgotten.
ReadablesShort == {"Pair", "Subscriber", "Request", "Reply", "Dealer",
                   "Router", "Pull", "XPublisher", "XSubscriber", "Server",
                   "Client", "Dish", "Gather", "Datagram"}

Readables == {"Pair", "Subscriber", "Request", "Reply", "Dealer", "Router",
              "Pull", "XPublisher", "XSubscriber", "Stream", "Server",
              "Client", "Dish", "Gather", "Datagram"}

BufferOptions ==
  DefineOpts(Writables, "Int32", "rw",
    {<<"sendBufferSize", 11>>, <<"sendHighWaterMark", 23>>,
     <<"sendTimeout", 28>>, <<"multicastHops", 25>>})
  \cup DefineOpts(Readables, "Int32", "rw",
    {<<"receiveBufferSize", 12>>, <<"receiveHighWaterMark", 24>>,
     <<"receiveTimeout", 27>>})

(* The options of only some classes of sockets.                            *)
ClassOptions ==
  DefineOpts({"Request", "Reply", "Router", "Dealer"}, "String", "rw",
             {<<"routingId", 5>>})
  \cup DefineOpts({"Router"}, "Bool", "rw", {<<"mandatory", 33>>})
  \cup DefineOpts({"Router", "Dealer", "Request"}, "Bool", "w",
                  {<<"probeRouter", 51>>})
  \cup DefineOpts({"Request"}, "Bool", "w",
                  {<<"correlate", 52>>, <<"relaxed", 53>>})
  \cup DefineOpts({"Pull", "Push", "Subscriber", "Publisher", "Dealer",
                   "Scatter", "Gather"}, "Bool", "w", {<<"conflate", 54>>})
  \cup DefineOpts({"Router"}, "Bool", "w", {<<"handover", 56>>})
  \cup DefineOpts({"XPublisher", "Publisher"}, "Bool", "w", {<<"noDrop", 69>>})
  \cup DefineOpts({"XPublisher"}, "Bool", "w", {<<"manual", 71>>})
  \cup DefineOpts({"XPublisher"}, "String", "w", {<<"welcomeMessage", 72>>})
  \cup DefineOpts({"Stream"}, "Bool", "w", {<<"notify", 73>>})
  \cup DefineOpts({"Publisher", "Subscriber", "XPublisher"}, "Bool", "rw",
                  {<<"invertMatching", 74>>})

(* Those of the base class; the build has CURVE and GSSAPI or does not.    *)
MechanismOption ==
  [targets |-> SocketKinds, type |-> "Int32", acc |-> "r",
   name |-> "securityMechanism", id |-> 43,
   values |-> <<Null, Plain, Curve, Gssapi>>]
NameTypeOption(name, id) ==
  [targets |-> SocketKinds, type |-> "Int32", acc |-> "rw", name |-> name,
   id |-> id, values |-> <<HostBased, UserName, Krb5Principal>>]

CurveOptions ==
  DefineOpts(SocketKinds, "Bool", "rw", {<<"curveServer", 47>>})
  \cup DefineOpts(SocketKinds, "String", "rw",
    {<<"curvePublicKey", 48>>, <<"curveSecretKey", 49>>,
     <<"curveServerKey", 50>>})

GssapiOptions ==
  DefineOpts(SocketKinds, "Bool", "rw",
    {<<"gssapiServer", 62>>, <<"gssapiPlainText", 65>>})
  \cup DefineOpts(SocketKinds, "String", "rw",
    {<<"gssapiPrincipal", 63>>, <<"gssapiServicePrincipal", 64>>})
  \cup {NameTypeOption("gssapiPrincipalNameType", 90),
        NameTypeOption("gssapiServicePrincipalNameType", 91)}

SocketOptions ==
  DefineOpts(SocketKinds, "Uint64", "rw",
    {<<"affinity", 4>>, <<"vmciBufferSize", 85>>, <<"vmciBufferMinSize", 86>>,
     <<"vmciBufferMaxSize", 87>>})
  \cup DefineOpts(SocketKinds, "Int32", "rw",
    {<<"rate", 8>>, <<"recoveryInterval", 9>>, <<"linger", 17>>,
     <<"reconnectInterval", 18>>, <<"backlog", 19>>,
     <<"reconnectMaxInterval", 21>>, <<"tcpKeepalive", 34>>,
     <<"tcpKeepaliveCount", 35>>, <<"tcpKeepaliveIdle", 36>>,
     <<"tcpKeepaliveInterval", 37>>, <<"handshakeInterval", 66>>,
     <<"heartbeatInterval", 75>>, <<"heartbeatTimeToLive", 76>>,
     <<"heartbeatTimeout", 77>>, <<"connectTimeout", 79>>,
     <<"tcpMaxRetransmitTimeout", 80>>,
     <<"multicastMaxTransportDataUnit", 84>>, <<"vmciConnectTimeout", 88>>})
  \cup DefineOpts(SocketKinds, "Int32", "r", {<<"type", 16>>})
  \cup DefineOpts(SocketKinds, "Int64", "rw", {<<"maxMessageSize", 22>>})
  \cup DefineOpts(SocketKinds, "Uint32", "rw", {<<"typeOfService", 57>>})
  \cup DefineOpts(SocketKinds, "String", "r", {<<"lastEndpoint", 32>>})
  \cup DefineOpts(SocketKinds, "Bool", "r", {<<"threadSafe", 81>>})
  \cup DefineOpts(SocketKinds, "String", "rw",
    {<<"tcpAcceptFilter", 38>>, <<"plainUsername", 45>>,
     <<"plainPassword", 46>>, <<"zapDomain", 55>>, <<"socksProxy", 68>>,
     <<"interface", 92>>})
  \cup DefineOpts(SocketKinds, "Bool", "rw",
    {<<"immediate", 39>>, <<"ipv6", 42>>, <<"plainServer", 44>>,
     <<"zapEnforceDomain", 93>>, <<"loopbackFastPath", 94>>})
  \cup {MechanismOption}

(* The accessors an object of a class has, by what the build can do.       *)
Accessors ==
  [c \in SUBSET {"curve", "gssapi"} |->
     [k \in SocketKinds \cup {"Context"} |->
        {o \in ContextOptions \cup BufferOptions \cup ClassOptions
                 \cup SocketOptions
                 \cup (IF "curve" \in c THEN CurveOptions ELSE {})
                 \cup (IF "gssapi" \in c THEN GssapiOptions ELSE {}) :
           k \in o.targets}]]
CanRead(o) == o.acc \in {"r", "rw"}
CanWrite(o) == o.acc \in {"w", "rw"}

=============================================================================
