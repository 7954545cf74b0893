------------------------------ MODULE TableProofs ------------------------------
(***************************************************************************)
(* The three lists of Options kept by hand agree: what the interfaces      *)
(* declare, what defineOpt() defines and what the compatibility layer      *)
(* names, for every class and for every build, those with only one of      *)
(* CURVE and GSSAPI included.  All there is to say of a property follows   *)
(* from its name, so each table is checked once against the names and not  *)
(* against the others.                                                     *)
(***************************************************************************)
EXTENDS OptionsProofs

(* The option of libzmq.                                                   *)
Natives ==
  [affinity |-> "ZMQ_AFFINITY", rate |-> "ZMQ_RATE",
   recoveryInterval |-> "ZMQ_RECOVERY_IVL", linger |-> "ZMQ_LINGER",
   reconnectInterval |-> "ZMQ_RECONNECT_IVL", backlog |-> "ZMQ_BACKLOG",
   reconnectMaxInterval |-> "ZMQ_RECONNECT_IVL_MAX",
   maxMessageSize |-> "ZMQ_MAXMSGSIZE", tcpKeepalive |-> "ZMQ_TCP_KEEPALIVE",
   tcpKeepaliveCount |-> "ZMQ_TCP_KEEPALIVE_CNT",
   tcpKeepaliveIdle |-> "ZMQ_TCP_KEEPALIVE_IDLE",
   tcpKeepaliveInterval |-> "ZMQ_TCP_KEEPALIVE_INTVL",
   tcpAcceptFilter |-> "ZMQ_TCP_ACCEPT_FILTER", immediate |-> "ZMQ_IMMEDIATE",
   ipv6 |-> "ZMQ_IPV6", plainServer |-> "ZMQ_PLAIN_SERVER",
   plainUsername |-> "ZMQ_PLAIN_USERNAME",
   plainPassword |-> "ZMQ_PLAIN_PASSWORD", zapDomain |-> "ZMQ_ZAP_DOMAIN",
   typeOfService |-> "ZMQ_TOS", handshakeInterval |-> "ZMQ_HANDSHAKE_IVL",
   socksProxy |-> "ZMQ_SOCKS_PROXY", heartbeatInterval |-> "ZMQ_HEARTBEAT_IVL",
   heartbeatTimeToLive |-> "ZMQ_HEARTBEAT_TTL",
   heartbeatTimeout |-> "ZMQ_HEARTBEAT_TIMEOUT",
   connectTimeout |-> "ZMQ_CONNECT_TIMEOUT",
   tcpMaxRetransmitTimeout |-> "ZMQ_TCP_MAXRT",
   multicastMaxTransportDataUnit |-> "ZMQ_MULTICAST_MAXTPDU",
   vmciBufferSize |-> "ZMQ_VMCI_BUFFER_SIZE",
   vmciBufferMinSize |-> "ZMQ_VMCI_BUFFER_MIN_SIZE",
   vmciBufferMaxSize |-> "ZMQ_VMCI_BUFFER_MAX_SIZE",
   vmciConnectTimeout |-> "ZMQ_VMCI_CONNECT_TIMEOUT",
   interface |-> "ZMQ_BINDTODEVICE",
   zapEnforceDomain |-> "ZMQ_ZAP_ENFORCE_DOMAIN",
   loopbackFastPath |-> "ZMQ_LOOPBACK_FASTPATH", type |-> "ZMQ_TYPE",
   lastEndpoint |-> "ZMQ_LAST_ENDPOINT", securityMechanism |-> "ZMQ_MECHANISM",
   threadSafe |-> "ZMQ_THREAD_SAFE", curveServer |-> "ZMQ_CURVE_SERVER",
   curvePublicKey |-> "ZMQ_CURVE_PUBLICKEY",
   curveSecretKey |-> "ZMQ_CURVE_SECRETKEY",
   curveServerKey |-> "ZMQ_CURVE_SERVERKEY",
   gssapiServer |-> "ZMQ_GSSAPI_SERVER",
   gssapiPrincipal |-> "ZMQ_GSSAPI_PRINCIPAL",
   gssapiServicePrincipal |-> "ZMQ_GSSAPI_SERVICE_PRINCIPAL",
   gssapiPlainText |-> "ZMQ_GSSAPI_PLAINTEXT",
   gssapiPrincipalNameType |-> "ZMQ_GSSAPI_PRINCIPAL_NAMETYPE",
   gssapiServicePrincipalNameType |-> "ZMQ_GSSAPI_SERVICE_PRINCIPAL_NAMETYPE",
   sendBufferSize |-> "ZMQ_SNDBUF", sendHighWaterMark |-> "ZMQ_SNDHWM",
   sendTimeout |-> "ZMQ_SNDTIMEO", multicastHops |-> "ZMQ_MULTICAST_HOPS",
   receiveBufferSize |-> "ZMQ_RCVBUF", receiveHighWaterMark |-> "ZMQ_RCVHWM",
   receiveTimeout |-> "ZMQ_RCVTIMEO", routingId |-> "ZMQ_ROUTING_ID",
   mandatory |-> "ZMQ_ROUTER_MANDATORY", probeRouter |-> "ZMQ_PROBE_ROUTER",
   correlate |-> "ZMQ_REQ_CORRELATE", relaxed |-> "ZMQ_REQ_RELAXED",
   conflate |-> "ZMQ_CONFLATE", handover |-> "ZMQ_ROUTER_HANDOVER",
   noDrop |-> "ZMQ_XPUB_NODROP", manual |-> "ZMQ_XPUB_MANUAL",
   welcomeMessage |-> "ZMQ_XPUB_WELCOME_MSG", notify |-> "ZMQ_STREAM_NOTIFY",
   invertMatching |-> "ZMQ_INVERT_MATCHING"]

CurveNames ==
  {"curveServer", "curvePublicKey", "curveSecretKey", "curveServerKey"}
GssapiNames ==
  {"gssapiServer", "gssapiPrincipal", "gssapiServicePrincipal",
   "gssapiPlainText", "gssapiPrincipalNameType",
   "gssapiServicePrincipalNameType"}
WritableNames ==
  {"sendBufferSize", "sendHighWaterMark", "sendTimeout", "multicastHops"}
ReadableNames == {"receiveBufferSize", "receiveHighWaterMark", "receiveTimeout"}

(* The classes that have an option of their own.                           *)
Owners ==
  [routingId |-> {"Request", "Reply", "Router", "Dealer"},
   mandatory |-> {"Router"}, probeRouter |-> {"Router", "Dealer", "Request"},
   correlate |-> {"Request"}, relaxed |-> {"Request"},
   conflate |-> {"Pull", "Push", "Subscriber", "Publisher", "Dealer",
                 "Scatter", "Gather"},
   handover |-> {"Router"}, noDrop |-> {"XPublisher", "Publisher"},
   manual |-> {"XPublisher"}, welcomeMessage |-> {"XPublisher"},
   notify |-> {"Stream"},
   invertMatching |-> {"Publisher", "Subscriber", "XPublisher"}]
OwnNames == DOMAIN Owners
BaseNames ==
  DOMAIN Natives \ (CurveNames \cup GssapiNames \cup WritableNames
                      \cup ReadableNames \cup OwnNames)

IdNamed(n) == NativeIds[Natives[n]]
AccNamed(n) ==
  CASE n \in {"type", "lastEndpoint", "threadSafe", "securityMechanism"} -> "r"
    [] n \in Unreadable \cup {"probeRouter"} -> "w"
    [] OTHER -> "rw"
JsTypeNamed(n) ==
  CASE TypeOfName(n) = "Bool" -> "boolean"
    [] TypeOfName(n) = "String" -> "string"
    [] TypeOfName(n) \in {"mechanism", "nameType"} -> "enum"
    [] OTHER -> "number"

-----------------------------------------------------------------------------
(* What is defined.                                                        *)

Has(table, k, name) == \E o \in table : o.name = name /\ k \in o.targets

LEMMA HasUnion ==
  ASSUME NEW S, NEW T, NEW k, NEW name
  PROVE  Has(S \cup T, k, name) <=> Has(S, k, name) \/ Has(T, k, name)
BY DEF Has

LEMMA HasDefined ==
  ASSUME NEW targets, NEW type, NEW acc, NEW names, NEW k \in targets, NEW name,
         NEW id, <<name, id>> \in names
  PROVE  Has(DefineOpts(targets, type, acc, names), k, name)
<1> DEFINE Made(n) == [targets |-> targets, type |-> type, acc |-> acc, name |-> n[1],
                       id |-> n[2], values |-> <<>>]
<1>1. Made(<<name, id>>) \in DefineOpts(targets, type, acc, names)
  BY DEF DefineOpts
<1>2. Made(<<name, id>>).name = name
        /\ Made(<<name, id>>).targets = targets
  OBVIOUS
<1> HIDE DEF Made
<1> QED  BY <1>1, <1>2 DEF Has

LEMMA Existing ==
  ASSUME NEW k \in SocketKinds, NEW name
  PROVE  /\ name \in BaseNames => Has(SocketOptions, k, name)
         /\ name \in CurveNames => Has(CurveOptions, k, name)
         /\ name \in GssapiNames => Has(GssapiOptions, k, name)
         /\ name \in WritableNames /\ k \in Writables => Has(BufferOptions, k, name)
         /\ name \in ReadableNames /\ k \in Readables => Has(BufferOptions, k, name)
         /\ name \in OwnNames /\ k \in Owners[name] => Has(ClassOptions, k, name)
<1>1. ASSUME NEW targets, NEW type, NEW acc, NEW names, k \in targets,
             <<name, IdNamed(name)>> \in names
      PROVE  Has(DefineOpts(targets, type, acc, names), k, name)
  BY <1>1, HasDefined
<1>2. Has({MechanismOption}, k, "securityMechanism")
  BY DEF Has, MechanismOption
<1>3. name \in BaseNames => Has(SocketOptions, k, name)
  BY <1>1, <1>2, HasUnion
     DEF SocketOptions, IdNamed, Natives, NativeIds, BaseNames, CurveNames,
         GssapiNames, WritableNames, ReadableNames, OwnNames, Owners
<1>4. name \in CurveNames => Has(CurveOptions, k, name)
  BY <1>1, HasUnion DEF CurveOptions, CurveNames, IdNamed, Natives, NativeIds
<1>5. ASSUME name \in GssapiNames PROVE Has(GssapiOptions, k, name)
  <2> DEFINE lists == {NameTypeOption("gssapiPrincipalNameType", 90),
                       NameTypeOption("gssapiServicePrincipalNameType", 91)}
  <2>1. CASE name \in {"gssapiPrincipalNameType", "gssapiServicePrincipalNameType"}
    <3>1. Has(lists, k, name)
      BY <2>1 DEF Has, NameTypeOption
    <3>2. lists \subseteq GssapiOptions
      BY DEF GssapiOptions
    <3> QED  BY <3>1, <3>2 DEF Has
  <2>2. CASE name \notin {"gssapiPrincipalNameType", "gssapiServicePrincipalNameType"}
    BY <1>1, <1>5, <2>2, HasUnion
       DEF GssapiOptions, GssapiNames, IdNamed, Natives, NativeIds
  <2> QED  BY <2>1, <2>2
<1>6. /\ name \in WritableNames /\ k \in Writables => Has(BufferOptions, k, name)
      /\ name \in ReadableNames /\ k \in Readables => Has(BufferOptions, k, name)
  BY <1>1, HasUnion DEF BufferOptions, WritableNames, ReadableNames, IdNamed, Natives,
                        NativeIds
<1>7. name \in OwnNames /\ k \in Owners[name] => Has(ClassOptions, k, name)
  BY <1>1, HasUnion DEF ClassOptions, OwnNames, Owners, IdNamed, Natives, NativeIds
<1> QED  BY <1>3, <1>4, <1>5, <1>6, <1>7

(* All that its name says of an accessor, and of a declaration.            *)
Present(c, k, n) ==
  \/ n \in BaseNames
  \/ n \in CurveNames /\ "curve" \in c
  \/ n \in GssapiNames /\ "gssapi" \in c
  \/ n \in WritableNames /\ k \in Writables
  \/ n \in ReadableNames /\ k \in Readables
  \/ n \in OwnNames /\ k \in Owners[n]

AsNamed(o) ==
  /\ o.name \in DOMAIN Natives
  /\ o.id = IdNamed(o.name)
  /\ o.acc = AccNamed(o.name)

LEMMA NamedRows ==
  ASSUME NEW targets, NEW type, NEW acc, NEW names,
         \A n \in names : /\ n[1] \in DOMAIN Natives /\ IdNamed(n[1]) = n[2]
                          /\ AccNamed(n[1]) = acc,
         NEW o \in DefineOpts(targets, type, acc, names)
  PROVE  AsNamed(o)
<1>1. o.acc = acc /\ \E n \in names : o.name = n[1] /\ o.id = n[2]
  BY Row
<1> QED  BY <1>1 DEF AsNamed

LEMMA SocketNamed ==
  ASSUME NEW o \in BufferOptions \cup ClassOptions \cup SocketOptions
                     \cup CurveOptions \cup GssapiOptions
  PROVE  AsNamed(o)
<1>1. CASE o \in BufferOptions
  BY <1>1, NamedRows DEF BufferOptions, IdNamed, Natives, NativeIds, AccNamed, Unreadable
<1>2. CASE o \in ClassOptions
  BY <1>2, NamedRows DEF ClassOptions, IdNamed, Natives, NativeIds, AccNamed, Unreadable
<1>3. CASE o \in SocketOptions
  <2>1. AsNamed(MechanismOption)
    BY DEF MechanismOption, AsNamed, IdNamed, Natives, NativeIds, AccNamed, Unreadable
  <2> QED
    BY <1>3, <2>1, NamedRows
       DEF SocketOptions, IdNamed, Natives, NativeIds, AccNamed, Unreadable
<1>4. CASE o \in CurveOptions
  BY <1>4, NamedRows DEF CurveOptions, IdNamed, Natives, NativeIds, AccNamed, Unreadable
<1>5. CASE o \in GssapiOptions
  <2>1. /\ AsNamed(NameTypeOption("gssapiPrincipalNameType", 90))
        /\ AsNamed(NameTypeOption("gssapiServicePrincipalNameType", 91))
    BY DEF NameTypeOption, AsNamed, IdNamed, Natives, NativeIds, AccNamed, Unreadable
  <2> QED
    BY <1>5, <2>1, NamedRows
       DEF GssapiOptions, IdNamed, Natives, NativeIds, AccNamed, Unreadable
<1> QED  BY <1>1, <1>2, <1>3, <1>4, <1>5

LEMMA SocketPresent ==
  ASSUME NEW k,
         NEW o \in BufferOptions \cup ClassOptions \cup SocketOptions
                     \cup CurveOptions \cup GssapiOptions, k \in o.targets
  PROVE  /\ o \in SocketOptions => o.name \in BaseNames
         /\ o \in CurveOptions => o.name \in CurveNames
         /\ o \in GssapiOptions => o.name \in GssapiNames
         /\ o \in BufferOptions => \/ o.name \in WritableNames /\ k \in Writables
                                   \/ o.name \in ReadableNames /\ k \in Readables
         /\ o \in ClassOptions => o.name \in OwnNames /\ k \in Owners[o.name]
<1>1. ASSUME o \in SocketOptions PROVE o.name \in BaseNames
  <2>1. MechanismOption.name = "securityMechanism"
    BY DEF MechanismOption
  <2> QED
    BY <1>1, <2>1, Row DEF SocketOptions, BaseNames, Natives, CurveNames, GssapiNames,
                           WritableNames, ReadableNames, OwnNames, Owners
<1>2. ASSUME o \in CurveOptions PROVE o.name \in CurveNames
  BY <1>2, Row DEF CurveOptions, CurveNames
<1>3. ASSUME o \in GssapiOptions PROVE o.name \in GssapiNames
  <2>1. \A name, id : NameTypeOption(name, id).name = name
    BY DEF NameTypeOption
  <2> QED  BY <1>3, <2>1, Row DEF GssapiOptions, GssapiNames
<1>4. ASSUME o \in BufferOptions
      PROVE  \/ o.name \in WritableNames /\ k \in Writables
             \/ o.name \in ReadableNames /\ k \in Readables
  BY <1>4, Row DEF BufferOptions, WritableNames, ReadableNames
<1>5. ASSUME o \in ClassOptions PROVE o.name \in OwnNames /\ k \in Owners[o.name]
  BY <1>5, Row DEF ClassOptions, OwnNames, Owners
<1> QED  BY <1>1, <1>2, <1>3, <1>4, <1>5

-----------------------------------------------------------------------------
(* What is declared.                                                       *)

Says(table, name) == \E d \in table : d.name = name

(* The documentation of the options of GSSAPI does not name one.           *)
NativeSaid(n) == IF n \in GssapiNames THEN Unnamed ELSE Natives[n]

Agrees(name, native, type, acc) ==
  /\ name \in DOMAIN Natives
  /\ native # Unnamed => NativeIds[native] = IdNamed(name)
  /\ type = JsTypeNamed(name)
  /\ AccNamed(name) \in {"w", "rw"} <=> acc # "ro"
  /\ AccNamed(name) \in {"r", "rw"} <=> acc # "wo" /\ name \notin Unreadable
AsSaid(d) == Agrees(d.name, d.native, d.type, d.acc)

LEMMA SaysUnion ==
  ASSUME NEW S, NEW T, NEW name
  PROVE  Says(S \cup T, name) <=> Says(S, name) \/ Says(T, name)
BY DEF Says

LEMMA SaysDeclared ==
  ASSUME NEW type, NEW acc, NEW names, NEW name, NEW native,
         <<name, native>> \in names
  PROVE  Says(Declare(type, acc, names), name)
<1> DEFINE Made(n) == [name |-> n[1], native |-> n[2], type |-> type, acc |-> acc]
<1>1. Made(<<name, native>>) \in Declare(type, acc, names)
  BY DEF Declare
<1>2. Made(<<name, native>>).name = name
  OBVIOUS
<1> HIDE DEF Made
<1> QED  BY <1>1, <1>2 DEF Says

LEMMA DeclaredRow ==
  ASSUME NEW type, NEW acc, NEW names, NEW d \in Declare(type, acc, names)
  PROVE  \E n \in names : /\ d.name = n[1] /\ d.native = n[2]
                          /\ d.type = type /\ d.acc = acc
BY DEF Declare

LEMMA SaidRows ==
  ASSUME NEW type, NEW acc, NEW names, \A n \in names : Agrees(n[1], n[2], type, acc),
         NEW d \in Declare(type, acc, names)
  PROVE  AsSaid(d)
BY DeclaredRow DEF AsSaid

LEMMA BaseSaid ==
  ASSUME NEW d \in TransportDeclared \cup SecurityDeclared \cup HeartbeatDeclared
                     \cup ReadOnlyDeclared \cup WritableDeclared \cup ReadableDeclared
  PROVE  AsSaid(d)
<1>1. CASE d \in TransportDeclared
  BY <1>1, SaidRows
     DEF TransportDeclared, Agrees, IdNamed, Natives, NativeIds, JsTypeNamed,
         TypeOfName, AccNamed, Unreadable
<1>2. CASE d \in SecurityDeclared
  BY <1>2, SaidRows
     DEF SecurityDeclared, Agrees, IdNamed, Natives, NativeIds, JsTypeNamed,
         TypeOfName, AccNamed, Unreadable
<1>3. CASE d \in HeartbeatDeclared
  BY <1>3, SaidRows
     DEF HeartbeatDeclared, Agrees, IdNamed, Natives, NativeIds, JsTypeNamed,
         TypeOfName, AccNamed, Unreadable
<1>4. CASE d \in ReadOnlyDeclared
  BY <1>4, SaidRows
     DEF ReadOnlyDeclared, Agrees, IdNamed, Natives, NativeIds, JsTypeNamed,
         TypeOfName, AccNamed, Unreadable
<1>5. CASE d \in WritableDeclared \cup ReadableDeclared
  BY <1>5, SaidRows
     DEF WritableDeclared, ReadableDeclared, Agrees, IdNamed, Natives, NativeIds,
         JsTypeNamed, TypeOfName, AccNamed, Unreadable
<1> QED  BY <1>1, <1>2, <1>3, <1>4, <1>5

BaseDeclared ==
  TransportDeclared \cup SecurityDeclared \cup HeartbeatDeclared \cup ReadOnlyDeclared

LEMMA BaseSays ==
  ASSUME NEW name
  PROVE  /\ name \in BaseNames \cup CurveNames \cup GssapiNames <=> Says(BaseDeclared, name)
         /\ name \in WritableNames <=> Says(WritableDeclared, name)
         /\ name \in ReadableNames <=> Says(ReadableDeclared, name)
<1>1. ASSUME NEW type, NEW acc, NEW names, <<name, NativeSaid(name)>> \in names
      PROVE  Says(Declare(type, acc, names), name)
  BY <1>1, SaysDeclared
<1>2. name \in BaseNames \cup CurveNames \cup GssapiNames => Says(BaseDeclared, name)
  BY <1>1, SaysUnion
     DEF BaseDeclared, TransportDeclared, SecurityDeclared, HeartbeatDeclared,
         ReadOnlyDeclared, NativeSaid, Natives, BaseNames, CurveNames, GssapiNames,
         WritableNames, ReadableNames, OwnNames, Owners
<1>3. /\ name \in WritableNames => Says(WritableDeclared, name)
      /\ name \in ReadableNames => Says(ReadableDeclared, name)
  BY <1>1, SaysUnion
     DEF WritableDeclared, ReadableDeclared, NativeSaid, Natives, GssapiNames,
         WritableNames, ReadableNames
<1>4. ASSUME NEW d \in BaseDeclared
      PROVE  d.name \in BaseNames \cup CurveNames \cup GssapiNames
  BY <1>4, DeclaredRow
     DEF BaseDeclared, TransportDeclared, SecurityDeclared, HeartbeatDeclared,
         ReadOnlyDeclared, Natives, BaseNames, CurveNames, GssapiNames,
         WritableNames, ReadableNames, OwnNames, Owners
<1>5. /\ \A d \in WritableDeclared : d.name \in WritableNames
      /\ \A d \in ReadableDeclared : d.name \in ReadableNames
  BY DeclaredRow DEF WritableDeclared, ReadableDeclared, WritableNames, ReadableNames
<1> QED  BY <1>2, <1>3, <1>4, <1>5 DEF Says

(* What a class says of itself.                                            *)
OwnSaid(k, own) ==
  /\ \A d \in own : AsSaid(d)
  /\ \A name : name \in OwnNames /\ k \in Owners[name] <=> Says(own, name)
Abilities(k, class) ==
  /\ "Writable" \in class.has <=> k \in Writables
  /\ "Readable" \in class.has <=> k \in Readables
  /\ "send" \in class.methods <=> k \in Writables
  /\ "receive" \in class.methods <=> k \in Readables

LEMMA ClassFits ==
  ASSUME NEW t \in ClassTables, NEW k \in DOMAIN t
  PROVE  OwnSaid(k, t[k].own) /\ Abilities(k, t[k])
<1>1. Abilities(k, t[k])
  BY DEF Abilities, Writables, Readables,
         ClassTables, PubSubDeclared, ReqRepDeclared, RouterDeclared,
         PipelineDeclared, XPubSubDeclared, PairStreamDeclared, DraftDeclared,
         Class, Both, SendReceive, RoutingId, ProbeRouter, Conflate, NoDrop, InvertMatching
<1>2. \A d \in t[k].own : AsSaid(d)
  <2>1. \A d \in RoutingId \cup ProbeRouter \cup Conflate \cup NoDrop
                   \cup InvertMatching : AsSaid(d)
    BY SaidRows
       DEF Agrees, IdNamed, Natives, NativeIds, JsTypeNamed, TypeOfName, AccNamed,
           Unreadable, RoutingId, ProbeRouter, Conflate, NoDrop, InvertMatching
  <2>2. CASE t \in {PubSubDeclared, PipelineDeclared, DraftDeclared}
    BY <2>1, <2>2 DEF PubSubDeclared, PipelineDeclared, DraftDeclared, Class
  <2>3. CASE t \in {ReqRepDeclared, RouterDeclared}
    BY <2>1, <2>3, SaidRows
       DEF ReqRepDeclared, RouterDeclared, Class, Agrees, IdNamed, Natives, NativeIds,
           JsTypeNamed, TypeOfName, AccNamed, Unreadable
  <2>4. CASE t \in {XPubSubDeclared, PairStreamDeclared}
    BY <2>1, <2>4, SaidRows
       DEF XPubSubDeclared, PairStreamDeclared, Class, Agrees, IdNamed, Natives,
           NativeIds, JsTypeNamed, TypeOfName, AccNamed, Unreadable
  <2> QED  BY <2>2, <2>3, <2>4 DEF ClassTables
<1>3. ASSUME NEW d \in t[k].own PROVE d.name \in OwnNames /\ k \in Owners[d.name]
  BY DeclaredRow
     DEF OwnNames, Owners,
         ClassTables, PubSubDeclared, ReqRepDeclared, RouterDeclared,
         PipelineDeclared, XPubSubDeclared, PairStreamDeclared, DraftDeclared,
         Class, Both, SendReceive, RoutingId, ProbeRouter, Conflate, NoDrop, InvertMatching
<1>4. ASSUME NEW name, name \in OwnNames, k \in Owners[name] PROVE Says(t[k].own, name)
  <2>1. ASSUME NEW type, NEW acc, NEW names, <<name, Natives[name]>> \in names
        PROVE  Says(Declare(type, acc, names), name)
    <3>1. NativeSaid(name) = Natives[name]
      BY <1>4 DEF NativeSaid, OwnNames, Owners, GssapiNames
    <3> QED  BY <2>1, <3>1, SaysDeclared
  <2>2. /\ name = "routingId" => Says(RoutingId, name)
        /\ name = "probeRouter" => Says(ProbeRouter, name)
        /\ name = "conflate" => Says(Conflate, name)
        /\ name = "noDrop" => Says(NoDrop, name)
        /\ name = "invertMatching" => Says(InvertMatching, name)
    BY <2>1 DEF Natives, RoutingId, ProbeRouter, Conflate, NoDrop, InvertMatching
  <2>3. CASE t = PubSubDeclared
    <3>1. \/ k = "Publisher" /\ name \in {"noDrop", "conflate", "invertMatching"}
          \/ k = "Subscriber" /\ name \in {"conflate", "invertMatching"}
      BY <1>4, <2>3 DEF OwnNames, Owners, PubSubDeclared
    <3>2. /\ k = "Publisher" => t[k].own = NoDrop \cup Conflate \cup InvertMatching
          /\ k = "Subscriber" => t[k].own = Conflate \cup InvertMatching
      BY <2>3 DEF PubSubDeclared, Class
    <3> QED  BY <2>2, <3>1, <3>2, SaysUnion
  <2>4. CASE t = ReqRepDeclared
    <3> DEFINE more == Declare("boolean", "rw", {<<"correlate", "ZMQ_REQ_CORRELATE">>,
                                                 <<"relaxed", "ZMQ_REQ_RELAXED">>})
    <3>1. \/ /\ k = "Request"
             /\ name \in {"routingId", "probeRouter", "correlate", "relaxed"}
          \/ k = "Reply" /\ name = "routingId"
          \/ k = "Dealer" /\ name \in {"routingId", "probeRouter", "conflate"}
      BY <1>4, <2>4 DEF OwnNames, Owners, ReqRepDeclared
    <3>2. /\ k = "Request" => t[k].own = RoutingId \cup ProbeRouter \cup more
          /\ k = "Reply" => t[k].own = RoutingId
          /\ k = "Dealer" => t[k].own = RoutingId \cup ProbeRouter \cup Conflate
      BY <2>4 DEF ReqRepDeclared, Class
    <3>3. name \in {"correlate", "relaxed"} => Says(more, name)
      BY <2>1 DEF Natives
    <3> HIDE DEF more
    <3> QED  BY <2>2, <3>1, <3>2, <3>3, SaysUnion
  <2>5. CASE t = RouterDeclared
    <3> DEFINE more == Declare("boolean", "rw", {<<"mandatory", "ZMQ_ROUTER_MANDATORY">>,
                                                 <<"handover", "ZMQ_ROUTER_HANDOVER">>})
    <3>1. name \in {"routingId", "probeRouter", "mandatory", "handover"}
      BY <1>4, <2>5 DEF OwnNames, Owners, RouterDeclared
    <3>2. t[k].own = RoutingId \cup ProbeRouter \cup more
      BY <2>5 DEF RouterDeclared, Class
    <3>3. name \in {"mandatory", "handover"} => Says(more, name)
      BY <2>1 DEF Natives
    <3> HIDE DEF more
    <3> QED  BY <2>2, <3>1, <3>2, <3>3, SaysUnion
  <2>6. CASE t = PipelineDeclared
    <3>1. name = "conflate"
      BY <1>4, <2>6 DEF OwnNames, Owners, PipelineDeclared
    <3>2. t[k].own = Conflate
      BY <2>6 DEF PipelineDeclared, Class
    <3> QED  BY <2>2, <3>1, <3>2
  <2>7. CASE t = XPubSubDeclared
    <3> DEFINE manual == Declare("boolean", "rw", {<<"manual", "ZMQ_XPUB_MANUAL">>})
               welcome == Declare("string", "rw",
                            {<<"welcomeMessage", "ZMQ_XPUB_WELCOME_MSG">>})
    <3>1. /\ k = "XPublisher"
          /\ name \in {"noDrop", "invertMatching", "manual", "welcomeMessage"}
      BY <1>4, <2>7 DEF OwnNames, Owners, XPubSubDeclared
    <3>2. t[k].own = NoDrop \cup InvertMatching \cup manual \cup welcome
      BY <2>7, <3>1 DEF XPubSubDeclared, Class
    <3>3. /\ name = "manual" => Says(manual, name)
          /\ name = "welcomeMessage" => Says(welcome, name)
      BY <2>1 DEF Natives
    <3> HIDE DEF manual, welcome
    <3> QED  BY <2>2, <3>1, <3>2, <3>3, SaysUnion
  <2>8. CASE t = PairStreamDeclared
    <3> DEFINE notify == Declare("boolean", "rw", {<<"notify", "ZMQ_STREAM_NOTIFY">>})
    <3>1. k = "Stream" /\ name = "notify"
      BY <1>4, <2>8 DEF OwnNames, Owners, PairStreamDeclared
    <3>2. t[k].own = notify
      BY <2>8, <3>1 DEF PairStreamDeclared, Class
    <3> QED  BY <2>1, <3>1, <3>2 DEF Natives
  <2>9. CASE t = DraftDeclared
    <3>1. k \in {"Gather", "Scatter"} /\ name = "conflate"
      BY <1>4, <2>9 DEF OwnNames, Owners, DraftDeclared
    <3>2. t[k].own = Conflate
      BY <2>9, <3>1 DEF DraftDeclared, Class
    <3> QED  BY <2>2, <3>1, <3>2
  <2> QED  BY <2>3, <2>4, <2>5, <2>6, <2>7, <2>8, <2>9 DEF ClassTables
<1> QED  BY <1>1, <1>3, <1>2, <1>4 DEF OwnSaid, Says

LEMMA ClassIs ==
  ASSUME NEW k \in SocketKinds
  PROVE  \E t \in ClassTables : k \in DOMAIN t /\ Classes[k] = t[k]
<1> DEFINE table == CHOOSE t \in ClassTables : k \in DOMAIN t
<1>1. \E t \in ClassTables : k \in DOMAIN t
  BY DEF SocketKinds
<1>2. table \in ClassTables /\ k \in DOMAIN table
  BY <1>1
<1>3. Classes[k] = table[k]
  BY DEF Classes
<1> HIDE DEF table
<1> QED  BY <1>2, <1>3

AllBuild == {"curve", "gssapi"}

LEMMA DeclaredFacts ==
  ASSUME NEW k \in SocketKinds
  PROVE  /\ \A d \in Declared(k) : AsSaid(d) /\ Present(AllBuild, k, d.name)
         /\ \A n : Present(AllBuild, k, n) => Says(Declared(k), n)
<1> DEFINE own == Classes[k].own
<1>1. OwnSaid(k, own) /\ Abilities(k, Classes[k])
  BY ClassIs, ClassFits
<1>2. Declared(k) = BaseDeclared \cup own
                      \cup (IF k \in Writables THEN WritableDeclared ELSE {})
                      \cup (IF k \in Readables THEN ReadableDeclared ELSE {})
  BY <1>1, ContextIsNoSocket DEF Declared, BaseDeclared, Abilities
<1> HIDE DEF own
<1>3. ASSUME NEW d \in Declared(k) PROVE AsSaid(d) /\ Present(AllBuild, k, d.name)
  <2>1. CASE d \in own
    BY <1>1, <2>1 DEF OwnSaid, Says, Present
  <2>2. CASE d \in BaseDeclared
    BY <2>2, BaseSaid, BaseSays DEF BaseDeclared, Says, Present, AllBuild
  <2>3. CASE k \in Writables /\ d \in WritableDeclared
    BY <2>3, BaseSaid, BaseSays DEF Says, Present
  <2>4. CASE k \in Readables /\ d \in ReadableDeclared
    BY <2>4, BaseSaid, BaseSays DEF Says, Present
  <2> QED  BY <1>2, <1>3, <2>1, <2>2, <2>3, <2>4
<1>4. ASSUME NEW n, Present(AllBuild, k, n) PROVE Says(Declared(k), n)
  <2>1. \/ Says(BaseDeclared, n) \/ Says(own, n)
        \/ k \in Writables /\ Says(WritableDeclared, n)
        \/ k \in Readables /\ Says(ReadableDeclared, n)
    BY <1>1, <1>4, BaseSays DEF Present, OwnSaid
  <2> QED  BY <1>2, <2>1 DEF Says
<1> QED  BY <1>3, <1>4

LEMMA DefinedFacts ==
  ASSUME NEW c \in SUBSET AllBuild, NEW k \in SocketKinds
  PROVE  /\ \A o \in Accessors[c][k] : AsNamed(o) /\ Filed(o) /\ Present(c, k, o.name)
         /\ \A n : Present(c, k, n) => \E o \in Accessors[c][k] : o.name = n
<1> DEFINE rows == ContextOptions \cup BufferOptions \cup ClassOptions \cup SocketOptions
                     \cup (IF "curve" \in c THEN CurveOptions ELSE {})
                     \cup (IF "gssapi" \in c THEN GssapiOptions ELSE {})
<1>1. Accessors[c][k] = {o \in rows : k \in o.targets}
  BY DEF Accessors, AllBuild
<1>2. ASSUME NEW o \in Accessors[c][k]
      PROVE  AsNamed(o) /\ Filed(o) /\ Present(c, k, o.name)
  <2>1. o \in rows /\ k \in o.targets
    BY <1>1
  <2>2. o \notin ContextOptions
    BY <2>1, ContextRows, ContextIsNoSocket
  <2> QED  BY <2>1, <2>2, SocketNamed, SocketRows, SocketPresent DEF Present
<1>3. ASSUME NEW n, Present(c, k, n) PROVE \E o \in Accessors[c][k] : o.name = n
  <2>1. Has(rows, k, n)
    BY <1>3, Existing DEF Present, Has
  <2> QED  BY <1>1, <2>1 DEF Has
<1> QED  BY <1>2, <1>3

LEMMA JsTypeIs == ASSUME NEW o, Filed(o) PROVE JsType(o) = JsTypeNamed(o.name)
<1>1. CASE o.values = <<>>
  BY <1>1 DEF Filed, RowType, JsType, JsTypeNamed, NativeTypes
<1>2. CASE o.values # <<>>
  <2>1. o.type = "Int32"
    BY <1>2 DEF Filed, MechanismOption
  <2>2. JsType(o) = "enum"
    BY <1>2, <2>1 DEF JsType
  <2>3. TypeOfName(o.name) \in {"mechanism", "nameType"}
    BY <1>2 DEF Filed, RowType
  <2> QED  BY <2>2, <2>3 DEF JsTypeNamed
<1> QED  BY <1>1, <1>2

LEMMA SocketDeclared ==
  ASSUME NEW c \in SUBSET AllBuild, NEW k \in SocketKinds
  PROVE  DeclaredIsDefined(c, k)
<1> SUFFICES ASSUME NEW d \in Declared(k)
             PROVE  \/ \E o \in Accessors[c][k] :
                         /\ o.name = d.name /\ JsType(o) = d.type
                         /\ d.native # Unnamed => o.id = NativeIds[d.native]
                         /\ CanWrite(o) <=> d.acc # "ro"
                         /\ CanRead(o) <=> d.acc # "wo" /\ d.name \notin Unreadable
                    \/ \E o \in (CurveOptions \cup GssapiOptions) \ Accessors[c][k] :
                         o.name = d.name
  BY DEF DeclaredIsDefined
<1>1. AsSaid(d) /\ Present(AllBuild, k, d.name)
  BY DeclaredFacts
<1>2. CASE Present(c, k, d.name)
  <2>1. PICK o \in Accessors[c][k] : o.name = d.name
    BY <1>2, DefinedFacts
  <2>2. AsNamed(o) /\ JsType(o) = JsTypeNamed(o.name)
    BY DefinedFacts, JsTypeIs
  <2>3. /\ JsType(o) = d.type
        /\ d.native # Unnamed => o.id = NativeIds[d.native]
        /\ CanWrite(o) <=> d.acc # "ro"
        /\ CanRead(o) <=> d.acc # "wo" /\ d.name \notin Unreadable
    BY <1>1, <2>1, <2>2 DEF AsSaid, Agrees, AsNamed, CanWrite, CanRead
  <2> QED  BY <2>1, <2>3
<1>3. CASE ~Present(c, k, d.name)
  <2>1. Has(CurveOptions, k, d.name) \/ Has(GssapiOptions, k, d.name)
    BY <1>1, <1>3, Existing DEF Present
  <2> QED  BY <1>3, <2>1, DefinedFacts DEF Has
<1> QED  BY <1>2, <1>3

LEMMA SocketDefined ==
  ASSUME NEW c \in SUBSET AllBuild, NEW k \in SocketKinds
  PROVE  DefinedIsDeclared(c, k)
<1> SUFFICES ASSUME NEW o \in Accessors[c][k]
             PROVE  /\ o.type \in NativeTypes
                    /\ \E d \in Declared(k) : d.name = o.name
                    /\ o.name \notin NativeMembers
  BY DEF DefinedIsDeclared
<1>1. AsNamed(o) /\ Filed(o) /\ Present(c, k, o.name)
  BY DefinedFacts
<1>2. Says(Declared(k), o.name)
  BY <1>1, DeclaredFacts DEF Present, AllBuild
<1>3. o.name \notin NativeMembers
  BY <1>1 DEF AsNamed, Natives, NativeMembers
<1> QED  BY <1>1, <1>2, <1>3 DEF Filed, Says

LEMMA CompatNamed ==
  ASSUME NEW s \in SetTargets \cup GetSources
  PROVE  s.id = 31 \/ s.prop = "verbosity" \/ s.id = IdNamed(s.prop)
<1>1. ASSUME NEW convert, NEW names,
             \A n \in names : n[1] = IdNamed(n[2]),
             NEW t \in Assigns(convert, names)
      PROVE  t.id = IdNamed(t.prop)
  BY <1>1 DEF Assigns
<1>2. ASSUME NEW t \in Assigns("not", {<<31, "ipv6">>})
                       \cup Assigns("verbose", {<<40, "verbosity">>})
      PROVE  t.id = 31 \/ t.prop = "verbosity"
  BY <1>2 DEF Assigns
<1>3. CASE s \in SetTargets
  BY <1>1, <1>2, <1>3 DEF SetTargets, IdNamed, Natives, NativeIds
<1>4. CASE s \notin SetTargets
  <2>1. \/ s.id = 16 /\ s.prop = "type"
        \/ s.id = 32 /\ s.prop = "lastEndpoint"
        \/ s.id = 43 /\ s.prop = "securityMechanism"
    BY <1>4 DEF GetSources, SetTargets, Assigns
  <2> QED  BY <2>1 DEF IdNamed, Natives, NativeIds
<1> QED  BY <1>3, <1>4

LEMMA SocketCompat ==
  ASSUME NEW c \in SUBSET AllBuild, NEW k \in SocketKinds
  PROVE  CompatNamesIt(c, k)
<1>1. \A o \in Accessors[c][k] : AsNamed(o)
  BY DefinedFacts
<1>2. "verbosity" \notin DOMAIN Natives
  BY DEF Natives
<1> QED  BY <1>1, <1>2, CompatNamed DEF CompatNamesIt, AsNamed

-----------------------------------------------------------------------------
(* The same of contexts, which have no names but those of the class.       *)

ContextNatives ==
  [ioThreads |-> "ZMQ_IO_THREADS", maxSockets |-> "ZMQ_MAX_SOCKETS",
   maxMessageSize |-> "ZMQ_MAX_MSGSZ", maxSocketsLimit |-> "ZMQ_SOCKET_LIMIT",
   threadPriority |-> "ZMQ_THREAD_PRIORITY",
   threadSchedulingPolicy |-> "ZMQ_THREAD_SCHED_POLICY",
   ipv6 |-> "ZMQ_IPV6", blocky |-> "ZMQ_BLOCKY"]
ContextAcc(n) == CASE n = "maxSocketsLimit" -> "r"
                   [] n \in {"threadPriority", "threadSchedulingPolicy"} -> "w"
                   [] OTHER -> "rw"

LEMMA ContextFacts ==
  /\ \A o \in ContextOptions : /\ o.name \in DOMAIN ContextNatives
                               /\ o.id = NativeIds[ContextNatives[o.name]]
                               /\ o.acc = ContextAcc(o.name)
  /\ \A n \in DOMAIN ContextNatives : Has(ContextOptions, "Context", n)
<1>1. ASSUME NEW o \in ContextOptions
      PROVE  /\ o.name \in DOMAIN ContextNatives
             /\ o.id = NativeIds[ContextNatives[o.name]]
             /\ o.acc = ContextAcc(o.name)
  <2>1. ASSUME NEW targets, NEW type, NEW acc, NEW names,
               \A n \in names : /\ n[1] \in DOMAIN ContextNatives
                                /\ NativeIds[ContextNatives[n[1]]] = n[2],
               NEW r \in DefineOpts(targets, type, acc, names)
        PROVE  r.name \in DOMAIN ContextNatives /\ r.id = NativeIds[ContextNatives[r.name]]
    BY <2>1, Row
  <2>2. o.name \in DOMAIN ContextNatives /\ o.id = NativeIds[ContextNatives[o.name]]
    BY <1>1, <2>1 DEF ContextOptions, ContextNatives, NativeIds
  <2>3. o.acc = ContextAcc(o.name)
    BY <1>1, Row DEF ContextOptions, ContextAcc
  <2> QED  BY <2>2, <2>3
<1>2. ASSUME NEW n \in DOMAIN ContextNatives PROVE Has(ContextOptions, "Context", n)
  <2>1. ASSUME NEW targets, NEW type, NEW acc, NEW names, "Context" \in targets,
               <<n, NativeIds[ContextNatives[n]]>> \in names
        PROVE  Has(DefineOpts(targets, type, acc, names), "Context", n)
    BY <2>1, HasDefined
  <2> QED  BY <2>1, HasUnion DEF ContextOptions, ContextNatives, NativeIds
<1> QED  BY <1>1, <1>2

LEMMA ContextSaid ==
  /\ \A d \in ContextDeclared :
       /\ d.name \in DOMAIN ContextNatives
       /\ d.native = ContextNatives[d.name]
       /\ d.type = IF d.name \in {"ipv6", "blocky"} THEN "boolean" ELSE "number"
       /\ ContextAcc(d.name) \in {"w", "rw"} <=> d.acc # "ro"
       /\ ContextAcc(d.name) \in {"r", "rw"} <=> d.acc # "wo" /\ d.name \notin Unreadable
  /\ \A n \in DOMAIN ContextNatives : Says(ContextDeclared, n)
<1>1. ASSUME NEW d \in ContextDeclared
      PROVE  /\ d.name \in DOMAIN ContextNatives
             /\ d.native = ContextNatives[d.name]
             /\ d.type = IF d.name \in {"ipv6", "blocky"} THEN "boolean" ELSE "number"
             /\ ContextAcc(d.name) \in {"w", "rw"} <=> d.acc # "ro"
             /\ ContextAcc(d.name) \in {"r", "rw"}
                  <=> d.acc # "wo" /\ d.name \notin Unreadable
  BY <1>1, DeclaredRow DEF ContextDeclared, ContextNatives, ContextAcc, Unreadable
<1>2. ASSUME NEW n \in DOMAIN ContextNatives PROVE Says(ContextDeclared, n)
  <2>1. ASSUME NEW type, NEW acc, NEW names, <<n, ContextNatives[n]>> \in names
        PROVE  Says(Declare(type, acc, names), n)
    BY <2>1, SaysDeclared
  <2> QED  BY <2>1, SaysUnion DEF ContextDeclared, ContextNatives
<1> QED  BY <1>1, <1>2

LEMMA ContextAgrees ==
  ASSUME NEW c \in SUBSET AllBuild
  PROVE  DeclaredIsDefined(c, "Context") /\ DefinedIsDeclared(c, "Context")
<1>1. \A o \in Accessors[c]["Context"] : o \in ContextOptions
  BY SocketTargets DEF Accessors, AllBuild
<1>2. \A n \in DOMAIN ContextNatives : \E o \in Accessors[c]["Context"] : o.name = n
  BY ContextFacts DEF Accessors, AllBuild, Has
<1>3. Declared("Context") = ContextDeclared
  BY DEF Declared
<1>4. \A o \in ContextOptions :
        JsType(o) = IF o.name \in {"ipv6", "blocky"} THEN "boolean" ELSE "number"
  BY ContextRows DEF JsType
<1>5. ASSUME NEW d \in ContextDeclared
      PROVE  \E o \in Accessors[c]["Context"] :
               /\ o.name = d.name /\ JsType(o) = d.type
               /\ d.native # Unnamed => o.id = NativeIds[d.native]
               /\ CanWrite(o) <=> d.acc # "ro"
               /\ CanRead(o) <=> d.acc # "wo" /\ d.name \notin Unreadable
  <2>1. PICK o \in Accessors[c]["Context"] : o.name = d.name
    BY <1>2, ContextSaid
  <2>2. /\ JsType(o) = d.type
        /\ d.native # Unnamed => o.id = NativeIds[d.native]
        /\ CanWrite(o) <=> d.acc # "ro"
        /\ CanRead(o) <=> d.acc # "wo" /\ d.name \notin Unreadable
    BY <1>1, <1>4, <2>1, ContextSaid, ContextFacts DEF CanWrite, CanRead
  <2> QED  BY <2>1, <2>2
<1>6. ASSUME NEW o \in Accessors[c]["Context"]
      PROVE  /\ o.type \in NativeTypes
             /\ \E d \in ContextDeclared : d.name = o.name
             /\ o.name \notin NativeMembers
  <2>1. o.name \in DOMAIN ContextNatives /\ o.type \in {"Bool", "Int32"}
    BY <1>1, ContextFacts, ContextRows
  <2>2. o.name \notin NativeMembers
    BY <2>1 DEF ContextNatives, NativeMembers
  <2> QED  BY <2>1, <2>2, ContextSaid DEF NativeTypes, Says
<1> QED  BY <1>3, <1>5, <1>6 DEF DeclaredIsDefined, DefinedIsDeclared

(* The declarations, the accessors and the names of the compatibility      *)
(* layer agree, for every build and class: what can be said of a table     *)
(* follows from the name of the property (index.ts, native.ts, compat.ts). *)
THEOREM ListsAgree == Spec => []TablesAgree
<1>1. ASSUME NEW c \in SUBSET {"curve", "gssapi"}, NEW k \in SocketKinds \cup {"Context"}
      PROVE  Agreement[c][k]
  <2>1. DeclaredIsDefined(c, k) /\ DefinedIsDeclared(c, k) /\ CompatNamesIt(c, k)
    BY SocketDeclared, SocketDefined, SocketCompat, ContextAgrees
       DEF AllBuild, CompatNamesIt
  <2>2. MethodsListed(k)
    BY ClassIs, ClassFits DEF MethodsListed, Methods, Abilities
  <2>3. CompatTypesAgree
    BY DEF CompatTypesAgree, CompatClass, CompatType, SocketType
  <2> QED  BY <2>1, <2>2, <2>3 DEF Agreement
<1>2. Init => Kinds
  BY BuildsAssumption DEF Init, Kinds
<1>3. Kinds => TablesAgree
  BY <1>1 DEF Kinds, TablesAgree
<1> QED  BY <1>2, <1>3, KindsNext, PTL DEF Spec
====
