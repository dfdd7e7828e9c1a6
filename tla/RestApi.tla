------------------------------- MODULE RestApi -------------------------------
(***************************************************************************)
(* The registry of REST calls, sys/rest_api.c, filled by the REGISTER      *)
(* sections of services/lib and of benchmark/obj/client.c in the order in  *)
(* which create() includes them, and asked by lib/rest/Server.c and        *)
(* lib/rest/Client.c for the function that handles a request.              *)
(*                                                                         *)
(* A path is the sequence of its segments, a segment the pair of a name    *)
(* and a query; the query of a path is part of its last segment.  The tree *)
(* of mappings is the set of its nodes, each named by the segments that    *)
(* lead to it, and the functions at some of them.                          *)
(***************************************************************************)
EXTENDS Naturals, Sequences, FiniteSets, TLC

CONSTANTS
  Values,         \* what is filled in for a parameter of a path
  Queries         \* queries of requests; "" for none

VARIABLES
  registered,     \* number of registrations so far
  nodes,          \* the mappings in api
  calls,          \* their nil entries
  handle          \* most recent request, and what lookup() returned

apiVars == <<registered, nodes, calls, handle>>

(***************************************************************************)
(* The routes                                                              *)
(***************************************************************************)

Route(host, method, path, query, function) ==
  [host |-> host, method |-> method, path |-> path, query |-> query, function |-> function]

\* services/lib/chat/Registration.c
RegistrationRoutes == <<
  Route("chat", "POST", <<"v1", "verification", "session">>, "", "postVerificationNewSession"),
  Route("chat", "PATCH", <<"v1", "verification", "session", "{}">>, "", "patchVerificationSession"),
  Route("chat", "GET", <<"v1", "verification", "session", "{}">>, "", "getVerificationSession"),
  Route("chat", "POST", <<"v1", "verification", "session", "{}", "code">>, "", "postVerificationSessionCode"),
  Route("chat", "PUT", <<"v1", "verification", "session", "{}", "code">>, "", "putVerificationSessionCode"),
  Route("chat", "POST", <<"v1", "registration">>, "", "postRegistration")>>

\* services/lib/chat/Keys.c
KeysRoutes == <<
  Route("chat", "PUT", <<"v2", "keys", "">>, "identity=aci", "putKeysAci"),
  Route("chat", "PUT", <<"v2", "keys">>, "identity=aci", "putKeysAci"),
  Route("chat", "PUT", <<"v2", "keys", "">>, "identity=pni", "putKeysPni"),
  Route("chat", "PUT", <<"v2", "keys">>, "identity=pni", "putKeysPni"),
  Route("chat", "PUT", <<"v2", "keys", "signed">>, "identity=aci", "putKeysSignedAci"),
  Route("chat", "GET", <<"v2", "keys", "{}", "{}">>, "", "getKeys")>>

\* services/lib/chat/Accounts.c
AccountsRoutes == <<
  Route("chat", "PUT", <<"v1", "accounts", "gcm", "">>, "", "putAccountsGcm"),
  Route("chat", "PUT", <<"v1", "accounts", "attributes", "">>, "", "putAccountsAttributes")>>

\* services/lib/chat/Websocket.c
WebsocketRoutes == <<
  Route("chat", "GET", <<"v1", "websocket", "">>, "", "getWebsocket"),
  Route("chat", "GET", <<"v1", "websocket", "{}">>, "", "getWebsocketLogin"),
  Route("chat", "GET", <<"v1", "websocket", "provisioning", "{}">>, "", "getWebsocketProvisioning")>>

\* services/lib/chat/Certificate.c
CertificateRoutes == <<
  Route("chat", "GET", <<"v1", "certificate", "delivery">>, "", "getCertificateDelivery"),
  Route("chat", "GET", <<"v1", "certificate", "auth", "{}">>, "", "getCertificateAuth")>>

\* services/lib/chat/Config.c
ConfigRoutes == <<
  Route("chat", "GET", <<"v1", "config">>, "", "getConfig")>>

\* services/lib/chat/Profile.c
ProfileRoutes == <<
  Route("chat", "PUT", <<"v1", "profile", "">>, "", "putProfile"),
  Route("chat", "GET", <<"v1", "profile", "{}">>, "", "getProfile"),
  Route("chat", "GET", <<"v1", "profile", "{}", "{}">>, "", "getVersionedProfile"),
  Route("chat", "GET", <<"v1", "profile", "{}", "{}", "{}">>, "", "getProfileKeyCredential")>>

\* services/lib/chat/Backup.c
BackupRoutes == <<
  Route("chat", "GET", <<"v1", "backup", "auth">>, "", "getBackupAuth")>>

\* services/lib/chat/Storage.c
StorageRoutes == <<
  Route("chat", "GET", <<"v1", "storage", "auth">>, "", "getStorageAuth")>>

\* services/lib/chat/Directory.c
DirectoryRoutes == <<
  Route("chat", "GET", <<"v2", "directory", "auth">>, "", "getDirectoryAuth")>>

\* services/lib/chat/Messages.c
MessagesRoutes == <<
  Route("chat", "PUT", <<"v1", "messages", "{}">>, "", "putMessages")>>

\* services/lib/chat/Devices.c
DevicesRoutes == <<
  Route("chat", "GET", <<"v1", "devices", "">>, "", "getDevices"),
  Route("chat", "GET", <<"v1", "devices", "provisioning", "code">>, "", "getDevicesProvisioningCode"),
  Route("chat", "PUT", <<"v1", "devices", "{}">>, "", "putDevicesCode"),
  Route("chat", "PUT", <<"v1", "devices", "unauthenticated_delivery">>, "", "putDevicesUnauthenticatedDelivery"),
  Route("chat", "PUT", <<"v1", "devices", "capabilities">>, "", "putDevicesCapabilities")>>

\* services/lib/chat/Provisioning.c
ProvisioningRoutes == <<
  Route("chat", "PUT", <<"v1", "provisioning", "{}">>, "", "putProvisioning")>>

\* services/lib/storage/Storage.c
StorageServiceRoutes == <<
  Route("storage", "GET", <<"v1", "storage", "manifest">>, "", "getStorageManifest"),
  Route("storage", "GET", <<"v1", "storage", "manifest", "version", "{}">>, "", "getStorageManifestVersion")>>

\* services/lib/cdsi/Discovery.c
DiscoveryRoutes == <<
  Route("cdsi", "GET", <<"v1", "{}", "discovery">>, "", "getDiscovery")>>

\* benchmark/obj/client.c
ClientRoutes == <<
  Route("client", "PUT", <<"api", "v1", "message">>, "", "receiveMessage"),
  Route("client", "PUT", <<"api", "v1", "queue", "empty">>, "", "ignoredMessage")>>

\* create(): the files in the order in which they are included
Routes ==
  RegistrationRoutes \o KeysRoutes \o AccountsRoutes \o WebsocketRoutes
    \o CertificateRoutes \o ConfigRoutes \o ProfileRoutes \o BackupRoutes
    \o StorageRoutes \o DirectoryRoutes \o MessagesRoutes \o DevicesRoutes
    \o ProvisioningRoutes \o StorageServiceRoutes \o DiscoveryRoutes \o ClientRoutes

(***************************************************************************)
(* register() and lookup()                                                 *)
(***************************************************************************)

NoHandle == [segments |-> <<>>, function |-> "", args |-> <<>>]

Segment(name, query) == <<name, query>>

Param == Segment("{}", "")

\* ({ host, method }) + explode(path + "/", "/"), the query with the last segment
Segments(host, method, path, query) ==
  <<Segment(host, ""), Segment(method, "")>>
    \o [i \in DOMAIN path |-> Segment(path[i], IF i = Len(path) THEN query ELSE "")]

RouteSegments(r) == Segments(r.host, r.method, r.path, r.query)

\* What the proofs use of the table above, which is a constant: its types, and that no
\* path is registered for two functions.
ASSUME RoutesAssumption ==
  /\ Routes \in Seq([host : STRING, method : STRING, path : Seq(STRING),
                     query : STRING, function : STRING])
  /\ \A i, j \in DOMAIN Routes : RouteSegments(Routes[i]) = RouteSegments(Routes[j]) =>
                                  Routes[i].function = Routes[j].function

Prefixes(s) == {SubSeq(s, 1, i) : i \in 0..Len(s)}

ApiInit ==
  /\ registered = 0
  /\ nodes = {<<>>} /\ calls = <<>>
  /\ handle = NoHandle

\* register()
Register ==
  /\ registered < Len(Routes) /\ handle = NoHandle
  /\ registered' = registered + 1
  /\ LET r == Routes[registered']
         s == RouteSegments(r)
     IN
     /\ nodes' = nodes \cup Prefixes(s)
     /\ calls' = [n \in DOMAIN calls \cup {s} |-> IF n = s THEN r.function ELSE calls[n]]
  /\ UNCHANGED handle

\* Mutant: a parameter is preferred to a name.
StepParamFirst(at, segment) ==
  CASE Append(at.node, Param) \in nodes ->
         [node |-> Append(at.node, Param), args |-> Append(at.args, segment), found |-> at.found]
    [] Append(at.node, segment) \in nodes /\ Append(at.node, Param) \notin nodes ->
         [at EXCEPT !.node = Append(@, segment)]
    [] OTHER -> [at EXCEPT !.found = FALSE]

\* Mutant: a segment that is not known is ignored.
StepLenient(at, segment) ==
  CASE Append(at.node, segment) \in nodes -> [at EXCEPT !.node = Append(@, segment)]
    [] Append(at.node, Param) \in nodes /\ Append(at.node, segment) \notin nodes ->
         [node |-> Append(at.node, Param), args |-> Append(at.args, segment), found |-> at.found]
    [] OTHER -> at

\* One segment of the path: a name, or else a parameter, or else nil
Step(at, segment) ==
  CASE Append(at.node, segment) \in nodes -> [at EXCEPT !.node = Append(@, segment)]
    [] Append(at.node, Param) \in nodes /\ Append(at.node, segment) \notin nodes ->
         [node |-> Append(at.node, Param), args |-> Append(at.args, segment), found |-> at.found]
    [] OTHER -> [at EXCEPT !.found = FALSE]

\* lookup()
Lookup(segments) ==
  LET walk[i \in 0..Len(segments)] ==
        IF i = 0 THEN [node |-> <<>>, args |-> <<>>, found |-> TRUE]
        ELSE IF walk[i - 1].found THEN Step(walk[i - 1], segments[i])
        ELSE walk[i - 1]
      end == walk[Len(segments)]
  IN IF end.found /\ end.node \in DOMAIN calls
     THEN [segments |-> segments, function |-> calls[end.node], args |-> end.args]
     ELSE [NoHandle EXCEPT !.segments = segments]

\* A path like that of a route, with values for its parameters, perhaps without its
\* last segment, or with an empty one more.
Filled(path) ==
  {[i \in DOMAIN path |-> IF path[i] = "{}" THEN f[i] ELSE path[i]] :
     f \in [{i \in DOMAIN path : path[i] = "{}"} -> Values]}
Paths(path) ==
  Filled(path) \cup {Append(p, "") : p \in Filled(path)}
    \cup IF Len(path) > 1 THEN Filled(SubSeq(path, 1, Len(path) - 1)) ELSE {}

\* _receiveRequest(), receiveWsRequest(): a request is looked up, here one for every
\* sequence of registrations.
Request(r, path, query) ==
  /\ handle = NoHandle
  /\ handle' = Lookup(Segments(r.host, r.method, path, query))
  /\ UNCHANGED <<registered, nodes, calls>>

ApiNext ==
  \/ Register
  \/ \E i \in DOMAIN Routes : \E path \in Paths(Routes[i].path) :
       \E query \in Queries \cup {Routes[i].query} : Request(Routes[i], path, query)

ApiSpec == ApiInit /\ [][ApiNext]_apiVars

(***************************************************************************)
(* Properties                                                              *)
(***************************************************************************)

\* A route matches segments that have its names and anything for its parameters.
Matches(r, segments) ==
  LET s == RouteSegments(r) IN
  /\ Len(s) = Len(segments)
  /\ \A i \in DOMAIN s : s[i] \in {Param, segments[i]}

\* The names that share a place with the i-th segment of a route.
Siblings(r, i) ==
  LET s == RouteSegments(r) IN
  {n[i] : n \in {m \in nodes : Len(m) = i /\ SubSeq(m, 1, i - 1) = SubSeq(s, 1, i - 1)}}
    \ {Param}

\* Number of parameters in the first i segments of a route.
ParamsIn(s, i) == Cardinality({j \in 1..i : s[j] = Param})

\* The segments of a path that stand for the parameters of a route.
ArgsOf(r, segments) ==
  LET s == RouteSegments(r) IN
  [k \in 1..ParamsIn(s, Len(s)) |->
     segments[CHOOSE i \in DOMAIN s : s[i] = Param /\ ParamsIn(s, i) = k]]

RegisteredRoutes == {Routes[i] : i \in 1..registered}

\* A request whose path is that of a registered route, with parameters that are not
\* names at their place, is handled by the function of that route, with exactly those
\* parameters: no later registration hides a route.
RouteIsFound ==
  \A r \in RegisteredRoutes :
    LET s == handle.segments IN
    (/\ Matches(r, s)
     /\ \A i \in DOMAIN s : RouteSegments(r)[i] = Param => s[i] \notin Siblings(r, i)) =>
      handle.function = r.function /\ handle.args = ArgsOf(r, s)

\* A request is handled by no function but that of a route that its path matches,
\* with the parameters in their places.
FoundIsRegistered ==
  handle.function # "" =>
    \E r \in RegisteredRoutes :
      /\ r.function = handle.function
      /\ Matches(r, handle.segments)
      /\ handle.args = ArgsOf(r, handle.segments)

\* lookup() finds the function of a path that was registered, and no other, unless a
\* segment of the path is "{}" itself: that one is taken for a name and is no argument.
LookupIsExact ==
  (\A i \in DOMAIN handle.segments : handle.segments[i] # Param) =>
    RouteIsFound /\ FoundIsRegistered
==============================================================================
