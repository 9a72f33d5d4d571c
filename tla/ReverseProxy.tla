---------------------------- MODULE ReverseProxy ----------------------------
(***************************************************************************)
(* The reverse proxy (server/worker-proxy.ts): from the link a page shows  *)
(* (lib/worker-url.ts) to the container that answers it.                   *)
(*                                                                         *)
(* A host label is the sequence of its parts between hyphens; a part of    *)
(* digits is a number when it is read as a port.                           *)
(***************************************************************************)
EXTENDS Naturals, Sequences, FiniteSets

CONSTANTS
    Slugs,     \* slugs services may have, each a sequence of parts
    WorkerIds, \* ids of workers: one part each
    Digits,    \* parts that are numbers, among them the ports
    Visits     \* pages opened at once

VARIABLES
    catalog, \* rows of `services`, by slug: the HTTP port and the first declared one
    running, \* what has a container up: a slug, or a worker as <<id>>
    joined,  \* networks the control plane has joined
    visit    \* requests in flight

vars == <<catalog, running, joined, visit>>

NoService == [unknown |-> TRUE]
NoPort == ""
LinkPorts == Digits \cup {NoPort}
Link == [kind : {"worker", "service"}, name : Slugs \cup {<<w>> : w \in WorkerIds}, port : LinkPorts]
noRoute == [kind |-> "none", name |-> <<>>, port |-> NoPort]
codeServer == "8080"

ProxyTypes ==
    /\ catalog \in [Slugs -> [http : LinkPorts, first : LinkPorts] \cup {NoService}]
    /\ running \subseteq Slugs \cup {<<w>> : w \in WorkerIds}
    /\ \A v \in Visits :
          /\ visit[v].pc \in {"idle", "joining", "asking", "answered"}
          /\ visit[v].pc # "idle" => visit[v].link \in Link
          /\ visit[v].found \in BOOLEAN /\ visit[v].moved \in BOOLEAN

-----------------------------------------------------------------------------
(* The links. *)

workerBaseUrl(id, port) ==
    IF port = NoPort THEN <<"worker", id>> ELSE <<"worker", id, port>>
serviceBaseUrl(slug, port) ==
    IF port = NoPort THEN <<"svc">> \o slug ELSE <<"svc">> \o slug \o <<port>>
host(link) ==
    IF link.kind = "worker" THEN workerBaseUrl(link.name[1], link.port)
    ELSE serviceBaseUrl(link.name, link.port)

(* What the label of a host under a base domain names. *)
parseProxyHost(h) ==
    LET rest == Tail(h)
        To(kind, name, port) == [kind |-> kind, name |-> name, port |-> port] IN
    CASE h[1] = "svc" /\ rest # <<>> -> To("service", rest, NoPort)
      [] h[1] = "worker" /\ Len(rest) = 1 -> To("worker", rest, codeServer)
      [] h[1] = "worker" /\ Len(rest) = 2 /\ rest[2] \in Digits ->
             To("worker", <<rest[1]>>, rest[2])
      [] OTHER -> noRoute

getServiceBySlug(label) == label \in Slugs /\ catalog[label] # NoService
servicePrimaryPort(s) == IF s.http # NoPort THEN s.http ELSE s.first

Front(label) == SubSeq(label, 1, Len(label) - 1)
Last(label) == label[Len(label)]
(* A number at the end is a port, unless a service is called that. *)
WithPort(label) ==
    IF Len(label) > 1 /\ Last(label) \in Digits /\ getServiceBySlug(Front(label))
      THEN [kind |-> "service", name |-> Front(label), port |-> Last(label)] ELSE noRoute
Exact(label) ==
    LET port == servicePrimaryPort(catalog[label]) IN
    IF port = NoPort THEN noRoute ELSE [kind |-> "service", name |-> label, port |-> port]

portFirst(label) ==  \* mutant: the trailing number is read before the whole label
    IF WithPort(label) # noRoute THEN WithPort(label)
    ELSE IF getServiceBySlug(label) THEN Exact(label) ELSE noRoute
resolveServiceRoute(label) ==
    IF getServiceBySlug(label) THEN Exact(label) ELSE WithPort(label)

resolve(h) ==
    LET route == parseProxyHost(h) IN
    IF route.kind = "service" THEN resolveServiceRoute(route.name) ELSE route

-----------------------------------------------------------------------------
(* A request: the route at once, then the network, then the address. *)

network(route) == IF route.kind = "service" THEN <<"shared">> ELSE route.name
NoVisit == [pc |-> "idle", link |-> noRoute, route |-> noRoute, found |-> FALSE, moved |-> FALSE]

(* Pages show the link of a service that exists, a port of it or none. *)
handleProxyRequest(v, link) ==
    /\ visit[v].pc = "idle"
    /\ link.kind = "service" => getServiceBySlug(link.name)
    /\ LET route == resolve(host(link)) IN
       visit' = [visit EXCEPT ![v] = [NoVisit EXCEPT !.link = link, !.route = route,
                                          !.pc = IF route = noRoute THEN "answered" ELSE "joining"]]
    /\ UNCHANGED <<catalog, running, joined>>

connectSelfToNetwork(v) ==
    /\ visit[v].pc = "joining"
    /\ joined' = joined \cup {network(visit[v].route)}
    /\ visit' = [visit EXCEPT ![v].pc = "asking"]
    /\ UNCHANGED <<catalog, running>>

(* A container of this name that runs, or a 502. *)
resolveIp(v) ==
    /\ visit[v].pc = "asking"
    /\ visit' = [visit EXCEPT ![v].pc = "answered", ![v].found = visit[v].route.name \in running]
    /\ UNCHANGED <<catalog, running, joined>>

Answered(v) ==
    /\ visit[v].pc = "answered"
    /\ visit' = [visit EXCEPT ![v] = NoVisit]
    /\ UNCHANGED <<catalog, running, joined>>

-----------------------------------------------------------------------------
(* The services and the workers come and go meanwhile. *)

Moved == visit' = [v \in Visits |-> IF visit[v].pc = "idle" THEN NoVisit
                                    ELSE [visit[v] EXCEPT !.moved = TRUE]]

Declares(slug, http, first) ==
    /\ catalog[slug] = NoService
    /\ catalog' = [catalog EXCEPT ![slug] = [http |-> http, first |-> first]]
    /\ Moved /\ UNCHANGED <<running, joined>>
Drops(slug) ==
    /\ catalog[slug] # NoService
    /\ catalog' = [catalog EXCEPT ![slug] = NoService]
    /\ running' = running \ {slug}
    /\ Moved /\ UNCHANGED joined
Runs(name) ==
    /\ name \in Slugs => getServiceBySlug(name)
    /\ running' = IF name \in running THEN running \ {name} ELSE running \cup {name}
    /\ Moved /\ UNCHANGED <<catalog, joined>>

Init ==
    /\ catalog = [s \in Slugs |-> NoService] /\ running = {} /\ joined = {}
    /\ visit = [v \in Visits |-> NoVisit]

Events ==
    \/ \E slug \in Slugs : \/ Drops(slug)
                           \/ \E http, first \in LinkPorts : Declares(slug, http, first)
    \/ \E name \in Slugs \cup {<<w>> : w \in WorkerIds} : Runs(name)
    \/ \E v \in Visits, link \in Link :
           /\ (link.kind = "service") <=> (link.name \in Slugs)
           /\ handleProxyRequest(v, link)

Steps == \E v \in Visits : connectSelfToNetwork(v) \/ resolveIp(v) \/ Answered(v)

Next == Events \/ Steps
Spec == Init /\ [][Next]_vars

-----------------------------------------------------------------------------
(* A link reaches what it is the link of: a service's own, though its slug    *)
(* may end in a number and be another's with a port; a port of a service       *)
(* unless a service has that very name; always over a network joined before.   *)
RouteIsOwn ==
    \A v \in Visits :
        LET q == visit[v] link == q.link IN
        /\ q.pc \in {"asking", "answered"} /\ q.route # noRoute => network(q.route) \in joined
        /\ q.pc # "idle" /\ ~q.moved =>
             CASE link.kind = "worker" ->
                      /\ q.route.name = link.name
                      /\ q.route.port = IF link.port = NoPort THEN codeServer ELSE link.port
               [] link.kind = "service" /\ link.port = NoPort ->
                      q.route = noRoute \/ (/\ q.route.name = link.name
                                            /\ q.route.port = servicePrimaryPort(catalog[link.name]))
               [] link.kind = "service" /\ link.port # NoPort ->
                      \/ q.route = [kind |-> "service", name |-> link.name, port |-> link.port]
                      \/ getServiceBySlug(link.name \o <<link.port>>)
        /\ q.pc = "answered" /\ q.route # noRoute /\ ~q.moved => q.found = (q.route.name \in running)
=============================================================================
