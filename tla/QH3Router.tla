------------------------------ MODULE QH3Router ------------------------------
(***************************************************************************)
(* The HTTP/3 router, its command center and the qh3servers behind it      *)
(* (src/qh3server/qh3server/qh3router.cpp, http3_command_server.cpp and the *)
(* reporting half of qh3server.cpp).                                       *)
(*                                                                         *)
(* Servers tell the router by datagrams that they started ("start"), live  *)
(* ("hb") and ended ("shut-ack").  All run on one host, so datagrams keep  *)
(* their order; they are lost when the socket's buffer is full, or when    *)
(* sendto or getaddrinfo fails.                                            *)
(***************************************************************************)
EXTENDS Integers, Sequences, FiniteSets

CONSTANTS
    Servers,         \* host:port of the servers that may run
    CommandCenter,   \* host:port of the command center, a server too
    Spawned,         \* the servers spawned by the router before its loop starts
    MaxStarts,       \* bound: how many servers are started while the router runs
    MaxPackets       \* bound: datagrams the feedback socket holds

ASSUME RouterAssumption ==
    /\ IsFiniteSet(Servers) /\ CommandCenter \notin Servers
    /\ Spawned \subseteq Servers
    /\ MaxStarts \in Nat
    /\ MaxPackets \in Nat

Nodes == Servers \cup {CommandCenter}

VARIABLES
    node,                 \* life of each server process or thread
    starts,               \* servers started so far, apart from the spawned ones
    packets,              \* datagrams in the socket of command_feedback_route
    routes,               \* the active routes
    unresponsive_routes,
    server_counter,
    command_route,        \* FALSE when it is null
    redis,                \* fields "server-<port>" of the hash "servers:<ip>"
    shutdown_cmd_center,  \* a "/shutdown_cmd_center" is on its way
    router,               \* "run", "break" after ev_break, "over", "aborted"
    faults                \* what went wrong outside the router so far

nodeVars  == <<node, starts>>
routeVars == <<routes, unresponsive_routes, server_counter, redis>>
vars == <<nodeVars, packets, routeVars, command_route, shutdown_cmd_center,
          router, faults>>

Route == [server_id : Nat, port : Servers]
Cmds  == {"start", "hb", "shut-ack"}
Packet == [from : Nodes, cmd : Cmds]

Known == {r.port : r \in routes \cup unresponsive_routes}

Init ==
    /\ node = [n \in Nodes |-> IF n \in Spawned \cup {CommandCenter} THEN "starting" ELSE "off"]
    /\ starts = 0
    /\ packets = <<>>
    /\ \E f \in [Spawned -> 1 .. Cardinality(Spawned)] :      \* spawn_qh3server, in some order
          /\ \A s, t \in Spawned : f[s] = f[t] => s = t
          /\ routes = {[server_id |-> f[s], port |-> s] : s \in Spawned}
    /\ unresponsive_routes = {}
    /\ server_counter = Cardinality(Spawned) + 1               \* the command center is 0
    /\ command_route = TRUE
    /\ redis = {}
    /\ shutdown_cmd_center = FALSE
    /\ router = "run"
    /\ faults = {}

-----------------------------------------------------------------------------
(* The servers                                                             *)

\* sendto on the server's socket, to the feedback port.
report(n, cmd) ==
    \/ /\ router \in {"run", "break"}
       /\ Len(packets) < MaxPackets
       /\ packets' = Append(packets, [from |-> n, cmd |-> cmd])
       /\ UNCHANGED faults
    \/ /\ packets' = packets
       /\ faults' = IF cmd = "hb" THEN faults ELSE faults \cup {"packet"}

\* A server that is not one of the router's threads is started, possibly on the port of
\* one that ended or crashed.
start_server(s) ==
    /\ node[s] = "off"
    /\ starts < MaxStarts
    /\ node' = [node EXCEPT ![s] = "starting"]
    /\ starts' = starts + 1
    /\ UNCHANGED <<packets, routeVars, command_route, shutdown_cmd_center,
                   router, faults>>

\* run: on_server_pre_init failed, no session was started and the end is reported.
on_server_pre_init_failed(n) ==
    /\ node[n] = "starting"
    /\ node' = [node EXCEPT ![n] = "stopping"]
    /\ UNCHANGED <<starts, packets, routeVars, command_route, shutdown_cmd_center, router, faults>>

try_report_router(n) ==
    /\ node[n] = "starting"
    /\ node' = [node EXCEPT ![n] = "up"]
    /\ report(n, "start")
    /\ UNCHANGED <<starts, routeVars, command_route, shutdown_cmd_center, router>>

\* The command center's heartbeats only avoid a warning and are left out.
router_hb_loop(s) ==
    /\ node[s] = "up"
    /\ report(s, "hb")
    /\ UNCHANGED <<nodeVars, routeVars, command_route, shutdown_cmd_center, router>>

\* The loop of a server is stopped from inside its own process.
shutdown(s) ==
    /\ node[s] = "up"
    /\ node' = [node EXCEPT ![s] = "stopping"]
    /\ UNCHANGED <<starts, packets, routeVars, command_route, shutdown_cmd_center, router, faults>>

\* Mutant: the end of a server is not reported.
stop_services_and_leave(n) ==
    /\ node[n] = "stopping"
    /\ node' = [node EXCEPT ![n] = "off"]
    /\ UNCHANGED <<starts, packets, routeVars, command_route, shutdown_cmd_center, router, faults>>

stop_services_and_report(n) ==
    /\ node[n] = "stopping"
    /\ node' = [node EXCEPT ![n] = "off"]
    /\ report(n, "shut-ack")
    /\ UNCHANGED <<starts, routeVars, command_route, shutdown_cmd_center, router>>

crash(s) ==
    /\ node[s] \in {"starting", "up", "stopping"}
    /\ node' = [node EXCEPT ![s] = "off"]
    /\ faults' = faults \cup {"crash"}
    /\ UNCHANGED <<starts, packets, routeVars, command_route, shutdown_cmd_center, router>>

-----------------------------------------------------------------------------
(* The command center                                                      *)

\* recv_cb of the router relays a client's packets to the active route the client's address
\* hashes to, which may be any, and drops them without routes.
relay(r) ==
    /\ router \in {"run", "break"}
    /\ r \in routes

\* "/shutdown_test" at a server stops its loop.
parse_shutdown_test(s) ==
    /\ node[s] = "up"
    /\ node' = [node EXCEPT ![s] = "stopping"]

\* "/shutdown_test" at the command center: one request to the router's port, so one server
\* is stopped, if the request reaches it.
send_shutdown_to_all(r) ==
    /\ node[CommandCenter] = "up"
    /\ relay(r)
    /\ parse_shutdown_test(r.port)
    /\ UNCHANGED <<starts, packets, routeVars, command_route, shutdown_cmd_center, router, faults>>

\* The request comes from the router or from a browser.
parse_shutdown_command_center(browser) ==
    /\ node[CommandCenter] = "up"
    /\ browser \/ shutdown_cmd_center
    /\ shutdown_cmd_center' = (browser /\ shutdown_cmd_center)
    /\ node' = [node EXCEPT ![CommandCenter] = "stopping"]
    /\ UNCHANGED <<starts, packets, routeVars, command_route, router, faults>>

\* qh3client gives up; the callback of the router's request ignores success.
shutdown_cmd_center_failed ==
    /\ shutdown_cmd_center
    /\ shutdown_cmd_center' = FALSE
    /\ faults' = faults \cup {"request"}
    /\ UNCHANGED <<nodeVars, packets, routeVars, command_route, router>>

-----------------------------------------------------------------------------
(* The router                                                              *)

RoutesOf(list, p) == {r \in list : r.port = p}

\* Mutant: the command center is told when the lists were empty before the removal.
remove_route_asks_first(p) ==
    /\ routes' = routes \ RoutesOf(routes, p)
    /\ unresponsive_routes' = unresponsive_routes \ RoutesOf(unresponsive_routes, p)
    /\ redis' = redis \ {p}
    /\ LET last == routes = {} /\ unresponsive_routes = {}
       IN /\ shutdown_cmd_center' = (shutdown_cmd_center \/ (last /\ command_route))
          /\ router' = IF last /\ ~command_route THEN "aborted" ELSE router
    /\ UNCHANGED <<server_counter, command_route>>

\* shut-ack of a server that has a route: it is removed from whichever list holds it,
\* its field is deleted, and the last one ends the command center, whose address is read
\* from command_route.
remove_route(p) ==
    /\ routes' = routes \ RoutesOf(routes, p)
    /\ unresponsive_routes' = unresponsive_routes \ RoutesOf(unresponsive_routes, p)
    /\ redis' = redis \ {p}
    /\ LET last == routes' = {} /\ unresponsive_routes' = {}
       IN /\ shutdown_cmd_center' = (shutdown_cmd_center \/ (last /\ command_route))
          /\ router' = IF last /\ ~command_route THEN "aborted" ELSE router
    /\ UNCHANGED <<server_counter, command_route>>

\* Mutant: only the active routes are searched.
found_active(p) == RoutesOf(routes, p)

\* is_in_active_routes, is_in_unresponsive_routes
found(p) == RoutesOf(routes \cup unresponsive_routes, p)

\* Mutant: a route that answers again is refreshed but stays where it is.
refresh_only(p) == UNCHANGED <<routes, unresponsive_routes, redis>>

\* Any other word of a server that has a route: an unresponsive one becomes active again.
\* A heartbeat also refreshes its time.
push_to_routes(p) ==
    /\ routes' = routes \cup RoutesOf(unresponsive_routes, p)
    /\ unresponsive_routes' = unresponsive_routes \ RoutesOf(unresponsive_routes, p)
    /\ redis' = IF RoutesOf(unresponsive_routes, p) = {} THEN redis ELSE redis \cup {p}

create_qh3server_route(p) ==
    /\ routes' = routes \cup {[server_id |-> server_counter, port |-> p]}
    /\ server_counter' = server_counter + 1
    /\ UNCHANGED <<unresponsive_routes, redis>>

\* Mutant: the command center's start makes it a route like any server.
from_command_center_routed(cmd) ==
    /\ IF cmd = "start" THEN create_qh3server_route(CommandCenter) ELSE UNCHANGED routeVars
    /\ UNCHANGED <<command_route, router, shutdown_cmd_center>>

\* A word of the command center: shut-ack ends the loop, if the assertion on routes holds.
from_command_center(cmd) ==
    /\ UNCHANGED <<routeVars, shutdown_cmd_center>>
    /\ \/ cmd = "shut-ack" /\ routes = {} /\ command_route' = FALSE /\ router' = "break"
       \/ cmd = "shut-ack" /\ routes # {} /\ router' = "aborted" /\ UNCHANGED command_route
       \/ cmd # "shut-ack" /\ UNCHANGED <<command_route, router>>

\* One datagram of command_feedback_recv_cb, whose loop goes on after ev_break.  Without a
\* command_route the address of a sender that has no route is compared with null's.
cmd_feedback_from_client ==
    /\ router \in {"run", "break"}
    /\ packets # <<>>
    /\ packets' = Tail(packets)
    /\ LET from == Head(packets).from
           cmd  == Head(packets).cmd
       IN \/ found(from) # {} /\ cmd = "shut-ack" /\ remove_route(from)
          \/ /\ found(from) # {} /\ cmd # "shut-ack"
             /\ push_to_routes(from)
             /\ UNCHANGED <<server_counter, command_route, shutdown_cmd_center, router>>
          \/ /\ found(from) = {} /\ ~command_route
             /\ router' = "aborted"
             /\ UNCHANGED <<routeVars, command_route, shutdown_cmd_center>>
          \/ /\ found(from) = {} /\ command_route /\ from = CommandCenter
             /\ from_command_center(cmd)
          \/ /\ found(from) = {} /\ command_route /\ from # CommandCenter
             /\ IF cmd = "start" THEN create_qh3server_route(from) ELSE UNCHANGED routeVars
             /\ UNCHANGED <<command_route, shutdown_cmd_center, router>>
    /\ UNCHANGED <<nodeVars, faults>>

\* The timer: the routes whose last heartbeat is too old move to the other list.
check_and_remove_unresponsive_routes(expired) ==
    /\ router = "run"
    /\ expired \subseteq routes
    /\ routes' = routes \ expired
    /\ unresponsive_routes' = unresponsive_routes \cup expired
    /\ redis' = redis \ {r.port : r \in expired}
    /\ UNCHANGED <<nodeVars, packets, server_counter, command_route, shutdown_cmd_center, router, faults>>

update_redis_about_servers ==
    /\ router = "run"
    /\ redis' = redis \cup Known
    /\ UNCHANGED <<nodeVars, packets, routes, unresponsive_routes, server_counter, command_route,
                   shutdown_cmd_center, router, faults>>

\* The loop ends once the callback has read the socket empty.
end_loop ==
    /\ router = "break"
    /\ packets = <<>>
    /\ router' = "over"
    /\ UNCHANGED <<nodeVars, packets, routeVars, command_route, shutdown_cmd_center, faults>>

\* Nobody renews the key any more and it expires.
redis_expire ==
    /\ router \in {"over", "aborted"}
    /\ redis' = {}
    /\ UNCHANGED <<nodeVars, packets, routes, unresponsive_routes, server_counter, command_route,
                   shutdown_cmd_center, router, faults>>

Next ==
    \/ \E s \in Servers : start_server(s) \/ router_hb_loop(s) \/ shutdown(s) \/ crash(s)
    \/ \E n \in Nodes : \/ on_server_pre_init_failed(n)
                        \/ try_report_router(n)
                        \/ stop_services_and_report(n)
    \/ \E r \in routes : send_shutdown_to_all(r)
    \/ \E browser \in BOOLEAN : parse_shutdown_command_center(browser)
    \/ shutdown_cmd_center_failed
    \/ cmd_feedback_from_client
    \/ \E expired \in SUBSET routes : check_and_remove_unresponsive_routes(expired)
    \/ update_redis_about_servers
    \/ end_loop
    \/ redis_expire

Spec == Init /\ [][Next]_vars

\* Threads run and timers fire: a server that stops reports it, one that is up sends
\* heartbeats, not all of which are lost, the router reads its socket, and a request for
\* the command center is answered when it can be.  Nothing makes a server start or stop.
Fairness ==
    /\ \A n \in Nodes : /\ WF_vars(try_report_router(n))
                        /\ WF_vars(stop_services_and_report(n))
    /\ \A s \in Servers : SF_vars(router_hb_loop(s) /\ packets' # packets)
    /\ WF_vars(cmd_feedback_from_client)
    /\ WF_vars(parse_shutdown_command_center(FALSE))
    /\ WF_vars(end_loop)

FairSpec == Spec /\ Fairness

-----------------------------------------------------------------------------
(* Properties                                                              *)

TypeOK ==
    /\ node \in [Nodes -> {"off", "starting", "up", "stopping"}]
    /\ starts \in 0 .. MaxStarts
    /\ packets \in Seq(Packet) /\ Len(packets) <= MaxPackets
    /\ routes \subseteq Route
    /\ unresponsive_routes \subseteq Route
    /\ server_counter \in Nat
    /\ command_route \in BOOLEAN
    /\ redis \subseteq Servers
    /\ shutdown_cmd_center \in BOOLEAN
    /\ router \in {"run", "break", "over", "aborted"}
    /\ faults \subseteq {"packet", "crash", "request"}

\* Whatever the order of starts, restarts, heartbeats and checks, a server has one route
\* in one of the two lists, and Redis names no server without a route
\* (cmd_feedback_from_client looks in both lists before it creates a route, and every
\* removal deletes the field).
DirectoryConsistent ==
    /\ \A r, q \in routes \cup unresponsive_routes : r.port = q.port => r = q
    /\ routes \cap unresponsive_routes = {}
    /\ redis \subseteq Known

Sent(n, cmd) == [from |-> n, cmd |-> cmd] \in {packets[i] : i \in 1 .. Len(packets)}

\* As long as no start or shut-ack is lost, the lists follow the servers: one that is up
\* has a route or its start is still to be read, also after a crash and a restart on the
\* same port; and one that ended without a crash has no route once its shut-ack is read.
RoutesTrackServers ==
    router = "run" /\ "packet" \notin faults =>
        \A s \in Servers :
            /\ node[s] = "up" => s \in Known \/ Sent(s, "start")
            /\ node[s] = "off" /\ s \in Known => Sent(s, "shut-ack") \/ "crash" \in faults

\* When every server has shut down for good and nothing failed outside the router, the
\* command center is told and the router's loop ends, by the assertion if a server came in
\* between.
ShutdownEnds ==
    <>[](\A s \in Servers : node[s] = "off") =>
        <>(faults # {} \/ router \in {"over", "aborted"})

\* A server that stays up and has a route is not left in the unresponsive list: it is
\* active again and again, although heartbeats are rarer than the timeout
\* (DEFAULT_TIMER_ROUTER_HB_INTERVAL_IN_SECONDS is 20, TIMEOUT_UNRESPONSIVE_ROUTE_IN_SECONDS 10).
ActiveAgain ==
    \A s \in Servers :
        <>[](node[s] = "up" /\ s \in Known /\ router = "run") =>
            []<>(RoutesOf(routes, s) # {})

\* "command center must be destroyed last": the assertion of cmd_feedback_from_client holds,
\* and nothing comes after the command center's shut-ack that needs its route.
CommandCenterLast == router # "aborted"
=============================================================================
