--------------------------- MODULE QH3RouterProofs ---------------------------
(***************************************************************************)
(* The route lists of the router and its Redis directory, proved for every *)
(* number of servers, starts and datagrams.                                *)
(***************************************************************************)
EXTENDS QH3Router, FiniteSetTheorems, SequenceTheorems, TLAPS

Start(s) == [from |-> s, cmd |-> "start"]
ShutAck(s) == [from |-> s, cmd |-> "shut-ack"]

\* The socket holds a, and not b after it.
LastSaid(a, b) ==
    \E i \in 1 .. Len(packets) :
        packets[i] = a /\ \A j \in 1 .. Len(packets) : j > i => packets[j] # b

\* The socket holds no b.
NotSaid(b) == \A i \in 1 .. Len(packets) : packets[i] # b

\* What the lists will say of a server that is up once the socket is read: its last word is
\* "start", or it has a route and nothing takes it away.
UpWillBeKnown ==
    \A s \in Servers : node[s] = "up" =>
        LastSaid(Start(s), ShutAck(s)) \/ (s \in Known /\ NotSaid(ShutAck(s)))

\* And of one that ended: its last word is "shut-ack", or it has no route and gets none.
OffWillBeForgotten ==
    "crash" \in faults \/ \A s \in Servers : node[s] = "off" =>
        LastSaid(ShutAck(s), Start(s)) \/ (s \notin Known /\ NotSaid(Start(s)))

\* RoutesTrackServers with the order of the words in the socket, which FIFO delivery keeps.
WordsInOrder ==
    router = "run" /\ "packet" \notin faults => UpWillBeKnown /\ OffWillBeForgotten

RouterInv == TypeOK /\ DirectoryConsistent /\ WordsInOrder

-----------------------------------------------------------------------------
(* The socket                                                              *)

\* What a datagram is, for steps that need not look inside the socket.
LEMMA Packets ==
    /\ \A n \in Nodes, cmd \in Cmds : [from |-> n, cmd |-> cmd] \in Packet
    /\ \A p \in Packet : p.from \in Nodes /\ p.cmd \in Cmds
BY DEF Packet

\* A word that is sent becomes the last one.
LEMMA SaidLast ==
    ASSUME TypeOK, NEW a \in Packet, NEW b \in Packet, a # b, packets' = Append(packets, a)
    PROVE  /\ LastSaid(a, b)'
           /\ NotSaid(b) => NotSaid(b)'
           /\ \A c \in Packet, d \in Packet : d # a /\ LastSaid(c, d) => LastSaid(c, d)'
           /\ \A d \in Packet : d # a /\ NotSaid(d) => NotSaid(d)'
<1>1. /\ Len(packets) \in Nat
      /\ Len(packets') = Len(packets) + 1
      /\ \A i \in 1 .. Len(packets) : packets'[i] = packets[i]
      /\ packets'[Len(packets) + 1] = a
  BY DEF TypeOK
<1>2. \A i \in 1 .. Len(packets') : i \in 1 .. Len(packets) \/ i = Len(packets) + 1
  BY <1>1
<1>3. Len(packets') \in 1 .. Len(packets')
  BY <1>1
<1> QED
  BY <1>1, <1>2, <1>3 DEF LastSaid, NotSaid

\* The word that is read goes; what was said after it stays.
LEMMA HeadHeard ==
    ASSUME TypeOK, packets # <<>>, packets' = Tail(packets)
    PROVE  /\ Head(packets) \in Packet
           /\ \A b : NotSaid(b) => NotSaid(b)' /\ Head(packets) # b
           /\ \A a, b : LastSaid(a, b) =>
                 LastSaid(a, b)' \/ (Head(packets) = a /\ NotSaid(b)')
<1>1. /\ Head(packets) \in Packet /\ Head(packets) = packets[1]
      /\ Len(packets) \in Nat \ {0}
      /\ Len(packets') = Len(packets) - 1
      /\ \A i \in 1 .. Len(packets) - 1 : packets'[i] = packets[i + 1]
  <2>1. packets \in Seq(Packet)
    BY DEF TypeOK
  <2> QED
    BY <2>1, HeadTailProperties, EmptySeq
<1>2. \A b : NotSaid(b) => NotSaid(b)' /\ Head(packets) # b
  BY <1>1 DEF NotSaid
<1>3. ASSUME NEW a, NEW b, LastSaid(a, b)
      PROVE  LastSaid(a, b)' \/ (Head(packets) = a /\ NotSaid(b)')
  <2>1. PICK i \in 1 .. Len(packets) :
           packets[i] = a /\ \A j \in 1 .. Len(packets) : j > i => packets[j] # b
    BY <1>3 DEF LastSaid
  <2>2. CASE i = 1
    BY <1>1, <2>1, <2>2 DEF NotSaid
  <2>3. CASE i # 1
    <3>1. i - 1 \in 1 .. Len(packets') /\ packets'[i - 1] = a
      BY <1>1, <2>1, <2>3
    <3>2. \A j \in 1 .. Len(packets') : j > i - 1 => packets'[j] # b
      BY <1>1, <2>1, <2>3
    <3> QED
      BY <3>1, <3>2 DEF LastSaid
  <2> QED
    BY <2>2, <2>3
<1> QED
  BY <1>1, <1>2, <1>3

-----------------------------------------------------------------------------
(* Types                                                                   *)

\* Every step keeps the types.
LEMMA TypeStep ==
    ASSUME TypeOK, [Next]_vars PROVE TypeOK'
<1> USE RouterAssumption DEF TypeOK, nodeVars, routeVars, Nodes, Cmds, Route
<1>1. ASSUME NEW s \in Servers, start_server(s) \/ shutdown(s) \/ crash(s) PROVE TypeOK'
  <2>1. CASE start_server(s)
    BY <2>1 DEF start_server
  <2>2. CASE shutdown(s)
    BY <2>2 DEF shutdown
  <2>3. CASE crash(s)
    BY <2>3 DEF crash
  <2> QED
    BY <1>1, <2>1, <2>2, <2>3
<1>2. ASSUME NEW n \in Nodes, NEW cmd \in Cmds, report(n, cmd)
      PROVE  /\ packets' \in Seq(Packet) /\ Len(packets') <= MaxPackets
             /\ faults' \subseteq {"packet", "crash", "request"}
  <2>1. [from |-> n, cmd |-> cmd] \in Packet
    BY Packets
  <2>2. CASE Len(packets) < MaxPackets /\ packets' = Append(packets, [from |-> n, cmd |-> cmd])
             /\ UNCHANGED faults
    <3> DEFINE p == [from |-> n, cmd |-> cmd]
    <3>1. p \in Packet /\ packets' = Append(packets, p)
      BY <2>1, <2>2
    <3> HIDE DEF p
    <3>2. packets' \in Seq(Packet) /\ Len(packets') = Len(packets) + 1 /\ Len(packets) \in Nat
      BY <3>1, AppendProperties
    <3> QED
      BY <2>2, <3>2
  <2>3. CASE packets' = packets /\ faults' = IF cmd = "hb" THEN faults ELSE faults \cup {"packet"}
    BY <2>3
  <2> QED
    BY <1>2, <2>2, <2>3 DEF report
<1>3. ASSUME NEW s \in Servers, router_hb_loop(s) PROVE TypeOK'
  BY <1>2, <1>3 DEF router_hb_loop
<1>4. ASSUME NEW n \in Nodes,
             on_server_pre_init_failed(n) \/ try_report_router(n) \/ stop_services_and_report(n)
      PROVE  TypeOK'
  BY <1>2, <1>4 DEF on_server_pre_init_failed, try_report_router, stop_services_and_report
<1>5. ASSUME NEW r \in routes, send_shutdown_to_all(r) PROVE TypeOK'
  BY <1>5 DEF send_shutdown_to_all, relay, parse_shutdown_test
<1>6. ASSUME NEW browser \in BOOLEAN, parse_shutdown_command_center(browser) PROVE TypeOK'
  BY <1>6 DEF parse_shutdown_command_center
<1>7. CASE shutdown_cmd_center_failed
  BY <1>7 DEF shutdown_cmd_center_failed
<1>8. CASE cmd_feedback_from_client
  <2> DEFINE from == Head(packets).from
             cmd == Head(packets).cmd
  <2>1. from \in Nodes /\ cmd \in Cmds /\ packets' \in Seq(Packet) /\ Len(packets') <= MaxPackets
    <3>1. packets # <<>> /\ packets' = Tail(packets)
      BY <1>8 DEF cmd_feedback_from_client
    <3>2. Head(packets) \in Packet /\ Tail(packets) \in Seq(Packet) /\ Len(Tail(packets)) <= MaxPackets
      BY <3>1, HeadTailProperties
    <3> QED
      BY <3>1, <3>2, Packets
  <2> HIDE DEF from, cmd
  <2>2. CASE remove_route(from) /\ UNCHANGED <<nodeVars, faults>>
    BY <2>1, <2>2 DEF remove_route
  <2>3. CASE push_to_routes(from) /\ from \in Servers
             /\ UNCHANGED <<nodeVars, faults, server_counter, command_route, shutdown_cmd_center, router>>
    BY <2>1, <2>3 DEF push_to_routes, RoutesOf
  <2>4. CASE router' = "aborted"
             /\ UNCHANGED <<routeVars, command_route, shutdown_cmd_center, nodeVars, faults>>
    BY <2>1, <2>4
  <2>5. CASE from_command_center(cmd) /\ UNCHANGED <<nodeVars, faults>>
    BY <2>1, <2>5 DEF from_command_center
  <2>6. CASE create_qh3server_route(from) /\ from \in Servers
             /\ UNCHANGED <<command_route, shutdown_cmd_center, router, nodeVars, faults>>
    BY <2>1, <2>6 DEF create_qh3server_route
  <2>7. CASE UNCHANGED <<routeVars, command_route, shutdown_cmd_center, router, nodeVars, faults>>
    BY <2>1, <2>7
  <2>8. found(from) # {} => from \in Servers
    BY DEF found, RoutesOf
  <2> QED
    BY <1>8, <2>1, <2>2, <2>3, <2>4, <2>5, <2>6, <2>7, <2>8 DEF cmd_feedback_from_client, from, cmd
<1>9. ASSUME NEW expired \in SUBSET routes, check_and_remove_unresponsive_routes(expired)
      PROVE  TypeOK'
  BY <1>9 DEF check_and_remove_unresponsive_routes
<1>10. CASE update_redis_about_servers \/ end_loop \/ redis_expire
  BY <1>10 DEF update_redis_about_servers, end_loop, redis_expire, Known
<1>11. CASE UNCHANGED vars
  BY <1>11 DEF vars
<1> QED
  BY <1>1, <1>3, <1>4, <1>5, <1>6, <1>7, <1>8, <1>9, <1>10, <1>11 DEF Next

-----------------------------------------------------------------------------
(* The route lists                                                         *)

\* What one datagram does to the lists and to Redis, in the cases that matter.
LEMMA FeedbackCases ==
    ASSUME TypeOK, cmd_feedback_from_client
    PROVE  \E from \in Nodes, cmd \in Cmds :
              /\ Head(packets) = [from |-> from, cmd |-> cmd]
              /\ \/ cmd = "shut-ack" /\ from \in Known /\ remove_route(from)
                 \/ /\ cmd # "shut-ack" /\ from \in Known /\ push_to_routes(from)
                    /\ UNCHANGED <<server_counter, router>>
                 \/ /\ cmd = "start" /\ from \in Servers \ Known /\ create_qh3server_route(from)
                    /\ UNCHANGED router
                 \/ /\ from \notin Known
                    /\ cmd = "start" /\ from # CommandCenter => router' = "aborted"
                    /\ UNCHANGED routeVars
                    /\ router' = "run" => router = "run"
<1> DEFINE from == Head(packets).from
           cmd == Head(packets).cmd
<1>1. Head(packets) \in Packet
  BY HeadTailProperties DEF cmd_feedback_from_client, TypeOK
<1>2. from \in Nodes /\ cmd \in Cmds /\ Head(packets) = [from |-> from, cmd |-> cmd]
  BY <1>1 DEF Packet
<1>3. found(from) # {} <=> from \in Known
  BY DEF found, RoutesOf, Known
<1>4. CommandCenter \notin Known
  BY RouterAssumption DEF TypeOK, Known, Route
<1>5. \/ found(from) # {} /\ cmd = "shut-ack" /\ remove_route(from)
      \/ found(from) # {} /\ cmd # "shut-ack" /\ push_to_routes(from) /\ UNCHANGED <<server_counter, router>>
      \/ found(from) = {} /\ router' = "aborted" /\ UNCHANGED routeVars
      \/ found(from) = {} /\ from = CommandCenter /\ from_command_center(cmd)
      \/ /\ found(from) = {} /\ from # CommandCenter /\ UNCHANGED router
         /\ IF cmd = "start" THEN create_qh3server_route(from) ELSE UNCHANGED routeVars
  BY DEF cmd_feedback_from_client
<1>6. from_command_center(cmd) => UNCHANGED routeVars /\ (router' = "run" => router = "run")
  BY DEF from_command_center
<1>7. from # CommandCenter => from \in Servers
  BY <1>2 DEF Nodes
<1> HIDE DEF from, cmd
<1> QED
  BY <1>2, <1>3, <1>4, <1>5, <1>6, <1>7

\* A server keeps one route, in one list, and Redis names only servers with a route.
LEMMA DirectoryStep ==
    ASSUME TypeOK, DirectoryConsistent, [Next]_vars PROVE DirectoryConsistent'
<1> USE DEF DirectoryConsistent, Known, RoutesOf
<1>1. CASE UNCHANGED routeVars
  BY <1>1 DEF routeVars
<1>2. CASE cmd_feedback_from_client
  <2>1. PICK from \in Nodes, cmd \in Cmds :
          \/ remove_route(from)
          \/ push_to_routes(from)
          \/ from \in Servers \ Known /\ create_qh3server_route(from)
          \/ UNCHANGED routeVars
    BY <1>2, FeedbackCases, Zenon
  <2>2. CASE remove_route(from)
    BY <2>2 DEF remove_route
  <2>3. CASE push_to_routes(from)
    BY <2>3 DEF push_to_routes
  <2>4. CASE from \in Servers \ Known /\ create_qh3server_route(from)
    <3> DEFINE new == [server_id |-> server_counter, port |-> from]
    <3>1. /\ routes' = routes \cup {new}
          /\ UNCHANGED <<unresponsive_routes, redis>>
      BY <2>4 DEF create_qh3server_route
    <3>2. new.port = from /\ \A r \in routes \cup unresponsive_routes : r.port # from
      BY <2>4
    <3> HIDE DEF new
    <3> QED
      BY <3>1, <3>2
  <2> QED
    BY <1>1, <2>1, <2>2, <2>3, <2>4
<1>3. ASSUME NEW expired \in SUBSET routes, check_and_remove_unresponsive_routes(expired)
      PROVE  DirectoryConsistent'
  <2>1. /\ routes' = routes \ expired
        /\ unresponsive_routes' = unresponsive_routes \cup expired
        /\ redis' = redis \ {r.port : r \in expired}
    BY <1>3 DEF check_and_remove_unresponsive_routes
  <2>2. routes' \cup unresponsive_routes' = routes \cup unresponsive_routes
    BY <2>1
  <2>3. Known' = Known
    BY <2>2
  <2> QED
    BY <2>1, <2>2, <2>3
<1>4. CASE update_redis_about_servers \/ redis_expire
  BY <1>4 DEF update_redis_about_servers, redis_expire
<1>5. ASSUME NEW s \in Servers, start_server(s) \/ router_hb_loop(s) \/ shutdown(s) \/ crash(s)
      PROVE  UNCHANGED routeVars
  BY <1>5 DEF start_server, router_hb_loop, shutdown, crash
<1>6. ASSUME NEW n \in Nodes,
             on_server_pre_init_failed(n) \/ try_report_router(n) \/ stop_services_and_report(n)
      PROVE  UNCHANGED routeVars
  BY <1>6 DEF on_server_pre_init_failed, try_report_router, stop_services_and_report
<1>7. ASSUME NEW r \in routes, send_shutdown_to_all(r) PROVE UNCHANGED routeVars
  BY <1>7 DEF send_shutdown_to_all
<1>8. ASSUME NEW browser \in BOOLEAN, parse_shutdown_command_center(browser)
      PROVE  UNCHANGED routeVars
  BY <1>8 DEF parse_shutdown_command_center
<1>9. CASE shutdown_cmd_center_failed \/ end_loop \/ UNCHANGED vars
  BY <1>1, <1>9 DEF shutdown_cmd_center_failed, end_loop, vars
<1> QED
  BY <1>1, <1>2, <1>3, <1>4, <1>5, <1>6, <1>7, <1>8, <1>9 DEF Next

-----------------------------------------------------------------------------
(* The servers and their words                                             *)

\* Reading a word makes the lists agree with it.
LEMMA KnownAfterFeedback ==
    ASSUME TypeOK, cmd_feedback_from_client, router' = "run", NEW s \in Servers
    PROVE  /\ router = "run"
           /\ Head(packets) = Start(s) => s \in Known'
           /\ Head(packets) = ShutAck(s) => s \notin Known'
           /\ Head(packets) # ShutAck(s) /\ s \in Known => s \in Known'
           /\ Head(packets) # Start(s) /\ s \notin Known => s \notin Known'
<1>1. PICK from \in Nodes, cmd \in Cmds :
              /\ Head(packets) = [from |-> from, cmd |-> cmd]
              /\ \/ cmd = "shut-ack" /\ from \in Known /\ remove_route(from)
                 \/ /\ cmd # "shut-ack" /\ from \in Known /\ push_to_routes(from)
                    /\ UNCHANGED <<server_counter, router>>
                 \/ /\ cmd = "start" /\ from \in Servers \ Known /\ create_qh3server_route(from)
                    /\ UNCHANGED router
                 \/ /\ from \notin Known
                    /\ cmd = "start" /\ from # CommandCenter => router' = "aborted"
                    /\ UNCHANGED routeVars
                    /\ router' = "run" => router = "run"
  BY FeedbackCases
<1>2. /\ Head(packets) = Start(s) <=> from = s /\ cmd = "start"
      /\ Head(packets) = ShutAck(s) <=> from = s /\ cmd = "shut-ack"
  BY <1>1 DEF Start, ShutAck
<1>3. s # CommandCenter
  BY RouterAssumption
<1>4. CASE cmd = "shut-ack" /\ from \in Known /\ remove_route(from)
  <2>1. Known' = Known \ {from} /\ router = "run"
    BY <1>4 DEF remove_route, Known, RoutesOf
  <2> QED
    BY <1>2, <1>4, <2>1
<1>5. CASE cmd # "shut-ack" /\ from \in Known /\ push_to_routes(from) /\ UNCHANGED router
  <2>1. routes' \cup unresponsive_routes' = routes \cup unresponsive_routes
    BY <1>5 DEF push_to_routes, RoutesOf
  <2>2. Known' = Known
    BY <2>1 DEF Known
  <2> QED
    BY <1>2, <1>5, <2>2
<1>6. CASE cmd = "start" /\ from \in Servers \ Known /\ create_qh3server_route(from) /\ UNCHANGED router
  <2> DEFINE new == [server_id |-> server_counter, port |-> from]
  <2>0. routes' = routes \cup {new} /\ unresponsive_routes' = unresponsive_routes /\ new.port = from
    BY <1>6 DEF create_qh3server_route
  <2> HIDE DEF new
  <2>1. Known' = Known \cup {from}
    BY <2>0 DEF Known
  <2> QED
    BY <1>2, <1>6, <2>1
<1>7. CASE /\ from \notin Known
           /\ cmd = "start" /\ from # CommandCenter => router' = "aborted"
           /\ UNCHANGED routeVars
           /\ router' = "run" => router = "run"
  <2>1. Known' = Known
    BY <1>7 DEF routeVars, Known
  <2> QED
    BY <1>2, <1>3, <1>7, <2>1
<1> QED
  BY <1>1, <1>4, <1>5, <1>6, <1>7

\* Steps that say nothing and leave the lists alone: no server comes up, and one that goes
\* off crashed.
LEMMA QuietStep ==
    ASSUME UpWillBeKnown, OffWillBeForgotten,
           packets' = packets, Known' = Known, faults \subseteq faults',
           \A s \in Servers : node'[s] = "up" => node[s] = "up",
           \A s \in Servers : node'[s] = "off" => node[s] = "off" \/ "crash" \in faults'
    PROVE  UpWillBeKnown' /\ OffWillBeForgotten'
<1>1. \A a, b : (LastSaid(a, b)' <=> LastSaid(a, b)) /\ (NotSaid(b)' <=> NotSaid(b))
  BY DEF LastSaid, NotSaid
<1> QED
  BY <1>1 DEF UpWillBeKnown, OffWillBeForgotten, Start, ShutAck

\* A server's word is the last one in the socket, and stands for what the server did.
LEMMA WordStep ==
    ASSUME TypeOK, UpWillBeKnown, OffWillBeForgotten, NEW n \in Nodes, NEW cmd \in Cmds,
           packets' = Append(packets, [from |-> n, cmd |-> cmd]), Known' = Known, faults' = faults,
           \A s \in Servers \ {n} : node'[s] = node[s],
           \/ cmd = "start" /\ node'[n] = "up"
           \/ cmd = "shut-ack" /\ node'[n] = "off"
           \/ cmd = "hb" /\ node' = node
    PROVE  UpWillBeKnown' /\ OffWillBeForgotten'
<1> DEFINE a == [from |-> n, cmd |-> cmd]
<1>1. a \in Packet /\ \A s \in Servers : Start(s) \in Packet /\ ShutAck(s) \in Packet
  BY Packets DEF Start, ShutAck, Nodes, Cmds
<1>2. \A s \in Servers : /\ Start(s) # ShutAck(s)
                         /\ s # n \/ cmd = "hb" => a # Start(s) /\ a # ShutAck(s)
                         /\ s = n /\ cmd = "start" => a = Start(s)
                         /\ s = n /\ cmd = "shut-ack" => a = ShutAck(s)
  BY DEF Start, ShutAck
<1> HIDE DEF a
<1>3. packets' = Append(packets, a)
  BY DEF a
<1>4. \A b \in Packet : b # a => LastSaid(a, b)'
  BY <1>1, <1>3, SaidLast
<1>5. \A b \in Packet, c \in Packet : b # a =>
         (NotSaid(b) => NotSaid(b)') /\ (LastSaid(c, b) => LastSaid(c, b)')
  BY <1>1, <1>3, SaidLast
<1>6. ASSUME NEW s \in Servers, node'[s] = "up"
      PROVE  LastSaid(Start(s), ShutAck(s))' \/ (s \in Known' /\ NotSaid(ShutAck(s))')
  <2>1. CASE s = n /\ cmd = "start"
    BY <1>1, <1>2, <1>4, <2>1
  <2>2. CASE (s # n \/ cmd = "hb") /\ node[s] = "up"
    BY <1>1, <1>2, <1>5, <2>2 DEF UpWillBeKnown
  <2> QED
    BY <1>6, <2>1, <2>2
<1>7. ASSUME NEW s \in Servers, node'[s] = "off", "crash" \notin faults
      PROVE  LastSaid(ShutAck(s), Start(s))' \/ (s \notin Known' /\ NotSaid(Start(s))')
  <2>1. CASE s = n /\ cmd = "shut-ack"
    BY <1>1, <1>2, <1>4, <2>1
  <2>2. CASE (s # n \/ cmd = "hb") /\ node[s] = "off"
    BY <1>1, <1>2, <1>5, <1>7, <2>2 DEF OffWillBeForgotten
  <2> QED
    BY <1>7, <2>1, <2>2
<1>8. UpWillBeKnown'
  BY <1>6 DEF UpWillBeKnown, Start, ShutAck
<1>9. OffWillBeForgotten'
  BY <1>7 DEF OffWillBeForgotten, Start, ShutAck
<1> QED
  BY <1>8, <1>9

\* A server is known, or forgotten, once its last word was read.
LEMMA HeardStep ==
    ASSUME TypeOK, UpWillBeKnown, OffWillBeForgotten, cmd_feedback_from_client, router' = "run"
    PROVE  UpWillBeKnown' /\ OffWillBeForgotten'
<1>1. packets # <<>> /\ packets' = Tail(packets) /\ UNCHANGED <<node, faults>>
  BY DEF cmd_feedback_from_client, nodeVars
<1>2. /\ \A b : NotSaid(b) => NotSaid(b)' /\ Head(packets) # b
      /\ \A a, b : LastSaid(a, b) => LastSaid(a, b)' \/ (Head(packets) = a /\ NotSaid(b)')
  BY <1>1, HeadHeard
<1>3. \A s \in Servers : /\ Head(packets) = Start(s) => s \in Known'
                         /\ Head(packets) = ShutAck(s) => s \notin Known'
                         /\ Head(packets) # ShutAck(s) /\ s \in Known => s \in Known'
                         /\ Head(packets) # Start(s) /\ s \notin Known => s \notin Known'
  BY KnownAfterFeedback
<1>4. UpWillBeKnown'
  BY <1>1, <1>2, <1>3 DEF UpWillBeKnown, Start, ShutAck
<1>5. OffWillBeForgotten'
  BY <1>1, <1>2, <1>3 DEF OffWillBeForgotten, Start, ShutAck
<1> QED
  BY <1>4, <1>5

\* No step lets the lists lose track of a server.
LEMMA WordsStep ==
    ASSUME TypeOK, WordsInOrder, [Next]_vars PROVE WordsInOrder'
<1> SUFFICES ASSUME router' = "run", "packet" \notin faults'
             PROVE  UpWillBeKnown' /\ OffWillBeForgotten'
  BY DEF WordsInOrder
<1> USE DEF nodeVars, routeVars
<1>1. UNCHANGED <<routes, unresponsive_routes>> => Known' = Known
  BY DEF Known
<1>2. ASSUME router = "run", "packet" \notin faults PROVE UpWillBeKnown /\ OffWillBeForgotten
  BY <1>2 DEF WordsInOrder
<1>3. ASSUME NEW s \in Servers, start_server(s) \/ shutdown(s) \/ crash(s)
      PROVE  UpWillBeKnown' /\ OffWillBeForgotten'
  <2>1. /\ router = "run" /\ "packet" \notin faults /\ packets' = packets /\ Known' = Known
        /\ faults \subseteq faults'
        /\ \A n \in Servers : node'[n] = "up" => node[n] = "up"
        /\ \A n \in Servers : node'[n] = "off" => node[n] = "off" \/ "crash" \in faults'
    BY <1>1, <1>3 DEF start_server, shutdown, crash, TypeOK, Nodes
  <2> QED
    BY <1>2, <2>1, QuietStep
<1>4. ASSUME NEW n \in Nodes, on_server_pre_init_failed(n)
      PROVE  UpWillBeKnown' /\ OffWillBeForgotten'
  <2>1. /\ router = "run" /\ "packet" \notin faults /\ packets' = packets /\ Known' = Known
        /\ faults \subseteq faults'
        /\ \A s \in Servers : node'[s] = "up" => node[s] = "up"
        /\ \A s \in Servers : node'[s] = "off" => node[s] = "off" \/ "crash" \in faults'
    BY <1>1, <1>4 DEF on_server_pre_init_failed, TypeOK, Nodes
  <2> QED
    BY <1>2, <2>1, QuietStep
<1>5. ASSUME NEW s \in Servers, router_hb_loop(s) PROVE UpWillBeKnown' /\ OffWillBeForgotten'
  <2>1. /\ router = "run" /\ "packet" \notin faults /\ node' = node /\ Known' = Known
        /\ faults' = faults /\ s \in Nodes /\ "hb" \in Cmds
        /\ \/ packets' = Append(packets, [from |-> s, cmd |-> "hb"])
           \/ packets' = packets
    BY <1>1, <1>5 DEF router_hb_loop, report, Nodes, Cmds
  <2>2. CASE packets' = packets
    BY <1>2, <2>1, <2>2, QuietStep
  <2>3. CASE packets' = Append(packets, [from |-> s, cmd |-> "hb"])
    BY <1>2, <2>1, <2>3, WordStep
  <2> QED
    BY <2>1, <2>2, <2>3
<1>6. ASSUME NEW n \in Nodes, try_report_router(n) PROVE UpWillBeKnown' /\ OffWillBeForgotten'
  <2>1. /\ router = "run" /\ "packet" \notin faults /\ Known' = Known
        /\ node'[n] = "up" /\ \A s \in Servers \ {n} : node'[s] = node[s]
        /\ faults' = faults /\ "start" \in Cmds
        /\ packets' = Append(packets, [from |-> n, cmd |-> "start"])
    BY <1>1, <1>6 DEF try_report_router, report, Nodes, Cmds, TypeOK
  <2> QED
    BY <1>2, <2>1, WordStep
<1>7. ASSUME NEW n \in Nodes, stop_services_and_report(n)
      PROVE  UpWillBeKnown' /\ OffWillBeForgotten'
  <2>1. /\ router = "run" /\ "packet" \notin faults /\ Known' = Known
        /\ node'[n] = "off" /\ \A s \in Servers \ {n} : node'[s] = node[s]
        /\ faults' = faults /\ "shut-ack" \in Cmds
        /\ packets' = Append(packets, [from |-> n, cmd |-> "shut-ack"])
    BY <1>1, <1>7 DEF stop_services_and_report, report, Nodes, Cmds, TypeOK
  <2> QED
    BY <1>2, <2>1, WordStep
<1>8. CASE \/ \E r \in routes : send_shutdown_to_all(r)
           \/ \E browser \in BOOLEAN : parse_shutdown_command_center(browser)
           \/ shutdown_cmd_center_failed \/ update_redis_about_servers \/ UNCHANGED vars
  <2>1. /\ router = "run" /\ "packet" \notin faults /\ packets' = packets /\ Known' = Known
        /\ faults \subseteq faults'
        /\ \A s \in Servers : node'[s] = "up" => node[s] = "up"
        /\ \A s \in Servers : node'[s] = "off" => node[s] = "off" \/ "crash" \in faults'
    BY <1>1, <1>8 DEF send_shutdown_to_all, parse_shutdown_test, parse_shutdown_command_center,
                      shutdown_cmd_center_failed, update_redis_about_servers, vars, TypeOK, Nodes
  <2> QED
    BY <1>2, <2>1, QuietStep
<1>9. CASE cmd_feedback_from_client
  <2>1. router = "run" /\ "packet" \notin faults
    BY <1>9, FeedbackCases DEF cmd_feedback_from_client, remove_route
  <2> QED
    BY <1>2, <1>9, <2>1, HeardStep
<1>10. ASSUME NEW expired \in SUBSET routes, check_and_remove_unresponsive_routes(expired)
       PROVE  UpWillBeKnown' /\ OffWillBeForgotten'
  <2>1. /\ router = "run" /\ "packet" \notin faults /\ packets' = packets /\ faults' = faults
        /\ node' = node
        /\ routes' \cup unresponsive_routes' = routes \cup unresponsive_routes
    BY <1>10 DEF check_and_remove_unresponsive_routes
  <2>2. Known' = Known
    BY <2>1 DEF Known
  <2> QED
    BY <1>2, <2>1, <2>2, QuietStep
<1>11. CASE end_loop \/ redis_expire
  BY <1>11 DEF end_loop, redis_expire
<1> QED
  BY <1>3, <1>4, <1>5, <1>6, <1>7, <1>8, <1>9, <1>10, <1>11 DEF Next

-----------------------------------------------------------------------------
(* Theorems                                                                *)

\* The router starts in the invariant: its own servers have routes and are not up yet.
LEMMA RouterStarts == Init => RouterInv
<1> SUFFICES ASSUME Init PROVE RouterInv
  OBVIOUS
<1>1. PICK f \in [Spawned -> 1 .. Cardinality(Spawned)] :
         /\ \A s, t \in Spawned : f[s] = f[t] => s = t
         /\ routes = {[server_id |-> f[s], port |-> s] : s \in Spawned}
  BY DEF Init
<1>2. Cardinality(Spawned) \in Nat
  BY RouterAssumption, FS_Subset, FS_CardinalityType
<1>3. TypeOK
  <2>1. routes \subseteq Route
    BY <1>1, <1>2, RouterAssumption DEF Route
  <2>2. QED
    <3>1. packets \in Seq(Packet) /\ Len(packets) <= MaxPackets
      BY EmptySeq, RouterAssumption DEF Init
    <3>2. server_counter \in Nat /\ starts \in 0 .. MaxStarts
      BY <1>2, RouterAssumption DEF Init
    <3>3. node \in [Nodes -> {"off", "starting", "up", "stopping"}]
      BY DEF Init
    <3> QED
      BY <2>1, <3>1, <3>2, <3>3 DEF Init, TypeOK
<1>4. DirectoryConsistent
  BY <1>1 DEF Init, DirectoryConsistent, Known
<1>5. Known = Spawned
  <2>1. \A r \in routes : r.port \in Spawned
    BY <1>1
  <2>2. \A s \in Spawned : \E r \in routes : r.port = s
    <3> TAKE s \in Spawned
    <3>1. [server_id |-> f[s], port |-> s] \in routes
      BY <1>1
    <3> QED
      BY <3>1
  <2>3. unresponsive_routes = {}
    BY DEF Init
  <2> QED
    BY <2>1, <2>2, <2>3 DEF Known
<1>6. WordsInOrder
  <2>1. \A b : NotSaid(b)
    BY DEF Init, NotSaid
  <2>2. \A s \in Servers : node[s] # "up" /\ (node[s] = "off" => s \notin Spawned)
    BY RouterAssumption DEF Init, Nodes
  <2> QED
    BY <1>5, <2>1, <2>2 DEF WordsInOrder, UpWillBeKnown, OffWillBeForgotten
<1> QED
  BY <1>3, <1>4, <1>6 DEF RouterInv

\* The invariant of the router: types, one route per server, and for every server the last
\* word in the socket, or the lists, say whether it is up.
THEOREM RouterInductive == Spec => []RouterInv
<1>1. RouterInv /\ [Next]_vars => RouterInv'
  BY TypeStep, DirectoryStep, WordsStep DEF RouterInv
<1> QED
  BY <1>1, RouterStarts, PTL DEF Spec

\* Every variable of the router keeps its type; the socket keeps to its size.
THEOREM RouterTypes == Spec => []TypeOK
<1>1. RouterInv => TypeOK
  BY DEF RouterInv
<1> QED
  BY <1>1, RouterInductive, PTL

\* A server never has two routes, in one list or in both, and Redis never names a server that
\* has none, for any number of servers, crashes, restarts and lost datagrams.
THEOREM Directory == Spec => []DirectoryConsistent
<1>1. RouterInv => DirectoryConsistent
  BY DEF RouterInv
<1> QED
  BY <1>1, RouterInductive, PTL

\* While no start or shut-ack was lost, a server that is up has a route or its start is still
\* to be read, and one that ended without a crash has none once its shut-ack is read.
THEOREM Tracking == Spec => []RoutesTrackServers
<1>1. RouterInv => RoutesTrackServers
  <2>1. \A a, b : LastSaid(a, b) => a \in {packets[i] : i \in 1 .. Len(packets)}
    BY DEF LastSaid
  <2> QED
    BY <2>1 DEF RouterInv, WordsInOrder, UpWillBeKnown, OffWillBeForgotten, RoutesTrackServers,
                Sent, Start, ShutAck
<1> QED
  BY <1>1, RouterInductive, PTL
=============================================================================
