------------------------------ MODULE QH3Server ------------------------------
(***************************************************************************)
(* A qh3server that answers requests through a plugin                      *)
(* (src/qh3server/qh3server/qh3server.cpp, src/serverplugin/plugin_qh3server.*, *)
(* serverplugin_helper.hpp).                                               *)
(*                                                                         *)
(* The server's thread reads packets, hands requests to the plugin and     *)
(* writes responses to quiche as far as its send capacity goes; what is    *)
(* left goes out when later packets of the client arrive.  The plugin's    *)
(* thread queues its responses and wakes the server's loop.                *)
(* Lengths count units of data, not bytes.                                 *)
(***************************************************************************)
EXTENDS Integers, Sequences, FiniteSets

CONSTANTS
    Conns,             \* connection ids
    MaxRequests,       \* bound: requests, hence streams, of a connection
    Paths, ShortPaths, \* paths of requests, and those the plugin's server refuses to parse
    NoPath,            \* http_request without a ":path"
    Lengths,           \* lengths of the plugin's responses
    SEND_CHUNK_SIZE,
    Capacities         \* what quiche may take at once

ASSUME H3Assumption ==
    /\ MaxRequests \in Nat
    /\ ShortPaths \subseteq Paths /\ NoPath \notin Paths
    /\ Lengths \subseteq Nat \ {0}
    /\ SEND_CHUNK_SIZE \in Nat \ {0}
    /\ Capacities \subseteq Nat \ {0}

Streams == 1 .. MaxRequests

\* A response: the stream whose request it answers, 0 for the "{}" of a request that was not
\* given to the plugin, and its length, 0 before there is one.
Payload == [of : 0 .. MaxRequests, length : Nat]
NoPayload == [of |-> 0, length |-> 0]
EmptyJson == [of |-> 0, length |-> 1]

VARIABLES
    conn,             \* "none", "open" in the table, "gone"
    requests,         \* the paths of the requests the client has sent, by stream
    capacity,         \* what quiche takes of the connection's data now
    http_request,     \* ":path" in conn_io->http_request
    http_response,    \* payload of conn_io->http_response
    stream_id,
    total_sent_bytes,
    out,              \* what was given to quiche, by stream
    overlapped,       \* history: the first stream still unanswered when the next request came
    asked,            \* requests the plugin has not answered: connection, stream, path seen
    plugin,           \* "idle", or "notify" between enqueue_response and notify_main_thread
    response_queue,
    async,            \* ev_async is pending
    draining          \* the server's thread is in notify_server_async_cb

connVars == <<capacity, http_request, http_response, stream_id, total_sent_bytes, out>>
pluginVars == <<plugin, response_queue, async>>
vars == <<conn, requests, connVars, overlapped, asked, pluginVars, draining>>

Sent == [headers : BOOLEAN, length : Nat, body : Seq((0 .. MaxRequests) \X Nat), fin : BOOLEAN]
NothingSent == [headers |-> FALSE, length |-> 0, body |-> <<>>, fin |-> FALSE]

Init ==
    /\ conn = [c \in Conns |-> "none"]
    /\ requests = [c \in Conns |-> <<>>]
    /\ capacity = [c \in Conns |-> 0]
    /\ http_request = [c \in Conns |-> NoPath]
    /\ http_response = [c \in Conns |-> NoPayload]
    /\ stream_id = [c \in Conns |-> 0]
    /\ total_sent_bytes = [c \in Conns |-> 0]
    /\ out = [c \in Conns |-> [s \in Streams |-> NothingSent]]
    /\ overlapped = [c \in Conns |-> 0]
    /\ asked = {}
    /\ plugin = "idle"
    /\ response_queue = <<>>
    /\ async = FALSE
    /\ draining = FALSE

-----------------------------------------------------------------------------
(* Writing a response: a writer is the part of the connection that changes *)

Writer(c) == [payload |-> http_response[c], total |-> total_sent_bytes[c],
              capacity |-> capacity[c], stream |-> stream_id[c],
              sent |-> IF stream_id[c] = 0 THEN NothingSent ELSE out[c][stream_id[c]]]

\* quiche_h3_send_body: what it takes of n units when room units are free.  It fails before the
\* headers and after the end of the stream, and without room.
quiche_h3_send_body(w, room, n) ==
    IF ~w.sent.headers \/ w.sent.fin \/ room <= 0 THEN 0
    ELSE IF n <= room THEN n ELSE room

\* The writer after data was taken; quiche ends the stream only with the last of it.
Took(w, data, fin) ==
    [w EXCEPT !.capacity = @ - Len(data),
              !.total = @ + Len(data),
              !.sent.body = @ \o data,
              !.sent.fin = @ \/ fin]

\* Mutant: what is left is sent from the start.
start_index_zero(w) == 0

start_index(w) == w.total

is_fin(w, offset, chunk) == offset + chunk >= w.payload.length

\* The loop steps by SEND_CHUNK_SIZE whatever was taken, and ends at the first error.  The
\* rounds before round k had whole chunks, so it has the room they leave.
send_in_chunks(w) ==
    LET offset(k) == start_index(w) + (k - 1) * SEND_CHUNK_SIZE
        chunk(k)  == LET remaining == w.payload.length - offset(k)
                     IN IF remaining < SEND_CHUNK_SIZE THEN remaining ELSE SEND_CHUNK_SIZE
        sent(k)   == quiche_h3_send_body(w, w.capacity - (k - 1) * SEND_CHUNK_SIZE, chunk(k))
        rounds    == {k \in 1 .. w.payload.length : offset(k) < w.payload.length}
        last      == Cardinality({k \in rounds : sent(k) > 0})
        round(i)  == (i - 1) \div SEND_CHUNK_SIZE + 1
        taken     == IF last = 0 THEN 0 ELSE (last - 1) * SEND_CHUNK_SIZE + sent(last)
    IN Took(w,
            [i \in 1 .. taken |->
                <<w.payload.of, offset(round(i)) + ((i - 1) % SEND_CHUNK_SIZE) + 1>>],
            \E k \in rounds : is_fin(w, offset(k), chunk(k)) /\ sent(k) = chunk(k))

\* Mutant: a response is resumed only when a whole chunk is left.
pending_chunk(w) ==
    IF w.total + SEND_CHUNK_SIZE <= w.payload.length THEN send_in_chunks(w) ELSE w

\* recv_cb resumes a response that is not complete before it looks at new events.
pending(w) == IF w.total < w.payload.length THEN send_in_chunks(w) ELSE w

\* quiche_h3_send_response fails without capacity, unnoticed: the body then fails too.  On a
\* stream that has headers the content-length it announced stands.
send_headers(w) ==
    [w EXCEPT !.sent.headers = @ \/ w.capacity > 0,
              !.sent.length = IF w.sent.headers THEN @ ELSE w.payload.length,
              !.total = 0]

Written(c, writer) == \E w \in {writer} :
    /\ http_response' = [http_response EXCEPT ![c] = w.payload]
    /\ total_sent_bytes' = [total_sent_bytes EXCEPT ![c] = w.total]
    /\ capacity' = [capacity EXCEPT ![c] = w.capacity]
    /\ stream_id' = [stream_id EXCEPT ![c] = w.stream]
    /\ out' = [out EXCEPT ![c] = IF w.stream = 0 THEN [s \in Streams |-> NothingSent]
                                 ELSE [@ EXCEPT ![w.stream] = w.sent]]

send_response(c, w, payload) ==
    \E p \in {IF payload.length = 0 THEN EmptyJson ELSE payload} :
    \E h \in {send_headers([w EXCEPT !.payload = p])} :
    \E n \in {quiche_h3_send_body(h, h.capacity, p.length)} :
        Written(c, IF p.length < SEND_CHUNK_SIZE
                   THEN Took(h, [i \in 1 .. n |-> <<p.of, i>>], n = p.length)
                   ELSE send_in_chunks(h))

-----------------------------------------------------------------------------
(* The server's thread                                                     *)

create_conn(c, k) ==
    /\ ~draining
    /\ conn[c] = "none"
    /\ conn' = [conn EXCEPT ![c] = "open"]
    /\ capacity' = [capacity EXCEPT ![c] = k]
    /\ UNCHANGED <<requests, http_request, http_response, stream_id, total_sent_bytes, out,
                   overlapped, asked, pluginVars, draining>>

\* A packet that acknowledges data or opens windows: quiche takes k from now on.
recv_cb(c, k) ==
    /\ ~draining
    /\ conn[c] = "open"
    /\ k > capacity[c]
    /\ \E w \in {[Writer(c) EXCEPT !.capacity = k]} : Written(c, pending(w))
    /\ UNCHANGED <<conn, requests, http_request, overlapped, asked, pluginVars, draining>>

\* Mutant: a header is looked up and never added.
get_header(old, new) == old

\* add_or_get_header keeps the value a connection's first request gave the header.
add_or_get_header(old, new) == IF old = NoPath THEN new ELSE old

\* The client has all its answers.
Answered(c) == \A s \in 1 .. Len(requests[c]) : out[c][s].fin

\* A packet with the next request of a client: the rest of an earlier response, the headers,
\* then parse at the end of the request.  stream_id is the new stream's from here on, whether
\* the one before is answered or not.
recv_request(c, p) ==
    LET s == Len(requests[c]) + 1
        w == [pending(Writer(c)) EXCEPT !.stream = s, !.sent = NothingSent]
        path == add_or_get_header(http_request[c], p)
    IN /\ ~draining
       /\ conn[c] = "open"
       /\ s \in Streams
       /\ requests' = [requests EXCEPT ![c] = Append(@, p)]
       /\ http_request' = [http_request EXCEPT ![c] = path]
       /\ \/ path \in ShortPaths /\ send_response(c, w, w.payload) /\ UNCHANGED asked
          \/ /\ path \notin ShortPaths
             /\ Written(c, w)
             /\ asked' = asked \cup {[conn |-> c, stream |-> s, path |-> path]}
       /\ overlapped' = [overlapped EXCEPT ![c] = IF @ = 0 /\ ~Answered(c) THEN s - 1 ELSE @]
       /\ UNCHANGED <<conn, pluginVars, draining>>

\* The connection closed or timed out, or dangled for too long; its conn_io is deleted.
destroy_connection(c) ==
    /\ ~draining
    /\ conn[c] = "open"
    /\ conn' = [conn EXCEPT ![c] = "gone"]
    /\ http_request' = [http_request EXCEPT ![c] = NoPath]
    /\ Written(c, [payload |-> NoPayload, total |-> 0, capacity |-> 0, stream |-> 0])
    /\ UNCHANGED <<requests, overlapped, asked, pluginVars, draining>>

\* The loop calls notify_server_async_cb.
async_cb ==
    /\ ~draining
    /\ async
    /\ async' = FALSE
    /\ draining' = TRUE
    /\ UNCHANGED <<conn, requests, connVars, overlapped, asked, plugin, response_queue>>

\* Mutant: one response per wake-up.
dequeue_one == draining' = FALSE

dequeue_more == UNCHANGED draining

\* One round of its loop: dequeue_response, set_payload, try_send_response.
notify_server_async_cb ==
    /\ draining
    /\ response_queue # <<>>
    /\ response_queue' = Tail(response_queue)
    /\ LET r == Head(response_queue)
       IN IF conn[r.conn] = "open"
          THEN send_response(r.conn, Writer(r.conn), [of |-> r.stream, length |-> r.length])
          ELSE UNCHANGED <<capacity, http_response, stream_id, total_sent_bytes, out>>
    /\ dequeue_more
    /\ UNCHANGED <<conn, requests, http_request, overlapped, asked, plugin, async>>

async_cb_returns ==
    /\ draining
    /\ response_queue = <<>>
    /\ draining' = FALSE
    /\ UNCHANGED <<conn, requests, connVars, overlapped, asked, pluginVars>>

-----------------------------------------------------------------------------
(* The plugin's thread: qh3server_try_send_response                        *)

enqueue_response(a, n) ==
    /\ plugin = "idle"
    /\ asked' = asked \ {a}
    /\ response_queue' = Append(response_queue, [conn |-> a.conn, stream |-> a.stream, length |-> n])
    /\ plugin' = "notify"
    /\ UNCHANGED <<conn, requests, connVars, overlapped, async, draining>>

notify_main_thread ==
    /\ plugin = "notify"
    /\ plugin' = "idle"
    /\ async' = TRUE
    /\ UNCHANGED <<conn, requests, connVars, overlapped, asked, response_queue, draining>>

Next ==
    \/ \E c \in Conns : \/ \E k \in Capacities : create_conn(c, k) \/ recv_cb(c, k)
                        \/ \E p \in Paths : recv_request(c, p)
                        \/ destroy_connection(c)
    \/ async_cb
    \/ notify_server_async_cb
    \/ async_cb_returns
    \/ \E a \in asked, n \in Lengths : enqueue_response(a, n)
    \/ notify_main_thread

Spec == Init /\ [][Next]_vars

\* Both threads run, and a client whose connection lives acknowledges what it gets.  The
\* plugin need not answer.
Fairness ==
    /\ \A c \in Conns : WF_vars(\E k \in Capacities : recv_cb(c, k))
    /\ WF_vars(async_cb)
    /\ WF_vars(notify_server_async_cb \/ async_cb_returns)
    /\ WF_vars(notify_main_thread)

FairSpec == Spec /\ Fairness

-----------------------------------------------------------------------------
(* Properties                                                              *)

TypeOK ==
    /\ conn \in [Conns -> {"none", "open", "gone"}]
    /\ requests \in [Conns -> Seq(Paths)]
    /\ capacity \in [Conns -> Nat]
    /\ http_request \in [Conns -> Paths \cup {NoPath}]
    /\ http_response \in [Conns -> Payload]
    /\ stream_id \in [Conns -> 0 .. MaxRequests]
    /\ total_sent_bytes \in [Conns -> Nat]
    /\ out \in [Conns -> [Streams -> Sent]]
    /\ overlapped \in [Conns -> 0 .. MaxRequests]
    /\ asked \subseteq [conn : Conns, stream : Streams, path : Paths]
    /\ plugin \in {"idle", "notify"}
    /\ response_queue \in Seq([conn : Conns, stream : Streams, length : Nat])
    /\ async \in BOOLEAN
    /\ draining \in BOOLEAN

\* conn_io keeps one stream_id, one payload and one total_sent_bytes, so a request that comes
\* before the answer to the last one is complete takes them over: the stream before is left as
\* it is, and its answer goes out on a later stream.  Nothing stops a client (the server allows
\* 100 streams), and every stream from the abandoned one on may carry what is not its own.
Mixed(c, s) == overlapped[c] # 0 /\ s >= overlapped[c]

\* However a response is cut by the capacity, and although send_in_chunks steps by whole
\* chunks, what a stream carries are runs of responses, each from its first unit on and
\* without a gap or a repetition.  But for the streams that overlapping requests mix up, it is
\* one such run, of the response to the stream's own request, and the stream ends exactly when
\* all that content-length announces is out.
BodyInOrder ==
    \A c \in Conns : \A s \in Streams :
        LET o == out[c][s]
        IN /\ \A i \in 1 .. Len(o.body) :
                \/ o.body[i][2] = 1
                \/ i > 1 /\ o.body[i] = <<o.body[i - 1][1], o.body[i - 1][2] + 1>>
           /\ ~Mixed(c, s) =>
                /\ \E of \in {0, s} : \A i \in 1 .. Len(o.body) : o.body[i] = <<of, i>>
                /\ o.fin <=> o.headers /\ Len(o.body) = o.length

\* A response whose headers were taken is completed while its connection lives, unless the
\* client's next request comes before: every cut is followed by a packet that resumes it.
ResponseCompletes ==
    \A c \in Conns : \A s \in Streams :
        out[c][s].headers ~> (out[c][s].fin \/ conn[c] = "gone" \/ Mixed(c, s))

\* Wake-ups of ev_async coalesce, but no response stays in the queue: the callback empties
\* it, and one queued behind its back brings a new wake-up.
QueueDrained == (response_queue # <<>>) ~> (response_queue = <<>>)
=============================================================================
