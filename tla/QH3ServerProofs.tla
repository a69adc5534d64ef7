--------------------------- MODULE QH3ServerProofs ---------------------------
(***************************************************************************)
(* Proofs about QH3Server, for any connections, requests, lengths and      *)
(* capacities: what a stream carries are responses in order and without a  *)
(* gap and, while requests do not overlap, the beginning of one response   *)
(* to its own request, ended exactly when the whole response is out.       *)
(***************************************************************************)
EXTENDS QH3Server, FiniteSetTheorems, SequenceTheorems, TLAPS

Asked == [conn : Conns, stream : Streams, path : Paths]
Queued == [conn : Conns, stream : Streams, length : Nat]

-----------------------------------------------------------------------------
(* What send_in_chunks sends                                               *)

\* Multiples of the chunk size.
LEMMA Multiples ==
    ASSUME NEW C \in Nat \ {0}
    PROVE  /\ \A a, b \in Int : a <= b => a * C <= b * C
           /\ \A a \in Int : (a + 1) * C = a * C + C
           /\ \A a \in Nat : a <= a * C /\ a * C \in Nat
OBVIOUS

LEMMA Remainders ==
    ASSUME NEW C \in Nat \ {0}, NEW a \in Nat
    PROVE  /\ a \div C \in Nat /\ a % C \in 0 .. C - 1
           /\ a = (a \div C) * C + (a % C)
OBVIOUS

\* The units from start + 1 on that response of has.
Units(of, start, n) == [i \in 1 .. n |-> <<of, start + i>>]

\* How much of the response quiche takes: what it has room for, if it takes any.
Taken(w) ==
    IF ~w.sent.headers \/ w.sent.fin THEN 0
    ELSE IF w.payload.length - w.total <= w.capacity THEN w.payload.length - w.total ELSE w.capacity

\* Although its loop steps by whole chunks whatever quiche took, send_in_chunks sends the next
\* units of the response without a gap or a repetition, and the end with the last one.
LEMMA ChunksInOrder ==
    ASSUME NEW w, w.payload.length \in Nat, w.total \in Nat, w.capacity \in Nat,
           w.total < w.payload.length, w.sent.headers \in BOOLEAN, w.sent.fin \in BOOLEAN
    PROVE  send_in_chunks(w) =
               Took(w, Units(w.payload.of, w.total, Taken(w)),
                    w.sent.headers /\ ~w.sent.fin /\ Taken(w) = w.payload.length - w.total)
<1> DEFINE C == SEND_CHUNK_SIZE
           S == w.total
           L == w.payload.length
           K == w.capacity
           R == L - S
           live == w.sent.headers /\ ~w.sent.fin
           A == Taken(w)
           offset(k) == start_index(w) + (k - 1) * SEND_CHUNK_SIZE
           chunk(k)  == LET remaining == w.payload.length - offset(k)
                        IN IF remaining < SEND_CHUNK_SIZE THEN remaining ELSE SEND_CHUNK_SIZE
           sent(k)   == quiche_h3_send_body(w, w.capacity - (k - 1) * SEND_CHUNK_SIZE, chunk(k))
           rounds    == {k \in 1 .. w.payload.length : offset(k) < w.payload.length}
           last      == Cardinality({k \in rounds : sent(k) > 0})
           round(i)  == (i - 1) \div SEND_CHUNK_SIZE + 1
           taken     == IF last = 0 THEN 0 ELSE (last - 1) * SEND_CHUNK_SIZE + sent(last)
           data      == [i \in 1 .. taken |->
                            <<w.payload.of, offset(round(i)) + ((i - 1) % SEND_CHUNK_SIZE) + 1>>]
           ends      == \E k \in rounds : is_fin(w, offset(k), chunk(k)) /\ sent(k) = chunk(k)
<1>1. send_in_chunks(w) = Took(w, data, ends)
  BY DEF send_in_chunks
<1>2. C \in Nat \ {0} /\ S \in Nat /\ L \in Nat /\ K \in Nat /\ R \in Nat \ {0} /\ R <= L
  BY H3Assumption
<1>3. A \in Nat /\ A <= K /\ A <= R /\ (live => A = R \/ A = K) /\ (~live => A = 0)
  BY <1>2 DEF Taken
<1>4. /\ \A a, b \in Int : a <= b => a * C <= b * C
      /\ \A a \in Int : (a + 1) * C = a * C + C
      /\ \A a \in Nat : a <= a * C /\ a * C \in Nat
  BY <1>2, Multiples
<1>5. \A k \in Nat \ {0} :
          /\ (k - 1) * C \in Nat /\ k - 1 <= (k - 1) * C /\ k * C = (k - 1) * C + C
          /\ offset(k) = S + (k - 1) * C
          /\ chunk(k) = IF R - (k - 1) * C < C THEN R - (k - 1) * C ELSE C
          /\ k \in rounds <=> (k - 1) * C < R
  <2> SUFFICES ASSUME NEW k \in Nat \ {0}
               PROVE  /\ (k - 1) * C \in Nat /\ k - 1 <= (k - 1) * C /\ k * C = (k - 1) * C + C
                      /\ offset(k) = S + (k - 1) * C
                      /\ chunk(k) = IF R - (k - 1) * C < C THEN R - (k - 1) * C ELSE C
                      /\ k \in rounds <=> (k - 1) * C < R
    OBVIOUS
  <2>1. k - 1 \in Nat
    OBVIOUS
  <2>2. (k - 1) * C \in Nat /\ k - 1 <= (k - 1) * C /\ k * C = (k - 1) * C + C
    <3> DEFINE a == k - 1
    <3>1. k = a + 1 /\ a \in Nat /\ a \in Int
      BY <2>1
    <3> HIDE DEF a
    <3>2. a <= a * C /\ a * C \in Nat /\ (a + 1) * C = a * C + C
      BY <1>4, <3>1, Zenon
    <3>3. a * C \in Nat /\ a <= a * C /\ k * C = a * C + C
      BY <3>1, <3>2
    <3> QED
      BY <3>3 DEF a
  <2> DEFINE x == (k - 1) * C
  <2>3. offset(k) = S + x
    BY DEF start_index
  <2>4. x \in Nat /\ k - 1 <= x
    BY <2>2
  <2>5. chunk(k) = IF R - x < C THEN R - x ELSE C
    <3>1. w.payload.length - offset(k) = R - x
      BY <1>2, <2>3, <2>4
    <3> QED
      BY <3>1
  <2>6. k \in rounds <=> x < R
    <3>1. k \in rounds <=> k \in 1 .. L /\ S + x < L
      BY <2>3
    <3> HIDE DEF x
    <3> QED
      BY <1>2, <2>4, <3>1
  <2> QED
    BY <2>2, <2>3, <2>5, <2>6
<1>6. \A k \in Nat \ {0} :
          sent(k) = IF ~live \/ K - (k - 1) * C <= 0 THEN 0
                    ELSE IF chunk(k) <= K - (k - 1) * C THEN chunk(k) ELSE K - (k - 1) * C
  BY DEF quiche_h3_send_body
<1> HIDE DEF rounds, offset, chunk, sent, C, S, L, K, R, A, live
<1>7. rounds \subseteq Nat \ {0}
  BY DEF rounds
<1>8. \A k \in Nat \ {0} : k \in rounds /\ sent(k) > 0 <=> live /\ (k - 1) * C < A
  BY <1>2, <1>3, <1>5, <1>6
<1>9. taken = A
  <2>1. CASE A = 0
    <3>1. {k \in rounds : sent(k) > 0} = {}
      <4>1. ASSUME NEW k \in rounds, sent(k) > 0 PROVE FALSE
        <5>1. k \in Nat \ {0} /\ (k - 1) * C \in Nat
          BY <1>5, <1>7
        <5> QED
          BY <1>8, <2>1, <4>1, <5>1
      <4> QED
        BY <4>1
    <3>2. last = 0
      BY <3>1, FS_EmptySet
    <3> QED
      BY <2>1, <3>2
  <2>2. CASE A # 0
    <3> DEFINE m == (A - 1) \div C + 1
    <3>1. A - 1 \in Nat /\ live
      BY <1>3, <2>2
    <3>2. (A - 1) \div C \in Nat /\ (A - 1) % C \in 0 .. C - 1
          /\ A - 1 = ((A - 1) \div C) * C + ((A - 1) % C)
      BY <1>2, <3>1, Remainders
    <3>3. m \in Nat \ {0} /\ (m - 1) * C < A /\ A <= m * C
      <4>1. m \in Nat \ {0} /\ m - 1 = (A - 1) \div C
        BY <3>2
      <4> DEFINE q == (A - 1) \div C
                 t == (A - 1) % C
                 x == q * C
      <4>2. m * C = x + C
        BY <1>4, <3>2
      <4>3. A - 1 = x + t /\ t \in 0 .. C - 1 /\ x \in Nat
        BY <1>4, <3>2
      <4>4. (m - 1) * C = x
        BY <4>1
      <4> HIDE DEF m, q, t, x
      <4> QED
        BY <1>2, <1>3, <4>1, <4>2, <4>3, <4>4
    <3> HIDE DEF m
    <3>4. \A k \in Nat \ {0} : (k - 1) * C < A <=> k <= m
      <4> SUFFICES ASSUME NEW k \in Nat \ {0} PROVE (k - 1) * C < A <=> k <= m
        OBVIOUS
      <4>1. (k - 1) * C \in Nat /\ m * C \in Nat /\ (m - 1) * C \in Nat
        BY <1>4, <1>5, <3>3
      <4>2. CASE k <= m
        <5>1. (k - 1) * C <= (m - 1) * C
          BY <1>4, <3>3, <4>2
        <5> QED
          BY <1>3, <3>3, <4>1, <4>2, <5>1
      <4>3. CASE ~(k <= m)
        <5>1. m * C <= (k - 1) * C
          BY <1>4, <3>3, <4>3
        <5> QED
          BY <1>3, <3>3, <4>1, <4>3, <5>1
      <4> QED
        BY <4>2, <4>3
    <3>5. {k \in rounds : sent(k) > 0} = 1 .. m
      <4>1. \A k \in Nat \ {0} : k \in rounds /\ sent(k) > 0 <=> k <= m
        BY <1>8, <3>1, <3>4
      <4>2. \A k : k \in 1 .. m <=> k \in Nat \ {0} /\ k <= m
        BY <3>3
      <4> QED
        BY <1>7, <4>1, <4>2
    <3>6. last = m
      <4>1. Cardinality(1 .. m) = m
        <5>1. Cardinality(1 .. m) = IF 1 > m THEN 0 ELSE m - 1 + 1
          BY <3>3, FS_Interval
        <5> QED
          BY <3>3, <5>1
      <4> QED
        BY <3>5, <4>1
    <3>7. (m - 1) * C + sent(m) = A
      <4> DEFINE x == (m - 1) * C
      <4>1. x \in Nat /\ x < A /\ A <= x + C
        BY <1>5, <3>3
      <4>2. sent(m) = IF K - x <= 0 THEN 0 ELSE IF chunk(m) <= K - x THEN chunk(m) ELSE K - x
        BY <1>6, <3>1, <3>3
      <4>3. chunk(m) = IF R - x < C THEN R - x ELSE C
        BY <1>5, <3>3
      <4> HIDE DEF x
      <4>4. x + sent(m) = A
        BY <1>2, <1>3, <3>1, <4>1, <4>2, <4>3
      <4> QED
        BY <4>4 DEF x
    <3> QED
      BY <3>3, <3>6, <3>7 DEF C
  <2> QED
    BY <2>1, <2>2
<1>10. data = Units(w.payload.of, w.total, A)
  <2>1. ASSUME NEW i \in 1 .. A
        PROVE  offset(round(i)) + ((i - 1) % C) + 1 = S + i
    <3>1. i - 1 \in Nat
      BY <1>3, <2>1
    <3> DEFINE q == (i - 1) \div C
               t == (i - 1) % C
               x == q * C
    <3>2. q \in Nat /\ t \in 0 .. C - 1 /\ i - 1 = x + t
      BY <1>2, <3>1, Remainders
    <3>3. round(i) = q + 1
      BY DEF C
    <3>4. q + 1 \in Nat \ {0} /\ (q + 1) - 1 = q
      BY <3>2
    <3>5. offset(q + 1) = S + x
      BY <1>5, <3>4
    <3>6. x \in Nat
      BY <1>4, <3>2
    <3> HIDE DEF q, x, round
    <3> QED
      BY <1>2, <2>1, <3>2, <3>3, <3>5, <3>6
  <2> QED
    BY <1>9, <2>1 DEF Units, C, S
<1>11. ends <=> live /\ A = R
  <2>1. ASSUME NEW k \in rounds, is_fin(w, offset(k), chunk(k)), sent(k) = chunk(k)
        PROVE  live /\ A = R
    <3> DEFINE x == (k - 1) * C
    <3>1. x \in Nat /\ x < R /\ offset(k) = S + x /\ k \in Nat \ {0}
          /\ chunk(k) = IF R - x < C THEN R - x ELSE C
      BY <1>5, <1>7, <2>1
    <3>2. sent(k) = IF ~live \/ K - x <= 0 THEN 0
                    ELSE IF chunk(k) <= K - x THEN chunk(k) ELSE K - x
      BY <1>6, <3>1
    <3>3. offset(k) + chunk(k) >= L
      BY <2>1 DEF is_fin, L
    <3>4. R = L - S
      BY DEF R
    <3> HIDE DEF x
    <3> QED
      BY <1>2, <1>3, <2>1, <3>1, <3>2, <3>3, <3>4
  <2>2. ASSUME live, A = R PROVE ends
    <3> DEFINE m == (R - 1) \div C + 1
               x == (m - 1) * C
    <3>1. R - 1 \in Nat
      BY <1>2
    <3>2. (R - 1) \div C \in Nat /\ (R - 1) % C \in 0 .. C - 1
          /\ R - 1 = ((R - 1) \div C) * C + ((R - 1) % C)
      BY <1>2, <3>1, Remainders
    <3>3. m \in Nat \ {0} /\ m - 1 = (R - 1) \div C
      BY <3>2
    <3>4. x \in Nat /\ x < R /\ R <= x + C
      <4> DEFINE y == ((R - 1) \div C) * C
                 t == (R - 1) % C
      <4>1. x = y /\ R - 1 = y + t /\ t \in 0 .. C - 1 /\ y \in Nat
        BY <1>4, <3>2, <3>3
      <4> HIDE DEF x, y, t
      <4> QED
        BY <1>2, <4>1
    <3>5. /\ m \in rounds /\ offset(m) = S + x /\ chunk(m) = IF R - x < C THEN R - x ELSE C
      BY <1>5, <3>3, <3>4
    <3>6. sent(m) = IF ~live \/ K - x <= 0 THEN 0
                    ELSE IF chunk(m) <= K - x THEN chunk(m) ELSE K - x
      BY <1>6, <3>3
    <3>7. R = L - S
      BY DEF R
    <3> HIDE DEF m, x
    <3>8. chunk(m) = R - x /\ sent(m) = chunk(m)
      BY <1>2, <1>3, <2>2, <3>4, <3>5, <3>6
    <3>9. offset(m) + chunk(m) >= L
      BY <1>2, <3>4, <3>5, <3>7, <3>8
    <3> QED
      BY <3>5, <3>8, <3>9 DEF is_fin, L
  <2> QED
    BY <2>1, <2>2
<1>12. ends = (live /\ A = R)
  <2>1. ends \in BOOLEAN /\ (live /\ A = R) \in BOOLEAN
    OBVIOUS
  <2> QED
    BY <1>11, <2>1
<1> HIDE DEF data, ends
<1> QED
  BY <1>1, <1>10, <1>12 DEF A, R, L, S, live

-----------------------------------------------------------------------------
(* The inductive invariant                                                 *)

\* The units of data s are the first ones of response of.
InOrder(s, of) == \A i \in 1 .. Len(s) : s[i] = <<of, i>>

\* The units of data b are runs of responses, each from its first unit on.
Runs(b) ==
    \A i \in 1 .. Len(b) :
        \/ b[i][2] = 1
        \/ i > 1 /\ b[i] = <<b[i - 1][1], b[i - 1][2] + 1>>

\* What is known of a stream: without headers nothing was sent.
StreamOK(o) ==
    /\ o.fin <=> o.headers /\ Len(o.body) = o.length
    /\ ~o.headers => o.body = <<>>

\* The requests of a connection: the one in stream_id is the last, and later streams are unused.
RequestsKept ==
    /\ \A c \in Conns : conn[c] = "open" => stream_id[c] = Len(requests[c])
    /\ \A c \in Conns : conn[c] = "none" => requests[c] = <<>>
    /\ \A c \in Conns : conn[c] # "open" => stream_id[c] = 0
    /\ \A c \in Conns : \A s \in Streams : s > stream_id[c] => out[c][s] = NothingSent
    /\ \A c \in Conns : stream_id[c] = 0 =>
          http_response[c] = NoPayload /\ total_sent_bytes[c] = 0
    /\ \A c \in Conns : conn[c] = "none" => overlapped[c] = 0
    /\ \A c \in Conns : conn[c] = "open" /\ overlapped[c] # 0 => overlapped[c] < stream_id[c]

\* What total_sent_bytes and the payload say of the stream that is being answered.
Progress ==
    \A c \in Conns : stream_id[c] # 0 =>
        LET o == out[c][stream_id[c]]
        IN o.headers =>
             /\ total_sent_bytes[c] > 0 =>
                  /\ Len(o.body) > 0
                  /\ o.body[Len(o.body)] = <<http_response[c].of, total_sent_bytes[c]>>
             /\ overlapped[c] = 0 =>
                  /\ total_sent_bytes[c] = Len(o.body)
                  /\ http_response[c].length = o.length
                  /\ http_response[c].of \in {0, stream_id[c]}
                  /\ InOrder(o.body, http_response[c].of)

\* The requests of an open connection came one at a time so far.
Alone(c) == conn[c] = "open" /\ overlapped[c] = 0

\* An answer that is due: while requests do not overlap, to the request of stream_id, of which
\* nothing was sent.
DueOK(c, s) ==
    /\ conn[c] # "none"
    /\ conn[c] = "open" => http_request[c] \notin ShortPaths
    /\ Alone(c) => s = stream_id[c] /\ out[c][s] = NothingSent

\* The plugin answers a request once, and has one request at a time of such a connection.
AnsweredOnce ==
    /\ \A a \in asked : DueOK(a.conn, a.stream)
    /\ \A i \in 1 .. Len(response_queue) : DueOK(response_queue[i].conn, response_queue[i].stream)
    /\ \A a, b \in asked : Alone(a.conn) /\ a.conn = b.conn => a = b
    /\ \A i, j \in 1 .. Len(response_queue) :
          /\ Alone(response_queue[i].conn)
          /\ response_queue[i].conn = response_queue[j].conn
          => i = j
    /\ \A a \in asked, i \in 1 .. Len(response_queue) :
          Alone(a.conn) => a.conn # response_queue[i].conn

\* A connection whose first request was refused has no payload but the empty one.
Refused ==
    \A c \in Conns :
        /\ conn[c] = "open" /\ stream_id[c] # 0 /\ http_request[c] \notin ShortPaths => http_request[c] # NoPath
        /\ http_request[c] \in ShortPaths => http_response[c].of = 0
        /\ http_request[c] = NoPath => http_response[c].of = 0

\* Each stream carries runs of responses and, unless requests overlapped, is consistent and
\* carries the beginning of one response.
StreamsOK == \A c \in Conns : \A s \in Streams :
    /\ Runs(out[c][s].body)
    /\ ~out[c][s].headers => out[c][s].body = <<>>
    /\ ~Mixed(c, s) => StreamOK(out[c][s]) /\ \E of \in {0, s} : InOrder(out[c][s].body, of)

\* The inductive invariant.
BodyInv == TypeOK /\ StreamsOK /\ RequestsKept /\ Progress /\ AnsweredOnce /\ Refused

-----------------------------------------------------------------------------
(* Writers                                                                 *)

Datum == (0 .. MaxRequests) \X Nat
Writers == [payload : Payload, total : Nat, capacity : Nat, stream : 0 .. MaxRequests, sent : Sent]

\* What Progress and StreamsOK say of the stream a writer writes to: always,
Loose(w) ==
    /\ Runs(w.sent.body)
    /\ ~w.sent.headers => w.sent.body = <<>>
    /\ w.sent.headers /\ w.total > 0 =>
          /\ Len(w.sent.body) > 0
          /\ w.sent.body[Len(w.sent.body)] = <<w.payload.of, w.total>>

\* and when requests do not overlap.
Valid(w) ==
    /\ StreamOK(w.sent)
    /\ w.sent.headers => /\ w.total = Len(w.sent.body)
                         /\ w.payload.length = w.sent.length
                         /\ w.payload.of \in {0, w.stream}
                         /\ InOrder(w.sent.body, w.payload.of)

\* The parts of a writer.
LEMMA WriterParts ==
    ASSUME NEW w \in Writers
    PROVE  /\ w.payload \in Payload /\ w.total \in Nat /\ w.capacity \in Nat
           /\ w.stream \in 0 .. MaxRequests /\ w.sent \in Sent
           /\ w.payload.length \in Nat /\ w.payload.of \in 0 .. MaxRequests
           /\ w.sent.headers \in BOOLEAN /\ w.sent.fin \in BOOLEAN
           /\ w.sent.length \in Nat /\ w.sent.body \in Seq(Datum)
<1>1. /\ w.payload \in Payload /\ w.total \in Nat /\ w.capacity \in Nat
      /\ w.stream \in 0 .. MaxRequests /\ w.sent \in Sent
  <2> DEFINE P == Payload
             S == Sent
  <2>1. w \in [payload : P, total : Nat, capacity : Nat, stream : 0 .. MaxRequests, sent : S]
    BY DEF Writers
  <2> HIDE DEF P, S
  <2>2. /\ w.payload \in P /\ w.total \in Nat /\ w.capacity \in Nat
        /\ w.stream \in 0 .. MaxRequests /\ w.sent \in S
    BY <2>1
  <2> QED
    BY <2>2 DEF P, S
<1>2. w.payload.length \in Nat /\ w.payload.of \in 0 .. MaxRequests
  BY <1>1 DEF Payload
<1>3. /\ w.sent.headers \in BOOLEAN /\ w.sent.fin \in BOOLEAN
      /\ w.sent.length \in Nat /\ w.sent.body \in Seq(Datum)
  <2> DEFINE B == Seq(Datum)
  <2>1. w.sent \in [headers : BOOLEAN, length : Nat, body : B, fin : BOOLEAN]
    BY <1>1 DEF Sent, Datum
  <2> HIDE DEF B
  <2>2. /\ w.sent.headers \in BOOLEAN /\ w.sent.fin \in BOOLEAN
        /\ w.sent.length \in Nat /\ w.sent.body \in B
    BY <2>1
  <2> QED
    BY <2>2 DEF B
<1> QED
  BY <1>1, <1>2, <1>3

LEMMA UnitsParts ==
    ASSUME NEW of \in 0 .. MaxRequests, NEW start \in Nat, NEW n \in Nat
    PROVE  /\ Units(of, start, n) \in Seq(Datum) /\ Len(Units(of, start, n)) = n
           /\ \A i \in 1 .. n : Units(of, start, n)[i] = <<of, start + i>>
<1>1. \A i \in 1 .. n : <<of, start + i>> \in Datum
  BY DEF Datum
<1> DEFINE D == Datum
<1>2. \A i \in 1 .. n : <<of, start + i>> \in D
  BY <1>1
<1> HIDE DEF D
<1>3. /\ Units(of, start, n) \in Seq(D) /\ Len(Units(of, start, n)) = n
      /\ \A i \in 1 .. n : Units(of, start, n)[i] = <<of, start + i>>
  BY <1>2 DEF Units
<1> QED
  BY <1>3 DEF D

\* The parts of a writer after quiche took data.
LEMMA TookParts ==
    ASSUME NEW w \in Writers, NEW data \in Seq(Datum), Len(data) <= w.capacity, NEW fin \in BOOLEAN
    PROVE  LET t == Took(w, data, fin)
           IN /\ t \in Writers
              /\ t.payload = w.payload /\ t.stream = w.stream
              /\ t.capacity = w.capacity - Len(data) /\ t.total = w.total + Len(data)
              /\ t.sent.headers = w.sent.headers /\ t.sent.length = w.sent.length
              /\ t.sent.body = w.sent.body \o data
              /\ t.sent.fin = (w.sent.fin \/ fin)
<1> DEFINE B == Seq(Datum)
           P == Payload
           n == Len(data)
           b == w.sent.body \o data
<1>1. /\ w \in [payload : P, total : Nat, capacity : Nat, stream : 0 .. MaxRequests,
                sent : [headers : BOOLEAN, length : Nat, body : B, fin : BOOLEAN]]
      /\ Writers = [payload : P, total : Nat, capacity : Nat, stream : 0 .. MaxRequests,
                sent : [headers : BOOLEAN, length : Nat, body : B, fin : BOOLEAN]]
  BY DEF Writers, Sent, Datum
<1>2. n \in Nat /\ n <= w.capacity
  BY LenProperties
<1>3. b \in B
  BY WriterParts, ConcatProperties
<1>4. Took(w, data, fin) = [w EXCEPT !.capacity = w.capacity - n, !.total = w.total + n,
                                     !.sent.body = b, !.sent.fin = w.sent.fin \/ fin]
  BY DEF Took
<1> HIDE DEF B, P, n, b
<1>5. w.capacity - n \in Nat /\ w.total + n \in Nat /\ (w.sent.fin \/ fin) \in BOOLEAN
  BY <1>1, <1>2
<1> DEFINE t == [w EXCEPT !.capacity = w.capacity - n, !.total = w.total + n,
                          !.sent.body = b, !.sent.fin = w.sent.fin \/ fin]
<1>6. /\ t \in Writers
      /\ t.payload = w.payload /\ t.stream = w.stream
      /\ t.capacity = w.capacity - n /\ t.total = w.total + n
      /\ t.sent.headers = w.sent.headers /\ t.sent.length = w.sent.length
      /\ t.sent.body = b /\ t.sent.fin = (w.sent.fin \/ fin)
  BY <1>1, <1>3, <1>5
<1> QED
  BY <1>4, <1>6 DEF n, b

\* Taken is within what there is and what quiche has room for.
LEMMA TakenBound ==
    ASSUME NEW w \in Writers, w.total <= w.payload.length
    PROVE  /\ Taken(w) \in Nat /\ Taken(w) <= w.capacity
           /\ Taken(w) <= w.payload.length - w.total
           /\ ~w.sent.headers \/ w.sent.fin => Taken(w) = 0
BY WriterParts DEF Taken

\* Taking the next units of the response, and the end with the last, leaves the stream valid.
LEMMA TookValid ==
    ASSUME NEW w \in Writers, Valid(w), w.total <= w.payload.length
    PROVE  LET n == Taken(w)
               t == Took(w, Units(w.payload.of, w.total, n),
                         w.sent.headers /\ ~w.sent.fin /\ n = w.payload.length - w.total)
           IN /\ t \in Writers /\ Valid(t) /\ t.payload = w.payload /\ t.stream = w.stream
              /\ ~w.sent.headers => t.sent = w.sent
<1> DEFINE n == Taken(w)
           data == Units(w.payload.of, w.total, n)
           fin == w.sent.headers /\ ~w.sent.fin /\ n = w.payload.length - w.total
           t == Took(w, data, fin)
           b == w.sent.body
<1>1. /\ w.payload.of \in 0 .. MaxRequests /\ w.total \in Nat /\ w.payload.length \in Nat
      /\ b \in Seq(Datum) /\ w.sent.headers \in BOOLEAN /\ w.sent.fin \in BOOLEAN
      /\ w.capacity \in Nat /\ w.sent.length \in Nat
  BY WriterParts
<1>2. n \in Nat /\ n <= w.capacity /\ (~w.sent.headers \/ w.sent.fin => n = 0)
      /\ n <= w.payload.length - w.total
  BY TakenBound
<1>3. data \in Seq(Datum) /\ Len(data) = n /\ \A i \in 1 .. n : data[i] = <<w.payload.of, w.total + i>>
  BY <1>1, <1>2, UnitsParts
<1>4. fin \in BOOLEAN
  BY <1>1
<1> HIDE DEF n, data, fin
<1>5. /\ t \in Writers
      /\ t.payload = w.payload /\ t.stream = w.stream
      /\ t.capacity = w.capacity - n /\ t.total = w.total + n
      /\ t.sent.headers = w.sent.headers /\ t.sent.length = w.sent.length
      /\ t.sent.body = b \o data
      /\ t.sent.fin = (w.sent.fin \/ fin)
  BY <1>2, <1>3, <1>4, TookParts
<1>6. /\ Len(b \o data) = Len(b) + n /\ Len(b) \in Nat
      /\ \A i \in 1 .. Len(b) + n : (b \o data)[i] = IF i <= Len(b) THEN b[i] ELSE data[i - Len(b)]
  <2> DEFINE D == Datum
  <2>1. b \in Seq(D) /\ data \in Seq(D) /\ Len(data) = n
    BY <1>1, <1>3
  <2> HIDE DEF D, b
  <2> QED
    BY <2>1
<1> HIDE DEF t, b
<1>7. CASE ~w.sent.headers
  <2>1. b = <<>> /\ ~w.sent.fin /\ n = 0 /\ fin = FALSE
    BY <1>2, <1>4, <1>7 DEF Valid, StreamOK, fin, b
  <2>2. data = <<>>
    BY <1>3, <2>1, EmptySeq
  <2>3. b \o data = b
    <3> DEFINE D == Datum
    <3>1. b \in Seq(D)
      BY <1>1
    <3> HIDE DEF D
    <3> QED
      BY <2>2, <3>1
  <2>4. /\ t.sent.headers = w.sent.headers /\ t.sent.length = w.sent.length
        /\ t.sent.body = w.sent.body /\ t.sent.fin = w.sent.fin
    BY <1>1, <1>5, <2>1, <2>3 DEF b
  <2>5. t.sent = w.sent
    <3> DEFINE B == Seq(Datum)
    <3>1. t.sent \in [headers : BOOLEAN, length : Nat, body : B, fin : BOOLEAN]
      BY <1>5, WriterParts DEF Sent, Datum
    <3>2. w.sent \in [headers : BOOLEAN, length : Nat, body : B, fin : BOOLEAN]
      BY WriterParts DEF Sent, Datum
    <3> HIDE DEF B
    <3> QED
      BY <2>4, <3>1, <3>2
  <2>6. Valid(t)
    BY <1>7, <2>5 DEF Valid
  <2> QED
    BY <1>5, <1>7, <2>5, <2>6 DEF t, n, data, fin
<1>8. CASE w.sent.headers
  <2>1. /\ w.total = Len(b) /\ w.payload.length = w.sent.length
        /\ w.payload.of \in {0, w.stream} /\ InOrder(b, w.payload.of)
        /\ w.sent.fin <=> Len(b) = w.sent.length
    BY <1>8 DEF Valid, StreamOK, b
  <2>2. t.total = Len(t.sent.body)
    BY <1>5, <1>6, <2>1
  <2>3. t.sent.fin <=> Len(t.sent.body) = t.sent.length
    <3>1. fin <=> ~w.sent.fin /\ n = w.payload.length - w.total
      BY <1>8 DEF fin
    <3> DEFINE l == Len(b)
               L == w.sent.length
    <3>2. /\ Len(t.sent.body) = l + n /\ t.sent.length = L /\ l \in Nat /\ L \in Nat /\ n \in Nat
          /\ w.payload.length = L /\ w.total = l
      BY <1>1, <1>2, <1>5, <1>6, <2>1
    <3>3. fin <=> ~w.sent.fin /\ n = L - l
      BY <3>1, <3>2
    <3>4. w.sent.fin <=> l = L
      BY <2>1
    <3>5. w.sent.fin => n = 0
      BY <1>2
    <3>6. t.sent.fin <=> w.sent.fin \/ fin
      BY <1>5
    <3> HIDE DEF l, L, fin
    <3>7. t.sent.fin <=> l + n = L
      BY <3>2, <3>3, <3>4, <3>5, <3>6
    <3> QED
      BY <3>2, <3>7
  <2>4. InOrder(t.sent.body, t.payload.of)
    <3>1. \A i \in 1 .. Len(b) : b[i] = <<w.payload.of, i>>
      BY <2>1 DEF InOrder
    <3>2. ASSUME NEW i \in 1 .. Len(b) + n PROVE (b \o data)[i] = <<w.payload.of, i>>
      <4>1. CASE i <= Len(b)
        <5>1. i \in 1 .. Len(b)
          BY <1>2, <1>6, <4>1
        <5> QED
          BY <1>6, <3>1, <4>1, <5>1
      <4>2. CASE ~(i <= Len(b))
        <5>1. i - Len(b) \in 1 .. n /\ w.total + (i - Len(b)) = i
          BY <1>2, <1>6, <2>1, <4>2
        <5>2. data[i - Len(b)] = <<w.payload.of, w.total + (i - Len(b))>>
          BY <1>3, <5>1
        <5> QED
          BY <1>6, <4>2, <5>1, <5>2
      <4> QED
        BY <4>1, <4>2
    <3> QED
      BY <1>5, <1>6, <3>2 DEF InOrder
  <2>5. Valid(t)
    BY <1>5, <1>8, <2>1, <2>2, <2>3, <2>4 DEF Valid, StreamOK
  <2> QED
    BY <1>5, <1>8, <2>5 DEF t, n, data, fin
<1> QED
  BY <1>1, <1>7, <1>8

\* Runs of responses go on with the next units of the last one, or with a new one.
LEMMA RunsExtended ==
    ASSUME NEW b \in Seq(Datum), Runs(b), NEW of \in 0 .. MaxRequests, NEW m \in Nat,
           NEW n \in Nat, m > 0 => Len(b) > 0 /\ b[Len(b)] = <<of, m>>
    PROVE  LET x == b \o Units(of, m, n)
           IN /\ Runs(x)
              /\ m + n > 0 => Len(x) > 0 /\ x[Len(x)] = <<of, m + n>>
<1> DEFINE data == Units(of, m, n)
           x == b \o data
           l == Len(b)
<1>0. data \in Seq(Datum) /\ Len(data) = n /\ \A i \in 1 .. n : data[i] = <<of, m + i>>
  BY UnitsParts
<1> HIDE DEF data
<1>1. /\ Len(x) = l + n /\ l \in Nat
      /\ \A i \in 1 .. l + n : x[i] = IF i <= l THEN b[i] ELSE data[i - l]
  BY <1>0, ConcatProperties, LenProperties
<1> HIDE DEF x, l
<1>2. \A i \in 1 .. l : x[i] = b[i]
  BY <1>1
<1>3. \A i \in 1 .. n : x[l + i] = <<of, m + i>>
  <2> SUFFICES ASSUME NEW i \in 1 .. n PROVE x[l + i] = <<of, m + i>>
    OBVIOUS
  <2>1. l + i \in 1 .. l + n /\ ~(l + i <= l) /\ (l + i) - l = i
    BY <1>1
  <2>2. x[l + i] = data[(l + i) - l]
    BY <1>1, <2>1
  <2> QED
    BY <1>0, <2>1, <2>2
<1>4. m > 0 => l > 0 /\ x[l] = <<of, m>>
  <2>1. m > 0 => l > 0 /\ b[l] = <<of, m>>
    BY DEF l
  <2> QED
    BY <1>1, <1>2, <2>1
<1>5. ASSUME NEW i \in 1 .. l + n
      PROVE  x[i][2] = 1 \/ (i > 1 /\ x[i] = <<x[i - 1][1], x[i - 1][2] + 1>>)
  <2>1. CASE i <= l
    <3>1. i \in 1 .. l /\ (i > 1 => i - 1 \in 1 .. l)
      BY <1>1, <2>1
    <3>2. b[i][2] = 1 \/ (i > 1 /\ b[i] = <<b[i - 1][1], b[i - 1][2] + 1>>)
      BY <3>1 DEF Runs, l
    <3> QED
      BY <1>2, <3>1, <3>2
  <2>2. CASE i = l + 1
    <3>1. 1 \in 1 .. n
      BY <1>1, <2>2
    <3>2. x[i] = <<of, m + 1>>
      BY <1>3, <2>2, <3>1
    <3>3. CASE m = 0
      BY <3>2, <3>3
    <3>4. CASE m > 0
      <4>1. i > 1 /\ i - 1 = l
        BY <1>1, <1>4, <2>2, <3>4
      <4>2. x[i - 1] = <<of, m>>
        BY <1>4, <3>4, <4>1
      <4> QED
        BY <3>2, <4>1, <4>2
    <3> QED
      BY <3>3, <3>4
  <2>3. CASE i > l + 1
    <3>1. PICK k \in 1 .. n : i = l + k /\ k > 1
      <4>1. i - l \in 1 .. n /\ i = l + (i - l) /\ i - l > 1
        BY <1>1, <2>3
      <4> QED
        BY <4>1
    <3>2. k - 1 \in 1 .. n /\ i - 1 = l + (k - 1) /\ m + k = (m + (k - 1)) + 1
      BY <1>1, <3>1
    <3>3. x[i] = <<of, m + k>> /\ x[i - 1] = <<of, m + (k - 1)>>
      BY <1>3, <3>1, <3>2
    <3> QED
      BY <1>1, <2>3, <3>2, <3>3
  <2> QED
    BY <1>1, <2>1, <2>2, <2>3
<1>6. Runs(x)
  <2>1. \A i \in 1 .. Len(x) :
            x[i][2] = 1 \/ (i > 1 /\ x[i] = <<x[i - 1][1], x[i - 1][2] + 1>>)
    BY <1>1, <1>5
  <2> QED
    BY <2>1, Zenon DEF Runs
<1>7. ASSUME m + n > 0 PROVE Len(x) > 0 /\ x[Len(x)] = <<of, m + n>>
  <2>1. CASE n = 0
    BY <1>1, <1>4, <1>7, <2>1
  <2>2. CASE n > 0
    <3>1. n \in 1 .. n
      BY <2>2
    <3>2. x[l + n] = <<of, m + n>>
      BY <1>3, <3>1
    <3> QED
      BY <1>1, <2>2, <3>2
  <2> QED
    BY <2>1, <2>2
<1> QED
  BY <1>6, <1>7 DEF x, data

\* Taking the next units of the response keeps what holds of every stream.
LEMMA TookLoose ==
    ASSUME NEW w \in Writers, Loose(w), w.total <= w.payload.length
    PROVE  LET n == Taken(w)
               t == Took(w, Units(w.payload.of, w.total, n),
                         w.sent.headers /\ ~w.sent.fin /\ n = w.payload.length - w.total)
           IN /\ t \in Writers /\ Loose(t) /\ t.payload = w.payload /\ t.stream = w.stream
<1> DEFINE n == Taken(w)
           data == Units(w.payload.of, w.total, n)
           fin == w.sent.headers /\ ~w.sent.fin /\ n = w.payload.length - w.total
           t == Took(w, data, fin)
           b == w.sent.body
<1>1. /\ w.payload.of \in 0 .. MaxRequests /\ w.total \in Nat /\ w.payload.length \in Nat
      /\ b \in Seq(Datum) /\ w.sent.headers \in BOOLEAN /\ w.sent.fin \in BOOLEAN
      /\ w.capacity \in Nat
  BY WriterParts
<1>2. n \in Nat /\ n <= w.capacity /\ (~w.sent.headers => n = 0)
  BY TakenBound
<1>3. data \in Seq(Datum) /\ Len(data) = n /\ \A i \in 1 .. n : data[i] = <<w.payload.of, w.total + i>>
  BY <1>1, <1>2, UnitsParts
<1>4. fin \in BOOLEAN
  BY <1>1
<1> HIDE DEF n, data, fin
<1>5. /\ t \in Writers
      /\ t.payload = w.payload /\ t.stream = w.stream /\ t.total = w.total + n
      /\ t.sent.headers = w.sent.headers /\ t.sent.body = b \o data
  BY <1>2, <1>3, <1>4, TookParts
<1> HIDE DEF t, b
<1>6. CASE ~w.sent.headers
  <2>1. b = <<>> /\ n = 0
    BY <1>2, <1>6 DEF Loose, b
  <2>2. data = <<>>
    BY <1>3, <2>1, EmptySeq
  <2>3. t.sent.body = <<>>
    BY <1>5, <2>1, <2>2
  <2>4. Runs(t.sent.body)
    BY <2>3 DEF Runs
  <2>5. Loose(t)
    BY <1>5, <1>6, <2>3, <2>4 DEF Loose
  <2> QED
    BY <1>5, <2>5 DEF t, n, data, fin
<1>7. CASE w.sent.headers
  <2>1. Runs(b) /\ (w.total > 0 => Len(b) > 0 /\ b[Len(b)] = <<w.payload.of, w.total>>)
    BY <1>7 DEF Loose, b
  <2>2. /\ Runs(b \o data)
        /\ w.total + n > 0 => /\ Len(b \o data) > 0
                              /\ (b \o data)[Len(b \o data)] = <<w.payload.of, w.total + n>>
    BY <1>1, <1>2, <2>1, RunsExtended DEF data
  <2>3. Loose(t)
    BY <1>5, <1>7, <2>2 DEF Loose
  <2> QED
    BY <1>5, <2>3 DEF t, n, data, fin
<1> QED
  BY <1>1, <1>6, <1>7

\* A stream that carries the beginning of one response carries a run of it.
LEMMA ValidLoose ==
    ASSUME NEW w \in Writers, Valid(w)
    PROVE  Loose(w)
<1> DEFINE b == w.sent.body
<1>1. b \in Seq(Datum) /\ w.sent.headers \in BOOLEAN
  BY WriterParts
<1>2. Len(b) \in Nat
  BY <1>1, LenProperties
<1>3. CASE ~w.sent.headers
  BY <1>3 DEF Valid, StreamOK, Loose, Runs
<1>4. CASE w.sent.headers
  <2>1. w.total = Len(b) /\ \A i \in 1 .. Len(b) : b[i] = <<w.payload.of, i>>
    BY <1>4 DEF Valid, InOrder
  <2> HIDE DEF b
  <2>2. ASSUME NEW i \in 1 .. Len(b)
        PROVE  b[i][2] = 1 \/ (i > 1 /\ b[i] = <<b[i - 1][1], b[i - 1][2] + 1>>)
    <3>1. CASE i = 1
      BY <2>1, <3>1
    <3>2. CASE i > 1
      <4>1. i - 1 \in 1 .. Len(b) /\ (i - 1) + 1 = i
        BY <1>2, <3>2
      <4>2. b[i] = <<w.payload.of, i>> /\ b[i - 1] = <<w.payload.of, i - 1>>
        BY <2>1, <4>1
      <4> QED
        BY <3>2, <4>1, <4>2
    <3> QED
      BY <3>1, <3>2
  <2>3. w.total > 0 => Len(b) > 0 /\ b[Len(b)] = <<w.payload.of, w.total>>
    BY <1>2, <2>1
  <2>4. Runs(b)
    BY <2>2, Zenon DEF Runs
  <2> QED
    BY <1>4, <2>3, <2>4 DEF Loose, b
<1> QED
  BY <1>1, <1>3, <1>4

\* recv_cb's part of a writer.
LEMMA PendingValid ==
    ASSUME NEW w \in Writers, Valid(w)
    PROVE  /\ pending(w) \in Writers /\ Valid(pending(w))
           /\ pending(w).payload = w.payload /\ pending(w).stream = w.stream
           /\ ~w.sent.headers => pending(w).sent = w.sent
<1>1. CASE w.total < w.payload.length
  <2>1. pending(w) = Took(w, Units(w.payload.of, w.total, Taken(w)),
               w.sent.headers /\ ~w.sent.fin /\ Taken(w) = w.payload.length - w.total)
    BY <1>1, WriterParts, ChunksInOrder DEF pending
  <2>2. w.total <= w.payload.length
    BY <1>1, WriterParts
  <2> DEFINE t == Took(w, Units(w.payload.of, w.total, Taken(w)),
               w.sent.headers /\ ~w.sent.fin /\ Taken(w) = w.payload.length - w.total)
  <2>3. /\ t \in Writers /\ Valid(t) /\ t.payload = w.payload /\ t.stream = w.stream
        /\ ~w.sent.headers => t.sent = w.sent
    BY <2>2, TookValid
  <2> HIDE DEF t
  <2>4. pending(w) = t
    BY <2>1 DEF t
  <2> HIDE DEF pending
  <2> QED
    BY <2>3, <2>4
<1>2. CASE ~(w.total < w.payload.length)
  BY <1>2 DEF pending
<1> QED
  BY <1>1, <1>2

LEMMA PendingLoose ==
    ASSUME NEW w \in Writers, Loose(w)
    PROVE  /\ pending(w) \in Writers /\ Loose(pending(w))
           /\ pending(w).payload = w.payload /\ pending(w).stream = w.stream
<1>1. CASE w.total < w.payload.length
  <2> DEFINE t == Took(w, Units(w.payload.of, w.total, Taken(w)),
               w.sent.headers /\ ~w.sent.fin /\ Taken(w) = w.payload.length - w.total)
  <2>1. w.total <= w.payload.length
    BY <1>1, WriterParts
  <2>2. t \in Writers /\ Loose(t) /\ t.payload = w.payload /\ t.stream = w.stream
    BY <2>1, TookLoose
  <2>3. pending(w) = t
    BY <1>1, WriterParts, ChunksInOrder DEF pending
  <2> HIDE DEF t, pending
  <2> QED
    BY <2>2, <2>3
<1>2. CASE ~(w.total < w.payload.length)
  BY <1>2 DEF pending
<1> QED
  BY <1>1, <1>2

\* What send_response gives quiche.
PayloadSent(payload) == IF payload.length = 0 THEN EmptyJson ELSE payload

Headed(w, payload) == send_headers([w EXCEPT !.payload = PayloadSent(payload)])

Responded(w, payload) ==
    LET h == Headed(w, payload)
        p == PayloadSent(payload)
        n == quiche_h3_send_body(h, h.capacity, p.length)
    IN IF p.length < SEND_CHUNK_SIZE
       THEN Took(h, [i \in 1 .. n |-> <<p.of, i>>], n = p.length)
       ELSE send_in_chunks(h)

LEMMA SendResponse ==
    ASSUME NEW c, NEW w, NEW payload
    PROVE  send_response(c, w, payload) <=> Written(c, Responded(w, payload))
<1> HIDE DEF Written, send_in_chunks, Took, quiche_h3_send_body, send_headers
<1> QED
  BY DEF send_response, Responded, Headed, PayloadSent

\* The headers of a response.
LEMMA HeadedParts ==
    ASSUME NEW w \in Writers, NEW payload \in Payload
    PROVE  LET h == Headed(w, payload)
               p == PayloadSent(payload)
           IN /\ p \in Payload /\ p.length \in Nat \ {0} /\ p.of \in {0, payload.of}
              /\ h \in Writers /\ h.payload = p /\ h.stream = w.stream /\ h.total = 0
              /\ h.sent.body = w.sent.body /\ h.sent.fin = w.sent.fin
              /\ w.sent.headers => h.sent.headers
              /\ ~w.sent.headers => h.sent.length = p.length
<1> DEFINE p == PayloadSent(payload)
           B == Seq(Datum)
           P == Payload
           up == w.sent.headers \/ w.capacity > 0
           l == IF w.sent.headers THEN w.sent.length ELSE p.length
<1>1. p \in Payload /\ p.length \in Nat \ {0} /\ p.of \in {0, payload.of}
  <2>1. payload.length \in Nat /\ payload.of \in 0 .. MaxRequests
    BY DEF Payload
  <2>2. EmptyJson \in Payload /\ EmptyJson.length = 1 /\ EmptyJson.of = 0
    BY H3Assumption DEF EmptyJson, Payload
  <2> QED
    BY <2>1, <2>2 DEF PayloadSent
<1>2. w \in [payload : P, total : Nat, capacity : Nat, stream : 0 .. MaxRequests,
             sent : [headers : BOOLEAN, length : Nat, body : B, fin : BOOLEAN]]
      /\ Writers = [payload : P, total : Nat, capacity : Nat, stream : 0 .. MaxRequests,
             sent : [headers : BOOLEAN, length : Nat, body : B, fin : BOOLEAN]]
  BY DEF Writers, Sent, Datum
<1>3. p \in P /\ p.length \in Nat
  BY <1>1
<1> HIDE DEF B, P, p
<1>4. l \in Nat /\ up \in BOOLEAN /\ w.sent.headers \in BOOLEAN
  BY <1>2, <1>3
<1> DEFINE h == [w EXCEPT !.payload = p, !.sent.headers = up, !.sent.length = l, !.total = 0]
<1>5. Headed(w, payload) = h
  <2> DEFINE v == [w EXCEPT !.payload = p]
  <2>1. v.capacity = w.capacity /\ v.sent = w.sent /\ v.payload = p
    BY <1>2
  <2>2. Headed(w, payload) = send_headers(v)
    BY DEF Headed, p
  <2>3. send_headers(v) = [v EXCEPT !.sent.headers = up, !.sent.length = l, !.total = 0]
    BY <2>1 DEF send_headers
  <2> HIDE DEF up, l
  <2>4. [v EXCEPT !.sent.headers = up, !.sent.length = l, !.total = 0] = h
    BY <1>2, <1>3
  <2> QED
    BY <2>2, <2>3, <2>4
<1>6. (w.sent.headers => up) /\ (~w.sent.headers => l = p.length)
  OBVIOUS
<1> HIDE DEF up, l
<1>7. /\ h \in Writers /\ h.payload = p /\ h.stream = w.stream /\ h.total = 0
      /\ h.sent.length = l /\ h.sent.body = w.sent.body /\ h.sent.fin = w.sent.fin
      /\ h.sent.headers = up
  BY <1>2, <1>3, <1>4
<1> HIDE DEF h
<1> QED
  BY <1>1, <1>5, <1>6, <1>7 DEF p

\* What quiche takes of a response it is given whole or in chunks is the beginning of it.
LEMMA RespondedTook ==
    ASSUME NEW w \in Writers, NEW payload \in Payload
    PROVE  LET h == Headed(w, payload)
               m == Taken(h)
           IN Responded(w, payload) =
                Took(h, Units(h.payload.of, h.total, m),
                     h.sent.headers /\ ~h.sent.fin /\ m = h.payload.length - h.total)
<1> DEFINE h == Headed(w, payload)
           p == PayloadSent(payload)
           n == quiche_h3_send_body(h, h.capacity, p.length)
           m == Taken(h)
           live == h.sent.headers /\ ~h.sent.fin
           t == Took(h, Units(h.payload.of, h.total, m), live /\ m = h.payload.length - h.total)
<1>1. /\ p \in Payload /\ p.length \in Nat \ {0}
      /\ h \in Writers /\ h.payload = p /\ h.total = 0
  BY HeadedParts
<1> HIDE DEF h, p
<1>2. /\ h.capacity \in Nat /\ h.sent.headers \in BOOLEAN /\ h.sent.fin \in BOOLEAN
  BY <1>1, WriterParts
<1>4. CASE p.length < SEND_CHUNK_SIZE
  <2>1. n = m /\ m \in Nat
    BY <1>1, <1>2 DEF quiche_h3_send_body, Taken
  <2>2. [i \in 1 .. n |-> <<p.of, i>>] = Units(h.payload.of, h.total, m)
    <3>1. \A i \in 1 .. m : 0 + i = i
      BY <2>1
    <3> QED
      BY <1>1, <2>1, <3>1 DEF Units
  <2>3. (n = p.length) = (live /\ m = h.payload.length - h.total)
    <3>1. (n = p.length) <=> (live /\ m = h.payload.length - h.total)
      BY <1>1, <1>2, <2>1 DEF Taken
    <3>2. (n = p.length) \in BOOLEAN /\ (live /\ m = h.payload.length - h.total) \in BOOLEAN
      OBVIOUS
    <3> QED
      BY <3>1, <3>2
  <2>4. Responded(w, payload) = Took(h, [i \in 1 .. n |-> <<p.of, i>>], n = p.length)
    BY <1>4 DEF Responded, h, p
  <2> HIDE DEF n, m, live
  <2>5. Responded(w, payload) = t
    BY <2>2, <2>3, <2>4
  <2> QED
    BY <2>5 DEF t, m, live, h
<1>5. CASE ~(p.length < SEND_CHUNK_SIZE)
  <2>1. Responded(w, payload) = send_in_chunks(h)
    BY <1>5 DEF Responded, h, p
  <2>2. /\ h.payload.length \in Nat /\ h.total \in Nat /\ h.total < h.payload.length
    BY <1>1
  <2>3. send_in_chunks(h) = t
    BY <1>2, <2>2, ChunksInOrder
  <2> HIDE DEF n, m, live
  <2> QED
    BY <2>1, <2>3 DEF t, m, live, h
<1> QED
  BY <1>4, <1>5

\* A response sent on a fresh stream leaves the stream valid, whatever quiche took.
LEMMA SendValid ==
    ASSUME NEW w \in Writers, w.sent = NothingSent,
           NEW payload \in Payload, payload.of \in {0, w.stream}
    PROVE  LET t == Responded(w, payload)
           IN /\ t \in Writers /\ Valid(t) /\ t.stream = w.stream
              /\ t.payload.of \in {0, payload.of}
<1> DEFINE h == Headed(w, payload)
           p == PayloadSent(payload)
           t == Responded(w, payload)
<1>1. /\ w.sent.headers = FALSE /\ w.sent.fin = FALSE /\ w.sent.body = <<>>
  BY DEF NothingSent
<1>2. /\ p \in Payload /\ p.length \in Nat \ {0} /\ p.of \in {0, payload.of}
      /\ h \in Writers /\ h.payload = p /\ h.stream = w.stream /\ h.total = 0
      /\ h.sent.body = <<>> /\ h.sent.fin = FALSE /\ h.sent.length = p.length
  BY <1>1, HeadedParts
<1>3. t = Took(h, Units(h.payload.of, h.total, Taken(h)),
               h.sent.headers /\ ~h.sent.fin /\ Taken(h) = h.payload.length - h.total)
  BY RespondedTook
<1> HIDE DEF h, p, t
<1>4. Len(h.sent.body) = 0
  BY <1>2
<1>5. StreamOK(h.sent)
  BY <1>2, <1>4 DEF StreamOK
<1>6. InOrder(h.sent.body, h.payload.of)
  BY <1>4 DEF InOrder
<1>7. h.payload.of \in {0, h.stream}
  BY <1>2
<1>8. Valid(h)
  BY <1>2, <1>4, <1>5, <1>6, <1>7 DEF Valid
<1>9. h.total <= h.payload.length
  BY <1>2
<1>10. t \in Writers /\ Valid(t) /\ t.payload = h.payload /\ t.stream = h.stream
  BY <1>2, <1>3, <1>8, <1>9, TookValid
<1> QED
  BY <1>2, <1>10 DEF t

\* A response sent on any stream is a run of its own.
LEMMA SendLoose ==
    ASSUME NEW w \in Writers, Loose(w), NEW payload \in Payload
    PROVE  LET t == Responded(w, payload)
           IN /\ t \in Writers /\ Loose(t) /\ t.stream = w.stream
              /\ t.payload.of \in {0, payload.of}
<1> DEFINE h == Headed(w, payload)
           p == PayloadSent(payload)
           t == Responded(w, payload)
<1>1. /\ p \in Payload /\ p.length \in Nat \ {0} /\ p.of \in {0, payload.of}
      /\ h \in Writers /\ h.payload = p /\ h.stream = w.stream /\ h.total = 0
      /\ h.sent.body = w.sent.body /\ (w.sent.headers => h.sent.headers)
  BY HeadedParts
<1>2. t = Took(h, Units(h.payload.of, h.total, Taken(h)),
               h.sent.headers /\ ~h.sent.fin /\ Taken(h) = h.payload.length - h.total)
  BY RespondedTook
<1> HIDE DEF h, p, t
<1>3. Loose(h)
  BY <1>1 DEF Loose
<1>4. h.total <= h.payload.length
  BY <1>1
<1>5. t \in Writers /\ Loose(t) /\ t.payload = h.payload /\ t.stream = h.stream
  BY <1>1, <1>2, <1>3, <1>4, TookLoose
<1> QED
  BY <1>1, <1>5 DEF t

-----------------------------------------------------------------------------
(* What a step that writes does to the connection                          *)

\* The writer of a connection.
LEMMA WriterOfConnection ==
    ASSUME BodyInv, NEW c \in Conns
    PROVE  /\ Writer(c) \in Writers /\ Loose(Writer(c))
           /\ overlapped[c] = 0 => Valid(Writer(c))
           /\ Writer(c).payload = http_response[c] /\ Writer(c).total = total_sent_bytes[c]
           /\ Writer(c).capacity = capacity[c] /\ Writer(c).stream = stream_id[c]
           /\ stream_id[c] # 0 => stream_id[c] \in Streams /\ Writer(c).sent = out[c][stream_id[c]]
           /\ stream_id[c] = 0 => Writer(c).sent = NothingSent
<1> DEFINE o == IF stream_id[c] = 0 THEN NothingSent ELSE out[c][stream_id[c]]
           S == Sent
           P == Payload
<1>1. /\ capacity[c] \in Nat /\ http_response[c] \in P /\ total_sent_bytes[c] \in Nat
      /\ stream_id[c] \in 0 .. MaxRequests
  BY DEF BodyInv, TypeOK
<1>2. stream_id[c] # 0 => stream_id[c] \in Streams
  BY <1>1 DEF Streams
<1>3. NothingSent \in S
  <2> DEFINE B == Seq((0 .. MaxRequests) \X Nat)
  <2>1. <<>> \in B
    OBVIOUS
  <2>2. S = [headers : BOOLEAN, length : Nat, body : B, fin : BOOLEAN]
    BY DEF Sent
  <2> HIDE DEF B, S
  <2> QED
    BY <2>1, <2>2 DEF NothingSent
<1>4. o \in S
  <2>1. out \in [Conns -> [Streams -> S]]
    BY DEF BodyInv, TypeOK
  <2> HIDE DEF S
  <2> QED
    BY <1>2, <1>3, <2>1
<1>5. Writer(c) = [payload |-> http_response[c], total |-> total_sent_bytes[c],
                   capacity |-> capacity[c], stream |-> stream_id[c], sent |-> o]
  BY DEF Writer
<1>6. Writer(c) \in Writers
  <2>1. Writers = [payload : P, total : Nat, capacity : Nat, stream : 0 .. MaxRequests, sent : S]
    BY DEF Writers
  <2> HIDE DEF P, S, o
  <2> QED
    BY <1>1, <1>4, <1>5, <2>1
<1>7. /\ Writer(c).payload = http_response[c] /\ Writer(c).total = total_sent_bytes[c]
      /\ Writer(c).capacity = capacity[c] /\ Writer(c).stream = stream_id[c]
      /\ Writer(c).sent = o
  <2> HIDE DEF o
  <2> QED
    BY <1>5
<1>8. ASSUME overlapped[c] = 0 PROVE Valid(Writer(c))
  <2>1. CASE stream_id[c] = 0
    BY <1>7, <2>1 DEF Valid, StreamOK, NothingSent
  <2>2. CASE stream_id[c] # 0
    <3>1. o = out[c][stream_id[c]] /\ StreamOK(o)
      BY <1>2, <1>8, <2>2 DEF BodyInv, StreamsOK, Mixed
    <3>2. o.headers => /\ total_sent_bytes[c] = Len(o.body)
                       /\ http_response[c].length = o.length
                       /\ http_response[c].of \in {0, stream_id[c]}
                       /\ InOrder(o.body, http_response[c].of)
      BY <1>8, <2>2, <3>1 DEF BodyInv, Progress
    <3> HIDE DEF o
    <3> QED
      BY <1>7, <3>1, <3>2 DEF Valid
  <2> QED
    BY <2>1, <2>2
<1>9. Loose(Writer(c))
  <2>1. CASE stream_id[c] = 0
    BY <1>7, <2>1 DEF Loose, Runs, NothingSent
  <2>2. CASE stream_id[c] # 0
    <3>1. o = out[c][stream_id[c]] /\ Runs(o.body) /\ (~o.headers => o.body = <<>>)
      BY <1>2, <2>2 DEF BodyInv, StreamsOK
    <3>2. o.headers /\ total_sent_bytes[c] > 0 =>
              /\ Len(o.body) > 0
              /\ o.body[Len(o.body)] = <<http_response[c].of, total_sent_bytes[c]>>
      BY <2>2, <3>1 DEF BodyInv, Progress
    <3> HIDE DEF o
    <3> QED
      BY <1>7, <3>1, <3>2 DEF Loose
  <2> QED
    BY <2>1, <2>2
<1> QED
  BY <1>2, <1>6, <1>7, <1>8, <1>9

\* A stream of which nothing was sent.
LEMMA Nothing ==
    /\ NothingSent \in Sent /\ StreamOK(NothingSent) /\ \A of : InOrder(NothingSent.body, of)
    /\ NothingSent.headers = FALSE /\ NothingSent.fin = FALSE /\ NoPayload \in Payload
    /\ Runs(NothingSent.body) /\ NothingSent.body = <<>>
<1> DEFINE B == Seq((0 .. MaxRequests) \X Nat)
<1>1. <<>> \in B
  OBVIOUS
<1>2. NothingSent \in Sent
  <2>1. Sent = [headers : BOOLEAN, length : Nat, body : B, fin : BOOLEAN]
    BY DEF Sent
  <2> HIDE DEF B
  <2> QED
    BY <1>1, <2>1 DEF NothingSent
<1>3. /\ NothingSent.headers = FALSE /\ NothingSent.fin = FALSE /\ NothingSent.body = <<>>
  BY DEF NothingSent
<1>4. NoPayload \in Payload
  BY H3Assumption DEF NoPayload, Payload
<1> QED
  BY <1>2, <1>3, <1>4 DEF StreamOK, InOrder, Runs

\* What Written changes: the connection's own values and, of its streams, the writer's.
LEMMA WrittenParts ==
    ASSUME TypeOK, NEW c \in Conns, NEW w,
           w.payload \in Payload, w.total \in Nat, w.capacity \in Nat,
           w.stream \in 0 .. MaxRequests, w.stream # 0 => w.sent \in Sent,
           Written(c, w)
    PROVE  /\ http_response' \in [Conns -> Payload] /\ total_sent_bytes' \in [Conns -> Nat]
           /\ capacity' \in [Conns -> Nat] /\ stream_id' \in [Conns -> 0 .. MaxRequests]
           /\ out' \in [Conns -> [Streams -> Sent]]
           /\ http_response'[c] = w.payload /\ total_sent_bytes'[c] = w.total
           /\ capacity'[c] = w.capacity /\ stream_id'[c] = w.stream
           /\ w.stream = 0 => \A s \in Streams : out'[c][s] = NothingSent
           /\ w.stream # 0 => /\ w.stream \in Streams /\ out'[c][w.stream] = w.sent
                              /\ \A s \in Streams : s # w.stream => out'[c][s] = out[c][s]
           /\ \A d \in Conns : d # c =>
                 /\ http_response'[d] = http_response[d]
                 /\ total_sent_bytes'[d] = total_sent_bytes[d]
                 /\ capacity'[d] = capacity[d] /\ stream_id'[d] = stream_id[d]
                 /\ out'[d] = out[d]
<1> DEFINE P == Payload
           S == Sent
           N == 0 .. MaxRequests
           o == IF w.stream = 0 THEN [s \in Streams |-> NothingSent]
                ELSE [out[c] EXCEPT ![w.stream] = w.sent]
<1>1. /\ capacity \in [Conns -> Nat] /\ http_response \in [Conns -> P]
      /\ total_sent_bytes \in [Conns -> Nat] /\ stream_id \in [Conns -> N]
      /\ out \in [Conns -> [Streams -> S]]
  BY DEF TypeOK
<1>2. /\ http_response' = [http_response EXCEPT ![c] = w.payload]
      /\ total_sent_bytes' = [total_sent_bytes EXCEPT ![c] = w.total]
      /\ capacity' = [capacity EXCEPT ![c] = w.capacity]
      /\ stream_id' = [stream_id EXCEPT ![c] = w.stream]
      /\ out' = [out EXCEPT ![c] = o]
  BY DEF Written
<1>3. w.stream # 0 => w.stream \in Streams
  BY DEF Streams
<1>4. NothingSent \in S
  BY Nothing
<1>5. w.payload \in P /\ w.stream \in N /\ (w.stream # 0 => w.sent \in S)
  OBVIOUS
<1> HIDE DEF P, S, N
<1>6. /\ o \in [Streams -> S]
      /\ w.stream = 0 => \A s \in Streams : o[s] = NothingSent
      /\ w.stream # 0 => /\ o[w.stream] = w.sent
                         /\ \A s \in Streams : s # w.stream => o[s] = out[c][s]
  BY <1>1, <1>3, <1>4, <1>5
<1> HIDE DEF o
<1>7. /\ http_response' \in [Conns -> P] /\ total_sent_bytes' \in [Conns -> Nat]
      /\ capacity' \in [Conns -> Nat] /\ stream_id' \in [Conns -> N]
      /\ out' \in [Conns -> [Streams -> S]]
  BY <1>1, <1>2, <1>5, <1>6
<1>8. /\ http_response'[c] = w.payload /\ total_sent_bytes'[c] = w.total
      /\ capacity'[c] = w.capacity /\ stream_id'[c] = w.stream /\ out'[c] = o
      /\ \A d \in Conns : d # c =>
            /\ http_response'[d] = http_response[d]
            /\ total_sent_bytes'[d] = total_sent_bytes[d]
            /\ capacity'[d] = capacity[d] /\ stream_id'[d] = stream_id[d]
            /\ out'[d] = out[d]
  BY <1>1, <1>2
<1> QED
  BY <1>3, <1>6, <1>7, <1>8 DEF P, S, N

\* Writing with a valid writer keeps every stream in order; with any writer, in runs.  A
\* connection's first overlap only takes streams from its last on away from what is known.
LEMMA WrittenKeeps ==
    ASSUME BodyInv, NEW c \in Conns, NEW w,
           w.payload \in Payload, w.total \in Nat, w.capacity \in Nat,
           w.stream \in 0 .. MaxRequests,
           w.stream # 0 => /\ w.sent \in Sent /\ Loose(w)
                           /\ overlapped'[c] = 0 => Valid(w)
                           /\ overlapped'[c] # 0 => overlapped'[c] <= w.stream,
           overlapped[c] # 0 => overlapped'[c] = overlapped[c],
           \A d \in Conns : d # c => overlapped'[d] = overlapped[d],
           Written(c, w)
    PROVE  StreamsOK' /\ Progress'
<1>1. TypeOK
  BY DEF BodyInv
<1>2. /\ http_response'[c] = w.payload /\ total_sent_bytes'[c] = w.total
      /\ stream_id'[c] = w.stream
      /\ w.stream = 0 => \A s \in Streams : out'[c][s] = NothingSent
      /\ w.stream # 0 => /\ w.stream \in Streams /\ out'[c][w.stream] = w.sent
                         /\ \A s \in Streams : s # w.stream => out'[c][s] = out[c][s]
      /\ \A d \in Conns : d # c =>
            /\ http_response'[d] = http_response[d]
            /\ total_sent_bytes'[d] = total_sent_bytes[d]
            /\ stream_id'[d] = stream_id[d] /\ out'[d] = out[d]
  BY <1>1, WrittenParts
<1> DEFINE Good(d, s, o) ==
               /\ Runs(o.body) /\ (~o.headers => o.body = <<>>)
               /\ ~(overlapped'[d] # 0 /\ s >= overlapped'[d])
                     => StreamOK(o) /\ \E of \in {0, s} : InOrder(o.body, of)
<1>3. \A d \in Conns : \A s \in Streams : Good(d, s, out[d][s])
  BY DEF BodyInv, StreamsOK, Mixed
<1>4. ASSUME w.stream # 0 PROVE Good(c, w.stream, w.sent)
  <2>1. Runs(w.sent.body) /\ (~w.sent.headers => w.sent.body = <<>>)
    BY <1>4 DEF Loose
  <2>2. ASSUME overlapped'[c] = 0
        PROVE  StreamOK(w.sent) /\ \E of \in {0, w.stream} : InOrder(w.sent.body, of)
    <3>1. CASE w.sent.headers
      BY <1>4, <2>2, <3>1 DEF Valid
    <3>2. CASE ~w.sent.headers
      BY <1>4, <2>2, <3>2 DEF Valid, StreamOK, InOrder
    <3> QED
      BY <3>1, <3>2
  <2> QED
    BY <1>4, <2>1, <2>2
<1>5. ASSUME NEW d \in Conns, NEW s \in Streams PROVE Good(d, s, out'[d][s])
  <2> HIDE DEF Good
  <2>1. CASE d # c
    BY <1>2, <1>3, <2>1
  <2>2. CASE d = c /\ w.stream = 0
    <3>1. \A of : InOrder(NothingSent.body, of)
      BY Nothing
    <3> QED
      BY <1>2, <2>2, <3>1, Nothing DEF Good
  <2>3. CASE d = c /\ w.stream # 0 /\ s # w.stream
    BY <1>2, <1>3, <2>3
  <2>4. CASE d = c /\ w.stream # 0 /\ s = w.stream
    BY <1>2, <1>4, <2>4
  <2> QED
    BY <2>1, <2>2, <2>3, <2>4
<1>6. StreamsOK'
  BY <1>5 DEF StreamsOK, StreamOK, InOrder, Runs, Mixed
<1>7. ASSUME NEW d \in Conns, stream_id'[d] # 0
      PROVE  LET o == out'[d][stream_id'[d]]
             IN o.headers =>
                  /\ total_sent_bytes'[d] > 0 =>
                       /\ Len(o.body) > 0
                       /\ o.body[Len(o.body)] = <<http_response'[d].of, total_sent_bytes'[d]>>
                  /\ overlapped'[d] = 0 =>
                       /\ total_sent_bytes'[d] = Len(o.body)
                       /\ http_response'[d].length = o.length
                       /\ http_response'[d].of \in {0, stream_id'[d]}
                       /\ InOrder(o.body, http_response'[d].of)
  <2>1. CASE d # c
    BY <1>2, <1>7, <2>1 DEF BodyInv, Progress
  <2>2. CASE d = c
    BY <1>2, <1>7, <2>2 DEF Valid, Loose
  <2> QED
    BY <2>1, <2>2
<1>8. Progress'
  BY <1>7 DEF Progress, InOrder
<1> QED
  BY <1>6, <1>8

\* Answers that were due stay due when neither the plugin nor the queue moves, no connection
\* opens for them and no connection is written to that has one.
LEMMA AnswersKept ==
    ASSUME BodyInv, asked' = asked, response_queue' = response_queue,
           \A d \in Conns : Alone(d)' /\ conn[d] # "none" => Alone(d),
           \A d \in Conns : \A s \in Streams : DueOK(d, s) => DueOK(d, s)'
    PROVE  AnsweredOnce'
<1>1. /\ \A a \in asked : a.conn \in Conns /\ a.stream \in Streams
      /\ \A i \in 1 .. Len(response_queue) :
            response_queue[i].conn \in Conns /\ response_queue[i].stream \in Streams
  <2>1. asked \subseteq Asked /\ response_queue \in Seq(Queued)
    BY DEF BodyInv, TypeOK, Asked, Queued
  <2>2. \A a \in Asked : a.conn \in Conns /\ a.stream \in Streams
    BY DEF Asked
  <2>3. \A r \in Queued : r.conn \in Conns /\ r.stream \in Streams
    BY DEF Queued
  <2> DEFINE Q == Queued
  <2>4. response_queue \in Seq(Q)
    BY <2>1
  <2> HIDE DEF Q
  <2>5. \A i \in 1 .. Len(response_queue) : response_queue[i] \in Q
    BY <2>4
  <2> QED
    BY <2>1, <2>2, <2>3, <2>5 DEF Q
<1>2. AnsweredOnce
  BY DEF BodyInv
<1>3. /\ \A a \in asked : DueOK(a.conn, a.stream)'
      /\ \A i \in 1 .. Len(response_queue) :
            DueOK(response_queue[i].conn, response_queue[i].stream)
  BY <1>1, <1>2 DEF AnsweredOnce
<1>4. \A i \in 1 .. Len(response_queue) :
            LET r == response_queue[i]
            IN DueOK(r.conn, r.stream) /\ r.conn \in Conns /\ r.stream \in Streams
  BY <1>1, <1>3
<1>5. \A a \in asked : a.conn \in Conns /\ DueOK(a.conn, a.stream)
  BY <1>1, <1>2 DEF AnsweredOnce
<1>6. \A d \in Conns, s \in Streams : DueOK(d, s) /\ Alone(d)' => Alone(d)
  BY DEF DueOK
<1>7. ASSUME NEW i \in 1 .. Len(response_queue')
      PROVE  DueOK(response_queue[i].conn, response_queue[i].stream)'
  <2>1. i \in 1 .. Len(response_queue)
    BY <1>7
  <2> DEFINE r == response_queue[i]
  <2>2. PICK d \in Conns, s \in Streams : d = r.conn /\ s = r.stream
    BY <1>4, <2>1
  <2>3. DueOK(d, s)
    BY <1>4, <2>1, <2>2
  <2>4. DueOK(d, s)'
    BY <2>3
  <2>5. r' = r
    OBVIOUS
  <2>6. d = r'.conn /\ s = r'.stream
    BY <2>2, <2>5
  <2> QED
    BY <2>4, <2>6 DEF DueOK, Alone
<1>8. \A a \in asked' : DueOK(a.conn, a.stream)'
  BY <1>3 DEF DueOK, Alone
<1> DEFINE Free(d) == conn'[d] = "open" /\ overlapped'[d] = 0
<1>12. \A d \in Conns, s \in Streams : DueOK(d, s) /\ Free(d) => Alone(d)
  BY <1>6 DEF Alone
<1> HIDE DEF Free
<1>9. \A a, b \in asked' : Free(a.conn) /\ a.conn = b.conn => a = b
  BY <1>1, <1>2, <1>5, <1>12 DEF AnsweredOnce
<1>10. \A i, j \in 1 .. Len(response_queue') :
          /\ Free(response_queue'[i].conn)
          /\ response_queue'[i].conn = response_queue'[j].conn
          => i = j
  BY <1>2, <1>4, <1>12 DEF AnsweredOnce
<1>11. \A a \in asked', i \in 1 .. Len(response_queue') :
          Free(a.conn) => a.conn # response_queue'[i].conn
  BY <1>1, <1>2, <1>5, <1>12 DEF AnsweredOnce
<1> QED
  BY <1>7, <1>8, <1>9, <1>10, <1>11 DEF AnsweredOnce, Alone, Free

-----------------------------------------------------------------------------
(* Steps                                                                   *)

LEMMA InitBody == Init => BodyInv
<1> SUFFICES ASSUME Init PROVE BodyInv
  OBVIOUS
<1> DEFINE P == Payload
           S == Sent
<1>1. NoPayload \in P /\ NothingSent \in S
  BY Nothing
<1>2. TypeOK
  <2>1. /\ <<>> \in Seq(Paths) /\ response_queue \in Seq([conn : Conns, stream : Streams, length : Nat])
        /\ MaxRequests \in Nat
    BY H3Assumption DEF Init
  <2> HIDE DEF P, S
  <2>2. /\ http_response \in [Conns -> P] /\ out \in [Conns -> [Streams -> S]]
    BY <1>1 DEF Init
  <2>3. requests \in [Conns -> Seq(Paths)]
    <3> DEFINE R == Seq(Paths)
    <3>1. <<>> \in R
      BY <2>1
    <3> HIDE DEF R
    <3>2. requests \in [Conns -> R]
      BY <3>1 DEF Init
    <3> QED
      BY <3>2 DEF R
  <2>4. /\ conn \in [Conns -> {"none", "open", "gone"}] /\ capacity \in [Conns -> Nat]
        /\ http_request \in [Conns -> Paths \cup {NoPath}]
        /\ total_sent_bytes \in [Conns -> Nat]
    BY DEF Init
  <2>5. stream_id \in [Conns -> 0 .. MaxRequests] /\ overlapped \in [Conns -> 0 .. MaxRequests]
    BY <2>1 DEF Init
  <2>6. asked = {} /\ plugin = "idle" /\ async = FALSE /\ draining = FALSE
    BY DEF Init
  <2> QED
    BY <2>1, <2>2, <2>3, <2>4, <2>5, <2>6 DEF TypeOK, P, S
<1>3. StreamsOK
  BY Nothing DEF Init, StreamsOK
<1>4. RequestsKept
  BY DEF Init, RequestsKept
<1>5. Progress
  BY DEF Init, Progress
<1>6. AnsweredOnce
  BY DEF Init, AnsweredOnce
<1>7. Refused
  BY H3Assumption DEF Init, Refused, NoPayload
<1> QED
  BY <1>2, <1>3, <1>4, <1>5, <1>6, <1>7 DEF BodyInv

\* The new connection had no request, so no answer is due to it.
LEMMA CreateBody ==
    ASSUME BodyInv, NEW c \in Conns, NEW k \in Capacities, create_conn(c, k)
    PROVE  BodyInv'
<1>1. /\ conn[c] = "none" /\ conn' = [conn EXCEPT ![c] = "open"]
      /\ capacity' = [capacity EXCEPT ![c] = k]
      /\ requests' = requests /\ http_request' = http_request /\ http_response' = http_response
      /\ stream_id' = stream_id /\ total_sent_bytes' = total_sent_bytes /\ out' = out
      /\ overlapped' = overlapped /\ asked' = asked /\ plugin' = plugin /\ response_queue' = response_queue
      /\ async' = async /\ draining' = draining
  BY DEF create_conn, pluginVars
<1>2. k \in Nat /\ conn \in [Conns -> {"none", "open", "gone"}] /\ capacity \in [Conns -> Nat]
  BY H3Assumption DEF BodyInv, TypeOK
<1>3. TypeOK'
  <2>1. conn' \in [Conns -> {"none", "open", "gone"}] /\ capacity' \in [Conns -> Nat]
    BY <1>1, <1>2
  <2> QED
    BY <1>1, <2>1 DEF BodyInv, TypeOK
<1>4. StreamsOK'
  BY <1>1 DEF BodyInv, StreamsOK, Mixed
<1>5. RequestsKept'
  <2>1. /\ stream_id[c] = 0 /\ requests[c] = <<>> /\ overlapped[c] = 0
    BY <1>1 DEF BodyInv, RequestsKept
  <2> QED
    BY <1>1, <1>2, <2>1 DEF BodyInv, RequestsKept
<1>6. Progress'
  BY <1>1 DEF BodyInv, Progress
<1>7. AnsweredOnce'
  <2>1. \A d \in Conns : Alone(d)' /\ conn[d] # "none" => Alone(d)
    BY <1>1, <1>2 DEF Alone
  <2>2. ASSUME NEW d \in Conns, NEW s \in Streams, DueOK(d, s) PROVE DueOK(d, s)'
    BY <1>1, <1>2, <2>2 DEF DueOK, Alone
  <2> QED
    BY <1>1, <2>1, <2>2, AnswersKept
<1>8. Refused'
  <2>1. stream_id[c] = 0
    BY <1>1 DEF BodyInv, RequestsKept
  <2> QED
    BY <1>1, <1>2, <2>1 DEF BodyInv, Refused
<1> QED
  BY <1>3, <1>4, <1>5, <1>6, <1>7, <1>8 DEF BodyInv

\* More of the response goes out; a stream without its headers gets nothing.
LEMMA RecvBody ==
    ASSUME BodyInv, NEW c \in Conns, NEW k \in Capacities, recv_cb(c, k)
    PROVE  BodyInv'
<1> DEFINE v == [Writer(c) EXCEPT !.capacity = k]
           w == pending(v)
<1>1. /\ conn[c] = "open" /\ Written(c, w)
      /\ conn' = conn /\ requests' = requests /\ http_request' = http_request
      /\ overlapped' = overlapped /\ asked' = asked /\ plugin' = plugin /\ response_queue' = response_queue
      /\ async' = async /\ draining' = draining
  BY DEF recv_cb, pluginVars
<1>2. /\ Writer(c) \in Writers /\ Loose(Writer(c)) /\ (overlapped[c] = 0 => Valid(Writer(c)))
      /\ Writer(c).payload = http_response[c] /\ Writer(c).total = total_sent_bytes[c]
      /\ Writer(c).stream = stream_id[c]
      /\ stream_id[c] # 0 => stream_id[c] \in Streams /\ Writer(c).sent = out[c][stream_id[c]]
      /\ stream_id[c] = 0 => Writer(c).sent = NothingSent
  BY WriterOfConnection
<1>3. /\ v \in Writers /\ v.payload = Writer(c).payload /\ v.total = Writer(c).total
      /\ v.stream = Writer(c).stream /\ v.sent = Writer(c).sent
  <2> DEFINE P == Payload
             S == Sent
  <2>1. Writers = [payload : P, total : Nat, capacity : Nat, stream : 0 .. MaxRequests, sent : S]
    BY DEF Writers
  <2>2. k \in Nat
    BY H3Assumption
  <2>3. Writer(c) \in Writers
    BY <1>2
  <2> HIDE DEF P, S
  <2> QED
    BY <2>1, <2>2, <2>3
<1>4. Loose(v) /\ (overlapped[c] = 0 => Valid(v))
  BY <1>2, <1>3 DEF Valid, Loose
<1> HIDE DEF v
<1>5. /\ w \in Writers /\ Loose(w) /\ w.payload = v.payload /\ w.stream = v.stream
      /\ overlapped[c] = 0 => Valid(w) /\ (~v.sent.headers => w.sent = v.sent)
  <2>1. w \in Writers /\ Loose(w) /\ w.payload = v.payload /\ w.stream = v.stream
    BY <1>3, <1>4, PendingLoose
  <2>2. overlapped[c] = 0 => Valid(w) /\ (~v.sent.headers => w.sent = v.sent)
    BY <1>3, <1>4, PendingValid
  <2> QED
    BY <2>1, <2>2
<1>6. stream_id[c] = 0 => w = v
  <2>1. stream_id[c] = 0 => v.payload.length = 0 /\ v.total = 0
    BY <1>2, <1>3 DEF BodyInv, RequestsKept, NoPayload
  <2> QED
    BY <2>1 DEF pending
<1> HIDE DEF w
<1>7. /\ w.payload \in Payload /\ w.total \in Nat /\ w.capacity \in Nat
      /\ w.stream \in 0 .. MaxRequests /\ w.sent \in Sent
  BY <1>5, WriterParts
<1>8. StreamsOK' /\ Progress'
  <2>1. overlapped[c] # 0 => overlapped[c] <= w.stream
    BY <1>1, <1>2, <1>3, <1>5 DEF BodyInv, RequestsKept, TypeOK
  <2> QED
    BY <1>1, <1>5, <1>7, <2>1, WrittenKeeps
<1>9. /\ http_response' \in [Conns -> Payload] /\ total_sent_bytes' \in [Conns -> Nat]
      /\ capacity' \in [Conns -> Nat] /\ stream_id' \in [Conns -> 0 .. MaxRequests]
      /\ out' \in [Conns -> [Streams -> Sent]]
      /\ http_response'[c] = w.payload /\ total_sent_bytes'[c] = w.total
      /\ stream_id'[c] = w.stream
      /\ w.stream = 0 => \A s \in Streams : out'[c][s] = NothingSent
      /\ w.stream # 0 => /\ w.stream \in Streams /\ out'[c][w.stream] = w.sent
                         /\ \A s \in Streams : s # w.stream => out'[c][s] = out[c][s]
      /\ \A d \in Conns : d # c =>
            /\ http_response'[d] = http_response[d]
            /\ total_sent_bytes'[d] = total_sent_bytes[d]
            /\ stream_id'[d] = stream_id[d] /\ out'[d] = out[d]
  BY <1>1, <1>7, WrittenParts DEF BodyInv
<1>10. TypeOK'
  BY <1>1, <1>9 DEF BodyInv, TypeOK
<1>11. /\ \A d \in Conns : stream_id'[d] = stream_id[d] /\ http_response'[d] = http_response[d]
       /\ stream_id[c] = 0 => total_sent_bytes'[c] = total_sent_bytes[c]
  BY <1>2, <1>3, <1>5, <1>6, <1>9
<1>12. \A d \in Conns : \A s \in Streams :
           /\ out[d][s] = NothingSent
           /\ Alone(d) \/ s > stream_id[d] \/ stream_id[d] = 0
           => out'[d][s] = NothingSent
  <2> SUFFICES ASSUME NEW d \in Conns, NEW s \in Streams, out[d][s] = NothingSent,
                      Alone(d) \/ s > stream_id[d] \/ stream_id[d] = 0
               PROVE  out'[d][s] = NothingSent
    OBVIOUS
  <2>1. CASE d # c \/ w.stream = 0 \/ s # w.stream
    BY <1>9, <2>1
  <2>2. CASE d = c /\ w.stream # 0 /\ s = w.stream
    <3>1. v.sent = NothingSent /\ s = stream_id[c]
      BY <1>2, <1>3, <1>5, <2>2
    <3>2. overlapped[c] = 0
      BY <1>2, <1>3, <1>5, <2>2, <3>1 DEF Alone, Streams
    <3> QED
      BY <1>5, <1>9, <2>2, <3>1, <3>2, Nothing
  <2> QED
    BY <2>1, <2>2
<1>13. RequestsKept'
  <2>1. RequestsKept
    BY DEF BodyInv
  <2>2. \A d \in Conns : \A s \in Streams : s > stream_id'[d] => out'[d][s] = NothingSent
    BY <1>11, <1>12, <2>1 DEF RequestsKept
  <2>3. \A d \in Conns : stream_id'[d] = 0 =>
            http_response'[d] = NoPayload /\ total_sent_bytes'[d] = 0
    <3> SUFFICES ASSUME NEW d \in Conns, stream_id'[d] = 0
                 PROVE  http_response'[d] = NoPayload /\ total_sent_bytes'[d] = 0
      OBVIOUS
    <3>1. stream_id[d] = 0 /\ http_response'[d] = http_response[d]
      BY <1>11
    <3>2. http_response[d] = NoPayload /\ total_sent_bytes[d] = 0
      BY <2>1, <3>1 DEF RequestsKept
    <3>3. total_sent_bytes'[d] = total_sent_bytes[d]
      BY <1>9, <1>11, <3>1
    <3> QED
      BY <3>1, <3>2, <3>3
  <2> QED
    BY <1>1, <1>11, <2>1, <2>2, <2>3 DEF RequestsKept
<1>14. AnsweredOnce'
  <2>1. ASSUME NEW d \in Conns, NEW s \in Streams, DueOK(d, s) PROVE DueOK(d, s)'
    BY <1>1, <1>11, <1>12, <2>1 DEF DueOK, Alone
  <2>2. \A d \in Conns : Alone(d)' /\ conn[d] # "none" => Alone(d)
    BY <1>1 DEF Alone
  <2> QED
    BY <1>1, <2>1, <2>2, AnswersKept
<1>15. Refused'
  BY <1>1, <1>11 DEF BodyInv, Refused
<1> QED
  BY <1>8, <1>10, <1>13, <1>14, <1>15 DEF BodyInv

\* The elements of asked and of the queue.
LEMMA Elements ==
    ASSUME TypeOK
    PROVE  /\ \A a \in asked : a.conn \in Conns /\ a.stream \in Streams
           /\ \A i \in 1 .. Len(response_queue) :
                 /\ response_queue[i].conn \in Conns /\ response_queue[i].stream \in Streams
                 /\ response_queue[i].length \in Nat
<1> DEFINE Q == Queued
<1>1. asked \subseteq Asked /\ response_queue \in Seq(Q)
  BY DEF TypeOK, Asked, Queued
<1>2. \A a \in Asked : a.conn \in Conns /\ a.stream \in Streams
  BY DEF Asked
<1>3. \A r \in Q : r.conn \in Conns /\ r.stream \in Streams /\ r.length \in Nat
  BY DEF Queued
<1> HIDE DEF Q
<1> QED
  BY <1>1, <1>2, <1>3

\* A connection whose client has all its answers, one at a time, has none that is due.
LEMMA NoneDue ==
    ASSUME BodyInv, NEW c \in Conns, Alone(c), Answered(c)
    PROVE  /\ \A s \in Streams : ~DueOK(c, s)
           /\ \A a \in asked : a.conn # c
           /\ \A i \in 1 .. Len(response_queue) : response_queue[i].conn # c
<1>1. ASSUME NEW s \in Streams, DueOK(c, s) PROVE FALSE
  <2>1. s = Len(requests[c]) /\ out[c][s] = NothingSent
    BY <1>1 DEF DueOK, Alone, BodyInv, RequestsKept
  <2>2. s \in 1 .. Len(requests[c])
    BY <2>1 DEF Streams
  <2> QED
    BY <2>1, <2>2, Nothing DEF Answered
<1>2. TypeOK /\ AnsweredOnce
  BY DEF BodyInv
<1>3. \A a \in asked : a.stream \in Streams /\ DueOK(a.conn, a.stream)
  BY <1>2, Elements DEF AnsweredOnce
<1>4. \A i \in 1 .. Len(response_queue) :
          response_queue[i].stream \in Streams /\ DueOK(response_queue[i].conn, response_queue[i].stream)
  BY <1>2, Elements DEF AnsweredOnce
<1> HIDE DEF DueOK
<1> QED
  BY <1>1, <1>3, <1>4

\* The next request of a client: the new stream is fresh; the old one is complete, or requests
\* overlap from now on.
LEMMA RequestBody ==
    ASSUME BodyInv, NEW c \in Conns, NEW p \in Paths, recv_request(c, p)
    PROVE  BodyInv'
<1> DEFINE s == Len(requests[c]) + 1
           v == pending(Writer(c))
           w == [v EXCEPT !.stream = s, !.sent = NothingSent]
           path == add_or_get_header(http_request[c], p)
           refused == path \in ShortPaths
           u == IF refused THEN Responded(w, w.payload) ELSE w
           a == [conn |-> c, stream |-> s, path |-> path]
           v1 == IF overlapped[c] = 0 /\ ~Answered(c) THEN s - 1 ELSE overlapped[c]
<1>1. /\ conn[c] = "open" /\ s \in Streams
      /\ overlapped' = [overlapped EXCEPT ![c] = v1]
      /\ requests' = [requests EXCEPT ![c] = Append(@, p)]
      /\ http_request' = [http_request EXCEPT ![c] = path]
      /\ conn' = conn /\ plugin' = plugin /\ response_queue' = response_queue
      /\ async' = async /\ draining' = draining
  BY DEF recv_request, pluginVars
<1>2. Written(c, u) /\ asked' = IF refused THEN asked ELSE asked \cup {a}
  <2>1. \/ refused /\ send_response(c, w, w.payload) /\ UNCHANGED asked
        \/ ~refused /\ Written(c, w) /\ asked' = asked \cup {a}
    BY DEF recv_request
  <2> HIDE DEF refused, w
  <2> QED
    BY <2>1, SendResponse
<1>3. /\ Writer(c) \in Writers /\ Loose(Writer(c)) /\ Writer(c).payload = http_response[c]
  BY WriterOfConnection
<1>4. /\ v \in Writers /\ v.payload = http_response[c]
  BY <1>3, PendingLoose
<1> HIDE DEF v
<1>5. /\ w \in Writers /\ w.payload = http_response[c] /\ w.stream = s /\ w.sent = NothingSent
  <2> DEFINE P == Payload
             S == Sent
  <2>1. Writers = [payload : P, total : Nat, capacity : Nat, stream : 0 .. MaxRequests, sent : S]
    BY DEF Writers
  <2>2. NothingSent \in S
    BY Nothing
  <2>3. s \in 0 .. MaxRequests
    BY <1>1, H3Assumption DEF Streams
  <2> HIDE DEF P, S, s
  <2> QED
    BY <1>4, <2>1, <2>2, <2>3
<1>6. path \in Paths /\ path # NoPath
  BY H3Assumption DEF add_or_get_header, BodyInv, TypeOK
<1>7. refused => http_response[c].of = 0
  BY DEF add_or_get_header, BodyInv, Refused
<1> HIDE DEF w, path, s, refused
<1>8. /\ u \in Writers /\ Valid(u) /\ u.stream = s
      /\ refused => u.payload.of = 0
      /\ ~refused => u.sent = NothingSent
  <2>1. CASE refused
    <3>1. w.payload \in Payload /\ w.payload.of \in {0, w.stream} /\ w.payload.of = 0
      BY <1>5, <1>7, <2>1, WriterParts
    <3>2. LET t == Responded(w, w.payload)
          IN t \in Writers /\ Valid(t) /\ t.stream = w.stream /\ t.payload.of \in {0, w.payload.of}
      BY <1>5, <3>1, SendValid
    <3> QED
      BY <1>5, <2>1, <3>1, <3>2
  <2>2. CASE ~refused
    <3>1. Valid(w)
      BY <1>5, Nothing DEF Valid
    <3> QED
      BY <1>5, <2>2, <3>1
  <2> QED
    BY <2>1, <2>2
<1> HIDE DEF u
<1>9. /\ u.payload \in Payload /\ u.total \in Nat /\ u.capacity \in Nat
      /\ u.stream \in 0 .. MaxRequests /\ u.sent \in Sent
  BY <1>8, WriterParts
<1>11. s \in Nat \ {0} /\ u.stream # 0 /\ s - 1 \in 0 .. MaxRequests /\ s - 1 = stream_id[c]
  <2>1. stream_id[c] = Len(requests[c]) /\ stream_id[c] \in 0 .. MaxRequests
    BY <1>1 DEF BodyInv, RequestsKept, TypeOK
  <2> QED
    BY <1>1, <1>8, <2>1 DEF Streams, s
<1>21. /\ overlapped' \in [Conns -> 0 .. MaxRequests]
       /\ \A d \in Conns : d # c => overlapped'[d] = overlapped[d]
       /\ overlapped[c] # 0 => overlapped'[c] = overlapped[c]
       /\ overlapped'[c] < s
       /\ overlapped'[c] = 0 => overlapped[c] = 0 /\ (Answered(c) \/ s - 1 = 0)
  <2>1. overlapped \in [Conns -> 0 .. MaxRequests]
        /\ (overlapped[c] # 0 => overlapped[c] < stream_id[c])
    BY <1>1 DEF BodyInv, TypeOK, RequestsKept
  <2>2. v1 \in 0 .. MaxRequests /\ v1 < s /\ (overlapped[c] # 0 => v1 = overlapped[c])
        /\ (v1 = 0 => overlapped[c] = 0 /\ (Answered(c) \/ s - 1 = 0))
    BY <1>11, <2>1
  <2>3. overlapped'[c] = v1
    BY <1>1, <2>1
  <2> HIDE DEF v1
  <2> QED
    BY <1>1, <2>1, <2>2, <2>3
<1>22. overlapped'[c] = 0 => Alone(c) /\ Answered(c)
  <2>1. s - 1 = 0 => Answered(c)
    BY <1>11 DEF s, Answered
  <2> QED
    BY <1>1, <1>21, <2>1 DEF Alone
<1>10. StreamsOK' /\ Progress'
  <2>1. Loose(u)
    BY <1>8, ValidLoose
  <2>2. overlapped'[c] # 0 => overlapped'[c] <= u.stream
    BY <1>8, <1>11, <1>21
  <2> QED
    BY <1>2, <1>8, <1>9, <1>21, <2>1, <2>2, WrittenKeeps
<1>12. /\ http_response' \in [Conns -> Payload] /\ total_sent_bytes' \in [Conns -> Nat]
       /\ capacity' \in [Conns -> Nat] /\ stream_id' \in [Conns -> 0 .. MaxRequests]
       /\ out' \in [Conns -> [Streams -> Sent]]
       /\ http_response'[c] = u.payload /\ stream_id'[c] = s
       /\ out'[c][s] = u.sent
       /\ \A t \in Streams : t # s => out'[c][t] = out[c][t]
       /\ \A d \in Conns : d # c =>
             /\ http_response'[d] = http_response[d]
             /\ total_sent_bytes'[d] = total_sent_bytes[d]
             /\ stream_id'[d] = stream_id[d] /\ out'[d] = out[d]
  BY <1>2, <1>8, <1>9, <1>11, WrittenParts DEF BodyInv
<1>13. /\ requests' \in [Conns -> Seq(Paths)] /\ Len(requests'[c]) = s
       /\ \A d \in Conns : d # c => requests'[d] = requests[d]
       /\ http_request' \in [Conns -> Paths \cup {NoPath}] /\ http_request'[c] = path
       /\ \A d \in Conns : d # c => http_request'[d] = http_request[d]
  <2>1. /\ requests \in [Conns -> Seq(Paths)] /\ http_request \in [Conns -> Paths \cup {NoPath}]
    BY DEF BodyInv, TypeOK
  <2>2. Append(requests[c], p) \in Seq(Paths) /\ Len(Append(requests[c], p)) = s
    BY <2>1 DEF s
  <2> DEFINE R == Seq(Paths)
             q == Append(requests[c], p)
  <2>3. requests' = [requests EXCEPT ![c] = q]
    BY <1>1
  <2>4. q \in R /\ Len(q) = s /\ requests \in [Conns -> R]
    BY <2>1, <2>2
  <2> HIDE DEF R, q
  <2>5. /\ requests' \in [Conns -> R] /\ requests'[c] = q
        /\ \A d \in Conns : d # c => requests'[d] = requests[d]
    BY <2>3, <2>4
  <2>6. /\ http_request' \in [Conns -> Paths \cup {NoPath}] /\ http_request'[c] = path
        /\ \A d \in Conns : d # c => http_request'[d] = http_request[d]
    BY <1>1, <1>6, <2>1
  <2> QED
    BY <2>4, <2>5, <2>6 DEF R
<1>14. asked' \subseteq [conn : Conns, stream : Streams, path : Paths]
  BY <1>1, <1>2, <1>6 DEF BodyInv, TypeOK
<1>15. TypeOK'
  BY <1>1, <1>12, <1>13, <1>14, <1>21 DEF BodyInv, TypeOK
<1>16. RequestsKept'
  <2>1. s > stream_id[c]
    BY <1>11
  <2>2. \A d \in Conns : conn'[d] = "open" => stream_id'[d] = Len(requests'[d])
    BY <1>1, <1>12, <1>13 DEF BodyInv, RequestsKept
  <2>3. \A d \in Conns : conn'[d] = "none" => requests'[d] = <<>>
    BY <1>1, <1>13 DEF BodyInv, RequestsKept
  <2>4. \A d \in Conns : conn'[d] # "open" => stream_id'[d] = 0
    BY <1>1, <1>12 DEF BodyInv, RequestsKept
  <2>5. \A d \in Conns : \A t \in Streams : t > stream_id'[d] => out'[d][t] = NothingSent
    <3> SUFFICES ASSUME NEW d \in Conns, NEW t \in Streams, t > stream_id'[d]
                 PROVE  out'[d][t] = NothingSent
      OBVIOUS
    <3>1. t > stream_id[d] => out[d][t] = NothingSent
      BY DEF BodyInv, RequestsKept
    <3>2. CASE d # c
      BY <1>12, <3>1, <3>2
    <3>3. CASE d = c
      <4>1. t > s /\ t # s /\ t > stream_id[c]
        BY <1>11, <1>12, <2>1, <3>3 DEF BodyInv, TypeOK, Streams
      <4> QED
        BY <1>12, <3>1, <3>3, <4>1
    <3> QED
      BY <3>2, <3>3
  <2>6. \A d \in Conns : stream_id'[d] = 0 =>
            http_response'[d] = NoPayload /\ total_sent_bytes'[d] = 0
    BY <1>11, <1>12 DEF BodyInv, RequestsKept
  <2>7. \A d \in Conns : conn'[d] = "none" => overlapped'[d] = 0
    BY <1>1, <1>21 DEF BodyInv, RequestsKept
  <2>8. \A d \in Conns : conn'[d] = "open" /\ overlapped'[d] # 0 => overlapped'[d] < stream_id'[d]
    BY <1>1, <1>12, <1>21 DEF BodyInv, RequestsKept
  <2> QED
    BY <2>2, <2>3, <2>4, <2>5, <2>6, <2>7, <2>8 DEF RequestsKept
<1>17. Refused'
  <2>1. ASSUME NEW d \in Conns
        PROVE  /\ conn'[d] = "open" /\ stream_id'[d] # 0 /\ http_request'[d] \notin ShortPaths
                     => http_request'[d] # NoPath
               /\ http_request'[d] \in ShortPaths => http_response'[d].of = 0
               /\ http_request'[d] = NoPath => http_response'[d].of = 0
    <3>1. CASE d # c
      <4>1. /\ conn'[d] = conn[d] /\ stream_id'[d] = stream_id[d]
            /\ http_request'[d] = http_request[d] /\ http_response'[d] = http_response[d]
        BY <1>1, <1>12, <1>13, <3>1
      <4>2. /\ conn[d] = "open" /\ stream_id[d] # 0 /\ http_request[d] \notin ShortPaths
                  => http_request[d] # NoPath
            /\ http_request[d] \in ShortPaths => http_response[d].of = 0
            /\ http_request[d] = NoPath => http_response[d].of = 0
        BY DEF BodyInv, Refused
      <4> QED
        BY <4>1, <4>2
    <3>2. CASE d = c
      <4>1. http_request'[c] = path /\ path # NoPath /\ http_response'[c] = u.payload
        BY <1>6, <1>12, <1>13
      <4>2. path \in ShortPaths => u.payload.of = 0
        BY <1>8 DEF refused
      <4> QED
        BY <3>2, <4>1, <4>2
    <3> QED
      BY <3>1, <3>2
  <2> QED
    BY <2>1 DEF Refused
<1>18. ASSUME overlapped'[c] = 0
       PROVE  /\ \A t \in Streams : ~DueOK(c, t)
              /\ \A b \in asked : b.conn # c
              /\ \A i \in 1 .. Len(response_queue) : response_queue[i].conn # c
  BY <1>18, <1>22, NoneDue
<1>23. ASSUME NEW d \in Conns, d # c, NEW t \in Streams, DueOK(d, t) PROVE DueOK(d, t)'
  BY <1>1, <1>12, <1>13, <1>21, <1>23 DEF DueOK, Alone
<1>24. ASSUME NEW t \in Streams, DueOK(c, t) PROVE DueOK(c, t)'
  <2>1. http_request[c] \notin ShortPaths /\ http_request[c] # NoPath
    <3>1. http_request[c] \notin ShortPaths
      BY <1>1, <1>24 DEF DueOK
    <3>2. CASE stream_id[c] # 0
      BY <1>1, <3>1, <3>2 DEF BodyInv, Refused
    <3>3. CASE stream_id[c] = 0
      <4>1. overlapped[c] = 0
        BY <1>1, <3>3 DEF BodyInv, RequestsKept, TypeOK
      <4> QED
        BY <1>1, <1>24, <3>3, <4>1 DEF DueOK, Alone, Streams
    <3> QED
      BY <3>1, <3>2, <3>3
  <2>2. path = http_request[c]
    BY <2>1 DEF path, add_or_get_header
  <2>3. ~(conn'[c] = "open" /\ overlapped'[c] = 0)
    BY <1>18, <1>24
  <2> QED
    BY <1>1, <1>13, <2>1, <2>2, <2>3 DEF DueOK, Alone
<1>19. ASSUME NEW d \in Conns, NEW t \in Streams, DueOK(d, t) PROVE DueOK(d, t)'
  <2>1. CASE d = c
    BY <1>19, <1>24, <2>1 DEF DueOK, Alone
  <2>2. CASE d # c
    BY <1>19, <1>23, <2>2
  <2> QED
    BY <2>1, <2>2
<1>20. AnsweredOnce'
  <2>3. \A d \in Conns : Alone(d)' /\ conn[d] # "none" => Alone(d)
    BY <1>1, <1>21 DEF Alone
  <2>1. ASSUME refused PROVE AnsweredOnce'
    BY <1>1, <1>2, <1>19, <2>1, <2>3, AnswersKept
  <2>2. ASSUME ~refused PROVE AnsweredOnce'
    <3>1. asked' = asked \cup {a} /\ a.conn = c /\ a.stream = s
      BY <1>2, <2>2
    <3>2. out'[c][s] = NothingSent
      BY <1>8, <1>12, <2>2
    <3> HIDE DEF a
    <3>3. \A z : z = s => DueOK(c, z)'
      <4> SUFFICES ASSUME NEW z, z = s PROVE DueOK(c, z)'
        OBVIOUS
      <4>1. http_request'[c] \notin ShortPaths
        BY <1>13, <2>2 DEF refused
      <4> QED
        BY <1>1, <1>12, <3>2, <4>1 DEF DueOK, Alone
    <3>4. AnsweredOnce /\ TypeOK
      BY DEF BodyInv
    <3>5. \A b \in asked' : DueOK(b.conn, b.stream)'
      <4> SUFFICES ASSUME NEW b \in asked' PROVE DueOK(b.conn, b.stream)'
        OBVIOUS
      <4>1. CASE b = a
        BY <3>1, <3>3, <4>1 DEF DueOK, Alone
      <4>2. CASE b # a
        <5>1. b \in asked /\ b.conn \in Conns /\ b.stream \in Streams /\ DueOK(b.conn, b.stream)
          BY <3>1, <3>4, <4>2, Elements DEF AnsweredOnce
        <5> QED
          BY <1>19, <5>1 DEF DueOK, Alone
      <4> QED
        BY <4>1, <4>2
    <3>6. ASSUME NEW i \in 1 .. Len(response_queue')
          PROVE  DueOK(response_queue[i].conn, response_queue[i].stream)'
      <4>1. i \in 1 .. Len(response_queue)
        BY <1>1, <3>6
      <4> DEFINE r == response_queue[i]
      <4>2. /\ r.conn \in Conns /\ r.stream \in Streams /\ DueOK(r.conn, r.stream)
        BY <3>4, <4>1, Elements DEF AnsweredOnce
      <4>3. PICK d \in Conns, t \in Streams : d = r.conn /\ t = r.stream
        BY <4>2
      <4>4. DueOK(d, t)'
        BY <1>19, <4>2, <4>3
      <4>5. r' = r
        BY <1>1
      <4>6. d = r'.conn /\ t = r'.stream
        BY <4>3, <4>5
      <4> QED
        BY <4>4, <4>6 DEF DueOK, Alone
    <3> DEFINE Free(d) == conn'[d] = "open" /\ overlapped'[d] = 0
    <3>10. /\ \A d \in Conns : Free(d) => Alone(d)
           /\ Free(c) => /\ \A b \in asked : b.conn # c
                         /\ \A i \in 1 .. Len(response_queue) : response_queue[i].conn # c
      BY <1>1, <1>18, <1>21 DEF Alone
    <3>11. /\ \A b \in asked : b.conn \in Conns
           /\ \A i \in 1 .. Len(response_queue) : response_queue[i].conn \in Conns
      BY <3>4, Elements
    <3> HIDE DEF Free
    <3>7. \A x, y \in asked' : Free(x.conn) /\ x.conn = y.conn => x = y
      BY <3>1, <3>4, <3>10, <3>11 DEF AnsweredOnce
    <3>8. \A i, j \in 1 .. Len(response_queue') :
            /\ Free(response_queue'[i].conn)
            /\ response_queue'[i].conn = response_queue'[j].conn
            => i = j
      BY <1>1, <3>4, <3>10, <3>11 DEF AnsweredOnce
    <3>9. \A x \in asked', i \in 1 .. Len(response_queue') :
            Free(x.conn) => x.conn # response_queue'[i].conn
      BY <1>1, <3>1, <3>4, <3>10, <3>11 DEF AnsweredOnce
    <3> QED
      BY <3>5, <3>6, <3>7, <3>8, <3>9 DEF AnsweredOnce, Alone, Free
  <2> QED
    BY <2>1, <2>2
<1> QED
  BY <1>10, <1>15, <1>16, <1>17, <1>20 DEF BodyInv

\* A connection that goes takes its streams with it; its answers find it gone.
LEMMA DestroyBody ==
    ASSUME BodyInv, NEW c \in Conns, destroy_connection(c)
    PROVE  BodyInv'
<1> DEFINE w == [payload |-> NoPayload, total |-> 0, capacity |-> 0, stream |-> 0]
<1>1. /\ conn[c] = "open" /\ Written(c, w)
      /\ conn' = [conn EXCEPT ![c] = "gone"]
      /\ http_request' = [http_request EXCEPT ![c] = NoPath]
      /\ requests' = requests /\ overlapped' = overlapped /\ asked' = asked /\ plugin' = plugin
      /\ response_queue' = response_queue /\ async' = async /\ draining' = draining
  BY DEF destroy_connection, pluginVars
<1>2. /\ w.payload = NoPayload /\ w.total = 0 /\ w.capacity = 0 /\ w.stream = 0
      /\ w.payload \in Payload /\ w.stream \in 0 .. MaxRequests
  BY Nothing, H3Assumption
<1> HIDE DEF w
<1>3. StreamsOK' /\ Progress'
  BY <1>1, <1>2, WrittenKeeps
<1>4. /\ http_response' \in [Conns -> Payload] /\ total_sent_bytes' \in [Conns -> Nat]
      /\ capacity' \in [Conns -> Nat] /\ stream_id' \in [Conns -> 0 .. MaxRequests]
      /\ out' \in [Conns -> [Streams -> Sent]]
      /\ http_response'[c] = NoPayload /\ total_sent_bytes'[c] = 0 /\ stream_id'[c] = 0
      /\ \A s \in Streams : out'[c][s] = NothingSent
      /\ \A d \in Conns : d # c =>
            /\ http_response'[d] = http_response[d]
            /\ total_sent_bytes'[d] = total_sent_bytes[d]
            /\ stream_id'[d] = stream_id[d] /\ out'[d] = out[d]
  BY <1>1, <1>2, WrittenParts DEF BodyInv
<1>5. /\ conn' \in [Conns -> {"none", "open", "gone"}] /\ conn'[c] = "gone"
      /\ \A d \in Conns : d # c => conn'[d] = conn[d]
      /\ http_request' \in [Conns -> Paths \cup {NoPath}] /\ http_request'[c] = NoPath
      /\ \A d \in Conns : d # c => http_request'[d] = http_request[d]
  <2>1. /\ conn \in [Conns -> {"none", "open", "gone"}]
        /\ http_request \in [Conns -> Paths \cup {NoPath}]
    BY DEF BodyInv, TypeOK
  <2> QED
    BY <1>1, <2>1
<1>6. TypeOK'
  BY <1>1, <1>4, <1>5 DEF BodyInv, TypeOK
<1>7. RequestsKept'
  <2>1. ASSUME NEW d \in Conns
        PROVE  /\ conn'[d] = "open" => stream_id'[d] = Len(requests'[d])
               /\ conn'[d] = "none" => requests'[d] = <<>>
               /\ conn'[d] # "open" => stream_id'[d] = 0
               /\ \A s \in Streams : s > stream_id'[d] => out'[d][s] = NothingSent
               /\ stream_id'[d] = 0 =>
                      http_response'[d] = NoPayload /\ total_sent_bytes'[d] = 0
               /\ conn'[d] = "none" => overlapped'[d] = 0
               /\ conn'[d] = "open" /\ overlapped'[d] # 0 => overlapped'[d] < stream_id'[d]
    <3>1. CASE d = c
      BY <1>4, <1>5, <3>1
    <3>2. CASE d # c
      <4>1. /\ conn[d] = "open" => stream_id[d] = Len(requests[d])
            /\ conn[d] = "none" => requests[d] = <<>>
            /\ conn[d] # "open" => stream_id[d] = 0
            /\ \A s \in Streams : s > stream_id[d] => out[d][s] = NothingSent
            /\ stream_id[d] = 0 => http_response[d] = NoPayload /\ total_sent_bytes[d] = 0
            /\ conn[d] = "none" => overlapped[d] = 0
            /\ conn[d] = "open" /\ overlapped[d] # 0 => overlapped[d] < stream_id[d]
        BY DEF BodyInv, RequestsKept
      <4>2. /\ conn'[d] = conn[d] /\ requests'[d] = requests[d] /\ stream_id'[d] = stream_id[d]
            /\ out'[d] = out[d] /\ http_response'[d] = http_response[d]
            /\ total_sent_bytes'[d] = total_sent_bytes[d] /\ overlapped'[d] = overlapped[d]
        BY <1>1, <1>4, <1>5, <3>2
      <4> QED
        BY <4>1, <4>2
    <3> QED
      BY <3>1, <3>2
  <2> QED
    BY <2>1 DEF RequestsKept
<1>8. AnsweredOnce'
  <2>1. ASSUME NEW d \in Conns, NEW s \in Streams, DueOK(d, s) PROVE DueOK(d, s)'
    BY <1>1, <1>4, <1>5, <2>1 DEF DueOK, Alone
  <2>2. \A d \in Conns : Alone(d)' /\ conn[d] # "none" => Alone(d)
    BY <1>1, <1>5 DEF Alone
  <2> QED
    BY <1>1, <2>1, <2>2, AnswersKept
<1>9. Refused'
  BY <1>4, <1>5, H3Assumption DEF BodyInv, Refused, NoPayload
<1> QED
  BY <1>3, <1>6, <1>7, <1>8, <1>9 DEF BodyInv

\* Steps that move no answer and touch no connection.
LEMMA SameBody ==
    ASSUME BodyInv, UNCHANGED <<conn, requests, connVars, overlapped, asked, response_queue>>,
           plugin' \in {"idle", "notify"}, async' \in BOOLEAN, draining' \in BOOLEAN
    PROVE  BodyInv'
<1>1. /\ conn' = conn /\ requests' = requests /\ capacity' = capacity
      /\ http_request' = http_request /\ http_response' = http_response
      /\ stream_id' = stream_id /\ total_sent_bytes' = total_sent_bytes /\ out' = out
      /\ overlapped' = overlapped /\ asked' = asked /\ response_queue' = response_queue
  BY DEF connVars
<1>2. TypeOK'
  BY <1>1 DEF BodyInv, TypeOK
<1>3. StreamsOK'
  BY <1>1 DEF BodyInv, StreamsOK, Mixed
<1>4. RequestsKept' /\ Progress' /\ Refused'
  BY <1>1 DEF BodyInv, RequestsKept, Progress, Refused
<1>5. AnsweredOnce'
  <2>1. \A d \in Conns : \A s \in Streams : DueOK(d, s) => DueOK(d, s)'
    BY <1>1 DEF DueOK, Alone
  <2>2. \A d \in Conns : Alone(d)' /\ conn[d] # "none" => Alone(d)
    BY <1>1 DEF Alone
  <2> QED
    BY <1>1, <2>1, <2>2, AnswersKept
<1> QED
  BY <1>2, <1>3, <1>4, <1>5 DEF BodyInv

\* The answers that are due after the head of the queue was handled.
LEMMA DequeuedAnswers ==
    ASSUME BodyInv, response_queue # <<>>, response_queue' = Tail(response_queue),
           asked' = asked, conn' = conn, overlapped' = overlapped, NEW c \in Conns, c = response_queue[1].conn,
           \A d \in Conns : \A s \in Streams :
               DueOK(d, s) /\ ~(d = c /\ Alone(c)) => DueOK(d, s)'
    PROVE  /\ response_queue' \in Seq([conn : Conns, stream : Streams, length : Nat])
           /\ AnsweredOnce'
<1> DEFINE q == response_queue
           R == Queued
<1>1. TypeOK /\ AnsweredOnce
  BY DEF BodyInv
<1>2. q \in Seq(R)
  BY <1>1 DEF TypeOK, Queued
<1> HIDE DEF R
<1>3. /\ q' \in Seq(R) /\ Len(q) >= 1 /\ Len(q) \in Nat /\ Len(q') = Len(q) - 1
      /\ \A i \in 1 .. Len(q') : q'[i] = q[i + 1] /\ i + 1 \in 1 .. Len(q) /\ i + 1 # 1
  <2>1. Len(q) \in Nat /\ Len(q) # 0
    BY <1>2, EmptySeq
  <2>2. /\ q' \in Seq(R) /\ Len(q') = Len(q) - 1
        /\ \A i \in 1 .. Len(q') : q'[i] = q[i + 1]
    BY <1>2, HeadTailProperties
  <2> QED
    BY <2>1, <2>2
<1>4. \A i \in 1 .. Len(q) :
          /\ q[i].conn \in Conns /\ q[i].stream \in Streams /\ DueOK(q[i].conn, q[i].stream)
          /\ Alone(c) /\ i # 1 => q[i].conn # c
  <2>1. \A i \in 1 .. Len(q) : q[i].conn \in Conns /\ q[i].stream \in Streams
    BY <1>1, Elements
  <2>2. 1 \in 1 .. Len(q)
    BY <1>3
  <2>3. \A i \in 1 .. Len(q) : Alone(c) /\ i # 1 => q[i].conn # c
    BY <1>1, <2>2 DEF AnsweredOnce
  <2> QED
    BY <1>1, <2>1, <2>3 DEF AnsweredOnce
<1>5. \A a \in asked :
          /\ a.conn \in Conns /\ a.stream \in Streams /\ DueOK(a.conn, a.stream)
          /\ Alone(c) => a.conn # c
  <2>1. 1 \in 1 .. Len(q)
    BY <1>3
  <2>2. \A a \in asked : a.conn \in Conns /\ a.stream \in Streams
    BY <1>1, Elements
  <2>3. \A a \in asked : Alone(c) => a.conn # c
    BY <1>1, <2>1 DEF AnsweredOnce
  <2> QED
    BY <1>1, <2>2, <2>3 DEF AnsweredOnce
<1>6. ASSUME NEW i \in 1 .. Len(q')
      PROVE  DueOK(response_queue[i].conn, response_queue[i].stream)'
  <2> DEFINE r == q'[i]
  <2>1. r = q[i + 1] /\ i + 1 \in 1 .. Len(q) /\ i + 1 # 1
    BY <1>3
  <2>2. PICK d \in Conns, s \in Streams : d = r.conn /\ s = r.stream
    BY <1>4, <2>1
  <2>3. DueOK(d, s) /\ ~(d = c /\ Alone(c))
    BY <1>4, <2>1, <2>2
  <2>4. DueOK(d, s)'
    BY <2>3
  <2> QED
    BY <2>2, <2>4 DEF DueOK, Alone
<1>7. ASSUME NEW a \in asked' PROVE DueOK(a.conn, a.stream)'
  <2>1. PICK d \in Conns, s \in Streams : d = a.conn /\ s = a.stream
    BY <1>5
  <2>2. DueOK(d, s) /\ ~(d = c /\ Alone(c))
    BY <1>5, <2>1
  <2>3. DueOK(d, s)'
    BY <2>2
  <2> QED
    BY <2>1, <2>3 DEF DueOK, Alone
<1> DEFINE Free(d) == conn'[d] = "open" /\ overlapped'[d] = 0
<1>11. \A d \in Conns : Free(d) => Alone(d)
  BY DEF Alone
<1> HIDE DEF Free
<1>8. \A a, b \in asked' : Free(a.conn) /\ a.conn = b.conn => a = b
  BY <1>1, <1>5, <1>11 DEF AnsweredOnce
<1>9. \A i, j \in 1 .. Len(q') :
          Free(q'[i].conn) /\ q'[i].conn = q'[j].conn => i = j
  <2> SUFFICES ASSUME NEW i \in 1 .. Len(q'), NEW j \in 1 .. Len(q'),
                      Free(q'[i].conn), q'[i].conn = q'[j].conn
               PROVE  i = j
    OBVIOUS
  <2>1. /\ q'[i] = q[i + 1] /\ i + 1 \in 1 .. Len(q)
        /\ q'[j] = q[j + 1] /\ j + 1 \in 1 .. Len(q)
    BY <1>3
  <2>2. i + 1 = j + 1
    BY <1>1, <1>4, <1>11, <2>1 DEF AnsweredOnce
  <2> QED
    BY <2>2
<1>10. \A a \in asked', i \in 1 .. Len(q') : Free(a.conn) => a.conn # q'[i].conn
  BY <1>1, <1>3, <1>5, <1>11 DEF AnsweredOnce
<1> QED
  BY <1>3, <1>6, <1>7, <1>8, <1>9, <1>10 DEF AnsweredOnce, Alone, Free, R, Queued

\* The response at the head of the queue goes to the stream of its connection's last request, or
\* finds the connection gone.  While requests do not overlap it answers that request, of which
\* nothing was sent.
LEMMA NotifyBody ==
    ASSUME BodyInv, notify_server_async_cb
    PROVE  BodyInv'
<1>1. /\ response_queue # <<>> /\ response_queue' = Tail(response_queue)
      /\ conn' = conn /\ requests' = requests /\ http_request' = http_request
      /\ overlapped' = overlapped /\ asked' = asked /\ plugin' = plugin /\ async' = async /\ draining' = draining
  BY DEF notify_server_async_cb, dequeue_more
<1>2. TypeOK /\ RequestsKept /\ AnsweredOnce /\ Refused
  BY DEF BodyInv
<1>3. PICK r : r = response_queue[1]
  OBVIOUS
<1>4. 1 \in 1 .. Len(response_queue) /\ Head(response_queue) = r
  <2> DEFINE R == Queued
  <2>1. response_queue \in Seq(R)
    BY <1>2 DEF TypeOK, Queued
  <2> HIDE DEF R
  <2>2. Len(response_queue) \in Nat /\ Len(response_queue) # 0
    BY <1>1, <2>1, EmptySeq
  <2> QED
    BY <1>3, <2>1, <2>2
<1>5. PICK c \in Conns, s \in Streams, n \in Nat : c = r.conn /\ s = r.stream /\ n = r.length
  BY <1>2, <1>3, <1>4, Elements
<1>6. DueOK(c, s)
  BY <1>2, <1>3, <1>4, <1>5 DEF AnsweredOnce
<1>7. IF conn[c] = "open"
      THEN send_response(c, Writer(c), [of |-> s, length |-> n])
      ELSE UNCHANGED <<capacity, http_response, stream_id, total_sent_bytes, out>>
  <2> HIDE DEF send_response
  <2>1. IF conn[r.conn] = "open"
        THEN send_response(r.conn, Writer(r.conn), [of |-> r.stream, length |-> r.length])
        ELSE UNCHANGED <<capacity, http_response, stream_id, total_sent_bytes, out>>
    BY <1>4 DEF notify_server_async_cb
  <2> QED
    BY <1>5, <2>1
<1>8. CASE conn[c] # "open"
  <2>1. /\ capacity' = capacity /\ http_response' = http_response /\ stream_id' = stream_id
        /\ total_sent_bytes' = total_sent_bytes /\ out' = out
    BY <1>7, <1>8
  <2>2. \A d \in Conns : \A t \in Streams : DueOK(d, t) => DueOK(d, t)'
    BY <1>1, <2>1 DEF DueOK, Alone
  <2>3. /\ response_queue' \in Seq([conn : Conns, stream : Streams, length : Nat])
        /\ AnsweredOnce'
    BY <1>1, <1>3, <1>5, <2>2, DequeuedAnswers
  <2>4. TypeOK'
    BY <1>1, <1>2, <2>1, <2>3 DEF TypeOK
  <2>5. StreamsOK'
    BY <1>1, <2>1 DEF BodyInv, StreamsOK, Mixed
  <2>6. RequestsKept' /\ Progress' /\ Refused'
    BY <1>1, <2>1 DEF BodyInv, RequestsKept, Progress, Refused
  <2> QED
    BY <2>3, <2>4, <2>5, <2>6 DEF BodyInv
<1>9. CASE conn[c] = "open"
  <2> DEFINE w == Writer(c)
             p == [of |-> s, length |-> n]
             u == Responded(w, p)
             z == stream_id[c]
  <2>1. Written(c, u)
    <3> HIDE DEF w, p
    <3>1. send_response(c, w, p)
      BY <1>7, <1>9 DEF w, p
    <3> QED
      BY <3>1, SendResponse
  <2>2. http_request[c] \notin ShortPaths /\ z # 0 /\ z \in Streams
        /\ (overlapped[c] = 0 => s = z /\ out[c][z] = NothingSent)
        /\ (overlapped[c] # 0 => overlapped[c] <= z)
    <3>1. z \in 0 .. MaxRequests /\ overlapped[c] \in 0 .. MaxRequests
      BY <1>2 DEF TypeOK
    <3>2. http_request[c] \notin ShortPaths
          /\ (overlapped[c] = 0 => s = z /\ out[c][z] = NothingSent)
      BY <1>6, <1>9 DEF DueOK, Alone
    <3>3. overlapped[c] # 0 => overlapped[c] < z
      BY <1>2, <1>9 DEF RequestsKept
    <3>4. z # 0
      BY <3>1, <3>2, <3>3 DEF Streams
    <3> QED
      BY <3>1, <3>2, <3>3, <3>4 DEF Streams
  <2>3. /\ w \in Writers /\ w.stream = z /\ w.sent = out[c][z] /\ Loose(w)
    BY <2>2, WriterOfConnection
  <2>4. p \in Payload /\ p.of = s
    BY H3Assumption DEF Payload, Streams
  <2> HIDE DEF w, p, z
  <2>5. u \in Writers /\ Loose(u) /\ u.stream = z /\ (overlapped[c] = 0 => Valid(u))
    <3>1. u \in Writers /\ Loose(u) /\ u.stream = z
      BY <2>3, <2>4, SendLoose
    <3>2. ASSUME overlapped[c] = 0 PROVE Valid(u)
      <4>1. w.sent = NothingSent /\ p.of \in {0, w.stream}
        BY <2>2, <2>3, <2>4, <3>2
      <4> QED
        BY <2>3, <2>4, <4>1, SendValid
    <3> QED
      BY <3>1, <3>2
  <2> HIDE DEF u
  <2>6. /\ u.payload \in Payload /\ u.total \in Nat /\ u.capacity \in Nat
        /\ u.stream \in 0 .. MaxRequests /\ u.sent \in Sent
    BY <2>5, WriterParts
  <2>7. StreamsOK' /\ Progress'
    BY <1>1, <2>1, <2>2, <2>5, <2>6, WrittenKeeps
  <2>8. /\ http_response' \in [Conns -> Payload] /\ total_sent_bytes' \in [Conns -> Nat]
        /\ capacity' \in [Conns -> Nat] /\ stream_id' \in [Conns -> 0 .. MaxRequests]
        /\ out' \in [Conns -> [Streams -> Sent]]
        /\ http_response'[c] = u.payload /\ stream_id'[c] = z
        /\ \A t \in Streams : t # z => out'[c][t] = out[c][t]
        /\ \A d \in Conns : d # c =>
              /\ http_response'[d] = http_response[d]
              /\ total_sent_bytes'[d] = total_sent_bytes[d]
              /\ stream_id'[d] = stream_id[d] /\ out'[d] = out[d]
    BY <1>2, <2>1, <2>2, <2>5, <2>6, WrittenParts
  <2>9. ASSUME NEW d \in Conns, NEW t \in Streams, DueOK(d, t), ~(d = c /\ Alone(c))
        PROVE  DueOK(d, t)'
    <3>1. CASE d # c
      BY <1>1, <2>8, <2>9, <3>1 DEF DueOK, Alone
    <3>2. CASE d = c
      BY <1>1, <2>9, <3>2 DEF DueOK, Alone
    <3> QED
      BY <3>1, <3>2
  <2>10. /\ response_queue' \in Seq([conn : Conns, stream : Streams, length : Nat])
         /\ AnsweredOnce'
    BY <1>1, <1>3, <1>5, <2>9, DequeuedAnswers
  <2>11. TypeOK'
    BY <1>1, <1>2, <2>8, <2>10 DEF TypeOK
  <2>12. RequestsKept'
    <3>1. \A d \in Conns : stream_id'[d] = stream_id[d]
      BY <2>8 DEF z
    <3>2. ASSUME NEW d \in Conns, NEW t \in Streams, t > stream_id'[d]
          PROVE  out'[d][t] = NothingSent
      <4>1. t > stream_id[d] => out[d][t] = NothingSent
        BY <1>2 DEF RequestsKept
      <4>2. d = c => t # z
        BY <2>8, <3>2 DEF Streams
      <4> QED
        BY <2>8, <3>1, <3>2, <4>1, <4>2
    <3>3. \A d \in Conns : stream_id'[d] = 0 =>
              http_response'[d] = NoPayload /\ total_sent_bytes'[d] = 0
      BY <1>2, <2>2, <2>8 DEF RequestsKept
    <3> QED
      BY <1>1, <1>2, <3>1, <3>2, <3>3 DEF RequestsKept
  <2>13. Refused'
    <3>1. http_request[c] # NoPath
      BY <1>2, <1>9, <2>2 DEF Refused, z
    <3>2. \A d \in Conns : stream_id'[d] = stream_id[d]
      BY <2>8 DEF z
    <3> QED
      BY <1>1, <1>2, <2>2, <2>8, <3>1, <3>2 DEF Refused
  <2> QED
    BY <2>7, <2>10, <2>11, <2>12, <2>13 DEF BodyInv
<1> QED
  BY <1>8, <1>9

\* The plugin's answer moves from what was asked to the end of the queue.
LEMMA EnqueueBody ==
    ASSUME BodyInv, NEW a \in asked, NEW n \in Lengths, enqueue_response(a, n)
    PROVE  BodyInv'
<1> DEFINE q == response_queue
           R == Queued
           r == [conn |-> a.conn, stream |-> a.stream, length |-> n]
<1>1. /\ asked' = asked \ {a} /\ q' = Append(q, r) /\ plugin' = "notify"
      /\ conn' = conn /\ requests' = requests /\ capacity' = capacity
      /\ http_request' = http_request /\ http_response' = http_response
      /\ stream_id' = stream_id /\ total_sent_bytes' = total_sent_bytes /\ out' = out
      /\ overlapped' = overlapped /\ async' = async /\ draining' = draining
  BY DEF enqueue_response, connVars
<1>2. TypeOK /\ AnsweredOnce
  BY DEF BodyInv
<1>3. a.conn \in Conns /\ a.stream \in Streams /\ DueOK(a.conn, a.stream) /\ n \in Nat
  BY <1>2, Elements, H3Assumption DEF AnsweredOnce
<1>4. r \in R
  BY <1>3 DEF Queued
<1>5. r.conn = a.conn /\ r.stream = a.stream
  OBVIOUS
<1>6. q \in Seq(R)
  BY <1>2 DEF TypeOK, Queued
<1> HIDE DEF R, r
<1>7. /\ q' \in Seq(R) /\ Len(q) \in Nat /\ Len(q') = Len(q) + 1
      /\ \A i \in 1 .. Len(q) : q'[i] = q[i]
      /\ q'[Len(q) + 1] = r
  BY <1>1, <1>4, <1>6
<1>8. TypeOK'
  <2>1. q' \in Seq([conn : Conns, stream : Streams, length : Nat])
    BY <1>7 DEF R, Queued
  <2> QED
    BY <1>1, <1>2, <2>1 DEF TypeOK
<1>9. \A d \in Conns, s \in Streams : DueOK(d, s) => DueOK(d, s)'
  BY <1>1 DEF DueOK, Alone
<1>10. \A i \in 1 .. Len(q') :
           \/ i = Len(q) + 1 /\ q'[i] = r
           \/ i \in 1 .. Len(q) /\ q'[i] = q[i]
  BY <1>7
<1>11. ASSUME NEW i \in 1 .. Len(q')
       PROVE  DueOK(response_queue[i].conn, response_queue[i].stream)'
  <2> DEFINE x == q'[i]
  <2>1. x.conn \in Conns /\ x.stream \in Streams /\ DueOK(x.conn, x.stream)
    BY <1>2, <1>3, <1>5, <1>10, Elements DEF AnsweredOnce
  <2>2. PICK d \in Conns, s \in Streams : d = x.conn /\ s = x.stream
    BY <2>1
  <2>3. DueOK(d, s)'
    BY <1>9, <2>1, <2>2
  <2> QED
    BY <2>2, <2>3 DEF DueOK, Alone
<1>12. ASSUME NEW b \in asked' PROVE DueOK(b.conn, b.stream)'
  <2>1. b.conn \in Conns /\ b.stream \in Streams /\ DueOK(b.conn, b.stream)
    BY <1>1, <1>2, Elements DEF AnsweredOnce
  <2>2. PICK d \in Conns, s \in Streams : d = b.conn /\ s = b.stream
    BY <2>1
  <2>3. DueOK(d, s)'
    BY <1>9, <2>1, <2>2
  <2> QED
    BY <2>2, <2>3 DEF DueOK, Alone
<1> DEFINE Free(d) == conn'[d] = "open" /\ overlapped'[d] = 0
<1>19. \A d : Free(d) <=> Alone(d)
  BY <1>1 DEF Alone
<1> HIDE DEF Free
<1>13. \A x, y \in asked' : Free(x.conn) /\ x.conn = y.conn => x = y
  BY <1>1, <1>2, <1>19 DEF AnsweredOnce
<1>14. \A i, j \in 1 .. Len(q') :
           Free(q'[i].conn) /\ q'[i].conn = q'[j].conn => i = j
  <2>1. \A i, j \in 1 .. Len(q) : Alone(q[i].conn) /\ q[i].conn = q[j].conn => i = j
    BY <1>2 DEF AnsweredOnce
  <2>2. \A i \in 1 .. Len(q) : Alone(a.conn) => a.conn # q[i].conn
    BY <1>2 DEF AnsweredOnce
  <2> QED
    BY <1>1, <1>5, <1>10, <1>19, <2>1, <2>2
<1>15. \A x \in asked', i \in 1 .. Len(q') : Free(x.conn) => x.conn # q'[i].conn
  <2>1. \A x \in asked : x # a /\ Alone(x.conn) => x.conn # a.conn
    BY <1>2 DEF AnsweredOnce
  <2>2. \A x \in asked, i \in 1 .. Len(q) : Alone(x.conn) => x.conn # q[i].conn
    BY <1>2 DEF AnsweredOnce
  <2> QED
    BY <1>1, <1>5, <1>10, <1>19, <2>1, <2>2
<1>16. AnsweredOnce'
  BY <1>11, <1>12, <1>13, <1>14, <1>15 DEF AnsweredOnce, Alone, Free
<1>17. StreamsOK'
  BY <1>1 DEF BodyInv, StreamsOK, Mixed
<1>18. RequestsKept' /\ Progress' /\ Refused'
  BY <1>1 DEF BodyInv, RequestsKept, Progress, Refused
<1> QED
  BY <1>8, <1>16, <1>17, <1>18 DEF BodyInv

-----------------------------------------------------------------------------
(* The theorems                                                            *)

\* Every step of the two threads keeps the invariant.
LEMMA StepBody == BodyInv /\ [Next]_vars => BodyInv'
<1> SUFFICES ASSUME BodyInv, [Next]_vars PROVE BodyInv'
  OBVIOUS
<1>1. plugin \in {"idle", "notify"} /\ async \in BOOLEAN /\ draining \in BOOLEAN
  BY DEF BodyInv, TypeOK
<1>2. ASSUME NEW c \in Conns, NEW k \in Capacities, create_conn(c, k) PROVE BodyInv'
  BY <1>2, CreateBody
<1>3. ASSUME NEW c \in Conns, NEW k \in Capacities, recv_cb(c, k) PROVE BodyInv'
  BY <1>3, RecvBody
<1>4. ASSUME NEW c \in Conns, NEW p \in Paths, recv_request(c, p) PROVE BodyInv'
  BY <1>4, RequestBody
<1>5. ASSUME NEW c \in Conns, destroy_connection(c) PROVE BodyInv'
  BY <1>5, DestroyBody
<1>6. CASE async_cb
  BY <1>1, <1>6, SameBody DEF async_cb
<1>7. CASE notify_server_async_cb
  BY <1>7, NotifyBody
<1>8. CASE async_cb_returns
  BY <1>1, <1>8, SameBody DEF async_cb_returns, pluginVars
<1>9. ASSUME NEW a \in asked, NEW n \in Lengths, enqueue_response(a, n) PROVE BodyInv'
  BY <1>9, EnqueueBody
<1>10. CASE notify_main_thread
  BY <1>1, <1>10, SameBody DEF notify_main_thread
<1>11. CASE UNCHANGED vars
  BY <1>1, <1>11, SameBody DEF vars, pluginVars
<1> HIDE DEF BodyInv
<1> QED
  BY <1>2, <1>3, <1>4, <1>5, <1>6, <1>7, <1>8, <1>9, <1>10, <1>11 DEF Next

\* On every connection, whatever a client asks and when, the stream in stream_id is the one of
\* its last request and what a stream carries are runs of responses, the last of them as far as
\* total_sent_bytes says.  Until a request comes before the answer to the last one is complete,
\* total_sent_bytes counts what the stream carries of the payload in http_response, and an
\* answer of the plugin under way is the only one for its connection and meets a stream on
\* which nothing was sent.
THEOREM BodyInductive == Spec => []BodyInv
<1>1. Init => BodyInv
  BY InitBody
<1>2. BodyInv /\ [Next]_vars => BodyInv'
  BY StepBody
<1> QED
  BY <1>1, <1>2, PTL DEF Spec

\* Every variable of the server keeps its type.
THEOREM ServerTypes == Spec => []TypeOK
<1>1. BodyInv => TypeOK
  BY DEF BodyInv
<1> QED
  BY <1>1, BodyInductive, PTL

\* For any lengths and capacities, any chunk size, and however requests, packets, closes and
\* the two threads interleave, every stream carries responses from their start, without a gap
\* or a repetition; and a stream before the first overlap of its connection's requests carries
\* the beginning of one response to its own request and ends exactly when all that
\* content-length announced is out.
THEOREM Bodies == Spec => []BodyInOrder
<1>1. BodyInv => BodyInOrder
  BY DEF BodyInv, StreamsOK, StreamOK, InOrder, Runs, BodyInOrder
<1> QED
  BY <1>1, BodyInductive, PTL

=============================================================================
