-------------------------- MODULE QZookeeperProofs --------------------------
(***************************************************************************)
(* Proofs about QZookeeper, for any number of keys, handles, changes and   *)
(* faults: no handle is lost, and no stored value is out of date without   *)
(* something on its way to replace it.                                     *)
(***************************************************************************)
EXTENDS QZookeeper, SequenceTheorems, TLAPS

States == {"none", "connecting", "connected", "readonly", "expired"}
Values == 0 .. MaxChanges + 1

SessionEvent == [type : {"session"}, state : States, id : 0 .. MaxHandles]
ChangedEvent == [type : {"changed"}, key : Keys]
DataEvent == [type : {"data"}, value : Values]
Event == SessionEvent \cup ChangedEvent \cup DataEvent

\* What the library keeps of a handle.
HandleStates == {"none", "connecting", "connected", "readonly", "expired", "closing", "closed"}
Handle == [st : HandleStates, id : 0 .. Garbage, events : Seq(Event), watch : [Keys -> Values]]

HandlesOK == handle \in [Handles -> Handle]

Types == TypeOK /\ HandlesOK

\* The bounds.
LEMMA Bounds ==
    /\ 0 \in Values /\ 0 \in 0 .. MaxHandles /\ 0 \in 0 .. Garbage /\ Garbage \in 0 .. Garbage
    /\ 0 \notin Handles /\ Handles \subseteq 0 .. MaxHandles
    /\ 0 .. MaxHandles \subseteq 0 .. Garbage /\ 0 .. MaxHandles = Handles \cup {0}
    /\ 1 .. MaxChanges + 1 \subseteq Values /\ 1 \in 1 .. MaxChanges + 1
    /\ 0 \in 0 .. MAX_RETRY /\ 0 \in 0 .. MaxFaults
    /\ 0 \notin 1 .. MaxChanges + 1
BY ZkAssumption DEF Values, Garbage, Handles

\* The three kinds of events.
LEMMA Events ==
    /\ \A s \in States, i \in 0 .. MaxHandles :
          /\ Session(s, i) \in Event /\ Session(s, i).type = "session"
          /\ Session(s, i).state = s /\ Session(s, i).id = i
    /\ \A k \in Keys :
          Changed(k) \in Event /\ Changed(k).type = "changed" /\ Changed(k).key = k
    /\ \A v \in Values : Data(v) \in Event /\ Data(v).type = "data" /\ Data(v).value = v
    /\ \A e \in Event :
          \/ e.type = "session" /\ e.state \in States /\ e.id \in 0 .. MaxHandles
          \/ e.type = "changed" /\ e.key \in Keys /\ e = Changed(e.key)
          \/ e.type = "data" /\ e.value \in Values
<1>1. \A s \in States, i \in 0 .. MaxHandles :
          /\ Session(s, i) \in Event /\ Session(s, i).type = "session"
          /\ Session(s, i).state = s /\ Session(s, i).id = i
  BY DEF Session, Event, SessionEvent
<1>2. \A k \in Keys :
          Changed(k) \in Event /\ Changed(k).type = "changed" /\ Changed(k).key = k
  BY DEF Changed, Event, ChangedEvent
<1>3. \A v \in Values : Data(v) \in Event /\ Data(v).type = "data" /\ Data(v).value = v
  BY DEF Data, Event, DataEvent
<1>4. ASSUME NEW e \in Event
      PROVE  \/ e.type = "session" /\ e.state \in States /\ e.id \in 0 .. MaxHandles
             \/ e.type = "changed" /\ e.key \in Keys /\ e = Changed(e.key)
             \/ e.type = "data" /\ e.value \in Values
  <2>1. CASE e \in SessionEvent
    BY <2>1 DEF SessionEvent
  <2>2. CASE e \in ChangedEvent
    BY <2>2 DEF ChangedEvent, Changed
  <2>3. CASE e \in DataEvent
    BY <2>3 DEF DataEvent
  <2> QED
    BY <2>1, <2>2, <2>3 DEF Event
<1> QED
  BY <1>1, <1>2, <1>3, <1>4

\* A handle that has no events to deliver nor watches.
LEMMA NoHandleOK ==
    /\ NoHandle \in Handle /\ NoHandle.st = "none" /\ NoHandle.events = <<>>
    /\ [NoHandle EXCEPT !.st = "closed"] \in Handle
    /\ [NoHandle EXCEPT !.st = "closed"].st = "closed"
    /\ [NoHandle EXCEPT !.st = "closed"].events = <<>>
    /\ \A k \in Keys : NoHandle.watch[k] = 0
<1>1. <<>> \in Seq(Event)
  BY EmptySeq
<1>2. [k \in Keys |-> 0] \in [Keys -> Values]
  BY Bounds
<1> DEFINE S == Seq(Event)
           F == [Keys -> Values]
           w == [k \in Keys |-> 0]
<1>3. <<>> \in S /\ w \in F /\ \A k \in Keys : w[k] = 0
  BY <1>1, <1>2
<1>4. NoHandle = [st |-> "none", id |-> 0, events |-> <<>>, watch |-> w]
  BY DEF NoHandle
<1>5. Handle = [st : HandleStates, id : 0 .. Garbage, events : S, watch : F]
  BY DEF Handle
<1>6. "none" \in HandleStates /\ "closed" \in HandleStates
  BY DEF HandleStates
<1> HIDE DEF S, F, w
<1> QED
  BY <1>3, <1>4, <1>5, <1>6, Bounds

-----------------------------------------------------------------------------
(* The inductive invariant                                                 *)

Live(h) == handle[h].st \notin {"none", "closed"}

\* close_mutex: one thread closes at a time, and the client's thread closes a handle.
Closing ==
    /\ ~(zkpc = "close" /\ wpc.pc = "close")
    /\ zkpc = "close" => zh # 0
    /\ wpc.pc # "idle" => wpc.h # 0

\* The live handle is the one in zh or the one zookeeper_init is about to return, to the
\* client's thread, which connect starts once.
HandleKept ==
    /\ zkpc \in {"assign", "retry"} <=> newh # 0
    /\ newh # 0 => zh = 0
    /\ caller.pc = "new" => zkpc = "none"
    /\ zkpc \in {"none", "init"} => zh = 0
    /\ \A h \in Handles : Live(h) => h \in {zh, newh}

Base == Types /\ Closing /\ HandleKept

\* Of the events s of a handle: where the answers are, whether one is a value, whether one says
\* that k changed.
DataAt(s) == {i \in 1 .. Len(s) : s[i].type = "data"}
AtMostOne(S) == \A i, j \in S : i = j
HasValue(s) == \E i \in DataAt(s) : s[i].value # 0
HasChanged(s, k) == \E i \in 1 .. Len(s) : s[i] = Changed(k)

\* There is at most one answer to deliver, and none when nothing was asked.
Answering ==
    /\ op_in_progress => caller.pc = "waiting"
    /\ caller.pc \in {"asking", "waiting"} => AtMostOne(caller.key)
    /\ \A h \in Handles : ~Live(h) => handle[h].events = <<>>
    /\ \A h \in Handles : AtMostOne(DataAt(handle[h].events))
    /\ ~op_in_progress => \A h \in Handles : DataAt(handle[h].events) = {}

\* The watcher works on a handle that has not been closed.
Watching ==
    /\ wpc.pc \in {"changed", "pending"} => Live(wpc.h)
    /\ wpc.pc = "changed" => AtMostOne(wpc.todo)
    /\ wpc.pc = "pending" => wpc.todo \subseteq pending_config_updates
    /\ wpc.pc \in {"idle", "close"} => wpc.todo = {}

\* Handle h has a watch of k or has seen it fire, or the watcher is fetching k on it.
Traces(h, k) == handle[h].watch[k] # 0 \/ HasChanged(handle[h].events, k)
TracksIn(h, k) == Traces(h, k) \/ (wpc.h = h /\ k \in wpc.todo)
Tracked(k) == \E h \in Handles : Live(h) /\ TracksIn(h, k)

\* What load is about to store.
Answered(k) ==
    /\ caller.pc = "waiting" /\ k \in caller.key
    /\ \/ get_result # 0
       \/ \E h \in Handles : HasValue(handle[h].events)

Following ==
    /\ \A k \in Keys : configs[k] # 0 \/ Answered(k) =>
          k \in missed \/ k \in pending_config_updates \/ Tracked(k)
    /\ wpc.pc = "pending" => \A k \in pending_config_updates \ wpc.todo : k \in missed \/ Tracked(k)

Current == Answering /\ Watching /\ Following

ConfigInv == Base /\ Current

-----------------------------------------------------------------------------
(* What a step makes of the handles                                        *)

\* Handle h has state s, events ev and watches w; the others are as they were.
Effect(h, s, ev, w) ==
    /\ \A g \in Handles : g # h => handle'[g] = handle[g]
    /\ handle'[h].st = s /\ handle'[h].events = ev /\ handle'[h].watch = w

\* What is known of the parts of a handle.
LEMMA Fields ==
    ASSUME HandlesOK, NEW h \in Handles
    PROVE  /\ handle[h].st \in HandleStates /\ handle[h].id \in 0 .. Garbage
           /\ handle[h].events \in Seq(Event) /\ handle[h].watch \in [Keys -> Values]
<1> DEFINE I == 0 .. Garbage
           S == Seq(Event)
           F == [Keys -> Values]
<1>1. Handle = [st : HandleStates, id : I, events : S, watch : F]
  BY DEF Handle
<1>2. handle[h] \in Handle
  BY DEF HandlesOK
<1> HIDE DEF I, S, F
<1>3. /\ handle[h].st \in HandleStates /\ handle[h].id \in I
      /\ handle[h].events \in S /\ handle[h].watch \in F
  BY <1>1, <1>2
<1> QED
  BY <1>3 DEF I, S, F

\* The ways a step sets fields of one handle.
LEMMA Setting ==
    ASSUME HandlesOK, NEW h \in Handles, NEW s \in HandleStates, NEW id \in 0 .. Garbage,
           NEW ev \in Seq(Event), NEW w \in [Keys -> Values]
    PROVE  LET old == handle[h]
           IN /\ handle' = [handle EXCEPT ![h].st = s] =>
                    HandlesOK' /\ Effect(h, s, old.events, old.watch)
              /\ handle' = [handle EXCEPT ![h].st = s, ![h].id = id] =>
                    HandlesOK' /\ Effect(h, s, old.events, old.watch)
              /\ handle' = [handle EXCEPT ![h].events = ev] =>
                    HandlesOK' /\ Effect(h, old.st, ev, old.watch)
              /\ handle' = [handle EXCEPT ![h].watch = w] =>
                    HandlesOK' /\ Effect(h, old.st, old.events, w)
              /\ handle' = [handle EXCEPT ![h].st = s, ![h].events = ev] =>
                    HandlesOK' /\ Effect(h, s, ev, old.watch)
              /\ handle' = [handle EXCEPT ![h].st = s, ![h].id = id, ![h].events = ev] =>
                    HandlesOK' /\ Effect(h, s, ev, old.watch)
              /\ handle' = [handle EXCEPT ![h].watch = w, ![h].events = ev] =>
                    HandlesOK' /\ Effect(h, old.st, ev, w)
              /\ handle' = [[handle EXCEPT ![h].events = ev] EXCEPT ![h].st = s] =>
                    HandlesOK' /\ Effect(h, s, ev, old.watch)
<1> DEFINE I == 0 .. Garbage
           S == Seq(Event)
           F == [Keys -> Values]
           R == Handle
           old == handle[h]
<1>1. R = [st : HandleStates, id : I, events : S, watch : F]
  BY DEF Handle
<1>2. id \in I /\ ev \in S /\ w \in F /\ handle \in [Handles -> R]
  BY DEF HandlesOK
<1>3. HandlesOK' <=> handle' \in [Handles -> R]
  BY DEF HandlesOK, Handle, Event, SessionEvent, ChangedEvent, DataEvent
<1> HIDE DEF I, S, F, R
<1>4. ASSUME handle' = [handle EXCEPT ![h].st = s]
      PROVE  HandlesOK' /\ Effect(h, s, old.events, old.watch)
  BY <1>1, <1>2, <1>3, <1>4 DEF Effect
<1>5. ASSUME handle' = [handle EXCEPT ![h].st = s, ![h].id = id]
      PROVE  HandlesOK' /\ Effect(h, s, old.events, old.watch)
  BY <1>1, <1>2, <1>3, <1>5 DEF Effect
<1>6. ASSUME handle' = [handle EXCEPT ![h].events = ev]
      PROVE  HandlesOK' /\ Effect(h, old.st, ev, old.watch)
  BY <1>1, <1>2, <1>3, <1>6 DEF Effect
<1>7. ASSUME handle' = [handle EXCEPT ![h].watch = w]
      PROVE  HandlesOK' /\ Effect(h, old.st, old.events, w)
  BY <1>1, <1>2, <1>3, <1>7 DEF Effect
<1>8. ASSUME handle' = [handle EXCEPT ![h].st = s, ![h].events = ev]
      PROVE  HandlesOK' /\ Effect(h, s, ev, old.watch)
  BY <1>1, <1>2, <1>3, <1>8 DEF Effect
<1>9. ASSUME handle' = [handle EXCEPT ![h].st = s, ![h].id = id, ![h].events = ev]
      PROVE  HandlesOK' /\ Effect(h, s, ev, old.watch)
  BY <1>1, <1>2, <1>3, <1>9 DEF Effect
<1>10. ASSUME handle' = [handle EXCEPT ![h].watch = w, ![h].events = ev]
       PROVE  HandlesOK' /\ Effect(h, old.st, ev, w)
  BY <1>1, <1>2, <1>3, <1>10 DEF Effect
<1>11. ASSUME handle' = [[handle EXCEPT ![h].events = ev] EXCEPT ![h].st = s]
       PROVE  HandlesOK' /\ Effect(h, s, ev, old.watch)
  BY <1>1, <1>2, <1>3, <1>11 DEF Effect
<1> QED
  BY <1>4, <1>5, <1>6, <1>7, <1>8, <1>9, <1>10, <1>11

\* The library starts a handle.
LEMMA Starting ==
    ASSUME Base, NEW id \in 0 .. Garbage, zookeeper_init(id)
    PROVE  /\ HandlesOK' /\ newh' \in Handles /\ handle[newh'].st = "none"
           /\ Effect(newh', "connecting", handle[newh'].events, handle[newh'].watch)
<1>1. PICK h \in Handles :
          /\ handle[h].st = "none" /\ newh' = h
          /\ handle' = [handle EXCEPT ![h].st = "connecting", ![h].id = id]
  BY DEF zookeeper_init
<1>2. HandlesOK
  BY DEF Base, Types
<1>3. "connecting" \in HandleStates
  BY DEF HandleStates
<1>4. handle[h].events \in Seq(Event) /\ handle[h].watch \in [Keys -> Values]
  BY <1>2, Fields
<1>5. HandlesOK' /\ Effect(h, "connecting", handle[h].events, handle[h].watch)
  BY <1>1, <1>2, <1>3, <1>4, Setting
<1> QED
  BY <1>1, <1>5

\* zookeeper_close.
LEMMA CloseBegins ==
    ASSUME Base, NEW h \in Handles, close_begins(h)
    PROVE  HandlesOK' /\ Effect(h, "closing", handle[h].events, handle[h].watch)
<1>1. HandlesOK
  BY DEF Base, Types
<1>2. "closing" \in HandleStates
  BY DEF HandleStates
<1>3. /\ handle[h].events \in Seq(Event) /\ handle[h].watch \in [Keys -> Values]
      /\ handle[h].id \in 0 .. Garbage
  BY <1>1, Fields
<1> QED
  BY <1>1, <1>2, <1>3, Setting DEF close_begins

\* The answers a handle has to deliver are values.
LEMMA AnswersOK ==
    ASSUME HandlesOK, NEW h \in Handles
    PROVE  Answers(h) \subseteq Values
<1>1. handle[h].events \in Seq(Event)
  BY Fields
<1>2. \A i \in 1 .. Len(handle[h].events) : handle[h].events[i] \in Event
  BY <1>1, ElementOfSeq
<1>3. \A i \in 1 .. Len(handle[h].events) :
         handle[h].events[i].type = "data" => handle[h].events[i].value \in Values
  BY <1>2, Events
<1> QED
  BY <1>3 DEF Answers

\* zookeeper_close at its end: no event and no watch is left.
LEMMA CloseReturns ==
    ASSUME Base, NEW h \in Handles, close_returns(h)
    PROVE  /\ HandlesOK' /\ session' \in 0 .. MaxHandles /\ op_in_progress' \in BOOLEAN
           /\ get_result' \in Values /\ missed' = Keys
           /\ Effect(h, "closed", <<>>, NoHandle.watch)
<1>1. HandlesOK /\ TypeOK
  BY DEF Base, Types
<1>2. session' \in 0 .. MaxHandles /\ op_in_progress' \in BOOLEAN /\ missed' = Keys
  BY <1>1, Bounds DEF close_returns, TypeOK
<1>3. get_result' \in Values
  <2>1. CASE Answers(h) = {}
    BY <2>1, <1>1 DEF close_returns, TypeOK, Values
  <2>2. CASE Answers(h) # {}
    <3>1. (CHOOSE v \in Answers(h) : TRUE) \in Answers(h)
      BY <2>2
    <3> QED
      BY <2>2, <3>1, <1>1, AnswersOK DEF close_returns
  <2> QED
    BY <2>1, <2>2
<1> DEFINE r == [NoHandle EXCEPT !.st = "closed"]
<1>4. r \in Handle /\ r.st = "closed" /\ r.events = <<>> /\ r.watch = NoHandle.watch
  BY NoHandleOK DEF NoHandle
<1>5. handle' = [handle EXCEPT ![h] = r]
  BY DEF close_returns
<1> HIDE DEF r
<1>6. HandlesOK' /\ Effect(h, "closed", <<>>, NoHandle.watch)
  BY <1>1, <1>4, <1>5 DEF HandlesOK, Effect
<1> QED
  BY <1>2, <1>3, <1>6

\* A completion thread takes the oldest event of its handle.
LEMMA Popped ==
    ASSUME HandlesOK, NEW h \in Handles, handle[h].events # <<>>
    PROVE  Head(handle[h].events) \in Event /\ Tail(handle[h].events) \in Seq(Event)
BY Fields, HeadTailProperties

\* my_data_completion takes an answer.
LEMMA Completes ==
    ASSUME Base, NEW h \in Handles, my_data_completion(h)
    PROVE  /\ HandlesOK' /\ get_result' \in Values
           /\ Effect(h, handle[h].st, Tail(handle[h].events), handle[h].watch)
<1>1. HandlesOK
  BY DEF Base, Types
<1>2. handle[h].events # <<>> /\ handle' = [handle EXCEPT ![h].events = Tail(handle[h].events)]
  BY DEF my_data_completion
<1>3. Head(handle[h].events) \in Event /\ Head(handle[h].events).type = "data"
  BY <1>1, <1>2, Popped DEF my_data_completion
<1>4. get_result' \in Values
  <2>1. Head(handle[h].events).value \in Values
    BY <1>3, Events
  <2> QED
    BY <2>1 DEF my_data_completion
<1> QED
  BY <1>1, <1>2, <1>4, Popped, Fields, Setting

\* An open handle is the one close_zk would close.
LEMMA OpenOne ==
    ASSUME Base, NEW h \in Handles, Live(h), zh # 0
    PROVE  h = zh
BY Bounds DEF Base, HandleKept

\* watcher takes an event, and may begin to close the handle it is called for.
LEMMA Watches ==
    ASSUME Base, NEW h \in Handles, watcher(h)
    PROVE  /\ HandlesOK'
           /\ \E s \in {handle[h].st, "closing"} :
                 Effect(h, s, Tail(handle[h].events), handle[h].watch)
<1> DEFINE hs == [handle EXCEPT ![h].events = Tail(handle[h].events)]
           e == Head(handle[h].events)
<1>1. HandlesOK
  BY DEF Base, Types
<1>2. handle[h].events # <<>> /\ Live(h)
  BY DEF watcher, Open, Live
<1>3. handle' = hs \/ (zh # 0 /\ handle' = [hs EXCEPT ![zh].st = "closing"])
  <2>1. CASE e.type = "changed" /\ handle' = hs
    BY <2>1
  <2>2. CASE handle' = hs
    BY <2>2
  <2>3. CASE watcher_close_zk(h, hs)
    BY <2>3 DEF watcher_close_zk
  <2> QED
    BY <2>1, <2>2, <2>3 DEF watcher
<1>4. Tail(handle[h].events) \in Seq(Event) /\ "closing" \in HandleStates
  BY <1>1, <1>2, Popped DEF HandleStates
<1>5. CASE handle' = hs
  BY <1>1, <1>4, <1>5, Fields, Setting
<1>6. CASE zh # 0 /\ handle' = [hs EXCEPT ![zh].st = "closing"]
  <2>1. handle' = [[handle EXCEPT ![h].events = Tail(handle[h].events)] EXCEPT ![h].st = "closing"]
    BY <1>2, <1>6, OpenOne
  <2>2. HandlesOK' /\ Effect(h, "closing", Tail(handle[h].events), handle[h].watch)
    BY <1>1, <1>4, <2>1, Fields, Setting
  <2> QED
    BY <2>2
<1> QED
  BY <1>3, <1>5, <1>6

\* A fetch sets a watch of the key again.
LEMMA Fetches ==
    ASSUME Base, NEW k \in Keys, watcher_fetched(k)
    PROVE  /\ HandlesOK' /\ wpc.h \in Handles
           /\ Effect(wpc.h, handle[wpc.h].st, handle[wpc.h].events,
                     [handle[wpc.h].watch EXCEPT ![k] = store[k]])
<1>1. HandlesOK
  BY DEF Base, Types
<1>2. wpc.h \in Handles
  BY Bounds DEF Base, Types, TypeOK, Closing, watcher_fetched
<1>3. [handle[wpc.h].watch EXCEPT ![k] = store[k]] \in [Keys -> Values]
  <2>1. store[k] \in Values
    BY Bounds DEF Base, Types, TypeOK
  <2> QED
    BY <1>1, <1>2, <2>1, Fields
<1>4. handle' = [handle EXCEPT ![wpc.h].watch = [handle[wpc.h].watch EXCEPT ![k] = store[k]]]
  BY DEF watcher_fetched, zoo_wget
<1> DEFINE w == [handle[wpc.h].watch EXCEPT ![k] = store[k]]
<1>5. w \in [Keys -> Values] /\ handle' = [handle EXCEPT ![wpc.h].watch = w]
  BY <1>3, <1>4
<1> HIDE DEF w
<1>6. HandlesOK' /\ Effect(wpc.h, handle[wpc.h].st, handle[wpc.h].events, w)
  BY <1>1, <1>2, <1>5, Fields, Setting
<1> QED
  BY <1>2, <1>6 DEF w

\* A fetch that fails may make the watcher close the handle.
LEMMA FetchFails ==
    ASSUME Base, NEW k \in Keys, watcher_fetch_failed(k)
    PROVE  /\ HandlesOK'
           /\ \/ UNCHANGED handle
              \/ zh \in Handles /\ Effect(zh, "closing", handle[zh].events, handle[zh].watch)
<1>1. HandlesOK
  BY DEF Base, Types
<1>2. CASE handle' = handle
  BY <1>1, <1>2 DEF HandlesOK, Handle, Event, SessionEvent, ChangedEvent, DataEvent
<1>3. CASE zh # 0 /\ handle' = [handle EXCEPT ![zh].st = "closing"]
  <2>1. zh \in Handles
    BY <1>3, Bounds DEF Base, Types, TypeOK
  <2>2. "closing" \in HandleStates
    BY DEF HandleStates
  <2> QED
    BY <1>1, <1>3, <2>1, <2>2, Fields, Setting
<1> QED
  BY <1>2, <1>3 DEF watcher_fetch_failed, watcher_close_zk

\* What the library adds to the events of a handle.
LEMMA Added ==
    ASSUME HandlesOK, NEW h \in Handles, NEW e \in Event
    PROVE  Append(handle[h].events, e) \in Seq(Event) /\ <<e>> \in Seq(Event)
<1>1. Append(handle[h].events, e) \in Seq(Event)
  BY Fields, AppendProperties
<1>2. <<e>> \in Seq(Event)
  <2> DEFINE E == Event
  <2>1. e \in E
    OBVIOUS
  <2> HIDE DEF E
  <2>2. <<e>> \in Seq(E)
    BY <2>1
  <2> QED
    BY <2>2 DEF E
<1> QED
  BY <1>1, <1>2

\* A server accepts the session or says that it expired.
LEMMA ServerAnswers ==
    ASSUME Base, NEW h \in Handles, server_answers(h)
    PROVE  /\ HandlesOK' /\ session' \in 0 .. MaxHandles
           /\ \E s \in {"connected", "expired"}, t \in States, i \in 0 .. MaxHandles :
                 Effect(h, s, Append(handle[h].events, Session(t, i)), handle[h].watch)
<1> DEFINE id == IF handle[h].id = 0 THEN h ELSE handle[h].id
<1>1. HandlesOK /\ session \in 0 .. MaxHandles /\ h \in 0 .. MaxHandles
  BY Bounds DEF Base, Types, TypeOK
<1>2. CASE handle[h].id \in {0, session}
  <2>1. id \in 0 .. MaxHandles /\ id \in 0 .. Garbage
    BY <1>1, <1>2, Bounds
  <2>2. /\ handle' = [handle EXCEPT ![h].st = "connected", ![h].id = id,
                        ![h].events = Append(handle[h].events, Session("connected", id))]
        /\ session' = id
    BY <1>2 DEF server_answers
  <2> HIDE DEF id
  <2>3. Session("connected", id) \in Event /\ "connected" \in States
    BY <2>1, Events DEF States
  <2>4. Append(handle[h].events, Session("connected", id)) \in Seq(Event) /\ "connected" \in HandleStates
    BY <1>1, <2>3, Added DEF HandleStates
  <2>5. HandlesOK' /\ Effect(h, "connected", Append(handle[h].events, Session("connected", id)),
                            handle[h].watch)
    BY <1>1, <2>1, <2>2, <2>4, Fields, Setting
  <2> QED
    BY <2>1, <2>2, <2>3, <2>5
<1>3. CASE handle[h].id \notin {0, session}
  <2>1. /\ handle' = [handle EXCEPT ![h].st = "expired",
                        ![h].events = Append(handle[h].events, Session("expired", 0))]
        /\ session' = session
    BY <1>3 DEF server_answers
  <2>2. Session("expired", 0) \in Event /\ "expired" \in States /\ 0 \in 0 .. MaxHandles
    BY Bounds, Events DEF States
  <2>3. Append(handle[h].events, Session("expired", 0)) \in Seq(Event) /\ "expired" \in HandleStates
    BY <1>1, <2>2, Added DEF HandleStates
  <2>4. HandlesOK' /\ Effect(h, "expired", Append(handle[h].events, Session("expired", 0)),
                            handle[h].watch)
    BY <1>1, <2>1, <2>3, Fields, Setting
  <2> QED
    BY <1>1, <2>1, <2>2, <2>4
<1> QED
  BY <1>2, <1>3

\* The error that answers a request under way.
Failing(h) == IF Unanswered(h) THEN <<Data(0)>> ELSE <<>>

\* A lost connection: the request under way fails, then the state is reported.
LEMMA ConnectionLost ==
    ASSUME Base, NEW h \in Handles, connection_lost(h)
    PROVE  /\ HandlesOK' /\ Failing(h) \in Seq(Event) /\ Session("connecting", 0) \in Event
           /\ Effect(h, "connecting",
                     handle[h].events \o Failing(h) \o <<Session("connecting", 0)>>, handle[h].watch)
<1>1. HandlesOK
  BY DEF Base, Types
<1>2. Session("connecting", 0) \in Event /\ Data(0) \in Event
  BY Bounds, Events DEF States
<1>3. Failing(h) \in Seq(Event)
  <2>1. <<Data(0)>> \in Seq(Event)
    BY <1>1, <1>2, Added
  <2>2. <<>> \in Seq(Event)
    BY EmptySeq
  <2> QED
    BY <2>1, <2>2 DEF Failing
<1> DEFINE ev == handle[h].events \o Failing(h) \o <<Session("connecting", 0)>>
<1>4. ev \in Seq(Event)
  <2>1. <<Session("connecting", 0)>> \in Seq(Event)
    BY <1>1, <1>2, Added
  <2> QED
    BY <1>1, <1>3, <2>1, Fields, ConcatProperties
<1>5. handle' = [handle EXCEPT ![h].st = "connecting", ![h].events = ev]
  BY DEF connection_lost, Failing
<1>6. "connecting" \in HandleStates
  BY DEF HandleStates
<1> HIDE DEF ev
<1>7. HandlesOK' /\ Effect(h, "connecting", ev, handle[h].watch)
  BY <1>1, <1>4, <1>5, <1>6, Fields, Setting
<1> QED
  BY <1>2, <1>3, <1>7 DEF ev

\* A read-only server is reported.
LEMMA ReadOnly ==
    ASSUME Base, NEW h \in Handles, readonly_server(h)
    PROVE  /\ HandlesOK' /\ Session("readonly", 0) \in Event
           /\ Effect(h, "readonly", Append(handle[h].events, Session("readonly", 0)), handle[h].watch)
<1>1. HandlesOK
  BY DEF Base, Types
<1>2. Session("readonly", 0) \in Event
  BY Bounds, Events DEF States
<1>3. Append(handle[h].events, Session("readonly", 0)) \in Seq(Event) /\ "readonly" \in HandleStates
  BY <1>1, <1>2, Added DEF HandleStates
<1>4. handle' = [handle EXCEPT ![h].st = "readonly",
                               ![h].events = Append(handle[h].events, Session("readonly", 0))]
  BY DEF readonly_server
<1> QED
  BY <1>1, <1>2, <1>3, <1>4, Fields, Setting

\* The value of k with a watch of k, or an error.
LEMMA Answer ==
    ASSUME Base, NEW h \in Handles, request_answered(h)
    PROVE  /\ HandlesOK'
           /\ \E k \in caller.key :
                 \/ /\ handle[h].st = "connected" /\ missed' = missed \ {k}
                    /\ store[k] \in Values /\ store[k] # 0
                    /\ Effect(h, "connected", Append(handle[h].events, Data(store[k])),
                              [handle[h].watch EXCEPT ![k] = store[k]])
                 \/ /\ handle[h].st \in {"connecting", "readonly"} /\ missed' = missed
                    /\ Effect(h, handle[h].st, Append(handle[h].events, Data(0)), handle[h].watch)
<1>1. HandlesOK /\ caller.key \subseteq Keys
  BY DEF Base, Types, TypeOK
<1>2. PICK k \in caller.key :
          \/ /\ handle[h].st = "connected"
             /\ handle' = [handle EXCEPT ![h].watch[k] = store[k],
                                         ![h].events = Append(@, Data(store[k]))]
             /\ missed' = missed \ {k}
          \/ /\ handle[h].st \in {"connecting", "readonly"}
             /\ handle' = [handle EXCEPT ![h].events = Append(@, Data(0))]
             /\ UNCHANGED missed
  BY DEF request_answered
<1>3. k \in Keys /\ store[k] \in Values /\ store[k] # 0 /\ 0 \in Values
  BY <1>1, Bounds DEF Base, Types, TypeOK
<1>4. Data(store[k]) \in Event /\ Data(0) \in Event
  BY <1>3, Events
<1>5. CASE /\ handle[h].st = "connected"
           /\ handle' = [handle EXCEPT ![h].watch[k] = store[k],
                                       ![h].events = Append(@, Data(store[k]))]
           /\ missed' = missed \ {k}
  <2> DEFINE ev == Append(handle[h].events, Data(store[k]))
             w == [handle[h].watch EXCEPT ![k] = store[k]]
  <2>1. ev \in Seq(Event) /\ w \in [Keys -> Values]
    BY <1>1, <1>3, <1>4, Added, Fields
  <2>2. handle' = [handle EXCEPT ![h].watch = w, ![h].events = ev]
    BY <1>5
  <2> HIDE DEF ev, w
  <2>3. HandlesOK' /\ Effect(h, handle[h].st, ev, w)
    BY <1>1, <2>1, <2>2, Fields, Setting
  <2>4. Effect(h, "connected", ev, w)
    BY <1>5, <2>3
  <2> QED
    BY <1>3, <1>5, <2>3, <2>4 DEF ev, w
<1>6. CASE /\ handle[h].st \in {"connecting", "readonly"}
           /\ handle' = [handle EXCEPT ![h].events = Append(@, Data(0))]
           /\ UNCHANGED missed
  <2>1. Append(handle[h].events, Data(0)) \in Seq(Event)
    BY <1>1, <1>4, Added
  <2>2. HandlesOK' /\ Effect(h, handle[h].st, Append(handle[h].events, Data(0)), handle[h].watch)
    BY <1>1, <1>6, <2>1, Fields, Setting
  <2> QED
    BY <1>6, <2>2
<1> QED
  BY <1>2, <1>5, <1>6

\* The library reports a change of a node and drops its watch.
LEMMA WatchFires ==
    ASSUME Base, NEW h \in Handles, NEW k \in Keys, watch_fires(h, k)
    PROVE  /\ HandlesOK'
           /\ Effect(h, handle[h].st, Append(handle[h].events, Changed(k)),
                     [handle[h].watch EXCEPT ![k] = 0])
<1>1. HandlesOK
  BY DEF Base, Types
<1> DEFINE ev == Append(handle[h].events, Changed(k))
           w == [handle[h].watch EXCEPT ![k] = 0]
<1>2. ev \in Seq(Event) /\ w \in [Keys -> Values]
  BY <1>1, Added, Events, Fields, Bounds
<1>3. handle' = [handle EXCEPT ![h].watch = w, ![h].events = ev]
  BY DEF watch_fires
<1> HIDE DEF ev, w
<1>4. HandlesOK' /\ Effect(h, handle[h].st, ev, w)
  BY <1>1, <1>2, <1>3, Fields, Setting
<1> QED
  BY <1>4 DEF ev, w

-----------------------------------------------------------------------------
(* Types, close_mutex and the handle                                       *)

\* A step that leaves the handles alone keeps their types.
LEMMA SameHandles == HandlesOK /\ UNCHANGED handle => HandlesOK'
BY DEF HandlesOK, Handle, Event, SessionEvent, ChangedEvent, DataEvent

\* The variables keep their types.
LEMMA TypeStep == Base /\ [Next]_vars => TypeOK'
<1> SUFFICES ASSUME Base, [Next]_vars PROVE TypeOK'
  OBVIOUS
<1> USE DEF zkVars, opVars, watchVars, libVars
<1>1. ASSUME connect PROVE TypeOK'
  BY <1>1, Bounds, ZkAssumption DEF connect, Base, Types, TypeOK
<1>2. ASSUME connect_returns PROVE TypeOK'
  BY <1>2, Bounds DEF connect_returns, Base, Types, TypeOK
<1>3. ASSUME NEW k \in Keys, get_data(k) PROVE TypeOK'
  BY <1>3, Bounds DEF get_data, Base, Types, TypeOK
<1>4. ASSUME iterate_and_load_keys PROVE TypeOK'
  BY <1>4, Bounds DEF iterate_and_load_keys, Base, Types, TypeOK
<1>5. ASSUME shutdown PROVE TypeOK'
  BY <1>5, Bounds DEF shutdown, Base, Types, TypeOK
<1>6. ASSUME is_running PROVE TypeOK'
  BY <1>6, Bounds DEF is_running, Base, Types, TypeOK
<1>7. ASSUME connect_internal PROVE TypeOK'
  BY <1>7, Bounds, Starting DEF connect_internal, Base, Types, TypeOK
<1>8. ASSUME zookeeper_init_returns PROVE TypeOK'
  BY <1>8, Bounds DEF zookeeper_init_returns, Base, Types, TypeOK
<1>9. ASSUME schedule_repeat_timer PROVE TypeOK'
  BY <1>9, Bounds DEF schedule_repeat_timer, Base, Types, TypeOK
<1>10. ASSUME close_zk_begins PROVE TypeOK'
  BY <1>10, Bounds, CloseBegins DEF close_zk_begins, close_mutex_free, Base, Types, TypeOK
<1>11. ASSUME close_zk PROVE TypeOK'
  <2>1. TypeOK
    BY DEF Base, Types
  <2>2. /\ session' \in 0 .. MaxHandles /\ op_in_progress' \in BOOLEAN
        /\ get_result' \in Values /\ missed' \subseteq Keys
    <3>1. CASE zh # 0
      <4>1. zh \in Handles /\ close_returns(zh)
        BY <1>11, <2>1, <3>1, Bounds DEF TypeOK, close_zk
      <4> QED
        BY <4>1, CloseReturns
    <3>2. CASE zh = 0
      BY <1>11, <2>1, <3>2 DEF TypeOK, Values, close_zk, Base, Closing
    <3> QED
      BY <3>1, <3>2
  <2> QED
    BY <1>11, <2>1, <2>2, Bounds DEF close_zk, TypeOK, Values, Idle
<1>12. ASSUME retry_or_break PROVE TypeOK'
  <2>1. TypeOK
    BY DEF Base, Types
  <2>2. retry_count' \in 0 .. MAX_RETRY
    BY <1>12, <2>1, ZkAssumption DEF retry_or_break, retries_left, retry_connection, TypeOK
  <2>3. newh' \in 0 .. MaxHandles
    <3>1. CASE newh' = newh
      BY <2>1, <3>1 DEF TypeOK
    <3>2. ASSUME NEW id \in 0 .. Garbage, zookeeper_init(id) PROVE newh' \in 0 .. MaxHandles
      BY <3>2, Starting, Bounds
    <3>3. myid \in 0 .. Garbage /\ 0 \in 0 .. Garbage
      BY <2>1, Bounds DEF TypeOK
    <3> QED
      BY <1>12, <3>1, <3>2, <3>3 DEF retry_or_break, retry_connection
  <2>4. zkpc' \in {"loop", "retry"} /\ stop' \in BOOLEAN
    BY <1>12, <2>1 DEF retry_or_break, retry_connection, TypeOK
  <2> QED
    BY <1>12, <2>1, <2>2, <2>3, <2>4 DEF retry_or_break, TypeOK
<1>13. ASSUME mainloop_exits PROVE TypeOK'
  BY <1>13, Bounds, CloseBegins DEF mainloop_exits, Base, Types, TypeOK
<1>14. ASSUME thread_exits PROVE TypeOK'
  <2>1. TypeOK
    BY DEF Base, Types
  <2>2. /\ session' \in 0 .. MaxHandles /\ op_in_progress' \in BOOLEAN
        /\ get_result' \in Values /\ missed' \subseteq Keys
    <3>1. CASE zh # 0
      <4>1. zh \in Handles /\ close_returns(zh)
        BY <1>14, <2>1, <3>1, Bounds DEF TypeOK, thread_exits
      <4> QED
        BY <4>1, CloseReturns
    <3>2. CASE zh = 0
      BY <1>14, <2>1, <3>2 DEF TypeOK, Values, thread_exits, Base, Closing
    <3> QED
      BY <3>1, <3>2
  <2> QED
    BY <1>14, <2>1, <2>2, Bounds DEF thread_exits, TypeOK, Values, Idle
<1>15. ASSUME NEW h \in Handles, my_data_completion(h) PROVE TypeOK'
  <2>1. get_result' \in Values
    BY <1>15, Completes
  <2> QED
    <3>1. TypeOK /\ op_in_progress' = FALSE
      BY <1>15 DEF my_data_completion, Base, Types
    <3>2. UNCHANGED <<caller, zkpc, zkVars, stop, watchVars, configs, session, store, faults, missed>>
      BY <1>15 DEF my_data_completion
    <3>3. get_result' \in 0 .. MaxChanges + 1 /\ op_in_progress' \in BOOLEAN
      BY <2>1, <3>1 DEF Values
    <3>4. /\ {running, timer, stop, op_in_progress}' \subseteq BOOLEAN
      BY <3>1, <3>2, <3>3 DEF TypeOK
    <3> QED
      BY <3>1, <3>2, <3>3, <3>4 DEF TypeOK
<1>16. ASSUME NEW h \in Handles, watcher(h) PROVE TypeOK'
  <2> DEFINE e == Head(handle[h].events)
  <2>1. TypeOK /\ HandlesOK
    BY DEF Base, Types
  <2>2. e \in Event
    BY <1>16, <2>1, Popped DEF watcher
  <2>3. wpc' \in [h : 0 .. MaxHandles, pc : {"idle", "changed", "pending", "close"}, todo : SUBSET Keys]
    <3>1. CASE e.type = "changed" /\ wpc' = [h |-> h, pc |-> "changed", todo |-> {e.key}]
      <4>1. e.key \in Keys
        BY <2>2, <3>1, Events
      <4> QED
        BY <3>1, <4>1, Bounds
    <3>2. CASE wpc' = [h |-> h, pc |-> "pending", todo |-> pending_config_updates]
      BY <2>1, <3>2, Bounds DEF TypeOK
    <3>3. CASE wpc' = [h |-> h, pc |-> "close", todo |-> {}]
      BY <3>3, Bounds
    <3>4. CASE wpc' = Idle
      BY <3>4, Bounds DEF Idle
    <3> QED
      BY <1>16, <3>1, <3>2, <3>3, <3>4 DEF watcher, watcher_close_zk
  <2>4. connection_state' \in States /\ myid' \in 0 .. Garbage
    <3>1. CASE e.type = "changed" /\ connection_state' = "connected" /\ UNCHANGED myid
      BY <2>1, <3>1 DEF States, TypeOK
    <3>2. CASE e.type = "session" /\ connection_state' = "connected" /\ myid' = e.id
      <4>1. e.id \in 0 .. MaxHandles
        BY <2>2, <3>2, Events
      <4> QED
        BY <3>2, <4>1, Bounds DEF States
    <3>3. CASE e.type = "session" /\ connection_state' = e.state /\ UNCHANGED myid
      <4>1. e.state \in States
        BY <2>2, <3>3, Events
      <4> QED
        BY <2>1, <3>3, <4>1 DEF TypeOK
    <3> QED
      BY <1>16, <3>1, <3>2, <3>3 DEF watcher
  <2>5. /\ retry_count' \in 0 .. MAX_RETRY /\ connection_in_progress' \in BOOLEAN
        /\ pending_config_updates' \subseteq Keys
    BY <1>16, <2>1, Bounds DEF watcher, session_up, TypeOK
  <2> HIDE DEF e
  <2>6. UNCHANGED <<caller, zkpc, zh, newh, running, timer, stop, opVars, configs, session, store,
                    faults, missed>>
    BY <1>16 DEF watcher
  <2> QED
    BY <2>1, <2>3, <2>4, <2>5, <2>6 DEF TypeOK, States
<1>17. ASSUME NEW k \in Keys, watcher_fetched(k) PROVE TypeOK'
  <2>1. TypeOK
    BY DEF Base, Types
  <2>2. wpc' \in [h : 0 .. MaxHandles, pc : {"idle", "changed", "pending", "close"}, todo : SUBSET Keys]
    BY <1>17, <2>1, Bounds DEF watcher_fetched, TypeOK, Idle
  <2>3. configs' \in [Keys -> Values]
    <3>1. configs' = [configs EXCEPT ![k] = IF configs[k] = 0 THEN 0 ELSE store[k]]
      BY <1>17 DEF watcher_fetched, try_update_value
    <3>2. store[k] \in Values /\ configs \in [Keys -> Values] /\ 0 \in Values
      BY <2>1, Bounds DEF TypeOK, Values
    <3> QED
      BY <3>1, <3>2
  <2>4. /\ retry_count' \in 0 .. MAX_RETRY /\ connection_in_progress' \in BOOLEAN
        /\ pending_config_updates' \subseteq Keys /\ missed' \subseteq Keys
    BY <1>17, <2>1, Bounds DEF watcher_fetched, session_up, TypeOK
  <2> QED
    BY <1>17, <2>1, <2>2, <2>3, <2>4 DEF watcher_fetched, TypeOK, Values
<1>18. ASSUME NEW k \in Keys, watcher_fetch_failed(k) PROVE TypeOK'
  BY <1>18, Bounds, FetchFails DEF watcher_fetch_failed, push_back, watcher_close_zk, Idle,
     Base, Types, TypeOK
<1>19. ASSUME watcher_close_returns PROVE TypeOK'
  <2>1. TypeOK
    BY DEF Base, Types
  <2>2. /\ session' \in 0 .. MaxHandles /\ op_in_progress' \in BOOLEAN
        /\ get_result' \in Values /\ missed' \subseteq Keys
    <3>1. CASE zh # 0
      <4>1. zh \in Handles /\ close_returns(zh)
        BY <1>19, <2>1, <3>1, Bounds DEF TypeOK, watcher_close_returns
      <4> QED
        BY <4>1, CloseReturns
    <3>2. CASE zh = 0
      BY <1>19, <2>1, <3>2 DEF TypeOK, Values, watcher_close_returns, Base, Closing
    <3> QED
      BY <3>1, <3>2
  <2> QED
    BY <1>19, <2>1, <2>2, Bounds DEF watcher_close_returns, TypeOK, Values, Idle
<1>20. ASSUME NEW h \in Handles, server_answers(h) PROVE TypeOK'
  <2>1. session' \in 0 .. MaxHandles /\ TypeOK
    BY <1>20, ServerAnswers DEF Base, Types
  <2>2. UNCHANGED <<caller, zkpc, zkVars, stop, watchVars, opVars, configs, store, faults, missed>>
    BY <1>20 DEF server_answers, libUnchanged
  <2> QED
    BY <2>1, <2>2 DEF TypeOK
<1>21. ASSUME NEW h \in Handles, connection_lost(h) PROVE TypeOK'
  <2>1. faults' \in 0 .. MaxFaults /\ TypeOK
    <3>1. TypeOK /\ faults \in 0 .. MaxFaults
      BY DEF Base, Types, TypeOK
    <3>2. faults < MaxFaults /\ faults' = faults + 1
      BY <1>21 DEF connection_lost
    <3> QED
      BY <3>1, <3>2, ZkAssumption
  <2>2. UNCHANGED <<caller, zkpc, zkVars, stop, watchVars, opVars, configs, session, store, missed>>
    BY <1>21 DEF connection_lost, libUnchanged
  <2> QED
    BY <2>1, <2>2 DEF TypeOK
<1>22. ASSUME NEW h \in Handles, readonly_server(h) PROVE TypeOK'
  <2>1. faults' \in 0 .. MaxFaults /\ TypeOK
    <3>1. TypeOK /\ faults \in 0 .. MaxFaults
      BY DEF Base, Types, TypeOK
    <3>2. faults < MaxFaults /\ faults' = faults + 1
      BY <1>22 DEF readonly_server
    <3> QED
      BY <3>1, <3>2, ZkAssumption
  <2>2. UNCHANGED <<caller, zkpc, zkVars, stop, watchVars, opVars, configs, session, store, missed>>
    BY <1>22 DEF readonly_server, libUnchanged
  <2> QED
    BY <2>1, <2>2 DEF TypeOK
<1>23. ASSUME NEW h \in Handles, request_answered(h) PROVE TypeOK'
  <2>1. missed' \subseteq Keys /\ TypeOK
    <3>1. TypeOK /\ missed \subseteq Keys
      BY DEF Base, Types, TypeOK
    <3>2. missed' \subseteq missed
      BY <1>23 DEF request_answered
    <3> QED
      BY <3>1, <3>2
  <2>2. UNCHANGED <<caller, zkpc, zkVars, stop, watchVars, opVars, configs, session, store, faults>>
    BY <1>23 DEF request_answered, libUnchanged
  <2> QED
    BY <2>1, <2>2 DEF TypeOK
<1>24. ASSUME session_lost PROVE TypeOK'
  BY <1>24, Bounds, ZkAssumption DEF session_lost, libUnchanged, Base, Types, TypeOK
<1>25. ASSUME NEW k \in Keys, node_changes(k) PROVE TypeOK'
  BY <1>25, Bounds, ZkAssumption DEF node_changes, libUnchanged, Base, Types, TypeOK
<1>26. ASSUME NEW h \in Handles, NEW k \in Keys, watch_fires(h, k) PROVE TypeOK'
  BY <1>26, Bounds, WatchFires DEF watch_fires, libUnchanged, Base, Types, TypeOK
<1>27. CASE UNCHANGED vars
  BY <1>27, Bounds DEF vars, Base, Types, TypeOK
<1>28. ASSUME check_connection PROVE TypeOK'
  BY <1>28, Bounds DEF check_connection, Base, Types, TypeOK
<1>29. ASSUME zoo_aget PROVE TypeOK'
  <2>1. TypeOK
    BY DEF Base, Types
  <2>2. CASE caller' = [caller EXCEPT !.pc = "waiting"] /\ op_in_progress' = TRUE /\ get_result' = 0
    BY <1>29, <2>1, <2>2, Bounds DEF zoo_aget, TypeOK, Values
  <2>3. CASE caller' = [caller EXCEPT !.pc = "failed"] /\ UNCHANGED opVars
    BY <1>29, <2>1, <2>3 DEF zoo_aget, TypeOK
  <2> QED
    BY <1>29, <2>2, <2>3 DEF zoo_aget
<1> QED
  BY <1>1, <1>2, <1>3, <1>4, <1>5, <1>6, <1>7, <1>8, <1>9, <1>10, <1>11, <1>12, <1>13, <1>14,
     <1>15, <1>16, <1>17, <1>18, <1>19, <1>20, <1>21, <1>22, <1>23, <1>24, <1>25, <1>26, <1>27,
     <1>28, <1>29 DEF Next, zk_thread, completion_thread, server_thread

\* close_mutex admits one thread, as long as it goes through close_zk.
LEMMA ClosingStep == Base /\ [Next]_vars => Closing'
<1> SUFFICES ASSUME Base, [Next]_vars PROVE Closing'
  OBVIOUS
<1> USE DEF zkVars, opVars, watchVars, libVars
<1>1. ASSUME connect PROVE Closing'
  BY <1>1, Bounds DEF connect, Base, Types, TypeOK, Closing
<1>2. ASSUME connect_returns PROVE Closing'
  BY <1>2, Bounds DEF connect_returns, Base, Types, TypeOK, Closing
<1>3. ASSUME NEW k \in Keys, get_data(k) PROVE Closing'
  BY <1>3, Bounds DEF get_data, Base, Types, TypeOK, Closing
<1>4. ASSUME iterate_and_load_keys PROVE Closing'
  BY <1>4, Bounds DEF iterate_and_load_keys, Base, Types, TypeOK, Closing
<1>5. ASSUME shutdown PROVE Closing'
  BY <1>5, Bounds DEF shutdown, Base, Types, TypeOK, Closing
<1>6. ASSUME is_running PROVE Closing'
  BY <1>6, Bounds DEF is_running, Base, Types, TypeOK, Closing
<1>7. ASSUME connect_internal PROVE Closing'
  BY <1>7, Bounds, Starting DEF connect_internal, Base, Types, TypeOK, Closing
<1>8. ASSUME zookeeper_init_returns PROVE Closing'
  BY <1>8, Bounds DEF zookeeper_init_returns, Base, Types, TypeOK, Closing
<1>9. ASSUME schedule_repeat_timer PROVE Closing'
  BY <1>9, Bounds DEF schedule_repeat_timer, Base, Types, TypeOK, Closing
<1>10. ASSUME close_zk_begins PROVE Closing'
  BY <1>10, Bounds, CloseBegins DEF close_zk_begins, close_mutex_free, Base, Types, TypeOK,
     Closing
<1>11. ASSUME close_zk PROVE Closing'
  BY <1>11, Bounds, CloseReturns DEF close_zk, Base, Types, TypeOK, Closing
<1>12. ASSUME retry_or_break PROVE Closing'
  BY <1>12, Bounds, Starting DEF retry_or_break, retries_left, retry_connection, use_fresh,
     Base, Types, TypeOK, Closing
<1>13. ASSUME mainloop_exits PROVE Closing'
  BY <1>13, Bounds, CloseBegins DEF mainloop_exits, Base, Types, TypeOK, Closing
<1>14. ASSUME thread_exits PROVE Closing'
  BY <1>14, Bounds, CloseReturns DEF thread_exits, Base, Types, TypeOK, Closing
<1>15. ASSUME NEW h \in Handles, my_data_completion(h) PROVE Closing'
  BY <1>15, Bounds, Completes DEF my_data_completion, Base, Types, TypeOK, Closing
<1>16. ASSUME NEW h \in Handles, watcher(h) PROVE Closing'
  <2>1. Closing /\ UNCHANGED <<zh, zkpc>> /\ wpc.pc = "idle" /\ h # 0
    BY <1>16, Bounds DEF watcher, Base, Idle
  <2>2. wpc' = Idle \/ wpc'.h = h
    BY <1>16 DEF watcher, watcher_close_zk
  <2>3. wpc'.pc = "close" => zkpc # "close"
    BY <1>16 DEF watcher, watcher_close_zk, close_mutex_free, Idle
  <2> QED
    BY <2>1, <2>2, <2>3 DEF Closing, Idle
<1>17. ASSUME NEW k \in Keys, watcher_fetched(k) PROVE Closing'
  BY <1>17, Bounds, Fetches DEF watcher_fetched, session_up, try_update_value, Idle, Base,
     Types, TypeOK, Closing
<1>18. ASSUME NEW k \in Keys, watcher_fetch_failed(k) PROVE Closing'
  <2>1. Closing /\ UNCHANGED <<zh, zkpc>> /\ wpc.h # 0
    BY <1>18 DEF watcher_fetch_failed, Base, Closing
  <2>2. wpc' = Idle \/ wpc'.h = wpc.h
    BY <1>18 DEF watcher_fetch_failed, watcher_close_zk
  <2>3. wpc'.pc = "close" => zkpc # "close"
    BY <1>18 DEF watcher_fetch_failed, watcher_close_zk, close_mutex_free, Idle
  <2> QED
    BY <2>1, <2>2, <2>3 DEF Closing, Idle
<1>19. ASSUME watcher_close_returns PROVE Closing'
  BY <1>19, Bounds, CloseReturns DEF watcher_close_returns, Idle, Base, Types, TypeOK, Closing
<1>20. ASSUME NEW h \in Handles, server_answers(h) PROVE Closing'
  BY <1>20, Bounds, ServerAnswers DEF server_answers, libUnchanged, Base, Types, TypeOK, Closing
<1>21. ASSUME NEW h \in Handles, connection_lost(h) PROVE Closing'
  BY <1>21, Bounds, ConnectionLost DEF connection_lost, libUnchanged, Base, Types, TypeOK, Closing
<1>22. ASSUME NEW h \in Handles, readonly_server(h) PROVE Closing'
  BY <1>22, Bounds, ReadOnly DEF readonly_server, libUnchanged, Base, Types, TypeOK, Closing
<1>23. ASSUME NEW h \in Handles, request_answered(h) PROVE Closing'
  BY <1>23, Bounds, Answer DEF request_answered, libUnchanged, Base, Types, TypeOK, Closing
<1>24. ASSUME session_lost PROVE Closing'
  BY <1>24, Bounds DEF session_lost, libUnchanged, Base, Types, TypeOK, Closing
<1>25. ASSUME NEW k \in Keys, node_changes(k) PROVE Closing'
  BY <1>25, Bounds DEF node_changes, libUnchanged, Base, Types, TypeOK, Closing
<1>26. ASSUME NEW h \in Handles, NEW k \in Keys, watch_fires(h, k) PROVE Closing'
  BY <1>26, Bounds, WatchFires DEF watch_fires, libUnchanged, Base, Types, TypeOK, Closing
<1>27. CASE UNCHANGED vars
  BY <1>27, Bounds DEF vars, Base, Types, TypeOK, Closing
<1>28. ASSUME check_connection PROVE Closing'
  BY <1>28, Bounds DEF check_connection, Base, Types, TypeOK, Closing
<1>29. ASSUME zoo_aget PROVE Closing'
  BY <1>29, Bounds DEF zoo_aget, Base, Types, TypeOK, Closing
<1> QED
  BY <1>1, <1>2, <1>3, <1>4, <1>5, <1>6, <1>7, <1>8, <1>9, <1>10, <1>11, <1>12, <1>13, <1>14,
     <1>15, <1>16, <1>17, <1>18, <1>19, <1>20, <1>21, <1>22, <1>23, <1>24, <1>25, <1>26, <1>27,
     <1>28, <1>29 DEF Next, zk_thread, completion_thread, server_thread

\* The handles keep their types.
LEMMA HandlesStep == Base /\ [Next]_vars => HandlesOK'
<1> SUFFICES ASSUME Base, [Next]_vars PROVE HandlesOK'
  OBVIOUS
<1> USE DEF zkVars, opVars, watchVars, libVars
<1>1. ASSUME connect PROVE HandlesOK'
  <2>1. UNCHANGED handle
    BY <1>1 DEF connect, libUnchanged
  <2> QED
    BY <2>1, SameHandles DEF Base, Types
<1>2. ASSUME connect_returns PROVE HandlesOK'
  <2>1. UNCHANGED handle
    BY <1>2 DEF connect_returns, libUnchanged
  <2> QED
    BY <2>1, SameHandles DEF Base, Types
<1>3. ASSUME NEW k \in Keys, get_data(k) PROVE HandlesOK'
  <2>1. UNCHANGED handle
    BY <1>3 DEF get_data, libUnchanged
  <2> QED
    BY <2>1, SameHandles DEF Base, Types
<1>4. ASSUME iterate_and_load_keys PROVE HandlesOK'
  <2>1. UNCHANGED handle
    BY <1>4 DEF iterate_and_load_keys, libUnchanged
  <2> QED
    BY <2>1, SameHandles DEF Base, Types
<1>5. ASSUME shutdown PROVE HandlesOK'
  <2>1. UNCHANGED handle
    BY <1>5 DEF shutdown, libUnchanged
  <2> QED
    BY <2>1, SameHandles DEF Base, Types
<1>6. ASSUME is_running PROVE HandlesOK'
  <2>1. UNCHANGED handle
    BY <1>6 DEF is_running, libUnchanged
  <2> QED
    BY <2>1, SameHandles DEF Base, Types
<1>7. ASSUME connect_internal PROVE HandlesOK'
  <2>1. CASE UNCHANGED handle
    BY <2>1, SameHandles DEF Base, Types
  <2>2. \A id \in 0 .. Garbage : zookeeper_init(id) => HandlesOK'
    BY Starting
  <2>3. myid \in 0 .. Garbage /\ 0 \in 0 .. Garbage
    BY Bounds DEF Base, Types, TypeOK
  <2> QED
    BY <1>7, <2>1, <2>2, <2>3 DEF connect_internal
<1>8. ASSUME zookeeper_init_returns PROVE HandlesOK'
  <2>1. UNCHANGED handle
    BY <1>8 DEF zookeeper_init_returns, libUnchanged
  <2> QED
    BY <2>1, SameHandles DEF Base, Types
<1>9. ASSUME schedule_repeat_timer PROVE HandlesOK'
  <2>1. UNCHANGED handle
    BY <1>9 DEF schedule_repeat_timer, libUnchanged
  <2> QED
    BY <2>1, SameHandles DEF Base, Types
<1>10. ASSUME close_zk_begins PROVE HandlesOK'
  <2>1. CASE UNCHANGED handle
    BY <2>1, SameHandles DEF Base, Types
  <2>2. CASE zh # 0 /\ close_begins(zh)
    <3>1. zh \in Handles
      BY <2>2, Bounds DEF Base, Types, TypeOK
    <3> QED
      BY <2>2, <3>1, CloseBegins
  <2> QED
    BY <1>10, <2>1, <2>2 DEF close_zk_begins, Base, Closing
<1>11. ASSUME close_zk PROVE HandlesOK'
  <2>1. CASE UNCHANGED handle
    BY <2>1, SameHandles DEF Base, Types
  <2>2. CASE zh # 0 /\ close_returns(zh)
    <3>1. zh \in Handles
      BY <2>2, Bounds DEF Base, Types, TypeOK
    <3> QED
      BY <2>2, <3>1, CloseReturns
  <2> QED
    BY <1>11, <2>1, <2>2 DEF close_zk, Base, Closing
<1>12. ASSUME retry_or_break PROVE HandlesOK'
  <2>1. CASE UNCHANGED handle
    BY <2>1, SameHandles DEF Base, Types
  <2>2. \A id \in 0 .. Garbage : zookeeper_init(id) => HandlesOK'
    BY Starting
  <2>3. myid \in 0 .. Garbage /\ 0 \in 0 .. Garbage
    BY Bounds DEF Base, Types, TypeOK
  <2> QED
    BY <1>12, <2>1, <2>2, <2>3 DEF retry_or_break, retry_connection
<1>13. ASSUME mainloop_exits PROVE HandlesOK'
  <2>1. CASE UNCHANGED handle
    BY <2>1, SameHandles DEF Base, Types
  <2>2. CASE zh # 0 /\ close_begins(zh)
    <3>1. zh \in Handles
      BY <2>2, Bounds DEF Base, Types, TypeOK
    <3> QED
      BY <2>2, <3>1, CloseBegins
  <2> QED
    BY <1>13, <2>1, <2>2 DEF mainloop_exits, Base, Closing
<1>14. ASSUME thread_exits PROVE HandlesOK'
  <2>1. CASE UNCHANGED handle
    BY <2>1, SameHandles DEF Base, Types
  <2>2. CASE zh # 0 /\ close_returns(zh)
    <3>1. zh \in Handles
      BY <2>2, Bounds DEF Base, Types, TypeOK
    <3> QED
      BY <2>2, <3>1, CloseReturns
  <2> QED
    BY <1>14, <2>1, <2>2 DEF thread_exits, Base, Closing
<1>15. ASSUME NEW h \in Handles, my_data_completion(h) PROVE HandlesOK'
  BY <1>15, Completes
<1>16. ASSUME NEW h \in Handles, watcher(h) PROVE HandlesOK'
  BY <1>16, Watches
<1>17. ASSUME NEW k \in Keys, watcher_fetched(k) PROVE HandlesOK'
  BY <1>17, Fetches
<1>18. ASSUME NEW k \in Keys, watcher_fetch_failed(k) PROVE HandlesOK'
  BY <1>18, FetchFails
<1>19. ASSUME watcher_close_returns PROVE HandlesOK'
  <2>1. CASE UNCHANGED handle
    BY <2>1, SameHandles DEF Base, Types
  <2>2. CASE zh # 0 /\ close_returns(zh)
    <3>1. zh \in Handles
      BY <2>2, Bounds DEF Base, Types, TypeOK
    <3> QED
      BY <2>2, <3>1, CloseReturns
  <2> QED
    BY <1>19, <2>1, <2>2 DEF watcher_close_returns, Base, Closing
<1>20. ASSUME NEW h \in Handles, server_answers(h) PROVE HandlesOK'
  BY <1>20, ServerAnswers
<1>21. ASSUME NEW h \in Handles, connection_lost(h) PROVE HandlesOK'
  BY <1>21, ConnectionLost
<1>22. ASSUME NEW h \in Handles, readonly_server(h) PROVE HandlesOK'
  BY <1>22, ReadOnly
<1>23. ASSUME NEW h \in Handles, request_answered(h) PROVE HandlesOK'
  BY <1>23, Answer
<1>24. ASSUME session_lost PROVE HandlesOK'
  <2>1. UNCHANGED handle
    BY <1>24 DEF session_lost, libUnchanged
  <2> QED
    BY <2>1, SameHandles DEF Base, Types
<1>25. ASSUME NEW k \in Keys, node_changes(k) PROVE HandlesOK'
  <2>1. UNCHANGED handle
    BY <1>25 DEF node_changes, libUnchanged
  <2> QED
    BY <2>1, SameHandles DEF Base, Types
<1>26. ASSUME NEW h \in Handles, NEW k \in Keys, watch_fires(h, k) PROVE HandlesOK'
  BY <1>26, WatchFires
<1>27. CASE UNCHANGED vars
  BY <1>27, SameHandles DEF vars, Base, Types
<1>28. ASSUME check_connection PROVE HandlesOK'
  <2>1. UNCHANGED handle
    BY <1>28 DEF check_connection
  <2> QED
    BY <2>1, SameHandles DEF Base, Types
<1>29. ASSUME zoo_aget PROVE HandlesOK'
  <2>1. UNCHANGED handle
    BY <1>29 DEF zoo_aget
  <2> QED
    BY <2>1, SameHandles DEF Base, Types
<1> QED
  BY <1>1, <1>2, <1>3, <1>4, <1>5, <1>6, <1>7, <1>8, <1>9, <1>10, <1>11, <1>12, <1>13, <1>14,
     <1>15, <1>16, <1>17, <1>18, <1>19, <1>20, <1>21, <1>22, <1>23, <1>24, <1>25, <1>26, <1>27,
     <1>28, <1>29 DEF Next, zk_thread, completion_thread, server_thread

\* A handle is made only when there is none, and zh forgets only a closed one.
LEMMA KeptStep == Base /\ [Next]_vars => HandleKept'
<1> SUFFICES ASSUME Base, [Next]_vars PROVE HandleKept'
  OBVIOUS
<1> USE DEF zkVars, opVars, watchVars, libVars
<1>1. ASSUME connect PROVE HandleKept'
  BY <1>1, Bounds DEF connect, Effect, Base, Types, TypeOK, HandleKept, Live
<1>2. ASSUME connect_returns PROVE HandleKept'
  BY <1>2, Bounds DEF connect_returns, Effect, Base, Types, TypeOK, HandleKept, Live
<1>3. ASSUME NEW k \in Keys, get_data(k) PROVE HandleKept'
  BY <1>3, Bounds DEF get_data, Effect, Base, Types, TypeOK, HandleKept, Live
<1>4. ASSUME iterate_and_load_keys PROVE HandleKept'
  BY <1>4, Bounds DEF iterate_and_load_keys, Effect, Base, Types, TypeOK, HandleKept, Live
<1>5. ASSUME shutdown PROVE HandleKept'
  BY <1>5, Bounds DEF shutdown, Effect, Base, Types, TypeOK, HandleKept, Live
<1>6. ASSUME is_running PROVE HandleKept'
  BY <1>6, Bounds DEF is_running, Effect, Base, Types, TypeOK, HandleKept, Live
<1>7. ASSUME connect_internal PROVE HandleKept'
  BY <1>7, Bounds, Starting DEF connect_internal, Effect, Base, Types, TypeOK, HandleKept, Live
<1>8. ASSUME zookeeper_init_returns PROVE HandleKept'
  BY <1>8, Bounds DEF zookeeper_init_returns, Effect, Base, Types, TypeOK, HandleKept, Live
<1>9. ASSUME schedule_repeat_timer PROVE HandleKept'
  BY <1>9, Bounds DEF schedule_repeat_timer, Effect, Base, Types, TypeOK, HandleKept, Live
<1>10. ASSUME close_zk_begins PROVE HandleKept'
  BY <1>10, Bounds, CloseBegins DEF close_zk_begins, close_mutex_free, Effect, Base, Types,
     TypeOK, HandleKept, Live
<1>11. ASSUME close_zk PROVE HandleKept'
  <2>1. zh \in Handles /\ close_returns(zh) /\ newh = 0
    BY <1>11, Bounds DEF close_zk, Base, Types, TypeOK, Closing, HandleKept
  <2>2. Effect(zh, "closed", <<>>, NoHandle.watch)
    BY <2>1, CloseReturns
  <2>3. \A g \in Handles : ~Live(g)'
    BY <2>1, <2>2, Bounds DEF Effect, Live, Base, HandleKept
  <2> QED
    BY <1>11, <2>1, <2>3 DEF close_zk, Base, HandleKept
<1>12. ASSUME retry_or_break PROVE HandleKept'
  BY <1>12, Bounds, Starting DEF retry_or_break, retries_left, retry_connection, use_fresh,
     Effect, Base, Types, TypeOK, HandleKept, Live
<1>13. ASSUME mainloop_exits PROVE HandleKept'
  BY <1>13, Bounds, CloseBegins DEF mainloop_exits, Effect, Base, Types, TypeOK, HandleKept, Live
<1>14. ASSUME thread_exits PROVE HandleKept'
  BY <1>14, Bounds, CloseReturns DEF thread_exits, Effect, Base, Types, TypeOK, HandleKept, Live
<1>15. ASSUME NEW h \in Handles, my_data_completion(h) PROVE HandleKept'
  BY <1>15, Bounds, Completes DEF my_data_completion, Effect, Base, Types, TypeOK, HandleKept,
     Live
<1>16. ASSUME NEW h \in Handles, watcher(h) PROVE HandleKept'
  <2>1. PICK s \in {handle[h].st, "closing"} :
             Effect(h, s, Tail(handle[h].events), handle[h].watch)
    BY <1>16, Watches
  <2>2. Live(h) /\ UNCHANGED <<zh, newh, zkpc, caller>>
    BY <1>16 DEF watcher, Open, Live
  <2>3. \A g \in Handles : Live(g)' => Live(g)
    BY <2>1, <2>2 DEF Effect, Live
  <2> QED
    BY <2>2, <2>3 DEF Base, HandleKept
<1>17. ASSUME NEW k \in Keys, watcher_fetched(k) PROVE HandleKept'
  BY <1>17, Bounds, Fetches DEF watcher_fetched, session_up, try_update_value, Idle, Effect,
     Base, Types, TypeOK, HandleKept, Live
<1>18. ASSUME NEW k \in Keys, watcher_fetch_failed(k) PROVE HandleKept'
  BY <1>18, Bounds, FetchFails DEF watcher_fetch_failed, push_back, watcher_close_zk, Idle,
     Effect, Base, Types, TypeOK, HandleKept, Live
<1>19. ASSUME watcher_close_returns PROVE HandleKept'
  <2>1. /\ HandleKept /\ zh \in 0 .. MaxHandles
        /\ zh' = 0 /\ UNCHANGED <<newh, zkpc, caller>>
    BY <1>19 DEF watcher_close_returns, Base, Types, TypeOK
  <2>2. \A g \in Handles : Live(g)' => Live(g) /\ g # zh
    <3>1. CASE zh = 0
      BY <1>19, <3>1, Bounds DEF watcher_close_returns, Live
    <3>2. CASE zh # 0
      <4>1. zh \in Handles /\ close_returns(zh)
        BY <1>19, <2>1, <3>2, Bounds DEF watcher_close_returns
      <4>2. Base
        OBVIOUS
      <4>3. \E ev, w : Effect(zh, "closed", ev, w)
        BY <4>1, <4>2, CloseReturns
      <4> QED
        BY <4>1, <4>3 DEF Effect, Live
    <3> QED
      BY <3>1, <3>2
  <2> QED
    BY <2>1, <2>2 DEF HandleKept
<1>20. ASSUME NEW h \in Handles, server_answers(h) PROVE HandleKept'
  <2>1. PICK s \in {"connected", "expired"} :
             \E ev : Effect(h, s, ev, handle[h].watch)
    BY <1>20, ServerAnswers
  <2>2. Live(h) /\ UNCHANGED <<zh, newh, zkpc, caller>>
    BY <1>20 DEF server_answers, libUnchanged, Effect, Live
  <2>3. \A g \in Handles : Live(g)' => Live(g)
    BY <2>1, <2>2 DEF Effect, Live
  <2> QED
    BY <2>2, <2>3 DEF Base, HandleKept
<1>21. ASSUME NEW h \in Handles, connection_lost(h) PROVE HandleKept'
  <2>1. \E ev, w : Effect(h, "connecting", ev, w)
    BY <1>21, ConnectionLost
  <2>2. Live(h) /\ UNCHANGED <<zh, newh, zkpc, caller>>
    BY <1>21 DEF connection_lost, libUnchanged, Live
  <2>3. \A g \in Handles : Live(g)' => Live(g)
    BY <2>1, <2>2 DEF Effect, Live
  <2> QED
    BY <2>2, <2>3 DEF Base, HandleKept
<1>22. ASSUME NEW h \in Handles, readonly_server(h) PROVE HandleKept'
  BY <1>22, Bounds, ReadOnly DEF readonly_server, libUnchanged, Effect, Base, Types, TypeOK,
     HandleKept, Live
<1>23. ASSUME NEW h \in Handles, request_answered(h) PROVE HandleKept'
  BY <1>23, Bounds, Answer DEF request_answered, libUnchanged, Effect, Base, Types, TypeOK,
     HandleKept, Live
<1>24. ASSUME session_lost PROVE HandleKept'
  BY <1>24, Bounds DEF session_lost, libUnchanged, Effect, Base, Types, TypeOK, HandleKept, Live
<1>25. ASSUME NEW k \in Keys, node_changes(k) PROVE HandleKept'
  BY <1>25, Bounds DEF node_changes, libUnchanged, Effect, Base, Types, TypeOK, HandleKept, Live
<1>26. ASSUME NEW h \in Handles, NEW k \in Keys, watch_fires(h, k) PROVE HandleKept'
  BY <1>26, Bounds, WatchFires DEF watch_fires, libUnchanged, Effect, Base, Types, TypeOK,
     HandleKept, Live
<1>27. CASE UNCHANGED vars
  BY <1>27, Bounds DEF vars, Base, Types, TypeOK, HandleKept, Live
<1>28. ASSUME check_connection PROVE HandleKept'
  BY <1>28, Bounds DEF check_connection, Base, Types, TypeOK, HandleKept, Live
<1>29. ASSUME zoo_aget PROVE HandleKept'
  BY <1>29, Bounds DEF zoo_aget, Base, Types, TypeOK, HandleKept, Live
<1> QED
  BY <1>1, <1>2, <1>3, <1>4, <1>5, <1>6, <1>7, <1>8, <1>9, <1>10, <1>11, <1>12, <1>13, <1>14,
     <1>15, <1>16, <1>17, <1>18, <1>19, <1>20, <1>21, <1>22, <1>23, <1>24, <1>25, <1>26, <1>27,
     <1>28, <1>29 DEF Next, zk_thread, completion_thread, server_thread

LEMMA BaseStart == Init => Base
<1> SUFFICES ASSUME Init PROVE Base
  OBVIOUS
<1>1. TypeOK
  BY Bounds, ZkAssumption DEF Init, TypeOK, Idle, Values
<1>2. HandlesOK
  BY NoHandleOK DEF Init, HandlesOK
<1>3. Closing
  BY DEF Init, Closing, Idle
<1>4. HandleKept
  BY NoHandleOK DEF Init, HandleKept, Live
<1> QED
  BY <1>1, <1>2, <1>3, <1>4 DEF Base, Types

LEMMA BaseStep == Base /\ [Next]_vars => Base'
BY TypeStep, HandlesStep, ClosingStep, KeptStep DEF Base, Types

\* The part of the invariant that is about the handles and the threads that close them: close_zk
\* is entered by one thread at a time, and retry_connection makes a handle only without one.
THEOREM HandlesInductive == Spec => []Base
<1> QED
  BY BaseStart, BaseStep, PTL DEF Spec

\* Every variable of the client, of the library and of the configuration keeps its type.
THEOREM ClientTypes == Spec => []TypeOK
<1>1. Base => TypeOK
  BY DEF Base, Types
<1> QED
  BY <1>1, HandlesInductive, PTL

\* However the check timer and the watcher race to close and to replace the handle, no open
\* handle is lost and there is never a second one.
THEOREM HandleUnique == Spec => []OneHandle
<1>1. Base => OneHandle
  BY DEF Base, HandleKept, OneHandle, Open, Live
<1> QED
  BY <1>1, HandlesInductive, PTL

-----------------------------------------------------------------------------
(* Events of a handle                                                      *)

\* The events left after the oldest was taken.
LEMMA FirstEvent ==
    ASSUME NEW s \in Seq(Event), s # <<>>
    PROVE  /\ \A i \in DataAt(Tail(s)) : i + 1 \in DataAt(s)
           /\ AtMostOne(DataAt(s)) => AtMostOne(DataAt(Tail(s)))
           /\ AtMostOne(DataAt(s)) /\ Head(s).type = "data" => DataAt(Tail(s)) = {}
           /\ HasValue(Tail(s)) => HasValue(s)
           /\ Head(s).type = "data" /\ Head(s).value # 0 => HasValue(s)
           /\ \A k \in Keys : HasChanged(s, k) => Head(s) = Changed(k) \/ HasChanged(Tail(s), k)
<1> DEFINE E == Event
<1>0. s \in Seq(E)
  OBVIOUS
<1> HIDE DEF E
<1>1. /\ Len(Tail(s)) = Len(s) - 1 /\ Len(s) \in Nat /\ Len(s) # 0 /\ Head(s) = s[1]
      /\ Len(Tail(s)) \in Nat
      /\ \A i \in 1 .. Len(Tail(s)) : Tail(s)[i] = s[i + 1]
  BY <1>0, HeadTailProperties, LenProperties, EmptySeq
<1> DEFINE n == Len(s)
           m == Len(Tail(s))
           t == Tail(s)
<1>2. /\ m = n - 1 /\ n \in Nat /\ n # 0 /\ m \in Nat /\ Head(s) = s[1]
      /\ \A i \in 1 .. m : t[i] = s[i + 1]
      /\ DataAt(t) = {i \in 1 .. m : t[i].type = "data"}
      /\ DataAt(s) = {i \in 1 .. n : s[i].type = "data"}
  BY <1>1 DEF DataAt
<1>3. \A k : /\ HasChanged(t, k) <=> \E i \in 1 .. m : t[i] = Changed(k)
             /\ HasChanged(s, k) <=> \E i \in 1 .. n : s[i] = Changed(k)
  BY DEF HasChanged
<1> HIDE DEF m, n, t
<1>4. \A i \in DataAt(t) : i \in Nat /\ i # 0 /\ i + 1 \in DataAt(s) /\ t[i] = s[i + 1]
  BY <1>2
<1>5. AtMostOne(DataAt(s)) => AtMostOne(DataAt(t))
  BY <1>4 DEF AtMostOne
<1>6. ASSUME AtMostOne(DataAt(s)), Head(s).type = "data"
      PROVE  DataAt(t) = {}
  <2>1. 1 \in DataAt(s)
    BY <1>2, <1>6
  <2>2. ASSUME NEW i \in DataAt(t) PROVE FALSE
    <3>1. i + 1 = 1 /\ i \in Nat /\ i # 0
      BY <1>4, <1>6, <2>1, <2>2 DEF AtMostOne
    <3> QED
      BY <3>1
  <2> QED
    BY <2>2
<1>7. HasValue(t) => HasValue(s)
  BY <1>4 DEF HasValue
<1>8. Head(s).type = "data" /\ Head(s).value # 0 => HasValue(s)
  <2>1. Head(s).type = "data" => 1 \in DataAt(s)
    BY <1>2
  <2> QED
    BY <1>2, <2>1 DEF HasValue
<1>9. ASSUME NEW k \in Keys, HasChanged(s, k)
      PROVE  Head(s) = Changed(k) \/ HasChanged(t, k)
  <2>1. PICK i \in 1 .. n : s[i] = Changed(k)
    BY <1>3, <1>9
  <2>2. CASE i = 1
    BY <1>2, <2>1, <2>2
  <2>3. CASE i # 1
    <3>1. i - 1 \in 1 .. m /\ (i - 1) + 1 = i
      BY <1>2, <2>3
    <3>2. t[i - 1] = Changed(k)
      BY <1>2, <2>1, <3>1
    <3> QED
      BY <1>3, <3>1, <3>2
  <2> QED
    BY <2>2, <2>3
<1> QED
  BY <1>4, <1>5, <1>6, <1>7, <1>8, <1>9 DEF t

\* The events after one was added.
LEMMA NextEvent ==
    ASSUME NEW s \in Seq(Event), NEW e \in Event
    PROVE  LET t == Append(s, e)
           IN /\ e.type # "data" => DataAt(t) = DataAt(s)
              /\ DataAt(s) = {} => AtMostOne(DataAt(t))
              /\ HasValue(t) => HasValue(s) \/ (e.type = "data" /\ e.value # 0)
              /\ \A k \in Keys : HasChanged(s, k) \/ e = Changed(k) => HasChanged(t, k)
<1> DEFINE E == Event
           t == Append(s, e)
           n == Len(s)
           m == Len(t)
<1>0. s \in Seq(E) /\ e \in E
  OBVIOUS
<1> HIDE DEF E
<1>1. /\ m = n + 1 /\ n \in Nat /\ t[n + 1] = e
      /\ \A i \in 1 .. n : t[i] = s[i]
      /\ DataAt(t) = {i \in 1 .. m : t[i].type = "data"}
      /\ DataAt(s) = {i \in 1 .. n : s[i].type = "data"}
  BY <1>0, AppendProperties, LenProperties DEF DataAt
<1>2. \A k : /\ HasChanged(t, k) <=> \E i \in 1 .. m : t[i] = Changed(k)
             /\ HasChanged(s, k) <=> \E i \in 1 .. n : s[i] = Changed(k)
  BY DEF HasChanged
<1> HIDE DEF m, n, t
<1>3. \A i \in 1 .. m : i \in 1 .. n \/ i = n + 1
  BY <1>1
<1>4. n + 1 \in 1 .. m /\ 1 .. n \subseteq 1 .. m
  BY <1>1
<1>5. /\ \A i \in DataAt(t) : (i \in DataAt(s) /\ t[i] = s[i]) \/ (i = n + 1 /\ t[i] = e)
      /\ DataAt(s) \subseteq DataAt(t)
  BY <1>1, <1>3, <1>4
<1>6. e.type # "data" => DataAt(t) = DataAt(s)
  BY <1>1, <1>5
<1>7. DataAt(s) = {} => AtMostOne(DataAt(t))
  BY <1>5 DEF AtMostOne
<1>8. HasValue(t) => HasValue(s) \/ (e.type = "data" /\ e.value # 0)
  BY <1>1, <1>5 DEF HasValue
<1>9. \A k \in Keys : HasChanged(s, k) \/ e = Changed(k) => HasChanged(t, k)
  BY <1>1, <1>2, <1>4
<1> QED
  BY <1>6, <1>7, <1>8, <1>9 DEF t

\* No events: no answer, no value, no change.
LEMMA NoEvent ==
    /\ DataAt(<<>>) = {} /\ AtMostOne({}) /\ ~HasValue(<<>>)
    /\ \A k \in Keys : ~HasChanged(<<>>, k)
<1>1. Len(<<>>) = 0 /\ 1 .. 0 = {}
  BY EmptySeq
<1> QED
  BY <1>1 DEF DataAt, AtMostOne, HasValue, HasChanged

\* Unanswered looks at the same events as DataAt.
LEMMA NoAnswerYet ==
    ASSUME NEW h \in Handles
    PROVE  Answers(h) = {} <=> DataAt(handle[h].events) = {}
BY DEF Answers, DataAt

-----------------------------------------------------------------------------
(* What a step keeps                                                       *)

\* Live handles stay live and go on tracking what they tracked.
Retains ==
    \A h \in Handles : Live(h) => Live(h)' /\ \A k \in Keys : Traces(h, k) => Traces(h, k)'

\* No value has come in.
NoNewValue ==
    \A h \in Handles : HasValue(handle[h].events)' => HasValue(handle[h].events)

\* A live handle that loses no watch without a report retains what it tracks.
LEMMA EffectRetains ==
    ASSUME NEW h \in Handles, NEW s, NEW ev, NEW w, Effect(h, s, ev, w),
           s \notin {"none", "closed"},
           \A k \in Keys : Traces(h, k) => w[k] # 0 \/ HasChanged(ev, k)
    PROVE  Retains
<1> SUFFICES ASSUME NEW g \in Handles, Live(g)
             PROVE  Live(g)' /\ \A k \in Keys : Traces(g, k) => Traces(g, k)'
  BY DEF Retains
<1>1. CASE g = h
  BY <1>1 DEF Effect, Live, Traces
<1>2. CASE g # h
  BY <1>2 DEF Effect, Live, Traces
<1> QED
  BY <1>1, <1>2

\* A live handle that gets at most one answer, and only when one is due.
LEMMA EffectAnswering ==
    ASSUME Answering, NEW h \in Handles, NEW s, NEW ev, NEW w, Effect(h, s, ev, w),
           s \notin {"none", "closed"}, UNCHANGED caller,
           AtMostOne(DataAt(ev)),
           op_in_progress' => op_in_progress,
           ~op_in_progress' => DataAt(ev) = {} /\
               \A g \in Handles \ {h} : DataAt(handle[g].events) = {}
    PROVE  Answering'
<1>1. \A g \in Handles \ {h} : handle'[g] = handle[g]
  BY DEF Effect
<1>2. handle'[h].st = s /\ handle'[h].events = ev
  BY DEF Effect
<1>3. \A g \in Handles : ~Live(g)' => handle'[g].events = <<>>
  BY <1>1, <1>2 DEF Live, Answering
<1>4. \A g \in Handles : AtMostOne(DataAt(handle'[g].events))
  BY <1>1, <1>2 DEF Answering
<1>5. ~op_in_progress' => \A g \in Handles : DataAt(handle'[g].events) = {}
  BY <1>1, <1>2
<1> QED
  BY <1>3, <1>4, <1>5 DEF Answering

\* The steps that change no event.
LEMMA SameEvents ==
    ASSUME Answering,
           \A h \in Handles : handle'[h].events = handle[h].events /\ (Live(h) => Live(h)'),
           UNCHANGED <<caller, op_in_progress>>
    PROVE  Answering'
BY DEF Answering

\* A step that retains, stores no new key and fetches nothing keeps Following.
LEMMA FollowingKept ==
    ASSUME Following, Retains, UNCHANGED <<wpc, pending_config_updates>>, missed \subseteq missed',
           \A k \in Keys : configs'[k] # 0 \/ Answered(k)' => configs[k] # 0 \/ Answered(k),
           pending_config_updates \subseteq Keys
    PROVE  Following'
<1>1. ASSUME NEW k \in Keys, Tracked(k) PROVE Tracked(k)'
  <2>1. PICK h \in Handles : Live(h) /\ TracksIn(h, k)
    BY <1>1 DEF Tracked
  <2>2. Live(h)' /\ TracksIn(h, k)'
    BY <2>1 DEF Retains, TracksIn
  <2> QED
    BY <2>2 DEF Tracked
<1>2. \A k \in Keys : configs'[k] # 0 \/ Answered(k)' =>
          k \in missed' \/ k \in pending_config_updates' \/ Tracked(k)'
  BY <1>1 DEF Following
<1>3. wpc'.pc = "pending" =>
          \A k \in pending_config_updates' \ wpc'.todo : k \in missed' \/ Tracked(k)'
  BY <1>1 DEF Following
<1> QED
  BY <1>2, <1>3 DEF Following

\* Without a new value nothing more is about to be stored.
LEMMA SameAnswered ==
    ASSUME NoNewValue, UNCHANGED <<caller, get_result>>, NEW k
    PROVE  Answered(k)' => Answered(k)
BY DEF NoNewValue, Answered

\* A step that leaves the handles alone retains everything.
LEMMA HandlesSame ==
    ASSUME UNCHANGED handle
    PROVE  Retains /\ NoNewValue
BY DEF Retains, NoNewValue, Live, Traces

\* A step that changes the state of a handle and nothing else of it.
LEMMA StateOnly ==
    ASSUME Answering, NEW h \in Handles, NEW s,
           Effect(h, s, handle[h].events, handle[h].watch), s \notin {"none", "closed"},
           UNCHANGED <<caller, op_in_progress>>
    PROVE  Retains /\ NoNewValue /\ Answering'
<1>1. \A g \in Handles : handle'[g].events = handle[g].events /\ (Live(g) => Live(g)')
  BY DEF Effect, Live
<1>2. Retains
  BY EffectRetains DEF Traces
<1> QED
  BY <1>1, <1>2, SameEvents DEF NoNewValue

\* Of the watches of h only the one that e reports is gone.
Spends(h, e, w) == \A k \in Keys : w[k] = handle[h].watch[k] \/ e = Changed(k)

\* The library reports a change of the state or of a node.
LEMMA Reported ==
    ASSUME HandlesOK, Answering, NEW h \in Handles, NEW s, NEW e \in Event, NEW w,
           Effect(h, s, Append(handle[h].events, e), w), s \notin {"none", "closed"},
           e.type # "data",
           Spends(h, e, w),
           UNCHANGED <<caller, op_in_progress>>
    PROVE  Retains /\ NoNewValue /\ Answering'
<1> DEFINE t == Append(handle[h].events, e)
<1>1. /\ DataAt(t) = DataAt(handle[h].events)
      /\ HasValue(t) => HasValue(handle[h].events)
      /\ \A k \in Keys : HasChanged(handle[h].events, k) \/ e = Changed(k) => HasChanged(t, k)
  BY Fields, NextEvent
<1>2. Effect(h, s, t, w)
  OBVIOUS
<1> HIDE DEF t
<1>3. Retains
  BY <1>1, <1>2, EffectRetains DEF Traces, Spends
<1>4. NoNewValue
  BY <1>1, <1>2 DEF NoNewValue, Effect
<1>5. AtMostOne(DataAt(t)) /\ (~op_in_progress' => DataAt(t) = {} /\
          \A g \in Handles \ {h} : DataAt(handle[g].events) = {})
  BY <1>1 DEF Answering
<1>6. Answering'
  BY <1>2, <1>5, EffectAnswering
<1> QED
  BY <1>3, <1>4, <1>6

\* A session state is reported.
LEMMA ServerReported ==
    ASSUME Base, Answering, NEW h \in Handles, server_answers(h)
    PROVE  Retains /\ NoNewValue /\ Answering'
<1>1. PICK s \in {"connected", "expired"}, t \in States, i \in 0 .. MaxHandles :
          Effect(h, s, Append(handle[h].events, Session(t, i)), handle[h].watch)
  BY ServerAnswers
<1>2. Session(t, i) \in Event /\ Session(t, i).type # "data"
  BY Events
<1>3. UNCHANGED <<caller, op_in_progress>> /\ HandlesOK
  BY DEF server_answers, libUnchanged, opVars, Base, Types
<1> QED
  BY <1>1, <1>2, <1>3, Reported DEF Spends

\* A read-only server is reported.
LEMMA ReadOnlyReported ==
    ASSUME Base, Answering, NEW h \in Handles, readonly_server(h)
    PROVE  Retains /\ NoNewValue /\ Answering'
<1>1. /\ Session("readonly", 0) \in Event /\ Session("readonly", 0).type # "data"
      /\ Effect(h, "readonly", Append(handle[h].events, Session("readonly", 0)), handle[h].watch)
  BY ReadOnly, Bounds, Events DEF States
<1>2. UNCHANGED <<caller, op_in_progress>> /\ HandlesOK
  BY DEF readonly_server, libUnchanged, opVars, Base, Types
<1> QED
  BY <1>1, <1>2, Reported DEF Spends

\* The report of a change takes the place of the watch.
LEMMA ChangeReported ==
    ASSUME Base, Answering, NEW h \in Handles, NEW k \in Keys, watch_fires(h, k)
    PROVE  Retains /\ NoNewValue /\ Answering'
<1> DEFINE w == [handle[h].watch EXCEPT ![k] = 0]
<1>1. Effect(h, handle[h].st, Append(handle[h].events, Changed(k)), w)
  BY WatchFires
<1>2. Changed(k) \in Event /\ Changed(k).type # "data"
  BY Events
<1>3. UNCHANGED <<caller, op_in_progress>> /\ HandlesOK /\ handle[h].st = "connected"
  BY DEF watch_fires, libUnchanged, opVars, Base, Types
<1>4. \A j \in Keys : w[j] = handle[h].watch[j] \/ Changed(k) = Changed(j)
  BY <1>3, Fields
<1> HIDE DEF w
<1>5. Spends(h, Changed(k), w)
  BY <1>4 DEF Spends
<1> QED
  BY <1>1, <1>2, <1>3, <1>5, Reported

\* A request under way is failed before the loss of the connection is reported.
LEMMA LossReported ==
    ASSUME Base, Answering, NEW h \in Handles, connection_lost(h)
    PROVE  Retains /\ NoNewValue /\ Answering'
<1> DEFINE s == handle[h].events
           e == Session("connecting", 0)
           t == s \o Failing(h)
<1>1. HandlesOK /\ UNCHANGED <<caller, op_in_progress>>
  BY DEF connection_lost, libUnchanged, opVars, Base, Types
<1>2. s \in Seq(Event) /\ Failing(h) \in Seq(Event) /\ e \in Event /\ e.type # "data"
  BY <1>1, Fields, ConnectionLost, Bounds, Events DEF States
<1>3. Data(0) \in Event /\ Data(0).type = "data" /\ Data(0).value = 0
  BY Bounds, Events
<1>4. /\ t \in Seq(Event) /\ AtMostOne(DataAt(t)) /\ (HasValue(t) => HasValue(s))
      /\ \A k \in Keys : HasChanged(s, k) => HasChanged(t, k)
      /\ ~op_in_progress => DataAt(t) = {}
  <2>1. CASE Unanswered(h)
    <3>1. t = Append(s, Data(0))
      <4> DEFINE E == Event
                 d == Data(0)
      <4>1. s \in Seq(E) /\ d \in E
        BY <1>2, <1>3
      <4> HIDE DEF s, E, d
      <4>2. s \o <<d>> = Append(s, d)
        BY <4>1
      <4> QED
        BY <2>1, <4>2 DEF Failing, d
    <3>2. DataAt(s) = {} /\ op_in_progress
      BY <2>1, NoAnswerYet DEF Unanswered
    <3> HIDE DEF s
    <3>3. t \in Seq(Event)
      BY <1>2, ConcatProperties
    <3>4. /\ AtMostOne(DataAt(Append(s, Data(0)))) /\ (HasValue(Append(s, Data(0))) => HasValue(s))
          /\ \A k \in Keys : HasChanged(s, k) => HasChanged(Append(s, Data(0)), k)
      BY <1>2, <1>3, <3>2, NextEvent
    <3> QED
      BY <3>1, <3>2, <3>3, <3>4
  <2>2. CASE ~Unanswered(h)
    <3>1. t = s
      BY <1>2, <2>2, EmptySeq, ConcatProperties DEF Failing
    <3> QED
      BY <1>2, <3>1 DEF Answering
  <2> QED
    BY <2>1, <2>2
<1>5. Effect(h, "connecting", Append(t, e), handle[h].watch)
  <2>1. Effect(h, "connecting", t \o <<e>>, handle[h].watch)
    BY ConnectionLost
  <2>2. t \o <<e>> = Append(t, e)
    <3> DEFINE E == Event
    <3>1. t \in Seq(E) /\ e \in E
      BY <1>2, <1>4
    <3> HIDE DEF t, e, E
    <3> QED
      BY <3>1
  <2> HIDE DEF t, e
  <2> QED
    BY <2>1, <2>2
<1> HIDE DEF t, e
<1>6. /\ DataAt(Append(t, e)) = DataAt(t) /\ (HasValue(Append(t, e)) => HasValue(t))
      /\ \A k \in Keys : HasChanged(t, k) => HasChanged(Append(t, e), k)
  BY <1>2, <1>4, NextEvent
<1>7. Retains
  BY <1>4, <1>5, <1>6, EffectRetains DEF Traces
<1>8. NoNewValue
  BY <1>4, <1>5, <1>6 DEF NoNewValue, Effect
<1>9. Answering'
  <2>1. AtMostOne(DataAt(Append(t, e))) /\ (~op_in_progress' => DataAt(Append(t, e)) = {} /\
          \A g \in Handles \ {h} : DataAt(handle[g].events) = {})
    BY <1>1, <1>4, <1>6 DEF Answering
  <2> QED
    BY <1>1, <1>5, <2>1, EffectAnswering
<1> QED
  BY <1>7, <1>8, <1>9

\* Taking the oldest event of h loses no trace of a node except the change it reports.
LEMMA TakesEvent ==
    ASSUME HandlesOK, NEW h \in Handles, handle[h].events # <<>>, NEW k \in Keys,
           Head(handle[h].events) # Changed(k), Traces(h, k)
    PROVE  handle[h].watch[k] # 0 \/ HasChanged(Tail(handle[h].events), k)
BY Fields, FirstEvent DEF Traces

\* my_data_completion hands the one answer to get_result.
LEMMA CompletionKept ==
    ASSUME Base, Answering, NEW h \in Handles, my_data_completion(h)
    PROVE  Retains /\ Answering' /\ \A k : Answered(k)' => Answered(k)
<1> DEFINE s == handle[h].events
           t == Tail(s)
<1>1. /\ HandlesOK /\ s # <<>> /\ Head(s).type = "data" /\ UNCHANGED caller
      /\ handle[h].st \notin {"none", "closed"} /\ Live(h)
      /\ op_in_progress' = FALSE /\ get_result' = Head(s).value
  BY DEF my_data_completion, Base, Types, Open, Live
<1>2. s \in Seq(Event)
  BY <1>1, Fields
<1>3. Effect(h, handle[h].st, t, handle[h].watch)
  BY Completes
<1>4. DataAt(t) = {} /\ (Head(s).value # 0 => HasValue(s)) /\ (HasValue(t) => HasValue(s))
  BY <1>1, <1>2, FirstEvent DEF Answering
<1>5. AtMostOne(DataAt(t)) /\ DataAt(s) # {}
  <2>1. AtMostOne(DataAt(t))
    BY <1>4, NoEvent
  <2>2. Len(s) \in Nat /\ Len(s) # 0 /\ Head(s) = s[1]
    BY <1>1, <1>2, HeadTailProperties, LenProperties, EmptySeq
  <2>3. 1 \in DataAt(s)
    BY <1>1, <2>2 DEF DataAt
  <2> QED
    BY <2>1, <2>3
<1>6. op_in_progress /\ \A g \in Handles \ {h} : DataAt(handle[g].events) = {}
  <2>1. op_in_progress
    BY <1>5 DEF Answering
  <2>2. ASSUME NEW g \in Handles \ {h} PROVE DataAt(handle[g].events) = {}
    <3>1. ~Live(g)
      BY <1>1, Bounds DEF Base, HandleKept
    <3> QED
      BY <3>1, NoEvent DEF Answering
  <2> QED
    BY <2>1, <2>2
<1>7. Answering'
  BY <1>1, <1>3, <1>4, <1>5, <1>6, EffectAnswering
<1>8. Retains
  <2>1. \A k \in Keys : Head(s) # Changed(k)
    BY <1>1, Events
  <2>2. \A k \in Keys : Traces(h, k) => handle[h].watch[k] # 0 \/ HasChanged(t, k)
    BY <1>1, <2>1, TakesEvent
  <2> QED
    BY <1>1, <1>3, <2>2, EffectRetains
<1>9. ASSUME NEW k, Answered(k)' PROVE Answered(k)
  <2>1. \A g \in Handles : HasValue(handle'[g].events) => HasValue(handle[g].events)
    BY <1>3, <1>4 DEF Effect
  <2> QED
    BY <1>1, <1>4, <1>9, <2>1 DEF Answered
<1> QED
  BY <1>7, <1>8, <1>9

\* The answer comes with a watch, unless it is an error.
LEMMA AnswerKept ==
    ASSUME Base, Answering, NEW h \in Handles, request_answered(h)
    PROVE  /\ Retains /\ Answering'
           /\ \A k \in Keys : \/ k \in missed => k \in missed'
                              \/ Live(h)' /\ Traces(h, k)'
           /\ \A k \in Keys : Answered(k)' => Answered(k) \/ (Live(h)' /\ Traces(h, k)')
<1> DEFINE s == handle[h].events
<1>1. PICK j \in caller.key :
          \/ /\ handle[h].st = "connected" /\ missed' = missed \ {j}
             /\ store[j] \in Values /\ store[j] # 0
             /\ Effect(h, "connected", Append(s, Data(store[j])),
                       [handle[h].watch EXCEPT ![j] = store[j]])
          \/ /\ handle[h].st \in {"connecting", "readonly"} /\ missed' = missed
             /\ Effect(h, handle[h].st, Append(s, Data(0)), handle[h].watch)
  BY Answer
<1>2. /\ HandlesOK /\ UNCHANGED <<caller, op_in_progress, get_result>> /\ j \in Keys
      /\ op_in_progress /\ DataAt(s) = {}
  BY NoAnswerYet DEF request_answered, libUnchanged, opVars, Unanswered, Base, Types, TypeOK
<1>3. s \in Seq(Event) /\ handle[h].watch \in [Keys -> Values]
  BY <1>2, Fields
<1>4. CASE /\ handle[h].st = "connected" /\ missed' = missed \ {j}
           /\ store[j] \in Values /\ store[j] # 0
           /\ Effect(h, "connected", Append(s, Data(store[j])),
                     [handle[h].watch EXCEPT ![j] = store[j]])
  <2> DEFINE w == [handle[h].watch EXCEPT ![j] = store[j]]
             e == Data(store[j])
  <2>1. /\ w[j] # 0 /\ \A k \in Keys : handle[h].watch[k] # 0 => w[k] # 0
        /\ e \in Event
    BY <1>2, <1>3, <1>4, Events
  <2> DEFINE t == Append(s, e)
  <2>2. /\ AtMostOne(DataAt(t))
        /\ \A k \in Keys : HasChanged(s, k) => HasChanged(t, k)
    BY <1>2, <1>3, <2>1, NextEvent
  <2>3. Effect(h, "connected", t, w)
    BY <1>4
  <2> HIDE DEF w, e, t
  <2>4. Retains
    BY <2>1, <2>2, <2>3, EffectRetains DEF Traces
  <2>5. Answering'
    BY <1>2, <2>2, <2>3, EffectAnswering
  <2>6. Live(h)' /\ Traces(h, j)'
    BY <2>1, <2>3 DEF Effect, Live, Traces
  <2>7. ASSUME NEW k \in Keys, Answered(k)' PROVE Answered(k) \/ (Live(h)' /\ Traces(h, k)')
    <3>1. caller.pc = "waiting" /\ k \in caller.key
      BY <1>2, <2>7 DEF Answered
    <3>2. k = j
      BY <3>1 DEF Answering, AtMostOne
    <3> QED
      BY <2>6, <3>2
  <2> QED
    BY <1>4, <2>4, <2>5, <2>6, <2>7
<1>5. CASE /\ handle[h].st \in {"connecting", "readonly"} /\ missed' = missed
           /\ Effect(h, handle[h].st, Append(s, Data(0)), handle[h].watch)
  <2> DEFINE e == Data(0)
             t == Append(s, e)
  <2>1. e \in Event /\ e.type = "data" /\ e.value = 0
    BY Bounds, Events
  <2>2. /\ AtMostOne(DataAt(t)) /\ (HasValue(t) => HasValue(s))
        /\ \A k \in Keys : HasChanged(s, k) => HasChanged(t, k)
    BY <1>2, <1>3, <2>1, NextEvent
  <2>3. Effect(h, handle[h].st, t, handle[h].watch) /\ handle[h].st \notin {"none", "closed"}
    BY <1>5
  <2> HIDE DEF e, t
  <2>4. Retains
    BY <2>2, <2>3, EffectRetains DEF Traces
  <2>5. Answering'
    BY <1>2, <2>2, <2>3, EffectAnswering
  <2>6. NoNewValue
    BY <2>2, <2>3 DEF NoNewValue, Effect
  <2>7. \A k \in Keys : Answered(k)' => Answered(k)
    BY <1>2, <2>6, SameAnswered
  <2> QED
    BY <1>5, <2>4, <2>5, <2>7
<1> QED
  BY <1>1, <1>4, <1>5

\* The watcher takes an event that is no answer; a change it takes is the watcher's to fetch.
LEMMA WatcherKept ==
    ASSUME Base, Answering, NEW h \in Handles, watcher(h)
    PROVE  /\ Answering' /\ NoNewValue /\ Live(h)'
           /\ \A g \in Handles : Live(g) => Live(g)'
           /\ \A g \in Handles, k \in Keys : Live(g) /\ Traces(g, k) =>
                  Traces(g, k)' \/ (g = h /\ Head(handle[h].events) = Changed(k))
<1> DEFINE s == handle[h].events
           t == Tail(s)
<1>1. /\ HandlesOK /\ s # <<>> /\ Head(s).type # "data" /\ UNCHANGED <<caller, op_in_progress>>
      /\ handle[h].st \notin {"none", "closed"} /\ Live(h)
  BY DEF watcher, Base, Types, Open, Live, opVars
<1>2. s \in Seq(Event)
  BY <1>1, Fields
<1>3. PICK st \in {handle[h].st, "closing"} : Effect(h, st, t, handle[h].watch)
  BY Watches
<1>4. st \notin {"none", "closed"}
  BY <1>1
<1>5. /\ AtMostOne(DataAt(s)) => AtMostOne(DataAt(t))
      /\ HasValue(t) => HasValue(s)
      /\ \A i \in DataAt(t) : i + 1 \in DataAt(s)
      /\ \A k \in Keys : HasChanged(s, k) => Head(s) = Changed(k) \/ HasChanged(t, k)
  BY <1>1, <1>2, FirstEvent
<1> HIDE DEF t
<1>6. Answering'
  <2>1. AtMostOne(DataAt(t)) /\ (DataAt(s) = {} => DataAt(t) = {})
    BY <1>5 DEF Answering
  <2>2. ~op_in_progress' => DataAt(t) = {} /\
            \A g \in Handles \ {h} : DataAt(handle[g].events) = {}
    BY <1>1, <2>1 DEF Answering
  <2> QED
    BY <1>1, <1>3, <1>4, <2>1, <2>2, EffectAnswering
<1>7. NoNewValue
  BY <1>3, <1>5 DEF NoNewValue, Effect
<1>8. Live(h)' /\ \A g \in Handles : Live(g) => Live(g)'
  BY <1>3, <1>4 DEF Effect, Live
<1>9. ASSUME NEW g \in Handles, NEW k \in Keys, Traces(g, k)
      PROVE  Traces(g, k)' \/ (g = h /\ Head(s) = Changed(k))
  <2>1. CASE g # h
    BY <1>3, <1>9, <2>1 DEF Effect, Traces
  <2>2. CASE g = h
    BY <1>3, <1>5, <1>9, <2>2 DEF Effect, Traces
  <2> QED
    BY <2>1, <2>2
<1> QED
  BY <1>6, <1>7, <1>8, <1>9

\* A fetch of k leaves k watched on the handle it was made on.
LEMMA FetchKept ==
    ASSUME Base, Answering, NEW k \in Keys, watcher_fetched(k)
    PROVE  /\ Retains /\ NoNewValue /\ Answering'
           /\ \E h \in Handles : h = wpc.h /\ Live(h)' /\ Traces(h, k)'
<1>0. PICK h \in Handles : h = wpc.h
  BY Fetches
<1> DEFINE w == [handle[h].watch EXCEPT ![k] = store[k]]
<1>1. /\ handle[h].st = "connected" /\ UNCHANGED <<caller, op_in_progress>>
      /\ HandlesOK /\ store[k] # 0
  <2>1. store[k] # 0
    BY Bounds DEF Base, Types, TypeOK
  <2> QED
    BY <1>0, <2>1 DEF watcher_fetched, opVars, Base, Types
<1>2. Effect(h, handle[h].st, handle[h].events, w)
  BY <1>0, Fetches
<1>3. w[k] # 0 /\ \A j \in Keys : handle[h].watch[j] # 0 => w[j] # 0
  BY <1>1, Fields
<1> HIDE DEF w
<1>4. \A g \in Handles : handle'[g].events = handle[g].events /\ (Live(g) => Live(g)')
  BY <1>1, <1>2 DEF Effect, Live
<1>5. \A g \in Handles, j \in Keys : Traces(g, j) => Traces(g, j)'
  <2> SUFFICES ASSUME NEW g \in Handles, NEW j \in Keys, Traces(g, j)
               PROVE  Traces(g, j)'
    OBVIOUS
  <2>1. CASE g # h
    BY <1>2, <2>1 DEF Effect, Traces
  <2>2. CASE g = h
    BY <1>2, <1>3, <2>2 DEF Effect, Traces
  <2> QED
    BY <2>1, <2>2
<1>6. handle'[h].st = "connected" /\ handle'[h].watch[k] # 0
  BY <1>1, <1>2, <1>3 DEF Effect
<1>7. Retains /\ NoNewValue
  BY <1>4, <1>5 DEF Retains, NoNewValue
<1>8. Answering'
  BY <1>1, <1>4, SameEvents
<1> QED
  BY <1>0, <1>6, <1>7, <1>8 DEF Live, Traces

\* The steps that leave the handles alone.
LEMMA SameKept ==
    ASSUME Answering, UNCHANGED <<handle, caller, op_in_progress>>
    PROVE  Retains /\ NoNewValue /\ Answering'
<1>1. \A h \in Handles : handle'[h].events = handle[h].events /\ (Live(h) => Live(h)')
  BY DEF Live
<1> QED
  BY <1>1, HandlesSame, SameEvents

\* A new handle has no events.
LEMMA StartKept ==
    ASSUME Base, Answering, NEW id \in 0 .. Garbage, zookeeper_init(id),
           UNCHANGED <<caller, op_in_progress>>
    PROVE  Retains /\ NoNewValue /\ Answering'
<1>1. PICK h \in Handles : h = newh'
  BY Starting
<1>2. Effect(h, "connecting", handle[h].events, handle'[h].watch)
  BY <1>1, Starting DEF Effect
<1>3. handle'[h].watch = handle[h].watch
  BY <1>1, Fields DEF zookeeper_init, Base, Types, HandlesOK, Handle
<1>4. Effect(h, "connecting", handle[h].events, handle[h].watch)
  BY <1>2, <1>3
<1> QED
  BY <1>4, StateOnly

\* A handle that is being closed is live until zookeeper_close returns.
LEMMA BeginKept ==
    ASSUME Base, Answering, zh # 0, close_begins(zh), UNCHANGED <<caller, op_in_progress>>
    PROVE  Retains /\ NoNewValue /\ Answering'
<1>1. PICK h \in Handles : h = zh
  BY Bounds DEF Base, Types, TypeOK
<1>2. Effect(h, "closing", handle[h].events, handle[h].watch)
  BY <1>1, CloseBegins
<1> QED
  BY <1>2, StateOnly

\* A fetch that fails loses no watch.
LEMMA FailKept ==
    ASSUME Base, Answering, NEW k \in Keys, watcher_fetch_failed(k)
    PROVE  Retains /\ NoNewValue /\ Answering'
<1>1. UNCHANGED <<caller, op_in_progress>>
  BY DEF watcher_fetch_failed, opVars
<1>2. CASE UNCHANGED handle
  BY <1>1, <1>2, SameKept
<1>3. CASE zh \in Handles /\ Effect(zh, "closing", handle[zh].events, handle[zh].watch)
  <2>1. PICK h \in Handles : h = zh
    BY <1>3
  <2>2. Effect(h, "closing", handle[h].events, handle[h].watch)
    BY <1>3, <2>1
  <2> QED
    BY <1>1, <2>2, StateOnly
<1> QED
  BY <1>2, <1>3, FetchFails

\* zookeeper_close answers what is under way and gives up every watch.
LEMMA CloseKept ==
    ASSUME Base, Answering, zh # 0, close_returns(zh), UNCHANGED caller
    PROVE  /\ Answering' /\ missed' = Keys
           /\ \A g \in Handles : g # zh /\ Live(g) => Live(g)'
<1>1. PICK h \in Handles : h = zh
  BY Bounds DEF Base, Types, TypeOK
<1>2. Effect(h, "closed", <<>>, NoHandle.watch) /\ missed' = Keys /\ op_in_progress' = FALSE
  BY <1>1, CloseReturns DEF close_returns
<1>3. \A g \in Handles : g # h => handle'[g] = handle[g] /\ ~Live(g)
  BY <1>1, <1>2, Bounds DEF Effect, Base, HandleKept
<1>4. \A g \in Handles : handle'[g].events = <<>>
  BY <1>2, <1>3 DEF Effect, Answering
<1>5. Answering'
  BY <1>2, <1>4, NoEvent DEF Answering
<1>6. \A g \in Handles : g # zh /\ Live(g) => Live(g)'
  BY <1>1, <1>3
<1> QED
  BY <1>2, <1>5, <1>6

\* After zookeeper_close every key counts as missed.
LEMMA AllMissed ==
    ASSUME missed' = Keys, pending_config_updates' \subseteq Keys
    PROVE  Following'
BY DEF Following

-----------------------------------------------------------------------------
(* The steps                                                               *)

\* A step that leaves the watcher and the pending updates alone.
LEMMA Undisturbed ==
    ASSUME Base, Watching, Following, Retains, Answering',
           UNCHANGED <<wpc, pending_config_updates>>, missed \subseteq missed',
           \A k \in Keys : configs'[k] # 0 \/ Answered(k)' => configs[k] # 0 \/ Answered(k)
    PROVE  Current'
<1>1. pending_config_updates \subseteq Keys
  BY DEF Base, Types, TypeOK
<1>2. Following'
  BY <1>1, FollowingKept
<1>3. Watching'
  <2>1. wpc.pc \in {"changed", "pending"} => wpc.h \in Handles
    BY Bounds DEF Base, Types, TypeOK, Closing
  <2>2. wpc.pc \in {"changed", "pending"} => Live(wpc.h)'
    <3>1. ASSUME wpc.pc \in {"changed", "pending"} PROVE Live(wpc.h)'
      <4>1. PICK h \in Handles : h = wpc.h /\ Live(h)
        BY <2>1, <3>1 DEF Watching
      <4>2. Live(h)'
        BY <4>1 DEF Retains
      <4> QED
        BY <4>1, <4>2
    <3> QED
      BY <3>1
  <2> QED
    BY <2>2 DEF Watching
<1> QED
  BY <1>2, <1>3 DEF Current

\* The server's thread.
LEMMA ServerThread ==
    ASSUME ConfigInv, server_thread \/ shutdown
    PROVE  Current'
<1> USE DEF zkVars, opVars, watchVars, libVars
<1>1. Base /\ Answering /\ Watching /\ Following
  BY DEF ConfigInv, Current
<1>2. /\ UNCHANGED <<handle, wpc, pending_config_updates, missed>>
      /\ Retains /\ NoNewValue
  <2>1. UNCHANGED <<handle, wpc, pending_config_updates, missed>>
    BY DEF server_thread, shutdown, connect, connect_returns, get_data, zoo_aget, iterate_and_load_keys,
           is_running
  <2> QED
    BY <2>1, HandlesSame
<1>3. \A h \in Handles : Live(h)' = Live(h) /\ handle'[h] = handle[h]
  BY <1>2 DEF Live
<1>4. ASSUME NEW k \in Keys, get_data(k) PROVE Current'
  <2>1. caller.pc = "load" /\ ~op_in_progress /\ UNCHANGED <<opVars, configs>>
    BY <1>1, <1>4 DEF get_data, Answering
  <2>2. /\ caller'.pc \in {"asking", "failed"}
        /\ caller'.pc = "asking" => caller'.key = {k}
    BY <1>1, <1>4 DEF get_data, Base, Types, TypeOK
  <2>3. Answering'
    BY <1>1, <1>3, <2>1, <2>2 DEF Answering, AtMostOne
  <2>4. \A j \in Keys : ~Answered(j)'
    BY <2>2 DEF Answered
  <2> QED
    BY <1>1, <1>2, <2>1, <2>3, <2>4, Undisturbed
<1>7. ASSUME zoo_aget PROVE Current'
  <2>1. caller.pc = "asking" /\ ~op_in_progress /\ UNCHANGED configs
    BY <1>1, <1>7 DEF zoo_aget, Answering
  <2>2. CASE caller' = [caller EXCEPT !.pc = "failed"] /\ UNCHANGED opVars
    <3>1. caller'.pc = "failed"
      BY <1>1, <2>2 DEF Base, Types, TypeOK
    <3>2. Answering'
      BY <1>1, <1>3, <2>1, <2>2, <3>1 DEF Answering
    <3>3. \A j \in Keys : ~Answered(j)'
      BY <3>1 DEF Answered
    <3> QED
      BY <1>1, <1>2, <2>1, <3>2, <3>3, Undisturbed
  <2>3. CASE caller' = [caller EXCEPT !.pc = "waiting"] /\ op_in_progress' = TRUE /\ get_result' = 0
    <3>1. caller'.pc = "waiting" /\ caller'.key = caller.key
      BY <1>1, <2>3 DEF Base, Types, TypeOK
    <3>2. Answering'
      BY <1>1, <1>3, <2>1, <2>3, <3>1 DEF Answering, AtMostOne
    <3>3. \A j \in Keys : ~Answered(j)'
      BY <1>1, <1>3, <2>1, <2>3 DEF Answered, Answering, HasValue
    <3> QED
      BY <1>1, <1>2, <2>1, <3>2, <3>3, Undisturbed
  <2> QED
    BY <1>7, <2>2, <2>3 DEF zoo_aget
<1>5. ASSUME iterate_and_load_keys PROVE Current'
  <2>1. caller.pc = "waiting" /\ ~op_in_progress /\ UNCHANGED <<op_in_progress, get_result>>
    BY <1>5 DEF iterate_and_load_keys
  <2>2. caller'.pc \notin {"asking", "waiting"}
    BY <1>1, <1>5 DEF iterate_and_load_keys, Base, Types, TypeOK
  <2>3. Answering'
    BY <1>1, <1>3, <2>1, <2>2 DEF Answering
  <2>4. ASSUME NEW j \in Keys, configs'[j] # 0 PROVE configs[j] # 0 \/ Answered(j)
    BY <1>5, <2>1, <2>4 DEF iterate_and_load_keys, Answered
  <2>5. \A j \in Keys : ~Answered(j)'
    BY <2>2 DEF Answered
  <2> QED
    BY <1>1, <1>2, <2>3, <2>4, <2>5, Undisturbed
<1>6. ASSUME connect \/ connect_returns \/ is_running \/ shutdown PROVE Current'
  <2>1. /\ caller'.pc \notin {"asking", "waiting"} /\ caller.pc # "waiting"
        /\ UNCHANGED <<op_in_progress, configs>>
    BY <1>1, <1>6 DEF connect, connect_returns, is_running, shutdown, Base, Types, TypeOK
  <2>2. Answering'
    BY <1>1, <1>3, <2>1 DEF Answering
  <2>3. \A j \in Keys : ~Answered(j)'
    BY <2>1 DEF Answered
  <2> QED
    BY <1>1, <1>2, <2>1, <2>2, <2>3, Undisturbed
<1> QED
  BY <1>4, <1>5, <1>6, <1>7 DEF server_thread

\* A step of the client's thread or of the library that reports something or starts or begins
\* to close a handle.
LEMMA QuietStep ==
    ASSUME ConfigInv, Retains, NoNewValue, Answering', missed \subseteq missed',
           UNCHANGED <<caller, get_result, configs, wpc, pending_config_updates>>
    PROVE  Current'
<1>1. Base /\ Watching /\ Following
  BY DEF ConfigInv, Current
<1>2. \A k \in Keys : Answered(k)' => Answered(k)
  BY SameAnswered
<1> QED
  BY <1>1, <1>2, Undisturbed

\* A handle is closed by a thread other than its watcher's.
LEMMA ClosingRest ==
    ASSUME ConfigInv, zh # 0, close_returns(zh), wpc.h # zh,
           UNCHANGED <<caller, configs, wpc, pending_config_updates>>
    PROVE  Current'
<1>1. Base /\ Answering /\ Watching
  BY DEF ConfigInv, Current
<1>2. /\ Answering' /\ missed' = Keys
      /\ \A g \in Handles : g # zh /\ Live(g) => Live(g)'
  BY <1>1, CloseKept
<1>3. Following'
  BY <1>1, <1>2, AllMissed DEF Base, Types, TypeOK
<1>4. ASSUME wpc.pc \in {"changed", "pending"} PROVE Live(wpc.h)'
  <2>1. PICK h \in Handles : h = wpc.h /\ Live(h)
    BY <1>1, <1>4, Bounds DEF Watching, Base, Types, TypeOK, Closing
  <2>2. Live(h)'
    BY <1>2, <2>1
  <2> QED
    BY <2>1, <2>2
<1>5. Watching'
  BY <1>1, <1>4 DEF Watching
<1> QED
  BY <1>2, <1>3, <1>5 DEF Current

\* The client's thread.
LEMMA ClientThread ==
    ASSUME ConfigInv, zk_thread
    PROVE  Current'
<1> USE DEF zkVars, opVars, watchVars, libVars
<1>1. Base /\ Answering /\ Watching /\ Following
  BY DEF ConfigInv, Current
<1>2. myid \in 0 .. Garbage /\ 0 \in 0 .. Garbage
  BY <1>1, Bounds DEF Base, Types, TypeOK
<1>3. ASSUME UNCHANGED <<handle, caller, op_in_progress, get_result, configs, wpc,
                         pending_config_updates, missed>>
      PROVE  Current'
  BY <1>1, <1>3, SameKept, QuietStep
<1>4. ASSUME NEW id \in 0 .. Garbage, zookeeper_init(id),
             UNCHANGED <<caller, op_in_progress, get_result, configs, wpc,
                         pending_config_updates, missed>>
      PROVE  Current'
  BY <1>1, <1>4, StartKept, QuietStep
<1>5. ASSUME zh # 0, close_begins(zh),
             UNCHANGED <<caller, op_in_progress, get_result, configs, wpc,
                         pending_config_updates, missed>>
      PROVE  Current'
  BY <1>1, <1>5, BeginKept, QuietStep
<1>6. CASE zookeeper_init_returns \/ schedule_repeat_timer
  BY <1>3, <1>6 DEF zookeeper_init_returns, schedule_repeat_timer
<1>7. CASE connect_internal
  BY <1>2, <1>3, <1>4, <1>7 DEF connect_internal
<1>8. CASE retry_or_break
  BY <1>2, <1>3, <1>4, <1>8 DEF retry_or_break, retry_connection
<1>9. CASE close_zk_begins
  BY <1>3, <1>5, <1>9 DEF close_zk_begins
<1>10. CASE mainloop_exits
  BY <1>3, <1>5, <1>10 DEF mainloop_exits
<1>11. CASE close_zk
  BY <1>1, <1>11, ClosingRest DEF close_zk, Base, Closing
<1>12. CASE thread_exits
  BY <1>3, <1>12, ClosingRest DEF thread_exits
<1>13. CASE check_connection
  BY <1>3, <1>13 DEF check_connection
<1> QED
  BY <1>6, <1>7, <1>8, <1>9, <1>10, <1>11, <1>12, <1>13 DEF zk_thread

\* Following when the watcher's work changes: what was tracked still is, is pending or missed.
LEMMA FollowingMoved ==
    ASSUME Following,
           \A k \in Keys : k \in missed \/ k \in pending_config_updates \/ Tracked(k) =>
               k \in missed' \/ k \in pending_config_updates' \/ Tracked(k)',
           \A k \in Keys : configs'[k] # 0 \/ Answered(k)' => configs[k] # 0 \/ Answered(k),
           wpc'.pc = "pending" =>
               \A k \in pending_config_updates' \ wpc'.todo : k \in missed' \/ Tracked(k)'
    PROVE  Following'
BY DEF Following

\* The watcher takes an event.
LEMMA WatcherStep ==
    ASSUME ConfigInv, NEW h \in Handles, watcher(h)
    PROVE  Current'
<1> DEFINE e == Head(handle[h].events)
<1>1. Base /\ Answering /\ Watching /\ Following /\ HandlesOK
  BY DEF ConfigInv, Current, Base, Types
<1>2. /\ Answering' /\ NoNewValue /\ Live(h)'
      /\ \A g \in Handles : Live(g) => Live(g)'
      /\ \A g \in Handles, k \in Keys : Live(g) /\ Traces(g, k) =>
             Traces(g, k)' \/ (g = h /\ e = Changed(k))
  BY <1>1, WatcherKept
<1>3. /\ wpc = Idle /\ wpc.todo = {}
      /\ UNCHANGED <<caller, get_result, configs, missed, pending_config_updates>>
  BY DEF watcher, session_up, opVars, Idle
<1>4. \/ e.type = "changed" /\ wpc' = [h |-> h, pc |-> "changed", todo |-> {e.key}]
      \/ e.type # "changed" /\ wpc' = [h |-> h, pc |-> "pending", todo |-> pending_config_updates]
      \/ e.type # "changed" /\ wpc' = [h |-> h, pc |-> "close", todo |-> {}]
      \/ e.type # "changed" /\ wpc' = Idle
  BY DEF watcher, watcher_close_zk
<1> HIDE DEF e
<1>5. ASSUME NEW k \in Keys, Tracked(k) PROVE Tracked(k)'
  <2>1. PICK g \in Handles : Live(g) /\ Traces(g, k)
    BY <1>3, <1>5 DEF Tracked, TracksIn
  <2>2. CASE Traces(g, k)'
    BY <1>2, <2>1, <2>2 DEF Tracked, TracksIn
  <2>3. CASE e = Changed(k)
    <3>1. e.type = "changed" /\ e.key = k
      BY <2>3, Events
    <3>2. wpc'.h = h /\ k \in wpc'.todo
      BY <1>4, <3>1
    <3> QED
      BY <1>2, <3>2 DEF Tracked, TracksIn
  <2> QED
    BY <1>2, <2>1, <2>2, <2>3
<1>6. \A k \in Keys : Answered(k)' => Answered(k)
  BY <1>2, <1>3, SameAnswered
<1>7. wpc'.pc = "pending" => wpc'.todo = pending_config_updates
  BY <1>4 DEF Idle
<1>8. Following'
  BY <1>1, <1>3, <1>5, <1>6, <1>7, FollowingMoved
<1>9. Watching'
  <2>1. CASE wpc' = [h |-> h, pc |-> "changed", todo |-> {e.key}]
    <3>1. handle'[wpc'.h].st \notin {"none", "closed"}
      BY <1>2, <2>1 DEF Live
    <3> QED
      BY <2>1, <3>1 DEF Watching, Live, AtMostOne
  <2>2. CASE wpc' = [h |-> h, pc |-> "pending", todo |-> pending_config_updates]
    <3>1. handle'[wpc'.h].st \notin {"none", "closed"}
      BY <1>2, <2>2 DEF Live
    <3> QED
      BY <1>3, <2>2, <3>1 DEF Watching, Live
  <2>3. CASE wpc' = [h |-> h, pc |-> "close", todo |-> {}]
    BY <2>3 DEF Watching
  <2>4. CASE wpc' = Idle
    BY <2>4 DEF Watching, Idle
  <2> QED
    BY <1>4, <2>1, <2>2, <2>3, <2>4
<1> QED
  BY <1>2, <1>8, <1>9 DEF Current

\* The watcher stores a value it fetched.
LEMMA FetchStep ==
    ASSUME ConfigInv, NEW k \in Keys, watcher_fetched(k)
    PROVE  Current'
<1>1. /\ Base /\ Answering /\ Watching /\ Following
      /\ pending_config_updates \subseteq Keys /\ missed \subseteq Keys
      /\ configs \in [Keys -> Values]
  BY DEF ConfigInv, Current, Base, Types, TypeOK, Values
<1>2. PICK h \in Handles : h = wpc.h /\ Live(h)' /\ Traces(h, k)'
  BY <1>1, FetchKept
<1>3. Retains /\ NoNewValue /\ Answering'
  BY <1>1, FetchKept
<1>4. /\ wpc.pc \in {"changed", "pending"} /\ k \in wpc.todo
      /\ UNCHANGED <<caller, get_result>>
      /\ \A j \in Keys : j # k => (j \in missed => j \in missed')
      /\ \/ wpc.todo = {k} /\ wpc' = Idle
         \/ wpc.todo # {k} /\ wpc' = [wpc EXCEPT !.todo = @ \ {k}]
      /\ \/ wpc.pc = "pending" /\ wpc.todo = {k} /\ pending_config_updates' = {}
         \/ UNCHANGED pending_config_updates
  BY DEF watcher_fetched, session_up, opVars
<1>5. /\ wpc'.pc = "pending" => /\ wpc.pc = "pending" /\ wpc.todo # {k}
                                /\ wpc'.todo = wpc.todo \ {k}
      /\ wpc'.pc # "idle" => /\ wpc'.pc = wpc.pc /\ wpc'.h = wpc.h
                             /\ wpc'.todo = wpc.todo \ {k} /\ wpc.todo # {k}
      /\ wpc'.pc = "idle" => wpc'.todo = {} /\ wpc.todo = {k}
  BY <1>1, <1>4 DEF Idle, Base, Types, TypeOK
<1>6. Tracked(k)'
  BY <1>2 DEF Tracked, TracksIn
<1>7. ASSUME NEW j \in Keys, Tracked(j) PROVE Tracked(j)'
  <2>1. PICK g \in Handles : Live(g) /\ TracksIn(g, j)
    BY <1>7 DEF Tracked
  <2>2. CASE Traces(g, j)
    BY <1>3, <2>1, <2>2 DEF Retains, Tracked, TracksIn
  <2>3. CASE wpc.h = g /\ j \in wpc.todo /\ j # k
    <3>1. wpc'.h = g /\ j \in wpc'.todo
      BY <1>5, <2>3
    <3> QED
      BY <1>3, <2>1, <3>1 DEF Retains, Tracked, TracksIn
  <2> QED
    BY <1>6, <2>1, <2>2, <2>3 DEF TracksIn
<1>8. ASSUME NEW j \in Keys, j \in missed \/ j \in pending_config_updates \/ Tracked(j)
      PROVE  j \in missed' \/ j \in pending_config_updates' \/ Tracked(j)'
  <2>1. CASE j \in missed \/ Tracked(j)
    BY <1>4, <1>6, <1>7, <2>1
  <2>2. CASE wpc.pc = "pending" /\ wpc.todo = {k} /\ j \in pending_config_updates
    <3>1. j = k \/ j \in missed \/ Tracked(j)
      BY <1>1, <2>2 DEF Following
    <3> QED
      BY <1>4, <1>6, <1>7, <3>1
  <2>3. CASE j \in pending_config_updates /\ UNCHANGED pending_config_updates
    BY <2>3
  <2> QED
    BY <1>4, <1>8, <2>1, <2>2, <2>3
<1>9. \A j \in Keys : configs'[j] # 0 \/ Answered(j)' => configs[j] # 0 \/ Answered(j)
  <2>1. \A j \in Keys : Answered(j)' => Answered(j)
    BY <1>3, <1>4, SameAnswered
  <2>2. \A j \in Keys : configs'[j] # 0 => configs[j] # 0
    BY <1>1 DEF watcher_fetched, try_update_value
  <2> QED
    BY <2>1, <2>2
<1>10. ASSUME wpc'.pc = "pending", NEW j \in pending_config_updates' \ wpc'.todo
       PROVE  j \in missed' \/ Tracked(j)'
  <2>1. /\ j \in pending_config_updates /\ j \in Keys /\ wpc.pc = "pending"
        /\ j = k \/ j \notin wpc.todo
    BY <1>1, <1>4, <1>5, <1>10
  <2>2. j = k \/ j \in missed \/ Tracked(j)
    BY <1>1, <2>1 DEF Following
  <2> QED
    BY <1>4, <1>6, <1>7, <2>1, <2>2
<1>11. Following'
  BY <1>1, <1>8, <1>9, <1>10, FollowingMoved
<1>12. Watching'
  <2>1. wpc'.pc \in {"changed", "pending"} => handle'[wpc'.h].st \notin {"none", "closed"}
    BY <1>2, <1>5 DEF Live
  <2>2. wpc'.pc = "changed" => AtMostOne(wpc'.todo)
    BY <1>1, <1>5 DEF Watching, AtMostOne
  <2>3. wpc'.pc = "pending" => wpc'.todo \subseteq pending_config_updates'
    BY <1>1, <1>4, <1>5 DEF Watching
  <2>4. wpc'.pc \in {"idle", "close"} => wpc'.todo = {}
    BY <1>4, <1>5
  <2> QED
    BY <2>1, <2>2, <2>3, <2>4 DEF Watching, Live
<1> QED
  BY <1>3, <1>11, <1>12 DEF Current

\* The watcher could not fetch a key: it is pending from now on.
LEMMA FetchFailedStep ==
    ASSUME ConfigInv, NEW k \in Keys, watcher_fetch_failed(k)
    PROVE  Current'
<1>1. Base /\ Answering /\ Watching /\ Following
  BY DEF ConfigInv, Current
<1>2. Retains /\ NoNewValue /\ Answering'
  BY <1>1, FailKept
<1>3. /\ wpc.pc \in {"changed", "pending"} /\ k \in wpc.todo
      /\ UNCHANGED <<caller, get_result, configs, missed>>
      /\ \/ wpc.pc = "changed" /\ pending_config_updates' = pending_config_updates \cup {k}
         \/ wpc.pc = "pending" /\ UNCHANGED pending_config_updates
      /\ wpc'.pc \in {"idle", "close"} /\ wpc'.todo = {}
  BY DEF watcher_fetch_failed, push_back, watcher_close_zk, Idle, opVars
<1>4. ASSUME NEW j \in Keys, j \in wpc.todo PROVE j \in pending_config_updates'
  BY <1>1, <1>3, <1>4 DEF Watching, AtMostOne
<1>5. ASSUME NEW j \in Keys, Tracked(j) PROVE Tracked(j)' \/ j \in pending_config_updates'
  <2>1. PICK g \in Handles : Live(g) /\ TracksIn(g, j)
    BY <1>5 DEF Tracked
  <2>2. CASE Traces(g, j)
    BY <1>2, <2>1, <2>2 DEF Retains, Tracked, TracksIn
  <2> QED
    BY <1>4, <2>1, <2>2 DEF TracksIn
<1>6. \A j \in Keys : Answered(j)' => Answered(j)
  BY <1>2, <1>3, SameAnswered
<1>7. \A j \in Keys : j \in missed \/ j \in pending_config_updates \/ Tracked(j) =>
          j \in missed' \/ j \in pending_config_updates' \/ Tracked(j)'
  BY <1>3, <1>5
<1>8. Following'
  BY <1>1, <1>3, <1>6, <1>7, FollowingMoved
<1>9. Watching'
  BY <1>3 DEF Watching
<1> QED
  BY <1>2, <1>8, <1>9 DEF Current

\* The watcher has closed the handle.
LEMMA WatcherClosed ==
    ASSUME ConfigInv, watcher_close_returns
    PROVE  Current'
<1>1. Base /\ Answering /\ Watching /\ Following
  BY DEF ConfigInv, Current
<1>2. /\ wpc.pc = "close" /\ wpc.todo = {} /\ wpc'.pc = "idle" /\ wpc'.todo = {}
      /\ UNCHANGED <<caller, configs, pending_config_updates>>
  BY <1>1 DEF watcher_close_returns, Idle, Watching
<1>3. Watching'
  BY <1>2 DEF Watching
<1>4. CASE zh # 0
  <2>1. close_returns(zh)
    BY <1>4 DEF watcher_close_returns
  <2>2. Answering' /\ missed' = Keys
    BY <1>1, <1>2, <1>4, <2>1, CloseKept
  <2>3. Following'
    BY <1>1, <1>2, <2>2, AllMissed DEF Base, Types, TypeOK
  <2> QED
    BY <1>3, <2>2, <2>3 DEF Current
<1>5. CASE zh = 0
  <2>1. UNCHANGED <<handle, missed, op_in_progress, get_result>>
    BY <1>5 DEF watcher_close_returns, opVars
  <2>2. Retains /\ NoNewValue /\ Answering'
    BY <1>1, <1>2, <2>1, SameKept
  <2>3. ASSUME NEW j \in Keys, Tracked(j) PROVE Tracked(j)'
    BY <1>2, <2>2, <2>3 DEF Tracked, TracksIn, Retains
  <2>4. \A j \in Keys : Answered(j)' => Answered(j)
    BY <1>2, <2>1, <2>2, SameAnswered
  <2>5. Following'
    BY <1>1, <1>2, <2>1, <2>3, <2>4, FollowingMoved
  <2> QED
    BY <1>3, <2>2, <2>5 DEF Current
<1> QED
  BY <1>4, <1>5

\* The completion thread.
LEMMA CompletionThread ==
    ASSUME ConfigInv, completion_thread
    PROVE  Current'
<1>1. ASSUME NEW h \in Handles, my_data_completion(h) PROVE Current'
  <2>1. Base /\ Answering /\ Watching /\ Following
    BY DEF ConfigInv, Current
  <2>2. Retains /\ Answering' /\ \A k : Answered(k)' => Answered(k)
    BY <1>1, <2>1, CompletionKept
  <2>3. UNCHANGED <<wpc, pending_config_updates, missed, configs>>
    BY <1>1 DEF my_data_completion, watchVars
  <2> QED
    BY <2>1, <2>2, <2>3, Undisturbed
<1> QED
  BY <1>1, WatcherStep, FetchStep, FetchFailedStep, WatcherClosed DEF completion_thread

\* The answer to load's request: from then on the key is followed, or load fails.
LEMMA AnswerStep ==
    ASSUME ConfigInv, NEW h \in Handles, request_answered(h)
    PROVE  Current'
<1>1. Base /\ Answering /\ Watching /\ Following
  BY DEF ConfigInv, Current
<1>2. /\ Retains /\ Answering'
      /\ \A k \in Keys : (k \in missed => k \in missed') \/ (Live(h)' /\ Traces(h, k)')
      /\ \A k \in Keys : Answered(k)' => Answered(k) \/ (Live(h)' /\ Traces(h, k)')
  BY <1>1, AnswerKept
<1>3. UNCHANGED <<wpc, pending_config_updates, configs>>
  BY DEF request_answered, libUnchanged, watchVars
<1>4. \A k \in Keys : Live(h)' /\ Traces(h, k)' => Tracked(k)'
  BY DEF Tracked, TracksIn
<1>5. ASSUME NEW k \in Keys, Tracked(k) PROVE Tracked(k)'
  <2>1. PICK g \in Handles : Live(g) /\ TracksIn(g, k)
    BY <1>5 DEF Tracked
  <2> QED
    BY <1>2, <1>3, <2>1 DEF Retains, Tracked, TracksIn
<1>6. \A k \in Keys : k \in missed \/ Tracked(k) => k \in missed' \/ Tracked(k)'
  BY <1>2, <1>4, <1>5
<1>7. ASSUME NEW k \in Keys, configs'[k] # 0 \/ Answered(k)'
      PROVE  k \in missed' \/ k \in pending_config_updates' \/ Tracked(k)'
  <2>1. configs[k] # 0 \/ Answered(k) \/ Tracked(k)'
    BY <1>2, <1>3, <1>4, <1>7
  <2> QED
    BY <1>1, <1>3, <1>6, <2>1 DEF Following
<1>8. ASSUME wpc'.pc = "pending", NEW k \in pending_config_updates' \ wpc'.todo
      PROVE  k \in missed' \/ Tracked(k)'
  <2>1. k \in Keys /\ (k \in missed \/ Tracked(k))
    BY <1>1, <1>3, <1>8 DEF Following, Base, Types, TypeOK
  <2> QED
    BY <1>6, <2>1
<1>9. Following'
  BY <1>7, <1>8 DEF Following
<1>10. Watching'
  <2>1. ASSUME wpc.pc \in {"changed", "pending"} PROVE handle'[wpc.h].st \notin {"none", "closed"}
    <3>1. PICK g \in Handles : g = wpc.h /\ Live(g)
      BY <1>1, <2>1, Bounds DEF Watching, Base, Types, TypeOK, Closing
    <3> QED
      BY <1>2, <3>1 DEF Retains, Live
  <2> QED
    BY <1>1, <1>3, <2>1 DEF Watching, Live
<1> QED
  BY <1>2, <1>9, <1>10 DEF Current

\* The service and the network.
LEMMA ServiceStep ==
    ASSUME ConfigInv,
           \/ \E h \in Handles : \/ server_answers(h) \/ connection_lost(h)
                                 \/ readonly_server(h) \/ request_answered(h)
           \/ session_lost
           \/ \E k \in Keys : node_changes(k) \/ \E h \in Handles : watch_fires(h, k)
    PROVE  Current'
<1> USE DEF libUnchanged, opVars, watchVars
<1>1. Base /\ Answering
  BY DEF ConfigInv, Current
<1>2. ASSUME NEW h \in Handles, server_answers(h) PROVE Current'
  <2>1. UNCHANGED <<caller, get_result, configs, wpc, pending_config_updates, missed>>
    BY <1>2 DEF server_answers
  <2> QED
    BY <1>1, <1>2, <2>1, ServerReported, QuietStep
<1>3. ASSUME NEW h \in Handles, connection_lost(h) PROVE Current'
  <2>1. UNCHANGED <<caller, get_result, configs, wpc, pending_config_updates, missed>>
    BY <1>3 DEF connection_lost
  <2> QED
    BY <1>1, <1>3, <2>1, LossReported, QuietStep
<1>4. ASSUME NEW h \in Handles, readonly_server(h) PROVE Current'
  <2>1. UNCHANGED <<caller, get_result, configs, wpc, pending_config_updates, missed>>
    BY <1>4 DEF readonly_server
  <2> QED
    BY <1>1, <1>4, <2>1, ReadOnlyReported, QuietStep
<1>5. ASSUME NEW h \in Handles, NEW k \in Keys, watch_fires(h, k) PROVE Current'
  <2>1. UNCHANGED <<caller, get_result, configs, wpc, pending_config_updates, missed>>
    BY <1>5 DEF watch_fires
  <2> QED
    BY <1>1, <1>5, <2>1, ChangeReported, QuietStep
<1>6. ASSUME session_lost \/ \E k \in Keys : node_changes(k) PROVE Current'
  <2>1. UNCHANGED <<handle, caller, op_in_progress, get_result, configs, wpc,
                    pending_config_updates, missed>>
    BY <1>6 DEF session_lost, node_changes
  <2> QED
    BY <1>1, <2>1, SameKept, QuietStep
<1> QED
  BY <1>2, <1>3, <1>4, <1>5, <1>6, AnswerStep

LEMMA ConfigStart == Init => ConfigInv
<1> SUFFICES ASSUME Init PROVE Current
  BY BaseStart DEF ConfigInv
<1>1. /\ caller.pc = "new" /\ op_in_progress = FALSE /\ wpc = Idle
      /\ \A h \in Handles : handle[h] = NoHandle
      /\ \A k \in Keys : configs[k] = 0
  BY DEF Init
<1>2. Answering
  BY <1>1, NoHandleOK, NoEvent DEF Answering
<1>3. Watching
  BY <1>1 DEF Watching, Idle
<1>4. Following
  BY <1>1 DEF Following, Answered, Idle
<1> QED
  BY <1>2, <1>3, <1>4 DEF Current

LEMMA ConfigStep == ConfigInv /\ [Next]_vars => ConfigInv'
<1> SUFFICES ASSUME ConfigInv, [Next]_vars PROVE ConfigInv'
  OBVIOUS
<1>1. Base'
  BY BaseStep DEF ConfigInv
<1>2. CASE UNCHANGED vars
  <2>1. UNCHANGED <<handle, caller, op_in_progress, get_result, configs, wpc,
                    pending_config_updates, missed>>
    BY <1>2 DEF vars, opVars, watchVars, libVars
  <2>2. Current'
    BY <2>1, SameKept, QuietStep DEF ConfigInv, Current
  <2> QED
    BY <1>1, <2>2 DEF ConfigInv
<1>3. CASE Next
  <2>1. Current'
    BY <1>3, ServerThread, ClientThread, CompletionThread, ServiceStep DEF Next
  <2> QED
    BY <1>1, <2>1 DEF ConfigInv
<1> QED
  BY <1>2, <1>3

\* With the answers load waits for, the work of the watcher and the list of pending updates: a
\* key that is stored, or whose value is on its way to load, is missed, pending or tracked.
THEOREM ConfigInductive == Spec => []ConfigInv
<1> QED
  BY ConfigStart, ConfigStep, PTL DEF Spec

\* A stored value that is out of date is going to be replaced (a watch is set or has fired, a
\* fetch is under way) or its fetch failed and is pending, unless its watch was lost with its
\* handle or the change came before load stored the key.
THEOREM ConfigTracked == Spec => []ConfigCurrent
<1>1. ASSUME ConfigInv PROVE ConfigCurrent
  <2> SUFFICES ASSUME NEW k \in Keys, configs[k] \notin {0, store[k]},
                      k \notin missed \cup pending_config_updates
               PROVE  \E h \in Handles :
                         /\ handle[h].st \notin {"none", "closed"}
                         /\ \/ handle[h].watch[k] # 0
                            \/ \E i \in 1 .. Len(handle[h].events) : handle[h].events[i] = Changed(k)
                            \/ wpc.h = h /\ k \in wpc.todo
    BY DEF ConfigCurrent
  <2>1. Tracked(k)
    BY <1>1 DEF ConfigInv, Current, Following
  <2> QED
    BY <2>1 DEF Tracked, Live, TracksIn, Traces, HasChanged
<1>2. ConfigInv => ConfigCurrent
  BY <1>1
<1> QED
  BY <1>2, ConfigInductive, PTL

=============================================================================
