------------------------ MODULE QTextFileLoggerProofs ------------------------
(***************************************************************************)
(* Proofs about QTextFileLogger, for any threads, number of records, size  *)
(* of files and restarts: no finished file is touched, and records are     *)
(* kept once each and in the order of their threads.                       *)
(***************************************************************************)
EXTENDS QTextFileLogger, FiniteSetTheorems, SequenceTheorems, TLAPS

USE DEF session, queues, file, disk

-----------------------------------------------------------------------------
(* The inductive invariant                                                 *)

FileContents == Seq(Record) \cup {Absent}

\* TypeOK, and the types of what it does not name.
Types ==
    /\ server \in {"boot", "serving", "waiting", "exited", "crashed"}
    /\ thread \in {"none", "created", "opened", "scheduled", "loop", "ended", "closing", "exited"}
    /\ log_status \in BOOLEAN /\ finished \in BOOLEAN /\ logtimer \in BOOLEAN /\ cancel \in BOOLEAN
    /\ logfile \in {"none", "open", "closing"}
    /\ log_mutex \in Producers \cup {"nobody"}
    /\ at \in [Producers -> {"idle", "locked", "busy", "alloc"}]
    /\ flushing \in {"idle", "locked", "reopen"}
    /\ count \in [Producers -> Nat]
    /\ records \in Seq(Record) /\ records_waiting \in Seq(Record)
    /\ fp \in Files \cup {NoFile} /\ next_file \in Nat /\ logfile_size \in Nat
    /\ tmp \in [Files -> FileContents] /\ log \in [Files -> FileContents]
    /\ crawled \subseteq Record /\ accepted \subseteq Record
    /\ mishap \subseteq {"race", "fopen", "late"}

\* A number has one file, and the open one is a .tmp file.
OneFile ==
    /\ \A f \in Files : tmp[f] # Absent => log[f] = Absent
    /\ fp # NoFile => tmp[fp] # Absent

\* The file object lives from session_open to the end of its destructor, and what there is
\* before and after.
Session ==
    /\ server = "boot" => thread = "none"
    /\ thread \in {"none", "created", "exited"} <=> logfile = "none"
    /\ thread = "closing" <=> logfile = "closing"
    /\ logfile = "none" => fp = NoFile /\ records = <<>>
    /\ thread \in {"none", "created"} => records_waiting = <<>> /\ next_file = 0
    /\ fp # NoFile => next_file = fp + 1

\* log_mutex is with the thread that is between lock and unlock.
Mutex ==
    /\ at["logger"] # "idle" => thread = "loop"
    /\ flushing # "idle" =>
          thread \in {"loop", "closing"} /\ log_mutex = "logger" /\ at["logger"] = "idle"
    /\ flushing = "reopen" => thread = "loop" /\ fp = NoFile
    /\ \A p \in Producers : at[p] = "locked" => log_mutex = p
    /\ log_mutex \in Producers =>
          at[log_mutex] = "locked" \/ (log_mutex = "logger" /\ flushing # "idle")

Base == Types /\ OneFile /\ Session /\ Mutex

\* A thread's records of a come before those of b.
Before(a, b) == \A r \in a, q \in b : r[1] = q[1] => r[2] < q[2]

\* The records of a thread are in their order.
Ordered(s) == \A i, j \in 1 .. Len(s) : i < j /\ s[i][1] = s[j][1] => s[i][2] < s[j][2]

\* The parts of Pipeline, and the records on disk.
R == Contents(records)
W == Contents(Waiting)
T(f) == Stored(tmp[f])
L(f) == Stored(log[f])
O == IF fp = NoFile THEN {} ELSE T(fp)

\* Without a mishap, the file is open and its size is known, and nobody logs while it is closed.
Opened ==
    /\ thread = "closing" => \A p \in Producers : at[p] = "idle"
    /\ logfile # "none" /\ flushing # "reopen" => fp # NoFile
    /\ fp # NoFile => logfile_size = Len(tmp[fp])

\* The record that a thread is logging is new.
Fresh == \A p \in Producers : \A r \in InMemory \cup OnDisk :
    r[1] = p => r[2] <= count[p] /\ (at[p] # "idle" => r[2] < count[p])

\* The .tmp files that this process has passed are full.
Passed == thread # "exited" =>
    \A f \in Files : f < next_file /\ f # fp /\ tmp[f] # Absent => Len(tmp[f]) >= max_size_of_file

\* What is still to come of the .tmp files is older than what this process has logged, and
\* than what an earlier process left in a file before it.
Ahead == \A g \in Files : g >= next_file => Before(T(g), O \cup R \cup W)
Older == \A f, g \in Files :
    f < g /\ tmp[f] # Absent /\ Len(tmp[f]) < max_size_of_file => Before(T(g), T(f))

InOrder ==
    /\ Ordered(records) /\ Ordered(Waiting)
    /\ \A f \in Files : (tmp[f] # Absent => Ordered(tmp[f])) /\ (log[f] # Absent => Ordered(log[f]))
    /\ Before(O, R \cup W) /\ Before(R, W)

\* A record is in one place.
Apart ==
    /\ R \cap W = {}
    /\ \A f \in Files : (T(f) \cup L(f)) \cap (R \cup W \cup crawled) = {}
    /\ (R \cup W) \cap crawled = {}
    /\ \A f, g \in Files : f # g => T(f) \cap T(g) = {} /\ L(f) \cap L(g) = {}
    /\ \A f, g \in Files : T(f) \cap L(g) = {}

Kept == accepted \subseteq InMemory \cup OnDisk

Sound == Opened /\ Fresh /\ Passed /\ Ahead /\ Older /\ InOrder /\ Apart /\ Kept

LoggerInv == Base /\ (mishap = {} => Sound)

-----------------------------------------------------------------------------
(* Sequences of records                                                    *)

\* The records of a sequence that is extended.
LEMMA ContentsParts ==
    /\ Contents(<<>>) = {} /\ Ordered(<<>>)
    /\ \A s \in Seq(Record) : Contents(s) \subseteq Record
    /\ \A s, t \in Seq(Record) :
          s \o t \in Seq(Record) /\ Contents(s \o t) = Contents(s) \cup Contents(t)
    /\ \A s \in Seq(Record), r \in Record :
          Append(s, r) \in Seq(Record) /\ Contents(Append(s, r)) = Contents(s) \cup {r}
<1> DEFINE D == Record
<1>1. Contents(<<>>) = {} /\ Ordered(<<>>)
  BY DEF Contents, Ordered
<1> HIDE DEF D
<1>2. ASSUME NEW s \in Seq(D) PROVE Contents(s) \subseteq D
  BY DEF Contents
<1>3. ASSUME NEW s \in Seq(D), NEW t \in Seq(D)
      PROVE  s \o t \in Seq(D) /\ Contents(s \o t) = Contents(s) \cup Contents(t)
  <2>1. /\ s \o t \in Seq(D) /\ Len(s \o t) = Len(s) + Len(t)
        /\ Len(s) \in Nat /\ Len(t) \in Nat
        /\ \A i \in 1 .. Len(s) : (s \o t)[i] = s[i]
        /\ \A i \in 1 .. Len(t) : (s \o t)[Len(s) + i] = t[i]
    OBVIOUS
  <2>2. DOMAIN s = 1 .. Len(s) /\ DOMAIN t = 1 .. Len(t) /\ DOMAIN (s \o t) = 1 .. Len(s) + Len(t)
    BY <2>1
  <2>3. \A i \in 1 .. Len(s) + Len(t) :
            i \in 1 .. Len(s) \/ (i - Len(s) \in 1 .. Len(t) /\ i = Len(s) + (i - Len(s)))
    BY <2>1
  <2>4. Contents(s \o t) \subseteq Contents(s) \cup Contents(t)
    <3> SUFFICES ASSUME NEW i \in DOMAIN (s \o t)
                 PROVE  (s \o t)[i] \in Contents(s) \cup Contents(t)
      BY DEF Contents
    <3>1. CASE i \in 1 .. Len(s)
      BY <2>1, <2>2, <3>1 DEF Contents
    <3>2. CASE i - Len(s) \in 1 .. Len(t) /\ i = Len(s) + (i - Len(s))
      <4>1. (s \o t)[i] = t[i - Len(s)]
        BY <2>1, <3>2
      <4> QED
        BY <2>2, <3>2, <4>1 DEF Contents
    <3> QED
      BY <2>2, <2>3, <3>1, <3>2
  <2>5. \A i \in 1 .. Len(s) : i \in DOMAIN (s \o t)
    BY <2>1, <2>2
  <2>6. \A i \in 1 .. Len(t) : Len(s) + i \in DOMAIN (s \o t)
    BY <2>1, <2>2
  <2>7. Contents(s) \cup Contents(t) \subseteq Contents(s \o t)
    BY <2>1, <2>2, <2>5, <2>6 DEF Contents
  <2> QED
    BY <2>1, <2>4, <2>7
<1>4. ASSUME NEW s \in Seq(D), NEW r \in D
      PROVE  Append(s, r) \in Seq(D) /\ Contents(Append(s, r)) = Contents(s) \cup {r}
  <2>1. /\ Append(s, r) \in Seq(D) /\ Len(Append(s, r)) = Len(s) + 1 /\ Len(s) \in Nat
        /\ \A i \in 1 .. Len(s) : Append(s, r)[i] = s[i]
        /\ Append(s, r)[Len(s) + 1] = r
    OBVIOUS
  <2>2. DOMAIN s = 1 .. Len(s) /\ DOMAIN Append(s, r) = 1 .. Len(s) + 1
    BY <2>1
  <2>3. \A i \in 1 .. Len(s) + 1 : i \in 1 .. Len(s) \/ i = Len(s) + 1
    BY <2>1
  <2>4. Len(s) + 1 \in 1 .. Len(s) + 1 /\ \A i \in 1 .. Len(s) : i \in 1 .. Len(s) + 1
    BY <2>1
  <2> QED
    BY <2>1, <2>2, <2>3, <2>4 DEF Contents
<1> QED
  BY <1>1, <1>2, <1>3, <1>4 DEF D

\* Records are in order where those of each part are, and the first part's come first.
LEMMA OrderedParts ==
    /\ \A s, t \in Seq(Record) :
          Ordered(s \o t) <=> Ordered(s) /\ Ordered(t) /\ Before(Contents(s), Contents(t))
    /\ \A s \in Seq(Record), r \in Record :
          Ordered(s) /\ Before(Contents(s), {r}) => Ordered(Append(s, r))
<1> DEFINE D == Record
<1> HIDE DEF D
<1>1. ASSUME NEW s \in Seq(D), NEW t \in Seq(D)
      PROVE  Ordered(s \o t) <=> Ordered(s) /\ Ordered(t) /\ Before(Contents(s), Contents(t))
  <2>1. /\ Len(s \o t) = Len(s) + Len(t)
        /\ Len(s) \in Nat /\ Len(t) \in Nat
        /\ \A i \in 1 .. Len(s) : (s \o t)[i] = s[i]
        /\ \A i \in 1 .. Len(t) : (s \o t)[Len(s) + i] = t[i]
        /\ DOMAIN s = 1 .. Len(s) /\ DOMAIN t = 1 .. Len(t)
    OBVIOUS
  <2>2. \A i \in 1 .. Len(s) + Len(t) :
            i \in 1 .. Len(s) \/ (i - Len(s) \in 1 .. Len(t) /\ i = Len(s) + (i - Len(s)))
    BY <2>1
  <2>3. ASSUME Ordered(s), Ordered(t), Before(Contents(s), Contents(t))
        PROVE  Ordered(s \o t)
    <3> DEFINE u == s \o t
    <3> SUFFICES ASSUME NEW i \in 1 .. Len(u), NEW j \in 1 .. Len(u), i < j, u[i][1] = u[j][1]
                 PROVE  u[i][2] < u[j][2]
      BY DEF Ordered
    <3>1. CASE i \in 1 .. Len(s) /\ j \in 1 .. Len(s)
      BY <2>1, <2>3, <3>1 DEF Ordered
    <3>2. CASE i \in 1 .. Len(s) /\ j - Len(s) \in 1 .. Len(t) /\ j = Len(s) + (j - Len(s))
      <4>1. u[i] = s[i] /\ u[j] = t[j - Len(s)]
        BY <2>1, <3>2
      <4>2. u[i] \in Contents(s) /\ u[j] \in Contents(t)
        BY <2>1, <3>2, <4>1 DEF Contents
      <4> QED
        BY <2>3, <4>2 DEF Before
    <3>3. CASE /\ i - Len(s) \in 1 .. Len(t) /\ i = Len(s) + (i - Len(s))
               /\ j - Len(s) \in 1 .. Len(t) /\ j = Len(s) + (j - Len(s))
      <4>1. u[i] = t[i - Len(s)] /\ u[j] = t[j - Len(s)]
        BY <2>1, <3>3
      <4>2. i - Len(s) < j - Len(s)
        BY <2>1
      <4> QED
        BY <2>3, <3>3, <4>1, <4>2 DEF Ordered
    <3>4. CASE i - Len(s) \in 1 .. Len(t) /\ j \in 1 .. Len(s)
      BY <2>1, <3>4
    <3> QED
      BY <2>1, <2>2, <3>1, <3>2, <3>3, <3>4
  <2>4. ASSUME Ordered(s \o t) PROVE Ordered(s)
    <3> SUFFICES ASSUME NEW i \in 1 .. Len(s), NEW j \in 1 .. Len(s), i < j, s[i][1] = s[j][1]
                 PROVE  s[i][2] < s[j][2]
      BY DEF Ordered
    <3> DEFINE u == s \o t
    <3>1. i \in 1 .. Len(u) /\ j \in 1 .. Len(u) /\ u[i] = s[i] /\ u[j] = s[j]
      BY <2>1
    <3>2. \A k, l \in 1 .. Len(u) : k < l /\ u[k][1] = u[l][1] => u[k][2] < u[l][2]
      BY <2>4 DEF Ordered
    <3> HIDE DEF u
    <3> QED
      BY <3>1, <3>2
  <2>5. ASSUME Ordered(s \o t) PROVE Ordered(t)
    <3> SUFFICES ASSUME NEW i \in 1 .. Len(t), NEW j \in 1 .. Len(t), i < j, t[i][1] = t[j][1]
                 PROVE  t[i][2] < t[j][2]
      BY DEF Ordered
    <3>1. /\ Len(s) + i \in 1 .. Len(s \o t) /\ Len(s) + j \in 1 .. Len(s \o t)
          /\ Len(s) + i < Len(s) + j
      BY <2>1
    <3> DEFINE u == s \o t
    <3>2. u[Len(s) + i] = t[i] /\ u[Len(s) + j] = t[j]
      BY <2>1
    <3>3. \A k, l \in 1 .. Len(u) : k < l /\ u[k][1] = u[l][1] => u[k][2] < u[l][2]
      BY <2>5 DEF Ordered
    <3> HIDE DEF u
    <3> QED
      BY <3>1, <3>2, <3>3 DEF u
  <2>6. ASSUME Ordered(s \o t) PROVE Before(Contents(s), Contents(t))
    <3> SUFFICES ASSUME NEW i \in 1 .. Len(s), NEW j \in 1 .. Len(t), s[i][1] = t[j][1]
                 PROVE  s[i][2] < t[j][2]
      BY <2>1 DEF Before, Contents
    <3>1. /\ i \in 1 .. Len(s \o t) /\ Len(s) + j \in 1 .. Len(s \o t)
          /\ i < Len(s) + j
      BY <2>1
    <3> QED
      BY <2>1, <2>6, <3>1 DEF Ordered
  <2> QED
    BY <2>3, <2>4, <2>5, <2>6
<1>2. ASSUME NEW s \in Seq(D), NEW r \in D, Ordered(s), Before(Contents(s), {r})
      PROVE  Ordered(Append(s, r))
  <2>1. /\ Len(Append(s, r)) = Len(s) + 1 /\ Len(s) \in Nat
        /\ \A i \in 1 .. Len(s) : Append(s, r)[i] = s[i]
        /\ Append(s, r)[Len(s) + 1] = r /\ DOMAIN s = 1 .. Len(s)
    OBVIOUS
  <2> DEFINE u == Append(s, r)
  <2> SUFFICES ASSUME NEW i \in 1 .. Len(u), NEW j \in 1 .. Len(u), i < j, u[i][1] = u[j][1]
               PROVE  u[i][2] < u[j][2]
    BY DEF Ordered
  <2>2. i \in 1 .. Len(s)
    BY <2>1
  <2>3. CASE j \in 1 .. Len(s)
    BY <1>2, <2>1, <2>2, <2>3 DEF Ordered
  <2>4. CASE j = Len(s) + 1
    <3>1. u[i] \in Contents(s) /\ u[j] \in {r}
      BY <2>1, <2>2, <2>4 DEF Contents
    <3> QED
      BY <1>2, <3>1 DEF Before
  <2> QED
    BY <2>1, <2>3, <2>4
<1> QED
  BY <1>1, <1>2 DEF D

\* What flush writes: the records that it can print, in their order.
LEMMA Written ==
    ASSUME records \in Seq(Record), NEW bad
    PROVE  /\ written(bad) \in Seq(Record)
           /\ Contents(written(bad)) = Contents(records) \ bad
           /\ Ordered(records) => Ordered(written(bad))
<1> DEFINE D == Record
           K == printed(bad)
           n == Cardinality(K)
           below(i) == {j \in K : j <= i}
           rank(i) == Cardinality(below(i))
           place(k) == CHOOSE i \in K : rank(i) = k
           w == written(bad)
<1>1. w = [k \in 1 .. n |-> records[place(k)]]
  BY DEF written
<1>2. K \subseteq 1 .. Len(records) /\ K \subseteq Nat
  BY DEF printed
<1>3. IsFiniteSet(K) /\ n \in Nat
  <2>1. IsFiniteSet(1 .. Len(records))
    BY FS_Interval
  <2> QED
    BY <1>2, <2>1, FS_Subset, FS_CardinalityType
<1> HIDE DEF K, n
<1>4. \A i \in K : IsFiniteSet(below(i)) /\ rank(i) \in 1 .. n /\ below(i) \subseteq K
  <2> TAKE i \in K
  <2>1. below(i) \subseteq K /\ i \in below(i)
    BY <1>2
  <2>2. IsFiniteSet(below(i)) /\ rank(i) <= n /\ rank(i) \in Nat
    BY <1>3, <2>1, FS_Subset, FS_CardinalityType DEF n
  <2>3. rank(i) # 0
    BY <2>1, <2>2, FS_EmptySet
  <2> QED
    BY <1>3, <2>1, <2>2, <2>3
<1>5. \A i, j \in K : i < j => rank(i) < rank(j)
  <2> SUFFICES ASSUME NEW i \in K, NEW j \in K, i < j PROVE rank(i) < rank(j)
    OBVIOUS
  <2>1. below(i) \subseteq below(j) /\ j \in below(j) /\ j \notin below(i)
    <3>1. i \in Nat /\ j \in Nat /\ \A k \in K : k \in Nat
      BY <1>2
    <3>2. j <= j /\ ~(j <= i) /\ \A k \in K : k <= i => k <= j
      BY <3>1
    <3> QED
      BY <3>2
  <2>2. rank(i) <= rank(j) /\ (rank(j) = rank(i) => below(j) = below(i))
    BY <1>4, <2>1, FS_Subset
  <2>3. rank(i) # rank(j)
    BY <2>1, <2>2
  <2>4. rank(i) \in 1 .. n /\ rank(j) \in 1 .. n
    BY <1>4
  <2> HIDE DEF rank
  <2> QED
    BY <1>3, <2>2, <2>3, <2>4
<1> HIDE DEF rank
<1>6. \A k \in 1 .. n : \E i \in K : rank(i) = k
  <2> DEFINE f == [i \in K |-> rank(i)]
  <2>1. f \in [K -> 1 .. n]
    BY <1>4
  <2>2. \A i, j \in K : f[i] = f[j] => i = j
    <3> SUFFICES ASSUME NEW i \in K, NEW j \in K, rank(i) = rank(j), i # j PROVE FALSE
      OBVIOUS
    <3>1. i < j \/ j < i
      BY <1>2
    <3>2. rank(i) \in 1 .. n /\ rank(j) \in 1 .. n
      BY <1>4
    <3>3. ~(rank(i) < rank(j)) /\ ~(rank(j) < rank(i))
      BY <1>3, <3>2
    <3> QED
      BY <1>5, <3>1, <3>3
  <2>3. f \in Injection(K, 1 .. n)
    BY <2>1, <2>2 DEF Injection, IsInjective
  <2>4. IsFiniteSet(1 .. n) /\ Cardinality(1 .. n) = n
    <3>1. IsFiniteSet(1 .. n) /\ Cardinality(1 .. n) = IF 1 > n THEN 0 ELSE n - 1 + 1
      BY <1>3, FS_Interval
    <3> QED
      BY <1>3, <3>1
  <2>5. f \in Surjection(K, 1 .. n)
    BY <2>3, <2>4, FS_Injection DEF n
  <2> QED
    BY <2>5 DEF Surjection
<1>7. \A k \in 1 .. n : place(k) \in K /\ rank(place(k)) = k
  BY <1>6
<1>8. \A i \in K : place(rank(i)) = i
  <2> TAKE i \in K
  <2>1. rank(i) \in 1 .. n
    BY <1>4
  <2> DEFINE j == place(rank(i))
  <2>2. j \in K /\ rank(j) = rank(i)
    BY <1>7, <2>1
  <2> HIDE DEF place, j
  <2>3. ~(i < j) /\ ~(j < i)
    <3>1. ~(rank(i) < rank(j)) /\ ~(rank(j) < rank(i))
      BY <1>3, <2>1, <2>2
    <3> QED
      BY <1>5, <2>2, <3>1
  <2>4. i = j
    BY <1>2, <2>2, <2>3
  <2> QED
    BY <2>4 DEF j
<1>9. \A k, l \in 1 .. n : k < l => place(k) < place(l)
  <2> SUFFICES ASSUME NEW k \in 1 .. n, NEW l \in 1 .. n, k < l PROVE place(k) < place(l)
    OBVIOUS
  <2> DEFINE i == place(k)
             j == place(l)
  <2>1. i \in K /\ j \in K /\ rank(i) = k /\ rank(j) = l
    BY <1>7
  <2> HIDE DEF i, j, place
  <2>2. ~(j < i) /\ i # j
    <3>1. ~(l < k)
      BY <1>3
    <3> QED
      BY <1>3, <1>5, <2>1, <3>1
  <2>3. i < j
    BY <1>2, <2>1, <2>2
  <2> QED
    BY <2>3 DEF i, j
<1> HIDE DEF place
<1>10. \A i \in K : i \in 1 .. Len(records) /\ records[i] \in D /\ records[i] \notin bad
  <2> HIDE DEF D
  <2>1. records \in Seq(D)
    BY DEF D
  <2>2. \A i \in 1 .. Len(records) : records[i] \in D
    BY <2>1
  <2> QED
    BY <1>2, <2>2 DEF K, printed
<1>11. w \in Seq(D) /\ Len(w) = n /\ \A k \in 1 .. n : w[k] = records[place(k)]
  <2>1. \A k \in 1 .. n : records[place(k)] \in D
    BY <1>7, <1>10
  <2> HIDE DEF w, D
  <2> QED
    BY <1>1, <1>3, <2>1
<1> HIDE DEF w
<1>12. DOMAIN w = 1 .. n /\ DOMAIN records = 1 .. Len(records)
  <2> HIDE DEF D
  <2>1. DOMAIN w = 1 .. n
    BY <1>11
  <2>2. records \in Seq(D)
    BY DEF D
  <2> QED
    BY <2>1, <2>2
<1>13. Contents(w) = Contents(records) \ bad
  <2>1. \A k \in 1 .. n : w[k] \in Contents(records) \ bad
    BY <1>7, <1>10, <1>11, <1>12 DEF Contents
  <2>2. ASSUME NEW i \in 1 .. Len(records), records[i] \notin bad PROVE records[i] \in Contents(w)
    <3>1. i \in K
      BY <2>2 DEF K, printed
    <3>2. rank(i) \in 1 .. n /\ w[rank(i)] = records[i]
      BY <1>4, <1>8, <1>11, <3>1
    <3> QED
      BY <1>12, <3>2 DEF Contents
  <2> QED
    BY <1>12, <2>1, <2>2 DEF Contents
<1>14. ASSUME Ordered(records) PROVE Ordered(w)
  <2> SUFFICES ASSUME NEW k \in 1 .. n, NEW l \in 1 .. n, k < l, w[k][1] = w[l][1]
               PROVE  w[k][2] < w[l][2]
    BY <1>11 DEF Ordered
  <2>1. /\ w[k] = records[place(k)] /\ w[l] = records[place(l)] /\ place(k) < place(l)
        /\ place(k) \in 1 .. Len(records) /\ place(l) \in 1 .. Len(records)
    BY <1>7, <1>9, <1>10, <1>11
  <2> QED
    BY <1>14, <2>1 DEF Ordered
<1> QED
  BY <1>11, <1>13, <1>14 DEF w, D

-----------------------------------------------------------------------------
(* Base, step by step                                                      *)

LEMMA ProducerNames ==
    /\ "server" \in Producers /\ "logger" \in Producers /\ "nobody" \notin Producers
    /\ NoFile \notin Files /\ Files \subseteq Nat /\ 0 \in Files /\ MaxFiles \in Nat
<1>1. MaxFiles \in Nat
  <2>1. Cardinality(Plugins) \in Nat
    BY LoggerAssumption, FS_CardinalityType
  <2>2. MaxLogs \in Nat /\ MaxRestarts \in Nat
    BY LoggerAssumption
  <2> DEFINE c == Cardinality(Plugins)
  <2> HIDE DEF c
  <2>3. (c + 1) * MaxLogs \in Nat
    BY <2>1, <2>2 DEF c
  <2> QED
    BY <2>2, <2>3 DEF MaxFiles, c
<1> QED
  BY <1>1, LoggerAssumption DEF Producers, NoFile, Files

\* Absent is no sequence of records.
LEMMA AbsentFile == \A s \in Seq(Record) : s # Absent /\ s \in FileContents
BY AbsentAssumption DEF FileContents

LEMMA BaseInit == Init => Base
<1> SUFFICES ASSUME Init PROVE Base
  OBVIOUS
<1>1. Types
  <2>1. <<>> \in Seq(Record)
    OBVIOUS
  <2> QED
    BY <2>1, ProducerNames DEF Init, Types, FileContents
<1> QED
  BY <1>1, ProducerNames DEF Init, Base, OneFile, Session, Mutex

LEMMA BaseLog == ASSUME Base, NEW p \in Producers, log_begin(p) \/ LogStep(p) PROVE Base'
<1> USE ProducerNames DEF Base
<1>1. <<p, count[p]>> \in Record
  BY DEF Types, Record
<1>2. /\ moved \in Seq(Record) /\ Append(moved, <<p, count[p]>>) \in Seq(Record)
      /\ Append(records_waiting, <<p, count[p]>>) \in Seq(Record)
      /\ <<>> \in Seq(Record)
  BY <1>1, ContentsParts DEF Types, moved
<1>3. CASE log_begin(p)
  <2> USE <1>3 DEF log_begin
  <2>1. Types'
    BY DEF Types
  <2>2. p = "logger" => thread = "scheduled" /\ thread' = "loop"
    BY LoggerAssumption DEF may_log
  <2>3. p # "logger" => thread' = thread
    OBVIOUS
  <2>4. OneFile' /\ Session'
    BY <2>2, <2>3 DEF OneFile, Session
  <2>5. Mutex'
    BY <2>2, <2>3 DEF Mutex, Types
  <2> QED
    BY <2>1, <2>4, <2>5
<1>4. CASE log_finish(p)
  <2> USE <1>4 DEF log_finish
  <2> DEFINE r == <<p, count[p]>>
             s == Append(moved, r)
  <2>0. r \in Record /\ s \in Seq(Record)
    BY <1>1, <1>2
  <2>1. Types'
    <3>1. records' \in Seq(Record) /\ records_waiting' \in Seq(Record)
      BY <1>2, <2>0 DEF pending_cleared
    <3>2. accepted' \subseteq Record
      BY <2>0 DEF Types
    <3> QED
      BY <3>1, <3>2 DEF Types
  <2>2. OneFile' /\ Session'
    BY DEF OneFile, Session, pending_cleared
  <2>3. Mutex'
    BY DEF Mutex, Types
  <2> QED
    BY <2>1, <2>2, <2>3
<1>5. CASE log_check(p)
  <2> USE <1>5 DEF log_check
  <2>1. Types' /\ OneFile' /\ Session'
    BY DEF Types, OneFile, Session
  <2>3. Mutex'
    BY DEF Mutex, Types
  <2> QED
    BY <2>1, <2>3
<1>6. CASE log_push(p)
  <2> USE <1>6 DEF log_push
  <2>1. Types'
    <3>1. records_waiting' \in Seq(Record)
      BY <1>2 DEF Types
    <3>2. accepted' \subseteq Record
      BY <1>1 DEF Types
    <3>3. server' \in {"boot", "serving", "waiting", "exited", "crashed"}
      BY DEF Types
    <3>4. mishap' \subseteq {"race", "fopen", "late"}
      BY DEF Types
    <3>5. at' \in [Producers -> {"idle", "locked", "busy", "alloc"}]
      BY DEF Types
    <3>6. UNCHANGED <<log_status, session, logfile, log_mutex, flushing, records, file, disk, count>>
      OBVIOUS
    <3> HIDE <1>6
    <3> QED
      BY <3>1, <3>2, <3>3, <3>4, <3>5, <3>6 DEF Types
  <2>2. OneFile' /\ Session'
    BY DEF OneFile, Session
  <2>3. Mutex'
    BY DEF Mutex, Types
  <2> QED
    BY <2>1, <2>2, <2>3
<1>7. CASE log_after_delete(p)
  BY <1>7 DEF log_after_delete, Types, OneFile, Session, Mutex
<1> QED
  BY <1>3, <1>4, <1>5, <1>6, <1>7 DEF LogStep

LEMMA BaseFlushBegin == Base /\ flush_begin => Base'
<1> SUFFICES ASSUME Base, flush_begin PROVE Base'
  OBVIOUS
<1> USE ProducerNames DEF Base, flush_begin
<1>1. Types' /\ OneFile' /\ Session'
  BY DEF Types, OneFile, Session
<1>2. Mutex'
  BY DEF Mutex, Types, looping
<1> QED
  BY <1>1, <1>2

\* create_new_logfile goes to a number from n on that is usable.
LEMMA NewFile ==
    ASSUME Types, OneFile, NEW n \in Nat, NEW ok, create_new_logfile(n, ok), UNCHANGED log
    PROVE  /\ next_file' \in Nat /\ logfile_size' \in Nat /\ tmp' \in [Files -> FileContents]
           /\ mishap' \subseteq {"race", "fopen", "late"}
           /\ fp' \in Files \cup {NoFile} /\ (fp' # NoFile => next_file' = fp' + 1) /\ OneFile'
<1>1. PICK f \in next_logfile(n) :
          /\ next_file' = f + 1
          /\ IF ok
             THEN /\ fp' = f
                  /\ tmp' = [tmp EXCEPT ![f] = IF @ = Absent THEN <<>> ELSE @]
                  /\ logfile_size' = size_on_disk(f)
                  /\ UNCHANGED mishap
             ELSE /\ fp' = NoFile
                  /\ mishap' = mishap \cup {"fopen"}
                  /\ UNCHANGED <<tmp, logfile_size>>
  BY DEF create_new_logfile
<1>2. f \in Files /\ usable(f) /\ f \in Nat
  BY ProducerNames DEF next_logfile, Files
<1>3. tmp[f] = Absent \/ tmp[f] \in Seq(Record)
  BY <1>2 DEF Types, FileContents
<1>4. CASE ok
  <2> DEFINE c == IF tmp[f] = Absent THEN <<>> ELSE tmp[f]
  <2>1. c \in Seq(Record) /\ c # Absent /\ c \in FileContents
    <3>1. <<>> \in Seq(Record)
      OBVIOUS
    <3> QED
      BY <1>3, <3>1, AbsentFile
  <2>2. size_on_disk(f) \in Nat
    <3> DEFINE D == Record
    <3> HIDE DEF D
    <3>1. \A t \in Seq(D) : Len(t) \in Nat
      OBVIOUS
    <3> QED
      BY <1>3, <3>1 DEF size_on_disk, D
  <2>3. tmp' = [tmp EXCEPT ![f] = c] /\ fp' = f /\ next_file' = f + 1 /\ mishap' = mishap
        /\ logfile_size' = size_on_disk(f)
    BY <1>1, <1>4
  <2>4. tmp' \in [Files -> FileContents] /\ tmp'[f] = c
        /\ \A g \in Files : g # f => tmp'[g] = tmp[g]
    <3> HIDE DEF c
    <3> QED
      BY <1>2, <2>1, <2>3 DEF Types
  <2>5. log[f] = Absent
    BY <1>2 DEF usable, OneFile
  <2> HIDE DEF c
  <2>6. OneFile'
    BY <1>2, <2>1, <2>3, <2>4, <2>5 DEF OneFile
  <2> QED
    BY <1>2, <2>2, <2>3, <2>4, <2>6 DEF Types
<1>5. CASE ~ok
  <2>1. next_file' = f + 1 /\ fp' = NoFile /\ mishap' = mishap \cup {"fopen"} /\ tmp' = tmp
        /\ logfile_size' = logfile_size
    BY <1>1, <1>5
  <2> QED
    BY <1>2, <2>1 DEF Types, OneFile
<1> QED
  BY <1>4, <1>5

\* The contents of a file that is appended to.
LEMMA Extended ==
    ASSUME Types, OneFile, fp # NoFile, NEW bad
    PROVE  /\ fp \in Files /\ tmp[fp] \in Seq(Record) /\ log[fp] = Absent
           /\ written(bad) \in Seq(Record) /\ tmp[fp] \o written(bad) \in Seq(Record)
           /\ tmp[fp] \o written(bad) # Absent /\ tmp[fp] \o written(bad) \in FileContents
           /\ Len(tmp[fp] \o written(bad)) = Len(tmp[fp]) + Len(written(bad))
           /\ Len(tmp[fp]) \in Nat /\ Len(written(bad)) \in Nat
<1>1. fp \in Files /\ tmp[fp] # Absent /\ log[fp] = Absent
  BY DEF Types, OneFile
<1>2. tmp[fp] \in Seq(Record)
  BY <1>1 DEF Types, FileContents
<1>3. written(bad) \in Seq(Record)
  BY Written DEF Types
<1> DEFINE D == Record
           t == tmp[fp]
           w == written(bad)
<1>4. t \in Seq(D) /\ w \in Seq(D)
  BY <1>2, <1>3
<1> HIDE DEF D, t, w
<1>5. t \o w \in Seq(D) /\ Len(t \o w) = Len(t) + Len(w) /\ Len(t) \in Nat /\ Len(w) \in Nat
  BY <1>4
<1>6. t \o w \in Seq(Record)
  BY <1>5 DEF D
<1> QED
  BY <1>1, <1>2, <1>3, <1>5, <1>6, AbsentFile DEF t, w

LEMMA BaseFlush == ASSUME Base, FlushStep PROVE Base'
<1> USE ProducerNames DEF Base
<1>1. CASE flush_no_file
  <2> USE <1>1 DEF flush_no_file, close_logfile
  <2>1. <<>> \in Seq(Record)
    OBVIOUS
  <2>2. Types'
    BY <2>1 DEF Types
  <2>3. OneFile'
    BY DEF OneFile
  <2>4. Session'
    BY DEF Session, Mutex
  <2>5. Mutex'
    BY DEF Mutex, Types
  <2> QED
    BY <2>2, <2>3, <2>4, <2>5
<1>2. ASSUME NEW bad, flush_write(bad) PROVE Base'
  <2> DEFINE w == written(bad)
             s == tmp[fp] \o w
  <2>1. fp # NoFile /\ flushing = "locked" /\ server # "crashed"
    BY <1>2 DEF flush_write
  <2>2. /\ fp \in Files /\ log[fp] = Absent /\ w \in Seq(Record)
        /\ s # Absent /\ s \in FileContents /\ Len(w) \in Nat
    BY <2>1, Extended
  <2>3. /\ records' = <<>> /\ accepted' = accepted \ bad /\ logfile_size' = logfile_size + Len(w)
        /\ UNCHANGED <<server, log_status, finished, logtimer, cancel, at, records_waiting, next_file,
                       crawled, count, mishap>>
    BY <1>2 DEF flush_write, flushed
  <2>4. <<>> \in Seq(Record)
    OBVIOUS
  <2>5. CASE rolls_over(logfile_size + Len(w))
    <3>1. PICK ok \in Outcomes : finalise_logfile(s, ok)
      BY <1>2, <2>5 DEF flush_write
    <3>2. flushing' = "reopen" /\ UNCHANGED <<log_mutex, thread, logfile>>
      BY <1>2, <2>5 DEF flush_write
    <3>3. thread = "loop"
      BY <2>5 DEF rolls_over
    <3> DEFINE c == IF ok THEN Absent ELSE s
    <3>4. /\ fp' = NoFile /\ tmp' = [tmp EXCEPT ![fp] = c]
          /\ log' = IF ok THEN [log EXCEPT ![fp] = s] ELSE log
      BY <3>1 DEF finalise_logfile
    <3>5. c \in FileContents /\ (ok => c = Absent)
      BY <2>2 DEF FileContents
    <3> HIDE DEF w, s, c
    <3>6. Types'
      BY <2>2, <2>3, <2>4, <3>2, <3>4, <3>5 DEF Types
    <3>7. OneFile'
      BY <2>2, <3>4, <3>5 DEF Types, OneFile
    <3>8. Session'
      BY <2>1, <2>3, <3>2, <3>3, <3>4 DEF Session
    <3>9. Mutex'
      BY <2>1, <2>3, <3>2, <3>3, <3>4 DEF Mutex
    <3> QED
      BY <3>6, <3>7, <3>8, <3>9
  <2>6. CASE ~rolls_over(logfile_size + Len(w))
    <3>1. /\ tmp' = [tmp EXCEPT ![fp] = s]
          /\ fp' = IF thread = "closing" THEN NoFile ELSE fp
          /\ flushing' = "idle"
          /\ log_mutex' = "nobody"
          /\ UNCHANGED log
      BY <1>2, <2>6 DEF flush_write
    <3>2. /\ thread' = IF thread = "closing" THEN "exited" ELSE thread
          /\ logfile' = IF thread = "closing" THEN "none" ELSE logfile
      BY <1>2, <2>6 DEF flush_write, close_logfile
    <3> HIDE DEF w, s
    <3>3. Types'
      <4>1. logfile_size' \in Nat
        BY <2>2, <2>3 DEF Types
      <4>2. tmp' \in [Files -> FileContents] /\ log' \in [Files -> FileContents]
        BY <2>2, <3>1 DEF Types
      <4> QED
        BY <2>2, <2>3, <2>4, <3>1, <3>2, <4>1, <4>2 DEF Types
    <3>4. OneFile'
      BY <2>2, <3>1 DEF Types, OneFile
    <3>5. Session'
      BY <2>1, <2>3, <3>1, <3>2 DEF Session, Mutex
    <3>6. Mutex'
      BY <2>1, <2>3, <3>1, <3>2 DEF Mutex, Types
    <3> QED
      BY <3>3, <3>4, <3>5, <3>6
  <2> QED
    BY <2>5, <2>6
<1>3. ASSUME NEW ok, flush_reopen(ok) PROVE Base'
  <2>1. next_file \in Nat
    BY DEF Types
  <2>2. /\ flushing = "reopen" /\ create_new_logfile(next_file, ok)
        /\ flushing' = "idle" /\ log_mutex' = "nobody"
        /\ UNCHANGED <<server, log_status, session, logfile, at, queues, log, crawled, count, accepted>>
    BY <1>3 DEF flush_reopen
  <2>3. /\ next_file' \in Nat /\ logfile_size' \in Nat /\ tmp' \in [Files -> FileContents]
        /\ mishap' \subseteq {"race", "fopen", "late"}
        /\ fp' \in Files \cup {NoFile} /\ (fp' # NoFile => next_file' = fp' + 1) /\ OneFile'
    BY <2>1, <2>2, NewFile
  <2>4. Types'
    BY <2>2, <2>3 DEF Types
  <2>5. Session'
    BY <2>2, <2>3 DEF Session, Mutex
  <2>6. Mutex'
    BY <2>2 DEF Mutex, Types
  <2> QED
    BY <2>3, <2>4, <2>5, <2>6
<1> QED
  BY <1>1, <1>2, <1>3 DEF FlushStep

LEMMA BaseSession ==
    ASSUME Base, SessionStep \/ \E created \in Outcomes : start_session(created)
    PROVE  Base'
<1> USE ProducerNames DEF Base
<1>1. ASSUME NEW ok, session_open(ok) PROVE Base'
  <2>1. /\ thread = "created" /\ thread' = "opened" /\ logfile' = "open" /\ finished' = FALSE
        /\ create_new_logfile(0, ok)
        /\ UNCHANGED <<server, log_status, logtimer, cancel, log_mutex, at, flushing, queues, log, crawled,
                       count, accepted>>
    BY <1>1 DEF session_open
  <2>2. /\ next_file' \in Nat /\ logfile_size' \in Nat /\ tmp' \in [Files -> FileContents]
        /\ mishap' \subseteq {"race", "fopen", "late"}
        /\ fp' \in Files \cup {NoFile} /\ (fp' # NoFile => next_file' = fp' + 1) /\ OneFile'
    BY <2>1, NewFile
  <2>3. Types'
    BY <2>1, <2>2 DEF Types
  <2>4. Session'
    BY <2>1, <2>2 DEF Session
  <2>5. Mutex'
    BY <2>1 DEF Mutex, Types
  <2> QED
    BY <2>2, <2>3, <2>4, <2>5
<1>2. CASE session_schedule
  BY <1>2 DEF session_schedule, Types, OneFile, Session, Mutex
<1>3. CASE session_end
  BY <1>3 DEF session_end, looping, Types, OneFile, Session, Mutex
<1>4. CASE close_begin
  <2>1. moved \in Seq(Record)
    BY ContentsParts DEF Types, moved
  <2>2. mishap' \in {mishap, mishap \cup {"late"}}
    BY <1>4 DEF close_begin
  <2>3. /\ thread = "ended" /\ thread' = "closing" /\ logfile' = "closing" /\ records' = moved
        /\ UNCHANGED <<server, log_status, finished, logtimer, cancel, log_mutex, at, flushing,
                       records_waiting, file, disk, count, accepted>>
    BY <1>4 DEF close_begin
  <2>4. Types' /\ OneFile'
    BY <2>1, <2>2, <2>3 DEF Types, OneFile
  <2>5. Session' /\ Mutex'
    BY <2>3 DEF Session, Mutex, Types
  <2> QED
    BY <2>4, <2>5
<1>5. CASE close_busy
  <2>1. <<>> \in Seq(Record)
    OBVIOUS
  <2> USE <1>5 DEF close_busy, close_logfile, looping
  <2>2. Types' /\ OneFile'
    BY <2>1 DEF Types, OneFile
  <2>3. Session' /\ Mutex'
    BY DEF Session, Mutex, Types
  <2> QED
    BY <2>2, <2>3
<1>6. ASSUME NEW created, start_session(created) PROVE Base'
  <2>1. thread' \in {"created", "none"} /\ server' = "serving" /\ server = "boot"
        /\ UNCHANGED <<log_status, finished, logtimer, cancel, logfile, log_mutex, at, flushing, queues,
                       file, disk, count, accepted, mishap>>
    BY <1>6 DEF start_session
  <2>2. thread = "none"
    BY <2>1 DEF Session
  <2>3. Types' /\ OneFile'
    BY <2>1 DEF Types, OneFile
  <2>4. Session' /\ Mutex'
    BY <2>1, <2>2 DEF Session, Mutex
  <2> QED
    BY <2>3, <2>4
<1> QED
  BY <1>1, <1>2, <1>3, <1>4, <1>5, <1>6 DEF SessionStep

LEMMA BaseOutside ==
    ASSUME Base, \/ exit_services_gracefully \/ wait_tick \/ restart \/ UNCHANGED vars
                 \/ \E f \in Files : crawl(f)
    PROVE  Base'
<1> USE ProducerNames DEF Base
<1>1. CASE exit_services_gracefully \/ wait_tick
  <2>1. /\ server' \in {"waiting", "exited"} /\ server # "boot"
        /\ log_status' = (log_status \/ logtimer) /\ cancel' = (cancel \/ (~log_status /\ logtimer))
        /\ UNCHANGED <<thread, finished, logtimer, logfile, log_mutex, at, flushing, queues, file, disk,
                       count, accepted, mishap>>
    BY <1>1 DEF exit_services_gracefully, wait_tick, end_session, end_session_again
  <2>2. log_status' \in BOOLEAN /\ cancel' \in BOOLEAN
    BY <2>1
  <2>3. Types' /\ OneFile'
    BY <2>1, <2>2 DEF Types, OneFile
  <2>4. Session' /\ Mutex'
    BY <2>1 DEF Session, Mutex
  <2> QED
    BY <2>3, <2>4
<1>2. CASE restart
  <2>1. <<>> \in Seq(Record)
    OBVIOUS
  <2> USE <1>2 DEF restart
  <2>2. Types' /\ OneFile'
    BY <2>1 DEF Types, OneFile
  <2>3. Session' /\ Mutex'
    BY DEF Session, Mutex
  <2> QED
    BY <2>2, <2>3
<1>3. CASE UNCHANGED vars
  BY <1>3 DEF vars, Types, OneFile, Session, Mutex
<1>4. ASSUME NEW f \in Files, crawl(f) PROVE Base'
  <2>1. /\ log' = [log EXCEPT ![f] = Absent] /\ crawled' = crawled \cup Contents(log[f])
        /\ log[f] # Absent
        /\ UNCHANGED <<server, log_status, session, logfile, log_mutex, at, flushing, queues, file, tmp,
                       count, accepted, mishap>>
    BY <1>4 DEF crawl
  <2>2. log[f] \in Seq(Record)
    BY <2>1 DEF Types, FileContents
  <2>3. crawled' \subseteq Record
    BY <2>1, <2>2, ContentsParts DEF Types
  <2>4. log' \in [Files -> FileContents]
    BY <2>1 DEF Types, FileContents
  <2>5. Types'
    BY <2>1, <2>3, <2>4 DEF Types
  <2>6. OneFile' /\ Session' /\ Mutex'
    BY <2>1 DEF Types, OneFile, Session, Mutex
  <2> QED
    BY <2>5, <2>6
<1> QED
  BY <1>1, <1>2, <1>3, <1>4

LEMMA BaseNext == Base /\ [Next]_vars => Base'
BY BaseLog, BaseFlushBegin, BaseFlush, BaseSession, BaseOutside DEF Next, LogStep

LEMMA BaseHolds == Spec => []Base
BY BaseInit, BaseNext, PTL DEF Spec

\* What is in memory and on disk are records.
LEMMA Stores ==
    ASSUME Types
    PROVE  /\ R \subseteq Record /\ W \subseteq Record /\ InMemory \subseteq Record
           /\ \A f \in Files : T(f) \subseteq Record /\ L(f) \subseteq Record
           /\ OnDisk \subseteq Record
<1>1. Contents(records) \subseteq Record /\ Contents(records_waiting) \subseteq Record
  BY ContentsParts DEF Types
<1>2. Contents(<<>>) = {}
  BY ContentsParts
<1>3. \A s \in FileContents : Stored(s) \subseteq Record
  BY ContentsParts DEF FileContents, Stored
<1>4. \A f \in Files : T(f) \subseteq Record /\ L(f) \subseteq Record
  BY <1>3 DEF Types, T, L
<1>5. OnDisk \subseteq Record
  BY <1>4 DEF OnDisk, T, L, Types
<1> QED
  BY <1>1, <1>2, <1>4, <1>5 DEF R, W, Waiting, InMemory

\* Every variable keeps its type.
THEOREM LoggerTypes == Spec => []TypeOK
<1>1. Base => TypeOK
  <2> SUFFICES ASSUME Base PROVE TypeOK
    OBVIOUS
  <2>1. InMemory \cup OnDisk \cup accepted \subseteq Record
    BY Stores DEF Base, Types
  <2> QED
    BY <2>1 DEF Base, Types, TypeOK
<1> QED
  BY <1>1, BaseHolds, PTL

\* A finished .log file is never written or replaced, only taken away by a crawler: every
\* write is to the open file, whose number has no .log file.
THEOREM Finished == Spec => FinishedUntouched
<1> DEFINE A == \A f \in Files : log[f] # Absent => log'[f] \in {log[f], Absent}
<1>1. Base /\ [Next]_vars => A
  <2> SUFFICES ASSUME Base, [Next]_vars, NEW f \in Files, log[f] # Absent
               PROVE  log'[f] \in {log[f], Absent}
    OBVIOUS
  <2>1. CASE log' = log
    BY <2>1
  <2>2. ASSUME NEW g \in Files, crawl(g) PROVE log'[f] \in {log[f], Absent}
    BY <2>2 DEF crawl, Base, Types
  <2>3. ASSUME NEW bad, flush_write(bad), log' # log PROVE log'[f] \in {log[f], Absent}
    <3>1. /\ fp # NoFile
          /\ \E ok \in Outcomes : finalise_logfile(tmp[fp] \o written(bad), ok)
      BY <2>3 DEF flush_write
    <3>2. fp \in Files /\ log[fp] = Absent
      BY <3>1 DEF Base, Types, OneFile
    <3>3. f # fp
      BY <3>2
    <3> QED
      BY <3>1, <3>2, <3>3 DEF finalise_logfile, Base, Types
  <2>4. CASE UNCHANGED vars
    BY <2>4 DEF vars
  <2>5. ASSUME Next PROVE log' = log \/ (\E g \in Files : crawl(g)) \/ \E bad : flush_write(bad)
    BY <2>5 DEF Next, LogStep, FlushStep, SessionStep, log_begin, log_finish, log_check, log_push,
         log_after_delete, flush_begin, flush_no_file, flush_reopen, start_session, session_open,
         session_schedule, session_end, close_begin, close_busy, exit_services_gracefully, wait_tick,
         restart
  <2> QED
    BY <2>1, <2>2, <2>3, <2>4, <2>5
<1> QED
  BY <1>1, BaseHolds, PTL DEF Spec, FinishedUntouched

-----------------------------------------------------------------------------
(* Sound, step by step                                                     *)

\* Where there are records.
LEMMA Everywhere ==
    \A r : r \in InMemory \cup OnDisk <=>
        r \in R \/ r \in W \/ r \in crawled \/ \E f \in Files : r \in T(f) \/ r \in L(f)
BY DEF InMemory, OnDisk, R, W, T, L

\* Steps that leave records, files and accepted alone.
LEMMA Quiet ==
    ASSUME Sound, UNCHANGED <<queues, file, disk, accepted>>, Waiting' = Waiting,
           Opened', Fresh', Passed'
    PROVE  Sound'
<1>1. R' = R /\ W' = W /\ O' = O /\ InMemory' = InMemory /\ OnDisk' = OnDisk
      /\ \A f \in Files : T(f)' = T(f) /\ L(f)' = L(f)
  BY DEF R, W, O, T, L, InMemory, OnDisk
<1>2. Ahead' /\ Older'
  BY <1>1 DEF Sound, Ahead, Older
<1>3. InOrder'
  BY <1>1 DEF Sound, InOrder
<1>4. Apart' /\ Kept'
  BY <1>1 DEF Sound, Apart, Kept
<1> QED
  BY <1>2, <1>3, <1>4 DEF Sound

\* The record that a thread is logging comes after all others of the thread.
LEMMA NewRecord ==
    ASSUME Types, Fresh, NEW p \in Producers, at[p] # "idle"
    PROVE  /\ <<p, count[p]>> \in Record /\ <<p, count[p]>> \notin InMemory \cup OnDisk
           /\ Before(InMemory \cup OnDisk, {<<p, count[p]>>})
<1>1. <<p, count[p]>> \in Record /\ count[p] \in Nat
  BY DEF Types, Record
<1>2. \A r \in InMemory \cup OnDisk : r[1] = p => r[2] < count[p]
  BY DEF Fresh
<1>3. ~(count[p] < count[p])
  BY <1>1
<1> QED
  BY <1>1, <1>2, <1>3 DEF Before

\* Before of smaller sets.
LEMMA BeforeParts ==
    /\ \A a, b, c, d : Before(a, b) /\ c \subseteq a /\ d \subseteq b => Before(c, d)
    /\ \A a, b, c : Before(a, b \cup c) <=> Before(a, b) /\ Before(a, c)
    /\ \A a, b, c : Before(a \cup b, c) <=> Before(a, c) /\ Before(b, c)
    /\ \A a : Before(a, {}) /\ Before({}, a)
BY DEF Before

\* A thread in log keeps the file object open.
LEMMA WhileLogging ==
    ASSUME Base, Sound, NEW p \in Producers, at[p] # "idle"
    PROVE  /\ thread # "closing" /\ logfile # "closing"
           /\ (logfile # "none" => thread # "exited" /\ Waiting = records_waiting)
BY DEF Base, Session, Sound, Opened, W, Waiting

LEMMA SoundLogBegin ==
    ASSUME Base, Base', Sound, mishap' = {}, NEW p \in Producers, log_begin(p)
    PROVE  Sound'
<1>1. /\ at[p] = "idle" /\ logfile # "none" /\ logfile # "closing"
      /\ count' = [count EXCEPT ![p] = @ + 1]
      /\ \A q \in Producers \ {p} : at'[q] = at[q]
      /\ thread' = IF p = "logger" THEN "loop" ELSE thread
      /\ UNCHANGED <<logfile, flushing, queues, file, disk, accepted>>
  BY DEF log_begin, logfile_created, Base, Types
<1>2. thread \notin {"closing", "exited"} /\ thread' \notin {"closing", "exited"}
  BY <1>1 DEF Base, Session
<1>3. Waiting' = Waiting
  BY <1>1, <1>2 DEF Waiting
<1>4. Opened'
  BY <1>1, <1>2 DEF Sound, Opened
<1>5. Fresh'
  <2> SUFFICES ASSUME NEW q \in Producers, NEW r \in InMemory \cup OnDisk, r[1] = q
               PROVE  r[2] <= count'[q] /\ (at'[q] # "idle" => r[2] < count'[q])
    <3>1. (InMemory \cup OnDisk)' = InMemory \cup OnDisk
      BY <1>1, <1>3 DEF InMemory, OnDisk
    <3> QED
      BY <3>1 DEF Fresh
  <2>1. r[2] <= count[q] /\ (at[q] # "idle" => r[2] < count[q])
    BY DEF Sound, Fresh
  <2>2. CASE q # p
    BY <1>1, <2>1, <2>2 DEF Base, Types
  <2>3. CASE q = p
    <3>1. r[2] \in Nat /\ count[p] \in Nat /\ count'[p] = count[p] + 1
      BY <1>1, Stores DEF Base, Types, Record
    <3> QED
      BY <2>1, <2>3, <3>1
  <2> QED
    BY <2>2, <2>3
<1>6. Passed'
  BY <1>1, <1>2 DEF Sound, Passed
<1> QED
  BY <1>1, <1>3, <1>4, <1>5, <1>6, Quiet

LEMMA SoundLogFinish ==
    ASSUME Base, Base', Sound, mishap' = {}, NEW p \in Producers, log_finish(p)
    PROVE  Sound'
<1> DEFINE r == <<p, count[p]>>
<1>1. at[p] = "locked" /\ logfile # "none" /\ server # "crashed"
  BY DEF log_finish
<1>2. fp # NoFile
  <2>1. log_mutex = p /\ ~(flushing # "idle" /\ p = "logger" /\ at[p] = "idle")
    BY <1>1 DEF Base, Mutex
  <2>2. flushing = "idle"
    BY <1>1, <2>1 DEF Base, Mutex
  <2> QED
    BY <1>1, <2>2 DEF Sound, Opened
<1>3. /\ thread # "closing" /\ logfile # "closing" /\ thread # "exited"
      /\ Waiting = records_waiting
  BY <1>1, WhileLogging
<1>4. /\ records' = Append(moved, r) /\ records_waiting' = <<>> /\ accepted' = accepted \cup {r}
      /\ at' = [at EXCEPT ![p] = "idle"]
      /\ UNCHANGED <<server, log_status, session, logfile, flushing, file, disk, count, mishap>>
  BY <1>2 DEF log_finish, pending_cleared
<1>5. /\ r \in Record /\ r \notin InMemory \cup OnDisk
      /\ Before(InMemory \cup OnDisk, {r}) /\ r[1] = p /\ r[2] = count[p] /\ count[p] \in Nat
  BY <1>1, NewRecord DEF Base, Sound, Types
<1> HIDE DEF r
<1>6. moved \in Seq(Record) /\ Contents(moved) = R \cup W
  BY <1>3, ContentsParts DEF moved, Base, Types, R, W
<1>7. R' = R \cup W \cup {r} /\ W' = {} /\ Waiting' = <<>>
  BY <1>3, <1>4, <1>5, <1>6, ContentsParts DEF R, W, Waiting
<1>8. O' = O /\ crawled' = crawled /\ fp' = fp /\ next_file' = next_file /\ tmp' = tmp /\ log' = log
      /\ \A f \in Files : T(f)' = T(f) /\ L(f)' = L(f)
  BY <1>4 DEF O, T, L
<1>9. \A x : x \in (InMemory \cup OnDisk)' <=> x \in InMemory \cup OnDisk \cup {r}
  BY <1>3, <1>4, <1>7, <1>8, Everywhere DEF InMemory, OnDisk, R, W
<1>10. O \subseteq InMemory \cup OnDisk
  BY Everywhere DEF O, Base, Types
<1>11. Opened'
  BY <1>4 DEF Sound, Opened, Base, Types
<1>12. Fresh'
  <2> SUFFICES ASSUME NEW q \in Producers, NEW x \in (InMemory \cup OnDisk)', x[1] = q
               PROVE  x[2] <= count[q] /\ (at'[q] # "idle" => x[2] < count[q])
    BY <1>4 DEF Fresh
  <2>1. CASE x = r
    BY <1>4, <1>5, <2>1 DEF Base, Types
  <2>2. CASE x \in InMemory \cup OnDisk
    BY <1>4, <2>2 DEF Sound, Fresh, Base, Types
  <2> QED
    BY <1>9, <2>1, <2>2
<1>13. Passed'
  BY <1>4 DEF Sound, Passed
<1>14. Ahead'
  <2> SUFFICES ASSUME NEW g \in Files, g >= next_file
               PROVE  Before(T(g), O \cup (R \cup W \cup {r}))
    BY <1>7, <1>8 DEF Ahead
  <2>1. Before(T(g), O \cup R \cup W)
    BY DEF Sound, Ahead
  <2>2. Before(T(g), {r})
    BY <1>5, Everywhere DEF Before
  <2> QED
    BY <2>1, <2>2 DEF Before
<1>15. Older'
  BY <1>8 DEF Sound, Older
<1>16. InOrder'
  <2>1. Ordered(moved)
    BY <1>3, OrderedParts DEF moved, Sound, InOrder, Base, Types, R, W
  <2>2. Before(Contents(moved), {r}) /\ Before(O, {r})
    BY <1>3, <1>5, <1>6, <1>10, Everywhere DEF Before
  <2>3. Ordered(records')
    BY <1>4, <1>5, <1>6, <2>1, <2>2, OrderedParts
  <2>4. Before(O, R \cup W \cup {r})
    BY <2>2 DEF Sound, InOrder, Before
  <2> QED
    BY <1>4, <1>7, <1>8, <2>3, <2>4, ContentsParts DEF Sound, InOrder, Before
<1>17. Apart'
  <2>1. \A f \in Files : r \notin T(f) /\ r \notin L(f)
    BY <1>5, Everywhere
  <2>2. r \notin crawled
    BY <1>5, Everywhere
  <2> QED
    BY <1>7, <1>8, <2>1, <2>2 DEF Sound, Apart
<1>18. Kept'
  BY <1>4, <1>9 DEF Sound, Kept
<1> QED
  BY <1>11, <1>12, <1>13, <1>14, <1>15, <1>16, <1>17, <1>18 DEF Sound

LEMMA SoundLogPush ==
    ASSUME Base, Base', Sound, mishap' = {}, NEW p \in Producers, log_push(p)
    PROVE  Sound'
<1> DEFINE r == <<p, count[p]>>
<1>1. at[p] = "alloc" /\ logfile # "none" /\ at[p] # "idle"
  BY DEF log_push
<1>2. /\ thread # "closing" /\ logfile # "closing" /\ thread # "exited"
      /\ Waiting = records_waiting
  BY <1>1, WhileLogging
<1>3. UNCHANGED <<log_status, session, logfile, flushing, records, file, disk, count>>
  BY DEF log_push
<1>4. CASE fp = NoFile
  <2>1. UNCHANGED <<records_waiting, accepted, at, mishap>>
    BY <1>4 DEF log_push, create_new_record_fails
  <2>2. Opened' /\ Passed'
    BY <1>3, <2>1 DEF Sound, Opened, Passed
  <2>3. Fresh'
    BY <1>3, <2>1 DEF Sound, Fresh, InMemory, OnDisk, Waiting
  <2>4. Waiting' = Waiting
    BY <1>3, <2>1 DEF Waiting
  <2> QED
    BY <1>3, <2>1, <2>2, <2>3, <2>4, Quiet
<1>5. CASE fp # NoFile
  <2>1. /\ records_waiting' = Append(records_waiting, r) /\ accepted' = accepted \cup {r}
        /\ at' = [at EXCEPT ![p] = "idle"]
    BY <1>5 DEF log_push, create_new_record_fails
  <2>2. /\ r \in Record /\ r \notin InMemory \cup OnDisk
        /\ Before(InMemory \cup OnDisk, {r}) /\ r[1] = p /\ r[2] = count[p] /\ count[p] \in Nat
    BY <1>1, NewRecord DEF Base, Sound, Types
  <2> HIDE DEF r
  <2>3. R' = R /\ W' = W \cup {r} \cup {r} /\ Waiting' = Append(Waiting, r)
    BY <1>2, <1>3, <2>1, <2>2, ContentsParts DEF R, W, Waiting, Base, Types
  <2>4. O' = O /\ crawled' = crawled /\ fp' = fp /\ next_file' = next_file /\ tmp' = tmp /\ log' = log
        /\ \A f \in Files : T(f)' = T(f) /\ L(f)' = L(f)
    BY <1>3 DEF O, T, L
  <2>5. \A x : x \in (InMemory \cup OnDisk)' <=> x \in InMemory \cup OnDisk \cup {r}
    BY <1>3, <2>3 DEF InMemory, OnDisk, R, W
  <2>6. O \cup R \cup W \subseteq InMemory \cup OnDisk
    BY <1>2, Everywhere DEF O, Base, Types
  <2>7. Opened' /\ Passed'
    BY <1>3, <2>1 DEF Sound, Opened, Passed, Base, Types
  <2>8. Fresh'
    <3> SUFFICES ASSUME NEW q \in Producers, NEW x \in (InMemory \cup OnDisk)', x[1] = q
                 PROVE  x[2] <= count[q] /\ (at'[q] # "idle" => x[2] < count[q])
      BY <1>3 DEF Fresh
    <3>1. CASE x = r
      BY <2>1, <2>2, <3>1 DEF Base, Types
    <3>2. CASE x \in InMemory \cup OnDisk
      BY <2>1, <3>2 DEF Sound, Fresh, Base, Types
    <3> QED
      BY <2>5, <3>1, <3>2
  <2>9. Ahead'
    <3> SUFFICES ASSUME NEW g \in Files, g >= next_file
                 PROVE  Before(T(g), O \cup R \cup (W \cup {r}))
      BY <2>3, <2>4 DEF Ahead
    <3>1. Before(T(g), O \cup R \cup W)
      BY DEF Sound, Ahead
    <3>2. Before(T(g), {r})
      BY <2>2, Everywhere DEF Before
    <3> QED
      BY <3>1, <3>2 DEF Before
  <2>10. Older'
    BY <2>4 DEF Sound, Older
  <2>11. InOrder'
    <3>1. Before(W, {r}) /\ Before(O, {r}) /\ Before(R, {r})
      BY <2>2, <2>6 DEF Before
    <3>2. Ordered(Waiting')
      BY <1>2, <2>2, <2>3, <3>1, OrderedParts DEF W, Sound, InOrder, Base, Types
    <3>3. Before(O, R \cup (W \cup {r})) /\ Before(R, W \cup {r})
      BY <3>1 DEF Sound, InOrder, Before
    <3> QED
      BY <1>3, <2>3, <2>4, <3>2, <3>3 DEF Sound, InOrder
  <2>12. Apart'
    <3>1. \A f \in Files : r \notin T(f) /\ r \notin L(f)
      BY <2>2, Everywhere
    <3>2. r \notin crawled /\ r \notin R
      BY <2>2, Everywhere
    <3> QED
      BY <2>3, <2>4, <3>1, <3>2 DEF Sound, Apart
  <2>13. Kept'
    BY <2>1, <2>5 DEF Sound, Kept
  <2> QED
    BY <2>7, <2>8, <2>9, <2>10, <2>11, <2>12, <2>13 DEF Sound
<1> QED
  BY <1>4, <1>5

\* The steps that only move a thread on.
LEMMA SoundQuiet ==
    ASSUME Base, Sound, mishap' = {},
           \/ \E p \in Producers : log_check(p) \/ log_after_delete(p)
           \/ flush_begin \/ (\E created \in Outcomes : start_session(created)) \/ session_schedule
           \/ session_end \/ exit_services_gracefully \/ wait_tick \/ UNCHANGED vars
    PROVE  Sound'
<1> USE DEF log_check, log_after_delete, flush_begin, start_session, session_schedule, session_end,
        exit_services_gracefully, wait_tick, vars
<1>1. UNCHANGED <<queues, file, disk, accepted, logfile, count>>
  OBVIOUS
<1>2. /\ thread' = "exited" <=> thread = "exited"
      /\ thread' = "closing" <=> thread = "closing"
  BY DEF Base, Session
<1>3. at' = at \/ \E p \in Producers : at[p] = "busy" /\ at' \in {[at EXCEPT ![p] = "idle"],
                                                               [at EXCEPT ![p] = "alloc"]}
  OBVIOUS
<1>4. flushing' = flushing \/ (flushing' = "locked" /\ flushing = "idle")
  BY DEF looping
<1> USE DEF Base, Types
<1>5. \A p \in Producers : at'[p] # "idle" => at[p] # "idle"
  BY <1>3
<1>6. Waiting' = Waiting
  BY <1>1, <1>2 DEF Waiting
<1>7. Opened'
  BY <1>1, <1>2, <1>4, <1>5 DEF Sound, Opened
<1>8. Fresh'
  BY <1>1, <1>5, <1>6 DEF Sound, Fresh, InMemory, OnDisk
<1>9. Passed'
  BY <1>1, <1>2 DEF Sound, Passed
<1> QED
  BY <1>1, <1>6, <1>7, <1>8, <1>9, Quiet

\* The flush of the timer and of the destructor find a file, and the destructor the mutex.
LEMMA SoundFlushFails ==
    ASSUME Base, Sound, flush_no_file \/ close_busy
    PROVE  FALSE
<1>1. CASE flush_no_file
  BY <1>1 DEF flush_no_file, Base, Session, Mutex, Sound, Opened
<1>2. CASE close_busy
  BY <1>2, ProducerNames DEF close_busy, looping, Base, Types, Mutex, Sound, Opened
<1> QED
  BY <1>1, <1>2

\* A new record in a file: what flush_write does to the sets of records.
LEMMA SoundFlushWrite ==
    ASSUME Base, Base', Sound, NEW bad, flush_write(bad)
    PROVE  Sound'
<1> DEFINE w == written(bad)
           s == tmp[fp] \o w
<1>1. /\ fp # NoFile /\ flushing = "locked" /\ server # "crashed"
      /\ records' = <<>> /\ accepted' = accepted \ bad /\ logfile_size' = logfile_size + Len(w)
      /\ UNCHANGED <<server, log_status, finished, logtimer, cancel, at, records_waiting, next_file,
                     crawled, count, mishap>>
  BY DEF flush_write, flushed
<1>2. /\ fp \in Files /\ log[fp] = Absent /\ w \in Seq(Record) /\ tmp[fp] \in Seq(Record)
      /\ s # Absent /\ s \in FileContents /\ s \in Seq(Record) /\ Len(s) = Len(tmp[fp]) + Len(w)
      /\ Len(w) \in Nat /\ Len(tmp[fp]) \in Nat /\ tmp[fp] # Absent
  BY <1>1, Extended, AbsentFile DEF Base
<1>0. PICK h \in Files : h = fp
  BY <1>2
<1>3. /\ thread \in {"loop", "closing"} /\ next_file = fp + 1 /\ logfile_size = Len(tmp[fp])
      /\ Files \subseteq Nat /\ NoFile \notin Files /\ thread # "exited" /\ logfile # "none"
  BY <1>1, ProducerNames DEF Base, Session, Mutex, Sound, Opened
<1>4. Contents(w) = R \ bad /\ Ordered(w)
  BY Written DEF Base, Types, R, Sound, InOrder
<1> HIDE DEF w
<1>5. Stored(s) = O \cup (R \ bad) /\ Stored(tmp[fp]) = O /\ O = T(fp) /\ L(fp) = {} /\ Stored(Absent) = {}
  BY <1>1, <1>2, <1>4, ContentsParts DEF O, T, L, Stored
<1>6. Ordered(s)
  BY <1>2, <1>4, <1>5, OrderedParts DEF Sound, InOrder, Before, Stored
<1> HIDE DEF s
<1>7. R' = {} /\ W' = W /\ Waiting' = Waiting
  <2>1. R' = {}
    BY <1>1, ContentsParts DEF R
  <2>2. (logfile' = "closing" \/ thread' = "exited") <=> (logfile = "closing" \/ thread = "exited")
    BY <1>3 DEF flush_write, close_logfile, Base, Session
  <2> QED
    BY <1>1, <2>1, <2>2 DEF W, Waiting
\* A file that has been written and is not finished: renamed only by the rollover.
<1>8. PICK t, l :
          /\ tmp' = [tmp EXCEPT ![fp] = t] /\ log' = [log EXCEPT ![fp] = l]
          /\ (t = s /\ l = Absent) \/ (t = Absent /\ l = s)
          /\ fp' \in {fp, NoFile} /\ (fp' = fp => t = s)
          /\ fp' = fp \/ flushing' = "reopen" \/ logfile' = "none"
          /\ fp' # fp /\ thread' # "exited" /\ t = s => Len(s) > max_size_of_file
  <2>0. [log EXCEPT ![fp] = Absent] = log
    BY <1>2 DEF Base, Types
  <2>1. CASE rolls_over(logfile_size + Len(w))
    <3>1. PICK ok \in Outcomes : finalise_logfile(s, ok)
      BY <2>1 DEF flush_write, w, s
    <3>2. flushing' = "reopen" /\ Len(s) > max_size_of_file
      BY <1>2, <1>3, <2>1 DEF flush_write, rolls_over, w
    <3>3. CASE ok
      BY <1>1, <1>2, <2>0, <3>1, <3>2, <3>3 DEF finalise_logfile
    <3>4. CASE ~ok
      BY <2>0, <3>1, <3>2, <3>4 DEF finalise_logfile
    <3> QED
      BY <3>3, <3>4
  <2>2. CASE ~rolls_over(logfile_size + Len(w))
    <3>1. /\ tmp' = [tmp EXCEPT ![fp] = s] /\ log' = log
          /\ fp' = IF thread = "closing" THEN NoFile ELSE fp
          /\ thread' = IF thread = "closing" THEN "exited" ELSE thread
          /\ logfile' = IF thread = "closing" THEN "none" ELSE logfile
      BY <2>2 DEF flush_write, close_logfile, w, s
    <3> QED
      BY <2>0, <3>1
  <2> QED
    BY <2>1, <2>2
<1>9. /\ \A f \in Files \ {fp} : /\ tmp'[f] = tmp[f] /\ log'[f] = log[f]
                                 /\ T(f)' = T(f) /\ L(f)' = L(f)
      /\ tmp'[fp] = t /\ log'[fp] = l
      /\ T(h)' = Stored(t) /\ L(h)' = Stored(l)
  <2>1. /\ \A f \in Files \ {fp} : tmp'[f] = tmp[f] /\ log'[f] = log[f]
        /\ tmp'[fp] = t /\ log'[fp] = l
    BY <1>2, <1>8 DEF Base, Types
  <2>2. \A f \in Files : T(f)' = Stored(tmp'[f]) /\ L(f)' = Stored(log'[f])
    BY DEF T, L
  <2>3. \A f \in Files : T(f) = Stored(tmp[f]) /\ L(f) = Stored(log[f])
    BY DEF T, L
  <2> QED
    BY <1>0, <2>1, <2>2, <2>3
<1>10. /\ T(h)' \cup L(h)' = O \cup (R \ bad) /\ (T(h)' = {} \/ L(h)' = {})
       /\ O' \subseteq O \cup (R \ bad)
  <2>1. T(h)' \cup L(h)' = O \cup (R \ bad) /\ (T(h)' = {} \/ L(h)' = {})
    BY <1>5, <1>8, <1>9
  <2>2. O' = {} \/ O' = T(h)'
    BY <1>0, <1>3, <1>8, <1>9 DEF O, T
  <2> QED
    BY <2>1, <2>2
<1>11. \A x : /\ x \in (InMemory \cup OnDisk)' => x \in InMemory \cup OnDisk
              /\ x \in InMemory \cup OnDisk /\ x \notin bad => x \in (InMemory \cup OnDisk)'
  <2> TAKE x
  <2>1. x \in (InMemory \cup OnDisk)' <=>
          x \in W \/ x \in crawled \/ \E f \in Files : x \in T(f)' \/ x \in L(f)'
    BY <1>1, <1>7 DEF InMemory, OnDisk, R, W, T, L
  <2>2. (\E f \in Files : x \in T(f)' \/ x \in L(f)') <=>
          x \in O \cup (R \ bad) \/ \E f \in Files \ {fp} : x \in T(f) \/ x \in L(f)
    <3>1. x \in T(h)' \/ x \in L(h)' <=> x \in O \cup (R \ bad)
      BY <1>10
    <3>2. \A f \in Files \ {h} : x \in T(f)' \/ x \in L(f)' <=> x \in T(f) \/ x \in L(f)
      BY <1>0, <1>9
    <3> QED
      BY <1>0, <3>1, <3>2
  <2>3. (\E f \in Files : x \in T(f) \/ x \in L(f)) <=>
          x \in O \/ \E f \in Files \ {fp} : x \in T(f) \/ x \in L(f)
    BY <1>2, <1>5
  <2> QED
    BY <2>1, <2>2, <2>3, Everywhere
<1>12. Opened'
  <2>1. thread' = "closing" => thread = "closing"
    BY <1>3 DEF flush_write, close_logfile
  <2>2. fp' # NoFile => logfile_size' = Len(tmp'[fp'])
    BY <1>1, <1>2, <1>3, <1>8, <1>9
  <2>3. logfile' # "none" /\ flushing' # "reopen" => fp' # NoFile
    BY <1>1, <1>8
  <2> QED
    BY <1>1, <2>1, <2>2, <2>3 DEF Sound, Opened
<1>13. Fresh'
  BY <1>1, <1>11 DEF Sound, Fresh
<1>14. Passed'
  <2> SUFFICES ASSUME thread' # "exited", NEW f \in Files, f < next_file, f # fp', tmp'[f] # Absent
               PROVE  Len(tmp'[f]) >= max_size_of_file
    BY <1>1 DEF Passed
  <2>1. CASE f = fp
    <3>1. Len(s) > max_size_of_file /\ Len(s) \in Nat /\ tmp'[f] = s
      BY <1>2, <1>8, <1>9, <2>1
    <3> QED
      BY <3>1, LoggerAssumption
  <2>2. CASE f # fp
    BY <1>3, <1>9, <2>2 DEF Sound, Passed
  <2> QED
    BY <2>1, <2>2
<1>15. Ahead'
  <2> SUFFICES ASSUME NEW g \in Files, g >= next_file PROVE Before(T(g)', O' \cup W)
    BY <1>1, <1>7 DEF Ahead
  <2>1. g # fp
    <3>1. fp \in Nat /\ next_file = fp + 1
      BY <1>2, <1>3
    <3>2. ~(fp >= fp + 1)
      BY <3>1
    <3> QED
      BY <3>1, <3>2
  <2>2. Before(T(g), O \cup R \cup W)
    BY DEF Sound, Ahead
  <2> QED
    BY <1>9, <1>10, <2>1, <2>2 DEF Before
<1>16. Older'
  <2> SUFFICES ASSUME NEW f \in Files, NEW g \in Files, f < g, tmp'[f] # Absent,
                      Len(tmp'[f]) < max_size_of_file
               PROVE  Before(T(g)', T(f)')
    BY DEF Older
  <2>1. CASE f = fp
    <3>1. g # fp /\ g >= next_file
      BY <1>2, <1>3, <2>1
    <3>2. Before(T(g), O \cup R \cup W)
      BY <3>1 DEF Sound, Ahead
    <3> QED
      <4>1. T(f)' \subseteq O \cup R
        BY <1>0, <1>10, <2>1
      <4>2. T(g)' = T(g)
        BY <1>9, <3>1
      <4> QED
        BY <3>2, <4>1, <4>2 DEF Before
  <2>2. CASE f # fp /\ g = fp
    <3>1. tmp[f] # Absent /\ Len(tmp[f]) < max_size_of_file /\ f < next_file
      BY <1>2, <1>3, <1>9, <2>2
    <3>2. Len(tmp[f]) >= max_size_of_file
      BY <1>3, <2>2, <3>1 DEF Sound, Passed
    <3>3. Len(tmp[f]) \in Nat
      <4>1. \A D : \A q \in Seq(D) : Len(q) \in Nat
        OBVIOUS
      <4>2. tmp[f] \in Seq(Record)
        BY <3>1 DEF Base, Types, FileContents
      <4> QED
        BY <4>1, <4>2
    <3> QED
      BY <3>1, <3>2, <3>3, LoggerAssumption
  <2>3. CASE f # fp /\ g # fp
    BY <1>9, <2>3 DEF Sound, Older
  <2> QED
    BY <2>1, <2>2, <2>3
<1>17. InOrder'
  <2>1. Ordered(records')
    BY <1>1, ContentsParts
  <2>2. ASSUME NEW f \in Files
        PROVE  (tmp'[f] # Absent => Ordered(tmp'[f])) /\ (log'[f] # Absent => Ordered(log'[f]))
    BY <1>6, <1>8, <1>9 DEF Sound, InOrder
  <2>3. Before(O', R' \cup W') /\ Before(R', W')
    BY <1>7, <1>10 DEF Sound, InOrder, Before
  <2> QED
    BY <1>7, <2>1, <2>2, <2>3 DEF Sound, InOrder
<1>18. Apart'
  <2> USE DEF Sound, Apart
  <2>1. R \cap W = {} /\ R \cap crawled = {} /\ W \cap crawled = {}
    OBVIOUS
  <2>2. \A f \in Files : (T(f)' \cup L(f)') \cap (W \cup crawled) = {}
    <3> TAKE f \in Files
    <3>1. CASE f = h
      <4>1. (O \cup R) \cap (W \cup crawled) = {}
        BY <1>2, <1>5, <2>1
      <4> QED
        BY <1>10, <3>1, <4>1
    <3>2. CASE f # h
      BY <1>0, <1>9, <3>2
    <3> QED
      BY <3>1, <3>2
  <2>3. \A f \in Files \ {fp} : (T(f) \cup L(f)) \cap (O \cup (R \ bad)) = {}
    BY <1>2, <1>5
  <2>4. \A f \in Files \ {h} : (T(f)' \cup L(f)') \cap (T(h)' \cup L(h)') = {}
    BY <1>0, <1>9, <1>10, <2>3
  <2>5. \A f, g \in Files \ {h} : /\ f # g => T(f)' \cap T(g)' = {} /\ L(f)' \cap L(g)' = {}
                                  /\ T(f)' \cap L(g)' = {}
    BY <1>0, <1>9
  <2>6. T(h)' \cap L(h)' = {}
    BY <1>10
  <2> HIDE DEF Sound, Apart
  <2>7. \A f, g \in Files : f # g => T(f)' \cap T(g)' = {} /\ L(f)' \cap L(g)' = {}
    <3> TAKE f, g \in Files
    <3>1. CASE f = h /\ g # h
      BY <2>4, <3>1
    <3>2. CASE f # h /\ g = h
      BY <2>4, <3>2
    <3>3. CASE f # h /\ g # h
      BY <2>5, <3>3
    <3> QED
      BY <3>1, <3>2, <3>3
  <2>8. \A f, g \in Files : T(f)' \cap L(g)' = {}
    <3> TAKE f, g \in Files
    <3>1. CASE f = h /\ g # h
      BY <2>4, <3>1
    <3>2. CASE f # h /\ g = h
      BY <2>4, <3>2
    <3>3. CASE f # h /\ g # h
      BY <2>5, <3>3
    <3>4. CASE f = h /\ g = h
      BY <2>6, <3>4
    <3> QED
      BY <3>1, <3>2, <3>3, <3>4
  <2> QED
    BY <1>1, <1>7, <2>1, <2>2, <2>7, <2>8 DEF Apart
<1>19. Kept'
  BY <1>1, <1>11 DEF Sound, Kept
<1> QED
  BY <1>12, <1>13, <1>14, <1>15, <1>16, <1>17, <1>18, <1>19 DEF Sound

\* create_new_logfile takes the first number that is usable: the .tmp files before it are
\* full, and those after it hold older records.
LEMMA SoundNewFile ==
    ASSUME Base, Sound, fp = NoFile, create_new_logfile(next_file, TRUE), thread # "exited",
           logfile = "closing" <=> logfile' = "closing", thread' # "exited",
           UNCHANGED <<queues, log, crawled, count, at, accepted>>, thread' # "closing"
    PROVE  Sound'
<1>1. PICK f \in next_logfile(next_file) :
          /\ next_file' = f + 1 /\ fp' = f
          /\ tmp' = [tmp EXCEPT ![f] = IF @ = Absent THEN <<>> ELSE @]
          /\ logfile_size' = size_on_disk(f)
  BY DEF create_new_logfile
<1>2. /\ f \in Files /\ usable(f) /\ f \in Nat /\ f >= next_file /\ next_file \in Nat /\ f # NoFile
      /\ \A g \in next_file .. f - 1 : ~usable(g)
      /\ Files \subseteq Nat
  BY <1>1, ProducerNames DEF next_logfile, Files, Base, Types
<1>3. /\ tmp'[f] = IF tmp[f] = Absent THEN <<>> ELSE tmp[f]
      /\ \A g \in Files \ {f} : tmp'[g] = tmp[g]
  BY <1>1, <1>2 DEF Base, Types
<1>4. <<>> # Absent /\ Stored(Absent) = {} /\ Stored(<<>>) = {}
  <2>1. <<>> \in Seq(Record)
    OBVIOUS
  <2> QED
    BY <2>1, AbsentFile, ContentsParts DEF Stored
<1>5. \A g \in Files : T(g)' = T(g) /\ L(g)' = L(g)
  <2>1. \A g \in Files : T(g)' = Stored(tmp'[g]) /\ L(g)' = Stored(log'[g])
    BY DEF T, L
  <2>2. \A g \in Files : Stored(tmp'[g]) = Stored(tmp[g])
    BY <1>3, <1>4
  <2> QED
    BY <2>1, <2>2 DEF T, L
<1>6. Waiting' = Waiting /\ R' = R /\ W' = W
  BY DEF Waiting, R, W, Base, Session
<1>7. \A x : x \in (InMemory \cup OnDisk)' <=> x \in InMemory \cup OnDisk
  <2> TAKE x
  <2>1. x \in (InMemory \cup OnDisk)' <=>
          x \in R \/ x \in W \/ x \in crawled \/ \E g \in Files : x \in T(g)' \/ x \in L(g)'
    BY <1>6 DEF InMemory, OnDisk, R, W, T, L
  <2> QED
    BY <1>5, <2>1, Everywhere
<1>8. O = {} /\ O' = T(f)
  <2>1. O' = Stored(tmp'[f])
    BY <1>1, <1>2 DEF O, T
  <2> QED
    BY <1>2, <1>3, <1>4, <2>1 DEF O, T
<1>9. tmp[f] # Absent => Len(tmp[f]) < max_size_of_file
  BY <1>2 DEF usable
<1>10. Opened'
  <2>1. logfile_size' = Len(tmp'[f])
    BY <1>1, <1>3 DEF size_on_disk
  <2> QED
    BY <1>1, <1>2, <2>1 DEF Opened
<1>11. Fresh'
  BY <1>7 DEF Sound, Fresh
<1>12. Passed'
  <2> SUFFICES ASSUME NEW g \in Files, g < f + 1, g # f, tmp[g] # Absent
               PROVE  Len(tmp[g]) >= max_size_of_file
    BY <1>1, <1>3 DEF Passed
  <2>1. CASE g < next_file
    BY <2>1, ProducerNames DEF Sound, Passed
  <2>2. CASE ~(g < next_file)
    <3>1. g \in next_file .. f - 1
      BY <1>2, <2>2
    <3>2. ~(Len(tmp[g]) < max_size_of_file)
      BY <1>2, <3>1 DEF usable
    <3>3. Len(tmp[g]) \in Nat
      <4>1. \A D : \A q \in Seq(D) : Len(q) \in Nat
        OBVIOUS
      <4>2. tmp[g] \in Seq(Record)
        BY DEF Base, Types, FileContents
      <4> QED
        BY <4>1, <4>2
    <3> QED
      BY <3>2, <3>3, LoggerAssumption
  <2> QED
    BY <2>1, <2>2
<1>13. Ahead'
  <2> SUFFICES ASSUME NEW g \in Files, g >= f + 1 PROVE Before(T(g), T(f) \cup R \cup W)
    BY <1>1, <1>5, <1>6, <1>8 DEF Ahead
  <2>1. g \in Nat /\ g >= next_file /\ f < g
    BY <1>2
  <2>2. Before(T(g), R \cup W)
    BY <1>8, <2>1 DEF Sound, Ahead, Before
  <2>3. Before(T(g), T(f))
    <3>1. CASE tmp[f] = Absent
      BY <1>4, <3>1, BeforeParts DEF T
    <3>2. CASE tmp[f] # Absent
      BY <1>2, <1>9, <2>1, <3>2 DEF Sound, Older
    <3> QED
      BY <3>1, <3>2
  <2> QED
    BY <2>2, <2>3 DEF Before
<1>14. Older'
  <2> SUFFICES ASSUME NEW g \in Files, NEW h \in Files, g < h, tmp'[g] # Absent,
                      Len(tmp'[g]) < max_size_of_file
               PROVE  Before(T(h), T(g))
    BY <1>5 DEF Older
  <2>1. CASE tmp[g] = Absent
    BY <1>4, <2>1, BeforeParts DEF T
  <2>2. CASE tmp[g] # Absent
    <3>1. tmp'[g] = tmp[g]
      BY <1>3, <2>2
    <3> QED
      BY <2>2, <3>1 DEF Sound, Older
  <2> QED
    BY <2>1, <2>2
<1>15. InOrder'
  <2>1. ASSUME NEW g \in Files, tmp'[g] # Absent PROVE Ordered(tmp'[g])
    BY <1>3, <2>1, ContentsParts DEF Sound, InOrder
  <2>2. Before(T(f), R \cup W)
    BY <1>2, <1>8 DEF Sound, Ahead, Before
  <2> QED
    BY <1>6, <1>8, <2>1, <2>2 DEF Sound, InOrder
<1>16. Apart' /\ Kept'
  BY <1>5, <1>6, <1>7 DEF Sound, Apart, Kept
<1> QED
  BY <1>10, <1>11, <1>12, <1>13, <1>14, <1>15, <1>16 DEF Sound

LEMMA SoundCloseBegin ==
    ASSUME Base, Base', Sound, mishap' = {}, close_begin
    PROVE  Sound'
<1>1. /\ thread = "ended" /\ thread' = "closing" /\ logfile' = "closing" /\ records' = moved
      /\ UNCHANGED <<at, flushing, records_waiting, file, disk, count, accepted>>
  BY DEF close_begin
<1>2. \A p \in Producers : at[p] = "idle"
  BY DEF close_begin
<1>3. logfile # "none" /\ flushing = "idle" /\ Waiting = records_waiting /\ logfile # "closing"
  BY <1>1 DEF Base, Session, Mutex, Waiting
<1>4. R' = R \cup W /\ W' = {} /\ Waiting' = <<>>
  BY <1>1, <1>3, ContentsParts DEF moved, Base, Types, R, W, Waiting
<1>5. O' = O /\ crawled' = crawled /\ fp' = fp /\ next_file' = next_file /\ tmp' = tmp /\ log' = log
      /\ \A f \in Files : T(f)' = T(f) /\ L(f)' = L(f)
  BY <1>1 DEF O, T, L
<1>6. \A x : x \in (InMemory \cup OnDisk)' <=> x \in InMemory \cup OnDisk
  BY <1>1, <1>3, <1>4 DEF InMemory, OnDisk, R, W
<1>7. Opened'
  BY <1>1, <1>2, <1>3 DEF Sound, Opened
<1>8. Fresh' /\ Passed'
  BY <1>1, <1>6 DEF Sound, Fresh, Passed
<1>9. Ahead'
  <2> SUFFICES ASSUME NEW g \in Files, g >= next_file PROVE Before(T(g), O \cup (R \cup W) \cup {})
    BY <1>4, <1>5 DEF Ahead
  <2> QED
    BY DEF Sound, Ahead, Before
<1>10. Older'
  BY <1>5 DEF Sound, Older
<1>11. InOrder'
  <2>1. Ordered(moved)
    BY <1>3, OrderedParts DEF moved, Sound, InOrder, Base, Types, R, W
  <2> QED
    BY <1>1, <1>4, <1>5, <2>1, ContentsParts DEF Sound, InOrder, Before
<1>12. Apart' /\ Kept'
  BY <1>1, <1>4, <1>5, <1>6 DEF Sound, Apart, Kept
<1> QED
  BY <1>7, <1>8, <1>9, <1>10, <1>11, <1>12 DEF Sound

LEMMA SoundCrawl ==
    ASSUME Base, Sound, NEW f \in Files, crawl(f)
    PROVE  Sound'
<1>1. /\ log' = [log EXCEPT ![f] = Absent] /\ crawled' = crawled \cup Contents(log[f]) /\ log[f] # Absent
      /\ UNCHANGED <<server, log_status, session, logfile, log_mutex, at, flushing, queues, file, tmp,
                     count, accepted, mishap>>
  BY DEF crawl
<1>2. log'[f] = Absent /\ \A g \in Files \ {f} : log'[g] = log[g]
  BY <1>1 DEF Base, Types
<1>3. L(f)' = {} /\ crawled' = crawled \cup L(f) /\ \A g \in Files \ {f} : L(g)' = L(g)
  BY <1>1, <1>2 DEF L, Stored
<1>4. R' = R /\ W' = W /\ O' = O /\ Waiting' = Waiting /\ \A g \in Files : T(g)' = T(g)
  BY <1>1 DEF R, W, O, T, Waiting
<1>5. \A x : x \in (InMemory \cup OnDisk)' <=> x \in InMemory \cup OnDisk
  <2> TAKE x
  <2>1. x \in (InMemory \cup OnDisk)' <=>
          x \in R \/ x \in W \/ x \in crawled' \/ \E g \in Files : x \in T(g)' \/ x \in L(g)'
    BY <1>4 DEF InMemory, OnDisk, R, W, T, L
  <2>2. (\E g \in Files : x \in T(g)' \/ x \in L(g)') <=>
          (\E g \in Files : x \in T(g)) \/ \E g \in Files \ {f} : x \in L(g)
    BY <1>3, <1>4
  <2> QED
    BY <1>3, <2>1, <2>2, Everywhere
<1>6. Opened' /\ Passed'
  BY <1>1 DEF Sound, Opened, Passed
<1>7. Fresh' /\ Ahead' /\ Older' /\ Kept'
  BY <1>1, <1>4, <1>5 DEF Sound, Fresh, Ahead, Older, Kept
<1>8. InOrder'
  BY <1>1, <1>2, <1>4 DEF Sound, InOrder
<1>9. Apart'
  <2> USE DEF Sound, Apart
  <2>1. \A g \in Files : L(g)' \subseteq L(g) /\ (L(g)' \cap L(f) = {})
    BY <1>3
  <2>2. \A g \in Files : T(g) \cap L(f) = {}
    OBVIOUS
  <2>3. (R \cup W) \cap L(f) = {}
    OBVIOUS
  <2> QED
    BY <1>3, <1>4, <2>1, <2>2, <2>3
<1> QED
  BY <1>6, <1>7, <1>8, <1>9 DEF Sound

LEMMA SoundRestart == ASSUME Base, Sound, restart PROVE Sound'
<1>1. /\ thread' = "none" /\ logfile' = "none" /\ at' = [p \in Producers |-> "idle"] /\ flushing' = "idle"
      /\ records' = <<>> /\ records_waiting' = <<>> /\ fp' = NoFile /\ next_file' = 0
      /\ accepted' = accepted \cap OnDisk
      /\ UNCHANGED <<disk, count>>
  BY DEF restart
<1>2. R' = {} /\ W' = {} /\ O' = {} /\ Waiting' = <<>> /\ Ordered(<<>>)
  BY <1>1, ContentsParts DEF R, W, O, Waiting
<1>3. \A f \in Files : T(f)' = T(f) /\ L(f)' = L(f)
  BY <1>1 DEF T, L
<1>4. OnDisk' = OnDisk /\ InMemory' = {}
  BY <1>1, <1>2 DEF OnDisk, InMemory, R, W
<1>5. Opened'
  BY <1>1 DEF Opened
<1>6. Fresh'
  BY <1>1, <1>4 DEF Sound, Fresh
<1>7. Passed'
  BY <1>1, ProducerNames DEF Passed
<1>8. Ahead' /\ Older'
  BY <1>1, <1>2, <1>3 DEF Sound, Ahead, Older, Before
<1>9. InOrder'
  BY <1>1, <1>2 DEF Sound, InOrder, Before
<1>10. Apart' /\ Kept'
  BY <1>1, <1>2, <1>3, <1>4 DEF Sound, Apart, Kept
<1> QED
  BY <1>5, <1>6, <1>7, <1>8, <1>9, <1>10 DEF Sound

LEMMA SoundInit == Init => Sound
<1> SUFFICES ASSUME Init PROVE Sound
  OBVIOUS
<1>1. R = {} /\ W = {} /\ O = {} /\ Waiting = <<>> /\ Ordered(<<>>)
  BY ContentsParts DEF Init, R, W, O, Waiting
<1>2. \A f \in Files : T(f) = {} /\ L(f) = {} /\ tmp[f] = Absent /\ log[f] = Absent
  BY DEF Init, T, L, Stored
<1>3. \A x : x \notin InMemory \cup OnDisk
  BY <1>1, <1>2, Everywhere DEF Init, R, W
<1>4. Opened /\ Fresh /\ Passed
  BY <1>2, <1>3 DEF Init, Opened, Fresh, Passed
<1>5. Ahead /\ Older
  BY <1>1, <1>2 DEF Ahead, Older, Before
<1>6. InOrder
  BY <1>1, <1>2 DEF Init, InOrder, Before
<1>7. Apart /\ Kept
  BY <1>1, <1>2 DEF Init, Apart, Kept
<1> QED
  BY <1>4, <1>5, <1>6, <1>7 DEF Sound

LEMMA SoundNext == Base /\ Base' /\ Sound /\ [Next]_vars /\ mishap = {} /\ mishap' = {} => Sound'
<1> SUFFICES ASSUME Base, Base', Sound, [Next]_vars, mishap = {}, mishap' = {} PROVE Sound'
  OBVIOUS
<1>1. ASSUME NEW p \in Producers, log_begin(p) \/ LogStep(p) PROVE Sound'
  BY <1>1, SoundLogBegin, SoundLogFinish, SoundLogPush, SoundQuiet DEF LogStep
<1>2. CASE FlushStep
  <2>1. ASSUME NEW ok, flush_reopen(ok) PROVE Sound'
    <3>1. ok
      BY <2>1 DEF flush_reopen, create_new_logfile
    <3>2. /\ flushing = "reopen" /\ create_new_logfile(next_file, TRUE)
          /\ UNCHANGED <<session, queues, logfile, log, crawled, count, at, accepted>>
      BY <2>1, <3>1 DEF flush_reopen, create_new_logfile
    <3>3. fp = NoFile /\ thread = "loop"
      BY <3>2 DEF Base, Mutex
    <3> QED
      BY <3>2, <3>3, SoundNewFile
  <2> QED
    BY <1>2, <2>1, SoundFlushFails, SoundFlushWrite DEF FlushStep
<1>3. CASE SessionStep
  <2>1. ASSUME NEW ok, session_open(ok) PROVE Sound'
    <3>1. ok
      BY <2>1 DEF session_open, create_new_logfile
    <3>2. thread = "created" /\ logfile = "none" /\ next_file = 0 /\ fp = NoFile
      BY <2>1 DEF session_open, Base, Session
    <3>3. create_new_logfile(next_file, TRUE)
      BY <2>1, <3>1, <3>2 DEF session_open, create_new_logfile
    <3>4. /\ thread' = "opened" /\ logfile' = "open"
          /\ UNCHANGED <<queues, log, crawled, count, at, accepted>>
      BY <2>1 DEF session_open
    <3> QED
      BY <3>2, <3>3, <3>4, SoundNewFile
  <2> QED
    BY <1>3, <2>1, SoundQuiet, SoundCloseBegin, SoundFlushFails DEF SessionStep
<1> QED
  BY <1>1, <1>2, <1>3, SoundQuiet, SoundCrawl, SoundRestart DEF Next, LogStep

\* What has gone wrong stays so.
LEMMA MishapStays == [Next]_vars => mishap \subseteq mishap'
BY DEF Next, vars, LogStep, FlushStep, SessionStep, log_begin, log_finish, log_check, log_push,
       log_after_delete, flush_begin, flush_no_file, flush_write, flush_reopen, start_session,
       session_open, session_schedule, session_end, close_begin, close_busy,
       exit_services_gracefully, wait_tick, crawl, restart, create_new_logfile

\* The invariant: what the threads and files are like, and, as long as nothing goes wrong,
\* where the records are.
THEOREM LoggerInductive == Spec => []LoggerInv
<1>1. Init => LoggerInv
  BY BaseInit, SoundInit DEF LoggerInv
<1>2. LoggerInv /\ [Next]_vars => LoggerInv'
  BY BaseNext, SoundNext, MishapStays DEF LoggerInv
<1> QED
  BY <1>1, <1>2, PTL DEF Spec

-----------------------------------------------------------------------------
(* What follows                                                            *)

\* A thread's records go through the open file, records and records_waiting in their order.
THEOREM InOrderKept == Spec => []OrderKept
<1>1. LoggerInv => OrderKept
  <2> SUFFICES ASSUME LoggerInv, mishap = {}
               PROVE  \A i, j \in DOMAIN Pipeline :
                          (i < j /\ Pipeline[i][1] = Pipeline[j][1]) => Pipeline[i][2] < Pipeline[j][2]
    BY DEF OrderKept
  <2> DEFINE a == IF fp = NoFile THEN <<>> ELSE tmp[fp]
             b == a \o records
  <2>1. a \in Seq(Record) /\ Contents(a) = O /\ Ordered(a)
    <3>1. CASE fp = NoFile
      <4>1. <<>> \in Seq(Record)
        OBVIOUS
      <4> QED
        BY <3>1, <4>1, ContentsParts DEF O
    <3>2. CASE fp # NoFile
      BY <3>2 DEF LoggerInv, Base, Types, OneFile, FileContents, Sound, InOrder, O, T, Stored
    <3> QED
      BY <3>1, <3>2
  <2>2. records \in Seq(Record) /\ Waiting \in Seq(Record)
    <3>1. <<>> \in Seq(Record)
      OBVIOUS
    <3> QED
      BY <3>1 DEF LoggerInv, Base, Types, Waiting
  <2> HIDE DEF a
  <2>3. Before(O, R) /\ Before(O, W) /\ Before(R, W) /\ Ordered(records) /\ Ordered(Waiting)
    BY DEF LoggerInv, Sound, InOrder, Before
  <2>4. b \in Seq(Record) /\ Contents(b) = O \cup R /\ Ordered(b)
    BY <2>1, <2>2, <2>3, OrderedParts, ContentsParts DEF R
  <2> HIDE DEF b
  <2>5. Before(O \cup R, W)
    BY <2>3 DEF Before
  <2>6. b \o Waiting \in Seq(Record) /\ Ordered(b \o Waiting)
    <3>1. b \o Waiting \in Seq(Record)
      BY <2>2, <2>4, ContentsParts
    <3>2. Before(Contents(b), Contents(Waiting))
      BY <2>4, <2>5 DEF W
    <3> QED
      BY <2>2, <2>3, <2>4, <3>1, <3>2, OrderedParts
  <2>7. Pipeline = b \o Waiting
    BY DEF Pipeline, Waiting, a, b
  <2>8. DOMAIN Pipeline = 1 .. Len(Pipeline)
    <3>1. \A D : \A q \in Seq(D) : DOMAIN q = 1 .. Len(q)
      OBVIOUS
    <3> QED
      BY <2>6, <2>7, <3>1
  <2> QED
    BY <2>6, <2>7, <2>8 DEF Ordered
<1> QED
  BY <1>1, LoggerInductive, PTL

\* What is at each of the places.
LEMMA AtPlaces ==
    /\ DOMAIN Places = {<<"records", 0>>, <<"waiting", 0>>} \cup ({"tmp", "log"} \X Files)
    /\ Places[<<"records", 0>>] = records
    /\ Places[<<"waiting", 0>>] = Waiting
    /\ \A f \in Files : Places[<<"tmp", f>>] = IF tmp[f] = Absent THEN <<>> ELSE tmp[f]
    /\ \A f \in Files : Places[<<"log", f>>] = IF log[f] = Absent THEN <<>> ELSE log[f]
<1> DEFINE P == ({"records", "waiting"} \X {0}) \cup ({"tmp", "log"} \X Files)
           at_place(x) ==
               CASE x[1] = "records" -> records
                 [] x[1] = "waiting" -> Waiting
                 [] x[1] = "tmp" -> IF tmp[x[2]] = Absent THEN <<>> ELSE tmp[x[2]]
                 [] OTHER -> IF log[x[2]] = Absent THEN <<>> ELSE log[x[2]]
<1>1. Places = [x \in P |-> at_place(x)]
  BY DEF Places, Waiting
<1>2. P = {<<"records", 0>>, <<"waiting", 0>>} \cup ({"tmp", "log"} \X Files)
  OBVIOUS
<1>3. at_place(<<"records", 0>>) = records /\ at_place(<<"waiting", 0>>) = Waiting
  OBVIOUS
<1>4. \A f \in Files : at_place(<<"tmp", f>>) = IF tmp[f] = Absent THEN <<>> ELSE tmp[f]
  OBVIOUS
<1>5. \A f \in Files : at_place(<<"log", f>>) = IF log[f] = Absent THEN <<>> ELSE log[f]
  OBVIOUS
<1>6. <<"records", 0>> \in P /\ <<"waiting", 0>> \in P
      /\ \A f \in Files : <<"tmp", f>> \in P /\ <<"log", f>> \in P
  OBVIOUS
<1> HIDE DEF P, at_place
<1> QED
  BY <1>1, <1>2, <1>3, <1>4, <1>5, <1>6

\* Records in order are different.
LEMMA OrderedDistinct ==
    \A s \in Seq(Record) : Ordered(s) =>
        /\ DOMAIN s = 1 .. Len(s)
        /\ \A i, j \in DOMAIN s : s[i] = s[j] => i = j
<1> DEFINE D == Record
<1>1. \A r \in D : r[2] \in Nat
  BY DEF Record
<1> HIDE DEF D
<1>2. ASSUME NEW s \in Seq(D), Ordered(s)
      PROVE  DOMAIN s = 1 .. Len(s) /\ \A i, j \in DOMAIN s : s[i] = s[j] => i = j
  <2>1. DOMAIN s = 1 .. Len(s) /\ Len(s) \in Nat /\ \A i \in 1 .. Len(s) : s[i] \in D
    OBVIOUS
  <2> SUFFICES ASSUME NEW i \in 1 .. Len(s), NEW j \in 1 .. Len(s), s[i] = s[j], i # j PROVE FALSE
    BY <2>1
  <2>2. i < j \/ j < i
    BY <2>1
  <2>3. s[i][2] \in Nat /\ ~(s[i][2] < s[j][2]) /\ ~(s[j][2] < s[i][2])
    BY <1>1, <2>1
  <2> QED
    BY <1>2, <2>2, <2>3 DEF Ordered
<1> QED
  BY <1>2 DEF D

\* Unless something goes wrong, a record that log has taken is in memory or on disk, and
\* it is there once.
THEOREM Recorded == Spec => []RecordsKept
<1>1. LoggerInv => RecordsKept
  <2> SUFFICES ASSUME LoggerInv, mishap = {} PROVE RecordsKept
    BY DEF RecordsKept
  <2>0. Types /\ Sound
    BY DEF LoggerInv, Base
  <2> DEFINE P == DOMAIN Places
  <2>1. \A x \in P : Places[x] \in Seq(Record) /\ Ordered(Places[x])
    <3>1. <<>> \in Seq(Record) /\ Ordered(<<>>)
      BY ContentsParts
    <3>2. \A f \in Files : /\ (tmp[f] # Absent => tmp[f] \in Seq(Record))
                           /\ (log[f] # Absent => log[f] \in Seq(Record))
      BY <2>0 DEF Types, FileContents
    <3>3. records \in Seq(Record) /\ Waiting \in Seq(Record)
      BY <2>0, <3>1 DEF Types, Waiting
    <3>4. /\ Ordered(records) /\ Ordered(Waiting)
          /\ \A f \in Files : (tmp[f] # Absent => Ordered(tmp[f])) /\ (log[f] # Absent => Ordered(log[f]))
      BY <2>0 DEF Sound, InOrder
    <3> SUFFICES ASSUME NEW x \in P PROVE Places[x] \in Seq(Record) /\ Ordered(Places[x])
      OBVIOUS
    <3>5. CASE x = <<"records", 0>> \/ x = <<"waiting", 0>>
      BY <3>3, <3>4, <3>5, AtPlaces
    <3>6. CASE x \in {"tmp", "log"} \X Files
      <4>1. PICK f \in Files : x = <<"tmp", f>> \/ x = <<"log", f>>
        BY <3>6
      <4>2. Places[<<"tmp", f>>] \in Seq(Record) /\ Ordered(Places[<<"tmp", f>>])
        BY <3>1, <3>2, <3>4, AtPlaces
      <4>3. Places[<<"log", f>>] \in Seq(Record) /\ Ordered(Places[<<"log", f>>])
        BY <3>1, <3>2, <3>4, AtPlaces
      <4> HIDE DEF P
      <4> QED
        BY <4>1, <4>2, <4>3
    <3> QED
      BY <3>5, <3>6, AtPlaces
  <2>2. /\ Contents(Places[<<"records", 0>>]) = R /\ Contents(Places[<<"waiting", 0>>]) = W
        /\ \A f \in Files : /\ Contents(Places[<<"tmp", f>>]) = T(f)
                            /\ Contents(Places[<<"log", f>>]) = L(f)
    BY AtPlaces, ContentsParts DEF R, W, T, L, Stored
  <2>3. /\ R \cap W = {} /\ R \cap crawled = {} /\ W \cap crawled = {}
        /\ \A f \in Files : /\ T(f) \cap R = {} /\ T(f) \cap W = {} /\ T(f) \cap crawled = {}
                            /\ L(f) \cap R = {} /\ L(f) \cap W = {} /\ L(f) \cap crawled = {}
    BY <2>0 DEF Sound, Apart
  <2>4. \A x \in P : Contents(Places[x]) \cap crawled = {}
    <3> SUFFICES ASSUME NEW x \in P PROVE Contents(Places[x]) \cap crawled = {}
      OBVIOUS
    <3>1. CASE x = <<"records", 0>> \/ x = <<"waiting", 0>>
      BY <2>2, <2>3, <3>1
    <3>2. CASE x \in {"tmp", "log"} \X Files
      <4>1. PICK f \in Files : x = <<"tmp", f>> \/ x = <<"log", f>>
        BY <3>2
      <4> QED
        BY <2>2, <2>3, <4>1
    <3> QED
      BY <3>1, <3>2, AtPlaces
  <2>5. \A x, y \in P : x # y => Contents(Places[x]) \cap Contents(Places[y]) = {}
    <3> SUFFICES ASSUME NEW x \in P, NEW y \in P, x # y
                 PROVE  Contents(Places[x]) \cap Contents(Places[y]) = {}
      OBVIOUS
    <3> DEFINE Queue(z) == z = <<"records", 0>> \/ z = <<"waiting", 0>>
               File(z, f) == z = <<"tmp", f>> \/ z = <<"log", f>>
    <3>1. \A z \in P : Queue(z) \/ \E f \in Files : File(z, f)
      BY AtPlaces
    <3>2. CASE Queue(x) /\ Queue(y)
      BY <2>2, <2>3, <3>2
    <3>3. ASSUME NEW f \in Files, File(x, f), Queue(y)
          PROVE  Contents(Places[x]) \cap Contents(Places[y]) = {}
      BY <2>2, <2>3, <3>3
    <3>4. ASSUME NEW f \in Files, File(y, f), Queue(x)
          PROVE  Contents(Places[x]) \cap Contents(Places[y]) = {}
      BY <2>2, <2>3, <3>4
    <3>5. ASSUME NEW f \in Files, NEW g \in Files, File(x, f), File(y, g)
          PROVE  Contents(Places[x]) \cap Contents(Places[y]) = {}
      <4>1. /\ f # g => T(f) \cap T(g) = {} /\ L(f) \cap L(g) = {}
            /\ T(f) \cap L(g) = {} /\ T(g) \cap L(f) = {}
        BY <2>0 DEF Sound, Apart
      <4>2. CASE x = <<"tmp", f>> /\ y = <<"tmp", g>>
        BY <2>2, <4>1, <4>2
      <4>3. CASE x = <<"log", f>> /\ y = <<"log", g>>
        BY <2>2, <4>1, <4>3
      <4>4. CASE x = <<"tmp", f>> /\ y = <<"log", g>>
        BY <2>2, <4>1, <4>4
      <4>5. CASE x = <<"log", f>> /\ y = <<"tmp", g>>
        BY <2>2, <4>1, <4>5
      <4> QED
        BY <3>5, <4>2, <4>3, <4>4, <4>5
    <3> QED
      BY <3>1, <3>2, <3>3, <3>4, <3>5
  <2>6. ASSUME NEW x \in P, NEW y \in P, NEW i \in DOMAIN Places[x], NEW j \in DOMAIN Places[y]
        PROVE  /\ Places[x][i] = Places[y][j] => <<x, i>> = <<y, j>>
               /\ Places[x][i] \notin crawled
    <3>1. Places[x][i] \in Contents(Places[x]) /\ Places[y][j] \in Contents(Places[y])
      BY DEF Contents
    <3>2. x = y /\ Places[x][i] = Places[y][j] => i = j
      BY <2>1, OrderedDistinct
    <3> HIDE DEF P
    <3> QED
      BY <2>4, <2>5, <3>1, <3>2
  <2>7. accepted \subseteq InMemory \cup OnDisk
    BY <2>0 DEF Sound, Kept
  <2> QED
    BY <2>6, <2>7 DEF RecordsKept
<1> QED
  BY <1>1, LoggerInductive, PTL
=============================================================================
