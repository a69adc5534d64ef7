--------------------------- MODULE QTextFileLogger ---------------------------
(***************************************************************************)
(* The file logger of the servers: src/networkcommon/source/               *)
(* qtextfilelogger.cpp, as qcustomlogger and qstatslogger use it and as    *)
(* qnetworkserver starts and ends it.                                      *)
(*                                                                         *)
(* Threads: the server's, the logger's own, and those of plugins that log  *)
(* through qserver_logfile and qserver_stats_count.  log_mutex is only     *)
(* ever tried: a thread that does not get it goes on without it.  Files    *)
(* outlive the process, which may die and be started again.                *)
(***************************************************************************)
EXTENDS Integers, Sequences, FiniteSets

CONSTANTS
    Plugins,           \* other threads that log
    max_size_of_file,  \* in records
    MaxLogs,           \* bound: records a thread logs, over all runs of the process
    MaxRestarts,       \* bound: how often the process is started again
    CanFail,           \* whether fopen, rename and fprintf may fail
    Absent             \* a file that does not exist

ASSUME LoggerAssumption ==
    /\ "server" \notin Plugins /\ "logger" \notin Plugins /\ "nobody" \notin Plugins
    /\ max_size_of_file \in Nat /\ MaxLogs \in Nat /\ MaxRestarts \in Nat
    /\ CanFail \in BOOLEAN
    /\ IsFiniteSet(Plugins)

Producers == {"server", "logger"} \cup Plugins

\* The k-th record of a thread.
Record == Producers \X Nat

ASSUME AbsentAssumption == Absent \notin Seq(Record)

\* next_major_version and next_minor_counter as one number.  Every file but the last holds
\* a record, so there are never more files than records.
MaxFiles == (Cardinality(Plugins) + 1) * MaxLogs + 2 * MaxRestarts + 2
Files == 0 .. MaxFiles
NoFile == -1

Outcomes == IF CanFail THEN BOOLEAN ELSE {TRUE}

VARIABLES
    server,           \* "boot", "serving", "waiting" (exit_services_gracefully), "exited", "crashed"
    log_status,       \* end_session has returned 0
    thread,           \* where run_log_session is
    finished,         \* config.finished
    logtimer,         \* logtimer is not null
    cancel,           \* the cancellation was sent to the logger's loop
    logfile,          \* "none", "open", "closing" (in ~qlogfile)
    log_mutex,        \* who holds it, or "nobody"
    at,               \* where each thread is in log: "idle", "locked", "busy", "alloc"
    flushing,         \* where flush is: "idle", "locked", "reopen"
    records,
    records_waiting,
    fp,               \* number of the open file, or NoFile
    next_file,
    logfile_size,
    tmp,              \* the .tmp files on disk
    log,              \* the finished .log files on disk
    crawled,          \* what a crawler has taken from .log files
    count,            \* records each thread has tried to log
    accepted,         \* records for which log returned a size, less those lost with the process
                      \* or in a failed fprintf
    mishap,           \* "race", "fopen" or "late": see RecordsKept
    restarts

session == <<thread, finished, logtimer, cancel>>
queues  == <<records, records_waiting>>
file    == <<fp, next_file, logfile_size>>
disk    == <<tmp, log, crawled>>
vars == <<server, log_status, session, logfile, log_mutex, at, flushing, queues, file, disk,
          count, accepted, mishap, restarts>>

Contents(s) == {s[i] : i \in DOMAIN s}
Stored(f) == IF f = Absent THEN {} ELSE Contents(f)
OnDisk == crawled \cup UNION {Stored(tmp[f]) \cup Stored(log[f]) : f \in Files}

\* What is pending; ~qlogfile leaves a copy in records_waiting of what it has moved.
Waiting == IF logfile = "closing" \/ thread = "exited" THEN <<>> ELSE records_waiting
InMemory == Contents(records) \cup Contents(Waiting)

Init ==
    /\ server = "boot" /\ log_status = FALSE
    /\ thread = "none" /\ finished = TRUE /\ logtimer = FALSE /\ cancel = FALSE
    /\ logfile = "none" /\ log_mutex = "nobody"
    /\ at = [p \in Producers |-> "idle"]
    /\ flushing = "idle"
    /\ records = <<>> /\ records_waiting = <<>>
    /\ fp = NoFile /\ next_file = 0 /\ logfile_size = 0
    /\ tmp = [f \in Files |-> Absent] /\ log = [f \in Files |-> Absent] /\ crawled = {}
    /\ count = [p \in Producers |-> 0]
    /\ accepted = {} /\ mishap = {} /\ restarts = 0

-----------------------------------------------------------------------------
(* Files                                                                   *)

\* Mutant: a finished file of the same number is not looked for.
usable_ignoring_log(f) == tmp[f] # Absent => Len(tmp[f]) < max_size_of_file

\* Where the search of create_new_logfile stops: a .tmp file that is not full, or a number
\* without any file.
usable(f) ==
    IF tmp[f] # Absent THEN Len(tmp[f]) < max_size_of_file ELSE log[f] = Absent

\* The first usable number from n on.
next_logfile(n) ==
    {f \in n .. MaxFiles : usable(f) /\ \A g \in n .. f - 1 : ~usable(g)}

\* Mutant: a failed stat is taken for a size.
size_on_disk_failed(f) == -1

size_on_disk(f) == IF tmp[f] = Absent THEN 0 ELSE Len(tmp[f])

\* create_new_logfile from number n on, after the previous file is closed.
create_new_logfile(n, ok) == \E f \in next_logfile(n) :
    /\ next_file' = f + 1
    /\ IF ok
       THEN /\ fp' = f
            /\ tmp' = [tmp EXCEPT ![f] = IF @ = Absent THEN <<>> ELSE @]
            /\ logfile_size' = size_on_disk(f)
            /\ UNCHANGED mishap
       ELSE /\ fp' = NoFile
            /\ mishap' = mishap \cup {"fopen"}
            /\ UNCHANGED <<tmp, logfile_size>>

-----------------------------------------------------------------------------
(* log and log_buffer                                                      *)

may_log(p) ==
    \/ p = "server" /\ server = "serving"
    \/ p = "logger" /\ thread = "scheduled"
    \/ p \in Plugins /\ server \in {"serving", "waiting"}

\* Without a file object log and log_stats return -1 at once.
logfile_created == logfile # "none"

\* Called, with log_mutex tried.  The logger's own record, "start-session", is its first
\* step in the loop.
log_begin(p) ==
    /\ server # "crashed" /\ at[p] = "idle" /\ may_log(p) /\ logfile_created
    /\ p # "logger" => count[p] < MaxLogs
    /\ count' = [count EXCEPT ![p] = @ + 1]
    /\ at' = [at EXCEPT ![p] = IF log_mutex = "nobody" THEN "locked" ELSE "busy"]
    /\ log_mutex' = IF log_mutex = "nobody" THEN p ELSE log_mutex
    /\ thread' = IF p = "logger" THEN "loop" ELSE thread
    /\ mishap' = IF logfile = "closing" THEN mishap \cup {"late"} ELSE mishap
    /\ UNCHANGED <<server, log_status, finished, logtimer, cancel, logfile, flushing, queues,
                   file, disk, accepted, restarts>>

\* Mutant: pending records are cleared and not moved.
moved_away == records

\* Mutant: pending records go before those that are older.
moved_in_front == records_waiting \o records

\* The records after the pending ones were moved to them.
moved == records \o records_waiting

pending_cleared == <<>>

\* With log_mutex: the pending records move, the new one follows unless there is no file.
log_finish(p) ==
    LET r == <<p, count[p]>> IN
    /\ server # "crashed" /\ at[p] = "locked" /\ logfile # "none"
    /\ records' = IF fp = NoFile THEN moved ELSE Append(moved, r)
    /\ records_waiting' = pending_cleared
    /\ accepted' = IF fp = NoFile THEN accepted ELSE accepted \cup {r}
    /\ log_mutex' = "nobody"
    /\ at' = [at EXCEPT ![p] = "idle"]
    /\ UNCHANGED <<server, log_status, session, logfile, flushing, file, disk, count, mishap, restarts>>

\* Without log_mutex: is there a file?
log_check(p) ==
    /\ server # "crashed" /\ at[p] = "busy" /\ logfile # "none"
    /\ at' = [at EXCEPT ![p] = IF fp = NoFile THEN "idle" ELSE "alloc"]
    /\ UNCHANGED <<server, log_status, session, logfile, log_mutex, flushing, queues, file, disk,
                   count, accepted, mishap, restarts>>

\* Some other thread works on records_waiting.
overlaps(p) == \E q \in Producers \ {p} : at[q] \in {"locked", "alloc"}

\* create_new_record looks at fp again and returns null when a rollover has just closed
\* the file.
create_new_record_fails == fp = NoFile

\* Without log_mutex: the record is pushed to records_waiting; if another thread is at the
\* same vector the record may be lost.  The caller writes to a null record, too.
log_push(p) ==
    LET r == <<p, count[p]>> IN
    /\ server # "crashed" /\ at[p] = "alloc" /\ logfile # "none"
    /\ IF create_new_record_fails
       THEN /\ server' = "crashed"
            /\ UNCHANGED <<records_waiting, accepted, at, mishap>>
       ELSE /\ \/ records_waiting' = Append(records_waiting, r) /\ UNCHANGED mishap
               \/ overlaps(p) /\ mishap' = mishap \cup {"race"} /\ UNCHANGED records_waiting
            /\ accepted' = accepted \cup {r}
            /\ at' = [at EXCEPT ![p] = "idle"]
            /\ UNCHANGED server
    /\ UNCHANGED <<log_status, session, logfile, log_mutex, flushing, records, file, disk, count,
                   restarts>>

\* A thread in log when the logger's thread has deleted the file object.
log_after_delete(p) ==
    /\ server # "crashed" /\ at[p] # "idle" /\ logfile = "none"
    /\ server' = "crashed"
    /\ UNCHANGED <<log_status, session, logfile, log_mutex, at, flushing, queues, file, disk, count,
                   accepted, mishap, restarts>>

-----------------------------------------------------------------------------
(* flush                                                                   *)

looping == server # "crashed" /\ at["logger"] = "idle" /\ flushing = "idle"

\* The timer's flush, or that of the destructor.  When the mutex is taken the timer's one
\* is skipped.
flush_begin ==
    /\ looping /\ thread \in {"loop", "closing"} /\ log_mutex = "nobody"
    /\ log_mutex' = "logger"
    /\ flushing' = "locked"
    /\ UNCHANGED <<server, log_status, session, logfile, at, queues, file, disk, count, accepted,
                   mishap, restarts>>

\* The destructor ends after its flush; GX_DELETE clears the pointer.
close_logfile ==
    /\ thread' = IF thread = "closing" THEN "exited" ELSE thread
    /\ logfile' = IF thread = "closing" THEN "none" ELSE logfile

flush_no_file ==
    /\ server # "crashed" /\ flushing = "locked" /\ fp = NoFile
    /\ log_mutex' = "nobody"
    /\ flushing' = "idle"
    /\ close_logfile
    /\ records' = IF thread = "closing" THEN <<>> ELSE records
    /\ UNCHANGED <<server, log_status, finished, logtimer, cancel, at, records_waiting, file, disk,
                   count, accepted, mishap, restarts>>

flushed == <<>>

\* flush(true), that of the timer, looks at the size.
rolls_over(size) == thread = "loop" /\ size > max_size_of_file

\* Mutant: the loop ends one record early.
printed_but_last(bad) == {i \in 1 .. Len(records) - 1 : records[i] \notin bad}

\* The places in records of those whose fprintf succeeds.
printed(bad) == {i \in 1 .. Len(records) : records[i] \notin bad}

\* They are written in their order.
written(bad) ==
    LET rank(i) == Cardinality({j \in printed(bad) : j <= i})
    IN [k \in 1 .. Cardinality(printed(bad)) |-> records[CHOOSE i \in printed(bad) : rank(i) = k]]

\* The file, with what it holds now, is renamed and closed; if rename fails it stays a .tmp
\* file.
finalise_logfile(content, ok) ==
    /\ log' = IF ok THEN [log EXCEPT ![fp] = content] ELSE log
    /\ tmp' = [tmp EXCEPT ![fp] = IF ok THEN Absent ELSE content]
    /\ fp' = NoFile

\* The records are written, as far as fprintf goes, and fflush is called; a file that has
\* grown too large is renamed and closed.
flush_write(bad) ==
    LET size == logfile_size + Len(written(bad)) IN
    /\ server # "crashed" /\ flushing = "locked" /\ fp # NoFile
    /\ records' = flushed
    /\ accepted' = accepted \ bad
    /\ logfile_size' = size
    /\ IF rolls_over(size)
       THEN /\ \E ok \in Outcomes : finalise_logfile(tmp[fp] \o written(bad), ok)
            /\ flushing' = "reopen"
            /\ UNCHANGED <<log_mutex, thread, logfile>>
       ELSE /\ tmp' = [tmp EXCEPT ![fp] = @ \o written(bad)]
            /\ fp' = IF thread = "closing" THEN NoFile ELSE fp
            /\ flushing' = "idle"
            /\ log_mutex' = "nobody"
            /\ close_logfile
            /\ UNCHANGED log
    /\ UNCHANGED <<server, log_status, finished, logtimer, cancel, at, records_waiting, next_file,
                   crawled, count, mishap, restarts>>

\* The rest of the rollover, still with log_mutex.
flush_reopen(ok) ==
    /\ server # "crashed" /\ flushing = "reopen"
    /\ create_new_logfile(next_file, ok)
    /\ flushing' = "idle"
    /\ log_mutex' = "nobody"
    /\ UNCHANGED <<server, log_status, session, logfile, at, queues, log, crawled, count, accepted,
                   restarts>>

-----------------------------------------------------------------------------
(* The session                                                             *)

\* start_session takes a positive result of pthread_create for success.
start_session(created) ==
    /\ server = "boot"
    /\ server' = "serving"
    /\ thread' = IF created THEN "created" ELSE "none"
    /\ UNCHANGED <<log_status, finished, logtimer, cancel, logfile, log_mutex, at, flushing, queues,
                   file, disk, count, accepted, mishap, restarts>>

session_open(ok) ==
    /\ server # "crashed" /\ thread = "created"
    /\ thread' = "opened"
    /\ logfile' = "open"
    /\ create_new_logfile(0, ok)
    /\ finished' = FALSE
    /\ UNCHANGED <<server, log_status, logtimer, cancel, log_mutex, at, flushing, queues, log, crawled,
                   count, accepted, restarts>>

session_schedule ==
    /\ server # "crashed" /\ thread = "opened"
    /\ thread' = "scheduled"
    /\ logtimer' = TRUE
    /\ UNCHANGED <<server, log_status, finished, cancel, logfile, log_mutex, at, flushing, queues, file,
                   disk, count, accepted, mishap, restarts>>

\* The cancellation of the timer empties the loop, uv_run returns, and finished is set.
session_end ==
    /\ looping /\ thread = "loop" /\ cancel
    /\ thread' = "ended"
    /\ logtimer' = FALSE
    /\ finished' = TRUE
    /\ UNCHANGED <<server, log_status, cancel, logfile, log_mutex, at, flushing, queues, file, disk,
                   count, accepted, mishap, restarts>>

\* ~qlogfile moves the pending records without log_mutex and does not clear them.
close_begin ==
    /\ server # "crashed" /\ thread = "ended"
    /\ thread' = "closing"
    /\ logfile' = "closing"
    /\ records' = moved
    /\ mishap' = IF \E p \in Producers : at[p] # "idle" THEN mishap \cup {"late"} ELSE mishap
    /\ UNCHANGED <<server, log_status, finished, logtimer, cancel, log_mutex, at, flushing,
                   records_waiting, file, disk, count, accepted, restarts>>

\* The destructor's flush does not get log_mutex: its records are not written.
close_busy ==
    /\ looping /\ thread = "closing" /\ log_mutex # "nobody"
    /\ close_logfile
    /\ records' = <<>>
    /\ fp' = NoFile
    /\ UNCHANGED <<server, log_status, finished, logtimer, cancel, log_mutex, at, flushing,
                   records_waiting, next_file, logfile_size, disk, count, accepted, mishap, restarts>>

-----------------------------------------------------------------------------
(* exit_services_gracefully                                                *)

\* end_session, unless it has succeeded before.
end_session ==
    /\ log_status' = (log_status \/ logtimer)
    /\ cancel' = (cancel \/ (~log_status /\ logtimer))

exit_services_gracefully ==
    /\ server = "serving" /\ at["server"] = "idle"
    /\ server' = "waiting"
    /\ end_session
    /\ UNCHANGED <<thread, finished, logtimer, logfile, log_mutex, at, flushing, queues, file, disk,
                   count, accepted, mishap, restarts>>

\* Mutant: end_session is not tried again.
end_session_once == UNCHANGED <<log_status, cancel>>

end_session_again == end_session

wait_tick ==
    /\ server = "waiting"
    /\ end_session_again
    /\ server' = IF finished THEN "exited" ELSE "waiting"
    /\ UNCHANGED <<thread, finished, logtimer, logfile, log_mutex, at, flushing, queues, file, disk,
                   count, accepted, mishap, restarts>>

-----------------------------------------------------------------------------
(* The world outside                                                       *)

\* A crawler reads a .log file and moves it away.
crawl(f) ==
    /\ log[f] # Absent
    /\ log' = [log EXCEPT ![f] = Absent]
    /\ crawled' = crawled \cup Contents(log[f])
    /\ UNCHANGED <<server, log_status, session, logfile, log_mutex, at, flushing, queues, file, tmp,
                   count, accepted, mishap, restarts>>

\* The process dies or has ended, and another one is started.
restart ==
    /\ restarts < MaxRestarts
    /\ restarts' = restarts + 1
    /\ server' = "boot" /\ log_status' = FALSE
    /\ thread' = "none" /\ finished' = TRUE /\ logtimer' = FALSE /\ cancel' = FALSE
    /\ logfile' = "none" /\ log_mutex' = "nobody"
    /\ at' = [p \in Producers |-> "idle"]
    /\ flushing' = "idle"
    /\ records' = <<>> /\ records_waiting' = <<>>
    /\ fp' = NoFile /\ next_file' = 0 /\ logfile_size' = 0
    /\ accepted' = accepted \cap OnDisk
    /\ UNCHANGED <<disk, count, mishap>>

-----------------------------------------------------------------------------
LogStep(p) == log_finish(p) \/ log_check(p) \/ log_push(p) \/ log_after_delete(p)

FlushStep ==
    \/ flush_no_file
    \/ \E bad \in IF CanFail THEN SUBSET Contents(records) ELSE {{}} : flush_write(bad)
    \/ \E ok \in Outcomes : flush_reopen(ok)

SessionStep ==
    \/ \E ok \in Outcomes : session_open(ok)
    \/ session_schedule
    \/ session_end
    \/ close_begin
    \/ close_busy

Next ==
    \/ \E p \in Producers : log_begin(p) \/ LogStep(p)
    \/ flush_begin
    \/ FlushStep
    \/ \E created \in Outcomes : start_session(created)
    \/ SessionStep
    \/ exit_services_gracefully
    \/ wait_tick
    \/ \E f \in Files : crawl(f)
    \/ restart

Spec == Init /\ [][Next]_vars

\* Threads are scheduled, the flush timer repeats and finds log_mutex free now and then,
\* and so does the timer that waits for the services.
Fairness ==
    /\ \A p \in Producers : WF_vars(LogStep(p))
    /\ WF_vars(log_begin("logger"))
    /\ SF_vars(flush_begin)
    /\ WF_vars(FlushStep)
    /\ SF_vars(SessionStep)
    /\ WF_vars(wait_tick)

FairSpec == Spec /\ Fairness

-----------------------------------------------------------------------------
(* Correctness                                                             *)

\* Every variable keeps its type.
TypeOK ==
    /\ server \in {"boot", "serving", "waiting", "exited", "crashed"}
    /\ thread \in {"none", "created", "opened", "scheduled", "loop", "ended", "closing", "exited"}
    /\ {log_status, finished, logtimer, cancel} \subseteq BOOLEAN
    /\ logfile \in {"none", "open", "closing"}
    /\ log_mutex \in Producers \cup {"nobody"}
    /\ at \in [Producers -> {"idle", "locked", "busy", "alloc"}]
    /\ flushing \in {"idle", "locked", "reopen"}
    /\ InMemory \cup OnDisk \cup accepted \subseteq Record
    /\ fp \in Files \cup {NoFile}
    /\ next_file \in Nat /\ logfile_size \in Nat
    /\ mishap \subseteq {"race", "fopen", "late"}

\* The sequences a record goes through.
Places ==
    [x \in ({"records", "waiting"} \X {0}) \cup ({"tmp", "log"} \X Files) |->
        CASE x[1] = "records" -> records
          [] x[1] = "waiting" -> Waiting
          [] x[1] = "tmp" -> IF tmp[x[2]] = Absent THEN <<>> ELSE tmp[x[2]]
          [] OTHER -> IF log[x[2]] = Absent THEN <<>> ELSE log[x[2]]]

\* Records that log has taken are in memory or on disk, through every flush, rollover and end
\* of a session, with these exceptions only: two threads at records_waiting at once, a
\* file that cannot be opened, a thread that logs while the session ends, a crash.  And no
\* record is written twice, also not to two files in two lives of the process.
RecordsKept ==
    mishap = {} =>
        /\ server # "crashed" => accepted \subseteq InMemory \cup OnDisk
        /\ \A x, y \in DOMAIN Places : \A i \in DOMAIN Places[x], j \in DOMAIN Places[y] :
              /\ Places[x][i] = Places[y][j] => <<x, i>> = <<y, j>>
              /\ Places[x][i] \notin crawled

\* What is in the open file, in records and in records_waiting, in this order.
Pipeline ==
    (IF fp = NoFile THEN <<>> ELSE tmp[fp]) \o records \o Waiting

\* The records of a thread are written in the order they were logged, whichever of the two
\* queues they went through.
OrderKept ==
    mishap = {} => \A i, j \in DOMAIN Pipeline :
        (i < j /\ Pipeline[i][1] = Pipeline[j][1]) => Pipeline[i][2] < Pipeline[j][2]

\* A finished .log file is never written or replaced, only taken away by a crawler: not by
\* a rollover, and not by a later process that counts from 0 again.
FinishedUntouched ==
    [][\A f \in Files : log[f] # Absent => log'[f] \in {log[f], Absent}]_vars

\* The wait of exit_services_gracefully for the logger's thread comes back, whatever the state
\* of that thread when end_session is first called.  The process may end first: killed, and
\* started again, or crashed by a plugin's thread that still logs (log_push without a file,
\* log_after_delete) and by nothing else.
ExitCompletes ==
    server = "waiting" ~> \/ server = "exited"
                          \/ server = "boot"
                          \/ server = "crashed" /\ \E p \in Plugins : at[p] # "idle"

\* A record in the queue is written, unless the process dies or fprintf fails.
QueueWritten ==
    \A p \in Producers, k \in 1 .. MaxLogs :
        <<p, k>> \in Contents(records) ~> <<p, k>> \in OnDisk \/ <<p, k>> \notin accepted
                                          \/ server = "crashed"

\* "Logs data to the file, checking if the file is initialized."
RecordAllocated == server # "crashed"
====
