---------------------------- MODULE LogProcessor ----------------------------
(***************************************************************************)
(* The log of the platform (logger/Logger.cpp, LoggerSMQueue.cpp and       *)
(* LogProcessor.cpp).  Every process appends its logs to a queue in shared *)
(* memory and releases a semaphore.  The log processor takes them out,     *)
(* writes them to a file and, when the file is too long, shifts a chain of *)
(* kept files.  On a signal its reactor thread (here Closer) drains the    *)
(* same queue beside the thread that always does (Worker), closes the file *)
(* and ends the process, which may be started again.                       *)
(*                                                                         *)
(* A log is its place in the order in which logs were queued.  A file that *)
(* is not there is an empty one.                                           *)
(***************************************************************************)
EXTENDS Integers, Sequences, FiniteSets

CONSTANTS
    Producer,      \* the processes that log
    Processor,     \* the log processor
    NoQueue,       \* a queue pointer that is not set
    Keep,          \* numberKeptLogFiles_, 0 for no rollover
    SizeLimit,     \* sizeKeptLogFiles_, counted in logs
    CheckEvery,    \* logs between two checks of the size, 10 in the code
    SemMax,        \* the largest value of the semaphore
    MaxLogs,       \* bound on the logs of a behaviour
    MaxEnds,       \* bound on the processes that end
    MaxFailures    \* bound on the calls that fail

Users == Producer \cup {Processor}

ASSUME ConstantsAssumption ==
    /\ Processor \notin Producer
    /\ NoQueue \notin Users
    /\ Keep \in Nat /\ SizeLimit \in Nat /\ CheckEvery \in Nat
    /\ SemMax \in Nat \ {0}
    /\ MaxLogs \in Nat /\ MaxEnds \in Nat /\ MaxFailures \in Nat

VARIABLES
    bound,         \* the queue the shared memory knows under its name
    uses,          \* queue_ of each process
    queue,         \* the logs in each queue; a queue is named for its builder
    pc,            \* where each process is
    sem,           \* the value of the semaphore
    step,          \* where the two threads of the log processor are
    hand,          \* the log message of each thread, 0 before the first
    shuttingDown,  \* shuttingDown_
    stream,        \* logFileStream_: whether the log file can be written
    fileCheckCounter, \* fileCheckCounter_
    at,            \* the file each thread is moving
    file,          \* file 0 is written, file i is the one named ".i"
    logged,        \* how many logs were queued
    removed,       \* the logs of files that were removed or overwritten
    ends,          \* how many processes ended
    failures,      \* how many calls failed
    logAccidents   \* what happened that the properties except

logVars == <<bound, uses, queue, pc, sem, step, hand, shuttingDown, stream,
             fileCheckCounter, at, file, logged, removed, ends, failures,
             logAccidents>>

procVars == <<step, hand, shuttingDown, stream, fileCheckCounter, at>>
fileVars == <<file, removed>>

Thread == {"worker", "closer"}
Other(t) == CHOOSE u \in Thread : u # t
\* A call that fails, and one that does not.
Fails == failures < MaxFailures /\ failures' = failures + 1
Succeeds == UNCHANGED failures
Oldest == IF Keep > 1 THEN Keep - 1 ELSE 1
FileNo == 0 .. Oldest
LogsIn(s) == {s[i] : i \in DOMAIN s}
Log == 1 .. MaxLogs

Accident == {"set_up_together", "killed_before_release", "two_readers",
             "written_after_close", "rename_failed"}

LogTypeOK ==
    /\ bound \in Users \cup {NoQueue}
    /\ uses \in [Users -> Users \cup {NoQueue}]
    /\ queue \in [Users -> Seq(Log)]
    /\ pc \in [Users -> {"start", "build", "ready", "release"}]
    /\ sem \in 0 .. SemMax
    /\ step \in [Thread -> {"idle", "loop", "test", "acquire", "dequeue", "write",
                            "rolling", "signalled", "close", "terminate"}]
    /\ hand \in [Thread -> Log \cup {0}]
    /\ shuttingDown \in BOOLEAN
    /\ stream \in {"open", "closed", "failed"}
    /\ fileCheckCounter \in 0 .. CheckEvery
    /\ at \in [Thread -> FileNo]
    /\ file \in [FileNo -> Seq(Log)]
    /\ logged \in 0 .. MaxLogs
    /\ removed \subseteq Log
    /\ ends \in 0 .. MaxEnds
    /\ failures \in 0 .. MaxFailures
    /\ logAccidents \subseteq Accident
    /\ \A u \in Users : pc[u] \in {"ready", "release"} => uses[u] # NoQueue

-----------------------------------------------------------------------------
(* Setting up the queue, for a process that logs and for the log processor.*)

LogInit ==
    /\ bound = NoQueue
    /\ uses = [u \in Users |-> NoQueue]
    /\ queue = [u \in Users |-> <<>>]
    /\ pc = [u \in Users |-> "start"]
    /\ sem = 0
    /\ step = [t \in Thread |-> IF t = "worker" THEN "loop" ELSE "idle"]
    /\ hand = [t \in Thread |-> 0]
    /\ shuttingDown = FALSE
    /\ stream = "open"
    /\ fileCheckCounter = 0
    /\ at = [t \in Thread |-> 0]
    /\ file = [i \in FileNo |-> <<>>]
    /\ logged = 0
    /\ removed = {}
    /\ ends = 0
    /\ failures = 0
    /\ logAccidents = {}

\* setupQueue looks the name up, without the mutex of the queue.
FindQueue(u) ==
    /\ pc[u] = "start"
    /\ IF bound # NoQueue
       THEN /\ uses' = [uses EXCEPT ![u] = bound]
            /\ pc' = [pc EXCEPT ![u] = "ready"]
       ELSE /\ pc' = [pc EXCEPT ![u] = "build"]
            /\ UNCHANGED uses
    /\ UNCHANGED <<bound, queue, sem, procVars, fileVars, logged, ends, failures,
                   logAccidents>>

\* It builds a queue and binds it.  A name that is bound by now stays as it is
\* and bind does not answer ERROR, so the process keeps the queue it built.
BindQueue(u) ==
    /\ pc[u] = "build"
    /\ bound' = IF bound = NoQueue THEN u ELSE bound
    /\ uses' = [uses EXCEPT ![u] = u]
    /\ queue' = [queue EXCEPT ![u] = <<>>]
    /\ pc' = [pc EXCEPT ![u] = "ready"]
    /\ logAccidents' = IF bound = NoQueue THEN logAccidents
                       ELSE logAccidents \cup {"set_up_together"}
    /\ UNCHANGED <<sem, procVars, fileVars, logged, ends, failures>>

-----------------------------------------------------------------------------
(* A process that logs.                                                    *)

\* traceLog and straceLog: the log is appended under the mutex of the queue.
\* If that fails the log is gone, and the semaphore is released all the same.
TraceLog(p) ==
    /\ pc[p] = "ready"
    /\ logged < MaxLogs
    /\ \/ /\ logged' = logged + 1
          /\ queue' = [queue EXCEPT ![uses[p]] = Append(@, logged + 1)]
          /\ Succeeds
       \/ Fails /\ UNCHANGED <<logged, queue>>
    /\ pc' = [pc EXCEPT ![p] = "release"]
    /\ UNCHANGED <<bound, uses, sem, procVars, fileVars, ends, logAccidents>>

\* mutated: the semaphore is not released.
ReleaseNothing(p) ==
    /\ pc[p] = "release"
    /\ pc' = [pc EXCEPT ![p] = "ready"]
    /\ UNCHANGED <<bound, uses, queue, sem, procVars, fileVars, logged, ends,
                   failures, logAccidents>>

\* The semaphore cannot grow past its largest value; the error is ignored.
ReleaseSemaphore(p) ==
    /\ pc[p] = "release"
    /\ sem' = IF sem < SemMax THEN sem + 1 ELSE sem
    /\ pc' = [pc EXCEPT ![p] = "ready"]
    /\ UNCHANGED <<bound, uses, queue, procVars, fileVars, logged, ends, failures,
                   logAccidents>>

\* The process dies and is started again.
ProducerDies(p) ==
    /\ pc[p] \in {"ready", "release"}
    /\ ends < MaxEnds
    /\ ends' = ends + 1
    /\ pc' = [pc EXCEPT ![p] = "start"]
    /\ uses' = [uses EXCEPT ![p] = NoQueue]
    /\ logAccidents' = IF pc[p] = "release"
                       THEN logAccidents \cup {"killed_before_release"} ELSE logAccidents
    /\ UNCHANGED <<bound, queue, sem, procVars, fileVars, logged, failures>>

-----------------------------------------------------------------------------
(* The log processor.                                                      *)

\* Once both threads are between a test and the end of a write, either may write
\* the log it had before, and they write to one stream and shift one chain of
\* files without a lock.  What the log processor does from there on is not
\* defined, and it stops here.
ProcessorRuns == pc[Processor] = "ready" /\ "two_readers" \notin logAccidents
Pending == queue[uses[Processor]]
Go(t, s) == step' = [step EXCEPT ![t] = s]
setUp == <<bound, uses, pc>>

\* mutated: the queue is lost with the process.
EndWithQueue ==
    /\ ends < MaxEnds
    /\ ends' = ends + 1
    /\ pc' = [pc EXCEPT ![Processor] = "start"]
    /\ uses' = [uses EXCEPT ![Processor] = NoQueue]
    /\ queue' = [queue EXCEPT ![bound] = <<>>]
    /\ step' = [t \in Thread |-> IF t = "worker" THEN "loop" ELSE "idle"]
    /\ hand' = [t \in Thread |-> 0]
    /\ shuttingDown' = FALSE
    /\ \/ stream' = "open" /\ Succeeds
       \/ stream' = "failed" /\ Fails
    /\ fileCheckCounter' = 0
    /\ at' = [t \in Thread |-> 0]
    /\ UNCHANGED <<bound, sem, fileVars, logged, logAccidents>>

\* What is lost with the process: everything but the queue, the semaphore and
\* the files.  It is started again with a new fileCheckCounter and a stream that
\* appends to the active file, or that could not be opened.
EndProcess ==
    /\ ends < MaxEnds
    /\ ends' = ends + 1
    /\ pc' = [pc EXCEPT ![Processor] = "start"]
    /\ uses' = [uses EXCEPT ![Processor] = NoQueue]
    /\ step' = [t \in Thread |-> IF t = "worker" THEN "loop" ELSE "idle"]
    /\ hand' = [t \in Thread |-> 0]
    /\ shuttingDown' = FALSE
    /\ \/ stream' = "open" /\ Succeeds
       \/ stream' = "failed" /\ Fails
    /\ fileCheckCounter' = 0
    /\ at' = [t \in Thread |-> 0]
    /\ UNCHANGED <<bound, queue, sem, fileVars, logged, logAccidents>>

Crash == ProcessorRuns /\ EndProcess

\* The condition of the loop of processLogs.
Loop ==
    /\ ProcessorRuns
    /\ step["worker"] = "loop"
    /\ ~shuttingDown \/ Pending # <<>>
    /\ Go("worker", "test")
    /\ UNCHANGED <<setUp, queue, sem, hand, shuttingDown, stream, fileCheckCounter, at,
                   fileVars, logged, ends, failures, logAccidents>>

\* When the loop ends main returns, and with it ends the process.
LeaveMain ==
    /\ ProcessorRuns
    /\ step["worker"] = "loop"
    /\ shuttingDown /\ Pending = <<>>
    /\ EndProcess

\* isEmpty, in getNextLog and in the loop of shutdown.
TestEmpty(t) ==
    /\ ProcessorRuns
    /\ step[t] = "test"
    /\ Go(t, IF Pending # <<>> THEN "dequeue"
             ELSE IF t = "worker" THEN "acquire" ELSE "close")
    /\ UNCHANGED <<setUp, queue, sem, hand, shuttingDown, stream, fileCheckCounter, at,
                   fileVars, logged, ends, failures, logAccidents>>

Acquire ==
    /\ ProcessorRuns
    /\ step["worker"] = "acquire"
    /\ sem > 0
    /\ sem' = sem - 1
    /\ Go("worker", "test")
    /\ UNCHANGED <<setUp, queue, hand, shuttingDown, stream, fileCheckCounter, at,
                   fileVars, logged, ends, failures, logAccidents>>

\* mutated: dequeue_tail, the newest log first.
DequeueNewest(t) ==
    /\ ProcessorRuns
    /\ step[t] = "dequeue"
    /\ IF Pending # <<>>
       THEN /\ hand' = [hand EXCEPT ![t] = Pending[Len(Pending)]]
            /\ queue' = [queue EXCEPT ![uses[Processor]] = SubSeq(@, 1, Len(@) - 1)]
       ELSE UNCHANGED <<hand, queue>>
    /\ Go(t, "write")
    /\ UNCHANGED <<setUp, sem, shuttingDown, stream, fileCheckCounter, at, fileVars, logged,
                   ends, failures, logAccidents>>

\* dequeueLog.  If the queue is empty by now the answer is ERROR, which is
\* printed, and the thread goes on with the log it had before.
Dequeue(t) ==
    /\ ProcessorRuns
    /\ step[t] = "dequeue"
    /\ IF Pending # <<>>
       THEN /\ hand' = [hand EXCEPT ![t] = Head(Pending)]
            /\ queue' = [queue EXCEPT ![uses[Processor]] = Tail(@)]
       ELSE UNCHANGED <<hand, queue>>
    /\ Go(t, "write")
    /\ logAccidents' = IF step[Other(t)] \in {"dequeue", "write", "rolling"}
                       THEN logAccidents \cup {"two_readers"} ELSE logAccidents
    /\ UNCHANGED <<setUp, sem, shuttingDown, stream, fileCheckCounter, at, fileVars,
                   logged, ends, failures>>

After(t) == IF t = "worker" THEN "loop" ELSE "test"

\* What a check of the size may find.  The size of a file that is not there is
\* never read: what is compared is whatever was in that place of the stack.
TooLong(active) ==
    IF stream = "failed" /\ active = <<>> THEN BOOLEAN ELSE {Len(active) >= SizeLimit}

\* processLogContents up to the check of the size.  A stream that is not open
\* takes the log and loses it.
Write(t) ==
    /\ ProcessorRuns
    /\ step[t] = "write"
    /\ file' = IF stream = "open" THEN [file EXCEPT ![0] = Append(@, hand[t])] ELSE file
    /\ logAccidents' = IF stream = "open" THEN logAccidents
                       ELSE logAccidents \cup {"written_after_close"}
    /\ IF Keep # 0 /\ fileCheckCounter = CheckEvery
       THEN \E tooLong \in TooLong(file'[0]) :
            IF tooLong
            THEN /\ Go(t, "rolling")
                 /\ at' = [at EXCEPT ![t] = Keep - 1]
                 /\ UNCHANGED fileCheckCounter
            ELSE Go(t, After(t)) /\ fileCheckCounter' = 0 /\ UNCHANGED at
       ELSE /\ Go(t, After(t))
            /\ fileCheckCounter' = IF fileCheckCounter < CheckEvery
                                    THEN fileCheckCounter + 1 ELSE fileCheckCounter
            /\ UNCHANGED at
    /\ UNCHANGED <<setUp, queue, sem, hand, shuttingDown, stream, removed, logged, ends, failures>>

\* File i goes, or moves to file j and overwrites it.
RemoveFile(i) ==
    /\ file' = [file EXCEPT ![i] = <<>>]
    /\ removed' = removed \cup LogsIn(file[i])
RenameFile(i, j) ==
    /\ file' = [file EXCEPT ![j] = file[i], ![i] = <<>>]
    /\ removed' = removed \cup LogsIn(file[j])

\* mutated: a chain that is full is not shifted.
ShiftUnlessFull(t) ==
    LET i == at[t] IN
    /\ ProcessorRuns
    /\ step[t] = "rolling"
    /\ i > 0
    /\ IF i = Keep - 1 /\ file[i] # <<>>
       THEN at' = [at EXCEPT ![t] = 0] /\ UNCHANGED fileVars
       ELSE /\ at' = [at EXCEPT ![t] = i - 1]
            /\ IF file[i] # <<>> THEN RenameFile(i, i + 1) ELSE UNCHANGED fileVars
    /\ UNCHANGED <<setUp, queue, sem, step, hand, shuttingDown, stream, fileCheckCounter,
                   logged, ends, failures, logAccidents>>

\* One turn of the loop over the kept files, the oldest first: one that is there
\* is removed if it is the last, and becomes the next otherwise.  A failure is
\* only printed.
ShiftKept(t) ==
    LET i == at[t] IN
    /\ ProcessorRuns
    /\ step[t] = "rolling"
    /\ i > 0
    /\ at' = [at EXCEPT ![t] = i - 1]
    /\ \/ /\ file[i] = <<>>
          /\ UNCHANGED <<fileVars, failures, logAccidents>>
       \/ /\ file[i] # <<>>
          /\ IF i = Keep - 1 THEN RemoveFile(i) ELSE RenameFile(i, i + 1)
          /\ Succeeds /\ UNCHANGED logAccidents
       \/ /\ file[i] # <<>>
          /\ Fails
          /\ logAccidents' = IF i < Keep - 1 THEN logAccidents \cup {"rename_failed"}
                          ELSE logAccidents
          /\ UNCHANGED fileVars
    /\ UNCHANGED <<setUp, queue, sem, step, hand, shuttingDown, stream, fileCheckCounter,
                   logged, ends>>

\* The active file becomes file 1 and a new one is opened; either may fail, and
\* a file that is not there cannot be renamed.
ShiftActive(t) ==
    LET absent == stream = "failed" /\ file[0] = <<>>
        Failed(done) == IF done THEN 0 ELSE 1 IN
    /\ ProcessorRuns
    /\ step[t] = "rolling"
    /\ at[t] = 0
    /\ \E renamed, opened \in BOOLEAN :
          /\ failures' = failures + Failed(renamed \/ absent) + Failed(opened)
          /\ failures' <= MaxFailures
          /\ IF renamed /\ ~absent THEN RenameFile(0, 1) ELSE UNCHANGED fileVars
          /\ stream' = IF opened THEN "open" ELSE "failed"
    /\ fileCheckCounter' = 0
    /\ Go(t, After(t))
    /\ UNCHANGED <<setUp, queue, sem, hand, shuttingDown, at, logged, ends, logAccidents>>

\* shutdown, called by the reactor thread when a signal comes.  It sleeps
\* before and after it sets the flag; nothing waits for the sleeps.
CatchSignal ==
    /\ ProcessorRuns
    /\ step["closer"] = "idle"
    /\ ends < MaxEnds
    /\ Go("closer", "signalled")
    /\ UNCHANGED <<setUp, queue, sem, hand, shuttingDown, stream, fileCheckCounter, at,
                   fileVars, logged, ends, failures, logAccidents>>

SetShuttingDown ==
    /\ ProcessorRuns
    /\ step["closer"] = "signalled"
    /\ shuttingDown' = TRUE
    /\ Go("closer", "test")
    /\ UNCHANGED <<setUp, queue, sem, hand, stream, fileCheckCounter, at,
                   fileVars, logged, ends, failures, logAccidents>>

Close ==
    /\ ProcessorRuns
    /\ step["closer"] = "close"
    /\ stream' = IF stream = "failed" THEN "failed" ELSE "closed"
    /\ Go("closer", "terminate")
    /\ UNCHANGED <<setUp, queue, sem, hand, shuttingDown, fileCheckCounter, at,
                   fileVars, logged, ends, failures, logAccidents>>

TerminateOnSignal == ProcessorRuns /\ step["closer"] = "terminate" /\ EndProcess

ReadAndWrite(t) == TestEmpty(t) \/ Dequeue(t) \/ Write(t) \/ ShiftKept(t) \/ ShiftActive(t)
WorkerStep == Loop \/ LeaveMain \/ Acquire \/ ReadAndWrite("worker")
CloserStep == SetShuttingDown \/ Close \/ TerminateOnSignal \/ ReadAndWrite("closer")

LogNext ==
    \/ \E u \in Users : FindQueue(u) \/ BindQueue(u)
    \/ \E p \in Producer : TraceLog(p) \/ ReleaseSemaphore(p) \/ ProducerDies(p)
    \/ WorkerStep
    \/ CloserStep
    \/ CatchSignal
    \/ Crash

LogSpec == LogInit /\ [][LogNext]_logVars

\* A thread that can run runs: the log processor, and a process that has
\* queued a log and is about to release the semaphore.
LogFairSpec ==
    /\ LogSpec
    /\ WF_logVars(FindQueue(Processor) \/ BindQueue(Processor))
    /\ WF_logVars(WorkerStep)
    /\ WF_logVars(CloserStep)
    /\ \A p \in Producer : WF_logVars(ReleaseSemaphore(p))

-----------------------------------------------------------------------------
(* Properties.                                                             *)

Written == UNION {LogsIn(file[i]) : i \in FileNo}

\* All processes that found or built the queue use the same one, unless two
\* were in setupQueue at the same time (LoggerSMQueue.cpp:97-116).
OneQueue ==
    "set_up_together" \notin logAccidents =>
        \A u, v \in Users : NoQueue \in {uses[u], uses[v]} \/ uses[u] = uses[v]

\* When the worker is about to wait and there is a log, somebody has released
\* or is about to release the semaphore (getNextLog tests and waits in two
\* steps; traceLog queues and releases in two steps), unless a process died
\* between its two steps.
NoLostWakeup ==
    /\ ProcessorRuns /\ step["worker"] = "acquire" /\ Pending # <<>>
    /\ "killed_before_release" \notin logAccidents
    => sem > 0 \/ \E p \in Producer : pc[p] = "release"

\* Read from the oldest file to the active one, the logs are in the order in
\* which they were queued and none is there twice, at every moment of a
\* rollover, after any failure of it, and whenever the process ends.
FilesInOrder ==
    /\ \A i \in FileNo : \A k, l \in DOMAIN file[i] : k < l => file[i][k] < file[i][l]
    /\ \A i, j \in FileNo : i < j =>
          \A n \in LogsIn(file[i]), m \in LogsIn(file[j]) : m < n

\* A rollover gives up the oldest logs only, and no sooner than the files that
\* are kept hold as much as Keep - 1 files that are full, less one file for each
\* process that ended and each call that failed (LogProcessor.cpp:387-434,
\* options -n and -z), unless a kept file could not be renamed, which the next
\* one then overwrites.
NewestAreKept ==
    "rename_failed" \notin logAccidents /\ removed # {} =>
        /\ \A n \in removed, m \in Written : n < m
        /\ Cardinality(Written) >= (Keep - 1 - ends - failures) * SizeLimit

\* The logs that were queued and are in no queue, no hands and no file, and
\* were not given up.
Lost == {n \in 1 .. logged : /\ n \notin Written \cup removed
                             /\ \A t \in Thread : hand[t] # n
                             /\ \A u \in Users : n \notin LogsIn(queue[u])}

\* No more logs are lost than processes ended, unless a log was taken from the
\* queue with a stream that is not open.
LossesAreBounded == "written_after_close" \notin logAccidents => Cardinality(Lost) <= ends

\* The queue of a log processor that stays up is emptied once no more logs come
\* (a behaviour has MaxLogs of them), unless the process that queued one died
\* before it released the semaphore.
LogsAreTaken ==
    ProcessorRuns /\ Pending # <<>>
    ~> ~ProcessorRuns \/ Pending = <<>> \/ "killed_before_release" \in logAccidents

-----------------------------------------------------------------------------
(* What makes them inductive.                                              *)

\* A process uses the queue that is bound or the one it built, which nobody uses
\* before it is built; the log processor finds nothing in one of its own.
QueuesAreOwned ==
    /\ \A u \in Users :
          /\ uses[u] \in {NoQueue, bound, u}
          /\ uses[u] = u /\ u # bound => "set_up_together" \in logAccidents
          /\ pc[u] \in {"start", "build"} => uses[u] = NoQueue
          /\ pc[u] = "build" => queue[u] = <<>> /\ bound # u
          /\ bound = NoQueue => queue[u] = <<>> /\ uses[u] = NoQueue
    /\ bound # Processor => queue[Processor] = <<>>
    /\ pc[Processor] # "release"

\* A log processor that is not up has threads that have done nothing.
StartsAnew ==
    pc[Processor] # "ready" => step["worker"] = "loop" /\ step["closer"] = "idle"

\* One thread at a time has a log to write or files to move, and no other has
\* taken the log a thread is about to take.
OneReader ==
    /\ "two_readers" \notin logAccidents =>
          /\ \A t \in Thread : step[t] = "dequeue" => Pending # <<>>
          /\ \E t \in Thread : step[t] \notin {"write", "rolling"}
    /\ \E t \in Thread : step[t] # "rolling"

\* Logs wait in the order in which they were queued, behind all that were taken.
QueuesInOrder ==
    \A u \in Users :
        /\ \A k, l \in DOMAIN queue[u] : k < l => queue[u][k] < queue[u][l]
        /\ \A m \in LogsIn(queue[u]) :
              /\ m <= logged
              /\ u = bound => /\ \A n \in Written \cup removed : n < m
                              /\ \A t \in Thread : hand[t] < m

\* A thread that writes has a log that is newer than all that are written; any
\* other has written the log it has.
HandsAreNew ==
    /\ "two_readers" \notin logAccidents =>
          \A t \in Thread : step[t] = "write" =>
              hand[t] # 0 /\ \A n \in Written \cup removed : n < hand[t]
    /\ "written_after_close" \notin logAccidents =>
          \A t \in Thread : step[t] # "write" => hand[t] \in Written \cup removed \cup {0}
    /\ \A n \in Written \cup removed : n <= logged
    /\ \A t \in Thread : hand[t] <= logged

\* While a thread moves the files, the file behind the one it moves next has been
\* moved away, unless it is the last.
RoomIsMade ==
    \A t \in Thread : step[t] = "rolling" =>
        /\ at[t] < Keep
        /\ "rename_failed" \notin logAccidents /\ at[t] + 1 < Oldest => file[at[t] + 1] = <<>>

\* What was given up is older than what is written, as long as files move.
OldestGoFirst ==
    "rename_failed" \notin logAccidents => \A n \in removed, m \in Written : n < m

\* The places of files that are to hold a full file: all but the active one, or,
\* while files are moved, but the one that has been moved away.  Before the
\* oldest is given up, those behind the last file do not count.
Rolling == {t \in Thread : step[t] = "rolling"}
Places == (0 .. Keep - 1) \ (IF Rolling = {} THEN {0} ELSE {at[t] + 1 : t \in Rolling})
Due(i) == removed # {} \/ \E j \in i .. Keep - 1 : file[j] # <<>>

\* Those that do not, and whether the active file, which is not there, is going to
\* be one of them.
Holes == {i \in Places : Len(file[i]) < SizeLimit /\ Due(i)}
NextHole == IF stream = "failed" /\ Rolling = {} THEN 1 ELSE 0

\* Each of them goes back to the end of a process or to a call that failed.
HolesAreExplained ==
    "rename_failed" \notin logAccidents => Cardinality(Holes) + NextHole <= ends + failures

\* One queue for all, no lost wakeup, and the files in order at every moment: the
\* inductive invariant of the proofs.
LogInv ==
    /\ LogTypeOK
    /\ OneQueue
    /\ NoLostWakeup
    /\ FilesInOrder
    /\ QueuesAreOwned
    /\ StartsAnew
    /\ OneReader
    /\ QueuesInOrder
    /\ HandsAreNew
    /\ RoomIsMade
    /\ OldestGoFirst
    /\ HolesAreExplained
=============================================================================
