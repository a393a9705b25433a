---------------------------- MODULE FaultManager ----------------------------
(* FaultManager (src/platform/faultmgr): processes report alarms, clears   *)
(* and events through a queue in shared memory (Faults.cpp,                *)
(* FaultSMQueue.cpp); one thread of FaultManager keeps the table of        *)
(* outstanding alarms and tells the EMS; another holds back each clear for *)
(* CLEAR_ALARM_CACHE_TIME so that an alarm that toggles is not reported    *)
(* again and again.  The EMS is its table of alarms (ClientAgent.cpp).     *)
EXTENDS Integers, Sequences, FiniteSets

CONSTANTS
    Producers,      \* processes that report
    Alarms,         \* NEID, alarm code, managed object, instance and pid
    CacheTime,      \* CLEAR_ALARM_CACHE_TIME
    QueueLimit,     \* reports that fit into the shared memory
    MaxReports,     \* bound: reports
    MaxTime,        \* bound: the clock
    MaxFailures     \* bound: failures of the database and of posts, and restarts

ASSUME BoundsAssumption ==
    /\ CacheTime \in Nat \ {0} /\ QueueLimit \in Nat \ {0}
    /\ MaxReports \in Nat /\ MaxTime \in Nat /\ MaxFailures \in Nat

Clears == [kind : {"clear"}, alarm : Alarms, stamp : 0..MaxTime]
Messages == [kind : {"raise"}, alarm : Alarms] \cup Clears \cup [kind : {"event"}]
NoMessage == [kind |-> "none"]

VARIABLES
    now,         \* time(0)
    queue,       \* the shared memory queue
    signals,     \* the count of the process semaphore
    reporting,   \* producers that have enqueued and not yet released it
    reports,     \* reports so far
    taker,       \* the alarm thread: where it is and its message
    table,       \* platform.localAlarmsOutstanding
    cache,       \* clearAlarmCache_: the slots of the vector, ...
    size,        \* ... and how many of them are its elements
    sweeper,     \* the clear cache thread: where it is, and its iterator
    uncleared,   \* the rows of each alarm the EMS has and are not cleared
    failures,    \* failures and restarts so far
    latest,      \* history: the last report of each alarm off the queue
    accidents    \* history: alarms with an accident that no clear has mended

vars == <<now, queue, signals, reporting, reports, taker, table, cache, size,
          sweeper, uncleared, failures, latest, accidents>>

reportVars == <<queue, signals, reporting, reports>>
cacheVars == <<cache, size>>

Init ==
    /\ now = 0
    /\ queue = <<>>
    /\ signals = 0
    /\ reporting = {}
    /\ reports = 0
    /\ taker = [at |-> "idle", message |-> NoMessage]
    /\ table = {}
    /\ cache = <<>>
    /\ size = 0
    /\ sweeper = [at |-> "asleep", slot |-> 0]
    /\ uncleared = [a \in Alarms |-> 0]
    /\ failures = 0
    /\ latest = [a \in Alarms |-> "none"]
    /\ accidents = {}

(* clearAlarmCacheMutex_ is held by the clear cache thread through its     *)
(* sweep; the alarm thread holds it within one step.                       *)
CacheIsFree == sweeper.at = "asleep"
Swept == cache[sweeper.slot]
Expired(clear) == now - clear.stamp >= CacheTime
Cached(a) == {k \in DOMAIN cache : cache[k].alarm = a}
Least(S) == CHOOSE k \in S : \A other \in S : k <= other

Tick ==
    /\ now < MaxTime
    /\ now' = now + 1
    /\ UNCHANGED <<reportVars, taker, table, cacheVars, sweeper, uncleared,
                   failures, latest, accidents>>

-----------------------------------------------------------------------------
(* raiseAlarm, clearAlarm and reportEvent: the semaphore is released after *)
(* the report is enqueued, and also when the queue has refused it.         *)
Report(p, message) ==
    /\ p \notin reporting
    /\ reports < MaxReports
    /\ reports' = reports + 1
    /\ queue' = IF Len(queue) < QueueLimit THEN Append(queue, message) ELSE queue
    /\ reporting' = reporting \cup {p}
    /\ UNCHANGED <<now, signals, taker, table, cacheVars, sweeper, uncleared,
                   failures, latest, accidents>>

\* mutated: released only by the report that finds the queue empty
ReleaseForFirst(p) ==
    /\ p \in reporting
    /\ reporting' = reporting \ {p}
    /\ signals' = IF Len(queue) > 1 THEN signals ELSE signals + 1
    /\ UNCHANGED <<now, queue, reports, taker, table, cacheVars, sweeper,
                   uncleared, failures, latest, accidents>>

Release(p) ==
    /\ p \in reporting
    /\ reporting' = reporting \ {p}
    /\ signals' = signals + 1
    /\ UNCHANGED <<now, queue, reports, taker, table, cacheVars, sweeper,
                   uncleared, failures, latest, accidents>>

-----------------------------------------------------------------------------
(* getNextAlarm.                                                           *)
FindEmpty ==
    /\ taker.at = "idle"
    /\ queue = <<>>
    /\ taker' = [taker EXCEPT !.at = "waiting"]
    /\ UNCHANGED <<now, reportVars, table, cacheVars, sweeper, uncleared,
                   failures, latest, accidents>>

Wake ==
    /\ taker.at = "waiting"
    /\ signals > 0
    /\ signals' = signals - 1
    /\ taker' = [taker EXCEPT !.at = "idle"]
    /\ UNCHANGED <<now, queue, reporting, reports, table, cacheVars, sweeper,
                   uncleared, failures, latest, accidents>>

Take ==
    /\ taker.at = "idle"
    /\ queue # <<>>
    /\ LET message == Head(queue)
       IN  /\ taker' = [at |-> IF message.kind = "event" THEN "post" ELSE "query",
                        message |-> message]
           /\ latest' = IF message.kind = "event" THEN latest
                        ELSE [latest EXCEPT ![message.alarm] = message.kind]
    /\ queue' = Tail(queue)
    /\ UNCHANGED <<now, signals, reporting, reports, table, cacheVars, sweeper,
                   uncleared, failures, accidents>>

(* processAlarmEventMessage of the EMS: an alarm is inserted in its table, *)
(* whatever is there; a clear marks every row of its alarm.                *)
EmsInserts(a) == uncleared' = [uncleared EXCEPT ![a] = @ + 1]
EmsClears(a) == uncleared' = [uncleared EXCEPT ![a] = 0]

-----------------------------------------------------------------------------
(* processAlarmContents.                                                   *)
Goes(label) == taker' = [taker EXCEPT !.at = label]
Done == taker' = [at |-> "idle", message |-> NoMessage]
Handling(kind, label) == taker.message.kind = kind /\ taker.at = label
Fails == failures < MaxFailures /\ failures' = failures + 1
Accident(S) == accidents' = accidents \cup S

\* mutated: the alarm is inserted without a look at the table
QueryRaiseBlindly ==
    /\ Handling("raise", "query")
    /\ Goes("insert")
    /\ UNCHANGED <<now, reportVars, table, cacheVars, sweeper, uncleared,
                   failures, latest, accidents>>

(* The statements go to the server over a pooled connection.  A statement  *)
(* on a connection that is known to be bad answers OK, has no effect, and  *)
(* its result has no rows: the actions named Nothing.  It answers ERROR    *)
(* when it is refused, when no connection can be reserved, and when the    *)
(* connection breaks under it, be it before or after the server has        *)
(* executed it: the actions named Fails.                                   *)
QueryRaise ==
    /\ Handling("raise", "query")
    /\ Goes(IF taker.message.alarm \in table THEN "cancel" ELSE "insert")
    /\ UNCHANGED <<now, reportVars, table, cacheVars, sweeper, uncleared,
                   failures, latest, accidents>>

\* mutated: the clear stays in the cache
CancelNothing ==
    /\ Handling("raise", "cancel")
    /\ CacheIsFree
    /\ LET a == taker.message.alarm
       IN  Accident({b \in {a} : a \notin table \/ Cardinality(Cached(a)) > 1})
    /\ Done
    /\ UNCHANGED <<now, reportVars, table, cacheVars, sweeper, uncleared,
                   failures, latest>>

(* An alarm that is outstanding already: its clear is taken out of the     *)
(* cache, one of them if there are several, and the raise is discarded.    *)
Cancel ==
    /\ Handling("raise", "cancel")
    /\ CacheIsFree
    /\ LET a == taker.message.alarm
       IN  /\ IF Cached(a) = {} THEN UNCHANGED cacheVars
              ELSE LET first == Least(Cached(a))
                   IN  /\ cache' = SubSeq(cache, 1, first - 1)
                                   \o SubSeq(cache, first + 1, size)
                       /\ size' = size - 1
           /\ Accident({b \in {a} : a \notin table \/ Cardinality(Cached(a)) > 1})
    /\ Done
    /\ UNCHANGED <<now, reportVars, table, sweeper, uncleared, failures, latest>>

Insert ==
    /\ Handling("raise", "insert")
    /\ table' = table \cup {taker.message.alarm}
    /\ Accident({a \in {taker.message.alarm} : Cached(a) # {}})
    /\ Goes("post")
    /\ UNCHANGED <<now, reportVars, cacheVars, sweeper, uncleared, failures, latest>>

(* The query and the insert share a connection.                            *)
InsertNothing ==
    /\ \/ Handling("raise", "insertNothing") /\ UNCHANGED failures
       \/ Handling("raise", "insert") /\ Fails
    /\ Accident({taker.message.alarm})
    /\ Goes("post")
    /\ UNCHANGED <<now, reportVars, table, cacheVars, sweeper, uncleared, latest>>

PostRaise ==
    /\ Handling("raise", "post")
    /\ EmsInserts(taker.message.alarm)
    /\ Done
    /\ UNCHANGED <<now, reportVars, table, cacheVars, sweeper, failures, latest,
                   accidents>>

QueryClear ==
    /\ Handling("clear", "query")
    /\ IF taker.message.alarm \in table THEN Goes("store") ELSE Done
    /\ UNCHANGED <<now, reportVars, table, cacheVars, sweeper, uncleared,
                   failures, latest, accidents>>

Store ==
    /\ Handling("clear", "store")
    /\ CacheIsFree
    /\ cache' = Append(cache, taker.message)
    /\ size' = size + 1
    /\ Done
    /\ UNCHANGED <<now, reportVars, table, sweeper, uncleared, failures, latest,
                   accidents>>

PostEvent ==
    /\ Handling("event", "post")
    /\ Done
    /\ UNCHANGED <<now, reportVars, table, cacheVars, sweeper, uncleared,
                   failures, latest, accidents>>

(* Of an alarm that is outstanding the raise is inserted, or rather not,   *)
(* and posted again, and the clear is discarded as that of an alarm that   *)
(* is not outstanding.                                                     *)
QueryNothing ==
    /\ taker.at = "query"
    /\ Fails
    /\ Accident({taker.message.alarm})
    /\ IF taker.message.kind = "raise" THEN Goes("insertNothing") ELSE Done
    /\ UNCHANGED <<now, reportVars, table, cacheVars, sweeper, uncleared, latest>>

(* The report is dropped where it is.                                      *)
Drop ==
    /\ Fails
    /\ IF taker.message.kind = "event" THEN UNCHANGED accidents
       ELSE Accident({taker.message.alarm})
    /\ Done
    /\ UNCHANGED <<now, reportVars, cacheVars, sweeper, uncleared, latest>>

QueryFails == taker.at = "query" /\ Drop /\ UNCHANGED table

InsertFails ==
    /\ Handling("raise", "insert")
    /\ Drop
    /\ table' \in {table, table \cup {taker.message.alarm}}

(* The post fails twice, the mailbox of the EMS is not found, or the       *)
(* message is lost behind the post, with a connection or with a statement  *)
(* of the EMS.  So it is with PostClearFails.                              *)
PostFails == taker.at = "post" /\ Drop /\ UNCHANGED table

-----------------------------------------------------------------------------
\* mutated: the sweep begins behind the first element
BeginSweepLate ==
    /\ sweeper.at = "asleep"
    /\ size > 0
    /\ sweeper' = [at |-> "sweep", slot |-> 2]
    /\ UNCHANGED <<now, reportVars, taker, table, cacheVars, uncleared, failures,
                   latest, accidents>>

(* processClearAlarmCache: the end of the sweep is the end of the vector   *)
(* when the sweep begins, though elements are erased on the way.           *)
BeginSweep ==
    /\ sweeper.at = "asleep"
    /\ size > 0
    /\ sweeper' = [at |-> "sweep", slot |-> 1]
    /\ UNCHANGED <<now, reportVars, taker, table, cacheVars, uncleared, failures,
                   latest, accidents>>

Examine ==
    /\ sweeper.at = "sweep"
    /\ sweeper.slot <= Len(cache)
    /\ sweeper' = IF Expired(Swept) THEN [sweeper EXCEPT !.at = "delete"]
                  ELSE [sweeper EXCEPT !.slot = @ + 1]
    /\ UNCHANGED <<now, reportVars, taker, table, cacheVars, uncleared, failures,
                   latest, accidents>>

Delete ==
    /\ sweeper.at = "delete"
    /\ table' = table \ {Swept.alarm}
    /\ sweeper' = [sweeper EXCEPT !.at = "post"]
    /\ UNCHANGED <<now, reportVars, taker, cacheVars, uncleared, failures, latest,
                   accidents>>

DeleteNothing ==
    /\ sweeper.at = "delete"
    /\ Fails
    /\ Accident({Swept.alarm})
    /\ sweeper' = [sweeper EXCEPT !.at = "post"]
    /\ UNCHANGED <<now, reportVars, taker, table, cacheVars, uncleared, latest>>

(* The entry is tried again, with the mutex held, until OK is answered.    *)
DeleteFails ==
    /\ sweeper.at = "delete"
    /\ Fails
    /\ table' \in {table, table \ {Swept.alarm}}
    /\ Accident(table \ table')
    /\ sweeper' = [sweeper EXCEPT !.at = "sweep"]
    /\ UNCHANGED <<now, reportVars, taker, cacheVars, uncleared, latest>>

(* vector::erase moves the elements behind the slot forward and destroys   *)
(* the last one.  The iterator is advanced all the same, to slots that may *)
(* by then be behind the last element: undefined, and what happens is that *)
(* their contents are as they were and another element is destroyed.       *)
Erase(k) ==
    /\ cache' = [j \in DOMAIN cache |->
                    IF k <= j /\ j < size THEN cache[j + 1] ELSE cache[j]]
    /\ size' = size - 1
    /\ sweeper' = [at |-> "sweep", slot |-> k + 1]

Destroyed(k) == IF k > size THEN {cache[size].alarm} ELSE {}

(* A clear that goes through is the end of the accidents of its alarm: its *)
(* row is gone, and it is the last report of the alarm.                    *)
Mended(a) == {b \in {a} : a \notin table /\ latest[a] = "clear"}

PostClear ==
    /\ sweeper.at = "post"
    /\ EmsClears(Swept.alarm)
    /\ accidents' = (accidents \ Mended(Swept.alarm)) \cup Destroyed(sweeper.slot)
    /\ Erase(sweeper.slot)
    /\ UNCHANGED <<now, reportVars, taker, table, failures, latest>>

PostClearFails ==
    /\ sweeper.at = "post"
    /\ Fails
    /\ Accident(Destroyed(sweeper.slot) \cup {Swept.alarm})
    /\ Erase(sweeper.slot)
    /\ UNCHANGED <<now, reportVars, taker, table, uncleared, latest>>

EndSweep ==
    /\ sweeper.at = "sweep"
    /\ sweeper.slot > Len(cache)
    /\ cache' = SubSeq(cache, 1, size)
    /\ sweeper' = [at |-> "asleep", slot |-> 0]
    /\ UNCHANGED <<now, reportVars, taker, table, size, uncleared, failures,
                   latest, accidents>>

-----------------------------------------------------------------------------
(* The process ends, wherever its threads are, and is started again.  The  *)
(* shared memory, which initialize() finds as it was, and the database     *)
(* outlive it.  The report at hand and the clears held back do not.        *)
AtHand == {taker.message} \cup {cache[k] : k \in DOMAIN cache}

Restart ==
    /\ Fails
    /\ Accident({a \in Alarms : \E message \in AtHand :
                   message.kind \in {"raise", "clear"} /\ message.alarm = a})
    /\ Done
    /\ cache' = <<>>
    /\ size' = 0
    /\ sweeper' = [at |-> "asleep", slot |-> 0]
    /\ UNCHANGED <<now, reportVars, table, uncleared, latest>>

-----------------------------------------------------------------------------
Reports == \E p \in Producers :
    \/ \E a \in Alarms :
          \/ Report(p, [kind |-> "raise", alarm |-> a])
          \/ Report(p, [kind |-> "clear", alarm |-> a, stamp |-> now])
    \/ Report(p, [kind |-> "event"])

Releases == \E p \in Producers : Release(p)

ProcessAlarmContents ==
    \/ QueryRaise \/ Cancel \/ Insert \/ PostRaise
    \/ QueryClear \/ Store \/ PostEvent
    \/ QueryNothing \/ InsertNothing
    \/ QueryFails \/ InsertFails \/ PostFails

ProcessAlarms == FindEmpty \/ Wake \/ Take \/ ProcessAlarmContents

ProcessClearAlarmCache ==
    \/ BeginSweep \/ Examine \/ Delete \/ DeleteNothing \/ DeleteFails
    \/ PostClear \/ PostClearFails \/ EndSweep

Next ==
    \/ Tick \/ Reports \/ Releases
    \/ ProcessAlarms \/ ProcessClearAlarmCache \/ Restart

(* The clear cache thread sweeps, sleeps 2 seconds, and sweeps again.  What*)
(* it has to do depends on nobody else: the alarm thread may stop, and     *)
(* nobody need report.                                                     *)
Fairness == WF_vars(ProcessClearAlarmCache)

Spec == Init /\ [][Next]_vars /\ Fairness

-----------------------------------------------------------------------------
TypeOK ==
    /\ now \in 0..MaxTime
    /\ queue \in Seq(Messages)
    /\ signals \in 0..MaxReports
    /\ reporting \subseteq Producers
    /\ reports \in 0..MaxReports
    /\ taker \in [at : {"idle", "waiting", "query", "cancel", "insert",
                        "insertNothing", "post", "store"},
                  message : Messages \cup {NoMessage}]
    /\ table \subseteq Alarms
    /\ cache \in Seq(Clears) /\ size \in 0..Len(cache)
    /\ sweeper \in [at : {"asleep", "sweep", "delete", "post"}, slot : Nat]
    /\ uncleared \in [Alarms -> Nat]
    /\ failures \in 0..MaxFailures
    /\ latest \in [Alarms -> {"none", "raise", "clear"}]
    /\ accidents \subseteq Alarms

(* The alarm thread does not sleep on a report that is queued, unless the  *)
(* reporting process is about to release the semaphore: a release that     *)
(* came for an earlier report is never missing for a later one.            *)
NoLostWakeup ==
    taker.at = "waiting" /\ queue # <<>> /\ signals = 0 => reporting # {}

(* What FaultManager has finished with: no report of the alarm is on its   *)
(* way, and no clear of it is held back.                                   *)
AtRest(a) ==
    /\ taker.message.kind = "event" \/ taker.message = NoMessage
    /\ CacheIsFree
    /\ Cached(a) = {}

(* At rest, the local table says of an alarm what was reported last, and   *)
(* the EMS says what the table says, unless an accident happened: a        *)
(* statement of the database failed or had no effect; a post failed; the   *)
(* alarm was raised while a clear of it was being sent; several clears of  *)
(* it were held back; the sweep destroyed an element it had not sent; or a *)
(* restart lost its report or its clear.  And whatever happened, the next  *)
(* clear of the alarm that goes through makes all three agree again.       *)
LastReportStands ==
    \A a \in Alarms \ accidents : AtRest(a) =>
        /\ a \in table <=> latest[a] = "raise"
        /\ a \in table <=> uncleared[a] > 0

(* The EMS inserts every alarm it is sent without a look at its table: of  *)
(* an alarm no accident has happened to it is never sent a second one that *)
(* is not cleared (ClientAgent relies on it).                              *)
NoSecondAlarm == \A a \in Alarms \ accidents : uncleared[a] <= 1

(* A clear that has been held back long enough does not stay in the cache, *)
(* though the sweep skips elements when it erases some.                    *)
ExpiredClearsLeave ==
    (size > 0 /\ Expired(cache[1])) ~> (size = 0 \/ ~Expired(cache[1]))

-----------------------------------------------------------------------------
(* The inductive invariant of FaultManagerProofs.  The semaphore is        *)
(* released once for a report, and the message fits the step it is in.     *)
ReportsCounted ==
    /\ IsFiniteSet(reporting)
    /\ signals + Cardinality(reporting) <= reports

TakerMatches ==
    /\ taker.at \in {"idle", "waiting"} => taker.message = NoMessage
    /\ taker.at = "query" => taker.message.kind \in {"raise", "clear"}
    /\ taker.at \in {"cancel", "insert", "insertNothing"} => taker.message.kind = "raise"
    /\ taker.at = "store" => taker.message.kind = "clear"
    /\ taker.at = "post" => taker.message.kind \in {"raise", "event"}

(* The sweep has passed at least as many slots as it has erased elements.  *)
SweepMatches ==
    /\ CacheIsFree => size = Len(cache)
    /\ ~CacheIsFree => Len(cache) - size < sweeper.slot
    /\ sweeper.at \in {"delete", "post"} => sweeper.slot \in 1..Len(cache)

Handles(a) == taker.message.kind \in {"raise", "clear"} /\ taker.message.alarm = a
Raises(a, label) == Handling("raise", label) /\ taker.message.alarm = a
Clearing(a) == sweeper.at = "post" /\ Swept.alarm = a

(* The table and the EMS differ only between the two steps of a raise, and *)
(* of a clear that is sent.                                                *)
EmsMatches(a) ==
    /\ Raises(a, "insert") => a \notin table
    /\ IF Raises(a, "post")
       THEN a \in table /\ uncleared[a] = 0 /\ Cached(a) = {}
       ELSE IF Clearing(a)
       THEN a \notin table /\ uncleared[a] <= 1
       ELSE uncleared[a] = IF a \in table THEN 1 ELSE 0

(* The report at hand is the last one of its alarm, whatever happened.     *)
AtHandIsLatest(a) == Handles(a) => latest[a] = taker.message.kind

(* Otherwise the table agrees with the last report of an alarm, or its     *)
(* clear is an element of the cache.                                       *)
LatestMatches(a) == ~Handles(a) =>
    /\ latest[a] = "raise" => a \in table /\ Cached(a) = {}
    /\ latest[a] = "clear" => a \notin table \/ \E k \in 1..size : cache[k].alarm = a
    /\ latest[a] = "none" => a \notin table

IInv ==
    /\ TypeOK
    /\ ReportsCounted
    /\ TakerMatches
    /\ SweepMatches
    /\ \A a \in Alarms : AtHandIsLatest(a)
    /\ \A a \in Alarms \ accidents : EmsMatches(a) /\ LatestMatches(a)
=============================================================================
