------------------------- MODULE FaultManagerProofs -------------------------
(* What holds of FaultManager for any number of processes, alarms, reports *)
(* and failures.                                                           *)
EXTENDS FaultManager, FiniteSetTheorems, SequenceTheorems, WellFoundedInduction, TLAPS

(* NoLostWakeup is inductive once the semaphore is known to count.         *)
TakerIsRecord == taker = [at |-> taker.at, message |-> taker.message]

WakeupInv ==
    /\ signals \in Nat
    /\ TakerIsRecord
    /\ NoLostWakeup

(* The count of the semaphore, and the reports that have yet to release it,*)
(* cover the queue while the alarm thread waits: the steps of raiseAlarm,  *)
(* clearAlarm, reportEvent, getNextAlarm and the clear cache keep this, and*)
(* so does a restart, which looks at the queue before it waits.            *)
LEMMA WakeupKept == WakeupInv /\ [Next]_vars => WakeupInv'
<1> SUFFICES ASSUME WakeupInv, [Next]_vars PROVE WakeupInv'
  OBVIOUS
<1> USE DEF WakeupInv, TakerIsRecord, NoLostWakeup
<1>1. CASE UNCHANGED vars
  BY <1>1 DEF vars, reportVars
<1>2. CASE Tick
  BY <1>2 DEF Tick, reportVars
<1>3. CASE Reports
  <2>1. ASSUME NEW p \in Producers, NEW message, Report(p, message)
        PROVE  WakeupInv'
    BY <2>1 DEF Report
  <2> QED BY <1>3, <2>1 DEF Reports
<1>4. CASE Releases
  <2>1. ASSUME NEW p \in Producers, Release(p) PROVE WakeupInv'
    BY <2>1 DEF Release
  <2> QED BY <1>4, <2>1 DEF Releases
<1>5. CASE ProcessAlarms
  <2>1. CASE FindEmpty
    BY <2>1 DEF FindEmpty, reportVars
  <2>2. CASE Wake
    BY <2>2 DEF Wake
  <2>3. CASE Take
    <3>1. taker'.at # "waiting" /\ TakerIsRecord'
      BY <2>3 DEF Take
    <3>2. signals' \in Nat
      BY <2>3 DEF Take
    <3> QED BY <3>1, <3>2
  <2>4. CASE ProcessAlarmContents
    <3>1. taker'.at # "waiting" /\ TakerIsRecord'
      BY <2>4 DEF ProcessAlarmContents, QueryRaise, Cancel, Insert, PostRaise,
                  QueryClear, Store, PostEvent, QueryNothing, InsertNothing,
                  QueryFails, InsertFails, PostFails, Drop, Goes, Done
    <3>2. signals' = signals
      BY <2>4 DEF ProcessAlarmContents, QueryRaise, Cancel, Insert, PostRaise,
                  QueryClear, Store, PostEvent, QueryNothing, InsertNothing,
                  QueryFails, InsertFails, PostFails, Drop, reportVars
    <3> QED BY <3>1, <3>2
  <2> QED BY <1>5, <2>1, <2>2, <2>3, <2>4 DEF ProcessAlarms
<1>6. CASE ProcessClearAlarmCache
  BY <1>6 DEF ProcessClearAlarmCache, BeginSweep, Examine, Delete, DeleteNothing,
              DeleteFails, PostClear, PostClearFails, EndSweep, reportVars
<1>7. CASE Restart
  BY <1>7 DEF Restart, Done, reportVars
<1> QED BY <1>1, <1>2, <1>3, <1>4, <1>5, <1>6, <1>7 DEF Next

(* The alarm thread never sleeps on a report whose process has released    *)
(* the semaphore, however many processes report and whatever fails.        *)
THEOREM ReportsWakeTheAlarmThread == Spec => []NoLostWakeup
<1>1. Init => WakeupInv
  BY DEF Init, WakeupInv, TakerIsRecord, NoLostWakeup
<1>2. WakeupInv => NoLostWakeup
  BY DEF WakeupInv
<1> QED BY <1>1, <1>2, WakeupKept, PTL DEF Spec
-----------------------------------------------------------------------------
(* What the sequences of the cache are after a step.                        *)
LEMMA AppendIs ==
    ASSUME NEW S, NEW s \in Seq(S), NEW e \in S
    PROVE  /\ Append(s, e) \in Seq(S) /\ Len(Append(s, e)) = Len(s) + 1
           /\ \A k \in 1..Len(s) : Append(s, e)[k] = s[k]
           /\ Append(s, e)[Len(s) + 1] = e
  OBVIOUS

LEMMA PrefixIs ==
    ASSUME NEW S, NEW s \in Seq(S), NEW n \in 0..Len(s)
    PROVE  /\ SubSeq(s, 1, n) \in Seq(S) /\ Len(SubSeq(s, 1, n)) = n
           /\ \A k \in 1..n : SubSeq(s, 1, n)[k] = s[k]
<1>1. \A i \in 1..n : s[i] \in S
  OBVIOUS
<1> QED BY <1>1, SubSeqProperties

LEMMA WithoutIs ==
    ASSUME NEW S, NEW s \in Seq(S), NEW k \in 1..Len(s)
    PROVE  /\ SubSeq(s, 1, k - 1) \o SubSeq(s, k + 1, Len(s)) \in Seq(S)
           /\ Len(SubSeq(s, 1, k - 1) \o SubSeq(s, k + 1, Len(s))) = Len(s) - 1
           /\ \A j \in 1..Len(s) - 1 :
                 (SubSeq(s, 1, k - 1) \o SubSeq(s, k + 1, Len(s)))[j]
                     = IF j < k THEN s[j] ELSE s[j + 1]
<1> DEFINE front == SubSeq(s, 1, k - 1)
           back == SubSeq(s, k + 1, Len(s))
<1>1. /\ front \in Seq(S) /\ Len(front) = k - 1
      /\ \A i \in 1..k - 1 : front[i] = s[i]
  <2>1. k - 1 \in 0..Len(s)
    OBVIOUS
  <2> QED BY <2>1, PrefixIs
<1>2. /\ back \in Seq(S) /\ Len(back) = Len(s) - k
      /\ \A i \in 1..Len(s) - k : back[i] = s[k + i]
  <2>1. \A i \in k + 1..Len(s) : s[i] \in S
    OBVIOUS
  <2>2. /\ back \in Seq(S)
        /\ Len(back) = IF k + 1 <= Len(s) THEN Len(s) - (k + 1) + 1 ELSE 0
        /\ \A i \in 1..Len(s) - (k + 1) + 1 : back[i] = s[k + 1 + i - 1]
    BY <2>1, SubSeqProperties
  <2> QED BY <2>2
<1> HIDE DEF front, back
<1>3. /\ front \o back \in Seq(S) /\ Len(front \o back) = Len(front) + Len(back)
      /\ \A i \in 1..Len(front) + Len(back) : (front \o back)[i] =
            IF i <= Len(front) THEN front[i] ELSE back[i - Len(front)]
  BY <1>1, <1>2, ConcatProperties
<1>4. \A j \in 1..Len(s) - 1 : (front \o back)[j] = IF j < k THEN s[j] ELSE s[j + 1]
  BY <1>1, <1>2, <1>3
<1>5. Len(front \o back) = Len(s) - 1
  BY <1>1, <1>2, <1>3
<1> QED BY <1>3, <1>4, <1>5 DEF front, back

(* A set of slots that is not empty has a first one.                        *)
LEMMA LeastIsIn ==
    ASSUME NEW S \in SUBSET Nat, S # {}
    PROVE  Least(S) \in S
<1>1. PICK k \in S : \A other \in S : ~ (<<other, k>> \in OpToRel(<, Nat))
  BY WFMin, NatLessThanWellFounded
<1>2. ASSUME NEW other \in S PROVE k <= other
  <2>1. other \in Nat /\ k \in Nat
    OBVIOUS
  <2>2. other < k => <<other, k>> \in OpToRel(<, Nat)
    BY <2>1 DEF OpToRel
  <2>3. ~ (other < k)
    BY <1>1, <2>2
  <2> QED BY <2>1, <2>3
<1> QED BY <1>2 DEF Least

(* Two slots in a set of slots are more than one.                           *)
LEMMA TwoAreMore ==
    ASSUME NEW S, IsFiniteSet(S), Cardinality(S) <= 1, NEW j \in S, NEW k \in S
    PROVE  j = k
<1>1. Cardinality(S) \in Nat /\ Cardinality(S) # 0
  BY FS_CardinalityType, FS_EmptySet
<1>2. Cardinality(S) = 1
  BY <1>1
<1>3. \E x : S = {x}
  BY <1>2, FS_Singleton
<1> QED BY <1>3

-----------------------------------------------------------------------------
(* The types and the shape of what the two threads are doing.               *)
Basics == TypeOK /\ ReportsCounted /\ TakerMatches /\ SweepMatches

TakerType == [at : {"idle", "waiting", "query", "cancel", "insert",
                    "insertNothing", "post", "store"},
              message : Messages \cup {NoMessage}]
SweeperType == [at : {"asleep", "sweep", "delete", "post"}, slot : Nat]

(* The parts of Basics that steps share.                                    *)
ReportPart ==
    /\ queue \in Seq(Messages) /\ signals \in 0..MaxReports
    /\ reporting \subseteq Producers /\ reports \in 0..MaxReports
    /\ ReportsCounted
TakerPart == taker \in TakerType /\ TakerMatches
CachePart ==
    /\ cache \in Seq(Clears) /\ size \in 0..Len(cache)
    /\ sweeper \in SweeperType /\ SweepMatches
TablePart ==
    /\ now \in 0..MaxTime
    /\ table \subseteq Alarms
    /\ uncleared \in [Alarms -> Nat]
    /\ failures \in 0..MaxFailures
    /\ latest \in [Alarms -> {"none", "raise", "clear"}]
    /\ accidents \subseteq Alarms

LEMMA BasicsSplit ==
    /\ Basics <=> ReportPart /\ TakerPart /\ CachePart /\ TablePart
    /\ Basics' <=> ReportPart' /\ TakerPart' /\ CachePart' /\ TablePart'
  BY DEF Basics, TypeOK, ReportPart, TakerPart, CachePart, TablePart,
         TakerType, SweeperType

(* A part whose variables are as they were is as it was.                    *)
LEMMA PartsKept ==
    /\ ReportPart /\ UNCHANGED <<queue, signals, reporting, reports>> => ReportPart'
    /\ TakerPart /\ UNCHANGED taker => TakerPart'
    /\ CachePart /\ UNCHANGED <<cache, size, sweeper>> => CachePart'
    /\ TablePart /\ UNCHANGED <<now, table, uncleared, failures, latest, accidents>>
          => TablePart'
  BY DEF ReportPart, ReportsCounted, TakerPart, TakerMatches, Handling,
         CachePart, SweepMatches, CacheIsFree, TablePart

(* What a message carries; the clears are those that may be held back.     *)
LEMMA MessageIs ==
    ASSUME NEW message \in Messages \cup {NoMessage}
    PROVE  /\ message.kind \in {"raise", "clear", "event", "none"}
           /\ message.kind \in {"raise", "clear"} => message.alarm \in Alarms
           /\ message.kind = "clear" => message \in Clears
           /\ message.kind = "none" <=> message \notin Messages
<1>1. ASSUME message \in [kind : {"raise"}, alarm : Alarms]
      PROVE  message.kind = "raise" /\ message.alarm \in Alarms
  BY <1>1
<1>2. ASSUME message \in Clears
      PROVE  message.kind = "clear" /\ message.alarm \in Alarms
  BY <1>2 DEF Clears
<1>3. ASSUME message \in [kind : {"event"}] PROVE message.kind = "event"
  BY <1>3
<1>4. ASSUME message = NoMessage PROVE message.kind = "none"
  BY <1>4 DEF NoMessage
<1>5. message \in Messages <=> \/ message \in [kind : {"raise"}, alarm : Alarms]
                              \/ message \in Clears
                              \/ message \in [kind : {"event"}]
  BY DEF Messages
<1> QED BY <1>1, <1>2, <1>3, <1>4, <1>5

(* The alarm that is handled is one, and so is the one that is swept.       *)
LEMMA AlarmsAreAlarms ==
    ASSUME Basics
    PROVE  /\ taker.message.kind \in {"raise", "clear"} =>
                 taker.message \in Messages /\ taker.message.alarm \in Alarms
           /\ taker.message.kind = "clear" => taker.message \in Clears
           /\ \A k \in 1..Len(cache) : cache[k] \in Clears /\ cache[k].alarm \in Alarms
           /\ sweeper.at \in {"delete", "post"} => Swept.alarm \in Alarms
<1>1. /\ taker \in TakerType /\ cache \in Seq(Clears) /\ sweeper \in SweeperType
      /\ SweepMatches
  BY BasicsSplit DEF TakerPart, CachePart
<1>2. ASSUME NEW k \in 1..Len(cache)
      PROVE  cache[k] \in Clears /\ cache[k].alarm \in Alarms
  <2>1. cache[k] \in Clears
    BY <1>1, ElementOfSeq
  <2> QED BY <2>1 DEF Clears
<1>3. taker.message \in Messages \cup {NoMessage}
  BY <1>1 DEF TakerType
<1>4. /\ taker.message.kind \in {"raise", "clear"} =>
             taker.message \in Messages /\ taker.message.alarm \in Alarms
      /\ taker.message.kind = "clear" => taker.message \in Clears
  BY <1>3, MessageIs
<1> QED BY <1>1, <1>2, <1>4 DEF SweepMatches, Swept

(* Reports and releases: a release follows its report.                      *)
LEMMA ReportBasics ==
    ASSUME Basics, Tick \/ Reports \/ Releases
    PROVE  Basics'
<1> USE BasicsSplit
<1>1. CASE Tick
  <2>1. TablePart'
    BY <1>1, BoundsAssumption DEF Tick, TablePart
  <2> QED BY <1>1, <2>1, PartsKept DEF Tick, reportVars, cacheVars
<1>2. CASE Reports
  <2>1. PICK p \in Producers, message \in Messages : Report(p, message)
    <3>1. PICK p \in Producers :
              \/ \E a \in Alarms : \/ Report(p, [kind |-> "raise", alarm |-> a])
                                  \/ Report(p, [kind |-> "clear", alarm |-> a, stamp |-> now])
              \/ Report(p, [kind |-> "event"])
      BY <1>2 DEF Reports
    <3>2. \A a \in Alarms : /\ [kind |-> "raise", alarm |-> a] \in Messages
                           /\ [kind |-> "clear", alarm |-> a, stamp |-> now] \in Messages
      <4>1. now \in 0..MaxTime
        BY DEF TablePart
      <4>2. \A a \in Alarms : [kind |-> "clear", alarm |-> a, stamp |-> now] \in Clears
        BY <4>1 DEF Clears
      <4>3. \A a \in Alarms :
               [kind |-> "raise", alarm |-> a] \in [kind : {"raise"}, alarm : Alarms]
        OBVIOUS
      <4> QED BY <4>2, <4>3 DEF Messages
    <3>3. [kind |-> "event"] \in Messages
      BY DEF Messages
    <3> QED BY <3>1, <3>2, <3>3
  <2>2. Cardinality(reporting \cup {p}) = Cardinality(reporting) + 1
        /\ IsFiniteSet(reporting \cup {p})
    BY <2>1, FS_AddElement DEF Report, ReportPart, ReportsCounted
  <2>3. queue' \in Seq(Messages)
    BY <2>1, AppendIs DEF Report, ReportPart
  <2>4. Cardinality(reporting) \in Nat
    BY FS_CardinalityType DEF ReportPart, ReportsCounted
  <2>5. ReportPart'
    BY <2>1, <2>2, <2>3, <2>4, BoundsAssumption DEF Report, ReportPart, ReportsCounted
  <2> QED BY <2>1, <2>5, PartsKept DEF Report, cacheVars
<1>3. CASE Releases
  <2>1. PICK p \in Producers : Release(p)
    BY <1>3 DEF Releases
  <2>2. Cardinality(reporting \ {p}) = Cardinality(reporting) - 1
        /\ IsFiniteSet(reporting \ {p})
    BY <2>1, FS_RemoveElement DEF Release, ReportPart, ReportsCounted
  <2>3. Cardinality(reporting) \in Nat /\ Cardinality(reporting \ {p}) \in Nat
    BY <2>2, FS_CardinalityType DEF ReportPart, ReportsCounted
  <2>4. ReportPart'
    BY <2>1, <2>2, <2>3, BoundsAssumption DEF Release, ReportPart, ReportsCounted
  <2> QED BY <2>1, <2>4, PartsKept DEF Release, cacheVars
<1> QED BY <1>1, <1>2, <1>3

(* The alarm thread gets the next report.                                   *)
LEMMA TakeBasics ==
    ASSUME Basics, FindEmpty \/ Wake \/ Take
    PROVE  Basics'
<1> USE BasicsSplit
<1>1. CASE FindEmpty
  <2>1. TakerPart'
    BY <1>1 DEF FindEmpty, TakerPart, TakerType, TakerMatches
  <2> QED BY <1>1, <2>1, PartsKept DEF FindEmpty, reportVars, cacheVars
<1>2. CASE Wake
  <2>1. TakerPart'
    BY <1>2 DEF Wake, TakerPart, TakerType, TakerMatches
  <2>2. Cardinality(reporting) \in Nat
    BY FS_CardinalityType DEF ReportPart, ReportsCounted
  <2>3. ReportPart'
    BY <1>2, <2>2, BoundsAssumption DEF Wake, ReportPart, ReportsCounted
  <2> QED BY <1>2, <2>1, <2>3, PartsKept DEF Wake, cacheVars
<1>3. CASE Take
  <2>1. Head(queue) \in Messages /\ Tail(queue) \in Seq(Messages)
    BY <1>3, HeadTailProperties DEF Take, ReportPart
  <2>2. ReportPart'
    BY <1>3, <2>1 DEF Take, ReportPart, ReportsCounted
  <2>3. TakerPart'
    <3>1. taker' = [at |-> IF Head(queue).kind = "event" THEN "post" ELSE "query",
                    message |-> Head(queue)]
      BY <1>3 DEF Take
    <3>2. Head(queue).kind \in {"raise", "clear", "event"}
      BY <2>1, MessageIs
    <3> QED BY <2>1, <3>1, <3>2 DEF TakerPart, TakerType, TakerMatches
  <2>4. latest' \in [Alarms -> {"none", "raise", "clear"}]
    <3>1. Head(queue).kind # "event" =>
              Head(queue).kind \in {"raise", "clear"} /\ Head(queue).alarm \in Alarms
      BY <2>1, MessageIs
    <3> QED BY <1>3, <3>1 DEF Take, TablePart
  <2>5. TablePart'
    BY <1>3, <2>4 DEF Take, TablePart
  <2> QED BY <1>3, <2>2, <2>3, <2>5, PartsKept DEF Take, cacheVars
<1> QED BY <1>1, <1>2, <1>3

(* The alarm thread deals with a report.                                    *)
LEMMA ProcessBasics ==
    ASSUME Basics, ProcessAlarmContents
    PROVE  Basics'
<1> USE BasicsSplit
<1> DEFINE a == taker.message.alarm
<1>1. taker.message.kind \in {"raise", "clear"} => a \in Alarms
  BY AlarmsAreAlarms
<1>2. Done => TakerPart'
  BY DEF Done, TakerPart, TakerType, TakerMatches
<1>3. CASE QueryRaise
  <2>1. TakerPart'
    BY <1>3 DEF QueryRaise, Handling, Goes, TakerPart, TakerType, TakerMatches
  <2> QED BY <1>3, <2>1, PartsKept DEF QueryRaise, reportVars, cacheVars
<1>4. CASE Cancel
  <2>1. a \in Alarms
    BY <1>1, <1>4 DEF Cancel, Handling
  <2>2. TablePart'
    BY <1>4, <2>1 DEF Cancel, Accident, TablePart
  <2>3. cache' \in Seq(Clears) /\ size' = Len(cache')
    <3>1. size = Len(cache) /\ cache \in Seq(Clears)
      BY <1>4 DEF Cancel, CachePart, SweepMatches
    <3>2. CASE Cached(a) = {}
      BY <1>4, <3>1, <3>2 DEF Cancel, cacheVars
    <3>3. CASE Cached(a) # {}
      <4> DEFINE first == Least(Cached(a))
      <4>1. Cached(a) \subseteq 1..Len(cache)
        BY <3>1 DEF Cached
      <4>2. first \in 1..Len(cache)
        BY <3>3, <4>1, LeastIsIn
      <4>3. cache' = SubSeq(cache, 1, first - 1) \o SubSeq(cache, first + 1, Len(cache))
            /\ size' = size - 1
        BY <1>4, <3>1, <3>3 DEF Cancel
      <4> HIDE DEF first
      <4> QED BY <3>1, <4>2, <4>3, WithoutIs
    <3> QED BY <3>2, <3>3
  <2>4. CachePart'
    BY <1>4, <2>3 DEF Cancel, CachePart, SweepMatches, CacheIsFree
  <2> QED BY <1>2, <1>4, <2>2, <2>4, PartsKept DEF Cancel, reportVars
<1>5. CASE Insert
  <2>1. a \in Alarms
    BY <1>1, <1>5 DEF Insert, Handling
  <2>2. TablePart'
    BY <1>5, <2>1 DEF Insert, Accident, TablePart
  <2>3. TakerPart'
    BY <1>5 DEF Insert, Handling, Goes, TakerPart, TakerType, TakerMatches
  <2> QED BY <1>5, <2>2, <2>3, PartsKept DEF Insert, reportVars, cacheVars
<1>6. CASE PostRaise
  <2>1. a \in Alarms
    BY <1>1, <1>6 DEF PostRaise, Handling
  <2>2. uncleared' \in [Alarms -> Nat]
    BY <1>6, <2>1 DEF PostRaise, EmsInserts, TablePart
  <2>3. TablePart'
    BY <1>6, <2>2 DEF PostRaise, TablePart
  <2> QED BY <1>2, <1>6, <2>3, PartsKept DEF PostRaise, reportVars, cacheVars
<1>7. CASE QueryClear
  <2>1. TakerPart'
    BY <1>2, <1>7 DEF QueryClear, Handling, Goes, TakerPart, TakerType, TakerMatches
  <2> QED BY <1>7, <2>1, PartsKept DEF QueryClear, reportVars, cacheVars
<1>8. CASE Store
  <2>1. taker.message \in Clears
    BY <1>8, AlarmsAreAlarms DEF Store, Handling, Clears
  <2>2. cache \in Seq(Clears) /\ size = Len(cache)
    BY <1>8 DEF Store, CachePart, SweepMatches
  <2>3. cache' \in Seq(Clears) /\ size' = Len(cache')
    BY <1>8, <2>1, <2>2, AppendIs DEF Store
  <2>4. CachePart'
    BY <1>8, <2>3 DEF Store, CachePart, SweepMatches, CacheIsFree
  <2> QED BY <1>2, <1>8, <2>4, PartsKept DEF Store, reportVars
<1>9. CASE PostEvent
  BY <1>2, <1>9, PartsKept DEF PostEvent, reportVars, cacheVars
<1>10. CASE QueryNothing \/ InsertNothing
  <2>1. a \in Alarms
    BY <1>1, <1>10 DEF QueryNothing, InsertNothing, Handling, TakerPart, TakerMatches
  <2>2. TablePart'
    BY <1>10, <2>1, BoundsAssumption
       DEF QueryNothing, InsertNothing, Fails, Accident, TablePart
  <2>3. TakerPart'
    BY <1>2, <1>10 DEF QueryNothing, InsertNothing, Handling, Goes, TakerPart,
                       TakerType, TakerMatches
  <2> QED BY <1>10, <2>2, <2>3, PartsKept
             DEF QueryNothing, InsertNothing, reportVars, cacheVars
<1>11. CASE QueryFails \/ InsertFails \/ PostFails
  <2>1. taker.message.kind = "event" \/ a \in Alarms
    BY <1>1, <1>11
       DEF QueryFails, InsertFails, PostFails, Handling, TakerPart, TakerMatches
  <2>2. table' \subseteq Alarms
    BY <1>1, <1>11 DEF QueryFails, InsertFails, PostFails, Handling, TablePart
  <2>3. Drop
    BY <1>11 DEF QueryFails, InsertFails, PostFails
  <2>4. TablePart'
    BY <2>1, <2>2, <2>3, BoundsAssumption DEF Drop, Fails, Accident, TablePart
  <2> QED BY <1>2, <2>3, <2>4, PartsKept DEF Drop, reportVars, cacheVars
<1> QED BY <1>3, <1>4, <1>5, <1>6, <1>7, <1>8, <1>9, <1>10, <1>11
           DEF ProcessAlarmContents

(* What an erase leaves of the cache.                                       *)
LEMMA EraseIs ==
    ASSUME CachePart, sweeper.at = "post", Erase(sweeper.slot)
    PROVE  /\ sweeper.slot \in 1..Len(cache) /\ size \in 1..Len(cache)
           /\ cache' \in Seq(Clears) /\ Len(cache') = Len(cache) /\ size' = size - 1
           /\ \A j \in 1..Len(cache) : cache'[j] =
                 IF sweeper.slot <= j /\ j < size THEN cache[j + 1] ELSE cache[j]
           /\ sweeper' = [at |-> "sweep", slot |-> sweeper.slot + 1]
           /\ CachePart'
<1>1. sweeper.slot \in 1..Len(cache) /\ size \in 1..Len(cache)
  BY DEF CachePart, SweepMatches, CacheIsFree, SweeperType
<1>2. /\ size' = size - 1
      /\ sweeper' = [at |-> "sweep", slot |-> sweeper.slot + 1]
      /\ cache' = [j \in 1..Len(cache) |->
                      IF sweeper.slot <= j /\ j < size THEN cache[j + 1] ELSE cache[j]]
      /\ cache \in Seq(Clears)
  BY DEF Erase, CachePart
<1>3. \A j \in 1..Len(cache) :
          (IF sweeper.slot <= j /\ j < size THEN cache[j + 1] ELSE cache[j]) \in Clears
  BY <1>1, <1>2
<1>4. cache' \in Seq(Clears) /\ Len(cache') = Len(cache)
  BY <1>2, <1>3
<1>5. CachePart'
  BY <1>1, <1>2, <1>4 DEF CachePart, SweepMatches, CacheIsFree, SweeperType
<1> QED BY <1>1, <1>2, <1>4, <1>5

(* The clear cache thread.                                                  *)
LEMMA SweepBasics ==
    ASSUME Basics, ProcessClearAlarmCache
    PROVE  Basics'
<1> USE BasicsSplit
<1>1. CASE BeginSweep
  <2>1. CachePart'
    BY <1>1 DEF BeginSweep, CachePart, SweepMatches, CacheIsFree, SweeperType, cacheVars
  <2> QED BY <1>1, <2>1, PartsKept DEF BeginSweep, reportVars
<1>2. CASE Examine
  <2>1. CachePart'
    BY <1>2 DEF Examine, CachePart, SweepMatches, CacheIsFree, SweeperType, cacheVars
  <2> QED BY <1>2, <2>1, PartsKept DEF Examine, reportVars
<1>3. CASE Delete
  <2>1. CachePart'
    BY <1>3 DEF Delete, CachePart, SweepMatches, CacheIsFree, SweeperType, cacheVars
  <2>2. TablePart'
    BY <1>3 DEF Delete, TablePart
  <2> QED BY <1>3, <2>1, <2>2, PartsKept DEF Delete, reportVars
<1>4. CASE DeleteFails \/ DeleteNothing
  <2>1. CachePart'
    BY <1>4 DEF DeleteFails, DeleteNothing, CachePart, SweepMatches, CacheIsFree,
                SweeperType, cacheVars
  <2>2. Swept.alarm \in Alarms
    BY <1>4, AlarmsAreAlarms DEF DeleteFails, DeleteNothing
  <2>3. TablePart'
    BY <1>4, <2>2, BoundsAssumption
       DEF DeleteFails, DeleteNothing, Fails, Accident, TablePart
  <2> QED BY <1>4, <2>1, <2>3, PartsKept DEF DeleteFails, DeleteNothing, reportVars
<1>5. CASE PostClear \/ PostClearFails
  <2>1. CachePart'
    BY <1>5, EraseIs DEF PostClear, PostClearFails
  <2>2. Destroyed(sweeper.slot) \subseteq Alarms /\ Swept.alarm \in Alarms
    BY <1>5, EraseIs, AlarmsAreAlarms DEF PostClear, PostClearFails, Destroyed
  <2>3. TablePart'
    BY <1>5, <2>2, BoundsAssumption
       DEF PostClear, PostClearFails, EmsClears, Accident, Fails, TablePart
  <2> QED BY <1>5, <2>1, <2>3, PartsKept DEF PostClear, PostClearFails, reportVars
<1>6. CASE EndSweep
  <2>1. cache' \in Seq(Clears) /\ Len(cache') = size
    BY <1>6, PrefixIs DEF EndSweep, CachePart
  <2>2. CachePart'
    BY <1>6, <2>1 DEF EndSweep, CachePart, SweepMatches, CacheIsFree, SweeperType
  <2> QED BY <1>6, <2>2, PartsKept DEF EndSweep, reportVars
<1> QED BY <1>1, <1>2, <1>3, <1>4, <1>5, <1>6 DEF ProcessClearAlarmCache

LEMMA RestartBasics == ASSUME Basics, Restart PROVE Basics'
<1> USE BasicsSplit
<1>1. TakerPart'
  BY DEF Restart, Done, TakerPart, TakerType, TakerMatches
<1>2. CachePart'
  BY DEF Restart, CachePart, SweepMatches, CacheIsFree, SweeperType
<1>3. TablePart'
  BY BoundsAssumption DEF Restart, Fails, Accident, TablePart
<1> QED BY <1>1, <1>2, <1>3, PartsKept DEF Restart, reportVars

LEMMA BasicsKept == ASSUME Basics, [Next]_vars PROVE Basics'
<1>1. CASE UNCHANGED vars
  BY <1>1, BasicsSplit, PartsKept DEF vars
<1>2. CASE Next
  BY <1>2, ReportBasics, TakeBasics, ProcessBasics, SweepBasics, RestartBasics
     DEF Next, ProcessAlarms
<1> QED BY <1>1, <1>2

-----------------------------------------------------------------------------
(* What is to be kept of one alarm.                                         *)
LatestIs(a) == AtHandIsLatest(a) /\ LatestMatches(a)
AlarmInv(a) == EmsMatches(a) /\ LatestIs(a)

(* That no clear of an alarm is cached, slot by slot.                       *)
LEMMA CachedIs ==
    ASSUME NEW a
    PROVE  /\ CachePart =>
                 (Cached(a) = {} <=> \A k \in 1..Len(cache) : cache[k].alarm # a)
           /\ CachePart' =>
                 (Cached(a)' = {} <=> \A k \in 1..Len(cache') : cache'[k].alarm # a)
           /\ CachePart /\ Clearing(a) => Cached(a) # {}
  BY DEF CachePart, Cached, Clearing, SweepMatches, Swept

(* A step that touches neither what is known of the alarm nor where the two *)
(* threads stand with it.                                                   *)
LEMMA AlarmUntouched ==
    ASSUME NEW a, AlarmInv(a), UNCHANGED <<cache, size, table, uncleared, latest>>,
           Clearing(a)' <=> Clearing(a),
           \/ UNCHANGED taker
           \/ ~Handles(a) /\ ~Handles(a)'
    PROVE  AlarmInv(a)'
<1>1. Cached(a)' = Cached(a)
  BY DEF Cached
<1>2. CASE UNCHANGED taker
  BY <1>1, <1>2
     DEF AlarmInv, EmsMatches, LatestIs, LatestMatches, AtHandIsLatest, Handles,
         Raises, Handling
<1>3. CASE ~Handles(a) /\ ~Handles(a)'
  BY <1>1, <1>3
     DEF AlarmInv, EmsMatches, LatestIs, LatestMatches, AtHandIsLatest, Handles,
         Raises, Handling
<1> QED BY <1>2, <1>3

(* The steps that leave every alarm as it was.                              *)
LEMMA QuietSteps ==
    ASSUME Basics, NEW a, AlarmInv(a),
           \/ Tick \/ Reports \/ Releases \/ FindEmpty \/ Wake \/ PostEvent
           \/ BeginSweep \/ Examine \/ UNCHANGED vars
    PROVE  AlarmInv(a)'
<1>1. CASE Tick \/ Reports \/ Releases \/ UNCHANGED vars
  <2>1. UNCHANGED <<taker, cache, size, sweeper, table, uncleared, latest>>
    BY <1>1 DEF Tick, Reports, Report, Releases, Release, vars, cacheVars
  <2> QED BY <2>1, AlarmUntouched DEF Clearing, Swept
<1>2. CASE FindEmpty \/ Wake \/ PostEvent
  <2>1. UNCHANGED <<cache, size, sweeper, table, uncleared, latest>>
    BY <1>2 DEF FindEmpty, Wake, PostEvent, cacheVars
  <2>2. ~Handles(a) /\ ~Handles(a)'
    BY <1>2, BasicsSplit DEF FindEmpty, Wake, PostEvent, Handling, Done, Handles,
                             TakerPart, TakerType, TakerMatches, NoMessage
  <2> QED BY <2>1, <2>2, AlarmUntouched DEF Clearing, Swept
<1>3. CASE BeginSweep \/ Examine
  <2>1. UNCHANGED <<taker, cache, size, table, uncleared, latest>>
    BY <1>3 DEF BeginSweep, Examine, cacheVars
  <2>2. sweeper.at # "post" /\ sweeper'.at # "post"
    BY <1>3, BasicsSplit DEF BeginSweep, Examine, CachePart, SweeperType
  <2> QED BY <2>1, <2>2, AlarmUntouched DEF Clearing
<1> QED BY <1>1, <1>2, <1>3

(* The report that is taken is the last one of its alarm.                   *)
LEMMA TakeAlarm ==
    ASSUME Basics, NEW a \in Alarms, AlarmInv(a), Take
    PROVE  AlarmInv(a)'
<1>1. ~Handles(a) /\ ~Raises(a, "post") /\ ~Raises(a, "insert")
  BY BasicsSplit DEF Take, Handles, Raises, Handling, TakerPart, TakerMatches, NoMessage
<1>2. /\ UNCHANGED <<cache, size, sweeper, table, uncleared>>
      /\ taker' = [at |-> IF Head(queue).kind = "event" THEN "post" ELSE "query",
                   message |-> Head(queue)]
      /\ latest' = IF Head(queue).kind = "event" THEN latest
                   ELSE [latest EXCEPT ![Head(queue).alarm] = Head(queue).kind]
  BY DEF Take, cacheVars
<1>3. ~Raises(a, "post")' /\ ~Raises(a, "insert")'
  BY <1>2 DEF Raises, Handling
<1>4. Cached(a)' = Cached(a) /\ (Clearing(a)' <=> Clearing(a))
  BY <1>2 DEF Cached, Clearing, Swept
<1>5. EmsMatches(a)'
  BY <1>1, <1>2, <1>3, <1>4 DEF AlarmInv, EmsMatches
<1>6. latest \in [Alarms -> {"none", "raise", "clear"}]
  BY BasicsSplit DEF TablePart
<1>7. Head(queue) \in Messages
  BY BasicsSplit, HeadTailProperties DEF Take, ReportPart
<1>8. CASE Handles(a)'
  <2>1. latest'[a] = taker'.message.kind
    BY <1>2, <1>6, <1>8 DEF Handles
  <2> QED BY <1>5, <1>8, <2>1 DEF AlarmInv, LatestIs, LatestMatches, AtHandIsLatest
<1>9. CASE ~Handles(a)'
  <2>1. Head(queue).kind # "event" => Head(queue).alarm # a
    <3>1. Head(queue).kind # "event" => Head(queue).kind \in {"raise", "clear"}
      BY <1>7, MessageIs
    <3> QED BY <1>2, <1>9, <3>1 DEF Handles
  <2>2. latest'[a] = latest[a]
    BY <1>2, <1>6, <2>1
  <2> QED BY <1>1, <1>2, <1>4, <1>5, <1>9, <2>2
             DEF AlarmInv, LatestIs, LatestMatches, AtHandIsLatest
<1> QED BY <1>8, <1>9

(* The table is queried for the alarm of the report.                        *)
LEMMA QueryAlarm ==
    ASSUME Basics, NEW a, AlarmInv(a), QueryRaise \/ QueryClear
    PROVE  AlarmInv(a)'
<1>1. /\ UNCHANGED <<cache, size, sweeper, table, uncleared, latest>>
      /\ taker.at = "query"
  BY DEF QueryRaise, QueryClear, Handling, cacheVars
<1>2. Cached(a)' = Cached(a) /\ (Clearing(a)' <=> Clearing(a))
  BY <1>1 DEF Cached, Clearing, Swept
<1>3. ~Raises(a, "post") /\ ~Raises(a, "post")'
  BY <1>1, BasicsSplit DEF QueryRaise, QueryClear, Raises, Handling, Goes, Done,
                           TakerPart, TakerType, NoMessage
<1>4. CASE QueryRaise
  <2>1. taker' = [taker EXCEPT !.at = IF taker.message.alarm \in table
                                      THEN "cancel" ELSE "insert"]
    BY <1>4 DEF QueryRaise, Goes
  <2>2. taker'.message = taker.message /\ (Raises(a, "insert")' => a \notin table)
    BY <2>1, BasicsSplit DEF TakerPart, TakerType, Raises, Handling
  <2> QED BY <1>1, <1>2, <1>3, <2>2
             DEF AlarmInv, EmsMatches, LatestIs, LatestMatches, AtHandIsLatest, Handles
<1>5. CASE QueryClear
  <2>1. taker.message.kind = "clear"
    BY <1>5 DEF QueryClear, Handling
  <2>2. EmsMatches(a)'
    <3>1. ~Raises(a, "insert")'
      BY <1>5, BasicsSplit DEF QueryClear, Raises, Handling, Goes, Done,
                               TakerPart, TakerType, NoMessage
    <3> QED BY <1>1, <1>2, <1>3, <3>1 DEF AlarmInv, EmsMatches
  <2>3. CASE taker.message.alarm \in table
    <3>1. taker'.message = taker.message
      BY <1>5, <2>3, BasicsSplit DEF QueryClear, Goes, TakerPart, TakerType
    <3> QED BY <1>1, <1>2, <2>2, <3>1
               DEF AlarmInv, LatestIs, LatestMatches, AtHandIsLatest, Handles
  <2>4. CASE taker.message.alarm \notin table
    <3>1. ~Handles(a)'
      BY <1>5, <2>4 DEF QueryClear, Done, Handles, NoMessage
    <3>2. Handles(a) => latest[a] = "clear" /\ a \notin table
      BY <2>1, <2>4 DEF AlarmInv, LatestIs, LatestMatches, AtHandIsLatest, Handles
    <3> QED BY <1>1, <1>2, <2>2, <3>1, <3>2
               DEF AlarmInv, LatestIs, LatestMatches, AtHandIsLatest
  <2> QED BY <2>3, <2>4
<1> QED BY <1>4, <1>5

(* A raise of an alarm that stands takes the clear out of the cache, and an *)
(* alarm with more than one clear there has met with an accident.           *)
LEMMA CancelAlarm ==
    ASSUME Basics, Basics', NEW a \in Alarms, a \notin accidents', AlarmInv(a), Cancel
    PROVE  AlarmInv(a)'
<1> DEFINE c == taker.message.alarm
           first == Least(Cached(c))
<1>1. /\ UNCHANGED <<sweeper, table, uncleared, latest>>
      /\ taker' = [at |-> "idle", message |-> NoMessage]
      /\ taker.at = "cancel" /\ taker.message.kind = "raise" /\ sweeper.at = "asleep"
  BY DEF Cancel, Done, Handling, CacheIsFree
<1>2. size = Len(cache) /\ cache \in Seq(Clears) /\ cache' \in Seq(Clears)
      /\ CachePart /\ CachePart' /\ size' = Len(cache')
  BY <1>1, BasicsSplit DEF CachePart, SweepMatches, CacheIsFree
<1>3. /\ ~Raises(a, "insert") /\ ~Raises(a, "post") /\ ~Clearing(a)
      /\ ~Raises(a, "insert")' /\ ~Raises(a, "post")' /\ ~Clearing(a)' /\ ~Handles(a)'
  BY <1>1 DEF Raises, Handling, Clearing, Handles, NoMessage
<1>4. EmsMatches(a)'
  BY <1>1, <1>3 DEF AlarmInv, EmsMatches
<1>5. \/ /\ Cached(c) = {} /\ UNCHANGED <<cache, size>>
      \/ /\ Cached(c) # {}
         /\ cache' = SubSeq(cache, 1, first - 1) \o SubSeq(cache, first + 1, Len(cache))
  BY <1>2 DEF Cancel, cacheVars
<1>6. Cached(c) \subseteq 1..Len(cache) /\ IsFiniteSet(Cached(c))
  <2>1. Cached(c) \subseteq 1..Len(cache) /\ IsFiniteSet(1..Len(cache))
    BY <1>2, FS_Interval DEF Cached
  <2> QED BY <2>1, FS_Subset
<1>7. Cached(c) # {} => first \in 1..Len(cache) /\ cache[first].alarm = c
  <2>1. Cached(c) # {} => first \in Cached(c)
    BY <1>6, LeastIsIn
  <2> QED BY <1>6, <2>1 DEF Cached
<1> HIDE DEF first
<1>8. \/ Cached(c) = {} /\ UNCHANGED <<cache, size>>
      \/ /\ Cached(c) # {}
         /\ Len(cache') = Len(cache) - 1
         /\ \A j \in 1..Len(cache) - 1 :
               cache'[j] = IF j < first THEN cache[j] ELSE cache[j + 1]
  BY <1>2, <1>5, <1>7, WithoutIs
<1>9. CASE a = c
  <2>1. a \in table /\ ~ (Cardinality(Cached(c)) > 1)
    BY <1>9 DEF Cancel, Accident
  <2>2. \A j \in 1..Len(cache') : cache'[j].alarm # a
    <3>1. CASE Cached(c) = {}
      BY <1>2, <1>8, <1>9, <3>1, CachedIs
    <3>2. CASE Cached(c) # {}
      <4>1. \A j \in Cached(c) : j = first
        <5>1. Cardinality(Cached(c)) <= 1
          <6>1. Cardinality(Cached(c)) \in Nat
            BY <1>6, FS_CardinalityType
          <6> QED BY <2>1, <6>1
        <5>2. first \in Cached(c)
          BY <1>2, <1>7, <3>2 DEF Cached
        <5> QED BY <1>6, <5>1, <5>2, TwoAreMore
      <4>2. \A j \in 1..Len(cache) : cache[j].alarm = c => j = first
        BY <1>2, <4>1 DEF Cached
      <4> HIDE DEF c
      <4> QED BY <1>2, <1>7, <1>8, <1>9, <3>2, <4>2
    <3> QED BY <3>1, <3>2
  <2>3. Cached(a)' = {}
    BY <1>2, <2>2, CachedIs
  <2>4. latest'[a] = "raise"
    BY <1>1, <1>9 DEF AlarmInv, LatestIs, LatestMatches, AtHandIsLatest, Handles
  <2> QED BY <1>1, <1>3, <1>4, <2>1, <2>3, <2>4
             DEF AlarmInv, LatestIs, LatestMatches, AtHandIsLatest
<1>10. CASE a # c
  <2>1. ~Handles(a)
    BY <1>10 DEF Handles
  <2>2. Cached(a) = {} => Cached(a)' = {}
    <3>1. ASSUME Cached(a) = {}, NEW j \in 1..Len(cache') PROVE cache'[j].alarm # a
      <4>1. \E k \in 1..Len(cache) : cache'[j] = cache[k]
        BY <1>2, <1>8, <3>1
      <4> QED BY <1>2, <3>1, <4>1, CachedIs
    <3> QED BY <1>2, <3>1, CachedIs
  <2>3. ASSUME NEW k \in 1..size, cache[k].alarm = a
        PROVE  \E j \in 1..size' : cache'[j].alarm = a
    <3>1. CASE Cached(c) = {}
      BY <1>8, <2>3, <3>1
    <3>2. CASE Cached(c) # {}
      <4>1. k # first
        BY <1>7, <1>10, <2>3, <3>2
      <4>2. CASE k < first
        <5>1. k \in 1..size' /\ cache'[k] = cache[k]
          BY <1>2, <1>7, <1>8, <3>2, <4>2
        <5> QED BY <2>3, <5>1
      <4>3. CASE k > first
        <5>1. k - 1 \in 1..size' /\ cache'[k - 1] = cache[k]
          BY <1>2, <1>7, <1>8, <3>2, <4>3
        <5> QED BY <2>3, <5>1
      <4> QED BY <1>2, <1>7, <3>2, <4>1, <4>2, <4>3
    <3> QED BY <3>1, <3>2
  <2> QED BY <1>1, <1>3, <1>4, <2>1, <2>2, <2>3
             DEF AlarmInv, LatestIs, LatestMatches, AtHandIsLatest
<1> QED BY <1>9, <1>10

(* A raise of a new alarm: the row, then the EMS.                           *)
LEMMA InsertAlarm ==
    ASSUME Basics, NEW a \in Alarms, a \notin accidents', AlarmInv(a),
           Insert \/ PostRaise
    PROVE  AlarmInv(a)'
<1> DEFINE c == taker.message.alarm
<1>1. /\ UNCHANGED <<cache, size, sweeper, latest>>
      /\ taker.message.kind = "raise" /\ taker.at \in {"insert", "post"}
  BY DEF Insert, PostRaise, Handling, cacheVars
<1>2. Cached(a)' = Cached(a) /\ (Clearing(a)' <=> Clearing(a))
  BY <1>1 DEF Cached, Clearing, Swept
<1>3. Clearing(a) => Cached(a) # {}
  BY BasicsSplit, CachedIs
<1>4. c \in Alarms /\ uncleared \in [Alarms -> Nat]
  BY <1>1, AlarmsAreAlarms, BasicsSplit DEF TablePart
<1>5. CASE Insert
  <2>1. /\ table' = table \cup {c} /\ UNCHANGED uncleared /\ taker.at = "insert"
        /\ taker' = [taker EXCEPT !.at = "post"]
        /\ a = c => Cached(a) = {}
    BY <1>5 DEF Insert, Handling, Goes, Accident
  <2>2. taker'.message = taker.message /\ taker'.at = "post"
    BY <2>1, BasicsSplit DEF TakerPart, TakerType
  <2>3. CASE a = c
    <3>1. Raises(a, "insert") /\ Raises(a, "post")' /\ ~Raises(a, "insert")'
          /\ ~Raises(a, "post") /\ Handles(a) /\ Handles(a)'
      BY <1>1, <2>1, <2>2, <2>3 DEF Raises, Handling, Handles
    <3>2. ~Clearing(a)
      BY <1>3, <2>1, <2>3
    <3> QED BY <1>1, <1>2, <2>1, <2>2, <2>3, <3>1, <3>2
            DEF AlarmInv, EmsMatches, LatestIs, LatestMatches, AtHandIsLatest
  <2>4. CASE a # c
    <3>1. ~Handles(a) /\ ~Handles(a)' /\ (a \in table' <=> a \in table)
          /\ ~Raises(a, "insert") /\ ~Raises(a, "post")
          /\ ~Raises(a, "insert")' /\ ~Raises(a, "post")'
      BY <2>1, <2>2, <2>4 DEF Handles, Raises
    <3> QED BY <1>1, <1>2, <2>1, <3>1
               DEF AlarmInv, EmsMatches, LatestIs, LatestMatches, AtHandIsLatest
  <2> QED BY <2>3, <2>4
<1>6. CASE PostRaise
  <2>1. /\ uncleared' = [uncleared EXCEPT ![c] = @ + 1] /\ UNCHANGED table
        /\ taker.at = "post" /\ taker' = [at |-> "idle", message |-> NoMessage]
    BY <1>6 DEF PostRaise, Handling, EmsInserts, Done
  <2>2. ~Handles(a)' /\ ~Raises(a, "insert")' /\ ~Raises(a, "post")'
    BY <2>1 DEF Handles, Raises, Handling, NoMessage
  <2>3. CASE a = c
    <3>1. Raises(a, "post") /\ Handles(a)
      BY <1>1, <2>1, <2>3 DEF Raises, Handling, Handles
    <3>2. a \in table /\ uncleared[a] = 0 /\ Cached(a) = {} /\ latest[a] = "raise"
      BY <1>1, <3>1 DEF AlarmInv, EmsMatches, LatestIs, LatestMatches, AtHandIsLatest
    <3>3. uncleared'[a] = 1 /\ ~Clearing(a)
      BY <1>3, <1>4, <2>1, <2>3, <3>2
    <3> QED BY <1>1, <1>2, <2>1, <2>2, <3>2, <3>3
            DEF AlarmInv, EmsMatches, LatestIs, LatestMatches, AtHandIsLatest
  <2>4. CASE a # c
    <3>1. ~Handles(a) /\ ~Raises(a, "insert") /\ ~Raises(a, "post")
      BY <2>4 DEF Handles, Raises
    <3>2. uncleared'[a] = uncleared[a]
      BY <1>4, <2>1, <2>4
    <3> QED BY <1>1, <1>2, <2>1, <2>2, <3>1, <3>2
            DEF AlarmInv, EmsMatches, LatestIs, LatestMatches, AtHandIsLatest
  <2> QED BY <2>3, <2>4
<1> QED BY <1>5, <1>6

(* A clear of an alarm that stands is held back.                            *)
LEMMA StoreAlarm ==
    ASSUME Basics, Basics', NEW a \in Alarms, AlarmInv(a), Store
    PROVE  AlarmInv(a)'
<1>1. /\ UNCHANGED <<sweeper, table, uncleared, latest>>
      /\ cache' = Append(cache, taker.message) /\ size' = size + 1
      /\ taker' = [at |-> "idle", message |-> NoMessage]
      /\ taker.at = "store" /\ taker.message.kind = "clear" /\ sweeper.at = "asleep"
  BY DEF Store, Done, Handling, CacheIsFree
<1>2. size = Len(cache) /\ cache \in Seq(Clears) /\ CachePart /\ CachePart'
  BY <1>1, BasicsSplit DEF CachePart, SweepMatches, CacheIsFree
<1>3. taker.message \in Clears
  BY <1>1, AlarmsAreAlarms DEF Clears
<1>4. /\ Len(cache') = Len(cache) + 1
      /\ \A k \in 1..Len(cache) : cache'[k] = cache[k]
      /\ cache'[Len(cache) + 1] = taker.message
  BY <1>1, <1>2, <1>3, AppendIs
<1>5. /\ ~Raises(a, "insert") /\ ~Raises(a, "post") /\ ~Clearing(a)
      /\ ~Raises(a, "insert")' /\ ~Raises(a, "post")' /\ ~Clearing(a)' /\ ~Handles(a)'
  BY <1>1 DEF Raises, Handling, Clearing, Handles, NoMessage
<1>6. EmsMatches(a)'
  BY <1>1, <1>5 DEF AlarmInv, EmsMatches
<1>7. CASE Handles(a)
  <2>1. latest[a] = "clear" /\ taker.message.alarm = a
    BY <1>1, <1>7 DEF AlarmInv, LatestIs, LatestMatches, AtHandIsLatest, Handles
  <2>2. \E k \in 1..size' : cache'[k].alarm = a
    <3>1. Len(cache) + 1 \in 1..size' /\ cache'[Len(cache) + 1].alarm = a
      BY <1>1, <1>2, <1>4, <2>1
    <3> QED BY <3>1
  <2> QED BY <1>1, <1>5, <1>6, <2>1, <2>2
             DEF AlarmInv, LatestIs, LatestMatches, AtHandIsLatest
<1>8. CASE ~Handles(a)
  <2>1. taker.message.alarm # a
    BY <1>1, <1>8 DEF Handles
  <2>2. Cached(a) = {} => Cached(a)' = {}
    <3>1. ASSUME Cached(a) = {}, NEW k \in 1..Len(cache') PROVE cache'[k].alarm # a
      <4>1. CASE k \in 1..Len(cache)
        BY <1>2, <1>4, <3>1, <4>1, CachedIs
      <4>2. CASE k = Len(cache) + 1
        BY <1>4, <2>1, <4>2
      <4> QED BY <1>2, <1>4, <3>1, <4>1, <4>2
    <3> QED BY <1>2, <3>1, CachedIs
  <2>3. ASSUME NEW k \in 1..size, cache[k].alarm = a
        PROVE  \E j \in 1..size' : cache'[j].alarm = a
    <3>1. k \in 1..size' /\ cache'[k].alarm = a
      BY <1>1, <1>2, <1>4, <2>3
    <3> QED BY <3>1
  <2> QED BY <1>1, <1>5, <1>6, <1>8, <2>2, <2>3
             DEF AlarmInv, LatestIs, LatestMatches, AtHandIsLatest
<1> QED BY <1>7, <1>8

(* A report that is dropped, or whose statement has no effect, is an        *)
(* accident of its alarm.                                                   *)
LEMMA DropAlarm ==
    ASSUME Basics, NEW a \in Alarms, a \notin accidents', AlarmInv(a),
           \/ QueryNothing \/ InsertNothing
           \/ QueryFails \/ InsertFails \/ PostFails
    PROVE  AlarmInv(a)'
<1>1. UNCHANGED <<cache, size, sweeper, uncleared, latest>>
  BY DEF QueryNothing, InsertNothing, QueryFails, InsertFails, PostFails, Drop, cacheVars
<1>2. ~Handles(a)
  BY DEF QueryNothing, InsertNothing, QueryFails, InsertFails, PostFails, Drop,
         Accident, Handles
<1>3. a \in table' <=> a \in table
  BY <1>2 DEF QueryNothing, InsertNothing, QueryFails, InsertFails, PostFails,
              Handling, Handles
<1>4. taker' = [at |-> "idle", message |-> NoMessage] \/ taker'.message = taker.message
  BY BasicsSplit DEF QueryNothing, InsertNothing, QueryFails, InsertFails, PostFails,
                     Drop, Goes, Done, TakerPart, TakerType
<1>5. ~Handles(a)'
  BY <1>2, <1>4 DEF Handles, NoMessage
<1>6. Cached(a)' = Cached(a) /\ (Clearing(a)' <=> Clearing(a))
  BY <1>1 DEF Cached, Clearing, Swept
<1>7. /\ ~Raises(a, "insert") /\ ~Raises(a, "post")
      /\ ~Raises(a, "insert")' /\ ~Raises(a, "post")'
  BY <1>2, <1>5 DEF Raises, Handling, Handles
<1> QED BY <1>1, <1>2, <1>3, <1>5, <1>6, <1>7
           DEF AlarmInv, EmsMatches, LatestIs, LatestMatches, AtHandIsLatest

(* A delete that fails, or has no effect, is an accident of its alarm if    *)
(* the table and the EMS then differ.                                       *)
LEMMA DeleteFailsAlarm ==
    ASSUME Basics, NEW a \in Alarms, a \notin accidents', AlarmInv(a),
           DeleteNothing \/ DeleteFails
    PROVE  AlarmInv(a)'
<1>1. UNCHANGED <<taker, cache, size, uncleared, latest>>
  BY DEF DeleteNothing, DeleteFails, cacheVars
<1>2. a \in table' <=> a \in table
  BY DEF DeleteNothing, DeleteFails, Accident
<1>3. ~Clearing(a)
  BY DEF DeleteNothing, DeleteFails, Clearing
<1>4. ~Clearing(a)'
  <2>1. CASE DeleteNothing
    <3>1. a # Swept.alarm /\ sweeper'.slot = sweeper.slot
      BY <2>1, BasicsSplit DEF DeleteNothing, Accident, CachePart, SweeperType
    <3> QED BY <1>1, <3>1 DEF Clearing, Swept
  <2>2. CASE DeleteFails
    BY <2>2, BasicsSplit DEF DeleteFails, Clearing, CachePart, SweeperType
  <2> QED BY <2>1, <2>2
<1>5. Cached(a)' = Cached(a) /\ (Handles(a)' <=> Handles(a))
      /\ (Raises(a, "insert")' <=> Raises(a, "insert"))
      /\ (Raises(a, "post")' <=> Raises(a, "post"))
  BY <1>1 DEF Cached, Handles, Raises, Handling
<1> QED BY <1>1, <1>2, <1>3, <1>4, <1>5
           DEF AlarmInv, EmsMatches, LatestIs, LatestMatches, AtHandIsLatest

(* The row is deleted: the EMS is yet to be told.                           *)
LEMMA DeleteAlarm ==
    ASSUME Basics, NEW a \in Alarms, AlarmInv(a), Delete
    PROVE  AlarmInv(a)'
<1> DEFINE c == Swept.alarm
<1>1. /\ UNCHANGED <<taker, cache, size, uncleared, latest>>
      /\ table' = table \ {c} /\ sweeper.at = "delete"
      /\ sweeper' = [sweeper EXCEPT !.at = "post"]
  BY DEF Delete, cacheVars
<1>2. sweeper'.at = "post" /\ sweeper'.slot = sweeper.slot
  BY <1>1, BasicsSplit DEF CachePart, SweeperType
<1>3. Cached(a)' = Cached(a) /\ ~Clearing(a) /\ (Clearing(a)' <=> a = c)
      /\ (Handles(a)' <=> Handles(a))
      /\ (Raises(a, "insert")' <=> Raises(a, "insert"))
      /\ (Raises(a, "post")' <=> Raises(a, "post"))
  BY <1>1, <1>2 DEF Cached, Clearing, Swept, Handles, Raises, Handling
<1>4. a = c => Cached(a) # {}
  BY <1>1, BasicsSplit DEF CachePart, SweepMatches, Cached, Swept
<1>5. uncleared[a] \in Nat
  BY BasicsSplit DEF TablePart
<1>6. CASE a = c
  <2>1. ~Raises(a, "post") /\ a \notin table' /\ uncleared'[a] <= 1
    BY <1>1, <1>3, <1>4, <1>6 DEF AlarmInv, EmsMatches
  <2> QED BY <1>1, <1>3, <1>4, <1>6, <2>1
             DEF AlarmInv, EmsMatches, LatestIs, LatestMatches, AtHandIsLatest
<1>7. CASE a # c
  <2>1. a \in table' <=> a \in table
    BY <1>1, <1>7
  <2> QED BY <1>1, <1>3, <1>7, <2>1
             DEF AlarmInv, EmsMatches, LatestIs, LatestMatches, AtHandIsLatest
<1> QED BY <1>6, <1>7

(* The EMS is told, or not, and an element is erased: every other element   *)
(* keeps a slot unless it is the one that is destroyed instead.             *)
LEMMA EraseAlarm ==
    ASSUME Basics, Basics', NEW a \in Alarms, a \notin accidents', AlarmInv(a),
           PostClear \/ PostClearFails
    PROVE  AlarmInv(a)'
<1> DEFINE c == Swept.alarm
<1>1. /\ UNCHANGED <<taker, table, latest>> /\ sweeper.at = "post"
      /\ Erase(sweeper.slot)
      /\ a \notin Destroyed(sweeper.slot)
      /\ \/ uncleared' = [uncleared EXCEPT ![c] = 0]
         \/ UNCHANGED uncleared /\ a # c
  BY DEF PostClear, PostClearFails, Accident, EmsClears
<1>2. /\ sweeper.slot \in 1..Len(cache) /\ size \in 1..Len(cache)
      /\ cache' \in Seq(Clears) /\ Len(cache') = Len(cache) /\ size' = size - 1
      /\ \A j \in 1..Len(cache) : cache'[j] =
            IF sweeper.slot <= j /\ j < size THEN cache[j + 1] ELSE cache[j]
      /\ sweeper' = [at |-> "sweep", slot |-> sweeper.slot + 1]
      /\ CachePart /\ CachePart' /\ cache \in Seq(Clears)
  <2>1. CachePart /\ CachePart' /\ cache \in Seq(Clears)
    BY BasicsSplit DEF CachePart
  <2> QED BY <1>1, <2>1, EraseIs
<1>3. ~Clearing(a)' /\ (Clearing(a) <=> a = c) /\ c = cache[sweeper.slot].alarm
  BY <1>1, <1>2 DEF Clearing, Swept
<1>4. Cached(a) = {} => Cached(a)' = {}
  <2>1. ASSUME Cached(a) = {}, NEW j \in 1..Len(cache') PROVE cache'[j].alarm # a
    <3>1. \E k \in 1..Len(cache) : cache'[j] = cache[k]
      <4>1. j \in 1..Len(cache) /\ size \in Nat /\ size <= Len(cache) /\ Len(cache) \in Nat
        BY <1>2, <2>1
      <4>2. CASE sweeper.slot <= j /\ j < size
        <5>1. j + 1 \in 1..Len(cache)
          BY <4>1, <4>2
        <5>2. cache'[j] = cache[j + 1]
          BY <1>2, <4>1, <4>2
        <5> QED BY <5>1, <5>2
      <4>3. CASE ~(sweeper.slot <= j /\ j < size)
        BY <1>2, <4>1, <4>3
      <4> QED BY <4>2, <4>3
    <3> QED BY <1>2, <2>1, <3>1, CachedIs
  <2> QED BY <1>2, <2>1, CachedIs
<1>5. /\ Handles(a)' <=> Handles(a)
      /\ Raises(a, "insert")' <=> Raises(a, "insert")
      /\ Raises(a, "post")' <=> Raises(a, "post")
  BY <1>1 DEF Handles, Raises, Handling
<1>6. uncleared \in [Alarms -> Nat] /\ c \in Alarms
  BY <1>1, BasicsSplit, AlarmsAreAlarms DEF TablePart
<1>7. CASE a = c
  <2>1. Cached(a) # {} /\ Clearing(a)
    BY <1>2, <1>3, <1>7, CachedIs
  <2>2. ~Raises(a, "post") /\ a \notin table
    BY <2>1 DEF AlarmInv, EmsMatches
  <2>3. uncleared'[a] = 0
    BY <1>1, <1>6, <1>7
  <2>4. EmsMatches(a)'
    BY <1>1, <1>3, <1>5, <2>2, <2>3 DEF EmsMatches
  <2>5. LatestIs(a)'
    BY <1>1, <1>5, <2>1, <2>2 DEF AlarmInv, LatestIs, LatestMatches, AtHandIsLatest
  <2> QED BY <2>4, <2>5 DEF AlarmInv
<1>8. CASE a # c
  <2>1. ~Clearing(a) /\ uncleared'[a] = uncleared[a]
    BY <1>1, <1>3, <1>6, <1>8
  <2>2. EmsMatches(a)'
    BY <1>1, <1>3, <1>4, <1>5, <2>1 DEF AlarmInv, EmsMatches
  <2>3. ASSUME NEW k \in 1..size, cache[k].alarm = a
        PROVE  \E j \in 1..size' : cache'[j].alarm = a
    <3>1. k # sweeper.slot
      BY <1>3, <1>8, <2>3
    <3>2. CASE k > sweeper.slot
      <4>1. k \in Int /\ sweeper.slot \in Int /\ size \in Int /\ Len(cache) \in Int
        BY <1>2
      <4>2. k - 1 \in 1..size' /\ k - 1 \in 1..Len(cache)
            /\ sweeper.slot <= k - 1 /\ k - 1 < size
        BY <1>2, <2>3, <3>2, <4>1
      <4>3. cache'[k - 1] = cache[(k - 1) + 1]
        BY <1>2, <4>2
      <4>4. (k - 1) + 1 = k
        BY <4>1
      <4>5. cache'[k - 1].alarm = a
        BY <2>3, <4>3, <4>4
      <4> QED BY <4>2, <4>5
    <3>3. CASE k < sweeper.slot
      <4>1. k # size
        <5>1. k = size => a \in Destroyed(sweeper.slot)
          BY <1>2, <2>3, <3>3 DEF Destroyed
        <5> QED BY <1>1, <5>1
      <4>2. k \in 1..size' /\ cache'[k] = cache[k]
        BY <1>2, <2>3, <3>3, <4>1
      <4> QED BY <2>3, <4>2
    <3> QED BY <1>2, <2>3, <3>1, <3>2, <3>3
  <2>4. LatestIs(a)'
    BY <1>1, <1>4, <1>5, <2>3 DEF AlarmInv, LatestIs, LatestMatches, AtHandIsLatest
  <2> QED BY <2>2, <2>4 DEF AlarmInv
<1> QED BY <1>7, <1>8

(* The end of a sweep drops the slots that are no elements any more.        *)
LEMMA EndAlarm ==
    ASSUME Basics, Basics', NEW a \in Alarms, AlarmInv(a), EndSweep
    PROVE  AlarmInv(a)'
<1>1. /\ UNCHANGED <<taker, table, size, uncleared, latest>> /\ sweeper.at = "sweep"
      /\ cache' = SubSeq(cache, 1, size) /\ sweeper'.at = "asleep"
  BY DEF EndSweep
<1>2. /\ CachePart /\ CachePart' /\ Len(cache') = size
      /\ \A k \in 1..size : k \in 1..Len(cache) /\ cache'[k] = cache[k]
  BY <1>1, BasicsSplit, PrefixIs DEF CachePart
<1>3. Cached(a) = {} => Cached(a)' = {}
  BY <1>2, CachedIs
<1>4. ~Clearing(a) /\ ~Clearing(a)'
  BY <1>1 DEF Clearing
<1>5. /\ Handles(a)' <=> Handles(a)
      /\ Raises(a, "insert")' <=> Raises(a, "insert")
      /\ Raises(a, "post")' <=> Raises(a, "post")
  BY <1>1 DEF Handles, Raises, Handling
<1> QED BY <1>1, <1>2, <1>3, <1>4, <1>5
           DEF AlarmInv, EmsMatches, LatestIs, LatestMatches, AtHandIsLatest

(* A restart is an accident of every alarm that is at hand or held back.    *)
LEMMA RestartAlarm ==
    ASSUME Basics, Basics', NEW a \in Alarms, a \notin accidents', AlarmInv(a), Restart
    PROVE  AlarmInv(a)'
<1>1. /\ UNCHANGED <<table, uncleared, latest>>
      /\ taker' = [at |-> "idle", message |-> NoMessage]
      /\ cache' = <<>> /\ size' = 0 /\ sweeper'.at = "asleep"
      /\ \A message \in AtHand :
            ~ (message.kind \in {"raise", "clear"} /\ message.alarm = a)
  BY DEF Restart, Accident, Done
<1>2. ~Handles(a) /\ ~Handles(a)' /\ ~Raises(a, "insert")' /\ ~Raises(a, "post")'
      /\ ~Clearing(a)'
  BY <1>1 DEF AtHand, Handles, Raises, Handling, NoMessage, Clearing
<1>3. ~Raises(a, "post")
  BY <1>2 DEF Handles, Raises, Handling
<1>4. CachePart
  BY BasicsSplit
<1>5. \A k \in 1..Len(cache) : cache[k].alarm # a
  <2>1. ASSUME NEW k \in 1..Len(cache) PROVE cache[k].alarm # a
    <3>1. cache[k] \in AtHand
      BY <1>4 DEF AtHand, CachePart
    <3>2. cache[k].kind = "clear"
      BY AlarmsAreAlarms DEF Clears
    <3> QED BY <1>1, <3>1, <3>2
  <2> QED BY <2>1
<1>6. Cached(a) = {} /\ Cached(a)' = {} /\ ~Clearing(a)
  <2>1. Cached(a) = {} /\ ~Clearing(a)
    BY <1>4, <1>5, CachedIs
  <2>2. Cached(a)' = {}
    BY <1>1 DEF Cached
  <2> QED BY <2>1, <2>2
<1>7. ~ \E k \in 1..size : cache[k].alarm = a
  BY <1>4, <1>5 DEF CachePart
<1> QED BY <1>1, <1>2, <1>3, <1>6, <1>7
           DEF AlarmInv, EmsMatches, LatestIs, LatestMatches, AtHandIsLatest

(* A clear that goes through leaves its alarm mended: the row is gone, the  *)
(* EMS has cleared all of it, and no raise of it has been taken since.      *)
LEMMA MendAlarm ==
    ASSUME Basics, Basics', NEW a \in Alarms, AtHandIsLatest(a), PostClear,
           a \in Mended(Swept.alarm)
    PROVE  AlarmInv(a)'
<1>1. /\ UNCHANGED <<taker, table, latest>> /\ a = Swept.alarm
      /\ a \notin table /\ latest[a] = "clear"
      /\ uncleared' = [uncleared EXCEPT ![a] = 0]
      /\ Erase(sweeper.slot)
  BY DEF PostClear, Mended, EmsClears
<1>2. uncleared'[a] = 0
  BY <1>1, BasicsSplit DEF TablePart
<1>3. ~Raises(a, "insert")' /\ ~Raises(a, "post")' /\ ~Clearing(a)'
  BY <1>1 DEF Raises, Handling, Clearing, Erase, AtHandIsLatest, Handles
<1>4. EmsMatches(a)'
  BY <1>1, <1>2, <1>3 DEF EmsMatches
<1>5. LatestIs(a)'
  BY <1>1 DEF LatestIs, LatestMatches, AtHandIsLatest, Handles
<1> QED BY <1>4, <1>5 DEF AlarmInv

(* The report at hand is the last one taken of its alarm.                   *)
LEMMA AtHandKept ==
    ASSUME Basics, [Next]_vars, NEW a \in Alarms, AtHandIsLatest(a)
    PROVE  AtHandIsLatest(a)'
<1>1. CASE Take
  <2>1. /\ taker'.message = Head(queue)
        /\ latest' = IF Head(queue).kind = "event" THEN latest
                     ELSE [latest EXCEPT ![Head(queue).alarm] = Head(queue).kind]
    BY <1>1 DEF Take
  <2>2. latest \in [Alarms -> {"none", "raise", "clear"}]
    BY BasicsSplit DEF TablePart
  <2> QED BY <2>1, <2>2 DEF AtHandIsLatest, Handles
<1>2. CASE ~Take
  <2>1. UNCHANGED latest
    BY <1>2 DEF Next, vars, Tick, Reports, Report, Releases, Release, ProcessAlarms,
         FindEmpty, Wake, ProcessAlarmContents, QueryRaise, Cancel, Insert,
         PostRaise, QueryClear, Store, PostEvent, QueryNothing, InsertNothing, QueryFails,
         InsertFails, PostFails, Drop, ProcessClearAlarmCache, BeginSweep, Examine,
         Delete, DeleteNothing, DeleteFails, PostClear, PostClearFails, EndSweep, Restart
  <2>2. \A label : [taker EXCEPT !.at = label].message = taker.message
    BY BasicsSplit DEF TakerPart, TakerType
  <2>3. taker'.message = taker.message \/ taker'.message = NoMessage
    <3>1. CASE ProcessAlarms
      <4>1. CASE FindEmpty \/ Wake
        BY <2>2, <4>1 DEF FindEmpty, Wake
      <4>2. CASE QueryRaise \/ Insert \/ InsertNothing
        <5>1. PICK label : Goes(label)
          BY <4>2 DEF QueryRaise, Insert, InsertNothing
        <5> QED BY <2>2, <5>1 DEF Goes
      <4>3. CASE QueryClear \/ QueryNothing
        <5>1. Done \/ \E label : Goes(label)
          BY <4>3 DEF QueryClear, QueryNothing
        <5>2. CASE Done
          BY <5>2 DEF Done
        <5>3. ASSUME NEW label, Goes(label) PROVE taker'.message = taker.message
          BY <2>2, <5>3 DEF Goes
        <5> QED BY <5>1, <5>2, <5>3
      <4>4. CASE \/ Cancel \/ PostRaise \/ Store \/ PostEvent
                 \/ QueryFails \/ InsertFails \/ PostFails
        BY <4>4 DEF Cancel, PostRaise, Store, PostEvent, QueryFails, InsertFails,
                    PostFails, Drop, Done
      <4> QED BY <1>2, <3>1, <4>1, <4>2, <4>3, <4>4
              DEF ProcessAlarms, ProcessAlarmContents
    <3>2. CASE Restart
      BY <3>2 DEF Restart, Done
    <3>3. CASE ~ProcessAlarms /\ ~Restart
      BY <3>3 DEF Next, vars, Tick, Reports, Report, Releases, Release,
         ProcessClearAlarmCache, BeginSweep, Examine, Delete, DeleteNothing,
         DeleteFails, PostClear, PostClearFails, EndSweep
    <3> QED BY <3>1, <3>2, <3>3
  <2> QED BY <2>1, <2>3 DEF AtHandIsLatest, Handles, NoMessage
<1> QED BY <1>1, <1>2

(* Only a clear that goes through ends an accident.                         *)
LEMMA AccidentsStay ==
    ASSUME [Next]_vars, NEW a \in accidents, a \notin accidents'
    PROVE  PostClear /\ a \in Mended(Swept.alarm)
  BY DEF Next, vars, Tick, Reports, Report, Releases, Release, ProcessAlarms,
         FindEmpty, Wake, Take, ProcessAlarmContents, QueryRaise, Cancel, Insert,
         PostRaise, QueryClear, Store, PostEvent, QueryNothing, InsertNothing,
         QueryFails, InsertFails, PostFails, Drop, ProcessClearAlarmCache,
         BeginSweep, Examine, Delete, DeleteNothing, DeleteFails, PostClear,
         PostClearFails, EndSweep, Restart, Accident

-----------------------------------------------------------------------------
(* The invariant, for any number of processes, alarms, reports, failures    *)
(* and restarts (FaultManager.cpp: processAlarmContents and                 *)
(* processClearAlarmCache).                                                 *)
THEOREM Invariance == Spec => []IInv
<1>1. IInv <=> /\ Basics /\ \A a \in Alarms : AtHandIsLatest(a)
               /\ \A a \in Alarms \ accidents : AlarmInv(a)
  BY DEF IInv, Basics, AlarmInv, LatestIs
<1>2. IInv' <=> /\ Basics' /\ \A a \in Alarms : AtHandIsLatest(a)'
                /\ \A a \in Alarms \ accidents' : AlarmInv(a)'
  BY DEF IInv, Basics, AlarmInv, LatestIs
<1>3. ASSUME Init PROVE IInv
  <2>1. ReportPart
    BY <1>3, BoundsAssumption, FS_EmptySet DEF Init, ReportPart, ReportsCounted
  <2>2. TakerPart
    BY <1>3 DEF Init, TakerPart, TakerType, TakerMatches
  <2>3. CachePart
    BY <1>3 DEF Init, CachePart, SweepMatches, CacheIsFree, SweeperType
  <2>4. TablePart
    BY <1>3, BoundsAssumption DEF Init, TablePart
  <2>5. ASSUME NEW a \in Alarms PROVE AtHandIsLatest(a) /\ AlarmInv(a)
    BY <1>3 DEF Init, AlarmInv, EmsMatches, LatestIs, LatestMatches, AtHandIsLatest,
                Handles, Raises, Handling, Clearing, NoMessage
  <2> QED BY <1>1, <2>1, <2>2, <2>3, <2>4, <2>5, BasicsSplit
<1>4. ASSUME IInv, [Next]_vars PROVE IInv'
  <2>1. Basics /\ Basics'
    BY <1>1, <1>4, BasicsKept
  <2>2. ASSUME NEW a \in Alarms PROVE AtHandIsLatest(a)'
    BY <1>1, <1>4, <2>2, AtHandKept
  <2>3. ASSUME NEW a \in Alarms, a \notin accidents' PROVE AlarmInv(a)'
    <3>1. CASE a \in accidents
      BY <1>1, <1>4, <2>1, <2>3, <3>1, AccidentsStay, MendAlarm
    <3>2. CASE a \notin accidents
      <4>1. AlarmInv(a)
        BY <1>1, <1>4, <3>2
      <4>2. CASE UNCHANGED vars \/ Tick \/ Reports \/ Releases
        BY <2>1, <4>1, <4>2, QuietSteps
      <4>3. CASE ProcessAlarms
        BY <2>1, <2>3, <4>1, <4>3, QuietSteps, TakeAlarm, QueryAlarm, CancelAlarm,
           InsertAlarm, StoreAlarm, DropAlarm DEF ProcessAlarms, ProcessAlarmContents
      <4>4. CASE ProcessClearAlarmCache
        BY <2>1, <2>3, <4>1, <4>4, QuietSteps, DeleteAlarm, DeleteFailsAlarm,
           EraseAlarm, EndAlarm DEF ProcessClearAlarmCache
      <4>5. CASE Restart
        BY <2>1, <2>3, <4>1, <4>5, RestartAlarm
      <4> QED BY <1>4, <4>2, <4>3, <4>4, <4>5 DEF Next
    <3> QED BY <3>1, <3>2
  <2> QED BY <1>2, <2>1, <2>2, <2>3
<1> QED BY <1>3, <1>4, PTL DEF Spec

(* At rest the table and the EMS both say of an alarm what was reported     *)
(* last, unless one of the accidents happened to it.                        *)
THEOREM LastReportsStand == Spec => []LastReportStands
<1>1. ASSUME IInv PROVE LastReportStands
  <2>1. SUFFICES ASSUME NEW a \in Alarms \ accidents, AtRest(a)
                 PROVE  /\ a \in table <=> latest[a] = "raise"
                        /\ a \in table <=> uncleared[a] > 0
    BY DEF LastReportStands
  <2>2. EmsMatches(a) /\ LatestMatches(a) /\ CachePart
        /\ latest \in [Alarms -> {"none", "raise", "clear"}]
    BY <1>1, BasicsSplit DEF IInv, Basics, TablePart
  <2>3. ~Handles(a) /\ ~Raises(a, "insert") /\ ~Raises(a, "post") /\ ~Clearing(a)
    BY <2>1 DEF AtRest, CacheIsFree, Handles, Raises, Handling, Clearing, NoMessage
  <2>4. ~ \E k \in 1..size : cache[k].alarm = a
    <3>1. \A k \in 1..Len(cache) : cache[k].alarm # a
      BY <2>1, <2>2, CachedIs DEF AtRest
    <3> QED BY <2>2, <3>1 DEF CachePart
  <2>5. a \in table <=> latest[a] = "raise"
    BY <2>2, <2>3, <2>4 DEF LatestIs, LatestMatches, AtHandIsLatest
  <2>6. a \in table <=> uncleared[a] > 0
    BY <2>2, <2>3 DEF EmsMatches
  <2> QED BY <2>5, <2>6
<1> QED BY <1>1, Invariance, PTL

(* The EMS is never sent a second alarm that is not cleared.                *)
THEOREM OneAlarmAtMost == Spec => []NoSecondAlarm
<1>1. ASSUME IInv PROVE NoSecondAlarm
  <2>1. ASSUME NEW a \in Alarms \ accidents PROVE uncleared[a] <= 1
    BY <1>1 DEF IInv, EmsMatches
  <2> QED BY <2>1 DEF NoSecondAlarm
<1> QED BY <1>1, Invariance, PTL
=============================================================================
