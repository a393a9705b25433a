-------------------------- MODULE DataManagerProofs --------------------------
(* What holds of DataManager for any number of threads, sets and handles:   *)
(* no connection is lost and none is lent twice, although its pools are not *)
(* safe, because what a call has at hand is its own while it has the mutex. *)
EXTENDS DataManager, TLAPS

(* The types of the variables, by what a step changes together.             *)
ThreadsOK ==
    /\ mutex \in Threads \cup {None}
    /\ pc \in [Threads -> {"idle", "reserve", "take", "release", "clean", "reset",
                           "return", "deactivate"}]
    /\ wanted \in [Threads -> Sets \cup {None}]
    /\ chosen \in [Threads -> Connections \cup {None}]
    /\ held \in [Threads -> Handles \cup {None}]
    /\ stale \in [Threads -> Handles \cup {None}]
PoolsOK ==
    /\ freeConnections \subseteq Connections
    /\ freeHandles \subseteq Handles
    /\ associatedConnection \in [Handles -> Connections \cup {None}]
ServerOK ==
    /\ status \in [Connections -> {"ok", "bad", "finished"}]
    /\ pgResult \in [Connections -> Threads \cup {None}]
    /\ transaction \in [Connections -> Threads \cup {None}]
HistoryOK ==
    /\ deactivated \subseteq Sets
    /\ accidents \subseteq {"open_transaction", "stale_handle"}

LEMMA TypeSplits ==
    /\ TypeOK <=> /\ ThreadsOK /\ PoolsOK /\ ServerOK /\ HistoryOK
                  /\ failures \in 0..MaxFailures
    /\ TypeOK' <=> /\ ThreadsOK' /\ PoolsOK' /\ ServerOK' /\ HistoryOK'
                   /\ failures' \in 0..MaxFailures
  BY DEF TypeOK, ThreadsOK, PoolsOK, ServerOK, HistoryOK

(* Commands and transactions touch what the server knows, and only that.  A *)
(* connection that was shut down stays so.                                  *)
LEMMA ServerStepKeeps ==
    ASSUME Lending, ServerOK', HistoryOK', failures' \in 0..MaxFailures,
           UNCHANGED <<mutex, pools, pc, wanted, chosen, held, stale, deactivated>>,
           \A c \in Connections : status[c] = "finished" => status'[c] = "finished"
    PROVE  Lending'
<1> USE TypeSplits DEF Lending, pools
<1>1. TypeOK'
  BY DEF ThreadsOK, PoolsOK
<1>2. ConnectionsAreExclusive'
  BY DEF ConnectionsAreExclusive
<1>3. ConnectionsAccounted'
  BY DEF ConnectionsAccounted, InUse
<1>4. OneCallAtATime' /\ HandlesHaveOneOwner' /\ AtHand'
  BY DEF OneCallAtATime, HandlesHaveOneOwner, AtHand, InUse
<1> QED BY <1>1, <1>2, <1>3, <1>4

LEMMA CommandsKeep ==
    ASSUME Lending, NEW t \in Threads, NEW h \in Handles,
           \/ Execute(t, h) \/ ExecuteFails(t, h) \/ ExecuteNothing(t, h)
           \/ CloseCommandResult(t, h)
           \/ BeginTransaction(t, h) \/ EndTransaction(t, h)
    PROVE  Lending'
<1> DEFINE c == associatedConnection[h]
<1> USE TypeSplits DEF Lending
<1>1. /\ c \in Connections
      /\ UNCHANGED <<mutex, pools, pc, wanted, chosen, held, stale, deactivated>>
      /\ \/ UNCHANGED status
         \/ /\ status[c] = "ok"
            /\ \E result \in {"ok", "bad"} : status' = [status EXCEPT ![c] = result]
  BY DEF Execute, ExecuteFails, ExecuteNothing, CloseCommandResult,
         BeginTransaction, EndTransaction, Use, PoolsOK
<1>2. /\ \/ UNCHANGED pgResult
         \/ \E user \in {t, None} : pgResult' = [pgResult EXCEPT ![c] = user]
      /\ \/ UNCHANGED transaction
         \/ \E user \in {t, None} : transaction' = [transaction EXCEPT ![c] = user]
  BY DEF Execute, ExecuteFails, ExecuteNothing, CloseCommandResult,
         BeginTransaction, EndTransaction
<1>3. UNCHANGED failures \/ (failures < MaxFailures /\ failures' = failures + 1)
  BY DEF Execute, ExecuteFails, ExecuteNothing, CloseCommandResult,
         BeginTransaction, EndTransaction
<1>4. accidents' \subseteq accidents \cup {"stale_handle"}
  BY DEF Execute, ExecuteFails, ExecuteNothing, CloseCommandResult,
         BeginTransaction, EndTransaction, Use
<1> HIDE DEF c
<1>5. ServerOK'
  BY <1>1, <1>2 DEF ServerOK
<1>6. failures' \in 0..MaxFailures
  BY <1>3, MaxFailuresAssumption
<1>7. HistoryOK'
  BY <1>1, <1>4 DEF HistoryOK
<1> QED BY <1>1, <1>5, <1>6, <1>7, ServerStepKeeps DEF ServerOK

LEMMA ReserveKeeps ==
    ASSUME Lending, NEW t \in Threads, NEW s \in Sets, Reserve(t, s)
    PROVE Lending'
<1> USE TypeSplits, IdentityAssumption
    DEF Lending, Reserve, Goto, Idle, pools, server, history
<1>1. ThreadsOK' /\ PoolsOK'
  BY DEF ThreadsOK, PoolsOK
<1>2. ServerOK' /\ HistoryOK'
  BY DEF ServerOK, HistoryOK
<1>8. failures' \in 0..MaxFailures
  OBVIOUS
<1>3. ConnectionsAreExclusive'
  BY DEF ConnectionsAreExclusive
<1>4. ConnectionsAccounted'
  BY DEF ConnectionsAccounted, InUse
<1>5. OneCallAtATime'
  BY DEF OneCallAtATime
<1>6. HandlesHaveOneOwner'
  BY DEF HandlesHaveOneOwner, InUse
<1>7. AtHand'
  BY DEF ThreadsOK, AtHand
<1> QED BY <1>1, <1>2, <1>3, <1>4, <1>5, <1>6, <1>7

LEMMA ReserveReadsKeeps ==
    ASSUME Lending, NEW t \in Threads, ReserveReads(t)
    PROVE Lending'
<1> USE TypeSplits, IdentityAssumption
    DEF Lending, ReserveReads, Goto, pools, server, history
<1>1. ThreadsOK' /\ PoolsOK'
  BY DEF ThreadsOK, PoolsOK, Available
<1>2. ServerOK' /\ HistoryOK'
  BY DEF ServerOK, HistoryOK
<1>8. failures' \in 0..MaxFailures
  OBVIOUS
<1>3. ConnectionsAreExclusive'
  BY DEF ConnectionsAreExclusive
<1>4. ConnectionsAccounted'
  BY DEF ConnectionsAccounted, InUse
<1>5. OneCallAtATime'
  BY DEF ThreadsOK, OneCallAtATime
<1>6. HandlesHaveOneOwner'
  BY DEF HandlesHaveOneOwner, InUse
<1>7. AtHand'
  BY DEF ThreadsOK, AtHand, Available
<1> QED BY <1>1, <1>2, <1>3, <1>4, <1>5, <1>6, <1>7

LEMMA ReserveTakesKeeps ==
    ASSUME Lending, NEW t \in Threads, ReserveTakes(t)
    PROVE Lending'
<1> USE TypeSplits, IdentityAssumption
    DEF Lending, ReserveTakes, Goto, server, history
<1>1. ThreadsOK' /\ PoolsOK'
  BY DEF ThreadsOK, PoolsOK
<1>2. ServerOK' /\ HistoryOK'
  BY DEF ServerOK, HistoryOK
<1>8. failures' \in 0..MaxFailures
  OBVIOUS
<1>3. ConnectionsAreExclusive'
  BY DEF ConnectionsAreExclusive, HandlesHaveOneOwner, AtHand
<1>4. ConnectionsAccounted'
  BY DEF ThreadsOK, PoolsOK, ConnectionsAccounted, HandlesHaveOneOwner, InUse
<1>5. OneCallAtATime'
  BY DEF ThreadsOK, OneCallAtATime
<1>6. HandlesHaveOneOwner'
  BY DEF ThreadsOK, HandlesHaveOneOwner, InUse
<1>7. AtHand'
  BY DEF ThreadsOK, OneCallAtATime, AtHand
<1> QED BY <1>1, <1>2, <1>3, <1>4, <1>5, <1>6, <1>7

LEMMA ReleaseKeeps ==
    ASSUME Lending, NEW t \in Threads, Release(t)
    PROVE Lending'
<1> USE TypeSplits, IdentityAssumption
    DEF Lending, Release, Goto, Idle, pools, server, history
<1>1. ThreadsOK' /\ PoolsOK'
  BY DEF ThreadsOK, PoolsOK
<1>2. ServerOK' /\ HistoryOK'
  BY DEF ServerOK, HistoryOK
<1>8. failures' \in 0..MaxFailures
  OBVIOUS
<1>3. ConnectionsAreExclusive'
  BY DEF ConnectionsAreExclusive
<1>4. ConnectionsAccounted'
  BY DEF ConnectionsAccounted, InUse
<1>5. OneCallAtATime'
  BY DEF OneCallAtATime
<1>6. HandlesHaveOneOwner'
  BY DEF HandlesHaveOneOwner, InUse
<1>7. AtHand'
  BY DEF AtHand
<1> QED BY <1>1, <1>2, <1>3, <1>4, <1>5, <1>6, <1>7

LEMMA ReleaseDissociatesKeeps ==
    ASSUME Lending, NEW t \in Threads, ReleaseDissociates(t) PROVE Lending'
<1> DEFINE c == associatedConnection[held[t]]
<1> USE TypeSplits, IdentityAssumption DEF Lending
<1>1. /\ pc[t] = "release" /\ mutex = None /\ mutex' = t
      /\ chosen' = [chosen EXCEPT ![t] = c]
      /\ associatedConnection' = [associatedConnection EXCEPT ![held[t]] = None]
      /\ pc' = [pc EXCEPT ![t] = IF c = None THEN "return" ELSE "clean"]
      /\ UNCHANGED <<freeConnections, freeHandles, status, pgResult, transaction,
                     wanted, held, stale, deactivated, failures>>
  BY DEF ReleaseDissociates, Goto, server
<1>2. held[t] \in Handles /\ c \in Connections \cup {None}
  BY <1>1 DEF ThreadsOK, PoolsOK, HandlesHaveOneOwner
<1> HIDE DEF c
<1>3. ThreadsOK' /\ PoolsOK'
  BY <1>1, <1>2 DEF ThreadsOK, PoolsOK
<1>4. ServerOK'
  BY <1>1 DEF ServerOK
<1>5. HistoryOK'
  BY DEF ReleaseDissociates, HistoryOK
<1>6. /\ c # None => c \notin freeConnections
      /\ \A h \in Handles \ {held[t]} : c # None => associatedConnection[h] # c
  BY <1>2 DEF c, HandlesHaveOneOwner, ConnectionsAreExclusive
<1>7. /\ associatedConnection'[held[t]] = None
      /\ \A h \in Handles \ {held[t]} : associatedConnection'[h] = associatedConnection[h]
  BY <1>1, <1>2 DEF PoolsOK
<1>8. ConnectionsAreExclusive'
  BY <1>1 DEF ConnectionsAreExclusive
<1>9. ConnectionsAccounted'
  BY <1>1 DEF c, ConnectionsAccounted, InUse, ThreadsOK
<1>10. OneCallAtATime'
  BY <1>1 DEF OneCallAtATime, ThreadsOK
<1>11. HandlesHaveOneOwner'
  BY <1>1 DEF HandlesHaveOneOwner, InUse
<1>12. AtHand'
  <2>1. \A u \in Threads \ {t} :
            /\ pc'[u] = pc[u] /\ chosen'[u] = chosen[u]
            /\ pc[u] \notin {"take", "clean", "reset", "return", "deactivate"}
    BY <1>1 DEF OneCallAtATime
  <2>2. pc'[t] = (IF c = None THEN "return" ELSE "clean") /\ chosen'[t] = c
    BY <1>1 DEF ThreadsOK
  <2>3. \A h \in Handles : c # None => associatedConnection'[h] # c
    BY <1>6, <1>7
  <2>4. c \notin freeConnections
    BY <1>6 DEF PoolsOK
  <2>5. pc[t] = "release" /\ held' = held /\ wanted' = wanted
    BY <1>1
  <2>6. /\ pc'[t] \in {"clean", "return"} /\ chosen'[t] = c
        /\ pc'[t] = "clean" => c # None
        /\ associatedConnection'[held'[t]] = None
    BY <1>7, <2>2, <2>5
  <2> QED BY <1>1, <2>3, <2>4, <2>6 DEF AtHand
<1> QED BY <1>1, <1>3, <1>4, <1>5, <1>8, <1>9, <1>10, <1>11, <1>12

LEMMA CleanKeeps == ASSUME Lending, NEW t \in Threads, Clean(t) PROVE Lending'
<1> USE TypeSplits, IdentityAssumption DEF Lending, Clean, Goto, pools, history
<1>1. ThreadsOK' /\ PoolsOK'
  BY DEF ThreadsOK, PoolsOK
<1>2. ServerOK' /\ HistoryOK'
  BY DEF ServerOK, HistoryOK
<1>8. failures' \in 0..MaxFailures
  OBVIOUS
<1>3. ConnectionsAreExclusive'
  BY DEF ConnectionsAreExclusive
<1>4. ConnectionsAccounted'
  BY DEF ConnectionsAccounted, InUse
<1>5. OneCallAtATime'
  BY DEF OneCallAtATime
<1>6. HandlesHaveOneOwner'
  BY DEF HandlesHaveOneOwner, InUse
<1>7. AtHand'
  BY DEF AtHand
<1> QED BY <1>1, <1>2, <1>3, <1>4, <1>5, <1>6, <1>7

LEMMA ResetConnectionKeeps ==
    ASSUME Lending, NEW t \in Threads, ResetConnection(t)
    PROVE Lending'
<1> USE TypeSplits, IdentityAssumption
    DEF Lending, ResetConnection, Goto, pools, history
<1>1. ThreadsOK' /\ PoolsOK'
  BY DEF ThreadsOK, PoolsOK
<1>2. ServerOK' /\ HistoryOK'
  BY DEF ServerOK, HistoryOK
<1>8. failures' \in 0..MaxFailures
  OBVIOUS
<1>3. ConnectionsAreExclusive'
  BY DEF ConnectionsAreExclusive
<1>4. ConnectionsAccounted'
  BY DEF ConnectionsAccounted, InUse
<1>5. OneCallAtATime'
  BY DEF OneCallAtATime
<1>6. HandlesHaveOneOwner'
  BY DEF HandlesHaveOneOwner, InUse
<1>7. AtHand'
  BY DEF AtHand
<1> QED BY <1>1, <1>2, <1>3, <1>4, <1>5, <1>6, <1>7

LEMMA ResetFailsKeeps ==
    ASSUME Lending, NEW t \in Threads, ResetFails(t)
    PROVE Lending'
<1> USE TypeSplits, IdentityAssumption DEF Lending, ResetFails, Goto, pools
<1>1. ThreadsOK' /\ PoolsOK'
  BY DEF ThreadsOK, PoolsOK
<1>2. ServerOK' /\ HistoryOK'
  BY DEF ServerOK, HistoryOK
<1>8. failures' \in 0..MaxFailures
  BY MaxFailuresAssumption
<1>3. ConnectionsAreExclusive'
  BY DEF ConnectionsAreExclusive
<1>4. ConnectionsAccounted'
  BY DEF ConnectionsAccounted, InUse
<1>5. OneCallAtATime'
  BY DEF OneCallAtATime
<1>6. HandlesHaveOneOwner'
  BY DEF HandlesHaveOneOwner, InUse
<1>7. AtHand'
  BY DEF AtHand
<1> QED BY <1>1, <1>2, <1>3, <1>4, <1>5, <1>6, <1>7, <1>8

LEMMA ReturnKeeps == ASSUME Lending, NEW t \in Threads, Return(t) PROVE Lending'
<1> USE TypeSplits, IdentityAssumption
    DEF Lending, Return, Goto, server, history
<1>1. ThreadsOK' /\ PoolsOK'
  BY DEF ThreadsOK, PoolsOK, HandlesHaveOneOwner
<1>2. ServerOK' /\ HistoryOK'
  BY DEF ServerOK, HistoryOK
<1>8. failures' \in 0..MaxFailures
  OBVIOUS
<1>3. ConnectionsAreExclusive'
  BY DEF ConnectionsAreExclusive
<1>4. ConnectionsAccounted'
  BY DEF ConnectionsAccounted, AtHand, InUse
<1>5. OneCallAtATime'
  BY DEF ThreadsOK, OneCallAtATime
<1>6. HandlesHaveOneOwner'
  BY DEF ThreadsOK, PoolsOK, ConnectionsAreExclusive, HandlesHaveOneOwner,
         AtHand, InUse
<1>7. AtHand'
  BY DEF ThreadsOK, OneCallAtATime, AtHand
<1> QED BY <1>1, <1>2, <1>3, <1>4, <1>5, <1>6, <1>7

LEMMA DeactivateKeeps ==
    ASSUME Lending, NEW t \in Threads, NEW s \in Sets, Deactivate(t, s)
    PROVE Lending'
<1> USE TypeSplits, IdentityAssumption
    DEF Lending, Deactivate, Goto, Idle, pools, server
<1>1. ThreadsOK' /\ PoolsOK'
  BY DEF ThreadsOK, PoolsOK
<1>2. ServerOK' /\ HistoryOK'
  BY DEF ServerOK, HistoryOK
<1>8. failures' \in 0..MaxFailures
  OBVIOUS
<1>3. ConnectionsAreExclusive'
  BY DEF ConnectionsAreExclusive
<1>4. ConnectionsAccounted'
  BY DEF ConnectionsAccounted, InUse
<1>5. OneCallAtATime'
  BY DEF ThreadsOK, OneCallAtATime
<1>6. HandlesHaveOneOwner'
  BY DEF HandlesHaveOneOwner, InUse
<1>7. AtHand'
  BY DEF ThreadsOK, AtHand
<1> QED BY <1>1, <1>2, <1>3, <1>4, <1>5, <1>6, <1>7

LEMMA ShutDownNextKeeps ==
    ASSUME Lending, NEW t \in Threads, ShutDownNext(t)
    PROVE Lending'
<1> USE TypeSplits, IdentityAssumption DEF Lending, ShutDownNext, history
<1>1. ThreadsOK' /\ PoolsOK'
  BY DEF ThreadsOK, PoolsOK
<1>2. ServerOK' /\ HistoryOK'
  BY DEF ServerOK, HistoryOK
<1>8. failures' \in 0..MaxFailures
  OBVIOUS
<1>3. ConnectionsAreExclusive'
  BY DEF ConnectionsAreExclusive
<1>4. ConnectionsAccounted'
  BY DEF ServerOK, ConnectionsAccounted, AtHand, InUse, Available
<1>5. OneCallAtATime'
  BY DEF OneCallAtATime
<1>6. HandlesHaveOneOwner'
  BY DEF HandlesHaveOneOwner, InUse
<1>7. AtHand'
  BY DEF OneCallAtATime, AtHand
<1> QED BY <1>1, <1>2, <1>3, <1>4, <1>5, <1>6, <1>7

(* How connections are lent is kept by every step, whatever is open on them. *)
LEMMA LendingKeeps == ASSUME Lending, [Next]_vars PROVE Lending'
<1>1. CASE UNCHANGED vars
  BY <1>1, TypeSplits, ServerStepKeeps
     DEF vars, server, history, Lending, ServerOK, HistoryOK
<1>2. ASSUME NEW t \in Threads, Inside(t) PROVE Lending'
  BY <1>2, ReserveReadsKeeps, ReserveTakesKeeps, ReleaseDissociatesKeeps,
     CleanKeeps, ResetConnectionKeeps, ResetFailsKeeps, ReturnKeeps,
     ShutDownNextKeeps DEF Inside
<1>3. ASSUME NEW t \in Threads,
             \/ \E s \in Sets : Reserve(t, s) \/ Deactivate(t, s)
             \/ Release(t)
      PROVE  Lending'
  BY <1>3, ReserveKeeps, DeactivateKeeps, ReleaseKeeps
<1> QED BY <1>1, <1>2, <1>3, CommandsKeep DEF Next

(* Commands open and close what is the thread's own, unless the handle is a *)
(* stale one.                                                               *)
LEMMA CommandsKeepSessions ==
    ASSUME IInv, NEW t \in Threads, NEW h \in Handles,
           \/ Execute(t, h) \/ ExecuteFails(t, h) \/ ExecuteNothing(t, h)
           \/ CloseCommandResult(t, h)
           \/ BeginTransaction(t, h) \/ EndTransaction(t, h)
    PROVE  SessionsAreSeparate' /\ FreeAreClean'
<1> DEFINE c == associatedConnection[h]
<1>1. /\ c \in Connections /\ h \in {held[t], stale[t]}
      /\ UNCHANGED <<mutex, freeConnections, associatedConnection, pc, chosen, held>>
  BY TypeSplits
     DEF Execute, ExecuteFails, ExecuteNothing, CloseCommandResult, IInv,
         Lending, BeginTransaction, EndTransaction, Use, pools, PoolsOK
<1>2. accidents' = accidents \cup IF h # held[t] THEN {"stale_handle"} ELSE {}
  BY DEF Execute, ExecuteFails, ExecuteNothing, CloseCommandResult,
         BeginTransaction, EndTransaction, Use
<1>3. /\ \/ UNCHANGED pgResult
         \/ \E user \in {t, None} : pgResult' = [pgResult EXCEPT ![c] = user]
      /\ \/ UNCHANGED transaction
         \/ \E user \in {t, None} : transaction' = [transaction EXCEPT ![c] = user]
  BY DEF Execute, ExecuteFails, ExecuteNothing, CloseCommandResult,
         BeginTransaction, EndTransaction
<1>4. CASE h # held[t]
  <2>1. "stale_handle" \in accidents' /\ accidents' # {}
    BY <1>2, <1>4
  <2> QED BY <2>1 DEF SessionsAreSeparate, FreeAreClean
<1>5. CASE h = held[t]
  <2>1. accidents' = accidents
    BY <1>2, <1>5
  <2>2. /\ \A d \in Connections \ {c} : pgResult'[d] = pgResult[d] /\ transaction'[d] = transaction[d]
        /\ pgResult'[c] \in {pgResult[c], t, None}
        /\ transaction'[c] \in {transaction[c], t, None}
    BY <1>3, TypeSplits DEF IInv, Lending, ServerOK
  <2>3. \A u \in Threads \ {t} : held[u] # None => associatedConnection[held[u]] # c
    BY <1>1, <1>5, IdentityAssumption, TypeSplits
       DEF IInv, Lending, ConnectionsAreExclusive, ThreadsOK
  <2>4. c \notin freeConnections /\ ~BeingReleased(c, {"clean", "reset", "return"})
    BY <1>1, IdentityAssumption
       DEF IInv, Lending, HandlesHaveOneOwner, AtHand, BeingReleased
  <2> HIDE DEF c
  <2>5. SessionsAreSeparate'
    <3> SUFFICES ASSUME NEW u \in Threads, held[u] # None,
                        associatedConnection[held[u]] # None
                 PROVE  LET d == associatedConnection[held[u]]
                        IN  /\ pgResult'[d] \in {u, None} \/ "stale_handle" \in accidents
                            /\ transaction'[d] \in {u, None} \/ accidents # {}
      BY <1>1, <2>1 DEF SessionsAreSeparate
    <3>1. associatedConnection[held[u]] \in Connections
      BY TypeSplits DEF IInv, Lending, ThreadsOK, PoolsOK
    <3>2. /\ pgResult[associatedConnection[held[u]]] \in {u, None} \/ "stale_handle" \in accidents
          /\ transaction[associatedConnection[held[u]]] \in {u, None} \/ accidents # {}
      BY DEF IInv, SessionsAreSeparate
    <3>3. u # t => associatedConnection[held[u]] # c
      BY <2>3
    <3>4. u = t => associatedConnection[held[u]] = c
      BY <1>5 DEF c
    <3> QED BY <2>2, <3>1, <3>2, <3>3
  <2>6. FreeAreClean'
    BY <1>1, <2>1, <2>2, <2>4 DEF IInv, FreeAreClean, BeingReleased
  <2> QED BY <2>5, <2>6
<1> QED BY <1>4, <1>5

(* What all the steps of a call but one have in common: they open nothing,  *)
(* give nobody a connection, and free what is closed.                       *)
NothingIsOpened ==
    /\ accidents \subseteq accidents'
    /\ \A c \in Connections :
          /\ pgResult'[c] \in {pgResult[c], None}
          /\ transaction'[c] \in {transaction[c], None}
NobodyGetsAConnection ==
    \A t \in Threads :
        (held'[t] # None /\ associatedConnection'[held'[t]] # None) =>
            /\ held'[t] = held[t]
            /\ associatedConnection'[held'[t]] = associatedConnection[held[t]]
FreedIsClosed ==
    \A c \in Connections :
        /\ (c \in freeConnections \/ BeingReleased(c, {"reset", "return"}))' =>
              \/ c \in freeConnections \/ BeingReleased(c, {"reset", "return"})
              \/ pgResult'[c] = None
        /\ (c \in freeConnections \/ BeingReleased(c, {"clean", "reset", "return"}))' =>
              \/ c \in freeConnections \/ BeingReleased(c, {"clean", "reset", "return"})
              \/ transaction'[c] = None \/ accidents' # {}

LEMMA ClosingKeepsSessions ==
    ASSUME IInv, NothingIsOpened, NobodyGetsAConnection, FreedIsClosed, PoolsOK', ThreadsOK'
    PROVE  SessionsAreSeparate' /\ FreeAreClean'
<1> USE IdentityAssumption
<1>1. SessionsAreSeparate'
  <2> SUFFICES ASSUME NEW t \in Threads, held'[t] # None,
                      associatedConnection'[held'[t]] # None
               PROVE  LET c == associatedConnection'[held'[t]]
                      IN  /\ pgResult'[c] \in {t, None} \/ "stale_handle" \in accidents'
                          /\ transaction'[c] \in {t, None} \/ accidents' # {}
    BY DEF SessionsAreSeparate
  <2> DEFINE c == associatedConnection'[held'[t]]
  <2>1. c \in Connections
    BY DEF PoolsOK, ThreadsOK
  <2>2. c = associatedConnection[held[t]] /\ held[t] # None
    BY DEF NobodyGetsAConnection
  <2>3. /\ pgResult[c] \in {t, None} \/ "stale_handle" \in accidents
        /\ transaction[c] \in {t, None} \/ accidents # {}
    BY <2>2 DEF IInv, SessionsAreSeparate
  <2> QED BY <2>1, <2>3 DEF NothingIsOpened
<1>2. FreeAreClean'
  BY DEF IInv, FreeAreClean, FreedIsClosed, NothingIsOpened
<1> QED BY <1>1, <1>2

LEMMA ReserveKeepsSessions ==
    ASSUME IInv, NEW t \in Threads, NEW s \in Sets, Reserve(t, s)
    PROVE  SessionsAreSeparate' /\ FreeAreClean'
<1> USE TypeSplits, IdentityAssumption
    DEF IInv, Lending, Reserve, Goto, Idle, pools, server, history
<1>1. NothingIsOpened
  BY DEF NothingIsOpened
<1>2. NobodyGetsAConnection
  BY DEF NobodyGetsAConnection
<1>3. FreedIsClosed
  BY DEF FreedIsClosed, BeingReleased
<1>4. PoolsOK' /\ ThreadsOK'
  BY ReserveKeeps
<1> QED BY <1>1, <1>2, <1>3, <1>4, ClosingKeepsSessions

LEMMA ReserveReadsKeepsSessions ==
    ASSUME IInv, NEW t \in Threads, ReserveReads(t)
    PROVE  SessionsAreSeparate' /\ FreeAreClean'
<1> USE TypeSplits, IdentityAssumption
    DEF IInv, Lending, ReserveReads, Goto, pools, server, history
<1>1. NothingIsOpened
  BY DEF NothingIsOpened
<1>2. NobodyGetsAConnection
  BY DEF NobodyGetsAConnection
<1>3. FreedIsClosed
  BY DEF FreedIsClosed, BeingReleased
<1>4. PoolsOK' /\ ThreadsOK'
  BY ReserveReadsKeeps
<1> QED BY <1>1, <1>2, <1>3, <1>4, ClosingKeepsSessions

LEMMA ReserveTakesKeepsSessions ==
    ASSUME IInv, NEW t \in Threads, ReserveTakes(t)
    PROVE  SessionsAreSeparate' /\ FreeAreClean'
<1> USE TypeSplits, IdentityAssumption
    DEF IInv, Lending, ReserveTakes, Goto, server, history
<1>1. PICK h \in freeHandles :
          /\ associatedConnection' = [associatedConnection EXCEPT ![h] = chosen[t]]
          /\ held' = [held EXCEPT ![t] = h]
  OBVIOUS
<1>2. chosen[t] # None =>
          /\ pgResult[chosen[t]] = None \/ "stale_handle" \in accidents
          /\ transaction[chosen[t]] = None \/ accidents # {}
  BY DEF AtHand, FreeAreClean, ThreadsOK
<1>3. h \in Handles /\ held'[t] = h /\ associatedConnection'[h] = chosen[t]
  BY <1>1 DEF PoolsOK, ThreadsOK
<1>4. \A u \in Threads \ {t} :
          /\ held'[u] = held[u] /\ held[u] # h
          /\ held[u] # None => associatedConnection'[held[u]] = associatedConnection[held[u]]
  BY DEF HandlesHaveOneOwner
<1>5. SessionsAreSeparate'
  <2> SUFFICES ASSUME NEW u \in Threads, held'[u] # None,
                      associatedConnection'[held'[u]] # None
               PROVE  LET c == associatedConnection'[held'[u]]
                      IN  /\ pgResult[c] \in {u, None} \/ "stale_handle" \in accidents
                          /\ transaction[c] \in {u, None} \/ accidents # {}
    BY DEF SessionsAreSeparate
  <2>1. CASE u = t
    BY <2>1, <1>2, <1>3
  <2>2. CASE u # t
    BY <2>2, <1>4 DEF SessionsAreSeparate
  <2> QED BY <2>1, <2>2
<1>6. FreeAreClean'
  BY DEF FreeAreClean, BeingReleased, ThreadsOK
<1> QED BY <1>5, <1>6

LEMMA ReleaseKeepsSessions ==
    ASSUME IInv, NEW t \in Threads, Release(t)
    PROVE  SessionsAreSeparate' /\ FreeAreClean'
<1> USE TypeSplits, IdentityAssumption
    DEF IInv, Lending, Release, Goto, Idle, pools, server, history
<1>1. NothingIsOpened
  BY DEF NothingIsOpened
<1>2. NobodyGetsAConnection
  BY DEF NobodyGetsAConnection
<1>3. FreedIsClosed
  BY DEF FreedIsClosed, BeingReleased
<1>4. PoolsOK' /\ ThreadsOK'
  BY ReleaseKeeps
<1> QED BY <1>1, <1>2, <1>3, <1>4, ClosingKeepsSessions

LEMMA ReleaseDissociatesKeepsSessions ==
    ASSUME IInv, NEW t \in Threads, ReleaseDissociates(t)
    PROVE  SessionsAreSeparate' /\ FreeAreClean'
<1> USE TypeSplits, IdentityAssumption
    DEF IInv, Lending, ReleaseDissociates, Goto, server
<1>1. NothingIsOpened
  BY DEF NothingIsOpened
<1>2. NobodyGetsAConnection
  BY DEF NobodyGetsAConnection, ThreadsOK, PoolsOK
<1>3. FreedIsClosed
  BY DEF FreedIsClosed, BeingReleased, ThreadsOK
<1>4. PoolsOK' /\ ThreadsOK'
  BY ReleaseDissociatesKeeps
<1> QED BY <1>1, <1>2, <1>3, <1>4, ClosingKeepsSessions

LEMMA CleanKeepsSessions ==
    ASSUME IInv, NEW t \in Threads, Clean(t)
    PROVE  SessionsAreSeparate' /\ FreeAreClean'
<1> USE TypeSplits, IdentityAssumption
    DEF IInv, Lending, Clean, Goto, pools, history
<1>1. NothingIsOpened
  BY DEF NothingIsOpened
<1>2. NobodyGetsAConnection
  BY DEF NobodyGetsAConnection
<1>3. FreedIsClosed
  BY DEF FreedIsClosed, BeingReleased, ServerOK
<1>4. PoolsOK' /\ ThreadsOK'
  BY CleanKeeps
<1> QED BY <1>1, <1>2, <1>3, <1>4, ClosingKeepsSessions

LEMMA ResetConnectionKeepsSessions ==
    ASSUME IInv, NEW t \in Threads, ResetConnection(t)
    PROVE  SessionsAreSeparate' /\ FreeAreClean'
<1> USE TypeSplits, IdentityAssumption
    DEF IInv, Lending, ResetConnection, Goto, pools, history
<1>1. NothingIsOpened
  BY DEF NothingIsOpened
<1>2. NobodyGetsAConnection
  BY DEF NobodyGetsAConnection
<1>3. FreedIsClosed
  BY DEF FreedIsClosed, BeingReleased
<1>4. PoolsOK' /\ ThreadsOK'
  BY ResetConnectionKeeps
<1> QED BY <1>1, <1>2, <1>3, <1>4, ClosingKeepsSessions

LEMMA ResetFailsKeepsSessions ==
    ASSUME IInv, NEW t \in Threads, ResetFails(t)
    PROVE  SessionsAreSeparate' /\ FreeAreClean'
<1> USE TypeSplits, IdentityAssumption
    DEF IInv, Lending, ResetFails, Goto, pools
<1>1. NothingIsOpened
  BY DEF NothingIsOpened
<1>2. NobodyGetsAConnection
  BY DEF NobodyGetsAConnection
<1>3. FreedIsClosed
  BY DEF FreedIsClosed, BeingReleased
<1>4. PoolsOK' /\ ThreadsOK'
  BY ResetFailsKeeps
<1> QED BY <1>1, <1>2, <1>3, <1>4, ClosingKeepsSessions

LEMMA ReturnKeepsSessions ==
    ASSUME IInv, NEW t \in Threads, Return(t)
    PROVE  SessionsAreSeparate' /\ FreeAreClean'
<1> USE TypeSplits, IdentityAssumption
    DEF IInv, Lending, Return, Goto, server, history
<1>1. NothingIsOpened
  BY DEF NothingIsOpened
<1>2. NobodyGetsAConnection
  BY DEF NobodyGetsAConnection
<1>3. FreedIsClosed
  BY DEF FreedIsClosed, BeingReleased
<1>4. PoolsOK' /\ ThreadsOK'
  BY ReturnKeeps
<1> QED BY <1>1, <1>2, <1>3, <1>4, ClosingKeepsSessions

LEMMA DeactivateKeepsSessions ==
    ASSUME IInv, NEW t \in Threads, NEW s \in Sets, Deactivate(t, s)
    PROVE  SessionsAreSeparate' /\ FreeAreClean'
<1> USE TypeSplits, IdentityAssumption
    DEF IInv, Lending, Deactivate, Goto, Idle, pools, server
<1>1. NothingIsOpened
  BY DEF NothingIsOpened
<1>2. NobodyGetsAConnection
  BY DEF NobodyGetsAConnection
<1>3. FreedIsClosed
  BY DEF FreedIsClosed, BeingReleased
<1>4. PoolsOK' /\ ThreadsOK'
  BY DeactivateKeeps
<1> QED BY <1>1, <1>2, <1>3, <1>4, ClosingKeepsSessions

LEMMA ShutDownNextKeepsSessions ==
    ASSUME IInv, NEW t \in Threads, ShutDownNext(t)
    PROVE  SessionsAreSeparate' /\ FreeAreClean'
<1> USE TypeSplits, IdentityAssumption DEF IInv, Lending, ShutDownNext, history
<1>1. NothingIsOpened
  BY DEF NothingIsOpened
<1>2. NobodyGetsAConnection
  BY DEF NobodyGetsAConnection
<1>3. FreedIsClosed
  BY DEF FreedIsClosed, BeingReleased
<1>4. PoolsOK' /\ ThreadsOK'
  BY ShutDownNextKeeps
<1> QED BY <1>1, <1>2, <1>3, <1>4, ClosingKeepsSessions

LEMMA SessionsKeep ==
    ASSUME IInv, [Next]_vars PROVE SessionsAreSeparate' /\ FreeAreClean'
<1>1. CASE UNCHANGED vars
  BY <1>1
     DEF vars, pools, server, history, IInv, SessionsAreSeparate, FreeAreClean,
         BeingReleased
<1>2. ASSUME NEW t \in Threads, Inside(t) PROVE SessionsAreSeparate' /\ FreeAreClean'
  BY <1>2, ReserveReadsKeepsSessions, ReserveTakesKeepsSessions,
     ReleaseDissociatesKeepsSessions, CleanKeepsSessions,
     ResetConnectionKeepsSessions, ResetFailsKeepsSessions,
     ReturnKeepsSessions, ShutDownNextKeepsSessions DEF Inside
<1>3. ASSUME NEW t \in Threads,
             \/ \E s \in Sets : Reserve(t, s) \/ Deactivate(t, s)
             \/ Release(t)
      PROVE  SessionsAreSeparate' /\ FreeAreClean'
  BY <1>3, ReserveKeepsSessions, DeactivateKeepsSessions, ReleaseKeepsSessions
<1> QED BY <1>1, <1>2, <1>3, CommandsKeepSessions DEF Next

(* How connections are lent, and what is open on them, from any step to the *)
(* next, for any number of threads, sets, connections and handles           *)
(* (DataManager.cpp, ConnectionSet.cpp).                                    *)
THEOREM Invariance == Spec => []IInv
<1>1. ASSUME Init PROVE IInv
  <2>1. TypeOK
    BY <1>1, MaxFailuresAssumption DEF Init, TypeOK
  <2>2. ConnectionsAreExclusive /\ ConnectionsAccounted /\ OneCallAtATime
    BY <1>1, IdentityAssumption
       DEF Init, ConnectionsAreExclusive, ConnectionsAccounted, OneCallAtATime
  <2>3. HandlesHaveOneOwner /\ AtHand
    BY <1>1, IdentityAssumption DEF Init, HandlesHaveOneOwner, AtHand
  <2>4. SessionsAreSeparate /\ FreeAreClean
    BY <1>1 DEF Init, SessionsAreSeparate, FreeAreClean
  <2> QED BY <2>1, <2>2, <2>3, <2>4 DEF IInv, Lending
<1>2. IInv /\ [Next]_vars => IInv'
  BY LendingKeeps, SessionsKeep DEF IInv
<1> QED BY <1>1, <1>2, PTL DEF Spec

(* A connection is free, lent to one thread, or at hand in one call, and    *)
(* none is lost, although the pools themselves are not safe                 *)
(* (DataManager.cpp, ConnectionSet.cpp, SyncObjectPool.cpp:73-121).         *)
THEOREM ConnectionsAreLent == Spec => []Lending
<1>1. IInv => Lending
  BY DEF IInv
<1> QED BY <1>1, Invariance, PTL

(* A thread finds on its connection neither another's result nor another's  *)
(* transaction, unless a stale handle was used or one was left open.        *)
THEOREM SessionsStaySeparate == Spec => []SessionsAreSeparate
<1>1. IInv => SessionsAreSeparate
  BY DEF IInv
<1> QED BY <1>1, Invariance, PTL
=============================================================================
