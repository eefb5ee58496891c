---------------------------- MODULE MeteringProofs ----------------------------
(***************************************************************************)
(* Type correctness, the safety of the usage meter, the exactness of the    *)
(* quota counters and the agreement of the pages that report usage, for    *)
(* every finite set of calls and organizations, every amount and every     *)
(* number of faults.                                                       *)
(***************************************************************************)
EXTENDS MeteringProps, FiniteSetTheorems, TLAPS

(* What a call adds is a row of natural numbers. *)
LEMMA DeltaType == \A c \in Calls : Delta(c) \in Row
  <1>1. TAKE c \in Calls
  <1>2. TokensOf[c] \in Nat
    BY ConstantsAssumption
  <1> QED
    BY <1>2 DEF Delta, Row, Fields

(* The walk over the quota counters stays among the counters. *)
LEMMA CounterType ==
    \A c \in Calls : /\ FirstCounter(c) \in Fields
                     /\ \A f \in Fields : NextCounter(c, f) \in Fields \union {"done"}
  BY DEF FirstCounter, NextCounter, Fields

(* An organization and a month make the key of a meter row. *)
LEMMA KeyType == \A c \in Calls, m \in Months : <<OrgOf[c], m>> \in Keys
  BY ConstantsAssumption DEF Keys

(* A row just inserted is a row. *)
LEMMA ZeroType == ZeroRow \in Row
  BY DEF ZeroRow, Row

(* The row a transaction writes is a row. *)
LEMMA WrittenType == ASSUME TypeOK, NEW c \in Calls
                     PROVE  Written(c) \in Row
  <1> DEFINE row == IF meter[key[c]] = NoRow THEN ZeroRow ELSE meter[key[c]]
  <1>1. row \in Row
    BY ZeroType DEF TypeOK
  <1>2. Delta(c) \in Row /\ loaded[c] \in Row
    BY DeltaType DEF TypeOK
  <1>3. \A f \in Fields : (IF Delta(c)[f] = 0 THEN row[f] ELSE loaded[c][f] + Delta(c)[f]) \in Nat
    <2> HIDE DEF row
    <2> QED BY <1>1, <1>2 DEF Row
  <1>4. Written(c) = [f \in Fields |-> IF Delta(c)[f] = 0 THEN row[f] ELSE loaded[c][f] + Delta(c)[f]]
    BY DEF Written
  <1> HIDE DEF row
  <1> QED
    BY <1>3, <1>4 DEF Row

(* Metering starts with its types. *)
LEMMA TypeInit == Init => TypeOK
  <1> SUFFICES ASSUME Init PROVE TypeOK
    OBVIOUS
  <1>1. 0 \in Months /\ 0 \in 0..MaxFaults
    BY ConstantsAssumption DEF Months
  <1>2. key \in [Calls -> Keys]
    BY <1>1, KeyType DEF Init
  <1> QED
    BY <1>1, <1>2, ZeroType DEF Init, TypeOK, Places

(* Every statement of a metering call keeps the types. *)
LEMMA TypeStep == TypeOK /\ [Next]_vars => TypeOK'
  <1> SUFFICES ASSUME TypeOK, [Next]_vars
               PROVE  TypeOK'
    OBVIOUS
  <1> USE DEF TypeOK, Places, Database
  <1>0. Fault => faults' \in 0..MaxFaults
    BY ConstantsAssumption DEF Fault
  <1>r. ASSUME NEW c \in Calls, Release(c)
        PROVE  inserting' \in [Keys -> Calls \union {NoCall}]
    BY <1>r DEF Release
  <1>1. ASSUME NEW c \in Calls, Start(c) PROVE TypeOK'
    BY <1>1, KeyType DEF Start
  <1>2. ASSUME NEW c \in Calls, Select(c) PROVE TypeOK'
    BY <1>2 DEF Select
  <1>3. ASSUME NEW c \in Calls, InsertOK(c) PROVE TypeOK'
    BY <1>3, ZeroType DEF InsertOK
  <1>4. ASSUME NEW c \in Calls, InsertConflict(c) \/ InsertError(c) PROVE TypeOK'
    BY <1>0, <1>4 DEF InsertConflict, InsertError, DropSession
  <1>5. ASSUME NEW c \in Calls, Reselect(c) PROVE TypeOK'
    BY <1>5 DEF Reselect
  <1>6. ASSUME NEW c \in Calls, Commit(c) PROVE TypeOK'
    <2>1. meter' \in [Keys -> Row \union {NoRow}]
      BY <1>6, WrittenType DEF Commit
    <2>2. applied' \in [Keys -> Row]
      <3>1. [f \in Fields |-> applied[key[c]][f] + Delta(c)[f]] \in Row
        BY DeltaType DEF Row
      <3> QED
        BY <1>6, <3>1 DEF Commit
    <2>3. events' \subseteq Calls /\ pending' \subseteq Calls /\ pc' \in [Calls -> Places]
      BY <1>6, CounterType DEF Commit
    <2>4. inserting' \in [Keys -> Calls \union {NoCall}]
      BY <1>6, <1>r DEF Commit
    <2> QED
      BY <1>6, <2>1, <2>2, <2>3, <2>4 DEF Commit
  <1>7. ASSUME NEW c \in Calls, LastInsertConflict(c) \/ TransactionError(c) PROVE TypeOK'
    <2>1. inserting' \in [Keys -> Calls \union {NoCall}]
      BY <1>7, <1>r DEF LastInsertConflict, TransactionError, Abandon
    <2>2. faults' \in 0..MaxFaults
      BY <1>0, <1>7 DEF LastInsertConflict, TransactionError
    <2> QED
      BY <1>7, <2>1, <2>2, CounterType DEF LastInsertConflict, TransactionError, Abandon
  <1>8. ASSUME NEW c \in Calls, Count(c) PROVE TypeOK'
    <2> DEFINE k == <<OrgOf[c], month>>
    <2>1. k \in Keys
      BY KeyType
    <2>2. pc[c] \in Fields /\ redis[k] \in Row /\ Delta(c) \in Row
      BY <1>8, <2>1, DeltaType DEF Count
    <2>3. [redis[k] EXCEPT ![pc[c]] = redis[k][pc[c]] + Delta(c)[pc[c]]] \in Row
      <3> HIDE DEF k
      <3> QED BY <2>2 DEF Row
    <2>4. redis' \in [Keys -> Row]
      BY <1>8, <2>1, <2>3 DEF Count
    <2> QED
      BY <1>8, <2>4, CounterType DEF Count
  <1>9. ASSUME NEW c \in Calls, CountFails(c) PROVE TypeOK'
    BY <1>0, <1>9, CounterType DEF CountFails
  <1>10. ASSUME NEW c \in Calls, Die(c) PROVE TypeOK'
    BY <1>0, <1>r, <1>10 DEF Die
  <1>11. CASE NextMonth
    BY <1>11, ConstantsAssumption DEF NextMonth, Months
  <1>12. CASE UNCHANGED vars
    BY <1>12 DEF vars
  <1>13. ASSUME NEW o \in Orgs, NEW m \in Months, NEW f \in Fields, Expire(o, m, f) PROVE TypeOK'
    <2> DEFINE k == <<o, m>>
    <2>1. k \in Keys
      BY DEF Keys
    <2>2. redis[k] \in Row /\ expired[k] \in Row
      BY <2>1
    <2>3. /\ [redis[k] EXCEPT ![f] = 0] \in Row
          /\ [expired[k] EXCEPT ![f] = expired[k][f] + redis[k][f]] \in Row
      <3> HIDE DEF k
      <3> QED BY <2>2 DEF Row
    <2>4. redis' \in [Keys -> Row] /\ expired' \in [Keys -> Row]
      BY <1>13, <2>1, <2>3 DEF Expire
    <2> QED
      BY <1>13, <2>4 DEF Expire
  <1> QED
    BY <1>1, <1>2, <1>3, <1>4, <1>5, <1>6, <1>7, <1>8, <1>9, <1>10, <1>11, <1>12, <1>13
       DEF Next, Step, Failure, Insert, LastInsert

(* Rows, counters, sessions and the row lock always have their types: in   *)
(* particular the counters never leave the natural numbers, whatever       *)
(* interleaving and whatever fails (metering.py:16-149).                   *)
THEOREM TypeCorrect == Spec => []TypeOK
  BY TypeInit, TypeStep, PTL DEF Spec

-----------------------------------------------------------------------------
(* The strengthening: what a session loaded was committed by then, and a   *)
(* call that reaches its commit with no committed row is the inserter.     *)
LoadedWasApplied ==
    \A c \in Calls : pc[c] = "commit" =>
        \A f \in Fields : loaded[c][f] <= applied[key[c]][f]

CommitterHoldsInsert ==
    \A c \in Calls : pc[c] = "commit" /\ meter[key[c]] = NoRow => inserting[key[c]] = c

EventsStarted == \A c \in events : pc[c] # "idle"

IInv ==
    /\ MeterNeverOvercounts
    /\ LoadedWasApplied
    /\ InsertNeverOverwrites
    /\ CommitterHoldsInsert
    /\ EventsStarted
    /\ EventsAreMetered

(* With no rows and no calls the strengthening holds. *)
LEMMA IInvInit == Init => IInv
  BY ConstantsAssumption DEF Init, IInv, MeterNeverOvercounts, LoadedWasApplied,
     InsertNeverOverwrites, CommitterHoldsInsert, EventsStarted, EventsAreMetered

(* What a transaction writes is at most what was applied, its own included. *)
LEMMA WrittenBounded ==
    ASSUME TypeOK, IInv, NEW c \in Calls, pc[c] = "commit", NEW f \in Fields
    PROVE  Written(c)[f] <= applied[key[c]][f] + Delta(c)[f]
  <1>1. Delta(c) \in Row /\ loaded[c] \in Row /\ applied[key[c]] \in Row /\ key[c] \in Keys
    BY DeltaType DEF TypeOK
  <1>2. loaded[c][f] <= applied[key[c]][f]
    BY DEF IInv, LoadedWasApplied
  <1>3. meter[key[c]] # NoRow => meter[key[c]] \in Row /\ meter[key[c]][f] <= applied[key[c]][f]
    BY <1>1 DEF IInv, MeterNeverOvercounts, TypeOK
  <1>4. Delta(c)[f] \in Nat /\ loaded[c][f] \in Nat /\ applied[key[c]][f] \in Nat
    BY <1>1 DEF Row
  <1>5. CASE Delta(c)[f] = 0 /\ meter[key[c]] = NoRow
    BY <1>4, <1>5 DEF Written, ZeroRow
  <1>6. CASE Delta(c)[f] = 0 /\ meter[key[c]] # NoRow
    BY <1>3, <1>4, <1>6 DEF Written
  <1>7. CASE Delta(c)[f] # 0
    BY <1>2, <1>4, <1>7 DEF Written
  <1> QED
    BY <1>5, <1>6, <1>7

(* A commit: the only step that writes rows, events and the history. *)
LEMMA IInvCommit == ASSUME TypeOK, IInv, NEW c \in Calls, Commit(c)
                    PROVE  IInv'
  <1> USE DEF Commit, TypeOK
  <1>1. /\ key[c] \in Keys /\ Delta(c) \in Row /\ Written(c) \in Row
        /\ FirstCounter(c) \in Fields /\ FirstCounter(c) \notin {"commit", "idle"}
    BY DeltaType, WrittenType, CounterType DEF Fields
  <1>2. \A f \in Fields : Written(c)[f] <= applied[key[c]][f] + Delta(c)[f]
    BY WrittenBounded
  <1>3. \A k \in Keys, f \in Fields :
            /\ applied[k][f] \in Nat /\ applied'[k][f] \in Nat
            /\ applied'[k][f] >= applied[k][f]
            /\ k = key[c] => applied'[k][f] = applied[k][f] + Delta(c)[f]
            /\ k # key[c] => applied'[k][f] = applied[k][f]
    BY <1>1 DEF Row
  <1>4. Written(c) # NoRow
    BY <1>1, ConstantsAssumption
  <1>5. \A k \in Keys : /\ k = key[c] => meter'[k] = Written(c)
                        /\ k # key[c] => meter'[k] = meter[k]
    BY <1>1
  <1>6. MeterNeverOvercounts'
    BY <1>2, <1>3, <1>5 DEF IInv, MeterNeverOvercounts
  <1>7. LoadedWasApplied'
    <2> SUFFICES ASSUME NEW d \in Calls, pc'[d] = "commit", NEW f \in Fields
                 PROVE  loaded'[d][f] <= applied'[key'[d]][f]
      BY DEF LoadedWasApplied
    <2>1. d # c /\ pc[d] = "commit"
      BY <1>1
    <2>2. loaded[d][f] <= applied[key[d]][f]
      BY <2>1 DEF IInv, LoadedWasApplied
    <2>3. key[d] \in Keys /\ loaded[d][f] \in Nat
      BY DEF Row
    <2> QED
      BY <1>3, <2>2, <2>3
  <1>8. InsertNeverOverwrites'
    <2> SUFFICES ASSUME NEW k \in Keys, inserting'[k] # NoCall
                 PROVE  /\ meter'[k] = NoRow
                        /\ pc'[inserting'[k]] = "commit" /\ key'[inserting'[k]] = k
      BY DEF InsertNeverOverwrites
    <2>1. inserting[k] # c /\ inserting[k] # NoCall /\ inserting'[k] = inserting[k]
      BY DEF Release
    <2>2. meter[k] = NoRow /\ pc[inserting[k]] = "commit" /\ key[inserting[k]] = k
      BY <2>1 DEF IInv, InsertNeverOverwrites
    <2>3. k # key[c]
      BY <2>1, <2>2 DEF IInv, CommitterHoldsInsert
    <2>4. inserting[k] \in Calls
      BY <2>1
    <2> QED
      BY <1>5, <2>1, <2>2, <2>3, <2>4
  <1>9. CommitterHoldsInsert'
    <2> SUFFICES ASSUME NEW d \in Calls, pc'[d] = "commit", meter'[key'[d]] = NoRow
                 PROVE  inserting'[key'[d]] = d
      BY DEF CommitterHoldsInsert
    <2>1. d # c /\ pc[d] = "commit" /\ key'[d] = key[d] /\ key[d] \in Keys
      BY <1>1
    <2>2. meter[key[d]] = NoRow
      BY <1>4, <1>5, <2>1
    <2>3. inserting[key[d]] = d
      BY <2>1, <2>2 DEF IInv, CommitterHoldsInsert
    <2> QED
      BY <2>1, <2>3 DEF Release
  <1>10. EventsStarted'
    BY <1>1 DEF IInv, EventsStarted
  <1>11. EventsAreMetered'
    <2> SUFFICES ASSUME NEW d \in events'
                 PROVE  meter'[key[d]] # NoRow
                        /\ \A f \in Fields : applied'[key[d]][f] >= Delta(d)[f]
      BY DEF EventsAreMetered
    <2>1. d \in Calls /\ key[d] \in Keys /\ Delta(d) \in Row
      BY DeltaType
    <2>2. CASE d = c
      BY <1>1, <1>3, <1>4, <1>5, <2>2 DEF Row
    <2>3. CASE d # c
      <3>1. meter[key[d]] # NoRow /\ \A f \in Fields : applied[key[d]][f] >= Delta(d)[f]
        BY <2>3 DEF IInv, EventsAreMetered
      <3>2. meter'[key[d]] # NoRow
        BY <1>4, <1>5, <2>1, <3>1
      <3>3. \A f \in Fields : Delta(d)[f] \in Nat
        BY <2>1 DEF Row
      <3> QED
        BY <1>3, <2>1, <3>1, <3>2, <3>3
    <2> QED
      BY <2>2, <2>3
  <1> QED
    BY <1>6, <1>7, <1>8, <1>9, <1>10, <1>11 DEF IInv

(* A SELECT (or the re-fetch) loads the committed row of the call's key. *)
LEMMA IInvLoad ==
    ASSUME TypeOK, IInv, NEW c \in Calls, Select(c) \/ Reselect(c)
    PROVE  IInv'
  <1> USE DEF Select, Reselect, TypeOK
  <1>1. UNCHANGED <<meter, inserting, events, key, applied>>
    OBVIOUS
  <1>2. pc[c] # "commit" /\ pc'[c] # "idle" /\ key[c] \in Keys
    OBVIOUS
  <1>3. \A d \in Calls : d # c => pc'[d] = pc[d] /\ loaded'[d] = loaded[d]
    OBVIOUS
  <1>4. pc'[c] = "commit" => meter[key[c]] # NoRow /\ loaded'[c] = meter[key[c]]
    OBVIOUS
  <1>5. LoadedWasApplied'
    BY <1>1, <1>2, <1>3, <1>4 DEF IInv, MeterNeverOvercounts, LoadedWasApplied
  <1>6. InsertNeverOverwrites'
    BY <1>1, <1>2, <1>3 DEF IInv, InsertNeverOverwrites
  <1>7. CommitterHoldsInsert'
    BY <1>1, <1>3, <1>4 DEF IInv, CommitterHoldsInsert
  <1>8. EventsStarted'
    BY <1>1, <1>2, <1>3 DEF IInv, EventsStarted
  <1>9. MeterNeverOvercounts' /\ EventsAreMetered'
    BY <1>1 DEF IInv, MeterNeverOvercounts, EventsAreMetered
  <1> QED
    BY <1>5, <1>6, <1>7, <1>8, <1>9 DEF IInv

(* A successful flush takes the index entry and starts from a zero row. *)
LEMMA IInvInsert ==
    ASSUME TypeOK, IInv, NEW c \in Calls, InsertOK(c), pc[c] \in {"insert", "last_insert"}
    PROVE  IInv'
  <1> USE DEF InsertOK, TypeOK
  <1>1. UNCHANGED <<meter, events, key, applied>> /\ key[c] \in Keys
    OBVIOUS
  <1>2. \A d \in Calls : d # c => pc'[d] = pc[d] /\ loaded'[d] = loaded[d]
    OBVIOUS
  <1>3. \A f \in Fields : loaded'[c][f] <= applied[key[c]][f]
    BY <1>1 DEF ZeroRow, Row
  <1>4. LoadedWasApplied'
    BY <1>1, <1>2, <1>3 DEF IInv, LoadedWasApplied
  <1>5. InsertNeverOverwrites'
    <2> SUFFICES ASSUME NEW k \in Keys, inserting'[k] # NoCall
                 PROVE  /\ meter'[k] = NoRow
                        /\ pc'[inserting'[k]] = "commit" /\ key'[inserting'[k]] = k
      BY DEF InsertNeverOverwrites
    <2>1. CASE k = key[c]
      BY <1>1, <2>1
    <2>2. CASE k # key[c]
      BY <1>1, <1>2, <2>2 DEF IInv, InsertNeverOverwrites
    <2> QED
      BY <2>1, <2>2
  <1>6. CommitterHoldsInsert'
    <2> SUFFICES ASSUME NEW d \in Calls, pc'[d] = "commit", meter[key[d]] = NoRow
                 PROVE  inserting'[key[d]] = d
      BY <1>1 DEF CommitterHoldsInsert
    <2>1. CASE d = c
      BY <1>1, <2>1
    <2>2. CASE d # c
      <3>1. inserting[key[d]] = d
        BY <1>2, <2>2 DEF IInv, CommitterHoldsInsert
      <3>2. key[d] # key[c]
        BY <3>1, ConstantsAssumption
      <3> QED
        BY <3>1, <3>2
    <2> QED
      BY <2>1, <2>2
  <1>7. EventsStarted'
    BY <1>1, <1>2 DEF IInv, EventsStarted
  <1>8. MeterNeverOvercounts' /\ EventsAreMetered'
    BY <1>1 DEF IInv, MeterNeverOvercounts, EventsAreMetered
  <1> QED
    BY <1>4, <1>5, <1>6, <1>7, <1>8 DEF IInv

(* A call that leaves its transaction (rollback, next counter, death) holds *)
(* nothing any more; the others keep what they held.                        *)
LEMMA IInvLeave ==
    ASSUME TypeOK, IInv, NEW c \in Calls, pc' = [pc EXCEPT ![c] = pc'[c]],
           pc'[c] \notin {"commit", "idle"},
           UNCHANGED <<meter, events, key, loaded, applied>>,
           Release(c) \/ (pc[c] # "commit" /\ UNCHANGED inserting)
    PROVE  IInv'
  <1> USE DEF TypeOK
  <1>1. \A d \in Calls : d # c => pc'[d] = pc[d]
    OBVIOUS
  <1>2. LoadedWasApplied'
    BY <1>1 DEF IInv, LoadedWasApplied
  <1>3. \A k \in Keys : inserting'[k] # NoCall => inserting'[k] = inserting[k] /\ inserting[k] # c
    BY DEF Release, IInv, InsertNeverOverwrites
  <1>4. InsertNeverOverwrites'
    BY <1>1, <1>3 DEF IInv, InsertNeverOverwrites
  <1>5. CommitterHoldsInsert'
    BY <1>1 DEF IInv, CommitterHoldsInsert, Release
  <1>6. EventsStarted'
    BY <1>1 DEF IInv, EventsStarted
  <1>7. MeterNeverOvercounts' /\ EventsAreMetered'
    BY DEF IInv, MeterNeverOvercounts, EventsAreMetered
  <1> QED
    BY <1>2, <1>4, <1>5, <1>6, <1>7 DEF IInv

(* A call that starts fixes its key; it has no event and is in no insert. *)
LEMMA IInvStart == ASSUME TypeOK, IInv, NEW c \in Calls, Start(c)
                   PROVE  IInv'
  <1> USE DEF Start, TypeOK
  <1>1. c \notin events /\ \A k \in Keys : inserting[k] # c
    BY ConstantsAssumption DEF IInv, EventsStarted, InsertNeverOverwrites
  <1>2. \A d \in Calls : d # c => pc'[d] = pc[d] /\ key'[d] = key[d]
    OBVIOUS
  <1>3. pc'[c] = "select"
    OBVIOUS
  <1>4. LoadedWasApplied' /\ CommitterHoldsInsert'
    BY <1>2, <1>3 DEF IInv, LoadedWasApplied, CommitterHoldsInsert
  <1>5. InsertNeverOverwrites'
    BY <1>1, <1>2 DEF IInv, InsertNeverOverwrites
  <1>6. EventsStarted' /\ EventsAreMetered'
    BY <1>1, <1>2 DEF IInv, EventsStarted, EventsAreMetered
  <1>7. MeterNeverOvercounts'
    BY DEF IInv, MeterNeverOvercounts
  <1> QED
    BY <1>4, <1>5, <1>6, <1>7 DEF IInv

(* Every step of every call, failure and month keeps the strengthening. *)
LEMMA IInvStep == TypeOK /\ IInv /\ [Next]_vars => IInv'
  <1> SUFFICES ASSUME TypeOK, IInv, [Next]_vars
               PROVE  IInv'
    OBVIOUS
  <1>c. \A c \in Calls : pc \in [Calls -> Places] /\ FirstCounter(c) \notin {"commit", "idle"}
                         /\ \A f \in Fields : NextCounter(c, f) \notin {"commit", "idle"}
    BY CounterType DEF TypeOK, Fields
  <1>1. ASSUME NEW c \in Calls, InsertConflict(c) \/ InsertError(c) PROVE IInv'
    BY <1>c, <1>1, IInvLeave DEF InsertConflict, InsertError, DropSession
  <1>2. ASSUME NEW c \in Calls, LastInsertConflict(c) \/ TransactionError(c) PROVE IInv'
    BY <1>c, <1>2, IInvLeave DEF LastInsertConflict, TransactionError, Abandon
  <1>3. ASSUME NEW c \in Calls, Count(c) \/ CountFails(c) PROVE IInv'
    <2>1. pc[c] \in Fields /\ pc[c] # "commit"
      BY <1>3 DEF Count, CountFails, Fields
    <2> QED
      BY <1>c, <1>3, <2>1, IInvLeave DEF Count, CountFails
  <1>4. ASSUME NEW c \in Calls, Die(c) PROVE IInv'
    BY <1>c, <1>4, IInvLeave DEF Die
  <1>5. CASE NextMonth \/ UNCHANGED vars \/ \E o \in Orgs, m \in Months, f \in Fields : Expire(o, m, f)
    BY <1>5 DEF NextMonth, Expire, vars, IInv, MeterNeverOvercounts, LoadedWasApplied,
       InsertNeverOverwrites, CommitterHoldsInsert, EventsStarted, EventsAreMetered
  <1> QED
    BY <1>1, <1>2, <1>3, <1>4, <1>5, IInvStart, IInvLoad, IInvInsert, IInvCommit
       DEF Next, Step, Failure, Insert, LastInsert

(* Metering never bills for more than was used, for every number of        *)
(* processes and every interleaving of their read-modify-writes            *)
(* (metering.py:56-71).                                                    *)
THEOREM NeverOvercounts == Spec => []MeterNeverOvercounts
  <1>1. IInv => MeterNeverOvercounts
    BY DEF IInv
  <1> QED
    BY <1>1, TypeInit, TypeStep, IInvInit, IInvStep, PTL DEF Spec

(* An open insert never coexists with a committed row for its key, so the  *)
(* zero row of a late creator never wipes out usage (metering.py:187-219). *)
THEOREM NeverOverwrites == Spec => []InsertNeverOverwrites
  <1>1. IInv => InsertNeverOverwrites
    BY DEF IInv
  <1> QED
    BY <1>1, TypeInit, TypeStep, IInvInit, IInvStep, PTL DEF Spec

(* Every committed usage event belongs to a call whose usage was applied   *)
(* to the meter of its month (metering.py:53-71).                          *)
THEOREM EventsMetered == Spec => []EventsAreMetered
  <1>1. IInv => EventsAreMetered
    BY DEF IInv
  <1> QED
    BY <1>1, TypeInit, TypeStep, IInvInit, IInvStep, PTL DEF Spec

-----------------------------------------------------------------------------
(* The community modules' sums.  SumFunctionOnSet chooses a function that   *)
(* satisfies the recursive equation Sums on all subsets; for a finite set   *)
(* there is exactly one.                                                   *)
Pick(s) == CHOOSE x \in s : TRUE

Sums(g, F, S) == g = [s \in SUBSET S |-> IF s = {} THEN 0 ELSE F[Pick(s)] + g[s \ {Pick(s)}]]

(* The choice of a set is one of its elements. *)
LEMMA PickIn == \A s : s # {} => Pick(s) \in s
  BY DEF Pick

(* What a set of finite sets contains, it contains a smallest one of. *)
LEMMA Smallest ==
    ASSUME NEW S, IsFiniteSet(S), NEW T, T \subseteq SUBSET S, T # {}
    PROVE  \E s \in T : IsFiniteSet(s) /\ \A t \in T : t \subseteq s => t = s
  <1>1. T \subseteq FiniteSubsetsOf(S)
    BY FS_FiniteSubsetsOfFinite
  <1>2. \E s \in T : \A t \in T : ~(<<t, s>> \in StrictSubsetOrdering(S))
    BY <1>1, FS_StrictSubsetOrderingWellFounded, WFMin
  <1> QED
    BY <1>1, <1>2 DEF StrictSubsetOrdering, FiniteSubsetsOf

(* Two solutions of the equation agree on the subsets both speak of. *)
LEMMA SumsUnique ==
    ASSUME NEW F, NEW A, NEW B, IsFiniteSet(A), NEW g, NEW h, Sums(g, F, A), Sums(h, F, B),
           NEW r, r \subseteq A, r \subseteq B
    PROVE  g[r] = h[r]
  <1> SUFFICES ASSUME NEW T, T = {s \in SUBSET A : s \subseteq B /\ g[s] # h[s]}, T # {} PROVE FALSE
    OBVIOUS
  <1>1. PICK s \in T : \A t \in T : t \subseteq s => t = s
    BY Smallest
  <1>2. /\ g[s] = IF s = {} THEN 0 ELSE F[Pick(s)] + g[s \ {Pick(s)}]
        /\ h[s] = IF s = {} THEN 0 ELSE F[Pick(s)] + h[s \ {Pick(s)}]
    BY DEF Sums
  <1>3. s # {} /\ Pick(s) \in s
    BY <1>2, PickIn
  <1>4. s \ {Pick(s)} \notin T
    BY <1>1, <1>3
  <1> QED
    BY <1>2, <1>3, <1>4

(* A finite set has a solution. *)
LEMMA SumsExist ==
    ASSUME NEW F, NEW S, IsFiniteSet(S)
    PROVE  \E g : Sums(g, F, S)
  <1> DEFINE Off(s) == ~\E g : Sums(g, F, s)
  <1> SUFFICES ASSUME Off(S) PROVE FALSE
    OBVIOUS
  <1> HIDE DEF Off
  <1> DEFINE T == {s \in SUBSET S : Off(s)}
  <1>0. T \subseteq SUBSET S /\ T # {}
    OBVIOUS
  <1> HIDE DEF T
  <1>1. PICK s \in T : IsFiniteSet(s) /\ \A t \in T : t \subseteq s => t = s
    BY <1>0, Smallest
  <1> DEFINE Of(t) == CHOOSE g : Sums(g, F, t)
             new   == [t \in SUBSET s |-> IF t = {} THEN 0 ELSE F[Pick(t)] + Of(t \ {Pick(t)})[t \ {Pick(t)}]]
  <1>2. ASSUME NEW t \in SUBSET s, t # s PROVE Sums(Of(t), F, t) /\ IsFiniteSet(t)
    <2>1. t \notin T /\ t \in SUBSET S
      BY <1>0, <1>1, <1>2
    <2>2. \E g : Sums(g, F, t)
      BY <2>1 DEF Off, T
    <2> QED
      BY <1>1, <2>2, FS_Subset
  <1> HIDE DEF Of
  <1>3. ASSUME NEW t \in SUBSET s, t # s PROVE new[t] = Of(t)[t]
    <2>1. Sums(Of(t), F, t) /\ IsFiniteSet(t)
      BY <1>2, <1>3
    <2>2. Of(t)[t] = IF t = {} THEN 0 ELSE F[Pick(t)] + Of(t)[t \ {Pick(t)}]
      BY <2>1 DEF Sums
    <2>3. CASE t = {}
      BY <2>2, <2>3
    <2>4. CASE t # {}
      <3>1. Pick(t) \in t /\ t \ {Pick(t)} \in SUBSET s /\ t \ {Pick(t)} # s
        BY <2>4, PickIn
      <3>2. Sums(Of(t \ {Pick(t)}), F, t \ {Pick(t)})
        BY <1>2, <3>1
      <3>3. Of(t)[t \ {Pick(t)}] = Of(t \ {Pick(t)})[t \ {Pick(t)}]
        BY <2>1, <3>2, SumsUnique
      <3> QED
        BY <2>2, <2>4, <3>3
    <2> QED
      BY <2>3, <2>4
  <1>4. Sums(new, F, s)
    <2>1. ASSUME NEW t \in SUBSET s, t # {} PROVE new[t] = F[Pick(t)] + new[t \ {Pick(t)}]
      <3>1. Pick(t) \in t /\ t \ {Pick(t)} \in SUBSET s /\ t \ {Pick(t)} # s
        BY <2>1, PickIn
      <3>2. new[t \ {Pick(t)}] = Of(t \ {Pick(t)})[t \ {Pick(t)}]
        BY <1>3, <3>1
      <3> QED
        BY <2>1, <3>2
    <2>2. new = [t \in SUBSET s |-> IF t = {} THEN 0 ELSE F[Pick(t)] + new[t \ {Pick(t)}]]
      BY <2>1
    <2> QED
      BY <2>2 DEF Sums
  <1> QED
    BY <1>1, <1>4 DEF Off, T

(* The sum is the solution's value at the whole set. *)
LEMMA SumByDef ==
    ASSUME NEW F, NEW S, IsFiniteSet(S)
    PROVE  \E g : Sums(g, F, S) /\ SumFunctionOnSet(F, S) = g[S]
  <1> DEFINE g == CHOOSE iter : iter = [s \in SUBSET S |->
                     IF s = {} THEN 0 ELSE F[CHOOSE x \in s : TRUE] + iter[s \ {CHOOSE x \in s : TRUE}]]
  <1>1. SumFunctionOnSet(F, S) = g[S]
    BY DEF SumFunctionOnSet, FoldFunctionOnSet, MapThenFoldSet
  <1>2. \E iter : iter = [s \in SUBSET S |->
                     IF s = {} THEN 0 ELSE F[CHOOSE x \in s : TRUE] + iter[s \ {CHOOSE x \in s : TRUE}]]
    <2>1. \E h : Sums(h, F, S)
      BY SumsExist
    <2> QED
      BY <2>1 DEF Sums, Pick
  <1>3. g = [s \in SUBSET S |->
                     IF s = {} THEN 0 ELSE F[CHOOSE x \in s : TRUE] + g[s \ {CHOOSE x \in s : TRUE}]]
    BY <1>2
  <1> HIDE DEF g
  <1>4. Sums(g, F, S)
    BY <1>3 DEF Sums, Pick
  <1> QED
    BY <1>1, <1>4

(* A sum takes its set's elements one by one, in the order of the choice. *)
LEMMA SumPicks ==
    ASSUME NEW F, NEW S, IsFiniteSet(S)
    PROVE  SumFunctionOnSet(F, S)
              = IF S = {} THEN 0 ELSE F[Pick(S)] + SumFunctionOnSet(F, S \ {Pick(S)})
  <1>1. PICK g : Sums(g, F, S) /\ SumFunctionOnSet(F, S) = g[S]
    BY SumByDef
  <1>2. IsFiniteSet(S \ {Pick(S)})
    BY FS_RemoveElement
  <1>3. PICK h : Sums(h, F, S \ {Pick(S)}) /\ SumFunctionOnSet(F, S \ {Pick(S)}) = h[S \ {Pick(S)}]
    BY <1>2, SumByDef
  <1>4. g[S \ {Pick(S)}] = h[S \ {Pick(S)}]
    BY <1>1, <1>3, SumsUnique
  <1>5. g[S] = IF S = {} THEN 0 ELSE F[Pick(S)] + g[S \ {Pick(S)}]
    BY <1>1 DEF Sums
  <1> QED
    BY <1>1, <1>3, <1>4, <1>5

(* Natural numbers have a natural sum, and the sum is the same in whichever *)
(* order they are taken.                                                   *)
LEMMA SumNat ==
    ASSUME NEW F, NEW S, IsFiniteSet(S), \A x \in S : F[x] \in Nat
    PROVE  SumFunctionOnSet(F, S) \in Nat
  <1> SUFFICES ASSUME NEW T, T = {s \in SUBSET S : SumFunctionOnSet(F, s) \notin Nat}, T # {} PROVE FALSE
    OBVIOUS
  <1>1. PICK s \in T : IsFiniteSet(s) /\ \A t \in T : t \subseteq s => t = s
    BY Smallest
  <1>2. SumFunctionOnSet(F, s) = IF s = {} THEN 0 ELSE F[Pick(s)] + SumFunctionOnSet(F, s \ {Pick(s)})
    BY <1>1, SumPicks
  <1>3. s # {} /\ Pick(s) \in s /\ F[Pick(s)] \in Nat
    BY <1>2, PickIn
  <1>4. s \ {Pick(s)} \in SUBSET S /\ s \ {Pick(s)} \notin T
    BY <1>1, <1>3
  <1> QED
    BY <1>2, <1>3, <1>4

(* Any element may be taken out of the sum first. *)
LEMMA SumTakes ==
    ASSUME NEW F, NEW S, IsFiniteSet(S), \A x \in S : F[x] \in Nat, NEW x \in S
    PROVE  SumFunctionOnSet(F, S) = F[x] + SumFunctionOnSet(F, S \ {x})
  <1> DEFINE Off(s) == \E y \in s : SumFunctionOnSet(F, s) # F[y] + SumFunctionOnSet(F, s \ {y})
  <1> SUFFICES ASSUME Off(S) PROVE FALSE
    OBVIOUS
  <1> HIDE DEF Off
  <1> DEFINE T == {s \in SUBSET S : Off(s)}
  <1>0. T \subseteq SUBSET S /\ T # {}
    OBVIOUS
  <1> HIDE DEF T
  <1>1. PICK s \in T : IsFiniteSet(s) /\ \A t \in T : t \subseteq s => t = s
    BY <1>0, Smallest
  <1>2. PICK y \in s : SumFunctionOnSet(F, s) # F[y] + SumFunctionOnSet(F, s \ {y})
    BY <1>1 DEF Off, T
  <1>3. PICK z \in s : SumFunctionOnSet(F, s) = F[z] + SumFunctionOnSet(F, s \ {z})
    BY <1>1, <1>2, SumPicks, PickIn
  <1>4. y # z /\ s \subseteq S
    BY <1>0, <1>2, <1>3
  <1>5. ASSUME NEW u \in s, NEW v \in s, u # v
        PROVE  SumFunctionOnSet(F, s \ {u}) = F[v] + SumFunctionOnSet(F, (s \ {u}) \ {v})
    <2>1. s \ {u} \in SUBSET S /\ s \ {u} \notin T /\ v \in s \ {u}
      BY <1>0, <1>1, <1>5
    <2> QED
      BY <2>1 DEF Off, T
  <1>6. SumFunctionOnSet(F, s \ {z}) = F[y] + SumFunctionOnSet(F, (s \ {z}) \ {y})
    BY <1>4, <1>5
  <1>7. SumFunctionOnSet(F, s \ {y}) = F[z] + SumFunctionOnSet(F, (s \ {y}) \ {z})
    BY <1>4, <1>5
  <1>8. (s \ {z}) \ {y} = (s \ {y}) \ {z} /\ F[y] \in Nat /\ F[z] \in Nat
    BY <1>4
  <1>9. SumFunctionOnSet(F, (s \ {z}) \ {y}) \in Nat
    <2>1. IsFiniteSet((s \ {z}) \ {y}) /\ (s \ {z}) \ {y} \subseteq S
      BY <1>1, <1>4, FS_RemoveElement
    <2> QED
      BY <2>1, SumNat
  <1> QED
    BY <1>2, <1>3, <1>6, <1>7, <1>8, <1>9

(* The empty sum. *)
LEMMA SumEmpty == ASSUME NEW F PROVE SumFunctionOnSet(F, {}) = 0
  BY SumPicks, FS_EmptySet

(* Larger summands, or more of them, have a sum that is not smaller. *)
LEMMA SumLess ==
    ASSUME NEW F, NEW G, NEW S, IsFiniteSet(S),
           \A x \in S : F[x] \in Nat /\ G[x] \in Nat /\ F[x] <= G[x]
    PROVE  SumFunctionOnSet(F, S) <= SumFunctionOnSet(G, S)
  <1> DEFINE Off(s) == ~(SumFunctionOnSet(F, s) <= SumFunctionOnSet(G, s))
  <1> SUFFICES ASSUME Off(S) PROVE FALSE
    OBVIOUS
  <1> HIDE DEF Off
  <1> DEFINE T == {s \in SUBSET S : Off(s)}
  <1>0. T \subseteq SUBSET S /\ T # {}
    OBVIOUS
  <1> HIDE DEF T
  <1>1. PICK s \in T : IsFiniteSet(s) /\ \A t \in T : t \subseteq s => t = s
    BY <1>0, Smallest
  <1>2. s \subseteq S /\ ~(SumFunctionOnSet(F, s) <= SumFunctionOnSet(G, s))
    BY <1>0, <1>1 DEF Off, T
  <1>3. s # {}
    BY <1>2, SumEmpty
  <1>4. PICK x \in s : TRUE
    BY <1>3
  <1>5. /\ SumFunctionOnSet(F, s) = F[x] + SumFunctionOnSet(F, s \ {x})
        /\ SumFunctionOnSet(G, s) = G[x] + SumFunctionOnSet(G, s \ {x})
        /\ SumFunctionOnSet(F, s \ {x}) \in Nat /\ SumFunctionOnSet(G, s \ {x}) \in Nat
    <2>1. IsFiniteSet(s \ {x})
      BY <1>1, FS_RemoveElement
    <2> QED
      BY <1>1, <1>2, <2>1, SumTakes, SumNat
  <1>6. SumFunctionOnSet(F, s \ {x}) <= SumFunctionOnSet(G, s \ {x})
    <2>1. s \ {x} \in SUBSET S /\ s \ {x} \notin T
      BY <1>0, <1>1
    <2> QED
      BY <2>1 DEF Off, T
  <1> QED
    BY <1>2, <1>4, <1>5, <1>6

(* The sum depends on the summands only. *)
LEMMA SumSame ==
    ASSUME NEW F, NEW G, NEW S, IsFiniteSet(S), \A x \in S : F[x] \in Nat /\ F[x] = G[x]
    PROVE  SumFunctionOnSet(F, S) = SumFunctionOnSet(G, S)
  <1>1. SumFunctionOnSet(F, S) <= SumFunctionOnSet(G, S) /\ SumFunctionOnSet(G, S) <= SumFunctionOnSet(F, S)
    BY SumLess
  <1>2. SumFunctionOnSet(F, S) \in Nat /\ SumFunctionOnSet(G, S) \in Nat
    BY SumNat
  <1> QED
    BY <1>1, <1>2

(* One summand changes. *)
LEMMA SumChange ==
    ASSUME NEW F, NEW G, NEW S, IsFiniteSet(S), NEW x \in S, \A y \in S : F[y] \in Nat /\ G[y] \in Nat,
           \A y \in S \ {x} : F[y] = G[y]
    PROVE  SumFunctionOnSet(F, S) + G[x] = SumFunctionOnSet(G, S) + F[x]
  <1>1. IsFiniteSet(S \ {x})
    BY FS_RemoveElement
  <1>2. /\ SumFunctionOnSet(F, S) = F[x] + SumFunctionOnSet(F, S \ {x})
        /\ SumFunctionOnSet(G, S) = G[x] + SumFunctionOnSet(G, S \ {x})
    BY SumTakes
  <1>3. SumFunctionOnSet(F, S \ {x}) = SumFunctionOnSet(G, S \ {x})
    BY <1>1, SumSame
  <1>4. SumFunctionOnSet(F, S \ {x}) \in Nat
    BY <1>1, SumNat
  <1> QED
    BY <1>2, <1>3, <1>4

(* Summands that are zero may be left out. *)
LEMMA SumOver ==
    ASSUME NEW F, NEW S, IsFiniteSet(S), \A x \in S : F[x] \in Nat, NEW R, R \subseteq S,
           \A x \in S \ R : F[x] = 0
    PROVE  SumFunctionOnSet(F, S) = SumFunctionOnSet(F, R)
  <1> DEFINE Off(s) == R \subseteq s /\ SumFunctionOnSet(F, s) # SumFunctionOnSet(F, R)
  <1> SUFFICES ASSUME Off(S) PROVE FALSE
    OBVIOUS
  <1> HIDE DEF Off
  <1> DEFINE T == {s \in SUBSET S : Off(s)}
  <1>0. T \subseteq SUBSET S /\ T # {}
    OBVIOUS
  <1> HIDE DEF T
  <1>1. PICK s \in T : IsFiniteSet(s) /\ \A t \in T : t \subseteq s => t = s
    BY <1>0, Smallest
  <1>2. s \subseteq S /\ R \subseteq s /\ SumFunctionOnSet(F, s) # SumFunctionOnSet(F, R)
    BY <1>0, <1>1 DEF Off, T
  <1>3. PICK x \in s : x \notin R
    BY <1>2
  <1>4. SumFunctionOnSet(F, s) = F[x] + SumFunctionOnSet(F, s \ {x}) /\ F[x] = 0
    BY <1>1, <1>2, <1>3, SumTakes
  <1>5. SumFunctionOnSet(F, s \ {x}) = SumFunctionOnSet(F, R)
    <2>1. s \ {x} \in SUBSET S /\ s \ {x} \notin T /\ R \subseteq s \ {x}
      BY <1>0, <1>1, <1>2, <1>3
    <2> QED
      BY <2>1 DEF Off, T
  <1>6. SumFunctionOnSet(F, s \ {x}) \in Nat
    <2>1. IsFiniteSet(s \ {x})
      BY <1>1, FS_RemoveElement
    <2> QED
      BY <1>2, <2>1, SumNat
  <1> QED
    BY <1>2, <1>4, <1>5, <1>6

(* A part of the summands has a sum that is not larger. *)
LEMMA SumSubset ==
    ASSUME NEW F, NEW S, IsFiniteSet(S), \A x \in S : F[x] \in Nat, NEW R, R \subseteq S
    PROVE  SumFunctionOnSet(F, R) <= SumFunctionOnSet(F, S)
  <1> DEFINE G == [x \in S |-> IF x \in R THEN F[x] ELSE 0]
  <1>1. \A x \in S : G[x] \in Nat /\ G[x] <= F[x]
    OBVIOUS
  <1>2. (\A x \in S \ R : G[x] = 0) /\ \A x \in R : F[x] = G[x] /\ F[x] \in Nat
    OBVIOUS
  <1> HIDE DEF G
  <1>3. SumFunctionOnSet(G, S) <= SumFunctionOnSet(F, S)
    BY <1>1, SumLess
  <1>4. SumFunctionOnSet(G, S) = SumFunctionOnSet(G, R)
    BY <1>1, <1>2, SumOver
  <1>5. SumFunctionOnSet(F, R) = SumFunctionOnSet(G, R)
    BY <1>2, SumSame, FS_Subset
  <1> QED
    BY <1>3, <1>4, <1>5

(* Counting is summing ones. *)
LEMMA SumOnes ==
    ASSUME NEW S, IsFiniteSet(S), NEW F, \A x \in S : F[x] = 1
    PROVE  SumFunctionOnSet(F, S) = Cardinality(S)
  <1> DEFINE Off(s) == SumFunctionOnSet(F, s) # Cardinality(s)
  <1> SUFFICES ASSUME Off(S) PROVE FALSE
    OBVIOUS
  <1> HIDE DEF Off
  <1> DEFINE T == {s \in SUBSET S : Off(s)}
  <1>0. T \subseteq SUBSET S /\ T # {}
    OBVIOUS
  <1> HIDE DEF T
  <1>1. PICK s \in T : IsFiniteSet(s) /\ \A t \in T : t \subseteq s => t = s
    BY <1>0, Smallest
  <1>2. s \subseteq S /\ SumFunctionOnSet(F, s) # Cardinality(s)
    BY <1>0, <1>1 DEF Off, T
  <1>3. s # {}
    BY <1>2, SumEmpty, FS_EmptySet
  <1>4. PICK x \in s : TRUE
    BY <1>3
  <1>5. SumFunctionOnSet(F, s) = 1 + SumFunctionOnSet(F, s \ {x})
    BY <1>1, <1>2, SumTakes
  <1>6. SumFunctionOnSet(F, s \ {x}) = Cardinality(s \ {x})
    <2>1. s \ {x} \in SUBSET S /\ s \ {x} \notin T
      BY <1>0, <1>1
    <2> QED
      BY <2>1 DEF Off, T
  <1>7. Cardinality(s \ {x}) = Cardinality(s) - 1 /\ Cardinality(s) \in Nat
    BY <1>1, FS_RemoveElement, FS_CardinalityType
  <1> QED
    BY <1>2, <1>5, <1>6, <1>7

(* The sum of sums. *)
LEMMA SumPlus ==
    ASSUME NEW F, NEW G, NEW H, NEW S, IsFiniteSet(S),
           \A x \in S : F[x] \in Nat /\ G[x] \in Nat /\ H[x] = F[x] + G[x]
    PROVE  SumFunctionOnSet(H, S) = SumFunctionOnSet(F, S) + SumFunctionOnSet(G, S)
  <1> DEFINE Off(s) == SumFunctionOnSet(H, s) # SumFunctionOnSet(F, s) + SumFunctionOnSet(G, s)
  <1> SUFFICES ASSUME Off(S) PROVE FALSE
    OBVIOUS
  <1> HIDE DEF Off
  <1> DEFINE T == {s \in SUBSET S : Off(s)}
  <1>0. T \subseteq SUBSET S /\ T # {}
    OBVIOUS
  <1> HIDE DEF T
  <1>1. PICK s \in T : IsFiniteSet(s) /\ \A t \in T : t \subseteq s => t = s
    BY <1>0, Smallest
  <1>2. s \subseteq S /\ SumFunctionOnSet(H, s) # SumFunctionOnSet(F, s) + SumFunctionOnSet(G, s)
    BY <1>0, <1>1 DEF Off, T
  <1>3. s # {}
    <2> SUFFICES ASSUME s = {} PROVE FALSE
      OBVIOUS
    <2>1. SumFunctionOnSet(F, s) = 0 /\ SumFunctionOnSet(G, s) = 0 /\ SumFunctionOnSet(H, s) = 0
      BY SumEmpty
    <2>2. 0 = 0 + 0
      OBVIOUS
    <2> QED
      BY <1>2, <2>1, <2>2
  <1>4. PICK x \in s : TRUE
    BY <1>3
  <1>5. IsFiniteSet(s \ {x}) /\ \A y \in S : H[y] \in Nat
    BY <1>1, FS_RemoveElement
  <1>6. /\ SumFunctionOnSet(F, s) = F[x] + SumFunctionOnSet(F, s \ {x})
        /\ SumFunctionOnSet(G, s) = G[x] + SumFunctionOnSet(G, s \ {x})
        /\ SumFunctionOnSet(F, s \ {x}) \in Nat /\ SumFunctionOnSet(G, s \ {x}) \in Nat
    BY <1>1, <1>2, <1>5, SumTakes, SumNat
  <1>7. SumFunctionOnSet(H, s) = H[x] + SumFunctionOnSet(H, s \ {x})
    BY <1>1, <1>2, <1>5, SumTakes
  <1>8. SumFunctionOnSet(H, s \ {x}) = SumFunctionOnSet(F, s \ {x}) + SumFunctionOnSet(G, s \ {x})
    <2>1. s \ {x} \in SUBSET S /\ s \ {x} \notin T
      BY <1>0, <1>1
    <2> QED
      BY <2>1 DEF Off, T
  <1> QED
    BY <1>2, <1>6, <1>7, <1>8

(* The totals of the rows of a table, and the table turned. *)
RowSums(A, S, R) == [x \in S |-> SumFunctionOnSet(A[x], R)]
Turned(A, S, R)  == [y \in R |-> [x \in S |-> A[x][y]]]

(* The rows of a table have the same total as its columns. *)
LEMMA SumExchange ==
    ASSUME NEW A, NEW S, NEW R, IsFiniteSet(S), IsFiniteSet(R), \A x \in S, y \in R : A[x][y] \in Nat
    PROVE  SumFunctionOnSet(RowSums(A, S, R), S) = SumFunctionOnSet(RowSums(Turned(A, S, R), R, S), R)
  <1> DEFINE F    == [x \in S |-> SumFunctionOnSet(A[x], R)]
             C(y) == [x \in S |-> A[x][y]]
             G(s) == [y \in R |-> SumFunctionOnSet(C(y), s)]
             Off(s) == SumFunctionOnSet(F, s) # SumFunctionOnSet(G(s), R)
  <1> SUFFICES ASSUME Off(S) PROVE FALSE
    <2>1. F = RowSums(A, S, R) /\ G(S) = RowSums(Turned(A, S, R), R, S)
      BY DEF RowSums, Turned
    <2> QED
      BY <2>1
  <1>f. \A x \in S : F[x] = SumFunctionOnSet(A[x], R) /\ F[x] \in Nat
    BY SumNat
  <1>c. \A y \in R : \A x \in S : C(y)[x] = A[x][y] /\ C(y)[x] \in Nat
    OBVIOUS
  <1>g. \A s : \A y \in R : G(s)[y] = SumFunctionOnSet(C(y), s)
    OBVIOUS
  <1> HIDE DEF Off, F, C, G
  <1> DEFINE T == {s \in SUBSET S : Off(s)}
  <1>0. T \subseteq SUBSET S /\ T # {}
    OBVIOUS
  <1> HIDE DEF T
  <1>1. PICK s \in T : IsFiniteSet(s) /\ \A t \in T : t \subseteq s => t = s
    BY <1>0, Smallest
  <1>2. s \subseteq S /\ SumFunctionOnSet(F, s) # SumFunctionOnSet(G(s), R)
    BY <1>0, <1>1 DEF Off, T
  <1>3. s # {}
    <2>1. \A y \in R : G({})[y] = 0
      BY <1>g, SumEmpty
    <2>2. SumFunctionOnSet(G({}), R) = SumFunctionOnSet(G({}), {})
      BY <2>1, SumOver
    <2>3. SumFunctionOnSet(G({}), {}) = 0 /\ SumFunctionOnSet(F, {}) = 0
      BY SumEmpty
    <2> QED
      BY <1>2, <2>2, <2>3
  <1>4. PICK x \in s : TRUE
    BY <1>3
  <1>5. IsFiniteSet(s \ {x})
    BY <1>1, FS_RemoveElement
  <1>6. SumFunctionOnSet(F, s) = F[x] + SumFunctionOnSet(F, s \ {x})
    BY <1>1, <1>2, <1>f, SumTakes
  <1>7. SumFunctionOnSet(F, s \ {x}) = SumFunctionOnSet(G(s \ {x}), R)
    <2>1. s \ {x} \in SUBSET S /\ s \ {x} \notin T
      BY <1>0, <1>1
    <2> QED
      BY <2>1 DEF Off, T
  <1>8. \A y \in R : /\ A[x][y] \in Nat /\ G(s \ {x})[y] \in Nat
                     /\ G(s)[y] = A[x][y] + G(s \ {x})[y]
    <2> TAKE y \in R
    <2>1. SumFunctionOnSet(C(y), s) = C(y)[x] + SumFunctionOnSet(C(y), s \ {x})
      BY <1>1, <1>2, <1>c, SumTakes
    <2>2. SumFunctionOnSet(C(y), s \ {x}) \in Nat
      BY <1>2, <1>5, <1>c, SumNat
    <2> QED
      BY <1>2, <1>c, <1>g, <2>1, <2>2
  <1>9. SumFunctionOnSet(G(s), R) = SumFunctionOnSet(A[x], R) + SumFunctionOnSet(G(s \ {x}), R)
    <2>1. PICK a, g, h : a = A[x] /\ g = G(s \ {x}) /\ h = G(s)
      OBVIOUS
    <2>2. \A y \in R : a[y] \in Nat /\ g[y] \in Nat /\ h[y] = a[y] + g[y]
      BY <1>8, <2>1
    <2>3. SumFunctionOnSet(h, R) = SumFunctionOnSet(a, R) + SumFunctionOnSet(g, R)
      BY <2>2, SumPlus
    <2> QED
      BY <2>1, <2>3
  <1> QED
    BY <1>2, <1>f, <1>6, <1>7, <1>9

(* Sums by a key. *)
Grouped(F, S, K, M) == [m \in M |-> SumFunctionOnSet(F, {x \in S : K[x] = m})]

(* What is summed by a key is all there is to sum. *)
LEMMA SumParts ==
    ASSUME NEW F, NEW S, NEW K, NEW M, IsFiniteSet(S), IsFiniteSet(M), \A x \in S : F[x] \in Nat /\ K[x] \in M
    PROVE  SumFunctionOnSet(Grouped(F, S, K, M), M) = SumFunctionOnSet(F, S)
  <1> DEFINE A      == [x \in S |-> [m \in M |-> IF K[x] = m THEN F[x] ELSE 0]]
             C      == Turned(A, S, M)
             P      == [m \in M |-> SumFunctionOnSet(F, {x \in S : K[x] = m})]
             Rows   == RowSums(A, S, M)
             Cols   == RowSums(C, M, S)
  <1>1. \A x \in S, m \in M : A[x][m] = (IF K[x] = m THEN F[x] ELSE 0) /\ A[x][m] \in Nat /\ C[m][x] = A[x][m]
    BY DEF Turned
  <1> HIDE DEF A
  <1>2. SumFunctionOnSet(Rows, S) = SumFunctionOnSet(Cols, M)
    BY <1>1, SumExchange
  <1>r. \A x \in S : Rows[x] = SumFunctionOnSet(A[x], M)
    BY DEF RowSums
  <1>c. \A m \in M : Cols[m] = SumFunctionOnSet(C[m], S) /\ P[m] = SumFunctionOnSet(F, {x \in S : K[x] = m})
    BY DEF RowSums
  <1> HIDE DEF C, P, Rows, Cols
  <1>3. ASSUME NEW m \in M PROVE Cols[m] = P[m] /\ Cols[m] \in Nat
    <2> DEFINE R == {x \in S : K[x] = m}
    <2>1. R \subseteq S /\ IsFiniteSet(R) /\ \A x \in S \ R : C[m][x] = 0
      BY <1>1, FS_Subset
    <2>2. \A x \in R : C[m][x] = F[x] /\ C[m][x] \in Nat
      BY <1>1
    <2>3. \A x \in S : C[m][x] \in Nat
      BY <1>1
    <2>p. P[m] = SumFunctionOnSet(F, R)
      BY <1>c
    <2> HIDE DEF R
    <2>4. SumFunctionOnSet(C[m], S) = SumFunctionOnSet(C[m], R)
      BY <2>1, <2>3, SumOver
    <2>5. SumFunctionOnSet(C[m], R) = SumFunctionOnSet(F, R)
      BY <2>1, <2>2, SumSame
    <2>6. SumFunctionOnSet(C[m], S) \in Nat
      BY <2>3, SumNat
    <2> QED
      BY <1>c, <2>p, <2>4, <2>5, <2>6
  <1>4. ASSUME NEW x \in S PROVE Rows[x] = F[x] /\ Rows[x] \in Nat
    <2>1. /\ K[x] \in M /\ \A m \in M : A[x][m] \in Nat
          /\ \A m \in M \ {K[x]} : A[x][m] = 0
      BY <1>1
    <2>2. SumFunctionOnSet(A[x], M) = SumFunctionOnSet(A[x], {K[x]})
      BY <2>1, SumOver
    <2>3. IsFiniteSet({K[x]}) /\ {K[x]} \ {K[x]} = {}
      BY FS_Singleton
    <2>4. SumFunctionOnSet(A[x], {K[x]}) = A[x][K[x]] + SumFunctionOnSet(A[x], {})
      BY <2>1, <2>3, SumTakes
    <2>5. SumFunctionOnSet(A[x], {}) = 0
      BY SumEmpty
    <2> QED
      BY <1>1, <1>r, <2>1, <2>2, <2>4, <2>5
  <1>5. SumFunctionOnSet(Cols, M) = SumFunctionOnSet(P, M)
    BY <1>3, SumSame
  <1>6. SumFunctionOnSet(Rows, S) = SumFunctionOnSet(F, S)
    BY <1>4, SumSame
  <1> QED
    BY <1>2, <1>5, <1>6 DEF P, Grouped

-----------------------------------------------------------------------------
(* The walk of a call over the quota counters: which of them it is past,    *)
(* and what of its usage they hold.                                        *)
After(place) ==
    CASE place = "done"          -> Fields
      [] place = "conversations" -> {"tokens", "api_calls"}
      [] place = "api_calls"     -> {"tokens"}
      [] OTHER                   -> {}

Share(c, f) == IF f \in After(pc[c]) /\ <<c, f>> \notin dropped THEN Delta(c)[f] ELSE 0

(* The call has left its transaction. *)
Past(c) == pc[c] \in Fields \union {"done", "dead"}

Walking ==
    \A c \in Calls :
        /\ pc[c] = "tokens" => KindOf[c] # "voice"
        /\ pc[c] = "api_calls" => KindOf[c] = "chat"
        /\ pc[c] = "conversations" => KindOf[c] = "chat" /\ c \in NewChats
        /\ pc[c] = "voice" => KindOf[c] = "voice"
        /\ key[c][1] = OrgOf[c] /\ key[c][2] <= month
        /\ \A f \in Fields : <<c, f>> \in dropped => f \in After(pc[c]) \/ pc[c] = "dead"
        /\ c \in events => Past(c)

(* What a counter adds to those a call is past is its own column, and       *)
(* columns the call leaves alone.                                          *)
LEMMA AfterFacts ==
    ASSUME TypeOK, Walking, NEW c \in Calls, pc[c] \in Fields
    PROVE  /\ pc[c] \notin After(pc[c]) /\ pc[c] \in After(NextCounter(c, pc[c]))
           /\ After(pc[c]) \subseteq After(NextCounter(c, pc[c]))
           /\ \A f \in After(NextCounter(c, pc[c])) \ After(pc[c]) : f = pc[c] \/ Delta(c)[f] = 0
  <1>d. \A f \in Fields : Delta(c)[f] =
             CASE f = "tokens"        -> IF KindOf[c] = "voice" THEN 0 ELSE TokensOf[c]
               [] f = "api_calls"     -> IF KindOf[c] = "chat" THEN 1 ELSE 0
               [] f = "conversations" -> IF KindOf[c] = "chat" /\ c \in NewChats THEN 1 ELSE 0
               [] f = "voice"         -> IF KindOf[c] = "voice" THEN TokensOf[c] ELSE 0
    BY DEF Delta
  <1>k. KindOf[c] \in {"chat", "embedding", "voice"}
    BY ConstantsAssumption DEF Kinds
  <1>a. /\ After("tokens") = {} /\ After("voice") = {} /\ After("api_calls") = {"tokens"}
        /\ After("conversations") = {"tokens", "api_calls"}
        /\ After("done") = {"tokens", "api_calls", "conversations", "voice"}
    BY DEF After, Fields
  <1>1. CASE pc[c] = "tokens"
    <2>1. KindOf[c] # "voice" /\ NextCounter(c, "tokens") = IF KindOf[c] = "chat" THEN "api_calls" ELSE "done"
      BY <1>1 DEF Walking, NextCounter
    <2> QED
      BY <1>1, <1>a, <1>d, <1>k, <2>1 DEF Fields
  <1>2. CASE pc[c] = "api_calls"
    <2>1. KindOf[c] = "chat" /\ NextCounter(c, "api_calls") = IF c \in NewChats THEN "conversations" ELSE "done"
      BY <1>2 DEF Walking, NextCounter
    <2> QED
      BY <1>2, <1>a, <1>d, <2>1 DEF Fields
  <1>3. CASE pc[c] = "conversations"
    <2>1. KindOf[c] = "chat" /\ NextCounter(c, "conversations") = "done"
      BY <1>3 DEF Walking, NextCounter
    <2> QED
      BY <1>3, <1>a, <1>d, <2>1 DEF Fields
  <1>4. CASE pc[c] = "voice"
    <2>1. KindOf[c] = "voice" /\ NextCounter(c, "voice") = "done"
      BY <1>4 DEF Walking, NextCounter
    <2> QED
      BY <1>4, <1>a, <1>d, <2>1 DEF Fields
  <1> QED
    BY <1>1, <1>2, <1>3, <1>4 DEF Fields

(* No call has begun its walk. *)
LEMMA WalkingInit == Init => Walking
  <1> SUFFICES ASSUME Init PROVE Walking
    OBVIOUS
  <1>1. month = 0 /\ dropped = {} /\ events = {}
    BY DEF Init
  <1>2. \A c \in Calls : pc[c] = "idle" /\ key[c][1] = OrgOf[c] /\ key[c][2] = 0
    BY DEF Init
  <1>3. \A c \in Calls : /\ pc[c] \notin {"tokens", "api_calls", "conversations", "voice"}
                         /\ key[c][1] = OrgOf[c] /\ key[c][2] <= month
                         /\ (\A f \in Fields : <<c, f>> \notin dropped) /\ c \notin events
    <2> TAKE c \in Calls
    <2>1. pc[c] = "idle" /\ key[c][1] = OrgOf[c] /\ key[c][2] = 0 /\ 0 <= 0
      BY <1>2
    <2> QED
      BY <1>1, <2>1
  <1> QED
    BY <1>3 DEF Walking

(* A call's place changes from the transaction to the first counter, from   *)
(* counter to counter, and to its end.                                     *)
LEMMA WalkingStep ==
    ASSUME TypeOK, Walking, [Next]_vars
    PROVE  /\ Walking'
           /\ \A c \in Calls : Past(c) => Past(c)' /\ key'[c] = key[c]
           /\ \A c \in Calls : pc[c] = "dead" => pc'[c] = "dead"
  <1> DEFINE Goal == /\ Walking'
                     /\ \A c \in Calls : Past(c) => Past(c)' /\ key'[c] = key[c]
                     /\ \A c \in Calls : pc[c] = "dead" => pc'[c] = "dead"
  <1> SUFFICES Goal
    OBVIOUS
  <1>d. \A place \in Database \union {"idle"} : After(place) = {} /\ place \notin Fields \union {"done", "dead"}
    BY DEF After, Database, Fields
  <1>t. After("tokens") = {} /\ After("voice") = {}
    BY DEF After
  (* Within the transaction. *)
  <1>1. ASSUME NEW c \in Calls, pc[c] \in Database \union {"idle"}, NEW place \in Database, pc' = [pc EXCEPT ![c] = place],
               key' = key \/ (pc[c] = "idle" /\ key' = [key EXCEPT ![c] = <<OrgOf[c], month>>]),
               UNCHANGED <<dropped, month, events>>
        PROVE  Goal
    <2>1. pc'[c] = place /\ \A v \in Calls : v # c => pc'[v] = pc[v] /\ key'[v] = key[v]
      BY <1>1 DEF TypeOK
    <2>2. key'[c] = key[c] \/ key'[c] = <<OrgOf[c], month>>
      BY <1>1 DEF TypeOK
    <2>3. month \in Nat
      BY ConstantsAssumption DEF TypeOK, Months
    <2>4. /\ After(pc[c]) = {} /\ ~Past(c) /\ After(place) = {}
          /\ place \notin {"tokens", "api_calls", "conversations", "voice"}
      BY <1>1, <1>d DEF Past, Fields
    <2>5. \A f \in Fields : <<c, f>> \notin dropped
      BY <1>1, <2>4 DEF Walking, Database
    <2>6. c \notin events
      BY <2>4 DEF Walking
    <2>7. Walking'
      <3> SUFFICES ASSUME NEW v \in Calls
                   PROVE  /\ pc'[v] = "tokens" => KindOf[v] # "voice"
                          /\ pc'[v] = "api_calls" => KindOf[v] = "chat"
                          /\ pc'[v] = "conversations" => KindOf[v] = "chat" /\ v \in NewChats
                          /\ pc'[v] = "voice" => KindOf[v] = "voice"
                          /\ key'[v][1] = OrgOf[v] /\ key'[v][2] <= month
                          /\ \A f \in Fields : <<v, f>> \in dropped => f \in After(pc'[v]) \/ pc'[v] = "dead"
                          /\ v \in events => Past(v)'
        BY <1>1 DEF Walking
      <3>1. CASE v = c
        BY <2>1, <2>2, <2>3, <2>4, <2>5, <2>6, <3>1 DEF Walking
      <3>2. CASE v # c
        BY <2>1, <3>2 DEF Walking, Past
      <3> QED
        BY <3>1, <3>2
    <2> QED
      BY <2>1, <2>4, <2>7 DEF Past
  (* Out of it, or to the end. *)
  <1>2. ASSUME NEW c \in Calls, NEW place \in Fields \union {"dead", "done"}, pc' = [pc EXCEPT ![c] = place],
               place \in Fields => (place = FirstCounter(c) /\ pc[c] \in Database)
                                   \/ (pc[c] \in Fields /\ place = NextCounter(c, pc[c])),
               place = "done" => pc[c] \in Fields /\ place = NextCounter(c, pc[c]), pc[c] # "dead",
               UNCHANGED <<key, month>>, events' \subseteq events \union {c},
               dropped' = dropped \/ (pc[c] \in Fields /\ place = NextCounter(c, pc[c])
                                        /\ dropped' = dropped \union {<<c, pc[c]>>})
        PROVE  Goal
    <2>1. pc'[c] = place /\ \A v \in Calls : v # c => pc'[v] = pc[v]
      BY <1>2 DEF TypeOK
    <2>2. Past(c)'
      BY <2>1 DEF Past
    <2>3. CASE place = "dead"
      <3>1. place \notin {"tokens", "api_calls", "conversations", "voice"}
        BY <2>3
      <3>2. \A v \in Calls : v # c => \A f : <<v, f>> \in dropped' => <<v, f>> \in dropped
        BY <1>2
      <3> QED
        BY <1>2, <2>1, <2>2, <2>3, <3>1, <3>2 DEF Walking, Past
    <2>4. CASE place # "dead"
      <3>1. /\ place = "tokens" => KindOf[c] # "voice"
            /\ place = "api_calls" => KindOf[c] = "chat"
            /\ place = "conversations" => KindOf[c] = "chat" /\ c \in NewChats
            /\ place = "voice" => KindOf[c] = "voice"
        BY <1>2, <2>4 DEF Walking, FirstCounter, NextCounter, Fields
      <3>2. \A f \in Fields : <<c, f>> \in dropped' => f \in After(place)
        <4>1. CASE pc[c] \in Database
          BY <1>2, <1>d, <4>1 DEF Walking, Database
        <4>2. CASE pc[c] \in Fields
          <5>1. place = NextCounter(c, pc[c])
            BY <1>2, <1>d, <2>4, <4>2
          <5>2. After(pc[c]) \subseteq After(place) /\ pc[c] \in After(place)
            BY <4>2, <5>1, AfterFacts
          <5>3. \A f \in Fields : <<c, f>> \in dropped => f \in After(pc[c])
            BY <1>2 DEF Walking
          <5> QED
            BY <1>2, <5>2, <5>3
        <4> QED
          BY <1>2, <2>4, <4>1, <4>2
      <3>3. \A v \in Calls : v # c => \A f : <<v, f>> \in dropped' => <<v, f>> \in dropped
        BY <1>2
      <3> QED
        BY <1>2, <2>1, <2>2, <3>1, <3>2, <3>3 DEF Walking, Past
    <2> QED
      BY <2>3, <2>4
  <1>3. ASSUME NEW c \in Calls, Start(c) PROVE Goal
    <2>1. pc[c] = "idle" /\ "select" \in Database
      BY <1>3 DEF Start, Database
    <2> QED
      BY <1>1, <1>3, <2>1 DEF Start
  <1>4. ASSUME NEW c \in Calls,
               Select(c) \/ Insert(c) \/ InsertConflict(c) \/ InsertError(c) \/ Reselect(c) \/ LastInsert(c)
        PROVE  Goal
    <2>1. pc[c] \in Database /\ UNCHANGED <<key, dropped, month, events>>
      BY <1>4 DEF Select, Insert, InsertOK, InsertConflict, InsertError, DropSession, Reselect, LastInsert, Database
    <2>2. \E place \in Database : pc' = [pc EXCEPT ![c] = place]
      BY <1>4 DEF Select, Insert, InsertOK, InsertConflict, InsertError, DropSession, Reselect, LastInsert, Database
    <2> QED
      BY <1>1, <2>1, <2>2
  <1>5. ASSUME NEW c \in Calls, Commit(c) \/ LastInsertConflict(c) \/ TransactionError(c) PROVE Goal
    <2>1. /\ pc[c] \in Database /\ pc' = [pc EXCEPT ![c] = FirstCounter(c)]
          /\ UNCHANGED <<key, month, dropped>> /\ events' \subseteq events \union {c}
      BY <1>5 DEF Commit, LastInsertConflict, TransactionError, Abandon, Database
    <2>2. FirstCounter(c) \in Fields /\ pc[c] # "dead" /\ FirstCounter(c) # "done"
      BY <1>d, <2>1 DEF FirstCounter, Fields
    <2> QED
      BY <1>2, <2>1, <2>2
  <1>6. ASSUME NEW c \in Calls, Count(c) \/ CountFails(c) PROVE Goal
    <2>1. /\ pc[c] \in Fields /\ pc' = [pc EXCEPT ![c] = NextCounter(c, pc[c])]
          /\ UNCHANGED <<key, month, events>>
          /\ dropped' = dropped \/ dropped' = dropped \union {<<c, pc[c]>>}
      BY <1>6 DEF Count, CountFails
    <2>2. NextCounter(c, pc[c]) \in Fields \union {"done"} /\ pc[c] # "dead"
      BY <2>1, CounterType DEF Fields
    <2> QED
      BY <1>2, <2>1, <2>2
  <1>7. ASSUME NEW c \in Calls, Die(c) PROVE Goal
    BY <1>2, <1>7 DEF Die, Fields
  <1>8. CASE NextMonth
    <2>1. month' = month + 1 /\ month \in Nat /\ UNCHANGED <<pc, key, dropped, events>>
      BY <1>8, ConstantsAssumption DEF NextMonth, TypeOK, Months
    <2>2. \A c \in Calls : key[c][2] \in Nat
      BY ConstantsAssumption DEF TypeOK, Keys, Months
    <2> QED
      BY <2>1, <2>2 DEF Walking, Past
  <1>9. CASE UNCHANGED vars \/ \E o \in Orgs, m \in Months, f \in Fields : Expire(o, m, f)
    BY <1>9 DEF vars, Expire, Walking, Past
  <1> QED
    BY <1>3, <1>4, <1>5, <1>6, <1>7, <1>8, <1>9 DEF Next, Step, Failure

-----------------------------------------------------------------------------
(* What the calls of an organization have in the counters, what those of    *)
(* its current month have there, and what the transactions of a key added. *)
Shares(o, f)  == [c \in Calls |-> IF OrgOf[c] = o THEN Share(c, f) ELSE 0]
Current(o, f) == [c \in Calls |-> IF key[c] = <<o, month>> THEN Share(c, f) ELSE 0]
Added(k, f)   == [c \in Calls |-> IF key[c] = k /\ Past(c) THEN Delta(c)[f] ELSE 0]

Alive == \A c \in Calls : pc[c] # "dead"

(* The quota counters hold the shares of the calls, as long as no process   *)
(* died, and the counter of the current month at least those of the calls  *)
(* that are metered in it.                                                 *)
Tallied ==
    Alive => \A o \in Orgs, f \in Fields :
        /\ RedisTotal(o, f) = SumFunction(Shares(o, f))
        /\ SumFunction(Current(o, f)) <= redis[<<o, month>>][f]

(* No more was applied to a row than the calls added that have left their   *)
(* transaction.                                                            *)
Metered == \A k \in Keys, f \in Fields : applied[k][f] <= SumFunction(Added(k, f))

(* All of these are natural numbers. *)
LEMMA SharesNat ==
    ASSUME NEW f \in Fields
    PROVE  /\ \A c \in Calls : Share(c, f) \in Nat
           /\ \A o : \A c \in Calls : Shares(o, f)[c] \in Nat /\ Current(o, f)[c] \in Nat
           /\ \A k : \A c \in Calls : Added(k, f)[c] \in Nat
  BY DeltaType DEF Share, Shares, Current, Added, Row

(* Only a commit applies anything, and its call leaves its transaction by  *)
(* the same step.                                                          *)
LEMMA MeteredStep ==
    ASSUME TypeOK, Walking, Metered, [Next]_vars
    PROVE  Metered'
  <1> SUFFICES ASSUME NEW k \in Keys, NEW f \in Fields
               PROVE  applied'[k][f] <= SumFunction(Added(k, f)')
    BY DEF Metered
  <1>p. \A c \in Calls : Past(c) => Past(c)' /\ key'[c] = key[c]
    BY WalkingStep
  <1> DEFINE F == Added(k, f)
  <1>f. PICK G : G = Added(k, f)'
    OBVIOUS
  <1>g. /\ \A c \in Calls : G[c] = IF key'[c] = k /\ Past(c)' THEN Delta(c)[f] ELSE 0
        /\ DOMAIN G = Calls /\ SumFunction(Added(k, f)') = SumFunctionOnSet(G, Calls)
    BY <1>f DEF Added, SumFunction
  <1>h. /\ \A c \in Calls : F[c] = IF key[c] = k /\ Past(c) THEN Delta(c)[f] ELSE 0
        /\ DOMAIN F = Calls /\ SumFunction(F) = SumFunctionOnSet(F, Calls)
    BY DEF Added, SumFunction
  <1>n. \A c \in Calls : Delta(c)[f] \in Nat /\ F[c] \in Nat /\ G[c] \in Nat
    <2>1. \A c \in Calls : Delta(c)[f] \in Nat
      BY DeltaType DEF Row
    <2> QED
      BY <2>1, <1>g, <1>h
  <1>i. applied[k][f] <= SumFunctionOnSet(F, Calls) /\ applied[k][f] \in Nat
    BY <1>h DEF Metered, TypeOK, Row
  <1> HIDE DEF F
  <1>l. SumFunctionOnSet(F, Calls) <= SumFunctionOnSet(G, Calls)
    <2>1. \A c \in Calls : F[c] <= G[c]
      BY <1>p, <1>g, <1>h, <1>n
    <2> QED
      BY <1>n, <2>1, SumLess, FinitenessAssumption
  <1>t. SumFunctionOnSet(F, Calls) \in Nat /\ SumFunctionOnSet(G, Calls) \in Nat
    BY <1>n, SumNat, FinitenessAssumption
  <1>1. CASE UNCHANGED applied
    BY <1>g, <1>i, <1>l, <1>t, <1>1
  <1>2. ASSUME NEW c \in Calls, Commit(c) PROVE applied'[k][f] <= SumFunctionOnSet(G, Calls)
    <2>1. /\ applied' = [applied EXCEPT ![key[c]] = [g \in Fields |-> applied[key[c]][g] + Delta(c)[g]]]
          /\ pc[c] = "commit" /\ pc' = [pc EXCEPT ![c] = FirstCounter(c)] /\ key' = key
      BY <1>2 DEF Commit
    <2>2. CASE key[c] = k
      <3>1. applied'[k][f] = applied[k][f] + Delta(c)[f]
        BY <2>1, <2>2 DEF TypeOK
      <3>2. ~Past(c) /\ Past(c)' /\ \A v \in Calls : v # c => (Past(v)' <=> Past(v))
        BY <2>1, CounterType DEF TypeOK, Past, Fields
      <3>3. F[c] = 0 /\ G[c] = Delta(c)[f] /\ \A v \in Calls \ {c} : F[v] = G[v]
        BY <1>g, <1>h, <2>1, <2>2, <3>2
      <3>4. SumFunctionOnSet(F, Calls) + G[c] = SumFunctionOnSet(G, Calls) + F[c]
        BY <1>n, <3>3, SumChange, FinitenessAssumption
      <3> QED
        BY <1>i, <1>n, <1>t, <3>1, <3>3, <3>4
    <2>3. CASE key[c] # k
      <3>1. applied'[k] = applied[k]
        BY <2>1, <2>3 DEF TypeOK
      <3> QED
        BY <1>i, <1>l, <1>t, <3>1
    <2> QED
      BY <2>2, <2>3
  <1>3. (\E c \in Calls : Commit(c)) \/ UNCHANGED applied
    BY DEF Next, Start, Step, Failure, Select, Insert, InsertOK, InsertConflict, InsertError, DropSession,
           Reselect, LastInsert, LastInsertConflict, TransactionError, Abandon, Count, CountFails, Die,
           Expire, NextMonth, vars
  <1> QED
    BY <1>g, <1>1, <1>2, <1>3

(* A step that changes no share, no counter and not the month.              *)
LEMMA TalliedKept ==
    ASSUME Tallied, Alive, UNCHANGED <<redis, expired, month>>,
           \A c \in Calls, f \in Fields : Share(c, f)' = Share(c, f),
           \A c \in Calls : key'[c] = key[c] \/ \A f \in Fields : Share(c, f) = 0
    PROVE  Tallied'
  <1> SUFFICES ASSUME NEW o \in Orgs, NEW f \in Fields
               PROVE  /\ RedisTotal(o, f)' = SumFunction(Shares(o, f)')
                      /\ SumFunction(Current(o, f)') <= redis'[<<o, month'>>][f]
    BY DEF Tallied
  <1>1. RedisTotal(o, f)' = RedisTotal(o, f)
    BY DEF RedisTotal
  <1>2. Shares(o, f)' = Shares(o, f)
    BY DEF Shares
  <1>3. Current(o, f)' = Current(o, f)
    BY DEF Current
  <1> QED
    BY <1>1, <1>2, <1>3 DEF Tallied

(* An increment adds to the counter of the month it is made in, and to the  *)
(* share of its call.                                                      *)
LEMMA CountTallied ==
    ASSUME TypeOK, Walking, Tallied, Alive, NEW c \in Calls, Count(c)
    PROVE  Tallied'
  <1> SUFFICES ASSUME NEW o \in Orgs, NEW f \in Fields
               PROVE  /\ RedisTotal(o, f)' = SumFunction(Shares(o, f)')
                      /\ SumFunction(Current(o, f)') <= redis'[<<o, month'>>][f]
    BY DEF Tallied
  <1>k. PICK k \in Keys : k = <<OrgOf[c], month>>
    BY KeyType DEF TypeOK
  <1>g. PICK g \in Fields : g = pc[c]
    BY DEF Count
  <1> DEFINE A == Shares(o, f)
             B == Current(o, f)
             R == [m \in Months |-> redis[<<o, m>>][f] + expired[<<o, m>>][f]]
  <1>1. /\ g \in Fields /\ pc' = [pc EXCEPT ![c] = NextCounter(c, g)]
        /\ redis' = [redis EXCEPT ![k][g] = redis[k][g] + Delta(c)[g]]
        /\ UNCHANGED <<month, key, dropped, expired>> /\ month \in Months
    BY <1>k, <1>g DEF Count, TypeOK
  <1>d. Delta(c)[f] \in Nat
    BY DeltaType DEF Row
  <1>2. /\ Share(c, f)' = IF f = g THEN Delta(c)[g] ELSE Share(c, f)
        /\ f = g => Share(c, f) = 0
        /\ \A v \in Calls \ {c} : Share(v, f)' = Share(v, f)
    <2>1. /\ g \notin After(g) /\ g \in After(NextCounter(c, g)) /\ After(g) \subseteq After(NextCounter(c, g))
          /\ \A h \in After(NextCounter(c, g)) \ After(g) : h = g \/ Delta(c)[h] = 0
      BY <1>1, <1>g, AfterFacts
    <2>2. <<c, g>> \notin dropped
      BY <1>1, <1>g, <2>1 DEF Walking, Alive
    <2>3. pc'[c] = NextCounter(c, g) /\ \A v \in Calls \ {c} : pc'[v] = pc[v]
      BY <1>1 DEF TypeOK
    <2> QED
      BY <1>1, <1>g, <2>1, <2>2, <2>3 DEF Share
  <1>n. PICK A1, B1, R1 : /\ A1 = Shares(o, f)' /\ B1 = Current(o, f)'
                          /\ R1 = [m \in Months |-> redis'[<<o, m>>][f] + expired[<<o, m>>][f]]
    OBVIOUS
  <1>q. PICK q, q1 : q = redis[<<o, month>>][f] /\ q1 = redis'[<<o, month>>][f]
    OBVIOUS
  <1>a. /\ DOMAIN A = Calls /\ DOMAIN B = Calls /\ DOMAIN A1 = Calls /\ DOMAIN B1 = Calls
        /\ \A v \in Calls : /\ A[v] = IF OrgOf[v] = o THEN Share(v, f) ELSE 0
                            /\ A1[v] = IF OrgOf[v] = o THEN Share(v, f)' ELSE 0
                            /\ B[v] = IF key[v] = <<o, month>> THEN Share(v, f) ELSE 0
                            /\ B1[v] = IF key[v] = <<o, month>> THEN Share(v, f)' ELSE 0
    BY <1>1, <1>n DEF Shares, Current
  <1>b. \A v \in Calls : A[v] \in Nat /\ B[v] \in Nat /\ A1[v] \in Nat /\ B1[v] \in Nat
    BY <1>2, <1>a, <1>d, SharesNat
  <1>r. /\ RedisTotal(o, f) = SumFunctionOnSet(R, Months) /\ RedisTotal(o, f)' = SumFunctionOnSet(R1, Months)
        /\ \A m \in Months : /\ R[m] = redis[<<o, m>>][f] + expired[<<o, m>>][f]
                              /\ redis[<<o, m>>][f] \in Nat /\ expired[<<o, m>>][f] \in Nat
                              /\ R1[m] = redis'[<<o, m>>][f] + expired[<<o, m>>][f]
    BY <1>1, <1>n DEF RedisTotal, SumFunction, TypeOK, Row, Keys
  <1>s. /\ SumFunctionOnSet(R, Months) = SumFunctionOnSet(A, Calls)
        /\ SumFunctionOnSet(B, Calls) <= q
    BY <1>q, <1>a, <1>r DEF Tallied, SumFunction
  <1> SUFFICES SumFunctionOnSet(R1, Months) = SumFunctionOnSet(A1, Calls) /\ SumFunctionOnSet(B1, Calls) <= q1
    BY <1>1, <1>n, <1>q, <1>a, <1>r DEF SumFunction
  <1> HIDE DEF A, B, R
  <1>f. IsFiniteSet(Calls) /\ IsFiniteSet(Months)
    BY FinitenessAssumption, ConstantsAssumption, FS_Interval DEF Months
  <1>t. ASSUME NEW m \in Months PROVE R[m] \in Nat
    <2>1. PICK x, y : x = redis[<<o, m>>][f] /\ y = expired[<<o, m>>][f]
      OBVIOUS
    <2>2. x \in Nat /\ y \in Nat /\ R[m] = x + y
      BY <1>r, <2>1
    <2> QED
      BY <2>2
  <1>3. CASE f = g /\ o = OrgOf[c]
    <2>n. PICK n, d : n = month /\ d = Delta(c)[f]
      OBVIOUS
    <2>m. n \in Months /\ d \in Nat
      BY <1>1, <1>d, <2>n
    <2>1. /\ R1[n] = R[n] + d /\ q1 = q + d /\ q \in Nat
          /\ \A m \in Months \ {n} : R[m] = R1[m]
      <3>1. redis' = [redis EXCEPT ![k] = [redis[k] EXCEPT ![f] = redis[k][f] + d]]
        BY <1>1, <1>3, <2>n
      <3>2. /\ redis'[k] = [redis[k] EXCEPT ![f] = redis[k][f] + d]
            /\ \A j \in Keys : j # k => redis'[j] = redis[j]
        BY <1>1, <3>1 DEF TypeOK
      <3>3. redis'[k][f] = redis[k][f] + d
        BY <1>1, <3>2 DEF TypeOK, Row
      <3>4. k = <<o, n>> /\ \A m \in Months : <<o, m>> \in Keys /\ (m # n => <<o, m>> # k)
        BY <1>3, <1>k, <2>n DEF Keys
      <3>5. /\ R1[n] = redis'[k][f] + expired[k][f] /\ R[n] = redis[k][f] + expired[k][f]
            /\ redis[k][f] \in Nat /\ expired[k][f] \in Nat /\ q = redis[k][f] /\ q1 = redis'[k][f]
        BY <1>r, <1>q, <2>n, <2>m, <3>4
      <3>6. ASSUME NEW m \in Months \ {n} PROVE R[m] = R1[m]
        <4>1. redis'[<<o, m>>] = redis[<<o, m>>]
          BY <3>2, <3>4, <3>6
        <4> QED
          BY <1>r, <4>1
      <3>7. R1[n] = R[n] + d
        <4> HIDE DEF R
        <4> QED BY <2>m, <3>3, <3>5
      <3> QED
        BY <3>3, <3>5, <3>6, <3>7
    <2>2. \A m \in Months : R[m] \in Nat /\ R1[m] \in Nat
      <3>1. R[n] \in Nat
        BY <1>t, <2>m
      <3>2. R1[n] \in Nat
        BY <2>m, <2>1, <3>1
      <3> QED
        BY <1>t, <2>1, <3>2
    <2>3. SumFunctionOnSet(R, Months) + R1[n] = SumFunctionOnSet(R1, Months) + R[n]
      BY <1>f, <2>m, <2>1, <2>2, SumChange
    <2>4. A[c] = 0 /\ A1[c] = d /\ \A v \in Calls \ {c} : A[v] = A1[v] /\ B[v] = B1[v]
      BY <1>2, <1>3, <1>a, <2>n
    <2>5. SumFunctionOnSet(A, Calls) + A1[c] = SumFunctionOnSet(A1, Calls) + A[c]
      BY <1>b, <1>f, <2>4, SumChange
    <2>6. SumFunctionOnSet(B, Calls) + B1[c] = SumFunctionOnSet(B1, Calls) + B[c]
      BY <1>b, <1>f, <2>4, SumChange
    <2>7. B[c] = 0 /\ (B1[c] = d \/ B1[c] = 0)
      BY <1>2, <1>3, <1>a, <2>n
    <2>8. PICK a, a1, b, b1, r, r1, x, x1 :
              /\ a = SumFunctionOnSet(A, Calls) /\ a1 = SumFunctionOnSet(A1, Calls)
              /\ b = SumFunctionOnSet(B, Calls) /\ b1 = SumFunctionOnSet(B1, Calls)
              /\ r = SumFunctionOnSet(R, Months) /\ r1 = SumFunctionOnSet(R1, Months)
              /\ x = R[n] /\ x1 = R1[n]
      OBVIOUS
    <2>9. /\ a \in Nat /\ a1 \in Nat /\ b \in Nat /\ b1 \in Nat /\ r \in Nat /\ r1 \in Nat
          /\ x \in Nat /\ x1 \in Nat
      BY <1>b, <1>f, <2>m, <2>2, <2>8, SumNat
    <2>10. /\ r + x1 = r1 + x /\ x1 = x + d /\ a + d = a1 + 0 /\ (b + d = b1 + 0 \/ b + 0 = b1 + 0)
           /\ r = a /\ b <= q /\ q1 = q + d /\ q \in Nat
      BY <1>s, <2>n, <2>1, <2>3, <2>4, <2>5, <2>6, <2>7, <2>8
    <2>11. r1 = a1 /\ b1 <= q1
      BY <2>m, <2>9, <2>10
    <2> QED
      BY <2>n, <2>8, <2>11
  <1>4. CASE f # g \/ o # OrgOf[c]
    <2>1. (\A m \in Months : R1[m] = R[m]) /\ q1 = q
      <3>1. \A m \in Months : <<o, m>> \in Keys
        BY DEF Keys
      <3>2. ASSUME NEW m \in Months PROVE redis'[<<o, m>>][f] = redis[<<o, m>>][f]
        <4>1. redis' = [redis EXCEPT ![k] = [redis[k] EXCEPT ![g] = redis[k][g] + Delta(c)[g]]]
          BY <1>1
        <4>2. /\ redis'[k] = [redis[k] EXCEPT ![g] = redis[k][g] + Delta(c)[g]]
              /\ \A j \in Keys : j # k => redis'[j] = redis[j]
          BY <1>1, <4>1 DEF TypeOK
        <4>3. CASE <<o, m>> = k
          <5>1. f # g
            BY <1>4, <1>k, <4>3
          <5>2. redis'[k][f] = redis[k][f]
            BY <1>1, <4>2, <5>1 DEF TypeOK, Row
          <5> QED
            BY <4>3, <5>2
        <4>4. CASE <<o, m>> # k
          BY <3>1, <4>2, <4>4
        <4> QED
          BY <4>3, <4>4
      <3>3. \A m \in Months : R1[m] = R[m]
        BY <1>r, <3>2
      <3> QED
        BY <1>1, <1>q, <3>2, <3>3
    <2>2. \A v \in Calls : A1[v] = A[v]
      BY <1>2, <1>4, <1>a
    <2>3. \A v \in Calls : B1[v] = B[v]
      <3>1. key[c] = <<o, month>> => OrgOf[c] = o
        BY DEF Walking
      <3> QED
        BY <1>2, <1>4, <1>a, <3>1
    <2>4. /\ SumFunctionOnSet(A1, Calls) = SumFunctionOnSet(A, Calls)
          /\ SumFunctionOnSet(B1, Calls) = SumFunctionOnSet(B, Calls)
          /\ SumFunctionOnSet(R1, Months) = SumFunctionOnSet(R, Months)
      <3>1. SumFunctionOnSet(A1, Calls) = SumFunctionOnSet(A, Calls)
        BY <1>b, <1>f, <2>2, SumSame
      <3>2. SumFunctionOnSet(B1, Calls) = SumFunctionOnSet(B, Calls)
        BY <1>b, <1>f, <2>3, SumSame
      <3>3. SumFunctionOnSet(R, Months) = SumFunctionOnSet(R1, Months)
        BY <1>f, <1>t, <2>1, SumSame
      <3> QED
        BY <3>1, <3>2, <3>3
    <2> QED
      BY <1>1, <1>s, <2>1, <2>4
  <1> QED
    BY <1>3, <1>4

(* A step of one call that moves it to a place past the same counters.      *)
LEMMA MoveTallied ==
    ASSUME TypeOK, Tallied, Alive, NEW c \in Calls, NEW place, pc' = [pc EXCEPT ![c] = place],
           After(place) = After(pc[c]), UNCHANGED <<redis, expired, month, dropped>>,
           UNCHANGED key \/ (After(pc[c]) = {} /\ \A v \in Calls : v # c => key'[v] = key[v])
    PROVE  Tallied'
  <1>1. \A v \in Calls : After(pc'[v]) = After(pc[v])
    BY DEF TypeOK
  <1>2. \A v \in Calls, f \in Fields : Share(v, f)' = Share(v, f)
    BY <1>1 DEF Share
  <1>3. \A v \in Calls : key'[v] = key[v] \/ \A f \in Fields : Share(v, f) = 0
    BY DEF Share
  <1> QED
    BY <1>2, <1>3, TalliedKept

(* The last months' counters are left behind, and hold what they held.      *)
LEMMA MonthTallied ==
    ASSUME TypeOK, Walking, Tallied, Alive, NextMonth
    PROVE  Tallied'
  <1> SUFFICES ASSUME NEW o \in Orgs, NEW f \in Fields
               PROVE  /\ RedisTotal(o, f)' = SumFunction(Shares(o, f)')
                      /\ SumFunction(Current(o, f)') <= redis'[<<o, month'>>][f]
    BY DEF Tallied
  <1>1. month' = month + 1 /\ month' \in Months /\ month \in Nat /\ UNCHANGED <<redis, expired, pc, key, dropped>>
    BY ConstantsAssumption DEF NextMonth, TypeOK, Months
  <1>2. RedisTotal(o, f)' = RedisTotal(o, f) /\ Shares(o, f)' = Shares(o, f)
    BY <1>1 DEF RedisTotal, Shares, Share
  <1>3. PICK B : B = Current(o, f)'
    OBVIOUS
  <1>4. DOMAIN B = Calls /\ \A c \in Calls : B[c] = IF key[c] = <<o, month'>> THEN Share(c, f)' ELSE 0
    BY <1>1, <1>3 DEF Current
  <1>5. \A c \in Calls : B[c] = 0
    <2>1. \A c \in Calls : key[c][2] \in Nat
      BY ConstantsAssumption DEF TypeOK, Keys, Months
    <2>2. \A c \in Calls : key[c] # <<o, month'>>
      BY <1>1, <2>1 DEF Walking
    <2> QED
      BY <1>4, <2>2
  <1>6. SumFunctionOnSet(B, Calls) = SumFunctionOnSet(B, {})
    BY <1>5, SumOver, FinitenessAssumption
  <1>7. SumFunction(B) = 0
    BY <1>4, <1>6, SumEmpty DEF SumFunction
  <1>8. redis'[<<o, month'>>][f] \in Nat
    BY <1>1 DEF TypeOK, Keys, Row
  <1>9. RedisTotal(o, f) = SumFunction(Shares(o, f))
    BY DEF Tallied
  <1>10. SumFunction(B) <= redis'[<<o, month'>>][f]
    BY <1>7, <1>8
  <1> QED
    BY <1>2, <1>3, <1>9, <1>10

(* A counter that expires is remembered, and is never the current month's.  *)
LEMMA ExpireTallied ==
    ASSUME TypeOK, Tallied, Alive, NEW v \in Orgs, NEW n \in Months, NEW g \in Fields, Expire(v, n, g)
    PROVE  Tallied'
  <1> SUFFICES ASSUME NEW o \in Orgs, NEW f \in Fields
               PROVE  /\ RedisTotal(o, f)' = SumFunction(Shares(o, f)')
                      /\ SumFunction(Current(o, f)') <= redis'[<<o, month'>>][f]
    BY DEF Tallied
  <1>k. PICK k \in Keys : k = <<v, n>>
    BY DEF Keys
  <1>1. /\ redis' = [redis EXCEPT ![k] = [redis[k] EXCEPT ![g] = 0]]
        /\ expired' = [expired EXCEPT ![k] = [expired[k] EXCEPT ![g] = expired[k][g] + redis[k][g]]]
        /\ UNCHANGED <<pc, key, dropped, month>> /\ n < month /\ month \in Months
    BY <1>k DEF Expire, TypeOK
  <1>2. /\ redis'[k] = [redis[k] EXCEPT ![g] = 0]
        /\ expired'[k] = [expired[k] EXCEPT ![g] = expired[k][g] + redis[k][g]]
        /\ \A j \in Keys : j # k => redis'[j] = redis[j] /\ expired'[j] = expired[j]
    BY <1>1 DEF TypeOK
  <1>3. \A j \in Keys : redis[j] \in Row /\ expired[j] \in Row
    BY DEF TypeOK
  <1>4. \A j \in Keys : redis'[j][f] + expired'[j][f] = redis[j][f] + expired[j][f]
    <2>1. CASE f = g
      <3>1. redis'[k][f] = 0 /\ expired'[k][f] = expired[k][f] + redis[k][f]
        BY <1>2, <1>3, <2>1 DEF Row
      <3>2. redis[k][f] \in Nat /\ expired[k][f] \in Nat
        BY <1>3 DEF Row
      <3>3. redis'[k][f] + expired'[k][f] = redis[k][f] + expired[k][f]
        BY <3>1, <3>2
      <3> QED
        BY <1>2, <3>3
    <2>2. CASE f # g
      <3>1. redis'[k][f] = redis[k][f] /\ expired'[k][f] = expired[k][f]
        BY <1>2, <1>3, <2>2 DEF Row
      <3> QED
        BY <1>2, <3>1
    <2> QED
      BY <2>1, <2>2
  <1>5. RedisTotal(o, f)' = RedisTotal(o, f)
    <2>1. [m \in Months |-> redis'[<<o, m>>][f] + expired'[<<o, m>>][f]]
              = [m \in Months |-> redis[<<o, m>>][f] + expired[<<o, m>>][f]]
      BY <1>4 DEF Keys
    <2> QED
      BY <2>1 DEF RedisTotal
  <1>6. redis'[<<o, month'>>][f] = redis[<<o, month>>][f]
    <2>1. n # month
      BY <1>1, ConstantsAssumption DEF Months
    <2>2. <<o, month>> \in Keys /\ <<o, month>> # k
      BY <1>1, <1>k, <2>1 DEF Keys
    <2> QED
      BY <1>1, <1>2, <2>2
  <1>7. Shares(o, f)' = Shares(o, f) /\ Current(o, f)' = Current(o, f)
    BY <1>1 DEF Shares, Current, Share
  <1> QED
    BY <1>5, <1>6, <1>7 DEF Tallied

(* Every step keeps the tally: shares grow with the counters, and the death *)
(* of a process ends the promise.                                          *)
LEMMA TalliedStep ==
    ASSUME TypeOK, Walking, Tallied, [Next]_vars
    PROVE  Tallied'
  <1> SUFFICES ASSUME Alive' PROVE Tallied'
    BY DEF Tallied
  <1>a. Alive
    BY WalkingStep DEF Alive
  <1>d. \A place \in Database \union {"idle", "tokens", "voice"} : After(place) = {}
    BY DEF After, Database
  <1>m. ASSUME NEW c \in Calls, NEW place \in Database \union {"tokens", "voice"}, pc' = [pc EXCEPT ![c] = place],
               pc[c] \in Database \union {"idle"}, UNCHANGED <<redis, expired, month, dropped>>,
               UNCHANGED key \/ \A v \in Calls : v # c => key'[v] = key[v]
        PROVE  Tallied'
    <2>1. After(place) = After(pc[c]) /\ After(pc[c]) = {}
      BY <1>m, <1>d
    <2> QED
      BY <1>a, <1>m, <2>1, MoveTallied
  <1>1. ASSUME NEW c \in Calls, Start(c) PROVE Tallied'
    <2>1. pc' = [pc EXCEPT ![c] = "select"] /\ "select" \in Database /\ pc[c] = "idle" /\ UNCHANGED <<redis, expired, month, dropped>>
      BY <1>1 DEF Start, Database
    <2>2. \A v \in Calls : v # c => key'[v] = key[v]
      BY <1>1 DEF Start, TypeOK
    <2> QED
      BY <1>m, <2>1, <2>2
  <1>2. ASSUME NEW c \in Calls,
               Select(c) \/ Insert(c) \/ InsertConflict(c) \/ InsertError(c) \/ Reselect(c) \/ LastInsert(c)
        PROVE  Tallied'
    <2>1. pc[c] \in Database /\ UNCHANGED <<key, dropped, month, redis, expired>>
      BY <1>2 DEF Select, Insert, InsertOK, InsertConflict, InsertError, DropSession, Reselect, LastInsert, Database
    <2>2. \E place \in Database : pc' = [pc EXCEPT ![c] = place]
      BY <1>2 DEF Select, Insert, InsertOK, InsertConflict, InsertError, DropSession, Reselect, LastInsert, Database
    <2> QED
      BY <1>m, <2>1, <2>2
  <1>3. ASSUME NEW c \in Calls, Commit(c) \/ LastInsertConflict(c) \/ TransactionError(c) PROVE Tallied'
    <2>1. pc[c] \in Database /\ pc' = [pc EXCEPT ![c] = FirstCounter(c)] /\ UNCHANGED <<key, month, dropped, redis, expired>>
      BY <1>3 DEF Commit, LastInsertConflict, TransactionError, Abandon, Database
    <2>2. FirstCounter(c) \in {"tokens", "voice"}
      BY DEF FirstCounter
    <2> QED
      BY <1>m, <2>1, <2>2
  <1>4. ASSUME NEW c \in Calls, Count(c) PROVE Tallied'
    BY <1>4, <1>a, CountTallied
  <1>5. ASSUME NEW c \in Calls, CountFails(c) PROVE Tallied'
    <2>1. PICK g \in Fields : g = pc[c]
      BY <1>5 DEF CountFails
    <2>2. /\ pc' = [pc EXCEPT ![c] = NextCounter(c, g)] /\ dropped' = dropped \union {<<c, g>>}
          /\ UNCHANGED <<key, month, redis, expired>>
      BY <1>5, <2>1 DEF CountFails
    <2>3. /\ g \notin After(g) /\ After(g) \subseteq After(NextCounter(c, g))
          /\ \A f \in After(NextCounter(c, g)) \ After(g) : f = g \/ Delta(c)[f] = 0
      BY <2>1, AfterFacts
    <2>4. pc'[c] = NextCounter(c, g) /\ \A v \in Calls : v # c => pc'[v] = pc[v]
      BY <2>2 DEF TypeOK
    <2>5. \A v \in Calls, f \in Fields : Share(v, f)' = Share(v, f)
      <3> TAKE v \in Calls, f \in Fields
      <3>1. CASE v # c
        BY <2>2, <2>4, <3>1 DEF Share
      <3>2. CASE v = c /\ f = g
        BY <2>1, <2>2, <2>3, <3>2 DEF Share
      <3>3. CASE v = c /\ f # g
        BY <2>1, <2>2, <2>3, <2>4, <3>3 DEF Share
      <3> QED
        BY <3>1, <3>2, <3>3
    <2> QED
      BY <1>a, <2>2, <2>5, TalliedKept
  <1>6. ASSUME NEW c \in Calls, Die(c) PROVE Tallied'
    <2>1. pc'[c] = "dead"
      BY <1>6 DEF Die, TypeOK
    <2> QED
      BY <2>1 DEF Alive
  <1>7. CASE NextMonth
    BY <1>7, <1>a, MonthTallied
  <1>8. CASE UNCHANGED vars
    BY <1>8, <1>a, TalliedKept DEF vars, Share
  <1>9. ASSUME NEW o \in Orgs, NEW m \in Months, NEW f \in Fields, Expire(o, m, f) PROVE Tallied'
    BY <1>9, <1>a, ExpireTallied
  <1> QED
    BY <1>1, <1>2, <1>3, <1>4, <1>5, <1>6, <1>7, <1>8, <1>9 DEF Next, Step, Failure

(* Nobody has called yet, and all sums are of zeros.                        *)
LEMMA SumZero ==
    ASSUME NEW F, NEW S, DOMAIN F = S, IsFiniteSet(S), \A x \in S : F[x] = 0
    PROVE  SumFunction(F) = 0
  <1>1. SumFunctionOnSet(F, S) = SumFunctionOnSet(F, {})
    BY SumOver
  <1> QED
    BY <1>1, SumEmpty DEF SumFunction

(* Nothing is counted at first. *)
LEMMA TallyInit == Init => Tallied /\ Metered
  <1> SUFFICES ASSUME Init PROVE Tallied /\ Metered
    OBVIOUS
  <1>f. IsFiniteSet(Calls) /\ IsFiniteSet(Months) /\ 0 \in Months
    BY FinitenessAssumption, ConstantsAssumption, FS_Interval DEF Months
  <1>1. \A c \in Calls, f \in Fields : Share(c, f) = 0 /\ ~Past(c)
    BY DEF Init, Share, After, Past, Fields
  <1>2. \A k \in Keys, f \in Fields : redis[k][f] = 0 /\ applied[k][f] = 0 /\ expired[k][f] = 0
    BY DEF Init, ZeroRow
  <1>3. ASSUME NEW o \in Orgs, NEW f \in Fields
        PROVE  /\ RedisTotal(o, f) = SumFunction(Shares(o, f))
               /\ SumFunction(Current(o, f)) <= redis[<<o, month>>][f]
    <2>1. PICK A, B, R : A = Shares(o, f) /\ B = Current(o, f) /\ R = [m \in Months |-> redis[<<o, m>>][f] + expired[<<o, m>>][f]]
      OBVIOUS
    <2>2. /\ DOMAIN A = Calls /\ DOMAIN B = Calls /\ DOMAIN R = Months
          /\ (\A c \in Calls : A[c] = 0 /\ B[c] = 0) /\ \A m \in Months : R[m] = 0
      BY <1>1, <1>2, <2>1 DEF Shares, Current, Keys
    <2>3. SumFunction(A) = 0 /\ SumFunction(B) = 0 /\ SumFunction(R) = 0
      BY <1>f, <2>2, SumZero
    <2>4. redis[<<o, month>>][f] = 0 /\ 0 <= 0
      BY <1>2, <1>f DEF Init, Keys
    <2> QED
      BY <2>1, <2>3, <2>4 DEF RedisTotal
  <1>4. ASSUME NEW k \in Keys, NEW f \in Fields PROVE applied[k][f] <= SumFunction(Added(k, f))
    <2>1. PICK A : A = Added(k, f)
      OBVIOUS
    <2>2. DOMAIN A = Calls /\ \A c \in Calls : A[c] = 0
      BY <1>1, <2>1 DEF Added
    <2>3. SumFunction(A) = 0 /\ 0 <= 0
      BY <1>f, <2>2, SumZero
    <2> QED
      BY <1>2, <2>1, <2>3
  <1> QED
    BY <1>3, <1>4 DEF Tallied, Metered

Tally == Walking /\ Tallied /\ Metered

(* The inductive invariant of the counters, with that of the meter rows. *)
LEMMA TallyInvariant == Spec => [](TypeOK /\ IInv /\ Tally)
  <1>1. Init => TypeOK /\ IInv /\ Tally
    BY TypeInit, IInvInit, WalkingInit, TallyInit DEF Tally
  <1>2. TypeOK /\ IInv /\ Tally /\ [Next]_vars => (TypeOK /\ IInv /\ Tally)'
    BY TypeStep, IInvStep, WalkingStep, TalliedStep, MeteredStep DEF Tally
  <1> QED
    BY <1>1, <1>2, PTL DEF Spec

-----------------------------------------------------------------------------
(* What the reports sum over is finite. *)
LEMMA Finite == IsFiniteSet(Calls) /\ IsFiniteSet(Orgs) /\ IsFiniteSet(Months)
  BY FinitenessAssumption, ConstantsAssumption, FS_Interval DEF Months

(* The same function, summed over its domain or the part that counts.       *)
LEMMA SumPart ==
    ASSUME NEW F, NEW G, IsFiniteSet(DOMAIN F), \A x \in DOMAIN F : F[x] \in Nat,
           DOMAIN G \subseteq DOMAIN F, \A x \in DOMAIN G : G[x] = F[x],
           \A x \in DOMAIN F \ DOMAIN G : F[x] = 0
    PROVE  SumFunction(G) = SumFunction(F)
  <1>1. SumFunctionOnSet(F, DOMAIN F) = SumFunctionOnSet(F, DOMAIN G)
    BY SumOver
  <1>2. IsFiniteSet(DOMAIN G)
    BY FS_Subset
  <1>3. SumFunctionOnSet(F, DOMAIN G) = SumFunctionOnSet(G, DOMAIN G)
    BY <1>2, SumSame
  <1> QED
    BY <1>1, <1>3 DEF SumFunction

(* Once the calls have ended, a call has its usage in the counters if it    *)
(* was made and its increment was not dropped.                             *)
LEMMA SettledShare ==
    ASSUME Settled, NEW c \in Calls, NEW f \in Fields
    PROVE  Share(c, f) = IF pc[c] = "done" /\ <<c, f>> \notin dropped THEN Delta(c)[f] ELSE 0
  BY DEF Settled, Share, After

(* Where all calls have ended, none has died. *)
LEMMA SettledAlive == Settled => Alive
  BY DEF Settled, Alive

(* The tally, once the calls have ended, is the count of them all. *)
LEMMA TallyCounts == TypeOK /\ Tally => RedisCountsEveryCall
  <1> SUFFICES ASSUME TypeOK, Tally, Settled, NEW o \in Orgs, NEW f \in Fields
               PROVE  RedisTotal(o, f) = SumFunction([c \in Counted(o, f) |-> Delta(c)[f]])
    BY DEF RedisCountsEveryCall
  <1>1. RedisTotal(o, f) = SumFunction(Shares(o, f))
    BY SettledAlive DEF Tally, Tallied
  <1>2. PICK F, G : F = Shares(o, f) /\ G = [c \in Counted(o, f) |-> Delta(c)[f]]
    OBVIOUS
  <1>3. DOMAIN F = Calls /\ DOMAIN G = Counted(o, f) /\ Counted(o, f) \subseteq Calls
    BY <1>2 DEF Shares, Counted
  <1>4. \A c \in Calls : F[c] \in Nat
    BY <1>2, SharesNat
  <1>5. \A c \in Counted(o, f) : G[c] = F[c]
    BY <1>2, SettledShare DEF Shares, Counted
  <1>6. \A c \in Calls \ Counted(o, f) : F[c] = 0
    BY <1>2, SettledShare DEF Shares, Counted
  <1>7. SumFunction(G) = SumFunction(F)
    BY <1>3, <1>4, <1>5, <1>6, Finite, SumPart
  <1> QED
    BY <1>1, <1>2, <1>7

(* Once the calls have ended, the Redis quota counters hold exactly the     *)
(* usage of every one of them, each counted once, whatever became of its   *)
(* transaction (metering.py:79-83).                                        *)
THEOREM CountsEveryCall == Spec => []RedisCountsEveryCall
  BY TallyInvariant, TallyCounts, PTL

-----------------------------------------------------------------------------
(* Whoever has events in a month has a row of it, and the history lists it. *)
LEMMA EventsListed ==
    ASSUME TypeOK, EventsAreMetered, NEW o \in Orgs, NEW m \in Months, EventsOf(o, m) # {}
    PROVE  /\ \A list \in QuotaUsageSummary(m) : o \in DOMAIN list \/ Cardinality(DOMAIN list) = SummaryLimit
           /\ m \in DOMAIN UsageHistory(o, LastMonth + 1)
  <1>1. PICK c \in events : key[c] = <<o, m>>
    BY DEF EventsOf
  <1>2. meter[<<o, m>>] # NoRow
    BY <1>1 DEF EventsAreMetered
  <1> DEFINE rows  == {n \in Months : meter[<<o, n>>] # NoRow}
             later == {n \in rows : n > m}
  <1>3. /\ IsFiniteSet(Months \ {m}) /\ Cardinality(Months \ {m}) = LastMonth
    <2>1. Cardinality(Months) = LastMonth + 1 /\ LastMonth \in Nat
      BY ConstantsAssumption, FS_Interval DEF Months
    <2>2. IsFiniteSet(Months \ {m}) /\ Cardinality(Months \ {m}) = Cardinality(Months) - 1
      BY Finite, FS_RemoveElement
    <2> QED
      BY <2>1, <2>2
  <1>4. later \subseteq Months \ {m}
    BY ConstantsAssumption DEF Months
  <1>5. Cardinality(later) <= LastMonth /\ Cardinality(later) \in Nat
    BY <1>3, <1>4, FS_Subset, FS_CardinalityType
  <1>6. Cardinality(later) < LastMonth + 1
    BY <1>5, ConstantsAssumption
  <1>7. m \in DOMAIN UsageHistory(o, LastMonth + 1)
    BY <1>2, <1>6 DEF UsageHistory
  <1>8. ASSUME NEW list \in QuotaUsageSummary(m)
        PROVE  o \in DOMAIN list \/ Cardinality(DOMAIN list) = SummaryLimit
    <2> DEFINE used == {v \in Orgs : meter[<<v, m>>] # NoRow}
    <2>1. PICK shown \in SUBSET used : /\ list = [v \in shown |-> meter[<<v, m>>]]
                                       /\ shown = used \/ Cardinality(shown) = SummaryLimit
      BY DEF QuotaUsageSummary
    <2>2. DOMAIN list = shown /\ o \in used
      BY <1>2, <2>1
    <2> QED
      BY <2>1, <2>2
  <1> QED
    BY <1>7, <1>8

(* Once the calls have ended, what the transactions of a key added is what  *)
(* its calls have in the counters.                                         *)
LEMMA SettledAdded ==
    ASSUME Walking, Settled, NEW o \in Orgs, NEW f \in Fields, Agreed(o, f), NEW m \in Months, NEW c \in Calls
    PROVE  Added(<<o, m>>, f)[c] = IF key[c] = <<o, m>> THEN Share(c, f) ELSE 0
  <1>1. Added(<<o, m>>, f)[c] = IF key[c] = <<o, m>> /\ Past(c) THEN Delta(c)[f] ELSE 0
    BY DEF Added
  <1>2. Past(c) <=> pc[c] = "done"
    BY DEF Settled, Past, Fields
  <1>3. CASE key[c] = <<o, m>>
    <2>1. <<c, f>> \notin dropped
      BY <1>3 DEF Agreed, Walking
    <2> QED
      BY <1>1, <1>2, <1>3, <2>1, SettledShare
  <1>4. CASE key[c] # <<o, m>>
    BY <1>1, <1>4
  <1> QED
    BY <1>3, <1>4

(* No page shows more of a row than was added to it.                        *)
LEMMA OverviewBound ==
    ASSUME TypeOK, IInv, Metered, NEW o \in Orgs, NEW f \in Fields, NEW m \in Months
    PROVE  /\ Overview(o, m)[f] \in Nat /\ SumFunction(Added(<<o, m>>, f)) \in Nat
           /\ Overview(o, m)[f] <= SumFunction(Added(<<o, m>>, f))
  <1>1. PICK k \in Keys : k = <<o, m>>
    BY DEF Keys
  <1>2. applied[k][f] <= SumFunction(Added(k, f)) /\ applied[k][f] \in Nat
    BY DEF Metered, TypeOK, Row
  <1>3. SumFunction(Added(k, f)) \in Nat
    <2>1. PICK A : A = Added(k, f)
      OBVIOUS
    <2>2. DOMAIN A = Calls /\ \A c \in Calls : A[c] \in Nat
      BY <2>1, SharesNat DEF Added
    <2>3. SumFunctionOnSet(A, Calls) \in Nat
      BY <2>2, Finite, SumNat
    <2> QED
      BY <2>1, <2>2, <2>3 DEF SumFunction
  <1>4. CASE meter[k] = NoRow
    <2>1. Overview(o, m)[f] = 0
      BY <1>1, <1>4 DEF Overview, MeterOf, ZeroRow
    <2> QED
      BY <1>1, <1>3, <2>1
  <1>5. CASE meter[k] # NoRow
    <2>1. Overview(o, m)[f] = meter[k][f]
      BY <1>1, <1>5 DEF Overview, MeterOf
    <2>2. meter[k][f] \in Nat /\ meter[k][f] <= applied[k][f]
      BY <1>5 DEF IInv, MeterNeverOvercounts, TypeOK, Row
    <2> QED
      BY <1>1, <1>2, <1>3, <2>1, <2>2
  <1> QED
    BY <1>4, <1>5

(* A key is an organization and a month.                                    *)
LEMMA KeyParts ==
    ASSUME TypeOK, Walking
    PROVE  \A c \in Calls : key[c] = <<key[c][1], key[c][2]>> /\ key[c][1] = OrgOf[c] /\ key[c][2] \in Months
  <1> TAKE c \in Calls
  <1>1. key[c] \in Orgs \X Months
    BY DEF TypeOK, Keys
  <1>2. key[c][1] = OrgOf[c]
    BY DEF Walking
  <1> QED
    BY <1>1, <1>2

(* The page of the current month against its quota.                         *)
LEMMA CurrentAgrees ==
    ASSUME TypeOK, IInv, Tally, Settled, NEW o \in Orgs, NEW f \in Fields, Agreed(o, f)
    PROVE  CurrentUsage(o)[f] <= QuotaStatus(o)[f]
  <1>1. month \in Months /\ Walking /\ Metered
    BY DEF TypeOK, Tally
  <1>2. PICK A, B : A = Added(<<o, month>>, f) /\ B = Current(o, f)
    OBVIOUS
  <1>3. \A c \in Calls : A[c] = B[c]
    BY <1>1, <1>2, SettledAdded DEF Current
  <1>4. /\ DOMAIN A = Calls /\ DOMAIN B = Calls
        /\ \A c \in Calls : A[c] \in Nat
    BY <1>2, SharesNat DEF Added, Current
  <1>5. SumFunction(A) = SumFunction(B)
    <2>1. SumFunctionOnSet(A, Calls) = SumFunctionOnSet(B, Calls)
      BY <1>3, <1>4, Finite, SumSame
    <2> QED
      BY <1>4, <2>1 DEF SumFunction
  <1>6. SumFunction(B) <= redis[<<o, month>>][f] /\ redis[<<o, month>>][f] \in Nat
    BY <1>2, <1>1, SettledAlive DEF Tally, Tallied, TypeOK, Keys, Row
  <1>7. /\ Overview(o, month)[f] \in Nat /\ SumFunction(A) \in Nat
        /\ Overview(o, month)[f] <= SumFunction(A)
    BY <1>1, <1>2, OverviewBound
  <1>8. Overview(o, month)[f] <= redis[<<o, month>>][f]
    BY <1>5, <1>6, <1>7
  <1> QED
    BY <1>8 DEF CurrentUsage, QuotaStatus

(* The rows of all months together.                                         *)
LEMMA RowsAgree ==
    ASSUME TypeOK, IInv, Tally, Settled, NEW o \in Orgs, NEW f \in Fields, Agreed(o, f)
    PROVE  SumFunction([m \in Months |-> Overview(o, m)[f]]) <= RedisTotal(o, f)
  <1>1. Walking /\ Metered
    BY DEF Tally
  <1>2. PICK F, K, V, P : /\ F = Shares(o, f) /\ K = [c \in Calls |-> key[c][2]]
                          /\ V = [m \in Months |-> Overview(o, m)[f]]
                          /\ P = Grouped(F, Calls, K, Months)
    OBVIOUS
  <1>3. /\ DOMAIN F = Calls /\ DOMAIN V = Months
        /\ \A c \in Calls : F[c] \in Nat /\ F[c] = (IF OrgOf[c] = o THEN Share(c, f) ELSE 0)
                             /\ K[c] \in Months /\ K[c] = key[c][2]
    BY <1>2, SharesNat DEF Shares, TypeOK, Keys
  <1>4. SumFunctionOnSet(P, Months) = SumFunctionOnSet(F, Calls)
    <2>1. IsFiniteSet(Calls) /\ IsFiniteSet(Months) /\ \A c \in Calls : F[c] \in Nat /\ K[c] \in Months
      BY <1>3, Finite
    <2> QED
      BY <1>2, <2>1, SumParts
  <1>5. ASSUME NEW m \in Months PROVE V[m] \in Nat /\ P[m] \in Nat /\ V[m] <= P[m]
    <2>1. PICK A, R : A = Added(<<o, m>>, f) /\ R = {c \in Calls : K[c] = m}
      OBVIOUS
    <2>2. DOMAIN A = Calls /\ \A c \in Calls : A[c] \in Nat /\ A[c] = IF key[c] = <<o, m>> THEN Share(c, f) ELSE 0
      BY <1>1, <2>1, SettledAdded, SharesNat DEF Added
    <2>3. \A c \in Calls : key[c] = <<key[c][1], key[c][2]>> /\ key[c][1] = OrgOf[c]
      BY <1>1, KeyParts
    <2>4. R \subseteq Calls /\ (\A c \in Calls \ R : A[c] = 0) /\ \A c \in R : A[c] = F[c]
      BY <1>3, <2>1, <2>2, <2>3
    <2>5. SumFunctionOnSet(A, Calls) = SumFunctionOnSet(A, R)
      BY <2>2, <2>4, Finite, SumOver
    <2>6. SumFunctionOnSet(A, R) = SumFunctionOnSet(F, R)
      <3>1. IsFiniteSet(R) /\ \A c \in R : A[c] \in Nat /\ A[c] = F[c]
        BY <2>2, <2>4, Finite, FS_Subset
      <3> QED
        BY <3>1, SumSame
    <2>7. P[m] = SumFunction(A)
      BY <1>2, <2>1, <2>2, <2>5, <2>6 DEF SumFunction, Grouped
    <2> QED
      BY <1>1, <1>2, <2>1, <2>7, OverviewBound
  <1>6. SumFunctionOnSet(V, Months) <= SumFunctionOnSet(P, Months)
    BY <1>5, Finite, SumLess
  <1>7. RedisTotal(o, f) = SumFunctionOnSet(F, Calls)
    BY <1>2, <1>3, SettledAlive DEF Tally, Tallied, SumFunction
  <1> QED
    BY <1>2, <1>3, <1>4, <1>6, <1>7 DEF SumFunction

(* The chats that have events: they are in the counters.                    *)
Chatted(o) == {c \in events : OrgOf[c] = o /\ KindOf[c] = "chat"}

(* A chat with an event has ended, so its usage is in the counters. *)
LEMMA ChattedCounted ==
    ASSUME TypeOK, Tally, Settled, NEW o \in Orgs, NEW f \in Fields, Agreed(o, f)
    PROVE  /\ Chatted(o) \subseteq Calls /\ IsFiniteSet(Chatted(o))
           /\ \A c \in Chatted(o) : Shares(o, f)[c] = Delta(c)[f]
           /\ SumFunctionOnSet(Shares(o, f), Chatted(o)) <= RedisTotal(o, f)
  <1>1. Chatted(o) \subseteq Calls /\ IsFiniteSet(Chatted(o))
    BY Finite, FS_Subset DEF Chatted, TypeOK
  <1>2. ASSUME NEW c \in Chatted(o) PROVE Shares(o, f)[c] = Delta(c)[f]
    <2>1. c \in Calls /\ OrgOf[c] = o /\ Past(c)
      BY <1>1 DEF Chatted, Tally, Walking
    <2>2. pc[c] = "done" /\ <<c, f>> \notin dropped
      BY <2>1 DEF Settled, Past, Agreed, Fields
    <2> QED
      BY <2>1, <2>2, SettledShare DEF Shares
  <1>3. PICK F : F = Shares(o, f)
    OBVIOUS
  <1>4. DOMAIN F = Calls /\ \A c \in Calls : F[c] \in Nat
    BY <1>3, SharesNat DEF Shares
  <1>5. SumFunctionOnSet(F, Chatted(o)) <= SumFunctionOnSet(F, Calls)
    BY <1>1, <1>4, Finite, SumSubset
  <1>6. RedisTotal(o, f) = SumFunctionOnSet(F, Calls)
    BY <1>3, <1>4, SettledAlive DEF Tally, Tallied, SumFunction
  <1> QED
    BY <1>1, <1>2, <1>3, <1>5, <1>6

(* The conversations page counts chats, as the counter of API calls does. *)
LEMMA ConversationsAgree ==
    ASSUME TypeOK, Tally, Settled, NEW o \in Orgs, Agreed(o, "api_calls")
    PROVE  DailyConversations(o) <= RedisTotal(o, "api_calls")
  <1>f. "api_calls" \in Fields
    BY DEF Fields
  <1>1. PICK F : F = Shares(o, "api_calls")
    OBVIOUS
  <1>2. \A c \in Chatted(o) : Delta(c)["api_calls"] = 1
    BY <1>f DEF Chatted, Delta
  <1>3. /\ IsFiniteSet(Chatted(o)) /\ \A c \in Chatted(o) : F[c] = 1
        /\ SumFunctionOnSet(F, Chatted(o)) <= RedisTotal(o, "api_calls")
    BY <1>f, <1>1, <1>2, ChattedCounted
  <1>4. SumFunctionOnSet(F, Chatted(o)) = Cardinality(Chatted(o))
    BY <1>3, SumOnes
  <1> QED
    BY <1>3, <1>4 DEF DailyConversations, Chatted

(* The events of a month that name a model are the chats of that month.     *)
LEMMA ChatsOfMonth ==
    ASSUME TypeOK, Tally, NEW o \in Orgs, NEW m \in Months
    PROVE  {c \in EventsOf(o, m) : KindOf[c] = "chat"} = {c \in Chatted(o) : key[c][2] = m}
  <1>1. \A c \in Calls : key[c] = <<key[c][1], key[c][2]>> /\ key[c][1] = OrgOf[c]
    BY KeyParts DEF Tally
  <1> QED
    BY <1>1 DEF EventsOf, Chatted, TypeOK

(* The tokens of the models, over all months. *)
LEMMA TokensAgree ==
    ASSUME TypeOK, Tally, Settled, NEW o \in Orgs, Agreed(o, "tokens")
    PROVE  SumFunction([m \in Months |-> ModelUsage(o, m).tokens]) <= RedisTotal(o, "tokens")
  <1>f. "tokens" \in Fields
    BY DEF Fields
  <1>1. PICK F, K, V, P : /\ F = Shares(o, "tokens") /\ K = [c \in Calls |-> key[c][2]]
                          /\ V = [m \in Months |-> ModelUsage(o, m).tokens]
                          /\ P = Grouped(TokensOf, Chatted(o), K, Months)
    OBVIOUS
  <1>2. \A c \in Chatted(o) : Delta(c)["tokens"] = TokensOf[c]
    BY <1>f DEF Chatted, Delta
  <1>3. /\ Chatted(o) \subseteq Calls /\ IsFiniteSet(Chatted(o)) /\ \A c \in Chatted(o) : F[c] = TokensOf[c]
        /\ SumFunctionOnSet(F, Chatted(o)) <= RedisTotal(o, "tokens")
    BY <1>f, <1>1, <1>2, ChattedCounted
  <1>4. \A c \in Calls : K[c] = key[c][2] /\ K[c] \in Months
    BY <1>1 DEF TypeOK, Keys
  <1>5. \A c \in Chatted(o) : TokensOf[c] \in Nat /\ K[c] \in Months
    BY <1>3, <1>4, ConstantsAssumption
  <1>6. SumFunctionOnSet(P, Months) = SumFunctionOnSet(TokensOf, Chatted(o))
    <2>1. IsFiniteSet(Chatted(o)) /\ IsFiniteSet(Months) /\ \A c \in Chatted(o) : TokensOf[c] \in Nat /\ K[c] \in Months
      BY <1>3, <1>5, Finite
    <2>2. SumFunctionOnSet(Grouped(TokensOf, Chatted(o), K, Months), Months) = SumFunctionOnSet(TokensOf, Chatted(o))
      BY ONLY <2>1, SumParts
    <2> QED
      BY <1>1, <2>2
  <1>7. SumFunctionOnSet(TokensOf, Chatted(o)) = SumFunctionOnSet(F, Chatted(o))
    BY <1>3, <1>5, SumSame
  <1>8. V = P
    <2>1. ASSUME NEW m \in Months
          PROVE  ModelUsage(o, m).tokens = SumFunctionOnSet(TokensOf, {c \in Chatted(o) : K[c] = m})
      <3>1. {c \in Chatted(o) : K[c] = m} = {c \in Chatted(o) : key[c][2] = m}
        BY <1>3, <1>4
      <3>2. {c \in EventsOf(o, m) : KindOf[c] = "chat"} = {c \in Chatted(o) : K[c] = m}
        BY <3>1, ChatsOfMonth
      <3> QED
        BY <3>2 DEF ModelUsage
    <2> QED
      BY <1>1, <2>1 DEF Grouped
  <1>9. SumFunction(V) = SumFunctionOnSet(P, Months)
    BY <1>1, <1>8 DEF SumFunction
  <1> QED
    BY <1>1, <1>3, <1>6, <1>7, <1>9

(* The calls of the models, over all months. *)
LEMMA CallsAgree ==
    ASSUME TypeOK, Tally, Settled, NEW o \in Orgs, Agreed(o, "api_calls")
    PROVE  SumFunction([m \in Months |-> ModelUsage(o, m).calls]) <= RedisTotal(o, "api_calls")
  <1>f. "api_calls" \in Fields
    BY DEF Fields
  <1>1. PICK One, K, V, P : /\ One = [c \in Calls |-> 1] /\ K = [c \in Calls |-> key[c][2]]
                            /\ V = [m \in Months |-> ModelUsage(o, m).calls]
                            /\ P = Grouped(One, Chatted(o), K, Months)
    OBVIOUS
  <1>2. Chatted(o) \subseteq Calls /\ IsFiniteSet(Chatted(o))
    BY <1>f, ChattedCounted
  <1>3. \A c \in Calls : One[c] = 1 /\ K[c] = key[c][2] /\ K[c] \in Months
    BY <1>1 DEF TypeOK, Keys
  <1>4. ASSUME NEW c \in Chatted(o) PROVE One[c] = 1 /\ One[c] \in Nat /\ K[c] \in Months
    <2>1. c \in Calls
      BY <1>2
    <2> QED
      BY <1>3, <2>1
  <1>5. SumFunctionOnSet(P, Months) = SumFunctionOnSet(One, Chatted(o))
    <2>1. IsFiniteSet(Chatted(o)) /\ IsFiniteSet(Months) /\ \A c \in Chatted(o) : One[c] \in Nat /\ K[c] \in Months
      BY <1>2, <1>4, Finite
    <2>2. SumFunctionOnSet(Grouped(One, Chatted(o), K, Months), Months) = SumFunctionOnSet(One, Chatted(o))
      BY ONLY <2>1, SumParts
    <2> QED
      BY <1>1, <2>2
  <1>6. SumFunctionOnSet(One, Chatted(o)) = Cardinality(Chatted(o))
    BY <1>2, <1>4, SumOnes
  <1>7. ASSUME NEW m \in Months PROVE V[m] = P[m]
    <2>1. PICK R : R = {c \in Chatted(o) : K[c] = m}
      OBVIOUS
    <2>2. IsFiniteSet(R) /\ \A c \in R : One[c] = 1
      BY <1>2, <1>4, <2>1, FS_Subset
    <2>3. SumFunctionOnSet(One, R) = Cardinality(R)
      BY <2>2, SumOnes
    <2>4. ModelUsage(o, m).calls = Cardinality(R)
      <3>1. R = {c \in Chatted(o) : key[c][2] = m}
        BY <1>2, <1>3, <2>1
      <3>2. R = {c \in EventsOf(o, m) : KindOf[c] = "chat"}
        BY <3>1, ChatsOfMonth
      <3> QED
        BY <3>2 DEF ModelUsage
    <2> QED
      BY <1>1, <2>1, <2>3, <2>4 DEF Grouped
  <1>8. V = P
    BY <1>1, <1>7 DEF Grouped
  <1>9. SumFunction(V) = SumFunctionOnSet(P, Months)
    BY <1>1, <1>8 DEF SumFunction
  <1>10. DailyConversations(o) = Cardinality(Chatted(o))
    BY DEF DailyConversations, Chatted
  <1> QED
    BY <1>1, <1>5, <1>6, <1>9, <1>10, ConversationsAgree

(* A table of organizations and months whose columns the counters bound.    *)
LEMMA DashboardAgrees ==
    ASSUME TypeOK, NEW f \in Fields, NEW T,
           \A m \in Months, o \in Orgs : T[m][o] \in Nat,
           \A o \in Orgs : SumFunction([m \in Months |-> T[m][o]]) <= RedisTotal(o, f)
    PROVE  SumFunction([m \in Months |-> SumFunctionOnSet(T[m], Orgs)])
              <= SumFunction([o \in Orgs |-> RedisTotal(o, f)])
  <1>1. PICK X, Y, Z : /\ X = [m \in Months |-> SumFunctionOnSet(T[m], Orgs)]
                       /\ Y = [o \in Orgs |-> SumFunctionOnSet([m \in Months |-> T[m][o]], Months)]
                       /\ Z = [o \in Orgs |-> RedisTotal(o, f)]
    OBVIOUS
  <1>2. SumFunctionOnSet(X, Months) = SumFunctionOnSet(Y, Orgs)
    <2>1. X = RowSums(T, Months, Orgs) /\ Y = RowSums(Turned(T, Months, Orgs), Orgs, Months)
      BY <1>1 DEF RowSums, Turned
    <2> QED
      BY <2>1, Finite, SumExchange
  <1>3. ASSUME NEW o \in Orgs PROVE Y[o] \in Nat /\ Z[o] \in Nat /\ Y[o] <= Z[o]
    <2>1. PICK C, R : C = [m \in Months |-> T[m][o]] /\ R = [m \in Months |-> redis[<<o, m>>][f] + expired[<<o, m>>][f]]
      OBVIOUS
    <2>2. \A m \in Months : C[m] \in Nat /\ R[m] \in Nat
      BY <2>1 DEF TypeOK, Keys, Row
    <2>3. SumFunctionOnSet(C, Months) \in Nat /\ SumFunctionOnSet(R, Months) \in Nat
      BY <2>2, Finite, SumNat
    <2>4. Y[o] = SumFunctionOnSet(C, Months) /\ SumFunction(C) = SumFunctionOnSet(C, Months)
      BY <1>1, <2>1 DEF SumFunction
    <2>5. Z[o] = SumFunctionOnSet(R, Months)
      BY <1>1, <2>1 DEF SumFunction, RedisTotal
    <2> QED
      BY <1>1, <2>1, <2>3, <2>4, <2>5
  <1>4. SumFunctionOnSet(Y, Orgs) <= SumFunctionOnSet(Z, Orgs)
    BY <1>3, Finite, SumLess
  <1>5. SumFunction(X) = SumFunctionOnSet(X, Months) /\ SumFunction(Z) = SumFunctionOnSet(Z, Orgs)
    BY <1>1 DEF SumFunction
  <1> QED
    BY <1>1, <1>2, <1>4, <1>5

(* The tokens on the dashboard of the platform. *)
LEMMA SpendAgrees ==
    ASSUME TypeOK, IInv, Tally, Settled, dropped = {}
    PROVE  SumFunction([m \in Months |-> TokenSpend(m)]) <= SumFunction([o \in Orgs |-> RedisTotal(o, "tokens")])
  <1>f. "tokens" \in Fields
    BY DEF Fields
  <1>1. PICK T : T = [m \in Months |-> [o \in Orgs |-> MeterOf(o, m)["tokens"]]]
    OBVIOUS
  <1>2. \A m \in Months, o \in Orgs : T[m][o] = MeterOf(o, m)["tokens"] /\ T[m][o] \in Nat
    BY <1>f, <1>1, OverviewBound DEF Overview, Tally
  <1>3. ASSUME NEW o \in Orgs PROVE SumFunction([m \in Months |-> T[m][o]]) <= RedisTotal(o, "tokens")
    <2>1. Agreed(o, "tokens")
      BY DEF Agreed
    <2>2. [m \in Months |-> T[m][o]] = [m \in Months |-> Overview(o, m)["tokens"]]
      BY <1>2 DEF Overview
    <2> QED
      BY <1>f, <2>1, <2>2, RowsAgree
  <1>4. [m \in Months |-> TokenSpend(m)] = [m \in Months |-> SumFunctionOnSet(T[m], Orgs)]
    <2>1. \A m \in Months : TokenSpend(m) = SumFunctionOnSet(T[m], Orgs)
      BY <1>1 DEF TokenSpend, SumFunction
    <2> QED
      BY <2>1
  <1> QED
    BY <1>f, <1>2, <1>3, <1>4, DashboardAgrees

(* The requests on the dashboard of the platform. *)
LEMMA RequestsAgree ==
    ASSUME TypeOK, Tally, Settled, dropped = {}
    PROVE  SumFunction([m \in Months |-> TotalRequests(m)])
              <= SumFunction([o \in Orgs |-> RedisTotal(o, "api_calls")])
  <1>f. "api_calls" \in Fields
    BY DEF Fields
  <1>1. PICK T : T = [m \in Months |-> [o \in Orgs |-> ModelUsage(o, m).calls]]
    OBVIOUS
  <1>2. \A m \in Months, o \in Orgs : T[m][o] = ModelUsage(o, m).calls /\ T[m][o] \in Nat
    <2> TAKE m \in Months, o \in Orgs
    <2>1. PICK R : R = {c \in EventsOf(o, m) : KindOf[c] = "chat"}
      OBVIOUS
    <2>2. IsFiniteSet(R) /\ ModelUsage(o, m).calls = Cardinality(R)
      <3>1. R \subseteq Calls
        BY <2>1 DEF EventsOf, TypeOK
      <3> QED
        BY <2>1, <3>1, Finite, FS_Subset DEF ModelUsage
    <2> QED
      BY <1>1, <2>2, FS_CardinalityType
  <1>3. ASSUME NEW o \in Orgs PROVE SumFunction([m \in Months |-> T[m][o]]) <= RedisTotal(o, "api_calls")
    <2>1. Agreed(o, "api_calls")
      BY DEF Agreed
    <2>2. [m \in Months |-> T[m][o]] = [m \in Months |-> ModelUsage(o, m).calls]
      BY <1>2
    <2> QED
      BY <2>1, <2>2, CallsAgree
  <1>4. [m \in Months |-> TotalRequests(m)] = [m \in Months |-> SumFunctionOnSet(T[m], Orgs)]
    <2>1. \A m \in Months : TotalRequests(m) = SumFunctionOnSet(T[m], Orgs)
      BY <1>1 DEF TotalRequests, SumFunction
    <2> QED
      BY <2>1
  <1> QED
    BY <1>f, <1>2, <1>3, <1>4, DashboardAgrees

(* The inductive invariant implies that the pages agree. *)
LEMMA TallyAgrees == TypeOK /\ IInv /\ Tally => ReportsAgree
  <1> SUFFICES ASSUME TypeOK, IInv, Tally PROVE ReportsAgree
    OBVIOUS
  <1>1. EventsAreMetered
    BY DEF IInv
  <1>2. ASSUME NEW o \in Orgs, NEW m \in Months, EventsOf(o, m) # {}
        PROVE  /\ \A list \in QuotaUsageSummary(m) : o \in DOMAIN list \/ Cardinality(DOMAIN list) = SummaryLimit
               /\ m \in DOMAIN UsageHistory(o, LastMonth + 1)
    BY <1>1, <1>2, EventsListed
  <1>3. ASSUME Settled, NEW o \in Orgs, NEW f \in Fields, Agreed(o, f)
        PROVE  /\ CurrentUsage(o)[f] <= QuotaStatus(o)[f]
               /\ SumFunction([m \in Months |-> Overview(o, m)[f]]) <= RedisTotal(o, f)
               /\ f = "api_calls" => DailyConversations(o) <= RedisTotal(o, f)
               /\ f = "tokens" => SumFunction([m \in Months |-> ModelUsage(o, m).tokens]) <= RedisTotal(o, f)
    BY <1>3, CurrentAgrees, RowsAgree, ConversationsAgree, TokensAgree
  <1>4. ASSUME Settled, dropped = {}
        PROVE  /\ SumFunction([m \in Months |-> TokenSpend(m)])
                     <= SumFunction([o \in Orgs |-> RedisTotal(o, "tokens")])
               /\ SumFunction([m \in Months |-> TotalRequests(m)])
                     <= SumFunction([o \in Orgs |-> RedisTotal(o, "api_calls")])
    BY <1>4, SpendAgrees, RequestsAgree
  <1> QED
    BY <1>1, <1>2, <1>3, <1>4 DEF ReportsAgree

(* The pages of usage, analytics and quotas agree: whoever has events is    *)
(* listed with usage, by the platform's list unless it is full, and once the calls have ended no page shows more of   *)
(* an organization's usage than its quota counters hold, unless Redis      *)
(* refused a count (usage.py:34-44, analytics.py:93-135, quotas.py:31-42,   *)
(* billing/analytics.py:58-126).                                            *)
THEOREM PagesAgree == Spec => []ReportsAgree
  BY TallyInvariant, TallyAgrees, PTL
=============================================================================
