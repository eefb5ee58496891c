------------------------------ MODULE Metering ------------------------------
(***************************************************************************)
(* Usage metering (app/billing/metering.py) under concurrent server        *)
(* processes: record_chat, record_embedding and record_voice write one     *)
(* granular TenantUsage event and one aggregated UsageMeter row per        *)
(* (organization, month) in a database transaction, and then increment     *)
(* the Redis quota counters, whatever became of the transaction.           *)
(*                                                                         *)
(* A call is one invocation of a record_* method.  Its session is private; *)
(* the committed rows, the unique index and Redis are shared.  Every       *)
(* database statement and every Redis command is a step, since the         *)
(* application is served by several processes.                             *)
(***************************************************************************)
EXTENDS Naturals

CONSTANTS
    Calls,        \* invocations of record_chat / record_embedding / record_voice
    Orgs,         \* organizations
    OrgOf,        \* OrgOf[c]: the organization_id argument of call c
    KindOf,       \* KindOf[c]: which record_* method c runs
    TokensOf,     \* TokensOf[c]: total_tokens (minutes, for a voice call)
    NewChats,     \* chat calls made with is_new_conversation = True
    LastMonth,    \* bound on the calendar: months are 0..LastMonth
    MaxFaults,    \* bound on database and Redis errors and process deaths
    NoCall,       \* nobody holds an uncommitted insert
    NoRow         \* the UsageMeter row does not exist

Kinds  == {"chat", "embedding", "voice"}
Fields == {"tokens", "api_calls", "conversations", "voice"}
Months == 0..LastMonth
Keys   == Orgs \X Months
Row    == [Fields -> Nat]

ASSUME ConstantsAssumption ==
    /\ OrgOf \in [Calls -> Orgs]
    /\ KindOf \in [Calls -> Kinds]
    /\ TokensOf \in [Calls -> Nat]
    /\ NewChats \subseteq Calls
    /\ LastMonth \in Nat
    /\ MaxFaults \in Nat
    /\ NoCall \notin Calls
    /\ NoRow \notin Row

VARIABLES
    month,      \* current_month()
    meter,      \* committed UsageMeter rows, by (organization, month)
    inserting,  \* the call whose uncommitted INSERT holds the index entry
    events,     \* calls whose TenantUsage event is committed
    redis,      \* Redis quota counters, by (organization, month)
    pc,         \* where each call is
    key,        \* the (organization, month) a call meters, fixed when it starts
    loaded,     \* the meter values the call's session loaded
    pending,    \* calls whose session still holds the unflushed event
    faults,     \* errors and deaths so far
    applied,    \* history: the amounts of the transactions that committed
    dropped,    \* history: the Redis increments that were not made
    expired     \* history: what Redis counters held when they expired

vars == <<month, meter, inserting, events, redis, pc, key, loaded, pending,
          faults, applied, dropped, expired>>

-----------------------------------------------------------------------------
(* What one call adds to each column, and to each Redis counter. *)
Delta(c) == [f \in Fields |->
    CASE f = "tokens"        -> IF KindOf[c] = "voice" THEN 0 ELSE TokensOf[c]
      [] f = "api_calls"     -> IF KindOf[c] = "chat" THEN 1 ELSE 0
      [] f = "conversations" -> IF KindOf[c] = "chat" /\ c \in NewChats THEN 1 ELSE 0
      [] f = "voice"         -> IF KindOf[c] = "voice" THEN TokensOf[c] ELSE 0]

ZeroRow == [f \in Fields |-> 0]

(* The quota counters are incremented one command at a time: tokens, then  *)
(* API calls, then conversations for a chat; tokens only for an embedding; *)
(* voice minutes only for a voice call.                                    *)
FirstCounter(c) == IF KindOf[c] = "voice" THEN "voice" ELSE "tokens"
NextCounter(c, f) ==
    CASE f = "tokens" /\ KindOf[c] = "chat" -> "api_calls"
      [] f = "api_calls" /\ c \in NewChats  -> "conversations"
      [] OTHER                              -> "done"

Database == {"select", "insert", "reselect", "last_insert", "commit"}
Places   == {"idle", "done", "dead"} \union Database \union Fields

Init ==
    /\ month = 0
    /\ meter = [k \in Keys |-> NoRow]
    /\ inserting = [k \in Keys |-> NoCall]
    /\ events = {}
    /\ redis = [k \in Keys |-> ZeroRow]
    /\ pc = [c \in Calls |-> "idle"]
    /\ key = [c \in Calls |-> <<OrgOf[c], 0>>]
    /\ loaded = [c \in Calls |-> ZeroRow]
    /\ pending = {}
    /\ faults = 0
    /\ applied = [k \in Keys |-> ZeroRow]
    /\ dropped = {}
    /\ expired = [k \in Keys |-> ZeroRow]

(* An error or a death, within the bound. *)
Fault == faults < MaxFaults /\ faults' = faults + 1

Release_Leak(c) == inserting' = inserting    \* mutant: the session is not rolled back
(* Leaving the transaction without committing: the index entry is free again. *)
Release(c) == inserting' = [k \in Keys |-> IF inserting[k] = c THEN NoCall ELSE inserting[k]]

-----------------------------------------------------------------------------
(* record_* begins: the period is read once, the event is added to the session. *)
Start(c) ==
    /\ pc[c] = "idle"
    /\ key' = [key EXCEPT ![c] = <<OrgOf[c], month>>]
    /\ pending' = pending \union {c}
    /\ pc' = [pc EXCEPT ![c] = "select"]
    /\ UNCHANGED <<month, meter, inserting, events, redis, loaded, faults, applied, dropped, expired>>

(* get_meter: SELECT sees committed rows only. *)
Select(c) ==
    /\ pc[c] = "select"
    /\ IF meter[key[c]] = NoRow
       THEN /\ pc' = [pc EXCEPT ![c] = "insert"]
            /\ UNCHANGED loaded
       ELSE /\ pc' = [pc EXCEPT ![c] = "commit"]
            /\ loaded' = [loaded EXCEPT ![c] = meter[key[c]]]
    /\ UNCHANGED <<month, meter, inserting, events, redis, key, pending, faults, applied, dropped, expired>>

(* The flush that inserts the row waits while another transaction holds an *)
(* uncommitted row with the same key, and succeeds if there is none.       *)
InsertOK(c) ==
    /\ inserting[key[c]] = NoCall
    /\ meter[key[c]] = NoRow
    /\ inserting' = [inserting EXCEPT ![key[c]] = c]
    /\ loaded' = [loaded EXCEPT ![c] = ZeroRow]
    /\ pc' = [pc EXCEPT ![c] = "commit"]
    /\ UNCHANGED <<month, meter, events, redis, key, pending, faults, applied, dropped, expired>>

Insert(c) == pc[c] = "insert" /\ InsertOK(c)

(* db.rollback() after a failed flush ends the whole transaction, the event *)
(* in it included, and leaves the session usable.                           *)
DropSession(c) ==
    /\ pc[c] = "insert"
    /\ pending' = pending \ {c}
    /\ pc' = [pc EXCEPT ![c] = "reselect"]
    /\ UNCHANGED <<month, meter, inserting, events, redis, key, loaded, applied, dropped, expired>>

(* The flush violates the unique index: another call committed the row. *)
InsertConflict(c) ==
    /\ inserting[key[c]] = NoCall /\ meter[key[c]] # NoRow
    /\ DropSession(c)
    /\ UNCHANGED faults

(* `except Exception` treats every other error of the flush the same way. *)
InsertError(c) == Fault /\ DropSession(c)

(* The re-fetch after the rollback, and the "last resort" insert. *)
Reselect(c) ==
    /\ pc[c] = "reselect"
    /\ IF meter[key[c]] = NoRow
       THEN /\ pc' = [pc EXCEPT ![c] = "last_insert"]
            /\ UNCHANGED loaded
       ELSE /\ pc' = [pc EXCEPT ![c] = "commit"]
            /\ loaded' = [loaded EXCEPT ![c] = meter[key[c]]]
    /\ UNCHANGED <<month, meter, inserting, events, redis, key, pending, faults, applied, dropped, expired>>

LastInsert(c) == pc[c] = "last_insert" /\ InsertOK(c)

Written_Twice(c) ==    \* mutant: the row just inserted already holds the call's amounts
    LET row == IF meter[key[c]] = NoRow THEN Delta(c) ELSE meter[key[c]]
    IN  [f \in Fields |-> row[f] + Delta(c)[f]]

(* `meter.x += v; db.commit()`: the UPDATE writes the columns the call     *)
(* changed, computed from the values the session loaded, and no others.    *)
Written(c) ==
    LET row == IF meter[key[c]] = NoRow THEN ZeroRow ELSE meter[key[c]]
    IN  [f \in Fields |-> IF Delta(c)[f] = 0 THEN row[f] ELSE loaded[c][f] + Delta(c)[f]]

Commit(c) ==
    /\ pc[c] = "commit"
    /\ meter' = [meter EXCEPT ![key[c]] = Written(c)]
    /\ applied' = [applied EXCEPT ![key[c]] = [f \in Fields |-> @[f] + Delta(c)[f]]]
    /\ events' = IF c \in pending THEN events \union {c} ELSE events
    /\ pending' = pending \ {c}
    /\ Release(c)
    /\ pc' = [pc EXCEPT ![c] = FirstCounter(c)]
    /\ UNCHANGED <<month, redis, key, loaded, faults, dropped, expired>>

Abandon_Commits(c) ==    \* mutant: the except branch commits what the session holds
    /\ events' = IF c \in pending THEN events \union {c} ELSE events
    /\ pending' = pending \ {c}
    /\ Release(c)
    /\ pc' = [pc EXCEPT ![c] = FirstCounter(c)]
    /\ UNCHANGED <<month, meter, redis, key, loaded, applied, dropped, expired>>

Abandon_Returns(c) ==    \* mutant: the except branch returns before the counters
    /\ pending' = pending \ {c}
    /\ Release(c)
    /\ pc' = [pc EXCEPT ![c] = "done"]
    /\ UNCHANGED <<month, meter, events, redis, key, loaded, applied, dropped, expired>>

(* The outer except: log, roll back, and go on to the quota counters. *)
Abandon(c) ==
    /\ pending' = pending \ {c}
    /\ Release(c)
    /\ pc' = [pc EXCEPT ![c] = FirstCounter(c)]
    /\ UNCHANGED <<month, meter, events, redis, key, loaded, applied, dropped, expired>>

(* The last-resort insert meets a row that was committed meanwhile. *)
LastInsertConflict(c) ==
    /\ pc[c] = "last_insert"
    /\ inserting[key[c]] = NoCall /\ meter[key[c]] # NoRow
    /\ Abandon(c)
    /\ UNCHANGED faults

(* Any other database error, in any statement but the guarded insert. *)
TransactionError(c) == Fault /\ pc[c] \in Database \ {"insert"} /\ Abandon(c)

-----------------------------------------------------------------------------
(* quota_enforcer.increment: reads the month again, INCRBYFLOATs, and lets  *)
(* the counter expire 35 days later, which is after the end of its month.   *)
Count(c) ==
    /\ pc[c] \in Fields
    /\ redis' = [redis EXCEPT ![<<OrgOf[c], month>>][pc[c]] = @ + Delta(c)[pc[c]]]
    /\ pc' = [pc EXCEPT ![c] = NextCounter(c, pc[c])]
    /\ UNCHANGED <<month, meter, inserting, events, key, loaded, pending, faults, applied, dropped, expired>>

(* An exception of the Redis command is logged and swallowed. *)
CountFails(c) ==
    /\ Fault
    /\ pc[c] \in Fields
    /\ dropped' = dropped \union {<<c, pc[c]>>}
    /\ pc' = [pc EXCEPT ![c] = NextCounter(c, pc[c])]
    /\ UNCHANGED <<month, meter, inserting, events, redis, key, loaded, pending, applied, expired>>

(* The server process dies: its open transaction is rolled back. *)
Die(c) ==
    /\ Fault
    /\ pc[c] \notin {"idle", "done", "dead"}
    /\ pending' = pending \ {c}
    /\ Release(c)
    /\ pc' = [pc EXCEPT ![c] = "dead"]
    /\ UNCHANGED <<month, meter, events, redis, key, loaded, applied, dropped, expired>>

(* The 35 days of a counter are over: it is gone, once its month is.        *)
Expire(o, m, f) ==
    /\ m < month
    /\ redis[<<o, m>>][f] > 0
    /\ expired' = [expired EXCEPT ![<<o, m>>][f] = @ + redis[<<o, m>>][f]]
    /\ redis' = [redis EXCEPT ![<<o, m>>][f] = 0]
    /\ UNCHANGED <<month, meter, inserting, events, pc, key, loaded, pending, faults, applied, dropped>>

NextMonth ==
    /\ month < LastMonth
    /\ month' = month + 1
    /\ UNCHANGED <<meter, inserting, events, redis, pc, key, loaded, pending, faults, applied, dropped, expired>>

-----------------------------------------------------------------------------
(* What the code does of itself, and what goes wrong around it. *)
Step(c) ==
    \/ Select(c) \/ Insert(c) \/ InsertConflict(c) \/ Reselect(c)
    \/ LastInsert(c) \/ LastInsertConflict(c) \/ Commit(c) \/ Count(c)

Failure(c) == InsertError(c) \/ TransactionError(c) \/ CountFails(c) \/ Die(c)

Next ==
    \/ \E c \in Calls : Start(c) \/ Step(c) \/ Failure(c)
    \/ \E o \in Orgs, m \in Months, f \in Fields : Expire(o, m, f)
    \/ NextMonth

Spec == Init /\ [][Next]_vars

(* A process that is not dead keeps executing its statements; nothing is   *)
(* assumed about when calls are made, when processes die or months pass.   *)
Fairness == \A c \in Calls : WF_vars(Step(c))

FairSpec == Spec /\ Fairness
=============================================================================
