---------------------------- MODULE MeteringProps ----------------------------
(***************************************************************************)
(* What usage metering promises, stated over the states of Metering.       *)
(***************************************************************************)
EXTENDS Reports

(* The rows, counters and sessions hold what their columns may hold.       *)
TypeOK ==
    /\ month \in Months
    /\ meter \in [Keys -> Row \union {NoRow}]
    /\ inserting \in [Keys -> Calls \union {NoCall}]
    /\ events \subseteq Calls
    /\ redis \in [Keys -> Row]
    /\ pc \in [Calls -> Places]
    /\ key \in [Calls -> Keys]
    /\ loaded \in [Calls -> Row]
    /\ pending \subseteq Calls
    /\ faults \in 0..MaxFaults
    /\ applied \in [Keys -> Row]
    /\ dropped \subseteq Calls \X Fields
    /\ expired \in [Keys -> Row]

(* Metering never bills an organization for more than was used: a column   *)
(* of a UsageMeter row is at most what the transactions that committed for *)
(* that (organization, month) added, however their read-modify-writes of   *)
(* the row interleave (metering.py:56-71).                                 *)
MeterNeverOvercounts ==
    \A k \in Keys : meter[k] # NoRow => \A f \in Fields : meter[k][f] <= applied[k][f]

(* A granular event is committed only by a transaction that metered the    *)
(* same call into the same month's row, so the event table never shows an  *)
(* organization with usage and no meter (metering.py:53-71).               *)
EventsAreMetered ==
    \A c \in events : meter[key[c]] # NoRow
                      /\ \A f \in Fields : applied[key[c]][f] >= Delta(c)[f]

(* One row per (organization, month) is inserted by one transaction, and a *)
(* call never overwrites a committed row with the zero row it meant to     *)
(* insert: while an insert is open there is no committed row, so no other  *)
(* call's usage can be wiped out by it (metering.py:187-219).              *)
InsertNeverOverwrites ==
    \A k \in Keys : inserting[k] # NoCall =>
        /\ meter[k] = NoRow
        /\ pc[inserting[k]] = "commit" /\ key[inserting[k]] = k

Settled == \A c \in Calls : pc[c] \in {"idle", "done"}
RedisTotal(o, f) == SumFunction([m \in Months |-> redis[<<o, m>>][f] + expired[<<o, m>>][f]])
Counted(o, f) == {c \in Calls : OrgOf[c] = o /\ pc[c] = "done" /\ <<c, f>> \notin dropped}

(* "Increment Redis quota counters -- always runs, even if DB write        *)
(* failed": once the calls have ended, the quota counters hold, or held    *)
(* until they expired, exactly the usage of every one of them, each        *)
(* counted once, whatever became of its transaction and in whichever month *)
(* it ended (metering.py:79-83, enforcer.py:71-78).                        *)
RedisCountsEveryCall ==
    Settled => \A o \in Orgs, f \in Fields :
        RedisTotal(o, f) = SumFunction([c \in Counted(o, f) |-> Delta(c)[f]])

Agreed(o, f) == \A c \in Calls : OrgOf[c] = o => <<c, f>> \notin dropped

(* The pages read different tables, and agree in this: whoever has events in *)
(* a month is listed with usage of it, unless the dashboard's list is full   *)
(* of others; and once the calls have ended, no                              *)
(* page shows more of a column than the quotas counted, in this month and    *)
(* over all of them, unless Redis refused a count of it: what is shown of    *)
(* an organization's usage never exceeds what it is held to                  *)
(* (usage.py:34-44, 96-116, analytics.py:93-112, 126-135, quotas.py:31-42,   *)
(* billing/analytics.py:58-126).                                             *)
ReportsAgree ==
    /\ EventsAreMetered
    /\ \A o \in Orgs, m \in Months : EventsOf(o, m) # {} =>
          /\ \A list \in QuotaUsageSummary(m) : o \in DOMAIN list \/ Cardinality(DOMAIN list) = SummaryLimit
          /\ m \in DOMAIN UsageHistory(o, LastMonth + 1)
    /\ Settled => \A o \in Orgs, f \in Fields : Agreed(o, f) =>
          /\ CurrentUsage(o)[f] <= QuotaStatus(o)[f]
          /\ SumFunction([m \in Months |-> Overview(o, m)[f]]) <= RedisTotal(o, f)
          /\ f = "api_calls" => DailyConversations(o) <= RedisTotal(o, f)
          /\ f = "tokens" => SumFunction([m \in Months |-> ModelUsage(o, m).tokens]) <= RedisTotal(o, f)
    /\ Settled /\ dropped = {} =>
          /\ SumFunction([m \in Months |-> TokenSpend(m)])
                <= SumFunction([o \in Orgs |-> RedisTotal(o, "tokens")])
          /\ SumFunction([m \in Months |-> TotalRequests(m)])
                <= SumFunction([o \in Orgs |-> RedisTotal(o, "api_calls")])

(* Concurrent inserts of one row block each other in the database; still   *)
(* every call gets through its transaction and its counters, or dies with  *)
(* its process (metering.py:202-219).                                      *)
EveryCallEnds == \A c \in Calls : pc[c] = "select" ~> pc[c] \in {"done", "dead"}
=============================================================================
