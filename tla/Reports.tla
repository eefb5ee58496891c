------------------------------- MODULE Reports -------------------------------
(***************************************************************************)
(* What the pages of usage, analytics and quotas tell of an organization:  *)
(* app/api/usage.py, analytics.py and quotas.py, and the platform's own    *)
(* dashboard, app/billing/analytics.py.  They read the two tables metering *)
(* writes and the Redis counters, at one moment.                           *)
(*                                                                         *)
(* Costs and the columns of each model are left out.                       *)
(***************************************************************************)
EXTENDS Metering, FiniteSetsExt

CONSTANT SummaryLimit    \* the rows the dashboard's list of organizations may have

ASSUME SummaryAssumption == SummaryLimit \in Nat \ {0}

(* There are finitely many calls and organizations to report on. *)
ASSUME FinitenessAssumption == IsFiniteSet(Calls) /\ IsFiniteSet(Orgs)

(* The row of a month, or zeros: the pages of the current month.  The       *)
(* overview takes any month.                                                *)
MeterOf(o, m) == IF meter[<<o, m>>] = NoRow THEN ZeroRow ELSE meter[<<o, m>>]

Overview(o, m)  == MeterOf(o, m)
CurrentUsage(o) == Overview(o, month)

(* The rows of the last months that have one. *)
UsageHistory(o, months) ==
    LET rows == {m \in Months : meter[<<o, m>>] # NoRow}
    IN  [m \in {m \in rows : Cardinality({n \in rows : n > m}) < months} |-> meter[<<o, m>>]]

(* The events of a month; the events page shows those of the current one.   *)
EventsOf(o, m) == {c \in events : key[c] = <<o, m>>}

(* The events that name a model: chats.                                     *)
ModelUsage(o, m) ==
    LET chats == {c \in EventsOf(o, m) : KindOf[c] = "chat"}
    IN  [calls |-> Cardinality(chats), tokens |-> SumFunctionOnSet(TokensOf, chats)]

DailyConversations(o) == Cardinality({c \in events : OrgOf[c] = o /\ KindOf[c] = "chat"})

(* The dashboard of the platform: all rows of a month.                      *)
TokenSpend(m) == SumFunction([o \in Orgs |-> MeterOf(o, m)["tokens"]])

(* The rows it lists of a month: all, or as many as the limit lets it.  It    *)
(* prefers those of the highest cost, which may be any of them.             *)
QuotaUsageSummary(m) ==
    LET rows == {o \in Orgs : meter[<<o, m>>] # NoRow}
    IN  {[o \in shown |-> meter[<<o, m>>]] :
            shown \in {S \in SUBSET rows : \/ S = rows /\ Cardinality(S) <= SummaryLimit
                                          \/ Cardinality(S) = SummaryLimit}}

(* total_requests of get_cache_hit_rate. *)
TotalRequests(m) == SumFunction([o \in Orgs |-> ModelUsage(o, m).calls])

(* The status of the quotas, from the counters of the current month.        *)
QuotaStatus(o) == redis[<<o, month>>]
=============================================================================
