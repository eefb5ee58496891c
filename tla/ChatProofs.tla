------------------------------ MODULE ChatProofs ------------------------------
(***************************************************************************)
(* Type correctness and the safety of the chat pipeline, for every number  *)
(* of requests in service, every set of queries, agents and organizations, *)
(* every limit and every number of failures.                               *)
(***************************************************************************)
EXTENDS ChatProps, FiniteSetTheorems, TLAPS

(* The values a slot starts with are of their types. *)
LEMMA LocalTypes ==
    /\ NoAgent \in Agents /\ NoQuery \in Queries
    /\ Plans \subseteq SUBSET Features
  BY ConstantsAssumption DEF NoAgent, NoQuery, Plans, Features

(* Counting some more keeps a table of counters a table of counters. *)
LEMMA AddType ==
    ASSUME NEW table \in CounterValues, NEW o \in Orgs, NEW n \in Nat
    PROVE  /\ Add(table, o, n) \in CounterValues
           /\ \A p \in Orgs : Add(table, o, n)[p] = IF p = o THEN table[p] + n ELSE table[p]
  BY DEF Add, CounterValues

(* What a loop of retrieval asks a model, and how often. *)
LEMMA ChecksType == ASSUME NEW s PROVE 0..(IF query[s] \in Agentic THEN MaxChecks ELSE 0) \subseteq Nat
  BY DEF MaxChecks

(* The plan gate lets GPT-4o through to those only who have the feature. *)
LEMMA GateType ==
    ASSUME NEW q \in Queries, NEW level, NEW permitted
    PROVE  /\ Gate(Select(q, level), permitted) \in Models
           /\ Gate(Select(q, level), permitted) = "gpt-4o" => "gpt4o" \in permitted
  BY DEF Gate, Select, Models

(* A request belongs to an organization. *)
LEMMA OrgType == TypeOK => \A s \in Slots : Org(s) \in Orgs
  BY ConstantsAssumption DEF TypeOK, Org

(* The pipeline starts with its types. *)
LEMMA TypeInit == Init => TypeOK
  <1> SUFFICES ASSUME Init PROVE TypeOK
    OBVIOUS
  <1>1. 0 \in 0..MaxArrivals /\ 0 \in 0..MaxFaults
    BY ConstantsAssumption
  <1>2. /\ redis \in CounterValues /\ used \in CounterValues /\ lost \in CounterValues
        /\ unmetered \in CounterValues
    BY DEF Init, CounterValues
  <1>3. features \in [Orgs -> SUBSET Features] /\ had \in [Orgs -> SUBSET Features]
    BY LocalTypes DEF Init
  <1> QED
    BY <1>1, <1>2, <1>3, LocalTypes DEF Init, TypeOK, Places, Models, Outcomes

(* Every step of the pipeline, every failure and every change from outside *)
(* keeps the types.                                                        *)
LEMMA TypeStep == TypeOK /\ [Next]_vars => TypeOK'
  <1> SUFFICES ASSUME TypeOK, [Next]_vars
               PROVE  TypeOK'
    OBVIOUS
  <1> USE DEF TypeOK, Places, Outcomes, Go, Answer, request, tenant, bounds, use, history
  <1>f. Fault => faults' \in 0..MaxFaults
    BY ConstantsAssumption DEF Fault
  <1>o. \A s \in Slots : Org(s) \in Orgs
    BY OrgType
  <1>1. ASSUME NEW s \in Slots, Arrive(s) PROVE TypeOK'
    BY <1>1, ConstantsAssumption DEF Arrive
  <1>2. ASSUME NEW s \in Slots, Resolve(s) PROVE TypeOK'
    BY <1>2 DEF Resolve
  <1>3. ASSUME NEW s \in Slots, CheckQuota(s) PROVE TypeOK'
    BY <1>3 DEF CheckQuota
  <1>4. ASSUME NEW s \in Slots, AddTokens(s) PROVE TypeOK'
    <2>1. redis' \in CounterValues
      BY <1>4, <1>o, AddType DEF AddTokens
    <2> QED
      BY <1>4, <2>1 DEF AddTokens
  <1>5. ASSUME NEW s \in Slots, Flags(s) PROVE TypeOK'
    <2>1. model' \in [Slots -> Models]
      BY <1>5, GateType DEF Flags
    <2>2. allow' \in [Slots -> SUBSET Features]
      BY <1>5, <1>o DEF Flags
    <2>3. pc' \in [Slots -> Places]
      BY <1>5 DEF Flags
    <2> QED
      BY <1>5, <2>1, <2>2, <2>3 DEF Flags
  <1>6. ASSUME NEW s \in Slots, Lookup(s) \/ Govern(s) PROVE TypeOK'
    <2>1. ASSUME Lookup(s) PROVE TypeOK'
      <3>1. \A e \in Hits(s) : e[3] \in Models
        BY DEF Hits, Entries
      <3> QED
        BY <2>1, <3>1 DEF Lookup
    <2> QED
      BY <1>6, <2>1 DEF Govern
  <1>7. ASSUME NEW s \in Slots, ScoreRisk(s) PROVE TypeOK'
    <2>1. model' \in [Slots -> Models]
      BY <1>7, GateType DEF ScoreRisk
    <2> QED
      BY <1>7, <2>1 DEF ScoreRisk
  <1>8. ASSUME NEW s \in Slots, CallModel(s) PROVE TypeOK'
    <2>1. used' \in CounterValues
      BY <1>8, <1>o, AddType DEF CallModel
    <2> QED
      BY <1>8, <2>1 DEF CallModel
  <1>9. ASSUME NEW s \in Slots, Record(s) PROVE TypeOK'
    <2>1. redis' \in CounterValues
      BY <1>9, <1>o, AddType DEF Record
    <2> QED
      BY <1>9, <2>1 DEF Record, AfterRecord
  <1>10. ASSUME NEW s \in Slots, CheckTokens(s) \/ Finish(s) PROVE TypeOK'
    BY <1>10 DEF CheckTokens, Finish
  <1>11. ASSUME NEW s \in Slots, Store(s) \/ Write(s) PROVE TypeOK'
    BY <1>11 DEF Store, Write, Entries
  <1>12. ASSUME NEW s \in Slots, Reply(s) PROVE TypeOK'
    BY <1>12, LocalTypes DEF Reply, Models
  <1>13. ASSUME NEW s \in Slots, Error(s) \/ CacheFails(s) PROVE TypeOK'
    BY <1>13, <1>f DEF Error, CacheFails
  <1>14. ASSUME NEW s \in Slots, RecordFails(s) PROVE TypeOK'
    <2>1. lost' \in CounterValues
      BY <1>14, <1>o, AddType DEF RecordFails
    <2> QED
      BY <1>14, <1>f, <2>1 DEF RecordFails, AfterRecord
  <1>15. CASE Environment
    BY <1>15, <1>f DEF Environment, ChangeStatus, ChangeFeatures, ClearCache
  <1>16. CASE UNCHANGED vars
    BY <1>16 DEF vars
  <1>17. ASSUME NEW s \in Slots, FastLLM(s) PROVE TypeOK'
    <2>1. used' \in CounterValues /\ unmetered' \in CounterValues
      BY <1>17, <1>o, AddType DEF FastLLM
    <2> QED
      BY <1>17, <2>1 DEF FastLLM
  <1>18. ASSUME NEW s \in Slots, Retrieve(s) PROVE TypeOK'
    <2>1. used' \in CounterValues /\ unmetered' \in CounterValues
      BY <1>18, <1>o, ChecksType, AddType DEF Retrieve
    <2> QED
      BY <1>18, <2>1 DEF Retrieve
  <1> QED
    BY <1>1, <1>2, <1>3, <1>4, <1>5, <1>6, <1>7, <1>8, <1>9, <1>10, <1>11, <1>12, <1>13,
       <1>14, <1>15, <1>16, <1>17, <1>18 DEF Next, Step, Failure

(* Every variable always has its type: in particular every step of the     *)
(* pipeline leads to a step of the pipeline and every model selection      *)
(* yields a known model, whatever fails (orchestrator.py:65-419).          *)
THEOREM TypeCorrect == Spec => []TypeOK
  BY TypeInit, TypeStep, PTL DEF Spec

-----------------------------------------------------------------------------
(* The strengthening: what is known of a request at each place it can be   *)
(* at.  Until the model or the cache answered, nothing is metered; what is *)
(* recorded, and after that stored, is such an answer, metered once.       *)
Unanswered == {"idle", "resolve", "quota", "flags", "fast_llm", "lookup",
               "govern", "risk", "retrieve", "llm"}
Answered   == {"check_tokens", "add_tokens", "store", "write", "finish"}

Stages ==
    \A s \in Slots :
        /\ pc[s] \in Unanswered => outcome[s] = "none" /\ metered[s] = 0
        /\ pc[s] = "record" => outcome[s] \in {"answer", "cached"} /\ metered[s] = 0
        /\ pc[s] \in Answered => outcome[s] = "answer" /\ metered[s] = 1
        /\ pc[s] = "lookup" => "cache" \in allow[s]
        /\ pc[s] = "fast_llm" => Path[query[s]] = "fast"
        /\ pc[s] = "write" => Path[query[s]] = "plain"

(* A query behind governance was allowed, one behind scoring vetted; what  *)
(* a writer of the cache holds in its hands is vetted as well.             *)
Vetting ==
    \A s \in Slots :
        /\ pc[s] = "risk" => Allowed[query[s]]
        /\ pc[s] \in {"retrieve", "llm"} => Vetted(query[s])
        /\ \A e \in seen[s] : Vetted(e[2]) /\ Path[e[2]] = "plain"

(* What a request knows of its organization's features the organization    *)
(* has had, and so it has for every answer about to be stored.             *)
Remembered ==
    /\ \A o \in Orgs : features[o] \subseteq had[o]
    /\ \A s \in Slots :
          /\ allow[s] \subseteq had[Org(s)]
          /\ pc[s] = "idle" => allow[s] = {}
          /\ \A e \in seen[s] : e[3] = "gpt-4o" => "gpt4o" \in had[OrgOf[e[1]]]

IInv == Stages /\ Vetting /\ Remembered /\ MeteredOnce /\ FeatureGates /\ AnswersAreVetted

(* Nothing is in service at first: the strengthening holds. *)
LEMMA IInvInit == Init => IInv
  BY DEF Init, IInv, Stages, Vetting, Remembered, MeteredOnce, FeatureGates, AnswersAreVetted,
         Unanswered, Answered

(* A request only moves itself; every other request keeps what is known of *)
(* it, except that the cache entries around it change.                     *)
LEMMA StagesStep == TypeOK /\ Stages /\ MeteredOnce /\ [Next]_vars => Stages' /\ MeteredOnce'
  <1> SUFFICES ASSUME TypeOK, Stages, MeteredOnce, [Next]_vars
               PROVE  Stages' /\ MeteredOnce'
    OBVIOUS
  <1> USE DEF TypeOK, Stages, MeteredOnce, Go, Answer, request, tenant, bounds, use, history,
              Unanswered, Answered
  <1>1. ASSUME NEW s \in Slots, Arrive(s) \/ Resolve(s) PROVE Stages' /\ MeteredOnce'
    BY <1>1 DEF Arrive, Resolve
  <1>2. ASSUME NEW s \in Slots, CheckQuota(s) PROVE Stages' /\ MeteredOnce'
    BY <1>2 DEF CheckQuota
  <1>3. ASSUME NEW s \in Slots, Flags(s) PROVE Stages' /\ MeteredOnce'
    BY <1>3 DEF Flags, Cacheable
  <1>4. ASSUME NEW s \in Slots, FastLLM(s) \/ Lookup(s) \/ Govern(s)
        PROVE Stages' /\ MeteredOnce'
    BY <1>4 DEF FastLLM, Lookup, Govern
  <1>5. ASSUME NEW s \in Slots, ScoreRisk(s) \/ Retrieve(s) \/ CallModel(s) PROVE Stages' /\ MeteredOnce'
    BY <1>5 DEF ScoreRisk, Retrieve, CallModel
  <1>6. ASSUME NEW s \in Slots, Record(s) PROVE Stages' /\ MeteredOnce'
    BY <1>6 DEF Record, AfterRecord
  <1>7. ASSUME NEW s \in Slots, CheckTokens(s) \/ AddTokens(s) PROVE Stages' /\ MeteredOnce'
    BY <1>7 DEF CheckTokens, AddTokens
  <1>8. ASSUME NEW s \in Slots, Store(s) \/ Write(s) \/ Finish(s) PROVE Stages' /\ MeteredOnce'
    BY <1>8 DEF Store, Write, Finish, Cacheable
  <1>9. ASSUME NEW s \in Slots, Reply(s) PROVE Stages' /\ MeteredOnce'
    BY <1>9 DEF Reply
  <1>10. ASSUME NEW s \in Slots, Error(s) PROVE Stages' /\ MeteredOnce'
    BY <1>10 DEF Error, Raises
  <1>11. ASSUME NEW s \in Slots, RecordFails(s) \/ CacheFails(s)
         PROVE Stages' /\ MeteredOnce'
    BY <1>11 DEF RecordFails, CacheFails, AfterRecord
  <1>12. CASE Environment \/ UNCHANGED vars
    BY <1>12 DEF Environment, ChangeStatus, ChangeFeatures, ClearCache, vars
  <1> QED
    BY <1>1, <1>2, <1>3, <1>4, <1>5, <1>6, <1>7, <1>8, <1>9, <1>10, <1>11, <1>12
       DEF Next, Step, Failure

(* A request reads its features once and both selections are gated by them; *)
(* the organization has had them, then and ever after.                      *)
LEMMA GatesStep == TypeOK /\ Stages /\ Remembered /\ FeatureGates /\ [Next]_vars => Remembered' /\ FeatureGates'
  <1> SUFFICES ASSUME TypeOK, Stages, Remembered, FeatureGates, [Next]_vars
               PROVE  Remembered' /\ FeatureGates'
    OBVIOUS
  <1> USE DEF TypeOK, Remembered, FeatureGates, Go, Answer, request, tenant, bounds, use, history, Org
  <1>o. \A s \in Slots : OrgOf[agent[s]] \in Orgs
    BY OrgType
  <1>1. ASSUME NEW s \in Slots, Flags(s) PROVE Remembered' /\ FeatureGates'
    <2>1. outcome'[s] = "none"
      BY <1>1 DEF Flags, Stages, Unanswered
    <2> QED
      BY <1>1, <1>o, <2>1, GateType DEF Flags
  <1>2. ASSUME NEW s \in Slots, Lookup(s) PROVE Remembered' /\ FeatureGates'
    <2>1. \A e \in Hits(s) : e[3] = "gpt-4o" => "gpt4o" \in had[OrgOf[agent[s]]]
      BY DEF Hits
    <2> QED
      BY <1>2, <2>1 DEF Lookup, Stages
  <1>3. ASSUME NEW s \in Slots, ScoreRisk(s) PROVE Remembered' /\ FeatureGates'
    BY <1>3, GateType DEF ScoreRisk, Stages, Unanswered
  <1>4. ASSUME NEW s \in Slots, Arrive(s) \/ Reply(s) PROVE Remembered' /\ FeatureGates'
    BY <1>4 DEF Arrive, Reply, Stages, Unanswered
  <1>5. ASSUME NEW s \in Slots, Resolve(s) \/ CheckQuota(s) \/ FastLLM(s) \/ Govern(s)
                                \/ Retrieve(s) \/ CallModel(s) \/ Error(s)
        PROVE Remembered' /\ FeatureGates'
    BY <1>5 DEF Resolve, CheckQuota, FastLLM, Govern, Retrieve, CallModel, Error, Raises, Stages, Unanswered,
                Answered
  <1>6. ASSUME NEW s \in Slots, Record(s) \/ CheckTokens(s) \/ AddTokens(s) \/ Finish(s) \/ RecordFails(s)
        PROVE Remembered' /\ FeatureGates'
    BY <1>6 DEF Record, CheckTokens, AddTokens, Finish, RecordFails, AfterRecord
  <1>7. ASSUME NEW s \in Slots, Store(s) \/ CacheFails(s) PROVE Remembered' /\ FeatureGates'
    BY <1>7 DEF Store, CacheFails
  <1>8. ASSUME NEW s \in Slots, Write(s) PROVE Remembered' /\ FeatureGates'
    <2>1. model[s] = "gpt-4o" => "gpt4o" \in had[OrgOf[agent[s]]]
      BY <1>8 DEF Write, Stages, Answered
    <2> QED
      BY <1>8, <2>1 DEF Write
  <1>9. ASSUME NEW o \in Orgs, ChangeStatus(o) \/ ChangeFeatures(o) PROVE Remembered' /\ FeatureGates'
    <2>1. ASSUME ChangeFeatures(o) PROVE Remembered' /\ FeatureGates'
      <3>1. PICK fs \in SUBSET Features : features' = [features EXCEPT ![o] = fs] /\ had' = [had EXCEPT ![o] = had[o] \union fs]
        BY <2>1 DEF ChangeFeatures
      <3>2. \A p \in Orgs : features'[p] \subseteq had'[p] /\ had[p] \subseteq had'[p]
        BY <3>1
      <3>3. UNCHANGED <<cache, pc, agent, query, allow, model, seen, outcome>>
        BY <2>1 DEF ChangeFeatures
      <3>4. \A a \in Agents : OrgOf[a] \in Orgs
        BY ConstantsAssumption
      <3>5. FeatureGates'
        BY <3>2, <3>3, <3>4 DEF Entries
      <3>6. Remembered'
        BY <3>2, <3>3, <3>4 DEF Entries
      <3> QED
        BY <3>5, <3>6
    <2> QED
      BY <1>9, <2>1 DEF ChangeStatus
  <1>10. CASE (\E a \in Agents : ClearCache(a)) \/ UNCHANGED vars
    BY <1>10 DEF ClearCache, vars
  <1> QED
    BY <1>1, <1>2, <1>3, <1>4, <1>5, <1>6, <1>7, <1>8, <1>9, <1>10
       DEF Next, Step, Failure, Environment

(* Only an answer of the model, to a vetted query, is ever stored; a       *)
(* concurrent writer puts back entries that were vetted when it read them. *)
LEMMA VettingStep ==
    TypeOK /\ Stages /\ Vetting /\ AnswersAreVetted /\ [Next]_vars
        => Vetting' /\ AnswersAreVetted'
  <1> SUFFICES ASSUME TypeOK, Stages, Vetting, AnswersAreVetted, [Next]_vars
               PROVE  Vetting' /\ AnswersAreVetted'
    OBVIOUS
  <1> USE DEF TypeOK, Vetting, AnswersAreVetted, Go, Answer, request, tenant, bounds, use, history
  <1>1. ASSUME NEW s \in Slots, Arrive(s) \/ Reply(s) PROVE Vetting' /\ AnswersAreVetted'
    BY <1>1 DEF Arrive, Reply, Stages, Unanswered
  <1>2. ASSUME NEW s \in Slots, Resolve(s) \/ CheckQuota(s) \/ Flags(s) \/ FastLLM(s)
        PROVE Vetting' /\ AnswersAreVetted'
    BY <1>2 DEF Resolve, CheckQuota, Flags, FastLLM, Stages, Unanswered
  <1>3. ASSUME NEW s \in Slots, Lookup(s) PROVE Vetting' /\ AnswersAreVetted'
    <2>1. Hits(s) # {} => \E q \in Queries : Text[q] = Text[query[s]] /\ Vetted(q)
      BY DEF Hits, Entries
    <2> QED
      BY <1>3, <2>1 DEF Lookup
  <1>4. ASSUME NEW s \in Slots, Govern(s) PROVE Vetting' /\ AnswersAreVetted'
    BY <1>4 DEF Govern
  <1>5. ASSUME NEW s \in Slots, ScoreRisk(s) PROVE Vetting' /\ AnswersAreVetted'
    <2>1. pc'[s] = "retrieve" => Vetted(query[s])
      BY <1>5 DEF ScoreRisk, Vetted
    <2> QED
      BY <1>5, <2>1 DEF ScoreRisk
  <1>6. ASSUME NEW s \in Slots, Retrieve(s) \/ CallModel(s) PROVE Vetting' /\ AnswersAreVetted'
    BY <1>6 DEF Retrieve, CallModel
  <1>7. ASSUME NEW s \in Slots, Record(s) \/ CheckTokens(s) \/ AddTokens(s)
        PROVE Vetting' /\ AnswersAreVetted'
    BY <1>7 DEF Record, CheckTokens, AddTokens, AfterRecord
  <1>8. ASSUME NEW s \in Slots, Store(s) PROVE Vetting' /\ AnswersAreVetted'
    BY <1>8 DEF Store
  <1>9. ASSUME NEW s \in Slots, Write(s) PROVE Vetting' /\ AnswersAreVetted'
    <2>1. Vetted(query[s]) /\ Path[query[s]] = "plain"
      BY <1>9 DEF Write, Stages, Answered
    <2>2. \A e \in cache' : Vetted(e[2]) /\ Path[e[2]] = "plain"
      BY <1>9, <2>1 DEF Write
    <2> QED
      BY <1>9, <2>2 DEF Write
  <1>10. ASSUME NEW s \in Slots, Finish(s) \/ Error(s) PROVE Vetting' /\ AnswersAreVetted'
    BY <1>10 DEF Finish, Error
  <1>11. ASSUME NEW s \in Slots, RecordFails(s) \/ CacheFails(s)
         PROVE Vetting' /\ AnswersAreVetted'
    BY <1>11 DEF RecordFails, CacheFails, AfterRecord
  <1>12. CASE Environment \/ UNCHANGED vars
    BY <1>12 DEF Environment, ChangeStatus, ChangeFeatures, ClearCache, vars
  <1> QED
    BY <1>1, <1>2, <1>3, <1>4, <1>5, <1>6, <1>7, <1>8, <1>9, <1>10, <1>11, <1>12
       DEF Next, Step, Failure

(* What is known of a request at each of its places, and of every cache    *)
(* entry, holds in every reachable state of the pipeline.                  *)
THEOREM Inductive == Spec => []IInv
  <1>1. TypeOK /\ IInv /\ [Next]_vars => IInv'
    BY StagesStep, GatesStep, VettingStep DEF IInv
  <1> QED
    BY IInvInit, <1>1, TypeCorrect, PTL DEF Spec

(* A request is metered at most once: exactly once when the full pipeline   *)
(* or the cache answered it, and never when the fast path did, nor when it  *)
(* was refused, blocked or escalated (orchestrator.py:146-162, 172, 332).   *)
THEOREM Metered == Spec => []MeteredOnce
  BY Inductive, PTL DEF IInv

(* Both model selections pass the plan gate and only requests with the      *)
(* feature read the cache; an answer of GPT-4o that a request without the   *)
(* feature gets comes out of the cache, of an organization that once had it *)
(* (orchestrator.py:137-142, 167-179, 199-202).                             *)
THEOREM Gated == Spec => []FeatureGates
  BY Inductive, PTL DEF IInv

(* No answer but the fast path's bypasses governance and scoring, be it by  *)
(* way of the cache, however its writers race, and none of those is cached  *)
(* (orchestrator.py:144-190, semantic_cache.py:60-82).                      *)
THEOREM VettedAnswers == Spec => []AnswersAreVetted
  BY Inductive, PTL DEF IInv

-----------------------------------------------------------------------------
(* The counters.  One request moves at a time; In is 1 for the org whose   *)
(* set of requests the moving one belongs to.                              *)
In(condition) == IF condition THEN 1 ELSE 0

OnlyMoves(s) ==
    \A t \in Slots \ {s} : pc'[t] = pc[t] /\ outcome'[t] = outcome[t] /\ agent'[t] = agent[t]

(* The answers recorded that the check after the fact may count once more. *)
Checking(o) == {s \in Slots : pc[s] \in {"check_tokens", "add_tokens"} /\ Org(s) = o}

(* The strengthening: an answer about to be recorded may still be counted  *)
(* twice, a recorded one once.                                             *)
Tallies ==
    \A o \in Orgs :
        /\ used[o] <= redis[o] + lost[o] + unmetered[o] + Cardinality(Recording(o))
        /\ redis[o] + 2 * unmetered[o] + 2 * Cardinality(Recording(o)) + Cardinality(Checking(o))
              <= 2 * used[o]

SetsAreFinite ==
    \A o \in Orgs :
        /\ IsFiniteSet(Checking(o)) /\ Cardinality(Checking(o)) \in Nat
        /\ IsFiniteSet(Recording(o)) /\ Cardinality(Recording(o)) \in Nat

(* The sets of requests the counters' properties count are finite. *)
LEMMA SetsFinite == SetsAreFinite
  <1> SUFFICES ASSUME NEW o \in Orgs
               PROVE  /\ IsFiniteSet(Checking(o)) /\ Cardinality(Checking(o)) \in Nat
                      /\ IsFiniteSet(Recording(o)) /\ Cardinality(Recording(o)) \in Nat
    BY DEF SetsAreFinite
  <1>1. Checking(o) \subseteq Slots /\ Recording(o) \subseteq Slots /\ IsFiniteSet(Slots)
    BY ConstantsAssumption DEF Checking, Recording
  <1>2. IsFiniteSet(Checking(o)) /\ IsFiniteSet(Recording(o))
    BY <1>1, FS_Subset
  <1> QED
    BY <1>2, FS_CardinalityType

(* One request entering a set of requests, or leaving it, changes its size by one. *)
LEMMA SetMoves ==
    ASSUME NEW S, NEW T, NEW x, IsFiniteSet(S), S \ {x} = T \ {x}
    PROVE  /\ IsFiniteSet(T)
           /\ Cardinality(T) = Cardinality(S) + In(x \in T) - In(x \in S)
  <1>1. Cardinality(S) \in Nat
    BY FS_CardinalityType
  <1>2. CASE x \in T
    <2>1. T = S \union {x}
      BY <1>2
    <2> QED
      BY <1>1, <1>2, <2>1, FS_AddElement DEF In
  <1>3. CASE x \notin T
    <2>1. T = S \ {x}
      BY <1>3
    <2> QED
      BY <1>1, <1>3, <2>1, FS_RemoveElement DEF In
  <1> QED
    BY <1>2, <1>3

(* When one slot moves, the sets the counters speak of lose or gain it only. *)
LEMMA OneMoves ==
    ASSUME TypeOK, TypeOK', NEW s \in Slots, OnlyMoves(s), NEW o \in Orgs
    PROVE  /\ Cardinality(Checking(o))' = Cardinality(Checking(o))
                  + In(pc'[s] \in {"check_tokens", "add_tokens"} /\ Org(s)' = o)
                  - In(pc[s] \in {"check_tokens", "add_tokens"} /\ Org(s) = o)
           /\ Cardinality(Recording(o))' = Cardinality(Recording(o))
                  + In(pc'[s] = "record" /\ outcome'[s] = "answer" /\ Org(s)' = o)
                  - In(pc[s] = "record" /\ outcome[s] = "answer" /\ Org(s) = o)
  <1>1. /\ Checking(o) \ {s} = Checking(o)' \ {s}
        /\ s \in Checking(o) <=> pc[s] \in {"check_tokens", "add_tokens"} /\ Org(s) = o
        /\ s \in Checking(o)' <=> pc'[s] \in {"check_tokens", "add_tokens"} /\ Org(s)' = o
    BY DEF Checking, OnlyMoves, Org
  <1>2. /\ Recording(o) \ {s} = Recording(o)' \ {s}
        /\ s \in Recording(o) <=> pc[s] = "record" /\ outcome[s] = "answer" /\ Org(s) = o
        /\ s \in Recording(o)' <=> pc'[s] = "record" /\ outcome'[s] = "answer" /\ Org(s)' = o
    BY DEF Recording, OnlyMoves, Org
  <1>3. Cardinality(Checking(o)') = Cardinality(Checking(o)) + In(s \in Checking(o)') - In(s \in Checking(o))
    BY <1>1, SetsFinite, SetMoves DEF SetsAreFinite
  <1>4. Cardinality(Recording(o)') = Cardinality(Recording(o)) + In(s \in Recording(o)') - In(s \in Recording(o))
    BY <1>2, SetsFinite, SetMoves DEF SetsAreFinite
  <1>5. (In(s \in Checking(o)) = In(pc[s] \in {"check_tokens", "add_tokens"} /\ Org(s) = o))
        /\ (In(s \in Checking(o)') = In(pc'[s] \in {"check_tokens", "add_tokens"} /\ Org(s)' = o))
    BY <1>1 DEF In
  <1>6. (In(s \in Recording(o)) = In(pc[s] = "record" /\ outcome[s] = "answer" /\ Org(s) = o))
        /\ (In(s \in Recording(o)') = In(pc'[s] = "record" /\ outcome'[s] = "answer" /\ Org(s)' = o))
    BY <1>2 DEF In
  <1> QED
    BY <1>3, <1>4, <1>5, <1>6

(* A step of one request keeps the tallies: what it adds to the use it adds *)
(* to a counter, to what is not metered, to the refused increments, or to   *)
(* the requests that are about to count.                                    *)
LEMMA TalliesStep == TypeOK /\ TypeOK' /\ Stages /\ Tallies /\ [Next]_vars => Tallies'
  <1> SUFFICES ASSUME TypeOK, TypeOK', Stages, Tallies, [Next]_vars, NEW o \in Orgs
               PROVE  /\ used'[o] <= redis'[o] + lost'[o] + unmetered'[o] + Cardinality(Recording(o))'
                      /\ redis'[o] + 2 * unmetered'[o] + 2 * Cardinality(Recording(o))'
                              + Cardinality(Checking(o))' <= 2 * used'[o]
    BY DEF Tallies
  <1> DEFINE A == Cardinality(Checking(o))
             R == Cardinality(Recording(o))
             Goal == /\ used'[o] <= redis'[o] + lost'[o] + unmetered'[o] + R'
                     /\ redis'[o] + 2 * unmetered'[o] + 2 * R' + A' <= 2 * used'[o]
  <1>n. /\ A \in Nat /\ A' \in Nat /\ R \in Nat /\ R' \in Nat
        /\ used[o] <= redis[o] + lost[o] + unmetered[o] + R
        /\ redis[o] + 2 * unmetered[o] + 2 * R + A <= 2 * used[o]
        /\ redis[o] \in Nat /\ lost[o] \in Nat /\ used[o] \in Nat /\ unmetered[o] \in Nat
        /\ redis'[o] \in Nat /\ lost'[o] \in Nat /\ used'[o] \in Nat /\ unmetered'[o] \in Nat
    <2>1. A \in Nat /\ R \in Nat
      BY SetsFinite DEF SetsAreFinite
    <2> SetsAreFinite'
      BY SetsFinite, PTL
    <2>2. A' \in Nat /\ R' \in Nat
      BY DEF SetsAreFinite
    <2>3. /\ redis[o] \in Nat /\ lost[o] \in Nat /\ used[o] \in Nat /\ unmetered[o] \in Nat
          /\ redis'[o] \in Nat /\ lost'[o] \in Nat /\ used'[o] \in Nat /\ unmetered'[o] \in Nat
      BY DEF TypeOK, CounterValues
    <2> QED
      BY <2>1, <2>2, <2>3 DEF Tallies
  <1>o. \A s \in Slots : Org(s) \in Orgs
    BY OrgType
  <1>m. \A s \in Slots : OnlyMoves(s) =>
            /\ A' = A + In(pc'[s] \in {"check_tokens", "add_tokens"} /\ Org(s)' = o)
                      - In(pc[s] \in {"check_tokens", "add_tokens"} /\ Org(s) = o)
            /\ R' = R + In(pc'[s] = "record" /\ outcome'[s] = "answer" /\ Org(s)' = o)
                      - In(pc[s] = "record" /\ outcome[s] = "answer" /\ Org(s) = o)
    BY OneMoves
  <1>t. redis \in CounterValues /\ lost \in CounterValues /\ used \in CounterValues /\ unmetered \in CounterValues
    BY DEF TypeOK
  <1>a. ASSUME NEW table \in CounterValues, NEW p \in Orgs, NEW n \in Nat
        PROVE  Add(table, p, n)[o] = IF p = o THEN table[o] + n ELSE table[o]
    BY AddType
  <1> HIDE DEF A, R
  <1> USE DEF Go, Answer, request, tenant, bounds, use, history
  <1>same. ASSUME NEW s \in Slots, OnlyMoves(s), UNCHANGED <<redis, lost, use>>,
                  pc[s] # "record",
                  pc'[s] \in {"check_tokens", "add_tokens"}
                      => pc[s] \in {"check_tokens", "add_tokens"} /\ Org(s)' = Org(s),
                  pc'[s] = "record" => outcome'[s] = "cached"
           PROVE  Goal
    <2>1. A' <= A /\ R' = R
      BY <1>n, <1>m, <1>same DEF In
    <2> QED
      BY <1>n, <1>same, <2>1
  <1>1. ASSUME NEW s \in Slots, Arrive(s) \/ Reply(s) PROVE Goal
    <2>1. OnlyMoves(s) /\ pc'[s] \in {"resolve", "idle"} /\ pc[s] \in {"idle", "reply"}
      BY <1>1 DEF TypeOK, Arrive, Reply, OnlyMoves
    <2> QED
      BY <1>1, <1>same, <2>1 DEF Arrive, Reply
  <1>2. ASSUME NEW s \in Slots,
               \/ Resolve(s) \/ CheckQuota(s) \/ Flags(s) \/ Lookup(s) \/ Govern(s) \/ ScoreRisk(s)
               \/ CheckTokens(s) \/ Store(s) \/ Write(s) \/ Finish(s) \/ Error(s) \/ CacheFails(s)
        PROVE Goal
    <2>1. OnlyMoves(s) /\ Org(s)' = Org(s)
      BY <1>2 DEF TypeOK, OnlyMoves, Org, Resolve, CheckQuota, Flags, Lookup, Govern, ScoreRisk,
                  CheckTokens, Store, Write, Finish, Error, CacheFails
    <2>2. /\ pc[s] # "record"
          /\ pc'[s] \in {"check_tokens", "add_tokens"}
                => pc[s] \in {"check_tokens", "add_tokens"} /\ Org(s)' = Org(s)
          /\ pc'[s] = "record" => outcome'[s] = "cached"
      BY <2>1, <1>2 DEF TypeOK, Resolve, CheckQuota, Flags, Lookup, Govern, ScoreRisk,
                  CheckTokens, Store, Write, Finish, Error, CacheFails, Raises
    <2>3. UNCHANGED <<redis, lost, use>>
      BY <1>2 DEF Resolve, CheckQuota, Flags, Lookup, Govern, ScoreRisk,
                  CheckTokens, Store, Write, Finish, Error, CacheFails
    <2> QED
      BY <1>same, <2>1, <2>2, <2>3
  <1>3. ASSUME NEW s \in Slots, FastLLM(s) \/ Retrieve(s) PROVE Goal
    <2>1. /\ OnlyMoves(s) /\ pc[s] \in {"fast_llm", "retrieve"} /\ pc'[s] \in {"reply", "llm"}
          /\ UNCHANGED <<redis, lost>>
      BY <1>3 DEF TypeOK, FastLLM, Retrieve, OnlyMoves
    <2>2. A' = A /\ R' = R
      <3>1. /\ pc[s] \notin {"check_tokens", "add_tokens", "record"}
            /\ pc'[s] \notin {"check_tokens", "add_tokens", "record"}
        BY <2>1
      <3>2. OnlyMoves(s)
        BY <2>1
      <3> QED
        BY <1>n, <1>m, <3>1, <3>2 DEF In
    <2>3. PICK n \in Nat : used' = Add(used, Org(s), n) /\ unmetered' = Add(unmetered, Org(s), n)
      <3>1. CASE FastLLM(s)
        BY <3>1 DEF FastLLM
      <3>2. CASE Retrieve(s)
        <4>1. PICK n \in 0..(IF query[s] \in Agentic THEN MaxChecks ELSE 0) :
                      used' = Add(used, Org(s), n) /\ unmetered' = Add(unmetered, Org(s), n)
          BY <3>2 DEF Retrieve
        <4>2. n \in Nat
          BY ChecksType
        <4> QED
          BY <4>1, <4>2
      <3> QED
        BY <1>3, <3>1, <3>2
    <2>4. \/ used'[o] = used[o] + n /\ unmetered'[o] = unmetered[o] + n
          \/ used'[o] = used[o] /\ unmetered'[o] = unmetered[o]
      BY <1>o, <1>a, <1>t, <2>3
    <2> QED
      BY <1>n, <2>1, <2>2, <2>4
  <1>4. ASSUME NEW s \in Slots, CallModel(s) PROVE Goal
    <2>1. OnlyMoves(s) /\ Org(s)' = Org(s) /\ pc[s] = "llm" /\ pc'[s] = "record"
          /\ outcome'[s] = "answer" /\ UNCHANGED <<redis, lost, unmetered>>
          /\ used' = Add(used, Org(s), 1)
      BY <1>4 DEF TypeOK, CallModel, OnlyMoves, Org
    <2>2. A' = A /\ R' = R + In(Org(s) = o)
      BY <1>n, <1>m, <2>1 DEF In
    <2>3. used'[o] = used[o] + In(Org(s) = o)
      BY <1>n, <1>o, <1>a, <1>t, <2>1 DEF In
    <2> QED
      BY <1>n, <2>1, <2>2, <2>3 DEF In
  <1>5. ASSUME NEW s \in Slots, Record(s) \/ (RecordFails(s) /\ pc[s] = "record") PROVE Goal
    <2>1. /\ OnlyMoves(s) /\ Org(s)' = Org(s) /\ pc[s] = "record"
          /\ pc'[s] = IF outcome[s] = "cached" THEN "reply" ELSE "check_tokens"
          /\ UNCHANGED use /\ outcome[s] \in {"answer", "cached"}
      BY <1>5 DEF TypeOK, Record, RecordFails, AfterRecord, OnlyMoves, Org, Stages
    <2>2. /\ A' = A + In(outcome[s] = "answer" /\ Org(s) = o)
          /\ R' = R - In(outcome[s] = "answer" /\ Org(s) = o)
      BY <1>n, <1>m, <2>1 DEF In
    <2>3. \/ outcome[s] = "cached" /\ redis' = redis /\ lost' = lost
          \/ outcome[s] = "answer" /\ redis' = Add(redis, Org(s), 1) /\ lost' = lost
          \/ outcome[s] = "answer" /\ redis' = redis /\ lost' = Add(lost, Org(s), 1)
      BY <1>5, <2>1 DEF Record, RecordFails
    <2>4. PICK i : i = In(outcome[s] = "answer" /\ Org(s) = o)
      OBVIOUS
    <2>5. i \in {0, 1} /\ A' = A + i /\ R' = R - i
      BY <2>2, <2>4 DEF In
    <2>6. Org(s) \in Orgs
      BY <1>o
    <2>7. /\ Add(redis, Org(s), 1)[o] = IF Org(s) = o THEN redis[o] + 1 ELSE redis[o]
          /\ Add(lost, Org(s), 1)[o] = IF Org(s) = o THEN lost[o] + 1 ELSE lost[o]
      BY <1>a, <1>t, <2>6
    <2>8. \/ redis'[o] = redis[o] + i /\ lost'[o] = lost[o]
          \/ redis'[o] = redis[o] /\ lost'[o] = lost[o] + i
      BY <1>n, <2>3, <2>4, <2>7 DEF In
    <2> QED
      BY <1>n, <2>1, <2>5, <2>8
  <1>6. ASSUME NEW s \in Slots, AddTokens(s) \/ (RecordFails(s) /\ pc[s] # "record") PROVE Goal
    <2>1. OnlyMoves(s) /\ Org(s)' = Org(s) /\ pc[s] = "add_tokens" /\ pc'[s] = "store"
          /\ UNCHANGED <<use, lost>>
      BY <1>6 DEF TypeOK, AddTokens, RecordFails, OnlyMoves, Org
    <2>2. A' = A - In(Org(s) = o) /\ R' = R
      <3>1. /\ ~(pc'[s] \in {"check_tokens", "add_tokens"} /\ Org(s)' = o)
            /\ ~(pc'[s] = "record" /\ outcome'[s] = "answer" /\ Org(s)' = o)
            /\ ~(pc[s] = "record" /\ outcome[s] = "answer" /\ Org(s) = o)
            /\ (pc[s] \in {"check_tokens", "add_tokens"} /\ Org(s) = o) <=> Org(s) = o
        BY <2>1
      <3>2. OnlyMoves(s)
        BY <2>1
      <3> QED
        BY <1>n, <1>m, <3>1, <3>2 DEF In
    <2>3. redis' = redis \/ redis' = Add(redis, Org(s), 1)
      BY <1>6 DEF AddTokens, RecordFails
    <2>4. redis'[o] = redis[o] \/ redis'[o] = redis[o] + In(Org(s) = o)
      BY <1>n, <1>o, <1>a, <1>t, <2>3 DEF In
    <2> QED
      BY <1>n, <2>1, <2>2, <2>4 DEF In
  <1>7. ASSUME Environment \/ UNCHANGED vars PROVE Goal
    <2>1. UNCHANGED <<pc, agent, outcome, redis, used, unmetered, lost>>
      BY <1>7 DEF Environment, ChangeStatus, ChangeFeatures, ClearCache, vars
    <2>2. A' = A /\ R' = R
      BY <2>1 DEF A, R, Checking, Recording, Org
    <2> QED
      BY <1>n, <2>1, <2>2
  <1>8. Goal
    BY <1>1, <1>2, <1>3, <1>4, <1>5, <1>6, <1>7 DEF Next, Step, Failure
  <1> QED
    BY <1>8 DEF A, R

(* At first nothing is used and nothing is counted. *)
LEMMA TalliesInit == Init => Tallies
  <1> SUFFICES ASSUME Init, NEW o \in Orgs
               PROVE  /\ used[o] <= redis[o] + lost[o] + unmetered[o] + Cardinality(Recording(o))
                      /\ redis[o] + 2 * unmetered[o] + 2 * Cardinality(Recording(o)) + Cardinality(Checking(o))
                            <= 2 * used[o]
    BY DEF Tallies
  <1>1. used[o] = 0 /\ redis[o] = 0 /\ lost[o] = 0 /\ unmetered[o] = 0
    BY DEF Init
  <1>2. Recording(o) = {} /\ Checking(o) = {}
    BY DEF Init, Recording, Checking
  <1> QED
    BY <1>1, <1>2, FS_EmptySet

(* The tallies are those the property speaks of, and more. *)
LEMMA TalliesCover == TypeOK /\ Tallies => CountersCoverUse
  <1> SUFFICES ASSUME TypeOK, Tallies, NEW o \in Orgs
               PROVE  /\ used[o] <= redis[o] + lost[o] + unmetered[o] + Cardinality(Recording(o))
                      /\ redis[o] + 2 * unmetered[o] <= 2 * used[o]
    BY DEF CountersCoverUse
  <1>1. /\ redis[o] \in Nat /\ used[o] \in Nat /\ unmetered[o] \in Nat
        /\ Cardinality(Recording(o)) \in Nat /\ Cardinality(Checking(o)) \in Nat
    BY SetsFinite DEF SetsAreFinite, TypeOK, CounterValues
  <1> QED
    BY <1>1 DEF Tallies

(* The token counter never falls behind what the models were asked for but  *)
(* by what the code leaves unmetered and what Redis refused, and never      *)
(* shows more than twice the metered answers, whatever interleaving and     *)
(* whatever fails (orchestrator.py:146-162, 331-345, enforcer.py:103-129).  *)
THEOREM Covered == Spec => []CountersCoverUse
  <1>1. TypeOK /\ TypeOK' /\ IInv /\ Tallies /\ [Next]_vars => Tallies'
    BY TalliesStep DEF IInv
  <1> QED
    BY TalliesInit, TalliesCover, <1>1, TypeCorrect, Inductive, PTL DEF Spec
=============================================================================
