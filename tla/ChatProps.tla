------------------------------ MODULE ChatProps ------------------------------
(***************************************************************************)
(* What the chat pipeline promises, stated over the states of ChatPipeline. *)
(***************************************************************************)
EXTENDS ChatPipeline

CounterValues == [Orgs -> Nat]
Entries       == Agents \X Queries \X Models

(* Every variable holds what its counterpart in the code may hold. *)
TypeOK ==
    /\ status \in [Orgs -> Statuses] /\ features \in [Orgs -> SUBSET Features]
    /\ redis \in CounterValues /\ lost \in CounterValues
    /\ used \in CounterValues /\ unmetered \in CounterValues
    /\ had \in [Orgs -> SUBSET Features]
    /\ cache \subseteq Entries /\ seen \in [Slots -> SUBSET Entries]
    /\ pc \in [Slots -> Places]
    /\ agent \in [Slots -> Agents] /\ query \in [Slots -> Queries]
    /\ allow \in [Slots -> SUBSET Features]
    /\ model \in [Slots -> Models]
    /\ outcome \in [Slots -> Outcomes]
    /\ metered \in [Slots -> Nat]
    /\ arrivals \in 0..MaxArrivals /\ faults \in 0..MaxFaults

(* The answers that have not been recorded yet. *)
Recording(o) == {s \in Slots : pc[s] = "record" /\ outcome[s] = "answer" /\ Org(s) = o}

(* The counter the token quota is decided on, against what the models were *)
(* asked for.  It never falls behind but by what the code does not meter,  *)
(* the fast path's answers and the checks of agentic retrieval, by what    *)
(* Redis refused, and by the answers about to be recorded; and it never    *)
(* shows more than twice the metered ones, though the check after the fact *)
(* counts them again (orchestrator.py:146-162, 331-345, 444-495;            *)
(* enforcer.py:103-129).                                                   *)
CountersCoverUse ==
    \A o \in Orgs :
        /\ used[o] <= redis[o] + lost[o] + unmetered[o] + Cardinality(Recording(o))
        /\ redis[o] + 2 * unmetered[o] <= 2 * used[o]

(* What an organization has no access to it is not given: whichever of the *)
(* two selections decided, and whatever changes meanwhile, the model asked *)
(* is GPT-4o only if this request's flags had it, and the cache is read    *)
(* only if they had that.  An answer out of the cache may be GPT-4o's even *)
(* so, since the entry keeps the model that made it: then the organization *)
(* had GPT-4o at some time, its own or an earlier plan's                   *)
(* (orchestrator.py:103-107, 140, 167-179, 201).                           *)
FeatureGates ==
    /\ \A s \in Slots :
          /\ model[s] = "gpt-4o" /\ outcome[s] # "cached" => "gpt4o" \in allow[s]
          /\ outcome[s] = "cached" =>
                /\ "cache" \in allow[s]
                /\ model[s] = "gpt-4o" => "gpt4o" \in had[Org(s)]
    /\ \A e \in cache : e[3] = "gpt-4o" => "gpt4o" \in had[OrgOf[e[1]]]

Vetted(q) == Allowed[q] /\ Risks[q] # {"escalate"}

(* The cache is consulted before governance and risk scoring, and still    *)
(* both let pass whatever is answered out of it or by the full pipeline:   *)
(* for this very query, or for the near-identical one whose answer was     *)
(* stored, also when writers of the same agent's entries race.  Small talk *)
(* alone is answered unvetted, by the fast path, whatever governance would *)
(* say of it, and such an answer never gets into the cache                 *)
(* (orchestrator.py:144-190, 347-349; semantic_cache.py:60-82).            *)
AnswersAreVetted ==
    /\ \A e \in cache : Vetted(e[2]) /\ Path[e[2]] = "plain"
    /\ \A s \in Slots :
          /\ outcome[s] = "answer" => Vetted(query[s])
          /\ outcome[s] = "cached" => \E q \in Queries : Text[q] = Text[query[s]] /\ Vetted(q)
          /\ outcome[s] = "fast_answer" => Path[query[s]] = "fast"

(* A request is metered at most once: exactly once when the full pipeline  *)
(* or the cache answered it, and not at all when it was refused, blocked   *)
(* or escalated, nor when the fast path answered it, which returns before  *)
(* the metering of step 11 (orchestrator.py:146-162, 172, 332).            *)
MeteredOnce ==
    \A s \in Slots :
        /\ metered[s] <= 1
        /\ pc[s] = "reply" =>
              /\ outcome[s] \in {"answer", "cached"} => metered[s] = 1
              /\ outcome[s] \in {"inactive", "quota_exceeded", "blocked", "escalated", "fast_answer"}
                    => metered[s] = 0
=============================================================================
