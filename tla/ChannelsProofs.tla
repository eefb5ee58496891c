---------------------------- MODULE ChannelsProofs ----------------------------
(***************************************************************************)
(* Type correctness of the channels, that a message is answered once, and  *)
(* that the memory keeps its turns, for any messages and conversations,    *)
(* any number of requests and processes, any limits, and however many      *)
(* failures, deaths and expiries.                                          *)
(***************************************************************************)
EXTENDS ChannelsProps, FiniteSetTheorems, SequenceTheorems, TLAPS

(* The bounds are numbers. *)
LEMMA Bounds == MaxFaults \in Nat /\ MaxExpiries \in Nat /\ Limit \in Nat /\ MaxMessages \in Nat \ {0}
  BY ConstantsAssumption

(* The counts of faults and expiries stay within their bounds. *)
LEMMA Bounded ==
    ASSUME TypeOK
    PROVE  /\ Fault => faults' \in 0..MaxFaults
           /\ Lapse => expiries' \in 0..MaxExpiries
  <1>1. faults \in 0..MaxFaults /\ expiries \in 0..MaxExpiries
    BY DEF TypeOK
  <1> QED
    BY <1>1, Bounds DEF Fault, Lapse

(* The limiter's counter is a number. *)
LEMMA CountType == ASSUME NEW s \in Slots, count \in Nat, Count(s) PROVE count' \in Nat
  BY DEF Count

(* One more of a message is a count of each message. *)
LEMMA OneMore ==
    ASSUME NEW f \in [Msgs -> Nat], NEW m \in Msgs
    PROVE  /\ [f EXCEPT ![m] = @ + 1] \in [Msgs -> Nat]
           /\ \A n \in Msgs : [f EXCEPT ![m] = @ + 1][n] = IF n = m THEN f[n] + 1 ELSE f[n]
  OBVIOUS

(* A request that is in service speaks in a conversation. *)
LEMMA Talking ==
    ASSUME TypeOK, NEW s \in Slots, at[s] # "idle"
    PROVE  load[s] \in Msgs /\ Talk(s) \in Convs
  BY ConstantsAssumption DEF TypeOK, Talk, Convs

(* What is cut is a list of turns as long as it may be. *)
LEMMA CutType == ASSUME NEW t \in Seq(Turns) PROVE Cut(t) \in Seq(Turns)
  <1>1. MaxMessages \in Nat \ {0} /\ Len(t) \in Nat
    BY Bounds, LenProperties
  <1>2. CASE Len(t) > MaxMessages
    <2>1. \A i \in (Len(t) - MaxMessages + 1)..Len(t) : t[i] \in Turns
      BY <1>1, <1>2, ElementOfSeq
    <2> QED
      BY <1>1, <1>2, <2>1, SubSeqProperties DEF Cut
  <1>3. CASE ~(Len(t) > MaxMessages)
    BY <1>3 DEF Cut
  <1> QED
    BY <1>2, <1>3

(* The channels start with their types. *)
LEMMA TypeInit == Init => TypeOK
  <1> SUFFICES ASSUME Init PROVE TypeOK
    OBVIOUS
  <1>1. 0 \in 0..MaxFaults /\ 0 \in 0..MaxExpiries
    BY Bounds
  <1>2. <<>> \in Seq(Turns)
    BY EmptySeq
  <1> QED
    BY <1>1, <1>2 DEF Init, TypeOK, Places

(* Every step of a request, of Redis, of the platform, and every failure   *)
(* keeps the types.                                                        *)
LEMMA TypeStep == TypeOK /\ [Next]_vars => TypeOK'
  <1> SUFFICES ASSUME TypeOK, [Next]_vars PROVE TypeOK'
    OBVIOUS
  <1> USE DEF TypeOK, Go, Places, platform, limiter, dedup, mem, db, asked
  <1>f. Fault => faults' \in 0..MaxFaults
    BY Bounded
  <1>l. Lapse => expiries' \in 0..MaxExpiries
    BY Bounded
  <1>t. \A s \in Slots : at[s] # "idle" => Talk(s) \in Convs /\ load[s] \in Msgs
    BY Talking
  <1>e. <<>> \in Seq(Turns)
    BY EmptySeq
  <1>1. ASSUME NEW s \in Slots, NEW m \in Msgs, Deliver(s, m) PROVE TypeOK'
    BY <1>1 DEF Deliver
  <1>2. ASSUME NEW s \in Slots, Count(s) PROVE TypeOK'
    <2>1. count' \in Nat
      BY <1>2, CountType
    <2> QED
      BY <1>2, <1>e, <2>1 DEF Count, End
  <1>3. ASSUME NEW s \in Slots, Expire(s) PROVE TypeOK'
    BY <1>3 DEF Expire
  <1>4. ASSUME NEW s \in Slots, LimitFails(s) PROVE TypeOK'
    BY <1>4, <1>f DEF LimitFails
  <1>5. ASSUME NEW s \in Slots, IsDuplicate(s) PROVE TypeOK'
    BY <1>5, <1>e, <1>t DEF IsDuplicate, Acknowledge, End
  <1>6. ASSUME NEW s \in Slots, FailOpen(s) PROVE TypeOK'
    <2>1. load[s] \in Msgs
      BY <1>6, <1>t DEF FailOpen
    <2>2. lapses' \in [Msgs -> Nat]
      BY <1>6, <2>1, OneMore DEF FailOpen
    <2>3. marker' \subseteq Msgs
      BY <1>6, <2>1 DEF FailOpen
    <2> QED
      BY <1>6, <1>f, <2>1, <2>2, <2>3 DEF FailOpen
  <1>7. ASSUME NEW s \in Slots, Process(s) PROVE TypeOK'
    <2>1. load[s] \in Msgs /\ Talk(s) \in Convs
      BY <1>7, <1>t DEF Process
    <2>2. processed' \in [Msgs -> Nat]
      BY <1>7, <2>1, OneMore DEF Process
    <2> QED
      BY <1>7, <1>e, <2>1, <2>2 DEF Process, Acknowledge, End
  <1>8. ASSUME NEW s \in Slots, ReadMemory(s) PROVE TypeOK'
    BY <1>8, <1>t DEF ReadMemory
  <1>9. ASSUME NEW s \in Slots, AddMemory(s) PROVE TypeOK'
    <2>1. Turn(s) \in Turns /\ Talk(s) \in Convs
      BY <1>9, <1>t DEF AddMemory, Turn, Turns, Role
    <2>2. Cut(Append(seen[s], Turn(s))) \in Seq(Turns)
      BY <2>1, CutType, AppendProperties
    <2>3. turns' \in [Convs -> Seq(Turns)]
      BY <1>9, <1>e, <2>1, AppendProperties DEF AddMemory
    <2> QED
      BY <1>9, <1>e, <1>t, <2>1, <2>2, <2>3 DEF AddMemory
  <1>10. ASSUME NEW s \in Slots, MemoryFails(s) PROVE TypeOK'
    BY <1>10, <1>e, <1>f, <1>t DEF MemoryFails, Acknowledge, End
  <1>11. ASSUME NEW s \in Slots, Lookup(s) PROVE TypeOK'
    BY <1>11 DEF Lookup
  <1>12. ASSUME NEW s \in Slots, Save(s) PROVE TypeOK'
    BY <1>12, <1>t DEF Save
  <1>13. ASSUME NEW s \in Slots, SaveFails(s) PROVE TypeOK'
    BY <1>13, <1>f DEF SaveFails
  <1>14. ASSUME NEW s \in Slots, Send(s) PROVE TypeOK'
    <2>1. load[s] \in Msgs
      BY <1>14, <1>t DEF Send
    <2>4. replied' = replied \/ replied' = [replied EXCEPT ![load[s]] = @ + 1]
      BY <1>14 DEF Send
    <2>5. [replied EXCEPT ![load[s]] = @ + 1] \in [Msgs -> Nat]
      BY <2>1, OneMore
    <2>2. replied' \in [Msgs -> Nat]
      BY <2>4, <2>5
    <2>3. faults' \in 0..MaxFaults
      BY <1>14, <1>f DEF Send
    <2> QED
      BY <1>14, <2>1, <2>2, <2>3 DEF Send
  <1>15. ASSUME NEW s \in Slots, Respond(s) PROVE TypeOK'
    BY <1>15, <1>e, <1>t DEF Respond, Acknowledge, End
  <1>16. CASE WindowEnds
    BY <1>16 DEF WindowEnds
  <1>17. ASSUME NEW m \in Msgs, MarkerExpires(m) PROVE TypeOK'
    BY <1>17, <1>l, OneMore DEF MarkerExpires
  <1>18. ASSUME NEW p \in Procs, Die(p) PROVE TypeOK'
    BY <1>18, <1>e, <1>f DEF Die
  <1>19. CASE UNCHANGED vars
    BY <1>19 DEF vars
  <1> QED
    BY <1>1, <1>2, <1>3, <1>4, <1>5, <1>6, <1>7, <1>8, <1>9, <1>10, <1>11, <1>12, <1>13,
       <1>14, <1>15, <1>16, <1>17, <1>18, <1>19 DEF Next, Limiting, Handling, Failing

(* The variables of the channels always have their types, of which the     *)
(* other proofs make use (webhooks.py, rate_limit_middleware.py).          *)
THEOREM TypeCorrect == Spec => []TypeOK
  BY TypeInit, TypeStep, PTL DEF Spec
-----------------------------------------------------------------------------
(* A message is answered once.  Asking(m) are the requests that have passed *)
(* the marker and are about to ask the orchestrator, Replying(m) those that *)
(* have its answer and have not sent it.                                    *)
Asking(m)   == {s \in Slots : at[s] = "process" /\ load[s] = m}
Replying(m) == {s \in Slots : /\ at[s] \in {"add user", "read bot", "add bot", "save", "insert", "write", "send"}
                              /\ load[s] = m}

One(condition) == IF condition THEN 1 ELSE 0

(* Every request that passed the marker has one to account for it: the      *)
(* marker that is there, or one that is gone or was not asked for; and every *)
(* reply has an answer.                                                     *)
Accounted ==
    \A m \in Msgs :
        /\ processed[m] + Cardinality(Asking(m)) <= One(m \in marker) + lapses[m]
        /\ replied[m] + Cardinality(Replying(m)) <= processed[m]

(* The sets of requests that are counted are finite. *)
LEMMA Finite ==
    ASSUME NEW m \in Msgs
    PROVE  /\ IsFiniteSet(Asking(m)) /\ Cardinality(Asking(m)) \in Nat
           /\ IsFiniteSet(Replying(m)) /\ Cardinality(Replying(m)) \in Nat
  <1>1. Asking(m) \subseteq Slots /\ Replying(m) \subseteq Slots /\ IsFiniteSet(Slots)
    BY ConstantsAssumption DEF Asking, Replying
  <1>2. IsFiniteSet(Asking(m)) /\ IsFiniteSet(Replying(m))
    BY <1>1, FS_Subset
  <1> QED
    BY <1>2, FS_CardinalityType

(* A request that enters a set, or leaves it, changes its size by one.      *)
LEMMA SetMoves ==
    ASSUME NEW S, NEW T, NEW x, IsFiniteSet(S), S \ {x} = T \ {x}
    PROVE  Cardinality(T) = Cardinality(S) + One(x \in T) - One(x \in S)
  <1>1. Cardinality(S) \in Nat
    BY FS_CardinalityType
  <1>2. CASE x \in T
    <2>1. T = S \union {x}
      BY <1>2
    <2> QED
      BY <1>1, <1>2, <2>1, FS_AddElement DEF One
  <1>3. CASE x \notin T
    <2>1. T = S \ {x}
      BY <1>3
    <2> QED
      BY <1>1, <1>3, <2>1, FS_RemoveElement DEF One
  <1> QED
    BY <1>2, <1>3

OnlyMoves(s) == \A r \in Slots \ {s} : at'[r] = at[r] /\ load'[r] = load[r]

Answered == {"add user", "read bot", "add bot", "save", "insert", "write", "send"}

(* When one request moves, the sets lose or gain it only. *)
LEMMA OneMoves ==
    ASSUME NEW s \in Slots, OnlyMoves(s), NEW m \in Msgs
    PROVE  /\ Cardinality(Asking(m))' = Cardinality(Asking(m))
                  + One(at'[s] = "process" /\ load'[s] = m) - One(at[s] = "process" /\ load[s] = m)
           /\ Cardinality(Replying(m))' = Cardinality(Replying(m))
                  + One(at'[s] \in Answered /\ load'[s] = m) - One(at[s] \in Answered /\ load[s] = m)
  <1>1. /\ Asking(m) \ {s} = Asking(m)' \ {s}
        /\ s \in Asking(m) <=> at[s] = "process" /\ load[s] = m
        /\ s \in Asking(m)' <=> at'[s] = "process" /\ load'[s] = m
    BY DEF Asking, OnlyMoves
  <1>2. /\ Replying(m) \ {s} = Replying(m)' \ {s}
        /\ s \in Replying(m) <=> at[s] \in Answered /\ load[s] = m
        /\ s \in Replying(m)' <=> at'[s] \in Answered /\ load'[s] = m
    BY DEF Replying, OnlyMoves, Answered
  <1>3. /\ Cardinality(Asking(m)') = Cardinality(Asking(m)) + One(s \in Asking(m)') - One(s \in Asking(m))
        /\ Cardinality(Replying(m)')
              = Cardinality(Replying(m)) + One(s \in Replying(m)') - One(s \in Replying(m))
    BY <1>1, <1>2, Finite, SetMoves
  <1> QED
    BY <1>1, <1>2, <1>3 DEF One

(* A step keeps the accounts if what one request asks or replies is taken   *)
(* from the sets, and what enters them is accounted for.                    *)
LEMMA Balance ==
    ASSUME TypeOK, TypeOK', Accounted, NEW s \in Slots, OnlyMoves(s), NEW m \in Msgs,
           processed'[m] + One(at'[s] = "process" /\ load'[s] = m) - One(at[s] = "process" /\ load[s] = m)
               - processed[m]
             <= One(m \in marker') + lapses'[m] - One(m \in marker) - lapses[m],
           replied'[m] + One(at'[s] \in Answered /\ load'[s] = m) - One(at[s] \in Answered /\ load[s] = m)
               - replied[m] <= processed'[m] - processed[m]
    PROVE  /\ processed'[m] + Cardinality(Asking(m))' <= One(m \in marker') + lapses'[m]
           /\ replied'[m] + Cardinality(Replying(m))' <= processed'[m]
  <1> DEFINE A == Cardinality(Asking(m))
             R == Cardinality(Replying(m))
             p == One(at[s] = "process" /\ load[s] = m)
             q == One(at'[s] = "process" /\ load'[s] = m)
             v == One(at[s] \in Answered /\ load[s] = m)
             w == One(at'[s] \in Answered /\ load'[s] = m)
             k == One(m \in marker)
             l == One(m \in marker')
  <1>1. /\ processed[m] \in Nat /\ processed'[m] \in Nat /\ lapses[m] \in Nat /\ lapses'[m] \in Nat
        /\ replied[m] \in Nat /\ replied'[m] \in Nat /\ A \in Nat /\ R \in Nat
    BY Finite DEF TypeOK
  <1>2. /\ p \in Nat /\ q \in Nat /\ v \in Nat /\ w \in Nat /\ k \in Nat /\ l \in Nat
    BY DEF One
  <1>3. processed[m] + A <= k + lapses[m] /\ replied[m] + R <= processed[m]
    BY DEF Accounted
  <1>4. A' = A + q - p /\ R' = R + w - v
    BY OneMoves
  <1>5. /\ processed'[m] + q - p - processed[m] <= l + lapses'[m] - k - lapses[m]
        /\ replied'[m] + w - v - replied[m] <= processed'[m] - processed[m]
    OBVIOUS
  <1> HIDE DEF A, R, p, q, v, w, k, l
  <1>6. processed'[m] + A' <= l + lapses'[m] /\ replied'[m] + R' <= processed'[m]
    BY <1>1, <1>2, <1>3, <1>4, <1>5
  <1> QED
    BY <1>6 DEF A, R, l

Keeps(s, m) ==
    /\ processed'[m] + One(at'[s] = "process" /\ load'[s] = m) - One(at[s] = "process" /\ load[s] = m)
           - processed[m]
         <= One(m \in marker') + lapses'[m] - One(m \in marker) - lapses[m]
    /\ replied'[m] + One(at'[s] \in Answered /\ load'[s] = m) - One(at[s] \in Answered /\ load[s] = m)
           - replied[m] <= processed'[m] - processed[m]

(* No request has passed the marker to begin with. *)
LEMMA AccountedInit == Init => Accounted
  <1> SUFFICES ASSUME Init, NEW m \in Msgs
               PROVE  /\ processed[m] + Cardinality(Asking(m)) <= One(m \in marker) + lapses[m]
                      /\ replied[m] + Cardinality(Replying(m)) <= processed[m]
    BY DEF Accounted
  <1>1. Asking(m) = {} /\ Replying(m) = {}
    BY DEF Init, Asking, Replying
  <1>2. processed[m] = 0 /\ replied[m] = 0 /\ lapses[m] = 0 /\ marker = {}
    BY DEF Init
  <1> QED
    BY <1>1, <1>2, FS_EmptySet DEF One

(* Every step keeps the accounts: the markers let one request pass each, a *)
(* request asks once and replies once, and one that dies does neither.     *)
LEMMA AccountedStep == TypeOK /\ TypeOK' /\ Accounted /\ [Next]_vars => Accounted'
  <1> SUFFICES ASSUME TypeOK, TypeOK', Accounted, [Next]_vars PROVE Accounted'
    OBVIOUS
  <1>n. \A m \in Msgs : /\ processed[m] \in Nat /\ lapses[m] \in Nat /\ replied[m] \in Nat
                        /\ processed'[m] \in Nat /\ lapses'[m] \in Nat /\ replied'[m] \in Nat
    BY DEF TypeOK
  <1>t. \A s \in Slots : at[s] # "idle" => load[s] \in Msgs
    BY DEF TypeOK
  <1>g. \A m \in Msgs : /\ processed[m] + Cardinality(Asking(m)) <= One(m \in marker) + lapses[m]
                        /\ replied[m] + Cardinality(Replying(m)) <= processed[m]
    BY DEF Accounted
  <1>b. ASSUME NEW s \in Slots, OnlyMoves(s), \A m \in Msgs : Keeps(s, m) PROVE Accounted'
    BY <1>b, Balance DEF Keeps, Accounted
  <1>same. ASSUME NEW s \in Slots, OnlyMoves(s), UNCHANGED <<asked, dedup>>,
                  load'[s] = load[s], at'[s] = "process" <=> at[s] = "process",
                  at'[s] \in Answered <=> at[s] \in Answered
           PROVE  Accounted'
    <2>1. \A m \in Msgs : Keeps(s, m)
      BY <1>same, <1>n DEF Keeps, One, asked, dedup
    <2> QED
      BY <1>same, <1>b, <2>1
  <1>leave. ASSUME NEW s \in Slots, OnlyMoves(s), UNCHANGED <<asked, dedup>>,
                   at'[s] # "process", at'[s] \notin Answered
            PROVE  Accounted'
    <2>1. \A m \in Msgs : Keeps(s, m)
      BY <1>leave, <1>n DEF Keeps, One, asked, dedup
    <2> QED
      BY <1>leave, <1>b, <2>1
  <1> USE DEF Go
  <1>1. ASSUME NEW s \in Slots,
               \/ \E m \in Msgs : Deliver(s, m)
               \/ Count(s) \/ Expire(s) \/ LimitFails(s)
               \/ MemoryFails(s) \/ Respond(s)
        PROVE  Accounted'
    <2>1. OnlyMoves(s) /\ UNCHANGED <<asked, dedup>>
      BY <1>1 DEF TypeOK, OnlyMoves, Deliver, Count, Expire, LimitFails, MemoryFails, Respond, Acknowledge, End
    <2>2. at'[s] \in {"limit", "expire", "parse", "idle"}
      BY <1>1 DEF TypeOK, Deliver, Count, Expire, LimitFails, MemoryFails, Respond, Acknowledge, End
    <2> QED
      BY <1>leave, <2>1, <2>2 DEF Answered
  <1>2. ASSUME NEW s \in Slots, ReadMemory(s) \/ AddMemory(s) \/ Lookup(s) \/ Save(s) \/ SaveFails(s)
        PROVE  Accounted'
    <2>1. OnlyMoves(s) /\ UNCHANGED <<asked, dedup>> /\ load'[s] = load[s]
      BY <1>2 DEF TypeOK, OnlyMoves, ReadMemory, AddMemory, Lookup, Save, SaveFails
    <2>2. at[s] \in Answered /\ at'[s] \in Answered
      BY <1>2 DEF TypeOK, Answered, ReadMemory, AddMemory, Lookup, Save, SaveFails
    <2> QED
      BY <1>same, <2>1, <2>2 DEF Answered
  <1>3. ASSUME NEW s \in Slots, IsDuplicate(s) PROVE Accounted'
    <2>1. CASE load[s] \in marker
      <3>1. OnlyMoves(s) /\ UNCHANGED <<asked, dedup>> /\ at'[s] = "idle"
        BY <1>3, <2>1 DEF TypeOK, OnlyMoves, IsDuplicate, Acknowledge, End, dedup
      <3> QED
        BY <1>leave, <3>1 DEF Answered
    <2>2. CASE load[s] \notin marker
      <3>1. /\ OnlyMoves(s) /\ UNCHANGED <<asked, lapses, load>> /\ at[s] = "parse" /\ at'[s] = "process"
            /\ marker' = marker \union {load[s]}
        BY <1>3, <2>2 DEF TypeOK, OnlyMoves, IsDuplicate
      <3>2. \A m \in Msgs : Keeps(s, m)
        BY <1>n, <2>2, <3>1 DEF Keeps, One, asked, Answered
      <3> QED
        BY <1>b, <3>1, <3>2
    <2> QED
      BY <2>1, <2>2
  <1>4. ASSUME NEW s \in Slots, FailOpen(s) PROVE Accounted'
    <2>1. /\ OnlyMoves(s) /\ UNCHANGED <<asked, load>> /\ at[s] = "parse" /\ at'[s] = "process"
          /\ marker \subseteq marker'
      BY <1>4 DEF TypeOK, OnlyMoves, FailOpen
    <2>2. \A m \in Msgs : lapses'[m] = IF m = load[s] THEN lapses[m] + 1 ELSE lapses[m]
      BY <1>4, <1>t, OneMore DEF TypeOK, FailOpen
    <2>3. \A m \in Msgs : Keeps(s, m)
      BY <1>n, <2>1, <2>2 DEF Keeps, One, asked, Answered
    <2> QED
      BY <1>b, <2>1, <2>3
  <1>5. ASSUME NEW s \in Slots, Process(s) PROVE Accounted'
    <2>1. /\ OnlyMoves(s) /\ UNCHANGED <<dedup, replied>> /\ at[s] = "process"
          /\ at'[s] \in {"add user", "idle"} /\ (at'[s] = "add user" => load'[s] = load[s])
      BY <1>5 DEF TypeOK, OnlyMoves, Process, Acknowledge, End
    <2>2. \A m \in Msgs : processed'[m] = IF m = load[s] THEN processed[m] + 1 ELSE processed[m]
      BY <1>5, <1>t, OneMore DEF TypeOK, Process
    <2>3. ASSUME NEW m \in Msgs PROVE Keeps(s, m)
      <3>1. /\ processed'[m] = IF m = load[s] THEN processed[m] + 1 ELSE processed[m]
            /\ lapses'[m] = lapses[m] /\ marker' = marker /\ replied'[m] = replied[m]
        BY <2>1, <2>2 DEF dedup
      <3>2. /\ processed[m] \in Nat /\ lapses[m] \in Nat /\ replied[m] \in Nat
        BY <1>n
      <3>3. CASE at'[s] = "idle"
        BY <2>1, <3>1, <3>2, <3>3 DEF Keeps, One, Answered
      <3>4. CASE at'[s] = "add user" /\ load'[s] = load[s]
        <4>1. /\ One(at[s] = "process" /\ load[s] = m) = One(load[s] = m)
              /\ One(at'[s] = "process" /\ load'[s] = m) = 0
              /\ One(at[s] \in Answered /\ load[s] = m) = 0
              /\ One(at'[s] \in Answered /\ load'[s] = m) = One(load[s] = m)
          BY <2>1, <3>4 DEF One, Answered
        <4>2. processed'[m] = processed[m] + One(load[s] = m) /\ One(load[s] = m) \in 0..1
          BY <3>1, <3>2 DEF One
        <4>3. One(m \in marker') = One(m \in marker) /\ One(m \in marker) \in 0..1
          BY <3>1 DEF One
        <4> QED
          BY <3>1, <3>2, <4>1, <4>2, <4>3 DEF Keeps
      <3> QED
        BY <2>1, <3>3, <3>4
    <2> QED
      BY <1>b, <2>1, <2>3
  <1>6. ASSUME NEW s \in Slots, Send(s) PROVE Accounted'
    <2>1. /\ OnlyMoves(s) /\ UNCHANGED <<dedup, processed, load>> /\ at[s] = "send" /\ at'[s] = "respond"
      BY <1>6 DEF TypeOK, OnlyMoves, Send
    <2>2. replied' = replied \/ replied' = [replied EXCEPT ![load[s]] = @ + 1]
      BY <1>6 DEF Send
    <2>3. load[s] \in Msgs /\ replied \in [Msgs -> Nat]
      BY <1>t, <2>1 DEF TypeOK
    <2>4. \A m \in Msgs : replied'[m] <= IF m = load[s] THEN replied[m] + 1 ELSE replied[m]
      BY <1>n, <2>2, <2>3, OneMore
    <2>5. ASSUME NEW m \in Msgs PROVE Keeps(s, m)
      <3>1. /\ processed'[m] = processed[m] /\ lapses'[m] = lapses[m] /\ marker' = marker /\ load' = load
            /\ at[s] = "send" /\ at'[s] = "respond"
            /\ replied'[m] <= IF m = load[s] THEN replied[m] + 1 ELSE replied[m]
        BY <2>1, <2>4 DEF dedup
      <3>2. /\ processed[m] \in Nat /\ lapses[m] \in Nat /\ replied[m] \in Nat /\ replied'[m] \in Nat
        BY <1>n
      <3> QED
        BY <3>1, <3>2 DEF Keeps, One, Answered
    <2> QED
      BY <1>b, <2>1, <2>5
  <1>7. CASE WindowEnds \/ UNCHANGED vars
    <2>1. UNCHANGED <<asked, dedup, at, load>>
      BY <1>7 DEF WindowEnds, vars
    <2> QED
      BY <2>1 DEF Accounted, Asking, Replying, asked, dedup
  <1>8. ASSUME NEW m \in Msgs, MarkerExpires(m) PROVE Accounted'
    <2>1. UNCHANGED <<asked, at, load>> /\ m \in marker /\ marker' = marker \ {m}
      BY <1>8 DEF MarkerExpires
    <2>2. \A n \in Msgs : lapses'[n] = IF n = m THEN lapses[n] + 1 ELSE lapses[n]
      BY <1>8, OneMore DEF TypeOK, MarkerExpires
    <2>3. \A n \in Msgs : /\ Asking(n)' = Asking(n) /\ Replying(n)' = Replying(n)
                          /\ processed'[n] = processed[n] /\ replied'[n] = replied[n]
      BY <2>1 DEF Asking, Replying, asked
    <2>4. \A n \in Msgs : One(n \in marker') + lapses'[n] = One(n \in marker) + lapses[n]
      BY <1>n, <2>1, <2>2 DEF One
    <2> QED
      BY <1>g, <2>3, <2>4 DEF Accounted
  <1>9. ASSUME NEW p \in Procs, Die(p) PROVE Accounted'
    <2>1. UNCHANGED <<asked, dedup>>
      BY <1>9 DEF Die
    <2>2. \A s \in Slots : at'[s] = "idle" \/ (at'[s] = at[s] /\ load'[s] = load[s])
      BY <1>9 DEF Die
    <2>3. \A m \in Msgs : Asking(m)' \subseteq Asking(m) /\ Replying(m)' \subseteq Replying(m)
      BY <2>2 DEF Asking, Replying
    <2>4. \A m \in Msgs : /\ Cardinality(Asking(m)') <= Cardinality(Asking(m))
                          /\ Cardinality(Replying(m)') <= Cardinality(Replying(m))
                          /\ Cardinality(Asking(m)') \in Nat /\ Cardinality(Replying(m)') \in Nat
      BY <2>3, Finite, FS_Subset, FS_CardinalityType
    <2>5. \A m \in Msgs : /\ processed'[m] = processed[m] /\ replied'[m] = replied[m]
                          /\ One(m \in marker)' = One(m \in marker) /\ lapses'[m] = lapses[m]
                          /\ One(m \in marker) \in Nat
      BY <2>1 DEF One, asked, dedup
    <2>6. \A m \in Msgs : Cardinality(Asking(m)) \in Nat /\ Cardinality(Replying(m)) \in Nat
      BY Finite
    <2> QED
      BY <1>n, <1>g, <2>4, <2>5, <2>6 DEF Accounted
  <1> QED
    BY <1>1, <1>2, <1>3, <1>4, <1>5, <1>6, <1>7, <1>8, <1>9 DEF Next, Limiting, Handling, Failing

(* However often the platform delivers a message, and however many         *)
(* deliveries are in service in however many processes, it is processed    *)
(* and replied to once for each time its marker expired or could not be    *)
(* asked for (webhooks.py:48-60, 106).                                     *)
THEOREM Once == Spec => []AnsweredOnce
  <1>1. TypeOK /\ Accounted => AnsweredOnce
    <2> SUFFICES ASSUME TypeOK, Accounted, NEW m \in Msgs
                 PROVE  replied[m] <= processed[m] /\ processed[m] <= 1 + lapses[m]
      BY DEF AnsweredOnce
    <2>1. /\ processed[m] + Cardinality(Asking(m)) <= One(m \in marker) + lapses[m]
          /\ replied[m] + Cardinality(Replying(m)) <= processed[m]
      BY DEF Accounted
    <2>2. Cardinality(Asking(m)) \in Nat /\ Cardinality(Replying(m)) \in Nat
      BY Finite
    <2>3. processed[m] \in Nat /\ replied[m] \in Nat /\ lapses[m] \in Nat
      BY DEF TypeOK
    <2>4. One(m \in marker) \in 0..1
      BY DEF One
    <2> QED
      BY <2>1, <2>2, <2>3, <2>4
  <1> QED
    BY <1>1, AccountedInit, AccountedStep, TypeCorrect, PTL DEF Spec

-----------------------------------------------------------------------------
(* The latest turns are turns, as many as fit, from the end.                *)
LEMMA LatestTurns ==
    ASSUME NEW t \in Seq(Turns)
    PROVE  /\ Latest(t) \in Seq(Turns)
           /\ Len(t) <= MaxMessages => Latest(t) = t
           /\ Len(t) > MaxMessages => Len(Latest(t)) = MaxMessages
           /\ Len(t) > MaxMessages => \A i \in 1..MaxMessages : Latest(t)[i] = t[Len(t) - MaxMessages + i]
  <1>1. MaxMessages \in Nat \ {0} /\ Len(t) \in Nat
    BY Bounds, LenProperties
  <1>2. CASE Len(t) > MaxMessages
    <2> DEFINE m == Len(t) - MaxMessages + 1
    <2>1. Latest(t) = SubSeq(t, m, Len(t))
      BY <1>2 DEF Latest
    <2>2. m \in Int /\ Len(t) \in Int /\ \A i \in m..Len(t) : t[i] \in Turns
      BY <1>1, <1>2, ElementOfSeq
    <2>3. /\ SubSeq(t, m, Len(t)) \in Seq(Turns)
          /\ Len(SubSeq(t, m, Len(t))) = IF m <= Len(t) THEN Len(t) - m + 1 ELSE 0
          /\ \A i \in 1..(Len(t) - m + 1) : SubSeq(t, m, Len(t))[i] = t[m + i - 1]
      BY <2>2, SubSeqProperties
    <2>4. m <= Len(t) /\ Len(t) - m + 1 = MaxMessages
          /\ \A i \in 1..MaxMessages : m + i - 1 = Len(t) - MaxMessages + i
      BY <1>1, <1>2
    <2> QED
      BY <1>1, <1>2, <2>1, <2>3, <2>4
  <1>3. CASE ~(Len(t) > MaxMessages)
    <2>1. Latest(t) = t
      BY <1>3, SubSeqFull DEF Latest
    <2> QED
      BY <1>1, <1>3, <2>1
  <1> QED
    BY <1>2, <1>3

(* To append a turn to the latest ones and cut them leaves the latest ones  *)
(* of all the turns with it: what was cut before is not missed.             *)
LEMMA CutAfterAppend ==
    ASSUME NEW t \in Seq(Turns), NEW e \in Turns
    PROVE  Cut(Append(Latest(t), e)) = Latest(Append(t, e))
  <1> DEFINE u == Latest(t)
             v == Append(u, e)
             w == Append(t, e)
  <1>1. MaxMessages \in Nat \ {0} /\ Len(t) \in Nat
    BY Bounds, LenProperties
  <1>2. u \in Seq(Turns)
    BY LatestTurns
  <1>3. /\ v \in Seq(Turns) /\ Len(v) = Len(u) + 1
        /\ \A i \in 1..Len(u) : v[i] = u[i]
        /\ v[Len(u) + 1] = e
    BY <1>2, AppendProperties
  <1>4. /\ w \in Seq(Turns) /\ Len(w) = Len(t) + 1
        /\ \A i \in 1..Len(t) : w[i] = t[i]
        /\ w[Len(t) + 1] = e
    BY AppendProperties
  <1>5. CASE Len(t) < MaxMessages
    <2>1. v = w /\ Len(w) <= MaxMessages
      BY <1>1, <1>4, <1>5, LatestTurns
    <2> HIDE DEF u, v, w
    <2>2. Latest(w) = w
      BY <1>4, <2>1, LatestTurns
    <2>3. Cut(w) = w
      BY <1>1, <1>4, <2>1 DEF Cut
    <2>4. Cut(v) = Latest(w)
      BY <2>1, <2>2, <2>3
    <2> QED
      BY <2>4 DEF u, v, w
  <1>6. CASE ~(Len(t) < MaxMessages)
    <2>1. Len(u) = MaxMessages /\ \A i \in 1..MaxMessages : u[i] = t[Len(t) - MaxMessages + i]
      <3>1. CASE Len(t) = MaxMessages
        BY <1>1, <3>1, LatestTurns
      <3>2. CASE Len(t) > MaxMessages
        BY <3>2, LatestTurns
      <3> QED
        BY <1>1, <1>6, <3>1, <3>2
    <2> HIDE DEF u, v, w
    <2>2. Cut(v) = SubSeq(v, 2, MaxMessages + 1)
      BY <1>1, <1>3, <2>1 DEF Cut
    <2>3. ASSUME NEW i \in 2..(MaxMessages + 1) PROVE v[i] \in Turns
      <3>1. i \in 1..Len(v)
        BY <1>1, <1>3, <2>1
      <3> QED
        BY <1>3, <3>1, ElementOfSeq
    <2>4. /\ SubSeq(v, 2, MaxMessages + 1) \in Seq(Turns)
          /\ Len(SubSeq(v, 2, MaxMessages + 1)) = MaxMessages
          /\ \A i \in 1..MaxMessages : SubSeq(v, 2, MaxMessages + 1)[i] = v[i + 1]
      <3>1. 2 \in Int /\ MaxMessages + 1 \in Int /\ 2 <= MaxMessages + 1 /\ (MaxMessages + 1) - 2 + 1 = MaxMessages
        BY <1>1
      <3>2. \A i \in 1..MaxMessages : 2 + i - 1 = i + 1
        BY <1>1
      <3>3. /\ SubSeq(v, 2, MaxMessages + 1) \in Seq(Turns)
            /\ Len(SubSeq(v, 2, MaxMessages + 1))
                  = IF 2 <= MaxMessages + 1 THEN (MaxMessages + 1) - 2 + 1 ELSE 0
            /\ \A i \in 1..((MaxMessages + 1) - 2 + 1) : SubSeq(v, 2, MaxMessages + 1)[i] = v[2 + i - 1]
        BY <2>3, <3>1, SubSeqProperties
      <3> QED
        BY <3>1, <3>2, <3>3
    <2>5. Len(w) > MaxMessages
      BY <1>1, <1>4, <1>6
    <2>6. /\ Latest(w) \in Seq(Turns) /\ Len(Latest(w)) = MaxMessages
          /\ \A i \in 1..MaxMessages : Latest(w)[i] = w[Len(t) + 1 - MaxMessages + i]
      <3>1. /\ Latest(w) \in Seq(Turns) /\ Len(Latest(w)) = MaxMessages
            /\ \A i \in 1..MaxMessages : Latest(w)[i] = w[Len(w) - MaxMessages + i]
        BY <1>4, <2>5, LatestTurns
      <3> QED
        BY <1>4, <3>1
    <2>7. ASSUME NEW i \in 1..MaxMessages PROVE Cut(v)[i] = Latest(w)[i]
      <3>1. CASE i = MaxMessages
        <4>1. Len(t) + 1 - MaxMessages + i = Len(t) + 1 /\ i + 1 = Len(u) + 1
          BY <1>1, <2>1, <3>1
        <4> QED
          BY <1>3, <1>4, <2>2, <2>4, <2>6, <4>1
      <3>2. CASE i # MaxMessages
        <4>1. /\ i + 1 \in 1..MaxMessages /\ Len(t) + 1 - MaxMessages + i \in 1..Len(t)
              /\ Len(t) - MaxMessages + (i + 1) = Len(t) + 1 - MaxMessages + i
          BY <1>1, <1>6, <3>2
        <4>2. v[i + 1] = t[Len(t) - MaxMessages + (i + 1)]
          BY <1>3, <2>1, <4>1
        <4>3. w[Len(t) + 1 - MaxMessages + i] = t[Len(t) + 1 - MaxMessages + i]
          BY <1>4, <4>1
        <4> QED
          BY <2>2, <2>4, <2>6, <4>1, <4>2, <4>3
      <3> QED
        BY <3>1, <3>2
    <2>8. Cut(v) \in Seq(Turns) /\ Len(Cut(v)) = MaxMessages
      BY <2>2, <2>4
    <2>9. Cut(v) = Latest(w)
      BY <2>6, <2>7, <2>8, SeqEqual
    <2> QED
      BY <2>9 DEF u, v, w
  <1> QED
    BY <1>5, <1>6

(* The memory is empty to begin with, and only what is added changes it.    *)
LEMMA MemoryStep == TypeOK /\ TypeOK' /\ MemoryKeepsTurns /\ [Next]_vars => MemoryKeepsTurns'
  <1> SUFFICES ASSUME TypeOK, TypeOK', MemoryKeepsTurns, [Next]_vars PROVE MemoryKeepsTurns'
    OBVIOUS
  <1>1. ASSUME NEW s \in Slots, AddMemory(s) PROVE MemoryKeepsTurns'
    <2>1. SUFFICES ASSUME NEW c \in Convs \ raced' PROVE memory'[c] = Latest(turns'[c])
      BY DEF MemoryKeepsTurns
    <2>2. /\ raced' = IF memory[Talk(s)] # seen[s] THEN raced \union {Talk(s)} ELSE raced
          /\ memory' = [memory EXCEPT ![Talk(s)] = Cut(Append(seen[s], Turn(s)))]
          /\ turns' = [turns EXCEPT ![Talk(s)] = IF Talk(s) \in raced' THEN <<>> ELSE Append(@, Turn(s))]
          /\ at[s] # "idle"
      BY <1>1 DEF AddMemory
    <2>3. /\ c \in Convs \ raced /\ memory[c] = Latest(turns[c])
          /\ memory \in [Convs -> Seq(Turns)] /\ turns \in [Convs -> Seq(Turns)]
      BY <2>1, <2>2 DEF MemoryKeepsTurns, TypeOK
    <2>4. CASE c = Talk(s)
      <3>1. seen[s] = Latest(turns[c])
        BY <2>1, <2>2, <2>3, <2>4
      <3>2. Turn(s) \in Turns
        BY <2>2, Talking DEF Turn, Turns, Role
      <3>3. memory'[c] = Cut(Append(seen[s], Turn(s))) /\ turns'[c] = Append(turns[c], Turn(s))
        BY <2>1, <2>2, <2>3, <2>4
      <3> QED
        BY <2>3, <3>1, <3>2, <3>3, CutAfterAppend
    <2>5. CASE c # Talk(s)
      BY <2>2, <2>3, <2>5
    <2> QED
      BY <2>4, <2>5
  <1>2. ASSUME UNCHANGED mem PROVE MemoryKeepsTurns'
    BY <1>2 DEF mem, MemoryKeepsTurns
  <1>3. ASSUME NEW s \in Slots, Limiting(s) \/ Failing(s) \/ (\E m \in Msgs : Deliver(s, m))
        PROVE UNCHANGED mem
    BY <1>3 DEF Limiting, Failing, Count, Expire, LimitFails, FailOpen, MemoryFails, SaveFails, Deliver
  <1>4. ASSUME NEW s \in Slots, Handling(s), ~AddMemory(s) PROVE UNCHANGED mem
    BY <1>4 DEF Handling, IsDuplicate, Process, ReadMemory, Lookup, Save, SaveFails, Send, Respond
  <1>5. ASSUME \/ WindowEnds \/ \E m \in Msgs : MarkerExpires(m)
               \/ (\E p \in Procs : Die(p)) \/ UNCHANGED vars
        PROVE UNCHANGED mem
    BY <1>5 DEF WindowEnds, MarkerExpires, Die, vars
  <1> QED
    BY <1>1, <1>2, <1>3, <1>4, <1>5 DEF Next

(* The memory of a conversation holds the latest turns, in their order, as  *)
(* many as it may, unless two requests of the conversation appended at the  *)
(* same time (conversation_memory.py:20-31).                                *)
THEOREM Remembered == Spec => []MemoryKeepsTurns
  <1>1. Init => MemoryKeepsTurns
    <2> SUFFICES ASSUME Init, NEW c \in Convs PROVE memory[c] = Latest(turns[c])
      BY DEF MemoryKeepsTurns
    <2>1. memory[c] = <<>> /\ turns[c] = <<>>
      BY DEF Init
    <2>2. <<>> \in Seq(Turns) /\ Len(<<>>) <= MaxMessages
      BY Bounds, EmptySeq
    <2> QED
      BY <2>1, <2>2, LatestTurns
  <1> QED
    BY <1>1, MemoryStep, TypeCorrect, PTL DEF Spec
=============================================================================
