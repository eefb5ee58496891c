------------------------------- MODULE Channels -------------------------------
(***************************************************************************)
(* The channel webhooks (app/api/webhooks.py) behind the rate limiter      *)
(* (app/middleware/rate_limit_middleware.py): deliveries of a platform     *)
(* that repeats what is not acknowledged, the marker that recognizes       *)
(* repetitions, the conversation memory in Redis, the rows in the          *)
(* database, and the reply.                                                *)
(*                                                                         *)
(* parse_message takes the first message of a payload; what has no text,   *)
(* or comes on a channel that is not configured or only logged (Instagram, *)
(* Slack, generic), is acknowledged and changes nothing, so it is left out.*)
(* A slot is one request in service.  A step lasts from one await to the   *)
(* next; saving the messages has no await, so the requests of one process  *)
(* do not interleave there.                                                *)
(***************************************************************************)
EXTENDS Naturals, Sequences, FiniteSets

CONSTANTS
    Slots, Procs, Host,     \* requests in service, server processes, who serves which
    Msgs, Conv,         \* messages with a text, and the conversation of each
    Limit,              \* requests per window of one client and path
    MaxMessages,        \* MAX_MESSAGES of conversation_memory
    None,               \* no message
    MaxFaults, MaxExpiries  \* bounds on errors and deaths, and on keys that expire

Convs == {Conv[m] : m \in Msgs}

ASSUME ConstantsAssumption ==
    /\ IsFiniteSet(Slots) /\ Host \in [Slots -> Procs]
    /\ Conv \in [Msgs -> Convs]
    /\ {Limit, MaxMessages} \subseteq Nat \ {0}
    /\ {MaxFaults, MaxExpiries} \subseteq Nat

VARIABLES
    sent, acked,    \* messages the platform delivered; those answered with 200
    count, ttl,     \* the limiter's key: its counter, and whether it expires
    marker,         \* messages with a dedup key
    memory,         \* memory[c]: conv_memory of the conversation
    rows,           \* conversations with a row
    replied,        \* how often the platform took a reply to the message
    at, load, seen, \* place and message of each slot; the memory it read
    processed,      \* history: how often the orchestrator was asked
    lapses,         \* history: how often a message's marker went, or was passed over
    raced, turns,   \* history: conversations with a race in memory; else what was added
    stuck,          \* history: the limiter's key was left without expiry
    faults, expiries    \* towards the bounds

platform == <<sent, acked>>
limiter  == <<count, ttl, stuck>>
dedup    == <<marker, lapses>>
mem      == <<memory, turns, raced>>
db       == <<rows>>
asked    == <<replied, processed>>
vars == <<platform, limiter, dedup, mem, db, asked, at, load, seen, faults, expiries>>

Places == {"idle", "limit", "expire", "parse", "process", "add user", "read bot", "add bot",
           "save", "insert", "write", "send", "respond"}
Turns == Msgs \X {"user", "assistant"}

Init ==
    /\ sent = {} /\ acked = {}
    /\ count = 0 /\ ttl = FALSE /\ stuck = FALSE
    /\ marker = {} /\ lapses = [m \in Msgs |-> 0]
    /\ memory = [c \in Convs |-> <<>>] /\ turns = [c \in Convs |-> <<>>] /\ raced = {}
    /\ rows = {}
    /\ replied = [m \in Msgs |-> 0] /\ processed = [m \in Msgs |-> 0]
    /\ at = [s \in Slots |-> "idle"] /\ load = [s \in Slots |-> None]
    /\ seen = [s \in Slots |-> <<>>]
    /\ faults = 0 /\ expiries = 0

-----------------------------------------------------------------------------
Go(s, place) == at' = [at EXCEPT ![s] = place]
Fault == faults < MaxFaults /\ faults' = faults + 1
Lapse == expiries < MaxExpiries /\ expiries' = expiries + 1

Talk(s) == Conv[load[s]]

(* No other request of the process is between two statements of a save. *)
Scheduled(s) ==
    \A r \in Slots \ {s} : Host[r] = Host[s] => at[r] \notin {"insert", "write"}

End(s) ==
    /\ Go(s, "idle")
    /\ load' = [load EXCEPT ![s] = None]
    /\ seen' = [seen EXCEPT ![s] = <<>>]

(* 200 *)
Acknowledge(s) == acked' = acked \union {load[s]} /\ End(s)

(* The platform delivers, also while an earlier delivery is in service. *)
Deliver(s, m) ==
    /\ at[s] = "idle"
    /\ m \notin acked
    /\ sent' = sent \union {m}
    /\ load' = [load EXCEPT ![s] = m]
    /\ Go(s, "limit")
    /\ UNCHANGED <<acked, limiter, dedup, mem, db, asked, seen, faults, expiries>>

-----------------------------------------------------------------------------
(* INCR; EXPIRE by the request that created the key; 429 over the limit. *)
Count(s) ==
    /\ at[s] = "limit" /\ Scheduled(s)
    /\ count' = IF count > Limit THEN count ELSE count + 1    \* no more is told apart
    /\ \/ count = 0 /\ Go(s, "expire") /\ UNCHANGED <<load, seen>>
       \/ count \in 1..(Limit - 1) /\ Go(s, "parse") /\ UNCHANGED <<load, seen>>
       \/ count >= Limit /\ End(s)
    /\ UNCHANGED <<platform, ttl, stuck, dedup, mem, db, asked, faults, expiries>>

Expire_Forgotten(s) ==    \* mutant: the key never expires
    /\ at[s] = "expire" /\ Scheduled(s)
    /\ Go(s, "parse")
    /\ UNCHANGED <<platform, limiter, dedup, mem, db, asked, load, seen, faults, expiries>>

Expire(s) ==
    /\ at[s] = "expire" /\ Scheduled(s)
    /\ ttl' = TRUE
    /\ Go(s, "parse")
    /\ UNCHANGED <<platform, count, stuck, dedup, mem, db, asked, load, seen, faults, expiries>>

(* Redis fails: the request passes; a key that exists has no expiry. *)
LimitFails(s) ==
    /\ at[s] \in {"limit", "expire"} /\ Scheduled(s) /\ Fault
    /\ stuck' = (stuck \/ at[s] = "expire")
    /\ Go(s, "parse")
    /\ UNCHANGED <<platform, count, ttl, dedup, mem, db, asked, load, seen, expiries>>

WindowEnds ==
    /\ ttl
    /\ count' = 0 /\ ttl' = FALSE
    /\ UNCHANGED <<platform, stuck, dedup, mem, db, asked, at, load, seen, faults, expiries>>

-----------------------------------------------------------------------------
(* SET NX EX 60 tells whether the message is a repetition. *)
IsDuplicate_Never(s) ==    \* mutant: the marker is set, and not looked at
    /\ at[s] = "parse" /\ Scheduled(s)
    /\ marker' = marker \union {load[s]}
    /\ Go(s, "process")
    /\ UNCHANGED <<platform, limiter, lapses, mem, db, asked, load, seen, faults, expiries>>

IsDuplicate(s) ==
    /\ at[s] = "parse" /\ Scheduled(s)
    /\ IF load[s] \notin marker
       THEN /\ marker' = marker \union {load[s]}
            /\ Go(s, "process") /\ UNCHANGED <<acked, load, seen>>
       ELSE Acknowledge(s) /\ UNCHANGED marker
    /\ UNCHANGED <<sent, limiter, lapses, mem, db, asked, faults, expiries>>

(* Redis fails, before or after the command: the message is processed. *)
FailOpen(s) ==
    /\ at[s] = "parse" /\ Scheduled(s) /\ Fault
    /\ marker' \in {marker, marker \union {load[s]}}
    /\ lapses' = [lapses EXCEPT ![load[s]] = @ + 1]
    /\ Go(s, "process")
    /\ UNCHANGED <<platform, limiter, mem, db, asked, load, seen, expiries>>

(* After 60 seconds; what expires after the last delivery is left out. *)
MarkerExpires(m) ==
    /\ m \in marker \ acked /\ Lapse
    /\ marker' = marker \ {m}
    /\ lapses' = [lapses EXCEPT ![m] = @ + 1]
    /\ UNCHANGED <<platform, limiter, mem, db, asked, at, load, seen, faults>>

(* orchestrator.process does not raise.  An empty answer ends the handler, *)
(* and so does a failure of the first GET of memory that follows.          *)
Process(s) ==
    /\ at[s] = "process" /\ Scheduled(s)
    /\ processed' = [processed EXCEPT ![load[s]] = @ + 1]
    /\ \/ /\ seen' = [seen EXCEPT ![s] = memory[Talk(s)]]
          /\ Go(s, "add user") /\ UNCHANGED <<acked, load>>
       \/ Acknowledge(s)
    /\ UNCHANGED <<sent, limiter, dedup, mem, db, replied, faults, expiries>>

-----------------------------------------------------------------------------
(* conversation_memory.add, for the message and for the reply: GET, append *)
(* and cut, SET.  The memory expires after an hour without a message,      *)
(* which is longer than anything here lasts.                               *)
Role(s) == IF at[s] = "add user" THEN "user" ELSE "assistant"
Turn(s) == <<load[s], Role(s)>>

Cut_Newest(messages) ==     \* mutant: the newest are cut
    IF Len(messages) > MaxMessages THEN SubSeq(messages, 1, MaxMessages) ELSE messages
Cut(messages) ==
    IF Len(messages) > MaxMessages
    THEN SubSeq(messages, Len(messages) - MaxMessages + 1, Len(messages)) ELSE messages

ReadMemory(s) ==
    /\ at[s] = "read bot" /\ Scheduled(s)
    /\ seen' = [seen EXCEPT ![s] = memory[Talk(s)]]
    /\ Go(s, "add bot")
    /\ UNCHANGED <<platform, limiter, dedup, mem, db, asked, load, faults, expiries>>

AddMemory(s) ==
    /\ at[s] \in {"add user", "add bot"} /\ Scheduled(s)
    /\ memory' = [memory EXCEPT ![Talk(s)] = Cut(Append(seen[s], Turn(s)))]
    /\ raced' = IF memory[Talk(s)] # seen[s] THEN raced \union {Talk(s)} ELSE raced
    /\ turns' = [turns EXCEPT ![Talk(s)] =
                    IF Talk(s) \in raced' THEN <<>> ELSE Append(@, Turn(s))]
    /\ Go(s, IF at[s] = "add user" THEN "read bot" ELSE "save")
    /\ seen' = [seen EXCEPT ![s] = <<>>]
    /\ UNCHANGED <<platform, limiter, dedup, db, asked, load, faults, expiries>>

(* Redis fails: nothing is saved or sent, and the event is acknowledged. *)
MemoryFails(s) ==
    /\ at[s] \in {"add user", "read bot", "add bot"} /\ Scheduled(s) /\ Fault
    /\ Acknowledge(s)
    /\ UNCHANGED <<sent, limiter, dedup, mem, db, asked, expiries>>

-----------------------------------------------------------------------------
(* _save_messages_to_db: the conversation is looked up, inserted if it was *)
(* not there, and both messages with it, in one transaction.               *)
Lookup(s) ==
    /\ at[s] = "save" /\ Scheduled(s)
    /\ Go(s, IF Talk(s) \in rows THEN "write" ELSE "insert")
    /\ UNCHANGED <<platform, limiter, dedup, mem, db, asked, load, seen, faults, expiries>>

Save(s) ==
    /\ \/ at[s] = "write"
       \/ at[s] = "insert" /\ Talk(s) \notin rows
    /\ rows' = rows \union {Talk(s)}
    /\ Go(s, "send")
    /\ UNCHANGED <<platform, limiter, dedup, mem, asked, load, seen, faults, expiries>>

(* Another process inserted the conversation since, or the database fails: *)
(* rolled back, and gone over.                                             *)
SaveFails(s) ==
    /\ \/ at[s] = "insert" /\ Talk(s) \in rows /\ UNCHANGED faults
       \/ at[s] \in {"insert", "write"} /\ Fault
    /\ Go(s, "send")
    /\ UNCHANGED <<platform, limiter, dedup, mem, rows, asked, load, seen, expiries>>

(* send_message reports a failure, and nobody looks. *)
Send(s) ==
    /\ at[s] = "send" /\ Scheduled(s)
    /\ \/ replied' = [replied EXCEPT ![load[s]] = @ + 1] /\ UNCHANGED faults
       \/ Fault /\ UNCHANGED replied
    /\ Go(s, "respond")
    /\ UNCHANGED <<platform, limiter, dedup, mem, db, processed, load, seen, expiries>>

Respond(s) ==
    /\ at[s] = "respond" /\ Scheduled(s)
    /\ Acknowledge(s)
    /\ UNCHANGED <<sent, limiter, dedup, mem, db, asked, faults, expiries>>

(* A server process dies. *)
Die(p) ==
    /\ Fault
    /\ LET on == {s \in Slots : Host[s] = p} IN
          /\ \E s \in on : at[s] # "idle"
          /\ stuck' = (stuck \/ \E s \in on : at[s] = "expire")
          /\ at' = [s \in Slots |-> IF s \in on THEN "idle" ELSE at[s]]
          /\ load' = [s \in Slots |-> IF s \in on THEN None ELSE load[s]]
          /\ seen' = [s \in Slots |-> IF s \in on THEN <<>> ELSE seen[s]]
    /\ UNCHANGED <<platform, count, ttl, dedup, mem, db, asked, expiries>>

-----------------------------------------------------------------------------
Limiting(s) == Count(s) \/ Expire(s)
Handling(s) ==
    \/ IsDuplicate(s) \/ Process(s) \/ ReadMemory(s) \/ AddMemory(s)
    \/ Lookup(s) \/ Save(s) \/ (SaveFails(s) /\ UNCHANGED faults)
    \/ Send(s) \/ Respond(s)
Failing(s) == LimitFails(s) \/ FailOpen(s) \/ MemoryFails(s) \/ SaveFails(s)

Next ==
    \/ \E s \in Slots : Limiting(s) \/ Handling(s) \/ Failing(s)
                        \/ \E m \in Msgs : Deliver(s, m)
    \/ WindowEnds
    \/ \E m \in Msgs : MarkerExpires(m)
    \/ \E p \in Procs : Die(p)

Spec == Init /\ [][Next]_vars

(* A request in service goes on, keys expire, and the platform goes on     *)
(* delivering what was not acknowledged.                                   *)
FairSpec ==
    /\ Spec
    /\ \A s \in Slots : WF_vars(Limiting(s) \/ Handling(s))
    /\ WF_vars(WindowEnds)
    /\ \A m \in Msgs : WF_vars(\E s \in Slots : Deliver(s, m))
=============================================================================
