---------------------------- MODULE ChannelsProps ----------------------------
(***************************************************************************)
(* What the channels promise, stated over Channels.                        *)
(***************************************************************************)
EXTENDS Channels

(* Counters count, the memory is a list of turns, and a request in service *)
(* has a message.                                                          *)
TypeOK ==
    /\ sent \subseteq Msgs /\ acked \subseteq Msgs
    /\ count \in Nat /\ ttl \in BOOLEAN /\ stuck \in BOOLEAN
    /\ marker \subseteq Msgs /\ lapses \in [Msgs -> Nat]
    /\ memory \in [Convs -> Seq(Turns)] /\ turns \in [Convs -> Seq(Turns)]
    /\ raced \subseteq Convs /\ rows \subseteq Convs
    /\ replied \in [Msgs -> Nat] /\ processed \in [Msgs -> Nat]
    /\ at \in [Slots -> Places]
    /\ load \in [Slots -> Msgs \union {None}]
    /\ \A s \in Slots : at[s] # "idle" => load[s] \in Msgs
    /\ seen \in [Slots -> Seq(Turns)]
    /\ faults \in 0..MaxFaults /\ expiries \in 0..MaxExpiries

(* However often the platform delivers a message, and however many         *)
(* deliveries are in service at once, it is processed and replied to once  *)
(* for each time its marker expired or Redis could not be asked            *)
(* (webhooks.py:48-60, 106).                                               *)
AnsweredOnce == \A m \in Msgs : replied[m] <= processed[m] /\ processed[m] <= 1 + lapses[m]

Latest(t) ==
    SubSeq(t, IF Len(t) > MaxMessages THEN Len(t) - MaxMessages + 1 ELSE 1, Len(t))

(* The memory holds the latest turns, in their order, unless two requests  *)
(* of the conversation appended at the same time                           *)
(* (conversation_memory.py:20-31).                                         *)
MemoryKeepsTurns == \A c \in Convs \ raced : memory[c] = Latest(turns[c])

(* Whatever is delivered is acknowledged in the end, unless the limiter's  *)
(* key was left without an expiry: then all is refused for ever            *)
(* (rate_limit_middleware.py:27-36, webhooks.py:147-150).                  *)
EventsSettle == <>[](sent \subseteq acked \/ stuck)
=============================================================================
