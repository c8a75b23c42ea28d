----------------------------- MODULE ChunkCache -----------------------------
(***************************************************************************)
(* What the streaming manager promises its client, with no mention of    *)
(* memory, capacity, eviction or prefetch: a map from chunk coordinates to *)
(* payloads.  A put is visible to every later get, a call that fails     *)
(* changes nothing, and a crash takes the map back to what had become    *)
(* durable, chunk by chunk.  The implementation may make any chunk durable *)
(* whenever it likes, but only with the payload a get would return.      *)
(***************************************************************************)
CONSTANTS
    Coords,    \* chunk coordinates
    Payloads,  \* contents a chunk may have
    None       \* no such chunk

VARIABLES
    value,    \* value[c]: what a get of c returns
    durable,  \* durable[c]: what a get of c would return after a crash
    reply     \* what the last call returned to the client

ccvars == <<value, durable, reply>>

Replies ==
    [kind : {"got"}, coord : Coords, value : Payloads \cup {None}]
    \cup [kind : {"done", "failed", "busy", "restarted"}]

(* Any set of chunks may become durable, with the payloads they have now. *)
Persist == \E S \in SUBSET Coords :
    durable' = [c \in Coords |-> IF c \in S THEN value[c] ELSE durable[c]]

Init ==
    /\ value = [c \in Coords |-> None]
    /\ durable = [c \in Coords |-> None]
    /\ reply = [kind |-> "done"]

Get(c) ==
    /\ reply' = [kind |-> "got", coord |-> c, value |-> value[c]]
    /\ UNCHANGED <<value, durable>>

Put(c, d) ==
    /\ value' = [value EXCEPT ![c] = d]
    /\ Persist
    /\ reply' = [kind |-> "done"]

(* A call with no effect on the map, or a step inside a longer call.     *)
Tend ==
    /\ Persist
    /\ \E r \in {"done", "failed", "busy"} : reply' = [kind |-> r]
    /\ UNCHANGED value

Crash ==
    /\ value' = durable
    /\ reply' = [kind |-> "restarted"]
    /\ UNCHANGED durable

Next ==
    \/ \E c \in Coords : Get(c)
    \/ \E c \in Coords, d \in Payloads : Put(c, d)
    \/ Tend
    \/ Crash

Spec == Init /\ [][Next]_ccvars

=============================================================================
