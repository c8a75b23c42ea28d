----------------------------- MODULE ChunkStore -----------------------------
(***************************************************************************)
(* What a ChunkStorage promises the threads that share it: every save and *)
(* every delete takes effect at one instant between its call and its     *)
(* return or, when it fails, not at all; a load answers with what was    *)
(* stored at one instant of the call, or fails.  A crash forgets the calls *)
(* and keeps the store.                                                  *)
(***************************************************************************)
CONSTANTS
    Threads,   \* the callers
    Coords,    \* chunk coordinates
    Payloads,  \* contents a chunk may have
    None       \* no chunk

VARIABLES
    store,     \* store[c]: the payload stored for c, or None
    call       \* call[t]: the call t is in, or what its last one returned

csvars == <<store, call>>

Saving(c, d) == [op |-> "save", coord |-> c, value |-> d]
Loading(c)   == [op |-> "load", coord |-> c]
Deleting(c)  == [op |-> "delete", coord |-> c]

(* A load that has observed a payload and has yet to return it.          *)
Observing(c, d) == [op |-> "observed", coord |-> c, value |-> d]

Returned(r) == [op |-> "returned", result |-> r]
Loaded(d) == [kind |-> "loaded", value |-> d]
Done == [kind |-> "done"]
Failed == [kind |-> "failed"]

Free(t) == call[t].op = "returned"

Init ==
    /\ store = [c \in Coords |-> None]
    /\ call = [t \in Threads |-> Returned(Done)]

Begin(t) ==
    /\ Free(t)
    /\ \E c \in Coords :
         \/ \E d \in Payloads : call' = [call EXCEPT ![t] = Saving(c, d)]
         \/ call' = [call EXCEPT ![t] = Loading(c)]
         \/ call' = [call EXCEPT ![t] = Deleting(c)]
    /\ UNCHANGED store

Save(t) ==
    /\ call[t].op = "save"
    /\ store' = [store EXCEPT ![call[t].coord] = call[t].value]
    /\ call' = [call EXCEPT ![t] = Returned(Done)]

Delete(t) ==
    /\ call[t].op = "delete"
    /\ store' = [store EXCEPT ![call[t].coord] = None]
    /\ call' = [call EXCEPT ![t] = Returned(Done)]

Miss(t) ==
    /\ call[t].op = "load"
    /\ store[call[t].coord] = None
    /\ call' = [call EXCEPT ![t] = Returned(Loaded(None))]
    /\ UNCHANGED store

Observe(t) ==
    /\ call[t].op = "load"
    /\ store[call[t].coord] # None
    /\ call' = [call EXCEPT ![t] = Observing(call[t].coord, store[call[t].coord])]
    /\ UNCHANGED store

Answer(t) ==
    /\ call[t].op = "observed"
    /\ call' = [call EXCEPT ![t] = Returned(Loaded(call[t].value))]
    /\ UNCHANGED store

Fail(t) ==
    /\ ~ Free(t)
    /\ call' = [call EXCEPT ![t] = Returned(Failed)]
    /\ UNCHANGED store

Crash ==
    /\ call' = [t \in Threads |-> Returned(Done)]
    /\ UNCHANGED store

Next ==
    \/ \E t \in Threads :
         \/ Begin(t) \/ Save(t) \/ Delete(t)
         \/ Miss(t) \/ Observe(t) \/ Answer(t) \/ Fail(t)
    \/ Crash

Spec == Init /\ [][Next]_csvars

=============================================================================
