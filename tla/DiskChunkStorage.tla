-------------------------- MODULE DiskChunkStorage --------------------------
(***************************************************************************)
(* DiskChunkStorage of src/streaming_io.rs over a file system: one action *)
(* per system call, so that threads sharing the storage interleave between *)
(* them, and a call may fail or the process die at any of them.          *)
(*                                                                       *)
(* The file system is external, modelled as POSIX describes it: a path   *)
(* names an inode, an open file keeps its inode when the path is renamed *)
(* over or unlinked, creating an existing file truncates the inode it    *)
(* names.  A file is Blocks blocks long; the blocks of one payload decode *)
(* to it and no other content decodes.                                   *)
(***************************************************************************)
EXTENDS Integers

CONSTANTS
    Threads,       \* threads that share the storage (ChunkStorage: Send + Sync)
    Coords,        \* chunk coordinates
    Payloads,      \* contents a chunk may have
    None,          \* no inode, no block
    Inodes,        \* the file system's inodes
    Blocks,        \* blocks per file
    Exclusive,     \* two threads never save the same chunk at the same time
    IoMayFail,     \* open, write, read, rename and unlink may fail
    StatMayFail,   \* the stat behind Path::exists may fail
    MayCrash       \* the process may be killed

ASSUME FileSystemAssumption ==
    /\ Blocks \in Nat \ {0}
    /\ None \notin Payloads /\ None \notin Inodes
    /\ {Exclusive, IoMayFail, StatMayFail, MayCrash} \subseteq BOOLEAN

VARIABLES
    tmp,      \* tmp[c]: the inode of {cx}_{cy}_{cz}.bin.tmp, or None
    bin,      \* bin[c]: the inode of {cx}_{cy}_{cz}.bin, or None
    block,    \* block[i][k]: whose block the kth block of inode i is, or None
    pc,       \* pc[t]: the system call t is about to make
    call,     \* call[t]: the arguments of t's call
    file,     \* file[t]: the inode t has open, or None
    at,       \* at[t]: blocks t has read or written
    buffer,   \* buffer[t]: the blocks t has read
    result    \* result[t]: what t's last call returned

fs == <<tmp, bin, block>>
thread == <<pc, call, file, at, buffer, result>>
vars == <<fs, thread>>

Extent == 1..Blocks

NoBlocks == [k \in Extent |-> None]

(* The payload a sequence of blocks decodes to, None when it does not.   *)
Decoded(blocks) ==
    IF \E d \in Payloads : blocks = [k \in Extent |-> d] THEN blocks[1] ELSE None

Loaded(d) == [kind |-> "loaded", value |-> d]
Done == [kind |-> "done"]
Failed == [kind |-> "failed"]

Free == {i \in Inodes : \A c \in Coords, t \in Threads :
                            i # tmp[c] /\ i # bin[c] /\ i # file[t]}

(* Inodes are alike, so any free one will do.                            *)
Fresh == IF Free = {} THEN {} ELSE {CHOOSE i \in Free : TRUE}

---------------------------------------------------------------------------
(* Steps common to the calls.                                            *)

At(t, label) == pc[t] = label

Goto(t, label) == pc' = [pc EXCEPT ![t] = label]

Open(t, inode) ==
    /\ file' = [file EXCEPT ![t] = inode]
    /\ at' = [at EXCEPT ![t] = 0]
    /\ buffer' = [buffer EXCEPT ![t] = NoBlocks]

NoCall == [op |-> "load", coord |-> None, value |-> None]

(* The files a call has open are closed when it returns.                 *)
Return(t, r) ==
    /\ Goto(t, "free")
    /\ call' = [call EXCEPT ![t] = NoCall]
    /\ result' = [result EXCEPT ![t] = r]
    /\ Open(t, None)

Coord(t) == call[t].coord

Begin(t, op, c, d, label) ==
    /\ At(t, "free")
    /\ call' = [call EXCEPT ![t] = [op |-> op, coord |-> c, value |-> d]]
    /\ Goto(t, label)
    /\ UNCHANGED <<fs, file, at, buffer, result>>

Fail(t) ==
    /\ IoMayFail
    /\ ~ At(t, "free")
    /\ Return(t, Failed)
    /\ UNCHANGED fs

(* What Path::exists answers: a stat that fails counts as "no".          *)
Absent(t) == bin[Coord(t)] = None \/ StatMayFail
Present(t) == bin[Coord(t)] # None

---------------------------------------------------------------------------
(* save_chunk.                                                           *)

SavedByAnother(t, c) == \E u \in Threads \ {t} :
    ~ At(u, "free") /\ call[u].op = "save" /\ Coord(u) = c

(* StreamingManager calls its storage from methods that take &mut self.  *)
save_chunk(t) == \E c \in Coords, d \in Payloads :
    /\ Exclusive => ~ SavedByAnother(t, c)
    /\ Begin(t, "save", c, d, "create")

(* Mutant: the file is created under its final name.                     *)
create_in_place(t) ==
    /\ At(t, "create")
    /\ \E i \in IF bin[Coord(t)] = None THEN Fresh ELSE {bin[Coord(t)]} :
         /\ bin' = [bin EXCEPT ![Coord(t)] = i]
         /\ tmp' = [tmp EXCEPT ![Coord(t)] = i]
         /\ block' = [block EXCEPT ![i] = NoBlocks]
         /\ Open(t, i)
    /\ Goto(t, "write")
    /\ UNCHANGED <<call, result>>

(* fs::write creates the file or truncates the one a failed save, or     *)
(* another saver, has left.                                              *)
create(t) ==
    /\ At(t, "create")
    /\ \E i \in IF tmp[Coord(t)] = None THEN Fresh ELSE {tmp[Coord(t)]} :
         /\ tmp' = [tmp EXCEPT ![Coord(t)] = i]
         /\ block' = [block EXCEPT ![i] = NoBlocks]
         /\ Open(t, i)
    /\ Goto(t, "write")
    /\ UNCHANGED <<bin, call, result>>

(* Mutant: the loop stops one block early.                               *)
write_short(t) ==
    /\ At(t, "write")
    /\ block' = [block EXCEPT ![file[t]] = [@ EXCEPT ![at[t] + 1] = call[t].value]]
    /\ at' = [at EXCEPT ![t] = @ + 1]
    /\ Goto(t, IF at[t] + 2 >= Blocks THEN "rename" ELSE "write")
    /\ UNCHANGED <<tmp, bin, call, file, buffer, result>>

write(t) ==
    /\ At(t, "write")
    /\ block' = [block EXCEPT ![file[t]] = [@ EXCEPT ![at[t] + 1] = call[t].value]]
    /\ at' = [at EXCEPT ![t] = @ + 1]
    /\ Goto(t, IF at[t] + 1 = Blocks THEN "rename" ELSE "write")
    /\ UNCHANGED <<tmp, bin, call, file, buffer, result>>

(* The temporary file is gone when another saver has renamed it.         *)
rename(t) ==
    /\ At(t, "rename")
    /\ IF tmp[Coord(t)] = None
         THEN Return(t, Failed) /\ UNCHANGED <<tmp, bin>>
         ELSE /\ bin' = [bin EXCEPT ![Coord(t)] = tmp[Coord(t)]]
              /\ tmp' = [tmp EXCEPT ![Coord(t)] = None]
              /\ Return(t, Done)
    /\ UNCHANGED block

---------------------------------------------------------------------------
(* load_chunk.                                                           *)

load_chunk(t) == \E c \in Coords : Begin(t, "load", c, None, "load_exists")

load_absent(t) ==
    /\ At(t, "load_exists")
    /\ Absent(t)
    /\ Return(t, Loaded(None))
    /\ UNCHANGED fs

load_present(t) ==
    /\ At(t, "load_exists")
    /\ Present(t)
    /\ Goto(t, "open")
    /\ UNCHANGED <<fs, call, file, at, buffer, result>>

open(t) ==
    /\ At(t, "open")
    /\ bin[Coord(t)] # None
    /\ Open(t, bin[Coord(t)])
    /\ Goto(t, "read")
    /\ UNCHANGED <<fs, call, result>>

(* The file was deleted after the existence test.                        *)
open_missing(t) ==
    /\ At(t, "open")
    /\ bin[Coord(t)] = None
    /\ Return(t, Failed)
    /\ UNCHANGED fs

read(t) ==
    /\ At(t, "read")
    /\ at[t] < Blocks
    /\ buffer' = [buffer EXCEPT ![t] = [@ EXCEPT ![at[t] + 1] = block[file[t]][at[t] + 1]]]
    /\ at' = [at EXCEPT ![t] = @ + 1]
    /\ UNCHANGED <<fs, pc, call, file, result>>

decode(t) ==
    /\ At(t, "read")
    /\ at[t] = Blocks
    /\ Return(t, IF Decoded(buffer[t]) = None THEN Failed ELSE Loaded(Decoded(buffer[t])))
    /\ UNCHANGED fs

---------------------------------------------------------------------------
(* delete_chunk.                                                         *)

delete_chunk(t) == \E c \in Coords : Begin(t, "delete", c, None, "delete_exists")

delete_absent(t) ==
    /\ At(t, "delete_exists")
    /\ Absent(t)
    /\ Return(t, Done)
    /\ UNCHANGED fs

delete_present(t) ==
    /\ At(t, "delete_exists")
    /\ Present(t)
    /\ Goto(t, "unlink")
    /\ UNCHANGED <<fs, call, file, at, buffer, result>>

unlink(t) ==
    /\ At(t, "unlink")
    /\ bin[Coord(t)] # None
    /\ bin' = [bin EXCEPT ![Coord(t)] = None]
    /\ Return(t, Done)
    /\ UNCHANGED <<tmp, block>>

(* Another deleter has already unlinked the file.                        *)
unlink_missing(t) ==
    /\ At(t, "unlink")
    /\ bin[Coord(t)] = None
    /\ Return(t, Failed)
    /\ UNCHANGED fs

---------------------------------------------------------------------------
Init ==
    /\ tmp = [c \in Coords |-> None]
    /\ bin = [c \in Coords |-> None]
    /\ block = [i \in Inodes |-> NoBlocks]
    /\ pc = [t \in Threads |-> "free"]
    /\ call = [t \in Threads |-> NoCall]
    /\ file = [t \in Threads |-> None]
    /\ at = [t \in Threads |-> 0]
    /\ buffer = [t \in Threads |-> NoBlocks]
    /\ result = [t \in Threads |-> Done]

(* The process dies; the files stay as the system calls left them.       *)
Crash ==
    /\ MayCrash
    /\ pc' = [t \in Threads |-> "free"]
    /\ call' = [t \in Threads |-> NoCall]
    /\ file' = [t \in Threads |-> None]
    /\ at' = [t \in Threads |-> 0]
    /\ buffer' = [t \in Threads |-> NoBlocks]
    /\ result' = [t \in Threads |-> Done]
    /\ UNCHANGED fs

Step(t) ==
    \/ save_chunk(t) \/ create(t) \/ write(t) \/ rename(t)
    \/ load_chunk(t) \/ load_absent(t) \/ load_present(t)
    \/ open(t) \/ open_missing(t) \/ read(t) \/ decode(t)
    \/ delete_chunk(t) \/ delete_absent(t) \/ delete_present(t)
    \/ unlink(t) \/ unlink_missing(t)
    \/ Fail(t)

Next == (\E t \in Threads : Step(t)) \/ Crash

Spec == Init /\ [][Next]_vars

---------------------------------------------------------------------------
(* Properties.                                                           *)

(* "Write atomically: write to .tmp then rename": the file under a chunk's *)
(* name always decodes to a payload, whatever system call failed, whenever *)
(* the process died and whatever an earlier save left behind (save_chunk). *)
SavedFilesWhole ==
    \A c \in Coords : bin[c] # None => Decoded(block[bin[c]]) # None

(* The payload a load of c would return if nothing moved.                *)
Stored == [c \in Coords |-> IF bin[c] = None THEN None ELSE Decoded(block[bin[c]])]

(* The call a thread is in, as the store's client sees it: a load has    *)
(* chosen its answer once it has the file open.                          *)
Pending == [t \in Threads |->
    IF At(t, "free") THEN [op |-> "returned", result |-> result[t]]
    ELSE IF At(t, "read") THEN [op |-> "observed", coord |-> Coord(t),
                                value |-> Decoded(block[file[t]])]
    ELSE IF call[t].op = "save" THEN call[t]
    ELSE [op |-> call[t].op, coord |-> Coord(t)]]

Store == INSTANCE ChunkStore WITH store <- Stored, call <- Pending

(* The storage is an atomic store: a load that runs while the chunk is   *)
(* saved again or deleted returns one payload that was current during the *)
(* call, or fails; a failed save or a crash changes nothing (save_chunk, *)
(* load_chunk, delete_chunk).                                            *)
ImplementsChunkStore == Store!Spec

=============================================================================
