----------------------- MODULE DiskChunkStorage_proofs -----------------------
(***************************************************************************)
(* Theorems about DiskChunkStorage, for any number of threads, chunks,   *)
(* inodes and blocks, whatever fails and whenever the process dies, as   *)
(* long as one chunk is not saved by two threads at once: saved files are *)
(* whole, and the storage implements the atomic ChunkStore.              *)
(***************************************************************************)
EXTENDS DiskChunkStorage, TLAPS

Labels == {"free", "create", "write", "rename", "load_exists", "open", "read",
           "delete_exists", "unlink"}

StorageTypeOK ==
    /\ tmp \in [Coords -> Inodes \cup {None}]
    /\ bin \in [Coords -> Inodes \cup {None}]
    /\ block \in [Inodes -> [Extent -> Payloads \cup {None}]]
    /\ pc \in [Threads -> Labels]
    /\ call \in [Threads -> [op : {"load", "save", "delete"}, coord : Coords \cup {None},
                             value : Payloads \cup {None}]]
    /\ file \in [Threads -> Inodes \cup {None}]
    /\ at \in [Threads -> 0..Blocks]
    /\ \A t \in Threads : pc[t] # "free" => call[t].coord \in Coords

(* A temporary name shares its inode with no other name.                 *)
NamesApart ==
    \A c, d \in Coords : tmp[c] # None =>
        /\ tmp[c] # bin[d]
        /\ c # d => tmp[c] # tmp[d]

Saving(t) == pc[t] \in {"create", "write", "rename"}

(* A thread that saves is alone with its chunk, has open the file under  *)
(* the chunk's temporary name, and has filled it as far as it got.       *)
Filling(t) ==
    /\ call[t].op = "save" /\ call[t].value \in Payloads
    /\ \A u \in Threads : Saving(u) /\ call[u].coord = call[t].coord => u = t
    /\ pc[t] # "create" => file[t] \in Inodes /\ file[t] = tmp[call[t].coord]
    /\ pc[t] = "write" =>
         /\ at[t] < Blocks
         /\ \A k \in 1..at[t] : block[file[t]][k] = call[t].value
    /\ pc[t] = "rename" => \A k \in Extent : block[file[t]][k] = call[t].value

SaversInv == \A t \in Threads : Saving(t) => Filling(t)

Whole(i) == \E d \in Payloads : block[i] = [k \in Extent |-> d]

NamedWhole == \A c \in Coords : bin[c] # None => Whole(bin[c])

FilesInv == StorageTypeOK /\ NamesApart /\ SaversInv /\ NamedWhole

---------------------------------------------------------------------------
(* What is whole decodes.                                                *)
LEMMA WholeDecodes ==
    ASSUME NEW i, Whole(i)
    PROVE  Decoded(block[i]) # None
<1>1. 1 \in Extent
    BY FileSystemAssumption DEF Extent
<1>2. PICK d \in Payloads : block[i] = [k \in Extent |-> d]
    BY DEF Whole
<1>3. block[i][1] = d
    BY <1>1, <1>2
<1> QED  BY <1>2, <1>3, FileSystemAssumption DEF Decoded

LEMMA StorageInit == Init => FilesInv
<1> SUFFICES ASSUME Init PROVE FilesInv
    OBVIOUS
<1>1. StorageTypeOK
    BY FileSystemAssumption DEF Init, StorageTypeOK, NoCall, NoBlocks, Labels
<1>2. NamesApart /\ NamedWhole
    BY DEF Init, NamesApart, NamedWhole
<1>3. SaversInv
    BY DEF Init, SaversInv, Saving
<1> QED  BY <1>1, <1>2, <1>3 DEF FilesInv

(* A step that leaves the files and the threads that save as they are.   *)
LEMMA QuietKeeps ==
    ASSUME FilesInv, StorageTypeOK', UNCHANGED fs,
           \A t \in Threads : Saving(t)' =>
              /\ pc'[t] = pc[t] /\ call'[t] = call[t] /\ file'[t] = file[t] /\ at'[t] = at[t]
    PROVE  FilesInv'
<1>1. NamesApart' /\ NamedWhole'
    BY DEF FilesInv, NamesApart, NamedWhole, Whole, fs
<1>2. SaversInv'
    <2> SUFFICES ASSUME NEW t \in Threads, Saving(t)'
                 PROVE  Filling(t)'
        BY DEF SaversInv
    <2>1. Saving(t) /\ Filling(t)
        BY DEF FilesInv, SaversInv, Saving
    <2>2. \A u \in Threads : Saving(u)' => Saving(u)
        BY DEF Saving
    <2> QED  BY <2>1, <2>2 DEF Filling, fs
<1> QED  BY <1>1, <1>2 DEF FilesInv

---------------------------------------------------------------------------
(* save_chunk begins: no other thread saves the chunk.                   *)
LEMMA BeginKeeps ==
    ASSUME Exclusive, FilesInv, NEW t \in Threads, save_chunk(t)
    PROVE  FilesInv'
<1>1. PICK c \in Coords, d \in Payloads :
        ~ SavedByAnother(t, c) /\ Begin(t, "save", c, d, "create")
    BY DEF save_chunk
<1>2. /\ pc' = [pc EXCEPT ![t] = "create"]
      /\ call' = [call EXCEPT ![t] = [op |-> "save", coord |-> c, value |-> d]]
      /\ pc[t] = "free" /\ UNCHANGED <<fs, file, at>>
    BY <1>1 DEF Begin, Goto, At
<1>3. StorageTypeOK'
    BY <1>2 DEF FilesInv, StorageTypeOK, Labels, fs
<1>4. NamesApart' /\ NamedWhole'
    BY <1>2 DEF FilesInv, NamesApart, NamedWhole, Whole, fs
<1>5. ASSUME NEW u \in Threads, u # t, Saving(u)
      PROVE  call[u].coord # c
    BY <1>1, <1>5 DEF SavedByAnother, At, Coord, Saving, FilesInv, SaversInv, Filling
<1>6. /\ pc'[t] = "create" /\ call'[t] = [op |-> "save", coord |-> c, value |-> d]
      /\ \A u \in Threads : u # t => pc'[u] = pc[u] /\ call'[u] = call[u]
    BY <1>2 DEF FilesInv, StorageTypeOK
<1>7. ASSUME NEW u \in Threads, Saving(u)'
      PROVE  Filling(u)'
    <2>1. CASE u = t
        BY <1>5, <1>6, <2>1 DEF Filling, Saving
    <2>2. CASE u # t
        <3>1. Saving(u) /\ Filling(u) /\ call[u].coord # c
            BY <1>5, <1>6, <1>7, <2>2 DEF Saving, FilesInv, SaversInv
        <3> QED  BY <1>2, <1>6, <2>2, <3>1 DEF Filling, Saving, fs
    <2> QED  BY <2>1, <2>2
<1> QED  BY <1>3, <1>4, <1>7 DEF FilesInv, SaversInv

(* create: the inode is free, or bears the temporary name already.       *)
LEMMA CreateKeeps ==
    ASSUME FilesInv, NEW t \in Threads, create(t)
    PROVE  FilesInv'
<1> DEFINE c == call[t].coord
<1>1. PICK i \in IF tmp[c] = None THEN Fresh ELSE {tmp[c]} :
        /\ tmp' = [tmp EXCEPT ![c] = i]
        /\ block' = [block EXCEPT ![i] = NoBlocks]
        /\ file' = [file EXCEPT ![t] = i] /\ at' = [at EXCEPT ![t] = 0]
        /\ pc[t] = "create" /\ pc' = [pc EXCEPT ![t] = "write"]
        /\ UNCHANGED <<bin, call>>
    BY DEF create, Open, Goto, At, Coord
<1>2. c \in Coords /\ Saving(t) /\ Filling(t)
    BY <1>1 DEF FilesInv, StorageTypeOK, SaversInv, Saving
<1>3. /\ i \in Inodes
      /\ \A d \in Coords : i # bin[d] /\ (d # c => i # tmp[d])
    <2>1. CASE tmp[c] = None
        <3>1. i \in Free
            BY <1>1, <2>1 DEF Fresh
        <3> QED  BY <3>1, <1>2 DEF Free
    <2>2. CASE tmp[c] # None
        BY <1>1, <1>2, <2>2 DEF FilesInv, StorageTypeOK, NamesApart
    <2> QED  BY <2>1, <2>2
<1>4. i # None
    BY <1>3, FileSystemAssumption
<1>5. /\ tmp' = [d \in Coords |-> IF d = c THEN i ELSE tmp[d]]
      /\ \A j \in Inodes : j # i => block'[j] = block[j]
      /\ file'[t] = i /\ at'[t] = 0 /\ pc'[t] = "write"
      /\ \A u \in Threads : u # t => pc'[u] = pc[u] /\ file'[u] = file[u] /\ at'[u] = at[u]
    BY <1>1, <1>2 DEF FilesInv, StorageTypeOK
<1>6. StorageTypeOK'
    BY <1>1, <1>2, <1>3, FileSystemAssumption
       DEF FilesInv, StorageTypeOK, Labels, NoBlocks
<1>7. NamesApart'
    BY <1>1, <1>3, <1>5 DEF FilesInv, NamesApart
<1>8. NamedWhole'
    BY <1>1, <1>3, <1>5 DEF FilesInv, StorageTypeOK, NamedWhole, Whole
<1>9. ASSUME NEW u \in Threads, Saving(u)'
      PROVE  Filling(u)'
    <2>1. CASE u = t
        <3>1. \A v \in Threads : Saving(v)' => Saving(v)
            BY <1>2, <1>5 DEF Saving
        <3> QED  BY <1>1, <1>2, <1>3, <1>5, <2>1, <3>1, FileSystemAssumption DEF Filling
    <2>2. CASE u # t
        <3>1. Saving(u) /\ Filling(u) /\ call[u].coord # c /\ call[u].coord \in Coords
            BY <1>2, <1>5, <1>9, <2>2 DEF Saving, FilesInv, SaversInv, Filling, StorageTypeOK
        <3>2. pc[u] # "create" =>
                 file[u] \in Inodes /\ file[u] # i /\ tmp'[call[u].coord] = tmp[call[u].coord]
            BY <1>3, <1>5, <3>1 DEF Filling
        <3>3. \A v \in Threads : Saving(v)' => Saving(v)
            BY <1>2, <1>5 DEF Saving
        <3> QED  BY <1>1, <1>5, <2>2, <3>1, <3>2, <3>3 DEF Filling
    <2> QED  BY <2>1, <2>2
<1> QED  BY <1>6, <1>7, <1>8, <1>9 DEF FilesInv, SaversInv

(* write: only the file under the temporary name changes.                *)
LEMMA WriteKeeps ==
    ASSUME FilesInv, NEW t \in Threads, write(t)
    PROVE  FilesInv'
<1> DEFINE i == file[t]
           d == call[t].value
           next == IF at[t] + 1 = Blocks THEN "rename" ELSE "write"
<1>1. /\ block' = [block EXCEPT ![i] = [@ EXCEPT ![at[t] + 1] = d]]
      /\ at' = [at EXCEPT ![t] = @ + 1]
      /\ pc[t] = "write" /\ pc' = [pc EXCEPT ![t] = next]
      /\ UNCHANGED <<tmp, bin, call, file>>
    BY DEF write, Goto, At
<1>2. Saving(t) /\ Filling(t) /\ call[t].coord \in Coords
    BY <1>1 DEF FilesInv, StorageTypeOK, SaversInv, Saving
<1>3. /\ i \in Inodes /\ i = tmp[call[t].coord] /\ i # None
      /\ at[t] \in Nat /\ at[t] + 1 \in Extent /\ d \in Payloads
      /\ \A k \in 1..at[t] : block[i][k] = d
    BY <1>1, <1>2, FileSystemAssumption DEF Filling, FilesInv, StorageTypeOK, Extent
<1>4. /\ block'[i] = [k \in Extent |-> IF k = at[t] + 1 THEN d ELSE block[i][k]]
      /\ \A j \in Inodes : j # i => block'[j] = block[j]
      /\ at'[t] = at[t] + 1 /\ pc'[t] = next
      /\ \A u \in Threads : u # t => pc'[u] = pc[u] /\ at'[u] = at[u]
    BY <1>1, <1>3 DEF FilesInv, StorageTypeOK
<1>5. StorageTypeOK'
    <2>1. block' \in [Inodes -> [Extent -> Payloads \cup {None}]]
        BY <1>1, <1>3 DEF FilesInv, StorageTypeOK
    <2>2. at' \in [Threads -> 0..Blocks]
        BY <1>1, <1>3 DEF FilesInv, StorageTypeOK, Extent
    <2> QED  BY <1>1, <2>1, <2>2 DEF FilesInv, StorageTypeOK, Labels
<1>6. NamesApart'
    BY <1>1 DEF FilesInv, NamesApart
<1>7. NamedWhole'
    BY <1>1, <1>2, <1>3, <1>4 DEF FilesInv, StorageTypeOK, NamesApart, NamedWhole, Whole
<1>8. \A u \in Threads : Saving(u)' => Saving(u)
    BY <1>2, <1>4 DEF Saving
<1>9. ASSUME NEW u \in Threads, Saving(u)'
      PROVE  Filling(u)'
    <2>1. CASE u = t
        <3>1. \A k \in 1..at'[t] : block'[i][k] = d
            <4> SUFFICES ASSUME NEW k \in 1..at'[t] PROVE block'[i][k] = d
                OBVIOUS
            <4> HIDE DEF i, d
            <4>1. k \in Extent /\ (k = at[t] + 1 \/ k \in 1..at[t])
                BY <1>3, <1>4, FileSystemAssumption DEF Extent
            <4> QED  BY <1>3, <1>4, <4>1
        <3>2. at'[t] < Blocks \/ (pc'[t] = "rename" /\ at'[t] = Blocks)
            BY <1>3, <1>4, FileSystemAssumption DEF Extent
        <3>3. pc'[t] = "rename" => \A k \in Extent : block'[i][k] = d
            BY <1>3, <1>4, <3>1, FileSystemAssumption DEF Extent
        <3>4. pc'[t] = "write" => at'[t] < Blocks
            BY <1>4, <3>2
        <3> QED  BY <1>1, <1>2, <1>3, <1>8, <2>1, <3>1, <3>3, <3>4 DEF Filling
    <2>2. CASE u # t
        <3>1. Saving(u) /\ Filling(u) /\ call[u].coord # call[t].coord /\ call[u].coord \in Coords
            BY <1>2, <1>8, <1>9, <2>2 DEF Saving, FilesInv, SaversInv, Filling, StorageTypeOK
        <3>2. pc[u] # "create" => file[u] \in Inodes /\ file[u] # i
            BY <1>2, <1>3, <3>1 DEF Filling, FilesInv, NamesApart
        <3> QED  BY <1>1, <1>4, <1>8, <2>2, <3>1, <3>2 DEF Filling
    <2> QED  BY <2>1, <2>2
<1> QED  BY <1>5, <1>6, <1>7, <1>9 DEF FilesInv, SaversInv

(* rename: the file that gets the final name is full.                    *)
LEMMA RenameKeeps ==
    ASSUME FilesInv, NEW t \in Threads, rename(t)
    PROVE  FilesInv'
<1> DEFINE c == call[t].coord
<1>1. /\ pc[t] = "rename" /\ UNCHANGED block
      /\ \/ UNCHANGED <<tmp, bin>>
         \/ /\ tmp[c] # None
            /\ bin' = [bin EXCEPT ![c] = tmp[c]] /\ tmp' = [tmp EXCEPT ![c] = None]
      /\ pc' = [pc EXCEPT ![t] = "free"] /\ call' = [call EXCEPT ![t] = NoCall]
      /\ file' = [file EXCEPT ![t] = None] /\ at' = [at EXCEPT ![t] = 0]
    BY DEF rename, Return, Open, Goto, At, Coord
<1>2. c \in Coords /\ Saving(t) /\ Filling(t)
    BY <1>1 DEF FilesInv, StorageTypeOK, SaversInv, Saving
<1>3. StorageTypeOK'
    <2>1. tmp' \in [Coords -> Inodes \cup {None}] /\ bin' \in [Coords -> Inodes \cup {None}]
        <3>1. tmp[c] \in Inodes \cup {None}
            BY <1>2 DEF FilesInv, StorageTypeOK
        <3> QED  BY <1>1, <1>2, <3>1 DEF FilesInv, StorageTypeOK
    <2>2. /\ pc' \in [Threads -> Labels] /\ file' \in [Threads -> Inodes \cup {None}]
          /\ at' \in [Threads -> 0..Blocks]
        BY <1>1, FileSystemAssumption DEF FilesInv, StorageTypeOK, Labels
    <2>3. /\ call' \in [Threads -> [op : {"load", "save", "delete"}, coord : Coords \cup {None},
                                    value : Payloads \cup {None}]]
          /\ \A u \in Threads : pc'[u] # "free" => call'[u].coord \in Coords
        BY <1>1 DEF FilesInv, StorageTypeOK, NoCall
    <2> QED  BY <1>1, <2>1, <2>2, <2>3 DEF FilesInv, StorageTypeOK
<1>4. Whole(tmp[c])
    <2>1. /\ tmp[c] \in Inodes /\ call[t].value \in Payloads
          /\ \A k \in Extent : block[tmp[c]][k] = call[t].value
        BY <1>1, <1>2 DEF Filling
    <2>2. block[tmp[c]] = [k \in Extent |-> call[t].value]
        BY <2>1 DEF FilesInv, StorageTypeOK
    <2> QED  BY <2>1, <2>2 DEF Whole
<1>5. \A d \in Coords : d # c => tmp'[d] = tmp[d] /\ bin'[d] = bin[d]
    BY <1>1, <1>2 DEF FilesInv, StorageTypeOK
<1>6. NamesApart'
    BY <1>1, <1>2, <1>5 DEF FilesInv, StorageTypeOK, NamesApart
<1>7. NamedWhole'
    <2> SUFFICES ASSUME NEW d \in Coords, bin'[d] # None
                 PROVE  \E p \in Payloads : block'[bin'[d]] = [k \in Extent |-> p]
        BY DEF NamedWhole, Whole
    <2>1. \A i, j : Whole(i) /\ j = i => \E p \in Payloads : block'[j] = [k \in Extent |-> p]
        BY <1>1 DEF Whole
    <2>2. bin'[d] = bin[d] \/ (d = c /\ bin'[d] = tmp[c])
        BY <1>1, <1>2 DEF FilesInv, StorageTypeOK
    <2>3. bin'[d] = bin[d] => Whole(bin[d])
        BY DEF FilesInv, NamedWhole
    <2> QED  BY <1>4, <2>1, <2>2, <2>3
<1>8. ASSUME NEW u \in Threads, Saving(u)'
      PROVE  Filling(u)'
    <2>1. u # t /\ \A v \in Threads : v # t =>
             pc'[v] = pc[v] /\ call'[v] = call[v] /\ file'[v] = file[v] /\ at'[v] = at[v]
        BY <1>1, <1>8 DEF FilesInv, StorageTypeOK, Saving
    <2>2. Saving(u) /\ Filling(u) /\ call[u].coord # c /\ call[u].coord \in Coords
        BY <1>2, <1>8, <2>1 DEF Saving, FilesInv, SaversInv, Filling, StorageTypeOK
    <2>3. \A v \in Threads : Saving(v)' => Saving(v) /\ call'[v] = call[v]
        BY <1>1, <2>1 DEF FilesInv, StorageTypeOK, Saving
    <2> QED  BY <1>1, <1>5, <2>1, <2>2, <2>3 DEF Filling
<1> QED  BY <1>3, <1>6, <1>7, <1>8 DEF FilesInv, SaversInv

(* Steps that change no file: those of a load, a failed delete, a failed *)
(* call and the death of the process.  A delete takes a final name away. *)
LEMMA ReturnKeeps ==
    ASSUME FilesInv, NEW t \in Threads, NEW r, Return(t, r), UNCHANGED fs
    PROVE  FilesInv'
<1>1. /\ pc' = [pc EXCEPT ![t] = "free"] /\ call' = [call EXCEPT ![t] = NoCall]
      /\ file' = [file EXCEPT ![t] = None] /\ at' = [at EXCEPT ![t] = 0]
    BY DEF Return, Open, Goto
<1>2. StorageTypeOK'
    BY <1>1, FileSystemAssumption DEF FilesInv, StorageTypeOK, Labels, NoCall, fs
<1>3. \A u \in Threads : Saving(u)' =>
         pc'[u] = pc[u] /\ call'[u] = call[u] /\ file'[u] = file[u] /\ at'[u] = at[u]
    BY <1>1 DEF FilesInv, StorageTypeOK, Saving
<1> QED  BY <1>2, <1>3, QuietKeeps

LEMMA CrashKeeps ==
    ASSUME FilesInv, Crash
    PROVE  FilesInv'
<1>1. StorageTypeOK'
    BY FileSystemAssumption DEF Crash, FilesInv, StorageTypeOK, Labels, NoCall, fs
<1>2. \A u \in Threads : ~ Saving(u)'
    BY DEF Crash, Saving
<1> QED  BY <1>1, <1>2, QuietKeeps DEF Crash

LEMMA UnlinkKeeps ==
    ASSUME FilesInv, NEW t \in Threads, unlink(t)
    PROVE  FilesInv'
<1> DEFINE c == call[t].coord
<1>1. /\ pc[t] = "unlink" /\ UNCHANGED <<tmp, block>>
      /\ bin' = [bin EXCEPT ![c] = None]
      /\ pc' = [pc EXCEPT ![t] = "free"] /\ call' = [call EXCEPT ![t] = NoCall]
      /\ file' = [file EXCEPT ![t] = None] /\ at' = [at EXCEPT ![t] = 0]
    BY DEF unlink, Return, Open, Goto, At, Coord
<1>2. c \in Coords
    BY <1>1 DEF FilesInv, StorageTypeOK
<1>3. StorageTypeOK'
    BY <1>1, <1>2, FileSystemAssumption DEF FilesInv, StorageTypeOK, Labels, NoCall
<1>4. NamesApart' /\ NamedWhole'
    BY <1>1, <1>2 DEF FilesInv, StorageTypeOK, NamesApart, NamedWhole, Whole
<1>5. ASSUME NEW u \in Threads, Saving(u)'
      PROVE  Filling(u)'
    <2>1. \A v \in Threads : Saving(v)' => Saving(v) /\
             pc'[v] = pc[v] /\ call'[v] = call[v] /\ file'[v] = file[v] /\ at'[v] = at[v]
        BY <1>1 DEF FilesInv, StorageTypeOK, Saving
    <2>2. Filling(u)
        BY <1>5, <2>1 DEF FilesInv, SaversInv
    <2> QED  BY <1>1, <1>5, <2>1, <2>2 DEF Filling
<1> QED  BY <1>3, <1>4, <1>5 DEF FilesInv, SaversInv

(* Steps in which a thread that does not save moves on.                  *)
LEMMA MoveKeeps ==
    ASSUME FilesInv, NEW t \in Threads, UNCHANGED fs, StorageTypeOK',
           NEW label \in Labels \ {"create", "write", "rename"}, pc' = [pc EXCEPT ![t] = label],
           \A u \in Threads : u # t =>
              call'[u] = call[u] /\ file'[u] = file[u] /\ at'[u] = at[u]
    PROVE  FilesInv'
<1>1. \A u \in Threads : Saving(u)' => u # t /\ pc'[u] = pc[u]
    BY DEF FilesInv, StorageTypeOK, Saving
<1> QED  BY <1>1, QuietKeeps

LEMMA StorageStep ==
    ASSUME Exclusive, FilesInv, [Next]_vars
    PROVE  FilesInv'
<1>1. ASSUME NEW t \in Threads, NEW op \in {"load", "delete"}, NEW c \in Coords,
             NEW label \in {"load_exists", "delete_exists"}, Begin(t, op, c, None, label)
      PROVE  FilesInv'
    <2>1. /\ pc' = [pc EXCEPT ![t] = label] /\ UNCHANGED <<fs, file, at>>
          /\ call' = [call EXCEPT ![t] = [op |-> op, coord |-> c, value |-> None]]
        BY <1>1 DEF Begin, Goto
    <2>2. StorageTypeOK'
        BY <2>1 DEF FilesInv, StorageTypeOK, Labels, fs
    <2>3. \A u \in Threads : u # t => call'[u] = call[u] /\ file'[u] = file[u] /\ at'[u] = at[u]
        BY <2>1 DEF FilesInv, StorageTypeOK
    <2> QED  BY <2>1, <2>2, <2>3, MoveKeeps DEF Labels
<1>2. ASSUME NEW t \in Threads, load_present(t) \/ delete_present(t)
      PROVE  FilesInv'
    <2>1. PICK label \in {"open", "unlink"} :
            /\ pc' = [pc EXCEPT ![t] = label] /\ UNCHANGED <<fs, call, file, at>>
            /\ pc[t] # "free"
        BY <1>2 DEF load_present, delete_present, Goto, At
    <2>2. StorageTypeOK'
        BY <2>1 DEF FilesInv, StorageTypeOK, Labels, fs
    <2> QED  BY <2>1, <2>2, MoveKeeps DEF Labels
<1>3. ASSUME NEW t \in Threads, open(t)
      PROVE  FilesInv'
    <2>1. /\ pc[t] = "open" /\ pc' = [pc EXCEPT ![t] = "read"] /\ UNCHANGED <<fs, call>>
          /\ file' = [file EXCEPT ![t] = bin[call[t].coord]] /\ at' = [at EXCEPT ![t] = 0]
        BY <1>3 DEF open, Open, Goto, At, Coord
    <2>2. StorageTypeOK'
        <3>1. call[t].coord \in Coords
            BY <2>1 DEF FilesInv, StorageTypeOK
        <3> QED  BY <2>1, <3>1, FileSystemAssumption DEF FilesInv, StorageTypeOK, Labels, fs
    <2>3. \A u \in Threads : u # t => call'[u] = call[u] /\ file'[u] = file[u] /\ at'[u] = at[u]
        BY <2>1 DEF FilesInv, StorageTypeOK
    <2> QED  BY <2>1, <2>2, <2>3, MoveKeeps DEF Labels
<1>4. ASSUME NEW t \in Threads, read(t)
      PROVE  FilesInv'
    <2>1. /\ pc[t] = "read" /\ at[t] < Blocks /\ at' = [at EXCEPT ![t] = @ + 1]
          /\ UNCHANGED <<fs, pc, call, file>>
        BY <1>4 DEF read, At
    <2>2. StorageTypeOK'
        BY <2>1, FileSystemAssumption DEF FilesInv, StorageTypeOK, fs
    <2>3. \A u \in Threads : Saving(u)' => u # t /\ at'[u] = at[u]
        BY <2>1 DEF FilesInv, StorageTypeOK, Saving
    <2> QED  BY <2>1, <2>2, <2>3, QuietKeeps
<1>5. ASSUME NEW t \in Threads,
             load_absent(t) \/ open_missing(t) \/ decode(t) \/ delete_absent(t)
               \/ unlink_missing(t) \/ Fail(t)
      PROVE  FilesInv'
    BY <1>5, ReturnKeeps
       DEF load_absent, open_missing, decode, delete_absent, unlink_missing, Fail
<1>6. ASSUME NEW t \in Threads, load_chunk(t) \/ delete_chunk(t)
      PROVE  FilesInv'
    BY <1>1, <1>6 DEF load_chunk, delete_chunk
<1>7. CASE UNCHANGED vars
    <2>1. StorageTypeOK'
        BY <1>7 DEF FilesInv, StorageTypeOK, vars, fs, thread
    <2> QED  BY <1>7, <2>1, QuietKeeps DEF vars, thread
<1> QED
    BY <1>2, <1>3, <1>4, <1>5, <1>6, <1>7,
       BeginKeeps, CreateKeeps, WriteKeeps, RenameKeeps, UnlinkKeeps, CrashKeeps
    DEF Next, Step

(* A chunk's file always decodes to a payload, for any number of threads, *)
(* chunks and blocks, whichever system call fails and whenever the process *)
(* dies, if no two threads save one chunk at once (save_chunk).          *)
THEOREM FilesWhole ==
    ASSUME Exclusive
    PROVE  Spec => []SavedFilesWhole
<1>1. FilesInv /\ [Next]_vars => FilesInv'
    BY StorageStep
<1>2. FilesInv => SavedFilesWhole
    BY WholeDecodes DEF FilesInv, NamedWhole, SavedFilesWhole
<1> QED  BY <1>1, <1>2, StorageInit, PTL DEF Spec

---------------------------------------------------------------------------
(* Refinement of ChunkStore.                                             *)

Answers == {Done, Failed} \cup {Loaded(d) : d \in Payloads \cup {None}}

(* Which call a thread is in follows from the system call it is about to *)
(* make.                                                                 *)
CallsInv ==
    /\ buffer \in [Threads -> [Extent -> Payloads \cup {None}]]
    /\ result \in [Threads -> Answers]
    /\ \A t \in Threads :
         /\ call[t].op = "save" <=> Saving(t)
         /\ pc[t] \in {"load_exists", "open", "read"} => call[t].op = "load"
         /\ pc[t] \in {"delete_exists", "unlink"} => call[t].op = "delete"

(* A reader's file is whole, no saver writes to it, and what was read of *)
(* it is still in it.                                                    *)
Following(t) ==
    /\ file[t] \in Inodes /\ Whole(file[t])
    /\ \A c \in Coords : file[t] # tmp[c]
    /\ \A k \in 1..at[t] : buffer[t][k] = block[file[t]][k]

ReadersInv == \A t \in Threads : pc[t] = "read" => Following(t)

StorageInv == FilesInv /\ CallsInv /\ ReadersInv

(* Readers that stay where they are, while no file of theirs is written to *)
(* or given a temporary name.                                            *)
LEMMA ReaderStays ==
    ASSUME NEW t \in Threads, Following(t),
           file'[t] = file[t], at'[t] = at[t], buffer'[t] = buffer[t],
           block'[file[t]] = block[file[t]],
           \A c \in Coords : tmp'[c] # file[t]
    PROVE  Following(t)'
BY DEF Following, Whole

(* Steps of the three kinds: a call begins, goes on or returns.          *)
LEMMA CallsBegin ==
    ASSUME FilesInv, CallsInv, NEW t \in Threads, NEW c \in Coords, NEW d, NEW label, NEW op,
           Begin(t, op, c, d, label),
           <<op, label>> \in {<<"save", "create">>, <<"load", "load_exists">>,
                             <<"delete", "delete_exists">>}
    PROVE  CallsInv'
<1>1. /\ pc' = [pc EXCEPT ![t] = label]
      /\ call' = [call EXCEPT ![t] = [op |-> op, coord |-> c, value |-> d]]
      /\ UNCHANGED <<buffer, result>>
    BY DEF Begin, Goto
<1>2. pc'[t] = label /\ call'[t].op = op
    BY <1>1 DEF FilesInv, StorageTypeOK
<1>3. \A u \in Threads : u # t => pc'[u] = pc[u] /\ call'[u] = call[u]
    BY <1>1 DEF FilesInv, StorageTypeOK
<1> QED  BY <1>1, <1>2, <1>3 DEF CallsInv, Saving

LEMMA CallsMove ==
    ASSUME FilesInv, CallsInv, NEW t \in Threads, NEW label, NEW kind,
           kind \in {{"create", "write", "rename"}, {"load_exists", "open", "read"},
                     {"delete_exists", "unlink"}},
           pc[t] \in kind, label \in kind,
           pc' = [pc EXCEPT ![t] = label], UNCHANGED <<call, result>>,
           buffer' \in [Threads -> [Extent -> Payloads \cup {None}]]
    PROVE  CallsInv'
<1>1. pc'[t] = label /\ \A u \in Threads : u # t => pc'[u] = pc[u]
    BY DEF FilesInv, StorageTypeOK
<1>2. ASSUME NEW u \in Threads
      PROVE  /\ call'[u].op = "save" <=> Saving(u)'
             /\ pc'[u] \in {"load_exists", "open", "read"} => call'[u].op = "load"
             /\ pc'[u] \in {"delete_exists", "unlink"} => call'[u].op = "delete"
    <2>1. CASE u # t
        BY <1>1, <2>1 DEF CallsInv, Saving
    <2>2. CASE u = t
        BY <1>1, <2>2 DEF CallsInv, Saving
    <2> QED  BY <2>1, <2>2
<1> QED  BY <1>2 DEF CallsInv

LEMMA CallsReturn ==
    ASSUME FilesInv, CallsInv, NEW t \in Threads, NEW r \in Answers, Return(t, r)
    PROVE  CallsInv'
<1>1. /\ pc' = [pc EXCEPT ![t] = "free"] /\ call' = [call EXCEPT ![t] = NoCall]
      /\ result' = [result EXCEPT ![t] = r] /\ buffer' = [buffer EXCEPT ![t] = NoBlocks]
    BY DEF Return, Open, Goto
<1>2. /\ pc'[t] = "free" /\ call'[t].op = "load"
      /\ \A u \in Threads : u # t => pc'[u] = pc[u] /\ call'[u] = call[u]
    BY <1>1 DEF FilesInv, StorageTypeOK, NoCall
<1> QED  BY <1>1, <1>2 DEF CallsInv, Saving, NoBlocks

LEMMA CallsCrash ==
    ASSUME Crash
    PROVE  CallsInv'
BY DEF Crash, CallsInv, Saving, NoCall, NoBlocks, Answers

(* What decodes is a payload.                                            *)
LEMMA DecodedIsPayload ==
    ASSUME NEW blocks
    PROVE  Decoded(blocks) \in Payloads \cup {None}
<1>1. CASE \E d \in Payloads : blocks = [k \in Extent |-> d]
    <2>1. PICK d \in Payloads : blocks = [k \in Extent |-> d]
        BY <1>1
    <2>2. blocks[1] = d
        BY <2>1, FileSystemAssumption DEF Extent
    <2> QED  BY <1>1, <2>2 DEF Decoded
<1>2. CASE ~ \E d \in Payloads : blocks = [k \in Extent |-> d]
    BY <1>2 DEF Decoded
<1> QED  BY <1>1, <1>2

LEMMA CallsStep ==
    ASSUME FilesInv, CallsInv, ReadersInv, [Next]_vars
    PROVE  CallsInv'
<1>1. ASSUME NEW t \in Threads, save_chunk(t) \/ load_chunk(t) \/ delete_chunk(t)
      PROVE  CallsInv'
    BY <1>1, CallsBegin DEF save_chunk, load_chunk, delete_chunk
<1>2. ASSUME NEW t \in Threads, create(t) \/ write(t)
      PROVE  CallsInv'
    <2>1. PICK label \in {"write", "rename"} :
            /\ pc' = [pc EXCEPT ![t] = label] /\ pc[t] \in {"create", "write"}
            /\ UNCHANGED <<call, result>>
            /\ buffer' = buffer \/ buffer' = [buffer EXCEPT ![t] = NoBlocks]
        BY <1>2 DEF create, write, Open, Goto, At
    <2>2. buffer' \in [Threads -> [Extent -> Payloads \cup {None}]]
        BY <2>1 DEF CallsInv, NoBlocks
    <2> QED  BY <2>1, <2>2, CallsMove
<1>3. ASSUME NEW t \in Threads, load_present(t) \/ open(t)
      PROVE  CallsInv'
    <2>1. PICK label \in {"open", "read"} :
            /\ pc' = [pc EXCEPT ![t] = label] /\ pc[t] \in {"load_exists", "open"}
            /\ UNCHANGED <<call, result>>
            /\ buffer' = buffer \/ buffer' = [buffer EXCEPT ![t] = NoBlocks]
        BY <1>3 DEF load_present, open, Open, Goto, At
    <2>2. buffer' \in [Threads -> [Extent -> Payloads \cup {None}]]
        BY <2>1 DEF CallsInv, NoBlocks
    <2> QED  BY <2>1, <2>2, CallsMove
<1>4. ASSUME NEW t \in Threads, delete_present(t)
      PROVE  CallsInv'
    BY <1>4, CallsMove DEF delete_present, Goto, At, CallsInv
<1>5. ASSUME NEW t \in Threads, read(t)
      PROVE  CallsInv'
    <2>1. /\ UNCHANGED <<pc, call, result>> /\ pc[t] = "read" /\ at[t] < Blocks
          /\ buffer' = [buffer EXCEPT ![t] =
                [@ EXCEPT ![at[t] + 1] = block[file[t]][at[t] + 1]]]
        BY <1>5 DEF read, At
    <2>2. file[t] \in Inodes /\ at[t] + 1 \in Extent
        BY <2>1, FileSystemAssumption DEF FilesInv, StorageTypeOK, ReadersInv, Following, Extent
    <2>3. buffer' \in [Threads -> [Extent -> Payloads \cup {None}]]
        BY <2>1, <2>2 DEF FilesInv, StorageTypeOK, CallsInv
    <2> QED  BY <2>1, <2>3 DEF CallsInv, Saving
<1>6. ASSUME NEW t \in Threads, decode(t)
      PROVE  CallsInv'
    <2> DEFINE d == Decoded(buffer[t])
    <2>1. d \in Payloads \cup {None}
        BY DecodedIsPayload
    <2> HIDE DEF d
    <2>2. (IF d = None THEN Failed ELSE Loaded(d)) \in Answers
        BY <2>1 DEF Answers
    <2>3. Return(t, IF d = None THEN Failed ELSE Loaded(d))
        BY <1>6 DEF decode, d
    <2> QED  BY <2>2, <2>3, CallsReturn
<1>7. ASSUME NEW t \in Threads,
             rename(t) \/ load_absent(t) \/ open_missing(t) \/ delete_absent(t)
               \/ unlink(t) \/ unlink_missing(t) \/ Fail(t)
      PROVE  CallsInv'
    <2>1. {Done, Failed, Loaded(None)} \subseteq Answers
        BY DEF Answers
    <2>2. Return(t, Done) \/ Return(t, Failed) \/ Return(t, Loaded(None))
        BY <1>7 DEF rename, load_absent, open_missing, delete_absent, unlink, unlink_missing, Fail
    <2> QED  BY <2>1, <2>2, CallsReturn
<1>8. CASE UNCHANGED vars
    BY <1>8 DEF vars, thread, CallsInv, Saving
<1> QED
    BY <1>1, <1>2, <1>3, <1>4, <1>5, <1>6, <1>7, <1>8, CallsCrash DEF Next, Step

(* A reader other than the thread that moves, whatever the step.         *)
LEMMA OthersFollow ==
    ASSUME FilesInv, CallsInv, ReadersInv, NEW t \in Threads, Step(t),
           NEW u \in Threads, u # t, pc[u] = "read"
    PROVE  /\ Following(u)'
           /\ block'[file'[u]] = block[file[u]]
<1>1. Following(u)
    BY DEF ReadersInv
<1>2. file'[u] = file[u] /\ at'[u] = at[u] /\ buffer'[u] = buffer[u]
    BY DEF Step, save_chunk, create, write, rename, load_chunk, load_absent, load_present,
           open, open_missing, read, decode, delete_chunk, delete_absent, delete_present,
           unlink, unlink_missing, Fail, Begin, Return, Open, fs,
           FilesInv, StorageTypeOK, CallsInv
<1>3. CASE create(t)
    <2> DEFINE c == call[t].coord
    <2>1. PICK i \in IF tmp[c] = None THEN Fresh ELSE {tmp[c]} :
            tmp' = [tmp EXCEPT ![c] = i] /\ block' = [block EXCEPT ![i] = NoBlocks]
        BY <1>3 DEF create, Coord
    <2>2. c \in Coords
        BY <1>3 DEF create, At, FilesInv, StorageTypeOK
    <2>3. i # file[u]
        <3>1. CASE tmp[c] = None
            <4>1. i \in Free
                BY <2>1, <3>1 DEF Fresh
            <4> QED  BY <2>2, <4>1 DEF Free
        <3>2. CASE tmp[c] # None
            BY <1>1, <2>1, <2>2, <3>2 DEF Following
        <3> QED  BY <3>1, <3>2
    <2>4. block'[file[u]] = block[file[u]] /\ \A d \in Coords : tmp'[d] # file[u]
        BY <1>1, <2>1, <2>2, <2>3 DEF Following, FilesInv, StorageTypeOK
    <2> QED  BY <1>1, <1>2, <2>4, ReaderStays
<1>4. CASE write(t)
    <2>1. file[t] # file[u]
        <3>1. pc[t] = "write" /\ call[t].coord \in Coords
            BY <1>4 DEF write, At, FilesInv, StorageTypeOK
        <3>2. file[t] = tmp[call[t].coord]
            BY <3>1 DEF FilesInv, SaversInv, Saving, Filling
        <3> QED  BY <1>1, <3>1, <3>2 DEF Following
    <2>2. block'[file[u]] = block[file[u]] /\ UNCHANGED tmp
        BY <1>1, <1>4, <2>1 DEF write, Following, FilesInv, StorageTypeOK
    <2> QED  BY <1>1, <1>2, <2>2, ReaderStays DEF Following
<1>5. CASE rename(t)
    <2>1. UNCHANGED block /\ (UNCHANGED tmp \/ tmp' = [tmp EXCEPT ![Coord(t)] = None])
        BY <1>5 DEF rename
    <2>2. \A d \in Coords : tmp'[d] # file[u]
        BY <1>1, <2>1, FileSystemAssumption DEF Following, FilesInv, StorageTypeOK
    <2> QED  BY <1>1, <1>2, <2>1, <2>2, ReaderStays
<1>6. CASE ~ (create(t) \/ write(t) \/ rename(t))
    <2>1. UNCHANGED <<tmp, block>>
        BY <1>6 DEF Step, save_chunk, load_chunk, load_absent, load_present, open, open_missing,
            read, decode, delete_chunk, delete_absent, delete_present, unlink, unlink_missing,
            Fail, Begin, fs
    <2> QED  BY <1>1, <1>2, <2>1, ReaderStays DEF Following
<1> QED  BY <1>3, <1>4, <1>5, <1>6

LEMMA ReadersStep ==
    ASSUME FilesInv, CallsInv, ReadersInv, [Next]_vars
    PROVE  ReadersInv'
<1>1. ASSUME NEW t \in Threads, Step(t), NEW u \in Threads, pc'[u] = "read"
      PROVE  Following(u)'
    <2>1. CASE u # t
        <3>1. pc[u] = "read"
            BY <1>1, <2>1
               DEF Step, save_chunk, create, write, rename, load_chunk, load_absent,
                   load_present, open, open_missing, read, decode, delete_chunk, delete_absent,
                   delete_present, unlink, unlink_missing, Fail, Begin, Return, Goto,
                   FilesInv, StorageTypeOK
        <3> QED  BY <1>1, <2>1, <3>1, OthersFollow
    <2>2. CASE u = t /\ open(t)
        <3>1. /\ pc[t] = "open" /\ bin[call[t].coord] # None /\ UNCHANGED fs
              /\ file' = [file EXCEPT ![t] = bin[call[t].coord]] /\ at' = [at EXCEPT ![t] = 0]
            BY <2>2 DEF open, Open, At, Coord
        <3>2. call[t].coord \in Coords
            BY <3>1 DEF FilesInv, StorageTypeOK
        <3>3. file'[t] = bin[call[t].coord] /\ at'[t] = 0 /\ file'[t] \in Inodes
            BY <3>1, <3>2 DEF FilesInv, StorageTypeOK
        <3>4. \A c \in Coords : file'[t] # tmp[c]
            BY <3>1, <3>2, <3>3 DEF FilesInv, NamesApart
        <3>5. Whole(file'[t])
            BY <3>1, <3>2, <3>3 DEF FilesInv, NamedWhole
        <3>6. \E d \in Payloads : block'[file'[t]] = [k \in Extent |-> d]
            BY <3>1, <3>5 DEF fs, Whole
        <3>7. (\A c \in Coords : file'[t] # tmp'[c]) /\ (1..at'[t] = {})
            BY <3>1, <3>3, <3>4 DEF fs
        <3> QED  BY <2>2, <3>3, <3>6, <3>7 DEF Following, Whole
    <2>3. CASE u = t /\ read(t)
        <3>1. /\ pc[t] = "read" /\ at[t] < Blocks /\ at' = [at EXCEPT ![t] = @ + 1]
              /\ buffer' = [buffer EXCEPT ![t] =
                    [@ EXCEPT ![at[t] + 1] = block[file[t]][at[t] + 1]]]
              /\ UNCHANGED <<fs, file>>
            BY <2>3 DEF read, At
        <3>2. Following(t) /\ at[t] \in Nat /\ at[t] + 1 \in Extent
            BY <3>1, FileSystemAssumption DEF ReadersInv, FilesInv, StorageTypeOK, Extent
        <3>3. /\ at'[t] = at[t] + 1
              /\ \A k \in Extent : buffer'[t][k] =
                    IF k = at[t] + 1 THEN block[file[t]][k] ELSE buffer[t][k]
            BY <3>1, <3>2 DEF CallsInv, FilesInv, StorageTypeOK
        <3>4. \A k \in 1..at'[t] : k \in Extent /\ (k = at[t] + 1 \/ k \in 1..at[t])
            BY <3>2, <3>3, FileSystemAssumption DEF Extent
        <3>5. \A k \in 1..at'[t] : buffer'[t][k] = block[file[t]][k]
            BY <3>2, <3>3, <3>4 DEF Following
        <3> QED  BY <2>3, <3>1, <3>2, <3>5 DEF Following, Whole, fs
    <2>4. CASE u = t /\ ~ open(t) /\ ~ read(t)
        <3>1. pc'[t] # "read"
            BY <1>1, <2>4
               DEF Step, save_chunk, create, write, rename, load_chunk, load_absent,
                   load_present, open_missing, decode, delete_chunk, delete_absent,
                   delete_present, unlink, unlink_missing, Fail, Begin, Return, Goto,
                   FilesInv, StorageTypeOK
        <3> QED  BY <1>1, <2>4, <3>1
    <2> QED  BY <2>1, <2>2, <2>3, <2>4
<1>2. CASE Crash
    BY <1>2 DEF Crash, ReadersInv
<1>3. CASE UNCHANGED vars
    BY <1>3 DEF vars, thread, fs, ReadersInv, Following, Whole
<1> QED  BY <1>1, <1>2, <1>3 DEF Next, ReadersInv

LEMMA StorageAlways ==
    ASSUME Exclusive
    PROVE  Spec => []StorageInv
<1>1. Init => StorageInv
    BY StorageInit, FileSystemAssumption
       DEF Init, StorageInv, CallsInv, ReadersInv, Saving, NoCall, NoBlocks, Answers
<1>2. StorageInv /\ [Next]_vars => StorageInv'
    BY StorageStep, CallsStep, ReadersStep DEF StorageInv
<1> QED  BY <1>1, <1>2, PTL DEF Spec

---------------------------------------------------------------------------
(* What the client sees of each thread, by the system call it is at.     *)
LEMMA PendingIs ==
    ASSUME NEW t \in Threads
    PROVE  /\ pc[t] = "free" => Pending[t] = [op |-> "returned", result |-> result[t]]
           /\ pc[t] = "read" =>
                Pending[t] = [op |-> "observed", coord |-> call[t].coord,
                              value |-> Decoded(block[file[t]])]
           /\ pc[t] \notin {"free", "read"} /\ call[t].op = "save" => Pending[t] = call[t]
           /\ pc[t] \notin {"free", "read"} /\ call[t].op # "save" =>
                Pending[t] = [op |-> call[t].op, coord |-> call[t].coord]
BY DEF Pending, Coord, At

(* Only t's entry changes when the other threads stay where they are.    *)
LEMMA OneMoves ==
    ASSUME FilesInv, CallsInv, ReadersInv, NEW t \in Threads, Step(t), NEW x, Pending'[t] = x
    PROVE  Pending' = [Pending EXCEPT ![t] = x]
<1>1. ASSUME NEW u \in Threads, u # t
      PROVE  Pending'[u] = Pending[u]
    <2>1. pc'[u] = pc[u] /\ call'[u] = call[u] /\ result'[u] = result[u]
        BY <1>1
           DEF Step, save_chunk, create, write, rename, load_chunk, load_absent,
               load_present, open, open_missing, read, decode, delete_chunk, delete_absent,
               delete_present, unlink, unlink_missing, Fail, Begin, Return, Goto,
               FilesInv, StorageTypeOK, CallsInv
    <2>2. pc[u] = "read" => block'[file'[u]] = block[file[u]]
        BY <1>1, OthersFollow
    <2> QED  BY <2>1, <2>2 DEF Pending, Coord, At
<1>2. /\ Pending = [u \in Threads |-> Pending[u]]
      /\ Pending' = [u \in Threads |-> Pending'[u]]
    BY DEF Pending
<1> HIDE DEF Pending
<1> QED  BY <1>1, <1>2

(* The named files keep their content.                                   *)
LEMMA StoreStays ==
    ASSUME UNCHANGED bin, \A c \in Coords : bin[c] # None => block'[bin[c]] = block[bin[c]]
    PROVE  Stored' = Stored
BY DEF Stored

LEMMA StoredIs ==
    ASSUME StorageInv, NEW c \in Coords
    PROVE  /\ bin[c] = None <=> Stored[c] = None
           /\ bin[c] # None => Stored[c] = Decoded(block[bin[c]])
BY WholeDecodes DEF Stored, StorageInv, FilesInv, NamedWhole

(* A whole file decodes to what any of its blocks is.                    *)
LEMMA FilledDecodes ==
    ASSUME NEW blocks, NEW d \in Payloads, blocks = [k \in Extent |-> d]
    PROVE  Decoded(blocks) = d
<1>1. blocks[1] = d
    BY FileSystemAssumption DEF Extent
<1> QED  BY <1>1 DEF Decoded

LEMMA RefineInit == Init => Store!Init
BY FileSystemAssumption DEF Init, Store!Init, Stored, Pending, At, Store!Returned, Store!Done, Done

LEMMA BeginRefined ==
    ASSUME StorageInv, NEW t \in Threads, save_chunk(t) \/ load_chunk(t) \/ delete_chunk(t)
    PROVE  Store!Begin(t)
<1>1. PICK c, d, label, op :
        /\ c \in Coords /\ Begin(t, op, c, d, label)
        /\ \/ op = "save" /\ label = "create" /\ d \in Payloads
           \/ op = "load" /\ label = "load_exists"
           \/ op = "delete" /\ label = "delete_exists"
    BY DEF save_chunk, load_chunk, delete_chunk
<1>2. /\ pc[t] = "free" /\ UNCHANGED fs
      /\ pc'[t] = label /\ call'[t] = [op |-> op, coord |-> c, value |-> d]
    BY <1>1 DEF Begin, At, Goto, StorageInv, FilesInv, StorageTypeOK
<1>3. Stored' = Stored
    BY <1>2, StoreStays DEF fs
<1>4. Pending[t].op = "returned"
    <2>1. Pending[t] = [op |-> "returned", result |-> result[t]]
        BY <1>2, PendingIs
    <2> QED  BY <2>1
<1>5. \/ Pending'[t] = Store!Saving(c, d) /\ d \in Payloads
      \/ Pending'[t] = Store!Loading(c)
      \/ Pending'[t] = Store!Deleting(c)
    BY <1>1, <1>2 DEF Pending, Coord, At, Store!Saving, Store!Loading, Store!Deleting
<1>6. \E x : Pending' = [Pending EXCEPT ![t] = x] /\ x = Pending'[t]
    BY OneMoves DEF StorageInv, Step
<1>7. c \in Coords
    BY <1>1
<1> QED  BY <1>3, <1>4, <1>5, <1>6, <1>7 DEF Store!Begin, Store!Free

(* A call that returns, and a step the client does not see.              *)
LEMMA ReturnSeen ==
    ASSUME StorageInv, NEW t \in Threads, Step(t), NEW r, Return(t, r)
    PROVE  Pending' = [Pending EXCEPT ![t] = Store!Returned(r)]
<1>1. pc'[t] = "free" /\ result'[t] = r
    BY DEF Return, Goto, StorageInv, FilesInv, StorageTypeOK, CallsInv
<1>2. Pending'[t] = Store!Returned(r)
    BY <1>1 DEF Pending, At, Store!Returned
<1> QED  BY <1>2, OneMoves DEF StorageInv

LEMMA NothingSeen ==
    ASSUME StorageInv, NEW t \in Threads, Step(t), Pending'[t] = Pending[t]
    PROVE  Pending' = Pending
<1>1. Pending' = [Pending EXCEPT ![t] = Pending[t]]
    BY OneMoves DEF StorageInv
<1>2. Pending = [u \in Threads |-> Pending[u]]
    BY DEF Pending
<1> HIDE DEF Pending
<1> QED  BY <1>1, <1>2

LEMMA SaveRefined ==
    ASSUME StorageInv, NEW t \in Threads, rename(t)
    PROVE  Store!Save(t)
<1> DEFINE c == call[t].coord
<1>1. pc[t] = "rename" /\ c \in Coords /\ Filling(t)
    BY DEF rename, At, StorageInv, FilesInv, StorageTypeOK, SaversInv, Saving
<1>2. /\ tmp[c] \in Inodes /\ tmp[c] # None /\ call[t].value \in Payloads
      /\ \A k \in Extent : block[tmp[c]][k] = call[t].value
    BY <1>1, FileSystemAssumption DEF Filling
<1>3. /\ bin' = [bin EXCEPT ![c] = tmp[c]] /\ UNCHANGED block
      /\ Return(t, Done)
    BY <1>2 DEF rename, Coord
<1>4. block[tmp[c]] = [k \in Extent |-> call[t].value]
    BY <1>2 DEF StorageInv, FilesInv, StorageTypeOK
<1>5. Decoded(block[tmp[c]]) = call[t].value
    BY <1>2, <1>4, FilledDecodes
<1>6. Stored' = [Stored EXCEPT ![c] = call[t].value]
    <2>1. ASSUME NEW d \in Coords
          PROVE  Stored'[d] = IF d = c THEN call[t].value ELSE Stored[d]
        <3>1. bin'[d] = IF d = c THEN tmp[c] ELSE bin[d]
            BY <1>1, <1>3 DEF StorageInv, FilesInv, StorageTypeOK
        <3> QED  BY <1>2, <1>3, <1>5, <3>1 DEF Stored
    <2>2. Stored = [d \in Coords |-> Stored[d]] /\ Stored' = [d \in Coords |-> Stored'[d]]
        BY DEF Stored
    <2> HIDE DEF Stored
    <2> QED  BY <1>1, <2>1, <2>2
<1>7. call[t].op = "save" /\ Pending[t] = call[t]
    BY <1>1, PendingIs DEF Filling
<1>8. Pending' = [Pending EXCEPT ![t] = Store!Returned(Store!Done)]
    BY <1>3, ReturnSeen DEF Step, Store!Done, Done
<1> QED  BY <1>6, <1>7, <1>8 DEF Store!Save

LEMMA DeleteRefined ==
    ASSUME StorageInv, ~ StatMayFail, NEW t \in Threads, unlink(t) \/ delete_absent(t)
    PROVE  Store!Delete(t)
<1> DEFINE c == call[t].coord
<1>1. pc[t] \in {"unlink", "delete_exists"} /\ c \in Coords
    BY DEF unlink, delete_absent, At, StorageInv, FilesInv, StorageTypeOK
<1>2. bin'[c] = None /\ UNCHANGED block /\ \A d \in Coords : d # c => bin'[d] = bin[d]
    BY <1>1 DEF unlink, delete_absent, Absent, Coord, fs, StorageInv, FilesInv, StorageTypeOK
<1>3. Stored' = [Stored EXCEPT ![c] = None]
    <2>1. ASSUME NEW d \in Coords
          PROVE  Stored'[d] = IF d = c THEN None ELSE Stored[d]
        BY <1>2 DEF Stored
    <2>2. Stored = [d \in Coords |-> Stored[d]] /\ Stored' = [d \in Coords |-> Stored'[d]]
        BY DEF Stored
    <2> HIDE DEF Stored
    <2> QED  BY <1>1, <2>1, <2>2
<1>4. call[t].op = "delete"
    BY <1>1 DEF StorageInv, CallsInv
<1>5. Pending[t] = [op |-> "delete", coord |-> c]
    BY <1>1, <1>4, PendingIs
<1>6. Pending' = [Pending EXCEPT ![t] = Store!Returned(Store!Done)]
    BY ReturnSeen DEF unlink, delete_absent, Step, Store!Done, Done
<1> QED  BY <1>3, <1>5, <1>6 DEF Store!Delete

LEMMA MissRefined ==
    ASSUME StorageInv, ~ StatMayFail, NEW t \in Threads, load_absent(t)
    PROVE  Store!Miss(t)
<1>1. /\ pc[t] = "load_exists" /\ call[t].coord \in Coords /\ bin[call[t].coord] = None
      /\ UNCHANGED fs
    BY DEF load_absent, Absent, Coord, At, StorageInv, FilesInv, StorageTypeOK
<1>2. Stored[call[t].coord] = None /\ Stored' = Stored
    BY <1>1, StoreStays DEF Stored, fs
<1>3. call[t].op = "load"
    BY <1>1 DEF StorageInv, CallsInv
<1>4. Pending[t] = [op |-> "load", coord |-> call[t].coord]
    BY <1>1, <1>3, PendingIs
<1>5. Pending' = [Pending EXCEPT ![t] = Store!Returned(Store!Loaded(None))]
    BY ReturnSeen DEF load_absent, Step, Store!Loaded, Loaded
<1> QED  BY <1>2, <1>4, <1>5 DEF Store!Miss

LEMMA ObserveRefined ==
    ASSUME StorageInv, NEW t \in Threads, open(t)
    PROVE  Store!Observe(t)
<1> DEFINE c == call[t].coord
<1>1. /\ pc[t] = "open" /\ c \in Coords /\ bin[c] # None /\ UNCHANGED <<fs, call>>
      /\ pc'[t] = "read" /\ file'[t] = bin[c]
    BY DEF open, Open, Goto, At, Coord, StorageInv, FilesInv, StorageTypeOK
<1>2. Stored[c] # None /\ Stored[c] = Decoded(block[bin[c]]) /\ Stored' = Stored
    BY <1>1, StoredIs, StoreStays DEF fs
<1>3. call[t].op = "load"
    BY <1>1 DEF StorageInv, CallsInv
<1>4. Pending[t] = [op |-> "load", coord |-> c]
    BY <1>1, <1>3, PendingIs
<1>5. Pending'[t] = Store!Observing(c, Stored[c])
    BY <1>1, <1>2 DEF Pending, At, Coord, Store!Observing, fs
<1>6. Pending' = [Pending EXCEPT ![t] = Store!Observing(c, Stored[c])]
    BY <1>5, OneMoves DEF StorageInv, Step
<1>7. Pending[t].op = "load" /\ Pending[t].coord = c
    BY <1>4
<1> HIDE DEF c
<1> QED  BY <1>2, <1>6, <1>7 DEF Store!Observe

LEMMA AnswerRefined ==
    ASSUME StorageInv, NEW t \in Threads, decode(t)
    PROVE  Store!Answer(t)
<1>1. pc[t] = "read" /\ at[t] = Blocks /\ UNCHANGED fs
    BY DEF decode, At
<1>2. Following(t)
    BY <1>1 DEF StorageInv, ReadersInv
<1>3. buffer[t] = block[file[t]]
    BY <1>1, <1>2 DEF Following, Extent, StorageInv, FilesInv, StorageTypeOK, CallsInv
<1>4. Decoded(block[file[t]]) # None
    BY <1>2, WholeDecodes DEF Following
<1>5. Pending[t] = [op |-> "observed", coord |-> call[t].coord,
                    value |-> Decoded(block[file[t]])]
    BY <1>1, PendingIs
<1>6. Return(t, Loaded(Decoded(block[file[t]])))
    BY <1>3, <1>4 DEF decode
<1>7. Pending' = [Pending EXCEPT ![t] = Store!Returned(Store!Loaded(Decoded(block[file[t]])))]
    BY <1>6, ReturnSeen DEF Step, Store!Loaded, Loaded
<1>8. Stored' = Stored
    BY <1>1, StoreStays DEF fs
<1> QED  BY <1>5, <1>7, <1>8 DEF Store!Answer

LEMMA FailRefined ==
    ASSUME StorageInv, NEW t \in Threads, open_missing(t) \/ unlink_missing(t) \/ Fail(t)
    PROVE  Store!Fail(t)
<1>1. pc[t] # "free" /\ UNCHANGED fs /\ Return(t, Failed)
    BY DEF open_missing, unlink_missing, Fail, At
<1>2. Stored' = Stored
    BY <1>1, StoreStays DEF fs
<1>3. Pending[t].op # "returned"
    <2>1. call[t].op \in {"load", "save", "delete"}
        BY DEF StorageInv, FilesInv, StorageTypeOK
    <2>2. CASE pc[t] = "read"
        <3>1. Pending[t] = [op |-> "observed", coord |-> call[t].coord,
                            value |-> Decoded(block[file[t]])]
            BY <2>2, PendingIs
        <3> QED  BY <3>1
    <2>3. CASE pc[t] # "read" /\ call[t].op = "save"
        BY <1>1, <2>3, PendingIs
    <2>4. CASE pc[t] # "read" /\ call[t].op # "save"
        <3>1. Pending[t] = [op |-> call[t].op, coord |-> call[t].coord]
            BY <1>1, <2>4, PendingIs
        <3> QED  BY <2>1, <3>1
    <2> QED  BY <2>2, <2>3, <2>4
<1>4. Pending' = [Pending EXCEPT ![t] = Store!Returned(Store!Failed)]
    BY <1>1, ReturnSeen DEF Step, Store!Failed, Failed
<1> QED  BY <1>2, <1>3, <1>4 DEF Store!Fail, Store!Free

(* Writing the temporary file, reading, and the existence tests show     *)
(* nothing.                                                              *)
LEMMA Unseen ==
    ASSUME StorageInv, NEW t \in Threads,
           create(t) \/ write(t) \/ load_present(t) \/ delete_present(t) \/ read(t)
    PROVE  UNCHANGED <<Stored, Pending>>
<1>1. Pending'[t] = Pending[t]
    <2>1. CASE create(t) \/ write(t)
        <3>1. pc[t] \in {"create", "write"} /\ pc'[t] \in {"write", "rename"} /\ UNCHANGED call
            BY <2>1 DEF create, write, At, Goto, StorageInv, FilesInv, StorageTypeOK
        <3>2. call[t].op = "save"
            BY <3>1 DEF StorageInv, CallsInv, Saving
        <3> QED  BY <3>1, <3>2 DEF Pending, At
    <2>2. CASE load_present(t) \/ delete_present(t)
        <3>1. pc[t] \in {"load_exists", "delete_exists"} /\ pc'[t] \in {"open", "unlink"}
              /\ UNCHANGED call
            BY <2>2 DEF load_present, delete_present, At, Goto, StorageInv, FilesInv, StorageTypeOK
        <3> QED  BY <3>1 DEF Pending, At, Coord
    <2>3. CASE read(t)
        BY <2>3 DEF read, Pending, At, Coord, fs
    <2> QED  BY <2>1, <2>2, <2>3
<1>2. Pending' = Pending
    BY <1>1, NothingSeen DEF Step
<1>3. UNCHANGED bin
    BY DEF create, write, load_present, delete_present, read, fs
<1>4. ASSUME NEW c \in Coords, bin[c] # None
      PROVE  block'[bin[c]] = block[bin[c]]
    <2>1. CASE create(t)
        <3>1. PICK i \in IF tmp[Coord(t)] = None THEN Fresh ELSE {tmp[Coord(t)]} :
                block' = [block EXCEPT ![i] = NoBlocks]
            BY <2>1 DEF create
        <3>2. Coord(t) \in Coords
            BY <2>1 DEF create, At, Coord, StorageInv, FilesInv, StorageTypeOK
        <3>3. i # bin[c]
            <4>1. CASE tmp[Coord(t)] = None
                <5>1. i \in Free
                    BY <3>1, <4>1 DEF Fresh
                <5> QED  BY <5>1 DEF Free
            <4>2. CASE tmp[Coord(t)] # None
                BY <3>1, <3>2, <4>2 DEF StorageInv, FilesInv, NamesApart
            <4> QED  BY <4>1, <4>2
        <3> QED  BY <1>4, <3>1, <3>3 DEF StorageInv, FilesInv, StorageTypeOK
    <2>2. CASE write(t)
        <3>1. /\ pc[t] = "write" /\ call[t].coord \in Coords
              /\ block' = [block EXCEPT ![file[t]] = [@ EXCEPT ![at[t] + 1] = call[t].value]]
            BY <2>2 DEF write, At, StorageInv, FilesInv, StorageTypeOK
        <3>2. file[t] \in Inodes /\ file[t] = tmp[call[t].coord]
            BY <3>1 DEF StorageInv, FilesInv, SaversInv, Saving, Filling
        <3>3. file[t] # bin[c]
            BY <3>1, <3>2, FileSystemAssumption DEF StorageInv, FilesInv, NamesApart
        <3> QED  BY <1>4, <3>1, <3>3 DEF StorageInv, FilesInv, StorageTypeOK
    <2>3. CASE load_present(t) \/ delete_present(t) \/ read(t)
        BY <2>3 DEF load_present, delete_present, read, fs
    <2> QED  BY <2>1, <2>2, <2>3
<1> QED  BY <1>2, <1>3, <1>4, StoreStays

LEMMA RefineStep ==
    ASSUME ~ StatMayFail, StorageInv, [Next]_vars
    PROVE  [Store!Next]_(Store!csvars)
<1>1. CASE Crash
    <2>1. Stored' = Stored
        BY <1>1, StoreStays DEF Crash, fs
    <2>2. Pending' = [t \in Threads |-> Store!Returned(Store!Done)]
        BY <1>1 DEF Crash, Pending, At, Store!Returned, Store!Done, Done
    <2> QED  BY <2>1, <2>2 DEF Store!Next, Store!Crash
<1>2. CASE UNCHANGED vars
    BY <1>2 DEF vars, thread, fs, Stored, Pending, At, Coord, Store!csvars
<1>3. ASSUME NEW t \in Threads, Step(t)
      PROVE  [Store!Next]_(Store!csvars)
    BY <1>3, BeginRefined, SaveRefined, DeleteRefined, MissRefined, ObserveRefined,
       AnswerRefined, FailRefined, Unseen
    DEF Step, Store!Next, Store!csvars
<1> QED  BY <1>1, <1>2, <1>3 DEF Next

(* Under the same proviso, and if the file system answers a stat truly,  *)
(* threads, failures and crashes see an atomic map: a save takes effect at *)
(* its rename, a delete at its unlink, and a load answers with the one   *)
(* payload that was stored when it opened the file (save_chunk,          *)
(* load_chunk, delete_chunk).                                            *)
THEOREM StorageIsAtomic ==
    ASSUME Exclusive, ~ StatMayFail
    PROVE  Spec => ImplementsChunkStore
<1>1. StorageInv /\ [Next]_vars => [Store!Next]_(Store!csvars)
    BY RefineStep
<1>2. Spec => []StorageInv
    BY StorageAlways
<1> QED  BY <1>1, <1>2, RefineInit, PTL DEF Spec, ImplementsChunkStore, Store!Spec

=============================================================================
