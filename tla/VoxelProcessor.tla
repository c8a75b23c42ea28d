--------------------------- MODULE VoxelProcessor ---------------------------
(***************************************************************************)
(* The kernels of src/compute/voxel_processor.rs: fill and carve, and the *)
(* smoothing pass, whose invocations copy their own voxel to a scratch   *)
(* buffer and then read those of their neighbours, with no barrier.      *)
(* Dispatches follow one another on the same buffers.                    *)
(***************************************************************************)
EXTENDS ComputeDispatch, Sequences

CONSTANTS
    grid_size,        \* <<x, y, z>>
    workgroup_size,   \* 64 in the shader
    MaterialIds,      \* bound: the material ids of the first voxels and of the operations
    Percentages,      \* bound: smooth_factor in hundredths
    MaxDispatches     \* bound: the dispatches of a behaviour

voxel_count == grid_size[1] * grid_size[2] * grid_size[3]
GridCells == 0..voxel_count - 1

ASSUME ProcessorAssumption ==
    /\ \A axis \in 1..3 : grid_size[axis] \in Nat \ {0}
    /\ workgroup_size \in Nat \ {0}
    /\ MaterialIds \subseteq Nat /\ Percentages \subseteq 0..100

OffGrid == -1    \* u32::MAX, which is no index below the total

idx_to_coord(idx) ==
    LET layer == grid_size[1] * grid_size[2]
    IN  <<(idx % layer) % grid_size[1], (idx % layer) \div grid_size[1], idx \div layer>>

(* Mutant: only coordinates below zero are out of bounds.                *)
coord_to_idx_unbounded(c) ==
    IF \E axis \in 1..3 : c[axis] < 0 THEN OffGrid
    ELSE (c[3] * grid_size[2] + c[2]) * grid_size[1] + c[1]

coord_to_idx(c) ==
    IF \E axis \in 1..3 : c[axis] < 0 \/ c[axis] >= grid_size[axis] THEN OffGrid
    ELSE (c[3] * grid_size[2] + c[2]) * grid_size[1] + c[1]

(* The coordinates that the three loops of smooth pass, in their order.  *)
Shift(k) == <<(k % 3) - 1, ((k \div 3) % 3) - 1, (k \div 9) - 1>>
Beside(idx, k) == [axis \in 1..3 |-> idx_to_coord(idx)[axis] + Shift(k)[axis]]

(* What they read.                                                       *)
NeighbourList ==
    [idx \in GridCells |->
        LET upTo[k \in 0..27] ==
                IF k = 0 THEN << >>
                ELSE IF coord_to_idx(Beside(idx, k - 1)) \in GridCells
                THEN Append(upTo[k - 1], coord_to_idx(Beside(idx, k - 1)))
                ELSE upTo[k - 1]
        IN  upTo[27]]

VARIABLES
    grid,       \* the voxel buffer
    scratch,    \* the scratch buffer
    job,        \* the uniforms of the dispatch
    running,    \* where each invocation is: the loads it has done and their sum
    held,       \* history: voxels and scratch when the dispatch began
    dispatches  \* bound: how many there were

processor == <<grid, scratch, job, running, held, dispatches>>

NoJob == [operation |-> "none"]
Jobs ==
    [operation : {"fill", "carve"}, material_id : MaterialIds]
        \cup [operation : {"smooth"}, smooth_factor : Percentages]

ProcessorInit ==
    /\ grid \in [GridCells -> MaterialIds]
    /\ scratch = [c \in GridCells |-> 0]
    /\ job = NoJob
    /\ running = << >>
    /\ held = [voxels |-> grid, scratch |-> scratch]
    /\ dispatches = 0

(* Invocation idx at its start; DOMAIN running are those still at work.  *)
Fresh == [loads |-> -1, sum |-> 0]

dispatch_job(j) ==
    /\ running = << >> /\ dispatches < MaxDispatches
    /\ job' = j
    /\ running' = [idx \in Started(voxel_count, workgroup_size) |-> Fresh]
    /\ held' = [voxels |-> grid, scratch |-> scratch]
    /\ dispatches' = dispatches + 1
    /\ UNCHANGED <<grid, scratch>>

Return(idx) ==
    running' = [other \in DOMAIN running \ {idx} |-> running[other]]

(* Invocations past the last voxel.                                      *)
return_early(idx) ==
    /\ idx \notin GridCells
    /\ Return(idx)
    /\ UNCHANGED <<grid, scratch, job, held, dispatches>>

fill(idx) ==
    /\ idx \in GridCells /\ job.operation = "fill"
    /\ grid' = [grid EXCEPT ![idx] = job.material_id]
    /\ Return(idx)
    /\ UNCHANGED <<scratch, job, held, dispatches>>

carve(idx) ==
    /\ idx \in GridCells /\ job.operation = "carve"
    /\ grid' = [grid EXCEPT ![idx] = IF @ = job.material_id THEN 0 ELSE @]
    /\ Return(idx)
    /\ UNCHANGED <<scratch, job, held, dispatches>>

smooth_copy(idx) ==
    /\ idx \in GridCells /\ job.operation = "smooth" /\ running[idx] = Fresh
    /\ scratch' = [scratch EXCEPT ![idx] = grid[idx]]
    /\ running' = [running EXCEPT ![idx].loads = 0]
    /\ UNCHANGED <<grid, job, held, dispatches>>

smooth_load(idx) ==
    /\ idx \in GridCells /\ job.operation = "smooth"
    /\ running[idx].loads \in 0..Len(NeighbourList[idx]) - 1
    /\ LET n == running[idx].loads + 1
       IN  running' = [running EXCEPT ![idx] =
                          [loads |-> n, sum |-> @.sum + scratch[NeighbourList[idx][n]]]]
    /\ UNCHANGED <<grid, scratch, job, held, dispatches>>

(* mix() and the cut to an integer.                                      *)
Mixed(original, sum, count, percent) ==
    (original * (100 - percent) * count + sum * percent) \div (100 * count)

smooth_store(idx) ==
    /\ idx \in GridCells /\ job.operation = "smooth"
    /\ LET count == Len(NeighbourList[idx])
       IN  /\ running[idx].loads = count
           /\ grid' = [grid EXCEPT ![idx] =
                          Mixed(scratch[idx], running[idx].sum, count, job.smooth_factor)]
    /\ Return(idx)
    /\ UNCHANGED <<scratch, job, held, dispatches>>

invocation(idx) ==
    \/ return_early(idx)
    \/ fill(idx)
    \/ carve(idx)
    \/ smooth_copy(idx)
    \/ smooth_load(idx)
    \/ smooth_store(idx)

ProcessorNext ==
    \/ \E j \in Jobs : dispatch_job(j)
    \/ \E idx \in DOMAIN running : invocation(idx)

ProcessorSpec == ProcessorInit /\ [][ProcessorNext]_processor

---------------------------------------------------------------------------
Touching(idx) ==
    {n \in GridCells : \A axis \in 1..3 :
        idx_to_coord(n)[axis] - idx_to_coord(idx)[axis] \in -1..1}

(* What its neighbourhood held when the dispatch began.                  *)
Surroundings(idx) ==
    {held.voxels[n] : n \in Touching(idx)} \cup {held.scratch[n] : n \in Touching(idx)}

(* Whatever the interleaving, a smoothed voxel lies between the least and *)
(* the greatest of what its own neighbourhood held when the dispatch began, *)
(* in the voxel buffer or, left by an earlier dispatch, in the scratch   *)
(* buffer: the missing barrier mixes times, never places (smooth).       *)
SmoothLocal(idx) ==
    /\ \E least, greatest \in Surroundings(idx) : grid[idx] \in least..greatest
    /\ running = << >> => scratch[idx] = held.voxels[idx]

(* A fill or a carve changes nothing but what it is about, and has been  *)
(* everywhere at its end, in the last group too, which is not full.      *)
Wanted(idx) ==
    IF job.operation = "fill" THEN job.material_id
    ELSE IF held.voxels[idx] = job.material_id THEN 0 ELSE held.voxels[idx]

OperationsLocal ==
    job # NoJob => \A idx \in GridCells :
        \/ job.operation = "smooth" /\ SmoothLocal(idx)
        \/ job.operation # "smooth" /\ grid[idx] = Wanted(idx)
        \/ job.operation # "smooth" /\ running # << >> /\ grid[idx] = held.voxels[idx]

=============================================================================
