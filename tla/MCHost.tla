------------------------------- MODULE MCHost -------------------------------
(***************************************************************************)
(* What a host program calls: the C API behind its C# wrappers, the window *)
(* policy and the plan of detail levels, the meshes of terrain and water, *)
(* the aggregate reports, and the two compute kernels.  They share no    *)
(* state, so a behaviour moves one of them, the subject, and leaves the  *)
(* others alone.                                                         *)
(***************************************************************************)
EXTENDS CApi, StreamingWindow, GridMesh, VoxelProcessor, RadixSort

CONSTANT Subjects    \* the parts to move

VARIABLE subject

interface == <<heap, wrapper, obs, reply, caller, argument>>

host == <<subject, interface, window, detail, surface, reports, processor, sort>>

(* Policies with every combination of rings, of a seam and of a prefetch *)
(* cone that the constructor's checks tell apart.                        *)
MCPolicies ==
    {p \in [mesh_ring : 0..1, sim_ring : {1}, coarse_ring : {0, 2}, seam_chunks : 0..3,
            vy_weight : {0, 1, 2}, sim_lod_step : {2}, prefetch_ring : {1},
            cos_theta : {0, 1}, fade_ticks : {0, 2}] :
        /\ p.fade_ticks = 0 <=> p.cos_theta = 0
        /\ p.mesh_ring + p.seam_chunks \in {0, 1, 3}
        /\ p.vy_weight = 1 => p.cos_theta = 0
        /\ p.coarse_ring = 0 \/ p.vy_weight = 0 => p.vy_weight = 1 /\ p.seam_chunks = 0}

(* Directions of unit length, longer ones, and one whose products are too *)
(* large for the numbers of the instance.                                *)
MCForward == {<<90, -90, 0>>, <<256, 0, 0>>, <<-20000, 5000, 0>>}

MCLodPolicies == [near : {1, 2}, far : {1, 5}, max_level : {2, 3}]
MCScales == {-1, 1, 2}

MCFields == {<<2, 2>>, <<3, 2>>, <<3, 3>>, <<0, 2>>, <<-1, 2>>}
MCEdits == {<<0, 0>>, <<1, 0>>, <<2, 1>>, <<1, 2>>, <<0, 1>>}
MCWaves ==
    {Wave(1, 8, 1, <<0, 0>>, 2), Wave(2, 4, 3, <<0, -1>>, 1), Wave(1, 16, 1, <<1, 0>>, 0),
     Wave(0, 8, 1, <<1, 0>>, 1), Wave(1, 0, 1, <<1, 0>>, 1)}

MCCohorts == {<<1, 1, 1>>, <<1, 4, 2>>, <<3, 2, 1>>, <<1, 2, 1>>}

MCGrid == <<1, 3, 1>>

(* Which wrapper and which address is which does not matter.             *)
Alike == Permutations(Objects) \cup Permutations(Addresses)

---------------------------------------------------------------------------
HostInit ==
    /\ subject \in Subjects
    /\ Init
    /\ WindowInit
    /\ subject # "window" => policy = CHOOSE p \in Policies : Checked(p)
    /\ DetailInit
    /\ IF subject = "grid" THEN GridInit
       ELSE field = << >> /\ written = << >> /\ bank = << >>
    /\ GestaltInit
    /\ IF subject = "processor" THEN ProcessorInit
       ELSE /\ grid = << >> /\ scratch = << >> /\ job = NoJob
            /\ running = << >> /\ held = << >> /\ dispatches = 0
    /\ IF subject = "sort" THEN SortInit
       ELSE /\ input = << >> /\ output = << >> /\ histogram = NoCount
            /\ local_hist = NoCount /\ pass = << >> /\ offset = Pending

HostNext ==
    /\ UNCHANGED subject
    /\ \/ /\ subject = "native" /\ Next
          /\ UNCHANGED <<window, detail, surface, reports, processor, sort>>
       \/ /\ subject = "window" /\ WindowNext
          /\ UNCHANGED <<interface, detail, surface, reports, processor, sort>>
       \/ /\ subject = "detail" /\ DetailNext
          /\ UNCHANGED <<interface, window, surface, reports, processor, sort>>
       \/ /\ subject = "grid" /\ GridNext
          /\ UNCHANGED <<interface, window, detail, reports, processor, sort>>
       \/ /\ subject = "reports" /\ GestaltNext
          /\ UNCHANGED <<interface, window, detail, surface, processor, sort>>
       \/ /\ subject = "processor" /\ ProcessorNext
          /\ UNCHANGED <<interface, window, detail, surface, reports, sort>>
       \/ /\ subject = "sort" /\ SortNext
          /\ UNCHANGED <<interface, window, detail, surface, reports, processor>>

HostSpec == HostInit /\ [][HostNext]_host

---------------------------------------------------------------------------
(* A chunk or a surface is drawn in no more detail farther away than     *)
(* nearer, and what is drawn or prefetched fits the budgets that were    *)
(* planned for it: FartherIsCoarser, BudgetsHold and PrefetchAhead of    *)
(* every accepted policy, TiersAndScalesCompose of every thresholds      *)
(* (classify, in_prefetch_cone, MvpResidentBudget, select_lod).          *)
DetailIsPlanned ==
    /\ subject = "window" => FartherIsCoarser /\ BudgetsHold /\ PrefetchAhead
    /\ subject = "detail" => TiersAndScalesCompose

(* As the viewer moves, a step across a chunk border changes no chunk's  *)
(* state by more than the seam absorbs, and a step away makes nothing more *)
(* detailed: SeamAbsorbsSteps and WithdrawingCoarsens (classify,         *)
(* select_tier, for_distance).                                           *)
DetailFollowsViewer == SeamAbsorbsSteps /\ WithdrawingCoarsens

(* HeightsDrawn and PatchesJoin of every field and every bank of waves   *)
(* (build_mesh_from_height, FluidMesh::build).                           *)
SurfacesAreWhole == subject = "grid" => HeightsDrawn /\ PatchesJoin

(* FoldOrderBlind of every set of reports, OperationsLocal of every      *)
(* dispatch and RanksCompact of every pass (gestalt's fold, the kernels). *)
AggregatesAgree == subject = "reports" => FoldOrderBlind
DispatchesLocal == subject = "processor" => OperationsLocal
ScattersCompact == subject = "sort" => RanksCompact

=============================================================================
