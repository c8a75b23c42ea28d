-------------------------- MODULE MCMeshGenerator --------------------------
(* Small instances of MeshGenerator for TLC: a grid of two voxels, with  *)
(* room for every face, with one buffer short or with both.              *)
EXTENDS MeshGenerator

Column == <<1, 2, 1>>
Row == <<2, 1, 1>>

Sized(v, i) == [grid_size |-> Column, max_vertices |-> v, max_indices |-> i]

MCConfigs == {Sized(40, 60), Sized(11, 60), Sized(36, 18)}

Load(grid, voxels) == [grid_size |-> grid, voxels |-> [k \in 0..Len(voxels) - 1 |-> voxels[k + 1]]]

(* A solid column and a single voxel; a row and a missing voxel, refused. *)
MCUploads == {Load(Column, <<1, 2>>), Load(Column, <<0, 1>>),
              Load(Row, <<1, 2>>), Load(Column, <<1>>)}

=============================================================================
