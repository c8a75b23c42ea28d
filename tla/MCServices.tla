----------------------------- MODULE MCServices -----------------------------
(***************************************************************************)
(* The services around the voxel engine: counting renderer, plugins, shape *)
(* hints, material registries and palettes, snapshot files, the rules on *)
(* materials, post-processing passes, shader stages and event batches.   *)
(* They share no state, so a behaviour moves one of them, the subject, and *)
(* leaves the others alone.                                              *)
(***************************************************************************)
EXTENDS FrameCounter, PluginManager, ShapeHints, MaterialRegistries, SnapshotFiles,
        PostFxPasses, MaterialRules, ShaderStages, EventOrder

CONSTANT Subjects    \* the parts to move

VARIABLE subject

bystanders == <<frames, manager, entries, registries, palettes, snapshots>>
drawing == <<passes, materials, stages, arrived>>

services == <<subject, bystanders, drawing>>

(* Names in parts: two default prefixes, one of which may be part of a   *)
(* word, and a prefix in capitals.                                       *)
MCLower ==
    [word \in {"stone", "Stone", "wall", "re", "_"} |-> IF word = "Stone" THEN "stone" ELSE word]
MCDefaults == <<<< <<"stone">>, "OrganicBlob">>, << <<"wall">>, "LongX">>>>
MCNamePrefixes == {<<"Stone">>, <<"wall">>, <<"re", "wall">>, << >>}
MCAssetIds ==
    {<< >>, <<"Stone">>, <<"stone", "_", "wall">>, <<"wall", "Stone">>,
     <<"re", "wall">>, <<"re", "wall", "_", "re">>, <<"re", "_", "wall">>}

(* Snapshots with a value that is out of range and one that is not finite; *)
(* the texts differ from field to field.                                 *)
PostFxData(n, l, b) == [version |-> "1", name |-> n, lut_path |-> l, bloom_intensity |-> b]
TerrainData(v, w, e, m) == [version |-> v, width |-> w, elevations |-> e, material_ids |-> m]
WaterData(n, s, m) == [version |-> "1", name |-> n, sea_level |-> s, material_names |-> m]

MCPostFxSnapshots == {PostFxData("2", "3", "4"), PostFxData("5", "6", NotFinite)}
MCTerrainSnapshots == {TerrainData(Negative, "2", "3", "4"), TerrainData("1", "3", "5", "6")}
MCWaterSnapshots == {WaterData("7", "2", "3")}

(* Settings at and past the ends of their ranges.                        *)
MCPassConfigs ==
    [e \in PassEffect |->
        CASE e = "Lut" -> [lut_size : 0..5, halves : {0, 1, 2}]
          [] e = "Ssao" -> [kernel_size : {0, 2, 3}]
          [] e = "Aces" -> [exposure : {1, 2}]
          [] e = "Vignette" -> [intensity : {0, 4, 10}, smoothness : {6, 10}, roundness : {0, 1}]
          [] e = "ChromaticAberration" -> [intensity : {0, 2}]
          [] e = "Ssgi" -> [samples : {0, 1, 5}, intensity : {45, 100}]
          [] e = "Bloom" -> [iterations : {2}]]
MCOffsets == {<<0, 0>>, <<3, 4>>, <<-4, 3>>, <<6, 8>>, <<0, 5>>}
MCColours == {-6, 0, 4, 6, 12}
MCCustomLut == [k \in 1..8 |-> <<12, 6, 0>>]

MCCascadeSplits == {<<1, 3, 6, 9>>, <<2, 5>>, <<4, 2, 6>>, << >>}

MCArrivals == {1, 2} \X {0, 1, 2}

---------------------------------------------------------------------------
ServicesInit ==
    /\ subject \in Subjects
    /\ CounterInit /\ ManagerInit /\ PalettesInit /\ SnapshotInit /\ RulesInit
    /\ HintsInit /\ (subject # "hints" => entries = << >>)
    /\ RegistriesInit /\ (subject # "registries" => domain = "water")
    /\ PassInit
    /\ subject # "passes" =>
         effect = "Aces" /\ config = [exposure |-> 1] /\ refused = {}
    /\ StagesInit
    /\ subject # "stages" => cascade_splits = << >> /\ kernel_length = 0
    /\ ArrivalInit /\ (subject # "arrivals" => arrived = << >>)

(* The service of that name moves.                                       *)
Move ==
    \/ /\ subject = "frames" /\ CounterNext
       /\ UNCHANGED <<manager, entries, registries, palettes, snapshots, drawing>>
    \/ /\ subject = "plugins" /\ ManagerNext
       /\ UNCHANGED <<frames, entries, registries, palettes, snapshots, drawing>>
    \/ /\ subject = "hints" /\ HintsNext
       /\ UNCHANGED <<frames, manager, registries, palettes, snapshots, drawing>>
    \/ /\ subject = "registries" /\ RegistriesNext
       /\ UNCHANGED <<frames, manager, entries, palettes, snapshots, drawing>>
    \/ /\ subject = "palettes" /\ PalettesNext
       /\ UNCHANGED <<frames, manager, entries, registries, snapshots, drawing>>
    \/ /\ subject = "snapshots" /\ SnapshotNext
       /\ UNCHANGED <<frames, manager, entries, registries, palettes, drawing>>
    \/ /\ subject = "passes" /\ PassNext
       /\ UNCHANGED <<bystanders, materials, stages, arrived>>
    \/ /\ subject = "terrain" /\ RulesNext
       /\ UNCHANGED <<bystanders, passes, pbr, stages, arrived>>
    \/ /\ subject = "pbr" /\ RulesNext
       /\ UNCHANGED <<bystanders, passes, terrain_material, stages, arrived>>
    \/ /\ subject = "stages" /\ StagesNext
       /\ UNCHANGED <<bystanders, passes, materials, arrived>>
    \/ /\ subject = "arrivals" /\ ArrivalNext
       /\ UNCHANGED <<bystanders, passes, materials, stages>>

ServicesNext == Move /\ UNCHANGED subject

ServicesSpec == ServicesInit /\ [][ServicesNext]_services

---------------------------------------------------------------------------
(* What a service reports is what happened: FramesAccounted,             *)
(* PluginsAnswer, RegistriesReplay, PalettesReplay and BatchesInOrder    *)
(* (FrameCountingRenderer, execute_all, the recording registries, the mock *)
(* palette, sort_and_dedup).                                             *)
BooksBalance ==
    /\ subject = "frames" => FramesAccounted
    /\ subject = "plugins" => PluginsAnswer
    /\ subject = "registries" => RegistriesReplay
    /\ subject = "palettes" => PalettesReplay
    /\ subject = "arrivals" => BatchesInOrder

(* What is drawn follows from what was set: GradingNeutral, KernelCurrent, *)
(* EffectsInRange and VariantsAsDescribed of the passes, CascadesInOrder *)
(* and DitherRamps of the shaders, TypedReads and PoliciesAgree of the   *)
(* materials.                                                            *)
DrawnAsSet ==
    /\ subject = "passes" =>
         GradingNeutral /\ KernelCurrent /\ EffectsInRange /\ VariantsAsDescribed
    /\ subject = "stages" => CascadesInOrder /\ DitherRamps
    /\ subject = "terrain" => TypedReads
    /\ subject = "pbr" => PoliciesAgree

=============================================================================
