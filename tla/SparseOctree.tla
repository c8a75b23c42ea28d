---------------------------- MODULE SparseOctree ----------------------------
(***************************************************************************)
(* The sparse octree of src/voxel/octree.rs: one node per chunk          *)
(* coordinate, uniform or dense, and the compaction that replaces eight  *)
(* equal siblings by one node at half their coordinates, a pass at a time. *)
(***************************************************************************)
EXTENDS Integers, FiniteSets

CONSTANTS
    Trees,       \* bound: the trees a behaviour starts from
    Inserts      \* bound: the nodes <<coordinate, value>> inserted later

Dense == 0       \* OctreeNode::Dense; other values are uniform materials

ChunkCoords == Int \X Int \X Int

ASSUME OctreeAssumption ==
    /\ \A t \in Trees : DOMAIN t \subseteq ChunkCoords
    /\ Inserts \subseteq ChunkCoords \X Nat

VARIABLES
    nodes,       \* VoxelOctree.nodes, a function on the known coordinates
    compacting,  \* whether compact is at work
    said,        \* history: what the nodes said when it was called, and what
                 \* has followed from that and from what was inserted
    former       \* history: the nodes when it was called, and those inserted

tree == <<nodes, compacting, said, former>>

(* What the nodes say: the value at each known coordinate.               *)
Held == {<<c, nodes[c]>> : c \in DOMAIN nodes}

OctreeInit ==
    /\ nodes \in Trees
    /\ compacting = FALSE
    /\ said = Held
    /\ former = nodes

With(f, c, value) == [x \in DOMAIN f \cup {c} |-> IF x = c THEN value ELSE f[x]]

(* insert_uniform, and insert_dense where the value is Dense.            *)
Insert(c, value) ==
    /\ ~compacting
    /\ nodes' = With(nodes, c, value)
    /\ said' = said \cup {<<c, value>>}
    /\ former' = With(former, c, value)
    /\ UNCHANGED compacting

Parent(c) == <<c[1] \div 2, c[2] \div 2, c[3] \div 2>>

Children(p) ==
    {<<2 * p[1] + d[1], 2 * p[2] + d[2], 2 * p[3] + d[3]>> : d \in (0..1) \X (0..1) \X (0..1)}

Uniform == {c \in DOMAIN nodes : nodes[c] # Dense}

(* Mutant: siblings that are not there are no hindrance.                 *)
CollapsibleLoosely ==
    {p \in {Parent(c) : c \in Uniform} :
        \A c, d \in Children(p) \cap Uniform : nodes[c] = nodes[d]}

(* The parents of eight uniform children of one value.                   *)
Collapsible ==
    {p \in {Parent(c) : c \in Uniform} :
        /\ Children(p) \subseteq Uniform
        /\ \A c, d \in Children(p) : nodes[c] = nodes[d]}

(* The order of the groups: that of the keys of the map.                 *)
KeyBefore(p, q) ==
    \/ p[1] < q[1]
    \/ p[1] = q[1] /\ p[2] < q[2]
    \/ p[1] = q[1] /\ p[2] = q[2] /\ p[3] < q[3]

(* The nodes after a pass.  A parent stands at the coordinates of a chunk *)
(* and is removed again when it is a child of a group that comes later.  *)
Collapsed ==
    LET gone == UNION {Children(p) : p \in Collapsible}
        parents == {p \in Collapsible :
                       ~ \E q \in Collapsible : KeyBefore(p, q) /\ p \in Children(q)}
    IN  [c \in (DOMAIN nodes \ gone) \cup parents |->
            IF c \in parents THEN nodes[CHOOSE d \in Children(c) : TRUE] ELSE nodes[c]]

(* What follows when all eight chunks at twice the coordinates say it.   *)
Raised(pairs) ==
    LET known == {pair \in pairs : pair[2] # Dense}
    IN  {pair \in {<<Parent(old[1]), old[2]>> : old \in known} :
            \A c \in Children(pair[1]) : <<c, pair[2]>> \in known}

begin_compact ==
    /\ ~compacting
    /\ compacting' = TRUE
    /\ said' = Held
    /\ former' = nodes
    /\ UNCHANGED nodes

compact_one_pass ==
    /\ compacting
    /\ nodes' = Collapsed
    /\ compacting' = (Collapsible # {})
    /\ said' = said \cup Raised(said)
    /\ UNCHANGED former

OctreeNext ==
    \/ \E i \in Inserts : Insert(i[1], i[2])
    \/ begin_compact
    \/ compact_one_pass

OctreeSpec == OctreeInit /\ [][OctreeNext]_tree

---------------------------------------------------------------------------
(* Whatever a chunk's node says, during a compaction and after it, was   *)
(* said before or inserted since, or all eight chunks at twice its       *)
(* coordinates said so, once for every pass at most; and a chunk whose   *)
(* node is gone had it, with its seven siblings, of one value that is not *)
(* dense: no value is invented, and a missing, dense or different sibling *)
(* keeps the other seven apart (compact_one_pass).                       *)
CompactionExplained ==
    /\ Held \subseteq said
    /\ \A c \in DOMAIN former \ DOMAIN nodes :
        \E pair \in said :
            /\ pair[2] # Dense
            /\ \A d \in Children(Parent(c)) : <<d, pair[2]>> \in said

(* "queries return identical results before and after compaction": a     *)
(* chunk that was known to be uniform is still answered with its value, or *)
(* is not known any more.                                                *)
QueriesPreserved ==
    ~compacting =>
        \A c \in DOMAIN former \cap DOMAIN nodes :
            former[c] # Dense => nodes[c] = former[c]

=============================================================================
