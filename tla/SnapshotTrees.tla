--------------------------- MODULE SnapshotTrees ---------------------------
(***************************************************************************)
(* The snapshot trees of a virtual machine as the code has them: a node    *)
(* has its snapshot and the list of its children, and every function walks *)
(* down the lists.  VMSnapshots has the same trees as the list of their    *)
(* nodes, Preorder.                                                        *)
(***************************************************************************)
EXTENDS Naturals, Sequences, SequencesExt

CONSTANT None

Node(s, kids) == [snap |-> s, kids |-> kids]
RootRefs(tree) == [i \in DOMAIN tree |-> tree[i].snap]

RECURSIVE allSnapshotsInTree(_)
allSnapshotsInTree(tree) ==
    FlattenSeq([i \in DOMAIN tree |-> <<tree[i].snap>> \o allSnapshotsInTree(tree[i].kids)])

(* findSnapshotInTree and the append to the list of the node it finds. *)
RECURSIVE AddChild(_, _, _)
AddChild(tree, ref, node) ==
    [i \in DOMAIN tree |->
        [tree[i] EXCEPT !.kids = IF tree[i].snap = ref THEN Append(@, node)
                                 ELSE AddChild(@, ref, node)]]

(* findParentSnapshot looks among the children of a node, and below each. *)
RECURSIVE findParentSnapshotInTree(_, _)
findParentSnapshotInTree(tree, ref) ==
    LET found == {tree[i].snap : i \in {j \in DOMAIN tree : ref \in ToSet(RootRefs(tree[j].kids))}}
        below == {findParentSnapshotInTree(tree[i].kids, ref) : i \in DOMAIN tree} \ {None}
    IN IF found \cup below = {} THEN None ELSE CHOOSE p \in found \cup below : TRUE

RECURSIVE removeSnapshotInTree(_, _, _)
removeSnapshotInTree(tree, ref, removeChildren) ==
    FlattenSeq([i \in DOMAIN tree |->
        IF tree[i].snap # ref
        THEN <<[tree[i] EXCEPT !.kids = removeSnapshotInTree(@, ref, removeChildren)]>>
        ELSE IF removeChildren THEN <<>> ELSE tree[i].kids])

(* isTreeFn finds no node with two children. *)
RECURSIVE IsChain(_)
IsChain(tree) == Len(tree) = 0 \/ (Len(tree) = 1 /\ IsChain(tree[1].kids))

-----------------------------------------------------------------------------
(* The lists of trees that have the snapshots S, each of them once. *)
RECURSIVE Forests(_)
Forests(S) ==
    IF S = {} THEN {<<>>}
    ELSE UNION {UNION {{<<Node(s, kids)>> \o rest : kids \in Forests(K), rest \in Forests(S \ (K \cup {s}))}
                          : K \in SUBSET (S \ {s})} : s \in S}

(* The nodes of the trees, each with the snapshots that are above it. *)
RECURSIVE Preorder(_, _)
Preorder(tree, above) ==
    FlattenSeq([i \in DOMAIN tree |->
        <<[snap |-> tree[i].snap, above |-> above]>>
            \o Preorder(tree[i].kids, above \cup {tree[i].snap})])
=============================================================================
