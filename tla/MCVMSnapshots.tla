--------------------------- MODULE MCVMSnapshots ---------------------------
(* Instances of VMSnapshots for TLC. *)
EXTENDS VMSnapshots, TLC

CONSTANTS c1, c2

(* Clients differ in nothing but their requests. *)
Symmetry == Permutations({c1, c2})

-----------------------------------------------------------------------------
Nested == INSTANCE SnapshotTrees

(* The operators on lists of nodes do what the functions of the code do to    *)
(* nested lists: on all trees with a set S of snapshots, for all snapshots    *)
(* to look for, which are in the trees or not, and with and without children. *)
AgreesWithCode(S) ==
    \A tree \in Nested!Forests(S) :
        LET nodes == Nested!Preorder(tree, {})
            new == MaxSnaps + 1
        IN /\ IsForest(nodes)
           /\ allSnapshotsInTree(nodes) = Nested!allSnapshotsInTree(tree)
           /\ RootRefs(nodes) = Nested!RootRefs(tree)
           /\ IsChain(nodes) = Nested!IsChain(tree)
           /\ Append(nodes, Node(new, {})) =
                  Nested!Preorder(Append(tree, Nested!Node(new, <<>>)), {})
           /\ \A s \in S : AddChild(nodes, s, new) =
                  Nested!Preorder(Nested!AddChild(tree, s, Nested!Node(new, <<>>)), {})
           /\ \A s \in Snaps : findParentSnapshotInTree(nodes, s) =
                  Nested!findParentSnapshotInTree(tree, s)
           /\ \A s \in Snaps, children \in BOOLEAN : removeSnapshotInTree(nodes, s, children) =
                  Nested!Preorder(Nested!removeSnapshotInTree(tree, s, children), {})

ASSUME TreesAgree == \A S \in SUBSET Snaps : AgreesWithCode(S)
=============================================================================
