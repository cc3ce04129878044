---------------------------- MODULE VMSnapshots ----------------------------
(***************************************************************************)
(* The snapshots of one virtual machine of the simulator.                  *)
(*                                                                         *)
(* A request finds its object (Service.call), waits for the locks and runs *)
(* its task, which holds the lock of the virtual machine to its end        *)
(* (Task.Run, see TaskService): Send and one action per task. What a task  *)
(* removes can be what a request in flight has found. A panic in a task    *)
(* ends the simulator; one in a method is recovered by the HTTP server,    *)
(* but WithLock does not defer its unlock and the machine stays locked.    *)
(*                                                                         *)
(* A snapshot is its number. Its configuration, data sets and files are    *)
(* left out but for the entry of the file layout. The snapshot trees are   *)
(* the list of their nodes in the order of allSnapshotsInTree, a node being *)
(* its snapshot and the set of those above it; SnapshotTrees has them as    *)
(* the nested lists of the code, and MCVMSnapshots compares the two.        *)
(***************************************************************************)
EXTENDS Integers, Sequences, SequencesExt

CONSTANTS
    Clients,
    MaxSnaps,   \* bound: the snapshots ever created
    None

Snaps == 1 .. MaxSnaps
Keys == {"k1", "k2"}

ASSUME VMSnapshotsAssumption == MaxSnaps \in Nat /\ None \notin Snaps /\ None \notin Keys

VARIABLES
    registered,     \* the VirtualMachineSnapshot objects of the registry
    childSnapshot,  \* ChildSnapshot of every snapshot, a set; kept when it is removed
    info,           \* vm.Snapshot # nil
    roots,          \* vm.Snapshot.RootSnapshotList
    current,        \* vm.Snapshot.CurrentSnapshot
    rootSnapshot,   \* vm.RootSnapshot
    layout,         \* the snapshots in vm.Layout.Snapshot and vm.LayoutEx.Snapshot
    sid,            \* the number of the last snapshot
    power, keyId,   \* vm.Runtime.PowerState, vm.Config.KeyId
    gone,           \* the virtual machine is no longer registered
    req,            \* the request of each client
    fate,           \* "ok", "wedged": the VM is locked for good, "crashed": no simulator
    careful         \* the clients take care (see Send); an assumption, not state

snapshots == <<registered, childSnapshot, info, roots, current, rootSnapshot, layout, sid>>
machine == <<power, keyId, gone>>
vars == <<snapshots, machine, req, fate, careful>>

Idle == [op |-> "idle"]
Requests ==
    {[op |-> o] : o \in {"create", "revertCurrent", "removeAll"}}
    \cup [op : {"remove"}, snap : Snaps, children : BOOLEAN]
    \cup [op : {"revert"}, snap : Snaps]

Init ==
    /\ registered = {} /\ childSnapshot = [s \in Snaps |-> {}]
    /\ info = FALSE /\ roots = <<>> /\ current = None /\ rootSnapshot = <<>>
    /\ layout = {} /\ sid = 0
    /\ power = "off" /\ keyId = None /\ gone = FALSE
    /\ req = [c \in Clients |-> Idle]
    /\ fate = "ok" /\ careful \in BOOLEAN

-----------------------------------------------------------------------------
(* Snapshot trees. *)
Node(s, above) == [snap |-> s, above |-> above]
allSnapshotsInTree(tree) == [i \in DOMAIN tree |-> tree[i].snap]
Above(tree, s) == UNION {tree[i].above : i \in {j \in DOMAIN tree : tree[j].snap = s}}
RootRefs(tree) ==
    FlattenSeq([i \in DOMAIN tree |-> IF tree[i].above = {} THEN <<tree[i].snap>> ELSE <<>>])

InTree == ToSet(allSnapshotsInTree(roots))

(* findSnapshotInTree and the append to the list of the node it finds: the new *)
(* node comes after all that are below that one.                               *)
AddChild(tree, ref, s) ==
    LET below == {i \in DOMAIN tree : ref \in tree[i].above \cup {tree[i].snap}}
    IN InsertAt(tree, Max(below) + 1, Node(s, Above(tree, ref) \cup {ref}))

(* The parent of a snapshot below some node of the tree, None for a root. *)
findParentSnapshotInTree(tree, ref) ==
    LET parents == {p \in Above(tree, ref) : Above(tree, ref) = Above(tree, p) \cup {p}}
    IN IF parents = {} THEN None ELSE CHOOSE p \in parents : TRUE

removeSnapshotInTree(tree, ref, removeChildren) ==
    FlattenSeq([i \in DOMAIN tree |->
        IF tree[i].snap = ref \/ (removeChildren /\ ref \in tree[i].above) THEN <<>>
        ELSE <<[tree[i] EXCEPT !.above = @ \ {ref}]>>])

(* isTreeFn finds no node with two children. *)
IsChain(tree) == \A i \in DOMAIN tree : \A j \in 1 .. i - 1 : tree[j].snap \in tree[i].above

-----------------------------------------------------------------------------
(* A request runs when it has the lock of the virtual machine; then the     *)
(* client is free again.                                                    *)
Runs(c, op) ==
    /\ fate = "ok" /\ req[c].op = op
    /\ req' = [req EXCEPT ![c] = Idle]
    /\ UNCHANGED <<machine, careful>>

Breaks(how) == fate' = how /\ UNCHANGED snapshots

(* RemoveSnapshot_Task, given what is left of the tree. Without vm.Snapshot, *)
(* or once the snapshot has been removed, it panics; and so does the change   *)
(* of currentSnapshot to the parent of a root, a nil pointer which            *)
(* ApplyPropertyChange dereferences.                                          *)
RemovesTo(c, left) ==
    /\ Runs(c, "remove")
    /\ LET r == req[c]
           parent == findParentSnapshotInTree(roots, r.snap)
       IN IF \/ gone \/ ~info \/ r.snap \notin registered
             \/ (r.snap = current /\ parent = None /\ left # <<>>)
          THEN Breaks("crashed")
          ELSE /\ roots' = left /\ rootSnapshot' = RootRefs(left)
               /\ info' = (left # <<>>)
               /\ current' = IF left = <<>> THEN None
                             ELSE IF r.snap = current THEN parent ELSE current
               /\ registered' = registered \ {r.snap} /\ layout' = layout \ {r.snap}
               /\ UNCHANGED <<childSnapshot, sid, fate>>

-----------------------------------------------------------------------------
(* Faulty variants of RemoveSnapshot_Task. *)

(* The children of the removed snapshot go with it. *)
RemoveDropsChildren(c) ==
    RemovesTo(c, SelectSeq(roots, LAMBDA n : n.snap # req[c].snap /\ req[c].snap \notin n.above))

(* The children of the removed snapshot become roots. *)
RemoveLiftsChildren(c) ==
    RemovesTo(c, LET r == req[c]
                 IN FlattenSeq([i \in DOMAIN roots |->
                        IF roots[i].snap = r.snap \/ (r.children /\ r.snap \in roots[i].above) THEN <<>>
                        ELSE IF r.snap \notin roots[i].above THEN <<roots[i]>>
                        ELSE <<[roots[i] EXCEPT !.above = @ \ (Above(roots, r.snap) \cup {r.snap})]>>]))

(* RemoveChildren is ignored. *)
RemoveKeepsChildren(c) == RemovesTo(c, removeSnapshotInTree(roots, req[c].snap, FALSE))

(* Without the panic, the removal of a current root leaves no current         *)
(* snapshot although others stay.                                             *)
RemoveUnsetsCurrent(c) ==
    /\ Runs(c, "remove")
    /\ LET r == req[c]
           left == removeSnapshotInTree(roots, r.snap, r.children)
       IN IF gone \/ ~info \/ r.snap \notin registered
          THEN Breaks("crashed")
          ELSE /\ roots' = left /\ rootSnapshot' = RootRefs(left)
               /\ info' = (left # <<>>)
               /\ current' = IF left = <<>> THEN None
                             ELSE IF r.snap = current THEN findParentSnapshotInTree(roots, r.snap)
                             ELSE current
               /\ registered' = registered \ {r.snap} /\ layout' = layout \ {r.snap}
               /\ UNCHANGED <<childSnapshot, sid, fate>>

-----------------------------------------------------------------------------
(* Service.call finds the object of the request. Careful clients have one   *)
(* request in flight at a time and none after UnregisterVM, remove no       *)
(* subtree and not the current snapshot when it is a root and others stay.  *)
Send(c, r) ==
    /\ fate # "crashed" /\ req[c] = Idle
    /\ IF r.op \in {"remove", "revert"} THEN r.snap \in registered ELSE ~gone
    /\ careful =>
        /\ ~gone /\ \A d \in Clients : req[d] = Idle
        /\ r.op = "remove" =>
            /\ ~r.children
            /\ r.snap = current => \/ findParentSnapshotInTree(roots, r.snap) # None
                                   \/ InTree = {r.snap}
    /\ req' = [req EXCEPT ![c] = r]
    /\ UNCHANGED <<snapshots, machine, fate, careful>>

(* CreateSnapshotEx_Task. It registers the snapshot before it looks for the *)
(* current one, of which it expects the object and the node.                *)
CreateSnapshotExTask(c) ==
    /\ Runs(c, "create")
    /\ sid < MaxSnaps
    /\ IF gone \/ (current # None /\ current \notin registered \cap InTree) THEN Breaks("crashed")
       ELSE /\ sid' = sid + 1 /\ info' = TRUE /\ current' = sid + 1
            /\ registered' = registered \cup {sid + 1} /\ layout' = layout \cup {sid + 1}
            /\ IF current = None
               THEN /\ roots' = Append(roots, Node(sid + 1, {}))
                    /\ rootSnapshot' = Append(rootSnapshot, sid + 1)
                    /\ UNCHANGED childSnapshot
               ELSE /\ roots' = AddChild(roots, current, sid + 1)
                    /\ childSnapshot' = [childSnapshot EXCEPT ![current] = @ \cup {sid + 1}]
                    /\ UNCHANGED rootSnapshot
            /\ UNCHANGED fate

(* RemoveSnapshot_Task; RemovesTo is what it does with the new tree. *)
RemoveSnapshotTask(c) ==
    RemovesTo(c, removeSnapshotInTree(roots, req[c].snap, req[c].children))

(* RevertToSnapshot_Task: the snapshot is the one found by Send, registered *)
(* or not, and the update makes a vm.Snapshot when there is none.           *)
RevertToSnapshotTask(c) ==
    /\ Runs(c, "revert")
    /\ IF gone THEN Breaks("crashed")
       ELSE /\ info' = TRUE /\ current' = req[c].snap
            /\ UNCHANGED <<registered, childSnapshot, roots, rootSnapshot, layout, sid, fate>>

(* RevertToCurrentSnapshot_Task looks for the current snapshot in the method *)
(* itself, where a panic leaves the virtual machine locked. Of the machine   *)
(* it only changes the data sets.                                            *)
RevertToCurrentSnapshotTask(c) ==
    /\ Runs(c, "revertCurrent")
    /\ IF current # None /\ current \notin registered THEN Breaks("wedged")
       ELSE UNCHANGED <<snapshots, fate>>

(* RemoveAllSnapshots_Task *)
RemoveAllSnapshotsTask(c) ==
    /\ Runs(c, "removeAll")
    /\ IF gone /\ roots # <<>> THEN Breaks("crashed")
       ELSE /\ info' = FALSE /\ roots' = <<>> /\ current' = None /\ rootSnapshot' = <<>>
            /\ registered' = registered \ InTree /\ layout' = layout \ InTree
            /\ UNCHANGED <<childSnapshot, sid, fate>>

(* powerVMTask.Run; a request for a state the machine cannot go to faults.  *)
PowerTask(state) ==
    /\ fate = "ok" /\ ~gone
    /\ power # state /\ (state = "suspended" => power = "on")
    /\ power' = state
    /\ UNCHANGED <<snapshots, keyId, gone, req, fate, careful>>

hasSnapshots == info /\ current # None

(* updateCrypto, of a ReconfigVM_Task: the checks of each kind of CryptoSpec *)
(* and the new key.                                                          *)
updateCrypto(spec, key) ==
    /\ fate = "ok" /\ ~gone
    /\ spec # "shallowRecrypt" => power = "off" /\ ~hasSnapshots
    /\ spec = "shallowRecrypt" => ~hasSnapshots \/ IsChain(roots)
    /\ IF spec = "encrypt" THEN keyId = None ELSE keyId # None
    /\ keyId' = IF spec = "decrypt" THEN None ELSE key
    /\ UNCHANGED <<snapshots, power, gone, req, fate, careful>>

(* UnregisterVM, alone or in Destroy_Task: the snapshots stay registered.   *)
UnregisterVM ==
    /\ fate = "ok" /\ ~gone /\ power # "on"
    /\ careful => \A c \in Clients : req[c] = Idle
    /\ gone' = TRUE
    /\ UNCHANGED <<snapshots, power, keyId, req, fate, careful>>

Powers == {"on", "off", "suspended"}
CryptoSpecs == {"encrypt", "decrypt", "deepRecrypt", "shallowRecrypt"}

Next ==
    \/ \E c \in Clients, r \in Requests : Send(c, r)
    \/ \E c \in Clients : \/ CreateSnapshotExTask(c) \/ RemoveSnapshotTask(c)
                          \/ RevertToSnapshotTask(c) \/ RevertToCurrentSnapshotTask(c)
                          \/ RemoveAllSnapshotsTask(c)
    \/ \E p \in Powers : PowerTask(p)
    \/ \E spec \in CryptoSpecs, k \in Keys : updateCrypto(spec, k)
    \/ UnregisterVM

Spec == Init /\ [][Next]_vars

-----------------------------------------------------------------------------
(* tree has the nodes of some trees, parents first and each followed by all  *)
(* that are below it.                                                        *)
IsForest(tree) ==
    /\ IsInjective(allSnapshotsInTree(tree))
    /\ \A i \in DOMAIN tree :
        \/ tree[i].above = {}
        \/ \E j \in DOMAIN tree : tree[i].above = tree[j].above \cup {tree[j].snap}
    /\ \A i, j \in DOMAIN tree : tree[j].snap \in tree[i].above =>
        /\ j < i /\ tree[j].above \subseteq tree[i].above
        /\ \A k \in j + 1 .. i - 1 : tree[j].snap \in tree[k].above

(* The type of every variable; the tree has each snapshot once. *)
TypeOK ==
    /\ registered \subseteq Snaps /\ layout \subseteq Snaps
    /\ childSnapshot \in [Snaps -> SUBSET Snaps]
    /\ info \in BOOLEAN /\ current \in Snaps \cup {None} /\ sid \in 0 .. MaxSnaps
    /\ roots \in Seq([snap : Snaps, above : SUBSET Snaps]) /\ IsForest(roots)
    /\ rootSnapshot \in Seq(Snaps)
    /\ power \in Powers /\ keyId \in Keys \cup {None} /\ gone \in BOOLEAN
    /\ req \in [Clients -> Requests \cup {Idle}]
    /\ fate \in {"ok", "wedged", "crashed"} /\ careful \in BOOLEAN

(* The places that record snapshots agree, whatever the clients do and in   *)
(* whatever order: every node of the tree has its object, every object its  *)
(* files, and vm.RootSnapshot lists the roots in the order of the tree.     *)
Consistent ==
    /\ InTree \subseteq registered
    /\ layout = registered
    /\ rootSnapshot = RootRefs(roots)

(* The ancestors of s by the ChildSnapshot lists, those of snapshots that   *)
(* have been removed included: what is in every set that has the parents    *)
(* of s and of its own members.                                             *)
Parents(s) == {p \in Snaps : s \in childSnapshot[p]}
Lineage(s) ==
    {a \in Snaps : \A S \in SUBSET Snaps :
        Parents(s) \subseteq S /\ (\A x \in S : Parents(x) \subseteq S) => a \in S}

(* removeSnapshotInTree hands the children of a removed snapshot to its      *)
(* parent: through any sequence of creations, reverts and removals the tree  *)
(* is the order in which the snapshots descend from each other.              *)
TreeIsLineage == \A s \in InTree : Above(roots, s) = Lineage(s) \cap InTree

(* The four records of the snapshots agree, and the tree is their lineage. *)
TreeOK == TypeOK /\ Consistent /\ TreeIsLineage

(* Clients that take care never end the simulator or lock the machine for    *)
(* good; no object is left behind, vm.Snapshot is nil if and only if there   *)
(* are no snapshots, and otherwise the current one is one of them.           *)
CarefulIsSafe ==
    careful =>
        /\ fate = "ok"
        /\ registered = InTree
        /\ info = (roots # <<>>)
        /\ current \in IF info THEN InTree ELSE {None}

(* "Encrypt requires powered off VM with no snapshots. ... Shallow recrypt    *)
(* works with VMs in any power state and even if snapshots are present as     *)
(* long as it is a single chain": although hasSnapshots only looks at the     *)
(* current snapshot, no key changes while snapshots exist, except for another *)
(* key when they are a chain.                                                 *)
CryptoNeedsNoSnapshots ==
    [][keyId' # keyId =>
        \/ InTree = {} /\ (power = "off" \/ None \notin {keyId, keyId'})
        \/ IsChain(roots) /\ None \notin {keyId, keyId'}]_vars

(* RemoveSnapshot takes the snapshot out of the tree, with its descendants if *)
(* and only if RemoveChildren is set, and nothing else.                       *)
RemovesExactly ==
    [][\A c \in Clients :
        req[c].op = "remove" /\ req'[c] = Idle /\ fate' = "ok" =>
            InTree' = {s \in InTree \ {req[c].snap} :
                          req[c].children => req[c].snap \notin Above(roots, s)}]_vars
=============================================================================
