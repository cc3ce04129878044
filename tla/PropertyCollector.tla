------------------------- MODULE PropertyCollector -------------------------
(***************************************************************************)
(* The simulator's property collector and the client that follows it.      *)
(*                                                                         *)
(* Registry.Put, Update and Remove notify the registered handlers, one     *)
(* after the other and in no fixed order, while they hold object locks:    *)
(*   pc      the collector: queues the update                              *)
(*   filter  its filter: notes in sync that its traversal root has changed *)
(*   view    the ContainerView that is the traversal root: keeps its View  *)
(* WaitForUpdatesEx runs in a goroutine of its own. It collects the view   *)
(* object by object, each under its lock, and answers with pages of        *)
(* updates. The client is property.WaitForUpdates: it calls in a loop,     *)
(* cancels when its context is cancelled, and destroys its collector.      *)
(*                                                                         *)
(* A lock is one owner per object: no context here takes a lock twice      *)
(* except RemoveObject, which is one step. Once an object is removed its   *)
(* lock is a new one, but then nobody reads the object any more. With one  *)
(* filter the update set is the concatenation of its FilterSet.            *)
(***************************************************************************)
EXTENDS Naturals, Sequences, FiniteSets, SequencesExt

CONSTANTS
    Objs,        \* managed objects of the type the filter collects
    Initials,    \* what the folders may hold at the start, sequences of objects
    PutObjs,     \* objects that get created, each in a folder of its own
    RemObjs,     \* objects that get destroyed
    Unlocked,    \* those of them that are removed by somebody without their lock
    Writers,     \* methods that update the objects of WriteObjs, once each
    WriteObjs,
    Others,      \* those of them that update a property the filter does not collect
    Directs,     \* kinds of filters: FALSE traverses the view, TRUE names the objects
    MaxObjects,  \* WaitOptions.MaxObjectUpdates
    MaxWaits,    \* kinds of WaitOptions.MaxWaitSeconds: "none", "some", "zero"
    MayCancel,   \* the client's context may be cancelled
    None

ASSUME PCAssumption ==
    /\ MaxObjects \in Nat \ {0}
    /\ Initials \subseteq Seq(Objs) /\ PutObjs \cup RemObjs \cup WriteObjs \subseteq Objs
    /\ \A s \in Initials : PutObjs \cap ToSet(s) = {}  \* a created object gets a new reference
    /\ Unlocked \subseteq RemObjs \ PutObjs
    /\ Others \subseteq Writers
    /\ Directs \subseteq BOOLEAN
    /\ MaxWaits \subseteq {"none", "some", "zero"}

VARIABLES
    registered,  \* Registry.objects
    children,    \* the ChildEntity of the folders under the root of the view
    val,         \* the value of the collected property of each object
    handlers,    \* Registry.handlers
    lock,        \* the owner of each object's lock
    view,        \* ContainerView.View, or the objects the filter names
    refs, sync,  \* PropertyFilter.refs and sync
    updates,     \* PropertyCollector.updates
    pending,     \* PropertyCollector.pending
    armed,       \* pc.cancel is the cancel function of the call in progress
    cancelled,   \* the context of the call in progress is cancelled
    destroyed,   \* what DestroyPropertyCollector has removed
    pc,          \* place of each goroutine that changes objects,
    todo, inner, \* the handlers it still notifies, of the object and of the view
    obj,         \* the object a method has located
    wpc, w,      \* place and locals of WaitForUpdatesEx
    cpc,         \* place of the client
    version,     \* the version the client sends next
    maxWait,     \* its MaxWaitSeconds
    direct,      \* the kind of its filter
    cache        \* the objects and values the client knows of

registry == <<registered, children, val, handlers, lock, view>>
collector == <<refs, sync, updates, pending, armed, cancelled, destroyed>>
mutators == <<pc, obj, todo, inner>>
client == <<cpc, version, maxWait, direct, cache>>
vars == <<registry, collector, mutators, wpc, w, client>>

Put(o) == <<"put", o>>
Rem(o) == <<"rem", o>>
Write(k) == <<"write", k>>
Wait == <<"wait", None>>
Mutators == {Put(o) : o \in PutObjs} \cup {Rem(o) : o \in RemObjs}
                \cup {Write(k) : k \in Writers}
Handlers == {"pc", "filter", "view"}

Update(k, o, v) == [kind |-> k, obj |-> o, val |-> v]
Updates == [kind : {"enter", "modify", "leave"}, obj : Objs \cup {None}, val : Nat \cup {None}]

(* None is nothing else, and the locks of the filter and the view are no objects. *)
ASSUME NamesAssumption ==
    /\ None \notin Objs \cup Nat \cup Mutators \cup {Wait} /\ None \notin Seq(Updates)
    /\ {"filter", "view"} \cap Objs = {}

(* The locals of a call: the batch of updates it has drained, the set to    *)
(* answer with, the updates of the filter, the objects still to collect and *)
(* the ones collected, what it collects for, and the answer.                *)
NoReply == [kind |-> "none", set |-> <<>>]
Idle == [batch |-> <<>>, set |-> <<>>, fu |-> <<>>, objs |-> <<>>, res |-> <<>>,
         why |-> "initial", reply |-> NoReply]

Init ==
    /\ direct \in Directs
    /\ children \in Initials /\ registered = ToSet(children)
    /\ val = [o \in Objs |-> 0]
    /\ handlers = {}
    /\ lock = [k \in Objs \cup {"filter", "view"} |-> None]
    /\ view = IF direct THEN children ELSE <<>>
    /\ refs = {} /\ sync = FALSE
    /\ updates = <<>> /\ pending = None
    /\ armed = FALSE /\ cancelled = FALSE /\ destroyed = {}
    /\ pc = [t \in Mutators |-> "start"]
    /\ obj = [k \in Writers |-> None]
    /\ todo = [t \in Mutators |-> {}] /\ inner = todo
    /\ wpc = "none" /\ w = Idle
    /\ cpc = IF direct THEN "filter" ELSE "view"
    /\ version = "" /\ maxWait \in MaxWaits /\ cache = [o \in Objs |-> None]

Goto(t, l) == pc' = [pc EXCEPT ![t] = l]

(* applyHandlers: a snapshot of the handlers, notified one by one. *)
Snapshot(t) == todo' = [todo EXCEPT ![t] = handlers]
Notifies(t, h) ==
    /\ pc[t] = "notify" /\ h \in todo[t]
    /\ todo' = [todo EXCEPT ![t] = @ \ {h}]
NotifiesOfView(t, h) ==
    /\ pc[t] = "view" /\ h \in inner[t]
    /\ inner' = [inner EXCEPT ![t] = @ \ {h}]

Acquire(t, k) == lock[k] = None /\ lock' = [lock EXCEPT ![k] = t]
Release(k) == lock' = [lock EXCEPT ![k] = None]

(* PropertyCollector.update *)
Queue(u) ==
    /\ updates' = Append(updates, u)
    /\ UNCHANGED <<refs, sync, pending, armed, cancelled, destroyed>>

(* The call answers. *)
Answer(kind, set) ==
    /\ wpc' = "reply"
    /\ w' = [Idle EXCEPT !.reply = [kind |-> kind, set |-> set]]

-----------------------------------------------------------------------------
(* Faulty variants, each detected by a property at the end of the module.   *)

(* A page that leaves out the first update after the cut. *)
PageSkips(s) ==
    IF Len(s) < MaxObjects THEN [page |-> s, rest |-> None]
    ELSE [page |-> SubSeq(s, 1, MaxObjects), rest |-> SubSeq(s, MaxObjects + 2, Len(s))]

(* A first call that does not listen for updates. *)
BeginDeaf ==
    /\ wpc = "located" /\ pending = None /\ version = ""
    /\ armed' = TRUE
    /\ wpc' = "collect"
    /\ UNCHANGED <<registry, refs, sync, updates, pending, cancelled, destroyed,
                   mutators, w, client>>

(* A cancelled call that ends only with the next update. *)
DoneLate ==
    /\ wpc = "select" /\ cancelled /\ updates # <<>>
    /\ Answer("canceled", <<>>)
    /\ UNCHANGED <<registry, collector, mutators, client>>

(* Objects that leave before they are in the filter are reported all the same. *)
LeaveAnyway ==
    /\ wpc = "batch" /\ w.batch # <<>> /\ Head(w.batch).kind = "leave"
    /\ refs' = refs \ {Head(w.batch).obj}
    /\ w' = [w EXCEPT !.batch = Tail(@), !.fu = Append(@, Head(w.batch))]
    /\ UNCHANGED <<registry, sync, updates, pending, armed, cancelled, destroyed,
                   mutators, wpc, client>>

(* filter.update that forgets to unlock the filter. *)
ResyncEndLocked ==
    /\ wpc = "apply" /\ w.why = "resync"
    /\ wpc' = "batch"
    /\ w' = [w EXCEPT !.res = <<>>]
    /\ UNCHANGED <<registry, collector, mutators, client>>

-----------------------------------------------------------------------------
(* Registry.Put of a new object by folderPutChild, which holds its lock.    *)
(* The folder has the child before the registry has the object.             *)
PutChild(o) ==
    /\ pc[Put(o)] = "start"
    /\ Acquire(Put(o), o)
    /\ children' = Append(children, o)
    /\ Goto(Put(o), "located")
    /\ UNCHANGED <<registered, val, handlers, view, collector, todo, inner, obj,
                   wpc, w, client>>

PutBegin(o) ==
    /\ pc[Put(o)] = "located"
    /\ registered' = registered \cup {o}
    /\ Snapshot(Put(o))
    /\ Goto(Put(o), "notify")
    /\ UNCHANGED <<children, val, handlers, lock, view, collector, inner, obj, wpc, w, client>>

(* PropertyCollector.PutObject *)
PutCollector(o) ==
    /\ Notifies(Put(o), "pc")
    /\ Queue(Update("enter", o, 0))
    /\ UNCHANGED <<registry, pc, inner, obj, wpc, w, client>>

(* ContainerView.PutObject: the folder has the child already, so find finds  *)
(* it, and Registry.Update notifies in turn while the view stays locked.     *)
PutView(o) ==
    /\ Notifies(Put(o), "view")
    /\ Acquire(Put(o), "view")
    /\ view' = Append(view, o)
    /\ inner' = [inner EXCEPT ![Put(o)] = handlers]
    /\ Goto(Put(o), "view")
    /\ UNCHANGED <<registered, children, val, handlers, collector, obj, wpc, w, client>>

(* ... PropertyCollector.UpdateObject ... *)
PutViewCollector(o) ==
    /\ NotifiesOfView(Put(o), "pc")
    /\ Queue(Update("modify", None, 0))
    /\ UNCHANGED <<registry, pc, todo, obj, wpc, w, client>>

(* ... PropertyFilter.UpdateObject, which takes the lock of the filter ... *)
PutViewFilter(o) ==
    /\ NotifiesOfView(Put(o), "filter")
    /\ lock["filter"] = None
    /\ sync' = TRUE
    /\ UNCHANGED <<registry, refs, updates, pending, armed, cancelled, destroyed,
                   pc, todo, obj, wpc, w, client>>

(* ... and the view is unlocked. *)
PutViewEnd(o) ==
    /\ pc[Put(o)] = "view" /\ inner[Put(o)] \subseteq {"view"}
    /\ Release("view")
    /\ Goto(Put(o), "notify")
    /\ UNCHANGED <<registered, children, val, handlers, view, collector, todo, inner, obj,
                   wpc, w, client>>

PutEnd(o) ==
    /\ pc[Put(o)] = "notify" /\ todo[Put(o)] \subseteq {"filter"}
    /\ Release(o)
    /\ Goto(Put(o), "done")
    /\ UNCHANGED <<registered, children, val, handlers, view, collector, todo, inner, obj,
                   wpc, w, client>>

(* Registry.Remove takes no lock. The task that destroys the object holds it; *)
(* RemovePortGroup, the end of a host's ComputeResource and a CreateVM that   *)
(* fails remove an object of which they hold none.                            *)
RemoveBegin(o) ==
    /\ pc[Rem(o)] = "start" /\ o \in registered
    /\ IF o \in Unlocked THEN UNCHANGED lock ELSE Acquire(Rem(o), o)
    /\ Snapshot(Rem(o))
    /\ Goto(Rem(o), "notify")
    /\ UNCHANGED <<registered, children, val, handlers, view, collector, inner, obj, wpc, w, client>>

(* PropertyCollector.RemoveObject *)
RemoveCollector(o) ==
    /\ Notifies(Rem(o), "pc")
    /\ Queue(Update("leave", o, 0))
    /\ UNCHANGED <<registry, pc, inner, obj, wpc, w, client>>

(* ContainerView.RemoveObject: it notifies nobody. *)
RemoveView(o) ==
    /\ Notifies(Rem(o), "view")
    /\ lock["view"] = None
    /\ view' = RemoveFirst(view, o)
    /\ UNCHANGED <<registered, children, val, handlers, lock, collector, pc, inner, obj, wpc, w, client>>

RemoveEnd(o) ==
    /\ pc[Rem(o)] = "notify" /\ todo[Rem(o)] \subseteq {"filter"}
    /\ registered' = registered \ {o}
    /\ IF o \in Unlocked THEN UNCHANGED lock ELSE Release(o)
    /\ Goto(Rem(o), "removed")
    /\ UNCHANGED <<children, val, handlers, view, collector, todo, inner, obj, wpc, w, client>>

(* folderRemoveChild: the folder loses the child last. *)
RemoveChild(o) ==
    /\ pc[Rem(o)] = "removed"
    /\ children' = RemoveFirst(children, o)
    /\ Goto(Rem(o), "done")
    /\ UNCHANGED <<registered, val, handlers, lock, view, collector, todo, inner, obj,
                   wpc, w, client>>

(* A method finds its object, ... *)
WriteLocate(k) ==
    /\ pc[Write(k)] = "start"
    /\ \E o \in WriteObjs \cap registered : obj' = [obj EXCEPT ![k] = o]
    /\ Goto(Write(k), "located")
    /\ UNCHANGED <<registry, collector, todo, inner, wpc, w, client>>

(* ... and updates it under its lock, even if it has been removed meanwhile. *)
WriteUpdate(k) ==
    /\ pc[Write(k)] = "located"
    /\ Acquire(Write(k), obj[k])
    /\ val' = IF k \in Others THEN val ELSE [val EXCEPT ![obj[k]] = @ + 1]
    /\ Snapshot(Write(k))
    /\ Goto(Write(k), "notify")
    /\ UNCHANGED <<registered, children, handlers, view, collector, inner, obj, wpc, w, client>>

(* PropertyCollector.UpdateObject *)
WriteCollector(k) ==
    /\ Notifies(Write(k), "pc")
    /\ Queue(Update("modify", obj[k], IF k \in Others THEN None ELSE val[obj[k]]))
    /\ UNCHANGED <<registry, pc, inner, obj, wpc, w, client>>

WriteEnd(k) ==
    /\ pc[Write(k)] = "notify" /\ "pc" \notin todo[Write(k)]
    /\ Release(obj[k])
    /\ Goto(Write(k), "done")
    /\ UNCHANGED <<registered, children, val, handlers, view, collector, todo, inner, obj,
                   wpc, w, client>>

-----------------------------------------------------------------------------
(* pageUpdateSet: rest is None when nothing is cut off, and may be empty.   *)
Page(s) ==
    IF Len(s) < MaxObjects THEN [page |-> s, rest |-> None]
    ELSE [page |-> SubSeq(s, 1, MaxObjects), rest |-> SubSeq(s, MaxObjects + 1, Len(s))]

AnswerPage(s) ==
    /\ Answer("set", Page(s).page)
    /\ pending' = Page(s).rest

(* Service.call finds the collector, or faults. *)
Locate ==
    /\ wpc = "sent"
    /\ IF "pc" \in destroyed THEN Answer("fault", <<>>)
       ELSE wpc' = "located" /\ UNCHANGED w
    /\ UNCHANGED <<registry, collector, mutators, client>>

(* WaitForUpdatesEx: what is left of the last set, if anything, *)
BeginPending ==
    /\ wpc = "located" /\ pending # None
    /\ armed' = TRUE
    /\ AnswerPage(pending)
    /\ UNCHANGED <<registry, refs, sync, updates, cancelled, destroyed, mutators, client>>

(* or the current state, for which it listens before it collects, *)
BeginInitial ==
    /\ wpc = "located" /\ pending = None /\ version = ""
    /\ armed' = TRUE
    /\ handlers' = handlers \cup {"pc"}
    /\ wpc' = "collect"
    /\ UNCHANGED <<registered, children, val, lock, view, refs, sync, updates, pending, cancelled,
                   destroyed, mutators, w, client>>

(* or the loop. *)
BeginLoop ==
    /\ wpc = "located" /\ pending = None /\ version # ""
    /\ armed' = TRUE
    /\ wpc' = "select"
    /\ UNCHANGED <<registry, refs, sync, updates, pending, cancelled, destroyed,
                   mutators, w, client>>

(* The loop ends when the call is cancelled, when MaxWaitSeconds are over,  *)
(* or at once when they are zero and there is nothing to send.              *)
Done ==
    /\ wpc = "select" /\ cancelled
    /\ Answer("canceled", <<>>)
    /\ UNCHANGED <<registry, collector, mutators, client>>

Deadline ==
    /\ wpc = "select" /\ maxWait = "some"
    /\ Answer("nil", <<>>)
    /\ UNCHANGED <<registry, collector, mutators, client>>

TickEmpty ==
    /\ wpc = "select" /\ maxWait = "zero" /\ updates = <<>>
    /\ Answer("nil", <<>>)
    /\ UNCHANGED <<registry, collector, mutators, client>>

(* A tick drains the updates; one that finds none changes nothing. *)
Tick ==
    /\ wpc = "select" /\ updates # <<>>
    /\ updates' = <<>>
    /\ w' = [w EXCEPT !.batch = updates]
    /\ wpc' = "filter"
    /\ UNCHANGED <<registry, refs, sync, pending, armed, cancelled, destroyed,
                   mutators, client>>

(* The type assertion on the filter of the session's registry fails when    *)
(* DestroyPropertyCollector has removed it.                                 *)
FilterGone ==
    /\ wpc = "filter" /\ "filter" \in destroyed
    /\ wpc' = "panic"
    /\ UNCHANGED <<registry, collector, mutators, w, client>>

(* filter.update: with sync set it forgets its objects, and collects them   *)
(* with the filter locked, to no effect.                                    *)
FilterUpdate ==
    /\ wpc = "filter" /\ "filter" \notin destroyed
    /\ lock["filter"] = None
    /\ IF sync
       THEN /\ Acquire(Wait, "filter")
            /\ sync' = FALSE /\ refs' = {}
            /\ w' = [w EXCEPT !.why = "resync"]
            /\ wpc' = "collect"
       ELSE wpc' = "batch" /\ UNCHANGED <<lock, sync, refs, w>>
    /\ UNCHANGED <<registered, children, val, handlers, view, updates, pending, armed, cancelled,
                   destroyed, mutators, client>>

(* The updates of the batch in turn: create and update collect first ... *)
BatchCollect ==
    /\ wpc = "batch" /\ w.batch # <<>> /\ Head(w.batch).kind # "leave"
    /\ w' = [w EXCEPT !.why = Head(w.batch).kind]
    /\ wpc' = "collect"
    /\ UNCHANGED <<registry, collector, mutators, client>>

(* ... delete reports an object of the filter. *)
BatchLeave ==
    /\ wpc = "batch" /\ w.batch # <<>> /\ Head(w.batch).kind = "leave"
    /\ refs' = refs \ {Head(w.batch).obj}
    /\ w' = [w EXCEPT !.batch = Tail(@),
                      !.fu = IF Head(w.batch).obj \in refs THEN Append(@, Head(w.batch)) ELSE @]
    /\ UNCHANGED <<registry, sync, updates, pending, armed, cancelled, destroyed,
                   mutators, wpc, client>>

(* Entered objects come before the other updates of the filter. *)
BatchEnd ==
    /\ wpc = "batch" /\ w.batch = <<>>
    /\ CASE w.set \o w.fu # <<>> -> AnswerPage(w.set \o w.fu)
         [] w.set \o w.fu = <<>> /\ maxWait = "zero" ->
              Answer("nil", <<>>) /\ UNCHANGED pending
         [] OTHER -> wpc' = "select" /\ w' = Idle /\ UNCHANGED pending
    /\ UNCHANGED <<registry, refs, sync, updates, armed, cancelled, destroyed,
                   mutators, client>>

(* collect: the objects of the filter, read from the view under its lock.   *)
(* pc.apply skips a filter that is gone.                                    *)
Collect ==
    /\ wpc = "collect"
    /\ IF "filter" \in destroyed /\ w.why # "resync"
       THEN wpc' = "apply" /\ UNCHANGED w
       ELSE /\ direct \/ lock["view"] = None
            /\ w' = [w EXCEPT !.objs = view]
            /\ wpc' = "objects"
    /\ UNCHANGED <<registry, collector, mutators, client>>

(* The collected properties of an object. *)
Content(o) == Update("enter", o, val[o])

(* Each object once, under its lock; a missing one is skipped when the view led   *)
(* there, and fails the call when the filter names it.                      *)
CollectObject ==
    /\ wpc = "objects" /\ w.objs # <<>>
    /\ LET o == Head(w.objs) IN
       /\ lock[o] = None
       /\ CASE o \in registered ->
                 /\ w' = [w EXCEPT !.objs = Tail(@),
                                   !.res = IF \E u \in ToSet(@) : u.obj = o THEN @
                                           ELSE Append(@, Content(o))]
                 /\ UNCHANGED wpc
            [] o \notin registered /\ ~direct ->
                 w' = [w EXCEPT !.objs = Tail(@)] /\ UNCHANGED wpc
            [] OTHER -> Answer("fault", <<>>)
    /\ UNCHANGED <<registry, collector, mutators, client>>

CollectEnd ==
    /\ wpc = "objects" /\ w.objs = <<>>
    /\ wpc' = "apply"
    /\ UNCHANGED <<registry, collector, mutators, w, client>>

(* pc.apply: the collected objects that the filter does not have yet enter. *)
ApplyObject ==
    /\ wpc = "apply" /\ w.why # "resync" /\ w.res # <<>>
    /\ refs' = refs \cup {Head(w.res).obj}
    /\ w' = [w EXCEPT !.res = Tail(@),
                      !.set = IF Head(w.res).obj \in refs THEN @ ELSE Append(@, Head(w.res))]
    /\ UNCHANGED <<registry, sync, updates, pending, armed, cancelled, destroyed,
                   mutators, wpc, client>>

(* filter.apply: what of an update the filter's properties match; an update *)
(* of which nothing matches is dropped.                                     *)
Matching(u) == IF u.val = None THEN <<>> ELSE <<u>>

ResyncEnd ==
    /\ wpc = "apply" /\ w.why = "resync"
    /\ Release("filter")
    /\ wpc' = "batch"
    /\ w' = [w EXCEPT !.res = <<>>]
    /\ UNCHANGED <<registered, children, val, handlers, view, collector, mutators, client>>

ApplyInitial ==
    /\ wpc = "apply" /\ w.why = "initial" /\ w.res = <<>>
    /\ AnswerPage(w.set)
    /\ UNCHANGED <<registry, refs, sync, updates, armed, cancelled, destroyed, mutators, client>>

(* A modified object that the filter has by now is reported as well. *)
ApplyBatch ==
    /\ wpc = "apply" /\ w.why \in {"enter", "modify"} /\ w.res = <<>>
    /\ w' = [w EXCEPT
         !.fu = IF w.why = "modify" /\ Head(w.batch).obj \in refs
                THEN @ \o Matching(Head(w.batch)) ELSE @,
         !.batch = Tail(@)]
    /\ wpc' = "batch"
    /\ UNCHANGED <<registry, collector, mutators, client>>

-----------------------------------------------------------------------------
(* CreateContainerView walks the folders, ... *)
CreateView ==
    /\ cpc = "view"
    /\ view' = children
    /\ cpc' = "listen"
    /\ UNCHANGED <<registered, children, val, handlers, lock, collector, mutators, wpc, w,
                   version, maxWait, direct, cache>>

(* ... and listens from then on: what is created in between is not in the view. *)
ListenView ==
    /\ cpc = "listen"
    /\ handlers' = handlers \cup {"view"}
    /\ cpc' = "filter"
    /\ UNCHANGED <<registered, children, val, lock, view, collector, mutators, wpc, w,
                   version, maxWait, direct, cache>>

CreateFilter ==
    /\ cpc = "filter"
    /\ handlers' = handlers \cup {"filter"}
    /\ cpc' = "start"
    /\ UNCHANGED <<registered, children, val, lock, view, collector, mutators, wpc, w,
                   version, maxWait, direct, cache>>

(* The client, property.WaitForUpdates: it calls, ... *)
Send ==
    /\ cpc = "start" /\ wpc = "none"
    /\ cpc' = "waiting" /\ wpc' = "sent"
    /\ armed' = FALSE /\ cancelled' = FALSE
    /\ UNCHANGED <<registry, refs, sync, updates, pending, destroyed, mutators, w,
                   version, maxWait, direct, cache>>

(* ... takes an answer, of which the last update of an object decides, *)
Apply(c, s) ==
    [o \in Objs |-> LET about == {i \in DOMAIN s : s[i].obj = o}
                        u == s[Max(about)]
                    IN  IF about = {} THEN c[o] ELSE IF u.kind = "leave" THEN None ELSE u.val]

Receive ==
    /\ wpc = "reply" /\ cpc = "waiting"
    /\ cache' = Apply(cache, w.reply.set)
    /\ cpc' = CASE w.reply.kind = "set" -> "start"
                [] w.reply.kind = "nil" /\ maxWait = "none" -> "start"
                [] OTHER -> "stop"
    /\ version' = IF w.reply.kind = "set" THEN "-" ELSE version
    /\ wpc' = "none" /\ w' = Idle
    /\ UNCHANGED <<registry, collector, mutators, maxWait, direct>>

(* ... and one that it does not wait for is lost. *)
Lost ==
    /\ wpc = "reply" /\ cpc \in {"cancel", "stop", "stopping", "stopped"}
    /\ wpc' = "none" /\ w' = Idle
    /\ UNCHANGED <<registry, collector, mutators, client>>

(* The context is cancelled: the client gives the call up. *)
CancelContext ==
    /\ MayCancel /\ cpc = "waiting"
    /\ cpc' = "cancel"
    /\ UNCHANGED <<registry, collector, mutators, wpc, w, version, maxWait, direct, cache>>

CancelWaitForUpdates ==
    /\ cpc = "cancel"
    /\ cancelled' = (cancelled \/ armed)
    /\ cpc' = "stop"
    /\ UNCHANGED <<registry, refs, sync, updates, pending, armed, destroyed, mutators,
                   wpc, w, version, maxWait, direct, cache>>

(* DestroyPropertyCollector: cancel, remove the filter, ... *)
DestroyFilter ==
    /\ cpc = "stop"
    /\ cancelled' = (cancelled \/ armed)
    /\ handlers' = handlers \ {"filter"}
    /\ destroyed' = {"filter"}
    /\ cpc' = "stopping"
    /\ UNCHANGED <<registered, children, val, lock, view, refs, sync, updates, pending, armed,
                   mutators, wpc, w, version, maxWait, direct, cache>>

(* ... then the collector. *)
DestroyCollector ==
    /\ cpc = "stopping"
    /\ handlers' = handlers \ {"pc"}
    /\ destroyed' = destroyed \cup {"pc"}
    /\ cpc' = "stopped"
    /\ UNCHANGED <<registered, children, val, lock, view, refs, sync, updates, pending, armed,
                   cancelled, mutators, wpc, w, version, maxWait, direct, cache>>

-----------------------------------------------------------------------------
PutStep(o) ==
    \/ PutChild(o) \/ PutBegin(o) \/ PutCollector(o) \/ PutView(o) \/ PutViewCollector(o)
    \/ PutViewFilter(o) \/ PutViewEnd(o) \/ PutEnd(o)
RemoveStep(o) ==
    \/ RemoveBegin(o) \/ RemoveCollector(o) \/ RemoveView(o) \/ RemoveEnd(o) \/ RemoveChild(o)
WriteStep(k) == WriteLocate(k) \/ WriteUpdate(k) \/ WriteCollector(k) \/ WriteEnd(k)
WaitStep ==
    \/ Locate \/ BeginPending \/ BeginInitial \/ BeginLoop
    \/ Done \/ Deadline \/ TickEmpty \/ Tick
    \/ FilterGone \/ FilterUpdate \/ BatchCollect \/ BatchLeave \/ BatchEnd
    \/ Collect \/ CollectObject \/ CollectEnd \/ ResyncEnd
    \/ ApplyObject \/ ApplyInitial \/ ApplyBatch
ClientStep ==
    \/ CreateView \/ ListenView \/ CreateFilter
    \/ Send \/ Receive \/ Lost
    \/ CancelWaitForUpdates \/ DestroyFilter \/ DestroyCollector

Next ==
    \/ \E o \in PutObjs : PutStep(o)
    \/ \E o \in RemObjs : RemoveStep(o)
    \/ \E k \in Writers : WriteStep(k)
    \/ WaitStep \/ ClientStep \/ CancelContext

(* Goroutines run, a lock that is free is taken and the ticker ticks; a     *)
(* context need not be cancelled.                                           *)
Fairness ==
    /\ \A o \in PutObjs : WF_vars(PutStep(o))
    /\ \A o \in RemObjs : WF_vars(RemoveStep(o))
    /\ \A k \in Writers : WF_vars(WriteStep(k))
    /\ WF_vars(WaitStep) /\ WF_vars(ClientStep)

Spec == Init /\ [][Next]_vars /\ Fairness

-----------------------------------------------------------------------------
(* The type of every variable; an answer has at most MaxObjects updates. *)
TypeOK ==
    /\ registered \subseteq Objs /\ refs \subseteq Objs
    /\ val \in [Objs -> Nat] /\ cache \in [Objs -> Nat \cup {None}]
    /\ handlers \subseteq Handlers
    /\ lock \in [Objs \cup {"filter", "view"} -> Mutators \cup {Wait, None}]
    /\ {view, children} \subseteq Seq(Objs)
    /\ {sync, armed, cancelled} \subseteq BOOLEAN
    /\ updates \in Seq(Updates) /\ pending \in Seq(Updates) \cup {None}
    /\ destroyed \subseteq {"pc", "filter"}
    /\ pc \in [Mutators -> {"start", "located", "notify", "view", "removed", "done"}]
    /\ todo \in [Mutators -> SUBSET Handlers] /\ inner \in [Mutators -> SUBSET Handlers]
    /\ obj \in [Writers -> Objs \cup {None}]
    /\ wpc \in {"none", "sent", "located", "select", "filter", "batch", "collect",
                "objects", "apply", "reply", "panic"}
    /\ {w.batch, w.set, w.fu, w.res, w.reply.set} \subseteq Seq(Updates)
    /\ w.objs \in Seq(Objs) /\ w.why \in {"initial", "resync", "enter", "modify"}
    /\ w.reply.kind \in {"none", "set", "nil", "canceled", "fault"}
    /\ Len(w.reply.set) <= MaxObjects
    /\ cpc \in {"view", "listen", "filter", "start", "waiting", "cancel", "stop", "stopping", "stopped"}
    /\ version \in {"", "-"} /\ maxWait \in MaxWaits /\ direct \in Directs

(* The client waits, the call has nothing to send and nobody is changing objects. *)
Quiet ==
    /\ cpc = "waiting" /\ wpc = "select" /\ updates = <<>>
    /\ \A t \in Mutators : pc[t] \notin {"notify", "view"}

(* WaitForUpdatesEx listens, then collects, then pages: whenever all is quiet the  *)
(* client has the current value of every object of the filter, however the calls,  *)
(* the pages and the changes interleaved.                                          *)
Current == Quiet => \A o \in registered \cap ToSet(view) : cache[o] = val[o]

(* "New and deleted objects matching the filter are accounted for within            *)
(* PropertyCollector": whenever all is quiet the client knows of no removed object, *)
(* but for one whose lock was not held, which may have been collected again between *)
(* the notification of its removal and its removal from the registry.               *)
Accounted == Quiet => \A o \in Objs \ (registered \cup Unlocked) : cache[o] = None

(* The collector only sends the changes and the removal of an object that has     *)
(* entered before, in an earlier answer or earlier in the same one; again but for  *)
(* one removed without its lock, which may enter, leave and then be modified.      *)
KnownFirst ==
    \A i \in DOMAIN w.reply.set : LET u == w.reply.set[i] IN
        \/ u.kind = "enter" \/ cache[u.obj] # None \/ u.obj \in Unlocked
        \/ \E j \in 1 .. i - 1 : w.reply.set[j].obj = u.obj /\ w.reply.set[j].kind = "enter"

(* Every answer is one the client can apply: at most MaxObjects updates, none of   *)
(* them about an object it has not been told of, if that is not removed unlocked.  *)
AnswersOK == TypeOK /\ KnownFirst

(* With removals but no creations the client ends with exactly the objects there   *)
(* are, and their values, of those that are removed under their lock or not at all; *)
(* of the others it has the current values as long as they are there.              *)
FollowsRemovals == Current /\ Accounted

(* "returning on ... We have updates to send to the client": queued updates are    *)
(* answered, or found to be of no interest to the filter.                          *)
Processed ==
    wpc = "select" /\ updates # <<>> ~>
        wpc \in {"none", "reply", "panic"} \/ (wpc = "select" /\ updates = <<>>)

(* "returning on ... Client calls CancelWaitForUpdates": a call that is cancelled ends. *)
CancelEnds == []<>(cancelled => wpc \in {"none", "reply", "panic"})

=============================================================================
