---------------------- MODULE PropertyCollectorProofs ----------------------
(***************************************************************************)
(* The answers of WaitForUpdatesEx are ones the client can apply, and the  *)
(* client that applies them follows the objects: their current values and, *)
(* while no object is created, the removals of those that are removed      *)
(* under their lock.  For any number of objects, of goroutines that        *)
(* create, destroy and update them, any page size and any kind of filter.  *)
(***************************************************************************)
EXTENDS PropertyCollector, WellFoundedInduction, TLAPS

(* What the filter sends: updates of objects, of which something matches. *)
Items == [kind : {"enter", "modify", "leave"}, obj : Objs, val : Nat]

(* What is queued: the value is missing only when an update does not match. *)
Queued == {u \in Updates : u.kind = "leave" => u.val \in Nat}

(* The types of the registry, ... *)
RegistryTypes ==
    /\ registered \subseteq Objs /\ val \in [Objs -> Nat] /\ handlers \subseteq Handlers
    /\ lock \in [Objs \cup {"filter", "view"} -> Mutators \cup {Wait, None}]
    /\ view \in Seq(Objs) /\ children \in Seq(Objs)

(* ... of the collector, ... *)
CollectorTypes ==
    /\ refs \subseteq Objs /\ sync \in BOOLEAN /\ armed \in BOOLEAN /\ cancelled \in BOOLEAN
    /\ updates \in Seq(Queued) /\ pending \in Seq(Items) \cup {None}
    /\ destroyed \subseteq {"pc", "filter"}

(* ... of the goroutines that change objects, ... *)
MutatorTypes ==
    /\ pc \in [Mutators -> {"start", "located", "notify", "view", "removed", "done"}]
    /\ todo \in [Mutators -> SUBSET Handlers] /\ inner \in [Mutators -> SUBSET Handlers]
    /\ obj \in [Writers -> Objs \cup {None}]
    /\ \A k \in Writers : pc[Write(k)] \in {"located", "notify"} => obj[k] \in Objs

(* ... of the call, ... *)
Replies == [kind : {"none", "set", "nil", "canceled", "fault"}, set : Seq(Items)]
Locals == [batch : Seq(Queued), set : Seq(Items), fu : Seq(Items), objs : Seq(Objs),
           res : Seq(Items), why : {"initial", "resync", "enter", "modify"}, reply : Replies]
CallTypes ==
    /\ wpc \in {"none", "sent", "located", "select", "filter", "batch", "collect",
                "objects", "apply", "reply", "panic"}
    /\ w \in Locals /\ Len(w.reply.set) <= MaxObjects

(* ... and of the client. *)
ClientTypes ==
    /\ cpc \in {"view", "listen", "filter", "start", "waiting", "cancel", "stop", "stopping",
                "stopped"}
    /\ version \in {"", "-"} /\ maxWait \in MaxWaits /\ direct \in Directs
    /\ cache \in [Objs -> Nat \cup {None}]

(* Whoever changes an object has its lock, but for who removes one without it. *)
LocksOK ==
    /\ \A o \in PutObjs : pc[Put(o)] \in {"located", "notify", "view"} => lock[o] = Put(o)
    /\ \A o \in RemObjs \ Unlocked : pc[Rem(o)] = "notify" => lock[o] = Rem(o)
    /\ \A k \in Writers : pc[Write(k)] = "notify" => lock[obj[k]] = Write(k)

(* A new object is not registered before, a removed one not any more. *)
RegisteredOK ==
    /\ \A o \in PutObjs : pc[Put(o)] \in {"start", "located"} =>
           o \notin registered /\ (o \in RemObjs => pc[Rem(o)] = "start")
    /\ \A o \in RemObjs : pc[Rem(o)] \in {"removed", "done"} => o \notin registered

(* Only an object whose removal has got past the collector leaves, so that *)
(* nobody who waits for its lock, if it is held, finds it registered.      *)
Gone(o) ==
    o \in RemObjs /\ pc[Rem(o)] \in {"notify", "removed", "done"} /\ "pc" \notin todo[Rem(o)]
Leaving(s) == {s[i].obj : i \in {j \in DOMAIN s : s[j].kind = "leave"}}
LeavesOK == \A o \in Leaving(updates) \cup Leaving(w.batch) \cup Leaving(w.fu) : Gone(o)

(* A call that is not collecting has no updates but those of its answer; one *)
(* that is starts with nothing pending.                                      *)
Collecting == wpc \in {"select", "filter", "batch", "collect", "objects", "apply"}
PlacesOK ==
    /\ wpc \in {"none", "sent", "located", "select"} => w = Idle
    /\ Collecting => pending = None
    /\ wpc # "reply" => w.reply = NoReply
    /\ wpc = "reply" /\ w.reply.kind = "fault" => w.reply.set = <<>>
    /\ wpc \in {"filter", "batch", "collect"} => w.res = <<>>
    /\ wpc \in {"collect", "objects", "apply"} /\ w.why \in {"enter", "modify"} =>
           w.batch # <<>> /\ Head(w.batch).kind = w.why

(* The client gets no more answers, or a last one that has none of the updates. *)
Over ==
    \/ wpc = "none" /\ cpc \in {"cancel", "stop", "stopping", "stopped"}
    \/ wpc = "reply" /\ w.reply.kind = "fault"

(***************************************************************************)
(* q is what a client that knows of c is still to be sent: every change    *)
(* and removal is of an object that it knows of by then, and the filter    *)
(* has only objects that it knows of in the end. None of this holds of an  *)
(* object that is removed without its lock.                                *)
(***************************************************************************)
Entering(s) == {s[i].obj : i \in {j \in DOMAIN s : s[j].kind = "enter"}}
Known(c) == {o \in Objs : c[o] # None}
Sound(c, q) ==
    \A i \in DOMAIN q : q[i].kind # "enter" /\ q[i].obj \notin Unlocked =>
        /\ q[i].obj \in Known(c) \/ \E j \in 1 .. i - 1 : q[j].obj = q[i].obj /\ q[j].kind = "enter"
        /\ \A j \in 1 .. i - 1 : q[j].obj = q[i].obj => q[j].kind # "leave"
Follows(c, q) == refs \ Unlocked \subseteq (Known(c) \cup Entering(q)) \ Leaving(q)

(* Between two collections it is the answer and what is pending, ... *)
Rest == IF pending = None THEN <<>> ELSE pending
Stream == w.reply.set \o Rest
StreamOK ==
    wpc \in {"none", "sent", "located", "reply"} /\ ~Over =>
        Sound(cache, Stream) /\ Follows(cache, Stream)

(* ... during one the entered objects and then the other updates. *)
SetOK == \A i \in DOMAIN w.set : w.set[i].kind = "enter"
FuOK ==
    \A i \in DOMAIN w.fu :
        /\ w.fu[i].kind # "enter"
        /\ w.fu[i].obj \notin Unlocked =>
              /\ w.fu[i].obj \in Known(cache) \cup Entering(w.set)
              /\ \A j \in 1 .. i - 1 : w.fu[j].obj = w.fu[i].obj => w.fu[j].kind # "leave"
RefsOK == refs \ Unlocked \subseteq (Known(cache) \cup Entering(w.set)) \ Leaving(w.fu)
ResOK ==
    \A i \in DOMAIN w.res :
        w.res[i].kind = "enter" /\ w.res[i].obj \notin Leaving(w.fu) \ Unlocked
CollectingOK == Collecting => SetOK /\ FuOK /\ RefsOK /\ ResOK

Types == RegistryTypes /\ CollectorTypes /\ MutatorTypes /\ CallTypes /\ ClientTypes
IInv == Types /\ LocksOK /\ RegisteredOK /\ LeavesOK /\ PlacesOK /\ StreamOK /\ CollectingOK

(***************************************************************************)
(* Second, the client follows the objects. What it will know of an object  *)
(* once it has had all that is on its way:                                 *)
(***************************************************************************)
Out == IF Collecting THEN w.set \o w.fu ELSE Stream
Value(o) == Apply(cache, Out)[o]

(* The collector listens and the client goes on. *)
Tracking ==
    /\ cpc \in {"start", "waiting"} /\ "pc" \in handlers
    /\ ~(wpc = "reply" /\ w.reply.kind = "fault")

(* What the updates s say of the value of o: nothing, or v in the end. *)
Says(u, o) == u.kind = "modify" /\ u.obj = o /\ u.val # None
Silent(s, o) == \A i \in DOMAIN s : ~Says(s[i], o)
Ends(s, o, v) ==
    \E i \in DOMAIN s : /\ Says(s[i], o) /\ s[i].val = v
                        /\ \A j \in DOMAIN s : j > i => ~Says(s[j], o)

(* A method has changed o and has still to tell the collector. *)
Writing(o) ==
    \E k \in Writers \ Others :
        obj[k] = o /\ pc[Write(k)] = "notify" /\ "pc" \in todo[Write(k)]

(* An update for which the objects will be collected is queued, is in the  *)
(* batch after the one for which they are now, or is still to be queued.   *)
Busy(s) == \E i \in DOMAIN s : s[i].kind # "leave"
Later(s) == \E i \in DOMAIN s : i > 1 /\ s[i].kind # "leave"
Creating(t) ==
    \/ pc[t] = "view" /\ "pc" \in inner[t]
    \/ pc[t] \in {"notify", "view"} /\ "pc" \in todo[t]
Collects == wpc \in {"collect", "objects", "apply"} /\ w.why # "resync"
More ==
    \/ Busy(updates)
    \/ IF Collects THEN Later(w.batch) ELSE Busy(w.batch)
    \/ \E p \in PutObjs : Creating(Put(p))

(* o will be collected, or has been and will be applied. *)
Gathered == {w.res[i].obj : i \in DOMAIN w.res}
Collected(o) ==
    \/ Collects /\ (wpc = "collect" \/ o \in ToSet(w.objs) \/ o \in Gathered)
    \/ More

(* Nothing is left to be said of o: the client will know its value. *)
Settled(o) ==
    IF o \in refs THEN Value(o) = val[o]
    ELSE /\ \A i \in DOMAIN w.res : w.res[i].obj = o => w.res[i].val = val[o]
         /\ Value(o) = val[o] \/ Collected(o)
Claim(o) ==
    \/ Gone(o) \/ Writing(o) \/ Ends(updates, o, val[o])
    \/ /\ Silent(updates, o)
       /\ Ends(w.batch, o, val[o]) \/ (Silent(w.batch, o) /\ Settled(o))
CurrentOK == Tracking => \A o \in registered \cap ToSet(view) : Claim(o)

(* A collection misses no object that nothing else will be collected for. *)
CollectedOK ==
    Tracking /\ Collects => \A o \in registered \cap ToSet(view) :
        Gone(o) \/ o \in refs \/ Collected(o)

(* Before the collector listens there is nothing to follow. *)
FreshOK ==
    /\ "pc" \notin handlers /\ cpc # "stopped" =>
           /\ refs = {} /\ updates = <<>> /\ pending = None /\ w = Idle
           /\ cache = [o \in Objs |-> None]
           /\ \A t \in Mutators : "pc" \notin todo[t] /\ "pc" \notin inner[t]
    /\ cpc \in {"view", "listen", "filter"} => "pc" \notin handlers /\ wpc = "none"
    /\ cpc # "stopped" /\ (version = "-" \/ Collecting \/ wpc = "reply") => "pc" \in handlers
    /\ cpc \notin {"stopping", "stopped"} => destroyed = {}
    /\ "pc" \in destroyed => cpc = "stopped"

(* Nobody knows of an object before it is created and in the view, ... *)
UnknownOK ==
    \A o \in PutObjs : pc[Put(o)] \in {"start", "located"} =>
        o \notin refs /\ o \notin Gathered /\ \A k \in Writers : obj[k] # o
New(o) == pc[Put(o)] \in {"start", "located", "notify", "view"}
UnseenOK ==
    \A o \in PutObjs : New(o) /\ o \notin ToSet(view) =>
        o \notin refs /\ o \notin Gathered /\ o \notin ToSet(w.objs)

(* ... and nobody changes it before it is released. *)
UnsaidOK ==
    \A o \in PutObjs : New(o) => Silent(updates, o) /\ Silent(w.batch, o)

(* What a call has gathered, by its place; it reports changes only of the *)
(* objects of the filter, or removals.                                    *)
GatheredOK ==
    /\ wpc # "objects" => w.objs = <<>>
    /\ wpc = "reply" => w.batch = <<>> /\ w.set = <<>> /\ w.fu = <<>> /\ w.res = <<>>
    /\ wpc = "filter" => w.set = <<>> /\ w.fu = <<>>
    /\ Collects /\ w.why = "initial" => w.batch = <<>> /\ w.fu = <<>>
ReportedOK == \A i \in DOMAIN w.fu : w.fu[i].obj \in refs \/ Gone(w.fu[i].obj)

(* An object of the filter that is removed has its removal on its way, if *)
(* it is removed under its lock, ...                                      *)
Removing(o) ==
    \/ o \in RemObjs /\ pc[Rem(o)] = "notify" /\ "pc" \in todo[Rem(o)]
    \/ o \in Leaving(updates) \cup Leaving(w.batch)
Present(o) == o \in registered /\ (o \in RemObjs => pc[Rem(o)] = "start")
RemovedOK ==
    /\ \A o \in RemObjs : pc[Rem(o)] \in {"start", "notify", "removed", "done"}
    /\ Tracking => \A o \in (refs \cup Gathered) \ Unlocked : Present(o) \/ Removing(o)

(* ... and without creations it has all that the client knows of. *)
KnownOK ==
    PutObjs = {} =>
        /\ ~sync
        /\ Tracking => \A o \in Objs : Value(o) # None => o \in refs

TrackInv ==
    /\ FreshOK /\ UnknownOK /\ UnseenOK /\ UnsaidOK /\ GatheredOK /\ ReportedOK
    /\ CurrentOK /\ CollectedOK /\ RemovedOK /\ KnownOK

-----------------------------------------------------------------------------
(* The goroutines are different from each other and from None. *)
LEMMA Names ==
    /\ \A o, q : Put(o) # Rem(q) /\ Put(o) # Write(q) /\ Rem(o) # Write(q)
    /\ \A o, q : (Put(o) = Put(q) => o = q) /\ (Rem(o) = Rem(q) => o = q)
                     /\ (Write(o) = Write(q) => o = q)
    /\ \A o \in PutObjs : Put(o) \in Mutators /\ Put(o) # None /\ o \in Objs
    /\ \A o \in RemObjs : Rem(o) \in Mutators /\ Rem(o) # None /\ o \in Objs
    /\ \A k \in Writers : Write(k) \in Mutators /\ Write(k) # None
<1>1. \A o, q : Put(o) # Rem(q) /\ Put(o) # Write(q) /\ Rem(o) # Write(q)
  BY DEF Put, Rem, Write
<1>2. \A o, q : (Put(o) = Put(q) => o = q) /\ (Rem(o) = Rem(q) => o = q)
                    /\ (Write(o) = Write(q) => o = q)
  BY DEF Put, Rem, Write
<1>3. \A o \in PutObjs : Put(o) \in Mutators /\ o \in Objs
  BY PCAssumption DEF Mutators
<1>4. \A o \in RemObjs : Rem(o) \in Mutators /\ o \in Objs
  BY PCAssumption DEF Mutators
<1>5. \A k \in Writers : Write(k) \in Mutators
  BY DEF Mutators
<1>6. \A t \in Mutators : t # None
  BY NamesAssumption
<1> QED
  BY <1>1, <1>2, <1>3, <1>4, <1>5, <1>6

(* Who creates an object changes nothing of the call or the client, ... *)
LEMMA PutFrame ==
    ASSUME NEW o \in PutObjs, PutStep(o)
    PROVE  /\ UNCHANGED <<refs, pending, armed, cancelled, destroyed, handlers, wpc, w>>
           /\ UNCHANGED <<cpc, version, maxWait, direct, cache>>
<1> DEFINE Goal == /\ UNCHANGED <<refs, pending, armed, cancelled, destroyed, handlers, wpc, w>>
                   /\ UNCHANGED <<cpc, version, maxWait, direct, cache>>
<1>1. PutChild(o) => Goal
  BY DEF PutChild, Goto, Acquire, collector, mutators, client
<1>2. PutBegin(o) => Goal
  BY DEF PutBegin, Goto, Snapshot, collector, mutators, client
<1>3. PutCollector(o) => Goal
  BY DEF PutCollector, Notifies, Queue, registry, collector, mutators, client
<1>4. PutView(o) => Goal
  BY DEF PutView, Goto, Acquire, Notifies, collector, mutators, client
<1>5. PutViewCollector(o) => Goal
  BY DEF PutViewCollector, NotifiesOfView, Queue, registry, collector, mutators, client
<1>6. PutViewFilter(o) => Goal
  BY DEF PutViewFilter, NotifiesOfView, registry, collector, mutators, client
<1>7. PutViewEnd(o) => Goal
  BY DEF PutViewEnd, Goto, Release, collector, mutators, client
<1>8. PutEnd(o) => Goal
  BY DEF PutEnd, Goto, Release, collector, mutators, client
<1> QED
  BY <1>1, <1>2, <1>3, <1>4, <1>5, <1>6, <1>7, <1>8 DEF PutStep

(* ... nor does who removes one, ... *)
LEMMA RemoveFrame ==
    ASSUME NEW o \in RemObjs, RemoveStep(o)
    PROVE  /\ UNCHANGED <<refs, pending, armed, cancelled, destroyed, handlers, wpc, w>>
           /\ UNCHANGED <<cpc, version, maxWait, direct, cache>>
<1> DEFINE Goal == /\ UNCHANGED <<refs, pending, armed, cancelled, destroyed, handlers, wpc, w>>
                   /\ UNCHANGED <<cpc, version, maxWait, direct, cache>>
<1>1. RemoveBegin(o) => Goal
  BY DEF RemoveBegin, Goto, Snapshot, Acquire, collector, mutators, client
<1>2. RemoveCollector(o) => Goal
  BY DEF RemoveCollector, Notifies, Queue, registry, collector, mutators, client
<1>3. RemoveView(o) => Goal
  BY DEF RemoveView, Notifies, collector, mutators, client
<1>4. RemoveEnd(o) => Goal
  BY DEF RemoveEnd, Goto, Release, collector, mutators, client
<1>5. RemoveChild(o) => Goal
  BY DEF RemoveChild, Goto, collector, mutators, client
<1> QED
  BY <1>1, <1>2, <1>3, <1>4, <1>5 DEF RemoveStep

(* ... or updates one. *)
LEMMA WriteFrame ==
    ASSUME NEW k \in Writers, WriteStep(k)
    PROVE  /\ UNCHANGED <<refs, pending, armed, cancelled, destroyed, handlers, wpc, w>>
           /\ UNCHANGED <<cpc, version, maxWait, direct, cache>>
<1> DEFINE Goal == /\ UNCHANGED <<refs, pending, armed, cancelled, destroyed, handlers, wpc, w>>
                   /\ UNCHANGED <<cpc, version, maxWait, direct, cache>>
<1>1. WriteLocate(k) => Goal
  BY DEF WriteLocate, Goto, registry, collector, mutators, client
<1>2. WriteUpdate(k) => Goal
  BY DEF WriteUpdate, Goto, Snapshot, Acquire, collector, mutators, client
<1>3. WriteCollector(k) => Goal
  BY DEF WriteCollector, Notifies, Queue, registry, collector, mutators, client
<1>4. WriteEnd(k) => Goal
  BY DEF WriteEnd, Goto, Release, collector, mutators, client
<1> QED
  BY <1>1, <1>2, <1>3, <1>4 DEF WriteStep

(* The call changes no object, and locks only the filter. *)
LEMMA WaitFrame ==
    ASSUME WaitStep
    PROVE  /\ UNCHANGED <<registered, children, val, view, pc, obj, todo, inner>>
           /\ UNCHANGED <<cpc, version, maxWait, direct, cache, cancelled, destroyed>>
           /\ handlers' = handlers \/ handlers' = handlers \cup {"pc"}
           /\ lock' = lock \/ \E t \in {Wait, None} : lock' = [lock EXCEPT !["filter"] = t]
<1> DEFINE Goal == /\ UNCHANGED <<registered, children, val, view, pc, obj, todo, inner>>
                   /\ UNCHANGED <<cpc, version, maxWait, direct, cache, cancelled, destroyed>>
                   /\ handlers' = handlers \/ handlers' = handlers \cup {"pc"}
                   /\ lock' = lock \/ \E t \in {Wait, None} : lock' = [lock EXCEPT !["filter"] = t]
<1>1. Locate => Goal
  BY DEF Locate, Answer, registry, collector, mutators, client
<1>2. BeginPending => Goal
  BY DEF BeginPending, AnswerPage, Answer, registry, collector, mutators, client
<1>3. BeginInitial => Goal
  BY DEF BeginInitial, mutators, client
<1>4. BeginLoop => Goal
  BY DEF BeginLoop, registry, collector, mutators, client
<1>5. Done => Goal
  BY DEF Done, Answer, registry, collector, mutators, client
<1>6. Deadline => Goal
  BY DEF Deadline, Answer, registry, collector, mutators, client
<1>7. TickEmpty => Goal
  BY DEF TickEmpty, Answer, registry, collector, mutators, client
<1>8. Tick => Goal
  BY DEF Tick, registry, collector, mutators, client
<1>9. FilterGone => Goal
  BY DEF FilterGone, registry, collector, mutators, client
<1>10. FilterUpdate => Goal
  BY DEF FilterUpdate, Acquire, mutators, client
<1>11. BatchCollect => Goal
  BY DEF BatchCollect, registry, collector, mutators, client
<1>12. BatchLeave => Goal
  BY DEF BatchLeave, registry, collector, mutators, client
<1>13. BatchEnd => Goal
  BY DEF BatchEnd, Answer, AnswerPage, registry, collector, mutators, client
<1>14. Collect => Goal
  BY DEF Collect, registry, collector, mutators, client
<1>15. CollectObject => Goal
  BY DEF CollectObject, Answer, registry, collector, mutators, client
<1>16. CollectEnd => Goal
  BY DEF CollectEnd, registry, collector, mutators, client
<1>17. ResyncEnd => Goal
  BY DEF ResyncEnd, Release, collector, mutators, client
<1>18. ApplyObject => Goal
  BY DEF ApplyObject, registry, collector, mutators, client
<1>19. ApplyInitial => Goal
  BY DEF ApplyInitial, AnswerPage, Answer, registry, collector, mutators, client
<1>20. ApplyBatch => Goal
  BY DEF ApplyBatch, registry, collector, mutators, client
<1> QED
  BY <1>1, <1>2, <1>3, <1>4, <1>5, <1>6, <1>7, <1>8, <1>9, <1>10, <1>11, <1>12, <1>13, <1>14,
     <1>15, <1>16, <1>17, <1>18, <1>19, <1>20
    DEF WaitStep

(* The client changes no object. *)
LEMMA ClientFrame ==
    ASSUME ClientStep
    PROVE  /\ UNCHANGED <<registered, children, val, lock, refs, sync, updates, pending>>
           /\ UNCHANGED <<pc, obj, todo, inner>>
           /\ (view' = view \/ view' = children) /\ (w' = w \/ w' = Idle)
<1> DEFINE Goal == /\ UNCHANGED <<registered, children, val, lock, refs, sync, updates, pending>>
                   /\ UNCHANGED <<pc, obj, todo, inner>>
                   /\ (view' = view \/ view' = children) /\ (w' = w \/ w' = Idle)
<1>1. CreateView => Goal
  BY DEF CreateView, collector, mutators, client
<1>2. ListenView => Goal
  BY DEF ListenView, collector, mutators, client
<1>3. CreateFilter => Goal
  BY DEF CreateFilter, collector, mutators, client
<1>4. Send => Goal
  BY DEF Send, registry, collector, mutators, client
<1>5. Receive => Goal
  BY DEF Receive, registry, collector, mutators, client
<1>6. Lost => Goal
  BY DEF Lost, registry, collector, mutators, client
<1>7. CancelWaitForUpdates => Goal
  BY DEF CancelWaitForUpdates, registry, collector, mutators, client
<1>8. DestroyFilter => Goal
  BY DEF DestroyFilter, mutators, client
<1>9. DestroyCollector => Goal
  BY DEF DestroyCollector, mutators, client
<1> QED
  BY <1>1, <1>2, <1>3, <1>4, <1>5, <1>6, <1>7, <1>8, <1>9 DEF ClientStep

-----------------------------------------------------------------------------
(* Every set of natural numbers that has a bound has a greatest one. *)
LEMMA LeastNat ==
    ASSUME NEW T \in SUBSET Nat, T # {}
    PROVE  \E m \in T : \A k \in T : m <= k
<1> DEFINE R == {p \in Nat \X Nat : p[1] < p[2]}
<1>1. IsWellFoundedOn(R, Nat)
  BY NatLessThanWellFounded DEF OpToRel
<1>2. PICK m \in T : \A k \in T : ~ (<<k, m>> \in R)
  <2> HIDE DEF R
  <2> QED
    BY <1>1, WFMin
<1>3. ASSUME NEW k \in T PROVE m <= k
  <2>1. k < m => <<k, m>> \in R
    OBVIOUS
  <2>2. ~(k < m)
    BY <1>2, <2>1
  <2> QED
    BY <2>2
<1> QED
  BY <1>3

LEMMA MinIn ==
    ASSUME NEW T \in SUBSET Nat, T # {}
    PROVE  Min(T) \in T /\ \A k \in T : Min(T) <= k
<1>1. \E m \in T : \A k \in T : m <= k
  BY LeastNat
<1> QED
  BY <1>1, Zenon DEF Min

LEMMA MaxIn ==
    ASSUME NEW n \in Nat, NEW T \in SUBSET (1 .. n), T # {}
    PROVE  Max(T) \in T /\ \A k \in T : k <= Max(T)
<1> DEFINE D == {n - k : k \in T}
<1>1. D \in SUBSET Nat /\ D # {}
  <2>1. \A k \in T : n - k \in Nat
    OBVIOUS
  <2>2. PICK k \in T : TRUE
    OBVIOUS
  <2>3. n - k \in D
    OBVIOUS
  <2> QED
    BY <2>1, <2>3, Zenon
<1>2. PICK d \in D : \A e \in D : d <= e
  <2> HIDE DEF D
  <2> QED
    BY <1>1, LeastNat
<1>3. PICK m \in T : d = n - m
  BY <1>2
<1>4. ASSUME NEW k \in T PROVE k <= m
  <2>1. n - k \in D
    OBVIOUS
  <2>2. n - m <= n - k
    BY <1>2, <1>3, <2>1
  <2> QED
    BY <2>2
<1>5. \E i \in T : \A k \in T : i >= k
  BY <1>4
<1>6. Max(T) \in T /\ \A k \in T : Max(T) >= k
  BY <1>5, Zenon DEF Max
<1> QED
  BY <1>6

(* Sequences, element by element. *)
LEMMA SeqFacts ==
    ASSUME NEW S, NEW l \in Seq(S)
    PROVE  /\ Len(l) \in Nat /\ DOMAIN l = 1 .. Len(l) /\ (l # <<>> <=> Len(l) > 0)
           /\ \A n \in 1 .. Len(l) : l[n] \in S
           /\ \A e \in S : /\ Append(l, e) \in Seq(S) /\ Len(Append(l, e)) = Len(l) + 1
                            /\ \A i \in 1 .. Len(l) : Append(l, e)[i] = l[i]
                            /\ Append(l, e)[Len(l) + 1] = e
  OBVIOUS

LEMMA TailFacts ==
    ASSUME NEW S, NEW l \in Seq(S), l # <<>>
    PROVE  /\ Head(l) = l[1] /\ l[1] \in S
           /\ Tail(l) \in Seq(S) /\ Len(Tail(l)) = Len(l) - 1
           /\ \A i \in 1 .. Len(l) - 1 : Tail(l)[i] = l[i + 1]
  OBVIOUS

LEMMA SubSeqFacts ==
    ASSUME NEW S, NEW l \in Seq(S), NEW a \in 1 .. Len(l) + 1, NEW b \in a - 1 .. Len(l)
    PROVE  /\ SubSeq(l, a, b) \in Seq(S) /\ Len(SubSeq(l, a, b)) = b - a + 1
           /\ \A i \in 1 .. b - a + 1 : SubSeq(l, a, b)[i] = l[a + i - 1]
  OBVIOUS

LEMMA ConcatFacts ==
    ASSUME NEW S, NEW l \in Seq(S), NEW m \in Seq(S)
    PROVE  /\ l \o m \in Seq(S) /\ Len(l \o m) = Len(l) + Len(m)
           /\ \A i \in 1 .. Len(l) : (l \o m)[i] = l[i]
           /\ \A i \in 1 .. Len(m) : (l \o m)[Len(l) + i] = m[i]
           /\ l \o <<>> = l /\ <<>> \o l = l
  OBVIOUS

LEMMA ConcatEmpty ==
    ASSUME NEW S, NEW l \in Seq(S), NEW m \in Seq(S), l \o m = <<>>
    PROVE  l = <<>> /\ m = <<>>
<1>1. Len(l) \in Nat /\ Len(m) \in Nat /\ Len(l \o m) = Len(l) + Len(m)
  OBVIOUS
<1>2. Len(l \o m) = 0
  OBVIOUS
<1>3. Len(l) = 0 /\ Len(m) = 0
  BY <1>1, <1>2
<1> QED
  BY <1>3

LEMMA SameSeq ==
    ASSUME NEW S, NEW l \in Seq(S), NEW m \in Seq(S), Len(l) = Len(m),
           \A i \in 1 .. Len(m) : l[i] = m[i]
    PROVE  l = m
  OBVIOUS

LEMMA RemoveFirstSeq ==
    ASSUME NEW S, NEW l \in Seq(S), NEW e
    PROVE  RemoveFirst(l, e) \in Seq(S)
<1>1. CASE ~\E i \in 1 .. Len(l) : l[i] = e
  BY <1>1 DEF RemoveFirst
<1>2. CASE \E i \in 1 .. Len(l) : l[i] = e
  <2> DEFINE I == {i \in 1 .. Len(l) : l[i] = e}
             n == SelectInSeq(l, LAMBDA v : v = e)
  <2>1. n = Min(I) /\ I # {} /\ I \in SUBSET Nat
    BY <1>2 DEF SelectInSeq
  <2>2. n \in 1 .. Len(l) /\ Len(l) \in Nat
    <3>1. Min(I) \in I
      <4> HIDE DEF I
      <4> QED
        BY <2>1, MinIn
    <3> QED
      BY <2>1, <3>1
  <2>3. RemoveFirst(l, e) = RemoveAt(l, n)
    BY <1>2 DEF RemoveFirst
  <2> HIDE DEF n
  <2>4. SubSeq(l, 1, n - 1) \in Seq(S) /\ SubSeq(l, n + 1, Len(l)) \in Seq(S)
    BY <2>2, SubSeqFacts
  <2> QED
    BY <2>3, <2>4, ConcatFacts DEF RemoveAt
<1> QED
  BY <1>1, <1>2

-----------------------------------------------------------------------------
(* What is sent is an update. *)
LEMMA ItemFacts ==
    /\ Items \subseteq Queued
    /\ \A k \in {"enter", "modify", "leave"}, o \in Objs \cup {None}, v \in Nat \cup {None} :
           /\ (k = "leave" => v \in Nat) => Update(k, o, v) \in Queued
           /\ Update(k, o, v).kind = k /\ Update(k, o, v).obj = o /\ Update(k, o, v).val = v
           /\ o \in Objs /\ v \in Nat => Update(k, o, v) \in Items
    /\ Queued \subseteq Updates /\ \A u \in Updates : u.obj \in Objs /\ u.val # None => u \in Items
  BY DEF Items, Queued, Updates, Update

(* Every step keeps the types of the registry. *)
LEMMA RegistryStep == IInv /\ [Next]_vars => RegistryTypes'
<1> SUFFICES ASSUME IInv, [Next]_vars PROVE RegistryTypes'
  OBVIOUS
<1>1. ASSUME NEW o \in PutObjs, PutChild(o) PROVE RegistryTypes'
  BY <1>1, Names
    DEF PutChild, Goto, Acquire, IInv, Types, RegistryTypes, Handlers, collector, mutators,
        client
<1>2. ASSUME NEW o \in PutObjs, PutBegin(o) PROVE RegistryTypes'
  BY <1>2, Names
    DEF PutBegin, Goto, Snapshot, IInv, Types, RegistryTypes, Handlers, collector, mutators,
        client
<1>3. ASSUME NEW o \in PutObjs, PutCollector(o) PROVE RegistryTypes'
  BY <1>3, Names
    DEF PutCollector, Notifies, Queue, IInv, Types, RegistryTypes, Handlers, registry,
        collector, mutators, client
<1>4. ASSUME NEW o \in PutObjs, PutView(o) PROVE RegistryTypes'
  BY <1>4, Names
    DEF PutView, Goto, Acquire, Notifies, IInv, Types, RegistryTypes, Handlers, collector,
        mutators, client
<1>5. ASSUME NEW o \in PutObjs, PutViewCollector(o) PROVE RegistryTypes'
  BY <1>5, Names
    DEF PutViewCollector, NotifiesOfView, Queue, IInv, Types, RegistryTypes, Handlers,
        registry, collector, mutators, client
<1>6. ASSUME NEW o \in PutObjs, PutViewFilter(o) PROVE RegistryTypes'
  BY <1>6, Names
    DEF PutViewFilter, NotifiesOfView, IInv, Types, RegistryTypes, Handlers, registry,
        collector, mutators, client
<1>7. ASSUME NEW o \in PutObjs, PutViewEnd(o) PROVE RegistryTypes'
  BY <1>7, Names
    DEF PutViewEnd, Goto, Release, IInv, Types, RegistryTypes, Handlers, collector,
        mutators, client
<1>8. ASSUME NEW o \in PutObjs, PutEnd(o) PROVE RegistryTypes'
  BY <1>8, Names
    DEF PutEnd, Goto, Release, IInv, Types, RegistryTypes, Handlers, collector, mutators,
        client
<1>9. ASSUME NEW o \in RemObjs, RemoveBegin(o) PROVE RegistryTypes'
  BY <1>9, Names
    DEF RemoveBegin, Goto, Snapshot, Acquire, IInv, Types, RegistryTypes, Handlers,
        collector, mutators, client
<1>10. ASSUME NEW o \in RemObjs, RemoveCollector(o) PROVE RegistryTypes'
  BY <1>10, Names
    DEF RemoveCollector, Notifies, Queue, IInv, Types, RegistryTypes, Handlers, registry,
        collector, mutators, client
<1>11. ASSUME NEW o \in RemObjs, RemoveView(o) PROVE RegistryTypes'
  BY <1>11, Names, RemoveFirstSeq
    DEF RemoveView, Notifies, IInv, Types, RegistryTypes, Handlers, collector, mutators,
        client
<1>12. ASSUME NEW o \in RemObjs, RemoveEnd(o) PROVE RegistryTypes'
  BY <1>12, Names
    DEF RemoveEnd, Goto, Release, IInv, Types, RegistryTypes, Handlers, collector, mutators,
        client
<1>13. ASSUME NEW o \in RemObjs, RemoveChild(o) PROVE RegistryTypes'
  BY <1>13, Names, RemoveFirstSeq
    DEF RemoveChild, Goto, IInv, Types, RegistryTypes, Handlers, collector, mutators, client
<1>14. ASSUME NEW k \in Writers, WriteLocate(k) PROVE RegistryTypes'
  BY <1>14, Names
    DEF WriteLocate, Goto, IInv, Types, RegistryTypes, Handlers, registry, collector,
        mutators, client
<1>15. ASSUME NEW k \in Writers, WriteUpdate(k) PROVE RegistryTypes'
  BY <1>15, Names, NamesAssumption
    DEF WriteUpdate, Goto, Snapshot, Acquire, IInv, Types, RegistryTypes, Handlers,
        MutatorTypes, collector, mutators, client
<1>16. ASSUME NEW k \in Writers, WriteCollector(k) PROVE RegistryTypes'
  BY <1>16, Names
    DEF WriteCollector, Notifies, Queue, IInv, Types, RegistryTypes, Handlers, registry,
        collector, mutators, client
<1>17. ASSUME NEW k \in Writers, WriteEnd(k) PROVE RegistryTypes'
  BY <1>17, Names, NamesAssumption
    DEF WriteEnd, Goto, Release, IInv, Types, RegistryTypes, Handlers, MutatorTypes,
        collector, mutators, client
<1>18. CASE WaitStep
  BY <1>18, Names, WaitFrame DEF IInv, Types, RegistryTypes, Handlers
<1>19. CASE CreateView
  BY <1>19, Names
    DEF CreateView, IInv, Types, RegistryTypes, Handlers, collector, mutators, client
<1>20. CASE ListenView
  BY <1>20, Names
    DEF ListenView, IInv, Types, RegistryTypes, Handlers, collector, mutators, client
<1>21. CASE CreateFilter
  BY <1>21, Names
    DEF CreateFilter, IInv, Types, RegistryTypes, Handlers, collector, mutators, client
<1>22. CASE Send
  BY <1>22, Names
    DEF Send, IInv, Types, RegistryTypes, Handlers, registry, collector, mutators, client
<1>23. CASE Receive
  BY <1>23, Names
    DEF Receive, IInv, Types, RegistryTypes, Handlers, registry, collector, mutators, client
<1>24. CASE Lost
  BY <1>24, Names
    DEF Lost, IInv, Types, RegistryTypes, Handlers, registry, collector, mutators, client
<1>25. CASE CancelWaitForUpdates
  BY <1>25, Names
    DEF CancelWaitForUpdates, IInv, Types, RegistryTypes, Handlers, registry, collector,
        mutators, client
<1>26. CASE DestroyFilter
  BY <1>26, Names DEF DestroyFilter, IInv, Types, RegistryTypes, Handlers, mutators, client
<1>27. CASE DestroyCollector
  BY <1>27, Names DEF DestroyCollector, IInv, Types, RegistryTypes, Handlers, mutators, client
<1>28. CASE CancelContext
  BY <1>28, Names
    DEF CancelContext, IInv, Types, RegistryTypes, Handlers, registry, collector, mutators,
        client
<1>29. CASE UNCHANGED vars
  BY <1>29, Names
    DEF IInv, Types, RegistryTypes, Handlers, vars, registry, collector, mutators, client
<1> QED
  BY <1>1, <1>2, <1>3, <1>4, <1>5, <1>6, <1>7, <1>8, <1>9, <1>10, <1>11, <1>12, <1>13, <1>14,
     <1>15, <1>16, <1>17, <1>18, <1>19, <1>20, <1>21, <1>22, <1>23, <1>24, <1>25, <1>26, <1>27,
     <1>28, <1>29
    DEF Next, PutStep, RemoveStep, WriteStep, ClientStep

(* Every step keeps the types of the goroutines. *)
LEMMA MutatorStep == IInv /\ [Next]_vars => MutatorTypes'
<1> SUFFICES ASSUME IInv, [Next]_vars PROVE MutatorTypes'
  OBVIOUS
<1>1. ASSUME NEW o \in PutObjs, PutChild(o) PROVE MutatorTypes'
  BY <1>1, Names
    DEF PutChild, Goto, Acquire, IInv, Types, MutatorTypes, RegistryTypes, collector,
        mutators, client
<1>2. ASSUME NEW o \in PutObjs, PutBegin(o) PROVE MutatorTypes'
  BY <1>2, Names
    DEF PutBegin, Goto, Snapshot, IInv, Types, MutatorTypes, RegistryTypes, collector,
        mutators, client
<1>3. ASSUME NEW o \in PutObjs, PutCollector(o) PROVE MutatorTypes'
  BY <1>3, Names
    DEF PutCollector, Notifies, Queue, IInv, Types, MutatorTypes, RegistryTypes, registry,
        collector, mutators, client
<1>4. ASSUME NEW o \in PutObjs, PutView(o) PROVE MutatorTypes'
  BY <1>4, Names
    DEF PutView, Goto, Acquire, Notifies, IInv, Types, MutatorTypes, RegistryTypes,
        collector, mutators, client
<1>5. ASSUME NEW o \in PutObjs, PutViewCollector(o) PROVE MutatorTypes'
  BY <1>5, Names
    DEF PutViewCollector, NotifiesOfView, Queue, IInv, Types, MutatorTypes, RegistryTypes,
        registry, collector, mutators, client
<1>6. ASSUME NEW o \in PutObjs, PutViewFilter(o) PROVE MutatorTypes'
  BY <1>6, Names
    DEF PutViewFilter, NotifiesOfView, IInv, Types, MutatorTypes, RegistryTypes, registry,
        collector, mutators, client
<1>7. ASSUME NEW o \in PutObjs, PutViewEnd(o) PROVE MutatorTypes'
  BY <1>7, Names
    DEF PutViewEnd, Goto, Release, IInv, Types, MutatorTypes, RegistryTypes, collector,
        mutators, client
<1>8. ASSUME NEW o \in PutObjs, PutEnd(o) PROVE MutatorTypes'
  BY <1>8, Names
    DEF PutEnd, Goto, Release, IInv, Types, MutatorTypes, RegistryTypes, collector,
        mutators, client
<1>9. ASSUME NEW o \in RemObjs, RemoveBegin(o) PROVE MutatorTypes'
  BY <1>9, Names
    DEF RemoveBegin, Goto, Snapshot, Acquire, IInv, Types, MutatorTypes, RegistryTypes,
        collector, mutators, client
<1>10. ASSUME NEW o \in RemObjs, RemoveCollector(o) PROVE MutatorTypes'
  BY <1>10, Names
    DEF RemoveCollector, Notifies, Queue, IInv, Types, MutatorTypes, RegistryTypes,
        registry, collector, mutators, client
<1>11. ASSUME NEW o \in RemObjs, RemoveView(o) PROVE MutatorTypes'
  BY <1>11, Names
    DEF RemoveView, Notifies, IInv, Types, MutatorTypes, RegistryTypes, collector, mutators,
        client
<1>12. ASSUME NEW o \in RemObjs, RemoveEnd(o) PROVE MutatorTypes'
  BY <1>12, Names
    DEF RemoveEnd, Goto, Release, IInv, Types, MutatorTypes, RegistryTypes, collector,
        mutators, client
<1>13. ASSUME NEW o \in RemObjs, RemoveChild(o) PROVE MutatorTypes'
  BY <1>13, Names
    DEF RemoveChild, Goto, IInv, Types, MutatorTypes, RegistryTypes, collector, mutators,
        client
<1>14. ASSUME NEW k \in Writers, WriteLocate(k) PROVE MutatorTypes'
  BY <1>14, Names, PCAssumption
    DEF WriteLocate, Goto, IInv, Types, MutatorTypes, RegistryTypes, registry, collector,
        mutators, client
<1>15. ASSUME NEW k \in Writers, WriteUpdate(k) PROVE MutatorTypes'
  BY <1>15, Names
    DEF WriteUpdate, Goto, Snapshot, Acquire, IInv, Types, MutatorTypes, RegistryTypes,
        collector, mutators, client
<1>16. ASSUME NEW k \in Writers, WriteCollector(k) PROVE MutatorTypes'
  BY <1>16, Names
    DEF WriteCollector, Notifies, Queue, IInv, Types, MutatorTypes, RegistryTypes, registry,
        collector, mutators, client
<1>17. ASSUME NEW k \in Writers, WriteEnd(k) PROVE MutatorTypes'
  BY <1>17, Names
    DEF WriteEnd, Goto, Release, IInv, Types, MutatorTypes, RegistryTypes, collector,
        mutators, client
<1>18. CASE WaitStep
  BY <1>18, Names, WaitFrame DEF IInv, Types, MutatorTypes, RegistryTypes
<1>19. CASE ClientStep
  BY <1>19, Names, ClientFrame DEF IInv, Types, MutatorTypes, RegistryTypes
<1>20. CASE CancelContext
  BY <1>20, Names
    DEF CancelContext, IInv, Types, MutatorTypes, RegistryTypes, registry, collector,
        mutators, client
<1>21. CASE UNCHANGED vars
  BY <1>21, Names
    DEF IInv, Types, MutatorTypes, RegistryTypes, vars, registry, collector, mutators,
        client
<1> QED
  BY <1>1, <1>2, <1>3, <1>4, <1>5, <1>6, <1>7, <1>8, <1>9, <1>10, <1>11, <1>12, <1>13, <1>14,
     <1>15, <1>16, <1>17, <1>18, <1>19, <1>20, <1>21
    DEF Next, PutStep, RemoveStep, WriteStep

(* Nobody takes or releases a lock that another has. *)
LEMMA LocksStep == IInv /\ [Next]_vars => LocksOK'
<1> SUFFICES ASSUME IInv, [Next]_vars PROVE LocksOK'
  OBVIOUS
<1>1. ASSUME NEW o \in PutObjs, PutChild(o) PROVE LocksOK'
  BY <1>1, Names, NamesAssumption
    DEF PutChild, Goto, Acquire, IInv, LocksOK, Types, RegistryTypes, MutatorTypes,
        collector, mutators, client
<1>2. ASSUME NEW o \in PutObjs, PutBegin(o) PROVE LocksOK'
  BY <1>2, Names, NamesAssumption
    DEF PutBegin, Goto, Snapshot, IInv, LocksOK, Types, RegistryTypes, MutatorTypes,
        collector, mutators, client
<1>3. ASSUME NEW o \in PutObjs, PutCollector(o) PROVE LocksOK'
  BY <1>3, Names, NamesAssumption
    DEF PutCollector, Notifies, Queue, IInv, LocksOK, Types, RegistryTypes, MutatorTypes,
        registry, collector, mutators, client
<1>4. ASSUME NEW o \in PutObjs, PutView(o) PROVE LocksOK'
  BY <1>4, Names, NamesAssumption
    DEF PutView, Goto, Acquire, Notifies, IInv, LocksOK, Types, RegistryTypes, MutatorTypes,
        collector, mutators, client
<1>5. ASSUME NEW o \in PutObjs, PutViewCollector(o) PROVE LocksOK'
  BY <1>5, Names, NamesAssumption
    DEF PutViewCollector, NotifiesOfView, Queue, IInv, LocksOK, Types, RegistryTypes,
        MutatorTypes, registry, collector, mutators, client
<1>6. ASSUME NEW o \in PutObjs, PutViewFilter(o) PROVE LocksOK'
  BY <1>6, Names, NamesAssumption
    DEF PutViewFilter, NotifiesOfView, IInv, LocksOK, Types, RegistryTypes, MutatorTypes,
        registry, collector, mutators, client
<1>7. ASSUME NEW o \in PutObjs, PutViewEnd(o) PROVE LocksOK'
  BY <1>7, Names, NamesAssumption
    DEF PutViewEnd, Goto, Release, IInv, LocksOK, Types, RegistryTypes, MutatorTypes,
        collector, mutators, client
<1>8. ASSUME NEW o \in PutObjs, PutEnd(o) PROVE LocksOK'
  BY <1>8, Names, NamesAssumption
    DEF PutEnd, Goto, Release, IInv, LocksOK, Types, RegistryTypes, MutatorTypes, collector,
        mutators, client
<1>9. ASSUME NEW o \in RemObjs, RemoveBegin(o) PROVE LocksOK'
  <2>1. /\ obj' = obj /\ pc' = [pc EXCEPT ![Rem(o)] = "notify"]
        /\ IF o \in Unlocked THEN lock' = lock
           ELSE lock' = [lock EXCEPT ![o] = Rem(o)] /\ lock[o] = None
    BY <1>9 DEF RemoveBegin, Goto, Acquire
  <2>2. o \in Objs /\ Rem(o) \in Mutators
    BY <1>9, Names
  <2>3. /\ lock = [x \in Objs \cup {"filter", "view"} |-> lock[x]]
        /\ pc = [x \in Mutators |-> pc[x]]
        /\ \A k \in Writers : pc[Write(k)] = "notify" => obj[k] \in Objs
    BY DEF IInv, Types, RegistryTypes, MutatorTypes
  <2>4. /\ o \notin Unlocked => lock'[o] = Rem(o)
        /\ \A x \in Objs : lock[x] # None => lock'[x] = lock[x]
    BY <2>1, <2>2, <2>3
  <2>5. \A x \in Mutators : x # Rem(o) => pc'[x] = pc[x]
    BY <2>1, <2>2, <2>3
  <2>6. /\ \A q \in PutObjs : Put(q) \in Mutators /\ Put(q) # Rem(o) /\ Put(q) # None /\ q \in Objs
        /\ \A q \in RemObjs : Rem(q) \in Mutators /\ (q # o => Rem(q) # Rem(o)) /\ Rem(q) # None /\ q \in Objs
        /\ \A k \in Writers : Write(k) \in Mutators /\ Write(k) # Rem(o) /\ Write(k) # None
    BY Names
  <2>7. \A q \in PutObjs : pc'[Put(q)] \in {"located", "notify", "view"} => lock'[q] = Put(q)
    BY <2>4, <2>5, <2>6 DEF IInv, LocksOK
  <2>8. \A q \in RemObjs \ Unlocked : pc'[Rem(q)] = "notify" => lock'[q] = Rem(q)
    BY <2>4, <2>5, <2>6 DEF IInv, LocksOK
  <2>9. \A k \in Writers : pc'[Write(k)] = "notify" => lock'[obj'[k]] = Write(k)
    BY <2>1, <2>3, <2>4, <2>5, <2>6 DEF IInv, LocksOK
  <2> QED
    BY <2>7, <2>8, <2>9 DEF LocksOK
<1>10. ASSUME NEW o \in RemObjs, RemoveCollector(o) PROVE LocksOK'
  BY <1>10, Names, NamesAssumption
    DEF RemoveCollector, Notifies, Queue, IInv, LocksOK, Types, RegistryTypes, MutatorTypes,
        registry, collector, mutators, client
<1>11. ASSUME NEW o \in RemObjs, RemoveView(o) PROVE LocksOK'
  BY <1>11, Names, NamesAssumption
    DEF RemoveView, Notifies, IInv, LocksOK, Types, RegistryTypes, MutatorTypes, collector,
        mutators, client
<1>12. ASSUME NEW o \in RemObjs, RemoveEnd(o) PROVE LocksOK'
  BY <1>12, Names, NamesAssumption
    DEF RemoveEnd, Goto, Release, IInv, LocksOK, Types, RegistryTypes, MutatorTypes,
        collector, mutators, client
<1>13. ASSUME NEW o \in RemObjs, RemoveChild(o) PROVE LocksOK'
  BY <1>13, Names, NamesAssumption
    DEF RemoveChild, Goto, IInv, LocksOK, Types, RegistryTypes, MutatorTypes, collector,
        mutators, client
<1>14. ASSUME NEW k \in Writers, WriteLocate(k) PROVE LocksOK'
  BY <1>14, Names, NamesAssumption
    DEF WriteLocate, Goto, IInv, LocksOK, Types, RegistryTypes, MutatorTypes, registry,
        collector, mutators, client
<1>15. ASSUME NEW k \in Writers, WriteUpdate(k) PROVE LocksOK'
  BY <1>15, Names, NamesAssumption
    DEF WriteUpdate, Goto, Snapshot, Acquire, IInv, LocksOK, Types, RegistryTypes,
        MutatorTypes, collector, mutators, client
<1>16. ASSUME NEW k \in Writers, WriteCollector(k) PROVE LocksOK'
  BY <1>16, Names, NamesAssumption
    DEF WriteCollector, Notifies, Queue, IInv, LocksOK, Types, RegistryTypes, MutatorTypes,
        registry, collector, mutators, client
<1>17. ASSUME NEW k \in Writers, WriteEnd(k) PROVE LocksOK'
  BY <1>17, Names, NamesAssumption
    DEF WriteEnd, Goto, Release, IInv, LocksOK, Types, RegistryTypes, MutatorTypes,
        collector, mutators, client
<1>18. CASE WaitStep
  BY <1>18, Names, NamesAssumption, WaitFrame
    DEF IInv, LocksOK, Types, RegistryTypes, MutatorTypes
<1>19. CASE ClientStep
  BY <1>19, Names, NamesAssumption, ClientFrame
    DEF IInv, LocksOK, Types, RegistryTypes, MutatorTypes
<1>20. CASE CancelContext
  BY <1>20, Names, NamesAssumption
    DEF CancelContext, IInv, LocksOK, Types, RegistryTypes, MutatorTypes, registry,
        collector, mutators, client
<1>21. CASE UNCHANGED vars
  BY <1>21, Names, NamesAssumption
    DEF IInv, LocksOK, Types, RegistryTypes, MutatorTypes, vars, registry, collector,
        mutators, client
<1> QED
  BY <1>1, <1>2, <1>3, <1>4, <1>5, <1>6, <1>7, <1>8, <1>9, <1>10, <1>11, <1>12, <1>13, <1>14,
     <1>15, <1>16, <1>17, <1>18, <1>19, <1>20, <1>21
    DEF Next, PutStep, RemoveStep, WriteStep

(* Every step keeps to the life of an object. *)
LEMMA RegisteredStep == IInv /\ [Next]_vars => RegisteredOK'
<1> SUFFICES ASSUME IInv, [Next]_vars PROVE RegisteredOK'
  OBVIOUS
<1>1. ASSUME NEW o \in PutObjs, PutChild(o) PROVE RegisteredOK'
  BY <1>1, Names
    DEF PutChild, Goto, Acquire, IInv, RegisteredOK, Types, RegistryTypes, MutatorTypes,
        collector, mutators, client
<1>2. ASSUME NEW o \in PutObjs, PutBegin(o) PROVE RegisteredOK'
  BY <1>2, Names
    DEF PutBegin, Goto, Snapshot, IInv, RegisteredOK, Types, RegistryTypes, MutatorTypes,
        collector, mutators, client
<1>3. ASSUME NEW o \in PutObjs, PutCollector(o) PROVE RegisteredOK'
  BY <1>3, Names
    DEF PutCollector, Notifies, Queue, IInv, RegisteredOK, Types, RegistryTypes,
        MutatorTypes, registry, collector, mutators, client
<1>4. ASSUME NEW o \in PutObjs, PutView(o) PROVE RegisteredOK'
  BY <1>4, Names
    DEF PutView, Goto, Acquire, Notifies, IInv, RegisteredOK, Types, RegistryTypes,
        MutatorTypes, collector, mutators, client
<1>5. ASSUME NEW o \in PutObjs, PutViewCollector(o) PROVE RegisteredOK'
  BY <1>5, Names
    DEF PutViewCollector, NotifiesOfView, Queue, IInv, RegisteredOK, Types, RegistryTypes,
        MutatorTypes, registry, collector, mutators, client
<1>6. ASSUME NEW o \in PutObjs, PutViewFilter(o) PROVE RegisteredOK'
  BY <1>6, Names
    DEF PutViewFilter, NotifiesOfView, IInv, RegisteredOK, Types, RegistryTypes,
        MutatorTypes, registry, collector, mutators, client
<1>7. ASSUME NEW o \in PutObjs, PutViewEnd(o) PROVE RegisteredOK'
  BY <1>7, Names
    DEF PutViewEnd, Goto, Release, IInv, RegisteredOK, Types, RegistryTypes, MutatorTypes,
        collector, mutators, client
<1>8. ASSUME NEW o \in PutObjs, PutEnd(o) PROVE RegisteredOK'
  BY <1>8, Names
    DEF PutEnd, Goto, Release, IInv, RegisteredOK, Types, RegistryTypes, MutatorTypes,
        collector, mutators, client
<1>9. ASSUME NEW o \in RemObjs, RemoveBegin(o) PROVE RegisteredOK'
  BY <1>9, Names
    DEF RemoveBegin, Goto, Snapshot, Acquire, IInv, RegisteredOK, Types, RegistryTypes,
        MutatorTypes, collector, mutators, client
<1>10. ASSUME NEW o \in RemObjs, RemoveCollector(o) PROVE RegisteredOK'
  BY <1>10, Names
    DEF RemoveCollector, Notifies, Queue, IInv, RegisteredOK, Types, RegistryTypes,
        MutatorTypes, registry, collector, mutators, client
<1>11. ASSUME NEW o \in RemObjs, RemoveView(o) PROVE RegisteredOK'
  BY <1>11, Names
    DEF RemoveView, Notifies, IInv, RegisteredOK, Types, RegistryTypes, MutatorTypes,
        collector, mutators, client
<1>12. ASSUME NEW o \in RemObjs, RemoveEnd(o) PROVE RegisteredOK'
  BY <1>12, Names
    DEF RemoveEnd, Goto, Release, IInv, RegisteredOK, Types, RegistryTypes, MutatorTypes,
        collector, mutators, client
<1>13. ASSUME NEW o \in RemObjs, RemoveChild(o) PROVE RegisteredOK'
  BY <1>13, Names
    DEF RemoveChild, Goto, IInv, RegisteredOK, Types, RegistryTypes, MutatorTypes,
        collector, mutators, client
<1>14. ASSUME NEW k \in Writers, WriteLocate(k) PROVE RegisteredOK'
  BY <1>14, Names
    DEF WriteLocate, Goto, IInv, RegisteredOK, Types, RegistryTypes, MutatorTypes, registry,
        collector, mutators, client
<1>15. ASSUME NEW k \in Writers, WriteUpdate(k) PROVE RegisteredOK'
  BY <1>15, Names
    DEF WriteUpdate, Goto, Snapshot, Acquire, IInv, RegisteredOK, Types, RegistryTypes,
        MutatorTypes, collector, mutators, client
<1>16. ASSUME NEW k \in Writers, WriteCollector(k) PROVE RegisteredOK'
  BY <1>16, Names
    DEF WriteCollector, Notifies, Queue, IInv, RegisteredOK, Types, RegistryTypes,
        MutatorTypes, registry, collector, mutators, client
<1>17. ASSUME NEW k \in Writers, WriteEnd(k) PROVE RegisteredOK'
  BY <1>17, Names
    DEF WriteEnd, Goto, Release, IInv, RegisteredOK, Types, RegistryTypes, MutatorTypes,
        collector, mutators, client
<1>18. CASE WaitStep
  BY <1>18, Names, WaitFrame DEF IInv, RegisteredOK, Types, RegistryTypes, MutatorTypes
<1>19. CASE ClientStep
  BY <1>19, Names, ClientFrame DEF IInv, RegisteredOK, Types, RegistryTypes, MutatorTypes
<1>20. CASE CancelContext
  BY <1>20, Names
    DEF CancelContext, IInv, RegisteredOK, Types, RegistryTypes, MutatorTypes, registry,
        collector, mutators, client
<1>21. CASE UNCHANGED vars
  BY <1>21, Names
    DEF IInv, RegisteredOK, Types, RegistryTypes, MutatorTypes, vars, registry, collector,
        mutators, client
<1> QED
  BY <1>1, <1>2, <1>3, <1>4, <1>5, <1>6, <1>7, <1>8, <1>9, <1>10, <1>11, <1>12, <1>13, <1>14,
     <1>15, <1>16, <1>17, <1>18, <1>19, <1>20, <1>21
    DEF Next, PutStep, RemoveStep, WriteStep

(* An object that is gone stays so. *)
LEMMA GoneStep == IInv /\ [Next]_vars => (\A q : Gone(q) => Gone(q)')
<1> SUFFICES ASSUME IInv, [Next]_vars PROVE (\A q : Gone(q) => Gone(q)')
  OBVIOUS
<1>1. ASSUME NEW o \in PutObjs, PutChild(o) PROVE (\A q : Gone(q) => Gone(q)')
  BY <1>1, Names
    DEF PutChild, Goto, Acquire, Gone, IInv, Types, MutatorTypes, collector, mutators,
        client
<1>2. ASSUME NEW o \in PutObjs, PutBegin(o) PROVE (\A q : Gone(q) => Gone(q)')
  BY <1>2, Names
    DEF PutBegin, Goto, Snapshot, Gone, IInv, Types, MutatorTypes, collector, mutators,
        client
<1>3. ASSUME NEW o \in PutObjs, PutCollector(o) PROVE (\A q : Gone(q) => Gone(q)')
  BY <1>3, Names
    DEF PutCollector, Notifies, Queue, Gone, IInv, Types, MutatorTypes, registry, collector,
        mutators, client
<1>4. ASSUME NEW o \in PutObjs, PutView(o) PROVE (\A q : Gone(q) => Gone(q)')
  BY <1>4, Names
    DEF PutView, Goto, Acquire, Notifies, Gone, IInv, Types, MutatorTypes, collector,
        mutators, client
<1>5. ASSUME NEW o \in PutObjs, PutViewCollector(o) PROVE (\A q : Gone(q) => Gone(q)')
  BY <1>5, Names
    DEF PutViewCollector, NotifiesOfView, Queue, Gone, IInv, Types, MutatorTypes, registry,
        collector, mutators, client
<1>6. ASSUME NEW o \in PutObjs, PutViewFilter(o) PROVE (\A q : Gone(q) => Gone(q)')
  BY <1>6, Names
    DEF PutViewFilter, NotifiesOfView, Gone, IInv, Types, MutatorTypes, registry, collector,
        mutators, client
<1>7. ASSUME NEW o \in PutObjs, PutViewEnd(o) PROVE (\A q : Gone(q) => Gone(q)')
  BY <1>7, Names
    DEF PutViewEnd, Goto, Release, Gone, IInv, Types, MutatorTypes, collector, mutators,
        client
<1>8. ASSUME NEW o \in PutObjs, PutEnd(o) PROVE (\A q : Gone(q) => Gone(q)')
  BY <1>8, Names
    DEF PutEnd, Goto, Release, Gone, IInv, Types, MutatorTypes, collector, mutators, client
<1>9. ASSUME NEW o \in RemObjs, RemoveBegin(o) PROVE (\A q : Gone(q) => Gone(q)')
  BY <1>9, Names
    DEF RemoveBegin, Goto, Snapshot, Acquire, Gone, IInv, Types, MutatorTypes, collector,
        mutators, client
<1>10. ASSUME NEW o \in RemObjs, RemoveCollector(o) PROVE (\A q : Gone(q) => Gone(q)')
  BY <1>10, Names
    DEF RemoveCollector, Notifies, Queue, Gone, IInv, Types, MutatorTypes, registry,
        collector, mutators, client
<1>11. ASSUME NEW o \in RemObjs, RemoveView(o) PROVE (\A q : Gone(q) => Gone(q)')
  BY <1>11, Names
    DEF RemoveView, Notifies, Gone, IInv, Types, MutatorTypes, collector, mutators, client
<1>12. ASSUME NEW o \in RemObjs, RemoveEnd(o) PROVE (\A q : Gone(q) => Gone(q)')
  BY <1>12, Names
    DEF RemoveEnd, Goto, Release, Gone, IInv, Types, MutatorTypes, collector, mutators,
        client
<1>13. ASSUME NEW o \in RemObjs, RemoveChild(o) PROVE (\A q : Gone(q) => Gone(q)')
  BY <1>13, Names
    DEF RemoveChild, Goto, Gone, IInv, Types, MutatorTypes, collector, mutators, client
<1>14. ASSUME NEW k \in Writers, WriteLocate(k) PROVE (\A q : Gone(q) => Gone(q)')
  BY <1>14, Names
    DEF WriteLocate, Goto, Gone, IInv, Types, MutatorTypes, registry, collector, mutators,
        client
<1>15. ASSUME NEW k \in Writers, WriteUpdate(k) PROVE (\A q : Gone(q) => Gone(q)')
  BY <1>15, Names
    DEF WriteUpdate, Goto, Snapshot, Acquire, Gone, IInv, Types, MutatorTypes, collector,
        mutators, client
<1>16. ASSUME NEW k \in Writers, WriteCollector(k) PROVE (\A q : Gone(q) => Gone(q)')
  BY <1>16, Names
    DEF WriteCollector, Notifies, Queue, Gone, IInv, Types, MutatorTypes, registry,
        collector, mutators, client
<1>17. ASSUME NEW k \in Writers, WriteEnd(k) PROVE (\A q : Gone(q) => Gone(q)')
  BY <1>17, Names
    DEF WriteEnd, Goto, Release, Gone, IInv, Types, MutatorTypes, collector, mutators,
        client
<1>18. CASE WaitStep
  BY <1>18, Names, WaitFrame DEF Gone, IInv, Types, MutatorTypes
<1>19. CASE ClientStep
  BY <1>19, Names, ClientFrame DEF Gone, IInv, Types, MutatorTypes
<1>20. CASE CancelContext
  BY <1>20, Names
    DEF CancelContext, Gone, IInv, Types, MutatorTypes, registry, collector, mutators,
        client
<1>21. CASE UNCHANGED vars
  BY <1>21, Names
    DEF Gone, IInv, Types, MutatorTypes, vars, registry, collector, mutators, client
<1> QED
  BY <1>1, <1>2, <1>3, <1>4, <1>5, <1>6, <1>7, <1>8, <1>9, <1>10, <1>11, <1>12, <1>13, <1>14,
     <1>15, <1>16, <1>17, <1>18, <1>19, <1>20, <1>21
    DEF Next, PutStep, RemoveStep, WriteStep

(* Only a removal queues an object that leaves. *)
LEMMA PutQueue ==
    ASSUME IInv, NEW o \in PutObjs, PutStep(o)
    PROVE  /\ sync' \in BOOLEAN
           /\ \/ updates' = updates
              \/ \E u \in Queued : /\ updates' = Append(updates, u)
                                   /\ u.kind = "leave" => Gone(u.obj)'
<1> DEFINE Goal == /\ sync' \in BOOLEAN
                   /\ \/ updates' = updates
                      \/ \E u \in Queued : /\ updates' = Append(updates, u)
                                           /\ u.kind = "leave" => Gone(u.obj)'
<1>1. PutChild(o) => Goal
  BY Names, ItemFacts
    DEF PutChild, Goto, Acquire, IInv, Types, RegistryTypes, CollectorTypes, MutatorTypes,
        collector, mutators, client
<1>2. PutBegin(o) => Goal
  BY Names, ItemFacts
    DEF PutBegin, Goto, Snapshot, IInv, Types, RegistryTypes, CollectorTypes, MutatorTypes,
        collector, mutators, client
<1>3. PutCollector(o) => Goal
  <2>1. Update("enter", o, 0) \in Queued /\ Update("enter", o, 0).kind # "leave"
    BY Names DEF Update, Updates, Queued
  <2> QED
    BY <2>1 DEF PutCollector, Notifies, Queue, IInv, Types, CollectorTypes
<1>4. PutView(o) => Goal
  BY Names, ItemFacts
    DEF PutView, Goto, Acquire, Notifies, IInv, Types, RegistryTypes, CollectorTypes,
        MutatorTypes, collector, mutators, client
<1>5. PutViewCollector(o) => Goal
  <2>1. Update("modify", None, 0) \in Queued /\ Update("modify", None, 0).kind # "leave"
    BY DEF Update, Updates, Queued
  <2> QED
    BY <2>1 DEF PutViewCollector, NotifiesOfView, Queue, IInv, Types, CollectorTypes
<1>6. PutViewFilter(o) => Goal
  BY Names, ItemFacts
    DEF PutViewFilter, NotifiesOfView, IInv, Types, RegistryTypes, CollectorTypes,
        MutatorTypes, registry, collector, mutators, client
<1>7. PutViewEnd(o) => Goal
  BY Names, ItemFacts
    DEF PutViewEnd, Goto, Release, IInv, Types, RegistryTypes, CollectorTypes, MutatorTypes,
        collector, mutators, client
<1>8. PutEnd(o) => Goal
  BY Names, ItemFacts
    DEF PutEnd, Goto, Release, IInv, Types, RegistryTypes, CollectorTypes, MutatorTypes,
        collector, mutators, client
<1> QED
  BY <1>1, <1>2, <1>3, <1>4, <1>5, <1>6, <1>7, <1>8 DEF PutStep

(* It has got past the collector then. *)
LEMMA RemoveQueue ==
    ASSUME IInv, NEW o \in RemObjs, RemoveStep(o)
    PROVE  /\ sync' \in BOOLEAN
           /\ \/ updates' = updates
              \/ \E u \in Queued : /\ updates' = Append(updates, u)
                                   /\ u.kind = "leave" => Gone(u.obj)'
<1> DEFINE Goal == /\ sync' \in BOOLEAN
                   /\ \/ updates' = updates
                      \/ \E u \in Queued : /\ updates' = Append(updates, u)
                                           /\ u.kind = "leave" => Gone(u.obj)'
<1>1. RemoveBegin(o) => Goal
  BY Names, ItemFacts
    DEF RemoveBegin, Goto, Snapshot, Acquire, IInv, Types, RegistryTypes, CollectorTypes,
        MutatorTypes, collector, mutators, client
<1>2. RemoveCollector(o) => Goal
  BY Names, ItemFacts
    DEF RemoveCollector, Notifies, Queue, IInv, Types, RegistryTypes, CollectorTypes,
        MutatorTypes, Gone, LocksOK, registry, collector, mutators, client
<1>3. RemoveView(o) => Goal
  BY Names, ItemFacts
    DEF RemoveView, Notifies, IInv, Types, RegistryTypes, CollectorTypes, MutatorTypes,
        collector, mutators, client
<1>4. RemoveEnd(o) => Goal
  BY Names, ItemFacts
    DEF RemoveEnd, Goto, Release, IInv, Types, RegistryTypes, CollectorTypes, MutatorTypes,
        collector, mutators, client
<1>5. RemoveChild(o) => Goal
  BY Names, ItemFacts
    DEF RemoveChild, Goto, IInv, Types, RegistryTypes, CollectorTypes, MutatorTypes,
        collector, mutators, client
<1> QED
  BY <1>1, <1>2, <1>3, <1>4, <1>5 DEF RemoveStep

(* A method queues the value it has set, if the filter collects the property. *)
LEMMA WriteQueue ==
    ASSUME IInv, NEW k \in Writers, WriteStep(k)
    PROVE  /\ sync' \in BOOLEAN
           /\ \/ updates' = updates
              \/ \E u \in Queued : /\ updates' = Append(updates, u)
                                   /\ u.kind = "leave" => Gone(u.obj)'
<1> DEFINE Goal == /\ sync' \in BOOLEAN
                   /\ \/ updates' = updates
                      \/ \E u \in Queued : /\ updates' = Append(updates, u)
                                           /\ u.kind = "leave" => Gone(u.obj)'
<1>1. WriteLocate(k) => Goal
  BY Names, ItemFacts
    DEF WriteLocate, Goto, IInv, Types, RegistryTypes, CollectorTypes, MutatorTypes,
        registry, collector, mutators, client
<1>2. WriteUpdate(k) => Goal
  BY Names, ItemFacts
    DEF WriteUpdate, Goto, Snapshot, Acquire, IInv, Types, RegistryTypes, CollectorTypes,
        MutatorTypes, collector, mutators, client
<1>3. WriteCollector(k) => Goal
  <2> SUFFICES ASSUME WriteCollector(k) PROVE Goal
    OBVIOUS
  <2> DEFINE v == IF k \in Others THEN None ELSE val[obj[k]]
             u == Update("modify", obj[k], v)
  <2>1. obj[k] \in Objs /\ v \in Nat \cup {None}
    BY Names DEF WriteCollector, Notifies, IInv, Types, MutatorTypes, RegistryTypes
  <2>2. u \in Queued /\ u.kind # "leave"
    <3> HIDE DEF v
    <3> QED
      BY <2>1 DEF Update, Updates, Queued
  <2>3. updates' = Append(updates, u) /\ sync' = sync
    BY DEF WriteCollector, Queue
  <2> HIDE DEF u
  <2> QED
    BY <2>2, <2>3 DEF IInv, Types, CollectorTypes
<1>4. WriteEnd(k) => Goal
  BY Names, ItemFacts
    DEF WriteEnd, Goto, Release, IInv, Types, RegistryTypes, CollectorTypes, MutatorTypes,
        collector, mutators, client
<1> QED
  BY <1>1, <1>2, <1>3, <1>4 DEF WriteStep

-----------------------------------------------------------------------------
(* None is not a sequence of updates, and a page and the rest are the whole. *)
LEMMA NoneIsNoSeq == \A s \in Seq(Items) : s # None /\ s \in Seq(Queued)
<1>1. Items \subseteq Queued
  BY ItemFacts
<1>2. \A s \in Seq(Items) : s \in Seq(Queued)
  BY <1>1
<1>3. \A s \in Seq(Items) : s \in Seq(Updates)
  BY <1>1, ItemFacts
<1> QED
  BY <1>2, <1>3, NamesAssumption

LEMMA PageFacts ==
    ASSUME NEW s \in Seq(Items)
    PROVE  /\ Page(s).page \in Seq(Items) /\ Len(Page(s).page) <= MaxObjects
           /\ Page(s).rest \in Seq(Items) \cup {None}
           /\ Page(s).page \o (IF Page(s).rest = None THEN <<>> ELSE Page(s).rest) = s
<1>1. CASE Len(s) < MaxObjects
  BY <1>1, PCAssumption, ConcatFacts DEF Page
<1>2. CASE ~(Len(s) < MaxObjects)
  <2> DEFINE a == SubSeq(s, 1, MaxObjects)
             b == SubSeq(s, MaxObjects + 1, Len(s))
  <2>1. MaxObjects \in Nat /\ Len(s) \in Nat /\ MaxObjects <= Len(s)
    BY <1>2, PCAssumption
  <2>2. /\ a \in Seq(Items) /\ Len(a) = MaxObjects
        /\ \A i \in 1 .. MaxObjects : a[i] = s[i]
    BY <2>1
  <2>3. /\ b \in Seq(Items) /\ Len(b) = Len(s) - MaxObjects
        /\ \A i \in 1 .. Len(s) - MaxObjects : b[i] = s[MaxObjects + i]
    BY <2>1
  <2>4. Page(s).page = a /\ Page(s).rest = b
    BY <1>2 DEF Page
  <2> HIDE DEF a, b
  <2>5. b # None
    BY <2>3, NoneIsNoSeq
  <2>6. a \o b = s
    <3>0. a \o b \in Seq(Items) /\ Len(a \o b) = Len(a) + Len(b)
      <4>1. a \in Seq(Items) /\ b \in Seq(Items)
        BY <2>2, <2>3
      <4> QED
        BY <4>1, ConcatFacts
    <3>1. a \o b \in Seq(Items) /\ Len(a \o b) = Len(s)
      <4>1. Len(a) + Len(b) = Len(s)
        BY <2>1, <2>2, <2>3
      <4> QED
        BY <3>0, <4>1
    <3>2. ASSUME NEW i \in 1 .. Len(s) PROVE (a \o b)[i] = s[i]
      <4>1. CASE i <= MaxObjects
        <5>1. i \in 1 .. Len(a) /\ a[i] = s[i]
          BY <2>1, <2>2, <4>1
        <5>2. (a \o b)[i] = a[i]
          BY <2>2, <2>3, <5>1
        <5> QED
          BY <5>1, <5>2
      <4>2. CASE i > MaxObjects
        <5>1. i - MaxObjects \in 1 .. Len(s) - MaxObjects /\ MaxObjects + (i - MaxObjects) = i
          BY <2>1, <4>2
        <5>2. (a \o b)[Len(a) + (i - MaxObjects)] = b[i - MaxObjects]
          BY <2>2, <2>3, <5>1, ConcatFacts
        <5> QED
          BY <2>1, <2>2, <2>3, <5>1, <5>2
      <4>3. i <= MaxObjects \/ i > MaxObjects
        BY <2>1
      <4> QED
        BY <4>1, <4>2, <4>3
    <3> QED
      BY <3>1, <3>2, SameSeq
  <2>7. Len(a) <= MaxObjects
    BY <2>1, <2>2
  <2> QED
    BY <2>2, <2>3, <2>4, <2>5, <2>6, <2>7
<1> QED
  BY <1>1, <1>2

(* What the call has after it has answered. *)
LEMMA AnswerFacts ==
    ASSUME NEW k \in {"none", "set", "nil", "canceled", "fault"}, NEW s \in Seq(Items), Answer(k, s)
    PROVE  /\ wpc' = "reply" /\ w' \in Locals /\ w'.reply.kind = k /\ w'.reply.set = s
           /\ w'.batch = <<>> /\ w'.fu = <<>> /\ w'.set = <<>> /\ w'.res = <<>>
<1>1. [kind |-> k, set |-> s] \in Replies
  BY DEF Replies
<1>2. <<>> \in Seq(Queued) /\ <<>> \in Seq(Items) /\ <<>> \in Seq(Objs)
  OBVIOUS
<1> QED
  BY <1>1, <1>2 DEF Answer, Idle, Locals

LEMMA AnswerNothing ==
    ASSUME NEW k \in {"none", "set", "nil", "canceled", "fault"}, Answer(k, <<>>)
    PROVE  /\ wpc' = "reply" /\ w' \in Locals /\ w'.reply.kind = k /\ w'.reply.set = <<>>
           /\ w'.batch = <<>> /\ w'.fu = <<>> /\ w'.set = <<>> /\ w'.res = <<>>
<1>1. <<>> \in Seq(Items)
  OBVIOUS
<1> QED
  BY <1>1, AnswerFacts

LEMMA IdleFacts ==
    /\ Idle \in Locals /\ Idle.batch = <<>> /\ Idle.set = <<>> /\ Idle.fu = <<>>
    /\ Idle.res = <<>> /\ Idle.why = "initial" /\ Idle.reply = NoReply
    /\ NoReply.set = <<>> /\ NoReply.kind = "none"
<1>1. NoReply \in Replies /\ NoReply.set = <<>> /\ NoReply.kind = "none"
  BY DEF Replies, NoReply
<1>2. <<>> \in Seq(Queued) /\ <<>> \in Seq(Items) /\ <<>> \in Seq(Objs)
  OBVIOUS
<1> QED
  BY <1>1, <1>2 DEF Idle, Locals

LEMMA AnswerPageFacts ==
    ASSUME NEW s \in Seq(Items), AnswerPage(s)
    PROVE  /\ wpc' = "reply" /\ w' \in Locals /\ Len(w'.reply.set) <= MaxObjects
           /\ w'.reply.kind = "set" /\ w'.batch = <<>> /\ w'.fu = <<>>
           /\ pending' \in Seq(Items) \cup {None} /\ Stream' = s
<1>1. /\ Page(s).page \in Seq(Items) /\ Len(Page(s).page) <= MaxObjects
      /\ Page(s).rest \in Seq(Items) \cup {None}
      /\ Page(s).page \o (IF Page(s).rest = None THEN <<>> ELSE Page(s).rest) = s
  BY PageFacts
<1>2. Answer("set", Page(s).page) /\ pending' = Page(s).rest
  BY DEF AnswerPage
<1>3. /\ wpc' = "reply" /\ w' \in Locals /\ w'.reply.kind = "set" /\ w'.batch = <<>>
      /\ w'.fu = <<>> /\ w'.reply.set = Page(s).page
  BY <1>1, <1>2, AnswerFacts
<1> QED
  BY <1>1, <1>2, <1>3 DEF Stream, Rest

(* An update that is reported matches, and is of an object of the filter. *)
LEMMA ApplyBatchEffect ==
    ASSUME IInv, ApplyBatch
    PROVE  /\ w.batch # <<>> /\ w' = [w EXCEPT !.fu = w'.fu, !.batch = Tail(w.batch)]
           /\ w'.fu \in Seq(Items)
           /\ \/ /\ w'.fu = w.fu
                 /\ ~(w.why = "modify" /\ Head(w.batch).obj \in refs /\ Head(w.batch).val # None)
              \/ \E u \in Items : /\ u.kind = "modify" /\ u.obj \in refs /\ w'.fu = Append(w.fu, u)
                                  /\ u = Head(w.batch)
<1> DEFINE u == Head(w.batch)
           fu == IF w.why = "modify" /\ u.obj \in refs THEN w.fu \o Matching(u) ELSE w.fu
<1>1. w.batch \in Seq(Queued) /\ w.fu \in Seq(Items) /\ w \in Locals
  BY DEF IInv, Types, CallTypes, Locals
<1>2. w.batch # <<>> /\ u.kind = w.why
  BY DEF IInv, PlacesOK, ApplyBatch
<1>3. w' = [w EXCEPT !.fu = fu, !.batch = Tail(w.batch)]
  BY DEF ApplyBatch
<1>4. w'.fu = fu
  <2> HIDE DEF fu
  <2> QED
    BY <1>1, <1>3 DEF Locals
<1>5. u \in Queued
  BY <1>1, <1>2
<1>6. CASE w.why = "modify" /\ u.obj \in refs /\ u.val # None
  <2>1. u \in Items
    BY <1>5, <1>6, ItemFacts DEF IInv, Types, CollectorTypes
  <2>2. fu = Append(w.fu, u)
    <3>1. Matching(u) = <<u>>
      BY <1>6 DEF Matching
    <3> HIDE DEF u
    <3>2. w.fu \o <<u>> = Append(w.fu, u)
      BY <1>1, <2>1
    <3> QED
      BY <1>6, <3>1, <3>2
  <2> HIDE DEF fu
  <2>3. w' = [w EXCEPT !.fu = w'.fu, !.batch = Tail(w.batch)] /\ w'.fu = Append(w.fu, u)
    BY <1>3, <1>4, <2>2
  <2>4. Append(w.fu, u) \in Seq(Items) /\ u.kind = "modify"
    BY <1>1, <1>2, <1>6, <2>1
  <2> QED
    BY <1>2, <1>6, <2>1, <2>3, <2>4
<1>7. CASE ~(w.why = "modify" /\ u.obj \in refs /\ u.val # None)
  <2>1. fu = w.fu
    <3>1. w.fu \o <<>> = w.fu
      BY <1>1
    <3> QED
      BY <1>7, <3>1 DEF Matching
  <2> HIDE DEF fu
  <2>2. w' = [w EXCEPT !.fu = w'.fu, !.batch = Tail(w.batch)] /\ w'.fu = w.fu
    BY <1>3, <1>4, <2>1
  <2> QED
    BY <1>1, <1>2, <1>7, <2>2
<1> QED
  BY <1>6, <1>7

(* What the client knows of an object after an answer: as before when the  *)
(* answer is not about it, and otherwise what its last update says.        *)
LEMMA ApplyFacts ==
    ASSUME NEW c \in [Objs -> Nat \cup {None}], NEW s \in Seq(Items), NEW o \in Objs
    PROVE  /\ Apply(c, s)[o] \in Nat \cup {None}
           /\ (\A i \in DOMAIN s : s[i].obj # o) => Apply(c, s)[o] = c[o]
           /\ \A i \in DOMAIN s : s[i].obj = o =>
                \E m \in DOMAIN s : /\ s[m].obj = o /\ i <= m
                                    /\ \A j \in DOMAIN s : s[j].obj = o => j <= m
                                    /\ Apply(c, s)[o] = IF s[m].kind = "leave" THEN None ELSE s[m].val
<1> DEFINE about == {i \in DOMAIN s : s[i].obj = o}
           m == Max(about)
<1>1. Apply(c, s)[o] = IF about = {} THEN c[o] ELSE IF s[m].kind = "leave" THEN None ELSE s[m].val
  BY DEF Apply
<1>2. DOMAIN s = 1 .. Len(s) /\ Len(s) \in Nat /\ \A i \in DOMAIN s : s[i] \in Items
  OBVIOUS
<1>3. about \in SUBSET (1 .. Len(s))
  BY <1>2
<1>4. about # {} => m \in about /\ \A j \in about : j <= m
  <2> HIDE DEF about
  <2> QED
    BY <1>2, <1>3, MaxIn
<1> HIDE DEF m
<1>5. CASE about = {}
  BY <1>1, <1>5
<1>6. CASE about # {}
  <2>1. m \in DOMAIN s /\ s[m].obj = o /\ \A j \in DOMAIN s : s[j].obj = o => j <= m
    BY <1>4, <1>6
  <2>2. s[m].val \in Nat
    BY <1>2, <2>1 DEF Items
  <2> QED
    BY <1>1, <1>6, <2>1, <2>2
<1> QED
  BY <1>5, <1>6

(* Every step keeps the types of the client. *)
LEMMA ClientTypesStep == IInv /\ [Next]_vars => ClientTypes'
<1> SUFFICES ASSUME IInv, [Next]_vars PROVE ClientTypes'
  OBVIOUS
<1>1. ASSUME NEW o \in PutObjs, PutStep(o) PROVE ClientTypes'
  BY <1>1, PutFrame DEF IInv, Types, ClientTypes
<1>2. ASSUME NEW o \in RemObjs, RemoveStep(o) PROVE ClientTypes'
  BY <1>2, RemoveFrame DEF IInv, Types, ClientTypes
<1>3. ASSUME NEW k \in Writers, WriteStep(k) PROVE ClientTypes'
  BY <1>3, WriteFrame DEF IInv, Types, ClientTypes
<1>4. CASE WaitStep
  BY <1>4, WaitFrame DEF IInv, Types, ClientTypes
<1>5. CASE CreateView
  BY <1>5 DEF CreateView, IInv, Types, ClientTypes, collector, mutators, client
<1>6. CASE ListenView
  BY <1>6 DEF ListenView, IInv, Types, ClientTypes, collector, mutators, client
<1>7. CASE CreateFilter
  BY <1>7 DEF CreateFilter, IInv, Types, ClientTypes, collector, mutators, client
<1>8. CASE Send
  BY <1>8 DEF Send, IInv, Types, ClientTypes, registry, collector, mutators, client
<1>9. CASE Receive
  <2>1. ASSUME NEW o \in Objs PROVE Apply(cache, w.reply.set)[o] \in Nat \cup {None}
    BY ApplyFacts DEF IInv, Types, CallTypes, ClientTypes, Locals, Replies
  <2>2. Apply(cache, w.reply.set) \in [Objs -> Nat \cup {None}]
    <3>1. Apply(cache, w.reply.set) = [o \in Objs |-> Apply(cache, w.reply.set)[o]]
      BY DEF Apply
    <3> QED
      BY <2>1, <3>1
  <2> QED
    BY <1>9, <2>2 DEF Receive, IInv, Types, ClientTypes
<1>10. CASE Lost
  BY <1>10 DEF Lost, IInv, Types, ClientTypes, registry, collector, mutators, client
<1>11. CASE CancelWaitForUpdates
  BY <1>11
    DEF CancelWaitForUpdates, IInv, Types, ClientTypes, registry, collector, mutators,
        client
<1>12. CASE DestroyFilter
  BY <1>12 DEF DestroyFilter, IInv, Types, ClientTypes, mutators, client
<1>13. CASE DestroyCollector
  BY <1>13 DEF DestroyCollector, IInv, Types, ClientTypes, mutators, client
<1>14. CASE CancelContext
  BY <1>14 DEF CancelContext, IInv, Types, ClientTypes, registry, collector, mutators, client
<1>15. CASE UNCHANGED vars
  BY <1>15 DEF IInv, Types, ClientTypes, vars, registry, collector, mutators, client
<1> QED
  BY <1>1, <1>2, <1>3, <1>4, <1>5, <1>6, <1>7, <1>8, <1>9, <1>10, <1>11, <1>12, <1>13, <1>14,
     <1>15
    DEF Next, ClientStep

(* Every step keeps the types of the collector. *)
LEMMA CollectorStep == IInv /\ [Next]_vars => CollectorTypes'
<1> SUFFICES ASSUME IInv, [Next]_vars PROVE CollectorTypes'
  OBVIOUS
<1>1. ASSUME NEW o \in PutObjs, PutStep(o) PROVE CollectorTypes'
  <2>1. /\ sync' \in BOOLEAN
        /\ \/ updates' = updates
           \/ \E u \in Queued : /\ updates' = Append(updates, u)
                                /\ u.kind = "leave" => Gone(u.obj)'
    BY <1>1, PutQueue

  <2>2. updates' \in Seq(Queued)
    <3>1. updates \in Seq(Queued)
      BY DEF IInv, Types, CollectorTypes
    <3>2. \A u \in Queued : Append(updates, u) \in Seq(Queued)
      BY <3>1, SeqFacts
    <3> QED
      BY <2>1, <3>1, <3>2, Zenon
  <2> QED
    BY <1>1, <2>1, <2>2, PutFrame DEF IInv, Types, CollectorTypes
<1>2. ASSUME NEW o \in RemObjs, RemoveStep(o) PROVE CollectorTypes'
  <2>1. /\ sync' \in BOOLEAN
        /\ \/ updates' = updates
           \/ \E u \in Queued : /\ updates' = Append(updates, u)
                                /\ u.kind = "leave" => Gone(u.obj)'
    BY <1>2, RemoveQueue

  <2>2. updates' \in Seq(Queued)
    <3>1. updates \in Seq(Queued)
      BY DEF IInv, Types, CollectorTypes
    <3>2. \A u \in Queued : Append(updates, u) \in Seq(Queued)
      BY <3>1, SeqFacts
    <3> QED
      BY <2>1, <3>1, <3>2, Zenon
  <2> QED
    BY <1>2, <2>1, <2>2, RemoveFrame DEF IInv, Types, CollectorTypes
<1>3. ASSUME NEW k \in Writers, WriteStep(k) PROVE CollectorTypes'
  <2>1. /\ sync' \in BOOLEAN
        /\ \/ updates' = updates
           \/ \E u \in Queued : /\ updates' = Append(updates, u)
                                /\ u.kind = "leave" => Gone(u.obj)'
    BY <1>3, WriteQueue

  <2>2. updates' \in Seq(Queued)
    <3>1. updates \in Seq(Queued)
      BY DEF IInv, Types, CollectorTypes
    <3>2. \A u \in Queued : Append(updates, u) \in Seq(Queued)
      BY <3>1, SeqFacts
    <3> QED
      BY <2>1, <3>1, <3>2, Zenon
  <2> QED
    BY <1>3, <2>1, <2>2, WriteFrame DEF IInv, Types, CollectorTypes
<1>4. CASE Locate
  BY <1>4 DEF Locate, Answer, IInv, Types, CollectorTypes, registry, collector, mutators, client
<1>5. CASE BeginPending
  BY <1>5, AnswerPageFacts
    DEF BeginPending, AnswerPage, Answer, IInv, Types, CollectorTypes, registry, collector,
        mutators, client
<1>6. CASE BeginInitial
  BY <1>6 DEF BeginInitial, IInv, Types, CollectorTypes, mutators, client
<1>7. CASE BeginLoop
  BY <1>7 DEF BeginLoop, IInv, Types, CollectorTypes, registry, collector, mutators, client
<1>8. CASE Done
  BY <1>8 DEF Done, Answer, IInv, Types, CollectorTypes, registry, collector, mutators, client
<1>9. CASE Deadline
  BY <1>9
    DEF Deadline, Answer, IInv, Types, CollectorTypes, registry, collector, mutators, client
<1>10. CASE TickEmpty
  BY <1>10
    DEF TickEmpty, Answer, IInv, Types, CollectorTypes, registry, collector, mutators,
        client
<1>11. CASE Tick
  BY <1>11
    DEF Tick, IInv, Types, CollectorTypes, CallTypes, registry, collector, mutators, client
<1>12. CASE FilterGone
  BY <1>12 DEF FilterGone, IInv, Types, CollectorTypes, registry, collector, mutators, client
<1>13. CASE FilterUpdate
  BY <1>13 DEF FilterUpdate, Acquire, IInv, Types, CollectorTypes, mutators, client
<1>14. CASE BatchCollect
  BY <1>14 DEF BatchCollect, IInv, Types, CollectorTypes, registry, collector, mutators, client
<1>15. CASE BatchLeave
  BY <1>15 DEF BatchLeave, IInv, Types, CollectorTypes, registry, collector, mutators, client
<1>16. CASE BatchEnd
  <2>1. w.set \o w.fu \in Seq(Items)
    BY ConcatFacts DEF IInv, Types, CallTypes, Locals
  <2>2. pending' \in Seq(Items) \cup {None}
    BY <1>16, <2>1, AnswerPageFacts DEF BatchEnd, IInv, Types, CollectorTypes
  <2> QED
    BY <1>16, <2>2 DEF BatchEnd, IInv, Types, CollectorTypes
<1>17. CASE Collect
  BY <1>17 DEF Collect, IInv, Types, CollectorTypes, registry, collector, mutators, client
<1>18. CASE CollectObject
  BY <1>18
    DEF CollectObject, Answer, IInv, Types, CollectorTypes, registry, collector, mutators,
        client
<1>19. CASE CollectEnd
  BY <1>19 DEF CollectEnd, IInv, Types, CollectorTypes, registry, collector, mutators, client
<1>20. CASE ResyncEnd
  BY <1>20 DEF ResyncEnd, Release, IInv, Types, CollectorTypes, collector, mutators, client
<1>21. CASE ApplyObject
  <2>1. Head(w.res) \in Items
    BY <1>21 DEF ApplyObject, IInv, Types, CallTypes, Locals
  <2> QED
    BY <1>21, <2>1 DEF ApplyObject, IInv, Types, CollectorTypes, Items
<1>22. CASE ApplyInitial
  BY <1>22, AnswerPageFacts
    DEF ApplyInitial, AnswerPage, Answer, IInv, Types, CollectorTypes, CallTypes, Locals,
        registry, collector, mutators, client
<1>23. CASE ApplyBatch
  BY <1>23 DEF ApplyBatch, IInv, Types, CollectorTypes, registry, collector, mutators, client
<1>24. CASE CreateView
  BY <1>24 DEF CreateView, IInv, Types, CollectorTypes, collector, mutators, client
<1>25. CASE ListenView
  BY <1>25 DEF ListenView, IInv, Types, CollectorTypes, collector, mutators, client
<1>26. CASE CreateFilter
  BY <1>26 DEF CreateFilter, IInv, Types, CollectorTypes, collector, mutators, client
<1>27. CASE Send
  BY <1>27 DEF Send, IInv, Types, CollectorTypes, registry, collector, mutators, client
<1>28. CASE Receive
  BY <1>28 DEF Receive, IInv, Types, CollectorTypes, registry, collector, mutators, client
<1>29. CASE Lost
  BY <1>29 DEF Lost, IInv, Types, CollectorTypes, registry, collector, mutators, client
<1>30. CASE CancelWaitForUpdates
  BY <1>30
    DEF CancelWaitForUpdates, IInv, Types, CollectorTypes, registry, collector, mutators,
        client
<1>31. CASE DestroyFilter
  BY <1>31 DEF DestroyFilter, IInv, Types, CollectorTypes, mutators, client
<1>32. CASE DestroyCollector
  BY <1>32 DEF DestroyCollector, IInv, Types, CollectorTypes, mutators, client
<1>33. CASE CancelContext
  BY <1>33 DEF CancelContext, IInv, Types, CollectorTypes, registry, collector, mutators, client
<1>34. CASE UNCHANGED vars
  BY <1>34 DEF IInv, Types, CollectorTypes, vars, registry, collector, mutators, client
<1> QED
  BY <1>1, <1>2, <1>3, <1>4, <1>5, <1>6, <1>7, <1>8, <1>9, <1>10, <1>11, <1>12, <1>13, <1>14,
     <1>15, <1>16, <1>17, <1>18, <1>19, <1>20, <1>21, <1>22, <1>23, <1>24, <1>25, <1>26, <1>27,
     <1>28, <1>29, <1>30, <1>31, <1>32, <1>33, <1>34
    DEF Next, WaitStep, ClientStep

(* The effects on the locals of the call, field by field. *)
LEMMA TickEffect ==
    ASSUME IInv, Tick
    PROVE  /\ w' \in Locals
           /\ w'.batch = updates
           /\ w'.set = w.set /\ w'.fu = w.fu /\ w'.objs = w.objs /\ w'.res = w.res /\ w'.why = w.why /\ w'.reply = w.reply
<1>1. w \in Locals /\ updates \in Seq(Queued)
  BY DEF Tick, IInv, Types, CallTypes, Locals, CollectorTypes
<1>2. w' = [w EXCEPT !.batch = updates]
  BY DEF Tick
<1> QED
  BY <1>1, <1>2 DEF Locals

(* It collects for the first update of the batch. *)
LEMMA BatchCollectEffect ==
    ASSUME IInv, BatchCollect
    PROVE  /\ w' \in Locals
           /\ w'.why = Head(w.batch).kind
           /\ w'.batch = w.batch /\ w'.set = w.set /\ w'.fu = w.fu /\ w'.objs = w.objs /\ w'.res = w.res /\ w'.reply = w.reply
<1>1. w \in Locals /\ Head(w.batch).kind \in {"enter", "modify"}
  BY TailFacts DEF BatchCollect, IInv, Types, CallTypes, Locals, Queued, Updates
<1>2. w' = [w EXCEPT !.why = Head(w.batch).kind]
  BY DEF BatchCollect
<1> QED
  BY <1>1, <1>2 DEF Locals

(* It forgets what it has collected. *)
LEMMA ResyncEndEffect ==
    ASSUME IInv, ResyncEnd
    PROVE  /\ w' \in Locals
           /\ w'.res = <<>>
           /\ w'.batch = w.batch /\ w'.set = w.set /\ w'.fu = w.fu /\ w'.objs = w.objs /\ w'.why = w.why /\ w'.reply = w.reply
<1>1. w \in Locals /\ <<>> \in Seq(Items)
  BY DEF ResyncEnd, IInv, Types, CallTypes, Locals
<1>2. w' = [w EXCEPT !.res = <<>>]
  BY DEF ResyncEnd
<1> QED
  BY <1>1, <1>2 DEF Locals

LEMMA CollectEffect ==
    ASSUME IInv, Collect
    PROVE  /\ w' \in Locals /\ w'.objs \in Seq(Objs) /\ w'.why = w.why
           /\ w'.batch = w.batch /\ w'.set = w.set /\ w'.fu = w.fu /\ w'.res = w.res
           /\ w'.reply = w.reply
<1>1. w \in Locals /\ view \in Seq(Objs)
  BY DEF IInv, Types, CallTypes, RegistryTypes
<1>2. CASE w' = w
  BY <1>1, <1>2 DEF Locals
<1>3. CASE w' = [w EXCEPT !.objs = view]
  BY <1>1, <1>3 DEF Locals
<1> QED
  BY <1>2, <1>3 DEF Collect

LEMMA FilterUpdateEffect ==
    ASSUME IInv, FilterUpdate
    PROVE  /\ w' \in Locals /\ (wpc' = "collect" => w'.why = "resync")
           /\ w'.batch = w.batch /\ w'.set = w.set /\ w'.fu = w.fu /\ w'.res = w.res
           /\ w'.objs = w.objs /\ w'.reply = w.reply
<1>1. w \in Locals
  BY DEF IInv, Types, CallTypes
<1>2. CASE sync
  <2>1. w' = [w EXCEPT !.why = "resync"]
    BY <1>2 DEF FilterUpdate
  <2> QED
    BY <1>1, <2>1 DEF Locals
<1>3. CASE ~sync
  BY <1>1, <1>3 DEF FilterUpdate
<1> QED
  BY <1>2, <1>3

LEMMA BatchLeaveEffect ==
    ASSUME IInv, BatchLeave
    PROVE  /\ w' \in Locals /\ w.batch # <<>> /\ w'.batch = Tail(w.batch)
           /\ Head(w.batch) \in Queued /\ Head(w.batch).kind = "leave"
           /\ \/ Head(w.batch).obj \notin refs /\ w'.fu = w.fu
              \/ /\ Head(w.batch).obj \in refs /\ w'.fu = Append(w.fu, Head(w.batch))
                 /\ Head(w.batch) \in Items
           /\ w'.set = w.set /\ w'.objs = w.objs /\ w'.res = w.res /\ w'.why = w.why
           /\ w'.reply = w.reply
<1> DEFINE u == Head(w.batch)
           fu == IF u.obj \in refs THEN Append(w.fu, u) ELSE w.fu
<1>1. w \in Locals /\ w.batch \in Seq(Queued) /\ w.fu \in Seq(Items) /\ w.batch # <<>> /\ u.kind = "leave"
  BY DEF BatchLeave, IInv, Types, CallTypes, Locals
<1>2. u \in Queued /\ Tail(w.batch) \in Seq(Queued)
  BY <1>1, TailFacts
<1>3. u.obj \in refs => u \in Items
  BY <1>1, <1>2, ItemFacts, NamesAssumption DEF Queued, IInv, Types, CollectorTypes
<1>4. fu \in Seq(Items)
  <2> HIDE DEF u
  <2> QED
    BY <1>1, <1>3
<1>5. w' = [w EXCEPT !.batch = Tail(w.batch), !.fu = fu]
  BY DEF BatchLeave
<1>6. /\ w' \in Locals /\ w'.batch = Tail(w.batch) /\ w'.fu = fu
      /\ w'.set = w.set /\ w'.objs = w.objs /\ w'.res = w.res /\ w'.why = w.why
      /\ w'.reply = w.reply
  <2> HIDE DEF fu, u
  <2> QED
    BY <1>1, <1>2, <1>4, <1>5 DEF Locals
<1> QED
  BY <1>1, <1>2, <1>3, <1>6

LEMMA ApplyObjectEffect ==
    ASSUME IInv, ApplyObject
    PROVE  /\ w' \in Locals /\ w.res # <<>> /\ w'.res = Tail(w.res) /\ Head(w.res) \in Items
           /\ \/ Head(w.res).obj \in refs /\ w'.set = w.set
              \/ Head(w.res).obj \notin refs /\ w'.set = Append(w.set, Head(w.res))
           /\ w'.batch = w.batch /\ w'.fu = w.fu /\ w'.objs = w.objs /\ w'.why = w.why
           /\ w'.reply = w.reply
<1> DEFINE u == Head(w.res)
           set == IF u.obj \in refs THEN w.set ELSE Append(w.set, u)
<1>1. w \in Locals /\ w.res \in Seq(Items) /\ w.set \in Seq(Items) /\ w.res # <<>>
  BY DEF ApplyObject, IInv, Types, CallTypes, Locals
<1>2. u \in Items /\ Tail(w.res) \in Seq(Items)
  BY <1>1, TailFacts
<1>3. set \in Seq(Items)
  <2> HIDE DEF u
  <2> QED
    BY <1>1, <1>2
<1>4. w' = [w EXCEPT !.res = Tail(w.res), !.set = set]
  BY DEF ApplyObject
<1>5. /\ w' \in Locals /\ w'.res = Tail(w.res) /\ w'.set = set
      /\ w'.batch = w.batch /\ w'.fu = w.fu /\ w'.objs = w.objs /\ w'.why = w.why
      /\ w'.reply = w.reply
  <2> HIDE DEF set, u
  <2> QED
    BY <1>1, <1>2, <1>3, <1>4 DEF Locals
<1> QED
  BY <1>1, <1>2, <1>5

(* What a step of the collection does with the next object. *)
LEMMA CollectOutcomes ==
    ASSUME CollectObject, w \in Locals
    PROVE  LET o == Head(w.objs) IN
           \/ /\ wpc' = wpc
              /\ \E r \in {w.res, Append(w.res, Content(o))} :
                    /\ w' = [w EXCEPT !.objs = Tail(w.objs), !.res = r]
                    /\ r # w.res => o \in registered /\ lock[o] = None
           \/ Answer("fault", <<>>)
<1> DEFINE o == Head(w.objs)
           seen == \E u \in ToSet(w.res) : u.obj = o
<1>1. CASE o \in registered
  <2>1. w' = [w EXCEPT !.objs = Tail(w.objs),
                       !.res = IF seen THEN w.res ELSE Append(w.res, Content(o))]
    BY <1>1 DEF CollectObject
  <2>2. w' = [w EXCEPT !.objs = Tail(w.objs), !.res = w.res]
          \/ w' = [w EXCEPT !.objs = Tail(w.objs), !.res = Append(w.res, Content(o))]
    <3> HIDE DEF o
    <3>1. CASE seen
      BY <2>1, <3>1
    <3>2. CASE ~seen
      BY <2>1, <3>2
    <3> QED
      BY <3>1, <3>2
  <2>3. wpc' = wpc /\ lock[o] = None
    BY <1>1 DEF CollectObject
  <2> QED
    BY <1>1, <2>2, <2>3
<1>2. CASE o \notin registered /\ ~direct
  <2>1. w' = [w EXCEPT !.objs = Tail(w.objs)] /\ wpc' = wpc
    BY <1>2 DEF CollectObject
  <2>2. w' = [w EXCEPT !.objs = Tail(w.objs), !.res = w.res]
    BY <2>1 DEF Locals
  <2> QED
    BY <2>1, <2>2
<1>3. CASE o \notin registered /\ direct
  BY <1>3 DEF CollectObject
<1> QED
  BY <1>1, <1>2, <1>3

(* Every step keeps the types of the call. *)
LEMMA CallStep == IInv /\ [Next]_vars => CallTypes'
<1> SUFFICES ASSUME IInv, [Next]_vars PROVE CallTypes'
  OBVIOUS
<1>1. ASSUME NEW o \in PutObjs, PutStep(o) PROVE CallTypes'
  BY <1>1, PutFrame DEF IInv, Types, CallTypes
<1>2. ASSUME NEW o \in RemObjs, RemoveStep(o) PROVE CallTypes'
  BY <1>2, RemoveFrame DEF IInv, Types, CallTypes
<1>3. ASSUME NEW k \in Writers, WriteStep(k) PROVE CallTypes'
  BY <1>3, WriteFrame DEF IInv, Types, CallTypes
<1>4. CASE Locate
  <2>1. CASE "pc" \in destroyed
    <3>1. wpc' = "reply" /\ w' \in Locals /\ w'.reply.set = <<>>
      BY <1>4, <2>1, AnswerNothing DEF Locate
    <3> QED
      BY <3>1, PCAssumption DEF CallTypes
  <2>2. CASE "pc" \notin destroyed
    BY <1>4, <2>2 DEF Locate, IInv, Types, CallTypes
  <2> QED
    BY <2>1, <2>2
<1>5. CASE BeginPending
  <2>1. pending \in Seq(Items) /\ AnswerPage(pending)
    BY <1>5 DEF BeginPending, IInv, Types, CollectorTypes
  <2> QED
    BY <2>1, AnswerPageFacts DEF CallTypes
<1>6. CASE BeginInitial
  BY <1>6 DEF BeginInitial, IInv, Types, CallTypes, mutators, client
<1>7. CASE BeginLoop
  BY <1>7 DEF BeginLoop, IInv, Types, CallTypes, registry, collector, mutators, client
<1>8. CASE Done
  <2>1. wpc' = "reply" /\ w' \in Locals /\ w'.reply.set = <<>>
    BY <1>8, AnswerNothing DEF Done
  <2> QED
    BY <2>1, PCAssumption DEF CallTypes
<1>9. CASE Deadline
  <2>1. wpc' = "reply" /\ w' \in Locals /\ w'.reply.set = <<>>
    BY <1>9, AnswerNothing DEF Deadline
  <2> QED
    BY <2>1, PCAssumption DEF CallTypes
<1>10. CASE TickEmpty
  <2>1. wpc' = "reply" /\ w' \in Locals /\ w'.reply.set = <<>>
    BY <1>10, AnswerNothing DEF TickEmpty
  <2> QED
    BY <2>1, PCAssumption DEF CallTypes
<1>11. CASE Tick
  <2>1. w' \in Locals /\ w'.reply = w.reply
    BY <1>11, TickEffect
  <2> QED
    BY <1>11, <2>1 DEF Tick, IInv, Types, CallTypes
<1>12. CASE FilterGone
  BY <1>12 DEF FilterGone, IInv, Types, CallTypes, registry, collector, mutators, client
<1>13. CASE FilterUpdate
  <2>1. w' \in Locals /\ w'.reply = w.reply
    BY <1>13, FilterUpdateEffect
  <2> QED
    BY <1>13, <2>1 DEF FilterUpdate, Acquire, IInv, Types, CallTypes
<1>14. CASE BatchCollect
  <2>1. w' \in Locals /\ w'.reply = w.reply
    BY <1>14, BatchCollectEffect
  <2> QED
    BY <1>14, <2>1 DEF BatchCollect, IInv, Types, CallTypes
<1>15. CASE BatchLeave
  <2>1. w' \in Locals /\ w'.reply = w.reply
    BY <1>15, BatchLeaveEffect
  <2> QED
    BY <1>15, <2>1 DEF BatchLeave, IInv, Types, CallTypes
<1>16. CASE BatchEnd
  <2>1. w.set \o w.fu \in Seq(Items)
    BY ConcatFacts DEF IInv, Types, CallTypes, Locals
  <2>2. CASE AnswerPage(w.set \o w.fu)
    BY <2>1, <2>2, AnswerPageFacts DEF CallTypes
  <2>3. CASE Answer("nil", <<>>)
    <3>1. wpc' = "reply" /\ w' \in Locals /\ w'.reply.set = <<>>
      BY <2>3, AnswerNothing
    <3> QED
      BY <3>1, PCAssumption DEF CallTypes
  <2>4. CASE wpc' = "select" /\ w' = Idle
    BY <2>4, IdleFacts, PCAssumption DEF CallTypes
  <2> QED
    BY <1>16, <2>2, <2>3, <2>4 DEF BatchEnd
<1>17. CASE Collect
  <2>1. w' \in Locals /\ w'.reply = w.reply
    BY <1>17, CollectEffect
  <2> QED
    BY <1>17, <2>1 DEF Collect, IInv, Types, CallTypes
<1>18. CASE CollectObject
  <2>1. w \in Locals /\ w.objs \in Seq(Objs) /\ w.objs # <<>> /\ w.res \in Seq(Items)
    BY <1>18 DEF CollectObject, IInv, Types, CallTypes, Locals
  <2> DEFINE o == Head(w.objs)
  <2>2. o \in Objs /\ Tail(w.objs) \in Seq(Objs)
    BY <2>1, TailFacts
  <2>3. Append(w.res, Content(o)) \in Seq(Items)
    <3>1. Content(o) \in Items
      BY <2>2, ItemFacts DEF Content, IInv, Types, RegistryTypes
    <3> HIDE DEF o
    <3> QED
      BY <2>1, <3>1
  <2>4. CASE Answer("fault", <<>>)
    <3>1. wpc' = "reply" /\ w' \in Locals /\ w'.reply.set = <<>>
      BY <2>4, AnswerNothing
    <3> QED
      BY <3>1, PCAssumption DEF CallTypes
  <2>5. CASE wpc' = wpc /\ \E r \in {w.res, Append(w.res, Content(o))} :
                               w' = [w EXCEPT !.objs = Tail(w.objs), !.res = r]
    <3>1. PICK r \in Seq(Items) : w' = [w EXCEPT !.objs = Tail(w.objs), !.res = r]
      <4> HIDE DEF o
      <4> QED
        BY <2>1, <2>3, <2>5
    <3>2. w' \in Locals /\ w'.reply = w.reply
      BY <2>1, <2>2, <3>1 DEF Locals
    <3> QED
      BY <2>5, <3>2 DEF IInv, Types, CallTypes
  <2> QED
    BY <1>18, <2>1, <2>4, <2>5, CollectOutcomes
<1>19. CASE CollectEnd
  BY <1>19 DEF CollectEnd, IInv, Types, CallTypes, registry, collector, mutators, client
<1>20. CASE ResyncEnd
  <2>1. w' \in Locals /\ w'.reply = w.reply
    BY <1>20, ResyncEndEffect
  <2> QED
    BY <1>20, <2>1 DEF ResyncEnd, Release, IInv, Types, CallTypes
<1>21. CASE ApplyObject
  <2>1. w' \in Locals /\ w'.reply = w.reply
    BY <1>21, ApplyObjectEffect
  <2> QED
    BY <1>21, <2>1 DEF ApplyObject, IInv, Types, CallTypes
<1>22. CASE ApplyInitial
  <2>1. w.set \in Seq(Items) /\ AnswerPage(w.set)
    BY <1>22 DEF ApplyInitial, IInv, Types, CallTypes, Locals
  <2> QED
    BY <2>1, AnswerPageFacts DEF CallTypes
<1>23. CASE ApplyBatch
  <2>1. /\ w' = [w EXCEPT !.fu = w'.fu, !.batch = Tail(w.batch)] /\ w'.fu \in Seq(Items)
        /\ w.batch # <<>>
    BY <1>23, ApplyBatchEffect
  <2>2. Tail(w.batch) \in Seq(Queued) /\ w \in Locals
    BY <2>1, TailFacts DEF IInv, Types, CallTypes, Locals
  <2>3. w' \in Locals /\ w'.reply = w.reply
    BY <2>1, <2>2 DEF Locals
  <2> QED
    BY <1>23, <2>3 DEF ApplyBatch, IInv, Types, CallTypes
<1>24. CASE CreateView
  BY <1>24 DEF CreateView, IInv, Types, CallTypes, collector, mutators, client
<1>25. CASE ListenView
  BY <1>25 DEF ListenView, IInv, Types, CallTypes, collector, mutators, client
<1>26. CASE CreateFilter
  BY <1>26 DEF CreateFilter, IInv, Types, CallTypes, collector, mutators, client
<1>27. CASE Send
  BY <1>27 DEF Send, IInv, Types, CallTypes, registry, collector, mutators, client
<1>28. CASE Receive
  BY <1>28, IdleFacts, PCAssumption
    DEF Receive, IInv, Types, CallTypes, registry, collector, mutators, client
<1>29. CASE Lost
  BY <1>29, IdleFacts, PCAssumption
    DEF Lost, IInv, Types, CallTypes, registry, collector, mutators, client
<1>30. CASE CancelWaitForUpdates
  BY <1>30
    DEF CancelWaitForUpdates, IInv, Types, CallTypes, registry, collector, mutators, client
<1>31. CASE DestroyFilter
  BY <1>31 DEF DestroyFilter, IInv, Types, CallTypes, mutators, client
<1>32. CASE DestroyCollector
  BY <1>32 DEF DestroyCollector, IInv, Types, CallTypes, mutators, client
<1>33. CASE CancelContext
  BY <1>33 DEF CancelContext, IInv, Types, CallTypes, registry, collector, mutators, client
<1>34. CASE UNCHANGED vars
  BY <1>34 DEF IInv, Types, CallTypes, vars, registry, collector, mutators, client
<1> QED
  BY <1>1, <1>2, <1>3, <1>4, <1>5, <1>6, <1>7, <1>8, <1>9, <1>10, <1>11, <1>12, <1>13, <1>14,
     <1>15, <1>16, <1>17, <1>18, <1>19, <1>20, <1>21, <1>22, <1>23, <1>24, <1>25, <1>26, <1>27,
     <1>28, <1>29, <1>30, <1>31, <1>32, <1>33, <1>34
    DEF Next, WaitStep, ClientStep

-----------------------------------------------------------------------------
(* The objects that enter or leave with a sequence of updates. *)
LEMMA OfKind ==
    ASSUME NEW S, NEW l \in Seq(S)
    PROVE  /\ \A o : o \in Leaving(l) <=> \E i \in 1 .. Len(l) : l[i].kind = "leave" /\ l[i].obj = o
           /\ \A o : o \in Entering(l) <=> \E i \in 1 .. Len(l) : l[i].kind = "enter" /\ l[i].obj = o
  BY DEF Leaving, Entering

LEMMA OfEmpty == Leaving(<<>>) = {} /\ Entering(<<>>) = {}
  BY DEF Leaving, Entering

LEMMA OfAppend ==
    ASSUME NEW S, NEW l \in Seq(S), NEW u \in S
    PROVE  /\ \A o : o \in Leaving(Append(l, u)) <=> o \in Leaving(l) \/ (u.kind = "leave" /\ u.obj = o)
           /\ \A o : o \in Entering(Append(l, u)) <=> o \in Entering(l) \/ (u.kind = "enter" /\ u.obj = o)
<1> DEFINE m == Append(l, u)
           Has(s, k, o) == \E i \in 1 .. Len(s) : s[i].kind = k /\ s[i].obj = o
<1>1. /\ m \in Seq(S) /\ Len(m) = Len(l) + 1 /\ Len(l) \in Nat
      /\ \A i \in 1 .. Len(l) : m[i] = l[i]
      /\ m[Len(l) + 1] = u
  OBVIOUS
<1> HIDE DEF m
<1>2. m \in Seq(S)
  BY <1>1
<1>3. \A o : (o \in Leaving(m) <=> Has(m, "leave", o)) /\ (o \in Entering(m) <=> Has(m, "enter", o))
  BY <1>2, OfKind
<1>4. \A o : (o \in Leaving(l) <=> Has(l, "leave", o)) /\ (o \in Entering(l) <=> Has(l, "enter", o))
  BY OfKind
<1>5. ASSUME NEW k, NEW o PROVE Has(m, k, o) <=> Has(l, k, o) \/ (u.kind = k /\ u.obj = o)
  <2>1. \A i \in 1 .. Len(m) : i \in 1 .. Len(l) \/ i = Len(l) + 1
    BY <1>1
  <2>2. \A i \in 1 .. Len(l) : i \in 1 .. Len(m)
    BY <1>1
  <2>3. Len(l) + 1 \in 1 .. Len(m)
    BY <1>1
  <2> QED
    BY <1>1, <2>1, <2>2, <2>3
<1> HIDE DEF Has
<1> QED
  BY <1>3, <1>4, <1>5 DEF m

LEMMA OfTail ==
    ASSUME NEW S, NEW l \in Seq(S), l # <<>>
    PROVE  /\ Leaving(Tail(l)) \subseteq Leaving(l)
           /\ Head(l).kind = "leave" => Head(l).obj \in Leaving(l)
<1> DEFINE t == Tail(l)
<1>1. /\ Head(l) = l[1] /\ 1 \in 1 .. Len(l) /\ Len(l) \in Nat
      /\ t \in Seq(S) /\ Len(t) = Len(l) - 1
      /\ \A i \in 1 .. Len(l) - 1 : t[i] = l[i + 1]
  OBVIOUS
<1> HIDE DEF t
<1>2. t \in Seq(S)
  BY <1>1
<1>3. ASSUME NEW o \in Leaving(t) PROVE o \in Leaving(l)
  <2>1. PICK i \in 1 .. Len(t) : t[i].kind = "leave" /\ t[i].obj = o
    BY <1>2, OfKind
  <2>2. i + 1 \in 1 .. Len(l) /\ l[i + 1] = t[i]
    BY <1>1
  <2> QED
    BY <2>1, <2>2, OfKind
<1> QED
  BY <1>1, <1>3, OfKind DEF t

LEMMA OfConcat ==
    ASSUME NEW S, NEW l \in Seq(S), NEW m \in Seq(S)
    PROVE  /\ Leaving(l \o m) = Leaving(l) \cup Leaving(m)
           /\ Entering(l \o m) = Entering(l) \cup Entering(m)
<1> DEFINE c == l \o m
<1>1. /\ c \in Seq(S) /\ Len(c) = Len(l) + Len(m) /\ Len(l) \in Nat /\ Len(m) \in Nat
      /\ \A i \in 1 .. Len(l) : c[i] = l[i]
      /\ \A i \in 1 .. Len(m) : c[Len(l) + i] = m[i]
  OBVIOUS
<1> HIDE DEF c
<1>2. ASSUME NEW k, NEW o
      PROVE  (\E i \in 1 .. Len(c) : c[i].kind = k /\ c[i].obj = o)
             <=> \/ \E i \in 1 .. Len(l) : l[i].kind = k /\ l[i].obj = o
                 \/ \E i \in 1 .. Len(m) : m[i].kind = k /\ m[i].obj = o
  <2>1. ASSUME NEW i \in 1 .. Len(c), c[i].kind = k, c[i].obj = o
        PROVE  \/ \E j \in 1 .. Len(l) : l[j].kind = k /\ l[j].obj = o
               \/ \E j \in 1 .. Len(m) : m[j].kind = k /\ m[j].obj = o
    <3>1. CASE i <= Len(l)
      BY <1>1, <2>1, <3>1
    <3>2. CASE i > Len(l)
      <4>1. i - Len(l) \in 1 .. Len(m) /\ Len(l) + (i - Len(l)) = i
        BY <1>1, <3>2
      <4>2. c[i] = m[i - Len(l)]
        BY <1>1, <4>1
      <4> QED
        BY <2>1, <4>1, <4>2
    <3> QED
      BY <1>1, <3>1, <3>2
  <2>2. ASSUME NEW i \in 1 .. Len(l), l[i].kind = k, l[i].obj = o
        PROVE  \E j \in 1 .. Len(c) : c[j].kind = k /\ c[j].obj = o
    <3>1. i \in 1 .. Len(c) /\ c[i] = l[i]
      BY <1>1
    <3> QED
      BY <2>2, <3>1
  <2>3. ASSUME NEW i \in 1 .. Len(m), m[i].kind = k, m[i].obj = o
        PROVE  \E j \in 1 .. Len(c) : c[j].kind = k /\ c[j].obj = o
    <3>1. Len(l) + i \in 1 .. Len(c) /\ c[Len(l) + i] = m[i]
      BY <1>1
    <3> QED
      BY <2>3, <3>1
  <2> QED
    BY <2>1, <2>2, <2>3
<1>3. ASSUME NEW o
      PROVE  /\ o \in Leaving(c) <=> o \in Leaving(l) \cup Leaving(m)
             /\ o \in Entering(c) <=> o \in Entering(l) \cup Entering(m)
  <2>1. /\ o \in Leaving(c) <=> \E i \in 1 .. Len(c) : c[i].kind = "leave" /\ c[i].obj = o
        /\ o \in Entering(c) <=> \E i \in 1 .. Len(c) : c[i].kind = "enter" /\ c[i].obj = o
    <3>1. c \in Seq(S)
      BY <1>1
    <3> QED
      BY <3>1, OfKind
  <2>2. /\ o \in Leaving(l) <=> \E i \in 1 .. Len(l) : l[i].kind = "leave" /\ l[i].obj = o
        /\ o \in Entering(l) <=> \E i \in 1 .. Len(l) : l[i].kind = "enter" /\ l[i].obj = o
        /\ o \in Leaving(m) <=> \E i \in 1 .. Len(m) : m[i].kind = "leave" /\ m[i].obj = o
        /\ o \in Entering(m) <=> \E i \in 1 .. Len(m) : m[i].kind = "enter" /\ m[i].obj = o
    BY OfKind
  <2>3. (\E i \in 1 .. Len(c) : c[i].kind = "leave" /\ c[i].obj = o)
        <=> \/ \E i \in 1 .. Len(l) : l[i].kind = "leave" /\ l[i].obj = o
            \/ \E i \in 1 .. Len(m) : m[i].kind = "leave" /\ m[i].obj = o
    BY <1>2
  <2>4. (\E i \in 1 .. Len(c) : c[i].kind = "enter" /\ c[i].obj = o)
        <=> \/ \E i \in 1 .. Len(l) : l[i].kind = "enter" /\ l[i].obj = o
            \/ \E i \in 1 .. Len(m) : m[i].kind = "enter" /\ m[i].obj = o
    BY <1>2
  <2> QED
    BY <2>1, <2>2, <2>3, <2>4
<1> QED
  BY <1>3 DEF c

(* The call moves the updates of objects that leave, and adds none. *)
LEMMA LeavesShrink ==
    ASSUME IInv, WaitStep
    PROVE  Leaving(updates') \cup Leaving(w'.batch) \cup Leaving(w'.fu)
               \subseteq Leaving(updates) \cup Leaving(w.batch) \cup Leaving(w.fu)
<1> DEFINE Goal == Leaving(updates') \cup Leaving(w'.batch) \cup Leaving(w'.fu)
                       \subseteq Leaving(updates) \cup Leaving(w.batch) \cup Leaving(w.fu)
<1>1. Locate => Goal
  <2> SUFFICES ASSUME Locate PROVE Goal
    OBVIOUS
  <2>1. CASE "pc" \in destroyed
    <3>1. w'.batch = <<>> /\ w'.fu = <<>> /\ updates' = updates
      BY <2>1, AnswerNothing DEF Locate, collector
    <3> QED
      BY <3>1, OfEmpty
  <2>2. CASE "pc" \notin destroyed
    BY <2>2 DEF Locate, collector
  <2> QED
    BY <2>1, <2>2
<1>2. BeginPending => Goal
  <2> SUFFICES ASSUME BeginPending PROVE Goal
    OBVIOUS
  <2>0. pending \in Seq(Items)
    BY DEF BeginPending, IInv, Types, CollectorTypes
  <2>1. w'.batch = <<>> /\ w'.fu = <<>> /\ updates' = updates
    BY <2>0, AnswerPageFacts DEF BeginPending
  <2> QED
    BY <2>1, OfEmpty
<1>3. BeginInitial => Goal
  BY DEF BeginInitial, mutators, client
<1>4. BeginLoop => Goal
  BY DEF BeginLoop, registry, collector, mutators, client
<1>5. Done => Goal
  <2> SUFFICES ASSUME Done PROVE Goal
    OBVIOUS
  <2>1. w'.batch = <<>> /\ w'.fu = <<>> /\ updates' = updates
    BY AnswerNothing DEF Done, collector
  <2> QED
    BY <2>1, OfEmpty
<1>6. Deadline => Goal
  <2> SUFFICES ASSUME Deadline PROVE Goal
    OBVIOUS
  <2>1. w'.batch = <<>> /\ w'.fu = <<>> /\ updates' = updates
    BY AnswerNothing DEF Deadline, collector
  <2> QED
    BY <2>1, OfEmpty
<1>7. TickEmpty => Goal
  <2> SUFFICES ASSUME TickEmpty PROVE Goal
    OBVIOUS
  <2>1. w'.batch = <<>> /\ w'.fu = <<>> /\ updates' = updates
    BY AnswerNothing DEF TickEmpty, collector
  <2> QED
    BY <2>1, OfEmpty
<1>8. Tick => Goal
  <2> SUFFICES ASSUME Tick PROVE Goal
    OBVIOUS
  <2>1. w'.batch = updates /\ w'.fu = w.fu /\ updates' = <<>>
    BY TickEffect DEF Tick
  <2> QED
    BY <2>1, OfEmpty
<1>9. FilterGone => Goal
  BY DEF FilterGone, registry, collector, mutators, client
<1>10. FilterUpdate => Goal
  <2> SUFFICES ASSUME FilterUpdate PROVE Goal
    OBVIOUS
  <2>1. w'.batch = w.batch /\ w'.fu = w.fu /\ updates' = updates
    BY FilterUpdateEffect DEF FilterUpdate, collector
  <2> QED
    BY <2>1
<1>11. BatchCollect => Goal
  <2> SUFFICES ASSUME BatchCollect PROVE Goal
    OBVIOUS
  <2>1. w'.batch = w.batch /\ w'.fu = w.fu /\ updates' = updates
    BY BatchCollectEffect DEF BatchCollect, collector
  <2> QED
    BY <2>1
<1>12. BatchLeave => Goal
  <2> SUFFICES ASSUME BatchLeave PROVE Goal
    OBVIOUS
  <2> DEFINE u == Head(w.batch)
  <2>1. w.batch \in Seq(Queued) /\ w.fu \in Seq(Items) /\ updates' = updates
    BY DEF BatchLeave, IInv, Types, CallTypes, Locals
  <2>2. w.batch # <<>> /\ w'.batch = Tail(w.batch) /\ u.kind = "leave"
    BY BatchLeaveEffect
  <2>3. Leaving(w'.batch) \subseteq Leaving(w.batch) /\ u.obj \in Leaving(w.batch)
    BY <2>1, <2>2, OfTail
  <2>4. w'.fu = w.fu \/ (u \in Items /\ w'.fu = Append(w.fu, u))
    BY BatchLeaveEffect
  <2> HIDE DEF u
  <2>5. \A q \in Leaving(w'.fu) : q \in Leaving(w.fu) \/ q = u.obj
    <3>1. u \in Items => \A q \in Leaving(Append(w.fu, u)) : q \in Leaving(w.fu) \/ q = u.obj
      BY <2>1, OfAppend
    <3> QED
      BY <2>4, <3>1
  <2> QED
    BY <2>1, <2>3, <2>5
<1>13. BatchEnd => Goal
  <2> SUFFICES ASSUME BatchEnd PROVE Goal
    OBVIOUS
  <2>0. w.set \o w.fu \in Seq(Items)
    BY ConcatFacts DEF IInv, Types, CallTypes, Locals
  <2>1. w'.batch = <<>> /\ w'.fu = <<>> /\ updates' = updates
    BY <2>0, AnswerPageFacts, AnswerNothing, IdleFacts DEF BatchEnd
  <2> QED
    BY <2>1, OfEmpty
<1>14. Collect => Goal
  <2> SUFFICES ASSUME Collect PROVE Goal
    OBVIOUS
  <2>1. w'.batch = w.batch /\ w'.fu = w.fu /\ updates' = updates
    BY CollectEffect DEF Collect, collector
  <2> QED
    BY <2>1
<1>15. CollectObject => Goal
  <2> SUFFICES ASSUME CollectObject PROVE Goal
    OBVIOUS
  <2>1. w \in Locals /\ updates' = updates
    BY DEF CollectObject, collector, IInv, Types, CallTypes
  <2>2. CASE Answer("fault", <<>>)
    BY <2>1, <2>2, AnswerNothing, OfEmpty
  <2>3. ASSUME NEW s, NEW r, w' = [w EXCEPT !.objs = s, !.res = r] PROVE Goal
    BY <2>1, <2>3 DEF Locals
  <2> QED
    BY <2>1, <2>2, <2>3, CollectOutcomes
<1>16. CollectEnd => Goal
  BY DEF CollectEnd, registry, collector, mutators, client
<1>17. ResyncEnd => Goal
  <2> SUFFICES ASSUME ResyncEnd PROVE Goal
    OBVIOUS
  <2>1. w'.batch = w.batch /\ w'.fu = w.fu /\ updates' = updates
    BY ResyncEndEffect DEF ResyncEnd, collector
  <2> QED
    BY <2>1
<1>18. ApplyObject => Goal
  <2> SUFFICES ASSUME ApplyObject PROVE Goal
    OBVIOUS
  <2>1. w'.batch = w.batch /\ w'.fu = w.fu /\ updates' = updates
    BY ApplyObjectEffect DEF ApplyObject
  <2> QED
    BY <2>1
<1>19. ApplyInitial => Goal
  <2> SUFFICES ASSUME ApplyInitial PROVE Goal
    OBVIOUS
  <2>0. w.set \in Seq(Items)
    BY DEF IInv, Types, CallTypes, Locals
  <2>1. w'.batch = <<>> /\ w'.fu = <<>> /\ updates' = updates
    BY <2>0, AnswerPageFacts DEF ApplyInitial
  <2> QED
    BY <2>1, OfEmpty
<1>20. ApplyBatch => Goal
  <2> SUFFICES ASSUME ApplyBatch PROVE Goal
    OBVIOUS
  <2>1. w.batch \in Seq(Queued) /\ w.fu \in Seq(Items) /\ updates' = updates /\ w \in Locals
    BY DEF ApplyBatch, collector, IInv, Types, CallTypes, Locals
  <2>2. w.batch # <<>> /\ w'.batch = Tail(w.batch)
    BY <2>1, ApplyBatchEffect DEF Locals
  <2>3. Leaving(w'.batch) \subseteq Leaving(w.batch)
    BY <2>1, <2>2, OfTail
  <2>4. w'.fu = w.fu \/ \E u \in Items : u.kind = "modify" /\ w'.fu = Append(w.fu, u)
    BY ApplyBatchEffect
  <2>5. \A q \in Leaving(w'.fu) : q \in Leaving(w.fu)
    BY <2>1, <2>4, OfAppend
  <2> QED
    BY <2>1, <2>3, <2>5
<1> QED
  BY <1>1, <1>2, <1>3, <1>4, <1>5, <1>6, <1>7, <1>8, <1>9, <1>10, <1>11, <1>12, <1>13, <1>14,
     <1>15, <1>16, <1>17, <1>18, <1>19, <1>20
    DEF WaitStep

(* Every step keeps to objects that are gone. *)
LEMMA LeavesStep == IInv /\ [Next]_vars => LeavesOK'
<1> SUFFICES ASSUME IInv, [Next]_vars PROVE LeavesOK'
  OBVIOUS
<1>1. ASSUME NEW o \in PutObjs, PutStep(o) PROVE LeavesOK'
  <2>1. /\ sync' \in BOOLEAN
        /\ \/ updates' = updates
           \/ \E u \in Queued : /\ updates' = Append(updates, u)
                                /\ u.kind = "leave" => Gone(u.obj)'
    BY <1>1, PutQueue

  <2>2. \A q : Gone(q) => Gone(q)'
    BY GoneStep
  <2>3. w' = w
    BY <1>1, PutFrame
  <2>4. \A q \in Leaving(updates)' : Gone(q)'
    <3>1. updates \in Seq(Queued)
      BY DEF IInv, Types, CollectorTypes
    <3>2. CASE updates' = updates
      BY <2>2, <3>2 DEF IInv, LeavesOK
    <3>3. CASE updates' # updates
      <4>1. PICK u \in Queued : updates' = Append(updates, u) /\ (u.kind = "leave" => Gone(u.obj)')
        BY <2>1, <3>3
      <4>2. \A q \in Leaving(updates') : q \in Leaving(updates) \/ (u.kind = "leave" /\ u.obj = q)
        BY <3>1, <4>1, OfAppend
      <4>3. Leaving(updates)' = Leaving(updates')
        BY DEF Leaving
      <4> QED
        BY <2>2, <4>1, <4>2, <4>3 DEF IInv, LeavesOK
    <3> QED
      BY <3>2, <3>3
  <2> QED
    BY <2>2, <2>3, <2>4 DEF IInv, LeavesOK, Leaving
<1>2. ASSUME NEW o \in RemObjs, RemoveStep(o) PROVE LeavesOK'
  <2>1. /\ sync' \in BOOLEAN
        /\ \/ updates' = updates
           \/ \E u \in Queued : /\ updates' = Append(updates, u)
                                /\ u.kind = "leave" => Gone(u.obj)'
    BY <1>2, RemoveQueue

  <2>2. \A q : Gone(q) => Gone(q)'
    BY GoneStep
  <2>3. w' = w
    BY <1>2, RemoveFrame
  <2>4. \A q \in Leaving(updates)' : Gone(q)'
    <3>1. updates \in Seq(Queued)
      BY DEF IInv, Types, CollectorTypes
    <3>2. CASE updates' = updates
      BY <2>2, <3>2 DEF IInv, LeavesOK
    <3>3. CASE updates' # updates
      <4>1. PICK u \in Queued : updates' = Append(updates, u) /\ (u.kind = "leave" => Gone(u.obj)')
        BY <2>1, <3>3
      <4>2. \A q \in Leaving(updates') : q \in Leaving(updates) \/ (u.kind = "leave" /\ u.obj = q)
        BY <3>1, <4>1, OfAppend
      <4>3. Leaving(updates)' = Leaving(updates')
        BY DEF Leaving
      <4> QED
        BY <2>2, <4>1, <4>2, <4>3 DEF IInv, LeavesOK
    <3> QED
      BY <3>2, <3>3
  <2> QED
    BY <2>2, <2>3, <2>4 DEF IInv, LeavesOK, Leaving
<1>3. ASSUME NEW k \in Writers, WriteStep(k) PROVE LeavesOK'
  <2>1. /\ sync' \in BOOLEAN
        /\ \/ updates' = updates
           \/ \E u \in Queued : /\ updates' = Append(updates, u)
                                /\ u.kind = "leave" => Gone(u.obj)'
    BY <1>3, WriteQueue

  <2>2. \A q : Gone(q) => Gone(q)'
    BY GoneStep
  <2>3. w' = w
    BY <1>3, WriteFrame
  <2>4. \A q \in Leaving(updates)' : Gone(q)'
    <3>1. updates \in Seq(Queued)
      BY DEF IInv, Types, CollectorTypes
    <3>2. CASE updates' = updates
      BY <2>2, <3>2 DEF IInv, LeavesOK
    <3>3. CASE updates' # updates
      <4>1. PICK u \in Queued : updates' = Append(updates, u) /\ (u.kind = "leave" => Gone(u.obj)')
        BY <2>1, <3>3
      <4>2. \A q \in Leaving(updates') : q \in Leaving(updates) \/ (u.kind = "leave" /\ u.obj = q)
        BY <3>1, <4>1, OfAppend
      <4>3. Leaving(updates)' = Leaving(updates')
        BY DEF Leaving
      <4> QED
        BY <2>2, <4>1, <4>2, <4>3 DEF IInv, LeavesOK
    <3> QED
      BY <3>2, <3>3
  <2> QED
    BY <2>2, <2>3, <2>4 DEF IInv, LeavesOK, Leaving
<1>4. CASE WaitStep
  <2>1. \A q : Gone(q) => Gone(q)'
    BY GoneStep
  <2>2. Leaving(updates') \cup Leaving(w'.batch) \cup Leaving(w'.fu)
            \subseteq Leaving(updates) \cup Leaving(w.batch) \cup Leaving(w.fu)
    BY <1>4, LeavesShrink
  <2>3. LeavesOK' <=> \A o \in Leaving(updates') \cup Leaving(w'.batch) \cup Leaving(w'.fu) : Gone(o)'
    BY DEF LeavesOK, Leaving
  <2> QED
    BY <2>1, <2>2, <2>3 DEF IInv, LeavesOK
<1>5. CASE ClientStep
  <2>1. \A q : Gone(q) => Gone(q)'
    BY GoneStep
  <2>2. Leaving(updates') \cup Leaving(w'.batch) \cup Leaving(w'.fu)
            \subseteq Leaving(updates) \cup Leaving(w.batch) \cup Leaving(w.fu)
    BY <1>5, ClientFrame, IdleFacts, OfEmpty
  <2>3. LeavesOK' <=> \A o \in Leaving(updates') \cup Leaving(w'.batch) \cup Leaving(w'.fu) : Gone(o)'
    BY DEF LeavesOK, Leaving
  <2> QED
    BY <2>1, <2>2, <2>3 DEF IInv, LeavesOK
<1>6. CASE CancelContext
  BY <1>6
    DEF CancelContext, IInv, LeavesOK, Gone, Leaving, registry, collector, mutators, client
<1>7. CASE UNCHANGED vars
  BY <1>7 DEF IInv, LeavesOK, Gone, Leaving, vars, registry, collector, mutators, client
<1> QED
  BY <1>1, <1>2, <1>3, <1>4, <1>5, <1>6, <1>7 DEF Next

(* Every step keeps what the call has at a place. *)
LEMMA PlacesStep == IInv /\ [Next]_vars => PlacesOK'
<1> SUFFICES ASSUME IInv, [Next]_vars PROVE PlacesOK'
  OBVIOUS
<1>1. ASSUME NEW o \in PutObjs, PutStep(o) PROVE PlacesOK'
  BY <1>1, PutFrame DEF IInv, PlacesOK, Collecting
<1>2. ASSUME NEW o \in RemObjs, RemoveStep(o) PROVE PlacesOK'
  BY <1>2, RemoveFrame DEF IInv, PlacesOK, Collecting
<1>3. ASSUME NEW k \in Writers, WriteStep(k) PROVE PlacesOK'
  BY <1>3, WriteFrame DEF IInv, PlacesOK, Collecting
<1>4. CASE Locate
  <2>1. CASE "pc" \in destroyed
    <3>1. wpc' = "reply" /\ (w'.reply.kind = "fault" => w'.reply.set = <<>>)
      BY <1>4, <2>1, AnswerNothing DEF Locate
    <3> QED
      BY <3>1 DEF PlacesOK, Collecting
  <2>2. CASE "pc" \notin destroyed
    BY <1>4, <2>2 DEF Locate, IInv, PlacesOK, Collecting
  <2> QED
    BY <2>1, <2>2
<1>5. CASE BeginPending
  <2>1. pending \in Seq(Items)
    BY <1>5 DEF BeginPending, IInv, Types, CollectorTypes
  <2>9. wpc' = "reply" /\ (w'.reply.kind = "fault" => w'.reply.set = <<>>)
    BY <1>5, <2>1, AnswerPageFacts DEF BeginPending
  <2> QED
    BY <2>9 DEF PlacesOK, Collecting
<1>6. CASE BeginInitial
  BY <1>6, IdleFacts DEF BeginInitial, IInv, PlacesOK, Collecting, mutators, client
<1>7. CASE BeginLoop
  BY <1>7, IdleFacts
    DEF BeginLoop, IInv, PlacesOK, Collecting, registry, collector, mutators, client
<1>8. CASE Done
  <2>9. wpc' = "reply" /\ (w'.reply.kind = "fault" => w'.reply.set = <<>>)
    BY <1>8, AnswerNothing DEF Done
  <2> QED
    BY <2>9 DEF PlacesOK, Collecting
<1>9. CASE Deadline
  <2>9. wpc' = "reply" /\ (w'.reply.kind = "fault" => w'.reply.set = <<>>)
    BY <1>9, AnswerNothing DEF Deadline
  <2> QED
    BY <2>9 DEF PlacesOK, Collecting
<1>10. CASE TickEmpty
  <2>9. wpc' = "reply" /\ (w'.reply.kind = "fault" => w'.reply.set = <<>>)
    BY <1>10, AnswerNothing DEF TickEmpty
  <2> QED
    BY <2>9 DEF PlacesOK, Collecting
<1>11. CASE Tick
  <2>1. pending' = pending
    BY <1>11 DEF Tick
  <2> QED
    BY <1>11, <2>1, TickEffect, IdleFacts DEF Tick, IInv, PlacesOK, Collecting
<1>12. CASE FilterGone
  BY <1>12 DEF FilterGone, IInv, PlacesOK, Collecting, registry, collector, mutators, client
<1>13. CASE FilterUpdate
  <2>1. pending' = pending
    BY <1>13 DEF FilterUpdate
  <2> QED
    BY <1>13, <2>1, FilterUpdateEffect DEF FilterUpdate, IInv, PlacesOK, Collecting
<1>14. CASE BatchCollect
  <2>1. pending' = pending
    BY <1>14 DEF BatchCollect, collector
  <2> QED
    BY <1>14, <2>1, BatchCollectEffect DEF BatchCollect, IInv, PlacesOK, Collecting
<1>15. CASE BatchLeave
  <2>1. pending' = pending
    BY <1>15 DEF BatchLeave
  <2> QED
    BY <1>15, <2>1, BatchLeaveEffect DEF BatchLeave, IInv, PlacesOK, Collecting
<1>16. CASE BatchEnd
  <2>1. w.set \o w.fu \in Seq(Items)
    BY ConcatFacts DEF IInv, Types, CallTypes, Locals
  <2>2. CASE wpc' = "reply"
    <3>1. w'.reply.kind = "fault" => w'.reply.set = <<>>
      BY <1>16, <2>1, <2>2, AnswerPageFacts, AnswerNothing DEF BatchEnd
    <3> QED
      BY <2>2, <3>1 DEF PlacesOK, Collecting
  <2>3. CASE wpc' = "select" /\ w' = Idle /\ pending' = pending
    <3>1. pending = None
      BY <1>16 DEF BatchEnd, IInv, PlacesOK, Collecting
    <3> QED
      BY <2>3, <3>1, IdleFacts DEF PlacesOK, Collecting
  <2> QED
    BY <1>16, <2>1, <2>2, <2>3, AnswerPageFacts, AnswerNothing DEF BatchEnd
<1>17. CASE Collect
  <2>1. pending' = pending
    BY <1>17 DEF Collect, collector
  <2> QED
    BY <1>17, <2>1, CollectEffect DEF Collect, IInv, PlacesOK, Collecting
<1>18. CASE CollectObject
  <2>1. w \in Locals /\ pending' = pending /\ wpc = "objects"
    BY <1>18 DEF CollectObject, collector, IInv, Types, CallTypes
  <2>2. CASE Answer("fault", <<>>)
    <3>1. wpc' = "reply" /\ (w'.reply.kind = "fault" => w'.reply.set = <<>>)
      BY <2>2, AnswerNothing
    <3> QED
      BY <3>1 DEF PlacesOK, Collecting
  <2>3. ASSUME NEW s, NEW r, w' = [w EXCEPT !.objs = s, !.res = r], wpc' = wpc PROVE PlacesOK'
    <3>1. w'.batch = w.batch /\ w'.why = w.why /\ w'.reply = w.reply
      BY <2>1, <2>3 DEF Locals
    <3> QED
      BY <2>1, <2>3, <3>1 DEF IInv, PlacesOK, Collecting
  <2> QED
    BY <1>18, <2>1, <2>2, <2>3, CollectOutcomes
<1>19. CASE CollectEnd
  BY <1>19 DEF CollectEnd, IInv, PlacesOK, Collecting, registry, collector, mutators, client
<1>20. CASE ResyncEnd
  <2>1. pending' = pending
    BY <1>20 DEF ResyncEnd, collector
  <2> QED
    BY <1>20, <2>1, ResyncEndEffect DEF ResyncEnd, IInv, PlacesOK, Collecting
<1>21. CASE ApplyObject
  <2>1. pending' = pending
    BY <1>21 DEF ApplyObject
  <2> QED
    BY <1>21, <2>1, ApplyObjectEffect DEF ApplyObject, IInv, PlacesOK, Collecting
<1>22. CASE ApplyInitial
  <2>1. w.set \in Seq(Items)
    BY DEF IInv, Types, CallTypes, Locals
  <2>9. wpc' = "reply" /\ (w'.reply.kind = "fault" => w'.reply.set = <<>>)
    BY <1>22, <2>1, AnswerPageFacts DEF ApplyInitial
  <2> QED
    BY <2>9 DEF PlacesOK, Collecting
<1>23. CASE ApplyBatch
  <2>1. w \in Locals /\ w.res = <<>> /\ pending' = pending
    BY <1>23 DEF ApplyBatch, collector, IInv, Types, CallTypes
  <2>2. w'.reply = w.reply /\ w'.res = <<>>
    BY <1>23, <2>1, ApplyBatchEffect DEF Locals
  <2> QED
    BY <1>23, <2>1, <2>2 DEF ApplyBatch, IInv, PlacesOK, Collecting
<1>24. CASE CreateView
  BY <1>24 DEF CreateView, IInv, PlacesOK, Collecting, collector, mutators, client
<1>25. CASE ListenView
  BY <1>25 DEF ListenView, IInv, PlacesOK, Collecting, collector, mutators, client
<1>26. CASE CreateFilter
  BY <1>26 DEF CreateFilter, IInv, PlacesOK, Collecting, collector, mutators, client
<1>27. CASE Send
  BY <1>27 DEF Send, IInv, PlacesOK, Collecting, registry, collector, mutators, client
<1>28. CASE Receive
  BY <1>28, IdleFacts
    DEF Receive, IInv, PlacesOK, Collecting, registry, collector, mutators, client
<1>29. CASE Lost
  BY <1>29, IdleFacts
    DEF Lost, IInv, PlacesOK, Collecting, registry, collector, mutators, client
<1>30. CASE CancelWaitForUpdates
  BY <1>30
    DEF CancelWaitForUpdates, IInv, PlacesOK, Collecting, registry, collector, mutators,
        client
<1>31. CASE DestroyFilter
  BY <1>31 DEF DestroyFilter, IInv, PlacesOK, Collecting, mutators, client
<1>32. CASE DestroyCollector
  BY <1>32 DEF DestroyCollector, IInv, PlacesOK, Collecting, mutators, client
<1>33. CASE CancelContext
  BY <1>33 DEF CancelContext, IInv, PlacesOK, Collecting, registry, collector, mutators, client
<1>34. CASE UNCHANGED vars
  BY <1>34 DEF IInv, PlacesOK, Collecting, vars, registry, collector, mutators, client
<1> QED
  BY <1>1, <1>2, <1>3, <1>4, <1>5, <1>6, <1>7, <1>8, <1>9, <1>10, <1>11, <1>12, <1>13, <1>14,
     <1>15, <1>16, <1>17, <1>18, <1>19, <1>20, <1>21, <1>22, <1>23, <1>24, <1>25, <1>26, <1>27,
     <1>28, <1>29, <1>30, <1>31, <1>32, <1>33, <1>34
    DEF Next, WaitStep, ClientStep

(* A call that goes on is not over. *)
LEMMA WaitNotOver ==
    ASSUME WaitStep
    PROVE  wpc \notin {"none", "reply"}
<1> DEFINE Goal == wpc \notin {"none", "reply"}
<1>1. Locate => Goal
  BY DEF Locate, Answer, registry, collector, mutators, client
<1>2. BeginPending => Goal
  BY DEF BeginPending, AnswerPage, Answer, registry, collector, mutators, client
<1>3. BeginInitial => Goal
  BY DEF BeginInitial, mutators, client
<1>4. BeginLoop => Goal
  BY DEF BeginLoop, registry, collector, mutators, client
<1>5. Done => Goal
  BY DEF Done, Answer, registry, collector, mutators, client
<1>6. Deadline => Goal
  BY DEF Deadline, Answer, registry, collector, mutators, client
<1>7. TickEmpty => Goal
  BY DEF TickEmpty, Answer, registry, collector, mutators, client
<1>8. Tick => Goal
  BY DEF Tick, registry, collector, mutators, client
<1>9. FilterGone => Goal
  BY DEF FilterGone, registry, collector, mutators, client
<1>10. FilterUpdate => Goal
  BY DEF FilterUpdate, Acquire, mutators, client
<1>11. BatchCollect => Goal
  BY DEF BatchCollect, registry, collector, mutators, client
<1>12. BatchLeave => Goal
  BY DEF BatchLeave, registry, collector, mutators, client
<1>13. BatchEnd => Goal
  BY DEF BatchEnd, Answer, AnswerPage, registry, collector, mutators, client
<1>14. Collect => Goal
  BY DEF Collect, registry, collector, mutators, client
<1>15. CollectObject => Goal
  BY DEF CollectObject, Answer, registry, collector, mutators, client
<1>16. CollectEnd => Goal
  BY DEF CollectEnd, registry, collector, mutators, client
<1>17. ResyncEnd => Goal
  BY DEF ResyncEnd, Release, collector, mutators, client
<1>18. ApplyObject => Goal
  BY DEF ApplyObject, registry, collector, mutators, client
<1>19. ApplyInitial => Goal
  BY DEF ApplyInitial, AnswerPage, Answer, registry, collector, mutators, client
<1>20. ApplyBatch => Goal
  BY DEF ApplyBatch, registry, collector, mutators, client
<1> QED
  BY <1>1, <1>2, <1>3, <1>4, <1>5, <1>6, <1>7, <1>8, <1>9, <1>10, <1>11, <1>12, <1>13, <1>14,
     <1>15, <1>16, <1>17, <1>18, <1>19, <1>20
    DEF WaitStep

(* What is over stays so. *)
LEMMA OverStep == IInv /\ [Next]_vars => (Over => Over')
<1> SUFFICES ASSUME IInv, [Next]_vars PROVE (Over => Over')
  OBVIOUS
<1>1. ASSUME NEW o \in PutObjs, PutStep(o) PROVE (Over => Over')
  BY <1>1, PutFrame DEF Over
<1>2. ASSUME NEW o \in RemObjs, RemoveStep(o) PROVE (Over => Over')
  BY <1>2, RemoveFrame DEF Over
<1>3. ASSUME NEW k \in Writers, WriteStep(k) PROVE (Over => Over')
  BY <1>3, WriteFrame DEF Over
<1>4. CASE WaitStep
  BY <1>4, WaitNotOver DEF Over
<1>5. CASE CreateView
  BY <1>5 DEF CreateView, Over, collector, mutators, client
<1>6. CASE ListenView
  BY <1>6 DEF ListenView, Over, collector, mutators, client
<1>7. CASE CreateFilter
  BY <1>7 DEF CreateFilter, Over, collector, mutators, client
<1>8. CASE Send
  BY <1>8 DEF Send, Over, registry, collector, mutators, client
<1>9. CASE Receive
  BY <1>9, IdleFacts DEF Receive, Over, registry, collector, mutators, client
<1>10. CASE Lost
  BY <1>10, IdleFacts DEF Lost, Over, registry, collector, mutators, client
<1>11. CASE CancelWaitForUpdates
  BY <1>11 DEF CancelWaitForUpdates, Over, registry, collector, mutators, client
<1>12. CASE DestroyFilter
  BY <1>12 DEF DestroyFilter, Over, mutators, client
<1>13. CASE DestroyCollector
  BY <1>13 DEF DestroyCollector, Over, mutators, client
<1>14. CASE CancelContext
  BY <1>14 DEF CancelContext, Over, registry, collector, mutators, client
<1>15. CASE UNCHANGED vars
  BY <1>15 DEF Over, vars, registry, collector, mutators, client
<1> QED
  BY <1>1, <1>2, <1>3, <1>4, <1>5, <1>6, <1>7, <1>8, <1>9, <1>10, <1>11, <1>12, <1>13, <1>14,
     <1>15
    DEF Next, ClientStep

(* Nothing is gathered, and the filter has only objects that the client knows of. *)
LEMMA NothingGathered ==
    ASSUME w'.set = <<>>, w'.fu = <<>>, w'.res = <<>>, refs' \ Unlocked \subseteq Known(cache')
    PROVE  (SetOK /\ FuOK /\ RefsOK /\ ResOK)'
<1>1. RefsOK'
  <2>1. RefsOK' <=> refs' \ Unlocked \subseteq (Known(cache') \cup Entering(w'.set)) \ Leaving(w'.fu)
    BY DEF RefsOK, Known, Entering, Leaving
  <2> QED
    BY <2>1, OfEmpty
<1> QED
  BY <1>1 DEF SetOK, FuOK, ResOK

(* Between two collections with nothing to send that is so. *)
LEMMA NothingToSend ==
    ASSUME IInv, wpc = "located", pending = None
    PROVE  w = Idle /\ refs \ Unlocked \subseteq Known(cache)
<1>1. w = Idle
  BY DEF IInv, PlacesOK
<1>2. Stream = <<>>
  BY <1>1, IdleFacts DEF Stream, Rest
<1>3. Follows(cache, Stream)
  BY DEF IInv, StreamOK, Over
<1> QED
  BY <1>1, <1>2, <1>3, OfEmpty DEF Follows

LEMMA SelectGathered ==
    ASSUME IInv, wpc = "select"
    PROVE  w = Idle /\ refs \ Unlocked \subseteq Known(cache) /\ pending = None
<1>1. w = Idle /\ pending = None
  BY DEF IInv, PlacesOK, Collecting
<1>2. RefsOK
  BY DEF IInv, CollectingOK, Collecting
<1> QED
  BY <1>1, <1>2, IdleFacts, OfEmpty DEF RefsOK

LEMMA BatchGathered ==
    ASSUME IInv, wpc = "batch", w.set \o w.fu = <<>>
    PROVE  w.set = <<>> /\ w.fu = <<>> /\ refs \ Unlocked \subseteq Known(cache) /\ pending = None
<1>1. w.set \in Seq(Items) /\ w.fu \in Seq(Items) /\ pending = None
  BY DEF IInv, Types, CallTypes, Locals, PlacesOK, Collecting
<1>2. w.set = <<>> /\ w.fu = <<>>
  BY <1>1, ConcatEmpty
<1>3. RefsOK
  BY DEF IInv, CollectingOK, Collecting
<1> QED
  BY <1>1, <1>2, <1>3, OfEmpty DEF RefsOK

(* An update of an object of the filter can be added. *)
LEMMA FuAppend ==
    ASSUME FuOK, RefsOK, w.fu \in Seq(Items), NEW u \in Items, u.kind # "enter", u.obj \in refs,
           w'.fu = Append(w.fu, u), w'.set = w.set, cache' = cache
    PROVE  FuOK'
<1> DEFINE f == Append(w.fu, u)
           n == Len(w.fu)
<1>1. /\ n \in Nat /\ f \in Seq(Items) /\ DOMAIN f = 1 .. n + 1 /\ f[n + 1] = u
      /\ DOMAIN w.fu = 1 .. n /\ \A i \in 1 .. n : f[i] = w.fu[i]
  BY SeqFacts
<1>2. u.obj \notin Unlocked =>
          u.obj \in Known(cache) \cup Entering(w.set) /\ u.obj \notin Leaving(w.fu)
  BY DEF RefsOK
<1>3. u.obj \notin Unlocked =>
          \A j \in 1 .. n : w.fu[j].obj = u.obj => w.fu[j].kind # "leave"
  BY <1>2, OfKind
<1> HIDE DEF f, n
<1>4. ASSUME NEW i \in DOMAIN f
      PROVE  /\ f[i].kind # "enter"
             /\ f[i].obj \notin Unlocked =>
                   /\ f[i].obj \in Known(cache) \cup Entering(w.set)
                   /\ \A j \in 1 .. i - 1 : f[j].obj = f[i].obj => f[j].kind # "leave"
  <2>1. CASE i = n + 1
    <3>1. f[i] = u /\ \A j \in 1 .. i - 1 : j \in 1 .. n /\ f[j] = w.fu[j]
      BY <1>1, <2>1
    <3> QED
      BY <1>2, <1>3, <3>1
  <2>2. CASE i \in 1 .. n
    <3>1. f[i] = w.fu[i] /\ \A j \in 1 .. i - 1 : j \in 1 .. n /\ f[j] = w.fu[j]
      BY <1>1, <2>2
    <3>2. /\ w.fu[i].kind # "enter"
          /\ w.fu[i].obj \notin Unlocked =>
                /\ w.fu[i].obj \in Known(cache) \cup Entering(w.set)
                /\ \A j \in 1 .. i - 1 : w.fu[j].obj = w.fu[i].obj => w.fu[j].kind # "leave"
      BY <1>1, <2>2 DEF FuOK
    <3> QED
      BY <3>1, <3>2
  <2> QED
    BY <1>1, <2>1, <2>2
<1>5. FuOK' <=> \A i \in DOMAIN w'.fu :
                    /\ w'.fu[i].kind # "enter"
                    /\ w'.fu[i].obj \notin Unlocked =>
                          /\ w'.fu[i].obj \in Known(cache') \cup Entering(w'.set)
                          /\ \A j \in 1 .. i - 1 :
                                w'.fu[j].obj = w'.fu[i].obj => w'.fu[j].kind # "leave"
  BY DEF FuOK, Known, Entering
<1>6. w'.fu = f
  BY DEF f
<1> QED
  BY <1>4, <1>5, <1>6

(* Every step keeps what is gathered sound. *)
LEMMA CollectingStep == IInv /\ [Next]_vars => CollectingOK'
<1> SUFFICES ASSUME IInv, [Next]_vars PROVE CollectingOK'
  OBVIOUS
<1>1. ASSUME NEW o \in PutObjs, PutStep(o) PROVE CollectingOK'
  BY <1>1, PutFrame
    DEF IInv, CollectingOK, Collecting, SetOK, FuOK, RefsOK, ResOK, Known, Entering, Leaving
<1>2. ASSUME NEW o \in RemObjs, RemoveStep(o) PROVE CollectingOK'
  BY <1>2, RemoveFrame
    DEF IInv, CollectingOK, Collecting, SetOK, FuOK, RefsOK, ResOK, Known, Entering, Leaving
<1>3. ASSUME NEW k \in Writers, WriteStep(k) PROVE CollectingOK'
  BY <1>3, WriteFrame
    DEF IInv, CollectingOK, Collecting, SetOK, FuOK, RefsOK, ResOK, Known, Entering, Leaving
<1>4. CASE Locate
  BY <1>4 DEF Locate, Answer, CollectingOK, Collecting
<1>5. CASE BeginPending
  BY <1>5 DEF BeginPending, AnswerPage, Answer, CollectingOK, Collecting
<1>6. CASE BeginInitial
  <2>1. w = Idle /\ refs \ Unlocked \subseteq Known(cache) /\ w' = w /\ refs' = refs /\ cache' = cache
    BY <1>6, NothingToSend DEF BeginInitial, client
  <2> QED
    BY <2>1, NothingGathered, IdleFacts DEF CollectingOK
<1>7. CASE BeginLoop
  <2>1. w = Idle /\ refs \ Unlocked \subseteq Known(cache) /\ w' = w /\ refs' = refs /\ cache' = cache
    BY <1>7, NothingToSend DEF BeginLoop, client
  <2> QED
    BY <2>1, NothingGathered, IdleFacts DEF CollectingOK
<1>8. CASE Done
  BY <1>8 DEF Done, Answer, CollectingOK, Collecting
<1>9. CASE Deadline
  BY <1>9 DEF Deadline, Answer, CollectingOK, Collecting
<1>10. CASE TickEmpty
  BY <1>10 DEF TickEmpty, Answer, CollectingOK, Collecting
<1>11. CASE Tick
  <2>1. SetOK /\ FuOK /\ RefsOK /\ ResOK
    BY <1>11 DEF Tick, IInv, CollectingOK, Collecting
  <2>2. w'.set = w.set /\ w'.fu = w.fu /\ w'.res = w.res /\ refs' = refs /\ cache' = cache
    BY <1>11, TickEffect DEF Tick, client
  <2> QED
    BY <2>1, <2>2 DEF CollectingOK, SetOK, FuOK, RefsOK, ResOK, Known, Entering, Leaving
<1>12. CASE FilterGone
  BY <1>12 DEF FilterGone, CollectingOK, Collecting
<1>13. CASE FilterUpdate
  <2>1. SetOK /\ FuOK /\ RefsOK /\ ResOK
    BY <1>13 DEF FilterUpdate, IInv, CollectingOK, Collecting
  <2>2. /\ w'.set = w.set /\ w'.fu = w.fu /\ w'.res = w.res /\ (refs' = refs \/ refs' = {})
        /\ cache' = cache
    BY <1>13, FilterUpdateEffect DEF FilterUpdate, client
  <2> QED
    BY <2>1, <2>2 DEF CollectingOK, SetOK, FuOK, RefsOK, ResOK, Known, Entering, Leaving
<1>14. CASE BatchCollect
  <2>1. SetOK /\ FuOK /\ RefsOK /\ ResOK
    BY <1>14 DEF BatchCollect, IInv, CollectingOK, Collecting
  <2>2. w'.set = w.set /\ w'.fu = w.fu /\ w'.res = w.res /\ refs' = refs /\ cache' = cache
    BY <1>14, BatchCollectEffect DEF BatchCollect, collector, client
  <2> QED
    BY <2>1, <2>2 DEF CollectingOK, SetOK, FuOK, RefsOK, ResOK, Known, Entering, Leaving
<1>15. CASE BatchLeave
  <2> DEFINE u == Head(w.batch)
  <2>1. SetOK /\ FuOK /\ RefsOK
    BY <1>15 DEF BatchLeave, IInv, CollectingOK, Collecting
  <2>2. w.fu \in Seq(Items) /\ w.res = <<>> /\ refs' = refs \ {u.obj} /\ cache' = cache
    BY <1>15 DEF BatchLeave, client, IInv, Types, CallTypes, Locals, PlacesOK
  <2>3. w'.set = w.set /\ w'.res = <<>> /\ u.kind = "leave"
    BY <1>15, <2>2, BatchLeaveEffect
  <2>4. \/ u.obj \notin refs /\ w'.fu = w.fu
        \/ u.obj \in refs /\ u \in Items /\ w'.fu = Append(w.fu, u)
    BY <1>15, BatchLeaveEffect
  <2> HIDE DEF u
  <2>5. SetOK' /\ ResOK'
    BY <2>1, <2>3 DEF SetOK, ResOK
  <2>6. CASE u.obj \notin refs /\ w'.fu = w.fu
    BY <2>1, <2>2, <2>3, <2>5, <2>6 DEF CollectingOK, FuOK, RefsOK, Known, Entering, Leaving
  <2>7. CASE u.obj \in refs /\ u \in Items /\ w'.fu = Append(w.fu, u)
    <3>1. FuOK'
      BY <2>1, <2>2, <2>3, <2>7, FuAppend
    <3>2. RefsOK'
      <4>1. \A q \in Leaving(w'.fu) : q \in Leaving(w.fu) \/ q = u.obj
        BY <2>2, <2>7, OfAppend
      <4>2. RefsOK' <=> refs' \ Unlocked \subseteq (Known(cache') \cup Entering(w'.set)) \ Leaving(w'.fu)
        BY DEF RefsOK, Known, Entering, Leaving
      <4> QED
        BY <2>1, <2>2, <2>3, <4>1, <4>2 DEF RefsOK
    <3> QED
      BY <2>5, <3>1, <3>2 DEF CollectingOK
  <2> QED
    BY <2>4, <2>6, <2>7
<1>16. CASE BatchEnd
  <2>1. CASE wpc' = "reply"
    BY <2>1 DEF CollectingOK, Collecting
  <2>2. CASE w' = Idle /\ w.set \o w.fu = <<>>
    <3>1. refs \ Unlocked \subseteq Known(cache) /\ refs' = refs /\ cache' = cache
      BY <1>16, <2>2, BatchGathered DEF BatchEnd, client
    <3> QED
      BY <2>2, <3>1, NothingGathered, IdleFacts DEF CollectingOK
  <2> QED
    BY <1>16, <2>1, <2>2 DEF BatchEnd, AnswerPage, Answer
<1>17. CASE Collect
  <2>1. SetOK /\ FuOK /\ RefsOK /\ ResOK
    BY <1>17 DEF Collect, IInv, CollectingOK, Collecting
  <2>2. w'.set = w.set /\ w'.fu = w.fu /\ w'.res = w.res /\ refs' = refs /\ cache' = cache
    BY <1>17, CollectEffect DEF Collect, collector, client
  <2> QED
    BY <2>1, <2>2 DEF CollectingOK, SetOK, FuOK, RefsOK, ResOK, Known, Entering, Leaving
<1>18. CASE CollectObject
  <2> DEFINE o == Head(w.objs)
  <2>1. SetOK /\ FuOK /\ RefsOK /\ ResOK
    BY <1>18 DEF CollectObject, IInv, CollectingOK, Collecting
  <2>2. w \in Locals /\ w.res \in Seq(Items) /\ refs' = refs /\ cache' = cache
    BY <1>18 DEF CollectObject, client, collector, IInv, Types, CallTypes, Locals
  <2>3. CASE Answer("fault", <<>>)
    BY <2>3 DEF Answer, CollectingOK, Collecting
  <2>4. ASSUME NEW s, NEW r, w' = [w EXCEPT !.objs = s, !.res = r],
               \A i \in DOMAIN r : r[i].kind = "enter" /\ r[i].obj \notin Leaving(w.fu) \ Unlocked
        PROVE  CollectingOK'
    <3>1. w'.set = w.set /\ w'.fu = w.fu /\ w'.res = r
      BY <2>2, <2>4 DEF Locals
    <3> QED
      BY <2>1, <2>2, <2>4, <3>1 DEF CollectingOK, SetOK, FuOK, RefsOK, ResOK, Known, Entering, Leaving
  <2>5. ASSUME o \in registered, lock[o] = None
        PROVE  \A i \in DOMAIN Append(w.res, Content(o)) :
                   /\ Append(w.res, Content(o))[i].kind = "enter"
                   /\ Append(w.res, Content(o))[i].obj \notin Leaving(w.fu) \ Unlocked
    <3>1. o \notin Leaving(w.fu) \ Unlocked
      BY <2>5, Names DEF IInv, LeavesOK, Gone, LocksOK, RegisteredOK, Types, MutatorTypes
    <3>2. Content(o) \in Items /\ Content(o).kind = "enter" /\ Content(o).obj = o
      BY <2>5 DEF Content, Update, Items, IInv, Types, RegistryTypes
    <3> HIDE DEF o
    <3> QED
      BY <2>1, <2>2, <3>1, <3>2 DEF ResOK
  <2>6. \/ \E r \in {w.res, Append(w.res, Content(o))} :
                    /\ w' = [w EXCEPT !.objs = Tail(w.objs), !.res = r]
                    /\ r # w.res => o \in registered /\ lock[o] = None
        \/ Answer("fault", <<>>)
    BY <1>18, <2>2, CollectOutcomes
  <2> HIDE DEF o
  <2>7. \A i \in DOMAIN w.res :
            w.res[i].kind = "enter" /\ w.res[i].obj \notin Leaving(w.fu) \ Unlocked
    BY <2>1 DEF ResOK
  <2>8. CASE w' = [w EXCEPT !.objs = Tail(w.objs), !.res = w.res]
    BY <2>4, <2>7, <2>8
  <2>9. CASE /\ w' = [w EXCEPT !.objs = Tail(w.objs), !.res = Append(w.res, Content(o))]
             /\ o \in registered /\ lock[o] = None
    BY <2>4, <2>5, <2>9
  <2> QED
    BY <2>3, <2>6, <2>8, <2>9
<1>19. CASE CollectEnd
  <2>1. SetOK /\ FuOK /\ RefsOK /\ ResOK
    BY <1>19 DEF CollectEnd, IInv, CollectingOK, Collecting
  <2>2. w' = w /\ refs' = refs /\ cache' = cache
    BY <1>19 DEF CollectEnd, collector, client
  <2> QED
    BY <2>1, <2>2 DEF CollectingOK, SetOK, FuOK, RefsOK, ResOK, Known, Entering, Leaving
<1>20. CASE ResyncEnd
  <2>1. SetOK /\ FuOK /\ RefsOK /\ ResOK
    BY <1>20 DEF ResyncEnd, IInv, CollectingOK, Collecting
  <2>2. w'.set = w.set /\ w'.fu = w.fu /\ w'.res = <<>> /\ refs' = refs /\ cache' = cache
    BY <1>20, ResyncEndEffect DEF ResyncEnd, collector, client
  <2> QED
    BY <2>1, <2>2 DEF CollectingOK, SetOK, FuOK, RefsOK, ResOK, Known, Entering, Leaving
<1>21. CASE ApplyObject
  <2> DEFINE u == Head(w.res)
  <2>1. SetOK /\ FuOK /\ RefsOK /\ ResOK
    BY <1>21 DEF ApplyObject, IInv, CollectingOK, Collecting
  <2>2. /\ w.set \in Seq(Items) /\ w.res \in Seq(Items) /\ w.res # <<>>
        /\ refs' = refs \cup {u.obj} /\ cache' = cache
    BY <1>21 DEF ApplyObject, client, IInv, Types, CallTypes, Locals
  <2>3. w'.fu = w.fu /\ w'.res = Tail(w.res) /\ u \in Items
    BY <1>21, ApplyObjectEffect
  <2>4. \/ u.obj \in refs /\ w'.set = w.set
        \/ u.obj \notin refs /\ w'.set = Append(w.set, u)
    BY <1>21, ApplyObjectEffect
  <2>5. u.kind = "enter" /\ u.obj \notin Leaving(w.fu) \ Unlocked
    BY <2>1, <2>2, TailFacts, SeqFacts DEF ResOK
  <2>6. ResOK'
    <3>1. ASSUME NEW i \in DOMAIN Tail(w.res)
          PROVE  /\ Tail(w.res)[i].kind = "enter"
                 /\ Tail(w.res)[i].obj \notin Leaving(w.fu) \ Unlocked
      <4>1. i + 1 \in DOMAIN w.res /\ Tail(w.res)[i] = w.res[i + 1]
        BY <2>2, TailFacts, SeqFacts
      <4> QED
        BY <2>1, <4>1 DEF ResOK
    <3> QED
      BY <2>3, <3>1 DEF ResOK, Leaving
  <2> HIDE DEF u
  <2>7. \A q : q \in Entering(w'.set) <=> q \in Entering(w.set) \/ (u.obj \notin refs /\ q = u.obj)
    <3>1. \A q : q \in Entering(Append(w.set, u)) <=> q \in Entering(w.set) \/ q = u.obj
      BY <2>2, <2>3, <2>5, OfAppend
    <3> QED
      BY <2>4, <3>1
  <2>8. SetOK'
    <3>1. CASE w'.set = w.set
      BY <2>1, <3>1 DEF SetOK
    <3>2. CASE w'.set = Append(w.set, u)
      <4>1. \A i \in DOMAIN Append(w.set, u) : i \in DOMAIN w.set \/ i = Len(w.set) + 1
        BY <2>2, <2>3, SeqFacts
      <4>2. \A i \in DOMAIN Append(w.set, u) : Append(w.set, u)[i].kind = "enter"
        BY <2>1, <2>2, <2>3, <2>5, <4>1, SeqFacts DEF SetOK
      <4> QED
        BY <3>2, <4>2 DEF SetOK
    <3> QED
      BY <2>4, <3>1, <3>2
  <2>9. FuOK' /\ RefsOK'
    <3>1. Known(cache') = Known(cache) /\ Leaving(w'.fu) = Leaving(w.fu)
      BY <2>2, <2>3
    <3>2. RefsOK' <=> refs' \ Unlocked \subseteq (Known(cache') \cup Entering(w'.set)) \ Leaving(w'.fu)
      BY DEF RefsOK, Known, Entering, Leaving
    <3>3. RefsOK'
      BY <2>1, <2>2, <2>5, <2>7, <3>1, <3>2 DEF RefsOK
    <3>4. FuOK' <=> \A i \in DOMAIN w'.fu :
                        /\ w'.fu[i].kind # "enter"
                        /\ w'.fu[i].obj \notin Unlocked =>
                              /\ w'.fu[i].obj \in Known(cache') \cup Entering(w'.set)
                              /\ \A j \in 1 .. i - 1 :
                                    w'.fu[j].obj = w'.fu[i].obj => w'.fu[j].kind # "leave"
      BY DEF FuOK, Known, Entering
    <3>5. FuOK'
      BY <2>1, <2>3, <2>7, <3>1, <3>4 DEF FuOK
    <3> QED
      BY <3>3, <3>5
  <2> QED
    BY <2>6, <2>8, <2>9 DEF CollectingOK
<1>22. CASE ApplyInitial
  BY <1>22 DEF ApplyInitial, AnswerPage, Answer, CollectingOK, Collecting
<1>23. CASE ApplyBatch
  <2>1. SetOK /\ FuOK /\ RefsOK
    BY <1>23 DEF ApplyBatch, IInv, CollectingOK, Collecting
  <2>2. /\ w \in Locals /\ w.fu \in Seq(Items) /\ w.res = <<>> /\ refs' = refs
        /\ cache' = cache
    BY <1>23 DEF ApplyBatch, client, collector, IInv, Types, CallTypes, Locals
  <2>3. w'.set = w.set /\ w'.res = <<>>
    BY <1>23, <2>2, ApplyBatchEffect DEF Locals
  <2>4. w'.fu = w.fu \/ \E u \in Items : u.kind = "modify" /\ u.obj \in refs /\ w'.fu = Append(w.fu, u)
    BY <1>23, ApplyBatchEffect
  <2>5. SetOK' /\ ResOK'
    BY <2>1, <2>3 DEF SetOK, ResOK
  <2>6. CASE w'.fu = w.fu
    BY <2>1, <2>2, <2>3, <2>5, <2>6 DEF CollectingOK, FuOK, RefsOK, Known, Entering, Leaving
  <2>7. ASSUME NEW u \in Items, u.kind = "modify", u.obj \in refs, w'.fu = Append(w.fu, u)
        PROVE  CollectingOK'
    <3>1. FuOK'
      BY <2>1, <2>2, <2>3, <2>7, FuAppend
    <3>2. RefsOK'
      <4>1. \A q \in Leaving(w'.fu) : q \in Leaving(w.fu)
        BY <2>2, <2>7, OfAppend
      <4>2. RefsOK' <=> refs' \ Unlocked \subseteq (Known(cache') \cup Entering(w'.set)) \ Leaving(w'.fu)
        BY DEF RefsOK, Known, Entering, Leaving
      <4> QED
        BY <2>1, <2>2, <2>3, <4>1, <4>2 DEF RefsOK
    <3> QED
      BY <2>5, <3>1, <3>2 DEF CollectingOK
  <2> QED
    BY <2>4, <2>6, <2>7
<1>24. CASE CreateView
  BY <1>24
    DEF CreateView, IInv, CollectingOK, Collecting, SetOK, FuOK, RefsOK, ResOK, Known,
        Entering, Leaving, collector, mutators, client
<1>25. CASE ListenView
  BY <1>25
    DEF ListenView, IInv, CollectingOK, Collecting, SetOK, FuOK, RefsOK, ResOK, Known,
        Entering, Leaving, collector, mutators, client
<1>26. CASE CreateFilter
  BY <1>26
    DEF CreateFilter, IInv, CollectingOK, Collecting, SetOK, FuOK, RefsOK, ResOK, Known,
        Entering, Leaving, collector, mutators, client
<1>27. CASE Send
  BY <1>27 DEF Send, CollectingOK, Collecting
<1>28. CASE Receive
  BY <1>28 DEF Receive, CollectingOK, Collecting
<1>29. CASE Lost
  BY <1>29 DEF Lost, CollectingOK, Collecting
<1>30. CASE CancelWaitForUpdates
  BY <1>30
    DEF CancelWaitForUpdates, IInv, CollectingOK, Collecting, SetOK, FuOK, RefsOK, ResOK,
        Known, Entering, Leaving, registry, collector, mutators, client
<1>31. CASE DestroyFilter
  BY <1>31
    DEF DestroyFilter, IInv, CollectingOK, Collecting, SetOK, FuOK, RefsOK, ResOK, Known,
        Entering, Leaving, mutators, client
<1>32. CASE DestroyCollector
  BY <1>32
    DEF DestroyCollector, IInv, CollectingOK, Collecting, SetOK, FuOK, RefsOK, ResOK, Known,
        Entering, Leaving, mutators, client
<1>33. CASE CancelContext
  BY <1>33
    DEF CancelContext, IInv, CollectingOK, Collecting, SetOK, FuOK, RefsOK, ResOK, Known,
        Entering, Leaving, registry, collector, mutators, client
<1>34. CASE UNCHANGED vars
  BY <1>34
    DEF IInv, CollectingOK, Collecting, SetOK, FuOK, RefsOK, ResOK, Known, Entering,
        Leaving, vars, registry, collector, mutators, client
<1> QED
  BY <1>1, <1>2, <1>3, <1>4, <1>5, <1>6, <1>7, <1>8, <1>9, <1>10, <1>11, <1>12, <1>13, <1>14,
     <1>15, <1>16, <1>17, <1>18, <1>19, <1>20, <1>21, <1>22, <1>23, <1>24, <1>25, <1>26, <1>27,
     <1>28, <1>29, <1>30, <1>31, <1>32, <1>33, <1>34
    DEF Next, WaitStep, ClientStep

-----------------------------------------------------------------------------
(* What has been gathered is what the client may be sent: first what enters. *)
LEMMA GatheredSound ==
    ASSUME SetOK, FuOK, RefsOK, w.set \in Seq(Items), w.fu \in Seq(Items)
    PROVE  Sound(cache, w.set \o w.fu) /\ Follows(cache, w.set \o w.fu)
<1> DEFINE s == w.set
           f == w.fu
           q == s \o f
<1>1. /\ q \in Seq(Items) /\ Len(q) = Len(s) + Len(f) /\ Len(s) \in Nat /\ Len(f) \in Nat
      /\ DOMAIN q = 1 .. Len(s) + Len(f)
      /\ \A i \in 1 .. Len(s) : q[i] = s[i]
      /\ \A i \in 1 .. Len(f) : q[Len(s) + i] = f[i]
  <2>1. s \in Seq(Items) /\ f \in Seq(Items)
    OBVIOUS
  <2> HIDE DEF s, f
  <2> QED
    BY <2>1, ConcatFacts, SeqFacts
<1>2. \A i \in 1 .. Len(s) : s[i].kind = "enter"
  BY DEF SetOK
<1>3. \A i \in 1 .. Len(f) : f[i].obj \notin Unlocked =>
          /\ f[i].obj \in Known(cache) \cup Entering(s)
          /\ \A j \in 1 .. i - 1 : f[j].obj = f[i].obj => f[j].kind # "leave"
  BY DEF FuOK
<1>4. \A o : o \in Entering(s) => \E i \in 1 .. Len(s) : s[i].kind = "enter" /\ s[i].obj = o
  BY OfKind
<1>5. Leaving(s) = {}
  BY <1>2, OfKind
<1>6. Leaving(q) = Leaving(f) /\ Entering(s) \subseteq Entering(q)
  <2>1. Leaving(s \o f) = Leaving(s) \cup Leaving(f) /\ Entering(s \o f) = Entering(s) \cup Entering(f)
    BY OfConcat
  <2> QED
    BY <1>5, <2>1
<1>7. Follows(cache, q)
  <2> HIDE DEF q
  <2> QED
    BY <1>6 DEF Follows, RefsOK
<1> HIDE DEF q, s, f
<1>8. ASSUME NEW i \in DOMAIN q, q[i].kind # "enter", q[i].obj \notin Unlocked
      PROVE  /\ \/ q[i].obj \in Known(cache)
                \/ \E j \in 1 .. i - 1 : q[j].obj = q[i].obj /\ q[j].kind = "enter"
             /\ \A j \in 1 .. i - 1 : q[j].obj = q[i].obj => q[j].kind # "leave"
  <2>1. i \in Nat /\ i > Len(s)
    BY <1>1, <1>2, <1>8
  <2> DEFINE k == i - Len(s)
  <2>2. k \in 1 .. Len(f) /\ Len(s) + k = i
    BY <1>1, <2>1
  <2>3. q[i] = f[k]
    BY <1>1, <2>2
  <2>4. f[k].obj \notin Unlocked /\ f[k].obj \in Known(cache) \cup Entering(s)
    BY <1>3, <1>8, <2>2, <2>3
  <2>5. f[k].obj \in Entering(s) => \E j \in 1 .. i - 1 : q[j].obj = f[k].obj /\ q[j].kind = "enter"
    <3>1. \A j \in 1 .. Len(s) : j \in 1 .. i - 1 /\ q[j] = s[j]
      BY <1>1, <2>1
    <3> QED
      BY <1>4, <3>1
  <2>6. ASSUME NEW j \in 1 .. i - 1, q[j].obj = f[k].obj PROVE q[j].kind # "leave"
    <3>1. CASE j <= Len(s)
      <4>1. j \in 1 .. Len(s)
        BY <1>1, <3>1
      <4> QED
        BY <1>1, <1>2, <4>1
    <3>2. CASE j > Len(s)
      <4>1. j - Len(s) \in 1 .. Len(f) /\ j - Len(s) \in 1 .. k - 1 /\ Len(s) + (j - Len(s)) = j
        BY <1>1, <2>1, <2>2, <3>2
      <4>2. q[j] = f[j - Len(s)]
        BY <1>1, <4>1
      <4> QED
        BY <1>3, <2>2, <2>4, <2>6, <4>1, <4>2
    <3> QED
      BY <1>1, <3>1, <3>2
  <2> HIDE DEF k
  <2> QED
    BY <2>3, <2>4, <2>5, <2>6
<1>9. Sound(cache, q)
  BY <1>8 DEF Sound
<1> QED
  BY <1>7, <1>9 DEF q, s, f

(* The client knows of an object that has not left after the answer. *)
LEMMA ApplyKnows ==
    ASSUME NEW c \in [Objs -> Nat \cup {None}], NEW s \in Seq(Items), NEW o \in Objs,
           o \notin Leaving(s), o \in Known(c) \cup Entering(s)
    PROVE  o \in Known(Apply(c, s))
<1>1. DOMAIN s = 1 .. Len(s) /\ \A i \in DOMAIN s : s[i] \in Items
  OBVIOUS
<1>2. CASE \A i \in DOMAIN s : s[i].obj # o
  <2>1. o \notin Entering(s)
    BY <1>1, <1>2, OfKind
  <2>2. Apply(c, s)[o] = c[o]
    BY <1>2, ApplyFacts
  <2> QED
    BY <2>1, <2>2 DEF Known
<1>3. CASE \E i \in DOMAIN s : s[i].obj = o
  <2>1. PICK m \in DOMAIN s : /\ s[m].obj = o
                              /\ Apply(c, s)[o] = IF s[m].kind = "leave" THEN None ELSE s[m].val
    BY <1>3, ApplyFacts
  <2>2. s[m].kind # "leave"
    BY <1>1, <2>1, OfKind
  <2>3. s[m].val \in Nat
    BY <1>1, <2>1 DEF Items
  <2>4. Apply(c, s)[o] # None
    BY <2>1, <2>2, <2>3, NamesAssumption
  <2> QED
    BY <2>4 DEF Known
<1> QED
  BY <1>2, <1>3

(* What is left to send after an answer is sound for what the client knows then. *)
LEMMA ReceiveSound ==
    ASSUME NEW c \in [Objs -> Nat \cup {None}], NEW p \in Seq(Items), NEW r \in Seq(Items),
           refs \subseteq Objs, Sound(c, p \o r), Follows(c, p \o r)
    PROVE  Sound(Apply(c, p), r) /\ Follows(Apply(c, p), r)
<1> DEFINE q == p \o r
           d == Apply(c, p)
           n == Len(p)
<1>1. /\ q \in Seq(Items) /\ Len(q) = n + Len(r) /\ n \in Nat /\ Len(r) \in Nat
      /\ DOMAIN q = 1 .. n + Len(r) /\ DOMAIN r = 1 .. Len(r)
      /\ \A i \in 1 .. n : q[i] = p[i]
      /\ \A i \in 1 .. Len(r) : q[n + i] = r[i] /\ r[i].obj \in Objs
  <2>1. \A i \in 1 .. Len(r) : r[i] \in Items
    OBVIOUS
  <2>2. \A i \in 1 .. Len(r) : r[i].obj \in Objs
    BY <2>1 DEF Items
  <2> QED
    BY <2>2, ConcatFacts, SeqFacts
<1>2. Leaving(q) = Leaving(p) \cup Leaving(r) /\ Entering(q) = Entering(p) \cup Entering(r)
  BY OfConcat
<1>3. /\ \A o : o \in Leaving(p) <=> \E i \in 1 .. n : p[i].kind = "leave" /\ p[i].obj = o
      /\ \A o : o \in Entering(p) <=> \E i \in 1 .. n : p[i].kind = "enter" /\ p[i].obj = o
  BY OfKind
<1>4. \A o \in Objs : o \notin Leaving(p) /\ o \in Known(c) \cup Entering(p) => o \in Known(d)
  BY ApplyKnows
<1>5. \A i \in DOMAIN q : q[i].kind # "enter" /\ q[i].obj \notin Unlocked =>
        /\ q[i].obj \in Known(c) \/ \E j \in 1 .. i - 1 : q[j].obj = q[i].obj /\ q[j].kind = "enter"
        /\ \A j \in 1 .. i - 1 : q[j].obj = q[i].obj => q[j].kind # "leave"
  BY DEF Sound
<1>6. refs \ Unlocked \subseteq (Known(c) \cup Entering(q)) \ Leaving(q)
  BY DEF Follows
<1> HIDE DEF q, d, n
<1>7. Follows(d, r)
  BY <1>2, <1>4, <1>6 DEF Follows
<1>8. ASSUME NEW i \in DOMAIN r, r[i].kind # "enter", r[i].obj \notin Unlocked
      PROVE  /\ \/ r[i].obj \in Known(d)
                \/ \E j \in 1 .. i - 1 : r[j].obj = r[i].obj /\ r[j].kind = "enter"
             /\ \A j \in 1 .. i - 1 : r[j].obj = r[i].obj => r[j].kind # "leave"
  <2> DEFINE o == r[i].obj
  <2> DEFINE m == n + i
  <2>1. /\ m \in DOMAIN q /\ q[m] = r[i] /\ i \in 1 .. Len(r) /\ o \in Objs
        /\ m \in Nat /\ m = n + i
    BY <1>1
  <2> HIDE DEF m, o
  <2>2. /\ o \in Known(c) \/ \E j \in 1 .. m - 1 : q[j].obj = o /\ q[j].kind = "enter"
        /\ \A j \in 1 .. m - 1 : q[j].obj = o => q[j].kind # "leave"
    <3>1. q[m].obj = o /\ q[m].kind # "enter" /\ q[m].obj \notin Unlocked
      BY <1>8, <2>1 DEF o
    <3> QED
      BY <1>5, <2>1, <3>1
  <2>3. \A j \in 1 .. n : j \in 1 .. m - 1 /\ q[j] = p[j]
    BY <1>1, <2>1
  <2>4. \A j \in 1 .. i - 1 : n + j \in 1 .. m - 1 /\ q[n + j] = r[j]
    BY <1>1, <2>1
  <2>5. o \notin Leaving(p)
    BY <1>3, <2>2, <2>3
  <2>6. \A j \in 1 .. i - 1 : r[j].obj = o => r[j].kind # "leave"
    BY <2>2, <2>4
  <2>7. CASE o \in Known(c)
    BY <1>4, <2>1, <2>5, <2>6, <2>7 DEF o
  <2>8. ASSUME NEW j \in 1 .. m - 1, q[j].obj = o, q[j].kind = "enter"
        PROVE  o \in Known(d) \/ \E k \in 1 .. i - 1 : r[k].obj = o /\ r[k].kind = "enter"
    <3>1. CASE j <= n
      <4>1. j \in 1 .. n
        BY <1>1, <3>1
      <4>2. o \in Entering(p)
        BY <1>1, <1>3, <2>8, <4>1
      <4> QED
        BY <1>4, <2>1, <2>5, <4>2
    <3>2. CASE j > n
      <4>1. j - n \in 1 .. i - 1 /\ n + (j - n) = j
        BY <1>1, <2>1, <3>2
      <4>2. q[j] = r[j - n]
        BY <2>4, <4>1
      <4> QED
        BY <2>8, <4>1, <4>2
    <3> QED
      BY <1>1, <2>1, <3>1, <3>2
  <2> QED
    BY <2>2, <2>6, <2>7, <2>8 DEF o
<1>9. Sound(d, r)
  BY <1>8 DEF Sound
<1> QED
  BY <1>7, <1>9 DEF d

(* With nothing to send the filter has only objects that the client knows of. *)
LEMMA NothingSound ==
    ASSUME w'.reply.set = <<>>, pending' = None, refs' \ Unlocked \subseteq Known(cache')
    PROVE  Sound(cache, Stream)' /\ Follows(cache, Stream)'
<1>1. Stream' = <<>>
  BY DEF Stream, Rest
<1>2. Sound(cache, Stream)'
  BY <1>1 DEF Sound
<1>3. Follows(cache, Stream)' <=>
          refs' \ Unlocked \subseteq (Known(cache') \cup Entering(Stream')) \ Leaving(Stream')
  BY DEF Follows, Known, Entering, Leaving
<1> QED
  BY <1>1, <1>2, <1>3, OfEmpty

LEMMA SameSound ==
    ASSUME NEW q, Sound(cache, q), Follows(cache, q), Stream' = q, refs' = refs, cache' = cache
    PROVE  Sound(cache, Stream)' /\ Follows(cache, Stream)'
<1>1. Sound(cache, Stream)' <=> Sound(cache', Stream')
  BY DEF Sound, Known
<1>2. Follows(cache, Stream)' <=>
          refs' \ Unlocked \subseteq (Known(cache') \cup Entering(Stream')) \ Leaving(Stream')
  BY DEF Follows, Known, Entering, Leaving
<1> QED
  BY <1>1, <1>2 DEF Follows

(* Every step keeps what the client is still to be sent sound. *)
LEMMA StreamStep == IInv /\ [Next]_vars => StreamOK'
<1> SUFFICES ASSUME IInv, [Next]_vars PROVE StreamOK'
  OBVIOUS
<1>1. ASSUME NEW o \in PutObjs, PutStep(o) PROVE StreamOK'
  <2>1. w' = w /\ wpc' = wpc /\ pending' = pending /\ refs' = refs /\ cache' = cache
    BY <1>1, PutFrame
  <2>2. Over => Over'
    BY OverStep
  <2>3. Stream' = Stream
    BY <2>1 DEF Stream, Rest
  <2> QED
    BY <2>1, <2>2, <2>3, SameSound DEF IInv, StreamOK
<1>2. ASSUME NEW o \in RemObjs, RemoveStep(o) PROVE StreamOK'
  <2>1. w' = w /\ wpc' = wpc /\ pending' = pending /\ refs' = refs /\ cache' = cache
    BY <1>2, RemoveFrame
  <2>2. Over => Over'
    BY OverStep
  <2>3. Stream' = Stream
    BY <2>1 DEF Stream, Rest
  <2> QED
    BY <2>1, <2>2, <2>3, SameSound DEF IInv, StreamOK
<1>3. ASSUME NEW k \in Writers, WriteStep(k) PROVE StreamOK'
  <2>1. w' = w /\ wpc' = wpc /\ pending' = pending /\ refs' = refs /\ cache' = cache
    BY <1>3, WriteFrame
  <2>2. Over => Over'
    BY OverStep
  <2>3. Stream' = Stream
    BY <2>1 DEF Stream, Rest
  <2> QED
    BY <2>1, <2>2, <2>3, SameSound DEF IInv, StreamOK
<1>4. CASE Locate
  <2>1. CASE "pc" \in destroyed
    <3>1. wpc' = "reply" /\ w'.reply.kind = "fault"
      BY <1>4, <2>1, AnswerNothing DEF Locate
    <3> QED
      BY <3>1 DEF StreamOK, Over
  <2>2. CASE "pc" \notin destroyed
    <3>1. w' = w /\ pending' = pending /\ refs' = refs /\ cache' = cache /\ wpc = "sent"
      BY <1>4, <2>2 DEF Locate, collector, client
    <3>2. Sound(cache, Stream) /\ Follows(cache, Stream)
      BY <3>1 DEF IInv, StreamOK, Over
    <3>3. Stream' = Stream
      BY <3>1 DEF Stream, Rest
    <3> QED
      BY <3>1, <3>2, <3>3, SameSound DEF StreamOK
  <2> QED
    BY <2>1, <2>2
<1>5. CASE BeginPending
  <2>1. pending \in Seq(Items) /\ w = Idle /\ pending # None /\ refs' = refs /\ cache' = cache
    BY <1>5 DEF BeginPending, client, IInv, Types, CollectorTypes, PlacesOK
  <2>2. Sound(cache, Stream) /\ Follows(cache, Stream)
    BY <1>5 DEF BeginPending, IInv, StreamOK, Over
  <2>3. Stream = pending
    BY <2>1, IdleFacts DEF Stream, Rest
  <2>4. Stream' = pending
    BY <1>5, <2>1, AnswerPageFacts DEF BeginPending
  <2> QED
    BY <2>1, <2>2, <2>3, <2>4, SameSound DEF StreamOK
<1>6. CASE BeginInitial
  BY <1>6 DEF BeginInitial, StreamOK
<1>7. CASE BeginLoop
  BY <1>7 DEF BeginLoop, StreamOK
<1>8. CASE Done
  <2>1. refs \ Unlocked \subseteq Known(cache) /\ pending = None
    BY <1>8, SelectGathered DEF Done
  <2>2. w'.reply.set = <<>> /\ pending' = pending /\ refs' = refs /\ cache' = cache
    BY <1>8, AnswerNothing DEF Done, collector, client
  <2> QED
    BY <2>1, <2>2, NothingSound DEF StreamOK
<1>9. CASE Deadline
  <2>1. refs \ Unlocked \subseteq Known(cache) /\ pending = None
    BY <1>9, SelectGathered DEF Deadline
  <2>2. w'.reply.set = <<>> /\ pending' = pending /\ refs' = refs /\ cache' = cache
    BY <1>9, AnswerNothing DEF Deadline, collector, client
  <2> QED
    BY <2>1, <2>2, NothingSound DEF StreamOK
<1>10. CASE TickEmpty
  <2>1. refs \ Unlocked \subseteq Known(cache) /\ pending = None
    BY <1>10, SelectGathered DEF TickEmpty
  <2>2. w'.reply.set = <<>> /\ pending' = pending /\ refs' = refs /\ cache' = cache
    BY <1>10, AnswerNothing DEF TickEmpty, collector, client
  <2> QED
    BY <2>1, <2>2, NothingSound DEF StreamOK
<1>11. CASE Tick
  BY <1>11 DEF Tick, StreamOK
<1>12. CASE FilterGone
  BY <1>12 DEF FilterGone, StreamOK
<1>13. CASE FilterUpdate
  BY <1>13 DEF FilterUpdate, StreamOK
<1>14. CASE BatchCollect
  BY <1>14 DEF BatchCollect, StreamOK
<1>15. CASE BatchLeave
  BY <1>15 DEF BatchLeave, StreamOK
<1>16. CASE BatchEnd
  <2>1. w.set \in Seq(Items) /\ w.fu \in Seq(Items) /\ refs' = refs /\ cache' = cache
    BY <1>16 DEF BatchEnd, client, IInv, Types, CallTypes, Locals
  <2>2. SetOK /\ FuOK /\ RefsOK
    BY <1>16 DEF BatchEnd, IInv, CollectingOK, Collecting
  <2>3. CASE AnswerPage(w.set \o w.fu)
    <3>1. w.set \o w.fu \in Seq(Items)
      BY <2>1, ConcatFacts
    <3>2. Stream' = w.set \o w.fu
      BY <2>3, <3>1, AnswerPageFacts
    <3>3. Sound(cache, w.set \o w.fu) /\ Follows(cache, w.set \o w.fu)
      BY <2>1, <2>2, GatheredSound
    <3> QED
      BY <2>1, <3>2, <3>3, SameSound DEF StreamOK
  <2>4. CASE w.set \o w.fu = <<>> /\ Answer("nil", <<>>) /\ pending' = pending
    <3>1. refs \ Unlocked \subseteq Known(cache) /\ pending = None
      BY <1>16, <2>4, BatchGathered DEF BatchEnd
    <3>2. w'.reply.set = <<>>
      BY <2>4, AnswerNothing
    <3> QED
      BY <2>1, <2>4, <3>1, <3>2, NothingSound DEF StreamOK
  <2>5. CASE wpc' = "select"
    BY <2>5 DEF StreamOK
  <2> QED
    BY <1>16, <2>3, <2>4, <2>5 DEF BatchEnd
<1>17. CASE Collect
  BY <1>17 DEF Collect, StreamOK
<1>18. CASE CollectObject
  <2>1. w \in Locals /\ wpc = "objects"
    BY <1>18 DEF CollectObject, IInv, Types, CallTypes
  <2>2. CASE Answer("fault", <<>>)
    <3>1. wpc' = "reply" /\ w'.reply.kind = "fault"
      BY <2>2, AnswerNothing
    <3> QED
      BY <3>1 DEF StreamOK, Over
  <2>3. CASE wpc' = wpc
    BY <2>1, <2>3 DEF StreamOK
  <2> QED
    BY <1>18, <2>1, <2>2, <2>3, CollectOutcomes
<1>19. CASE CollectEnd
  BY <1>19 DEF CollectEnd, StreamOK
<1>20. CASE ResyncEnd
  BY <1>20 DEF ResyncEnd, StreamOK
<1>21. CASE ApplyObject
  BY <1>21 DEF ApplyObject, StreamOK
<1>22. CASE ApplyInitial
  <2>1. w.set \in Seq(Items) /\ refs' = refs /\ cache' = cache
    BY <1>22 DEF ApplyInitial, client, IInv, Types, CallTypes, Locals
  <2>2. SetOK /\ RefsOK
    BY <1>22 DEF ApplyInitial, IInv, CollectingOK, Collecting
  <2>3. Sound(cache, w.set)
    BY <2>2 DEF Sound, SetOK
  <2>4. Follows(cache, w.set)
    <3>1. Leaving(w.set) = {}
      BY <2>2 DEF Leaving, SetOK
    <3> QED
      BY <2>2, <3>1 DEF Follows, RefsOK
  <2>5. Stream' = w.set
    BY <1>22, <2>1, AnswerPageFacts DEF ApplyInitial
  <2> QED
    BY <2>1, <2>3, <2>4, <2>5, SameSound DEF StreamOK
<1>23. CASE ApplyBatch
  BY <1>23 DEF ApplyBatch, StreamOK
<1>24. CASE CreateView
  <2>1. w' = w /\ wpc' = wpc /\ pending' = pending /\ refs' = refs /\ cache' = cache
    BY <1>24 DEF CreateView, collector
  <2>2. Over => Over'
    BY OverStep
  <2>3. Stream' = Stream
    BY <2>1 DEF Stream, Rest
  <2> QED
    BY <2>1, <2>2, <2>3, SameSound DEF IInv, StreamOK
<1>25. CASE ListenView
  <2>1. w' = w /\ wpc' = wpc /\ pending' = pending /\ refs' = refs /\ cache' = cache
    BY <1>25 DEF ListenView, collector
  <2>2. Over => Over'
    BY OverStep
  <2>3. Stream' = Stream
    BY <2>1 DEF Stream, Rest
  <2> QED
    BY <2>1, <2>2, <2>3, SameSound DEF IInv, StreamOK
<1>26. CASE CreateFilter
  <2>1. w' = w /\ wpc' = wpc /\ pending' = pending /\ refs' = refs /\ cache' = cache
    BY <1>26 DEF CreateFilter, collector
  <2>2. Over => Over'
    BY OverStep
  <2>3. Stream' = Stream
    BY <2>1 DEF Stream, Rest
  <2> QED
    BY <2>1, <2>2, <2>3, SameSound DEF IInv, StreamOK
<1>27. CASE Send
  <2>1. w' = w /\ pending' = pending /\ refs' = refs /\ cache' = cache
    BY <1>27 DEF Send
  <2>2. Sound(cache, Stream) /\ Follows(cache, Stream)
    BY <1>27 DEF Send, IInv, StreamOK, Over
  <2>3. Stream' = Stream
    BY <2>1 DEF Stream, Rest
  <2> QED
    BY <2>1, <2>2, <2>3, SameSound DEF StreamOK
<1>28. CASE Receive
  <2> SUFFICES ASSUME ~Over' PROVE Sound(cache, Stream)' /\ Follows(cache, Stream)'
    BY DEF StreamOK
  <2>1. ~Over
    BY OverStep
  <2>2. /\ wpc = "reply" /\ w' = Idle /\ pending' = pending /\ refs' = refs
        /\ cache' = Apply(cache, w.reply.set)
    BY <1>28 DEF Receive, collector
  <2>3. Sound(cache, w.reply.set \o Rest) /\ Follows(cache, w.reply.set \o Rest)
    BY <2>1, <2>2 DEF IInv, StreamOK, Stream
  <2>4. /\ cache \in [Objs -> Nat \cup {None}] /\ w.reply.set \in Seq(Items) /\ refs \subseteq Objs
        /\ Rest \in Seq(Items)
    <3>1. pending \in Seq(Items) \cup {None} /\ refs \subseteq Objs
      BY DEF IInv, Types, CollectorTypes
    <3>2. Rest \in Seq(Items)
      BY <3>1 DEF Rest
    <3>3. w.reply.set \in Seq(Items)
      BY DEF IInv, Types, CallTypes, Locals, Replies
    <3> QED
      BY <3>1, <3>2, <3>3 DEF IInv, Types, ClientTypes
  <2>5. Sound(cache', Rest) /\ Follows(cache', Rest)
    BY <2>2, <2>3, <2>4, ReceiveSound
  <2>6. Stream' = Rest
    <3>1. Stream' = <<>> \o Rest
      BY <2>2, IdleFacts DEF Stream, Rest
    <3> QED
      BY <2>4, <3>1, ConcatFacts
  <2>7. Sound(cache, Stream)' <=> Sound(cache', Stream')
    BY DEF Sound, Known
  <2>8. Follows(cache, Stream)' <=>
          refs' \ Unlocked \subseteq (Known(cache') \cup Entering(Stream')) \ Leaving(Stream')
    BY DEF Follows, Known, Entering, Leaving
  <2> QED
    BY <2>2, <2>5, <2>6, <2>7, <2>8 DEF Follows
<1>29. CASE Lost
  BY <1>29 DEF Lost, StreamOK, Over, client
<1>30. CASE CancelWaitForUpdates
  <2>1. w' = w /\ wpc' = wpc /\ pending' = pending /\ refs' = refs /\ cache' = cache
    BY <1>30 DEF CancelWaitForUpdates
  <2>2. Over => Over'
    BY OverStep
  <2>3. Stream' = Stream
    BY <2>1 DEF Stream, Rest
  <2> QED
    BY <2>1, <2>2, <2>3, SameSound DEF IInv, StreamOK
<1>31. CASE DestroyFilter
  <2>1. w' = w /\ wpc' = wpc /\ pending' = pending /\ refs' = refs /\ cache' = cache
    BY <1>31 DEF DestroyFilter
  <2>2. Over => Over'
    BY OverStep
  <2>3. Stream' = Stream
    BY <2>1 DEF Stream, Rest
  <2> QED
    BY <2>1, <2>2, <2>3, SameSound DEF IInv, StreamOK
<1>32. CASE DestroyCollector
  <2>1. w' = w /\ wpc' = wpc /\ pending' = pending /\ refs' = refs /\ cache' = cache
    BY <1>32 DEF DestroyCollector
  <2>2. Over => Over'
    BY OverStep
  <2>3. Stream' = Stream
    BY <2>1 DEF Stream, Rest
  <2> QED
    BY <2>1, <2>2, <2>3, SameSound DEF IInv, StreamOK
<1>33. CASE CancelContext
  <2>1. w' = w /\ wpc' = wpc /\ pending' = pending /\ refs' = refs /\ cache' = cache
    BY <1>33 DEF CancelContext, collector
  <2>2. Over => Over'
    BY OverStep
  <2>3. Stream' = Stream
    BY <2>1 DEF Stream, Rest
  <2> QED
    BY <2>1, <2>2, <2>3, SameSound DEF IInv, StreamOK
<1>34. CASE UNCHANGED vars
  <2>1. w' = w /\ wpc' = wpc /\ pending' = pending /\ refs' = refs /\ cache' = cache
    BY <1>34 DEF vars, collector, client
  <2>2. Over => Over'
    BY OverStep
  <2>3. Stream' = Stream
    BY <2>1 DEF Stream, Rest
  <2> QED
    BY <2>1, <2>2, <2>3, SameSound DEF IInv, StreamOK
<1> QED
  BY <1>1, <1>2, <1>3, <1>4, <1>5, <1>6, <1>7, <1>8, <1>9, <1>10, <1>11, <1>12, <1>13, <1>14,
     <1>15, <1>16, <1>17, <1>18, <1>19, <1>20, <1>21, <1>22, <1>23, <1>24, <1>25, <1>26, <1>27,
     <1>28, <1>29, <1>30, <1>31, <1>32, <1>33, <1>34
    DEF Next, WaitStep, ClientStep

-----------------------------------------------------------------------------
(* The first call finds a client that knows of nothing. *)
LEMMA InitOK == Init => IInv
<1> SUFFICES ASSUME Init PROVE IInv
  OBVIOUS
<1>1. RegistryTypes
  <2>1. registered \subseteq Objs /\ view \in Seq(Objs) /\ children \in Seq(Objs)
    <3>1. children \in Seq(Objs) /\ <<>> \in Seq(Objs)
      <4>1. children \in Initials
        BY DEF Init
      <4> QED
        BY <4>1, PCAssumption
    <3>2. ToSet(children) \subseteq Objs
      BY <3>1 DEF ToSet
    <3>3. registered = ToSet(children) /\ (view = children \/ view = <<>>)
      BY DEF Init
    <3> QED
      BY <3>1, <3>2, <3>3
  <2>2. /\ val \in [Objs -> Nat] /\ handlers \subseteq Handlers
        /\ lock \in [Objs \cup {"filter", "view"} -> Mutators \cup {Wait, None}]
    BY DEF Init
  <2> QED
    BY <2>1, <2>2 DEF RegistryTypes
<1>2. CollectorTypes
  <2>1. <<>> \in Seq(Queued)
    OBVIOUS
  <2> QED
    BY <2>1 DEF Init, CollectorTypes
<1>3. MutatorTypes
  BY Names DEF Init, MutatorTypes
<1>4. CallTypes
  <2>1. w = Idle /\ wpc = "none"
    BY DEF Init
  <2>2. w \in Locals /\ w.reply.set = <<>>
    BY <2>1, IdleFacts
  <2> QED
    BY <2>1, <2>2, PCAssumption DEF CallTypes
<1>5. ClientTypes
  BY PCAssumption DEF Init, ClientTypes
<1>6. LocksOK
  BY Names DEF Init, LocksOK
<1>7. RegisteredOK
  BY Names, PCAssumption DEF Init, RegisteredOK
<1>8. LeavesOK
  BY IdleFacts, OfEmpty DEF Init, LeavesOK
<1>9. PlacesOK
  BY IdleFacts DEF Init, PlacesOK, Collecting
<1>10. StreamOK
  <2>1. w = Idle /\ pending = None /\ refs = {}
    BY DEF Init
  <2>2. Stream = <<>>
    <3>1. w.reply.set = <<>> /\ Rest = <<>>
      BY <2>1, IdleFacts DEF Rest
    <3> QED
      BY <3>1 DEF Stream
  <2> QED
    BY <2>1, <2>2 DEF StreamOK, Sound, Follows
<1>11. CollectingOK
  BY DEF Init, CollectingOK, Collecting
<1> QED
  BY <1>1, <1>2, <1>3, <1>4, <1>5, <1>6, <1>7, <1>8, <1>9, <1>10, <1>11 DEF IInv, Types

(***************************************************************************)
(* The registry, the goroutines that change it, the collector and the      *)
(* client keep the invariant: locks exclude, an object that leaves is gone *)
(* for whoever collects, and what is still to be sent can be applied.      *)
(***************************************************************************)
THEOREM Invariance == Spec => []IInv
<1>1. Init => IInv
  BY InitOK
<1>2. IInv /\ [Next]_vars => IInv'
  <2> SUFFICES ASSUME IInv, [Next]_vars PROVE IInv'
    OBVIOUS
  <2>1. Types'
    BY RegistryStep, CollectorStep, MutatorStep, CallStep, ClientTypesStep DEF Types
  <2>2. LocksOK' /\ RegisteredOK' /\ LeavesOK' /\ PlacesOK'
    BY LocksStep, RegisteredStep, LeavesStep, PlacesStep
  <2>3. StreamOK' /\ CollectingOK'
    BY StreamStep, CollectingStep
  <2> QED
    BY <2>1, <2>2, <2>3 DEF IInv
<1> QED
  BY <1>1, <1>2, PTL DEF Spec

(* A change or a removal in an answer is of an object the client knows of by then. *)
LEMMA KnownFirstOK == IInv => KnownFirst
<1> SUFFICES ASSUME IInv, NEW i \in DOMAIN w.reply.set, w.reply.set[i].kind # "enter",
                    w.reply.set[i].obj \notin Unlocked
             PROVE  \/ cache[w.reply.set[i].obj] # None
                    \/ \E j \in 1 .. i - 1 : /\ w.reply.set[j].obj = w.reply.set[i].obj
                                             /\ w.reply.set[j].kind = "enter"
  BY DEF KnownFirst
<1> DEFINE p == w.reply.set
<1>1. wpc = "reply" /\ ~Over
  BY IdleFacts DEF IInv, PlacesOK, Over
<1>2. Sound(cache, Stream)
  BY <1>1 DEF IInv, StreamOK
<1>3. p \in Seq(Items) /\ Rest \in Seq(Items)
  BY DEF IInv, Types, CallTypes, CollectorTypes, Locals, Replies, Rest
<1> DEFINE q == Stream
<1>4. Len(p) \in Nat /\ Len(Rest) \in Nat /\ DOMAIN p = 1 .. Len(p)
  BY <1>3
<1>5. q = p \o Rest
  BY DEF Stream
<1> HIDE DEF p, q
<1>6. /\ DOMAIN q = 1 .. Len(p) + Len(Rest) /\ \A j \in 1 .. Len(p) : q[j] = p[j]
  BY <1>3, <1>5, ConcatFacts, SeqFacts
<1>7. i \in DOMAIN q /\ q[i] = p[i] /\ \A j \in 1 .. i - 1 : q[j] = p[j]
  BY <1>4, <1>6 DEF p
<1>8. \/ q[i].obj \in Known(cache)
      \/ \E j \in 1 .. i - 1 : q[j].obj = q[i].obj /\ q[j].kind = "enter"
  BY <1>2, <1>7 DEF Sound, q, p
<1> QED
  BY <1>7, <1>8 DEF Known, p

LEMMA TypesOK == IInv => TypeOK
<1> SUFFICES ASSUME IInv PROVE TypeOK
  OBVIOUS
<1>1. \A s \in Seq(Items) : s \in Seq(Updates)
  <2>1. Items \subseteq Updates
    BY ItemFacts
  <2> QED
    BY <2>1
<1>2. \A s \in Seq(Queued) : s \in Seq(Updates)
  <2>1. Queued \subseteq Updates
    BY ItemFacts
  <2> QED
    BY <2>1
<1>3. /\ w.batch \in Seq(Queued) /\ w.set \in Seq(Items) /\ w.fu \in Seq(Items)
      /\ w.res \in Seq(Items) /\ w.reply.set \in Seq(Items)
      /\ updates \in Seq(Queued) /\ pending \in Seq(Items) \cup {None}
      /\ w.objs \in Seq(Objs) /\ w.why \in {"initial", "resync", "enter", "modify"}
      /\ w.reply.kind \in {"none", "set", "nil", "canceled", "fault"}
  BY DEF IInv, Types, CallTypes, CollectorTypes, Locals, Replies
<1>4. /\ {w.batch, w.set, w.fu, w.res, w.reply.set} \subseteq Seq(Updates)
      /\ updates \in Seq(Updates) /\ pending \in Seq(Updates) \cup {None}
  BY <1>1, <1>2, <1>3
<1> QED
  BY <1>3, <1>4
  DEF IInv, Types, RegistryTypes, CollectorTypes, MutatorTypes, CallTypes, ClientTypes, TypeOK

(* Every answer of WaitForUpdatesEx has at most MaxObjects updates and none  *)
(* about an object that the client has not been told of, but for objects     *)
(* that are removed without their lock: with any number of objects, however  *)
(* they are created, removed, updated and collected, paged, and through      *)
(* cancelled calls and a filter that starts over.                            *)
THEOREM AnswersCanBeApplied == Spec => []AnswersOK
<1>1. IInv => AnswersOK
  BY KnownFirstOK, TypesOK DEF AnswersOK
<1> QED
  BY <1>1, Invariance, PTL

-----------------------------------------------------------------------------
(* What is said of an object, as updates are queued and processed. *)
LEMMA SaysEmpty ==
    ASSUME NEW o
    PROVE  /\ Silent(<<>>, o) /\ ~Busy(<<>>) /\ ~Later(<<>>) /\ \A v : ~Ends(<<>>, o, v)
           /\ ToSet(<<>>) = {}
  BY DEF Silent, Busy, Later, Ends, ToSet

LEMMA SaysAppend ==
    ASSUME NEW S, NEW s \in Seq(S), NEW u \in S, NEW o
    PROVE  /\ Silent(s, o) /\ ~Says(u, o) => Silent(Append(s, u), o)
           /\ \A v : Ends(s, o, v) /\ ~Says(u, o) => Ends(Append(s, u), o, v)
           /\ Says(u, o) => Ends(Append(s, u), o, u.val)
           /\ Busy(s) \/ u.kind # "leave" => Busy(Append(s, u))
<1> DEFINE m == Append(s, u)
           n == Len(s) + 1
<1>1. /\ DOMAIN s = 1 .. Len(s) /\ DOMAIN m = 1 .. n /\ Len(s) \in Nat
      /\ \A i \in DOMAIN s : m[i] = s[i]
      /\ m[n] = u
  OBVIOUS
<1> HIDE DEF m
<1>2. n \in DOMAIN m /\ \A i \in DOMAIN m : i \in DOMAIN s \/ i = n
  BY <1>1
<1>3. \A i \in DOMAIN s : i \in DOMAIN m /\ n > i
  BY <1>1
<1>4. Silent(s, o) /\ ~Says(u, o) => Silent(m, o)
  BY <1>1, <1>2 DEF Silent
<1>5. ASSUME NEW v, Ends(s, o, v), ~Says(u, o) PROVE Ends(m, o, v)
  <2>1. PICK i \in DOMAIN s : /\ Says(s[i], o) /\ s[i].val = v
                              /\ \A j \in DOMAIN s : j > i => ~Says(s[j], o)
    BY <1>5 DEF Ends
  <2>2. i \in DOMAIN m /\ m[i] = s[i]
    BY <1>1, <1>3
  <2>3. \A j \in DOMAIN m : j > i => ~Says(m[j], o)
    BY <1>1, <1>2, <1>5, <2>1
  <2> QED
    BY <2>1, <2>2, <2>3 DEF Ends
<1>6. Says(u, o) => Ends(m, o, u.val)
  <2>1. \A j \in DOMAIN m : ~(j > n)
    BY <1>1
  <2> HIDE DEF n
  <2> QED
    BY <1>1, <1>2, <2>1 DEF Ends
<1>7. Busy(s) \/ u.kind # "leave" => Busy(m)
  <2> HIDE DEF n
  <2> QED
    BY <1>1, <1>2, <1>3 DEF Busy
<1> QED
  BY <1>4, <1>5, <1>6, <1>7 DEF m

LEMMA SaysTail ==
    ASSUME NEW S, NEW s \in Seq(S), s # <<>>, NEW o
    PROVE  /\ Silent(s, o) => Silent(Tail(s), o) /\ ~Says(Head(s), o)
           /\ \A v : Ends(s, o, v) =>
                \/ Ends(Tail(s), o, v)
                \/ Silent(Tail(s), o) /\ Says(Head(s), o) /\ Head(s).val = v
           /\ Later(s) <=> Busy(Tail(s))
           /\ Busy(s) /\ Head(s).kind = "leave" => Busy(Tail(s))
           /\ Later(s) => Busy(s)
<1> DEFINE m == Tail(s)
<1>1. /\ DOMAIN s = 1 .. Len(s) /\ DOMAIN m = 1 .. Len(s) - 1 /\ Len(s) \in Nat /\ 1 \in DOMAIN s
      /\ \A i \in DOMAIN m : m[i] = s[i + 1]
      /\ Head(s) = s[1]
  OBVIOUS
<1> HIDE DEF m
<1>2. \A i \in DOMAIN m : i + 1 \in DOMAIN s /\ i + 1 > 1
  BY <1>1
<1>3. \A i \in DOMAIN s : i # 1 => i - 1 \in DOMAIN m /\ m[i - 1] = s[i] /\ i > 1
  <2> TAKE i \in DOMAIN s
  <2> HAVE i # 1
  <2>1. i - 1 \in DOMAIN m /\ (i - 1) + 1 = i /\ i > 1
    BY <1>1
  <2> QED
    BY <1>1, <2>1
<1>4. Silent(s, o) => Silent(m, o) /\ ~Says(Head(s), o)
  BY <1>1, <1>2 DEF Silent
<1>5. ASSUME NEW v, Ends(s, o, v)
      PROVE  Ends(m, o, v) \/ (Silent(m, o) /\ Says(Head(s), o) /\ Head(s).val = v)
  <2>1. PICK i \in DOMAIN s : /\ Says(s[i], o) /\ s[i].val = v
                              /\ \A j \in DOMAIN s : j > i => ~Says(s[j], o)
    BY <1>5 DEF Ends
  <2>2. CASE i = 1
    BY <1>1, <1>2, <2>1, <2>2 DEF Silent
  <2>3. CASE i # 1
    <3>1. i - 1 \in DOMAIN m /\ m[i - 1] = s[i]
      BY <1>3, <2>3
    <3>2. \A j \in DOMAIN m : j > i - 1 => ~Says(m[j], o)
      <4>1. \A j \in DOMAIN m : j > i - 1 => j + 1 > i
        BY <1>1
      <4> QED
        BY <1>1, <1>2, <2>1, <4>1
    <3> QED
      BY <2>1, <3>1, <3>2 DEF Ends
  <2> QED
    BY <2>2, <2>3
<1>6. Later(s) => Busy(m)
  BY <1>1, <1>3 DEF Later, Busy
<1>7. Busy(m) => Later(s) /\ Busy(s)
  BY <1>1, <1>2 DEF Later, Busy
<1>8. Busy(s) /\ Head(s).kind = "leave" => Busy(m)
  BY <1>1, <1>3 DEF Busy
<1>9. Later(s) => Busy(s)
  BY DEF Later, Busy
<1> QED
  BY <1>4, <1>5, <1>6, <1>7, <1>8, <1>9 DEF m

(* What the client knows is decided object by object, one update after the other. *)
LEMMA ApplyLocal ==
    ASSUME NEW c, NEW d, NEW s, NEW o \in Objs, c[o] = d[o]
    PROVE  Apply(c, s)[o] = Apply(d, s)[o]
  BY DEF Apply

LEMMA ApplyEmpty ==
    ASSUME NEW c \in [Objs -> Nat \cup {None}], NEW o \in Objs
    PROVE  Apply(c, <<>>)[o] = c[o]
<1>1. <<>> \in Seq(Items) /\ DOMAIN <<>> = {}
  OBVIOUS
<1> QED
  BY <1>1, ApplyFacts

LEMMA ApplyLast ==
    ASSUME NEW c \in [Objs -> Nat \cup {None}], NEW s \in Seq(Items), NEW o \in Objs,
           NEW m \in DOMAIN s, s[m].obj = o, \A j \in DOMAIN s : s[j].obj = o => j <= m
    PROVE  Apply(c, s)[o] = IF s[m].kind = "leave" THEN None ELSE s[m].val
<1>1. PICK n \in DOMAIN s : /\ s[n].obj = o /\ m <= n
                            /\ \A j \in DOMAIN s : s[j].obj = o => j <= n
                            /\ Apply(c, s)[o] = IF s[n].kind = "leave" THEN None ELSE s[n].val
  BY ApplyFacts
<1>2. n <= m /\ n \in Nat /\ m \in Nat
  BY <1>1
<1>3. n = m
  BY <1>1, <1>2
<1> QED
  BY <1>1, <1>3

LEMMA ApplyAppend ==
    ASSUME NEW c \in [Objs -> Nat \cup {None}], NEW s \in Seq(Items), NEW u \in Items, NEW o \in Objs
    PROVE  Apply(c, Append(s, u))[o] =
             IF u.obj # o THEN Apply(c, s)[o] ELSE IF u.kind = "leave" THEN None ELSE u.val
<1> DEFINE q == Append(s, u)
           n == Len(s) + 1
<1>1. /\ q \in Seq(Items) /\ DOMAIN s = 1 .. Len(s) /\ DOMAIN q = 1 .. n /\ Len(s) \in Nat
      /\ \A i \in DOMAIN s : q[i] = s[i]
      /\ q[n] = u
  OBVIOUS
<1> HIDE DEF q
<1>2. n \in DOMAIN q /\ (\A i \in DOMAIN q : i \in DOMAIN s \/ i = n) /\ \A i \in DOMAIN s : i \in DOMAIN q
  BY <1>1
<1>3. \A i \in DOMAIN q : i <= n
  BY <1>1
<1> HIDE DEF n
<1>0. q \in Seq(Items)
  BY <1>1
<1>4. CASE u.obj = o
  <2>1. q[n].obj = o /\ \A j \in DOMAIN q : q[j].obj = o => j <= n
    BY <1>1, <1>3, <1>4
  <2>2. Apply(c, q)[o] = IF q[n].kind = "leave" THEN None ELSE q[n].val
    BY <1>0, <1>2, <2>1, ApplyLast
  <2> QED
    BY <1>1, <1>4, <2>2 DEF q
<1>5. CASE u.obj # o /\ \A i \in DOMAIN s : s[i].obj # o
  <2>1. \A i \in DOMAIN q : q[i].obj # o
    BY <1>1, <1>2, <1>5
  <2>2. Apply(c, q)[o] = c[o]
    BY <1>0, <2>1, ApplyFacts
  <2>3. Apply(c, s)[o] = c[o]
    BY <1>5, ApplyFacts
  <2> QED
    BY <1>5, <2>2, <2>3 DEF q
<1>6. ASSUME u.obj # o, NEW i \in DOMAIN s, s[i].obj = o PROVE Apply(c, q)[o] = Apply(c, s)[o]
  <2>1. PICK m \in DOMAIN s : /\ s[m].obj = o
                              /\ \A j \in DOMAIN s : s[j].obj = o => j <= m
                              /\ Apply(c, s)[o] = IF s[m].kind = "leave" THEN None ELSE s[m].val
    BY <1>6, ApplyFacts
  <2>2. m \in DOMAIN q /\ q[m] = s[m] /\ \A j \in DOMAIN q : q[j].obj = o => j <= m
    BY <1>1, <1>2, <1>6, <2>1
  <2>3. q[m].obj = o
    BY <2>1, <2>2
  <2>4. Apply(c, q)[o] = IF q[m].kind = "leave" THEN None ELSE q[m].val
    BY <1>0, <2>2, <2>3, ApplyLast
  <2> QED
    BY <2>1, <2>2, <2>4
<1> QED
  BY <1>4, <1>5, <1>6 DEF q

LEMMA ApplyConcat ==
    ASSUME NEW c \in [Objs -> Nat \cup {None}], NEW p \in Seq(Items), NEW r \in Seq(Items), NEW o \in Objs
    PROVE  Apply(c, p \o r)[o] = Apply(Apply(c, p), r)[o]
<1> DEFINE q == p \o r
           d == Apply(c, p)
           n == Len(p)
<1>1. /\ q \in Seq(Items) /\ n \in Nat /\ DOMAIN q = 1 .. n + Len(r) /\ Len(r) \in Nat
      /\ DOMAIN p = 1 .. n /\ DOMAIN r = 1 .. Len(r)
      /\ \A i \in DOMAIN p : q[i] = p[i]
      /\ \A i \in DOMAIN r : q[n + i] = r[i]
  BY ConcatFacts, SeqFacts
<1>2. d \in [Objs -> Nat \cup {None}]
  <2>1. \A x \in Objs : d[x] \in Nat \cup {None}
    BY ApplyFacts
  <2>2. d = [x \in Objs |-> d[x]]
    BY DEF Apply
  <2> HIDE DEF d
  <2> QED
    BY <2>1, <2>2
<1>3. d[o] = Apply(c, p)[o]
  OBVIOUS
<1> HIDE DEF q, n, d
<1>4. \A i \in DOMAIN r : n + i \in DOMAIN q
  BY <1>1
<1>5. \A i \in DOMAIN p : i \in DOMAIN q
  BY <1>1
<1>6. \A i \in DOMAIN q : i \in DOMAIN p \/ (i - n \in DOMAIN r /\ q[i] = r[i - n] /\ i > n)
  <2> TAKE i \in DOMAIN q
  <2>1. CASE i <= n
    BY <1>1, <2>1
  <2>2. CASE i > n
    <3>1. i - n \in DOMAIN r /\ n + (i - n) = i
      BY <1>1, <2>2
    <3> QED
      BY <1>1, <2>2, <3>1
  <2> QED
    BY <1>1, <2>1, <2>2
<1>7. ASSUME NEW i \in DOMAIN r, r[i].obj = o PROVE Apply(c, q)[o] = Apply(d, r)[o]
  <2>1. PICK m \in DOMAIN r : /\ r[m].obj = o
                              /\ \A j \in DOMAIN r : r[j].obj = o => j <= m
                              /\ Apply(d, r)[o] = IF r[m].kind = "leave" THEN None ELSE r[m].val
    BY <1>2, <1>7, ApplyFacts
  <2>2. n + m \in DOMAIN q /\ q[n + m] = r[m]
    BY <1>1, <1>4
  <2>3. ASSUME NEW j \in DOMAIN q, q[j].obj = o PROVE j <= n + m
    <3>1. CASE j \in DOMAIN p
      BY <1>1, <3>1
    <3>2. CASE j - n \in DOMAIN r /\ q[j] = r[j - n]
      <4>1. j - n <= m
        BY <2>1, <2>3, <3>2
      <4> QED
        BY <1>1, <4>1
    <3> QED
      BY <1>6, <3>1, <3>2
  <2>4. Apply(c, q)[o] = IF q[n + m].kind = "leave" THEN None ELSE q[n + m].val
    <3> DEFINE x == n + m
    <3>1. x \in DOMAIN q /\ q[x].obj = o /\ \A j \in DOMAIN q : q[j].obj = o => j <= x
      BY <2>1, <2>2, <2>3
    <3> HIDE DEF x
    <3>2. Apply(c, q)[o] = IF q[x].kind = "leave" THEN None ELSE q[x].val
      BY <1>1, <3>1, ApplyLast
    <3> QED
      BY <3>2 DEF x
  <2> QED
    BY <2>1, <2>2, <2>4
<1>8. ASSUME \A i \in DOMAIN r : r[i].obj # o PROVE Apply(c, q)[o] = Apply(d, r)[o]
  <2>1. Apply(d, r)[o] = d[o]
    BY <1>2, <1>8, ApplyFacts
  <2>2. CASE \A i \in DOMAIN p : p[i].obj # o
    <3>1. \A i \in DOMAIN q : q[i].obj # o
      BY <1>1, <1>6, <1>8, <2>2
    <3>2. q \in Seq(Items)
      BY <1>1
    <3>3. Apply(c, q)[o] = c[o]
      BY <3>1, <3>2, ApplyFacts
    <3>4. Apply(c, p)[o] = c[o]
      BY <2>2, ApplyFacts
    <3> QED
      BY <1>3, <2>1, <3>3, <3>4
  <2>3. ASSUME NEW i \in DOMAIN p, p[i].obj = o PROVE Apply(c, q)[o] = d[o]
    <3>1. PICK m \in DOMAIN p : /\ p[m].obj = o
                                /\ \A j \in DOMAIN p : p[j].obj = o => j <= m
                                /\ Apply(c, p)[o] = IF p[m].kind = "leave" THEN None ELSE p[m].val
      BY <2>3, ApplyFacts
    <3>2. m \in DOMAIN q /\ q[m] = p[m] /\ \A j \in DOMAIN q : q[j].obj = o => j <= m
      BY <1>1, <1>5, <1>6, <1>8, <3>1
    <3>3. q \in Seq(Items) /\ q[m].obj = o
      BY <1>1, <3>1, <3>2
    <3>4. Apply(c, q)[o] = IF q[m].kind = "leave" THEN None ELSE q[m].val
      BY <3>2, <3>3, ApplyLast
    <3> QED
      BY <1>3, <3>1, <3>2, <3>4
  <2> QED
    BY <2>1, <2>2, <2>3
<1> QED
  BY <1>7, <1>8 DEF q, d

(* An object that enters comes before the other updates of the filter. *)
LEMMA ApplyInsert ==
    ASSUME NEW c \in [Objs -> Nat \cup {None}], NEW s \in Seq(Items), NEW f \in Seq(Items),
           NEW u \in Items, NEW o \in Objs
    PROVE  /\ u.obj # o => Apply(c, Append(s, u) \o f)[o] = Apply(c, s \o f)[o]
           /\ u.obj = o /\ u.kind # "leave" /\ (\A i \in DOMAIN f : f[i].obj # o) =>
                  Apply(c, Append(s, u) \o f)[o] = u.val
<1> DEFINE a == Append(s, u)
<1>1. a \in Seq(Items)
  OBVIOUS
<1>2. Apply(c, a)[o] = IF u.obj # o THEN Apply(c, s)[o] ELSE IF u.kind = "leave" THEN None ELSE u.val
  BY ApplyAppend
<1> HIDE DEF a
<1>3. Apply(c, a \o f)[o] = Apply(Apply(c, a), f)[o] /\ Apply(c, s \o f)[o] = Apply(Apply(c, s), f)[o]
  BY <1>1, ApplyConcat
<1>4. u.obj # o => Apply(c, a \o f)[o] = Apply(c, s \o f)[o]
  BY <1>2, <1>3, ApplyLocal
<1>5. (\A i \in DOMAIN f : f[i].obj # o) => Apply(Apply(c, a), f)[o] = Apply(c, a)[o]
  BY DEF Apply
<1> QED
  BY <1>2, <1>3, <1>4, <1>5 DEF a

LEMMA ApplyFu ==
    ASSUME NEW c \in [Objs -> Nat \cup {None}], NEW s \in Seq(Items), NEW f \in Seq(Items),
           NEW u \in Items, NEW o \in Objs
    PROVE  Apply(c, s \o Append(f, u))[o] =
             IF u.obj # o THEN Apply(c, s \o f)[o] ELSE IF u.kind = "leave" THEN None ELSE u.val
<1> DEFINE q == s \o f
<1>1. s \o Append(f, u) = Append(q, u) /\ q \in Seq(Items)
  OBVIOUS
<1>2. q \in Seq(Items)
  BY <1>1
<1> HIDE DEF q
<1>3. Apply(c, Append(q, u))[o] =
        IF u.obj # o THEN Apply(c, q)[o] ELSE IF u.kind = "leave" THEN None ELSE u.val
  BY <1>2, ApplyAppend
<1> QED
  BY <1>1, <1>3 DEF q

-----------------------------------------------------------------------------
(* Nothing is gathered by a call that answers or is over. *)
LEMMA AnswerEmpties ==
    ASSUME NEW k, NEW s, Answer(k, s)
    PROVE  /\ wpc' = "reply" /\ w'.reply.kind = k /\ w'.reply.set = s
           /\ w'.objs = <<>> /\ w'.batch = <<>> /\ w'.set = <<>> /\ w'.fu = <<>> /\ w'.res = <<>>
  BY DEF Answer, Idle

LEMMA IdleEmpty == Idle.objs = <<>>
  BY DEF Idle

(* The next object is collected once, with the value it has. *)
LEMMA CollectObjectEffect ==
    ASSUME IInv, CollectObject
    PROVE  LET o == Head(w.objs) IN
           \/ Answer("fault", <<>>)
           \/ /\ wpc' = wpc /\ w' \in Locals /\ w.objs # <<>> /\ w'.objs = Tail(w.objs)
              /\ w'.batch = w.batch /\ w'.set = w.set /\ w'.fu = w.fu /\ w'.why = w.why
              /\ w'.reply = w.reply /\ o \in Objs /\ lock[o] = None
              /\ \/ (o \in registered => o \in Gathered) /\ w'.res = w.res
                 \/ /\ o \in registered /\ o \notin Gathered
                    /\ Content(o) \in Items /\ w'.res = Append(w.res, Content(o))
<1> DEFINE o == Head(w.objs)
           seen == \E u \in ToSet(w.res) : u.obj = o
<1>1. w \in Locals /\ w.objs \in Seq(Objs) /\ w.res \in Seq(Items) /\ w.objs # <<>> /\ lock[o] = None
  BY DEF IInv, Types, CallTypes, Locals, CollectObject
<1>2. o \in Objs /\ Tail(w.objs) \in Seq(Objs)
  BY <1>1, TailFacts
<1>3. seen <=> o \in Gathered
  BY DEF ToSet, Gathered
<1>4. Content(o) \in Items
  BY <1>2, ItemFacts DEF Content, IInv, Types, RegistryTypes
<1>5. CASE o \in registered /\ seen
  <2>1. w' = [w EXCEPT !.objs = Tail(w.objs), !.res = w.res] /\ wpc' = wpc
    BY <1>5 DEF CollectObject
  <2> HIDE DEF o, seen
  <2> QED
    BY <1>1, <1>2, <1>3, <1>5, <2>1 DEF Locals, o
<1>6. CASE o \in registered /\ ~seen
  <2>1. w' = [w EXCEPT !.objs = Tail(w.objs), !.res = Append(w.res, Content(o))] /\ wpc' = wpc
    BY <1>6 DEF CollectObject
  <2>2. Append(w.res, Content(o)) \in Seq(Items)
    BY <1>1, <1>4
  <2> HIDE DEF o, seen
  <2> QED
    BY <1>1, <1>2, <1>3, <1>4, <1>6, <2>1, <2>2 DEF Locals, o
<1>7. CASE o \notin registered /\ ~direct
  <2>1. w' = [w EXCEPT !.objs = Tail(w.objs)] /\ wpc' = wpc
    BY <1>7 DEF CollectObject
  <2> HIDE DEF o
  <2> QED
    BY <1>1, <1>2, <1>7, <2>1 DEF Locals, o
<1>8. CASE o \notin registered /\ direct
  BY <1>8 DEF CollectObject
<1> QED
  BY <1>5, <1>6, <1>7, <1>8

(* Every step keeps that there is nothing before the collector listens. *)
LEMMA FreshStep == IInv /\ FreshOK /\ [Next]_vars => FreshOK'
<1> SUFFICES ASSUME IInv /\ FreshOK, [Next]_vars PROVE FreshOK'
  OBVIOUS
<1>1. ASSUME NEW o \in PutObjs, PutChild(o) PROVE FreshOK'
  BY <1>1, Names, IdleFacts
    DEF PutChild, Goto, Acquire, FreshOK, Collecting, IInv, Types, CollectorTypes,
        MutatorTypes, PlacesOK, collector, mutators, client
<1>2. ASSUME NEW o \in PutObjs, PutBegin(o) PROVE FreshOK'
  BY <1>2, Names, IdleFacts
    DEF PutBegin, Goto, Snapshot, FreshOK, Collecting, IInv, Types, CollectorTypes,
        MutatorTypes, PlacesOK, collector, mutators, client
<1>3. ASSUME NEW o \in PutObjs, PutCollector(o) PROVE FreshOK'
  BY <1>3, Names, IdleFacts
    DEF PutCollector, Notifies, Queue, FreshOK, Collecting, IInv, Types, CollectorTypes,
        MutatorTypes, PlacesOK, registry, collector, mutators, client
<1>4. ASSUME NEW o \in PutObjs, PutView(o) PROVE FreshOK'
  BY <1>4, Names, IdleFacts
    DEF PutView, Goto, Acquire, Notifies, FreshOK, Collecting, IInv, Types, CollectorTypes,
        MutatorTypes, PlacesOK, collector, mutators, client
<1>5. ASSUME NEW o \in PutObjs, PutViewCollector(o) PROVE FreshOK'
  BY <1>5, Names, IdleFacts
    DEF PutViewCollector, NotifiesOfView, Queue, FreshOK, Collecting, IInv, Types,
        CollectorTypes, MutatorTypes, PlacesOK, registry, collector, mutators, client
<1>6. ASSUME NEW o \in PutObjs, PutViewFilter(o) PROVE FreshOK'
  BY <1>6, Names, IdleFacts
    DEF PutViewFilter, NotifiesOfView, FreshOK, Collecting, IInv, Types, CollectorTypes,
        MutatorTypes, PlacesOK, registry, collector, mutators, client
<1>7. ASSUME NEW o \in PutObjs, PutViewEnd(o) PROVE FreshOK'
  BY <1>7, Names, IdleFacts
    DEF PutViewEnd, Goto, Release, FreshOK, Collecting, IInv, Types, CollectorTypes,
        MutatorTypes, PlacesOK, collector, mutators, client
<1>8. ASSUME NEW o \in PutObjs, PutEnd(o) PROVE FreshOK'
  BY <1>8, Names, IdleFacts
    DEF PutEnd, Goto, Release, FreshOK, Collecting, IInv, Types, CollectorTypes,
        MutatorTypes, PlacesOK, collector, mutators, client
<1>9. ASSUME NEW o \in RemObjs, RemoveBegin(o) PROVE FreshOK'
  BY <1>9, Names, IdleFacts
    DEF RemoveBegin, Goto, Snapshot, Acquire, FreshOK, Collecting, IInv, Types,
        CollectorTypes, MutatorTypes, PlacesOK, collector, mutators, client
<1>10. ASSUME NEW o \in RemObjs, RemoveCollector(o) PROVE FreshOK'
  BY <1>10, Names, IdleFacts
    DEF RemoveCollector, Notifies, Queue, FreshOK, Collecting, IInv, Types, CollectorTypes,
        MutatorTypes, PlacesOK, registry, collector, mutators, client
<1>11. ASSUME NEW o \in RemObjs, RemoveView(o) PROVE FreshOK'
  BY <1>11, Names, IdleFacts
    DEF RemoveView, Notifies, FreshOK, Collecting, IInv, Types, CollectorTypes,
        MutatorTypes, PlacesOK, collector, mutators, client
<1>12. ASSUME NEW o \in RemObjs, RemoveEnd(o) PROVE FreshOK'
  BY <1>12, Names, IdleFacts
    DEF RemoveEnd, Goto, Release, FreshOK, Collecting, IInv, Types, CollectorTypes,
        MutatorTypes, PlacesOK, collector, mutators, client
<1>13. ASSUME NEW o \in RemObjs, RemoveChild(o) PROVE FreshOK'
  BY <1>13, Names, IdleFacts
    DEF RemoveChild, Goto, FreshOK, Collecting, IInv, Types, CollectorTypes, MutatorTypes,
        PlacesOK, collector, mutators, client
<1>14. ASSUME NEW k \in Writers, WriteLocate(k) PROVE FreshOK'
  BY <1>14, Names, IdleFacts
    DEF WriteLocate, Goto, FreshOK, Collecting, IInv, Types, CollectorTypes, MutatorTypes,
        PlacesOK, registry, collector, mutators, client
<1>15. ASSUME NEW k \in Writers, WriteUpdate(k) PROVE FreshOK'
  BY <1>15, Names, IdleFacts
    DEF WriteUpdate, Goto, Snapshot, Acquire, FreshOK, Collecting, IInv, Types,
        CollectorTypes, MutatorTypes, PlacesOK, collector, mutators, client
<1>16. ASSUME NEW k \in Writers, WriteCollector(k) PROVE FreshOK'
  BY <1>16, Names, IdleFacts
    DEF WriteCollector, Notifies, Queue, FreshOK, Collecting, IInv, Types, CollectorTypes,
        MutatorTypes, PlacesOK, registry, collector, mutators, client
<1>17. ASSUME NEW k \in Writers, WriteEnd(k) PROVE FreshOK'
  BY <1>17, Names, IdleFacts
    DEF WriteEnd, Goto, Release, FreshOK, Collecting, IInv, Types, CollectorTypes,
        MutatorTypes, PlacesOK, collector, mutators, client
<1>18. CASE Locate
  BY <1>18, Names, IdleFacts
    DEF Locate, Answer, FreshOK, Collecting, IInv, Types, CollectorTypes, MutatorTypes,
        PlacesOK, registry, collector, mutators, client
<1>19. CASE BeginPending
  BY <1>19, Names, IdleFacts
    DEF BeginPending, AnswerPage, Answer, FreshOK, Collecting, IInv, Types, CollectorTypes,
        MutatorTypes, PlacesOK, registry, collector, mutators, client
<1>20. CASE BeginInitial
  BY <1>20, Names, IdleFacts
    DEF BeginInitial, FreshOK, Collecting, IInv, Types, CollectorTypes, MutatorTypes,
        PlacesOK, mutators, client
<1>21. CASE BeginLoop
  BY <1>21, Names, IdleFacts
    DEF BeginLoop, FreshOK, Collecting, IInv, Types, CollectorTypes, MutatorTypes, PlacesOK,
        ClientTypes, registry, collector, mutators, client
<1>22. CASE Done
  BY <1>22, Names, IdleFacts
    DEF Done, Answer, FreshOK, Collecting, IInv, Types, CollectorTypes, MutatorTypes,
        PlacesOK, registry, collector, mutators, client
<1>23. CASE Deadline
  BY <1>23, Names, IdleFacts
    DEF Deadline, Answer, FreshOK, Collecting, IInv, Types, CollectorTypes, MutatorTypes,
        PlacesOK, registry, collector, mutators, client
<1>24. CASE TickEmpty
  BY <1>24, Names, IdleFacts
    DEF TickEmpty, Answer, FreshOK, Collecting, IInv, Types, CollectorTypes, MutatorTypes,
        PlacesOK, registry, collector, mutators, client
<1>25. CASE Tick
  BY <1>25, Names, IdleFacts
    DEF Tick, FreshOK, Collecting, IInv, Types, CollectorTypes, MutatorTypes, PlacesOK,
        registry, collector, mutators, client
<1>26. CASE FilterGone
  BY <1>26, Names, IdleFacts
    DEF FilterGone, FreshOK, Collecting, IInv, Types, CollectorTypes, MutatorTypes,
        PlacesOK, registry, collector, mutators, client
<1>27. CASE FilterUpdate
  BY <1>27, Names, IdleFacts
    DEF FilterUpdate, Acquire, FreshOK, Collecting, IInv, Types, CollectorTypes,
        MutatorTypes, PlacesOK, mutators, client
<1>28. CASE BatchCollect
  BY <1>28, Names, IdleFacts
    DEF BatchCollect, FreshOK, Collecting, IInv, Types, CollectorTypes, MutatorTypes,
        PlacesOK, registry, collector, mutators, client
<1>29. CASE BatchLeave
  BY <1>29, Names, IdleFacts
    DEF BatchLeave, FreshOK, Collecting, IInv, Types, CollectorTypes, MutatorTypes,
        PlacesOK, registry, collector, mutators, client
<1>30. CASE BatchEnd
  BY <1>30, Names, IdleFacts
    DEF BatchEnd, Answer, AnswerPage, FreshOK, Collecting, IInv, Types, CollectorTypes,
        MutatorTypes, PlacesOK, registry, collector, mutators, client
<1>31. CASE Collect
  BY <1>31, Names, IdleFacts
    DEF Collect, FreshOK, Collecting, IInv, Types, CollectorTypes, MutatorTypes, PlacesOK,
        registry, collector, mutators, client
<1>32. CASE CollectObject
  BY <1>32, Names, IdleFacts
    DEF CollectObject, Answer, FreshOK, Collecting, IInv, Types, CollectorTypes,
        MutatorTypes, PlacesOK, registry, collector, mutators, client
<1>33. CASE CollectEnd
  BY <1>33, Names, IdleFacts
    DEF CollectEnd, FreshOK, Collecting, IInv, Types, CollectorTypes, MutatorTypes,
        PlacesOK, registry, collector, mutators, client
<1>34. CASE ResyncEnd
  BY <1>34, Names, IdleFacts
    DEF ResyncEnd, Release, FreshOK, Collecting, IInv, Types, CollectorTypes, MutatorTypes,
        PlacesOK, collector, mutators, client
<1>35. CASE ApplyObject
  BY <1>35, Names, IdleFacts
    DEF ApplyObject, FreshOK, Collecting, IInv, Types, CollectorTypes, MutatorTypes,
        PlacesOK, registry, collector, mutators, client
<1>36. CASE ApplyInitial
  BY <1>36, Names, IdleFacts
    DEF ApplyInitial, AnswerPage, Answer, FreshOK, Collecting, IInv, Types, CollectorTypes,
        MutatorTypes, PlacesOK, registry, collector, mutators, client
<1>37. CASE ApplyBatch
  BY <1>37, Names, IdleFacts
    DEF ApplyBatch, FreshOK, Collecting, IInv, Types, CollectorTypes, MutatorTypes,
        PlacesOK, registry, collector, mutators, client
<1>38. CASE CreateView
  BY <1>38, Names, IdleFacts
    DEF CreateView, FreshOK, Collecting, IInv, Types, CollectorTypes, MutatorTypes,
        PlacesOK, collector, mutators, client
<1>39. CASE ListenView
  BY <1>39, Names, IdleFacts
    DEF ListenView, FreshOK, Collecting, IInv, Types, CollectorTypes, MutatorTypes,
        PlacesOK, collector, mutators, client
<1>40. CASE CreateFilter
  BY <1>40, Names, IdleFacts
    DEF CreateFilter, FreshOK, Collecting, IInv, Types, CollectorTypes, MutatorTypes,
        PlacesOK, collector, mutators, client
<1>41. CASE Send
  BY <1>41, Names, IdleFacts
    DEF Send, FreshOK, Collecting, IInv, Types, CollectorTypes, MutatorTypes, PlacesOK,
        registry, collector, mutators, client
<1>42. CASE Receive
  BY <1>42, Names, IdleFacts
    DEF Receive, FreshOK, Collecting, IInv, Types, CollectorTypes, MutatorTypes, PlacesOK,
        registry, collector, mutators, client
<1>43. CASE Lost
  BY <1>43, Names, IdleFacts
    DEF Lost, FreshOK, Collecting, IInv, Types, CollectorTypes, MutatorTypes, PlacesOK,
        registry, collector, mutators, client
<1>44. CASE CancelWaitForUpdates
  BY <1>44, Names, IdleFacts
    DEF CancelWaitForUpdates, FreshOK, Collecting, IInv, Types, CollectorTypes,
        MutatorTypes, PlacesOK, registry, collector, mutators, client
<1>45. CASE DestroyFilter
  BY <1>45, Names, IdleFacts
    DEF DestroyFilter, FreshOK, Collecting, IInv, Types, CollectorTypes, MutatorTypes,
        PlacesOK, mutators, client
<1>46. CASE DestroyCollector
  BY <1>46, Names, IdleFacts
    DEF DestroyCollector, FreshOK, Collecting, IInv, Types, CollectorTypes, MutatorTypes,
        PlacesOK, mutators, client
<1>47. CASE CancelContext
  BY <1>47, Names, IdleFacts
    DEF CancelContext, FreshOK, Collecting, IInv, Types, CollectorTypes, MutatorTypes,
        PlacesOK, registry, collector, mutators, client
<1>48. CASE UNCHANGED vars
  BY <1>48, Names, IdleFacts
    DEF FreshOK, Collecting, IInv, Types, CollectorTypes, MutatorTypes, PlacesOK, vars,
        registry, collector, mutators, client
<1> QED
  BY <1>1, <1>2, <1>3, <1>4, <1>5, <1>6, <1>7, <1>8, <1>9, <1>10, <1>11, <1>12, <1>13, <1>14,
     <1>15, <1>16, <1>17, <1>18, <1>19, <1>20, <1>21, <1>22, <1>23, <1>24, <1>25, <1>26, <1>27,
     <1>28, <1>29, <1>30, <1>31, <1>32, <1>33, <1>34, <1>35, <1>36, <1>37, <1>38, <1>39, <1>40,
     <1>41, <1>42, <1>43, <1>44, <1>45, <1>46, <1>47, <1>48
    DEF Next, PutStep, RemoveStep, WriteStep, WaitStep, ClientStep

(* Every step keeps what a call has gathered. *)
LEMMA GatheredStep == IInv /\ GatheredOK /\ [Next]_vars => GatheredOK'
<1> SUFFICES ASSUME IInv /\ GatheredOK, [Next]_vars PROVE GatheredOK'
  OBVIOUS
<1>1. ASSUME NEW o \in PutObjs, PutStep(o) PROVE GatheredOK'
  BY <1>1, IdleFacts, IdleEmpty, PutFrame DEF GatheredOK, Collects, IInv, Types, PlacesOK
<1>2. ASSUME NEW o \in RemObjs, RemoveStep(o) PROVE GatheredOK'
  BY <1>2, IdleFacts, IdleEmpty, RemoveFrame DEF GatheredOK, Collects, IInv, Types, PlacesOK
<1>3. ASSUME NEW k \in Writers, WriteStep(k) PROVE GatheredOK'
  BY <1>3, IdleFacts, IdleEmpty, WriteFrame DEF GatheredOK, Collects, IInv, Types, PlacesOK
<1>4. CASE Locate
  BY <1>4, IdleFacts, IdleEmpty, AnswerEmpties
    DEF Locate, GatheredOK, Collects, IInv, Types, PlacesOK, registry, collector, mutators,
        client
<1>5. CASE BeginPending
  BY <1>5, IdleFacts, IdleEmpty, AnswerEmpties
    DEF BeginPending, AnswerPage, GatheredOK, Collects, IInv, Types, PlacesOK, registry,
        collector, mutators, client
<1>6. CASE BeginInitial
  BY <1>6, IdleFacts, IdleEmpty
    DEF BeginInitial, GatheredOK, Collects, IInv, Types, PlacesOK, mutators, client
<1>7. CASE BeginLoop
  BY <1>7, IdleFacts, IdleEmpty
    DEF BeginLoop, GatheredOK, Collects, IInv, Types, PlacesOK, registry, collector,
        mutators, client
<1>8. CASE Done
  BY <1>8, IdleFacts, IdleEmpty, AnswerEmpties
    DEF Done, GatheredOK, Collects, IInv, Types, PlacesOK, registry, collector, mutators,
        client
<1>9. CASE Deadline
  BY <1>9, IdleFacts, IdleEmpty, AnswerEmpties
    DEF Deadline, GatheredOK, Collects, IInv, Types, PlacesOK, registry, collector,
        mutators, client
<1>10. CASE TickEmpty
  BY <1>10, IdleFacts, IdleEmpty, AnswerEmpties
    DEF TickEmpty, GatheredOK, Collects, IInv, Types, PlacesOK, registry, collector,
        mutators, client
<1>11. CASE Tick
  BY <1>11, IdleFacts, IdleEmpty, TickEffect
    DEF Tick, GatheredOK, Collects, IInv, Types, PlacesOK, registry, collector, mutators,
        client
<1>12. CASE FilterGone
  BY <1>12, IdleFacts, IdleEmpty
    DEF FilterGone, GatheredOK, Collects, IInv, Types, PlacesOK, registry, collector,
        mutators, client
<1>13. CASE FilterUpdate
  BY <1>13, IdleFacts, IdleEmpty, FilterUpdateEffect
    DEF FilterUpdate, Acquire, GatheredOK, Collects, IInv, Types, PlacesOK, mutators, client
<1>14. CASE BatchCollect
  <2>1. wpc = "batch" /\ wpc' = "collect" /\ w'.why # "initial" /\ w'.objs = w.objs
    <3>1. w.batch \in Seq(Queued) /\ w.batch # <<>> /\ Head(w.batch).kind # "leave"
      BY <1>14 DEF BatchCollect, IInv, Types, CallTypes, Locals
    <3>2. Head(w.batch).kind # "initial"
      BY <3>1, TailFacts DEF Queued, Updates
    <3> QED
      BY <1>14, <3>2, BatchCollectEffect DEF BatchCollect
  <2> QED
    BY <2>1 DEF GatheredOK, Collects
<1>15. CASE BatchLeave
  BY <1>15, IdleFacts, IdleEmpty, BatchLeaveEffect
    DEF BatchLeave, GatheredOK, Collects, IInv, Types, PlacesOK, registry, collector,
        mutators, client
<1>16. CASE BatchEnd
  BY <1>16, IdleFacts, IdleEmpty, AnswerEmpties
    DEF BatchEnd, AnswerPage, GatheredOK, Collects, IInv, Types, PlacesOK, registry,
        collector, mutators, client
<1>17. CASE Collect
  BY <1>17, IdleFacts, IdleEmpty, CollectEffect
    DEF Collect, GatheredOK, Collects, IInv, Types, PlacesOK, registry, collector, mutators,
        client
<1>18. CASE CollectObject
  <2>1. CASE Answer("fault", <<>>)
    BY <2>1, AnswerEmpties DEF GatheredOK, Collects
  <2>2. CASE ~Answer("fault", <<>>)
    BY <1>18, <2>2, CollectObjectEffect DEF GatheredOK, Collects, CollectObject
  <2> QED
    BY <2>1, <2>2
<1>19. CASE CollectEnd
  BY <1>19, IdleFacts, IdleEmpty
    DEF CollectEnd, GatheredOK, Collects, IInv, Types, PlacesOK, registry, collector,
        mutators, client
<1>20. CASE ResyncEnd
  BY <1>20, IdleFacts, IdleEmpty, ResyncEndEffect
    DEF ResyncEnd, Release, GatheredOK, Collects, IInv, Types, PlacesOK, collector,
        mutators, client
<1>21. CASE ApplyObject
  BY <1>21, IdleFacts, IdleEmpty, ApplyObjectEffect
    DEF ApplyObject, GatheredOK, Collects, IInv, Types, PlacesOK, registry, collector,
        mutators, client
<1>22. CASE ApplyInitial
  BY <1>22, IdleFacts, IdleEmpty, AnswerEmpties
    DEF ApplyInitial, AnswerPage, GatheredOK, Collects, IInv, Types, PlacesOK, registry,
        collector, mutators, client
<1>23. CASE ApplyBatch
  BY <1>23, IdleFacts, IdleEmpty
    DEF ApplyBatch, GatheredOK, Collects, IInv, Types, PlacesOK, registry, collector,
        mutators, client
<1>24. CASE CreateView
  BY <1>24, IdleFacts, IdleEmpty
    DEF CreateView, GatheredOK, Collects, IInv, Types, PlacesOK, collector, mutators, client
<1>25. CASE ListenView
  BY <1>25, IdleFacts, IdleEmpty
    DEF ListenView, GatheredOK, Collects, IInv, Types, PlacesOK, collector, mutators, client
<1>26. CASE CreateFilter
  BY <1>26, IdleFacts, IdleEmpty
    DEF CreateFilter, GatheredOK, Collects, IInv, Types, PlacesOK, collector, mutators,
        client
<1>27. CASE Send
  BY <1>27, IdleFacts, IdleEmpty
    DEF Send, GatheredOK, Collects, IInv, Types, PlacesOK, registry, collector, mutators,
        client
<1>28. CASE Receive
  BY <1>28, IdleFacts, IdleEmpty
    DEF Receive, GatheredOK, Collects, IInv, Types, PlacesOK, registry, collector, mutators,
        client
<1>29. CASE Lost
  BY <1>29, IdleFacts, IdleEmpty
    DEF Lost, GatheredOK, Collects, IInv, Types, PlacesOK, registry, collector, mutators,
        client
<1>30. CASE CancelWaitForUpdates
  BY <1>30, IdleFacts, IdleEmpty
    DEF CancelWaitForUpdates, GatheredOK, Collects, IInv, Types, PlacesOK, registry,
        collector, mutators, client
<1>31. CASE DestroyFilter
  BY <1>31, IdleFacts, IdleEmpty
    DEF DestroyFilter, GatheredOK, Collects, IInv, Types, PlacesOK, mutators, client
<1>32. CASE DestroyCollector
  BY <1>32, IdleFacts, IdleEmpty
    DEF DestroyCollector, GatheredOK, Collects, IInv, Types, PlacesOK, mutators, client
<1>33. CASE CancelContext
  BY <1>33, IdleFacts, IdleEmpty
    DEF CancelContext, GatheredOK, Collects, IInv, Types, PlacesOK, registry, collector,
        mutators, client
<1>34. CASE UNCHANGED vars
  BY <1>34, IdleFacts, IdleEmpty
    DEF GatheredOK, Collects, IInv, Types, PlacesOK, vars, registry, collector, mutators,
        client
<1> QED
  BY <1>1, <1>2, <1>3, <1>4, <1>5, <1>6, <1>7, <1>8, <1>9, <1>10, <1>11, <1>12, <1>13, <1>14,
     <1>15, <1>16, <1>17, <1>18, <1>19, <1>20, <1>21, <1>22, <1>23, <1>24, <1>25, <1>26, <1>27,
     <1>28, <1>29, <1>30, <1>31, <1>32, <1>33, <1>34
    DEF Next, WaitStep, ClientStep

LEMMA ReportedNext ==
    ReportedOK' <=> \A i \in DOMAIN w'.fu : \E q : w'.fu[i].obj = q /\ (q \in refs' \/ Gone(q)')
  BY DEF ReportedOK, Gone

(* What was reported is kept, and so is the filter but for objects that are gone. *)
LEMMA ReportedKept ==
    ASSUME IInv, [Next]_vars, ReportedOK, w'.fu = w.fu, \A q \in refs : q \in refs' \/ Gone(q)
    PROVE  ReportedOK'
<1>1. \A q : Gone(q) => Gone(q)'
  BY GoneStep
<1>2. \A i \in DOMAIN w.fu : w.fu[i].obj \in refs \/ Gone(w.fu[i].obj)
  BY DEF ReportedOK
<1> QED
  BY <1>1, <1>2, ReportedNext

LEMMA ReportedEmpty ==
    ASSUME w'.fu = <<>>
    PROVE  ReportedOK'
  BY ReportedNext

LEMMA ReportedMore ==
    ASSUME IInv, [Next]_vars, ReportedOK, w.fu \in Seq(Items), NEW u \in Items, w'.fu = Append(w.fu, u),
           u.obj \in refs' \/ Gone(u.obj), \A q \in refs : q \in refs' \/ Gone(q)
    PROVE  ReportedOK'
<1>1. \A q : Gone(q) => Gone(q)'
  BY GoneStep
<1>2. \A i \in DOMAIN w.fu : w.fu[i].obj \in refs \/ Gone(w.fu[i].obj)
  BY DEF ReportedOK
<1>3. \A i \in DOMAIN w'.fu : w'.fu[i] = u \/ (i \in DOMAIN w.fu /\ w'.fu[i] = w.fu[i])
  OBVIOUS
<1> QED
  BY <1>1, <1>2, <1>3, ReportedNext

(* An object that leaves is gone. *)
LEMMA BatchGone ==
    ASSUME IInv, BatchLeave
    PROVE  Gone(Head(w.batch).obj)
<1>1. w.batch \in Seq(Queued) /\ w.batch # <<>> /\ Head(w.batch).kind = "leave"
  BY DEF IInv, Types, CallTypes, Locals, BatchLeave
<1>2. Head(w.batch).obj \in Leaving(w.batch)
  BY <1>1, OfTail
<1> QED
  BY <1>2 DEF IInv, LeavesOK

(* Every step keeps that changes are reported of the objects of the filter. *)
LEMMA ReportedStep == IInv /\ GatheredOK /\ ReportedOK /\ [Next]_vars => ReportedOK'
<1> SUFFICES ASSUME IInv /\ GatheredOK /\ ReportedOK, [Next]_vars PROVE ReportedOK'
  OBVIOUS
<1>1. ASSUME NEW o \in PutObjs, PutStep(o) PROVE ReportedOK'
  <2>1. w'.fu = w.fu /\ refs' = refs
    BY <1>1, PutFrame
  <2> QED
    BY <2>1, ReportedKept
<1>2. ASSUME NEW o \in RemObjs, RemoveStep(o) PROVE ReportedOK'
  <2>1. w'.fu = w.fu /\ refs' = refs
    BY <1>2, RemoveFrame
  <2> QED
    BY <2>1, ReportedKept
<1>3. ASSUME NEW k \in Writers, WriteStep(k) PROVE ReportedOK'
  <2>1. w'.fu = w.fu /\ refs' = refs
    BY <1>3, WriteFrame
  <2> QED
    BY <2>1, ReportedKept
<1>4. CASE Locate
  <2>1. CASE Answer("fault", <<>>)
    BY <2>1, AnswerEmpties, ReportedEmpty
  <2>2. CASE ~Answer("fault", <<>>)
    BY <1>4, <2>2, ReportedKept DEF Locate, collector
  <2> QED
    BY <2>1, <2>2
<1>5. CASE BeginPending
  <2>1. w'.fu = <<>>
    BY <1>5, AnswerEmpties DEF BeginPending, AnswerPage
  <2> QED
    BY <2>1, ReportedEmpty
<1>6. CASE BeginInitial
  <2>1. w'.fu = w.fu /\ refs' = refs
    BY <1>6 DEF BeginInitial, collector
  <2> QED
    BY <2>1, ReportedKept
<1>7. CASE BeginLoop
  <2>1. w'.fu = w.fu /\ refs' = refs
    BY <1>7 DEF BeginLoop, collector
  <2> QED
    BY <2>1, ReportedKept
<1>8. CASE Done
  <2>1. w'.fu = <<>>
    BY <1>8, AnswerEmpties DEF Done
  <2> QED
    BY <2>1, ReportedEmpty
<1>9. CASE Deadline
  <2>1. w'.fu = <<>>
    BY <1>9, AnswerEmpties DEF Deadline
  <2> QED
    BY <2>1, ReportedEmpty
<1>10. CASE TickEmpty
  <2>1. w'.fu = <<>>
    BY <1>10, AnswerEmpties DEF TickEmpty
  <2> QED
    BY <2>1, ReportedEmpty
<1>11. CASE Tick
  <2>1. w'.fu = w.fu /\ refs' = refs
    BY <1>11, TickEffect DEF Tick, collector
  <2> QED
    BY <2>1, ReportedKept
<1>12. CASE FilterGone
  <2>1. w'.fu = w.fu /\ refs' = refs
    BY <1>12 DEF FilterGone, collector
  <2> QED
    BY <2>1, ReportedKept
<1>13. CASE FilterUpdate
  <2>1. w'.fu = <<>>
    BY <1>13, FilterUpdateEffect DEF FilterUpdate, GatheredOK
  <2> QED
    BY <2>1, ReportedEmpty
<1>14. CASE BatchCollect
  <2>1. w'.fu = w.fu /\ refs' = refs
    BY <1>14, BatchCollectEffect DEF BatchCollect, collector
  <2> QED
    BY <2>1, ReportedKept
<1>15. CASE BatchLeave
  <2> DEFINE u == Head(w.batch)
  <2>1. refs' = refs \ {u.obj}
    BY <1>15 DEF BatchLeave
  <2>2. Gone(u.obj)
    BY <1>15, BatchGone
  <2>3. w.fu \in Seq(Items)
    BY DEF IInv, Types, CallTypes, Locals
  <2>4. w'.fu = w.fu \/ (w'.fu = Append(w.fu, u) /\ u \in Items)
    BY <1>15, BatchLeaveEffect
  <2> HIDE DEF u
  <2> QED
    BY <2>1, <2>2, <2>3, <2>4, ReportedKept, ReportedMore
<1>16. CASE BatchEnd
  <2>1. refs' = refs
    BY <1>16 DEF BatchEnd
  <2>2. w'.fu = <<>>
    BY <1>16, AnswerEmpties, IdleFacts DEF BatchEnd, AnswerPage
  <2> QED
    BY <2>2, ReportedEmpty
<1>17. CASE Collect
  <2>1. w'.fu = w.fu /\ refs' = refs
    BY <1>17, CollectEffect DEF Collect, collector
  <2> QED
    BY <2>1, ReportedKept
<1>18. CASE CollectObject
  <2>1. CASE Answer("fault", <<>>)
    BY <2>1, AnswerEmpties, ReportedEmpty
  <2>2. CASE ~Answer("fault", <<>>)
    BY <1>18, <2>2, CollectObjectEffect, ReportedKept DEF CollectObject, collector
  <2> QED
    BY <2>1, <2>2
<1>19. CASE CollectEnd
  <2>1. w'.fu = w.fu /\ refs' = refs
    BY <1>19 DEF CollectEnd, collector
  <2> QED
    BY <2>1, ReportedKept
<1>20. CASE ResyncEnd
  <2>1. w'.fu = w.fu /\ refs' = refs
    BY <1>20, ResyncEndEffect DEF ResyncEnd, collector
  <2> QED
    BY <2>1, ReportedKept
<1>21. CASE ApplyObject
  <2>1. w'.fu = w.fu /\ refs \subseteq refs'
    BY <1>21, ApplyObjectEffect DEF ApplyObject
  <2> QED
    BY <2>1, ReportedKept
<1>22. CASE ApplyInitial
  <2>1. w'.fu = <<>>
    BY <1>22, AnswerEmpties DEF ApplyInitial, AnswerPage
  <2> QED
    BY <2>1, ReportedEmpty
<1>23. CASE ApplyBatch
  <2>1. refs' = refs
    BY <1>23 DEF ApplyBatch, collector
  <2>2. w.fu \in Seq(Items)
    BY DEF IInv, Types, CallTypes, Locals
  <2>3. \/ w'.fu = w.fu
        \/ \E u \in Items : u.kind = "modify" /\ u.obj \in refs /\ w'.fu = Append(w.fu, u)
    BY <1>23, ApplyBatchEffect
  <2> QED
    BY <2>1, <2>2, <2>3, ReportedKept, ReportedMore
<1>24. CASE CreateView
  <2>1. w'.fu = w.fu /\ refs' = refs
    BY <1>24 DEF CreateView, collector, client
  <2> QED
    BY <2>1, ReportedKept
<1>25. CASE ListenView
  <2>1. w'.fu = w.fu /\ refs' = refs
    BY <1>25 DEF ListenView, collector, client
  <2> QED
    BY <2>1, ReportedKept
<1>26. CASE CreateFilter
  <2>1. w'.fu = w.fu /\ refs' = refs
    BY <1>26 DEF CreateFilter, collector, client
  <2> QED
    BY <2>1, ReportedKept
<1>27. CASE Send
  <2>1. w'.fu = w.fu /\ refs' = refs
    BY <1>27 DEF Send, collector, client
  <2> QED
    BY <2>1, ReportedKept
<1>28. CASE Receive
  <2>1. w'.fu = <<>>
    BY <1>28, IdleFacts DEF Receive
  <2> QED
    BY <2>1, ReportedEmpty
<1>29. CASE Lost
  <2>1. w'.fu = <<>>
    BY <1>29, IdleFacts DEF Lost
  <2> QED
    BY <2>1, ReportedEmpty
<1>30. CASE CancelWaitForUpdates
  <2>1. w'.fu = w.fu /\ refs' = refs
    BY <1>30 DEF CancelWaitForUpdates, collector, client
  <2> QED
    BY <2>1, ReportedKept
<1>31. CASE DestroyFilter
  <2>1. w'.fu = w.fu /\ refs' = refs
    BY <1>31 DEF DestroyFilter, collector, client
  <2> QED
    BY <2>1, ReportedKept
<1>32. CASE DestroyCollector
  <2>1. w'.fu = w.fu /\ refs' = refs
    BY <1>32 DEF DestroyCollector, collector, client
  <2> QED
    BY <2>1, ReportedKept
<1>33. CASE CancelContext
  <2>1. w'.fu = w.fu /\ refs' = refs
    BY <1>33 DEF CancelContext, collector, client
  <2> QED
    BY <2>1, ReportedKept
<1>34. CASE UNCHANGED vars
  <2>1. w'.fu = w.fu /\ refs' = refs
    BY <1>34 DEF vars, collector
  <2> QED
    BY <2>1, ReportedKept
<1> QED
  BY <1>1, <1>2, <1>3, <1>4, <1>5, <1>6, <1>7, <1>8, <1>9, <1>10, <1>11, <1>12, <1>13, <1>14,
     <1>15, <1>16, <1>17, <1>18, <1>19, <1>20, <1>21, <1>22, <1>23, <1>24, <1>25, <1>26, <1>27,
     <1>28, <1>29, <1>30, <1>31, <1>32, <1>33, <1>34
    DEF Next, WaitStep, ClientStep

-----------------------------------------------------------------------------
(* The objects that are gathered or in a sequence. *)
LEMMA GatheredFacts ==
    /\ \A q : q \in Gathered <=> \E i \in DOMAIN w.res : w.res[i].obj = q
    /\ \A q : q \in Gathered' <=> \E i \in DOMAIN w'.res : w'.res[i].obj = q
  BY DEF Gathered

LEMMA ToSetFacts ==
    ASSUME NEW S, NEW s \in Seq(S)
    PROVE  /\ \A q : q \in ToSet(s) <=> \E i \in DOMAIN s : s[i] = q
           /\ s # <<>> => /\ Head(s) \in ToSet(s) /\ ToSet(Tail(s)) \subseteq ToSet(s)
                          /\ \A q \in ToSet(s) : q = Head(s) \/ q \in ToSet(Tail(s))
           /\ \A e \in S : ToSet(Append(s, e)) = ToSet(s) \cup {e}
<1>1. \A q : q \in ToSet(s) <=> \E i \in DOMAIN s : s[i] = q
  BY DEF ToSet
<1>2. ASSUME s # <<>>
      PROVE  /\ Head(s) \in ToSet(s) /\ ToSet(Tail(s)) \subseteq ToSet(s)
             /\ \A q \in ToSet(s) : q = Head(s) \/ q \in ToSet(Tail(s))
  <2> DEFINE t == Tail(s)
  <2>1. /\ DOMAIN s = 1 .. Len(s) /\ Len(s) \in Nat /\ Len(s) > 0 /\ Head(s) = s[1]
        /\ DOMAIN t = 1 .. Len(s) - 1
        /\ \A i \in 1 .. Len(s) - 1 : t[i] = s[i + 1]
    BY <1>2
  <2> HIDE DEF t
  <2>2. \A q : q \in ToSet(t) <=> \E i \in DOMAIN t : t[i] = q
    BY DEF ToSet
  <2>3. 1 \in DOMAIN s /\ \A i \in DOMAIN t : i + 1 \in DOMAIN s
    BY <2>1
  <2>4. \A i \in DOMAIN s : i = 1 \/ (i - 1 \in DOMAIN t /\ t[i - 1] = s[i])
    <3> TAKE i \in DOMAIN s
    <3>1. i # 1 => i - 1 \in DOMAIN t /\ (i - 1) + 1 = i
      BY <2>1
    <3> QED
      BY <2>1, <3>1
  <2> QED
    BY <1>1, <2>1, <2>2, <2>3, <2>4 DEF t
<1>3. ASSUME NEW e \in S PROVE ToSet(Append(s, e)) = ToSet(s) \cup {e}
  <2> DEFINE t == Append(s, e)
             n == Len(s) + 1
  <2>1. /\ DOMAIN s = 1 .. Len(s) /\ Len(s) \in Nat /\ DOMAIN t = 1 .. n /\ t[n] = e
        /\ \A i \in DOMAIN s : t[i] = s[i]
    OBVIOUS
  <2> HIDE DEF t
  <2>2. \A q : q \in ToSet(t) <=> \E i \in DOMAIN t : t[i] = q
    BY DEF ToSet
  <2>3. n \in DOMAIN t /\ (\A i \in DOMAIN s : i \in DOMAIN t) /\ \A i \in DOMAIN t : i = n \/ i \in DOMAIN s
    BY <2>1
  <2> HIDE DEF n
  <2>4. \A q : q \in ToSet(t) <=> q \in ToSet(s) \/ q = e
    BY <1>1, <2>1, <2>2, <2>3
  <2> QED
    BY <2>4 DEF t
<1> QED
  BY <1>1, <1>2, <1>3

LEMMA GatheredSame ==
    ASSUME w'.res = w.res
    PROVE  Gathered' = Gathered
  BY DEF Gathered

LEMMA GatheredNone ==
    ASSUME w'.res = <<>>
    PROVE  Gathered' = {}
  BY DEF Gathered

LEMMA GatheredAppend ==
    ASSUME w.res \in Seq(Items), NEW u \in Items, w'.res = Append(w.res, u)
    PROVE  Gathered' = Gathered \cup {u.obj}
<1>1. \A q : q \in Gathered' <=> \E i \in DOMAIN w'.res : w'.res[i].obj = q
  BY GatheredFacts
<1> DEFINE n == Len(w.res) + 1
<1>2. /\ n \in DOMAIN w'.res /\ w'.res[n] = u
      /\ \A i \in DOMAIN w.res : i \in DOMAIN w'.res /\ w'.res[i] = w.res[i]
      /\ \A i \in DOMAIN w'.res : i = n \/ i \in DOMAIN w.res
  OBVIOUS
<1> HIDE DEF n
<1>3. \A q : q \in Gathered' <=> q \in Gathered \/ q = u.obj
  BY <1>1, <1>2, GatheredFacts
<1> QED
  BY <1>3

LEMMA GatheredTail ==
    ASSUME w.res \in Seq(Items), w.res # <<>>, w'.res = Tail(w.res)
    PROVE  Gathered = Gathered' \cup {Head(w.res).obj}
<1>1. \A q : q \in Gathered' <=> \E i \in DOMAIN w'.res : w'.res[i].obj = q
  BY GatheredFacts
<1>2. /\ 1 \in DOMAIN w.res /\ Head(w.res) = w.res[1]
      /\ \A i \in DOMAIN w'.res : i + 1 \in DOMAIN w.res /\ w'.res[i] = w.res[i + 1]
  OBVIOUS
<1>3. \A i \in DOMAIN w.res : i = 1 \/ (i - 1 \in DOMAIN w'.res /\ w'.res[i - 1] = w.res[i])
  OBVIOUS
<1>4. ASSUME NEW q \in Gathered PROVE q \in Gathered' \/ q = Head(w.res).obj
  <2>1. PICK i \in DOMAIN w.res : w.res[i].obj = q
    BY GatheredFacts
  <2>2. i # 1 => i - 1 \in DOMAIN w'.res /\ w'.res[i - 1].obj = q
    BY <1>3, <2>1
  <2> QED
    BY <1>1, <1>2, <2>1, <2>2
<1>5. Head(w.res).obj \in Gathered
  BY <1>2, GatheredFacts
<1>6. ASSUME NEW q \in Gathered' PROVE q \in Gathered
  <2>1. PICK i \in DOMAIN w'.res : w'.res[i].obj = q
    BY <1>1
  <2>2. i + 1 \in DOMAIN w.res /\ w.res[i + 1].obj = q
    BY <1>2, <2>1
  <2> QED
    BY <2>2, GatheredFacts
<1> QED
  BY <1>4, <1>5, <1>6

(* The call gets to know registered objects that nobody has locked, from the view. *)
LEMMA WaitGathers ==
    ASSUME IInv, WaitStep
    PROVE  /\ refs' \cup Gathered' \subseteq refs \cup Gathered \cup
                  {q \in registered \cap ToSet(w.objs) : lock[q] = None}
           /\ ToSet(w'.objs) \subseteq ToSet(w.objs) \cup ToSet(view)
<1> DEFINE Goal == /\ refs' \cup Gathered' \subseteq refs \cup Gathered \cup
                          {q \in registered \cap ToSet(w.objs) : lock[q] = None}
                   /\ ToSet(w'.objs) \subseteq ToSet(w.objs) \cup ToSet(view)
<1>1. Locate => Goal
  <2> SUFFICES ASSUME Locate PROVE Goal
    OBVIOUS
  <2>1. refs' = refs
    BY DEF Locate, collector
  <2>2. CASE Answer("fault", <<>>)
    BY <2>1, <2>2, AnswerEmpties, GatheredNone, SaysEmpty
  <2>3. CASE ~Answer("fault", <<>>)
    BY <2>1, <2>3, GatheredSame DEF Locate
  <2> QED
    BY <2>2, <2>3
<1>2. BeginPending => Goal
  <2> SUFFICES ASSUME BeginPending PROVE Goal
    OBVIOUS
  <2>1. w'.objs = <<>> /\ refs' = refs /\ w'.res = <<>>
    BY AnswerEmpties DEF BeginPending, AnswerPage
  <2> QED
    BY <2>1, GatheredNone, SaysEmpty
<1>3. BeginInitial => Goal
  <2> SUFFICES ASSUME BeginInitial PROVE Goal
    OBVIOUS
  <2>1. w'.objs = w.objs /\ refs' \subseteq refs /\ w'.res = w.res
    BY DEF BeginInitial, collector
  <2> QED
    BY <2>1, GatheredSame
<1>4. BeginLoop => Goal
  <2> SUFFICES ASSUME BeginLoop PROVE Goal
    OBVIOUS
  <2>1. w'.objs = w.objs /\ refs' \subseteq refs /\ w'.res = w.res
    BY DEF BeginLoop, collector
  <2> QED
    BY <2>1, GatheredSame
<1>5. Done => Goal
  <2> SUFFICES ASSUME Done PROVE Goal
    OBVIOUS
  <2>1. w'.objs = <<>> /\ refs' = refs /\ w'.res = <<>>
    BY AnswerEmpties DEF Done, collector
  <2> QED
    BY <2>1, GatheredNone, SaysEmpty
<1>6. Deadline => Goal
  <2> SUFFICES ASSUME Deadline PROVE Goal
    OBVIOUS
  <2>1. w'.objs = <<>> /\ refs' = refs /\ w'.res = <<>>
    BY AnswerEmpties DEF Deadline, collector
  <2> QED
    BY <2>1, GatheredNone, SaysEmpty
<1>7. TickEmpty => Goal
  <2> SUFFICES ASSUME TickEmpty PROVE Goal
    OBVIOUS
  <2>1. w'.objs = <<>> /\ refs' = refs /\ w'.res = <<>>
    BY AnswerEmpties DEF TickEmpty, collector
  <2> QED
    BY <2>1, GatheredNone, SaysEmpty
<1>8. Tick => Goal
  <2> SUFFICES ASSUME Tick PROVE Goal
    OBVIOUS
  <2>1. w'.objs = w.objs /\ refs' \subseteq refs /\ w'.res = w.res
    BY TickEffect DEF Tick, collector
  <2> QED
    BY <2>1, GatheredSame
<1>9. FilterGone => Goal
  <2> SUFFICES ASSUME FilterGone PROVE Goal
    OBVIOUS
  <2>1. w'.objs = w.objs /\ refs' \subseteq refs /\ w'.res = w.res
    BY DEF FilterGone, collector
  <2> QED
    BY <2>1, GatheredSame
<1>10. FilterUpdate => Goal
  <2> SUFFICES ASSUME FilterUpdate PROVE Goal
    OBVIOUS
  <2>1. w'.objs = w.objs /\ refs' \subseteq refs /\ w'.res = w.res
    BY FilterUpdateEffect DEF FilterUpdate, Acquire, collector
  <2> QED
    BY <2>1, GatheredSame
<1>11. BatchCollect => Goal
  <2> SUFFICES ASSUME BatchCollect PROVE Goal
    OBVIOUS
  <2>1. w'.objs = w.objs /\ refs' \subseteq refs /\ w'.res = w.res
    BY BatchCollectEffect DEF BatchCollect, collector
  <2> QED
    BY <2>1, GatheredSame
<1>12. BatchLeave => Goal
  <2> SUFFICES ASSUME BatchLeave PROVE Goal
    OBVIOUS
  <2>1. w'.objs = w.objs /\ refs' \subseteq refs /\ w'.res = w.res
    BY BatchLeaveEffect DEF BatchLeave, collector
  <2> QED
    BY <2>1, GatheredSame
<1>13. BatchEnd => Goal
  <2> SUFFICES ASSUME BatchEnd PROVE Goal
    OBVIOUS
  <2>1. w'.objs = <<>> /\ refs' = refs /\ w'.res = <<>>
    BY AnswerEmpties, IdleFacts, IdleEmpty DEF BatchEnd, AnswerPage
  <2> QED
    BY <2>1, GatheredNone, SaysEmpty
<1>14. Collect => Goal
  <2> SUFFICES ASSUME Collect PROVE Goal
    OBVIOUS
  <2>1. refs' = refs /\ w'.res = w.res
    BY CollectEffect DEF Collect, collector
  <2>2. w'.objs = w.objs \/ w'.objs = view
    BY DEF Collect, IInv, Types, CallTypes, Locals
  <2> QED
    BY <2>1, <2>2, GatheredSame
<1>15. CollectObject => Goal
  <2> SUFFICES ASSUME CollectObject PROVE Goal
    OBVIOUS
  <2>1. refs' = refs
    BY DEF CollectObject, collector
  <2>2. CASE Answer("fault", <<>>)
    BY <2>1, <2>2, AnswerEmpties, GatheredNone, SaysEmpty
  <2>3. CASE ~Answer("fault", <<>>)
    <3> DEFINE q == Head(w.objs)
    <3>1. /\ w.objs \in Seq(Objs) /\ w.objs # <<>> /\ w'.objs = Tail(w.objs) /\ lock[q] = None
          /\ w.res \in Seq(Items)
          /\ \/ w'.res = w.res
             \/ q \in registered /\ Content(q) \in Items /\ w'.res = Append(w.res, Content(q))
      BY <2>3, CollectObjectEffect DEF IInv, Types, CallTypes, Locals
    <3>2. q \in ToSet(w.objs) /\ ToSet(w'.objs) \subseteq ToSet(w.objs)
      BY <3>1, ToSetFacts
    <3>3. Content(q).obj = q
      BY DEF Content, Update
    <3>4. Gathered' = Gathered \/ (q \in registered /\ Gathered' = Gathered \cup {q})
      <4> HIDE DEF q
      <4> QED
        BY <3>1, <3>3, GatheredSame, GatheredAppend
    <3> QED
      BY <2>1, <3>1, <3>2, <3>4
  <2> QED
    BY <2>2, <2>3
<1>16. CollectEnd => Goal
  <2> SUFFICES ASSUME CollectEnd PROVE Goal
    OBVIOUS
  <2>1. w'.objs = w.objs /\ refs' \subseteq refs /\ w'.res = w.res
    BY DEF CollectEnd, collector
  <2> QED
    BY <2>1, GatheredSame
<1>17. ResyncEnd => Goal
  <2> SUFFICES ASSUME ResyncEnd PROVE Goal
    OBVIOUS
  <2>1. w'.objs = w.objs /\ refs' \subseteq refs /\ w'.res = <<>>
    BY ResyncEndEffect DEF ResyncEnd, collector
  <2> QED
    BY <2>1, GatheredNone
<1>18. ApplyObject => Goal
  <2> SUFFICES ASSUME ApplyObject PROVE Goal
    OBVIOUS
  <2>1. /\ refs' = refs \cup {Head(w.res).obj} /\ w'.objs = w.objs
        /\ w.res \in Seq(Items) /\ w.res # <<>> /\ w'.res = Tail(w.res)
    BY ApplyObjectEffect DEF ApplyObject, IInv, Types, CallTypes, Locals
  <2> QED
    BY <2>1, GatheredTail
<1>19. ApplyInitial => Goal
  <2> SUFFICES ASSUME ApplyInitial PROVE Goal
    OBVIOUS
  <2>1. w'.objs = <<>> /\ refs' = refs /\ w'.res = <<>>
    BY AnswerEmpties DEF ApplyInitial, AnswerPage
  <2> QED
    BY <2>1, GatheredNone, SaysEmpty
<1>20. ApplyBatch => Goal
  <2> SUFFICES ASSUME ApplyBatch PROVE Goal
    OBVIOUS
  <2>1. w'.objs = w.objs /\ refs' \subseteq refs /\ w'.res = w.res
    BY ApplyBatchEffect DEF ApplyBatch, collector, IInv, Types, CallTypes, Locals
  <2> QED
    BY <2>1, GatheredSame
<1> QED
  BY <1>1, <1>2, <1>3, <1>4, <1>5, <1>6, <1>7, <1>8, <1>9, <1>10, <1>11, <1>12, <1>13, <1>14,
     <1>15, <1>16, <1>17, <1>18, <1>19, <1>20
    DEF WaitStep

(* The client keeps what is gathered, or drops it. *)
LEMMA ClientGathers ==
    ASSUME ClientStep
    PROVE  refs' = refs /\ Gathered' \subseteq Gathered /\ ToSet(w'.objs) \subseteq ToSet(w.objs)
<1>1. refs' = refs /\ (w' = w \/ w' = Idle)
  BY ClientFrame
<1>2. CASE w' = w
  BY <1>1, <1>2, GatheredSame
<1>3. CASE w' = Idle
  BY <1>1, <1>3, IdleFacts, IdleEmpty, GatheredNone, SaysEmpty
<1> QED
  BY <1>1, <1>2, <1>3

(* Every step keeps new objects unknown. *)
LEMMA UnknownStep == IInv /\ UnknownOK /\ [Next]_vars => UnknownOK'
<1> SUFFICES ASSUME IInv /\ UnknownOK, [Next]_vars PROVE UnknownOK'
  OBVIOUS
<1>1. ASSUME NEW o \in PutObjs, PutChild(o) PROVE UnknownOK'
  BY <1>1, Names, PutFrame, GatheredSame
    DEF PutChild, Goto, Acquire, UnknownOK, IInv, Types, MutatorTypes, RegisteredOK,
        PutStep, collector, mutators, client
<1>2. ASSUME NEW o \in PutObjs, PutBegin(o) PROVE UnknownOK'
  BY <1>2, Names, PutFrame, GatheredSame
    DEF PutBegin, Goto, Snapshot, UnknownOK, IInv, Types, MutatorTypes, RegisteredOK,
        PutStep, collector, mutators, client
<1>3. ASSUME NEW o \in PutObjs, PutCollector(o) PROVE UnknownOK'
  BY <1>3, Names, PutFrame, GatheredSame
    DEF PutCollector, Notifies, Queue, UnknownOK, IInv, Types, MutatorTypes, RegisteredOK,
        PutStep, registry, collector, mutators, client
<1>4. ASSUME NEW o \in PutObjs, PutView(o) PROVE UnknownOK'
  BY <1>4, Names, PutFrame, GatheredSame
    DEF PutView, Goto, Acquire, Notifies, UnknownOK, IInv, Types, MutatorTypes,
        RegisteredOK, PutStep, collector, mutators, client
<1>5. ASSUME NEW o \in PutObjs, PutViewCollector(o) PROVE UnknownOK'
  BY <1>5, Names, PutFrame, GatheredSame
    DEF PutViewCollector, NotifiesOfView, Queue, UnknownOK, IInv, Types, MutatorTypes,
        RegisteredOK, PutStep, registry, collector, mutators, client
<1>6. ASSUME NEW o \in PutObjs, PutViewFilter(o) PROVE UnknownOK'
  BY <1>6, Names, PutFrame, GatheredSame
    DEF PutViewFilter, NotifiesOfView, UnknownOK, IInv, Types, MutatorTypes, RegisteredOK,
        PutStep, registry, collector, mutators, client
<1>7. ASSUME NEW o \in PutObjs, PutViewEnd(o) PROVE UnknownOK'
  BY <1>7, Names, PutFrame, GatheredSame
    DEF PutViewEnd, Goto, Release, UnknownOK, IInv, Types, MutatorTypes, RegisteredOK,
        PutStep, collector, mutators, client
<1>8. ASSUME NEW o \in PutObjs, PutEnd(o) PROVE UnknownOK'
  BY <1>8, Names, PutFrame, GatheredSame
    DEF PutEnd, Goto, Release, UnknownOK, IInv, Types, MutatorTypes, RegisteredOK, PutStep,
        collector, mutators, client
<1>9. ASSUME NEW o \in RemObjs, RemoveBegin(o) PROVE UnknownOK'
  BY <1>9, Names, RemoveFrame, GatheredSame
    DEF RemoveBegin, Goto, Snapshot, Acquire, UnknownOK, IInv, Types, MutatorTypes,
        RegisteredOK, RemoveStep, collector, mutators, client
<1>10. ASSUME NEW o \in RemObjs, RemoveCollector(o) PROVE UnknownOK'
  BY <1>10, Names, RemoveFrame, GatheredSame
    DEF RemoveCollector, Notifies, Queue, UnknownOK, IInv, Types, MutatorTypes,
        RegisteredOK, RemoveStep, registry, collector, mutators, client
<1>11. ASSUME NEW o \in RemObjs, RemoveView(o) PROVE UnknownOK'
  BY <1>11, Names, RemoveFrame, GatheredSame
    DEF RemoveView, Notifies, UnknownOK, IInv, Types, MutatorTypes, RegisteredOK,
        RemoveStep, collector, mutators, client
<1>12. ASSUME NEW o \in RemObjs, RemoveEnd(o) PROVE UnknownOK'
  BY <1>12, Names, RemoveFrame, GatheredSame
    DEF RemoveEnd, Goto, Release, UnknownOK, IInv, Types, MutatorTypes, RegisteredOK,
        RemoveStep, collector, mutators, client
<1>13. ASSUME NEW o \in RemObjs, RemoveChild(o) PROVE UnknownOK'
  BY <1>13, Names, RemoveFrame, GatheredSame
    DEF RemoveChild, Goto, UnknownOK, IInv, Types, MutatorTypes, RegisteredOK, RemoveStep,
        collector, mutators, client
<1>14. ASSUME NEW k \in Writers, WriteLocate(k) PROVE UnknownOK'
  BY <1>14, Names, WriteFrame, GatheredSame
    DEF WriteLocate, Goto, UnknownOK, IInv, Types, MutatorTypes, RegisteredOK, WriteStep,
        registry, collector, mutators, client
<1>15. ASSUME NEW k \in Writers, WriteUpdate(k) PROVE UnknownOK'
  BY <1>15, Names, WriteFrame, GatheredSame
    DEF WriteUpdate, Goto, Snapshot, Acquire, UnknownOK, IInv, Types, MutatorTypes,
        RegisteredOK, WriteStep, collector, mutators, client
<1>16. ASSUME NEW k \in Writers, WriteCollector(k) PROVE UnknownOK'
  BY <1>16, Names, WriteFrame, GatheredSame
    DEF WriteCollector, Notifies, Queue, UnknownOK, IInv, Types, MutatorTypes, RegisteredOK,
        WriteStep, registry, collector, mutators, client
<1>17. ASSUME NEW k \in Writers, WriteEnd(k) PROVE UnknownOK'
  BY <1>17, Names, WriteFrame, GatheredSame
    DEF WriteEnd, Goto, Release, UnknownOK, IInv, Types, MutatorTypes, RegisteredOK,
        WriteStep, collector, mutators, client
<1>18. CASE WaitStep
  BY <1>18, Names, WaitFrame, WaitGathers DEF UnknownOK, IInv, Types, MutatorTypes, RegisteredOK
<1>19. CASE ClientStep
  BY <1>19, Names, ClientFrame, ClientGathers
    DEF UnknownOK, IInv, Types, MutatorTypes, RegisteredOK
<1>20. CASE CancelContext
  BY <1>20, Names, GatheredSame
    DEF CancelContext, UnknownOK, IInv, Types, MutatorTypes, RegisteredOK, registry,
        collector, mutators, client
<1>21. CASE UNCHANGED vars
  BY <1>21, Names, GatheredSame
    DEF UnknownOK, IInv, Types, MutatorTypes, RegisteredOK, vars, registry, collector,
        mutators, client
<1> QED
  BY <1>1, <1>2, <1>3, <1>4, <1>5, <1>6, <1>7, <1>8, <1>9, <1>10, <1>11, <1>12, <1>13, <1>14,
     <1>15, <1>16, <1>17, <1>18, <1>19, <1>20, <1>21
    DEF Next, PutStep, RemoveStep, WriteStep

(* RemoveFirst removes nothing else. *)
LEMMA RemoveFirstSet ==
    ASSUME NEW S, NEW l \in Seq(S), NEW e
    PROVE  /\ ToSet(RemoveFirst(l, e)) \subseteq ToSet(l)
           /\ \A q \in ToSet(l) : q # e => q \in ToSet(RemoveFirst(l, e))
<1>1. CASE ~\E i \in 1 .. Len(l) : l[i] = e
  BY <1>1 DEF RemoveFirst
<1>2. CASE \E i \in 1 .. Len(l) : l[i] = e
  <2> DEFINE I == {i \in 1 .. Len(l) : l[i] = e}
             n == SelectInSeq(l, LAMBDA v : v = e)
             a == SubSeq(l, 1, n - 1)
             b == SubSeq(l, n + 1, Len(l))
  <2>1. n = Min(I) /\ I # {} /\ I \in SUBSET Nat
    BY <1>2 DEF SelectInSeq
  <2>2. n \in 1 .. Len(l) /\ Len(l) \in Nat /\ l[n] = e
    <3>1. Min(I) \in I
      <4> HIDE DEF I
      <4> QED
        BY <2>1, MinIn
    <3> QED
      BY <2>1, <3>1
  <2>3. RemoveFirst(l, e) = RemoveAt(l, n)
    BY <1>2 DEF RemoveFirst
  <2> HIDE DEF n
  <2>4. RemoveFirst(l, e) = a \o b
    BY <2>3 DEF RemoveAt
  <2>5. /\ a \in Seq(S) /\ Len(a) = n - 1 /\ \A i \in 1 .. n - 1 : a[i] = l[i]
        /\ b \in Seq(S) /\ Len(b) = Len(l) - n /\ \A i \in 1 .. Len(l) - n : b[i] = l[n + i]
    BY <2>2
  <2> HIDE DEF a, b
  <2> DEFINE c == a \o b
  <2>6. /\ c \in Seq(S) /\ Len(c) = Len(a) + Len(b) /\ DOMAIN c = 1 .. Len(c)
        /\ \A i \in 1 .. Len(a) : c[i] = a[i]
        /\ \A i \in 1 .. Len(b) : c[Len(a) + i] = b[i]
    <3>1. a \in Seq(S) /\ b \in Seq(S)
      BY <2>5
    <3> QED
      BY <3>1, ConcatFacts, SeqFacts
  <2> HIDE DEF c
  <2>7. \A q : (q \in ToSet(l) <=> \E i \in 1 .. Len(l) : l[i] = q)
               /\ (q \in ToSet(c) <=> \E i \in 1 .. Len(c) : c[i] = q)
    <3>1. DOMAIN l = 1 .. Len(l) /\ DOMAIN c = 1 .. Len(c)
      BY <2>6
    <3> QED
      BY <3>1 DEF ToSet
  <2>8. ASSUME NEW i \in 1 .. Len(c) PROVE \E j \in 1 .. Len(l) : l[j] = c[i]
    <3>1. CASE i <= Len(a)
      <4>1. i \in 1 .. n - 1 /\ i \in 1 .. Len(a) /\ i \in 1 .. Len(l)
        BY <2>2, <2>5, <3>1
      <4> QED
        BY <2>5, <2>6, <4>1
    <3>2. CASE i > Len(a)
      <4> DEFINE j == i - Len(a)
      <4>1. j \in 1 .. Len(b) /\ j \in 1 .. Len(l) - n /\ Len(a) + j = i /\ n + j \in 1 .. Len(l)
        BY <2>2, <2>5, <2>6, <3>2
      <4> HIDE DEF j
      <4> QED
        BY <2>5, <2>6, <4>1
    <3> QED
      BY <2>2, <2>5, <3>1, <3>2
  <2>9. ASSUME NEW i \in 1 .. Len(l), l[i] # e PROVE \E j \in 1 .. Len(c) : c[j] = l[i]
    <3>1. CASE i < n
      <4>1. i \in 1 .. n - 1 /\ i \in 1 .. Len(a) /\ i \in 1 .. Len(c)
        BY <2>2, <2>5, <2>6, <3>1
      <4> QED
        BY <2>5, <2>6, <4>1
    <3>2. CASE i > n
      <4> DEFINE j == i - n
      <4>1. j \in 1 .. Len(b) /\ j \in 1 .. Len(l) - n /\ n + j = i /\ Len(a) + j \in 1 .. Len(c)
        BY <2>2, <2>5, <2>6, <3>2
      <4> HIDE DEF j
      <4> QED
        BY <2>5, <2>6, <4>1
    <3>3. i # n
      BY <2>2, <2>9
    <3> QED
      BY <2>2, <3>1, <3>2, <3>3
  <2> QED
    BY <2>4, <2>7, <2>8, <2>9 DEF c
<1> QED
  BY <1>1, <1>2

(* Every step keeps new objects that are not in the view unknown. *)
LEMMA UnseenStep == IInv /\ FreshOK /\ UnseenOK /\ [Next]_vars => UnseenOK'
<1> SUFFICES ASSUME IInv /\ FreshOK /\ UnseenOK, [Next]_vars PROVE UnseenOK'
  OBVIOUS
<1>1. ASSUME NEW o \in PutObjs, PutChild(o) PROVE UnseenOK'
  BY <1>1, Names, PutFrame, GatheredSame
    DEF PutChild, Goto, Acquire, UnseenOK, New, IInv, Types, MutatorTypes, RegistryTypes,
        PutStep, collector, mutators, client
<1>2. ASSUME NEW o \in PutObjs, PutBegin(o) PROVE UnseenOK'
  BY <1>2, Names, PutFrame, GatheredSame
    DEF PutBegin, Goto, Snapshot, UnseenOK, New, IInv, Types, MutatorTypes, RegistryTypes,
        PutStep, collector, mutators, client
<1>3. ASSUME NEW o \in PutObjs, PutCollector(o) PROVE UnseenOK'
  BY <1>3, Names, PutFrame, GatheredSame
    DEF PutCollector, Notifies, Queue, UnseenOK, New, IInv, Types, MutatorTypes,
        RegistryTypes, PutStep, registry, collector, mutators, client
<1>4. ASSUME NEW o \in PutObjs, PutView(o) PROVE UnseenOK'
  BY <1>4, Names, PutFrame, GatheredSame, ToSetFacts
    DEF PutView, Goto, Acquire, Notifies, UnseenOK, New, IInv, Types, MutatorTypes,
        RegistryTypes, PutStep, collector, mutators, client
<1>5. ASSUME NEW o \in PutObjs, PutViewCollector(o) PROVE UnseenOK'
  BY <1>5, Names, PutFrame, GatheredSame
    DEF PutViewCollector, NotifiesOfView, Queue, UnseenOK, New, IInv, Types, MutatorTypes,
        RegistryTypes, PutStep, registry, collector, mutators, client
<1>6. ASSUME NEW o \in PutObjs, PutViewFilter(o) PROVE UnseenOK'
  BY <1>6, Names, PutFrame, GatheredSame
    DEF PutViewFilter, NotifiesOfView, UnseenOK, New, IInv, Types, MutatorTypes,
        RegistryTypes, PutStep, registry, collector, mutators, client
<1>7. ASSUME NEW o \in PutObjs, PutViewEnd(o) PROVE UnseenOK'
  BY <1>7, Names, PutFrame, GatheredSame
    DEF PutViewEnd, Goto, Release, UnseenOK, New, IInv, Types, MutatorTypes, RegistryTypes,
        PutStep, collector, mutators, client
<1>8. ASSUME NEW o \in PutObjs, PutEnd(o) PROVE UnseenOK'
  BY <1>8, Names, PutFrame, GatheredSame
    DEF PutEnd, Goto, Release, UnseenOK, New, IInv, Types, MutatorTypes, RegistryTypes,
        PutStep, collector, mutators, client
<1>9. ASSUME NEW o \in RemObjs, RemoveBegin(o) PROVE UnseenOK'
  BY <1>9, Names, RemoveFrame, GatheredSame
    DEF RemoveBegin, Goto, Snapshot, Acquire, UnseenOK, New, IInv, Types, MutatorTypes,
        RegistryTypes, RemoveStep, collector, mutators, client
<1>10. ASSUME NEW o \in RemObjs, RemoveCollector(o) PROVE UnseenOK'
  BY <1>10, Names, RemoveFrame, GatheredSame
    DEF RemoveCollector, Notifies, Queue, UnseenOK, New, IInv, Types, MutatorTypes,
        RegistryTypes, RemoveStep, registry, collector, mutators, client
<1>11. ASSUME NEW o \in RemObjs, RemoveView(o) PROVE UnseenOK'
  <2>1. UNCHANGED <<refs, w, pc>> /\ view' = RemoveFirst(view, o) /\ pc[Rem(o)] = "notify"
    BY <1>11, RemoveFrame DEF RemoveStep, RemoveView, Notifies
  <2>2. Gathered' = Gathered
    BY <2>1, GatheredSame
  <2>3. view \in Seq(Objs)
    BY DEF IInv, Types, RegistryTypes
  <2>4. \A q \in ToSet(view) : q # o => q \in ToSet(view')
    BY <2>1, <2>3, RemoveFirstSet
  <2>5. o \in PutObjs => ~New(o)
    <3>1. o \in PutObjs => o \notin Unlocked
      BY PCAssumption
    <3> QED
      BY <2>1, <3>1, Names DEF New, IInv, Types, MutatorTypes, LocksOK, RegisteredOK
  <2> QED
    BY <2>1, <2>2, <2>4, <2>5 DEF UnseenOK, New
<1>12. ASSUME NEW o \in RemObjs, RemoveEnd(o) PROVE UnseenOK'
  BY <1>12, Names, RemoveFrame, GatheredSame
    DEF RemoveEnd, Goto, Release, UnseenOK, New, IInv, Types, MutatorTypes, RegistryTypes,
        RemoveStep, collector, mutators, client
<1>13. ASSUME NEW o \in RemObjs, RemoveChild(o) PROVE UnseenOK'
  BY <1>13, Names, RemoveFrame, GatheredSame
    DEF RemoveChild, Goto, UnseenOK, New, IInv, Types, MutatorTypes, RegistryTypes,
        RemoveStep, collector, mutators, client
<1>14. ASSUME NEW k \in Writers, WriteLocate(k) PROVE UnseenOK'
  BY <1>14, Names, WriteFrame, GatheredSame
    DEF WriteLocate, Goto, UnseenOK, New, IInv, Types, MutatorTypes, RegistryTypes,
        WriteStep, registry, collector, mutators, client
<1>15. ASSUME NEW k \in Writers, WriteUpdate(k) PROVE UnseenOK'
  BY <1>15, Names, WriteFrame, GatheredSame
    DEF WriteUpdate, Goto, Snapshot, Acquire, UnseenOK, New, IInv, Types, MutatorTypes,
        RegistryTypes, WriteStep, collector, mutators, client
<1>16. ASSUME NEW k \in Writers, WriteCollector(k) PROVE UnseenOK'
  BY <1>16, Names, WriteFrame, GatheredSame
    DEF WriteCollector, Notifies, Queue, UnseenOK, New, IInv, Types, MutatorTypes,
        RegistryTypes, WriteStep, registry, collector, mutators, client
<1>17. ASSUME NEW k \in Writers, WriteEnd(k) PROVE UnseenOK'
  BY <1>17, Names, WriteFrame, GatheredSame
    DEF WriteEnd, Goto, Release, UnseenOK, New, IInv, Types, MutatorTypes, RegistryTypes,
        WriteStep, collector, mutators, client
<1>18. CASE WaitStep
  BY <1>18, Names, WaitFrame, WaitGathers
    DEF UnseenOK, New, IInv, Types, MutatorTypes, RegistryTypes
<1>19. CASE CreateView
  <2>1. refs' = {} /\ w' = Idle
    BY <1>19, ClientFrame DEF ClientStep, CreateView, FreshOK
  <2> QED
    BY <2>1, IdleFacts, IdleEmpty, GatheredNone, SaysEmpty DEF UnseenOK, New
<1>20. CASE ListenView
  BY <1>20, Names, ClientFrame, ClientGathers
    DEF ListenView, UnseenOK, New, IInv, Types, MutatorTypes, RegistryTypes, ClientStep,
        collector, mutators, client
<1>21. CASE CreateFilter
  BY <1>21, Names, ClientFrame, ClientGathers
    DEF CreateFilter, UnseenOK, New, IInv, Types, MutatorTypes, RegistryTypes, ClientStep,
        collector, mutators, client
<1>22. CASE Send
  BY <1>22, Names, ClientFrame, ClientGathers
    DEF Send, UnseenOK, New, IInv, Types, MutatorTypes, RegistryTypes, ClientStep, registry,
        collector, mutators, client
<1>23. CASE Receive
  BY <1>23, Names, ClientFrame, ClientGathers
    DEF Receive, UnseenOK, New, IInv, Types, MutatorTypes, RegistryTypes, ClientStep,
        registry, collector, mutators, client
<1>24. CASE Lost
  BY <1>24, Names, ClientFrame, ClientGathers
    DEF Lost, UnseenOK, New, IInv, Types, MutatorTypes, RegistryTypes, ClientStep, registry,
        collector, mutators, client
<1>25. CASE CancelWaitForUpdates
  BY <1>25, Names, ClientFrame, ClientGathers
    DEF CancelWaitForUpdates, UnseenOK, New, IInv, Types, MutatorTypes, RegistryTypes,
        ClientStep, registry, collector, mutators, client
<1>26. CASE DestroyFilter
  BY <1>26, Names, ClientFrame, ClientGathers
    DEF DestroyFilter, UnseenOK, New, IInv, Types, MutatorTypes, RegistryTypes, ClientStep,
        mutators, client
<1>27. CASE DestroyCollector
  BY <1>27, Names, ClientFrame, ClientGathers
    DEF DestroyCollector, UnseenOK, New, IInv, Types, MutatorTypes, RegistryTypes,
        ClientStep, mutators, client
<1>28. CASE CancelContext
  BY <1>28, Names, GatheredSame
    DEF CancelContext, UnseenOK, New, IInv, Types, MutatorTypes, RegistryTypes, registry,
        collector, mutators, client
<1>29. CASE UNCHANGED vars
  BY <1>29, Names, GatheredSame
    DEF UnseenOK, New, IInv, Types, MutatorTypes, RegistryTypes, vars, registry, collector,
        mutators, client
<1> QED
  BY <1>1, <1>2, <1>3, <1>4, <1>5, <1>6, <1>7, <1>8, <1>9, <1>10, <1>11, <1>12, <1>13, <1>14,
     <1>15, <1>16, <1>17, <1>18, <1>19, <1>20, <1>21, <1>22, <1>23, <1>24, <1>25, <1>26, <1>27,
     <1>28, <1>29
    DEF Next, PutStep, RemoveStep, WriteStep, ClientStep

-----------------------------------------------------------------------------
(* A creation queues an update for which the objects are collected, ... *)
LEMMA PutSays ==
    ASSUME IInv, NEW o \in PutObjs, PutStep(o)
    PROVE  \/ updates' = updates
           \/ \E u \in Queued : /\ updates' = Append(updates, u) /\ u.kind # "leave"
                                /\ \A q \in Objs : ~Says(u, q)
<1>1. CASE PutCollector(o)
  <2> DEFINE u == Update("enter", o, 0)
  <2>1. u \in Queued /\ u.kind = "enter"
    BY Names DEF Update, Updates, Queued
  <2>2. updates' = Append(updates, u)
    BY <1>1 DEF PutCollector, Queue
  <2> HIDE DEF u
  <2> QED
    BY <2>1, <2>2 DEF Says
<1>2. CASE PutViewCollector(o)
  <2> DEFINE u == Update("modify", None, 0)
  <2>1. u \in Queued /\ u.kind = "modify" /\ u.obj = None
    BY DEF Update, Updates, Queued
  <2>2. updates' = Append(updates, u)
    BY <1>2 DEF PutViewCollector, Queue
  <2> HIDE DEF u
  <2> QED
    BY <2>1, <2>2, NamesAssumption DEF Says
<1>3. CASE ~PutCollector(o) /\ ~PutViewCollector(o)
  BY <1>3
    DEF PutStep, PutChild, PutBegin, PutView, PutViewFilter, PutViewEnd, PutEnd, collector
<1> QED
  BY <1>1, <1>2, <1>3

(* ... a removal one that says nothing of any value, ... *)
LEMMA RemoveSays ==
    ASSUME IInv, NEW o \in RemObjs, RemoveStep(o)
    PROVE  \/ updates' = updates
           \/ \E u \in Queued : /\ updates' = Append(updates, u) /\ u.kind = "leave" /\ u.obj = o
                                /\ pc[Rem(o)] = "notify" /\ "pc" \in todo[Rem(o)]
                                /\ \A q \in Objs : ~Says(u, q)
<1>1. CASE RemoveCollector(o)
  <2> DEFINE u == Update("leave", o, 0)
  <2>1. u \in Queued /\ u.kind = "leave" /\ u.obj = o
    BY Names DEF Update, Updates, Queued
  <2>2. updates' = Append(updates, u) /\ pc[Rem(o)] = "notify" /\ "pc" \in todo[Rem(o)]
    BY <1>1 DEF RemoveCollector, Notifies, Queue
  <2> HIDE DEF u
  <2> QED
    BY <2>1, <2>2 DEF Says
<1>2. CASE ~RemoveCollector(o)
  BY <1>2 DEF RemoveStep, RemoveBegin, RemoveView, RemoveEnd, RemoveChild, collector
<1> QED
  BY <1>1, <1>2

(* ... and a method the value it has set, with the object locked. *)
LEMMA WriteSays ==
    ASSUME IInv, NEW k \in Writers, WriteStep(k)
    PROVE  \/ updates' = updates /\ ~WriteCollector(k)
           \/ /\ WriteCollector(k)
              /\ \E u \in Queued :
                   /\ updates' = Append(updates, u) /\ u.kind = "modify"
                   /\ pc[Write(k)] = "notify" /\ "pc" \in todo[Write(k)] /\ lock[obj[k]] = Write(k)
                   /\ \A q \in Objs : Says(u, q) <=> q = obj[k] /\ k \notin Others
                   /\ k \notin Others => u.val = val[obj[k]]
<1>1. CASE WriteCollector(k)
  <2> DEFINE v == IF k \in Others THEN None ELSE val[obj[k]]
             u == Update("modify", obj[k], v)
  <2>1. obj[k] \in Objs /\ val[obj[k]] \in Nat /\ val[obj[k]] # None
    BY <1>1, Names, NamesAssumption
      DEF WriteCollector, Notifies, IInv, Types, MutatorTypes, RegistryTypes
  <2>2. v \in Nat \cup {None} /\ (v = None <=> k \in Others) /\ (k \notin Others => v = val[obj[k]])
    BY <2>1
  <2> HIDE DEF v
  <2>3. u \in Queued /\ u.kind = "modify" /\ u.obj = obj[k] /\ u.val = v
    BY <2>1, <2>2 DEF Update, Updates, Queued
  <2>4. updates' = Append(updates, u) /\ pc[Write(k)] = "notify" /\ "pc" \in todo[Write(k)]
    BY <1>1 DEF WriteCollector, Notifies, Queue, v
  <2>5. lock[obj[k]] = Write(k)
    BY <2>4 DEF IInv, LocksOK
  <2> HIDE DEF u
  <2> QED
    BY <1>1, <2>2, <2>3, <2>4, <2>5 DEF Says
<1>2. CASE ~WriteCollector(k)
  BY <1>2 DEF WriteStep, WriteLocate, WriteUpdate, WriteEnd, collector
<1> QED
  BY <1>1, <1>2

(* The call says nothing of an object of which nothing was said. *)
LEMMA WaitSilent ==
    ASSUME IInv, WaitStep, NEW o, Silent(updates, o), Silent(w.batch, o)
    PROVE  Silent(updates', o) /\ Silent(w'.batch, o)
<1> DEFINE Goal == Silent(updates', o) /\ Silent(w'.batch, o)
<1>1. Locate => Goal
  <2> SUFFICES ASSUME Locate PROVE Goal
    OBVIOUS
  <2>1. updates' = updates
    BY DEF Locate, collector
  <2>2. CASE Answer("fault", <<>>)
    BY <2>1, <2>2, AnswerEmpties, SaysEmpty
  <2>3. CASE ~Answer("fault", <<>>)
    BY <2>1, <2>3 DEF Locate
  <2> QED
    BY <2>2, <2>3
<1>2. BeginPending => Goal
  <2> SUFFICES ASSUME BeginPending PROVE Goal
    OBVIOUS
  <2>1. updates' = updates /\ w'.batch = <<>>
    BY AnswerEmpties DEF BeginPending, AnswerPage
  <2> QED
    BY <2>1, SaysEmpty
<1>3. BeginInitial => Goal
  <2> SUFFICES ASSUME BeginInitial PROVE Goal
    OBVIOUS
  <2>1. updates' = updates /\ w'.batch = w.batch
    BY DEF BeginInitial, collector
  <2> QED
    BY <2>1, SaysEmpty
<1>4. BeginLoop => Goal
  <2> SUFFICES ASSUME BeginLoop PROVE Goal
    OBVIOUS
  <2>1. updates' = updates /\ w'.batch = w.batch
    BY DEF BeginLoop, collector
  <2> QED
    BY <2>1, SaysEmpty
<1>5. Done => Goal
  <2> SUFFICES ASSUME Done PROVE Goal
    OBVIOUS
  <2>1. updates' = updates /\ w'.batch = <<>>
    BY AnswerEmpties DEF Done, collector
  <2> QED
    BY <2>1, SaysEmpty
<1>6. Deadline => Goal
  <2> SUFFICES ASSUME Deadline PROVE Goal
    OBVIOUS
  <2>1. updates' = updates /\ w'.batch = <<>>
    BY AnswerEmpties DEF Deadline, collector
  <2> QED
    BY <2>1, SaysEmpty
<1>7. TickEmpty => Goal
  <2> SUFFICES ASSUME TickEmpty PROVE Goal
    OBVIOUS
  <2>1. updates' = updates /\ w'.batch = <<>>
    BY AnswerEmpties DEF TickEmpty, collector
  <2> QED
    BY <2>1, SaysEmpty
<1>8. Tick => Goal
  <2> SUFFICES ASSUME Tick PROVE Goal
    OBVIOUS
  <2>1. updates' = <<>> /\ w'.batch = updates
    BY TickEffect DEF Tick
  <2> QED
    BY <2>1, SaysEmpty
<1>9. FilterGone => Goal
  <2> SUFFICES ASSUME FilterGone PROVE Goal
    OBVIOUS
  <2>1. updates' = updates /\ w'.batch = w.batch
    BY DEF FilterGone, collector
  <2> QED
    BY <2>1, SaysEmpty
<1>10. FilterUpdate => Goal
  <2> SUFFICES ASSUME FilterUpdate PROVE Goal
    OBVIOUS
  <2>1. updates' = updates /\ w'.batch = w.batch
    BY FilterUpdateEffect DEF FilterUpdate, Acquire, collector
  <2> QED
    BY <2>1, SaysEmpty
<1>11. BatchCollect => Goal
  <2> SUFFICES ASSUME BatchCollect PROVE Goal
    OBVIOUS
  <2>1. updates' = updates /\ w'.batch = w.batch
    BY BatchCollectEffect DEF BatchCollect, collector
  <2> QED
    BY <2>1, SaysEmpty
<1>12. BatchLeave => Goal
  <2> SUFFICES ASSUME BatchLeave PROVE Goal
    OBVIOUS
  <2>1. w.batch \in Seq(Queued) /\ w.batch # <<>> /\ updates' = updates /\ w'.batch = Tail(w.batch)
    BY BatchLeaveEffect DEF BatchLeave, collector, IInv, Types, CallTypes, Locals
  <2> QED
    BY <2>1, SaysTail
<1>13. BatchEnd => Goal
  <2> SUFFICES ASSUME BatchEnd PROVE Goal
    OBVIOUS
  <2>1. updates' = updates /\ w'.batch = <<>>
    BY AnswerEmpties, IdleFacts DEF BatchEnd, AnswerPage
  <2> QED
    BY <2>1, SaysEmpty
<1>14. Collect => Goal
  <2> SUFFICES ASSUME Collect PROVE Goal
    OBVIOUS
  <2>1. updates' = updates /\ w'.batch = w.batch
    BY CollectEffect DEF Collect, collector
  <2> QED
    BY <2>1, SaysEmpty
<1>15. CollectObject => Goal
  <2> SUFFICES ASSUME CollectObject PROVE Goal
    OBVIOUS
  <2>1. updates' = updates
    BY DEF CollectObject, collector
  <2>2. CASE Answer("fault", <<>>)
    BY <2>1, <2>2, AnswerEmpties, SaysEmpty
  <2>3. CASE ~Answer("fault", <<>>)
    BY <2>1, <2>3, CollectObjectEffect DEF CollectObject
  <2> QED
    BY <2>2, <2>3
<1>16. CollectEnd => Goal
  <2> SUFFICES ASSUME CollectEnd PROVE Goal
    OBVIOUS
  <2>1. updates' = updates /\ w'.batch = w.batch
    BY DEF CollectEnd, collector
  <2> QED
    BY <2>1, SaysEmpty
<1>17. ResyncEnd => Goal
  <2> SUFFICES ASSUME ResyncEnd PROVE Goal
    OBVIOUS
  <2>1. updates' = updates /\ w'.batch = w.batch
    BY ResyncEndEffect DEF ResyncEnd, Release, collector
  <2> QED
    BY <2>1, SaysEmpty
<1>18. ApplyObject => Goal
  <2> SUFFICES ASSUME ApplyObject PROVE Goal
    OBVIOUS
  <2>1. updates' = updates /\ w'.batch = w.batch
    BY ApplyObjectEffect DEF ApplyObject, collector
  <2> QED
    BY <2>1, SaysEmpty
<1>19. ApplyInitial => Goal
  <2> SUFFICES ASSUME ApplyInitial PROVE Goal
    OBVIOUS
  <2>1. updates' = updates /\ w'.batch = <<>>
    BY AnswerEmpties DEF ApplyInitial, AnswerPage
  <2> QED
    BY <2>1, SaysEmpty
<1>20. ApplyBatch => Goal
  <2> SUFFICES ASSUME ApplyBatch PROVE Goal
    OBVIOUS
  <2>1. w.batch \in Seq(Queued) /\ w.batch # <<>> /\ updates' = updates /\ w'.batch = Tail(w.batch)
    BY ApplyBatchEffect DEF ApplyBatch, collector, IInv, Types, CallTypes, Locals
  <2> QED
    BY <2>1, SaysTail
<1> QED
  BY <1>1, <1>2, <1>3, <1>4, <1>5, <1>6, <1>7, <1>8, <1>9, <1>10, <1>11, <1>12, <1>13, <1>14,
     <1>15, <1>16, <1>17, <1>18, <1>19, <1>20
    DEF WaitStep

(* A goroutine goes on; ... *)
LEMMA PutNew ==
    ASSUME IInv, NEW o \in PutObjs, PutStep(o)
    PROVE  \A q \in PutObjs : New(q)' => New(q)
<1> DEFINE Goal == \A q \in PutObjs : New(q)' => New(q)
<1>1. PutChild(o) => Goal
  BY Names
    DEF PutChild, Goto, Acquire, New, IInv, Types, MutatorTypes, collector, mutators, client
<1>2. PutBegin(o) => Goal
  BY Names
    DEF PutBegin, Goto, Snapshot, New, IInv, Types, MutatorTypes, collector, mutators,
        client
<1>3. PutCollector(o) => Goal
  BY Names
    DEF PutCollector, Notifies, Queue, New, IInv, Types, MutatorTypes, registry, collector,
        mutators, client
<1>4. PutView(o) => Goal
  BY Names
    DEF PutView, Goto, Acquire, Notifies, New, IInv, Types, MutatorTypes, collector,
        mutators, client
<1>5. PutViewCollector(o) => Goal
  BY Names
    DEF PutViewCollector, NotifiesOfView, Queue, New, IInv, Types, MutatorTypes, registry,
        collector, mutators, client
<1>6. PutViewFilter(o) => Goal
  BY Names
    DEF PutViewFilter, NotifiesOfView, New, IInv, Types, MutatorTypes, registry, collector,
        mutators, client
<1>7. PutViewEnd(o) => Goal
  BY Names
    DEF PutViewEnd, Goto, Release, New, IInv, Types, MutatorTypes, collector, mutators,
        client
<1>8. PutEnd(o) => Goal
  BY Names
    DEF PutEnd, Goto, Release, New, IInv, Types, MutatorTypes, collector, mutators, client
<1> QED
  BY <1>1, <1>2, <1>3, <1>4, <1>5, <1>6, <1>7, <1>8 DEF PutStep

(* ... no other one does. *)
LEMMA RemoveNew ==
    ASSUME IInv, NEW o \in RemObjs, RemoveStep(o)
    PROVE  \A q \in PutObjs : New(q)' => New(q)
<1> DEFINE Goal == \A q \in PutObjs : New(q)' => New(q)
<1>1. RemoveBegin(o) => Goal
  BY Names
    DEF RemoveBegin, Goto, Snapshot, Acquire, New, IInv, Types, MutatorTypes, collector,
        mutators, client
<1>2. RemoveCollector(o) => Goal
  BY Names
    DEF RemoveCollector, Notifies, Queue, New, IInv, Types, MutatorTypes, registry,
        collector, mutators, client
<1>3. RemoveView(o) => Goal
  BY Names DEF RemoveView, Notifies, New, IInv, Types, MutatorTypes, collector, mutators, client
<1>4. RemoveEnd(o) => Goal
  BY Names
    DEF RemoveEnd, Goto, Release, New, IInv, Types, MutatorTypes, collector, mutators,
        client
<1>5. RemoveChild(o) => Goal
  BY Names DEF RemoveChild, Goto, New, IInv, Types, MutatorTypes, collector, mutators, client
<1> QED
  BY <1>1, <1>2, <1>3, <1>4, <1>5 DEF RemoveStep

(* ... *)
LEMMA WriteNew ==
    ASSUME IInv, NEW k \in Writers, WriteStep(k)
    PROVE  \A q \in PutObjs : New(q)' => New(q)
<1> DEFINE Goal == \A q \in PutObjs : New(q)' => New(q)
<1>1. WriteLocate(k) => Goal
  BY Names
    DEF WriteLocate, Goto, New, IInv, Types, MutatorTypes, registry, collector, mutators,
        client
<1>2. WriteUpdate(k) => Goal
  BY Names
    DEF WriteUpdate, Goto, Snapshot, Acquire, New, IInv, Types, MutatorTypes, collector,
        mutators, client
<1>3. WriteCollector(k) => Goal
  BY Names
    DEF WriteCollector, Notifies, Queue, New, IInv, Types, MutatorTypes, registry,
        collector, mutators, client
<1>4. WriteEnd(k) => Goal
  BY Names
    DEF WriteEnd, Goto, Release, New, IInv, Types, MutatorTypes, collector, mutators, client
<1> QED
  BY <1>1, <1>2, <1>3, <1>4 DEF WriteStep

(* Every step keeps that new objects are not changed. *)
LEMMA UnsaidStep == IInv /\ UnknownOK /\ UnsaidOK /\ [Next]_vars => UnsaidOK'
<1> SUFFICES ASSUME IInv /\ UnknownOK /\ UnsaidOK, [Next]_vars PROVE UnsaidOK'
  OBVIOUS
<1>1. ASSUME NEW o \in PutObjs, PutStep(o) PROVE UnsaidOK'
  <2>1. w' = w
    BY <1>1, PutFrame
  <2>2. updates \in Seq(Queued)
    BY DEF IInv, Types, CollectorTypes
  <2>3. \A q \in PutObjs : New(q)' => New(q)
    BY <1>1, PutNew
  <2>4. ASSUME NEW q \in PutObjs, New(q)
        PROVE  updates' = updates \/ \E u \in Queued : updates' = Append(updates, u) /\ ~Says(u, q)
    BY <1>1, <2>4, PutSays, Names
  <2>5. \A q \in PutObjs : New(q) => Silent(updates, q) /\ Silent(w.batch, q)
    BY DEF UnsaidOK
  <2>6. ASSUME NEW q \in PutObjs, New(q) PROVE Silent(updates', q)
    <3>1. Silent(updates, q)
      BY <2>5, <2>6
    <3>2. updates' = updates \/ \E u \in Queued : updates' = Append(updates, u) /\ ~Says(u, q)
      BY <2>4, <2>6
    <3> QED
      BY <2>2, <3>1, <3>2, SaysAppend
  <2> QED
    BY <2>1, <2>3, <2>5, <2>6 DEF UnsaidOK
<1>2. ASSUME NEW o \in RemObjs, RemoveStep(o) PROVE UnsaidOK'
  <2>1. w' = w
    BY <1>2, RemoveFrame
  <2>2. updates \in Seq(Queued)
    BY DEF IInv, Types, CollectorTypes
  <2>3. \A q \in PutObjs : New(q)' => New(q)
    BY <1>2, RemoveNew
  <2>4. ASSUME NEW q \in PutObjs, New(q)
        PROVE  updates' = updates \/ \E u \in Queued : updates' = Append(updates, u) /\ ~Says(u, q)
    BY <1>2, <2>4, RemoveSays, Names
  <2>5. \A q \in PutObjs : New(q) => Silent(updates, q) /\ Silent(w.batch, q)
    BY DEF UnsaidOK
  <2>6. ASSUME NEW q \in PutObjs, New(q) PROVE Silent(updates', q)
    <3>1. Silent(updates, q)
      BY <2>5, <2>6
    <3>2. updates' = updates \/ \E u \in Queued : updates' = Append(updates, u) /\ ~Says(u, q)
      BY <2>4, <2>6
    <3> QED
      BY <2>2, <3>1, <3>2, SaysAppend
  <2> QED
    BY <2>1, <2>3, <2>5, <2>6 DEF UnsaidOK
<1>3. ASSUME NEW k \in Writers, WriteStep(k) PROVE UnsaidOK'
  <2>1. w' = w
    BY <1>3, WriteFrame
  <2>2. updates \in Seq(Queued)
    BY DEF IInv, Types, CollectorTypes
  <2>3. \A q \in PutObjs : New(q)' => New(q)
    BY <1>3, WriteNew
  <2>4. ASSUME NEW q \in PutObjs, New(q)
        PROVE  updates' = updates \/ \E u \in Queued : updates' = Append(updates, u) /\ ~Says(u, q)
    <3>1. lock[q] # Write(k) \/ obj[k] # q
      BY <2>4, Names DEF New, UnknownOK, IInv, LocksOK
    <3> QED
      BY <1>3, <3>1, WriteSays, Names
  <2>5. \A q \in PutObjs : New(q) => Silent(updates, q) /\ Silent(w.batch, q)
    BY DEF UnsaidOK
  <2>6. ASSUME NEW q \in PutObjs, New(q) PROVE Silent(updates', q)
    <3>1. Silent(updates, q)
      BY <2>5, <2>6
    <3>2. updates' = updates \/ \E u \in Queued : updates' = Append(updates, u) /\ ~Says(u, q)
      BY <2>4, <2>6
    <3> QED
      BY <2>2, <3>1, <3>2, SaysAppend
  <2> QED
    BY <2>1, <2>3, <2>5, <2>6 DEF UnsaidOK
<1>4. CASE WaitStep
  <2>1. pc' = pc
    BY <1>4, WaitFrame
  <2> QED
    BY <1>4, <2>1, WaitSilent DEF UnsaidOK, New
<1>5. CASE ClientStep
  BY <1>5, IdleFacts, SaysEmpty, ClientFrame DEF UnsaidOK, New
<1>6. CASE CancelContext
  BY <1>6, IdleFacts, SaysEmpty
    DEF CancelContext, UnsaidOK, New, registry, collector, mutators, client
<1>7. CASE UNCHANGED vars
  BY <1>7, IdleFacts, SaysEmpty DEF UnsaidOK, New, vars, registry, collector, mutators, client
<1> QED
  BY <1>1, <1>2, <1>3, <1>4, <1>5, <1>6, <1>7 DEF Next

-----------------------------------------------------------------------------
(* What the client will know depends only on the call and the client. *)
LEMMA ValueSame ==
    ASSUME UNCHANGED <<pending, wpc, w, cache>>
    PROVE  \A q : Value(q)' = Value(q)
<1>1. Out' = Out
  BY DEF Out, Collecting, Stream, Rest
<1> QED
  BY <1>1 DEF Value

(* What a creation has still to queue it queues. *)
LEMMA PutCreating ==
    ASSUME IInv, NEW o \in PutObjs, PutStep(o)
    PROVE  \A p \in PutObjs : Creating(Put(p)) => Creating(Put(p))' \/ Busy(updates')
<1> DEFINE Goal == \A p \in PutObjs : Creating(Put(p)) => Creating(Put(p))' \/ Busy(updates')
<1>1. PutChild(o) => Goal
  BY Names
    DEF PutChild, Goto, Acquire, Creating, IInv, Types, MutatorTypes, collector, mutators,
        client
<1>2. PutBegin(o) => Goal
  BY Names
    DEF PutBegin, Goto, Snapshot, Creating, IInv, Types, MutatorTypes, collector, mutators,
        client
<1>3. PutCollector(o) => Goal
  <2> SUFFICES ASSUME PutCollector(o) PROVE Goal
    OBVIOUS
  <2>1. updates' # updates
    BY SaysAppend DEF PutCollector, Queue, IInv, Types, CollectorTypes
  <2>2. updates \in Seq(Queued)
    BY DEF IInv, Types, CollectorTypes
  <2>3. Busy(updates')
    BY <2>1, <2>2, PutSays, SaysAppend
  <2> QED
    BY <2>3
<1>4. PutView(o) => Goal
  BY Names
    DEF PutView, Goto, Acquire, Notifies, Creating, IInv, Types, MutatorTypes, collector,
        mutators, client
<1>5. PutViewCollector(o) => Goal
  <2> SUFFICES ASSUME PutViewCollector(o) PROVE Goal
    OBVIOUS
  <2>1. updates' # updates
    BY SaysAppend DEF PutViewCollector, Queue, IInv, Types, CollectorTypes
  <2>2. updates \in Seq(Queued)
    BY DEF IInv, Types, CollectorTypes
  <2>3. Busy(updates')
    BY <2>1, <2>2, PutSays, SaysAppend
  <2> QED
    BY <2>3
<1>6. PutViewFilter(o) => Goal
  BY Names
    DEF PutViewFilter, NotifiesOfView, Creating, IInv, Types, MutatorTypes, registry,
        collector, mutators, client
<1>7. PutViewEnd(o) => Goal
  BY Names
    DEF PutViewEnd, Goto, Release, Creating, IInv, Types, MutatorTypes, collector, mutators,
        client
<1>8. PutEnd(o) => Goal
  BY Names
    DEF PutEnd, Goto, Release, Creating, IInv, Types, MutatorTypes, collector, mutators,
        client
<1> QED
  BY <1>1, <1>2, <1>3, <1>4, <1>5, <1>6, <1>7, <1>8 DEF PutStep

(* ... *)
LEMMA RemoveCreating ==
    ASSUME IInv, NEW o \in RemObjs, RemoveStep(o)
    PROVE  \A p \in PutObjs : Creating(Put(p)) => Creating(Put(p))'
<1> DEFINE Goal == \A p \in PutObjs : Creating(Put(p)) => Creating(Put(p))'
<1>1. RemoveBegin(o) => Goal
  BY Names
    DEF RemoveBegin, Goto, Snapshot, Acquire, Creating, IInv, Types, MutatorTypes,
        collector, mutators, client
<1>2. RemoveCollector(o) => Goal
  BY Names
    DEF RemoveCollector, Notifies, Queue, Creating, IInv, Types, MutatorTypes, registry,
        collector, mutators, client
<1>3. RemoveView(o) => Goal
  BY Names
    DEF RemoveView, Notifies, Creating, IInv, Types, MutatorTypes, collector, mutators,
        client
<1>4. RemoveEnd(o) => Goal
  BY Names
    DEF RemoveEnd, Goto, Release, Creating, IInv, Types, MutatorTypes, collector, mutators,
        client
<1>5. RemoveChild(o) => Goal
  BY Names
    DEF RemoveChild, Goto, Creating, IInv, Types, MutatorTypes, collector, mutators, client
<1> QED
  BY <1>1, <1>2, <1>3, <1>4, <1>5 DEF RemoveStep

(* ... *)
LEMMA WriteCreating ==
    ASSUME IInv, NEW k \in Writers, WriteStep(k)
    PROVE  \A p \in PutObjs : Creating(Put(p)) => Creating(Put(p))'
<1> DEFINE Goal == \A p \in PutObjs : Creating(Put(p)) => Creating(Put(p))'
<1>1. WriteLocate(k) => Goal
  BY Names
    DEF WriteLocate, Goto, Creating, IInv, Types, MutatorTypes, registry, collector,
        mutators, client
<1>2. WriteUpdate(k) => Goal
  BY Names
    DEF WriteUpdate, Goto, Snapshot, Acquire, Creating, IInv, Types, MutatorTypes,
        collector, mutators, client
<1>3. WriteCollector(k) => Goal
  BY Names
    DEF WriteCollector, Notifies, Queue, Creating, IInv, Types, MutatorTypes, registry,
        collector, mutators, client
<1>4. WriteEnd(k) => Goal
  BY Names
    DEF WriteEnd, Goto, Release, Creating, IInv, Types, MutatorTypes, collector, mutators,
        client
<1> QED
  BY <1>1, <1>2, <1>3, <1>4 DEF WriteStep

(* While the call does not move, what it will collect stays. *)
LEMMA MoreKept ==
    ASSUME UNCHANGED <<wpc, w>>, Busy(updates) => Busy(updates'),
           \A p \in PutObjs : Creating(Put(p)) => Creating(Put(p))' \/ Busy(updates')
    PROVE  (More => More') /\ \A q : Collected(q) => Collected(q)'
<1>1. Collects' = Collects
  BY DEF Collects
<1>2. More => More'
  <2>1. More' <=> \/ Busy(updates')
                  \/ IF Collects' THEN Later(w'.batch) ELSE Busy(w'.batch)
                  \/ \E p \in PutObjs : Creating(Put(p))'
    BY DEF More, Creating
  <2> QED
    BY <1>1, <2>1 DEF More
<1>3. Gathered' = Gathered
  BY GatheredSame
<1> QED
  BY <1>1, <1>2, <1>3 DEF Collected

(* ... and so does what is known of an object, unless it is changed. *)
LEMMA ClaimKept ==
    ASSUME IInv, [Next]_vars, NEW q \in Objs, UNCHANGED <<refs, pending, wpc, w, cache>>,
           More => More', Collected(q) => Collected(q)',
           Writing(q) => Writing(q)' \/ Ends(updates', q, val'[q]),
           val'[q] = val[q] \/ Writing(q)',
           \/ updates' = updates
           \/ \E u \in Queued : /\ updates' = Append(updates, u)
                                /\ Says(u, q) => u.val = val[q],
           Claim(q)
    PROVE  Claim(q)'
<1>1. Gone(q) => Gone(q)'
  BY GoneStep
<1>2. updates \in Seq(Queued)
  BY DEF IInv, Types, CollectorTypes
<1>3. Claim(q)' <=> \/ Gone(q)' \/ Writing(q)' \/ Ends(updates', q, val'[q])
                    \/ /\ Silent(updates', q)
                       /\ Ends(w'.batch, q, val'[q]) \/ (Silent(w'.batch, q) /\ Settled(q)')
  BY DEF Claim, Gone, Writing
<1>4. CASE Gone(q) \/ Writing(q) \/ Writing(q)'
  BY <1>1, <1>3, <1>4
<1>5. CASE ~Gone(q) /\ ~Writing(q) /\ ~Writing(q)'
  <2>1. val'[q] = val[q] /\ Value(q)' = Value(q)
    BY <1>5, ValueSame
  <2>2. Settled(q) => Settled(q)'
    BY <2>1 DEF Settled
  <2>3. \/ Ends(updates', q, val[q])
        \/ /\ Ends(updates, q, val[q]) => Ends(updates', q, val[q])
           /\ Silent(updates, q) => Silent(updates', q)
    BY <1>2, SaysAppend
  <2> QED
    BY <1>3, <1>5, <2>1, <2>2, <2>3 DEF Claim
<1> QED
  BY <1>4, <1>5

(* A new object is collected for the update that its creation will queue. *)
LEMMA NewClaim ==
    ASSUME NEW o \in PutObjs, UNCHANGED <<refs, wpc, w, updates>>, o \notin refs, o \notin Gathered,
           Silent(updates, o), Silent(w.batch, o), Creating(Put(o))'
    PROVE  Claim(o)' /\ Collected(o)'
<1>1. More'
  BY DEF More, Creating
<1>2. Collected(o)'
  BY <1>1 DEF Collected
<1>3. \A i \in DOMAIN w'.res : w'.res[i].obj # o
  BY GatheredFacts
<1>4. Settled(o)'
  BY <1>2, <1>3 DEF Settled
<1>5. Silent(updates', o) /\ Silent(w'.batch, o)
  OBVIOUS
<1> QED
  BY <1>2, <1>4, <1>5 DEF Claim

(* A creation registers a new object, or puts it into the view. *)
LEMMA PutScope ==
    ASSUME IInv, UnknownOK, UnseenOK, "pc" \in handlers, NEW o \in PutObjs, PutStep(o)
    PROVE  \A q \in registered' \cap ToSet(view') :
               \/ q \in registered \cap ToSet(view)
               \/ /\ q = o /\ New(o) /\ Creating(Put(o))' /\ updates' = updates
                  /\ o \notin refs /\ o \notin Gathered
<1> DEFINE Goal == \A q \in registered' \cap ToSet(view') :
                       \/ q \in registered \cap ToSet(view)
                       \/ /\ q = o /\ New(o) /\ Creating(Put(o))' /\ updates' = updates
                          /\ o \notin refs /\ o \notin Gathered
<1>1. PutChild(o) => Goal
  BY Names
    DEF PutChild, Goto, Acquire, Creating, New, IInv, Types, MutatorTypes, collector,
        mutators, client
<1>2. PutBegin(o) => Goal
  BY Names
    DEF PutBegin, Goto, Snapshot, Creating, New, IInv, Types, MutatorTypes, UnknownOK,
        collector, mutators, client
<1>3. PutCollector(o) => Goal
  BY Names
    DEF PutCollector, Notifies, Queue, Creating, New, IInv, Types, MutatorTypes, registry,
        collector, mutators, client
<1>4. PutView(o) => Goal
  <2> SUFFICES ASSUME PutView(o) PROVE Goal
    OBVIOUS
  <2>1. /\ registered' = registered /\ updates' = updates /\ view' = Append(view, o)
        /\ view \in Seq(Objs) /\ o \in Objs
    BY Names DEF PutView, collector, IInv, Types, RegistryTypes
  <2>2. ToSet(view') = ToSet(view) \cup {o}
    BY <2>1, ToSetFacts
  <2>3. New(o) /\ Creating(Put(o))'
    BY Names DEF PutView, Notifies, Goto, New, Creating, IInv, Types, MutatorTypes
  <2>4. o \notin ToSet(view) => o \notin refs /\ o \notin Gathered
    BY <2>3 DEF UnseenOK
  <2> QED
    BY <2>1, <2>2, <2>3, <2>4
<1>5. PutViewCollector(o) => Goal
  BY Names
    DEF PutViewCollector, NotifiesOfView, Queue, Creating, New, IInv, Types, MutatorTypes,
        registry, collector, mutators, client
<1>6. PutViewFilter(o) => Goal
  BY Names
    DEF PutViewFilter, NotifiesOfView, Creating, New, IInv, Types, MutatorTypes, registry,
        collector, mutators, client
<1>7. PutViewEnd(o) => Goal
  BY Names
    DEF PutViewEnd, Goto, Release, Creating, New, IInv, Types, MutatorTypes, collector,
        mutators, client
<1>8. PutEnd(o) => Goal
  BY Names
    DEF PutEnd, Goto, Release, Creating, New, IInv, Types, MutatorTypes, collector,
        mutators, client
<1> QED
  BY <1>1, <1>2, <1>3, <1>4, <1>5, <1>6, <1>7, <1>8 DEF PutStep

(* It changes no object, ... *)
LEMMA PutWrites ==
    ASSUME NEW o \in PutObjs, PutStep(o)
    PROVE  /\ val' = val /\ obj' = obj
           /\ pc' = pc \/ \E x : pc' = [pc EXCEPT ![Put(o)] = x]
           /\ todo' = todo \/ \E x : todo' = [todo EXCEPT ![Put(o)] = x]
<1> DEFINE Goal == /\ val' = val /\ obj' = obj
                   /\ pc' = pc \/ \E x : pc' = [pc EXCEPT ![Put(o)] = x]
                   /\ todo' = todo \/ \E x : todo' = [todo EXCEPT ![Put(o)] = x]
<1>1. PutChild(o) => Goal
  BY DEF PutChild, Goto, Acquire, collector, mutators, client
<1>2. PutBegin(o) => Goal
  BY DEF PutBegin, Goto, Snapshot, collector, mutators, client
<1>3. PutCollector(o) => Goal
  BY DEF PutCollector, Notifies, Queue, registry, collector, mutators, client
<1>4. PutView(o) => Goal
  BY DEF PutView, Goto, Acquire, Notifies, collector, mutators, client
<1>5. PutViewCollector(o) => Goal
  BY DEF PutViewCollector, NotifiesOfView, Queue, registry, collector, mutators, client
<1>6. PutViewFilter(o) => Goal
  BY DEF PutViewFilter, NotifiesOfView, registry, collector, mutators, client
<1>7. PutViewEnd(o) => Goal
  BY DEF PutViewEnd, Goto, Release, collector, mutators, client
<1>8. PutEnd(o) => Goal
  BY DEF PutEnd, Goto, Release, collector, mutators, client
<1> QED
  BY <1>1, <1>2, <1>3, <1>4, <1>5, <1>6, <1>7, <1>8 DEF PutStep

(* ... nor does a removal. *)
LEMMA RemoveWrites ==
    ASSUME NEW o \in RemObjs, RemoveStep(o)
    PROVE  /\ val' = val /\ obj' = obj
           /\ pc' = pc \/ \E x : pc' = [pc EXCEPT ![Rem(o)] = x]
           /\ todo' = todo \/ \E x : todo' = [todo EXCEPT ![Rem(o)] = x]
<1> DEFINE Goal == /\ val' = val /\ obj' = obj
                   /\ pc' = pc \/ \E x : pc' = [pc EXCEPT ![Rem(o)] = x]
                   /\ todo' = todo \/ \E x : todo' = [todo EXCEPT ![Rem(o)] = x]
<1>1. RemoveBegin(o) => Goal
  BY DEF RemoveBegin, Goto, Snapshot, Acquire, collector, mutators, client
<1>2. RemoveCollector(o) => Goal
  BY DEF RemoveCollector, Notifies, Queue, registry, collector, mutators, client
<1>3. RemoveView(o) => Goal
  BY DEF RemoveView, Notifies, collector, mutators, client
<1>4. RemoveEnd(o) => Goal
  BY DEF RemoveEnd, Goto, Release, collector, mutators, client
<1>5. RemoveChild(o) => Goal
  BY DEF RemoveChild, Goto, collector, mutators, client
<1> QED
  BY <1>1, <1>2, <1>3, <1>4, <1>5 DEF RemoveStep

LEMMA Elsewhere ==
    ASSUME IInv, NEW t, pc' = pc \/ \E x : pc' = [pc EXCEPT ![t] = x],
           todo' = todo \/ \E x : todo' = [todo EXCEPT ![t] = x]
    PROVE  \A y \in Mutators : y # t => pc'[y] = pc[y] /\ todo'[y] = todo[y]
<1>1. pc = [y \in Mutators |-> pc[y]] /\ todo = [y \in Mutators |-> todo[y]]
  BY DEF IInv, Types, MutatorTypes
<1> QED
  BY <1>1

LEMMA WritingSame ==
    ASSUME IInv, obj' = obj, NEW t, \A j : t # Write(j),
           pc' = pc \/ \E x : pc' = [pc EXCEPT ![t] = x],
           todo' = todo \/ \E x : todo' = [todo EXCEPT ![t] = x]
    PROVE  \A q : Writing(q) => Writing(q)'
<1>1. \A j \in Writers : Write(j) \in Mutators /\ Write(j) # t
  BY Names
<1>2. \A j \in Writers : pc'[Write(j)] = pc[Write(j)] /\ todo'[Write(j)] = todo[Write(j)]
  BY <1>1, Elsewhere
<1> QED
  BY <1>2 DEF Writing

(* A removal adds no object. *)
LEMMA RemoveScope ==
    ASSUME IInv, NEW o \in RemObjs, RemoveStep(o)
    PROVE  registered' \subseteq registered /\ ToSet(view') \subseteq ToSet(view)
<1> DEFINE Goal == registered' \subseteq registered /\ ToSet(view') \subseteq ToSet(view)
<1>1. RemoveBegin(o) => Goal
  BY
    DEF RemoveBegin, Goto, Snapshot, Acquire, IInv, Types, RegistryTypes, collector,
        mutators, client
<1>2. RemoveCollector(o) => Goal
  BY
    DEF RemoveCollector, Notifies, Queue, IInv, Types, RegistryTypes, registry, collector,
        mutators, client
<1>3. RemoveView(o) => Goal
  BY RemoveFirstSet
    DEF RemoveView, Notifies, IInv, Types, RegistryTypes, collector, mutators, client
<1>4. RemoveEnd(o) => Goal
  BY DEF RemoveEnd, Goto, Release, IInv, Types, RegistryTypes, collector, mutators, client
<1>5. RemoveChild(o) => Goal
  BY DEF RemoveChild, Goto, IInv, Types, RegistryTypes, collector, mutators, client
<1> QED
  BY <1>1, <1>2, <1>3, <1>4, <1>5 DEF RemoveStep

(* A method that has changed an object is about to queue the value. *)
LEMMA WriteWrites ==
    ASSUME IInv, "pc" \in handlers, NEW k \in Writers, WriteStep(k)
    PROVE  /\ registered' = registered /\ view' = view
           /\ \A q \in Objs : val'[q] = val[q] \/ Writing(q)'
           /\ \A q \in Objs : Writing(q) => Writing(q)' \/ (WriteCollector(k) /\ obj[k] = q /\ k \notin Others)
<1> DEFINE Goal == /\ registered' = registered /\ view' = view
                   /\ \A q \in Objs : val'[q] = val[q] \/ Writing(q)'
                   /\ \A q \in Objs : Writing(q) => Writing(q)' \/ (WriteCollector(k) /\ obj[k] = q /\ k \notin Others)
<1>1. WriteLocate(k) => Goal
  BY Names
    DEF WriteLocate, Goto, Writing, IInv, Types, MutatorTypes, RegistryTypes, registry,
        collector, mutators, client
<1>2. WriteUpdate(k) => Goal
  BY Names
    DEF WriteUpdate, Goto, Snapshot, Acquire, Writing, IInv, Types, MutatorTypes,
        RegistryTypes, collector, mutators, client
<1>3. WriteCollector(k) => Goal
  <2> SUFFICES ASSUME WriteCollector(k) PROVE Goal
    OBVIOUS
  <2>1. UNCHANGED <<registered, view, val, pc, obj>>
    BY DEF WriteCollector, registry
  <2>2. \A j \in Writers : j # k => todo'[Write(j)] = todo[Write(j)]
    BY Names DEF WriteCollector, Notifies, IInv, Types, MutatorTypes
  <2>3. ASSUME NEW q \in Objs, Writing(q) PROVE Writing(q)' \/ (obj[k] = q /\ k \notin Others)
    <3>1. PICK j \in Writers \ Others :
            obj[j] = q /\ pc[Write(j)] = "notify" /\ "pc" \in todo[Write(j)]
      BY <2>3 DEF Writing
    <3>2. CASE j = k
      BY <3>1, <3>2
    <3>3. CASE j # k
      <4>1. obj'[j] = q /\ pc'[Write(j)] = "notify" /\ "pc" \in todo'[Write(j)]
        BY <2>1, <2>2, <3>1, <3>3
      <4> QED
        BY <4>1 DEF Writing
    <3> QED
      BY <3>2, <3>3
  <2> QED
    BY <2>1, <2>3
<1>4. WriteEnd(k) => Goal
  BY Names
    DEF WriteEnd, Goto, Release, Writing, IInv, Types, MutatorTypes, RegistryTypes,
        collector, mutators, client
<1> QED
  BY <1>1, <1>2, <1>3, <1>4 DEF WriteStep

LEMMA TracksNext ==
    ASSUME Tracking' =>
             \A q \in registered' \cap ToSet(view') :
                 Claim(q)' /\ (Collects' => Gone(q)' \/ q \in refs' \/ Collected(q)')
    PROVE  CurrentOK' /\ CollectedOK'
<1>1. CurrentOK' <=> (Tracking' => \A q \in registered' \cap ToSet(view') : Claim(q)')
  BY DEF CurrentOK
<1>2. CollectedOK' <=> (Tracking' /\ Collects' => \A q \in registered' \cap ToSet(view') :
                            Gone(q)' \/ q \in refs' \/ Collected(q)')
  BY DEF CollectedOK
<1> QED
  BY <1>1, <1>2

(* The goroutines that change objects keep what is known of them. *)
LEMMA PutTracks ==
    ASSUME IInv, TrackInv, NEW o \in PutObjs, PutStep(o), [Next]_vars
    PROVE  CurrentOK' /\ CollectedOK'
<1>1. UNCHANGED <<refs, pending, wpc, w, cache, handlers, cpc>>
  BY PutFrame
<1>2. SUFFICES ASSUME Tracking PROVE CurrentOK' /\ CollectedOK'
  BY <1>1 DEF CurrentOK, CollectedOK, Tracking
<1>3. updates \in Seq(Queued)
  BY DEF IInv, Types, CollectorTypes
<1>4. (More => More') /\ \A q : Collected(q) => Collected(q)'
  <2>1. Busy(updates) => Busy(updates')
    BY <1>3, PutSays, SaysAppend
  <2>2. \A p \in PutObjs : Creating(Put(p)) => Creating(Put(p))' \/ Busy(updates')
    BY PutCreating
  <2> QED
    BY <1>1, <2>1, <2>2, MoreKept
<1>5. val' = val /\ \A q : Writing(q) => Writing(q)'
  <2>1. /\ val' = val /\ obj' = obj
        /\ pc' = pc \/ \E x : pc' = [pc EXCEPT ![Put(o)] = x]
        /\ todo' = todo \/ \E x : todo' = [todo EXCEPT ![Put(o)] = x]
    BY PutWrites
  <2>2. \A j : Put(o) # Write(j)
    BY Names
  <2> QED
    BY <2>1, <2>2, WritingSame
<1>6. \A q : Gone(q) => Gone(q)'
  BY GoneStep
<1>7. Collects' = Collects
  BY <1>1 DEF Collects
<1>8. ASSUME NEW q \in registered' \cap ToSet(view')
      PROVE  Claim(q)' /\ (Collects' => Gone(q)' \/ q \in refs' \/ Collected(q)')
  <2>1. \/ q \in registered \cap ToSet(view)
        \/ /\ q = o /\ New(o) /\ Creating(Put(o))' /\ updates' = updates
           /\ o \notin refs /\ o \notin Gathered
    BY <1>2, PutScope DEF TrackInv, Tracking
  <2>2. CASE q \in registered \cap ToSet(view)
    <3>1. Claim(q) /\ (Collects => Gone(q) \/ q \in refs \/ Collected(q)) /\ q \in Objs
      BY <1>2, <2>2 DEF TrackInv, CurrentOK, CollectedOK, IInv, Types, RegistryTypes
    <3>2. updates' = updates
            \/ \E u \in Queued : updates' = Append(updates, u) /\ (Says(u, q) => u.val = val[q])
      BY <3>1, PutSays
    <3>3. Claim(q)'
      BY <1>1, <1>4, <1>5, <3>1, <3>2, ClaimKept
    <3> QED
      BY <1>1, <1>4, <1>6, <1>7, <3>1, <3>3
  <2>3. CASE q \notin registered \cap ToSet(view)
    <3>1. Silent(updates, o) /\ Silent(w.batch, o)
      BY <2>1, <2>3 DEF TrackInv, UnsaidOK
    <3>2. Claim(o)' /\ Collected(o)'
      BY <1>1, <2>1, <2>3, <3>1, NewClaim
    <3> QED
      BY <2>1, <2>3, <3>2
  <2> QED
    BY <2>2, <2>3
<1> QED
  BY <1>8, TracksNext

LEMMA RemoveTracks ==
    ASSUME IInv, TrackInv, NEW o \in RemObjs, RemoveStep(o), [Next]_vars
    PROVE  CurrentOK' /\ CollectedOK'
<1>1. UNCHANGED <<refs, pending, wpc, w, cache, handlers, cpc>>
  BY RemoveFrame
<1>2. SUFFICES ASSUME Tracking PROVE CurrentOK' /\ CollectedOK'
  BY <1>1 DEF CurrentOK, CollectedOK, Tracking
<1>3. updates \in Seq(Queued)
  BY DEF IInv, Types, CollectorTypes
<1>4. (More => More') /\ \A q : Collected(q) => Collected(q)'
  <2>1. Busy(updates) => Busy(updates')
    <3>1. updates' = updates \/ \E u \in Queued : updates' = Append(updates, u)
      BY RemoveSays
    <3> QED
      BY <1>3, <3>1, SaysAppend
  <2>2. \A p \in PutObjs : Creating(Put(p)) => Creating(Put(p))'
    BY RemoveCreating
  <2> QED
    BY <1>1, <2>1, <2>2, MoreKept
<1>5. val' = val /\ \A q : Writing(q) => Writing(q)'
  <2>1. /\ val' = val /\ obj' = obj
        /\ pc' = pc \/ \E x : pc' = [pc EXCEPT ![Rem(o)] = x]
        /\ todo' = todo \/ \E x : todo' = [todo EXCEPT ![Rem(o)] = x]
    BY RemoveWrites
  <2>2. \A j : Rem(o) # Write(j)
    BY Names
  <2> QED
    BY <2>1, <2>2, WritingSame
<1>6. \A q : Gone(q) => Gone(q)'
  BY GoneStep
<1>7. Collects' = Collects
  BY <1>1 DEF Collects
<1>8. ASSUME NEW q \in registered' \cap ToSet(view')
      PROVE  Claim(q)' /\ (Collects' => Gone(q)' \/ q \in refs' \/ Collected(q)')
  <2>1. q \in registered \cap ToSet(view)
    BY RemoveScope
  <2>2. Claim(q) /\ (Collects => Gone(q) \/ q \in refs \/ Collected(q)) /\ q \in Objs
    BY <1>2, <2>1 DEF TrackInv, CurrentOK, CollectedOK, IInv, Types, RegistryTypes
  <2>3. updates' = updates
          \/ \E u \in Queued : updates' = Append(updates, u) /\ (Says(u, q) => u.val = val[q])
    BY <2>2, RemoveSays
  <2>4. Claim(q)'
    BY <1>1, <1>4, <1>5, <2>2, <2>3, ClaimKept
  <2> QED
    BY <1>1, <1>4, <1>6, <1>7, <2>2, <2>4
<1> QED
  BY <1>8, TracksNext

LEMMA WriteTracks ==
    ASSUME IInv, TrackInv, NEW k \in Writers, WriteStep(k), [Next]_vars
    PROVE  CurrentOK' /\ CollectedOK'
<1>1. UNCHANGED <<refs, pending, wpc, w, cache, handlers, cpc>>
  BY WriteFrame
<1>2. SUFFICES ASSUME Tracking PROVE CurrentOK' /\ CollectedOK'
  BY <1>1 DEF CurrentOK, CollectedOK, Tracking
<1>3. updates \in Seq(Queued)
  BY DEF IInv, Types, CollectorTypes
<1>4. (More => More') /\ \A q : Collected(q) => Collected(q)'
  <2>1. Busy(updates) => Busy(updates')
    <3>1. updates' = updates \/ \E u \in Queued : updates' = Append(updates, u)
      BY WriteSays
    <3> QED
      BY <1>3, <3>1, SaysAppend
  <2>2. \A p \in PutObjs : Creating(Put(p)) => Creating(Put(p))'
    BY WriteCreating
  <2> QED
    BY <1>1, <2>1, <2>2, MoreKept
<1>5. /\ registered' = registered /\ view' = view
      /\ \A q \in Objs : val'[q] = val[q] \/ Writing(q)'
      /\ \A q \in Objs : Writing(q) => Writing(q)' \/ (WriteCollector(k) /\ obj[k] = q /\ k \notin Others)
  BY <1>2, WriteWrites DEF Tracking
<1>6. \A q : Gone(q) => Gone(q)'
  BY GoneStep
<1>7. Collects' = Collects
  BY <1>1 DEF Collects
<1>8. ASSUME NEW q \in registered' \cap ToSet(view')
      PROVE  Claim(q)' /\ (Collects' => Gone(q)' \/ q \in refs' \/ Collected(q)')
  <2>1. q \in registered \cap ToSet(view)
    BY <1>5
  <2>2. Claim(q) /\ (Collects => Gone(q) \/ q \in refs \/ Collected(q)) /\ q \in Objs
    BY <1>2, <2>1 DEF TrackInv, CurrentOK, CollectedOK, IInv, Types, RegistryTypes
  <2>3. updates' = updates
          \/ \E u \in Queued : updates' = Append(updates, u) /\ (Says(u, q) => u.val = val[q])
    BY <2>2, WriteSays
  <2>4. WriteCollector(k) /\ obj[k] = q /\ k \notin Others => Ends(updates', q, val'[q])
    <3> SUFFICES ASSUME WriteCollector(k), obj[k] = q, k \notin Others PROVE Ends(updates', q, val'[q])
      OBVIOUS
    <3>1. val' = val
      BY DEF WriteCollector, registry
    <3>2. PICK u \in Queued : updates' = Append(updates, u) /\ Says(u, q) /\ u.val = val[q]
      BY <2>2, WriteSays
    <3> QED
      BY <1>3, <3>1, <3>2, SaysAppend
  <2>5. Claim(q)'
    BY <1>1, <1>4, <1>5, <2>2, <2>3, <2>4, ClaimKept
  <2> QED
    BY <1>1, <1>4, <1>6, <1>7, <2>2, <2>5
<1> QED
  BY <1>8, TracksNext

-----------------------------------------------------------------------------
(* The call goes on: what the client will know stays what it is, but for ... *)
LEMMA OutTypes ==
    ASSUME IInv
    PROVE  /\ w.set \in Seq(Items) /\ w.fu \in Seq(Items) /\ w.res \in Seq(Items) /\ Rest \in Seq(Items)
           /\ w.reply.set \in Seq(Items) /\ w.batch \in Seq(Queued) /\ updates \in Seq(Queued)
           /\ w.set \o w.fu \in Seq(Items) /\ cache \in [Objs -> Nat \cup {None}] /\ w \in Locals
           /\ <<>> \in Seq(Items)
<1>1. /\ w.set \in Seq(Items) /\ w.fu \in Seq(Items) /\ w.res \in Seq(Items) /\ w.reply.set \in Seq(Items)
      /\ w.batch \in Seq(Queued) /\ updates \in Seq(Queued) /\ cache \in [Objs -> Nat \cup {None}]
      /\ w \in Locals
  BY DEF IInv, Types, CallTypes, CollectorTypes, ClientTypes, Locals, Replies
<1>2. Rest \in Seq(Items)
  BY DEF Rest, IInv, Types, CollectorTypes
<1> QED
  BY <1>1, <1>2, ConcatFacts

LEMMA EmptyConcat == <<>> \o <<>> = <<>>
<1>1. <<>> \in Seq({})
  OBVIOUS
<1> QED
  BY <1>1, ConcatFacts

LEMMA ValueOut ==
    ASSUME cache' = cache, Out' = Out
    PROVE  \A q : Value(q)' = Value(q)
  BY DEF Value

(* An empty answer, or one that is to come, with nothing pending. *)
LEMMA OutEmpty ==
    /\ Collecting /\ w.set = <<>> /\ w.fu = <<>> => Out = <<>>
    /\ ~Collecting /\ pending = None /\ w.reply.set = <<>> => Out = <<>>
    /\ Collecting' /\ w'.set = <<>> /\ w'.fu = <<>> => Out' = <<>>
    /\ ~Collecting' /\ pending' = None /\ w'.reply.set = <<>> => Out' = <<>>
  BY EmptyConcat DEF Out, Stream, Rest

(* ... the steps that apply an update, or fail. *)
LEMMA WaitOut ==
    ASSUME IInv, GatheredOK, WaitStep
    PROVE  \/ Out' = Out
           \/ FilterGone \/ BatchLeave \/ ApplyObject \/ ApplyBatch
           \/ wpc' = "reply" /\ w'.reply.kind = "fault"
<1> DEFINE Goal == \/ Out' = Out
                   \/ FilterGone \/ BatchLeave \/ ApplyObject \/ ApplyBatch
                   \/ wpc' = "reply" /\ w'.reply.kind = "fault"
<1>1. Locate => Goal
  <2> SUFFICES ASSUME Locate PROVE Goal
    OBVIOUS
  <2>1. CASE Answer("fault", <<>>)
    BY <2>1, AnswerEmpties
  <2>2. CASE ~Answer("fault", <<>>)
    BY <2>2 DEF Locate, collector, Out, Collecting, Stream, Rest
  <2> QED
    BY <2>1, <2>2
<1>2. BeginPending => Goal
  <2> SUFFICES ASSUME BeginPending PROVE Goal
    OBVIOUS
  <2>1. w.reply.set = <<>> /\ pending \in Seq(Items) /\ Rest = pending /\ ~Collecting /\ AnswerPage(pending)
    BY IdleFacts DEF BeginPending, IInv, PlacesOK, Types, CollectorTypes, Rest, Collecting
  <2>2. Out = pending
    BY <2>1, ConcatFacts DEF Out, Stream
  <2>3. Stream' = pending /\ ~Collecting'
    BY <2>1, AnswerPageFacts DEF Collecting
  <2> QED
    BY <2>2, <2>3 DEF Out
<1>3. BeginInitial => Goal
  <2> SUFFICES ASSUME BeginInitial PROVE Goal
    OBVIOUS
  <2>1. w = Idle /\ pending = None /\ pending' = None
    BY DEF BeginInitial, IInv, PlacesOK, Collecting, collector
  <2>2. Out = <<>>
    BY <2>1, IdleFacts, OutEmpty
  <2>3. Out' = <<>>
    BY <2>1, IdleFacts, OutEmpty DEF BeginInitial, Collecting
  <2> QED
    BY <2>2, <2>3
<1>4. BeginLoop => Goal
  <2> SUFFICES ASSUME BeginLoop PROVE Goal
    OBVIOUS
  <2>1. w = Idle /\ pending = None /\ pending' = None
    BY DEF BeginLoop, IInv, PlacesOK, Collecting, collector
  <2>2. Out = <<>>
    BY <2>1, IdleFacts, OutEmpty
  <2>3. Out' = <<>>
    BY <2>1, IdleFacts, OutEmpty DEF BeginLoop, Collecting
  <2> QED
    BY <2>2, <2>3
<1>5. Done => Goal
  <2> SUFFICES ASSUME Done PROVE Goal
    OBVIOUS
  <2>1. w = Idle /\ pending = None /\ pending' = None
    BY DEF Done, IInv, PlacesOK, Collecting, collector
  <2>2. Out = <<>>
    BY <2>1, IdleFacts, OutEmpty
  <2>3. Out' = <<>>
    BY <2>1, AnswerEmpties, OutEmpty DEF Done, Collecting
  <2> QED
    BY <2>2, <2>3
<1>6. Deadline => Goal
  <2> SUFFICES ASSUME Deadline PROVE Goal
    OBVIOUS
  <2>1. w = Idle /\ pending = None /\ pending' = None
    BY DEF Deadline, IInv, PlacesOK, Collecting, collector
  <2>2. Out = <<>>
    BY <2>1, IdleFacts, OutEmpty
  <2>3. Out' = <<>>
    BY <2>1, AnswerEmpties, OutEmpty DEF Deadline, Collecting
  <2> QED
    BY <2>2, <2>3
<1>7. TickEmpty => Goal
  <2> SUFFICES ASSUME TickEmpty PROVE Goal
    OBVIOUS
  <2>1. w = Idle /\ pending = None /\ pending' = None
    BY DEF TickEmpty, IInv, PlacesOK, Collecting, collector
  <2>2. Out = <<>>
    BY <2>1, IdleFacts, OutEmpty
  <2>3. Out' = <<>>
    BY <2>1, AnswerEmpties, OutEmpty DEF TickEmpty, Collecting
  <2> QED
    BY <2>2, <2>3
<1>8. Tick => Goal
  <2> SUFFICES ASSUME Tick PROVE Goal
    OBVIOUS
  <2>1. Collecting /\ Collecting' /\ w'.set = w.set /\ w'.fu = w.fu
    BY TickEffect DEF Tick, Collecting
  <2> QED
    BY <2>1 DEF Out
<1>9. FilterGone => Goal
  OBVIOUS
<1>10. FilterUpdate => Goal
  <2> SUFFICES ASSUME FilterUpdate PROVE Goal
    OBVIOUS
  <2>1. Collecting /\ Collecting' /\ w'.set = w.set /\ w'.fu = w.fu
    BY FilterUpdateEffect DEF FilterUpdate, Acquire, Collecting
  <2> QED
    BY <2>1 DEF Out
<1>11. BatchCollect => Goal
  <2> SUFFICES ASSUME BatchCollect PROVE Goal
    OBVIOUS
  <2>1. Collecting /\ Collecting' /\ w'.set = w.set /\ w'.fu = w.fu
    BY BatchCollectEffect DEF BatchCollect, Collecting
  <2> QED
    BY <2>1 DEF Out
<1>12. BatchLeave => Goal
  OBVIOUS
<1>13. BatchEnd => Goal
  <2> SUFFICES ASSUME BatchEnd PROVE Goal
    OBVIOUS
  <2> DEFINE s == w.set \o w.fu
  <2>1. Out = s /\ s \in Seq(Items) /\ pending = None
    BY OutTypes DEF Out, BatchEnd, Collecting, IInv, PlacesOK
  <2>2. CASE s # <<>>
    <3>1. AnswerPage(s)
      BY <2>2 DEF BatchEnd
    <3> HIDE DEF s
    <3>2. Stream' = s /\ ~Collecting'
      BY <2>1, <3>1, AnswerPageFacts DEF Collecting
    <3> QED
      BY <2>1, <3>2 DEF Out
  <2>3. CASE s = <<>>
    <3>1. pending' = None
      BY <2>1, <2>3 DEF BatchEnd
    <3>2. Answer("nil", <<>>) \/ (wpc' = "select" /\ w' = Idle)
      BY <2>3 DEF BatchEnd
    <3>3. Out' = <<>>
      BY <3>1, <3>2, AnswerEmpties, IdleFacts, OutEmpty DEF Collecting
    <3> QED
      BY <2>1, <2>3, <3>3
  <2> QED
    BY <2>2, <2>3
<1>14. Collect => Goal
  <2> SUFFICES ASSUME Collect PROVE Goal
    OBVIOUS
  <2>1. Collecting /\ Collecting' /\ w'.set = w.set /\ w'.fu = w.fu
    BY CollectEffect DEF Collect, Collecting
  <2> QED
    BY <2>1 DEF Out
<1>15. CollectObject => Goal
  <2> SUFFICES ASSUME CollectObject PROVE Goal
    OBVIOUS
  <2>1. CASE Answer("fault", <<>>)
    BY <2>1, AnswerEmpties
  <2>2. CASE ~Answer("fault", <<>>)
    <3>1. Collecting /\ Collecting' /\ w'.set = w.set /\ w'.fu = w.fu
      BY <2>2, CollectObjectEffect DEF CollectObject, Collecting
    <3> QED
      BY <3>1 DEF Out
  <2> QED
    BY <2>1, <2>2
<1>16. CollectEnd => Goal
  <2> SUFFICES ASSUME CollectEnd PROVE Goal
    OBVIOUS
  <2>1. Collecting /\ Collecting' /\ w'.set = w.set /\ w'.fu = w.fu
    BY DEF CollectEnd, Collecting
  <2> QED
    BY <2>1 DEF Out
<1>17. ResyncEnd => Goal
  <2> SUFFICES ASSUME ResyncEnd PROVE Goal
    OBVIOUS
  <2>1. Collecting /\ Collecting' /\ w'.set = w.set /\ w'.fu = w.fu
    BY ResyncEndEffect DEF ResyncEnd, Release, Collecting
  <2> QED
    BY <2>1 DEF Out
<1>18. ApplyObject => Goal
  OBVIOUS
<1>19. ApplyInitial => Goal
  <2> SUFFICES ASSUME ApplyInitial PROVE Goal
    OBVIOUS
  <2>1. Collecting /\ w.fu = <<>> /\ AnswerPage(w.set)
    BY DEF ApplyInitial, GatheredOK, Collects, Collecting
  <2>2. Out = w.set
    BY <2>1, OutTypes, ConcatFacts DEF Out
  <2>3. Stream' = w.set /\ ~Collecting'
    BY <2>1, OutTypes, AnswerPageFacts DEF Collecting
  <2> QED
    BY <2>2, <2>3 DEF Out
<1>20. ApplyBatch => Goal
  OBVIOUS
<1> QED
  BY <1>1, <1>2, <1>3, <1>4, <1>5, <1>6, <1>7, <1>8, <1>9, <1>10, <1>11, <1>12, <1>13, <1>14,
     <1>15, <1>16, <1>17, <1>18, <1>19, <1>20
    DEF WaitStep

(* What is claimed and what is still to come after a step of the call. *)
LEMMA ClaimNext ==
    ASSUME NEW q, UNCHANGED <<val, pc, todo, obj>>
    PROVE  /\ Gone(q)' <=> Gone(q)
           /\ Claim(q)' <=> \/ Gone(q) \/ Writing(q) \/ Ends(updates', q, val[q])
                            \/ /\ Silent(updates', q)
                               /\ \/ Ends(w'.batch, q, val[q])
                                  \/ Silent(w'.batch, q) /\ Settled(q)'
<1>1. Gone(q)' <=> Gone(q)
  BY DEF Gone
<1>2. Writing(q)' <=> Writing(q)
  BY DEF Writing
<1> QED
  BY <1>1, <1>2 DEF Claim

LEMMA SettledNext ==
    ASSUME NEW q, val' = val
    PROVE  Settled(q)' <=>
             IF q \in refs' THEN Value(q)' = val[q]
             ELSE /\ \A i \in DOMAIN w'.res : w'.res[i].obj = q => w'.res[i].val = val[q]
                  /\ Value(q)' = val[q] \/ Collected(q)'
  BY DEF Settled

LEMMA MoreNext ==
    ASSUME UNCHANGED <<pc, todo, inner>>
    PROVE  More' <=> \/ Busy(updates')
                     \/ IF Collects' THEN Later(w'.batch) ELSE Busy(w'.batch)
                     \/ \E p \in PutObjs : Creating(Put(p))
  BY DEF More, Creating

LEMMA CollectedNext ==
    ASSUME NEW q
    PROVE  Collected(q)' <=> \/ /\ Collects'
                                /\ wpc' = "collect" \/ q \in ToSet(w'.objs) \/ q \in Gathered'
                             \/ More'
  BY DEF Collected

(* Nothing is processed: the claim stays if what the client will know does. *)
LEMMA ClaimSame ==
    ASSUME NEW q, UNCHANGED <<val, pc, todo, obj, updates>>, w'.batch = w.batch,
           refs' = refs, Value(q)' = Value(q), w'.res = w.res \/ w'.res = <<>>,
           Collected(q) => Collected(q)', Claim(q)
    PROVE  Claim(q)'
<1>1. Settled(q) => Settled(q)'
  BY SettledNext DEF Settled
<1>2. Silent(updates', q) <=> Silent(updates, q)
  OBVIOUS
<1> QED
  BY <1>1, ClaimNext DEF Claim

(* A call that is not collecting keeps what will be collected. *)
LEMMA CollectedSame ==
    ASSUME NEW q, UNCHANGED <<pc, todo, inner, updates>>, w'.batch = w.batch, ~Collects,
           ~Collects' \/ wpc' = "collect"
    PROVE  Collected(q) => Collected(q)'
<1>1. Busy(updates') = Busy(updates) /\ Busy(w'.batch) = Busy(w.batch)
  OBVIOUS
<1> QED
  BY <1>1, MoreNext, CollectedNext DEF Collected, More

LEMMA WaitValue ==
    ASSUME IInv, GatheredOK, WaitStep, ~FilterGone, ~BatchLeave, ~ApplyObject, ~ApplyBatch,
           ~(wpc' = "reply" /\ w'.reply.kind = "fault")
    PROVE  \A q : Value(q)' = Value(q)
<1>1. cache' = cache
  BY WaitFrame
<1> QED
  BY <1>1, WaitOut, ValueOut

(* The updates are taken over: what they say of an object, the batch says. *)
LEMMA TickClaims ==
    ASSUME IInv, TrackInv, Tick, NEW q, Claim(q)
    PROVE  Claim(q)' /\ ~Collects'
<1>0. WaitStep
  BY DEF WaitStep
<1>1. UNCHANGED <<val, pc, todo, inner, obj, refs>>
  BY <1>0, WaitFrame DEF Tick
<1>2. /\ updates' = <<>> /\ w'.batch = updates /\ w.batch = <<>> /\ w'.res = w.res
      /\ ~Collects /\ ~Collects'
  BY TickEffect, IdleFacts DEF Tick, IInv, PlacesOK, Collects
<1>3. Value(q)' = Value(q)
  <2>1. ~FilterGone /\ ~BatchLeave /\ ~ApplyObject /\ ~ApplyBatch /\ wpc' # "reply"
    BY DEF Tick, FilterGone, BatchLeave, ApplyObject, ApplyBatch
  <2> QED
    BY <1>0, <2>1, WaitValue DEF TrackInv
<1>4. More => More'
  <2>1. ~Busy(w.batch) /\ (Busy(updates) => Busy(w'.batch))
    BY <1>2, SaysEmpty
  <2> QED
    BY <1>1, <1>2, <2>1, MoreNext DEF More
<1>5. Settled(q) => Settled(q)'
  BY <1>1, <1>2, <1>3, <1>4, SettledNext, CollectedNext DEF Settled, Collected
<1>6. Silent(updates', q) /\ ~Ends(w.batch, q, val[q])
  BY <1>2, SaysEmpty
<1>7. /\ Ends(updates, q, val[q]) => Ends(w'.batch, q, val[q])
      /\ Silent(updates, q) => Silent(w'.batch, q)
  BY <1>2
<1> QED
  BY <1>1, <1>2, <1>5, <1>6, <1>7, ClaimNext DEF Claim

(* The filter starts over: all objects that are not on their way will be collected. *)
LEMMA FilterClaims ==
    ASSUME IInv, TrackInv, FilterUpdate, NEW q, Claim(q)
    PROVE  Claim(q)' /\ ~Collects'
<1>0. WaitStep
  BY DEF WaitStep
<1>1. UNCHANGED <<val, pc, todo, inner, obj, updates>> /\ (refs' = refs \/ refs' = {})
  BY <1>0, WaitFrame DEF FilterUpdate
<1>2. /\ w'.batch = w.batch /\ w'.res = <<>> /\ ~Collects /\ ~Collects'
  BY FilterUpdateEffect DEF FilterUpdate, IInv, PlacesOK, Collects
<1>3. Value(q)' = Value(q)
  <2>1. ~FilterGone /\ ~BatchLeave /\ ~ApplyObject /\ ~ApplyBatch /\ wpc' # "reply"
    BY DEF FilterUpdate, FilterGone, BatchLeave, ApplyObject, ApplyBatch
  <2> QED
    BY <1>0, <2>1, WaitValue DEF TrackInv
<1>4. Collected(q) => Collected(q)'
  BY <1>1, <1>2, CollectedSame
<1>5. Settled(q) => Settled(q)'
  BY <1>1, <1>2, <1>3, <1>4, SettledNext DEF Settled
<1>6. /\ Ends(updates, q, val[q]) => Ends(updates', q, val[q])
      /\ Silent(updates, q) => Silent(updates', q)
  BY <1>1
<1> QED
  BY <1>1, <1>2, <1>5, <1>6, ClaimNext DEF Claim

(* An object leaves: the others are as before. *)
LEMMA LeaveClaims ==
    ASSUME IInv, TrackInv, BatchLeave, NEW q \in Objs, Claim(q)
    PROVE  Claim(q)' /\ ~Collects'
<1> DEFINE u == Head(w.batch)
<1>0. WaitStep
  BY DEF WaitStep
<1>1. UNCHANGED <<val, pc, todo, inner, obj, updates, cache>> /\ refs' = refs \ {u.obj}
  BY <1>0, WaitFrame DEF BatchLeave
<1>2. /\ w'.batch = Tail(w.batch) /\ w.batch # <<>> /\ w'.res = w.res /\ w'.set = w.set
      /\ u.kind = "leave" /\ ~Collects /\ ~Collects' /\ Collecting /\ Collecting'
      /\ w'.fu = w.fu \/ (u \in Items /\ w'.fu = Append(w.fu, u))
  BY BatchLeaveEffect DEF BatchLeave, Collects, Collecting
<1>3. Gone(u.obj)
  BY BatchGone
<1>4. CASE u.obj = q
  BY <1>1, <1>2, <1>3, <1>4, ClaimNext
<1>5. CASE u.obj # q
  <2>1. Value(q)' = Value(q)
    <3>1. Value(q) = Apply(cache, w.set \o w.fu)[q] /\ Value(q)' = Apply(cache', w'.set \o w'.fu)[q]
      BY <1>2 DEF Value, Out
    <3> HIDE DEF u
    <3>2. CASE w'.fu = w.fu
      BY <1>1, <1>2, <3>1, <3>2
    <3>3. CASE u \in Items /\ w'.fu = Append(w.fu, u)
      <4>0. w.set \in Seq(Items) /\ w.fu \in Seq(Items) /\ cache \in [Objs -> Nat \cup {None}] /\ u \in Items
        BY <3>3, OutTypes
      <4>1. Apply(cache, w.set \o Append(w.fu, u))[q] = Apply(cache, w.set \o w.fu)[q]
        BY <1>5, <4>0, ApplyFu
      <4> QED
        BY <1>1, <1>2, <3>1, <3>3, <4>1
    <3> QED
      BY <1>2, <3>2, <3>3
  <2>2. w.batch \in Seq(Queued) /\ ~Says(u, q)
    BY <1>2, OutTypes DEF Says
  <2>3. /\ Busy(w.batch) => Busy(w'.batch)
        /\ Silent(w.batch, q) => Silent(w'.batch, q)
        /\ Ends(w.batch, q, val[q]) => Ends(w'.batch, q, val[q])
    <3> DEFINE b == w.batch
    <3>1. b \in Seq(Queued) /\ b # <<>> /\ Head(b).kind = "leave" /\ ~Says(Head(b), q) /\ w'.batch = Tail(b)
      BY <1>2, <2>2
    <3> HIDE DEF b, u
    <3>2. /\ Silent(b, q) => Silent(Tail(b), q)
          /\ \A v : Ends(b, q, v) => Ends(Tail(b), q, v) \/ Says(Head(b), q)
          /\ Busy(b) /\ Head(b).kind = "leave" => Busy(Tail(b))
      BY <3>1, SaysTail
    <3> QED
      BY <3>1, <3>2 DEF b
  <2> HIDE DEF u
  <2>4. More => More'
    BY <1>1, <1>2, <2>3, MoreNext DEF More
  <2>5. Settled(q) => Settled(q)'
    BY <1>1, <1>2, <1>5, <2>1, <2>4, SettledNext, CollectedNext DEF Settled, Collected
  <2>6. /\ Ends(updates, q, val[q]) => Ends(updates', q, val[q])
        /\ Silent(updates, q) => Silent(updates', q)
    BY <1>1
  <2> QED
    BY <1>1, <1>2, <2>3, <2>5, <2>6, ClaimNext DEF Claim
<1> QED
  BY <1>4, <1>5

(* An object is collected with the value it has: nobody is changing it. *)
LEMMA CollectClaims ==
    ASSUME IInv, TrackInv, CollectObject, NEW q \in registered, Claim(q),
           Collects => Gone(q) \/ q \in refs \/ Collected(q),
           ~(wpc' = "reply" /\ w'.reply.kind = "fault")
    PROVE  Claim(q)' /\ (Collects' => Gone(q)' \/ q \in refs' \/ Collected(q)')
<1> DEFINE o == Head(w.objs)
<1>0. WaitStep
  BY DEF WaitStep
<1>1. UNCHANGED <<val, pc, todo, inner, obj, updates, refs>>
  BY <1>0, WaitFrame DEF CollectObject, collector
<1>2. ~Answer("fault", <<>>)
  BY AnswerEmpties
<1>3. /\ wpc' = wpc /\ wpc = "objects" /\ w.objs # <<>> /\ w'.objs = Tail(w.objs) /\ w'.batch = w.batch
      /\ w'.why = w.why
      /\ \/ (o \in registered => o \in Gathered) /\ w'.res = w.res
         \/ o \in registered /\ Content(o) \in Items /\ w'.res = Append(w.res, Content(o))
  BY <1>2, CollectObjectEffect DEF CollectObject
<1>4. w.objs \in Seq(Objs) /\ w.res \in Seq(Items)
  BY DEF IInv, Types, CallTypes, Locals
<1>5. Value(q)' = Value(q)
  <2>1. ~FilterGone /\ ~BatchLeave /\ ~ApplyObject /\ ~ApplyBatch
    BY <1>3 DEF FilterGone, BatchLeave, ApplyObject, ApplyBatch
  <2> QED
    BY <1>0, <2>1, WaitValue DEF TrackInv
<1>6. Content(o).obj = o /\ Content(o).val = val[o]
  BY DEF Content, Update
<1>7. Collects' <=> Collects
  BY <1>3 DEF Collects
<1>8. More' <=> More
  BY <1>1, <1>3, <1>7, MoreNext DEF More
<1>9. q \in ToSet(w.objs) => q = o \/ q \in ToSet(w'.objs)
  BY <1>3, <1>4, ToSetFacts
<1> HIDE DEF o
<1>10. Gathered \subseteq Gathered' /\ (o \in registered => o \in Gathered')
  BY <1>3, <1>4, <1>6, GatheredSame, GatheredAppend
<1>11. Collected(q) => Collected(q)'
  BY <1>3, <1>7, <1>8, <1>9, <1>10, CollectedNext DEF Collected
<1>12. (\A i \in DOMAIN w.res : w.res[i].obj = q => w.res[i].val = val[q]) =>
         \A i \in DOMAIN w'.res : w'.res[i].obj = q => w'.res[i].val = val[q]
  <2>1. \A i \in DOMAIN w'.res : (i \in DOMAIN w.res /\ w'.res[i] = w.res[i]) \/ w'.res[i] = Content(o)
    BY <1>3, <1>4
  <2> QED
    BY <1>6, <2>1
<1>13. Settled(q) => Settled(q)'
  BY <1>1, <1>5, <1>11, <1>12, SettledNext DEF Settled
<1>14. /\ Ends(updates, q, val[q]) => Ends(updates', q, val[q])
       /\ Silent(updates, q) => Silent(updates', q)
  BY <1>1
<1>15. Claim(q)' /\ (Gone(q)' <=> Gone(q))
  BY <1>1, <1>3, <1>13, <1>14, ClaimNext DEF Claim
<1> QED
  BY <1>1, <1>7, <1>11, <1>15

(* An object enters before the changes that are reported: there are none of it yet. *)
LEMMA EnterClaims ==
    ASSUME IInv, TrackInv, ApplyObject, NEW q \in Objs, Claim(q),
           Collects => Gone(q) \/ q \in refs \/ Collected(q)
    PROVE  Claim(q)' /\ (Collects' => Gone(q)' \/ q \in refs' \/ Collected(q)')
<1> DEFINE u == Head(w.res)
<1>0. WaitStep
  BY DEF WaitStep
<1>1. UNCHANGED <<val, pc, todo, inner, obj, updates, cache>> /\ refs' = refs \cup {u.obj}
  BY <1>0, WaitFrame DEF ApplyObject
<1>2. /\ wpc' = wpc /\ w'.batch = w.batch /\ w.res # <<>> /\ w'.res = Tail(w.res) /\ w'.fu = w.fu
      /\ w'.why = w.why /\ w'.objs = w.objs /\ u \in Items /\ Collecting /\ Collecting'
      /\ \/ u.obj \in refs /\ w'.set = w.set
         \/ u.obj \notin refs /\ w'.set = Append(w.set, u)
  BY ApplyObjectEffect DEF ApplyObject, Collecting
<1>3. /\ w.res \in Seq(Items) /\ w.set \in Seq(Items) /\ w.fu \in Seq(Items)
      /\ cache \in [Objs -> Nat \cup {None}]
  BY OutTypes
<1>4. u.kind = "enter" /\ 1 \in DOMAIN w.res /\ u = w.res[1]
  BY <1>2, <1>3 DEF IInv, CollectingOK, ResOK
<1>5. Value(q) = Apply(cache, w.set \o w.fu)[q] /\ Value(q)' = Apply(cache, w'.set \o w.fu)[q]
  BY <1>1, <1>2 DEF Value, Out
<1>6. Gathered = Gathered' \cup {u.obj}
  BY <1>2, <1>3, GatheredTail
<1>7. Collects' <=> Collects
  BY <1>2 DEF Collects
<1>8. More' <=> More
  BY <1>1, <1>2, <1>7, MoreNext DEF More
<1>9. \A i \in DOMAIN w'.res : i + 1 \in DOMAIN w.res /\ w'.res[i] = w.res[i + 1]
  BY <1>2, <1>3
<1>10. Gone(q)' <=> Gone(q)
  BY <1>1, ClaimNext
<1>11. (\A i \in DOMAIN w.fu : w.fu[i].obj # q) \/ q \in refs \/ Gone(q)
  BY DEF TrackInv, ReportedOK
<1> HIDE DEF u
<1> DEFINE f == w.fu
           s == w.set
<1>12. f \in Seq(Items) /\ s \in Seq(Items) /\ u \in Items /\ cache \in [Objs -> Nat \cup {None}]
  BY <1>2, <1>3
<1> HIDE DEF f, s
<1>13. /\ u.obj # q => Apply(cache, Append(s, u) \o f)[q] = Apply(cache, s \o f)[q]
       /\ u.obj = q /\ u.kind # "leave" /\ (\A i \in DOMAIN f : f[i].obj # q) =>
              Apply(cache, Append(s, u) \o f)[q] = u.val
  BY <1>12, ApplyInsert
<1>14. CASE Gone(q)
  BY <1>1, <1>10, <1>14, ClaimNext
<1>15. CASE ~Gone(q) /\ u.obj = q /\ q \notin refs
  <2>1. Value(q)' = u.val
    BY <1>2, <1>4, <1>5, <1>11, <1>13, <1>15 DEF f, s
  <2>2. Settled(q) => Settled(q)'
    BY <1>1, <1>4, <1>15, <2>1, SettledNext DEF Settled
  <2> QED
    BY <1>1, <1>2, <1>15, <2>2, ClaimNext DEF Claim
<1>16. CASE ~Gone(q) /\ (u.obj # q \/ q \in refs)
  <2>1. Value(q)' = Value(q)
    BY <1>2, <1>5, <1>13, <1>16 DEF f, s
  <2>2. Collected(q) /\ u.obj # q => Collected(q)'
    BY <1>2, <1>6, <1>7, <1>8, CollectedNext DEF Collected
  <2>3. Settled(q) => Settled(q)'
    BY <1>1, <1>9, <1>16, <2>1, <2>2, SettledNext DEF Settled
  <2> QED
    BY <1>1, <1>2, <1>7, <1>16, <2>2, <2>3, ClaimNext DEF Claim
<1> QED
  BY <1>14, <1>15, <1>16

(* A change is reported of an object of the filter; another one will be collected. *)
LEMMA BatchClaims ==
    ASSUME IInv, TrackInv, ApplyBatch, NEW q \in Objs, Claim(q),
           Collects => Gone(q) \/ q \in refs \/ Collected(q)
    PROVE  Claim(q)' /\ ~Collects'
<1> DEFINE u == Head(w.batch)
<1>0. WaitStep
  BY DEF WaitStep
<1>1. UNCHANGED <<val, pc, todo, inner, obj, updates, refs, cache>>
  BY <1>0, WaitFrame DEF ApplyBatch, collector
<1>2. /\ w.batch # <<>> /\ w.batch \in Seq(Queued) /\ w \in Locals
      /\ w' = [w EXCEPT !.fu = w'.fu, !.batch = Tail(w.batch)]
      /\ \/ w'.fu = w.fu /\ ~(w.why = "modify" /\ u.obj \in refs /\ u.val # None)
         \/ u \in Items /\ u.kind = "modify" /\ u.obj \in refs /\ w'.fu = Append(w.fu, u)
  BY ApplyBatchEffect, OutTypes
<1>3. w'.batch = Tail(w.batch) /\ w'.res = w.res /\ w'.set = w.set
  BY <1>2 DEF Locals
<1>4. /\ Collects /\ ~Collects' /\ Collecting /\ Collecting' /\ wpc = "apply" /\ w.res = <<>>
      /\ w.objs = <<>> /\ u.kind = w.why
  BY DEF ApplyBatch, Collects, Collecting, TrackInv, GatheredOK, IInv, PlacesOK
<1>5. /\ w.set \in Seq(Items) /\ w.fu \in Seq(Items) /\ cache \in [Objs -> Nat \cup {None}]
  BY OutTypes
<1>6. Value(q) = Apply(cache, w.set \o w.fu)[q] /\ Value(q)' = Apply(cache, w.set \o w'.fu)[q]
  BY <1>1, <1>3, <1>4 DEF Value, Out
<1>7. /\ Later(w.batch) => Busy(w'.batch)
      /\ Silent(w.batch, q) => Silent(w'.batch, q) /\ ~Says(u, q)
      /\ Ends(w.batch, q, val[q]) =>
             Ends(w'.batch, q, val[q]) \/ (Silent(w'.batch, q) /\ Says(u, q) /\ u.val = val[q])
  BY <1>2, <1>3, SaysTail
<1> HIDE DEF u
<1>8. Collected(q) => Collected(q)'
  <2>1. Collected(q) => More
    BY <1>4, SaysEmpty DEF Collected, Gathered
  <2>2. More => More'
    BY <1>1, <1>4, <1>7, MoreNext DEF More
  <2> QED
    BY <2>1, <2>2, CollectedNext
<1>9. ~Says(u, q) => Value(q)' = Value(q)
  <2>1. CASE w'.fu = w.fu
    BY <1>6, <2>1
  <2>2. CASE u \in Items /\ u.kind = "modify" /\ w'.fu = Append(w.fu, u)
    <3>1. u.val # None
      BY <2>2, NamesAssumption DEF Items
    <3> QED
      BY <1>5, <1>6, <2>2, <3>1, ApplyFu DEF Says
  <2> QED
    BY <1>2, <2>1, <2>2
<1>10. Says(u, q) /\ q \in refs => Value(q)' = u.val
  <2> SUFFICES ASSUME Says(u, q), q \in refs PROVE Value(q)' = u.val
    OBVIOUS
  <2>1. u \in Items /\ u.kind = "modify" /\ u.obj = q /\ w'.fu = Append(w.fu, u)
    BY <1>2, <1>4 DEF Says
  <2> QED
    BY <1>5, <1>6, <2>1, ApplyFu
<1>11. Gone(q) \/ q \in refs \/ Collected(q)
  BY <1>4
<1>12. Settled(q) /\ ~Says(u, q) => Settled(q)'
  BY <1>1, <1>3, <1>8, <1>9, SettledNext DEF Settled
<1>13. Says(u, q) /\ u.val = val[q] => Gone(q) \/ Settled(q)'
  BY <1>1, <1>3, <1>4, <1>8, <1>10, <1>11, SettledNext
<1>14. /\ Ends(updates, q, val[q]) => Ends(updates', q, val[q])
       /\ Silent(updates, q) => Silent(updates', q)
  BY <1>1
<1> QED
  BY <1>1, <1>4, <1>7, <1>12, <1>13, <1>14, ClaimNext DEF Claim

(* Every step of the call keeps what is claimed of an object. *)
LEMMA WaitClaims ==
    ASSUME IInv, TrackInv, WaitStep, Tracking, NEW q \in registered, q \in ToSet(view), Claim(q),
           Collects => Gone(q) \/ q \in refs \/ Collected(q)
    PROVE  \/ wpc' = "reply" /\ w'.reply.kind = "fault"
           \/ Claim(q)' /\ (Collects' => Gone(q)' \/ q \in refs' \/ Collected(q)')
<1> DEFINE Goal == \/ wpc' = "reply" /\ w'.reply.kind = "fault"
                   \/ Claim(q)' /\ (Collects' => Gone(q)' \/ q \in refs' \/ Collected(q)')
<1>1. Locate => Goal
  <2> SUFFICES ASSUME Locate, ~(wpc' = "reply" /\ w'.reply.kind = "fault") PROVE Goal
    OBVIOUS
  <2>1. UNCHANGED <<val, pc, todo, inner, obj, view, destroyed, updates, refs>>
    BY WaitFrame DEF Locate, collector
  <2>2. w'.batch = w.batch /\ w'.res = w.res
    BY AnswerEmpties DEF Locate
  <2>3. Value(q)' = Value(q)
    <3>1. ~FilterGone /\ ~BatchLeave /\ ~ApplyObject /\ ~ApplyBatch
      BY DEF Locate, FilterGone, BatchLeave, ApplyObject, ApplyBatch
    <3> QED
      BY <3>1, WaitValue DEF TrackInv
  <2>4. ~Collects /\ (~Collects' \/ wpc' = "collect")
    BY AnswerEmpties DEF Locate, Collects
  <2> QED
    BY <2>1, <2>2, <2>3, <2>4, ClaimSame, CollectedSame, CollectedNext
<1>2. BeginPending => Goal
  <2> SUFFICES ASSUME BeginPending, ~(wpc' = "reply" /\ w'.reply.kind = "fault") PROVE Goal
    OBVIOUS
  <2>1. UNCHANGED <<val, pc, todo, inner, obj, view, destroyed, updates, refs>>
    BY WaitFrame DEF BeginPending
  <2>2. w'.batch = w.batch /\ w'.res = <<>>
    BY AnswerEmpties, IdleFacts DEF BeginPending, AnswerPage, IInv, PlacesOK
  <2>3. Value(q)' = Value(q)
    <3>1. ~FilterGone /\ ~BatchLeave /\ ~ApplyObject /\ ~ApplyBatch
      BY DEF BeginPending, FilterGone, BatchLeave, ApplyObject, ApplyBatch
    <3> QED
      BY <3>1, WaitValue DEF TrackInv
  <2>4. ~Collects /\ (~Collects' \/ wpc' = "collect")
    BY AnswerEmpties DEF BeginPending, AnswerPage, Collects
  <2> QED
    BY <2>1, <2>2, <2>3, <2>4, ClaimSame, CollectedSame, CollectedNext
<1>3. BeginInitial => Goal
  <2> SUFFICES ASSUME BeginInitial, ~(wpc' = "reply" /\ w'.reply.kind = "fault") PROVE Goal
    OBVIOUS
  <2>1. UNCHANGED <<val, pc, todo, inner, obj, view, destroyed, updates, refs>>
    BY WaitFrame DEF BeginInitial, collector
  <2>2. w'.batch = w.batch /\ w'.res = w.res
    BY DEF BeginInitial
  <2>3. Value(q)' = Value(q)
    <3>1. ~FilterGone /\ ~BatchLeave /\ ~ApplyObject /\ ~ApplyBatch
      BY DEF BeginInitial, FilterGone, BatchLeave, ApplyObject, ApplyBatch
    <3> QED
      BY <3>1, WaitValue DEF TrackInv
  <2>4. ~Collects /\ (~Collects' \/ wpc' = "collect")
    BY DEF BeginInitial, Collects
  <2> QED
    BY <2>1, <2>2, <2>3, <2>4, ClaimSame, CollectedSame, CollectedNext
<1>4. BeginLoop => Goal
  <2> SUFFICES ASSUME BeginLoop, ~(wpc' = "reply" /\ w'.reply.kind = "fault") PROVE Goal
    OBVIOUS
  <2>1. UNCHANGED <<val, pc, todo, inner, obj, view, destroyed, updates, refs>>
    BY WaitFrame DEF BeginLoop, collector
  <2>2. w'.batch = w.batch /\ w'.res = w.res
    BY DEF BeginLoop
  <2>3. Value(q)' = Value(q)
    <3>1. ~FilterGone /\ ~BatchLeave /\ ~ApplyObject /\ ~ApplyBatch
      BY DEF BeginLoop, FilterGone, BatchLeave, ApplyObject, ApplyBatch
    <3> QED
      BY <3>1, WaitValue DEF TrackInv
  <2>4. ~Collects /\ (~Collects' \/ wpc' = "collect")
    BY DEF BeginLoop, Collects
  <2> QED
    BY <2>1, <2>2, <2>3, <2>4, ClaimSame, CollectedSame, CollectedNext
<1>5. Done => Goal
  <2> SUFFICES ASSUME Done, ~(wpc' = "reply" /\ w'.reply.kind = "fault") PROVE Goal
    OBVIOUS
  <2>1. UNCHANGED <<val, pc, todo, inner, obj, view, destroyed, updates, refs>>
    BY WaitFrame DEF Done, collector
  <2>2. w'.batch = w.batch /\ w'.res = <<>>
    BY AnswerEmpties, IdleFacts DEF Done, IInv, PlacesOK
  <2>3. Value(q)' = Value(q)
    <3>1. ~FilterGone /\ ~BatchLeave /\ ~ApplyObject /\ ~ApplyBatch
      BY DEF Done, FilterGone, BatchLeave, ApplyObject, ApplyBatch
    <3> QED
      BY <3>1, WaitValue DEF TrackInv
  <2>4. ~Collects /\ (~Collects' \/ wpc' = "collect")
    BY AnswerEmpties DEF Done, Collects
  <2> QED
    BY <2>1, <2>2, <2>3, <2>4, ClaimSame, CollectedSame, CollectedNext
<1>6. Deadline => Goal
  <2> SUFFICES ASSUME Deadline, ~(wpc' = "reply" /\ w'.reply.kind = "fault") PROVE Goal
    OBVIOUS
  <2>1. UNCHANGED <<val, pc, todo, inner, obj, view, destroyed, updates, refs>>
    BY WaitFrame DEF Deadline, collector
  <2>2. w'.batch = w.batch /\ w'.res = <<>>
    BY AnswerEmpties, IdleFacts DEF Deadline, IInv, PlacesOK
  <2>3. Value(q)' = Value(q)
    <3>1. ~FilterGone /\ ~BatchLeave /\ ~ApplyObject /\ ~ApplyBatch
      BY DEF Deadline, FilterGone, BatchLeave, ApplyObject, ApplyBatch
    <3> QED
      BY <3>1, WaitValue DEF TrackInv
  <2>4. ~Collects /\ (~Collects' \/ wpc' = "collect")
    BY AnswerEmpties DEF Deadline, Collects
  <2> QED
    BY <2>1, <2>2, <2>3, <2>4, ClaimSame, CollectedSame, CollectedNext
<1>7. TickEmpty => Goal
  <2> SUFFICES ASSUME TickEmpty, ~(wpc' = "reply" /\ w'.reply.kind = "fault") PROVE Goal
    OBVIOUS
  <2>1. UNCHANGED <<val, pc, todo, inner, obj, view, destroyed, updates, refs>>
    BY WaitFrame DEF TickEmpty, collector
  <2>2. w'.batch = w.batch /\ w'.res = <<>>
    BY AnswerEmpties, IdleFacts DEF TickEmpty, IInv, PlacesOK
  <2>3. Value(q)' = Value(q)
    <3>1. ~FilterGone /\ ~BatchLeave /\ ~ApplyObject /\ ~ApplyBatch
      BY DEF TickEmpty, FilterGone, BatchLeave, ApplyObject, ApplyBatch
    <3> QED
      BY <3>1, WaitValue DEF TrackInv
  <2>4. ~Collects /\ (~Collects' \/ wpc' = "collect")
    BY AnswerEmpties DEF TickEmpty, Collects
  <2> QED
    BY <2>1, <2>2, <2>3, <2>4, ClaimSame, CollectedSame, CollectedNext
<1>8. Tick => Goal
  BY TickClaims
<1>9. FilterGone => Goal
  BY DEF FilterGone, TrackInv, FreshOK, Tracking
<1>10. FilterUpdate => Goal
  BY FilterClaims
<1>11. BatchCollect => Goal
  <2> SUFFICES ASSUME BatchCollect, ~(wpc' = "reply" /\ w'.reply.kind = "fault") PROVE Goal
    OBVIOUS
  <2>1. UNCHANGED <<val, pc, todo, inner, obj, view, destroyed, updates, refs>>
    BY WaitFrame DEF BatchCollect, collector
  <2>2. w'.batch = w.batch /\ w'.res = w.res
    BY BatchCollectEffect DEF BatchCollect
  <2>3. Value(q)' = Value(q)
    <3>1. ~FilterGone /\ ~BatchLeave /\ ~ApplyObject /\ ~ApplyBatch
      BY DEF BatchCollect, FilterGone, BatchLeave, ApplyObject, ApplyBatch
    <3> QED
      BY <3>1, WaitValue DEF TrackInv
  <2>4. ~Collects /\ (~Collects' \/ wpc' = "collect")
    BY DEF BatchCollect, Collects
  <2> QED
    BY <2>1, <2>2, <2>3, <2>4, ClaimSame, CollectedSame, CollectedNext
<1>12. BatchLeave => Goal
  BY LeaveClaims DEF IInv, Types, RegistryTypes
<1>13. BatchEnd => Goal
  <2> SUFFICES ASSUME BatchEnd, ~(wpc' = "reply" /\ w'.reply.kind = "fault") PROVE Goal
    OBVIOUS
  <2>1. UNCHANGED <<val, pc, todo, inner, obj, view, destroyed, updates, refs>>
    BY WaitFrame DEF BatchEnd
  <2>2. w'.batch = w.batch /\ w'.res = <<>>
    BY AnswerEmpties, IdleFacts DEF BatchEnd, AnswerPage, IInv, PlacesOK
  <2>3. Value(q)' = Value(q)
    <3>1. ~FilterGone /\ ~BatchLeave /\ ~ApplyObject /\ ~ApplyBatch
      BY DEF BatchEnd, FilterGone, BatchLeave, ApplyObject, ApplyBatch
    <3> QED
      BY <3>1, WaitValue DEF TrackInv
  <2>4. ~Collects /\ (~Collects' \/ wpc' = "collect")
    BY AnswerEmpties DEF BatchEnd, AnswerPage, Collects
  <2> QED
    BY <2>1, <2>2, <2>3, <2>4, ClaimSame, CollectedSame, CollectedNext
<1>14. Collect => Goal
  <2> SUFFICES ASSUME Collect, ~(wpc' = "reply" /\ w'.reply.kind = "fault") PROVE Goal
    OBVIOUS
  <2>1. UNCHANGED <<val, pc, todo, inner, obj, view, destroyed, updates, refs>>
    BY WaitFrame DEF Collect, collector
  <2>2. w'.batch = w.batch /\ w'.res = w.res
    BY CollectEffect DEF Collect
  <2>3. Value(q)' = Value(q)
    <3>1. ~FilterGone /\ ~BatchLeave /\ ~ApplyObject /\ ~ApplyBatch
      BY DEF Collect, FilterGone, BatchLeave, ApplyObject, ApplyBatch
    <3> QED
      BY <3>1, WaitValue DEF TrackInv
  <2>4. wpc' = "objects" /\ w'.objs = view /\ w'.why = w.why
    BY CollectEffect DEF Collect, TrackInv, FreshOK, Tracking, IInv, Types, CallTypes, Locals
  <2>5. Collects' <=> Collects
    BY <2>4 DEF Collect, Collects
  <2>6. Collected(q) => Collected(q)'
    BY <2>1, <2>2, <2>4, <2>5, CollectedSame, CollectedNext
  <2>7. Collects' => Collected(q)'
    BY <2>4, CollectedNext
  <2> QED
    BY <2>1, <2>2, <2>3, <2>6, <2>7, ClaimSame
<1>15. CollectObject => Goal
  BY CollectClaims
<1>16. CollectEnd => Goal
  <2> SUFFICES ASSUME CollectEnd, ~(wpc' = "reply" /\ w'.reply.kind = "fault") PROVE Goal
    OBVIOUS
  <2>1. UNCHANGED <<val, pc, todo, inner, obj, view, destroyed, updates, refs>>
    BY WaitFrame DEF CollectEnd, collector
  <2>2. w' = w /\ w'.res = w.res
    BY DEF CollectEnd
  <2>3. Value(q)' = Value(q)
    <3>1. ~FilterGone /\ ~BatchLeave /\ ~ApplyObject /\ ~ApplyBatch
      BY DEF CollectEnd, FilterGone, BatchLeave, ApplyObject, ApplyBatch
    <3> QED
      BY <3>1, WaitValue DEF TrackInv
  <2>4. Collects' <=> Collects
    BY <2>2 DEF CollectEnd, Collects
  <2>5. More' <=> More
    BY <2>1, <2>2, <2>4, MoreNext DEF More
  <2>6. Collected(q) => Collected(q)'
    BY <2>2, <2>4, <2>5, CollectedNext, GatheredSame DEF Collected, CollectEnd
  <2>7. Gone(q)' <=> Gone(q)
    BY <2>1, ClaimNext
  <2>8. w'.batch = w.batch
    BY <2>2
  <2> QED
    BY <2>1, <2>2, <2>3, <2>4, <2>6, <2>7, <2>8, ClaimSame
<1>17. ResyncEnd => Goal
  <2> SUFFICES ASSUME ResyncEnd, ~(wpc' = "reply" /\ w'.reply.kind = "fault") PROVE Goal
    OBVIOUS
  <2>1. UNCHANGED <<val, pc, todo, inner, obj, view, destroyed, updates, refs>>
    BY WaitFrame DEF ResyncEnd, collector
  <2>2. w'.batch = w.batch /\ w'.res = <<>>
    BY ResyncEndEffect DEF ResyncEnd
  <2>3. Value(q)' = Value(q)
    <3>1. ~FilterGone /\ ~BatchLeave /\ ~ApplyObject /\ ~ApplyBatch
      BY DEF ResyncEnd, FilterGone, BatchLeave, ApplyObject, ApplyBatch
    <3> QED
      BY <3>1, WaitValue DEF TrackInv
  <2>4. ~Collects /\ (~Collects' \/ wpc' = "collect")
    BY DEF ResyncEnd, Collects
  <2> QED
    BY <2>1, <2>2, <2>3, <2>4, ClaimSame, CollectedSame, CollectedNext
<1>18. ApplyObject => Goal
  BY EnterClaims DEF IInv, Types, RegistryTypes
<1>19. ApplyInitial => Goal
  <2> SUFFICES ASSUME ApplyInitial, ~(wpc' = "reply" /\ w'.reply.kind = "fault") PROVE Goal
    OBVIOUS
  <2>1. UNCHANGED <<val, pc, todo, inner, obj, view, destroyed, updates, refs>>
    BY WaitFrame DEF ApplyInitial
  <2>2. w'.batch = w.batch /\ w'.res = <<>>
    BY AnswerEmpties DEF ApplyInitial, AnswerPage, TrackInv, GatheredOK, Collects
  <2>3. Value(q)' = Value(q)
    <3>1. ~FilterGone /\ ~BatchLeave /\ ~ApplyObject /\ ~ApplyBatch
      BY DEF ApplyInitial, FilterGone, BatchLeave, ApplyObject, ApplyBatch
    <3> QED
      BY <3>1, WaitValue DEF TrackInv
  <2>4. Collects /\ ~Collects' /\ w.batch = <<>> /\ wpc = "apply" /\ w.objs = <<>> /\ w.res = <<>>
    BY AnswerEmpties DEF ApplyInitial, AnswerPage, TrackInv, GatheredOK, Collects
  <2>5. More => More'
    BY <2>1, <2>2, <2>4, MoreNext, SaysEmpty DEF More
  <2>6. Collected(q) => Collected(q)'
    BY <2>4, <2>5, CollectedNext, SaysEmpty DEF Collected, Gathered
  <2> QED
    BY <2>1, <2>2, <2>3, <2>4, <2>6, ClaimSame
<1>20. ApplyBatch => Goal
  BY BatchClaims DEF IInv, Types, RegistryTypes
<1> QED
  BY <1>1, <1>2, <1>3, <1>4, <1>5, <1>6, <1>7, <1>8, <1>9, <1>10, <1>11, <1>12, <1>13, <1>14,
     <1>15, <1>16, <1>17, <1>18, <1>19, <1>20
    DEF WaitStep

LEMMA WaitTracks ==
    ASSUME IInv, TrackInv, WaitStep
    PROVE  CurrentOK' /\ CollectedOK'
<1>1. UNCHANGED <<registered, view, val, pc, todo, obj, cpc>>
  BY WaitFrame
<1>2. SUFFICES ASSUME Tracking', NEW q \in registered, q \in ToSet(view)
               PROVE  Claim(q)' /\ (Collects' => Gone(q)' \/ q \in refs' \/ Collected(q)')
  BY <1>1, TracksNext
<1>3. ~(wpc' = "reply" /\ w'.reply.kind = "fault") /\ cpc \in {"start", "waiting"} /\ "pc" \in handlers'
  BY <1>1, <1>2 DEF Tracking
<1>4. wpc # "reply"
  BY DEF WaitStep, Locate, BeginPending, BeginInitial, BeginLoop, Done, Deadline, TickEmpty, Tick,
         FilterGone, FilterUpdate, BatchCollect, BatchLeave, BatchEnd, Collect, CollectObject,
         CollectEnd, ResyncEnd, ApplyObject, ApplyInitial, ApplyBatch
<1>5. CASE "pc" \in handlers
  <2>1. Tracking
    BY <1>3, <1>4, <1>5 DEF Tracking
  <2>2. Claim(q) /\ (Collects => Gone(q) \/ q \in refs \/ Collected(q))
    BY <1>2, <2>1 DEF TrackInv, CurrentOK, CollectedOK
  <2> QED
    BY <1>2, <1>3, <2>1, <2>2, WaitClaims
<1>6. CASE "pc" \notin handlers
  <2>1. BeginInitial
    BY <1>3, <1>6 DEF WaitStep, Locate, BeginPending, BeginLoop, Done, Deadline, TickEmpty, Tick,
         FilterGone, FilterUpdate, BatchCollect, BatchLeave, BatchEnd, Collect, CollectObject,
         CollectEnd, ResyncEnd, ApplyObject, ApplyInitial, ApplyBatch, registry
  <2>2. refs' = {} /\ updates' = <<>> /\ w' = Idle /\ wpc' = "collect"
    BY <1>3, <1>6, <2>1 DEF BeginInitial, TrackInv, FreshOK
  <2>3. Collected(q)'
    BY <2>2, IdleFacts, CollectedNext DEF Collects
  <2>4. Settled(q)'
    BY <1>1, <2>2, <2>3, IdleFacts, SettledNext
  <2> QED
    BY <1>1, <2>2, <2>3, <2>4, IdleFacts, SaysEmpty, ClaimNext
<1> QED
  BY <1>5, <1>6

-----------------------------------------------------------------------------
(* The client takes an answer: what it will know stays the same. *)
LEMMA ReceiveValue ==
    ASSUME IInv, Receive, NEW q \in Objs
    PROVE  Value(q)' = Value(q)
<1> DEFINE s == w.reply.set
           r == Rest
<1>1. s \in Seq(Items) /\ r \in Seq(Items) /\ cache \in [Objs -> Nat \cup {None}]
  BY OutTypes
<1>2. wpc = "reply" /\ wpc' = "none" /\ w' = Idle /\ pending' = pending /\ cache' = Apply(cache, s)
  BY DEF Receive, collector
<1>3. Out = s \o r
  BY <1>2 DEF Out, Collecting, Stream
<1>4. Out' = r
  <2>1. Rest' = r /\ w'.reply.set = <<>>
    BY <1>2, IdleFacts DEF Rest
  <2> HIDE DEF r
  <2> QED
    BY <1>1, <1>2, <2>1, ConcatFacts DEF Out, Collecting, Stream
<1>5. Value(q) = Apply(cache, s \o r)[q] /\ Value(q)' = Apply(Apply(cache, s), r)[q]
  BY <1>2, <1>3, <1>4 DEF Value
<1> HIDE DEF s, r
<1> QED
  BY <1>1, <1>5, ApplyConcat

(* A client that goes on has sent a call, or has taken an answer. *)
LEMMA ClientGoesOn ==
    ASSUME IInv, TrackInv, ClientStep \/ CancelContext, Tracking'
    PROVE  /\ Send \/ Receive
           /\ Tracking /\ UNCHANGED <<registered, view, val, pc, todo, inner, obj, updates, refs, sync>>
           /\ ~Collects /\ ~Collects' /\ w'.batch = w.batch /\ w'.res = <<>> /\ w.res = <<>>
           /\ \A q \in Objs : Value(q)' = Value(q)
<1>1. Send \/ Receive
  <2>1. cpc' \in {"start", "waiting"} /\ "pc" \in handlers'
    BY DEF Tracking
  <2>2. ~CreateFilter
    BY <2>1 DEF CreateFilter, TrackInv, FreshOK
  <2>3. ~CreateView /\ ~ListenView /\ ~Lost /\ ~CancelWaitForUpdates
    BY <2>1 DEF CreateView, ListenView, Lost, CancelWaitForUpdates, client
  <2>4. ~DestroyFilter /\ ~DestroyCollector /\ ~CancelContext
    BY <2>1 DEF DestroyFilter, DestroyCollector, CancelContext
  <2> QED
    BY <2>2, <2>3, <2>4 DEF ClientStep
<1>2. CASE Send
  <2>1. UNCHANGED <<registered, view, val, handlers, pc, todo, inner, obj, updates, refs, sync, pending, w, cache>>
    BY <1>2 DEF Send, registry, mutators
  <2>2. wpc = "none" /\ wpc' = "sent" /\ w = Idle /\ cpc = "start"
    BY <1>2 DEF Send, IInv, PlacesOK
  <2>3. Out' = Out
    BY <2>1, <2>2 DEF Out, Collecting, Stream, Rest
  <2> QED
    BY <1>2, <2>1, <2>2, <2>3, ValueOut, IdleFacts DEF Collects, Tracking
<1>3. CASE Receive
  <2>1. UNCHANGED <<registered, view, val, handlers, pc, todo, inner, obj, updates, refs, sync>>
    BY <1>3 DEF Receive, registry, mutators, collector
  <2>2. wpc = "reply" /\ wpc' = "none" /\ w' = Idle /\ cpc = "waiting"
    BY <1>3 DEF Receive
  <2>3. w.batch = <<>> /\ w.res = <<>>
    BY <2>2 DEF TrackInv, GatheredOK
  <2>4. w.reply.kind # "fault"
    BY <1>3 DEF Receive, Tracking
  <2> QED
    BY <1>3, <2>1, <2>2, <2>3, <2>4, ReceiveValue, IdleFacts DEF Collects, Tracking
<1> QED
  BY <1>1, <1>2, <1>3

LEMMA ClientTracks ==
    ASSUME IInv, TrackInv, ClientStep \/ CancelContext
    PROVE  CurrentOK' /\ CollectedOK'
<1>1. SUFFICES ASSUME Tracking', NEW q \in registered', q \in ToSet(view')
               PROVE  Claim(q)' /\ ~Collects'
  BY TracksNext
<1>2. /\ Tracking /\ UNCHANGED <<registered, view, val, pc, todo, inner, obj, updates, refs, sync>>
      /\ ~Collects /\ ~Collects' /\ w'.batch = w.batch /\ w'.res = <<>>
      /\ \A o \in Objs : Value(o)' = Value(o)
  BY <1>1, ClientGoesOn
<1>3. q \in Objs /\ Claim(q)
  BY <1>1, <1>2 DEF TrackInv, CurrentOK, IInv, Types, RegistryTypes
<1> QED
  BY <1>2, <1>3, CollectedSame, ClaimSame

(* Every step keeps what is claimed of the objects of the filter. *)
LEMMA TracksStep == IInv /\ TrackInv /\ [Next]_vars => CurrentOK' /\ CollectedOK'
<1> SUFFICES ASSUME IInv, TrackInv, [Next]_vars PROVE CurrentOK' /\ CollectedOK'
  OBVIOUS
<1>1. CASE UNCHANGED vars
  <2>1. /\ UNCHANGED <<registered, view, val, handlers, pc, todo, inner, obj, updates, refs, cpc>>
        /\ UNCHANGED <<pending, wpc, w, cache>>
    BY <1>1 DEF vars, registry, mutators, collector, client
  <2>2. \A q : Value(q)' = Value(q) /\ (Gone(q)' <=> Gone(q))
    BY <2>1, ValueSame, ClaimNext
  <2>3. Collects' = Collects /\ (Tracking' <=> Tracking) /\ Gathered' = Gathered
    BY <2>1, GatheredSame DEF Collects, Tracking
  <2>4. More' <=> More
    BY <2>1, <2>3, MoreNext DEF More
  <2>5. \A q : Collected(q)' <=> Collected(q)
    BY <2>1, <2>3, <2>4, CollectedNext DEF Collected
  <2>6. \A q : Claim(q) => Claim(q)'
    BY <2>1, <2>2, <2>5, ClaimSame
  <2> QED
    BY <2>1, <2>2, <2>3, <2>5, <2>6, TracksNext DEF TrackInv, CurrentOK, CollectedOK
<1> QED
  BY <1>1, PutTracks, RemoveTracks, WriteTracks, WaitTracks, ClientTracks DEF Next

-----------------------------------------------------------------------------
(* A removal goes from the goroutine to the queue, to the batch and to the filter. *)
LEMMA RemovingFacts ==
    /\ \A q : Removing(q)' <=> \/ q \in RemObjs /\ pc'[Rem(q)] = "notify" /\ "pc" \in todo'[Rem(q)]
                               \/ q \in Leaving(updates') \/ q \in Leaving(w'.batch)
    /\ \A q : Present(q)' <=> q \in registered' /\ (q \in RemObjs => pc'[Rem(q)] = "start")
  BY DEF Removing, Present

LEMMA RemovedNext ==
    ASSUME \A o \in RemObjs : pc'[Rem(o)] \in {"start", "notify", "removed", "done"},
           Tracking' => \A q \in (refs' \cup Gathered') \ Unlocked : Present(q)' \/ Removing(q)'
    PROVE  RemovedOK'
<1>1. RemovedOK' <=>
        /\ \A o \in RemObjs : pc'[Rem(o)] \in {"start", "notify", "removed", "done"}
        /\ Tracking' => \A q \in (refs' \cup Gathered') \ Unlocked : Present(q)' \/ Removing(q)'
  BY DEF RemovedOK
<1> QED
  BY <1>1

LEMMA LeavingMore ==
    ASSUME updates \in Seq(Queued),
           updates' = updates \/ \E u \in Queued : updates' = Append(updates, u)
    PROVE  Leaving(updates) \subseteq Leaving(updates')
  BY OfAppend

(* Creations and changes remove nothing, ... *)
LEMMA PutKeeps ==
    ASSUME NEW o \in PutObjs, PutStep(o)
    PROVE  registered \subseteq registered'
<1> DEFINE Goal == registered \subseteq registered'
<1>1. PutChild(o) => Goal
  BY DEF PutChild, Goto, Acquire, collector, mutators, client
<1>2. PutBegin(o) => Goal
  BY DEF PutBegin, Goto, Snapshot, collector, mutators, client
<1>3. PutCollector(o) => Goal
  BY DEF PutCollector, Notifies, Queue, registry, collector, mutators, client
<1>4. PutView(o) => Goal
  BY DEF PutView, Goto, Acquire, Notifies, collector, mutators, client
<1>5. PutViewCollector(o) => Goal
  BY DEF PutViewCollector, NotifiesOfView, Queue, registry, collector, mutators, client
<1>6. PutViewFilter(o) => Goal
  BY DEF PutViewFilter, NotifiesOfView, registry, collector, mutators, client
<1>7. PutViewEnd(o) => Goal
  BY DEF PutViewEnd, Goto, Release, collector, mutators, client
<1>8. PutEnd(o) => Goal
  BY DEF PutEnd, Goto, Release, collector, mutators, client
<1> QED
  BY <1>1, <1>2, <1>3, <1>4, <1>5, <1>6, <1>7, <1>8 DEF PutStep

(* ... *)
LEMMA WriteKeeps ==
    ASSUME NEW k \in Writers, WriteStep(k)
    PROVE  /\ registered' = registered
           /\ pc' = pc \/ \E x : pc' = [pc EXCEPT ![Write(k)] = x]
           /\ todo' = todo \/ \E x : todo' = [todo EXCEPT ![Write(k)] = x]
<1> DEFINE Goal == /\ registered' = registered
                   /\ pc' = pc \/ \E x : pc' = [pc EXCEPT ![Write(k)] = x]
                   /\ todo' = todo \/ \E x : todo' = [todo EXCEPT ![Write(k)] = x]
<1>1. WriteLocate(k) => Goal
  BY DEF WriteLocate, Goto, registry, collector, mutators, client
<1>2. WriteUpdate(k) => Goal
  BY DEF WriteUpdate, Goto, Snapshot, Acquire, collector, mutators, client
<1>3. WriteCollector(k) => Goal
  BY DEF WriteCollector, Notifies, Queue, registry, collector, mutators, client
<1>4. WriteEnd(k) => Goal
  BY DEF WriteEnd, Goto, Release, collector, mutators, client
<1> QED
  BY <1>1, <1>2, <1>3, <1>4 DEF WriteStep

LEMMA RemovedKept ==
    ASSUME IInv, RemovedOK, NEW t, \A q : t # Rem(q),
           pc' = pc \/ \E x : pc' = [pc EXCEPT ![t] = x],
           todo' = todo \/ \E x : todo' = [todo EXCEPT ![t] = x],
           registered \subseteq registered', UNCHANGED <<refs, wpc, w, cpc, handlers>>,
           updates' = updates \/ \E u \in Queued : updates' = Append(updates, u)
    PROVE  RemovedOK'
<1>1. \A q \in RemObjs : Rem(q) \in Mutators /\ Rem(q) # t
  BY Names
<1>2. \A q \in RemObjs : pc'[Rem(q)] = pc[Rem(q)] /\ todo'[Rem(q)] = todo[Rem(q)]
  BY <1>1, Elsewhere
<1>3. Leaving(updates) \subseteq Leaving(updates')
  BY OutTypes, LeavingMore
<1>4. Gathered' = Gathered /\ Tracking' = Tracking
  BY GatheredSame DEF Tracking
<1>5. \A q : Present(q) \/ Removing(q) => Present(q)' \/ Removing(q)'
  BY <1>2, <1>3, RemovingFacts DEF Present, Removing
<1>6. \A q \in RemObjs : pc'[Rem(q)] \in {"start", "notify", "removed", "done"}
  BY <1>2 DEF RemovedOK
<1>7. Tracking' => \A q \in (refs' \cup Gathered') \ Unlocked : Present(q)' \/ Removing(q)'
  BY <1>4, <1>5 DEF RemovedOK
<1> QED
  BY <1>6, <1>7, RemovedNext

LEMMA PutRemoved ==
    ASSUME IInv, RemovedOK, NEW o \in PutObjs, PutStep(o)
    PROVE  RemovedOK'
<1>1. UNCHANGED <<refs, wpc, w, cpc, handlers>> /\ registered \subseteq registered'
  BY PutFrame, PutKeeps
<1>2. updates' = updates \/ \E u \in Queued : updates' = Append(updates, u)
  BY PutSays
<1>3. /\ pc' = pc \/ \E x : pc' = [pc EXCEPT ![Put(o)] = x]
      /\ todo' = todo \/ \E x : todo' = [todo EXCEPT ![Put(o)] = x]
  BY PutWrites
<1>4. \A q : Put(o) # Rem(q)
  BY Names
<1> QED
  BY <1>1, <1>2, <1>3, <1>4, RemovedKept

LEMMA WriteRemoved ==
    ASSUME IInv, RemovedOK, NEW k \in Writers, WriteStep(k)
    PROVE  RemovedOK'
<1>1. UNCHANGED <<refs, wpc, w, cpc, handlers>> /\ registered \subseteq registered'
  BY WriteFrame, WriteKeeps
<1>2. updates' = updates \/ \E u \in Queued : updates' = Append(updates, u)
  BY WriteSays
<1>3. /\ pc' = pc \/ \E x : pc' = [pc EXCEPT ![Write(k)] = x]
      /\ todo' = todo \/ \E x : todo' = [todo EXCEPT ![Write(k)] = x]
  BY WriteKeeps
<1>4. \A q : Write(k) # Rem(q)
  BY Names
<1> QED
  BY <1>1, <1>2, <1>3, <1>4, RemovedKept

(* ... a removal that begins while the collector listens gets to it. *)
LEMMA RemoveGoesOn ==
    ASSUME IInv, RemovedOK, NEW o \in RemObjs, RemoveStep(o)
    PROVE  /\ pc'[Rem(o)] \in {"start", "notify", "removed", "done"}
           /\ \A q \in registered : q # o => q \in registered'
           /\ "pc" \in handlers /\ (Present(o) \/ Removing(o)) => Removing(o)'
<1> DEFINE Goal == /\ pc'[Rem(o)] \in {"start", "notify", "removed", "done"}
                   /\ \A q \in registered : q # o => q \in registered'
                   /\ "pc" \in handlers /\ (Present(o) \/ Removing(o)) => Removing(o)'
<1>1. RemoveBegin(o) => Goal
  BY Names
    DEF RemoveBegin, Goto, Snapshot, Acquire, RemovedOK, Present, Removing, IInv, Types,
        MutatorTypes, collector, mutators, client
<1>2. RemoveCollector(o) => Goal
  <2> SUFFICES ASSUME RemoveCollector(o) PROVE Goal
    OBVIOUS
  <2>1. pc' = pc /\ registered' = registered
    BY DEF RemoveCollector, registry
  <2>2. updates \in Seq(Queued)
    BY OutTypes
  <2>3. updates' # updates
    BY <2>2 DEF RemoveCollector, Queue
  <2>4. \E u \in Queued : updates' = Append(updates, u) /\ u.kind = "leave" /\ u.obj = o
    BY <2>3, RemoveSays
  <2>5. o \in Leaving(updates')
    BY <2>2, <2>4, OfAppend
  <2> QED
    BY <2>1, <2>5, RemovingFacts DEF RemovedOK
<1>3. RemoveView(o) => Goal
  BY Names
    DEF RemoveView, Notifies, RemovedOK, Present, Removing, IInv, Types, MutatorTypes,
        collector, mutators, client
<1>4. RemoveEnd(o) => Goal
  BY Names
    DEF RemoveEnd, Goto, Release, RemovedOK, Present, Removing, IInv, Types, MutatorTypes,
        collector, mutators, client
<1>5. RemoveChild(o) => Goal
  BY Names
    DEF RemoveChild, Goto, RemovedOK, Present, Removing, IInv, Types, MutatorTypes,
        collector, mutators, client
<1> QED
  BY <1>1, <1>2, <1>3, <1>4, <1>5 DEF RemoveStep

LEMMA RemoveRemoved ==
    ASSUME IInv, RemovedOK, NEW o \in RemObjs, RemoveStep(o)
    PROVE  RemovedOK'
<1>1. UNCHANGED <<refs, wpc, w, cpc, handlers>>
  BY RemoveFrame
<1>2. updates' = updates \/ \E u \in Queued : updates' = Append(updates, u)
  BY RemoveSays
<1>3. \A q \in RemObjs : q # o => pc'[Rem(q)] = pc[Rem(q)] /\ todo'[Rem(q)] = todo[Rem(q)]
  <2>1. \A q \in RemObjs : q # o => Rem(q) \in Mutators /\ Rem(q) # Rem(o)
    BY Names
  <2>2. /\ pc' = pc \/ \E x : pc' = [pc EXCEPT ![Rem(o)] = x]
        /\ todo' = todo \/ \E x : todo' = [todo EXCEPT ![Rem(o)] = x]
    BY RemoveWrites
  <2> QED
    BY <2>1, <2>2, Elsewhere
<1>4. Leaving(updates) \subseteq Leaving(updates')
  BY <1>2, OutTypes, LeavingMore
<1>5. Gathered' = Gathered /\ Tracking' = Tracking
  BY <1>1, GatheredSame DEF Tracking
<1>6. /\ pc'[Rem(o)] \in {"start", "notify", "removed", "done"}
      /\ \A q \in registered : q # o => q \in registered'
      /\ "pc" \in handlers /\ (Present(o) \/ Removing(o)) => Removing(o)'
  BY RemoveGoesOn
<1>7. \A q : q # o /\ (Present(q) \/ Removing(q)) => Present(q)' \/ Removing(q)'
  BY <1>1, <1>3, <1>4, <1>6, RemovingFacts DEF Present, Removing
<1>8. \A q \in RemObjs : pc'[Rem(q)] \in {"start", "notify", "removed", "done"}
  BY <1>3, <1>6 DEF RemovedOK
<1>9. Tracking' => \A q \in (refs' \cup Gathered') \ Unlocked : Present(q)' \/ Removing(q)'
  <2> SUFFICES ASSUME Tracking, NEW q \in (refs \cup Gathered) \ Unlocked
               PROVE  Present(q)' \/ Removing(q)'
    BY <1>1, <1>5
  <2>1. (Present(q) \/ Removing(q)) /\ "pc" \in handlers
    BY DEF RemovedOK, Tracking
  <2> QED
    BY <1>6, <1>7, <2>1
<1> QED
  BY <1>8, <1>9, RemovedNext

LEMMA LeavingTail ==
    ASSUME NEW S, NEW l \in Seq(S), l # <<>>
    PROVE  \A q \in Leaving(l) : q \in Leaving(Tail(l)) \/ (Head(l).kind = "leave" /\ q = Head(l).obj)
<1> DEFINE m == Tail(l)
<1>1. /\ Head(l) = l[1] /\ \A i \in DOMAIN l : i = 1 \/ (i - 1 \in DOMAIN m /\ m[i - 1] = l[i])
  OBVIOUS
<1> HIDE DEF m
<1>2. /\ \A q : q \in Leaving(l) <=> \E i \in DOMAIN l : l[i].kind = "leave" /\ l[i].obj = q
      /\ \A q : q \in Leaving(m) <=> \E i \in DOMAIN m : m[i].kind = "leave" /\ m[i].obj = q
  BY DEF Leaving
<1>3. ASSUME NEW q \in Leaving(l)
      PROVE  q \in Leaving(m) \/ (Head(l).kind = "leave" /\ q = Head(l).obj)
  <2>1. PICK i \in DOMAIN l : l[i].kind = "leave" /\ l[i].obj = q
    BY <1>2
  <2> QED
    BY <1>1, <1>2, <2>1
<1> QED
  BY <1>3 DEF m

(* The call carries the removals on, until it processes them. *)
LEMMA WaitLeaves ==
    ASSUME IInv, TrackInv, WaitStep, NEW q, q \in Leaving(updates) \/ q \in Leaving(w.batch)
    PROVE  \/ wpc' = "reply" /\ w'.reply.kind = "fault"
           \/ q \in Leaving(updates') \/ q \in Leaving(w'.batch)
           \/ q \notin refs' /\ q \notin Gathered'
<1> DEFINE Goal == \/ wpc' = "reply" /\ w'.reply.kind = "fault"
                   \/ q \in Leaving(updates') \/ q \in Leaving(w'.batch)
                   \/ q \notin refs' /\ q \notin Gathered'
<1>1. Locate => Goal
  <2> SUFFICES ASSUME Locate, ~(wpc' = "reply" /\ w'.reply.kind = "fault") PROVE Goal
    OBVIOUS
  <2>1. ~Answer("fault", <<>>)
    BY AnswerEmpties
  <2>2. updates' = updates /\ w'.batch = w.batch
    BY <2>1 DEF Locate, collector
  <2> QED
    BY <2>2
<1>2. BeginPending => Goal
  <2> SUFFICES ASSUME BeginPending PROVE Goal
    OBVIOUS
  <2>1. updates' = updates /\ w'.batch = w.batch
    BY AnswerEmpties, IdleFacts DEF BeginPending, AnswerPage, IInv, PlacesOK
  <2> QED
    BY <2>1
<1>3. BeginInitial => Goal
  <2> SUFFICES ASSUME BeginInitial PROVE Goal
    OBVIOUS
  <2>1. updates' = updates /\ w'.batch = w.batch
    BY DEF BeginInitial, collector
  <2> QED
    BY <2>1
<1>4. BeginLoop => Goal
  <2> SUFFICES ASSUME BeginLoop PROVE Goal
    OBVIOUS
  <2>1. updates' = updates /\ w'.batch = w.batch
    BY DEF BeginLoop, collector
  <2> QED
    BY <2>1
<1>5. Done => Goal
  <2> SUFFICES ASSUME Done PROVE Goal
    OBVIOUS
  <2>1. updates' = updates /\ w'.batch = w.batch
    BY AnswerEmpties, IdleFacts DEF Done, collector, IInv, PlacesOK
  <2> QED
    BY <2>1
<1>6. Deadline => Goal
  <2> SUFFICES ASSUME Deadline PROVE Goal
    OBVIOUS
  <2>1. updates' = updates /\ w'.batch = w.batch
    BY AnswerEmpties, IdleFacts DEF Deadline, collector, IInv, PlacesOK
  <2> QED
    BY <2>1
<1>7. TickEmpty => Goal
  <2> SUFFICES ASSUME TickEmpty PROVE Goal
    OBVIOUS
  <2>1. updates' = updates /\ w'.batch = w.batch
    BY AnswerEmpties, IdleFacts DEF TickEmpty, collector, IInv, PlacesOK
  <2> QED
    BY <2>1
<1>8. Tick => Goal
  <2> SUFFICES ASSUME Tick PROVE Goal
    OBVIOUS
  <2>1. w'.batch = updates /\ w.batch = <<>>
    BY TickEffect, IdleFacts DEF Tick, IInv, PlacesOK
  <2> QED
    BY <2>1, OfEmpty
<1>9. FilterGone => Goal
  <2> SUFFICES ASSUME FilterGone PROVE Goal
    OBVIOUS
  <2>1. updates' = updates /\ w'.batch = w.batch
    BY DEF FilterGone, collector
  <2> QED
    BY <2>1
<1>10. FilterUpdate => Goal
  <2> SUFFICES ASSUME FilterUpdate PROVE Goal
    OBVIOUS
  <2>1. updates' = updates /\ w'.batch = w.batch
    BY FilterUpdateEffect DEF FilterUpdate, Acquire, collector
  <2> QED
    BY <2>1
<1>11. BatchCollect => Goal
  <2> SUFFICES ASSUME BatchCollect PROVE Goal
    OBVIOUS
  <2>1. updates' = updates /\ w'.batch = w.batch
    BY BatchCollectEffect DEF BatchCollect, collector
  <2> QED
    BY <2>1
<1>12. BatchLeave => Goal
  <2> SUFFICES ASSUME BatchLeave PROVE Goal
    OBVIOUS
  <2>1. /\ updates' = updates /\ w.batch \in Seq(Queued) /\ w.batch # <<>> /\ w'.batch = Tail(w.batch)
        /\ refs' = refs \ {Head(w.batch).obj} /\ w'.res = <<>>
    BY BatchLeaveEffect, OutTypes DEF BatchLeave, IInv, PlacesOK
  <2>2. Gathered' = {}
    BY <2>1, GatheredNone
  <2>3. q \in Leaving(w.batch) => q \in Leaving(w'.batch) \/ q = Head(w.batch).obj
    BY <2>1, LeavingTail
  <2> QED
    BY <2>1, <2>2, <2>3
<1>13. BatchEnd => Goal
  <2> SUFFICES ASSUME BatchEnd PROVE Goal
    OBVIOUS
  <2>1. updates' = updates /\ w'.batch = w.batch
    BY AnswerEmpties, IdleFacts DEF BatchEnd, AnswerPage
  <2> QED
    BY <2>1
<1>14. Collect => Goal
  <2> SUFFICES ASSUME Collect PROVE Goal
    OBVIOUS
  <2>1. updates' = updates /\ w'.batch = w.batch
    BY CollectEffect DEF Collect, collector
  <2> QED
    BY <2>1
<1>15. CollectObject => Goal
  <2> SUFFICES ASSUME CollectObject, ~(wpc' = "reply" /\ w'.reply.kind = "fault") PROVE Goal
    OBVIOUS
  <2>1. ~Answer("fault", <<>>)
    BY AnswerEmpties
  <2>2. updates' = updates /\ w'.batch = w.batch
    BY <2>1, CollectObjectEffect DEF CollectObject, collector
  <2> QED
    BY <2>2
<1>16. CollectEnd => Goal
  <2> SUFFICES ASSUME CollectEnd PROVE Goal
    OBVIOUS
  <2>1. updates' = updates /\ w'.batch = w.batch
    BY DEF CollectEnd, collector
  <2> QED
    BY <2>1
<1>17. ResyncEnd => Goal
  <2> SUFFICES ASSUME ResyncEnd PROVE Goal
    OBVIOUS
  <2>1. updates' = updates /\ w'.batch = w.batch
    BY ResyncEndEffect DEF ResyncEnd, Release, collector
  <2> QED
    BY <2>1
<1>18. ApplyObject => Goal
  <2> SUFFICES ASSUME ApplyObject PROVE Goal
    OBVIOUS
  <2>1. updates' = updates /\ w'.batch = w.batch
    BY ApplyObjectEffect DEF ApplyObject, collector
  <2> QED
    BY <2>1
<1>19. ApplyInitial => Goal
  <2> SUFFICES ASSUME ApplyInitial PROVE Goal
    OBVIOUS
  <2>1. updates' = updates /\ w'.batch = w.batch
    BY AnswerEmpties DEF ApplyInitial, AnswerPage, TrackInv, GatheredOK, Collects
  <2> QED
    BY <2>1
<1>20. ApplyBatch => Goal
  <2> SUFFICES ASSUME ApplyBatch PROVE Goal
    OBVIOUS
  <2>1. /\ updates' = updates /\ w.batch \in Seq(Queued) /\ w.batch # <<>> /\ w'.batch = Tail(w.batch)
    BY ApplyBatchEffect, OutTypes DEF ApplyBatch, collector, Locals
  <2>2. Head(w.batch).kind # "leave"
    BY DEF ApplyBatch, IInv, PlacesOK
  <2>3. q \in Leaving(w.batch) => q \in Leaving(w'.batch)
    BY <2>1, <2>2, LeavingTail
  <2> QED
    BY <2>1, <2>3
<1> QED
  BY <1>1, <1>2, <1>3, <1>4, <1>5, <1>6, <1>7, <1>8, <1>9, <1>10, <1>11, <1>12, <1>13, <1>14,
     <1>15, <1>16, <1>17, <1>18, <1>19, <1>20
    DEF WaitStep

LEMMA WaitRemoved ==
    ASSUME IInv, TrackInv, WaitStep
    PROVE  RemovedOK'
<1>1. UNCHANGED <<registered, view, val, pc, todo, obj, cpc>>
  BY WaitFrame
<1>2. RemovedOK
  BY DEF TrackInv
<1>3. SUFFICES ASSUME Tracking', NEW q \in (refs' \cup Gathered') \ Unlocked
               PROVE  Present(q)' \/ Removing(q)'
  BY <1>1, <1>2, RemovedNext DEF RemovedOK
<1>4. ~(wpc' = "reply" /\ w'.reply.kind = "fault") /\ cpc \in {"start", "waiting"} /\ "pc" \in handlers'
  BY <1>1, <1>3 DEF Tracking
<1>5. CASE q \in registered /\ lock[q] = None
  <2>1. q \in RemObjs => pc[Rem(q)] = "start"
    BY <1>2, <1>5, Names DEF RemovedOK, IInv, LocksOK, RegisteredOK
  <2> QED
    BY <1>1, <1>5, <2>1, RemovingFacts
<1>6. CASE ~(q \in registered /\ lock[q] = None)
  <2>1. q \in refs \cup Gathered
    BY <1>3, <1>6, WaitGathers
  <2>2. wpc # "reply"
    BY DEF WaitStep, Locate, BeginPending, BeginInitial, BeginLoop, Done, Deadline, TickEmpty, Tick,
           FilterGone, FilterUpdate, BatchCollect, BatchLeave, BatchEnd, Collect, CollectObject,
           CollectEnd, ResyncEnd, ApplyObject, ApplyInitial, ApplyBatch
  <2>3. "pc" \in handlers
    <3>1. "pc" \notin handlers => refs = {} /\ w.res = <<>>
      BY <1>4, IdleFacts DEF TrackInv, FreshOK
    <3>2. "pc" \notin handlers => Gathered = {}
      BY <3>1 DEF Gathered
    <3> QED
      BY <2>1, <3>1, <3>2
  <2>4. Present(q) \/ Removing(q)
    BY <1>2, <1>4, <2>1, <2>2, <2>3 DEF RemovedOK, Tracking
  <2>5. CASE q \in Leaving(updates) \/ q \in Leaving(w.batch)
    BY <1>3, <1>4, <2>5, WaitLeaves, RemovingFacts
  <2>6. CASE ~(q \in Leaving(updates) \/ q \in Leaving(w.batch))
    BY <1>1, <2>4, <2>6, RemovingFacts DEF Present, Removing
  <2> QED
    BY <2>5, <2>6
<1> QED
  BY <1>5, <1>6

LEMMA ClientRemoved ==
    ASSUME IInv, TrackInv, ClientStep \/ CancelContext
    PROVE  RemovedOK'
<1>1. UNCHANGED <<pc, todo>>
  BY ClientFrame DEF CancelContext, mutators
<1>2. RemovedOK
  BY DEF TrackInv
<1>3. SUFFICES ASSUME Tracking', NEW q \in (refs' \cup Gathered') \ Unlocked
               PROVE  Present(q)' \/ Removing(q)'
  BY <1>1, <1>2, RemovedNext DEF RemovedOK
<1>4. /\ Tracking /\ UNCHANGED <<registered, updates, refs>>
      /\ w'.batch = w.batch /\ w'.res = <<>>
  BY <1>3, ClientGoesOn
<1>5. Gathered' = {}
  BY <1>4, GatheredNone
<1>6. Present(q) \/ Removing(q)
  BY <1>2, <1>3, <1>4, <1>5 DEF RemovedOK
<1> QED
  BY <1>1, <1>4, <1>6, RemovingFacts DEF Present, Removing

(* Every step keeps that removals are on their way. *)
LEMMA RemovedStep == IInv /\ TrackInv /\ [Next]_vars => RemovedOK'
<1> SUFFICES ASSUME IInv, TrackInv, [Next]_vars PROVE RemovedOK'
  OBVIOUS
<1>1. RemovedOK
  BY DEF TrackInv
<1>2. CASE UNCHANGED vars
  <2>1. UNCHANGED <<registered, refs, wpc, w, cpc, handlers, updates, pc, todo>>
    BY <1>2 DEF vars, registry, mutators, collector, client
  <2>2. Gathered' = Gathered /\ Tracking' = Tracking
    BY <2>1, GatheredSame DEF Tracking
  <2> QED
    BY <1>1, <2>1, <2>2, RemovingFacts, RemovedNext DEF RemovedOK, Present, Removing
<1> QED
  BY <1>1, <1>2, PutRemoved, RemoveRemoved, WriteRemoved, WaitRemoved, ClientRemoved DEF Next

-----------------------------------------------------------------------------
(* Without creations the filter has all that the client knows of: a change *)
(* is reported of an object it has, and it lets go of one only to report   *)
(* its removal.                                                            *)
LEMMA KnownNext ==
    ASSUME ~sync', Tracking' => \A q \in Objs : Value(q)' # None => q \in refs'
    PROVE  KnownOK'
<1>1. KnownOK' <=> (PutObjs = {} =>
                      /\ ~sync' /\ Tracking' => \A q \in Objs : Value(q)' # None => q \in refs')
  BY DEF KnownOK
<1> QED
  BY <1>1

LEMMA KnownSame ==
    ASSUME PutObjs = {}, KnownOK, UNCHANGED <<sync, refs, pending, wpc, w, cache, cpc, handlers>>
    PROVE  KnownOK'
<1>1. Tracking' = Tracking /\ \A q : Value(q)' = Value(q)
  BY ValueSame DEF Tracking
<1> QED
  BY <1>1, KnownNext DEF KnownOK

LEMMA KnownWait ==
    ASSUME PutObjs = {}, IInv, TrackInv, WaitStep
    PROVE  KnownOK'
<1>1. ~sync /\ (Tracking => \A q \in Objs : Value(q) # None => q \in refs)
  BY DEF TrackInv, KnownOK
<1>2. UNCHANGED <<cpc, cache, destroyed>>
  BY WaitFrame
<1>3. ~sync' /\ wpc # "reply" /\ (refs' = refs \/ BatchLeave \/ ApplyObject)
  <2>1. CASE FilterUpdate
    BY <1>1, <2>1 DEF FilterUpdate
  <2>2. CASE Locate
    BY <1>1, <2>2 DEF Locate, collector
  <2>3. CASE BeginPending
    <3>1. wpc = "located" /\ refs' = refs /\ (sync' <=> sync)
      BY <2>3 DEF BeginPending
    <3> QED
      BY <1>1, <3>1
  <2>4. CASE BeginInitial
    <3>1. wpc = "located" /\ refs' = refs /\ (sync' <=> sync)
      BY <2>4 DEF BeginInitial
    <3> QED
      BY <1>1, <3>1
  <2>5. CASE BeginLoop
    <3>1. wpc = "located" /\ refs' = refs /\ (sync' <=> sync)
      BY <2>5 DEF BeginLoop
    <3> QED
      BY <1>1, <3>1
  <2>6. CASE Done \/ Deadline \/ TickEmpty
    BY <1>1, <2>6 DEF Done, Deadline, TickEmpty, collector
  <2>7. CASE Tick
    BY <1>1, <2>7 DEF Tick
  <2>8. CASE FilterGone \/ BatchCollect \/ BatchLeave \/ BatchEnd \/ Collect \/ CollectObject
    BY <1>1, <2>8
      DEF FilterGone, BatchCollect, BatchLeave, BatchEnd, Collect, CollectObject, collector
  <2>9. CASE CollectEnd \/ ResyncEnd \/ ApplyObject \/ ApplyInitial \/ ApplyBatch
    BY <1>1, <2>9 DEF CollectEnd, ResyncEnd, ApplyObject, ApplyInitial, ApplyBatch, collector
  <2> QED
    BY <2>1, <2>2, <2>3, <2>4, <2>5, <2>6, <2>7, <2>8, <2>9 DEF WaitStep
<1>4. SUFFICES ASSUME Tracking', NEW q \in Objs, Value(q)' # None PROVE q \in refs'
  BY <1>3, KnownNext
<1>5. ~(wpc' = "reply" /\ w'.reply.kind = "fault") /\ cpc \in {"start", "waiting"} /\ "pc" \in handlers'
  BY <1>2, <1>4 DEF Tracking
<1>6. CASE "pc" \notin handlers
  <2>1. BeginInitial
    BY <1>5, <1>6 DEF WaitStep, Locate, BeginPending, BeginLoop, Done, Deadline, TickEmpty, Tick,
         FilterGone, FilterUpdate, BatchCollect, BatchLeave, BatchEnd, Collect, CollectObject,
         CollectEnd, ResyncEnd, ApplyObject, ApplyInitial, ApplyBatch, registry
  <2>2. w' = Idle /\ wpc' = "collect" /\ cache[q] = None
    BY <1>5, <1>6, <2>1 DEF BeginInitial, TrackInv, FreshOK
  <2>3. Out' = <<>>
    BY <2>2, IdleFacts, OutEmpty DEF Collecting
  <2>4. Value(q)' = Apply(cache, <<>>)[q]
    BY <1>2, <2>3 DEF Value
  <2>5. Value(q)' = cache[q]
    BY <2>4, OutTypes, ApplyEmpty
  <2> QED
    BY <1>4, <2>2, <2>5
<1>7. CASE "pc" \in handlers
  <2>1. Value(q) # None => q \in refs
    BY <1>1, <1>3, <1>5, <1>7 DEF Tracking
  <2>2. ~FilterGone
    BY <1>5 DEF FilterGone, TrackInv, FreshOK
  <2>3. CASE ~BatchLeave /\ ~ApplyObject /\ ~ApplyBatch
    <3>1. Value(q)' = Value(q)
      BY <1>5, <2>2, <2>3, WaitValue DEF TrackInv
    <3> QED
      BY <1>3, <1>4, <2>1, <2>3, <3>1
  <2>4. /\ w.set \in Seq(Items) /\ w.fu \in Seq(Items) /\ cache \in [Objs -> Nat \cup {None}]
    BY OutTypes
  <2>5. ASSUME Collecting, Collecting'
        PROVE  Value(q) = Apply(cache, w.set \o w.fu)[q] /\ Value(q)' = Apply(cache, w'.set \o w'.fu)[q]
    BY <1>2, <2>5 DEF Value, Out
  <2>6. CASE BatchLeave
    <3> DEFINE u == Head(w.batch)
    <3>1. /\ Collecting /\ Collecting' /\ refs' = refs \ {u.obj} /\ w'.set = w.set /\ u.kind = "leave"
          /\ \/ u.obj \notin refs /\ w'.fu = w.fu
             \/ u.obj \in refs /\ w'.fu = Append(w.fu, u) /\ u \in Items
      BY <2>6, BatchLeaveEffect DEF BatchLeave, Collecting
    <3> HIDE DEF u
    <3>2. CASE w'.fu = w.fu /\ u.obj \notin refs
      BY <1>4, <2>1, <2>5, <3>1, <3>2
    <3>3. CASE w'.fu = Append(w.fu, u) /\ u \in Items
      <4>1. Apply(cache, w.set \o Append(w.fu, u))[q] =
              IF u.obj # q THEN Apply(cache, w.set \o w.fu)[q]
              ELSE IF u.kind = "leave" THEN None ELSE u.val
        BY <2>4, <3>3, ApplyFu
      <4> QED
        BY <1>4, <2>1, <2>5, <3>1, <3>3, <4>1
    <3> QED
      BY <3>1, <3>2, <3>3
  <2>7. CASE ApplyObject
    <3> DEFINE u == Head(w.res)
    <3>1. /\ Collecting /\ Collecting' /\ refs' = refs \cup {u.obj} /\ w'.fu = w.fu /\ u \in Items
          /\ w'.set = w.set \/ w'.set = Append(w.set, u)
      BY <2>7, ApplyObjectEffect DEF ApplyObject, Collecting
    <3> HIDE DEF u
    <3>2. CASE u.obj = q
      BY <3>1, <3>2
    <3>3. CASE u.obj # q
      <4>1. Apply(cache, Append(w.set, u) \o w.fu)[q] = Apply(cache, w.set \o w.fu)[q]
        <5> DEFINE s == w.set
                   f == w.fu
        <5>1. s \in Seq(Items) /\ f \in Seq(Items) /\ u \in Items
          BY <2>4, <3>1
        <5> HIDE DEF s, f
        <5>2. Apply(cache, Append(s, u) \o f)[q] = Apply(cache, s \o f)[q]
          BY <2>4, <3>3, <5>1, ApplyInsert
        <5> QED
          BY <5>2 DEF s, f
      <4> QED
        BY <1>4, <2>1, <2>5, <3>1, <4>1
    <3> QED
      BY <3>2, <3>3
  <2>8. CASE ApplyBatch
    <3> DEFINE u == Head(w.batch)
    <3>1. /\ w \in Locals /\ w' = [w EXCEPT !.fu = w'.fu, !.batch = Tail(w.batch)] /\ refs' = refs
          /\ w'.fu = w.fu \/ (u \in Items /\ u.obj \in refs /\ w'.fu = Append(w.fu, u))
      BY <2>8, ApplyBatchEffect, OutTypes DEF ApplyBatch, collector
    <3>2. Collecting /\ Collecting' /\ w'.set = w.set
      BY <2>8, <3>1 DEF ApplyBatch, Collecting, Locals
    <3> HIDE DEF u
    <3>3. CASE w'.fu = w.fu
      BY <1>4, <2>1, <2>5, <3>1, <3>2, <3>3
    <3>4. CASE u \in Items /\ u.obj \in refs /\ w'.fu = Append(w.fu, u)
      <4>1. u.obj # q => Apply(cache, w.set \o Append(w.fu, u))[q] = Apply(cache, w.set \o w.fu)[q]
        BY <2>4, <3>4, ApplyFu
      <4> QED
        BY <1>4, <2>1, <2>5, <3>1, <3>2, <3>4, <4>1
    <3> QED
      BY <3>1, <3>3, <3>4
  <2> QED
    BY <2>3, <2>6, <2>7, <2>8
<1> QED
  BY <1>6, <1>7

LEMMA KnownClient ==
    ASSUME PutObjs = {}, IInv, TrackInv, ClientStep \/ CancelContext
    PROVE  KnownOK'
<1>1. ~sync /\ (Tracking => \A q \in Objs : Value(q) # None => q \in refs)
  BY DEF TrackInv, KnownOK
<1>2. sync' = sync
  BY ClientFrame DEF CancelContext, collector
<1>3. Tracking' => Tracking /\ refs' = refs /\ \A q \in Objs : Value(q)' = Value(q)
  BY ClientGoesOn
<1> QED
  BY <1>1, <1>2, <1>3, KnownNext

LEMMA KnownStep == IInv /\ TrackInv /\ [Next]_vars => KnownOK'
<1> SUFFICES ASSUME IInv, TrackInv, [Next]_vars, PutObjs = {} PROVE KnownOK'
  BY DEF KnownOK
<1>1. KnownOK
  BY DEF TrackInv
<1>2. ASSUME NEW o \in RemObjs, RemoveStep(o) PROVE KnownOK'
  <2>1. sync' = sync
    BY <1>2 DEF RemoveStep, RemoveBegin, RemoveCollector, RemoveView, RemoveEnd, RemoveChild, Queue,
                collector
  <2> QED
    BY <1>1, <1>2, <2>1, RemoveFrame, KnownSame
<1>3. ASSUME NEW k \in Writers, WriteStep(k) PROVE KnownOK'
  <2>1. sync' = sync
    BY <1>3 DEF WriteStep, WriteLocate, WriteUpdate, WriteCollector, WriteEnd, Queue, collector
  <2> QED
    BY <1>1, <1>3, <2>1, WriteFrame, KnownSame
<1>4. CASE UNCHANGED vars
  BY <1>1, <1>4, KnownSame DEF vars, registry, collector, client
<1> QED
  BY <1>2, <1>3, <1>4, KnownWait, KnownClient DEF Next

-----------------------------------------------------------------------------
LEMMA TrackInit == Init => TrackInv
<1> SUFFICES ASSUME Init PROVE TrackInv
  OBVIOUS
<1>1. /\ handlers = {} /\ refs = {} /\ updates = <<>> /\ pending = None /\ w = Idle /\ wpc = "none"
      /\ cache = [o \in Objs |-> None] /\ version = "" /\ destroyed = {} /\ sync = FALSE
      /\ cpc \in {"filter", "view"}
  BY DEF Init
<1>2. \A t \in Mutators : pc[t] = "start" /\ todo[t] = {} /\ inner[t] = {}
  BY DEF Init
<1>3. Gathered = {} /\ w.objs = <<>> /\ w.res = <<>> /\ w.fu = <<>> /\ w.batch = <<>> /\ w.set = <<>>
  <2>1. w.objs = <<>> /\ w.res = <<>> /\ w.fu = <<>> /\ w.batch = <<>> /\ w.set = <<>>
    BY <1>1, IdleFacts, IdleEmpty
  <2> QED
    BY <2>1 DEF Gathered
<1>4. ~Tracking /\ ~Collects /\ ~Collecting
  BY <1>1 DEF Tracking, Collects, Collecting
<1>5. FreshOK
  BY <1>1, <1>2, <1>4 DEF FreshOK
<1>6. UnknownOK
  <2>1. \A k \in Writers, o \in Objs : obj[k] # o
    BY NamesAssumption DEF Init
  <2> QED
    BY <1>1, <1>3, <2>1, Names DEF UnknownOK
<1>7. UnseenOK
  BY <1>1, <1>3, SaysEmpty DEF UnseenOK
<1>8. UnsaidOK
  BY <1>1, <1>3, SaysEmpty DEF UnsaidOK
<1>9. GatheredOK /\ ReportedOK
  <2>1. GatheredOK
    BY <1>1, <1>3, <1>4 DEF GatheredOK
  <2>2. ReportedOK
    BY <1>3 DEF ReportedOK
  <2> QED
    BY <2>1, <2>2
<1>10. CurrentOK /\ CollectedOK
  BY <1>4 DEF CurrentOK, CollectedOK
<1>11. RemovedOK
  BY <1>2, <1>4, Names DEF RemovedOK
<1>12. KnownOK
  BY <1>1, <1>4 DEF KnownOK
<1> QED
  BY <1>5, <1>6, <1>7, <1>8, <1>9, <1>10, <1>11, <1>12 DEF TrackInv

(* Every change of an object that is registered and in the view is on its way to   *)
(* the client, in one piece: with the method that has made it, in the queue, in    *)
(* the batch, in a collection, among the updates of the answer, or there already.  *)
THEOREM Tracks == Spec => [](IInv /\ TrackInv)
<1>1. Init => TrackInv
  BY TrackInit
<1>2. IInv /\ TrackInv /\ [Next]_vars => TrackInv'
  <2> SUFFICES ASSUME IInv, TrackInv, [Next]_vars PROVE TrackInv'
    OBVIOUS
  <2>1. FreshOK /\ UnknownOK /\ UnseenOK /\ UnsaidOK /\ GatheredOK /\ ReportedOK
    BY DEF TrackInv
  <2>2. FreshOK' /\ UnknownOK' /\ UnseenOK' /\ UnsaidOK' /\ GatheredOK' /\ ReportedOK'
    BY <2>1, FreshStep, UnknownStep, UnseenStep, UnsaidStep, GatheredStep, ReportedStep
  <2>3. CurrentOK' /\ CollectedOK' /\ RemovedOK' /\ KnownOK'
    BY TracksStep, RemovedStep, KnownStep
  <2> QED
    BY <2>2, <2>3 DEF TrackInv
<1> QED
  BY <1>1, <1>2, Invariance, PTL DEF Spec

(* When all is quiet nothing is on its way any more. *)
LEMMA QuietFacts ==
    ASSUME IInv, TrackInv, Quiet
    PROVE  /\ Tracking /\ w = Idle /\ ~Collects /\ ~More /\ updates = <<>>
           /\ \A q \in Objs : Value(q) = cache[q]
<1>1. cpc = "waiting" /\ wpc = "select" /\ updates = <<>> /\ w = Idle
  BY DEF Quiet, IInv, PlacesOK
<1>2. Tracking /\ ~Collects
  BY <1>1 DEF TrackInv, FreshOK, Tracking, Collecting, Collects
<1>3. \A p \in PutObjs : ~Creating(Put(p))
  BY Names DEF Quiet, Creating
<1>4. ~More
  BY <1>1, <1>2, <1>3, IdleFacts, SaysEmpty DEF More
<1>5. ASSUME NEW q \in Objs PROVE Value(q) = cache[q]
  <2>1. Out = <<>>
    BY <1>1, IdleFacts, OutEmpty DEF Collecting
  <2> QED
    BY <2>1, OutTypes, ApplyEmpty DEF Value
<1> QED
  BY <1>1, <1>2, <1>4, <1>5

LEMMA CurrentHolds == IInv /\ TrackInv => Current
<1> SUFFICES ASSUME IInv, TrackInv, Quiet, NEW o \in registered \cap ToSet(view)
             PROVE  cache[o] = val[o]
  BY DEF Current
<1>1. o \in Objs
  BY DEF IInv, Types, RegistryTypes
<1>2. Claim(o)
  BY QuietFacts DEF TrackInv, CurrentOK
<1>3. ~Gone(o)
  BY Names DEF Quiet, Gone, IInv, RegisteredOK
<1>4. ~Writing(o)
  BY Names DEF Quiet, Writing
<1>5. ~Ends(updates, o, val[o]) /\ ~Ends(w.batch, o, val[o])
  BY QuietFacts, IdleFacts, SaysEmpty
<1>6. Settled(o)
  BY <1>2, <1>3, <1>4, <1>5 DEF Claim
<1>7. Value(o) = val[o]
  BY <1>6, QuietFacts DEF Settled, Collected
<1> QED
  BY <1>1, <1>7, QuietFacts

(* Whenever the client waits, the call has nothing to send and nobody is changing *)
(* objects, the client has the current value of every object of the filter:       *)
(* WaitForUpdatesEx listens before it collects, collects under the objects' locks *)
(* and collects again for every update whose object the filter does not have yet. *)
THEOREM ClientIsCurrent == Spec => []Current
  BY Tracks, CurrentHolds, PTL

(* With removals but no creations the client moreover ends without the objects    *)
(* that were removed under their lock: nobody who collects such an object finds   *)
(* it registered once its removal is queued, so that the removal reaches the      *)
(* filter after its object has entered.                                           *)
THEOREM ClientFollowsRemovals == ASSUME PutObjs = {} PROVE Spec => []FollowsRemovals
<1>1. IInv /\ TrackInv => FollowsRemovals
  <2> SUFFICES ASSUME IInv, TrackInv PROVE FollowsRemovals
    OBVIOUS
  <2>1. Current
    BY CurrentHolds
  <2>2. ASSUME Quiet, NEW o \in Objs \ (registered \cup Unlocked), cache[o] # None PROVE FALSE
    <3>1. o \in refs
      BY <2>2, QuietFacts DEF TrackInv, KnownOK
    <3>2. Removing(o)
      BY <2>2, <3>1, QuietFacts DEF TrackInv, RemovedOK, Present
    <3>3. Leaving(updates) = {} /\ Leaving(w.batch) = {}
      BY <2>2, QuietFacts, IdleFacts, OfEmpty
    <3> QED
      BY <2>2, <3>2, <3>3, Names DEF Removing, Quiet
  <2> QED
    BY <2>1, <2>2 DEF FollowsRemovals, Accounted
<1> QED
  BY <1>1, Tracks, PTL
=============================================================================
