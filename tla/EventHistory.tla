---------------------------- MODULE EventHistory ----------------------------
(***************************************************************************)
(* Event history collectors of the simulator and a client that tails one.  *)
(*                                                                         *)
(* PostEvent holds the lock of the EventManager while it adds the event to *)
(* the history and to the page of one collector after the other, each      *)
(* under its own lock. The methods of a collector hold only that lock: a   *)
(* collector is refilled from the history, or destroyed, in the middle of  *)
(* a PostEvent. TaskManager keeps its tasks in the same way.               *)
(*                                                                         *)
(* The client is event.Manager.Events with tail set: it follows latestPage *)
(* by property.Wait. PropertyCollector is the detailed model of that; here *)
(* it is the queue of the values latestPage has had since it listens.      *)
(*                                                                         *)
(* An event is its key, and matching is a set of keys for each collector.  *)
(* A page is a container/list: pos points at an element, which may have    *)
(* been pruned or be in a list that SetCollectorPageSize has replaced.     *)
(***************************************************************************)
EXTENDS Integers, Sequences, FiniteSets, SequencesExt

CONSTANTS
    Collectors,     \* collectors that get created, once each
    Followed,       \* the one the client tails
    Filter,         \* the events that match the filter of each collector
    MaxKey,         \* bound: the events posted
    MaxPage,        \* maxPageSize
    Limits,         \* what EventManager.MaxCollector may be
    Sizes,          \* page sizes clients ask for
    Reads           \* how many events they read at a time

Keys == 1 .. MaxKey

ASSUME EventHistoryAssumption ==
    /\ {MaxKey, MaxPage} \cup Limits \subseteq Nat
    /\ Sizes \subseteq 1 .. MaxPage /\ Reads \subseteq Nat \ {0}
    /\ Followed \in Collectors /\ Filter \in [Collectors -> SUBSET Keys]

VARIABLES
    MaxCollector, \* EventManager.MaxCollector
    key,         \* EventManager.key
    history,     \* history.page
    collectors,  \* history.collectors
    post,        \* the PostEvent in progress: its step and the collectors to come
    crashed,     \* a map was iterated over and written at once
    state,       \* of a collector: "new", "live", "orphan" (its session ended), "gone"
    page, size,  \* HistoryCollector.page and size
    pos,         \* HistoryCollector.pos
    torn,        \* collectors filled while the history was being pruned
    queue,       \* the values of latestPage the client has not processed
    tpc,         \* place of the client
    lastKey,     \* eventTailer.lastKey
    reported,    \* the events it has passed on
    listened     \* EventManager.key when it began to listen

manager == <<MaxCollector, key, history, collectors, post, crashed>>
collector == <<state, page, size, pos, torn>>
client == <<queue, tpc, lastKey, reported, listened>>
vars == <<manager, collector, client>>

Idle == [step |-> "idle", todo |-> {}]
At(where, i, list) == [on |-> where, i |-> i, list |-> list]
NoPos == At("nil", 0, <<>>)
Pruned == At("pruned", 0, <<>>)
invalidKey == -1

Init ==
    /\ MaxCollector \in Limits
    /\ key = 0 /\ history = <<>> /\ collectors = {} /\ post = Idle /\ crashed = FALSE
    /\ state = [c \in Collectors |-> "new"]
    /\ page = [c \in Collectors |-> <<>>] /\ size = [c \in Collectors |-> MaxPage]
    /\ pos = [c \in Collectors |-> NoPos] /\ torn = {}
    /\ queue = <<>> /\ tpc = "create" /\ lastKey = invalidKey
    /\ reported = {} /\ listened = MaxKey

-----------------------------------------------------------------------------
(* Faulty variants. *)

(* The newest element is pruned. *)
PruneNewest(l, e) == Append(IF Len(l) > MaxPage THEN Front(l) ELSE l, e)

(* Of a page without the last event seen nothing is new. *)
NothingNew(evs) ==
    IF lastKey = invalidKey THEN evs
    ELSE SubSeq(evs, 1, SelectInSeq(evs, LAMBDA e : e = lastKey) - 1)

(* The position moves on from the last element read where there is a next one. *)
ReadPast(c, items, by) ==
    /\ state[c] = "live"
    /\ LET from == IF pos[c].on # "nil" THEN pos[c].i ELSE IF by = 1 THEN 0 ELSE Len(page[c]) + 1
           list == IF pos[c].on = "old" THEN pos[c].list ELSE page[c]
           to == from + by * (Len(items) + 1)
           i == IF to \in DOMAIN list THEN to ELSE from + by * Len(items)
       IN pos' = IF items = <<>> THEN pos
                 ELSE [pos EXCEPT ![c] = IF @.on = "nil" THEN At("page", i, <<>>) ELSE [@ EXCEPT !.i = i]]
    /\ UNCHANGED <<manager, state, page, size, torn, client>>

(* The oldest of the new events is taken for the last one seen. *)
ProcessOldest(evs) ==
    LET new == SubSeq(evs, 1, IF lastKey \in ToSet(evs) THEN SelectInSeq(evs, LAMBDA e : e = lastKey) - 1
                              ELSE Len(evs))
    IN /\ reported' = reported \cup ToSet(new)
       /\ lastKey' = IF new = <<>> THEN lastKey ELSE Last(new)

-----------------------------------------------------------------------------
pushHistory(l, e) == Append(IF Len(l) > MaxPage THEN Tail(l) ELSE l, e)

(* fillPage: the elements of l that match, one after the other. *)
Fill(c, l) ==
    LET filled[n \in 0 .. Len(l)] ==
            IF n = 0 THEN <<>>
            ELSE IF l[n] \in Filter[c] THEN Append(filled[n - 1], l[n]) ELSE filled[n - 1]
    IN filled[Len(l)]

(* The history is being pruned. *)
Pruning == post.step = "push" /\ Len(history) > MaxPage

(* What fillPage can see: it does not hold the lock of the manager, and the *)
(* iteration ends early at an element that is pruned under it.              *)
Seen ==
    IF post.step # "push" THEN {history}
    ELSE {history, Append(history, key), pushHistory(history, key)}
         \cup IF Pruning THEN {<<Head(history)>>} ELSE {}

GetLatestPage(l, n) == Reverse(SubSeq(l, IF Len(l) > n THEN Len(l) - n + 1 ELSE 1, Len(l)))

(* Where a position is when the oldest element is pruned. *)
Shift(p) ==
    IF p.on # "page" THEN p ELSE IF p.i = 1 THEN Pruned ELSE At("page", p.i - 1, <<>>)

-----------------------------------------------------------------------------
(* PostEvent: the key, the history, the collectors in any order. *)
PostBegin ==
    /\ post = Idle /\ key < MaxKey
    /\ key' = key + 1
    /\ post' = [step |-> "push", todo |-> {}]
    /\ UNCHANGED <<MaxCollector, history, collectors, crashed, collector, client>>

PostPush ==
    /\ post.step = "push"
    /\ history' = pushHistory(history, key)
    /\ post' = [step |-> "notify", todo |-> collectors]
    /\ UNCHANGED <<MaxCollector, key, collectors, crashed, collector, client>>

Listening == tpc \in {"collect", "tail"}

PostNotify(c) ==
    /\ c \in post.todo
    /\ post' = [post EXCEPT !.todo = @ \ {c}]
    /\ IF key \in Filter[c]
       THEN /\ page' = [page EXCEPT ![c] = pushHistory(@, key)]
            /\ pos' = [pos EXCEPT ![c] = IF Len(page[c]) > MaxPage THEN Shift(@) ELSE @]
            /\ queue' = IF c = Followed /\ Listening
                        THEN Append(queue, GetLatestPage(page'[c], size[c])) ELSE queue
       ELSE UNCHANGED <<page, pos, queue>>
    /\ UNCHANGED <<MaxCollector, key, history, collectors, crashed, state, size, torn,
                   tpc, lastKey, reported, listened>>

PostEnd ==
    /\ post.step = "notify" /\ post.todo = {}
    /\ post' = Idle
    /\ UNCHANGED <<MaxCollector, key, history, collectors, crashed, collector, client>>

-----------------------------------------------------------------------------
FreeSlot == Cardinality(collectors) < MaxCollector

(* CreateCollectorForEvents, with the lock of the manager. *)
Create(c) ==
    /\ post = Idle /\ state[c] = "new" /\ FreeSlot
    /\ state' = [state EXCEPT ![c] = "live"]
    /\ page' = [page EXCEPT ![c] = Fill(c, history)]
    /\ collectors' = collectors \cup {c}
    /\ UNCHANGED <<MaxCollector, key, history, post, crashed, size, pos, torn>>

CreateCollectorForEvents(c) == Create(c) /\ UNCHANGED client

(* SetCollectorPageSize: pos stays where it is, in the list that is replaced. *)
SetPageSize(c, n) ==
    /\ state[c] = "live"
    /\ size' = [size EXCEPT ![c] = n]
    /\ \E l \in Seen : page' = [page EXCEPT ![c] = Fill(c, l)]
    /\ pos' = [pos EXCEPT ![c] = IF @.on = "page" THEN At("old", @.i, page[c]) ELSE @]
    /\ torn' = IF Pruning THEN torn \cup {c} ELSE torn
    /\ UNCHANGED <<manager, state>>

SetCollectorPageSize(c, n) == SetPageSize(c, n) /\ UNCHANGED client

ResetCollector(c) ==
    /\ state[c] = "live"
    /\ pos' = [pos EXCEPT ![c] = IF page[c] = <<>> THEN NoPos ELSE At("page", Len(page[c]), <<>>)]
    /\ UNCHANGED <<manager, state, page, size, torn, client>>

RewindCollector(c) ==
    /\ state[c] = "live"
    /\ pos' = [pos EXCEPT ![c] = IF page[c] = <<>> THEN NoPos ELSE At("page", 1, <<>>)]
    /\ UNCHANGED <<manager, state, page, size, torn, client>>

(* The elements after pos, or all, and the ones before it, the last first. *)
After(c) ==
    CASE pos[c].on = "nil" -> page[c]
      [] pos[c].on = "page" -> SubSeq(page[c], pos[c].i + 1, Len(page[c]))
      [] pos[c].on = "old" -> SubSeq(pos[c].list, pos[c].i + 1, Len(pos[c].list))
      [] pos[c].on = "pruned" -> <<>>
Before(c) ==
    CASE pos[c].on = "nil" -> Reverse(page[c])
      [] pos[c].on = "page" -> Reverse(SubSeq(page[c], 1, pos[c].i - 1))
      [] pos[c].on = "old" -> Reverse(SubSeq(pos[c].list, 1, pos[c].i - 1))
      [] pos[c].on = "pruned" -> <<>>
First(l, n) == SubSeq(l, 1, IF n < Len(l) THEN n ELSE Len(l))

(* read: pos moves to the last element taken. *)
Read(c, items, by) ==
    /\ state[c] = "live"
    /\ pos' = IF items = <<>> THEN pos
              ELSE [pos EXCEPT ![c] =
                      IF @.on # "nil" THEN At(@.on, @.i + by * Len(items), @.list)
                      ELSE At("page", IF by = 1 THEN Len(items)
                                      ELSE Len(page[c]) + 1 - Len(items), <<>>)]
    /\ UNCHANGED <<manager, state, page, size, torn, client>>

ReadNextEvents(c, n) == Read(c, First(After(c), n), 1)
ReadPreviousEvents(c, n) == Read(c, First(Before(c), n), -1)

(* DestroyCollector deletes from the map that a PostEvent may iterate over. *)
Destroy(c) ==
    /\ state[c] = "live"
    /\ state' = [state EXCEPT ![c] = "gone"]
    /\ collectors' = collectors \ {c}
    /\ post' = [post EXCEPT !.todo = @ \ {c}]
    /\ crashed' \in IF post.step = "notify" THEN BOOLEAN ELSE {FALSE}
    /\ UNCHANGED <<MaxCollector, key, history, page, size, pos, torn>>

DestroyCollector(c) == Destroy(c) /\ UNCHANGED client

(* The session of a client ends; its collectors stay in the map. *)
EndSession(c) ==
    /\ state[c] = "live"
    /\ state' = [state EXCEPT ![c] = "orphan"]
    /\ UNCHANGED <<manager, page, size, pos, torn, client>>

-----------------------------------------------------------------------------
(* newEvents: what comes before the last event seen, or the whole page. *)
newEvents(evs) ==
    LET i == SelectInSeq(evs, LAMBDA e : e = lastKey)
    IN IF i = 0 THEN evs ELSE SubSeq(evs, 1, i - 1)

Process(evs) ==
    /\ reported' = reported \cup ToSet(newEvents(evs))
    /\ lastKey' = IF newEvents(evs) = <<>> THEN lastKey ELSE Head(newEvents(evs))

(* Events: addObject creates a collector, or gives up without an error ... *)
TailCreate ==
    /\ tpc = "create" /\ post = Idle
    /\ IF FreeSlot THEN Create(Followed) /\ tpc' = "size"
       ELSE tpc' = "end" /\ UNCHANGED <<manager, collector>>
    /\ UNCHANGED <<queue, lastKey, reported, listened>>

(* ... and sets its page size; *)
TailSize ==
    /\ tpc = "size"
    /\ \E n \in Sizes : SetPageSize(Followed, n)
    /\ tpc' = "listen"
    /\ UNCHANGED <<queue, lastKey, reported, listened>>

(* run waits for updates, which first listens, ... *)
Listen ==
    /\ tpc = "listen"
    /\ tpc' = "collect" /\ listened' = key
    /\ UNCHANGED <<manager, collector, queue, lastKey, reported>>

(* ... then collects the current page, ... *)
Collect ==
    /\ tpc = "collect"
    /\ tpc' = "tail"
    /\ Process(GetLatestPage(page[Followed], size[Followed]))
    /\ UNCHANGED <<manager, collector, queue, listened>>

(* ... and processes one update after the other. *)
TailUpdate ==
    /\ tpc = "tail" /\ queue # <<>>
    /\ Process(Head(queue))
    /\ queue' = Tail(queue)
    /\ UNCHANGED <<manager, collector, tpc, listened>>

(* The context of the client is cancelled, and it destroys its collector. *)
TailStop ==
    /\ tpc \in {"listen", "collect", "tail"}
    /\ tpc' = "end" /\ queue' = <<>>
    /\ Destroy(Followed)
    /\ UNCHANGED <<lastKey, reported, listened>>

PostStep == PostPush \/ PostEnd \/ \E c \in Collectors : PostNotify(c)
TailStep == TailCreate \/ TailSize \/ Listen \/ Collect \/ TailUpdate

Next ==
    /\ ~crashed
    /\ \/ PostBegin \/ PostStep \/ TailStep \/ TailStop
       \/ \E c \in Collectors :
            /\ c # Followed
            /\ \/ CreateCollectorForEvents(c) \/ DestroyCollector(c) \/ EndSession(c)
               \/ ResetCollector(c) \/ RewindCollector(c)
               \/ \E n \in Sizes : SetCollectorPageSize(c, n)
               \/ \E n \in Reads : ReadNextEvents(c, n) \/ ReadPreviousEvents(c, n)

Spec == Init /\ [][Next]_vars

-----------------------------------------------------------------------------
(* The type of every variable; there are at most MaxCollector collectors, *)
(* and pos is an element of the list it is in.                            *)
TypeOK ==
    /\ MaxCollector \in Limits /\ key \in 0 .. MaxKey /\ history \in Seq(Keys) /\ Len(history) <= MaxPage + 1
    /\ collectors \subseteq Collectors /\ Cardinality(collectors) <= MaxCollector
    /\ post.step \in {"idle", "push", "notify"} /\ post.todo \subseteq collectors
    /\ crashed \in BOOLEAN /\ torn \subseteq Collectors
    /\ state \in [Collectors -> {"new", "live", "orphan", "gone"}]
    /\ size \in [Collectors -> Nat]
    /\ \A c \in Collectors :
        /\ page[c] \in Seq(Keys)
        /\ pos[c].on = "page" => pos[c].i \in DOMAIN page[c]
        /\ pos[c].on = "old" => pos[c].i \in DOMAIN pos[c].list
    /\ queue \in Seq(Seq(Keys))
    /\ tpc \in {"create", "size", "listen", "collect", "tail", "end"}
    /\ lastKey \in Keys \cup {invalidKey} /\ reported \subseteq Keys /\ listened \in 0 .. MaxKey

(* The events that PostEvent has brought to collector c. *)
Notified(c) == {e \in Filter[c] : e <= IF post.step = "push" \/ c \in post.todo THEN key - 1 ELSE key}

Ordered(l) == \A i, j \in DOMAIN l : i <= j => l[i] <= l[j]

(* However refills, prunings and posts interleave, the page of a collector is in  *)
(* order and has every matching event from its oldest one on, and, unless it has  *)
(* an event twice, every matching event that is still in the history. (A page     *)
(* filled while the history was being pruned may have a gap.)                     *)
PageComplete ==
    \A c \in collectors \ torn :
        /\ Ordered(page[c])
        /\ page[c] # <<>> => \A e \in Notified(c) : e >= Head(page[c]) => e \in ToSet(page[c])
        /\ IsInjective(page[c]) => ToSet(history) \cap Notified(c) \subseteq ToSet(page[c])

(* The limits on collectors and pages are kept and the pages are complete. *)
PagesOK == TypeOK /\ PageComplete

(* "The scrollable position is moved to the next newer page after the read": what *)
(* is read next, or previously, leaves out no event between the position and the  *)
(* last event read, whatever was posted, pruned or refilled since.                *)
PosKey(c) == IF pos[c].on = "old" THEN pos[c].list[pos[c].i] ELSE page[c][pos[c].i]
ReadsAreContiguous ==
    [][\A c \in Collectors \ torn, n \in Reads : pos[c].on \in {"page", "old"} =>
        /\ LET r == First(After(c), n) IN ReadNextEvents(c, n) /\ r # <<>> =>
            /\ PosKey(c)' = Last(r)
            /\ \A e \in Filter[c] : PosKey(c) < e /\ e <= Last(r) => e \in ToSet(r)
        /\ LET r == First(Before(c), n) IN ReadPreviousEvents(c, n) /\ r # <<>> =>
            /\ PosKey(c)' = Last(r)
            /\ \A e \in Filter[c] : PosKey(c) > e /\ e >= Last(r) => e \in ToSet(r)]_vars

(* When nothing is left to post or to process, the client has last seen the newest *)
(* event, although updates that were queued while it collected are older than what *)
(* it collected.                                                                   *)
TailCurrent ==
    tpc = "tail" /\ queue = <<>> /\ post = Idle /\ page[Followed] # <<>> =>
        lastKey = Last(page[Followed])

(* "Events gets the events ... and optionally tail the event stream": every event  *)
(* posted since the client listens is reported once the updates are processed,     *)
(* however small its page and whatever it collected in between.                    *)
Tailed ==
    tpc = "tail" /\ queue = <<>> /\ post = Idle =>
        \A e \in Filter[Followed] : e > listened /\ e <= key => e \in reported
=============================================================================
