------------------------- MODULE EventHistoryProofs -------------------------
(***************************************************************************)
(* EventHistory is safe for any number of collectors and events and any    *)
(* page sizes: pages are in order and complete, reads leave nothing out,   *)
(* and the client that tails a collector is told of every event.           *)
(***************************************************************************)
EXTENDS EventHistory, FiniteSetTheorems, WellFoundedInduction, TLAPS

Positions == [on : {"nil", "page", "old", "pruned"}, i : Nat, list : Seq(Keys)]

(* The types of the manager and its collectors ... *)
ServerTypes ==
    /\ MaxCollector \in Limits /\ key \in 0 .. MaxKey /\ history \in Seq(Keys)
    /\ collectors \subseteq Collectors /\ IsFiniteSet(collectors)
    /\ Cardinality(collectors) <= MaxCollector
    /\ post \in [step : {"idle", "push", "notify"}, todo : SUBSET Collectors]
    /\ crashed \in BOOLEAN /\ torn \subseteq Collectors
    /\ state \in [Collectors -> {"new", "live", "orphan", "gone"}]
    /\ size \in [Collectors -> Nat] /\ page \in [Collectors -> Seq(Keys)]
    /\ pos \in [Collectors -> Positions]

(* ... and of the client. *)
ClientTypes ==
    /\ queue \in Seq(Seq(Keys))
    /\ tpc \in {"create", "size", "listen", "collect", "tail", "end"}
    /\ lastKey \in Keys \cup {invalidKey} /\ reported \subseteq Keys /\ listened \in 0 .. MaxKey

(* A PostEvent notifies collectors of the map, those of ended sessions included. *)
PostOK ==
    /\ post.todo \subseteq collectors
    /\ post.step # "notify" => post.todo = {}
    /\ post.step # "idle" => key > 0
    /\ \A c \in Collectors : state[c] = "live" => c \in collectors

(* The history is the newest events without a gap, all of them until it is full. *)
Newest == IF post.step = "push" THEN key - 1 ELSE key
HistoryOK ==
    /\ \A i \in DOMAIN history : history[i] = Newest - Len(history) + i
    /\ Len(history) <= MaxPage + 1
    /\ Len(history) = IF Newest <= MaxPage THEN Newest ELSE MaxPage + 1

(***************************************************************************)
(* A page that was never pruned has what is in the history; one that was   *)
(* has more than MaxPage events. Until the history has the event that is   *)
(* posted only a history that is not full lets a page have it.             *)
(***************************************************************************)
PageOK(c) ==
    /\ Ordered(page[c])
    /\ \A i \in DOMAIN page[c] : page[c][i] <= key
    /\ \A e \in Notified(c) : (\E i \in DOMAIN page[c] : page[c][i] <= e) => e \in ToSet(page[c])
    /\ Len(page[c]) <= MaxPage => ToSet(history) \cap Notified(c) \subseteq ToSet(page[c])
    /\ post.step = "push" /\ Len(history) > MaxPage => key \notin ToSet(page[c])
PagesInv == \A c \in collectors \ torn : PageOK(c)

(* A list that a position is in, replaced or not, has no gap between two elements. *)
NoGap(c, l) ==
    \A e \in Filter[c] : \A i, j \in DOMAIN l : l[i] <= e /\ e <= l[j] => e \in ToSet(l)
PosOK(c) ==
    /\ state[c] = "new" => pos[c].on = "nil"
    /\ pos[c].on = "page" => pos[c].i \in DOMAIN page[c]
    /\ pos[c].on = "old" => /\ pos[c].i \in DOMAIN pos[c].list
                            /\ c \notin torn => Ordered(pos[c].list) /\ NoGap(c, pos[c].list)
PosInv == \A c \in Collectors : PosOK(c)

(***************************************************************************)
(* The client has a live collector with a page size, and every update in   *)
(* the queue has the event it is about first: an event is reported or to   *)
(* come, and the last update, or the last event seen, is the newest event. *)
(***************************************************************************)
ToCome == {queue[i][1] : i \in DOMAIN queue}
FollowedOK ==
    /\ tpc \in {"size", "listen", "collect", "tail"} => state[Followed] = "live"
    /\ tpc \in {"listen", "collect", "tail"} => size[Followed] > 0
    /\ \A i \in DOMAIN queue : queue[i] # <<>>
    /\ ~Listening => queue = <<>>
TailedInv ==
    /\ lastKey \in reported \cup {invalidKey}
    /\ Listening => \A e \in Notified(Followed) : e > listened => e \in reported \cup ToCome
CurrentInv ==
    /\ tpc = "tail" /\ queue = <<>> /\ page[Followed] # <<>> => lastKey = Last(page[Followed])
    /\ queue # <<>> => page[Followed] # <<>> /\ Last(queue)[1] = Last(page[Followed])

ServerInv == ServerTypes /\ PostOK /\ HistoryOK /\ PagesInv /\ PosInv
ClientInv == ClientTypes /\ FollowedOK /\ TailedInv /\ CurrentInv
IInv == ServerInv /\ ClientInv

(***************************************************************************)
(* Every set of natural numbers has a least one, and so induction over the *)
(* natural numbers, for a set: the induction theorems of the library are   *)
(* about an operator.                                                      *)
(***************************************************************************)
LEMMA LeastNat ==
    ASSUME NEW T \in SUBSET Nat, T # {}
    PROVE  \E m \in T : \A k \in T : m <= k
<1> DEFINE R == {p \in Nat \X Nat : p[1] < p[2]}
<1>1. IsWellFoundedOn(R, Nat)
  BY NatLessThanWellFounded DEF OpToRel
<1>2. PICK m \in T : \A k \in T : ~ (<<k, m>> \in R)
  <2> HIDE DEF R
  <2> QED
    BY <1>1, WFMin
<1>3. ASSUME NEW k \in T PROVE m <= k
  <2>1. k < m => <<k, m>> \in R
    OBVIOUS
  <2>2. ~(k < m)
    BY <1>2, <2>1
  <2> QED
    BY <2>2
<1> QED
  BY <1>3

LEMMA NatSetInduction ==
    ASSUME NEW S \in SUBSET Nat, 0 \in S, \A n \in S : n + 1 \in S
    PROVE  S = Nat
<1> DEFINE T == Nat \ S
<1> SUFFICES ASSUME T # {} PROVE FALSE
  OBVIOUS
<1>1. PICK m \in T : \A k \in T : m <= k
  BY LeastNat
<1>2. m - 1 \in Nat /\ m - 1 \in S
  BY <1>1
<1> QED
  BY <1>1, <1>2

LEMMA MinNat ==
    ASSUME NEW T \in SUBSET Nat, T # {}
    PROVE  Min(T) \in T /\ \A k \in T : Min(T) <= k
<1>1. \E m \in T : \A k \in T : m <= k
  BY LeastNat
<1> QED
  BY <1>1, Zenon DEF Min

-----------------------------------------------------------------------------
(* The bounds are numbers, and so are the events. *)
LEMMA Consts ==
    /\ MaxKey \in Nat /\ MaxPage \in Nat /\ Limits \subseteq Nat /\ Sizes \subseteq Nat
    /\ Keys \subseteq Int /\ \A e \in Keys : e > 0 /\ e <= MaxKey
    /\ Followed \in Collectors /\ Filter \in [Collectors -> SUBSET Keys]
<1>1. MaxKey \in Nat /\ MaxPage \in Nat /\ Limits \subseteq Nat
  BY EventHistoryAssumption
<1>2. Keys \subseteq Int /\ \A e \in Keys : e > 0 /\ e <= MaxKey
  BY <1>1 DEF Keys
<1>3. Sizes \subseteq Nat
  BY <1>1, EventHistoryAssumption
<1> QED
  BY <1>1, <1>2, <1>3, EventHistoryAssumption

(* Sequences, element by element. *)
LEMMA SeqFacts ==
    ASSUME NEW S, NEW l \in Seq(S)
    PROVE  /\ Len(l) \in Nat /\ DOMAIN l = 1 .. Len(l) /\ (l # <<>> <=> Len(l) > 0)
           /\ \A n \in 1 .. Len(l) : l[n] \in S
           /\ \A e \in S : /\ Append(l, e) \in Seq(S) /\ Len(Append(l, e)) = Len(l) + 1
                            /\ \A i \in 1 .. Len(l) : Append(l, e)[i] = l[i]
                            /\ Append(l, e)[Len(l) + 1] = e
  OBVIOUS

LEMMA TailFacts ==
    ASSUME NEW S, NEW l \in Seq(S), l # <<>>
    PROVE  /\ Head(l) = l[1] /\ l[1] \in S
           /\ Tail(l) \in Seq(S) /\ Len(Tail(l)) = Len(l) - 1
           /\ \A i \in 1 .. Len(l) - 1 : Tail(l)[i] = l[i + 1]
  OBVIOUS

LEMMA SubSeqFacts ==
    ASSUME NEW S, NEW l \in Seq(S), NEW a \in 1 .. Len(l) + 1, NEW b \in a - 1 .. Len(l)
    PROVE  /\ SubSeq(l, a, b) \in Seq(S) /\ Len(SubSeq(l, a, b)) = b - a + 1
           /\ \A i \in 1 .. b - a + 1 : SubSeq(l, a, b)[i] = l[a + i - 1]
  OBVIOUS

LEMMA IsSeqFacts ==
    ASSUME NEW S, NEW n \in Nat, NEW f \in [1 .. n -> S]
    PROVE  f \in Seq(S) /\ Len(f) = n
  OBVIOUS

(* pushHistory and GetLatestPage, element by element. *)
LEMMA PushSeq ==
    ASSUME NEW l \in Seq(Keys), NEW e \in Keys
    PROVE  /\ pushHistory(l, e) \in Seq(Keys)
           /\ Len(l) <= MaxPage =>
                /\ Len(pushHistory(l, e)) = Len(l) + 1
                /\ \A i \in 1 .. Len(l) : pushHistory(l, e)[i] = l[i]
                /\ pushHistory(l, e)[Len(l) + 1] = e
           /\ Len(l) > MaxPage =>
                /\ Len(pushHistory(l, e)) = Len(l)
                /\ \A i \in 1 .. Len(l) - 1 : pushHistory(l, e)[i] = l[i + 1]
                /\ pushHistory(l, e)[Len(l)] = e
<1>0. MaxPage \in Nat /\ Len(l) \in Nat
  BY Consts
<1>1. CASE Len(l) <= MaxPage
  <2>1. pushHistory(l, e) = Append(l, e)
    BY <1>0, <1>1 DEF pushHistory
  <2> QED
    BY <1>0, <1>1, <2>1, SeqFacts
<1>2. CASE Len(l) > MaxPage
  <2>1. pushHistory(l, e) = Append(Tail(l), e) /\ l # <<>>
    BY <1>0, <1>2 DEF pushHistory
  <2>2. /\ Tail(l) \in Seq(Keys) /\ Len(Tail(l)) = Len(l) - 1
        /\ \A i \in 1 .. Len(l) - 1 : Tail(l)[i] = l[i + 1]
    BY <2>1, TailFacts
  <2>3. /\ Append(Tail(l), e) \in Seq(Keys) /\ Len(Append(Tail(l), e)) = Len(Tail(l)) + 1
        /\ \A i \in 1 .. Len(Tail(l)) : Append(Tail(l), e)[i] = Tail(l)[i]
        /\ Append(Tail(l), e)[Len(Tail(l)) + 1] = e
    BY <2>2, SeqFacts
  <2> DEFINE t == Tail(l)
             q == Append(t, e)
  <2> HIDE DEF t, q
  <2>4. q \in Seq(Keys) /\ Len(q) = Len(l) /\ q[Len(l)] = e
    BY <1>0, <2>2, <2>3 DEF t, q
  <2>5. \A i \in 1 .. Len(l) - 1 : q[i] = l[i + 1]
    BY <1>0, <2>2, <2>3 DEF t, q
  <2>6. pushHistory(l, e) = q
    BY <2>1 DEF t, q
  <2> QED
    BY <1>0, <1>2, <2>4, <2>5, <2>6
<1> QED
  BY <1>0, <1>1, <1>2

LEMMA LatestSeq ==
    ASSUME NEW l \in Seq(Keys), NEW n \in Nat
    PROVE  /\ GetLatestPage(l, n) \in Seq(Keys)
           /\ l = <<>> => GetLatestPage(l, n) = <<>>
           /\ l # <<>> /\ n > 0 => GetLatestPage(l, n) # <<>> /\ GetLatestPage(l, n)[1] = Last(l)
<1> DEFINE from == IF Len(l) > n THEN Len(l) - n + 1 ELSE 1
           s == SubSeq(l, from, Len(l))
<1>1. from \in 1 .. Len(l) + 1 /\ (l # <<>> /\ n > 0 => from <= Len(l)) /\ Len(l) \in Nat
  OBVIOUS
<1> HIDE DEF from
<1>2. s \in Seq(Keys) /\ Len(s) = Len(l) - from + 1
  BY <1>1, SubSeqFacts
<1>3. \A i \in 1 .. Len(s) : s[i] = l[from + i - 1]
  BY <1>1, <1>2, SubSeqFacts
<1>4. GetLatestPage(l, n) = [i \in 1 .. Len(s) |-> s[(Len(s) - i) + 1]]
  BY DEF GetLatestPage, Reverse, from
<1> HIDE DEF s
<1>5. GetLatestPage(l, n) \in Seq(Keys) /\ Len(GetLatestPage(l, n)) = Len(s)
  <2>1. Len(s) \in Nat /\ \A i \in 1 .. Len(s) : s[i] \in Keys
    BY <1>2
  <2>2. GetLatestPage(l, n) \in [1 .. Len(s) -> Keys]
    BY <1>4, <2>1
  <2> QED
    BY <2>1, <2>2, IsSeqFacts
<1>6. ASSUME l # <<>>, n > 0
      PROVE  GetLatestPage(l, n) # <<>> /\ GetLatestPage(l, n)[1] = Last(l)
  <2>1. Len(s) > 0 /\ Len(l) > 0 /\ Len(s) \in Nat /\ from + Len(s) - 1 = Len(l)
    BY <1>1, <1>2, <1>6, SeqFacts
  <2>2. GetLatestPage(l, n)[1] = s[Len(s)]
    BY <1>4, <2>1
  <2>3. s[Len(s)] = l[Len(l)]
    BY <1>3, <2>1
  <2> QED
    BY <1>5, <2>1, <2>2, <2>3 DEF Last
<1>7. ASSUME l = <<>> PROVE GetLatestPage(l, n) = <<>>
  <2>1. Len(l) = 0
    BY <1>7
  <2>2. Len(s) = 0
    BY <1>1, <1>2, <2>1, SeqFacts
  <2> QED
    BY <1>5, <2>2, SeqFacts
<1> QED
  BY <1>5, <1>6, <1>7

-----------------------------------------------------------------------------
(* The function that Fill computes with, for a collector c and a list l. *)
Filled(c, l) ==
    CHOOSE filled : filled = [n \in 0 .. Len(l) |->
                                 IF n = 0 THEN <<>>
                                 ELSE IF l[n] \in Filter[c] THEN Append(filled[n - 1], l[n])
                                 ELSE filled[n - 1]]

(* It exists, by induction on the length of the list ... *)
LEMMA FilledExists ==
    ASSUME NEW c \in Collectors, NEW l \in Seq(Keys)
    PROVE  \E filled : filled = [n \in 0 .. Len(l) |->
                                    IF n = 0 THEN <<>>
                                    ELSE IF l[n] \in Filter[c] THEN Append(filled[n - 1], l[n])
                                    ELSE filled[n - 1]]
<1> DEFINE P(k, g) ==
               /\ g \in [0 .. k -> Seq(Keys)]
               /\ \A n \in 0 .. k :
                      g[n] = IF n = 0 THEN <<>>
                             ELSE IF l[n] \in Filter[c] THEN Append(g[n - 1], l[n]) ELSE g[n - 1]
           S == {k \in Nat : k <= Len(l) => \E g : P(k, g)}
<1> HIDE DEF P
<1>1. 0 \in S
  <2>1. P(0, [n \in 0 .. 0 |-> <<>>])
    BY DEF P
  <2> QED
    BY <2>1
<1>2. ASSUME NEW k \in S PROVE k + 1 \in S
  <2>1. CASE k + 1 > Len(l)
    BY <2>1
  <2>2. CASE k + 1 <= Len(l)
    <3>1. PICK g : P(k, g)
      BY <2>2
    <3> DEFINE new == IF l[k + 1] \in Filter[c] THEN Append(g[k], l[k + 1]) ELSE g[k]
               h == [n \in 0 .. k + 1 |-> IF n = k + 1 THEN new ELSE g[n]]
    <3>2. g \in [0 .. k -> Seq(Keys)] /\ g[k] \in Seq(Keys) /\ l[k + 1] \in Keys
      <4>1. g \in [0 .. k -> Seq(Keys)]
        BY <3>1 DEF P
      <4>2. k \in Nat /\ k \in 0 .. k /\ k + 1 \in 1 .. Len(l)
        BY <2>2
      <4>3. l[k + 1] \in Keys
        BY <4>2, SeqFacts
      <4> QED
        BY <4>1, <4>2, <4>3
    <3>3. new \in Seq(Keys)
      BY <3>2
    <3> HIDE DEF new
    <3>4. h \in [0 .. k + 1 -> Seq(Keys)]
      BY <3>2, <3>3
    <3>5. \A n \in 0 .. k : h[n] = g[n]
      OBVIOUS
    <3>6. h[k + 1] = IF l[k + 1] \in Filter[c] THEN Append(h[k], l[k + 1]) ELSE h[k]
      BY <3>5 DEF new
    <3> HIDE DEF h
    <3>7. ASSUME NEW n \in 0 .. k + 1
          PROVE  h[n] = IF n = 0 THEN <<>>
                        ELSE IF l[n] \in Filter[c] THEN Append(h[n - 1], l[n]) ELSE h[n - 1]
      <4>1. CASE n = k + 1
        BY <4>1, <3>6
      <4>2. CASE n \in 0 .. k
        <5>1. g[n] = IF n = 0 THEN <<>>
                     ELSE IF l[n] \in Filter[c] THEN Append(g[n - 1], l[n]) ELSE g[n - 1]
          BY <4>2, <3>1 DEF P
        <5>2. h[n] = g[n] /\ (n # 0 => h[n - 1] = g[n - 1])
          BY <4>2, <3>5
        <5> QED
          BY <5>1, <5>2
      <4> QED
        BY <4>1, <4>2
    <3>8. P(k + 1, h)
      BY <3>4, <3>7 DEF P
    <3> QED
      BY <3>8
  <2> QED
    BY <2>1, <2>2
<1>3. S = Nat
  <2>1. S \in SUBSET Nat
    OBVIOUS
  <2> HIDE DEF S
  <2> QED
    BY <1>1, <1>2, <2>1, NatSetInduction
<1>4. PICK g : P(Len(l), g)
  <2>1. Len(l) \in Nat /\ Len(l) <= Len(l)
    OBVIOUS
  <2>2. Len(l) \in S
    BY <1>3, <2>1
  <2> QED
    BY <2>1, <2>2
<1> QED
  BY <1>4 DEF P

(* ... so Filled is one. *)
LEMMA FilledDef ==
    ASSUME NEW c \in Collectors, NEW l \in Seq(Keys)
    PROVE  /\ Fill(c, l) = Filled(c, l)[Len(l)]
           /\ Filled(c, l)[0] = <<>>
           /\ \A n \in 1 .. Len(l) :
                  Filled(c, l)[n] =
                      IF l[n] \in Filter[c] THEN Append(Filled(c, l)[n - 1], l[n])
                      ELSE Filled(c, l)[n - 1]
<1> DEFINE E(g) == g = [n \in 0 .. Len(l) |->
                           IF n = 0 THEN <<>>
                           ELSE IF l[n] \in Filter[c] THEN Append(g[n - 1], l[n]) ELSE g[n - 1]]
<1>1. \E g : E(g)
  BY FilledExists
<1>2. E(CHOOSE g : E(g))
  <2> HIDE DEF E
  <2> QED
    BY <1>1, Zenon
<1>3. E(Filled(c, l))
  BY <1>2 DEF Filled
<1>4. Fill(c, l) = Filled(c, l)[Len(l)]
  BY DEF Fill, Filled
<1> HIDE DEF Filled
<1>5. Len(l) \in Nat
  OBVIOUS
<1>6. \A n \in 0 .. Len(l) :
          Filled(c, l)[n] =
              IF n = 0 THEN <<>>
              ELSE IF l[n] \in Filter[c] THEN Append(Filled(c, l)[n - 1], l[n])
              ELSE Filled(c, l)[n - 1]
  BY <1>3, Zenon
<1>7. Filled(c, l)[0] = <<>>
  BY <1>5, <1>6
<1>8. \A n \in 1 .. Len(l) : n \in 0 .. Len(l) /\ n # 0
  BY <1>5
<1> QED
  BY <1>4, <1>6, <1>7, <1>8, Zenon

(* A filled page has the events of the list that match, in their order. *)
LEMMA FillSeq ==
    ASSUME NEW c \in Collectors, NEW l \in Seq(Keys), Ordered(l)
    PROVE  /\ Fill(c, l) \in Seq(Keys) /\ Ordered(Fill(c, l))
           /\ ToSet(Fill(c, l)) = ToSet(l) \cap Filter[c]
<1> DEFINE f == Filled(c, l)
           P(n) == /\ f[n] \in Seq(Keys) /\ Ordered(f[n])
                   /\ \A i \in DOMAIN f[n] : f[n][i] \in Filter[c] /\ \E j \in 1 .. n : f[n][i] = l[j]
                   /\ \A j \in 1 .. n : l[j] \in Filter[c] => \E i \in DOMAIN f[n] : f[n][i] = l[j]
           S == {n \in Nat : n <= Len(l) => P(n)}
<1> HIDE DEF f
<1>0. f[0] = <<>> /\ \A n \in 1 .. Len(l) : f[n] = IF l[n] \in Filter[c] THEN Append(f[n - 1], l[n]) ELSE f[n - 1]
  BY FilledDef DEF f
<1> HIDE DEF P
<1>1. 0 \in S
  <2>1. f[0] \in Seq(Keys) /\ DOMAIN f[0] = {}
    BY <1>0
  <2>2. P(0)
    BY <2>1 DEF P, Ordered
  <2> QED
    BY <2>2
<1>2. ASSUME NEW n \in S PROVE n + 1 \in S
  <2> SUFFICES ASSUME n + 1 <= Len(l) PROVE P(n + 1)
    OBVIOUS
  <2>0. P(n) /\ l[n + 1] \in Keys /\ n + 1 \in 1 .. Len(l) /\ n \in Nat
    OBVIOUS
  <2>1. /\ f[n] \in Seq(Keys) /\ Ordered(f[n])
        /\ \A i \in DOMAIN f[n] : f[n][i] \in Filter[c] /\ \E j \in 1 .. n : f[n][i] = l[j]
        /\ \A j \in 1 .. n : l[j] \in Filter[c] => \E i \in DOMAIN f[n] : f[n][i] = l[j]
    BY <2>0 DEF P
  <2>2. f[n + 1] = IF l[n + 1] \in Filter[c] THEN Append(f[n], l[n + 1]) ELSE f[n]
    BY <1>0, <2>0
  <2>3. CASE l[n + 1] \notin Filter[c]
    <3>1. f[n + 1] = f[n]
      BY <2>2, <2>3
    <3>2. \A j \in 1 .. n + 1 : j \in 1 .. n \/ j = n + 1
      BY <2>0
    <3>3. \A j \in 1 .. n : j \in 1 .. n + 1
      BY <2>0
    <3> QED
      BY <2>1, <2>3, <3>1, <3>2, <3>3 DEF P
  <2>4. CASE l[n + 1] \in Filter[c]
    <3> DEFINE m == Len(f[n])
    <3>1. f[n + 1] \in Seq(Keys) /\ Len(f[n + 1]) = m + 1 /\ m \in Nat
      BY <2>0, <2>1, <2>2, <2>4, SeqFacts
    <3>2. f[n + 1][m + 1] = l[n + 1] /\ \A i \in 1 .. m : f[n + 1][i] = f[n][i]
      BY <2>0, <2>1, <2>2, <2>4, SeqFacts
    <3>3. DOMAIN f[n] = 1 .. m /\ DOMAIN f[n + 1] = 1 .. m + 1
      BY <2>1, <3>1
    <3> HIDE DEF m
    <3>4. \A i \in 1 .. m : f[n][i] <= l[n + 1]
      <4> SUFFICES ASSUME NEW i \in 1 .. m PROVE f[n][i] <= l[n + 1]
        OBVIOUS
      <4>1. PICK j \in 1 .. n : f[n][i] = l[j]
        BY <2>1, <3>3
      <4> QED
        <5>1. DOMAIN l = 1 .. Len(l) /\ Len(l) \in Nat
          OBVIOUS
        <5>2. l[j] <= l[n + 1]
          BY <2>0, <5>1 DEF Ordered
        <5> QED
          BY <4>1, <5>2
    <3>5. Ordered(f[n + 1])
      <4> SUFFICES ASSUME NEW i \in 1 .. m + 1, NEW j \in 1 .. m + 1, i <= j
                   PROVE  f[n + 1][i] <= f[n + 1][j]
        BY <3>3 DEF Ordered
      <4>1. CASE j = m + 1 /\ i = m + 1
        <5>1. l[n + 1] \in Int
          BY <2>0, Consts
        <5> QED
          BY <3>2, <4>1, <5>1
      <4>2. CASE j = m + 1 /\ i # m + 1
        BY <3>1, <3>2, <3>4, <4>2
      <4>3. CASE j # m + 1
        <5>1. i \in 1 .. m /\ j \in 1 .. m
          BY <3>1, <4>3
        <5>2. f[n][i] <= f[n][j]
          BY <2>1, <3>3, <5>1 DEF Ordered
        <5> QED
          BY <3>2, <5>1, <5>2
      <4> QED
        BY <4>1, <4>2, <4>3
    <3>6. ASSUME NEW i \in 1 .. m + 1
          PROVE  f[n + 1][i] \in Filter[c] /\ \E j \in 1 .. n + 1 : f[n + 1][i] = l[j]
      <4>1. CASE i = m + 1
        BY <2>0, <2>4, <3>2, <4>1
      <4>2. CASE i \in 1 .. m
        <5>1. PICK j \in 1 .. n : f[n][i] = l[j]
          BY <2>1, <3>3, <4>2
        <5>2. f[n + 1][i] = f[n][i] /\ f[n][i] \in Filter[c] /\ j \in 1 .. n + 1
          <6>1. f[n + 1][i] = f[n][i]
            BY <3>2, <4>2
          <6>2. f[n][i] \in Filter[c]
            BY <2>1, <3>3, <4>2
          <6>3. j \in 1 .. n + 1
            BY <2>0
          <6> QED
            BY <6>1, <6>2, <6>3
        <5> QED
          BY <5>1, <5>2
      <4> QED
        BY <3>1, <4>1, <4>2
    <3>7. ASSUME NEW j \in 1 .. n + 1, l[j] \in Filter[c]
          PROVE  \E i \in 1 .. m + 1 : f[n + 1][i] = l[j]
      <4>1. CASE j = n + 1
        BY <3>1, <3>2, <4>1
      <4>2. CASE j \in 1 .. n
        <5>1. PICK i \in 1 .. m : f[n][i] = l[j]
          BY <2>1, <3>3, <3>7, <4>2
        <5> QED
          BY <3>1, <3>2, <5>1
      <4> QED
        BY <2>0, <4>1, <4>2
    <3> QED
      BY <3>1, <3>3, <3>5, <3>6, <3>7 DEF P
  <2> QED
    BY <2>3, <2>4
<1>3. S = Nat
  <2>1. S \in SUBSET Nat
    OBVIOUS
  <2> HIDE DEF S
  <2> QED
    BY <1>1, <1>2, <2>1, NatSetInduction
<1>4. P(Len(l)) /\ DOMAIN l = 1 .. Len(l)
  <2>1. Len(l) \in Nat /\ Len(l) <= Len(l) /\ DOMAIN l = 1 .. Len(l)
    OBVIOUS
  <2>2. Len(l) \in S
    BY <1>3, <2>1
  <2> QED
    BY <2>1, <2>2
<1>5. Fill(c, l) = f[Len(l)]
  BY FilledDef DEF f
<1> QED
  <2>1. f[Len(l)] \in Seq(Keys) /\ Ordered(f[Len(l)])
    BY <1>4 DEF P
  <2>2. \A x \in ToSet(f[Len(l)]) : x \in ToSet(l) \cap Filter[c]
    BY <1>4 DEF P, ToSet
  <2>3. \A x \in ToSet(l) \cap Filter[c] : x \in ToSet(f[Len(l)])
    BY <1>4 DEF P, ToSet
  <2> QED
    BY <1>5, <2>1, <2>2, <2>3

(* Events in order, none of them twice, are as far apart as their places. *)
LEMMA Spread ==
    ASSUME NEW l \in Seq(Keys), Ordered(l), IsInjective(l)
    PROVE  \A n \in 1 .. Len(l) : l[n] >= l[1] + n - 1
<1> DEFINE S == {n \in Nat : n + 1 <= Len(l) => l[n + 1] >= l[1] + n}
<1>0. Len(l) \in Nat /\ DOMAIN l = 1 .. Len(l) /\ \A n \in 1 .. Len(l) : l[n] \in Int
  BY Consts, SeqFacts
<1>1. 0 \in S
  BY <1>0
<1>2. ASSUME NEW n \in S PROVE n + 1 \in S
  <2>0. n \in Nat /\ (n + 1) + 1 = n + 2
    OBVIOUS
  <2> SUFFICES ASSUME n + 2 <= Len(l) PROVE l[n + 2] >= l[1] + (n + 1)
    BY <2>0
  <2>1. l[n + 1] <= l[n + 2] /\ l[n + 1] # l[n + 2]
    <3>1. n + 1 \in DOMAIN l /\ n + 2 \in DOMAIN l /\ n + 1 <= n + 2 /\ n + 1 # n + 2
      BY <1>0, <2>0
    <3>2. \A i, j \in DOMAIN l : l[i] = l[j] => i = j
      BY DEF IsInjective
    <3>3. \A i, j \in DOMAIN l : i <= j => l[i] <= l[j]
      BY DEF Ordered
    <3> QED
      BY <3>1, <3>2, <3>3
  <2>2. l[n + 1] >= l[1] + n /\ l[1] \in Int /\ l[n + 1] \in Int /\ l[n + 2] \in Int
    BY <1>0, <2>0
  <2> QED
    BY <2>0, <2>1, <2>2
<1>3. S = Nat
  <2>1. S \in SUBSET Nat
    OBVIOUS
  <2> HIDE DEF S
  <2> QED
    BY <1>1, <1>2, <2>1, NatSetInduction
<1> SUFFICES ASSUME NEW n \in 1 .. Len(l) PROVE l[n] >= l[1] + n - 1
  OBVIOUS
<1>4. n - 1 \in S
  BY <1>3
<1> QED
  BY <1>0, <1>4

-----------------------------------------------------------------------------
(* What a client has passed on after an update: its first event, always. *)
LEMMA ProcessFacts ==
    ASSUME NEW evs \in Seq(Keys), lastKey \in reported \cup {invalidKey}, Process(evs)
    PROVE  /\ reported \subseteq reported' /\ reported' \subseteq reported \cup Keys
           /\ evs = <<>> => lastKey' = lastKey
           /\ evs # <<>> => lastKey' = evs[1] /\ evs[1] \in reported' /\ evs[1] \in Keys
<1> DEFINE I == {k \in 1 .. Len(evs) : evs[k] = lastKey}
           i == SelectInSeq(evs, LAMBDA e : e = lastKey)
           new == newEvents(evs)
<1>1. reported' = reported \cup ToSet(new) /\ lastKey' = IF new = <<>> THEN lastKey ELSE Head(new)
  BY DEF Process
<1>2. i = IF I # {} THEN Min(I) ELSE 0
  BY DEF SelectInSeq
<1>3. new = IF i = 0 THEN evs ELSE SubSeq(evs, 1, i - 1)
  BY DEF newEvents
<1>4. Len(evs) \in Nat /\ I \in SUBSET Nat /\ \A k \in I : k \in 1 .. Len(evs) /\ evs[k] = lastKey
  BY SeqFacts
<1> HIDE DEF I, i, new
<1>5. I # {} => i \in I
  BY <1>2, <1>4, MinNat
<1>6. \A s \in Seq(Keys) : ToSet(s) \subseteq Keys /\ (s # <<>> => Head(s) = s[1] /\ s[1] \in ToSet(s))
  BY DEF ToSet
<1>7. CASE I = {}
  <2>1. new = evs
    BY <1>2, <1>3, <1>7
  <2> QED
    BY <1>1, <1>6, <2>1
<1>8. CASE I # {} /\ i = 1
  <2>1. new = <<>> /\ lastKey = evs[1] /\ evs # <<>> /\ evs[1] \in Keys
    BY <1>3, <1>4, <1>5, <1>8
  <2>2. lastKey \in reported /\ ToSet(new) = {}
    BY <2>1, Consts DEF invalidKey, ToSet
  <2> QED
    BY <1>1, <2>1, <2>2
<1>9. CASE I # {} /\ i # 1
  <2>1. i \in 2 .. Len(evs)
    <3>1. i \in 1 .. Len(evs)
      BY <1>4, <1>5, <1>9
    <3> QED
      BY <1>4, <1>9, <3>1
  <2>2. new = SubSeq(evs, 1, i - 1)
    BY <1>3, <2>1
  <2>3. new \in Seq(Keys) /\ Len(new) = i - 1 /\ new[1] = evs[1]
    BY <1>4, <2>1, <2>2, SubSeqFacts
  <2>4. new # <<>> /\ evs # <<>> /\ evs[1] \in Keys
    BY <1>4, <2>1, <2>3
  <2> QED
    BY <1>1, <1>6, <2>3, <2>4
<1> QED
  BY <1>7, <1>8, <1>9

(* What is read is a part of the list, from the position on. *)
LEMMA FirstFacts ==
    ASSUME NEW l \in Seq(Keys), NEW n \in Reads
    PROVE  /\ First(l, n) \in Seq(Keys) /\ Len(First(l, n)) <= Len(l)
           /\ \A i \in 1 .. Len(First(l, n)) : First(l, n)[i] = l[i]
<1> DEFINE b == IF n < Len(l) THEN n ELSE Len(l)
<1>1. n \in Nat /\ n > 0 /\ Len(l) \in Nat
  BY EventHistoryAssumption, SeqFacts
<1>2. b \in 0 .. Len(l) /\ First(l, n) = SubSeq(l, 1, b)
  BY <1>1 DEF First
<1> HIDE DEF b
<1>3. 1 \in 1 .. Len(l) + 1 /\ b \in 1 - 1 .. Len(l) /\ b - 1 + 1 = b
  BY <1>1, <1>2
<1>4. /\ SubSeq(l, 1, b) \in Seq(Keys) /\ Len(SubSeq(l, 1, b)) = b - 1 + 1
      /\ \A i \in 1 .. b - 1 + 1 : SubSeq(l, 1, b)[i] = l[1 + i - 1]
  BY <1>3, SubSeqFacts
<1> QED
  BY <1>1, <1>2, <1>3, <1>4

LEMMA ReverseFacts ==
    ASSUME NEW l \in Seq(Keys)
    PROVE  /\ Reverse(l) \in Seq(Keys) /\ Len(Reverse(l)) = Len(l)
           /\ \A i \in 1 .. Len(l) : Reverse(l)[i] = l[Len(l) + 1 - i]
<1>1. Len(l) \in Nat /\ \A i \in 1 .. Len(l) : l[i] \in Keys
  BY SeqFacts
<1>2. Reverse(l) = [i \in 1 .. Len(l) |-> l[(Len(l) - i) + 1]]
  BY DEF Reverse
<1>3. \A i \in 1 .. Len(l) : (Len(l) - i) + 1 \in 1 .. Len(l) /\ (Len(l) - i) + 1 = Len(l) + 1 - i
  BY <1>1
<1>4. Reverse(l) \in [1 .. Len(l) -> Keys]
  BY <1>1, <1>2, <1>3
<1>5. Reverse(l) \in Seq(Keys) /\ Len(Reverse(l)) = Len(l)
  BY <1>1, <1>4, IsSeqFacts
<1> QED
  BY <1>2, <1>3, <1>5

(* The list that a position of a collector is in, and the elements after and before it. *)
ListOf(c) == IF pos[c].on = "old" THEN pos[c].list ELSE page[c]

LEMMA ReadFacts ==
    ASSUME ServerTypes, PosInv, NEW c \in Collectors, NEW n \in Reads, pos[c].on \in {"page", "old"}
    PROVE  /\ ListOf(c) \in Seq(Keys) /\ pos[c].i \in 1 .. Len(ListOf(c))
           /\ LET r == First(After(c), n) IN
                /\ r \in Seq(Keys) /\ pos[c].i + Len(r) <= Len(ListOf(c))
                /\ \A k \in 1 .. Len(r) : r[k] = ListOf(c)[pos[c].i + k]
           /\ LET r == First(Before(c), n) IN
                /\ r \in Seq(Keys) /\ pos[c].i - Len(r) >= 1
                /\ \A k \in 1 .. Len(r) : r[k] = ListOf(c)[pos[c].i - k]
<1> DEFINE L == ListOf(c)
           i == pos[c].i
<1>1. L \in Seq(Keys) /\ i \in 1 .. Len(L) /\ Len(L) \in Nat
  <2>1. PosOK(c) /\ pos[c] \in Positions /\ page[c] \in Seq(Keys)
    BY DEF PosInv, ServerTypes
  <2>2. pos[c].list \in Seq(Keys)
    BY <2>1 DEF Positions
  <2>3. DOMAIN page[c] = 1 .. Len(page[c]) /\ DOMAIN pos[c].list = 1 .. Len(pos[c].list)
    BY <2>1, <2>2
  <2>4. L \in Seq(Keys) /\ i \in 1 .. Len(L)
    BY <2>1, <2>2, <2>3 DEF PosOK, ListOf
  <2> QED
    BY <2>4, SeqFacts
<1>2. After(c) = SubSeq(L, i + 1, Len(L)) /\ Before(c) = Reverse(SubSeq(L, 1, i - 1))
  BY DEF After, Before, ListOf
<1> HIDE DEF L, i
<1>3. /\ SubSeq(L, i + 1, Len(L)) \in Seq(Keys) /\ Len(SubSeq(L, i + 1, Len(L))) = Len(L) - i
      /\ \A k \in 1 .. Len(L) - i : SubSeq(L, i + 1, Len(L))[k] = L[i + k]
  <2>1. i + 1 \in 1 .. Len(L) + 1 /\ Len(L) \in (i + 1) - 1 .. Len(L) /\ Len(L) - (i + 1) + 1 = Len(L) - i
    BY <1>1
  <2>2. \A k \in 1 .. Len(L) - i : (i + 1) + k - 1 = i + k
    BY <1>1
  <2>3. /\ SubSeq(L, i + 1, Len(L)) \in Seq(Keys)
        /\ Len(SubSeq(L, i + 1, Len(L))) = Len(L) - (i + 1) + 1
        /\ \A k \in 1 .. Len(L) - (i + 1) + 1 : SubSeq(L, i + 1, Len(L))[k] = L[(i + 1) + k - 1]
    BY <1>1, <2>1, SubSeqFacts
  <2> QED
    BY <2>1, <2>2, <2>3
<1>4. /\ SubSeq(L, 1, i - 1) \in Seq(Keys) /\ Len(SubSeq(L, 1, i - 1)) = i - 1
      /\ \A k \in 1 .. i - 1 : SubSeq(L, 1, i - 1)[k] = L[k]
  <2>1. 1 \in 1 .. Len(L) + 1 /\ i - 1 \in 1 - 1 .. Len(L) /\ (i - 1) - 1 + 1 = i - 1
    BY <1>1
  <2>2. \A k \in 1 .. i - 1 : 1 + k - 1 = k
    BY <1>1
  <2> QED
    BY <1>1, <2>1, <2>2, SubSeqFacts
<1>5. LET r == First(After(c), n) IN
          /\ r \in Seq(Keys) /\ i + Len(r) <= Len(L)
          /\ \A k \in 1 .. Len(r) : r[k] = L[i + k]
  <2> DEFINE s == SubSeq(L, i + 1, Len(L))
             r == First(s, n)
  <2>1. /\ r \in Seq(Keys) /\ Len(r) <= Len(s) /\ Len(r) \in Nat
        /\ \A k \in 1 .. Len(r) : r[k] = s[k]
    BY <1>3, FirstFacts, SeqFacts
  <2> HIDE DEF s, r
  <2>2. Len(s) = Len(L) - i /\ \A k \in 1 .. Len(L) - i : s[k] = L[i + k]
    BY <1>3 DEF s
  <2>3. r \in Seq(Keys) /\ i + Len(r) <= Len(L) /\ \A k \in 1 .. Len(r) : r[k] = L[i + k]
    BY <1>1, <2>1, <2>2
  <2> QED
    BY <1>2, <2>3 DEF r, s
<1>6. LET r == First(Before(c), n) IN
          /\ r \in Seq(Keys) /\ i - Len(r) >= 1
          /\ \A k \in 1 .. Len(r) : r[k] = L[i - k]
  <2> DEFINE s == SubSeq(L, 1, i - 1)
             q == Reverse(s)
             r == First(q, n)
  <2>1. /\ q \in Seq(Keys) /\ Len(q) = Len(s) /\ \A k \in 1 .. Len(s) : q[k] = s[Len(s) + 1 - k]
    BY <1>4, ReverseFacts
  <2>2. /\ r \in Seq(Keys) /\ Len(r) <= Len(q) /\ Len(r) \in Nat
        /\ \A k \in 1 .. Len(r) : r[k] = q[k]
    BY <2>1, FirstFacts, SeqFacts
  <2> HIDE DEF s, q, r
  <2>3. Len(s) = i - 1 /\ \A k \in 1 .. i - 1 : s[k] = L[k]
    BY <1>4 DEF s
  <2>4. \A k \in 1 .. Len(r) : k \in 1 .. i - 1 /\ (i - 1) + 1 - k \in 1 .. i - 1 /\ (i - 1) + 1 - k = i - k
    BY <1>1, <2>1, <2>2, <2>3
  <2>5. r \in Seq(Keys) /\ i - Len(r) >= 1 /\ \A k \in 1 .. Len(r) : r[k] = L[i - k]
    BY <1>1, <2>1, <2>2, <2>3, <2>4
  <2> QED
    BY <1>2, <2>5 DEF r, q, s
<1> QED
  BY <1>1, <1>5, <1>6 DEF L, i

-----------------------------------------------------------------------------
(* What the types say, element by element. *)
LEMMA ServerFacts ==
    ASSUME ServerInv
    PROVE  /\ key \in Int /\ key >= 0 /\ Len(history) \in Nat /\ DOMAIN history = 1 .. Len(history)
           /\ \A c \in Collectors : /\ page[c] \in Seq(Keys) /\ Len(page[c]) \in Nat
                                    /\ DOMAIN page[c] = 1 .. Len(page[c])
                                    /\ \A i \in DOMAIN page[c] : page[c][i] \in Keys
           /\ \A c \in Collectors : pos[c] \in Positions
           /\ collectors \subseteq Collectors
<1>1. key \in Int /\ key >= 0
  BY Consts DEF ServerInv, ServerTypes
<1>2. Len(history) \in Nat /\ DOMAIN history = 1 .. Len(history)
  BY SeqFacts DEF ServerInv, ServerTypes
<1>3. ASSUME NEW c \in Collectors
      PROVE  /\ page[c] \in Seq(Keys) /\ Len(page[c]) \in Nat
             /\ DOMAIN page[c] = 1 .. Len(page[c])
             /\ \A i \in DOMAIN page[c] : page[c][i] \in Keys
  <2>1. page[c] \in Seq(Keys)
    BY DEF ServerInv, ServerTypes
  <2> QED
    BY <2>1, SeqFacts
<1> QED
  BY <1>1, <1>2, <1>3 DEF ServerInv, ServerTypes

LEMMA PosChanges ==
    ASSUME NEW p \in Positions
    PROVE  /\ NoPos \in Positions /\ NoPos.on = "nil"
           /\ Pruned \in Positions /\ Pruned.on = "pruned"
           /\ \A i \in Nat : /\ At("page", i, <<>>) \in Positions
                             /\ At("page", i, <<>>).on = "page" /\ At("page", i, <<>>).i = i
           /\ \A l \in Seq(Keys) : /\ At("old", p.i, l) \in Positions /\ At("old", p.i, l).on = "old"
                                   /\ At("old", p.i, l).i = p.i /\ At("old", p.i, l).list = l
<1>1. <<>> \in Seq(Keys)
  OBVIOUS
<1>2. NoPos \in Positions /\ NoPos.on = "nil" /\ Pruned \in Positions /\ Pruned.on = "pruned"
  BY <1>1 DEF NoPos, Pruned, At, Positions
<1>3. ASSUME NEW i \in Nat
      PROVE  /\ At("page", i, <<>>) \in Positions
             /\ At("page", i, <<>>).on = "page" /\ At("page", i, <<>>).i = i
  BY <1>1 DEF At, Positions
<1>4. ASSUME NEW l \in Seq(Keys)
      PROVE  /\ At("old", p.i, l) \in Positions /\ At("old", p.i, l).on = "old"
             /\ At("old", p.i, l).i = p.i /\ At("old", p.i, l).list = l
  BY DEF At, Positions
<1> QED
  BY <1>2, <1>3, <1>4

(* Events that are not on their way to c are those up to Top(c). *)
Top(c) == IF post.step = "push" \/ c \in post.todo THEN key - 1 ELSE key

LEMMA NotifiedTop ==
    ASSUME NEW c
    PROVE  /\ \A e : e \in Notified(c) <=> e \in Filter[c] /\ e <= Top(c)
           /\ Top(c)' = Top(c) => Notified(c)' = Notified(c)
  BY DEF Notified, Top

(* The page of a collector is as good as before when it has not been notified since. *)
LEMMA SamePage ==
    ASSUME ServerInv, NEW c \in collectors \ torn, PageOK(c), Top(c)' = Top(c),
           page'[c] = page[c], history' = history, key' = key,
           post'.step = "push" => post.step = "push"
    PROVE  PageOK(c)'
<1>1. Notified(c)' = Notified(c)
  BY NotifiedTop
<1> QED
  BY <1>1 DEF PageOK

-----------------------------------------------------------------------------
(* The server, one operation after the other. *)
LEMMA ServerUnchanged ==
    ASSUME ServerInv, UNCHANGED <<manager, collector>>
    PROVE  ServerInv'
<1> USE DEF manager, collector
<1>1. ServerTypes'
  BY DEF ServerInv, ServerTypes
<1>2. PostOK'
  BY DEF ServerInv, PostOK
<1>3. HistoryOK'
  BY DEF ServerInv, HistoryOK, Newest
<1>4. PagesInv'
  BY DEF ServerInv, PagesInv, PageOK, Notified
<1>5. PosInv'
  BY DEF ServerInv, PosInv, PosOK
<1> QED
  BY <1>1, <1>2, <1>3, <1>4, <1>5 DEF ServerInv

LEMMA PostBeginServer ==
    ASSUME ServerInv, PostBegin
    PROVE  ServerInv'
<1> USE DEF PostBegin, collector
<1>0. post.step = "idle" /\ post.todo = {} /\ post'.step = "push" /\ post'.todo = {}
  BY DEF Idle
<1>1. ServerTypes'
  BY Consts, <1>0 DEF ServerInv, ServerTypes
<1>2. PostOK'
  BY ServerFacts, <1>0 DEF ServerInv, PostOK
<1>3. HistoryOK'
  <2>1. Newest' = Newest
    BY <1>0, ServerFacts DEF Newest
  <2> QED
    BY <2>1 DEF ServerInv, HistoryOK
<1>4. PagesInv'
  <2> SUFFICES ASSUME NEW c \in collectors \ torn PROVE PageOK(c)'
    BY DEF PagesInv
  <2>1. PageOK(c) /\ c \in Collectors
    BY ServerFacts DEF ServerInv, PagesInv
  <2>2. Notified(c)' = Notified(c)
    <3>1. Top(c)' = Top(c)
      BY <1>0, ServerFacts DEF Top
    <3> QED
      BY <3>1, NotifiedTop
  <2>3. \A i \in DOMAIN page[c] : page[c][i] <= key /\ page[c][i] \in Int
    BY <2>1, ServerFacts, Consts DEF PageOK
  <2>4. \A i \in DOMAIN page[c] : page[c][i] <= key' /\ page[c][i] # key'
    BY <2>3, ServerFacts
  <2> QED
    BY <2>1, <2>2, <2>4 DEF PageOK, ToSet
<1>5. PosInv'
  BY DEF ServerInv, PosInv, PosOK
<1> QED
  BY <1>1, <1>2, <1>3, <1>4, <1>5 DEF ServerInv

(* A history that is the newest events stays it with the next one. *)
LEMMA PushHistory ==
    ASSUME NEW h \in Seq(Keys), NEW k \in Keys,
           \A i \in 1 .. Len(h) : h[i] = k - 1 - Len(h) + i,
           Len(h) = IF k - 1 <= MaxPage THEN k - 1 ELSE MaxPage + 1
    PROVE  /\ pushHistory(h, k) \in Seq(Keys)
           /\ \A i \in 1 .. Len(pushHistory(h, k)) :
                  pushHistory(h, k)[i] = k - Len(pushHistory(h, k)) + i
           /\ Len(pushHistory(h, k)) = IF k <= MaxPage THEN k ELSE MaxPage + 1
           /\ ToSet(pushHistory(h, k)) \subseteq ToSet(h) \cup {k}
<1> DEFINE q == pushHistory(h, k)
           n == Len(h)
<1>1. MaxPage \in Nat /\ k \in Int /\ k > 0 /\ n \in Nat /\ DOMAIN h = 1 .. n
  BY Consts, SeqFacts
<1>2. /\ q \in Seq(Keys)
      /\ n <= MaxPage => Len(q) = n + 1 /\ (\A i \in 1 .. n : q[i] = h[i]) /\ q[n + 1] = k
      /\ n > MaxPage => Len(q) = n /\ (\A i \in 1 .. n - 1 : q[i] = h[i + 1]) /\ q[n] = k
  BY PushSeq
<1>3. (\A i \in 1 .. n : h[i] = k - 1 - n + i) /\ n = IF k - 1 <= MaxPage THEN k - 1 ELSE MaxPage + 1
  OBVIOUS
<1>4. DOMAIN q = 1 .. Len(q) /\ Len(q) \in Nat
  BY <1>2, SeqFacts
<1> HIDE DEF q, n
<1>5. CASE n <= MaxPage
  <2>1. Len(q) = n + 1 /\ q[n + 1] = k /\ n = k - 1
    BY <1>1, <1>2, <1>3, <1>5
  <2>2. Len(q) = IF k <= MaxPage THEN k ELSE MaxPage + 1
    BY <1>1, <1>5, <2>1
  <2>3. ASSUME NEW i \in 1 .. Len(q) PROVE q[i] = k - Len(q) + i /\ q[i] \in ToSet(h) \cup {k}
    <3>1. CASE i = n + 1
      BY <1>1, <2>1, <3>1
    <3>2. CASE i \in 1 .. n
      <4>1. q[i] = h[i] /\ h[i] = k - 1 - n + i
        BY <1>2, <1>3, <1>5, <3>2
      <4>2. h[i] \in ToSet(h)
        BY <1>1, <3>2 DEF ToSet
      <4>3. i \in Int /\ h[i] = k - Len(q) + i
        BY <1>1, <2>1, <3>2, <4>1
      <4> QED
        BY <4>1, <4>2, <4>3
    <3> QED
      BY <1>1, <2>1, <3>1, <3>2
  <2> QED
    BY <1>2, <1>4, <2>2, <2>3 DEF ToSet, q
<1>6. CASE n > MaxPage
  <2>1. Len(q) = n /\ q[n] = k /\ n = MaxPage + 1 /\ k - 1 >= MaxPage + 1 - 1
    BY <1>1, <1>2, <1>3, <1>6
  <2>2. Len(q) = IF k <= MaxPage THEN k ELSE MaxPage + 1
    BY <1>1, <2>1
  <2>3. ASSUME NEW i \in 1 .. Len(q) PROVE q[i] = k - Len(q) + i /\ q[i] \in ToSet(h) \cup {k}
    <3>1. CASE i = n
      BY <1>1, <2>1, <3>1
    <3>2. CASE i \in 1 .. n - 1
      <4>1. i + 1 \in 1 .. n /\ i \in Int
        BY <1>1, <3>2
      <4>2. q[i] = h[i + 1] /\ h[i + 1] = k - 1 - n + (i + 1)
        BY <1>2, <1>3, <1>6, <3>2, <4>1
      <4>3. h[i + 1] \in ToSet(h)
        BY <1>1, <4>1 DEF ToSet
      <4>4. h[i + 1] = k - Len(q) + i
        BY <1>1, <2>1, <4>1, <4>2
      <4> QED
        BY <4>2, <4>3, <4>4
    <3> QED
      BY <1>1, <2>1, <3>1, <3>2
  <2> QED
    BY <1>2, <1>4, <2>2, <2>3 DEF ToSet, q
<1> QED
  BY <1>1, <1>5, <1>6

LEMMA PostPushServer ==
    ASSUME ServerInv, PostPush
    PROVE  ServerInv'
<1>0. /\ post.step = "push" /\ post' = [step |-> "notify", todo |-> collectors]
      /\ history' = pushHistory(history, key)
      /\ UNCHANGED <<MaxCollector, key, collectors, crashed, state, page, size, pos, torn>>
  BY DEF PostPush, collector
<1>1. post'.step = "notify" /\ post'.todo = collectors
  BY <1>0
<1>2. key > 0 /\ key \in Keys /\ history \in Seq(Keys)
  BY <1>0, Consts DEF ServerInv, PostOK, ServerTypes, Keys
<1>3. DOMAIN history = 1 .. Len(history) /\ Len(history) \in Nat /\ key \in Int /\ MaxPage \in Nat
  BY <1>2, SeqFacts, Consts
<1>4. /\ \A i \in 1 .. Len(history) : history[i] = key - 1 - Len(history) + i
      /\ Len(history) = IF key - 1 <= MaxPage THEN key - 1 ELSE MaxPage + 1
  BY <1>0, <1>3 DEF ServerInv, HistoryOK, Newest
<1>5. /\ history' \in Seq(Keys)
      /\ \A i \in 1 .. Len(history') : history'[i] = key - Len(history') + i
      /\ Len(history') = IF key <= MaxPage THEN key ELSE MaxPage + 1
      /\ ToSet(history') \subseteq ToSet(history) \cup {key}
  BY <1>0, <1>2, <1>4, PushHistory
<1>6. ServerTypes'
  BY <1>0, <1>5 DEF ServerInv, ServerTypes
<1>7. PostOK'
  BY <1>0, <1>1, <1>2 DEF ServerInv, PostOK
<1>8. HistoryOK'
  <2>1. Newest' = key
    BY <1>0, <1>1 DEF Newest
  <2>2. DOMAIN history' = 1 .. Len(history') /\ Len(history') <= MaxPage + 1
    BY <1>3, <1>5
  <2> QED
    BY <1>5, <2>1, <2>2 DEF HistoryOK
<1>9. PagesInv'
  <2> SUFFICES ASSUME NEW c \in collectors \ torn PROVE PageOK(c)'
    BY <1>0 DEF PagesInv
  <2>1. PageOK(c)
    BY DEF ServerInv, PagesInv
  <2>2. Notified(c)' = Notified(c) /\ key \notin Notified(c)
    <3>1. Top(c)' = Top(c) /\ Top(c) = key - 1
      BY <1>0, <1>1 DEF Top
    <3> QED
      BY <1>3, <3>1, NotifiedTop
  <2> QED
    BY <1>0, <1>1, <1>5, <2>1, <2>2 DEF PageOK
<1>10. PosInv'
  BY <1>0 DEF ServerInv, PosInv, PosOK
<1> QED
  BY <1>6, <1>7, <1>8, <1>9, <1>10 DEF ServerInv

LEMMA PostEndServer ==
    ASSUME ServerInv, PostEnd
    PROVE  ServerInv'
<1> USE DEF PostEnd, collector
<1>0. post.step = "notify" /\ post.todo = {} /\ post'.step = "idle" /\ post'.todo = {}
  BY DEF Idle
<1>1. ServerTypes'
  BY <1>0 DEF ServerInv, ServerTypes, Idle
<1>2. PostOK'
  BY <1>0 DEF ServerInv, PostOK
<1>3. HistoryOK'
  BY <1>0 DEF ServerInv, HistoryOK, Newest
<1>4. PagesInv'
  <2> SUFFICES ASSUME NEW c \in collectors \ torn PROVE PageOK(c)'
    BY DEF PagesInv
  <2>1. PageOK(c) /\ Top(c)' = Top(c)
    BY <1>0 DEF ServerInv, PagesInv, Top
  <2> QED
    BY <1>0, <2>1, SamePage
<1>5. PosInv'
  BY DEF ServerInv, PosInv, PosOK
<1> QED
  BY <1>1, <1>2, <1>3, <1>4, <1>5 DEF ServerInv

(* A page stays in order, and without a gap, when an event is added to it. *)
LEMMA PushPage ==
    ASSUME NEW l \in Seq(Keys), NEW k \in Keys, Ordered(l), \A i \in 1 .. Len(l) : l[i] <= k
    PROVE  LET q == pushHistory(l, k) IN
           /\ q \in Seq(Keys) /\ Ordered(q) /\ Last(q) = k /\ q # <<>>
           /\ \A i \in DOMAIN q : q[i] <= k
           /\ ToSet(q) \subseteq ToSet(l) \cup {k} /\ k \in ToSet(q)
           /\ \A e \in ToSet(l) : (\E i \in DOMAIN q : q[i] <= e) => e \in ToSet(q)
           /\ Len(q) <= MaxPage => Len(l) <= MaxPage /\ ToSet(l) \subseteq ToSet(q)
<1> DEFINE q == pushHistory(l, k)
           n == Len(l)
<1>1. /\ MaxPage \in Nat /\ k \in Int /\ n \in Nat /\ DOMAIN l = 1 .. n
      /\ \A i \in 1 .. n : l[i] \in Int
  BY Consts, SeqFacts
<1>2. /\ q \in Seq(Keys)
      /\ n <= MaxPage => Len(q) = n + 1 /\ (\A i \in 1 .. n : q[i] = l[i]) /\ q[n + 1] = k
      /\ n > MaxPage => Len(q) = n /\ (\A i \in 1 .. n - 1 : q[i] = l[i + 1]) /\ q[n] = k
  BY PushSeq
<1>3. DOMAIN q = 1 .. Len(q) /\ Len(q) \in Nat /\ (q # <<>> <=> Len(q) > 0)
  BY <1>2, SeqFacts
<1>4. \A i, j \in 1 .. n : i <= j => l[i] <= l[j]
  BY <1>1 DEF Ordered
<1>5. \A i \in 1 .. n : l[i] <= k
  OBVIOUS
<1> HIDE DEF q, n
<1> DEFINE m == Len(q) - 1
           d == n - m
<1>6. /\ m \in Nat /\ d \in {0, 1} /\ m + d = n /\ q[m + 1] = k /\ Len(q) = m + 1
      /\ \A i \in 1 .. m : q[i] = l[i + d]
      /\ d = 1 => m >= MaxPage
  BY <1>1, <1>2
<1>7. d = 0 => n <= MaxPage
  BY <1>1, <1>2
<1> HIDE DEF m, d
<1>8. \A i \in 1 .. m : i + d \in 1 .. n
  BY <1>1, <1>6
<1>9. \A i \in 1 .. m + 1 : i \in 1 .. m \/ i = m + 1
  BY <1>6
<1>10. Ordered(q)
  <2> SUFFICES ASSUME NEW i \in 1 .. m + 1, NEW j \in 1 .. m + 1, i <= j PROVE q[i] <= q[j]
    BY <1>3, <1>6 DEF Ordered
  <2>1. CASE i \in 1 .. m /\ j \in 1 .. m
    <3>1. i + d <= j + d /\ i + d \in 1 .. n /\ j + d \in 1 .. n
      BY <1>6, <1>8, <2>1
    <3>2. l[i + d] <= l[j + d]
      BY <1>4, <3>1
    <3> QED
      BY <1>6, <2>1, <3>2
  <2>2. CASE i \in 1 .. m /\ j = m + 1
    BY <1>5, <1>6, <1>8, <2>2
  <2>3. CASE i = m + 1
    <3>1. j = m + 1
      BY <1>6, <2>3
    <3> QED
      BY <1>1, <1>6, <2>3, <3>1
  <2> QED
    BY <1>9, <2>1, <2>2, <2>3
<1>11. \A i \in 1 .. m + 1 : q[i] <= k
  <2> SUFFICES ASSUME NEW i \in 1 .. m + 1 PROVE q[i] <= k
    OBVIOUS
  <2>1. CASE i \in 1 .. m
    BY <1>5, <1>6, <1>8, <2>1
  <2>2. CASE i = m + 1
    BY <1>1, <1>6, <2>2
  <2> QED
    BY <1>9, <2>1, <2>2
<1>12. ToSet(q) \subseteq ToSet(l) \cup {k} /\ k \in ToSet(q)
  <2>1. m + 1 \in DOMAIN q
    BY <1>3, <1>6
  <2>2. ASSUME NEW i \in 1 .. m + 1 PROVE q[i] \in ToSet(l) \cup {k}
    <3>1. CASE i \in 1 .. m
      BY <1>1, <1>6, <1>8, <3>1 DEF ToSet
    <3> QED
      BY <1>6, <1>9, <3>1
  <2> QED
    BY <1>3, <1>6, <2>1, <2>2 DEF ToSet
<1>13. ASSUME NEW j \in 1 .. n, NEW i \in 1 .. m + 1, q[i] <= l[j] PROVE l[j] \in ToSet(q)
  <2>1. CASE j - d \in 1 .. m
    <3>1. q[j - d] = l[(j - d) + d] /\ (j - d) + d = j
      BY <1>6, <2>1
    <3>2. j - d \in DOMAIN q
      BY <1>3, <1>6, <2>1
    <3> QED
      BY <3>1, <3>2 DEF ToSet
  <2>2. CASE j - d \notin 1 .. m
    <3>1. d = 1 /\ j = 1
      BY <1>1, <1>6, <2>2
    <3>2. CASE i \in 1 .. m
      <4>1. q[i] = l[i + d] /\ i + d \in 1 .. n /\ j <= i + d
        BY <1>6, <1>8, <3>1, <3>2
      <4>2. l[j] <= l[i + d]
        BY <1>4, <4>1
      <4>3. l[j] = q[i]
        BY <1>1, <1>13, <4>1, <4>2
      <4> QED
        BY <1>3, <1>6, <4>3 DEF ToSet
    <3>3. CASE i = m + 1
      <4>1. l[j] = k
        BY <1>1, <1>5, <1>6, <1>13, <3>3
      <4> QED
        BY <1>12, <4>1
    <3> QED
      BY <1>9, <3>2, <3>3
  <2> QED
    BY <2>1, <2>2
<1>14. ASSUME Len(q) <= MaxPage PROVE n <= MaxPage /\ ToSet(l) \subseteq ToSet(q)
  <2>1. d = 0 /\ m = n /\ n <= MaxPage
    BY <1>1, <1>6, <1>7, <1>14
  <2>2. \A j \in 1 .. n : j \in DOMAIN q /\ q[j] = l[j]
    BY <1>1, <1>3, <1>6, <2>1
  <2> QED
    BY <1>1, <2>1, <2>2 DEF ToSet
<1>15. \A e \in ToSet(l) : (\E i \in DOMAIN q : q[i] <= e) => e \in ToSet(q)
  <2> SUFFICES ASSUME NEW e \in ToSet(l), NEW i \in DOMAIN q, q[i] <= e PROVE e \in ToSet(q)
    OBVIOUS
  <2>1. PICK j \in 1 .. n : e = l[j]
    BY <1>1 DEF ToSet
  <2> QED
    BY <1>3, <1>6, <1>13, <2>1
<1>16. Last(q) = k /\ q # <<>>
  BY <1>3, <1>6 DEF Last
<1>17. \A i \in DOMAIN q : q[i] <= k
  BY <1>3, <1>6, <1>11
<1> QED
  BY <1>2, <1>10, <1>12, <1>14, <1>15, <1>16, <1>17 DEF q, n

LEMMA PostNotifyServer ==
    ASSUME ServerInv, NEW c \in Collectors, PostNotify(c)
    PROVE  ServerInv'
<1>0. /\ c \in post.todo /\ post' = [post EXCEPT !.todo = @ \ {c}]
      /\ UNCHANGED <<MaxCollector, key, history, collectors, crashed, state, size, torn>>
      /\ \/ /\ key \in Filter[c]
            /\ page' = [page EXCEPT ![c] = pushHistory(page[c], key)]
            /\ pos' = [pos EXCEPT ![c] = IF Len(page[c]) > MaxPage THEN Shift(pos[c]) ELSE pos[c]]
         \/ key \notin Filter[c] /\ UNCHANGED <<page, pos>>
  BY DEF PostNotify
<1>1. /\ post \in [step : {"idle", "push", "notify"}, todo : SUBSET Collectors]
      /\ post.step = "notify" /\ post'.step = "notify" /\ post'.todo = post.todo \ {c}
      /\ post' \in [step : {"idle", "push", "notify"}, todo : SUBSET Collectors]
      /\ key > 0 /\ key \in Keys /\ key \in Int
  <2>1. post \in [step : {"idle", "push", "notify"}, todo : SUBSET Collectors]
    BY DEF ServerInv, ServerTypes
  <2>2. post.step = "notify"
    BY <1>0 DEF ServerInv, PostOK
  <2>3. key > 0 /\ key \in 0 .. MaxKey /\ MaxKey \in Nat
    BY <2>2, Consts DEF ServerInv, PostOK, ServerTypes
  <2> QED
    BY <1>0, <2>1, <2>2, <2>3 DEF Keys
<1>2. page[c] \in Seq(Keys) /\ pos[c] \in Positions /\ PosOK(c)
      /\ Len(page[c]) \in Nat /\ DOMAIN page[c] = 1 .. Len(page[c]) /\ MaxPage \in Nat
  BY ServerFacts, Consts DEF ServerInv, PosInv
<1>3. PostOK'
  BY <1>0, <1>1 DEF ServerInv, PostOK
<1>4. HistoryOK'
  BY <1>0, <1>1 DEF ServerInv, HistoryOK, Newest
<1>5. ASSUME NEW d \in collectors \ torn, d # c PROVE PageOK(d)'
  <2>1. PageOK(d) /\ d \in Collectors
    BY ServerFacts DEF ServerInv, PagesInv
  <2>2. Top(d)' = Top(d) /\ page'[d] = page[d]
    BY <1>0, <1>1, <1>5, <2>1 DEF Top, ServerInv, ServerTypes
  <2> QED
    BY <1>0, <1>1, <2>1, <2>2, SamePage
<1>6. Top(c) = key - 1 /\ Top(c)' = key
  BY <1>0, <1>1 DEF Top
<1>7. CASE key \in Filter[c]
  <2> DEFINE q == pushHistory(page[c], key)
             p == IF Len(page[c]) > MaxPage THEN Shift(pos[c]) ELSE pos[c]
  <2>1. page' = [page EXCEPT ![c] = q] /\ pos' = [pos EXCEPT ![c] = p]
    BY <1>0, <1>7
  <2>2. /\ q \in Seq(Keys)
        /\ Len(page[c]) <= MaxPage => Len(q) = Len(page[c]) + 1
        /\ Len(page[c]) > MaxPage => Len(q) = Len(page[c])
    BY <1>1, <1>2, PushSeq
  <2>3. DOMAIN q = 1 .. Len(q)
    BY <2>2, SeqFacts
  <2>q. q = pushHistory(page[c], key)
    OBVIOUS
  <2> HIDE DEF q
  <2>4. /\ p \in Positions /\ (p.on = "page" => p.i \in DOMAIN q)
        /\ (p.on = "nil" <=> pos[c].on = "nil")
        /\ p.on = "old" => p = pos[c]
    <3>1. CASE pos[c].on # "page" \/ Len(page[c]) <= MaxPage
      <4>1. p = pos[c]
        BY <1>2, <3>1 DEF Shift
      <4>2. ASSUME pos[c].on = "page" PROVE pos[c].i \in DOMAIN q
        <5> DEFINE j == pos[c].i
                   n == Len(page[c])
        <5>1. j \in 1 .. n
          BY <1>2, <4>2 DEF PosOK
        <5>2. Len(q) = n + 1 /\ n \in Nat
          BY <1>2, <2>2, <3>1, <4>2
        <5> HIDE DEF j, n
        <5>3. j \in 1 .. Len(q)
          BY <5>1, <5>2
        <5> QED
          BY <2>3, <5>3 DEF j
      <4> QED
        BY <1>2, <4>1, <4>2
    <3>2. CASE pos[c].on = "page" /\ Len(page[c]) > MaxPage
      <4>1. pos[c].i \in 1 .. Len(page[c])
        BY <1>2, <3>2 DEF PosOK
      <4>2. CASE pos[c].i = 1
        <5>1. p = Pruned
          BY <3>2, <4>2 DEF Shift
        <5> HIDE DEF p
        <5> QED
          BY <1>2, <3>2, <5>1, PosChanges
      <4>3. CASE pos[c].i # 1
        <5>1. p = At("page", pos[c].i - 1, <<>>)
          BY <3>2, <4>3 DEF Shift
        <5> DEFINE j == pos[c].i - 1
                   n == Len(page[c])
        <5>2. n \in Nat /\ Len(q) = n
          BY <1>2, <2>2, <3>2
        <5>3. j \in Nat /\ j \in 1 .. n
          BY <4>1, <4>3, <5>2
        <5>4. p = At("page", j, <<>>)
          BY <5>1
        <5> HIDE DEF p, j, n
        <5>5. /\ At("page", j, <<>>) \in Positions
              /\ At("page", j, <<>>).on = "page" /\ At("page", j, <<>>).i = j
          BY <1>2, <5>3, PosChanges
        <5> QED
          BY <2>3, <3>2, <5>2, <5>3, <5>4, <5>5
      <4> QED
        BY <4>2, <4>3
    <3> QED
      BY <1>2, <3>1, <3>2
  <2> HIDE DEF p
  <2>5. page'[c] = q /\ pos'[c] = p
    BY <2>1 DEF ServerInv, ServerTypes
  <2>6. ServerTypes'
    BY <1>0, <1>1, <2>1, <2>2, <2>4 DEF ServerInv, ServerTypes
  <2>7. ASSUME c \in collectors \ torn PROVE PageOK(c)'
    <3>1. PageOK(c)
      BY <2>7 DEF ServerInv, PagesInv
    <3>2. Ordered(page[c]) /\ \A i \in 1 .. Len(page[c]) : page[c][i] <= key
      BY <1>2, <3>1 DEF PageOK
    <3>3. /\ Ordered(q) /\ \A i \in DOMAIN q : q[i] <= key
          /\ ToSet(q) \subseteq ToSet(page[c]) \cup {key} /\ key \in ToSet(q)
          /\ \A e \in ToSet(page[c]) : (\E i \in DOMAIN q : q[i] <= e) => e \in ToSet(q)
          /\ Len(q) <= MaxPage => Len(page[c]) <= MaxPage /\ ToSet(page[c]) \subseteq ToSet(q)
      BY <1>1, <1>2, <2>q, <3>2, PushPage
    <3>4. \A e \in Notified(c)' : e = key \/ e \in Notified(c)
      <4> SUFFICES ASSUME NEW e \in Notified(c)', e # key PROVE e \in Notified(c)
        OBVIOUS
      <4>1. e \in Filter[c] /\ e <= key
        BY <1>6 DEF Notified, Top
      <4>2. e \in Int
        BY <4>1, Consts
      <4>3. e <= key - 1
        BY <1>1, <4>1, <4>2
      <4> QED
        BY <1>6, <4>1, <4>3, NotifiedTop
    <3>5. ASSUME NEW e \in Notified(c)', NEW i \in DOMAIN q, q[i] <= e PROVE e \in ToSet(q)
      <4>1. CASE e = key
        BY <3>3, <4>1
      <4>2. CASE e \in Notified(c)
        <5>1. e \in Filter[c] /\ e <= key - 1
          BY <1>6, <4>2, NotifiedTop
        <5>2. e \in Int /\ q[i] # key
          BY <1>1, <3>5, <5>1, Consts
        <5>3. q[i] \in ToSet(page[c])
          BY <3>3, <5>2 DEF ToSet
        <5>4. e \in ToSet(page[c])
          <6>1. PICK j \in DOMAIN page[c] : q[i] = page[c][j]
            BY <5>3 DEF ToSet
          <6> QED
            BY <3>1, <3>5, <4>2, <6>1 DEF PageOK
        <5> QED
          BY <3>3, <3>5, <5>4
      <4> QED
        BY <3>4, <4>1, <4>2
    <3>6. ASSUME Len(q) <= MaxPage PROVE ToSet(history) \cap Notified(c)' \subseteq ToSet(q)
      BY <3>1, <3>3, <3>4, <3>6 DEF PageOK
    <3> QED
      BY <1>0, <1>1, <2>5, <3>3, <3>5, <3>6 DEF PageOK
  <2>8. PagesInv'
    BY <1>0, <1>5, <2>7 DEF PagesInv
  <2>9. PosInv'
    <3> SUFFICES ASSUME NEW d \in Collectors PROVE PosOK(d)'
      BY DEF PosInv
    <3>1. PosOK(d)
      BY DEF ServerInv, PosInv
    <3>2. CASE d = c
      BY <1>0, <2>4, <2>5, <3>1, <3>2 DEF PosOK
    <3>3. CASE d # c
      <4>1. page'[d] = page[d] /\ pos'[d] = pos[d]
        BY <2>1, <3>3 DEF ServerInv, ServerTypes
      <4> QED
        BY <1>0, <3>1, <4>1 DEF PosOK
    <3> QED
      BY <3>2, <3>3
  <2> QED
    BY <1>3, <1>4, <2>6, <2>8, <2>9 DEF ServerInv
<1>8. CASE key \notin Filter[c]
  <2>1. page' = page /\ pos' = pos
    BY <1>0, <1>8
  <2>2. ServerTypes'
    BY <1>0, <1>1, <2>1 DEF ServerInv, ServerTypes
  <2>3. ASSUME c \in collectors \ torn PROVE PageOK(c)'
    <3>1. PageOK(c)
      BY <2>3 DEF ServerInv, PagesInv
    <3>2. Notified(c)' = Notified(c)
      <4>1. \A e \in Filter[c] : e \in Int /\ e # key
        BY <1>8, Consts
      <4>2. \A e \in Filter[c] : e <= key - 1 <=> e <= key
        BY <1>1, <4>1
      <4> QED
        BY <1>6, <4>2 DEF Notified, Top
    <3> QED
      BY <1>0, <1>1, <2>1, <3>1, <3>2 DEF PageOK
  <2>4. PagesInv'
    BY <1>0, <1>5, <2>3 DEF PagesInv
  <2>5. PosInv'
    BY <1>0, <2>1 DEF ServerInv, PosInv, PosOK
  <2> QED
    BY <1>3, <1>4, <2>2, <2>4, <2>5 DEF ServerInv
<1> QED
  BY <1>7, <1>8

(* A list of successive events, up to event m. *)
Successive(l, m) == \A i \in DOMAIN l : l[i] = m - Len(l) + i

LEMMA SuccessiveFacts ==
    ASSUME NEW l \in Seq(Keys), NEW m \in Int, Successive(l, m)
    PROVE  /\ Ordered(l) /\ \A e \in ToSet(l) : e <= m
           /\ \A e \in Int : e <= m /\ (\E x \in ToSet(l) : x <= e) => e \in ToSet(l)
<1>1. Len(l) \in Nat /\ DOMAIN l = 1 .. Len(l) /\ \A i \in 1 .. Len(l) : l[i] = m - Len(l) + i
  BY SeqFacts DEF Successive
<1>2. Ordered(l)
  BY <1>1 DEF Ordered
<1>3. \A e \in ToSet(l) : e <= m
  BY <1>1 DEF ToSet
<1>4. ASSUME NEW e \in Int, e <= m, NEW x \in ToSet(l), x <= e PROVE e \in ToSet(l)
  <2>1. PICK i \in 1 .. Len(l) : x = l[i]
    BY <1>1 DEF ToSet
  <2> DEFINE j == e - m + Len(l)
  <2>2. j \in 1 .. Len(l) /\ e = m - Len(l) + j
    BY <1>1, <1>4, <2>1
  <2> HIDE DEF j
  <2>3. l[j] = e
    BY <1>1, <2>2
  <2> QED
    BY <1>1, <2>2, <2>3 DEF ToSet
<1> QED
  BY <1>2, <1>3, <1>4

(* What is seen of the history is successive, and complete unless it is being pruned. *)
LEMMA SeenFacts ==
    ASSUME ServerInv, NEW l \in Seen
    PROVE  /\ l \in Seq(Keys)
           /\ \E m \in Int : /\ Successive(l, m)
                             /\ ~Pruning => /\ Newest <= m /\ m <= key
                                            /\ ToSet(history) \subseteq ToSet(l)
<1>1. /\ history \in Seq(Keys) /\ Len(history) \in Nat /\ DOMAIN history = 1 .. Len(history)
      /\ key \in Int /\ MaxPage \in Nat /\ Newest \in Int /\ Newest <= key
  <2>1. history \in Seq(Keys) /\ key \in Int /\ MaxPage \in Nat
    BY ServerFacts, Consts DEF ServerInv, ServerTypes
  <2> QED
    BY <2>1, SeqFacts DEF Newest
<1>2. /\ \A i \in 1 .. Len(history) : history[i] = Newest - Len(history) + i
      /\ Len(history) = IF Newest <= MaxPage THEN Newest ELSE MaxPage + 1
  BY <1>1 DEF ServerInv, HistoryOK
<1>3. CASE l = history
  BY <1>1, <1>2, <1>3 DEF Successive
<1>4. ASSUME l # history
      PROVE  /\ post.step = "push" /\ key \in Keys
             /\ \/ l = Append(history, key)
                \/ l = pushHistory(history, key)
                \/ Pruning /\ l = <<Head(history)>>
  <2>1. /\ post.step = "push"
        /\ \/ l = Append(history, key)
           \/ l = pushHistory(history, key)
           \/ Pruning /\ l = <<Head(history)>>
    BY <1>4 DEF Seen
  <2>2. key > 0 /\ key \in 0 .. MaxKey /\ MaxKey \in Nat
    BY <2>1, Consts DEF ServerInv, PostOK, ServerTypes
  <2> QED
    BY <2>1, <2>2 DEF Keys
<1>5. ASSUME l # history
      PROVE  /\ Newest = key - 1
             /\ \A i \in 1 .. Len(history) : history[i] = key - 1 - Len(history) + i
  BY <1>1, <1>2, <1>4, <1>5 DEF Newest
<1>6. CASE l # history /\ l = Append(history, key)
  <2>1. /\ l \in Seq(Keys) /\ Len(l) = Len(history) + 1 /\ l[Len(history) + 1] = key
        /\ \A i \in 1 .. Len(history) : l[i] = history[i]
    <3>1. key \in Keys
      BY <1>4, <1>6
    <3>2. LET a == Append(history, key) IN
          /\ a \in Seq(Keys) /\ Len(a) = Len(history) + 1 /\ a[Len(history) + 1] = key
          /\ \A i \in 1 .. Len(history) : a[i] = history[i]
      BY <1>1, <3>1, SeqFacts
    <3> QED
      BY <1>6, <3>2
  <2>2. DOMAIN l = 1 .. Len(history) + 1
    BY <2>1, SeqFacts
  <2>3. Successive(l, key)
    <3> SUFFICES ASSUME NEW i \in 1 .. Len(history) + 1 PROVE l[i] = key - Len(l) + i
      BY <2>2 DEF Successive
    <3>1. CASE i = Len(history) + 1
      BY <1>1, <2>1, <3>1
    <3>2. CASE i \in 1 .. Len(history)
      <4>1. l[i] = history[i] /\ history[i] = key - 1 - Len(history) + i
        BY <1>5, <1>6, <2>1, <3>2
      <4> QED
        BY <1>1, <2>1, <4>1
    <3> QED
      BY <1>1, <3>1, <3>2
  <2>4. ToSet(history) \subseteq ToSet(l)
    BY <1>1, <2>1, <2>2 DEF ToSet
  <2> QED
    BY <1>1, <2>1, <2>3, <2>4
<1>7. CASE l # history /\ l = pushHistory(history, key)
  <2>1. /\ l \in Seq(Keys)
        /\ \A i \in 1 .. Len(l) : l[i] = key - Len(l) + i
    <3>1. Len(history) = IF key - 1 <= MaxPage THEN key - 1 ELSE MaxPage + 1
      BY <1>2, <1>5, <1>7
    <3> QED
      BY <1>1, <1>4, <1>5, <1>7, <3>1, PushHistory
  <2>2. DOMAIN l = 1 .. Len(l)
    BY <2>1, SeqFacts
  <2>3. Successive(l, key)
    BY <2>1, <2>2 DEF Successive
  <2>4. ASSUME ~Pruning PROVE ToSet(history) \subseteq ToSet(l)
    <3>1. Len(history) <= MaxPage
      BY <1>1, <1>4, <1>7, <2>4 DEF Pruning
    <3>2. Len(l) = Len(history) + 1 /\ \A i \in 1 .. Len(history) : l[i] = history[i]
      BY <1>1, <1>4, <1>7, <3>1, PushSeq
    <3>3. \A i \in 1 .. Len(history) : i \in DOMAIN l
      BY <1>1, <2>2, <3>2
    <3> QED
      BY <1>1, <3>2, <3>3 DEF ToSet
  <2> QED
    BY <1>1, <2>1, <2>3, <2>4
<1>8. CASE l # history /\ Pruning /\ l = <<Head(history)>>
  <2>1. history # <<>>
    BY <1>1, <1>8 DEF Pruning
  <2>2. history[1] \in Keys /\ history[1] \in Int /\ l = <<history[1]>>
    BY <1>1, <1>8, <2>1, TailFacts, Consts
  <2>3. l \in Seq(Keys) /\ Len(l) = 1 /\ DOMAIN l = {1} /\ l[1] = history[1]
    BY <2>2
  <2>4. Successive(l, history[1])
    BY <2>2, <2>3 DEF Successive
  <2> QED
    BY <1>8, <2>2, <2>3, <2>4
<1> QED
  BY <1>3, <1>4, <1>6, <1>7, <1>8

(* A page filled with successive events that are not behind c has no gap. *)
LEMMA FilledPage ==
    ASSUME ServerInv, NEW c \in Collectors, NEW l \in Seq(Keys), NEW m \in Int, Successive(l, m),
           Newest <= m, m <= key, ToSet(history) \subseteq ToSet(l), ~Pruning,
           page'[c] = Fill(c, l), key' = key, history' = history, post' = post
    PROVE  PageOK(c)'
<1> DEFINE f == Fill(c, l)
<1>1. /\ Ordered(l) /\ \A e \in ToSet(l) : e <= m
      /\ \A e \in Int : e <= m /\ (\E x \in ToSet(l) : x <= e) => e \in ToSet(l)
  BY SuccessiveFacts
<1>2. f \in Seq(Keys) /\ Ordered(f) /\ ToSet(f) = ToSet(l) \cap Filter[c]
  BY <1>1, FillSeq
<1>3. Notified(c)' = Notified(c) /\ \A e \in Notified(c) : e \in Filter[c] /\ e <= m /\ e \in Int
  <2>1. Top(c)' = Top(c)
    BY DEF Top
  <2>2. Top(c) <= Newest /\ Top(c) \in Int /\ Newest \in Int
    BY ServerFacts DEF Top, Newest
  <2>3. \A e \in Notified(c) : e \in Filter[c] /\ e <= Top(c) /\ e \in Int
    BY NotifiedTop, Consts
  <2> QED
    BY <2>1, <2>2, <2>3, NotifiedTop
<1>f. page'[c] = f
  OBVIOUS
<1> HIDE DEF f
<1>4. \A i \in DOMAIN f : f[i] \in ToSet(f) /\ f[i] \in ToSet(l) /\ f[i] \in Int
  <2>1. \A i \in DOMAIN f : f[i] \in ToSet(f)
    BY DEF ToSet
  <2>2. \A i \in DOMAIN f : f[i] \in Keys
    BY <1>2
  <2> QED
    BY <1>2, <2>1, <2>2, Consts
<1>5. \A i \in DOMAIN f : f[i] <= key
  <2>1. \A i \in DOMAIN f : f[i] <= m
    BY <1>1, <1>4
  <2> QED
    BY <1>4, <2>1, ServerFacts
<1>6. ASSUME NEW e \in Notified(c), NEW i \in DOMAIN f, f[i] <= e PROVE e \in ToSet(f)
  <2>1. e \in ToSet(l)
    BY <1>1, <1>3, <1>4, <1>6
  <2> QED
    BY <1>2, <1>3, <2>1
<1>7. ToSet(history) \cap Notified(c) \subseteq ToSet(f)
  BY <1>2, <1>3
<1>8. ~(post'.step = "push" /\ Len(history') > MaxPage)
  BY DEF Pruning
<1> QED
  BY <1>2, <1>3, <1>f, <1>5, <1>6, <1>7, <1>8 DEF PageOK

LEMMA CreateServer ==
    ASSUME ServerInv, NEW c \in Collectors, Create(c)
    PROVE  ServerInv'
<1>0. /\ post = Idle /\ state[c] = "new" /\ FreeSlot
      /\ state' = [state EXCEPT ![c] = "live"]
      /\ page' = [page EXCEPT ![c] = Fill(c, history)]
      /\ collectors' = collectors \cup {c}
      /\ UNCHANGED <<MaxCollector, key, history, post, crashed, size, pos, torn>>
  BY DEF Create
<1>1. post.step = "idle" /\ post.todo = {} /\ ~Pruning
  BY <1>0 DEF Idle, Pruning
<1>2. history \in Seq(Keys) /\ Newest = key /\ key \in Int /\ Successive(history, key)
  BY <1>1, ServerFacts DEF ServerInv, ServerTypes, Newest, HistoryOK, Successive
<1>3. Fill(c, history) \in Seq(Keys)
  BY <1>2, SuccessiveFacts, FillSeq
<1>4. /\ page'[c] = Fill(c, history)
      /\ \A d \in Collectors : d # c => page'[d] = page[d] /\ state'[d] = state[d]
      /\ state'[c] = "live"
  BY <1>0 DEF ServerInv, ServerTypes
<1>5. IsFiniteSet(collectors') /\ Cardinality(collectors') <= MaxCollector
  <2>1. /\ IsFiniteSet(collectors) /\ Cardinality(collectors) < MaxCollector
        /\ MaxCollector \in Nat /\ Cardinality(collectors) \in Nat
    BY <1>0, FS_CardinalityType, Consts DEF ServerInv, ServerTypes, FreeSlot
  <2>2. /\ IsFiniteSet(collectors')
        /\ Cardinality(collectors') = IF c \in collectors THEN Cardinality(collectors)
                                      ELSE Cardinality(collectors) + 1
    BY <1>0, <2>1, FS_AddElement
  <2> QED
    BY <2>1, <2>2
<1>6. ServerTypes'
  BY <1>0, <1>3, <1>5 DEF ServerInv, ServerTypes
<1>7. PostOK'
  BY <1>0, <1>1, <1>4 DEF ServerInv, PostOK
<1>8. HistoryOK'
  BY <1>0 DEF ServerInv, HistoryOK, Newest
<1>9. PagesInv'
  <2> SUFFICES ASSUME NEW d \in collectors' \ torn PROVE PageOK(d)'
    BY <1>0 DEF PagesInv
  <2>1. CASE d = c
    <3>1. PageOK(c)'
      BY <1>0, <1>1, <1>2, <1>4, FilledPage
    <3> QED
      BY <2>1, <3>1
  <2>2. CASE d # c
    <3>1. d \in collectors \ torn /\ PageOK(d) /\ page'[d] = page[d]
      BY <1>0, <1>4, <2>2, ServerFacts DEF ServerInv, PagesInv
    <3>2. Top(d)' = Top(d)
      BY <1>0 DEF Top
    <3> QED
      BY <1>0, <3>1, <3>2, SamePage
  <2> QED
    BY <2>1, <2>2
<1>10. PosInv'
  <2> SUFFICES ASSUME NEW d \in Collectors PROVE PosOK(d)'
    BY DEF PosInv
  <2>1. PosOK(d)
    BY DEF ServerInv, PosInv
  <2>2. CASE d = c
    BY <1>0, <1>4, <2>1, <2>2 DEF PosOK
  <2>3. CASE d # c
    BY <1>0, <1>4, <2>1, <2>3 DEF PosOK
  <2> QED
    BY <2>2, <2>3
<1> QED
  BY <1>6, <1>7, <1>8, <1>9, <1>10 DEF ServerInv

(* Between two events of a complete page there is no gap, the newest one included. *)
LEMMA PageNoGap ==
    ASSUME ServerInv, NEW c \in Collectors, PageOK(c)
    PROVE  NoGap(c, page[c])
<1> DEFINE l == page[c]
<1> SUFFICES ASSUME NEW e \in Filter[c], NEW i \in DOMAIN l, NEW j \in DOMAIN l, l[i] <= e, e <= l[j]
             PROVE  e \in ToSet(l)
  BY DEF NoGap
<1>1. e \in Int /\ l[j] \in Int /\ l[j] <= key /\ key \in Int
  BY ServerFacts, Consts DEF PageOK
<1>2. CASE e = l[j]
  BY <1>2 DEF ToSet
<1>3. CASE e # l[j]
  <2>1. e <= Top(c)
    BY <1>1, <1>3 DEF Top
  <2>2. e \in Notified(c)
    BY <2>1, NotifiedTop
  <2> QED
    BY <2>2 DEF PageOK
<1> QED
  BY <1>2, <1>3

LEMMA SetPageSizeServer ==
    ASSUME ServerInv, NEW c \in Collectors, NEW n \in Nat, SetPageSize(c, n)
    PROVE  ServerInv'
<1> DEFINE p == IF pos[c].on = "page" THEN At("old", pos[c].i, page[c]) ELSE pos[c]
<1>0. /\ state[c] = "live" /\ size' = [size EXCEPT ![c] = n]
      /\ pos' = [pos EXCEPT ![c] = p]
      /\ torn' = IF Pruning THEN torn \cup {c} ELSE torn
      /\ UNCHANGED <<MaxCollector, key, history, collectors, post, crashed, state>>
  BY DEF SetPageSize, manager
<1>1. PICK l \in Seen : page' = [page EXCEPT ![c] = Fill(c, l)]
  BY DEF SetPageSize
<1>2. l \in Seq(Keys)
  BY SeenFacts
<1>3. PICK m \in Int : /\ Successive(l, m)
                       /\ ~Pruning => /\ Newest <= m /\ m <= key
                                      /\ ToSet(history) \subseteq ToSet(l)
  BY SeenFacts
<1>4. Fill(c, l) \in Seq(Keys)
  BY <1>2, <1>3, SuccessiveFacts, FillSeq
<1>5. c \in collectors /\ pos[c] \in Positions /\ page[c] \in Seq(Keys) /\ PosOK(c)
  BY <1>0, ServerFacts DEF ServerInv, PostOK, PosInv
<1>6. /\ p \in Positions /\ p.on # "page" /\ (p.on = "nil" <=> pos[c].on = "nil")
      /\ p.on = "old" => \/ p = pos[c]
                         \/ pos[c].on = "page" /\ p.i = pos[c].i /\ p.list = page[c]
  BY <1>5, PosChanges
<1> HIDE DEF p
<1>7. /\ page'[c] = Fill(c, l) /\ pos'[c] = p
      /\ \A d \in Collectors : d # c => page'[d] = page[d] /\ pos'[d] = pos[d]
  BY <1>0, <1>1 DEF ServerInv, ServerTypes
<1>8. torn \subseteq torn' /\ torn' \subseteq torn \cup {c} /\ (c \notin torn' => ~Pruning)
  BY <1>0
<1>9. ServerTypes'
  <2>1. page' \in [Collectors -> Seq(Keys)]
    BY <1>1, <1>4 DEF ServerInv, ServerTypes
  <2>2. pos' \in [Collectors -> Positions]
    BY <1>0, <1>6 DEF ServerInv, ServerTypes
  <2> QED
    BY <1>0, <1>8, <2>1, <2>2 DEF ServerInv, ServerTypes
<1>10. PostOK'
  BY <1>0 DEF ServerInv, PostOK
<1>11. HistoryOK'
  BY <1>0 DEF ServerInv, HistoryOK, Newest
<1>12. PagesInv'
  <2> SUFFICES ASSUME NEW d \in collectors \ torn' PROVE PageOK(d)'
    BY <1>0 DEF PagesInv
  <2>1. CASE d = c
    <3>1. ~Pruning
      BY <1>8, <2>1
    <3>2. PageOK(c)'
      BY <1>0, <1>2, <1>3, <1>7, <3>1, FilledPage
    <3> QED
      BY <2>1, <3>2
  <2>2. CASE d # c
    <3>1. d \in collectors \ torn /\ PageOK(d) /\ page'[d] = page[d]
      BY <1>7, <1>8, <2>2, ServerFacts DEF ServerInv, PagesInv
    <3>2. Top(d)' = Top(d)
      BY <1>0 DEF Top
    <3> QED
      BY <1>0, <3>1, <3>2, SamePage
  <2> QED
    BY <2>1, <2>2
<1>13. PosInv'
  <2> SUFFICES ASSUME NEW d \in Collectors PROVE PosOK(d)'
    BY DEF PosInv
  <2>1. PosOK(d)
    BY DEF ServerInv, PosInv
  <2>2. CASE d = c
    <3>1. ASSUME c \notin torn PROVE Ordered(page[c]) /\ NoGap(c, page[c])
      <4>1. PageOK(c)
        BY <1>5, <3>1 DEF ServerInv, PagesInv
      <4> QED
        BY <4>1, PageNoGap DEF PageOK
    <3>2. CASE p.on # "old"
      BY <1>0, <1>5, <1>6, <1>7, <2>2, <3>2 DEF PosOK
    <3>3. CASE p.on = "old" /\ p = pos[c]
      <4>1. /\ p.i \in DOMAIN p.list
            /\ c \notin torn => Ordered(p.list) /\ NoGap(c, p.list)
        BY <1>5, <3>3 DEF PosOK
      <4> QED
        BY <1>0, <1>5, <1>6, <1>7, <1>8, <2>2, <3>3, <4>1 DEF PosOK, NoGap
    <3>4. CASE p.on = "old" /\ pos[c].on = "page" /\ p.i = pos[c].i /\ p.list = page[c]
      <4>1. p.i \in DOMAIN p.list
        BY <1>5, <3>4 DEF PosOK
      <4>2. c \notin torn' => Ordered(p.list) /\ NoGap(c, p.list)
        BY <1>8, <3>1, <3>4
      <4> QED
        BY <1>0, <1>5, <1>6, <1>7, <2>2, <3>4, <4>1, <4>2 DEF PosOK, NoGap
    <3> QED
      BY <1>6, <3>2, <3>3, <3>4
  <2>3. CASE d # c
    BY <1>0, <1>7, <1>8, <2>1, <2>3 DEF PosOK
  <2> QED
    BY <2>2, <2>3
<1> QED
  BY <1>9, <1>10, <1>11, <1>12, <1>13 DEF ServerInv

LEMMA DestroyServer ==
    ASSUME ServerInv, NEW c \in Collectors, Destroy(c)
    PROVE  ServerInv'
<1>0. /\ state' = [state EXCEPT ![c] = "gone"] /\ collectors' = collectors \ {c}
      /\ post' = [post EXCEPT !.todo = @ \ {c}] /\ crashed' \in BOOLEAN
      /\ UNCHANGED <<MaxCollector, key, history, page, size, pos, torn>>
  BY DEF Destroy
<1>1. /\ post' \in [step : {"idle", "push", "notify"}, todo : SUBSET Collectors]
      /\ post'.step = post.step /\ post'.todo = post.todo \ {c}
  BY <1>0 DEF ServerInv, ServerTypes
<1>2. IsFiniteSet(collectors') /\ Cardinality(collectors') <= MaxCollector
  <2>1. /\ IsFiniteSet(collectors) /\ Cardinality(collectors) <= MaxCollector
        /\ MaxCollector \in Nat /\ Cardinality(collectors) \in Nat
    BY FS_CardinalityType, Consts DEF ServerInv, ServerTypes
  <2>2. /\ IsFiniteSet(collectors')
        /\ Cardinality(collectors') = IF c \in collectors THEN Cardinality(collectors) - 1
                                      ELSE Cardinality(collectors)
    BY <1>0, <2>1, FS_RemoveElement
  <2> QED
    BY <2>1, <2>2
<1>3. ServerTypes'
  BY <1>0, <1>1, <1>2 DEF ServerInv, ServerTypes
<1>4. PostOK'
  <2>1. \A d \in Collectors : state'[d] = "live" => d # c /\ state[d] = "live"
    BY <1>0 DEF ServerInv, ServerTypes
  <2> QED
    BY <1>0, <1>1, <2>1 DEF ServerInv, PostOK
<1>5. HistoryOK'
  BY <1>0, <1>1 DEF ServerInv, HistoryOK, Newest
<1>6. PagesInv'
  <2> SUFFICES ASSUME NEW d \in (collectors \ {c}) \ torn PROVE PageOK(d)'
    BY <1>0 DEF PagesInv
  <2>1. PageOK(d) /\ Top(d)' = Top(d)
    BY <1>0, <1>1 DEF ServerInv, PagesInv, Top
  <2> QED
    BY <1>0, <1>1, <2>1, SamePage
<1>7. PosInv'
  <2>1. \A d \in Collectors : state'[d] = "new" => state[d] = "new"
    BY <1>0 DEF ServerInv, ServerTypes
  <2> QED
    BY <1>0, <2>1 DEF ServerInv, PosInv, PosOK
<1> QED
  BY <1>3, <1>4, <1>5, <1>6, <1>7 DEF ServerInv

LEMMA EndSessionServer ==
    ASSUME ServerInv, NEW c \in Collectors, EndSession(c)
    PROVE  ServerInv'
<1>0. /\ state' = [state EXCEPT ![c] = "orphan"]
      /\ UNCHANGED <<MaxCollector, key, history, collectors, post, crashed>>
      /\ UNCHANGED <<page, size, pos, torn>>
  BY DEF EndSession, manager
<1>1. ServerTypes'
  BY <1>0 DEF ServerInv, ServerTypes
<1>2. \A d \in Collectors : /\ state'[d] = "live" => state[d] = "live"
                            /\ state'[d] = "new" => state[d] = "new"
  BY <1>0 DEF ServerInv, ServerTypes
<1>3. PostOK'
  BY <1>0, <1>2 DEF ServerInv, PostOK
<1>4. HistoryOK'
  BY <1>0 DEF ServerInv, HistoryOK, Newest
<1>5. PagesInv'
  BY <1>0 DEF ServerInv, PagesInv, PageOK, Notified
<1>6. PosInv'
  BY <1>0, <1>2 DEF ServerInv, PosInv, PosOK
<1> QED
  BY <1>1, <1>3, <1>4, <1>5, <1>6 DEF ServerInv

(* A position that moves within its list, or to an element of the page. *)
LEMMA MoveServer ==
    ASSUME ServerInv, NEW c \in Collectors, state[c] = "live", NEW p \in Positions,
           p.on = "page" => p.i \in DOMAIN page[c],
           p.on = "old" => pos[c].on = "old" /\ p.list = pos[c].list /\ p.i \in DOMAIN p.list,
           pos' = [pos EXCEPT ![c] = p], UNCHANGED <<manager, state, page, size, torn>>
    PROVE  ServerInv'
<1> USE DEF manager
<1>1. ServerTypes'
  BY DEF ServerInv, ServerTypes
<1>2. PostOK'
  BY DEF ServerInv, PostOK
<1>3. HistoryOK'
  BY DEF ServerInv, HistoryOK, Newest
<1>4. PagesInv'
  BY DEF ServerInv, PagesInv, PageOK, Notified
<1>5. PosInv'
  <2> SUFFICES ASSUME NEW d \in Collectors PROVE PosOK(d)'
    BY DEF PosInv
  <2>1. PosOK(d)
    BY DEF ServerInv, PosInv
  <2>2. pos'[d] = IF d = c THEN p ELSE pos[d]
    BY DEF ServerInv, ServerTypes
  <2>3. CASE d = c
    BY <2>1, <2>2, <2>3 DEF PosOK
  <2>4. CASE d # c
    BY <2>1, <2>2, <2>4 DEF PosOK
  <2> QED
    BY <2>3, <2>4
<1> QED
  BY <1>1, <1>2, <1>3, <1>4, <1>5 DEF ServerInv

LEMMA ScrollServer ==
    ASSUME ServerInv, NEW c \in Collectors, ResetCollector(c) \/ RewindCollector(c)
    PROVE  ServerInv'
<1>1. page[c] \in Seq(Keys) /\ pos[c] \in Positions
  BY ServerFacts
<1>2. PICK i \in {1, Len(page[c])} :
          /\ state[c] = "live" /\ UNCHANGED <<manager, state, page, size, torn>>
          /\ pos' = [pos EXCEPT ![c] = IF page[c] = <<>> THEN NoPos ELSE At("page", i, <<>>)]
  BY DEF ResetCollector, RewindCollector
<1>3. CASE page[c] = <<>>
  <2>1. NoPos \in Positions /\ NoPos.on = "nil"
    BY <1>1, PosChanges
  <2>2. pos' = [pos EXCEPT ![c] = NoPos]
    BY <1>2, <1>3
  <2> QED
    BY <1>2, <2>1, <2>2, MoveServer
<1>4. CASE page[c] # <<>>
  <2>1. i \in DOMAIN page[c] /\ i \in Nat
    BY <1>1, <1>4, SeqFacts
  <2>2. pos' = [pos EXCEPT ![c] = At("page", i, <<>>)]
    BY <1>2, <1>4
  <2>3. At("page", i, <<>>) \in Positions /\ At("page", i, <<>>).on = "page" /\ At("page", i, <<>>).i = i
    BY <1>1, <2>1, PosChanges
  <2> QED
    BY <1>2, <2>1, <2>2, <2>3, MoveServer
<1> QED
  BY <1>3, <1>4

(* A read takes elements of the list of the position, of which it moves to the last. *)
LEMMA ReadMoves ==
    ASSUME ServerInv, NEW c \in Collectors, NEW items \in Seq(Keys), NEW by \in {1, -1},
           pos[c].on = "nil" => Len(items) <= Len(page[c]),
           items # <<>> /\ pos[c].on # "nil" =>
               pos[c].on # "pruned" /\ pos[c].i + by * Len(items) \in 1 .. Len(ListOf(c)),
           Read(c, items, by)
    PROVE  ServerInv'
<1>1. page[c] \in Seq(Keys) /\ pos[c] \in Positions /\ pos[c].list \in Seq(Keys)
      /\ Len(page[c]) \in Nat /\ DOMAIN page[c] = 1 .. Len(page[c])
  BY ServerFacts DEF Positions
<1>2. state[c] = "live" /\ UNCHANGED <<manager, state, page, size, torn>>
  BY DEF Read
<1>3. CASE items = <<>>
  <2>1. UNCHANGED <<manager, collector>>
    BY <1>2, <1>3 DEF Read, collector
  <2> QED
    BY <2>1, ServerUnchanged
<1>4. CASE items # <<>> /\ pos[c].on = "nil"
  <2> DEFINE i == IF by = 1 THEN Len(items) ELSE Len(page[c]) + 1 - Len(items)
  <2>1. pos' = [pos EXCEPT ![c] = At("page", i, <<>>)]
    BY <1>4 DEF Read
  <2>2. Len(items) \in Nat /\ Len(items) > 0 /\ Len(items) <= Len(page[c])
    BY <1>4, SeqFacts
  <2>3. i \in Nat /\ i \in DOMAIN page[c]
    BY <1>1, <2>2
  <2> HIDE DEF i
  <2>4. At("page", i, <<>>) \in Positions /\ At("page", i, <<>>).on = "page" /\ At("page", i, <<>>).i = i
    BY <1>1, <2>3, PosChanges
  <2> QED
    BY <1>2, <2>1, <2>3, <2>4, MoveServer
<1>5. CASE items # <<>> /\ pos[c].on # "nil"
  <2> DEFINE i == pos[c].i + by * Len(items)
             p == At(pos[c].on, i, pos[c].list)
  <2>1. pos' = [pos EXCEPT ![c] = p]
    BY <1>5 DEF Read
  <2>2. pos[c].on \in {"page", "old"} /\ i \in 1 .. Len(ListOf(c))
    BY <1>1, <1>5 DEF Positions
  <2> HIDE DEF i
  <2>3. ListOf(c) = (IF pos[c].on = "old" THEN pos[c].list ELSE page[c]) /\ i \in DOMAIN ListOf(c) /\ i \in Nat
    BY <1>1, <2>2, SeqFacts DEF ListOf
  <2>4. p \in Positions /\ p.on = pos[c].on /\ p.i = i /\ p.list = pos[c].list
    BY <1>1, <2>3 DEF At, Positions
  <2> HIDE DEF p
  <2> QED
    BY <1>2, <2>1, <2>2, <2>3, <2>4, MoveServer
<1> QED
  BY <1>3, <1>4, <1>5

LEMMA ReadServer ==
    ASSUME ServerInv, NEW c \in Collectors, NEW n \in Reads,
           ReadNextEvents(c, n) \/ ReadPreviousEvents(c, n)
    PROVE  ServerInv'
<1>1. page[c] \in Seq(Keys) /\ pos[c] \in Positions /\ ServerTypes /\ PosInv
  BY ServerFacts DEF ServerInv
<1>2. pos[c].on \in {"nil", "page", "old", "pruned"} /\ pos[c].i \in Nat
  BY <1>1 DEF Positions
<1>0. PICK by \in {1, -1} : \E items : /\ Read(c, items, by)
                                       /\ by = 1 => items = First(After(c), n)
                                       /\ by = -1 => items = First(Before(c), n)
  BY DEF ReadNextEvents, ReadPreviousEvents
<1>3. PICK items : /\ Read(c, items, by)
                   /\ by = 1 => items = First(After(c), n)
                   /\ by = -1 => items = First(Before(c), n)
  BY <1>0
<1>4. CASE pos[c].on = "nil"
  <2>1. After(c) = page[c] /\ Before(c) = Reverse(page[c])
    BY <1>4 DEF After, Before
  <2>2. /\ Before(c) \in Seq(Keys) /\ After(c) \in Seq(Keys)
        /\ Len(Before(c)) = Len(page[c]) /\ Len(After(c)) = Len(page[c])
    BY <1>1, <2>1, ReverseFacts
  <2>3. items \in Seq(Keys) /\ Len(items) <= Len(page[c])
    BY <1>3, <2>2, FirstFacts
  <2> QED
    BY <1>3, <1>4, <2>3, ReadMoves
<1>5. CASE pos[c].on = "pruned"
  <2>1. After(c) = <<>> /\ Before(c) = <<>> /\ <<>> \in Seq(Keys) /\ Len(<<>>) = 0
    BY <1>5 DEF After, Before
  <2>2. items \in Seq(Keys) /\ Len(items) <= 0
    BY <1>3, <2>1, FirstFacts
  <2>3. items = <<>>
    BY <2>2, SeqFacts
  <2> QED
    BY <1>3, <1>5, <2>2, <2>3, ReadMoves
<1>6. CASE pos[c].on \in {"page", "old"}
  <2> DEFINE i == pos[c].i
             k == Len(ListOf(c))
  <2>1. /\ ListOf(c) \in Seq(Keys) /\ i \in 1 .. k
        /\ First(After(c), n) \in Seq(Keys) /\ i + Len(First(After(c), n)) <= k
        /\ First(Before(c), n) \in Seq(Keys) /\ i - Len(First(Before(c), n)) >= 1
    BY <1>1, <1>6, ReadFacts
  <2>2. k \in Nat
    BY <2>1, SeqFacts
  <2>3. /\ items \in Seq(Keys) /\ Len(items) \in Nat
        /\ by = 1 => i + Len(items) <= k
        /\ by = -1 => i - Len(items) >= 1
    BY <1>3, <2>1, SeqFacts
  <2> HIDE DEF i, k
  <2>4. i + by * Len(items) \in 1 .. k
    <3>1. CASE by = 1
      BY <2>1, <2>2, <2>3, <3>1
    <3>2. CASE by = -1
      BY <2>1, <2>2, <2>3, <3>2
    <3> QED
      BY <3>1, <3>2
  <2>5. pos[c].i + by * Len(items) \in 1 .. Len(ListOf(c))
    BY <2>4 DEF i, k
  <2> QED
    BY <1>3, <1>6, <2>3, <2>5, ReadMoves
<1> QED
  BY <1>2, <1>4, <1>5, <1>6

(* The invariant of the server is inductive. *)
LEMMA ServerStep ==
    ASSUME ServerInv, [Next]_vars
    PROVE  ServerInv'
<1>0. Followed \in Collectors /\ Sizes \subseteq Nat
  BY Consts
<1>1. CASE PostBegin
  BY <1>1, PostBeginServer
<1>2. CASE PostStep
  BY <1>2, PostPushServer, PostEndServer, PostNotifyServer DEF PostStep
<1>3. CASE TailCreate
  <2>1. Create(Followed) \/ UNCHANGED <<manager, collector>>
    BY <1>3 DEF TailCreate
  <2> QED
    BY <1>0, <2>1, CreateServer, ServerUnchanged
<1>4. CASE TailSize
  BY <1>0, <1>4, SetPageSizeServer DEF TailSize
<1>5. CASE Listen \/ Collect \/ TailUpdate
  <2>1. UNCHANGED <<manager, collector>>
    BY <1>5 DEF Listen, Collect, TailUpdate
  <2> QED
    BY <2>1, ServerUnchanged
<1>6. CASE TailStop
  BY <1>0, <1>6, DestroyServer DEF TailStop
<1>7. ASSUME NEW c \in Collectors,
             \/ CreateCollectorForEvents(c) \/ DestroyCollector(c) \/ EndSession(c)
             \/ ResetCollector(c) \/ RewindCollector(c)
             \/ \E n \in Sizes : SetCollectorPageSize(c, n)
             \/ \E n \in Reads : ReadNextEvents(c, n) \/ ReadPreviousEvents(c, n)
      PROVE  ServerInv'
  <2>1. CASE CreateCollectorForEvents(c)
    BY <2>1, CreateServer DEF CreateCollectorForEvents
  <2>2. CASE DestroyCollector(c)
    BY <2>2, DestroyServer DEF DestroyCollector
  <2>3. CASE EndSession(c)
    BY <2>3, EndSessionServer
  <2>4. CASE ResetCollector(c) \/ RewindCollector(c)
    BY <2>4, ScrollServer
  <2>5. CASE \E n \in Sizes : SetCollectorPageSize(c, n)
    BY <1>0, <2>5, SetPageSizeServer DEF SetCollectorPageSize
  <2>6. CASE \E n \in Reads : ReadNextEvents(c, n) \/ ReadPreviousEvents(c, n)
    BY <2>6, ReadServer
  <2> QED
    BY <1>7, <2>1, <2>2, <2>3, <2>4, <2>5, <2>6
<1>8. CASE UNCHANGED vars
  <2>1. UNCHANGED <<manager, collector>>
    BY <1>8 DEF vars
  <2> QED
    BY <2>1, ServerUnchanged
<1> QED
  BY <1>1, <1>2, <1>3, <1>4, <1>5, <1>6, <1>7, <1>8 DEF Next, TailStep

-----------------------------------------------------------------------------
(* The client, while nothing is done to its collector. *)
LEMMA SameClient ==
    ASSUME ClientInv, UNCHANGED client, page'[Followed] = page[Followed],
           state'[Followed] = state[Followed], size'[Followed] = size[Followed],
           Listening => Notified(Followed)' = Notified(Followed)
    PROVE  ClientInv'
<1> USE DEF client
<1>1. ClientTypes'
  BY DEF ClientInv, ClientTypes
<1>2. FollowedOK'
  BY DEF ClientInv, FollowedOK, Listening
<1>3. TailedInv'
  BY DEF ClientInv, TailedInv, Listening, ToCome
<1>4. CurrentInv'
  BY DEF ClientInv, CurrentInv
<1> QED
  BY <1>1, <1>2, <1>3, <1>4 DEF ClientInv

LEMMA PostBeginClient ==
    ASSUME ServerInv, ClientInv, PostBegin
    PROVE  ClientInv'
<1>1. UNCHANGED <<client, page, state, size>>
  BY DEF PostBegin, collector
<1>2. Top(Followed)' = Top(Followed)
  BY ServerFacts DEF PostBegin, Top, Idle
<1> QED
  BY <1>1, <1>2, NotifiedTop, SameClient

(* A client that listens is notified: its collector is in the map. *)
LEMMA PostPushClient ==
    ASSUME ServerInv, ClientInv, PostPush
    PROVE  ClientInv'
<1>1. UNCHANGED <<client, page, state, size>>
  BY DEF PostPush, collector
<1>2. ASSUME Listening PROVE Top(Followed)' = Top(Followed)
  <2>1. Followed \in collectors
    BY <1>2, Consts DEF ClientInv, FollowedOK, Listening, ServerInv, PostOK
  <2> QED
    BY <2>1 DEF PostPush, Top
<1> QED
  BY <1>1, <1>2, NotifiedTop, SameClient

LEMMA PostEndClient ==
    ASSUME ServerInv, ClientInv, PostEnd
    PROVE  ClientInv'
<1>1. UNCHANGED <<client, page, state, size>>
  BY DEF PostEnd, collector
<1>2. Top(Followed)' = Top(Followed)
  BY DEF PostEnd, Top, Idle
<1> QED
  BY <1>1, <1>2, NotifiedTop, SameClient

LEMMA PostNotifyClient ==
    ASSUME ServerInv, ClientInv, NEW c \in Collectors, PostNotify(c)
    PROVE  ClientInv'
<1> DEFINE q == pushHistory(page[c], key)
           u == GetLatestPage(q, size[c])
<1>0. /\ c \in post.todo /\ post' = [post EXCEPT !.todo = @ \ {c}]
      /\ UNCHANGED <<key, state, size, tpc, lastKey, reported, listened>>
  BY DEF PostNotify
<1>1. \/ /\ key \in Filter[c] /\ page' = [page EXCEPT ![c] = q]
         /\ queue' = IF c = Followed /\ Listening THEN Append(queue, u) ELSE queue
      \/ key \notin Filter[c] /\ UNCHANGED <<page, queue>>
  BY DEF PostNotify, ServerInv, ServerTypes
<1>2. post.step = "notify" /\ post'.step = "notify" /\ post'.todo = post.todo \ {c}
  <2>1. post.step = "notify"
    BY <1>0 DEF ServerInv, PostOK
  <2>2. post \in [step : {"idle", "push", "notify"}, todo : SUBSET Collectors]
    BY DEF ServerInv, ServerTypes
  <2> QED
    BY <1>0, <2>1, <2>2
<1>3. key \in Int /\ Followed \in Collectors
  BY ServerFacts, Consts
<1> HIDE DEF q, u
<1>4. CASE c # Followed
  <2>1. page'[Followed] = page[Followed] /\ queue' = queue
    BY <1>1, <1>3, <1>4 DEF ServerInv, ServerTypes
  <2>2. Top(Followed)' = Top(Followed)
    BY <1>0, <1>2, <1>4 DEF Top
  <2> QED
    BY <1>0, <2>1, <2>2, NotifiedTop, SameClient DEF client
<1>5. c = Followed => Top(Followed) = key - 1 /\ Top(Followed)' = key
  BY <1>0, <1>2 DEF Top
<1>6. \A e \in Filter[Followed] : e <= key => e = key \/ e <= key - 1
  <2>1. \A e \in Filter[Followed] : e \in Int
    BY Consts
  <2> QED
    BY <1>3, <2>1
<1>7. CASE c = Followed /\ key \notin Filter[c]
  <2>1. \A e \in Filter[Followed] : e <= key <=> e <= key - 1
    <3>1. \A e \in Filter[Followed] : e \in Int /\ e # key
      BY <1>7, Consts
    <3> QED
      BY <1>3, <3>1
  <2>2. Notified(Followed)' = Notified(Followed)
    BY <1>5, <1>7, <2>1 DEF Notified, Top
  <2> QED
    BY <1>0, <1>1, <1>7, <2>2, SameClient DEF client
<1>8. CASE c = Followed /\ key \in Filter[c]
  <2>0. page[c] \in Seq(Keys) /\ key \in Keys /\ size[c] \in Nat /\ page'[c] = q
    <3>1. key \in Keys
      BY <1>8, Consts
    <3> QED
      BY <1>1, <1>8, <3>1 DEF ServerInv, ServerTypes
  <2>1. q \in Seq(Keys) /\ q # <<>> /\ Last(q) = key
    <3>1. Len(page[c]) \in Nat /\ MaxPage \in Nat
      BY <2>0, SeqFacts, Consts
    <3> DEFINE n == Len(page[c])
    <3>2. /\ q \in Seq(Keys)
          /\ n <= MaxPage => Len(q) = n + 1 /\ q[n + 1] = key
          /\ n > MaxPage => Len(q) = n /\ q[n] = key
      BY <2>0, PushSeq DEF q
    <3>3. q \in Seq(Keys) /\ Len(q) > 0 /\ q[Len(q)] = key
      <4> HIDE DEF n
      <4> QED
        BY <3>1, <3>2 DEF n
    <3> QED
      BY <3>3, SeqFacts DEF Last
  <2>2. CASE ~Listening
    <3>1. queue' = queue /\ queue = <<>> /\ tpc # "tail" /\ ~Listening'
      BY <1>0, <1>1, <1>8, <2>2 DEF ClientInv, FollowedOK, Listening
    <3>2. ClientTypes'
      BY <1>0, <3>1 DEF ClientInv, ClientTypes
    <3>3. FollowedOK'
      BY <1>0, <3>1 DEF ClientInv, FollowedOK
    <3>4. TailedInv'
      BY <1>0, <3>1 DEF ClientInv, TailedInv
    <3>5. CurrentInv'
      BY <1>0, <3>1 DEF CurrentInv
    <3> QED
      BY <3>2, <3>3, <3>4, <3>5 DEF ClientInv
  <2>3. CASE Listening
    <3>1. queue' = Append(queue, u) /\ queue \in Seq(Seq(Keys))
      BY <1>1, <1>8, <2>3 DEF ClientInv, ClientTypes
    <3>2. u \in Seq(Keys) /\ u # <<>> /\ u[1] = key
      <4>1. size[c] > 0
        BY <1>8, <2>3 DEF ClientInv, FollowedOK, Listening
      <4> QED
        BY <2>0, <2>1, <4>1, LatestSeq DEF u
    <3> DEFINE n == Len(queue)
    <3>3. /\ n \in Nat /\ DOMAIN queue = 1 .. n
          /\ queue' \in Seq(Seq(Keys)) /\ DOMAIN queue' = 1 .. n + 1 /\ Len(queue') = n + 1
          /\ (\A i \in 1 .. n : queue'[i] = queue[i]) /\ queue'[n + 1] = u
      BY <3>1, <3>2, SeqFacts
    <3> HIDE DEF n
    <3>4. \A i \in 1 .. n + 1 : i \in 1 .. n \/ i = n + 1
      BY <3>3
    <3>5. \A i \in 1 .. n : i \in 1 .. n + 1
      BY <3>3
    <3>6. ClientTypes'
      BY <1>0, <3>3 DEF ClientInv, ClientTypes
    <3>7. FollowedOK'
      BY <1>0, <2>3, <3>2, <3>3, <3>4 DEF ClientInv, FollowedOK, Listening
    <3>8. TailedInv'
      <4>1. ToCome \subseteq ToCome' /\ key \in ToCome'
        <5>1. n + 1 \in 1 .. n + 1
          BY <3>3
        <5> QED
          BY <3>2, <3>3, <3>5, <5>1 DEF ToCome
      <4>2. ASSUME NEW e \in Notified(Followed)', e > listened PROVE e \in reported \cup ToCome'
        <5>1. e \in Filter[Followed] /\ e <= key
          BY <1>5, <1>8 DEF Notified, Top
        <5>2. CASE e = key
          BY <4>1, <5>2
        <5>3. CASE e <= key - 1
          <6>1. e \in Notified(Followed)
            BY <1>5, <1>8, <5>1, <5>3, NotifiedTop
          <6> QED
            BY <2>3, <4>1, <4>2, <6>1 DEF ClientInv, TailedInv
        <5> QED
          BY <1>6, <5>1, <5>2, <5>3
      <4> QED
        BY <1>0, <4>2 DEF ClientInv, TailedInv
    <3>9. CurrentInv'
      <4>1. queue' # <<>> /\ Last(queue') = u
        BY <3>3, SeqFacts DEF Last
      <4> QED
        BY <1>8, <2>0, <2>1, <3>2, <4>1 DEF CurrentInv
    <3> QED
      BY <3>6, <3>7, <3>8, <3>9 DEF ClientInv
  <2> QED
    BY <2>2, <2>3
<1> QED
  BY <1>4, <1>7, <1>8

(* What is done to other collectors is nothing to the client. *)
LEMMA OtherClient ==
    ASSUME ServerInv, ClientInv, UNCHANGED client, UNCHANGED <<key, history>>,
           NEW c \in Collectors, c # Followed,
           \/ Create(c) \/ Destroy(c) \/ EndSession(c) \/ \E n \in Nat : SetPageSize(c, n)
           \/ UNCHANGED <<manager, state, page, size>>
    PROVE  ClientInv'
<1>0. Followed \in Collectors
  BY Consts
<1>1. /\ page'[Followed] = page[Followed] /\ state'[Followed] = state[Followed]
      /\ size'[Followed] = size[Followed]
  <2>1. CASE Create(c)
    BY <1>0, <2>1 DEF Create, ServerInv, ServerTypes
  <2>2. CASE Destroy(c)
    BY <1>0, <2>2 DEF Destroy, ServerInv, ServerTypes
  <2>3. CASE EndSession(c)
    BY <1>0, <2>3 DEF EndSession, ServerInv, ServerTypes
  <2>4. ASSUME NEW n \in Nat, SetPageSize(c, n)
        PROVE  /\ page'[Followed] = page[Followed] /\ state'[Followed] = state[Followed]
               /\ size'[Followed] = size[Followed]
    <3>1. PICK l : page' = [page EXCEPT ![c] = Fill(c, l)]
      BY <2>4 DEF SetPageSize
    <3>2. size' = [size EXCEPT ![c] = n] /\ state' = state
      BY <2>4 DEF SetPageSize
    <3> QED
      BY <1>0, <3>1, <3>2 DEF ServerInv, ServerTypes
  <2> QED
    BY <2>1, <2>2, <2>3, <2>4
<1>2. post' = post \/ post' = [post EXCEPT !.todo = @ \ {c}]
  BY DEF Create, Destroy, EndSession, SetPageSize, manager
<1>3. Top(Followed)' = Top(Followed)
  <2>1. post'.step = post.step /\ (Followed \in post'.todo <=> Followed \in post.todo)
    BY <1>2 DEF ServerInv, ServerTypes
  <2> QED
    BY <2>1 DEF Top
<1> QED
  BY <1>1, <1>3, NotifiedTop, SameClient

(* A client that does not listen yet, or no more. *)
LEMMA NotListening ==
    ASSUME ServerInv, ClientInv, UNCHANGED <<lastKey, reported, listened>>, queue' = <<>>,
           tpc' \in {"size", "listen", "end"}, tpc' # "end" => state'[Followed] = "live",
           tpc' = "listen" => size'[Followed] > 0
    PROVE  ClientInv'
<1>0. <<>> \in Seq(Seq(Keys)) /\ DOMAIN <<>> = {}
  OBVIOUS
<1>1. ClientTypes'
  BY <1>0 DEF ClientInv, ClientTypes
<1>2. FollowedOK'
  BY <1>0 DEF ClientInv, FollowedOK
<1>3. TailedInv'
  BY DEF ClientInv, TailedInv, Listening
<1>4. CurrentInv'
  BY DEF CurrentInv
<1> QED
  BY <1>1, <1>2, <1>3, <1>4 DEF ClientInv

LEMMA TailStartStop ==
    ASSUME ServerInv, ClientInv, TailCreate \/ TailSize \/ TailStop
    PROVE  ClientInv'
<1>0. Followed \in Collectors /\ \A n \in Sizes : n \in Nat /\ n > 0
  BY Consts, EventHistoryAssumption
<1>1. CASE TailCreate
  <2>1. UNCHANGED <<lastKey, reported, listened>> /\ queue' = <<>>
    BY <1>1 DEF TailCreate, ClientInv, FollowedOK, Listening
  <2>2. tpc' = "end" \/ (tpc' = "size" /\ state' = [state EXCEPT ![Followed] = "live"])
    BY <1>1 DEF TailCreate, Create
  <2>3. tpc' = "end" \/ (tpc' = "size" /\ state'[Followed] = "live")
    BY <1>0, <2>2 DEF ServerInv, ServerTypes
  <2> QED
    BY <2>1, <2>3, NotListening
<1>2. CASE TailSize
  <2>1. UNCHANGED <<lastKey, reported, listened>> /\ queue' = <<>> /\ tpc' = "listen"
    BY <1>2 DEF TailSize, ClientInv, FollowedOK, Listening
  <2>2. PICK n \in Sizes : state[Followed] = "live" /\ state' = state /\ size' = [size EXCEPT ![Followed] = n]
    BY <1>2 DEF TailSize, SetPageSize
  <2>3. state'[Followed] = "live" /\ size'[Followed] > 0
    BY <1>0, <2>2 DEF ServerInv, ServerTypes
  <2> QED
    BY <2>1, <2>3, NotListening
<1>3. CASE TailStop
  <2>1. UNCHANGED <<lastKey, reported, listened>> /\ queue' = <<>> /\ tpc' = "end"
    BY <1>3 DEF TailStop
  <2> QED
    BY <2>1, NotListening
<1> QED
  BY <1>1, <1>2, <1>3

LEMMA ListenClient ==
    ASSUME ServerInv, ClientInv, Listen
    PROVE  ClientInv'
<1>0. /\ tpc = "listen" /\ tpc' = "collect" /\ listened' = key
      /\ UNCHANGED <<queue, lastKey, reported, key, post, state, page, size>>
  BY DEF Listen, manager, collector
<1>1. queue = <<>>
  BY <1>0 DEF ClientInv, FollowedOK, Listening
<1>2. ClientTypes'
  BY <1>0 DEF ClientInv, ClientTypes, ServerInv, ServerTypes
<1>3. FollowedOK'
  BY <1>0, <1>1 DEF ClientInv, FollowedOK
<1>4. TailedInv'
  <2>1. \A e \in Notified(Followed)' : ~(e > key)
    <3> SUFFICES ASSUME NEW e \in Notified(Followed)' PROVE ~(e > key)
      OBVIOUS
    <3>1. e \in Filter[Followed] /\ e <= Top(Followed)
      BY <1>0 DEF Notified, Top
    <3>2. e \in Int /\ key \in Int
      BY <3>1, Consts, ServerFacts
    <3> QED
      BY <3>1, <3>2 DEF Top
  <2> QED
    BY <1>0, <2>1 DEF ClientInv, TailedInv
<1>5. CurrentInv'
  BY <1>0, <1>1 DEF CurrentInv
<1> QED
  BY <1>2, <1>3, <1>4, <1>5 DEF ClientInv

LEMMA CollectClient ==
    ASSUME ServerInv, ClientInv, Collect
    PROVE  ClientInv'
<1> DEFINE u == GetLatestPage(page[Followed], size[Followed])
<1>0. /\ tpc = "collect" /\ tpc' = "tail" /\ Process(u)
      /\ UNCHANGED <<queue, listened, key, post, state, page, size>>
  BY DEF Collect, manager, collector
<1>1. page[Followed] \in Seq(Keys) /\ size[Followed] \in Nat /\ size[Followed] > 0
  BY <1>0, Consts DEF ServerInv, ServerTypes, ClientInv, FollowedOK
<1>2. u \in Seq(Keys) /\ (page[Followed] # <<>> => u # <<>> /\ u[1] = Last(page[Followed]))
  BY <1>1, LatestSeq
<1> HIDE DEF u
<1>3. /\ reported \subseteq reported' /\ reported' \subseteq reported \cup Keys
      /\ u = <<>> => lastKey' = lastKey
      /\ u # <<>> => lastKey' = u[1] /\ u[1] \in reported' /\ u[1] \in Keys
  BY <1>0, <1>2, ProcessFacts DEF ClientInv, TailedInv
<1>4. ClientTypes'
  BY <1>0, <1>3 DEF ClientInv, ClientTypes
<1>5. FollowedOK'
  BY <1>0 DEF ClientInv, FollowedOK, Listening
<1>6. TailedInv'
  <2>1. Notified(Followed)' = Notified(Followed) /\ ToCome' = ToCome /\ Listening
    BY <1>0 DEF Notified, ToCome, Listening
  <2> QED
    BY <1>0, <1>3, <2>1 DEF ClientInv, TailedInv
<1>7. CurrentInv'
  BY <1>0, <1>2, <1>3 DEF ClientInv, CurrentInv
<1> QED
  BY <1>4, <1>5, <1>6, <1>7 DEF ClientInv

LEMMA TailUpdateClient ==
    ASSUME ServerInv, ClientInv, TailUpdate
    PROVE  ClientInv'
<1> DEFINE n == Len(queue)
           u == queue[1]
<1>0. /\ tpc = "tail" /\ tpc' = "tail" /\ queue # <<>> /\ queue' = Tail(queue) /\ Process(Head(queue))
      /\ UNCHANGED <<listened, key, post, state, page, size>>
  BY DEF TailUpdate, manager, collector
<1>1. queue \in Seq(Seq(Keys))
  BY DEF ClientInv, ClientTypes
<1>2. /\ n \in Nat /\ n > 0 /\ DOMAIN queue = 1 .. n
      /\ Head(queue) = u /\ u \in Seq(Keys)
      /\ queue' \in Seq(Seq(Keys)) /\ Len(queue') = n - 1 /\ DOMAIN queue' = 1 .. n - 1
      /\ \A i \in 1 .. n - 1 : queue'[i] = queue[i + 1]
      /\ (queue' # <<>> <=> n > 1)
  <2>1. n \in Nat /\ n > 0 /\ DOMAIN queue = 1 .. n
    BY <1>0, <1>1, SeqFacts
  <2>2. /\ Head(queue) = u /\ u \in Seq(Keys)
        /\ queue' \in Seq(Seq(Keys)) /\ Len(queue') = n - 1
        /\ \A i \in 1 .. n - 1 : queue'[i] = queue[i + 1]
    BY <1>0, <1>1, TailFacts
  <2>3. DOMAIN queue' = 1 .. Len(queue') /\ (queue' # <<>> <=> Len(queue') > 0)
    BY <2>2, SeqFacts
  <2> HIDE DEF n, u
  <2> QED
    BY <2>1, <2>2, <2>3
<1>3. 1 \in DOMAIN queue /\ u # <<>>
  BY <1>2 DEF ClientInv, FollowedOK
<1> HIDE DEF n
<1>4. Last(queue) = queue[n]
  BY DEF Last, n
<1>5. /\ reported \subseteq reported' /\ reported' \subseteq reported \cup Keys
      /\ lastKey' = u[1] /\ u[1] \in reported' /\ u[1] \in Keys
  <2> HIDE DEF u
  <2>1. Process(u)
    BY <1>0, <1>2
  <2> QED
    BY <1>2, <1>3, <2>1, ProcessFacts DEF ClientInv, TailedInv, u
<1>6. ClientTypes'
  BY <1>0, <1>2, <1>5 DEF ClientInv, ClientTypes
<1>7. \A i \in 1 .. n - 1 : i + 1 \in 1 .. n
  BY <1>2
<1>8. FollowedOK'
  <2>1. \A i \in DOMAIN queue' : queue'[i] # <<>>
    BY <1>2, <1>7 DEF ClientInv, FollowedOK
  <2> QED
    BY <1>0, <2>1 DEF ClientInv, FollowedOK, Listening
<1>9. TailedInv'
  <2>1. Notified(Followed)' = Notified(Followed) /\ Listening /\ Listening'
    BY <1>0 DEF Notified, Listening
  <2>2. ASSUME NEW e \in ToCome PROVE e \in reported' \cup ToCome'
    <3>1. PICK i \in 1 .. n : e = queue[i][1]
      BY <1>2 DEF ToCome
    <3>2. CASE i = 1
      BY <1>5, <3>1, <3>2
    <3>3. CASE i # 1
      <4>1. i - 1 \in 1 .. n - 1 /\ (i - 1) + 1 = i
        BY <1>2, <3>3
      <4>2. queue'[i - 1] = queue[i]
        BY <1>2, <4>1
      <4> QED
        BY <1>2, <3>1, <4>1, <4>2 DEF ToCome
    <3> QED
      BY <3>2, <3>3
  <2> QED
    BY <1>0, <1>5, <2>1, <2>2 DEF ClientInv, TailedInv
<1>10. CurrentInv'
  <2>1. page[Followed] # <<>> /\ queue[n][1] = Last(page[Followed])
    BY <1>0, <1>4 DEF ClientInv, CurrentInv
  <2>2. CASE n = 1
    BY <1>0, <1>2, <1>5, <2>1, <2>2 DEF CurrentInv
  <2>3. CASE n # 1
    <3>1. n - 1 \in 1 .. n - 1 /\ (n - 1) + 1 = n
      BY <1>2, <2>3
    <3>2. queue'[n - 1] = queue[n] /\ queue' # <<>>
      BY <1>2, <2>3, <3>1
    <3>3. Last(queue') = queue[n]
      BY <1>2, <3>2 DEF Last
    <3> QED
      BY <1>0, <2>1, <3>2, <3>3 DEF CurrentInv
  <2> QED
    BY <2>2, <2>3
<1> QED
  BY <1>6, <1>8, <1>9, <1>10 DEF ClientInv

LEMMA ClientStep ==
    ASSUME ServerInv, ClientInv, [Next]_vars
    PROVE  ClientInv'
<1>1. CASE PostBegin
  BY <1>1, PostBeginClient
<1>2. CASE PostStep
  BY <1>2, PostPushClient, PostEndClient, PostNotifyClient DEF PostStep
<1>3. CASE TailStep \/ TailStop
  BY <1>3, TailStartStop, ListenClient, CollectClient, TailUpdateClient DEF TailStep
<1>4. ASSUME NEW c \in Collectors, c # Followed,
             \/ CreateCollectorForEvents(c) \/ DestroyCollector(c) \/ EndSession(c)
             \/ ResetCollector(c) \/ RewindCollector(c)
             \/ \E n \in Sizes : SetCollectorPageSize(c, n)
             \/ \E n \in Reads : ReadNextEvents(c, n) \/ ReadPreviousEvents(c, n)
      PROVE  ClientInv'
  <2>1. CASE CreateCollectorForEvents(c)
    BY <1>4, <2>1, OtherClient DEF CreateCollectorForEvents, Create
  <2>2. CASE DestroyCollector(c)
    BY <1>4, <2>2, OtherClient DEF DestroyCollector, Destroy
  <2>3. CASE EndSession(c)
    BY <1>4, <2>3, OtherClient DEF EndSession, manager
  <2>4. ASSUME NEW n \in Sizes, SetCollectorPageSize(c, n) PROVE ClientInv'
    <3>1. n \in Nat /\ SetPageSize(c, n) /\ UNCHANGED client
      BY <2>4, Consts DEF SetCollectorPageSize
    <3>2. UNCHANGED <<key, history>>
      BY <3>1 DEF SetPageSize, manager
    <3> QED
      BY <1>4, <3>1, <3>2, OtherClient
  <2>5. ASSUME \/ ResetCollector(c) \/ RewindCollector(c)
               \/ \E n \in Reads : ReadNextEvents(c, n) \/ ReadPreviousEvents(c, n)
        PROVE  ClientInv'
    <3>1. UNCHANGED <<manager, state, page, size, client>>
      BY <2>5 DEF ResetCollector, RewindCollector, ReadNextEvents, ReadPreviousEvents, Read
    <3>2. UNCHANGED <<key, history>>
      BY <3>1 DEF manager
    <3> QED
      BY <1>4, <3>1, <3>2, OtherClient
  <2> QED
    BY <1>4, <2>1, <2>2, <2>3, <2>4, <2>5
<1>5. CASE UNCHANGED vars
  <2>1. UNCHANGED <<client, page, state, size, key, post>>
    BY <1>5 DEF vars, manager, collector
  <2>2. Top(Followed)' = Top(Followed)
    BY <2>1 DEF Top
  <2> QED
    BY <2>1, <2>2, NotifiedTop, SameClient
<1> QED
  BY <1>1, <1>2, <1>3, <1>4, <1>5 DEF Next

-----------------------------------------------------------------------------
LEMMA InitIInv == Init => IInv
<1> SUFFICES ASSUME Init PROVE IInv
  OBVIOUS
<1>0. /\ <<>> \in Seq(Keys) /\ <<>> \in Seq(Seq(Keys)) /\ DOMAIN <<>> = {} /\ Len(<<>>) = 0
  OBVIOUS
<1>1. MaxKey \in Nat /\ MaxPage \in Nat /\ Limits \subseteq Nat
  BY Consts
<1>2. NoPos \in Positions /\ NoPos.on = "nil"
  BY <1>0 DEF NoPos, At, Positions
<1>3. ServerTypes
  <2>1. IsFiniteSet(collectors) /\ Cardinality(collectors) = 0
    BY FS_EmptySet DEF Init
  <2>2. MaxCollector \in Limits /\ Cardinality(collectors) <= MaxCollector
    BY <1>1, <2>1 DEF Init
  <2>3. post \in [step : {"idle", "push", "notify"}, todo : SUBSET Collectors]
    BY DEF Init, Idle
  <2>4. page \in [Collectors -> Seq(Keys)] /\ pos \in [Collectors -> Positions]
    BY <1>0, <1>2 DEF Init
  <2>5. /\ state \in [Collectors -> {"new", "live", "orphan", "gone"}]
        /\ size \in [Collectors -> Nat]
    BY <1>1 DEF Init
  <2>6. key = 0 /\ history = <<>> /\ collectors = {} /\ crashed = FALSE /\ torn = {}
    BY DEF Init
  <2>7. key \in 0 .. MaxKey /\ history \in Seq(Keys)
    BY <1>0, <1>1, <2>6
  <2> QED
    BY <2>1, <2>2, <2>3, <2>4, <2>5, <2>6, <2>7 DEF ServerTypes
<1>4. PostOK
  BY DEF Init, PostOK, Idle
<1>5. HistoryOK
  BY <1>0, <1>1 DEF Init, HistoryOK, Newest, Idle
<1>6. PagesInv
  BY DEF Init, PagesInv
<1>7. PosInv
  BY <1>2 DEF Init, PosInv, PosOK
<1>8. ClientTypes
  BY <1>0, <1>1 DEF Init, ClientTypes
<1>9. FollowedOK
  BY <1>0 DEF Init, FollowedOK
<1>10. TailedInv
  BY DEF Init, TailedInv, Listening
<1>11. CurrentInv
  BY DEF Init, CurrentInv
<1> QED
  BY <1>3, <1>4, <1>5, <1>6, <1>7, <1>8, <1>9, <1>10, <1>11 DEF IInv, ServerInv, ClientInv

(* IInv is an inductive invariant. *)
THEOREM Invariance == Spec => []IInv
<1>1. IInv /\ [Next]_vars => IInv'
  BY ServerStep, ClientStep DEF IInv
<1> QED
  BY InitIInv, <1>1, PTL DEF Spec

(* A page without an event twice that is long enough to have been pruned goes back *)
(* at least as far as the history: the history is the last MaxPage + 1 events.     *)
LEMMA OldEnough ==
    ASSUME ServerInv, NEW c \in Collectors, PageOK(c), IsInjective(page[c]), Len(page[c]) > MaxPage
    PROVE  \A e \in ToSet(history) : page[c][1] <= e
<1> DEFINE l == page[c]
           h == Len(history)
<1>1. /\ l \in Seq(Keys) /\ Len(l) \in Nat /\ DOMAIN l = 1 .. Len(l) /\ Ordered(l)
      /\ \A i \in 1 .. Len(l) : l[i] <= key
      /\ post.step = "push" /\ h > MaxPage => key \notin ToSet(l)
  BY ServerFacts DEF PageOK
<1>2. /\ key \in Int /\ h \in Nat /\ DOMAIN history = 1 .. h /\ MaxPage \in Nat /\ h <= MaxPage + 1
      /\ \A i \in 1 .. h : history[i] = Newest - h + i
  BY ServerFacts, Consts DEF ServerInv, HistoryOK
<1>3. MaxPage + 1 \in 1 .. Len(l) /\ 1 \in 1 .. Len(l)
  BY <1>1, <1>2
<1>4. l[MaxPage + 1] >= l[1] + MaxPage /\ l[1] \in Int /\ l[MaxPage + 1] \in Int /\ l[MaxPage + 1] <= key
  <2>1. l[MaxPage + 1] >= l[1] + (MaxPage + 1) - 1
    BY <1>1, <1>3, Spread
  <2>2. l[1] \in Int /\ l[MaxPage + 1] \in Int
    BY <1>1, <1>3, SeqFacts, Consts
  <2> QED
    BY <1>1, <1>2, <1>3, <2>1, <2>2
<1>5. post.step = "push" /\ h > MaxPage => l[MaxPage + 1] # key
  BY <1>1, <1>3 DEF ToSet
<1> HIDE DEF l, h
<1>6. l[1] <= Newest - h + 1 /\ Newest \in Int
  <2>1. CASE post.step # "push"
    BY <1>2, <1>4, <2>1 DEF Newest
  <2>2. CASE post.step = "push" /\ h <= MaxPage
    BY <1>2, <1>4, <2>2 DEF Newest
  <2>3. CASE post.step = "push" /\ h > MaxPage
    BY <1>2, <1>4, <1>5, <2>3 DEF Newest
  <2> QED
    BY <1>2, <2>1, <2>2, <2>3
<1>7. \A i \in 1 .. h : l[1] <= history[i]
  BY <1>2, <1>4, <1>6
<1>8. \A e \in ToSet(history) : l[1] <= e
  BY <1>2, <1>7 DEF ToSet
<1> QED
  BY <1>8 DEF l

(***************************************************************************)
(* HistoryCollector: however refills (SetCollectorPageSize), prunings and  *)
(* the notifications of PostEvent interleave, pages and positions are of   *)
(* their types, no more collectors than MaxCollector are in the map, and   *)
(* the page of a collector is in order and has no gap.                     *)
(***************************************************************************)
THEOREM PagesAreComplete == Spec => []PagesOK
<1>1. IInv => TypeOK
  <2> SUFFICES ASSUME IInv PROVE TypeOK
    OBVIOUS
  <2> USE DEF IInv
  <2>1. /\ MaxCollector \in Limits /\ key \in 0 .. MaxKey /\ history \in Seq(Keys)
        /\ Len(history) <= MaxPage + 1
        /\ collectors \subseteq Collectors /\ Cardinality(collectors) <= MaxCollector
        /\ crashed \in BOOLEAN /\ torn \subseteq Collectors
        /\ state \in [Collectors -> {"new", "live", "orphan", "gone"}]
        /\ size \in [Collectors -> Nat]
    BY DEF ServerInv, ServerTypes, HistoryOK
  <2>2. post.step \in {"idle", "push", "notify"} /\ post.todo \subseteq collectors
    BY DEF ServerInv, ServerTypes, PostOK
  <2>3. \A c \in Collectors : /\ page[c] \in Seq(Keys)
                              /\ pos[c].on = "page" => pos[c].i \in DOMAIN page[c]
                              /\ pos[c].on = "old" => pos[c].i \in DOMAIN pos[c].list
    BY DEF ServerInv, ServerTypes, PosInv, PosOK
  <2> QED
    BY <2>1, <2>2, <2>3 DEF TypeOK, ClientInv, ClientTypes
<1>2. IInv => PageComplete
  <2> SUFFICES ASSUME IInv, NEW c \in collectors \ torn
               PROVE  /\ Ordered(page[c])
                      /\ page[c] # <<>> => \A e \in Notified(c) : e >= Head(page[c]) => e \in ToSet(page[c])
                      /\ IsInjective(page[c]) => ToSet(history) \cap Notified(c) \subseteq ToSet(page[c])
    BY DEF PageComplete
  <2>1. ServerInv /\ PageOK(c) /\ c \in Collectors
    BY ServerFacts DEF IInv, ServerInv, PagesInv
  <2>2. page[c] \in Seq(Keys) /\ Len(page[c]) \in Nat /\ DOMAIN page[c] = 1 .. Len(page[c]) /\ MaxPage \in Nat
    BY <2>1, ServerFacts, Consts
  <2>3. ASSUME page[c] # <<>>, NEW e \in Notified(c), page[c][1] <= e PROVE e \in ToSet(page[c])
    <3>1. 1 \in DOMAIN page[c]
      BY <2>2, <2>3, SeqFacts
    <3> QED
      BY <2>1, <2>3, <3>1 DEF PageOK
  <2>4. ASSUME page[c] # <<>>, NEW e \in Notified(c), e >= Head(page[c]) PROVE e \in ToSet(page[c])
    <3>1. Head(page[c]) = page[c][1] /\ page[c][1] \in Int /\ e \in Int
      BY <2>1, <2>2, <2>4, TailFacts, NotifiedTop, Consts
    <3>2. page[c][1] <= e
      BY <2>4, <3>1
    <3> QED
      BY <2>3, <2>4, <3>2
  <2>5. ASSUME IsInjective(page[c]) PROVE ToSet(history) \cap Notified(c) \subseteq ToSet(page[c])
    <3>1. CASE Len(page[c]) <= MaxPage
      BY <2>1, <3>1 DEF PageOK
    <3>2. CASE Len(page[c]) > MaxPage
      <4>1. page[c] # <<>>
        BY <2>2, <3>2, SeqFacts
      <4>2. \A e \in ToSet(history) : page[c][1] <= e
        BY <2>1, <2>5, <3>2, OldEnough
      <4> QED
        BY <2>3, <4>1, <4>2
    <3> QED
      BY <2>2, <3>1, <3>2
  <2> QED
    BY <2>1, <2>4, <2>5 DEF PageOK
<1> QED
  BY Invariance, <1>1, <1>2, PTL DEF PagesOK

(* eventTailer: when nothing is left to post or to process, the last event seen *)
(* is the newest one of the page, whatever the order of collect and updates.    *)
THEOREM TailIsCurrent == Spec => []TailCurrent
<1>1. IInv => TailCurrent
  BY DEF IInv, ClientInv, CurrentInv, TailCurrent
<1> QED
  BY Invariance, <1>1, PTL

(* eventTailer: every matching event posted since the client listens is reported *)
(* once the updates are processed, however small its pages.                      *)
THEOREM NothingIsMissed == Spec => []Tailed
<1>1. IInv => Tailed
  <2> SUFFICES ASSUME IInv, tpc = "tail", queue = <<>>, post = Idle,
                      NEW e \in Filter[Followed], e > listened, e <= key
               PROVE  e \in reported
    BY DEF Tailed
  <2>1. DOMAIN queue = {} /\ ToCome = {}
    BY DEF ToCome
  <2>2. e \in Notified(Followed) /\ Listening
    BY DEF Notified, Idle, Listening
  <2> QED
    BY <2>1, <2>2 DEF IInv, ClientInv, TailedInv
<1> QED
  BY Invariance, <1>1, PTL


-----------------------------------------------------------------------------
(* The events between two elements of a list in order and without a gap are in it. *)
LEMMA Between ==
    ASSUME NEW c \in Collectors, NEW l \in Seq(Keys), Ordered(l), NoGap(c, l), NEW e \in Filter[c],
           NEW a \in 1 .. Len(l), NEW b \in a .. Len(l), l[a] <= e, e <= l[b]
    PROVE  /\ l[a] < e => \E k \in a + 1 .. b : e = l[k]
           /\ e < l[b] => \E k \in a .. b - 1 : e = l[k]
<1>1. Len(l) \in Nat /\ DOMAIN l = 1 .. Len(l)
  BY SeqFacts
<1>2. a \in DOMAIN l /\ b \in DOMAIN l
  BY <1>1
<1>3. e \in Int /\ \A k \in DOMAIN l : l[k] \in Int
  <2>1. e \in Keys
    BY Consts
  <2>2. \A k \in DOMAIN l : l[k] \in Keys
    BY <1>1, SeqFacts
  <2> QED
    BY <2>1, <2>2, Consts
<1>4. PICK k \in DOMAIN l : e = l[k]
  BY <1>2 DEF NoGap, ToSet
<1>5. \A x, y \in DOMAIN l : x <= y => l[x] <= l[y]
  BY DEF Ordered
<1>6. ASSUME l[a] < e PROVE \E m \in a + 1 .. b : e = l[m]
  <2>1. ~(k <= a)
    BY <1>2, <1>3, <1>4, <1>5, <1>6
  <2>2. CASE k <= b
    <3>1. k \in a + 1 .. b
      BY <1>1, <2>1, <2>2
    <3> QED
      BY <1>4, <3>1
  <2>3. CASE b <= k
    <3>1. l[b] <= e
      BY <1>2, <1>4, <1>5, <2>3
    <3>2. e = l[b] /\ a # b
      BY <1>2, <1>3, <1>6, <3>1
    <3>3. b \in a + 1 .. b
      BY <1>1, <3>2
    <3> QED
      BY <3>2, <3>3
  <2> QED
    BY <1>1, <2>2, <2>3
<1>7. ASSUME e < l[b] PROVE \E m \in a .. b - 1 : e = l[m]
  <2>1. ~(b <= k)
    BY <1>2, <1>3, <1>4, <1>5, <1>7
  <2>2. CASE a <= k
    <3>1. k \in a .. b - 1
      BY <1>1, <2>1, <2>2
    <3> QED
      BY <1>4, <3>1
  <2>3. CASE k <= a
    <3>1. e <= l[a]
      BY <1>2, <1>4, <1>5, <2>3
    <3>2. e = l[a] /\ a # b
      BY <1>2, <1>3, <1>7, <3>1
    <3>3. a \in a .. b - 1
      BY <1>1, <3>2
    <3> QED
      BY <3>2, <3>3
  <2> QED
    BY <1>1, <2>2, <2>3
<1> QED
  BY <1>6, <1>7

(* A read moves the position to the last element taken, in the list it was in. *)
LEMMA PosAfterRead ==
    ASSUME ServerInv, NEW c \in Collectors, pos[c].on \in {"page", "old"}, NEW items, items # <<>>,
           NEW by \in Int, Read(c, items, by)
    PROVE  /\ PosKey(c) = ListOf(c)[pos[c].i]
           /\ PosKey(c)' = ListOf(c)[pos[c].i + by * Len(items)]
<1> DEFINE i == pos[c].i + by * Len(items)
<1>1. pos' = [pos EXCEPT ![c] = At(pos[c].on, i, pos[c].list)] /\ page' = page
  BY DEF Read
<1> HIDE DEF i
<1>2. pos'[c] = At(pos[c].on, i, pos[c].list)
  BY <1>1 DEF ServerInv, ServerTypes
<1>3. pos'[c].on = pos[c].on /\ pos'[c].i = i /\ pos'[c].list = pos[c].list
  BY <1>2 DEF At
<1>4. PosKey(c)' = ListOf(c)[i]
  BY <1>1, <1>3 DEF PosKey, ListOf
<1> QED
  BY <1>4 DEF PosKey, ListOf, i

(***************************************************************************)
(* ReadNextEvents and ReadPreviousEvents: "the scrollable position is      *)
(* moved to the next newer (older) page after the read", and no matching   *)
(* event between the position and the last event read is left out,         *)
(* whatever was posted, pruned or refilled in the meantime.                *)
(***************************************************************************)
THEOREM NoEventIsSkipped == Spec => ReadsAreContiguous
<1> DEFINE A ==
      \A c \in Collectors \ torn, n \in Reads : pos[c].on \in {"page", "old"} =>
        /\ LET r == First(After(c), n) IN ReadNextEvents(c, n) /\ r # <<>> =>
            /\ PosKey(c)' = Last(r)
            /\ \A e \in Filter[c] : PosKey(c) < e /\ e <= Last(r) => e \in ToSet(r)
        /\ LET r == First(Before(c), n) IN ReadPreviousEvents(c, n) /\ r # <<>> =>
            /\ PosKey(c)' = Last(r)
            /\ \A e \in Filter[c] : PosKey(c) > e /\ e >= Last(r) => e \in ToSet(r)
<1>1. IInv => A
  <2> SUFFICES ASSUME IInv, NEW c \in Collectors \ torn, NEW n \in Reads, pos[c].on \in {"page", "old"}
               PROVE  /\ LET r == First(After(c), n) IN ReadNextEvents(c, n) /\ r # <<>> =>
                          /\ PosKey(c)' = Last(r)
                          /\ \A e \in Filter[c] : PosKey(c) < e /\ e <= Last(r) => e \in ToSet(r)
                      /\ LET r == First(Before(c), n) IN ReadPreviousEvents(c, n) /\ r # <<>> =>
                          /\ PosKey(c)' = Last(r)
                          /\ \A e \in Filter[c] : PosKey(c) > e /\ e >= Last(r) => e \in ToSet(r)
    OBVIOUS
  <2> DEFINE l == ListOf(c)
             i == pos[c].i
             s == First(After(c), n)
             t == First(Before(c), n)
  <2>0. ServerInv /\ ServerTypes /\ PosInv /\ PosOK(c)
    BY DEF IInv, ServerInv, PosInv
  <2>1. /\ l \in Seq(Keys) /\ i \in 1 .. Len(l)
        /\ s \in Seq(Keys) /\ i + Len(s) <= Len(l) /\ \A k \in 1 .. Len(s) : s[k] = l[i + k]
        /\ t \in Seq(Keys) /\ i - Len(t) >= 1 /\ \A k \in 1 .. Len(t) : t[k] = l[i - k]
    BY <2>0, ReadFacts
  <2>2. ASSUME state[c] = "live" PROVE Ordered(l) /\ NoGap(c, l)
    <3>1. c \in collectors \ torn
      BY <2>0, <2>2 DEF ServerInv, PostOK
    <3>2. Ordered(page[c]) /\ NoGap(c, page[c])
      <4>1. PageOK(c)
        BY <2>0, <3>1 DEF ServerInv, PagesInv
      <4> QED
        BY <2>0, <4>1, PageNoGap DEF PageOK
    <3> QED
      BY <2>0, <3>2 DEF PosOK, ListOf
  <2>3. ASSUME ReadNextEvents(c, n), s # <<>>
        PROVE  /\ PosKey(c)' = Last(s)
               /\ \A e \in Filter[c] : PosKey(c) < e /\ e <= Last(s) => e \in ToSet(s)
    <3>1. Read(c, s, 1) /\ state[c] = "live"
      BY <2>3 DEF ReadNextEvents, Read
    <3>2. PosKey(c) = l[i] /\ PosKey(c)' = l[i + 1 * Len(s)]
      BY <2>0, <2>3, <3>1, PosAfterRead
    <3> HIDE DEF l, i, s
    <3>3. Len(s) \in Nat /\ Len(s) > 0 /\ DOMAIN s = 1 .. Len(s) /\ Len(l) \in Nat
      BY <2>1, <2>3, SeqFacts
    <3>4. i + 1 * Len(s) = i + Len(s) /\ Len(s) \in 1 .. Len(s) /\ i + Len(s) \in i .. Len(l)
      BY <2>1, <3>3
    <3>5. Last(s) = l[i + Len(s)] /\ PosKey(c)' = Last(s)
      BY <2>1, <3>2, <3>4 DEF Last
    <3>6. ASSUME NEW e \in Filter[c], l[i] < e, e <= l[i + Len(s)] PROVE e \in ToSet(s)
      <4>1. e \in Int /\ l[i] \in Int
        <5>1. e \in Keys /\ l[i] \in Keys
          BY <2>1, Consts, SeqFacts
        <5> QED
          BY <5>1, Consts
      <4> DEFINE b == i + Len(s)
      <4>b. b \in i .. Len(l) /\ e <= l[b] /\ l[i] <= e /\ l[i] < e
        BY <3>4, <3>6, <4>1
      <4> HIDE DEF b
      <4>a. PICK k \in i + 1 .. b : e = l[k]
        BY <2>1, <2>2, <3>1, <4>b, Between
      <4>2. k \in i + 1 .. i + Len(s) /\ e = l[k]
        BY <4>a DEF b
      <4>3. k - i \in 1 .. Len(s) /\ i + (k - i) = k
        BY <2>1, <3>3, <4>2
      <4>4. s[k - i] = e
        BY <2>1, <4>2, <4>3
      <4> QED
        BY <3>3, <4>3, <4>4 DEF ToSet
    <3> QED
      BY <3>2, <3>5, <3>6
  <2>4. ASSUME ReadPreviousEvents(c, n), t # <<>>
        PROVE  /\ PosKey(c)' = Last(t)
               /\ \A e \in Filter[c] : PosKey(c) > e /\ e >= Last(t) => e \in ToSet(t)
    <3>1. Read(c, t, -1) /\ state[c] = "live"
      BY <2>4 DEF ReadPreviousEvents, Read
    <3>2. PosKey(c) = l[i] /\ PosKey(c)' = l[i + (-1) * Len(t)]
      BY <2>0, <2>4, <3>1, PosAfterRead
    <3> HIDE DEF l, i, t
    <3>3. Len(t) \in Nat /\ Len(t) > 0 /\ DOMAIN t = 1 .. Len(t) /\ Len(l) \in Nat
      BY <2>1, <2>4, SeqFacts
    <3>4. /\ i + (-1) * Len(t) = i - Len(t) /\ Len(t) \in 1 .. Len(t)
          /\ i - Len(t) \in 1 .. Len(l) /\ i \in i - Len(t) .. Len(l)
      BY <2>1, <3>3
    <3>5. Last(t) = l[i - Len(t)] /\ PosKey(c)' = Last(t)
      BY <2>1, <3>2, <3>4 DEF Last
    <3>6. ASSUME NEW e \in Filter[c], l[i] > e, e >= l[i - Len(t)] PROVE e \in ToSet(t)
      <4>1. e \in Int /\ l[i] \in Int /\ l[i - Len(t)] \in Int
        <5>1. l[i] \in Keys /\ l[i - Len(t)] \in Keys
          BY <2>1, <3>4
        <5> QED
          BY <5>1, Consts
      <4>2. e < l[i] /\ e <= l[i] /\ l[i - Len(t)] <= e
        BY <3>6, <4>1
      <4> DEFINE a == i - Len(t)
      <4>a. a \in 1 .. Len(l) /\ i \in a .. Len(l) /\ l[a] <= e
        BY <3>4, <4>2
      <4> HIDE DEF a
      <4>b. PICK k \in a .. i - 1 : e = l[k]
        BY <2>1, <2>2, <3>1, <4>2, <4>a, Between
      <4>3. k \in i - Len(t) .. i - 1 /\ e = l[k]
        BY <4>b DEF a
      <4>4. i - k \in 1 .. Len(t) /\ i - (i - k) = k
        BY <2>1, <3>3, <4>3
      <4>5. t[i - k] = e
        BY <2>1, <4>3, <4>4
      <4> QED
        BY <3>3, <4>4, <4>5 DEF ToSet
    <3> QED
      BY <3>2, <3>5, <3>6
  <2> QED
    BY <2>3, <2>4
<1>2. IInv => [A]_vars
  BY <1>1
<1> HIDE DEF A
<1>3. Spec => [][A]_vars
  BY Invariance, <1>2, PTL
<1> QED
  BY <1>3 DEF ReadsAreContiguous, A
=============================================================================
