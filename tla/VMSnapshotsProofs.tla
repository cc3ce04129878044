------------------------- MODULE VMSnapshotsProofs -------------------------
(***************************************************************************)
(* The snapshots of a virtual machine stay consistent, for any number of   *)
(* clients and snapshots, whatever is in flight; and clients that take     *)
(* care never crash the simulator.                                         *)
(***************************************************************************)
EXTENDS VMSnapshots, WellFoundedInduction, TLAPS

Nodes == [snap : Snaps, above : SUBSET Snaps]

(* The numbers after sid are new: nothing has them yet. *)
NumbersOK ==
    /\ registered \subseteq 1 .. sid
    /\ \A s \in Snaps : childSnapshot[s] \subseteq 1 .. sid /\ (s > sid => childSnapshot[s] = {})

(* vm.Snapshot is there, with a current snapshot, as long as the tree has a node. *)
CurrentOK == roots # <<>> => info /\ current # None

(* The request of a careful client is alone and still what it was when it was sent. *)
Sent(r) ==
    /\ ~gone
    /\ r.op \in {"remove", "revert"} => r.snap \in registered
    /\ r.op = "remove" =>
        /\ ~r.children
        /\ r.snap = current => \/ findParentSnapshotInTree(roots, r.snap) # None
                               \/ InTree = {r.snap}
CarefulOK ==
    careful => \A c \in Clients : req[c] # Idle =>
        Sent(req[c]) /\ \A d \in Clients : req[d] # Idle => d = c

IInv == TreeOK /\ NumbersOK /\ CurrentOK /\ CarefulIsSafe /\ CarefulOK

-----------------------------------------------------------------------------
(***************************************************************************)
(* Every set of natural numbers has a least one, and so induction over the *)
(* natural numbers, for a set: the induction theorems of the library are   *)
(* about an operator.                                                      *)
(***************************************************************************)
LEMMA LeastNat ==
    ASSUME NEW T \in SUBSET Nat, T # {}
    PROVE  \E m \in T : \A k \in T : m <= k
<1> DEFINE R == {p \in Nat \X Nat : p[1] < p[2]}
<1>1. IsWellFoundedOn(R, Nat)
  BY NatLessThanWellFounded DEF OpToRel
<1>2. PICK m \in T : \A k \in T : ~ (<<k, m>> \in R)
  <2> HIDE DEF R
  <2> QED
    BY <1>1, WFMin
<1>3. ASSUME NEW k \in T PROVE m <= k
  <2>1. k < m => <<k, m>> \in R
    OBVIOUS
  <2>2. ~(k < m)
    BY <1>2, <2>1
  <2> QED
    BY <2>2
<1> QED
  BY <1>3

LEMMA NatSetInduction ==
    ASSUME NEW S \in SUBSET Nat, 0 \in S, \A n \in S : n + 1 \in S
    PROVE  S = Nat
<1> DEFINE T == Nat \ S
<1> SUFFICES ASSUME T # {} PROVE FALSE
  OBVIOUS
<1>1. PICK m \in T : \A k \in T : m <= k
  BY LeastNat
<1>2. m - 1 \in Nat /\ m - 1 \in S
  BY <1>1
<1> QED
  BY <1>1, <1>2

LEMMA SeqFacts ==
    ASSUME NEW S, NEW s \in Seq(S)
    PROVE  /\ Len(s) \in Nat /\ DOMAIN s = 1 .. Len(s)
           /\ \A i \in 1 .. Len(s) : s[i] \in S
  OBVIOUS

LEMMA SubSeqFacts ==
    ASSUME NEW S, NEW s \in Seq(S), NEW i \in 1 .. Len(s) + 1
    PROVE  /\ SubSeq(s, i, Len(s)) \in Seq(S) /\ Len(SubSeq(s, i, Len(s))) = Len(s) - i + 1
           /\ \A n \in 1 .. Len(SubSeq(s, i, Len(s))) : SubSeq(s, i, Len(s))[n] = s[i + n - 1]
  OBVIOUS

LEMMA ConcatFacts ==
    ASSUME NEW S, NEW s \in Seq(S), NEW t \in Seq(S)
    PROVE  /\ s \o t \in Seq(S) /\ Len(s \o t) = Len(s) + Len(t)
           /\ \A i \in 1 .. Len(s) : (s \o t)[i] = s[i]
           /\ \A i \in 1 .. Len(t) : (s \o t)[Len(s) + i] = t[i]
  OBVIOUS

-----------------------------------------------------------------------------
(***************************************************************************)
(* FlattenSeq adds the members of s one by one: g[n] is what it has after  *)
(* n of them.                                                              *)
(***************************************************************************)
Adds(s, g) == g[0] = <<>> /\ \A n \in 1 .. Len(s) : g[n] = g[n - 1] \o s[n]

(* There is such a g, ... *)
LEMMA AddsExists ==
    ASSUME NEW S, NEW s \in Seq(Seq(S))
    PROVE  \E g \in [0 .. Len(s) -> Seq(S)] : Adds(s, g)
<1> DEFINE P(k, g) == /\ g \in [0 .. k -> Seq(S)]
                      /\ g[0] = <<>> /\ \A n \in 1 .. k : g[n] = g[n - 1] \o s[n]
           T == {k \in Nat : k <= Len(s) => \E g : P(k, g)}
<1> HIDE DEF P
<1>0. Len(s) \in Nat /\ \A n \in 1 .. Len(s) : s[n] \in Seq(S)
  BY SeqFacts
<1>1. 0 \in T
  <2>1. P(0, [n \in 0 .. 0 |-> <<>>])
    BY DEF P
  <2> QED
    BY <2>1
<1>2. ASSUME NEW k \in T PROVE k + 1 \in T
  <2>1. CASE k + 1 > Len(s)
    BY <1>0, <2>1
  <2>2. CASE k + 1 <= Len(s)
    <3>1. PICK g : P(k, g)
      BY <1>0, <2>2
    <3> DEFINE h == [n \in 0 .. k + 1 |-> IF n = k + 1 THEN g[k] \o s[k + 1] ELSE g[n]]
    <3>2. k \in Nat /\ g \in [0 .. k -> Seq(S)] /\ g[k] \in Seq(S) /\ s[k + 1] \in Seq(S)
      BY <1>0, <2>2, <3>1 DEF P
    <3>3. h \in [0 .. k + 1 -> Seq(S)]
      BY <3>2
    <3>4. h[k + 1] = g[k] \o s[k + 1] /\ \A n \in 0 .. k : h[n] = g[n]
      <4>1. k + 1 \in 0 .. k + 1 /\ \A n \in 0 .. k : n \in 0 .. k + 1 /\ n # k + 1
        BY <3>2
      <4>2. \A n \in 0 .. k + 1 : h[n] = IF n = k + 1 THEN g[k] \o s[k + 1] ELSE g[n]
        OBVIOUS
      <4> HIDE DEF h
      <4> QED
        BY <4>1, <4>2, Zenon
    <3> HIDE DEF h
    <3>5. h[0] = <<>>
      BY <3>1, <3>2, <3>4 DEF P
    <3>6. ASSUME NEW n \in 1 .. k + 1 PROVE h[n] = h[n - 1] \o s[n]
      <4>1. CASE n = k + 1
        <5>1. n - 1 = k /\ k \in 0 .. k
          BY <3>2, <4>1
        <5>2. h[n] = g[k] \o s[n] /\ h[n - 1] = g[k]
          BY <3>4, <4>1, <5>1
        <5> QED
          BY <5>2
      <4>2. CASE n \in 1 .. k
        <5>1. g[n] = g[n - 1] \o s[n]
          BY <3>1, <4>2 DEF P
        <5>2. h[n] = g[n] /\ h[n - 1] = g[n - 1]
          <6>1. n \in 0 .. k /\ n - 1 \in 0 .. k
            BY <3>2, <4>2
          <6> QED
            BY <3>4, <6>1, Zenon
        <5> QED
          BY <5>1, <5>2
      <4>3. n = k + 1 \/ n \in 1 .. k
        BY <3>2
      <4> QED
        BY <4>1, <4>2, <4>3
    <3>7. P(k + 1, h)
      BY <3>3, <3>5, <3>6 DEF P
    <3> QED
      BY <3>7
  <2> QED
    BY <1>0, <2>1, <2>2
<1>3. T = Nat
  <2>1. T \in SUBSET Nat
    OBVIOUS
  <2> HIDE DEF T
  <2> QED
    BY <1>1, <1>2, <2>1, NatSetInduction
<1>4. PICK g : P(Len(s), g)
  <2>1. Len(s) \in T
    BY <1>0, <1>3
  <2> QED
    BY <1>0, <2>1
<1> QED
  BY <1>4 DEF P, Adds

(* ... and FlattenSeq is where it ends. *)
LEMMA FlattenIs ==
    ASSUME NEW S, NEW s \in Seq(Seq(S)), NEW g \in [0 .. Len(s) -> Seq(S)], Adds(s, g)
    PROVE  FlattenSeq(s) = g[Len(s)]
<1>0. Len(s) \in Nat /\ \A n \in 1 .. Len(s) : s[n] \in Seq(S)
  BY SeqFacts
<1>1. CASE Len(s) = 0
  <2>1. FlattenSeq(s) = s
    BY <1>1 DEF FlattenSeq
  <2> QED
    BY <1>1, <2>1 DEF Adds
<1>2. CASE Len(s) # 0
  <2> DEFINE E(f) == f = [i \in 1 .. Len(s) |-> IF i = 1 THEN s[i] ELSE f[i - 1] \o s[i]]
             flat == CHOOSE f : E(f)
  <2>1. FlattenSeq(s) = flat[Len(s)]
    BY <1>2 DEF FlattenSeq
  <2>2. E([i \in 1 .. Len(s) |-> g[i]])
    <3> DEFINE h == [i \in 1 .. Len(s) |-> g[i]]
    <3>1. ASSUME NEW i \in 1 .. Len(s) PROVE g[i] = IF i = 1 THEN s[i] ELSE h[i - 1] \o s[i]
      <4>1. g[i] = g[i - 1] \o s[i]
        BY DEF Adds
      <4>2. CASE i = 1
        <5>1. g[0] = <<>> /\ s[1] \in Seq(S) /\ i - 1 = 0
          BY <1>0, <4>2 DEF Adds
        <5>2. g[1] = g[0] \o s[1]
          BY <4>1, <4>2, <5>1
        <5>3. g[1] = s[1]
          BY <5>1, <5>2
        <5> QED
          BY <4>2, <5>3
      <4>3. CASE i # 1
        <5>1. i - 1 \in 1 .. Len(s)
          BY <1>0, <4>3
        <5>2. h[i - 1] = g[i - 1]
          BY <5>1
        <5> HIDE DEF h
        <5> QED
          BY <4>1, <4>3, <5>2
      <4> QED
        BY <4>2, <4>3
    <3> QED
      BY <3>1
  <2>3. E(flat)
    <3> HIDE DEF E
    <3> QED
      BY <2>2, Zenon
  <2> DEFINE T == {n \in Nat : n + 1 <= Len(s) => flat[n + 1] = g[n + 1]}
  <2> HIDE DEF flat
  <2>4. \A i \in 1 .. Len(s) : flat[i] = IF i = 1 THEN s[i] ELSE flat[i - 1] \o s[i]
    BY <2>3
  <2> HIDE DEF E
  <2>5. 0 \in T
    <3>1. 1 \in 1 .. Len(s) /\ 1 - 1 = 0 /\ 0 + 1 = 1
      BY <1>0, <1>2
    <3>2. g[1] = g[0] \o s[1]
      BY <3>1 DEF Adds
    <3>3. g[0] = <<>> /\ s[1] \in Seq(S)
      BY <1>0, <3>1 DEF Adds
    <3>4. flat[1] = s[1]
      BY <2>4, <3>1
    <3>5. g[1] = s[1]
      BY <3>2, <3>3
    <3> QED
      BY <3>1, <3>4, <3>5
  <2>6. ASSUME NEW n \in T PROVE n + 1 \in T
    <3> SUFFICES ASSUME (n + 1) + 1 <= Len(s) PROVE flat[(n + 1) + 1] = g[(n + 1) + 1]
      OBVIOUS
    <3>1. n \in Nat /\ (n + 1) + 1 \in 1 .. Len(s) /\ (n + 1) + 1 # 1 /\ ((n + 1) + 1) - 1 = n + 1
      BY <1>0
    <3>2. flat[n + 1] = g[n + 1]
      BY <1>0
    <3>3. flat[(n + 1) + 1] = flat[n + 1] \o s[(n + 1) + 1]
      BY <2>4, <3>1
    <3>4. g[(n + 1) + 1] = g[n + 1] \o s[(n + 1) + 1]
      BY <3>1 DEF Adds
    <3> QED
      BY <3>2, <3>3, <3>4
  <2>7. T = Nat
    <3>1. T \in SUBSET Nat
      OBVIOUS
    <3> HIDE DEF T
    <3> QED
      BY <2>5, <2>6, <3>1, NatSetInduction
  <2>8. Len(s) - 1 \in Nat /\ (Len(s) - 1) + 1 = Len(s)
    BY <1>0, <1>2
  <2>9. Len(s) - 1 \in T
    BY <2>7, <2>8
  <2>10. flat[Len(s)] = g[Len(s)]
    BY <1>0, <2>8, <2>9
  <2> QED
    BY <2>1, <2>10
<1> QED
  BY <1>1, <1>2

(* Adding one more, and adding nothing in between. *)
LEMMA FlattenAppend ==
    ASSUME NEW S, NEW s \in Seq(Seq(S)), NEW x \in Seq(S)
    PROVE  FlattenSeq(Append(s, x)) = FlattenSeq(s) \o x
<1>0. /\ Len(s) \in Nat /\ Append(s, x) \in Seq(Seq(S)) /\ Len(Append(s, x)) = Len(s) + 1
      /\ Append(s, x)[Len(s) + 1] = x /\ \A n \in 1 .. Len(s) : Append(s, x)[n] = s[n]
  OBVIOUS
<1>1. PICK g \in [0 .. Len(s) -> Seq(S)] : Adds(s, g)
  BY AddsExists
<1> DEFINE h == [n \in 0 .. Len(s) + 1 |-> IF n = Len(s) + 1 THEN g[Len(s)] \o x ELSE g[n]]
<1>2. g[Len(s)] \in Seq(S)
  BY <1>0
<1>3. h \in [0 .. Len(Append(s, x)) -> Seq(S)]
  BY <1>0, <1>2
<1>4. h[Len(s) + 1] = g[Len(s)] \o x /\ \A n \in 0 .. Len(s) : h[n] = g[n]
  BY <1>0
<1> HIDE DEF h
<1>5. Adds(Append(s, x), h)
  <2> DEFINE t == Append(s, x)
  <2> HIDE DEF t
  <2>1. ASSUME NEW n \in 1 .. Len(t) PROVE h[n] = h[n - 1] \o t[n]
    <3>0. Len(t) = Len(s) + 1 /\ t[Len(s) + 1] = x /\ \A i \in 1 .. Len(s) : t[i] = s[i]
      BY <1>0 DEF t
    <3>1. CASE n = Len(s) + 1
      <4>1. n - 1 = Len(s) /\ Len(s) \in 0 .. Len(s)
        BY <1>0, <3>1
      <4> QED
        BY <1>4, <3>0, <3>1, <4>1
    <3>2. CASE n # Len(s) + 1
      <4>1. n \in 1 .. Len(s) /\ n \in 0 .. Len(s) /\ n - 1 \in 0 .. Len(s)
        BY <1>0, <3>0, <3>2
      <4>2. g[n] = g[n - 1] \o s[n]
        BY <1>1, <4>1 DEF Adds
      <4> QED
        BY <1>4, <3>0, <4>1, <4>2
    <3> QED
      BY <3>1, <3>2
  <2>2. h[0] = <<>>
    <3>1. 0 \in 0 .. Len(s)
      BY <1>0
    <3> QED
      BY <1>1, <1>4, <3>1 DEF Adds
  <2>3. Adds(t, h)
    BY <2>1, <2>2 DEF Adds
  <2> QED
    BY <2>3 DEF t
<1>6. FlattenSeq(Append(s, x)) = h[Len(s) + 1]
  BY <1>0, <1>3, <1>5, FlattenIs
<1>7. FlattenSeq(s) = g[Len(s)]
  BY <1>1, FlattenIs
<1> QED
  BY <1>4, <1>6, <1>7

LEMMA FlattenSkip ==
    ASSUME NEW S, NEW s \in Seq(Seq(S)), NEW t \in Seq(Seq(S)), NEW k \in 0 .. Len(s),
           Len(t) = Len(s) + 1, t[k + 1] = <<>>,
           \A n \in 1 .. k : t[n] = s[n],
           \A n \in k + 1 .. Len(s) : t[n + 1] = s[n]
    PROVE  FlattenSeq(t) = FlattenSeq(s)
<1>0. Len(s) \in Nat
  OBVIOUS
<1>1. PICK g \in [0 .. Len(s) -> Seq(S)] : Adds(s, g)
  BY AddsExists
<1> DEFINE h == [n \in 0 .. Len(s) + 1 |-> IF n <= k THEN g[n] ELSE g[n - 1]]
<1>3. h \in [0 .. Len(t) -> Seq(S)]
  <2>0. \A n \in 0 .. Len(s) + 1 : IF n <= k THEN n \in 0 .. Len(s) ELSE n - 1 \in 0 .. Len(s)
    <3> HIDE DEF h
    <3> QED
      BY <1>0
  <2>1. ASSUME NEW n \in 0 .. Len(s) + 1 PROVE (IF n <= k THEN g[n] ELSE g[n - 1]) \in Seq(S)
    <3>1. CASE n <= k
      <4>1. n \in 0 .. Len(s)
        BY <2>0, <3>1
      <4>2. g[n] \in Seq(S)
        BY <4>1
      <4> QED
        BY <3>1, <4>2
    <3>2. CASE ~(n <= k)
      <4>1. n - 1 \in 0 .. Len(s)
        BY <2>0, <3>2
      <4>2. g[n - 1] \in Seq(S)
        BY <4>1
      <4> QED
        BY <3>2, <4>2
    <3> QED
      BY <3>1, <3>2
  <2>2. h \in [0 .. Len(s) + 1 -> Seq(S)]
    BY <2>1
  <2> HIDE DEF h
  <2> QED
    BY <2>2
<1>4. /\ \A n \in 0 .. k : h[n] = g[n]
      /\ \A n \in k .. Len(s) : h[n + 1] = g[n]
  BY <1>0
<1> HIDE DEF h
<1>5. ASSUME NEW n \in 1 .. Len(t) PROVE h[n] = h[n - 1] \o t[n]
  <2>1. CASE n \in 1 .. k
    <3>1. n \in 0 .. k /\ n - 1 \in 0 .. k /\ n \in 1 .. Len(s)
      BY <1>0, <2>1
    <3>2. g[n] = g[n - 1] \o s[n]
      BY <1>1, <3>1 DEF Adds
    <3> QED
      BY <1>4, <2>1, <3>1, <3>2
  <2>2. CASE n = k + 1
    <3>1. k \in 0 .. k /\ k \in k .. Len(s) /\ n - 1 = k
      BY <1>0, <2>2
    <3>2. h[n] = g[k] /\ h[n - 1] = g[k]
      BY <1>4, <2>2, <3>1
    <3>3. t[n] = <<>> /\ g[k] \in Seq(S)
      BY <2>2
    <3> QED
      BY <3>2, <3>3
  <2>3. CASE n > k + 1
    <3>1. n - 1 \in k + 1 .. Len(s) /\ n - 1 \in k .. Len(s) /\ n - 2 \in k .. Len(s)
          /\ (n - 1) + 1 = n /\ (n - 2) + 1 = n - 1 /\ n - 1 \in 1 .. Len(s) /\ (n - 1) - 1 = n - 2
      BY <1>0, <2>3
    <3>2. h[n] = g[n - 1] /\ h[n - 1] = g[n - 2] /\ t[n] = s[n - 1]
      BY <1>4, <3>1
    <3>3. g[n - 1] = g[n - 2] \o s[n - 1]
      BY <1>1, <3>1 DEF Adds
    <3> QED
      BY <3>2, <3>3
  <2>4. n \in 1 .. k \/ n = k + 1 \/ n > k + 1
    BY <1>0
  <2> QED
    BY <2>1, <2>2, <2>3, <2>4
<1>6. Adds(t, h)
  <2>1. h[0] = g[0]
    BY <1>0, <1>4
  <2> QED
    BY <1>1, <1>5, <2>1 DEF Adds
<1>7. FlattenSeq(t) = h[Len(s) + 1]
  BY <1>3, <1>6, FlattenIs
<1>8. FlattenSeq(s) = g[Len(s)]
  BY <1>1, FlattenIs
<1>9. Len(s) \in k .. Len(s)
  BY <1>0
<1> QED
  BY <1>4, <1>7, <1>8, <1>9

(***************************************************************************)
(* FlattenSeq of lists with one member at most keeps the members of those  *)
(* that have one, in their order: m says where they were.                  *)
(***************************************************************************)
Picks(s, out, m) ==
    /\ m \in [1 .. Len(out) -> 1 .. Len(s)]
    /\ \A i, j \in 1 .. Len(out) : i < j => m[i] < m[j]
    /\ \A i \in 1 .. Len(out) : s[m[i]] = <<out[i]>>
    /\ \A n \in 1 .. Len(s) : s[n] = <<>> \/ \E i \in 1 .. Len(out) : m[i] = n

LEMMA FlattenPicks ==
    ASSUME NEW S, NEW s \in Seq(Seq(S)),
           \A n \in 1 .. Len(s) : s[n] = <<>> \/ \E x \in S : s[n] = <<x>>
    PROVE  FlattenSeq(s) \in Seq(S) /\ \E m : Picks(s, FlattenSeq(s), m)
<1>0. Len(s) \in Nat
  OBVIOUS
<1>1. PICK g \in [0 .. Len(s) -> Seq(S)] : Adds(s, g)
  BY AddsExists
<1> DEFINE P(k, m) ==
               /\ m \in [1 .. Len(g[k]) -> 1 .. k]
               /\ \A i, j \in 1 .. Len(g[k]) : i < j => m[i] < m[j]
               /\ \A i \in 1 .. Len(g[k]) : s[m[i]] = <<g[k][i]>>
               /\ \A n \in 1 .. k : s[n] = <<>> \/ \E i \in 1 .. Len(g[k]) : m[i] = n
           T == {k \in Nat : k <= Len(s) => \E m : P(k, m)}
<1> HIDE DEF P
<1>2. 0 \in T
  <2>1. g[0] = <<>>
    BY <1>1 DEF Adds
  <2>2. Len(g[0]) = 0 /\ 1 .. 0 = {}
    BY <2>1
  <2>3. P(0, [i \in 1 .. 0 |-> 0])
    BY <2>2 DEF P
  <2> QED
    BY <2>3
<1>3. ASSUME NEW k \in T PROVE k + 1 \in T
  <2> SUFFICES ASSUME k + 1 <= Len(s) PROVE \E m : P(k + 1, m)
    BY <1>0
  <2>1. PICK m : P(k, m)
    BY <1>0
  <2>2. /\ k \in Nat /\ k + 1 \in 1 .. Len(s) /\ (k + 1) - 1 = k
        /\ g[k] \in Seq(S) /\ Len(g[k]) \in Nat
    <3>1. k \in Nat /\ k + 1 \in 1 .. Len(s) /\ (k + 1) - 1 = k /\ k \in 0 .. Len(s)
      BY <1>0
    <3>2. g[k] \in Seq(S)
      BY <3>1
    <3> QED
      BY <3>1, <3>2
  <2>3. g[k + 1] = g[k] \o s[k + 1]
    BY <1>1, <2>2 DEF Adds
  <2> DEFINE L == Len(g[k])
  <2>4. CASE s[k + 1] = <<>>
    <3>1. g[k + 1] = g[k]
      BY <2>2, <2>3, <2>4
    <3>2. m \in [1 .. Len(g[k]) -> 1 .. k + 1]
      BY <2>1, <2>2 DEF P
    <3>3. \A n \in 1 .. k + 1 : s[n] = <<>> \/ \E i \in 1 .. Len(g[k]) : m[i] = n
      <4>1. \A n \in 1 .. k + 1 : n \in 1 .. k \/ n = k + 1
        BY <2>2
      <4>2. \A n \in 1 .. k : s[n] = <<>> \/ \E i \in 1 .. Len(g[k]) : m[i] = n
        BY <2>1 DEF P
      <4> QED
        BY <2>4, <4>1, <4>2
    <3>4. P(k + 1, m)
      BY <2>1, <3>1, <3>2, <3>3 DEF P
    <3> QED
      BY <3>4
  <2>5. ASSUME NEW x \in S, s[k + 1] = <<x>> PROVE \E h : P(k + 1, h)
    <3> DEFINE h == [i \in 1 .. L + 1 |-> IF i = L + 1 THEN k + 1 ELSE m[i]]
    <3>1. g[k + 1] \in Seq(S) /\ Len(g[k + 1]) = L + 1 /\ g[k + 1][L + 1] = x
          /\ \A i \in 1 .. L : g[k + 1][i] = g[k][i]
      BY <2>2, <2>3, <2>5
    <3>10. L \in Nat /\ m \in [1 .. L -> 1 .. k]
      BY <2>1, <2>2 DEF P
    <3> HIDE DEF L
    <3>2. h[L + 1] = k + 1 /\ \A i \in 1 .. L : h[i] = m[i] /\ m[i] \in 1 .. k
      BY <3>10
    <3>3. h \in [1 .. L + 1 -> 1 .. k + 1]
      BY <2>2, <3>10
    <3> HIDE DEF h
    <3>4. L \in Nat /\ 1 .. L + 1 = (1 .. L) \cup {L + 1} /\ 1 .. k + 1 = (1 .. k) \cup {k + 1}
      BY <2>2 DEF L
    <3>5. /\ \A i, j \in 1 .. L : i < j => m[i] < m[j]
          /\ \A i \in 1 .. L : s[m[i]] = <<g[k][i]>>
          /\ \A n \in 1 .. k : s[n] = <<>> \/ \E i \in 1 .. L : m[i] = n
      BY <2>1 DEF P, L
    <3>6. \A i, j \in 1 .. L + 1 : i < j => h[i] < h[j]
      <4> SUFFICES ASSUME NEW i \in 1 .. L + 1, NEW j \in 1 .. L + 1, i < j PROVE h[i] < h[j]
        OBVIOUS
      <4>1. i \in 1 .. L
        BY <3>4
      <4>2. CASE j \in 1 .. L
        BY <3>2, <3>5, <4>1, <4>2
      <4>3. CASE j = L + 1
        <5>1. h[i] \in 1 .. k /\ h[j] = k + 1
          BY <3>2, <4>1, <4>3
        <5>2. \A a \in 1 .. k : a < k + 1
          BY <2>2
        <5> QED
          BY <5>1, <5>2
      <4> QED
        BY <3>4, <4>2, <4>3
    <3>7. \A i \in 1 .. L + 1 : s[h[i]] = <<g[k + 1][i]>>
      BY <2>5, <3>1, <3>2, <3>4, <3>5
    <3>8. \A n \in 1 .. k + 1 : s[n] = <<>> \/ \E i \in 1 .. L + 1 : h[i] = n
      <4> SUFFICES ASSUME NEW n \in 1 .. k + 1, s[n] # <<>> PROVE \E i \in 1 .. L + 1 : h[i] = n
        OBVIOUS
      <4>1. CASE n = k + 1
        BY <3>2, <3>4, <4>1
      <4>2. CASE n \in 1 .. k
        BY <3>2, <3>4, <3>5, <4>2
      <4> QED
        BY <3>4, <4>1, <4>2
    <3>9. P(k + 1, h)
      BY <3>1, <3>3, <3>6, <3>7, <3>8 DEF P
    <3> QED
      BY <3>9
  <2> QED
    BY <2>2, <2>4, <2>5
<1>4. T = Nat
  <2>1. T \in SUBSET Nat
    OBVIOUS
  <2> HIDE DEF T
  <2> QED
    BY <1>2, <1>3, <2>1, NatSetInduction
<1>5. PICK m : P(Len(s), m)
  <2>1. Len(s) \in T
    BY <1>0, <1>4
  <2> QED
    BY <1>0, <2>1
<1>6. FlattenSeq(s) = g[Len(s)]
  BY <1>1, FlattenIs
<1>7. g[Len(s)] \in Seq(S)
  BY <1>0
<1>8. Picks(s, FlattenSeq(s), m)
  BY <1>5, <1>6 DEF P, Picks
<1> QED
  BY <1>6, <1>7, <1>8

-----------------------------------------------------------------------------
(* The snapshots of a list of nodes. *)
Of(tree) == ToSet(allSnapshotsInTree(tree))

LEMMA TreeFacts ==
    ASSUME NEW tree \in Seq(Nodes)
    PROVE  /\ Len(tree) \in Nat /\ DOMAIN tree = 1 .. Len(tree)
           /\ \A i \in 1 .. Len(tree) :
                  tree[i] \in Nodes /\ tree[i].snap \in Snaps /\ tree[i].above \in SUBSET Snaps
           /\ \A s : s \in Of(tree) <=> \E i \in 1 .. Len(tree) : tree[i].snap = s
           /\ IsInjective(allSnapshotsInTree(tree)) <=>
                  \A i, j \in 1 .. Len(tree) : tree[i].snap = tree[j].snap => i = j
<1>1. Len(tree) \in Nat /\ DOMAIN tree = 1 .. Len(tree) /\ \A i \in 1 .. Len(tree) : tree[i] \in Nodes
  BY SeqFacts
<1>2. \A i \in 1 .. Len(tree) : tree[i].snap \in Snaps /\ tree[i].above \in SUBSET Snaps
  BY <1>1 DEF Nodes
<1>3. \A s : s \in Of(tree) <=> \E i \in 1 .. Len(tree) : tree[i].snap = s
  BY <1>1 DEF Of, ToSet, allSnapshotsInTree
<1>4. IsInjective(allSnapshotsInTree(tree)) <=>
          \A i, j \in 1 .. Len(tree) : tree[i].snap = tree[j].snap => i = j
  BY <1>1 DEF IsInjective, allSnapshotsInTree
<1> QED
  BY <1>1, <1>2, <1>3, <1>4

(* What it is to be a forest, by the places of the nodes. *)
Once(tree) == \A i, j \in 1 .. Len(tree) : tree[i].snap = tree[j].snap => i = j
HasParents(tree) ==
    \A i \in 1 .. Len(tree) :
        \/ tree[i].above = {}
        \/ \E j \in 1 .. Len(tree) : tree[i].above = tree[j].above \cup {tree[j].snap}
InOrder(tree) ==
    \A i, j \in 1 .. Len(tree) : tree[j].snap \in tree[i].above =>
        /\ j < i /\ tree[j].above \subseteq tree[i].above
        /\ \A k \in j + 1 .. i - 1 : tree[j].snap \in tree[k].above

LEMMA ForestFacts ==
    ASSUME NEW tree \in Seq(Nodes)
    PROVE  IsForest(tree) <=> Once(tree) /\ HasParents(tree) /\ InOrder(tree)
<1>1. DOMAIN tree = 1 .. Len(tree) /\ (IsInjective(allSnapshotsInTree(tree)) <=> Once(tree))
  BY TreeFacts DEF Once
<1>2. IsForest(tree) <=> /\ IsInjective(allSnapshotsInTree(tree))
                         /\ HasParents(tree) /\ InOrder(tree)
  BY <1>1, Zenon DEF IsForest, HasParents, InOrder
<1> QED
  BY <1>1, <1>2

(* Above is what the node of a snapshot says. *)
LEMMA AboveFacts ==
    ASSUME NEW tree \in Seq(Nodes), Once(tree)
    PROVE  /\ \A i \in 1 .. Len(tree) : Above(tree, tree[i].snap) = tree[i].above
           /\ \A s : s \notin Of(tree) => Above(tree, s) = {}
<1>1. ASSUME NEW i \in 1 .. Len(tree) PROVE Above(tree, tree[i].snap) = tree[i].above
  <2>1. {j \in DOMAIN tree : tree[j].snap = tree[i].snap} = {i}
    BY TreeFacts DEF Once
  <2> QED
    BY <2>1 DEF Above
<1>2. ASSUME NEW s, s \notin Of(tree) PROVE Above(tree, s) = {}
  <2>1. {j \in DOMAIN tree : tree[j].snap = s} = {}
    BY <1>2, TreeFacts
  <2> QED
    BY <2>1 DEF Above
<1> QED
  BY <1>1, <1>2

-----------------------------------------------------------------------------
(* What removeSnapshotInTree takes out, and where it finds what it keeps. *)
Dropped(node, ref, children) == node.snap = ref \/ (children /\ ref \in node.above)
Keeps(tree, left, ref, children, m) ==
    /\ m \in [1 .. Len(left) -> 1 .. Len(tree)]
    /\ \A i, j \in 1 .. Len(left) : i < j => m[i] < m[j]
    /\ \A i \in 1 .. Len(left) :
           /\ ~Dropped(tree[m[i]], ref, children)
           /\ left[i].snap = tree[m[i]].snap
           /\ left[i].above = tree[m[i]].above \ {ref}
    /\ \A n \in 1 .. Len(tree) :
           Dropped(tree[n], ref, children) \/ \E i \in 1 .. Len(left) : m[i] = n

LEMMA RemoveKeeps ==
    ASSUME NEW tree \in Seq(Nodes), NEW ref \in Snaps, NEW children \in BOOLEAN
    PROVE  LET left == removeSnapshotInTree(tree, ref, children)
           IN left \in Seq(Nodes) /\ \E m : Keeps(tree, left, ref, children, m)
<1> DEFINE less(n) == [tree[n] EXCEPT !.above = @ \ {ref}]
           s == [n \in DOMAIN tree |-> IF Dropped(tree[n], ref, children) THEN <<>> ELSE <<less(n)>>]
           left == removeSnapshotInTree(tree, ref, children)
<1>1. left = FlattenSeq(s)
  BY DEF removeSnapshotInTree, Dropped
<1>2. \A n \in 1 .. Len(tree) :
        /\ less(n) \in Nodes /\ less(n).snap = tree[n].snap
        /\ less(n).above = tree[n].above \ {ref}
  <2> SUFFICES ASSUME NEW n \in 1 .. Len(tree)
               PROVE /\ less(n) \in Nodes /\ less(n).snap = tree[n].snap
                     /\ less(n).above = tree[n].above \ {ref}
    OBVIOUS
  <2>1. tree[n] \in [snap : Snaps, above : SUBSET Snaps]
    BY TreeFacts DEF Nodes
  <2> QED
    BY <2>1 DEF Nodes
<1> HIDE DEF less
<1>3. /\ Len(tree) \in Nat /\ DOMAIN tree = 1 .. Len(tree)
  BY TreeFacts
<1>4. \A n \in 1 .. Len(tree) : s[n] = IF Dropped(tree[n], ref, children) THEN <<>> ELSE <<less(n)>>
  BY <1>3
<1>5. s \in Seq(Seq(Nodes)) /\ Len(s) = Len(tree)
  <2>1. \A n \in 1 .. Len(tree) : <<less(n)>> \in Seq(Nodes)
    BY <1>2
  <2>2. <<>> \in Seq(Nodes)
    OBVIOUS
  <2>3. s \in [1 .. Len(tree) -> Seq(Nodes)]
    BY <1>3, <2>1, <2>2
  <2> HIDE DEF s
  <2> QED
    BY <1>3, <2>3
<1> HIDE DEF s, left
<1>6. \A n \in 1 .. Len(s) : s[n] = <<>> \/ \E x \in Nodes : s[n] = <<x>>
  BY <1>2, <1>4, <1>5
<1>7. PICK m : Picks(s, left, m)
  BY <1>1, <1>5, <1>6, FlattenPicks
<1>8. left \in Seq(Nodes)
  BY <1>1, <1>5, <1>6, FlattenPicks
<1>9. ASSUME NEW i \in 1 .. Len(left)
      PROVE  /\ ~Dropped(tree[m[i]], ref, children)
             /\ left[i].snap = tree[m[i]].snap
             /\ left[i].above = tree[m[i]].above \ {ref}
  <2>1. m[i] \in 1 .. Len(tree) /\ s[m[i]] = <<left[i]>>
    BY <1>5, <1>7 DEF Picks
  <2>2. s[m[i]] # <<>>
    BY <2>1
  <2>3. ~Dropped(tree[m[i]], ref, children) /\ s[m[i]] = <<less(m[i])>>
    BY <1>4, <2>1, <2>2
  <2>4. <<less(m[i])>>[1] = <<left[i]>>[1]
    BY <2>1, <2>3
  <2>5. left[i] = less(m[i])
    BY <2>4
  <2> QED
    BY <1>2, <2>1, <2>3, <2>5
<1>10. ASSUME NEW n \in 1 .. Len(tree), ~Dropped(tree[n], ref, children)
       PROVE  \E i \in 1 .. Len(left) : m[i] = n
  <2>1. s[n] = <<less(n)>>
    BY <1>4, <1>10
  <2>2. s[n] # <<>>
    BY <2>1
  <2> QED
    BY <1>5, <1>7, <2>2 DEF Picks
<1>11. Keeps(tree, left, ref, children, m)
  BY <1>5, <1>7, <1>9, <1>10 DEF Keeps, Picks
<1> QED
  BY <1>8, <1>11 DEF left

(* What is left is a forest, without the snapshot and, if they go with it, those below. *)
LEMMA RemoveForest ==
    ASSUME NEW tree \in Seq(Nodes), IsForest(tree), NEW ref \in Snaps, NEW children \in BOOLEAN
    PROVE  LET left == removeSnapshotInTree(tree, ref, children)
           IN /\ left \in Seq(Nodes) /\ IsForest(left)
              /\ Of(left) = {s \in Of(tree) \ {ref} : children => ref \notin Above(tree, s)}
              /\ \A s \in Of(left) : Above(left, s) = Above(tree, s) \ {ref}
<1> DEFINE left == removeSnapshotInTree(tree, ref, children)
<1>1. left \in Seq(Nodes)
  BY RemoveKeeps
<1>2. PICK m : Keeps(tree, left, ref, children, m)
  BY RemoveKeeps
<1> HIDE DEF left
<1>3. Once(tree) /\ HasParents(tree) /\ InOrder(tree)
  BY ForestFacts
<1>4. /\ m \in [1 .. Len(left) -> 1 .. Len(tree)] /\ Len(left) \in Nat /\ Len(tree) \in Nat
      /\ \A i, j \in 1 .. Len(left) : i < j => m[i] < m[j]
  BY <1>1, <1>2, TreeFacts DEF Keeps
<1>5. \A i \in 1 .. Len(left) :
         /\ m[i] \in 1 .. Len(tree)
         /\ left[i].snap = tree[m[i]].snap /\ left[i].snap # ref
         /\ left[i].above = tree[m[i]].above \ {ref}
         /\ ~(children /\ ref \in tree[m[i]].above)
  BY <1>2, <1>4 DEF Keeps, Dropped
<1>6. \A n \in 1 .. Len(tree) :
         \/ tree[n].snap = ref \/ (children /\ ref \in tree[n].above)
         \/ \E i \in 1 .. Len(left) : m[i] = n
  BY <1>2 DEF Keeps, Dropped
<1>7. \A i, j \in 1 .. Len(left) : (m[i] < m[j] => i < j) /\ (m[i] = m[j] => i = j)
  <2> SUFFICES ASSUME NEW i \in 1 .. Len(left), NEW j \in 1 .. Len(left)
               PROVE (m[i] < m[j] => i < j) /\ (m[i] = m[j] => i = j)
    OBVIOUS
  <2>1. m[i] \in Int /\ m[j] \in Int /\ i \in Int /\ j \in Int
    BY <1>5
  <2>2. (i < j => m[i] < m[j]) /\ (j < i => m[j] < m[i])
    BY <1>4
  <2> QED
    BY <2>1, <2>2
<1>8. Once(left)
  <2> SUFFICES ASSUME NEW i \in 1 .. Len(left), NEW j \in 1 .. Len(left), left[i].snap = left[j].snap
               PROVE  i = j
    BY DEF Once
  <2>1. tree[m[i]].snap = tree[m[j]].snap /\ m[i] \in 1 .. Len(tree) /\ m[j] \in 1 .. Len(tree)
    BY <1>5
  <2>2. m[i] = m[j]
    BY <1>3, <2>1 DEF Once
  <2> QED
    BY <1>7, <2>2
<1>9. \A i \in 1 .. Len(tree) : tree[i].snap \notin tree[i].above
  BY <1>3, <1>4 DEF InOrder
<1>10. HasParents(left)
  <2> SUFFICES ASSUME NEW i \in 1 .. Len(left), left[i].above # {}
               PROVE  \E j \in 1 .. Len(left) : left[i].above = left[j].above \cup {left[j].snap}
    BY DEF HasParents
  <2>1. PICK p \in 1 .. Len(tree) : tree[m[i]].above = tree[p].above \cup {tree[p].snap}
    BY <1>3, <1>5 DEF HasParents
  <2>2. ~(children /\ ref \in tree[p].above)
    BY <1>5, <2>1
  <2>3. CASE tree[p].snap # ref
    <3>1. PICK j \in 1 .. Len(left) : m[j] = p
      BY <1>6, <2>2, <2>3
    <3>2. left[j].snap = tree[p].snap /\ left[j].above = tree[p].above \ {ref}
      BY <1>5, <3>1
    <3>3. left[i].above = left[j].above \cup {left[j].snap}
      BY <1>5, <2>1, <2>3, <3>2
    <3> QED
      BY <3>3
  <2>4. CASE tree[p].snap = ref
    <3>1. left[i].above = tree[p].above
      <4>1. left[i].above = tree[m[i]].above \ {ref}
        BY <1>5
      <4>2. ref \notin tree[p].above
        BY <1>9, <2>4
      <4> QED
        BY <2>1, <2>4, <4>1, <4>2
    <3>2. PICK q \in 1 .. Len(tree) : tree[p].above = tree[q].above \cup {tree[q].snap}
      BY <1>3, <3>1 DEF HasParents
    <3>3. ref \notin tree[p].above
      BY <1>9, <2>4
    <3>4. tree[q].snap # ref /\ ref \notin tree[q].above
      BY <3>2, <3>3
    <3>5. PICK j \in 1 .. Len(left) : m[j] = q
      BY <1>6, <3>4
    <3>6. left[j].snap = tree[q].snap /\ left[j].above = tree[q].above
      <4>1. left[j].snap = tree[q].snap /\ left[j].above = tree[q].above \ {ref}
        BY <1>5, <3>5
      <4> QED
        BY <3>4, <4>1
    <3> QED
      BY <3>1, <3>2, <3>6
  <2> QED
    BY <2>3, <2>4
<1>11. InOrder(left)
  <2> SUFFICES ASSUME NEW i \in 1 .. Len(left), NEW j \in 1 .. Len(left), left[j].snap \in left[i].above
               PROVE  /\ j < i /\ left[j].above \subseteq left[i].above
                      /\ \A k \in j + 1 .. i - 1 : left[j].snap \in left[k].above
    BY DEF InOrder
  <2>1. tree[m[j]].snap \in tree[m[i]].above
    BY <1>5
  <2>2. /\ m[j] < m[i] /\ tree[m[j]].above \subseteq tree[m[i]].above
        /\ \A k \in m[j] + 1 .. m[i] - 1 : tree[m[j]].snap \in tree[k].above
    BY <1>3, <1>5, <2>1 DEF InOrder
  <2>3. j < i /\ left[j].above \subseteq left[i].above
    <3>1. left[j].above = tree[m[j]].above \ {ref} /\ left[i].above = tree[m[i]].above \ {ref}
      BY <1>5
    <3>2. j < i
      BY <1>7, <2>2
    <3> QED
      BY <2>2, <3>1, <3>2
  <2>4. ASSUME NEW k \in j + 1 .. i - 1 PROVE left[j].snap \in left[k].above
    <3>1. k \in 1 .. Len(left) /\ j < k /\ k < i
      BY <1>4
    <3>2. m[j] < m[k] /\ m[k] < m[i] /\ m[j] \in Int /\ m[k] \in Int /\ m[i] \in Int
      BY <1>4, <1>5, <3>1
    <3>3. m[k] \in m[j] + 1 .. m[i] - 1
      BY <3>2
    <3>4. tree[m[j]].snap \in tree[m[k]].above
      BY <2>2, <3>3
    <3> QED
      BY <1>5, <3>1, <3>4
  <2> QED
    BY <2>3, <2>4
<1>12. IsForest(left)
  BY <1>1, <1>8, <1>10, <1>11, ForestFacts
<1>13. ASSUME NEW s \in Of(left)
       PROVE  /\ s \in Of(tree) \ {ref} /\ (children => ref \notin Above(tree, s))
              /\ Above(left, s) = Above(tree, s) \ {ref}
  <2>1. PICK i \in 1 .. Len(left) : left[i].snap = s
    BY <1>1, TreeFacts
  <2>2. /\ Above(left, s) = left[i].above /\ Above(tree, s) = tree[m[i]].above
        /\ tree[m[i]].snap = s
    BY <1>1, <1>3, <1>5, <1>8, <2>1, AboveFacts
  <2> QED
    BY <1>5, <2>1, <2>2, TreeFacts
<1>14. ASSUME NEW s \in Of(tree), s # ref, children => ref \notin Above(tree, s)
       PROVE  s \in Of(left)
  <2>1. PICK n \in 1 .. Len(tree) : tree[n].snap = s
    BY TreeFacts
  <2>2. Above(tree, s) = tree[n].above
    BY <1>3, <2>1, AboveFacts
  <2>3. PICK i \in 1 .. Len(left) : m[i] = n
    BY <1>6, <1>14, <2>1, <2>2
  <2>4. left[i].snap = s
    BY <1>5, <2>1, <2>3
  <2> QED
    BY <1>1, <2>4, TreeFacts
<1> QED
  BY <1>1, <1>12, <1>13, <1>14 DEF left

-----------------------------------------------------------------------------
(* A number that is largest in a set of places. *)
LEMMA MaxPlace ==
    ASSUME NEW n \in Nat, NEW B \in SUBSET (1 .. n), B # {}
    PROVE  Max(B) \in B /\ \A k \in B : k <= Max(B)
<1> DEFINE T == {n - k : k \in B}
<1>1. T \in SUBSET Nat /\ T # {}
  <2>1. \A k \in B : n - k \in Nat
    OBVIOUS
  <2> QED
    BY <2>1
<1>2. PICK t \in T : \A k \in T : t <= k
  <2> HIDE DEF T
  <2> QED
    BY <1>1, LeastNat
<1>3. PICK m \in B : t = n - m
  OBVIOUS
<1>4. \A k \in B : m >= k
  <2> SUFFICES ASSUME NEW k \in B PROVE m >= k
    OBVIOUS
  <2>1. n - m <= n - k
    BY <1>2, <1>3
  <2> QED
    BY <2>1
<1>5. \E x \in B : \A y \in B : x >= y
  BY <1>4
<1>6. Max(B) \in B /\ \A y \in B : Max(B) >= y
  BY <1>5, Zenon DEF Max
<1> QED
  BY <1>6

(* Where AddChild puts the new node: after the last that is below its parent. *)
Inserts(tree, new, r, k, s) ==
    /\ r \in 1 .. k /\ k \in 1 .. Len(tree)
    /\ new \in Seq(Nodes) /\ Len(new) = Len(tree) + 1
    /\ \A i \in 1 .. k : new[i] = tree[i]
    /\ new[k + 1].snap = s /\ new[k + 1].above = tree[r].above \cup {tree[r].snap}
    /\ \A i \in k + 1 .. Len(tree) : new[i + 1] = tree[i]

LEMMA AddInserts ==
    ASSUME NEW tree \in Seq(Nodes), IsForest(tree), NEW r \in 1 .. Len(tree), NEW s \in Snaps
    PROVE  \E k \in 1 .. Len(tree) :
               /\ Inserts(tree, AddChild(tree, tree[r].snap, s), r, k, s)
               /\ k = r \/ tree[r].snap \in tree[k].above
               /\ \A i \in k + 1 .. Len(tree) : tree[r].snap \notin tree[i].above
<1> DEFINE ref == tree[r].snap
           B == {i \in DOMAIN tree : ref \in tree[i].above \cup {tree[i].snap}}
           k == Max(B)
           node == Node(s, tree[r].above \cup {ref})
<1>1. Once(tree) /\ InOrder(tree) /\ Len(tree) \in Nat /\ DOMAIN tree = 1 .. Len(tree)
  BY ForestFacts, TreeFacts
<1>2. Above(tree, ref) = tree[r].above
  BY <1>1, AboveFacts
<1>3. AddChild(tree, ref, s) = InsertAt(tree, k + 1, node)
  BY <1>2 DEF AddChild
<1>4. r \in B /\ B \in SUBSET (1 .. Len(tree))
  BY <1>1
<1>5. k \in B /\ \A i \in B : i <= k
  <2> HIDE DEF B
  <2> QED
    BY <1>1, <1>4, MaxPlace
<1>6. node \in Nodes /\ node.snap = s /\ node.above = tree[r].above \cup {tree[r].snap}
  <2>1. tree[r].snap \in Snaps /\ tree[r].above \in SUBSET Snaps
    BY TreeFacts
  <2>2. node = [snap |-> s, above |-> tree[r].above \cup {tree[r].snap}]
    BY DEF Node
  <2> HIDE DEF node
  <2> QED
    BY <2>1, <2>2 DEF Nodes
<1>7. k \in 1 .. Len(tree) /\ r \in 1 .. k
  BY <1>1, <1>4, <1>5
<1>8. k = r \/ tree[r].snap \in tree[k].above
  BY <1>1, <1>5 DEF Once
<1>9. \A i \in k + 1 .. Len(tree) : tree[r].snap \notin tree[i].above
  <2> HIDE DEF k
  <2>1. \A i \in k + 1 .. Len(tree) : i \in DOMAIN tree /\ ~(i <= k)
    BY <1>1, <1>7
  <2> QED
    BY <1>5, <2>1
<1> HIDE DEF k, B, node
<1> DEFINE new == InsertAt(tree, k + 1, node)
<1>10. /\ new \in Seq(Nodes) /\ Len(new) = Len(tree) + 1
       /\ \A i \in 1 .. k : new[i] = tree[i]
       /\ new[k + 1] = node
       /\ \A i \in k + 1 .. Len(tree) : new[i + 1] = tree[i]
  <2> DEFINE a == SubSeq(tree, 1, k)
             z == SubSeq(tree, k + 1, Len(tree))
  <2>0. (k + 1) - 1 = k /\ k \in Nat /\ k + 1 \in Nat /\ k <= Len(tree)
    BY <1>1, <1>7
  <2>1. new = (a \o <<node>>) \o z
    BY <2>0 DEF InsertAt
  <2>2. a \in Seq(Nodes) /\ Len(a) = k /\ \A i \in 1 .. k : a[i] = tree[i]
    BY <1>1, <1>7
  <2>3. /\ z \in Seq(Nodes) /\ Len(z) = Len(tree) - k
        /\ \A i \in 1 .. Len(tree) - k : z[i] = tree[k + i]
    <3>0. k + 1 \in 1 .. Len(tree) + 1
      BY <1>1, <2>0
    <3>1. /\ z \in Seq(Nodes) /\ Len(z) = Len(tree) - (k + 1) + 1
          /\ \A i \in 1 .. Len(z) : z[i] = tree[(k + 1) + i - 1]
      BY <3>0, SubSeqFacts, Zenon
    <3>2. Len(tree) - (k + 1) + 1 = Len(tree) - k
          /\ \A i \in 1 .. Len(tree) - k : (k + 1) + i - 1 = k + i
      BY <1>1, <2>0
    <3> HIDE DEF z
    <3>3. Len(z) = Len(tree) - k
      BY <3>1, <3>2
    <3>4. ASSUME NEW i \in 1 .. Len(tree) - k PROVE z[i] = tree[k + i]
      <4>1. z[i] = tree[(k + 1) + i - 1] /\ (k + 1) + i - 1 = k + i
        BY <3>1, <3>2, <3>3, Zenon
      <4> QED
        BY <4>1, Zenon
    <3> QED
      BY <3>1, <3>3, <3>4
  <2> HIDE DEF a, z
  <2>4. /\ (a \o <<node>>) \in Seq(Nodes) /\ Len(a \o <<node>>) = k + 1
        /\ \A i \in 1 .. k : (a \o <<node>>)[i] = tree[i]
        /\ (a \o <<node>>)[k + 1] = node
    BY <1>6, <1>7, <2>2
  <2> DEFINE b == a \o <<node>>
  <2> HIDE DEF b
  <2>5. b \in Seq(Nodes) /\ Len(b) = k + 1 /\ (\A i \in 1 .. k : b[i] = tree[i]) /\ b[k + 1] = node
    BY <2>4 DEF b
  <2>6. new = b \o z
    BY <2>1 DEF b
  <2>7. /\ b \o z \in Seq(Nodes) /\ Len(b \o z) = Len(tree) + 1
        /\ \A i \in 1 .. k + 1 : (b \o z)[i] = b[i]
        /\ \A i \in 1 .. Len(tree) - k : (b \o z)[(k + 1) + i] = z[i]
    <3>0. b \in Seq(Nodes) /\ z \in Seq(Nodes)
      BY <2>3, <2>5
    <3>1. /\ b \o z \in Seq(Nodes) /\ Len(b \o z) = Len(b) + Len(z)
          /\ \A i \in 1 .. Len(b) : (b \o z)[i] = b[i]
          /\ \A i \in 1 .. Len(z) : (b \o z)[Len(b) + i] = z[i]
      BY <3>0, ConcatFacts
    <3>2. (k + 1) + (Len(tree) - k) = Len(tree) + 1
      BY <1>1, <2>0
    <3> QED
      BY <2>3, <2>5, <3>1, <3>2
  <2>8. ASSUME NEW i \in k + 1 .. Len(tree) PROVE (b \o z)[i + 1] = tree[i]
    <3>1. i - k \in 1 .. Len(tree) - k /\ (k + 1) + (i - k) = i + 1 /\ k + (i - k) = i
      BY <1>1, <1>7
    <3>2. (b \o z)[(k + 1) + (i - k)] = z[i - k] /\ z[i - k] = tree[k + (i - k)]
      BY <2>3, <2>7, <3>1
    <3> QED
      BY <3>1, <3>2
  <2>9. k + 1 \in 1 .. k + 1 /\ \A i \in 1 .. k : i \in 1 .. k + 1
    BY <1>7
  <2> HIDE DEF new
  <2> QED
    BY <2>5, <2>6, <2>7, <2>8, <2>9
<1>11. Inserts(tree, AddChild(tree, ref, s), r, k, s)
  <2> HIDE DEF new
  <2> QED
    BY <1>3, <1>6, <1>7, <1>10 DEF Inserts, new
<1> QED
  BY <1>7, <1>8, <1>9, <1>11

(* The nodes before the new one stay where they are, those after it move on. *)
At(k, i) == IF i <= k THEN i ELSE i + 1

LEMMA InsertPlaces ==
    ASSUME NEW tree \in Seq(Nodes), NEW new, NEW r, NEW k, NEW s, Inserts(tree, new, r, k, s)
    PROVE  /\ \A i \in 1 .. Len(tree) : At(k, i) \in 1 .. Len(new) /\ new[At(k, i)] = tree[i]
           /\ \A n \in 1 .. Len(new) : n = k + 1 \/ \E i \in 1 .. Len(tree) : n = At(k, i)
<1> DEFINE at(i) == At(k, i)
<1> USE DEF At
<1>1. k \in 1 .. Len(tree) /\ Len(tree) \in Nat /\ Len(new) = Len(tree) + 1
  BY TreeFacts DEF Inserts
<1>2. ASSUME NEW i \in 1 .. Len(tree) PROVE at(i) \in 1 .. Len(new) /\ new[at(i)] = tree[i]
  <2>1. CASE i <= k
    <3>1. i \in 1 .. k /\ at(i) = i /\ i \in 1 .. Len(new)
      BY <1>1, <2>1
    <3> QED
      BY <3>1 DEF Inserts
  <2>2. CASE ~(i <= k)
    <3>1. i \in k + 1 .. Len(tree) /\ at(i) = i + 1 /\ i + 1 \in 1 .. Len(new)
      BY <1>1, <2>2
    <3> QED
      BY <3>1 DEF Inserts
  <2> QED
    BY <2>1, <2>2
<1>3. ASSUME NEW n \in 1 .. Len(new), n # k + 1 PROVE \E i \in 1 .. Len(tree) : n = at(i)
  <2>1. CASE n <= k
    <3>1. n \in 1 .. Len(tree) /\ n = at(n)
      BY <1>1, <2>1
    <3> QED
      BY <3>1
  <2>2. CASE n > k + 1
    <3>1. n - 1 \in 1 .. Len(tree) /\ n = at(n - 1)
      BY <1>1, <2>2
    <3> QED
      BY <3>1
  <2>3. n <= k \/ n > k + 1
    BY <1>1, <1>3
  <2> QED
    BY <2>1, <2>2, <2>3
<1> QED
  BY <1>2, <1>3

(* With a new child the trees are a forest still. *)
LEMMA AddForest ==
    ASSUME NEW tree \in Seq(Nodes), IsForest(tree), NEW r \in 1 .. Len(tree),
           NEW s \in Snaps, s \notin Of(tree),
           \A i \in 1 .. Len(tree) : s \notin tree[i].above
    PROVE  LET new == AddChild(tree, tree[r].snap, s)
           IN /\ new \in Seq(Nodes) /\ IsForest(new) /\ Of(new) = Of(tree) \cup {s}
              /\ \A x \in Of(tree) : Above(new, x) = Above(tree, x)
              /\ Above(new, s) = tree[r].above \cup {tree[r].snap}
<1> DEFINE new == AddChild(tree, tree[r].snap, s)
           ref == tree[r].snap
<1>1. PICK k \in 1 .. Len(tree) :
         /\ Inserts(tree, new, r, k, s)
         /\ k = r \/ ref \in tree[k].above
         /\ \A i \in k + 1 .. Len(tree) : ref \notin tree[i].above
  BY AddInserts
<1> HIDE DEF new
<1> DEFINE at(i) == At(k, i)
<1>2. /\ Once(tree) /\ HasParents(tree) /\ InOrder(tree) /\ Len(tree) \in Nat
      /\ \A i \in 1 .. Len(tree) : tree[i].snap # s
  BY ForestFacts, TreeFacts
<1>3. /\ new \in Seq(Nodes) /\ Len(new) = Len(tree) + 1 /\ r \in 1 .. k
      /\ new[k + 1].snap = s /\ new[k + 1].above = tree[r].above \cup {ref}
  BY <1>1 DEF Inserts
<1>4. /\ \A i \in 1 .. Len(tree) : at(i) \in 1 .. Len(new) /\ new[at(i)] = tree[i]
      /\ \A n \in 1 .. Len(new) : n = k + 1 \/ \E i \in 1 .. Len(tree) : n = at(i)
  <2>1. Inserts(tree, new, r, k, s)
    BY <1>1
  <2> QED
    BY <2>1, InsertPlaces
<1> USE DEF At
<1>5. /\ \A i \in 1 .. k : i \in 1 .. Len(tree) /\ at(i) = i
      /\ \A i \in 1 .. Len(tree) : at(i) # k + 1 /\ at(i) \in Int
      /\ \A i, j \in 1 .. Len(tree) : i < j => at(i) < at(j)
  BY <1>2
<1>6. k + 1 \in 1 .. Len(new) /\ new[r] = tree[r] /\ r \in 1 .. Len(new)
  BY <1>2, <1>3, <1>4, <1>5
<1>7. \A i, j \in 1 .. Len(tree) : at(i) < at(j) => i < j
  BY <1>2
<1>8. Once(new)
  <2> SUFFICES ASSUME NEW i \in 1 .. Len(new), NEW j \in 1 .. Len(new), new[i].snap = new[j].snap
               PROVE  i = j
    BY DEF Once
  <2> HIDE DEF at
  <2>1. CASE i = k + 1
    BY <1>2, <1>3, <1>4, <2>1
  <2>2. CASE j = k + 1
    <3>1. new[i].snap = s
      BY <1>3, <2>2
    <3>2. ASSUME i # k + 1 PROVE FALSE
      <4>1. PICK a \in 1 .. Len(tree) : i = at(a)
        BY <1>4, <3>2
      <4>2. tree[a].snap = s
        BY <1>4, <3>1, <4>1
      <4> QED
        BY <1>2, <4>2
    <3> QED
      BY <2>2, <3>2
  <2>3. CASE i # k + 1 /\ j # k + 1
    <3>1. PICK a \in 1 .. Len(tree) : i = at(a)
      BY <1>4, <2>3
    <3>2. PICK b \in 1 .. Len(tree) : j = at(b)
      BY <1>4, <2>3
    <3>3. tree[a].snap = tree[b].snap
      BY <1>4, <3>1, <3>2
    <3>4. a = b
      BY <1>2, <3>3 DEF Once
    <3> QED
      BY <3>1, <3>2, <3>4
  <2> QED
    BY <2>1, <2>2, <2>3
<1>9. HasParents(new)
  <2> SUFFICES ASSUME NEW i \in 1 .. Len(new), new[i].above # {}
               PROVE  \E j \in 1 .. Len(new) : new[i].above = new[j].above \cup {new[j].snap}
    BY DEF HasParents
  <2> HIDE DEF at
  <2>1. CASE i = k + 1
    BY <1>3, <1>6, <2>1
  <2>2. CASE i # k + 1
    <3>1. PICK a \in 1 .. Len(tree) : i = at(a)
      BY <1>4, <2>2
    <3>2. new[i] = tree[a]
      BY <1>4, <3>1
    <3>3. PICK b \in 1 .. Len(tree) : tree[a].above = tree[b].above \cup {tree[b].snap}
      BY <1>2, <3>2 DEF HasParents
    <3>4. at(b) \in 1 .. Len(new) /\ new[at(b)] = tree[b]
      BY <1>4
    <3> QED
      BY <3>2, <3>3, <3>4
  <2> QED
    BY <2>1, <2>2
<1>10. ASSUME NEW j \in 1 .. Len(tree), tree[j].snap \in tree[r].above \cup {ref}
       PROVE  /\ j <= r /\ tree[j].above \subseteq tree[r].above
              /\ \A x \in j + 1 .. k : tree[j].snap \in tree[x].above
  <2>1. \A x \in r + 1 .. k : ref \in tree[x].above /\ tree[r].above \subseteq tree[x].above
    <3> SUFFICES ASSUME NEW x \in r + 1 .. k
                 PROVE  ref \in tree[x].above /\ tree[r].above \subseteq tree[x].above
      OBVIOUS
    <3>1. x \in 1 .. Len(tree) /\ k # r /\ r < x /\ x <= k /\ x \in Int
      BY <1>2, <1>3
    <3>2. ref \in tree[k].above
      BY <1>1, <3>1
    <3>3. ref \in tree[x].above
      <4>1. CASE x = k
        BY <3>2, <4>1
      <4>2. CASE x # k
        <5>1. x \in r + 1 .. k - 1
          BY <1>2, <1>3, <3>1, <4>2
        <5> QED
          BY <1>2, <3>2, <5>1 DEF InOrder
      <4> QED
        BY <4>1, <4>2
    <3> QED
      BY <1>2, <3>1, <3>3 DEF InOrder
  <2>2. CASE tree[j].snap = ref
    <3>1. j = r
      BY <1>2, <2>2 DEF Once
    <3> QED
      BY <1>2, <2>1, <2>2, <3>1
  <2>3. CASE tree[j].snap \in tree[r].above
    <3>1. /\ j < r /\ tree[j].above \subseteq tree[r].above
          /\ \A x \in j + 1 .. r - 1 : tree[j].snap \in tree[x].above
      BY <1>2, <2>3 DEF InOrder
    <3>2. ASSUME NEW x \in j + 1 .. k PROVE tree[j].snap \in tree[x].above
      <4>1. x \in j + 1 .. r - 1 \/ x = r \/ x \in r + 1 .. k
        BY <1>2, <1>3, <3>1
      <4> QED
        BY <2>1, <2>3, <3>1, <4>1
    <3> QED
      BY <1>2, <3>1, <3>2
  <2> QED
    BY <1>10, <2>2, <2>3
<1>11. ASSUME NEW i \in 1 .. Len(tree), NEW j \in 1 .. Len(tree),
              tree[j].snap \in tree[i].above, j <= k, k < i
       PROVE  tree[j].snap \in tree[r].above \cup {ref}
  <2>1. ref \notin tree[i].above
    <3>1. i \in k + 1 .. Len(tree)
      BY <1>2, <1>11
    <3> QED
      BY <1>1, <3>1
  <2>2. /\ tree[j].above \subseteq tree[i].above
        /\ \A x \in j + 1 .. i - 1 : tree[j].snap \in tree[x].above
    BY <1>2, <1>11 DEF InOrder
  <2>3. CASE r < j
    <3>1. ref \in tree[k].above /\ k # r
      BY <1>1, <1>2, <1>3, <1>11, <2>3
    <3>2. j = k \/ j \in r + 1 .. k - 1
      BY <1>2, <1>3, <1>11, <2>3
    <3>3. ref \in tree[j].above
      BY <1>2, <3>1, <3>2 DEF InOrder
    <3> QED
      BY <2>1, <2>2, <3>3
  <2>4. CASE j = r
    BY <2>4
  <2>5. CASE j < r
    <3>1. r \in j + 1 .. i - 1
      BY <1>2, <1>3, <1>11, <2>5
    <3> QED
      BY <2>2, <3>1
  <2>6. r < j \/ j = r \/ j < r
    BY <1>2
  <2> QED
    BY <2>3, <2>4, <2>5, <2>6
<1>12. InOrder(new)
  <2> SUFFICES ASSUME NEW i \in 1 .. Len(new), NEW j \in 1 .. Len(new), new[j].snap \in new[i].above
               PROVE  /\ j < i /\ new[j].above \subseteq new[i].above
                      /\ \A x \in j + 1 .. i - 1 : new[j].snap \in new[x].above
    BY DEF InOrder
  <2>1. j # k + 1
    <3>1. s \notin new[i].above
      <4> HIDE DEF at
      <4>1. CASE i = k + 1
        BY <1>2, <1>3, <4>1
      <4>2. CASE i # k + 1
        BY <1>4, <4>2
      <4> QED
        BY <4>1, <4>2
    <3> QED
      BY <1>3, <3>1
  <2>2. PICK b \in 1 .. Len(tree) : j = at(b)
    BY <1>4, <2>1
  <2>3. new[j] = tree[b]
    BY <1>4, <2>2
  <2>4. CASE i = k + 1
    <3>1. /\ b <= r /\ tree[b].above \subseteq tree[r].above
          /\ \A x \in b + 1 .. k : tree[b].snap \in tree[x].above
      BY <1>3, <1>10, <2>3, <2>4
    <3>2. j = b /\ j <= k /\ j \in Int
      BY <1>2, <1>3, <2>2, <3>1
    <3>3. ASSUME NEW x \in j + 1 .. i - 1 PROVE new[j].snap \in new[x].above
      <4>1. x \in b + 1 .. k /\ x \in 1 .. Len(tree) /\ at(x) = x
        BY <1>2, <2>4, <3>2
      <4>2. new[x] = tree[x]
        BY <1>4, <4>1
      <4> QED
        BY <2>3, <3>1, <4>1, <4>2
    <3> QED
      BY <1>2, <1>3, <2>3, <2>4, <3>1, <3>2, <3>3
  <2>5. CASE i # k + 1
    <3>1. PICK a \in 1 .. Len(tree) : i = at(a)
      BY <1>4, <2>5
    <3>2. new[i] = tree[a]
      BY <1>4, <3>1
    <3>3. /\ b < a /\ tree[b].above \subseteq tree[a].above
          /\ \A x \in b + 1 .. a - 1 : tree[b].snap \in tree[x].above
      BY <1>2, <2>3, <3>2 DEF InOrder
    <3>4. j < i
      BY <1>5, <2>2, <3>1, <3>3
    <3>5. ASSUME NEW x \in j + 1 .. i - 1 PROVE new[j].snap \in new[x].above
      <4>0. x \in 1 .. Len(new) /\ j < x /\ x < i
        BY <1>2, <1>3
      <4>1. CASE x = k + 1
        <5>1. b <= k /\ k < a
          BY <1>2, <2>2, <3>1, <4>0, <4>1
        <5>2. tree[b].snap \in tree[r].above \cup {ref}
          BY <1>11, <2>3, <3>2, <5>1
        <5> QED
          BY <1>3, <2>3, <4>1, <5>2
      <4>2. CASE x # k + 1
        <5>1. PICK c \in 1 .. Len(tree) : x = at(c)
          BY <1>4, <4>0, <4>2
        <5>2. b < c /\ c < a
          BY <1>7, <2>2, <3>1, <4>0, <5>1
        <5>3. c \in b + 1 .. a - 1
          BY <5>2
        <5> QED
          BY <1>4, <2>3, <3>3, <5>1, <5>3
      <4> QED
        BY <4>1, <4>2
    <3> QED
      BY <2>3, <3>2, <3>3, <3>4, <3>5
  <2> QED
    BY <2>4, <2>5
<1>13. IsForest(new)
  BY <1>3, <1>8, <1>9, <1>12, ForestFacts
<1> HIDE DEF at
<1>14. Of(new) = Of(tree) \cup {s}
  <2>1. \A x : x \in Of(new) <=> \E i \in 1 .. Len(new) : new[i].snap = x
    BY <1>3, TreeFacts
  <2>2. \A x : x \in Of(tree) <=> \E i \in 1 .. Len(tree) : tree[i].snap = x
    BY TreeFacts
  <2>3. ASSUME NEW x \in Of(new) PROVE x \in Of(tree) \cup {s}
    <3>1. PICK i \in 1 .. Len(new) : new[i].snap = x
      BY <2>1
    <3>2. CASE i = k + 1
      BY <1>3, <3>1, <3>2
    <3>3. CASE i # k + 1
      <4>1. PICK a \in 1 .. Len(tree) : i = at(a)
        BY <1>4, <3>3
      <4>2. tree[a].snap = x
        BY <1>4, <3>1, <4>1
      <4> QED
        BY <2>2, <4>2
    <3> QED
      BY <3>2, <3>3
  <2>4. ASSUME NEW x \in Of(tree) PROVE x \in Of(new)
    <3>1. PICK i \in 1 .. Len(tree) : tree[i].snap = x
      BY <2>2
    <3> QED
      BY <1>4, <2>1, <3>1
  <2>5. s \in Of(new)
    BY <1>3, <1>6, <2>1
  <2> QED
    BY <2>3, <2>4, <2>5
<1>15. ASSUME NEW x \in Of(tree) PROVE Above(new, x) = Above(tree, x)
  <2>1. PICK i \in 1 .. Len(tree) : tree[i].snap = x
    BY TreeFacts
  <2>2. at(i) \in 1 .. Len(new) /\ new[at(i)] = tree[i]
    BY <1>4
  <2>3. Above(new, new[at(i)].snap) = new[at(i)].above
    BY <1>3, <1>8, <2>2, AboveFacts
  <2>4. Above(tree, tree[i].snap) = tree[i].above
    BY <1>2, AboveFacts
  <2> QED
    BY <2>1, <2>2, <2>3, <2>4
<1>16. Above(new, s) = tree[r].above \cup {ref}
  <2>1. Above(new, new[k + 1].snap) = new[k + 1].above
    BY <1>3, <1>6, <1>8, AboveFacts
  <2> QED
    BY <1>3, <2>1
<1> QED
  BY <1>3, <1>13, <1>14, <1>15, <1>16 DEF new

-----------------------------------------------------------------------------
(* The roots, in their order. *)
RootSeqs(tree) == [i \in DOMAIN tree |-> IF tree[i].above = {} THEN <<tree[i].snap>> ELSE <<>>]

LEMMA RootSeqsFacts ==
    ASSUME NEW tree \in Seq(Nodes)
    PROVE  /\ RootSeqs(tree) \in Seq(Seq(Snaps)) /\ Len(RootSeqs(tree)) = Len(tree)
           /\ \A i \in 1 .. Len(tree) :
                  RootSeqs(tree)[i] = IF tree[i].above = {} THEN <<tree[i].snap>> ELSE <<>>
           /\ RootRefs(tree) = FlattenSeq(RootSeqs(tree)) /\ RootRefs(tree) \in Seq(Snaps)
<1>1. Len(tree) \in Nat /\ DOMAIN tree = 1 .. Len(tree) /\ \A i \in 1 .. Len(tree) : tree[i].snap \in Snaps
  BY TreeFacts
<1>2. \A i \in 1 .. Len(tree) :
        RootSeqs(tree)[i] = IF tree[i].above = {} THEN <<tree[i].snap>> ELSE <<>>
  BY <1>1 DEF RootSeqs
<1>3. RootSeqs(tree) \in Seq(Seq(Snaps)) /\ Len(RootSeqs(tree)) = Len(tree)
  <2>1. \A i \in 1 .. Len(tree) : <<tree[i].snap>> \in Seq(Snaps)
    BY <1>1
  <2>2. <<>> \in Seq(Snaps)
    OBVIOUS
  <2>3. RootSeqs(tree) \in [1 .. Len(tree) -> Seq(Snaps)]
    BY <1>1, <2>1, <2>2 DEF RootSeqs
  <2> QED
    BY <1>1, <2>3
<1>4. RootRefs(tree) = FlattenSeq(RootSeqs(tree))
  BY DEF RootRefs, RootSeqs
<1>5. \A i \in 1 .. Len(RootSeqs(tree)) :
         RootSeqs(tree)[i] = <<>> \/ \E x \in Snaps : RootSeqs(tree)[i] = <<x>>
  BY <1>1, <1>2, <1>3
<1>6. FlattenSeq(RootSeqs(tree)) \in Seq(Snaps)
  BY <1>3, <1>5, FlattenPicks
<1> QED
  BY <1>2, <1>3, <1>4, <1>6

LEMMA RootRefsEmpty == RootRefs(<<>>) = <<>>
<1>1. Len(RootSeqs(<<>>)) = 0 /\ RootSeqs(<<>>) \in Seq(Seq(Snaps)) /\ RootRefs(<<>>) = FlattenSeq(RootSeqs(<<>>))
  <2>1. <<>> \in Seq(Nodes) /\ Len(<<>>) = 0
    OBVIOUS
  <2> QED
    BY <2>1, RootSeqsFacts
<1>2. FlattenSeq(RootSeqs(<<>>)) = RootSeqs(<<>>)
  BY <1>1 DEF FlattenSeq
<1> QED
  BY <1>1, <1>2

LEMMA RootRefsOne ==
    ASSUME NEW s \in Snaps
    PROVE  RootRefs(<<Node(s, {})>>) = <<s>>
<1> DEFINE tree == <<Node(s, {})>>
<1>1. Node(s, {}) \in Nodes /\ Node(s, {}).snap = s /\ Node(s, {}).above = {}
  BY DEF Node, Nodes
<1>2. tree \in Seq(Nodes) /\ Len(tree) = 1 /\ tree[1].above = {} /\ tree[1].snap = s
  BY <1>1
<1> HIDE DEF tree
<1>3. /\ RootSeqs(tree) \in Seq(Seq(Snaps)) /\ Len(RootSeqs(tree)) = 1 /\ RootSeqs(tree)[1] = <<s>>
      /\ RootRefs(tree) = FlattenSeq(RootSeqs(tree))
  <2>1. \A i \in 1 .. Len(tree) :
           RootSeqs(tree)[i] = IF tree[i].above = {} THEN <<tree[i].snap>> ELSE <<>>
    BY <1>2, RootSeqsFacts
  <2>2. RootSeqs(tree)[1] = IF tree[1].above = {} THEN <<tree[1].snap>> ELSE <<>>
    BY <1>2, <2>1
  <2>3. RootSeqs(tree) \in Seq(Seq(Snaps)) /\ Len(RootSeqs(tree)) = Len(tree)
        /\ RootRefs(tree) = FlattenSeq(RootSeqs(tree))
    BY <1>2, RootSeqsFacts
  <2> QED
    BY <1>2, <2>2, <2>3
<1>4. RootSeqs(tree) = Append(<<>>, <<s>>)
  BY <1>3
<1>5. <<>> \in Seq(Seq(Snaps)) /\ <<s>> \in Seq(Snaps)
  OBVIOUS
<1>6. FlattenSeq(Append(<<>>, <<s>>)) = FlattenSeq(<<>>) \o <<s>>
  BY <1>5, FlattenAppend
<1>7. FlattenSeq(<<>>) = <<>>
  BY DEF FlattenSeq
<1>8. RootRefs(tree) = <<s>>
  BY <1>3, <1>4, <1>5, <1>6, <1>7
<1> QED
  BY <1>8 DEF tree

(* A new child is no root. *)
LEMMA RootRefsAdd ==
    ASSUME NEW tree \in Seq(Nodes), IsForest(tree), NEW r \in 1 .. Len(tree), NEW s \in Snaps
    PROVE  RootRefs(AddChild(tree, tree[r].snap, s)) = RootRefs(tree)
<1> DEFINE new == AddChild(tree, tree[r].snap, s)
<1>1. PICK k \in 1 .. Len(tree) : Inserts(tree, new, r, k, s)
  BY AddInserts
<1> HIDE DEF new
<1> DEFINE a == RootSeqs(tree)
           b == RootSeqs(new)
<1>2. new \in Seq(Nodes) /\ Len(new) = Len(tree) + 1 /\ Len(tree) \in Nat
  BY <1>1, TreeFacts DEF Inserts
<1>3. /\ a \in Seq(Seq(Snaps)) /\ Len(a) = Len(tree)
      /\ \A i \in 1 .. Len(tree) : a[i] = IF tree[i].above = {} THEN <<tree[i].snap>> ELSE <<>>
  BY RootSeqsFacts
<1>4. /\ b \in Seq(Seq(Snaps)) /\ Len(b) = Len(a) + 1
      /\ \A i \in 1 .. Len(new) : b[i] = IF new[i].above = {} THEN <<new[i].snap>> ELSE <<>>
  BY <1>2, <1>3, RootSeqsFacts
<1>5. RootRefs(tree) = FlattenSeq(a) /\ RootRefs(new) = FlattenSeq(b)
  BY <1>2, RootSeqsFacts
<1> HIDE DEF a, b
<1>6. k \in 0 .. Len(a) /\ k + 1 \in 1 .. Len(new)
  BY <1>2, <1>3
<1>7. b[k + 1] = <<>>
  BY <1>1, <1>4, <1>6 DEF Inserts
<1>8. ASSUME NEW n \in 1 .. k PROVE b[n] = a[n]
  <2>1. n \in 1 .. Len(new) /\ n \in 1 .. Len(tree)
    BY <1>2
  <2>2. new[n] = tree[n]
    BY <1>1 DEF Inserts
  <2> QED
    BY <1>3, <1>4, <2>1, <2>2
<1>9. ASSUME NEW n \in k + 1 .. Len(a) PROVE b[n + 1] = a[n]
  <2>1. n + 1 \in 1 .. Len(new) /\ n \in 1 .. Len(tree) /\ n \in k + 1 .. Len(tree)
    BY <1>2, <1>3
  <2>2. new[n + 1] = tree[n]
    BY <1>1, <2>1 DEF Inserts
  <2> QED
    BY <1>3, <1>4, <2>1, <2>2
<1>10. FlattenSeq(b) = FlattenSeq(a)
  BY <1>3, <1>4, <1>6, <1>7, <1>8, <1>9, FlattenSkip
<1> QED
  BY <1>5, <1>10 DEF new

(* A parent is above its child. *)
LEMMA ParentAbove ==
    ASSUME NEW tree, NEW ref, findParentSnapshotInTree(tree, ref) # None
    PROVE  findParentSnapshotInTree(tree, ref) \in Above(tree, ref)
<1> DEFINE parents == {p \in Above(tree, ref) : Above(tree, ref) = Above(tree, p) \cup {p}}
<1>1. findParentSnapshotInTree(tree, ref) = IF parents = {} THEN None ELSE CHOOSE p \in parents : TRUE
  BY DEF findParentSnapshotInTree
<1>2. parents # {}
  BY <1>1
<1>3. (CHOOSE p \in parents : TRUE) \in parents
  <2> HIDE DEF parents
  <2> QED
    BY <1>2, Zenon
<1> QED
  BY <1>1, <1>2, <1>3

-----------------------------------------------------------------------------
(* The lineage by the ChildSnapshot lists ch. *)
ParentsOf(ch, s) == {p \in Snaps : s \in ch[p]}
Closed(ch, S) == \A x \in S : ParentsOf(ch, x) \subseteq S
LineageOf(ch, s) ==
    {a \in Snaps : \A S \in SUBSET Snaps : ParentsOf(ch, s) \subseteq S /\ Closed(ch, S) => a \in S}

LEMMA LineageIs == \A s : Lineage(s) = LineageOf(childSnapshot, s)
  BY DEF Lineage, LineageOf, Parents, ParentsOf, Closed

(* It has the parents, and theirs. *)
LEMMA LineageClosed ==
    ASSUME NEW ch, NEW s
    PROVE  ParentsOf(ch, s) \subseteq LineageOf(ch, s) /\ Closed(ch, LineageOf(ch, s))
<1>1. ParentsOf(ch, s) \subseteq LineageOf(ch, s)
  BY DEF LineageOf, ParentsOf
<1>2. ASSUME NEW x \in LineageOf(ch, s), NEW p \in ParentsOf(ch, x) PROVE p \in LineageOf(ch, s)
  <2>1. p \in Snaps
    BY DEF ParentsOf
  <2>2. ASSUME NEW S \in SUBSET Snaps, ParentsOf(ch, s) \subseteq S, Closed(ch, S) PROVE p \in S
    <3>1. x \in S
      BY <2>2 DEF LineageOf
    <3> QED
      BY <2>2, <3>1 DEF Closed
  <2> QED
    BY <2>1, <2>2 DEF LineageOf
<1> QED
  BY <1>1, <1>2 DEF Closed

(* A new snapshot has the lineage of its parent, and the others keep theirs. *)
LEMMA LineageAdd ==
    ASSUME NEW ch \in [Snaps -> SUBSET Snaps], NEW p \in Snaps, NEW n \in Snaps, p # n,
           ch[n] = {}, \A x \in Snaps : n \notin ch[x]
    PROVE  LET more == [ch EXCEPT ![p] = @ \cup {n}]
           IN /\ \A s \in Snaps \ {n} : LineageOf(more, s) = LineageOf(ch, s)
              /\ LineageOf(more, n) = LineageOf(ch, p) \cup {p}
              /\ \A s \in Snaps : n \notin LineageOf(ch, s)
<1> DEFINE more == [ch EXCEPT ![p] = @ \cup {n}]
<1>1. \A x : x # n => ParentsOf(more, x) = ParentsOf(ch, x)
  BY DEF ParentsOf
<1>2. ParentsOf(more, n) = {p} /\ ParentsOf(ch, n) = {}
  BY DEF ParentsOf
<1>3. \A x : n \notin ParentsOf(more, x) /\ n \notin ParentsOf(ch, x)
                /\ ParentsOf(more, x) \subseteq Snaps /\ ParentsOf(ch, x) \subseteq Snaps
  BY DEF ParentsOf
<1> HIDE DEF more
<1>4. ASSUME NEW S \in SUBSET Snaps, Closed(ch, S) PROVE Closed(more, S \ {n})
  BY <1>1, <1>3, <1>4 DEF Closed
<1>5. ASSUME NEW S \in SUBSET Snaps, Closed(more, S) PROVE Closed(ch, S \ {n})
  BY <1>1, <1>3, <1>5 DEF Closed
<1>6. ASSUME NEW s PROVE n \notin LineageOf(ch, s)
  <2>1. Snaps \ {n} \in SUBSET Snaps /\ ParentsOf(ch, s) \subseteq Snaps \ {n} /\ Closed(ch, Snaps \ {n})
    BY <1>3 DEF Closed
  <2> QED
    BY <2>1 DEF LineageOf
<1>7. ASSUME NEW s, s # n PROVE LineageOf(more, s) = LineageOf(ch, s)
  <2>0. ParentsOf(more, s) = ParentsOf(ch, s) /\ n \notin ParentsOf(ch, s)
    BY <1>1, <1>3, <1>7
  <2>1. ASSUME NEW a \in LineageOf(more, s) PROVE a \in LineageOf(ch, s)
    <3>1. ASSUME NEW S \in SUBSET Snaps, ParentsOf(ch, s) \subseteq S, Closed(ch, S) PROVE a \in S
      <4>1. S \ {n} \in SUBSET Snaps /\ ParentsOf(more, s) \subseteq S \ {n} /\ Closed(more, S \ {n})
        BY <1>4, <2>0, <3>1
      <4> QED
        BY <4>1 DEF LineageOf
    <3> QED
      BY <3>1 DEF LineageOf
  <2>2. ASSUME NEW a \in LineageOf(ch, s) PROVE a \in LineageOf(more, s)
    <3>1. ASSUME NEW S \in SUBSET Snaps, ParentsOf(more, s) \subseteq S, Closed(more, S) PROVE a \in S
      <4>1. S \ {n} \in SUBSET Snaps /\ ParentsOf(ch, s) \subseteq S \ {n} /\ Closed(ch, S \ {n})
        BY <1>5, <2>0, <3>1
      <4> QED
        BY <4>1 DEF LineageOf
    <3> QED
      BY <3>1 DEF LineageOf
  <2> QED
    BY <2>1, <2>2
<1>8. LineageOf(more, n) = LineageOf(ch, p) \cup {p}
  <2> DEFINE L == LineageOf(ch, p)
  <2>1. L \subseteq Snaps /\ ParentsOf(ch, p) \subseteq L /\ Closed(ch, L) /\ n \notin L
    BY <1>6, LineageClosed DEF LineageOf
  <2>2. L = LineageOf(more, p)
    BY <1>7
  <2>3. ParentsOf(more, p) \subseteq LineageOf(more, p) /\ p \in LineageOf(more, n)
        /\ Closed(more, LineageOf(more, n))
    BY <1>2, LineageClosed
  <2>4. ASSUME NEW a \in L PROVE a \in LineageOf(more, n)
    <3>1. LineageOf(more, n) \in SUBSET Snaps /\ ParentsOf(more, p) \subseteq LineageOf(more, n)
      BY <2>3 DEF LineageOf, Closed
    <3>2. a \in LineageOf(more, p)
      BY <2>2
    <3> QED
      BY <2>3, <3>1, <3>2 DEF LineageOf
  <2>5. L \cup {p} \in SUBSET Snaps /\ ParentsOf(more, n) \subseteq L \cup {p} /\ Closed(more, L \cup {p})
    <3> HIDE DEF L
    <3>1. \A x \in L \cup {p} : ParentsOf(more, x) = ParentsOf(ch, x)
      BY <1>1, <2>1
    <3> QED
      BY <1>2, <2>1, <3>1 DEF Closed
  <2>6. ASSUME NEW a \in LineageOf(more, n) PROVE a \in L \cup {p}
    <3> HIDE DEF L
    <3> QED
      BY <2>5 DEF LineageOf
  <2> QED
    BY <2>3, <2>4, <2>6
<1> QED
  BY <1>6, <1>7, <1>8 DEF more

-----------------------------------------------------------------------------
(* What IInv says of the snapshot trees. *)
LEMMA RootsFacts ==
    ASSUME IInv
    PROVE  /\ roots \in Seq(Nodes) /\ IsForest(roots) /\ InTree = Of(roots)
           /\ roots = <<>> <=> InTree = {}
           /\ \A s \in InTree : /\ s \in 1 .. sid /\ s \in Snaps /\ s \notin Above(roots, s)
                                /\ Above(roots, s) = LineageOf(childSnapshot, s) \cap InTree
           /\ \A s \in InTree : \A a \in Above(roots, s) : Above(roots, a) \subseteq Above(roots, s)
           /\ \A s \in Snaps : Above(roots, s) \subseteq Snaps
           /\ \A i \in 1 .. Len(roots) : roots[i].above \subseteq InTree
<1>1. roots \in Seq(Nodes) /\ IsForest(roots) /\ InTree = Of(roots)
  BY DEF IInv, TreeOK, TypeOK, Nodes, InTree, Of
<1>2. Once(roots) /\ InOrder(roots) /\ Len(roots) \in Nat
      /\ \A s : s \in Of(roots) <=> \E i \in 1 .. Len(roots) : roots[i].snap = s
  BY <1>1, ForestFacts, TreeFacts
<1>3. \A i \in 1 .. Len(roots) : Above(roots, roots[i].snap) = roots[i].above
  BY <1>1, <1>2, AboveFacts
<1>4. roots = <<>> <=> InTree = {}
  <2>1. roots = <<>> <=> Len(roots) = 0
    BY <1>1
  <2>2. Len(roots) # 0 => 1 \in 1 .. Len(roots)
    BY <1>2
  <2>3. Len(roots) # 0 => InTree # {}
    BY <1>1, <1>2, <2>2
  <2>4. Len(roots) = 0 => \A i \in 1 .. Len(roots) : FALSE
    OBVIOUS
  <2>5. Len(roots) = 0 => \A s : s \notin Of(roots)
    BY <1>2, <2>4, Zenon
  <2> QED
    BY <1>1, <2>1, <2>3, <2>5
<1>5. ASSUME NEW s \in InTree
      PROVE /\ s \in 1 .. sid /\ s \in Snaps /\ s \notin Above(roots, s)
            /\ Above(roots, s) = LineageOf(childSnapshot, s) \cap InTree
  <2>1. s \in registered /\ registered \subseteq 1 .. sid /\ registered \subseteq Snaps
    BY DEF IInv, TreeOK, TypeOK, Consistent, NumbersOK
  <2>2. Above(roots, s) = LineageOf(childSnapshot, s) \cap InTree
    BY LineageIs DEF IInv, TreeOK, TreeIsLineage
  <2>3. PICK i \in 1 .. Len(roots) : roots[i].snap = s
    BY <1>1, <1>2
  <2>4. roots[i].snap \notin roots[i].above
    BY <1>2 DEF InOrder
  <2> QED
    BY <1>3, <2>1, <2>2, <2>3, <2>4
<1>6. ASSUME NEW s \in InTree, NEW a \in Above(roots, s) PROVE Above(roots, a) \subseteq Above(roots, s)
  <2>1. a \in InTree
    BY <1>5
  <2>2. PICK i \in 1 .. Len(roots) : roots[i].snap = s
    BY <1>1, <1>2
  <2>3. PICK j \in 1 .. Len(roots) : roots[j].snap = a
    BY <1>1, <1>2, <2>1
  <2>4. roots[j].snap \in roots[i].above
    BY <1>3, <2>2, <2>3
  <2>5. roots[j].above \subseteq roots[i].above
    BY <1>2, <2>4 DEF InOrder
  <2> QED
    BY <1>3, <2>2, <2>3, <2>5
<1>7. ASSUME NEW s \in Snaps PROVE Above(roots, s) \subseteq Snaps
  <2>1. CASE s \in InTree
    BY <1>5, <2>1 DEF LineageOf
  <2>2. CASE s \notin InTree
    BY <1>1, <1>2, <2>2, AboveFacts
  <2> QED
    BY <2>1, <2>2
<1>8. ASSUME NEW i \in 1 .. Len(roots) PROVE roots[i].above \subseteq InTree
  <2>1. roots[i].snap \in InTree
    BY <1>1, <1>2
  <2> QED
    BY <1>3, <1>5, <2>1
<1> QED
  BY <1>1, <1>4, <1>5, <1>6, <1>7, <1>8

(* TypeOK without the snapshots. *)
OthersOK ==
    /\ power \in Powers /\ keyId \in Keys \cup {None} /\ gone \in BOOLEAN
    /\ req \in [Clients -> Requests \cup {Idle}]
    /\ fate \in {"ok", "wedged", "crashed"} /\ careful \in BOOLEAN

LEMMA SnapshotsKept ==
    ASSUME IInv, UNCHANGED snapshots, OthersOK'
    PROVE  TreeOK' /\ NumbersOK' /\ CurrentOK' /\ InTree' = InTree
<1>1. /\ registered' = registered /\ childSnapshot' = childSnapshot /\ info' = info /\ roots' = roots
      /\ current' = current /\ rootSnapshot' = rootSnapshot /\ layout' = layout /\ sid' = sid
  BY DEF snapshots
<1>2. InTree' = InTree
  BY <1>1 DEF InTree
<1>3. TypeOK'
  BY <1>1 DEF IInv, TreeOK, TypeOK, OthersOK
<1>4. Consistent'
  BY <1>1, <1>2 DEF IInv, TreeOK, Consistent
<1>5. TreeIsLineage'
  <2>1. \A s : Lineage(s)' = Lineage(s)
    BY <1>1 DEF Lineage, Parents
  <2> QED
    BY <1>1, <1>2, <2>1 DEF IInv, TreeOK, TreeIsLineage
<1>6. NumbersOK' /\ CurrentOK'
  BY <1>1 DEF IInv, NumbersOK, CurrentOK
<1> QED
  BY <1>2, <1>3, <1>4, <1>5, <1>6 DEF TreeOK

(* A task answers its request; a careful client's was the only one. *)
LEMMA RunsFacts ==
    ASSUME IInv, NEW c \in Clients, NEW op, Runs(c, op), op # "idle", fate' \in {"ok", "wedged", "crashed"}
    PROVE  /\ OthersOK' /\ CarefulOK' /\ careful' = careful /\ gone' = gone
           /\ req[c] \in Requests /\ req[c].op = op /\ req[c] # Idle
           /\ fate = "ok"
           /\ careful => Sent(req[c])
<1>1. req[c] \in Requests \cup {Idle} /\ req \in [Clients -> Requests \cup {Idle}]
  BY DEF IInv, TreeOK, TypeOK
<1>2. req[c].op = op /\ req[c] # Idle /\ req[c] \in Requests
  BY <1>1 DEF Runs, Idle
<1>3. OthersOK'
  BY <1>1 DEF IInv, TreeOK, TypeOK, OthersOK, Runs, machine
<1>4. careful => Sent(req[c]) /\ \A d \in Clients : req[d] # Idle => d = c
  BY <1>2 DEF IInv, CarefulOK
<1>5. req' = [req EXCEPT ![c] = Idle] /\ careful' = careful /\ gone' = gone /\ fate = "ok"
  BY DEF Runs, machine
<1>6. careful' => \A d \in Clients : req'[d] = Idle
  BY <1>1, <1>4, <1>5
<1>7. CarefulOK'
  BY <1>6 DEF CarefulOK
<1> QED
  BY <1>2, <1>3, <1>4, <1>5, <1>7

-----------------------------------------------------------------------------
LEMMA NoSnapshotsFacts == Of(<<>>) = {} /\ <<>> \in Seq(Nodes) /\ IsForest(<<>>)
<1>1. <<>> \in Seq(Nodes) /\ Len(<<>>) = 0
  OBVIOUS
<1>2. \A i \in 1 .. Len(<<>>) : FALSE
  BY <1>1
<1>3. \A s : s \notin Of(<<>>)
  <2>1. \A s : s \in Of(<<>>) <=> \E i \in 1 .. Len(<<>>) : <<>>[i].snap = s
    BY <1>1, TreeFacts
  <2> QED
    BY <1>2, <2>1, Zenon
<1>4. Once(<<>>) /\ HasParents(<<>>) /\ InOrder(<<>>)
  BY <1>2 DEF Once, HasParents, InOrder
<1> QED
  BY <1>1, <1>3, <1>4, ForestFacts

LEMMA InitIInv == Init => IInv
<1> SUFFICES ASSUME Init PROVE IInv
  OBVIOUS
<1> USE DEF Init
<1>1. InTree = {}
  BY NoSnapshotsFacts DEF InTree, Of
<1>2. TypeOK
  <2>1. roots \in Seq([snap : Snaps, above : SUBSET Snaps]) /\ IsForest(roots)
    BY NoSnapshotsFacts DEF Nodes
  <2>2. sid \in 0 .. MaxSnaps
    BY VMSnapshotsAssumption
  <2>3. childSnapshot \in [Snaps -> SUBSET Snaps] /\ rootSnapshot \in Seq(Snaps)
    OBVIOUS
  <2>4. req \in [Clients -> Requests \cup {Idle}]
    OBVIOUS
  <2> QED
    BY <2>1, <2>2, <2>3, <2>4 DEF TypeOK, Powers
<1>3. Consistent
  BY <1>1, RootRefsEmpty DEF Consistent
<1>4. TreeIsLineage
  BY <1>1 DEF TreeIsLineage
<1>5. NumbersOK /\ CurrentOK
  BY DEF NumbersOK, CurrentOK
<1>6. CarefulIsSafe
  BY <1>1 DEF CarefulIsSafe
<1>7. CarefulOK
  BY DEF CarefulOK
<1> QED
  BY <1>2, <1>3, <1>4, <1>5, <1>6, <1>7 DEF IInv, TreeOK

(* The steps that leave the snapshots alone. *)
LEMMA QuietIInv ==
    ASSUME IInv, UNCHANGED snapshots, OthersOK', CarefulOK', careful' = careful,
           careful => fate' = fate
    PROVE  IInv'
<1>1. TreeOK' /\ NumbersOK' /\ CurrentOK' /\ InTree' = InTree
  BY SnapshotsKept
<1>2. CarefulIsSafe'
  BY <1>1 DEF IInv, CarefulIsSafe, snapshots
<1> QED
  BY <1>1, <1>2 DEF IInv

(* Sent, while nothing it looks at changes. *)
LEMMA SentKept ==
    ASSUME NEW r, UNCHANGED snapshots, gone' = gone
    PROVE  Sent(r)' <=> Sent(r)
  BY DEF Sent, snapshots, InTree

LEMMA SendIInv ==
    ASSUME IInv, NEW c \in Clients, NEW r \in Requests, Send(c, r)
    PROVE  IInv'
<1>1. req \in [Clients -> Requests \cup {Idle}]
  BY DEF IInv, TreeOK, TypeOK
<1>2. /\ req' = [req EXCEPT ![c] = r] /\ UNCHANGED snapshots
      /\ power' = power /\ keyId' = keyId /\ gone' = gone /\ fate' = fate /\ careful' = careful
  BY DEF Send, machine
<1>3. OthersOK'
  BY <1>1, <1>2 DEF IInv, TreeOK, TypeOK, OthersOK
<1>4. CarefulOK'
  <2> SUFFICES ASSUME careful', NEW d \in Clients, req'[d] # Idle
               PROVE Sent(req[d])' /\ \A e \in Clients : req'[e] # Idle => e = d
    BY DEF CarefulOK
  <2>1. careful
    BY <1>2
  <2>2. \A e \in Clients : req[e] = Idle
    BY <2>1 DEF Send
  <2>3. \A e \in Clients : req'[e] # Idle => e = c
    BY <1>1, <1>2, <2>2
  <2>4. d = c /\ req'[d] = r
    BY <1>1, <1>2, <2>3
  <2>5. Sent(r)
    BY <2>1 DEF Send, Sent
  <2>6. Sent(r)'
    BY <1>2, <2>5, SentKept
  <2>7. Sent(req[d])'
    BY <2>4, <2>6 DEF Sent
  <2> QED
    BY <2>3, <2>4, <2>7
<1> QED
  BY <1>2, <1>3, <1>4, QuietIInv

LEMMA MachineIInv ==
    ASSUME IInv, UNCHANGED <<snapshots, req, fate, careful>>,
           power' \in Powers, keyId' \in Keys \cup {None}, gone' \in BOOLEAN,
           gone' = gone \/ (careful => \A c \in Clients : req[c] = Idle)
    PROVE  IInv'
<1>1. UNCHANGED snapshots /\ req' = req /\ fate' = fate /\ careful' = careful
  OBVIOUS
<1>2. OthersOK'
  BY <1>1 DEF IInv, TreeOK, TypeOK, OthersOK
<1>3. CarefulOK'
  <2>1. CASE gone' = gone
    <3>1. \A c \in Clients : Sent(req[c])' <=> Sent(req[c])
      <4>1. ASSUME NEW c \in Clients PROVE Sent(req[c])' <=> Sent(req[c])
        BY <1>1, <2>1 DEF Sent, snapshots, InTree
      <4> QED
        BY <4>1
    <3> QED
      BY <1>1, <3>1 DEF IInv, CarefulOK
  <2>2. CASE careful => \A c \in Clients : req[c] = Idle
    BY <1>1, <2>2 DEF CarefulOK
  <2> QED
    BY <2>1, <2>2
<1> QED
  BY <1>1, <1>2, <1>3, QuietIInv

LEMMA PowerIInv ==
    ASSUME IInv, NEW p \in Powers, PowerTask(p)
    PROVE  IInv'
  BY MachineIInv DEF PowerTask, IInv, TreeOK, TypeOK

LEMMA CryptoIInv ==
    ASSUME IInv, NEW spec, NEW k \in Keys, updateCrypto(spec, k)
    PROVE  IInv'
  BY MachineIInv DEF updateCrypto, IInv, TreeOK, TypeOK

LEMMA UnregisterIInv == ASSUME IInv, UnregisterVM PROVE IInv'
  BY MachineIInv DEF UnregisterVM, IInv, TreeOK, TypeOK

LEMMA StutterIInv == ASSUME IInv, UNCHANGED vars PROVE IInv'
  BY MachineIInv DEF vars, machine, IInv, TreeOK, TypeOK

(* The tasks that panic, and leave the snapshots as they are. *)
LEMMA BreaksIInv ==
    ASSUME IInv, NEW c \in Clients, NEW op, Runs(c, op), op # "idle",
           NEW how \in {"wedged", "crashed"}, Breaks(how), ~careful
    PROVE  IInv'
<1>1. fate' = how /\ UNCHANGED snapshots
  BY DEF Breaks
<1>2. OthersOK' /\ CarefulOK' /\ careful' = careful
  BY <1>1, RunsFacts
<1> QED
  BY <1>1, <1>2, QuietIInv

LEMMA RevertIInv ==
    ASSUME IInv, NEW c \in Clients, RevertToSnapshotTask(c)
    PROVE  IInv'
<1>1. Runs(c, "revert") /\ "revert" # "idle"
  BY DEF RevertToSnapshotTask
<1>2. fate' \in {"ok", "wedged", "crashed"}
  BY <1>1 DEF RevertToSnapshotTask, Breaks, Runs
<1>3. /\ OthersOK' /\ CarefulOK' /\ careful' = careful /\ gone' = gone /\ fate = "ok"
      /\ req[c] \in Requests /\ req[c].op = "revert" /\ (careful => Sent(req[c]))
  BY <1>1, <1>2, RunsFacts
<1>4. req[c].snap \in Snaps
  BY <1>3 DEF Requests
<1>5. CASE gone
  <2>1. ~careful
    BY <1>3, <1>5 DEF Sent
  <2>2. Breaks("crashed")
    BY <1>5 DEF RevertToSnapshotTask
  <2> QED
    BY <1>1, <2>1, <2>2, BreaksIInv
<1>6. CASE ~gone
  <2>1. /\ info' = TRUE /\ current' = req[c].snap
        /\ registered' = registered /\ childSnapshot' = childSnapshot /\ roots' = roots
        /\ rootSnapshot' = rootSnapshot /\ layout' = layout /\ sid' = sid /\ fate' = fate
    BY <1>6 DEF RevertToSnapshotTask
  <2>2. InTree' = InTree /\ \A s : Lineage(s)' = Lineage(s)
    BY <2>1 DEF InTree, Lineage, Parents
  <2>3. TypeOK'
    BY <1>3, <1>4, <2>1 DEF IInv, TreeOK, TypeOK, OthersOK
  <2>4. TreeOK'
    BY <2>1, <2>2, <2>3 DEF IInv, TreeOK, Consistent, TreeIsLineage
  <2>5. NumbersOK'
    BY <2>1 DEF IInv, NumbersOK
  <2>6. CurrentOK'
    BY <1>4, <2>1, VMSnapshotsAssumption DEF CurrentOK
  <2>7. CarefulIsSafe'
    <3> SUFFICES ASSUME careful
                 PROVE /\ fate' = "ok" /\ registered' = InTree' /\ info' = (roots' # <<>>)
                       /\ current' \in IF info' THEN InTree' ELSE {None}
      BY <1>3 DEF CarefulIsSafe
    <3>1. req[c].snap \in registered /\ registered = InTree
      BY <1>3 DEF Sent, IInv, CarefulIsSafe
    <3>2. roots # <<>>
      BY <3>1, RootsFacts
    <3> QED
      BY <1>3, <2>1, <2>2, <3>1, <3>2
  <2> QED
    BY <1>3, <2>4, <2>5, <2>6, <2>7 DEF IInv
<1> QED
  BY <1>5, <1>6

LEMMA RevertCurrentIInv ==
    ASSUME IInv, NEW c \in Clients, RevertToCurrentSnapshotTask(c)
    PROVE  IInv'
<1>1. Runs(c, "revertCurrent") /\ "revertCurrent" # "idle"
  BY DEF RevertToCurrentSnapshotTask
<1>2. fate' \in {"ok", "wedged", "crashed"}
  BY <1>1 DEF RevertToCurrentSnapshotTask, Breaks, Runs
<1>3. OthersOK' /\ CarefulOK' /\ careful' = careful
  BY <1>1, <1>2, RunsFacts
<1>4. CASE current # None /\ current \notin registered
  <2>1. ~careful
    BY <1>4 DEF IInv, CarefulIsSafe
  <2>2. Breaks("wedged")
    BY <1>4 DEF RevertToCurrentSnapshotTask
  <2> QED
    BY <1>1, <2>1, <2>2, BreaksIInv
<1>5. CASE ~(current # None /\ current \notin registered)
  <2>1. UNCHANGED <<snapshots, fate>>
    BY <1>5 DEF RevertToCurrentSnapshotTask
  <2> QED
    BY <1>3, <2>1, QuietIInv
<1> QED
  BY <1>4, <1>5

LEMMA RemoveAllIInv ==
    ASSUME IInv, NEW c \in Clients, RemoveAllSnapshotsTask(c)
    PROVE  IInv'
<1>1. Runs(c, "removeAll") /\ "removeAll" # "idle"
  BY DEF RemoveAllSnapshotsTask
<1>2. fate' \in {"ok", "wedged", "crashed"}
  BY <1>1 DEF RemoveAllSnapshotsTask, Breaks, Runs
<1>3. OthersOK' /\ CarefulOK' /\ careful' = careful /\ fate = "ok" /\ (careful => Sent(req[c]))
  BY <1>1, <1>2, RunsFacts
<1>4. CASE gone /\ roots # <<>>
  <2>1. ~careful
    BY <1>3, <1>4 DEF Sent
  <2>2. Breaks("crashed")
    BY <1>4 DEF RemoveAllSnapshotsTask
  <2> QED
    BY <1>1, <2>1, <2>2, BreaksIInv
<1>5. CASE ~(gone /\ roots # <<>>)
  <2>1. /\ info' = FALSE /\ roots' = <<>> /\ current' = None /\ rootSnapshot' = <<>>
        /\ registered' = registered \ InTree /\ layout' = layout \ InTree
        /\ childSnapshot' = childSnapshot /\ sid' = sid /\ fate' = fate
    BY <1>5 DEF RemoveAllSnapshotsTask
  <2>2. InTree' = {}
    BY <2>1, NoSnapshotsFacts DEF InTree, Of
  <2>3. TypeOK'
    <3>1. roots' \in Seq([snap : Snaps, above : SUBSET Snaps]) /\ IsForest(roots')
      BY <2>1, NoSnapshotsFacts DEF Nodes
    <3>2. rootSnapshot' \in Seq(Snaps)
      BY <2>1
    <3> QED
      BY <1>3, <2>1, <3>1, <3>2 DEF IInv, TreeOK, TypeOK, OthersOK
  <2>4. Consistent'
    BY <2>1, <2>2, RootRefsEmpty DEF IInv, TreeOK, Consistent
  <2>5. TreeIsLineage'
    BY <2>2 DEF TreeIsLineage
  <2>6. NumbersOK' /\ CurrentOK'
    BY <2>1 DEF IInv, NumbersOK, CurrentOK
  <2>7. CarefulIsSafe'
    BY <1>3, <2>1, <2>2 DEF IInv, CarefulIsSafe
  <2> QED
    BY <1>3, <2>3, <2>4, <2>5, <2>6, <2>7 DEF IInv, TreeOK
<1> QED
  BY <1>4, <1>5

(* What is left of the tree after RemoveSnapshot_Task. *)
LEMMA RemoveLineage ==
    ASSUME IInv, NEW ref \in Snaps, NEW children \in BOOLEAN
    PROVE  LET left == removeSnapshotInTree(roots, ref, children)
           IN /\ left \in Seq(Nodes) /\ IsForest(left)
              /\ Of(left) = {s \in InTree \ {ref} : children => ref \notin Above(roots, s)}
              /\ \A s \in Of(left) : Above(left, s) = LineageOf(childSnapshot, s) \cap Of(left)
              /\ left = <<>> <=> Of(left) = {}
<1> DEFINE left == removeSnapshotInTree(roots, ref, children)
<1>1. /\ left \in Seq(Nodes) /\ IsForest(left)
      /\ Of(left) = {s \in InTree \ {ref} : children => ref \notin Above(roots, s)}
      /\ \A s \in Of(left) : Above(left, s) = Above(roots, s) \ {ref}
  BY RootsFacts, RemoveForest
<1> HIDE DEF left
<1>2. ASSUME NEW s \in Of(left) PROVE Above(left, s) = LineageOf(childSnapshot, s) \cap Of(left)
  <2>1. s \in InTree /\ (children => ref \notin Above(roots, s)) /\ Above(left, s) = Above(roots, s) \ {ref}
    BY <1>1
  <2>2. Above(roots, s) = LineageOf(childSnapshot, s) \cap InTree
    BY <2>1, RootsFacts
  <2>3. ASSUME NEW a \in Above(roots, s), a # ref PROVE a \in Of(left)
    <3>1. Above(roots, a) \subseteq Above(roots, s)
      BY <2>1, RootsFacts
    <3> QED
      BY <1>1, <2>1, <2>2, <2>3, <3>1
  <2>4. Of(left) \subseteq InTree \ {ref}
    BY <1>1
  <2> QED
    BY <2>1, <2>2, <2>3, <2>4
<1>3. left = <<>> <=> Of(left) = {}
  <2>1. Len(left) \in Nat /\ (\A s : s \in Of(left) <=> \E i \in 1 .. Len(left) : left[i].snap = s)
    BY <1>1, TreeFacts
  <2>2. left = <<>> <=> Len(left) = 0
    BY <1>1
  <2>3. Len(left) # 0 => 1 \in 1 .. Len(left)
    BY <2>1
  <2>4. Len(left) # 0 => Of(left) # {}
    BY <2>1, <2>3
  <2> QED
    BY <2>2, <2>4, NoSnapshotsFacts
<1> QED
  BY <1>1, <1>2, <1>3 DEF left

LEMMA RemoveIInv ==
    ASSUME IInv, NEW c \in Clients, RemoveSnapshotTask(c)
    PROVE  IInv'
<1> DEFINE r == req[c]
           parent == findParentSnapshotInTree(roots, r.snap)
           left == removeSnapshotInTree(roots, r.snap, r.children)
           breaks == \/ gone \/ ~info \/ r.snap \notin registered
                     \/ (r.snap = current /\ parent = None /\ left # <<>>)
<1>1. Runs(c, "remove") /\ "remove" # "idle"
  BY DEF RemoveSnapshotTask, RemovesTo
<1>2. /\ breaks => Breaks("crashed")
      /\ ~breaks =>
            /\ roots' = left /\ rootSnapshot' = RootRefs(left) /\ info' = (left # <<>>)
            /\ current' = IF left = <<>> THEN None ELSE IF r.snap = current THEN parent ELSE current
            /\ registered' = registered \ {r.snap} /\ layout' = layout \ {r.snap}
            /\ childSnapshot' = childSnapshot /\ sid' = sid /\ fate' = fate
  BY DEF RemoveSnapshotTask, RemovesTo
<1>3. fate' \in {"ok", "wedged", "crashed"}
  <2>1. fate = "ok"
    BY <1>1 DEF Runs
  <2>2. Breaks("crashed") => fate' = "crashed"
    BY DEF Breaks
  <2> HIDE DEF breaks
  <2> QED
    BY <1>2, <2>1, <2>2
<1>4. /\ OthersOK' /\ CarefulOK' /\ careful' = careful /\ fate = "ok"
      /\ r \in Requests /\ r.op = "remove" /\ (careful => Sent(r))
  BY <1>1, <1>3, RunsFacts
<1>5. r.snap \in Snaps /\ r.children \in BOOLEAN
  BY <1>4 DEF Requests
<1>6. /\ left \in Seq(Nodes) /\ IsForest(left)
      /\ Of(left) = {s \in InTree \ {r.snap} : r.children => r.snap \notin Above(roots, s)}
      /\ \A s \in Of(left) : Above(left, s) = LineageOf(childSnapshot, s) \cap Of(left)
      /\ left = <<>> <=> Of(left) = {}
  BY <1>5, RemoveLineage
<1>7. parent # None => parent \in Above(roots, r.snap)
  BY ParentAbove
<1>8. careful => /\ ~gone /\ r.snap \in registered /\ registered = InTree /\ ~r.children
                 /\ r.snap = current => parent # None \/ InTree = {r.snap}
                 /\ info = (roots # <<>>) /\ current \in IF info THEN InTree ELSE {None}
  BY <1>4 DEF Sent, IInv, CarefulIsSafe
<1>9. roots = <<>> <=> InTree = {}
  BY RootsFacts
<1> HIDE DEF r, parent, left
<1>10. careful => ~breaks
  <2> SUFFICES ASSUME careful PROVE ~breaks
    OBVIOUS
  <2>1. info
    BY <1>8, <1>9
  <2>2. InTree = {r.snap} => left = <<>>
    BY <1>6
  <2> QED
    BY <1>8, <2>1, <2>2
<1>11. CASE breaks
  <2>1. ~careful /\ Breaks("crashed")
    BY <1>2, <1>10, <1>11
  <2> QED
    BY <1>1, <2>1, BreaksIInv
<1>12. CASE ~breaks
  <2>1. /\ roots' = left /\ rootSnapshot' = RootRefs(left) /\ info' = (left # <<>>)
        /\ current' = IF left = <<>> THEN None ELSE IF r.snap = current THEN parent ELSE current
        /\ registered' = registered \ {r.snap} /\ layout' = layout \ {r.snap}
        /\ childSnapshot' = childSnapshot /\ sid' = sid /\ fate' = fate
    BY <1>2, <1>12
  <2>2. r.snap = current /\ left # <<>> => parent # None
    BY <1>12
  <2> HIDE DEF breaks
  <2>3. InTree' = Of(left)
    BY <2>1 DEF InTree, Of
  <2>4. current' \in Snaps \cup {None}
    <3>1. Above(roots, r.snap) \subseteq Snaps
      BY <1>5, RootsFacts
    <3>2. current \in Snaps \cup {None}
      BY DEF IInv, TreeOK, TypeOK
    <3> QED
      BY <1>7, <2>1, <3>1, <3>2
  <2>5. TypeOK'
    <3>1. rootSnapshot' \in Seq(Snaps)
      BY <1>6, <2>1, RootSeqsFacts
    <3>2. roots' \in Seq([snap : Snaps, above : SUBSET Snaps]) /\ IsForest(roots')
      BY <1>6, <2>1 DEF Nodes
    <3>3. info' \in BOOLEAN
      BY <2>1
    <3> QED
      BY <1>4, <2>1, <2>4, <3>1, <3>2, <3>3 DEF IInv, TreeOK, TypeOK, OthersOK
  <2>6. Consistent'
    <3>1. Of(left) \subseteq registered \ {r.snap}
      BY <1>6 DEF IInv, TreeOK, Consistent
    <3> QED
      BY <2>1, <2>3, <3>1 DEF IInv, TreeOK, Consistent
  <2>7. TreeIsLineage'
    <3>1. \A s : Lineage(s)' = LineageOf(childSnapshot, s)
      BY <2>1 DEF Lineage, LineageOf, Parents, ParentsOf, Closed
    <3> QED
      BY <1>6, <2>1, <2>3, <3>1 DEF TreeIsLineage
  <2>8. NumbersOK'
    BY <2>1 DEF IInv, NumbersOK
  <2>9. left # <<>> => roots # <<>>
    BY <1>6, <1>9
  <2>10. CurrentOK'
    BY <2>1, <2>2, <2>9 DEF IInv, CurrentOK
  <2>11. CarefulIsSafe'
    <3> SUFFICES ASSUME careful
                 PROVE /\ fate' = "ok" /\ registered' = InTree' /\ info' = (roots' # <<>>)
                       /\ current' \in IF info' THEN InTree' ELSE {None}
      BY <1>4 DEF CarefulIsSafe
    <3>1. Of(left) = InTree \ {r.snap}
      BY <1>6, <1>8
    <3>2. registered' = InTree'
      BY <1>8, <2>1, <2>3, <3>1
    <3>3. ASSUME left # <<>> PROVE current' \in InTree'
      <4>1. CASE r.snap = current
        <5>1. parent \in Above(roots, r.snap) /\ current' = parent
          BY <1>7, <2>1, <2>2, <3>3, <4>1
        <5>2. r.snap \in InTree
          BY <1>8
        <5>3. Above(roots, r.snap) \subseteq InTree /\ r.snap \notin Above(roots, r.snap)
          BY <5>2, RootsFacts
        <5> QED
          BY <2>3, <3>1, <5>1, <5>3
      <4>2. CASE r.snap # current
        <5>1. current' = current /\ current \in InTree
          BY <1>8, <2>1, <2>9, <3>3, <4>2
        <5> QED
          BY <2>3, <3>1, <4>2, <5>1
      <4> QED
        BY <4>1, <4>2
    <3> QED
      BY <1>4, <2>1, <3>2, <3>3
  <2> QED
    BY <1>4, <2>5, <2>6, <2>7, <2>8, <2>10, <2>11 DEF IInv, TreeOK
<1> QED
  BY <1>11, <1>12

(* The first snapshot. *)
LEMMA OneForest ==
    ASSUME NEW s \in Snaps
    PROVE  LET tree == <<Node(s, {})>>
           IN tree \in Seq(Nodes) /\ IsForest(tree) /\ Of(tree) = {s} /\ Above(tree, s) = {}
<1> DEFINE tree == <<Node(s, {})>>
<1>1. Node(s, {}) \in Nodes /\ Node(s, {}).snap = s /\ Node(s, {}).above = {}
  BY DEF Node, Nodes
<1>2. tree \in Seq(Nodes) /\ Len(tree) = 1 /\ tree[1].above = {} /\ tree[1].snap = s
  BY <1>1
<1> HIDE DEF tree
<1>3. \A i \in 1 .. Len(tree) : i = 1
  BY <1>2
<1>4. Once(tree) /\ HasParents(tree) /\ InOrder(tree)
  BY <1>2, <1>3 DEF Once, HasParents, InOrder
<1>5. IsForest(tree)
  BY <1>2, <1>4, ForestFacts
<1>6. 1 \in 1 .. Len(tree)
  BY <1>2
<1>7. Of(tree) = {s}
  <2>1. \A x : x \in Of(tree) <=> \E i \in 1 .. Len(tree) : tree[i].snap = x
    BY <1>2, TreeFacts
  <2>2. \A x : x \in Of(tree) <=> x = s
    BY <1>2, <1>3, <1>6, <2>1
  <2> QED
    BY <2>2
<1>8. Above(tree, s) = {}
  BY <1>2, <1>4, <1>6, AboveFacts
<1> QED
  BY <1>2, <1>5, <1>7, <1>8 DEF tree

LEMMA LineageNone ==
    ASSUME NEW ch, NEW s, ParentsOf(ch, s) = {}
    PROVE  LineageOf(ch, s) = {}
<1>1. {} \in SUBSET Snaps /\ ParentsOf(ch, s) \subseteq {} /\ Closed(ch, {})
  BY DEF Closed
<1> QED
  BY <1>1 DEF LineageOf

LEMMA CreateIInv ==
    ASSUME IInv, NEW c \in Clients, CreateSnapshotExTask(c)
    PROVE  IInv'
<1> DEFINE n == sid + 1
           breaks == gone \/ (current # None /\ current \notin registered \cap InTree)
<1>1. Runs(c, "create") /\ "create" # "idle" /\ sid < MaxSnaps
  BY DEF CreateSnapshotExTask
<1>2. fate' \in {"ok", "wedged", "crashed"}
  BY <1>1 DEF CreateSnapshotExTask, Breaks, Runs
<1>3. /\ OthersOK' /\ CarefulOK' /\ careful' = careful /\ fate = "ok"
      /\ careful => Sent(req[c])
  BY <1>1, <1>2, RunsFacts
<1>4. /\ sid \in Nat /\ n \in Snaps /\ n \in 1 .. n /\ 1 .. sid \subseteq 1 .. n /\ n \notin 1 .. sid
      /\ n \in 0 .. MaxSnaps /\ n # None
  <2>1. sid \in 0 .. MaxSnaps /\ MaxSnaps \in Nat /\ None \notin Snaps
    BY VMSnapshotsAssumption DEF IInv, TreeOK, TypeOK
  <2> QED
    BY <1>1, <2>1 DEF Snaps
<1>5. /\ childSnapshot \in [Snaps -> SUBSET Snaps] /\ registered \subseteq 1 .. sid
      /\ \A s \in Snaps : childSnapshot[s] \subseteq 1 .. sid /\ (s > sid => childSnapshot[s] = {})
  BY DEF IInv, TreeOK, TypeOK, NumbersOK
<1>6. /\ current \in Snaps \cup {None}
      /\ InTree \subseteq registered /\ layout = registered /\ rootSnapshot = RootRefs(roots)
      /\ registered \subseteq Snaps
  BY DEF IInv, TreeOK, TypeOK, Consistent
<1>7. careful => registered = InTree /\ info = (roots # <<>>)
                   /\ current \in IF info THEN InTree ELSE {None}
  BY DEF IInv, CarefulIsSafe
<1>8. CASE breaks
  <2>1. ~careful
    BY <1>3, <1>7, <1>8 DEF Sent
  <2>2. Breaks("crashed")
    BY <1>8 DEF CreateSnapshotExTask
  <2> QED
    BY <1>1, <2>1, <2>2, BreaksIInv
<1>9. ASSUME ~breaks, InTree' = InTree \cup {n}, roots' \in Seq(Nodes), IsForest(roots'),
             rootSnapshot' = RootRefs(roots'),
             childSnapshot' \in [Snaps -> SUBSET Snaps],
             \A s \in Snaps : childSnapshot'[s] \subseteq 1 .. n /\ (s > n => childSnapshot'[s] = {}),
             \A s \in InTree' : Above(roots', s) = LineageOf(childSnapshot', s) \cap InTree'
      PROVE  IInv'
  <2>1. /\ sid' = n /\ info' = TRUE /\ current' = n /\ fate' = fate
        /\ registered' = registered \cup {n} /\ layout' = layout \cup {n}
    BY <1>9 DEF CreateSnapshotExTask
  <2> HIDE DEF n
  <2>2. TypeOK'
    <3>1. rootSnapshot' \in Seq(Snaps)
      BY <1>9, RootSeqsFacts
    <3> QED
      BY <1>3, <1>4, <1>6, <1>9, <2>1, <3>1 DEF TypeOK, OthersOK, Nodes
  <2>3. Consistent'
    BY <1>6, <1>9, <2>1 DEF Consistent
  <2>4. TreeIsLineage'
    <3>1. \A s : Lineage(s)' = LineageOf(childSnapshot', s)
      BY DEF Lineage, LineageOf, Parents, ParentsOf, Closed
    <3> QED
      BY <1>9, <3>1 DEF TreeIsLineage
  <2>5. NumbersOK'
    BY <1>4, <1>5, <1>9, <2>1 DEF NumbersOK
  <2>6. CurrentOK'
    BY <1>4, <2>1 DEF CurrentOK
  <2>7. roots' # <<>>
    <3>1. InTree' # {} /\ InTree' = Of(roots')
      BY <1>9 DEF InTree, Of
    <3> QED
      BY <3>1, NoSnapshotsFacts
  <2>8. CarefulIsSafe'
    BY <1>3, <1>7, <1>9, <2>1, <2>7 DEF CarefulIsSafe
  <2> QED
    BY <1>3, <2>2, <2>3, <2>4, <2>5, <2>6, <2>8 DEF IInv, TreeOK
<1>10. CASE ~breaks /\ current = None
  <2>1. /\ roots' = Append(roots, Node(n, {})) /\ rootSnapshot' = Append(rootSnapshot, n)
        /\ childSnapshot' = childSnapshot
    BY <1>10 DEF CreateSnapshotExTask
  <2>2. roots = <<>> /\ InTree = {}
    BY <1>10, RootsFacts DEF IInv, CurrentOK
  <2> HIDE DEF n
  <2>3. roots' = <<Node(n, {})>>
    BY <2>1, <2>2
  <2>4. rootSnapshot' = <<n>>
    <3>1. rootSnapshot = <<>>
      BY <1>6, <2>2, RootRefsEmpty
    <3> QED
      BY <2>1, <3>1
  <2>5. roots' \in Seq(Nodes) /\ IsForest(roots') /\ Of(roots') = {n} /\ Above(roots', n) = {}
    BY <1>4, <2>3, OneForest
  <2>6. InTree' = InTree \cup {n}
    BY <2>2, <2>5 DEF InTree, Of
  <2>7. rootSnapshot' = RootRefs(roots')
    BY <1>4, <2>3, <2>4, RootRefsOne
  <2>8. LineageOf(childSnapshot', n) = {}
    <3>1. ParentsOf(childSnapshot', n) = {}
      BY <1>4, <1>5, <2>1 DEF ParentsOf
    <3> QED
      BY <3>1, LineageNone
  <2>9. \A s \in Snaps : childSnapshot'[s] \subseteq 1 .. n /\ (s > n => childSnapshot'[s] = {})
    <3>1. \A s \in Snaps : s > n => s > sid
      BY <1>4 DEF n, Snaps
    <3> QED
      BY <1>4, <1>5, <2>1, <3>1
  <2> QED
    BY <1>5, <1>9, <1>10, <2>1, <2>2, <2>5, <2>6, <2>7, <2>8, <2>9
<1>11. CASE ~breaks /\ current # None
  <2>1. /\ roots' = AddChild(roots, current, n) /\ rootSnapshot' = rootSnapshot
        /\ childSnapshot' = [childSnapshot EXCEPT ![current] = @ \cup {n}]
    BY <1>11 DEF CreateSnapshotExTask
  <2>2. current \in InTree /\ current \in Snaps /\ current # n /\ current \in 1 .. sid
    BY <1>4, <1>5, <1>6, <1>11
  <2>3. /\ roots \in Seq(Nodes) /\ IsForest(roots) /\ InTree = Of(roots)
        /\ \A i \in 1 .. Len(roots) : roots[i].above \subseteq InTree
        /\ \A s \in InTree : Above(roots, s) = LineageOf(childSnapshot, s) \cap InTree
        /\ \A s \in InTree : s \in Snaps
    BY RootsFacts
  <2>4. n \notin InTree
    BY <1>4, <1>5, <1>6
  <2>5. childSnapshot[n] = {} /\ \A x \in Snaps : n \notin childSnapshot[x]
    BY <1>4, <1>5
  <2> HIDE DEF n
  <2>6. PICK r \in 1 .. Len(roots) : roots[r].snap = current
    BY <2>2, <2>3, TreeFacts
  <2>7. Above(roots, current) = roots[r].above
    <3>1. Once(roots)
      BY <2>3, ForestFacts
    <3> QED
      BY <2>3, <2>6, <3>1, AboveFacts
  <2>8. /\ roots' \in Seq(Nodes) /\ IsForest(roots') /\ Of(roots') = InTree \cup {n}
        /\ \A x \in InTree : Above(roots', x) = Above(roots, x)
        /\ Above(roots', n) = Above(roots, current) \cup {current}
    <3>1. n \notin Of(roots) /\ \A i \in 1 .. Len(roots) : n \notin roots[i].above
      BY <2>3, <2>4
    <3>2. LET new == AddChild(roots, roots[r].snap, n)
          IN /\ new \in Seq(Nodes) /\ IsForest(new) /\ Of(new) = Of(roots) \cup {n}
             /\ \A x \in Of(roots) : Above(new, x) = Above(roots, x)
             /\ Above(new, n) = roots[r].above \cup {roots[r].snap}
      BY <1>4, <2>3, <3>1, AddForest
    <3> QED
      BY <2>1, <2>3, <2>6, <2>7, <3>2
  <2>9. InTree' = InTree \cup {n}
    BY <2>8 DEF InTree, Of
  <2>10. rootSnapshot' = RootRefs(roots')
    <3>1. RootRefs(AddChild(roots, roots[r].snap, n)) = RootRefs(roots)
      BY <1>4, <2>3, RootRefsAdd
    <3> QED
      BY <1>6, <2>1, <2>6, <3>1
  <2>11. /\ \A s \in Snaps \ {n} : LineageOf(childSnapshot', s) = LineageOf(childSnapshot, s)
         /\ LineageOf(childSnapshot', n) = LineageOf(childSnapshot, current) \cup {current}
         /\ \A s \in Snaps : n \notin LineageOf(childSnapshot, s)
    <3>1. LET more == [childSnapshot EXCEPT ![current] = @ \cup {n}]
          IN /\ \A s \in Snaps \ {n} : LineageOf(more, s) = LineageOf(childSnapshot, s)
             /\ LineageOf(more, n) = LineageOf(childSnapshot, current) \cup {current}
             /\ \A s \in Snaps : n \notin LineageOf(childSnapshot, s)
      BY <1>4, <1>5, <2>2, <2>5, LineageAdd
    <3> QED
      BY <2>1, <3>1
  <2>12. ASSUME NEW s \in InTree' PROVE Above(roots', s) = LineageOf(childSnapshot', s) \cap InTree'
    <3>1. CASE s = n
      <4>1. Above(roots', n) = (LineageOf(childSnapshot, current) \cap InTree) \cup {current}
        BY <2>2, <2>3, <2>8
      <4>2. LineageOf(childSnapshot', n) \cap (InTree \cup {n})
              = (LineageOf(childSnapshot, current) \cap InTree) \cup {current}
        BY <2>2, <2>11
      <4> QED
        BY <2>9, <3>1, <4>1, <4>2
    <3>2. CASE s # n
      <4>1. s \in InTree /\ s \in Snaps \ {n}
        BY <2>3, <2>9, <3>2
      <4>2. n \notin LineageOf(childSnapshot, s) /\ LineageOf(childSnapshot', s) = LineageOf(childSnapshot, s)
        BY <2>11, <4>1
      <4> QED
        BY <2>3, <2>8, <2>9, <4>1, <4>2
    <3> QED
      BY <3>1, <3>2
  <2>13. childSnapshot' \in [Snaps -> SUBSET Snaps]
    BY <1>4, <1>5, <2>1, <2>2
  <2>14. ASSUME NEW s \in Snaps
         PROVE  childSnapshot'[s] \subseteq 1 .. n /\ (s > n => childSnapshot'[s] = {})
    <3>1. s > n => s > sid /\ s # current
      BY <1>4, <2>2 DEF n, Snaps
    <3>2. childSnapshot'[s] = IF s = current THEN childSnapshot[s] \cup {n} ELSE childSnapshot[s]
      BY <1>5, <2>1
    <3> QED
      BY <1>4, <1>5, <3>1, <3>2
  <2> QED
    BY <1>9, <1>11, <2>8, <2>9, <2>10, <2>12, <2>13, <2>14
<1> QED
  BY <1>8, <1>10, <1>11

-----------------------------------------------------------------------------
LEMMA NextIInv == IInv /\ [Next]_vars => IInv'
<1> SUFFICES ASSUME IInv, [Next]_vars PROVE IInv'
  OBVIOUS
<1>1. ASSUME NEW c \in Clients, NEW r \in Requests, Send(c, r) PROVE IInv'
  BY <1>1, SendIInv
<1>2. ASSUME NEW c \in Clients, CreateSnapshotExTask(c) PROVE IInv'
  BY <1>2, CreateIInv
<1>3. ASSUME NEW c \in Clients, RemoveSnapshotTask(c) PROVE IInv'
  BY <1>3, RemoveIInv
<1>4. ASSUME NEW c \in Clients, RevertToSnapshotTask(c) PROVE IInv'
  BY <1>4, RevertIInv
<1>5. ASSUME NEW c \in Clients, RevertToCurrentSnapshotTask(c) PROVE IInv'
  BY <1>5, RevertCurrentIInv
<1>6. ASSUME NEW c \in Clients, RemoveAllSnapshotsTask(c) PROVE IInv'
  BY <1>6, RemoveAllIInv
<1>7. ASSUME NEW p \in Powers, PowerTask(p) PROVE IInv'
  BY <1>7, PowerIInv
<1>8. ASSUME NEW spec \in CryptoSpecs, NEW k \in Keys, updateCrypto(spec, k) PROVE IInv'
  BY <1>8, CryptoIInv
<1>9. CASE UnregisterVM
  BY <1>9, UnregisterIInv
<1>10. CASE UNCHANGED vars
  BY <1>10, StutterIInv
<1> QED
  BY <1>1, <1>2, <1>3, <1>4, <1>5, <1>6, <1>7, <1>8, <1>9, <1>10 DEF Next

LEMMA Inductive == Spec => []IInv
  BY InitIInv, NextIInv, PTL DEF Spec

(* Whatever the clients have in flight, the registry, the file layout,        *)
(* vm.RootSnapshot and the snapshot trees agree, and after any creations,     *)
(* reverts and removals the trees are the lineage of the ChildSnapshot lists. *)
THEOREM TreesAreLineage == Spec => []TreeOK
<1>1. IInv => TreeOK
  BY DEF IInv
<1> QED
  BY <1>1, Inductive, PTL

(* Clients that send one request at a time, remove no subtree and leave a     *)
(* current root alone while others stay never crash the simulator or wedge    *)
(* the virtual machine; vm.Snapshot and its CurrentSnapshot fit the trees.    *)
THEOREM CareIsEnough == Spec => []CarefulIsSafe
<1>1. IInv => CarefulIsSafe
  BY DEF IInv
<1> QED
  BY <1>1, Inductive, PTL

(* hasSnapshots looks at the current snapshot alone, and that is enough:      *)
(* updateCrypto changes no key while the trees have a node, except for one    *)
(* key by another when they are a chain.                                      *)
THEOREM CryptoChecks == Spec => CryptoNeedsNoSnapshots
<1> DEFINE Step == keyId' # keyId =>
               \/ InTree = {} /\ (power = "off" \/ None \notin {keyId, keyId'})
               \/ IsChain(roots) /\ None \notin {keyId, keyId'}
<1>1. IInv /\ [Next]_vars => [Step]_vars
  <2> SUFFICES ASSUME IInv, Next PROVE Step
    OBVIOUS
  <2>1. ASSUME NEW spec \in CryptoSpecs, NEW k \in Keys, updateCrypto(spec, k) PROVE Step
    <3>1. k # None
      BY VMSnapshotsAssumption
    <3>2. ~hasSnapshots => InTree = {}
      BY RootsFacts DEF hasSnapshots, IInv, CurrentOK
    <3>3. CASE spec = "shallowRecrypt"
      BY <2>1, <3>1, <3>2, <3>3 DEF updateCrypto
    <3>4. CASE spec # "shallowRecrypt"
      BY <2>1, <3>2, <3>4 DEF updateCrypto
    <3> QED
      BY <3>3, <3>4
  <2>2. ASSUME NEW c \in Clients, NEW r \in Requests, Send(c, r) PROVE Step
    BY <2>2 DEF Send, machine
  <2>3. ASSUME NEW c \in Clients, NEW op, Runs(c, op) PROVE Step
    BY <2>3 DEF Runs, machine
  <2>4. ASSUME NEW p \in Powers, PowerTask(p) PROVE Step
    BY <2>4 DEF PowerTask
  <2>5. CASE UnregisterVM
    BY <2>5 DEF UnregisterVM
  <2> HIDE DEF Step
  <2> QED
    BY <2>1, <2>2, <2>3, <2>4, <2>5 DEF Next, CreateSnapshotExTask, RemoveSnapshotTask, RemovesTo,
       RevertToSnapshotTask, RevertToCurrentSnapshotTask, RemoveAllSnapshotsTask
<1> QED
  BY <1>1, Inductive, PTL DEF Spec, CryptoNeedsNoSnapshots

(* RemoveSnapshot_Task takes one snapshot out of the trees, and those below   *)
(* it if and only if RemoveChildren is set: removeSnapshotInTree neither      *)
(* loses nor keeps another.                                                   *)
THEOREM RemovesNothingElse == Spec => RemovesExactly
<1> DEFINE Step == \A c \in Clients :
               req[c].op = "remove" /\ req'[c] = Idle /\ fate' = "ok" =>
                   InTree' = {s \in InTree \ {req[c].snap} :
                                 req[c].children => req[c].snap \notin Above(roots, s)}
<1>1. IInv /\ [Next]_vars => [Step]_vars
  <2> SUFFICES ASSUME IInv, Next, NEW c \in Clients,
                      req[c].op = "remove", req'[c] = Idle, fate' = "ok"
               PROVE InTree' = {s \in InTree \ {req[c].snap} :
                                   req[c].children => req[c].snap \notin Above(roots, s)}
    OBVIOUS
  <2>1. req \in [Clients -> Requests \cup {Idle}] /\ req[c] # Idle /\ req'[c] # req[c]
    BY DEF IInv, TreeOK, TypeOK, Idle
  <2>2. ASSUME NEW d \in Clients, NEW r \in Requests, Send(d, r) PROVE FALSE
    <3>1. c # d
      BY <2>1, <2>2 DEF Send
    <3> QED
      BY <2>1, <2>2, <3>1 DEF Send
  <2>3. ASSUME NEW d \in Clients, NEW op, Runs(d, op) PROVE d = c /\ op = "remove"
    BY <2>1, <2>3 DEF Runs
  <2>4. ~(\E p \in Powers : PowerTask(p)) /\ ~UnregisterVM
    BY <2>1 DEF PowerTask, UnregisterVM
  <2>5. ~(\E spec \in CryptoSpecs, k \in Keys : updateCrypto(spec, k))
    BY <2>1 DEF updateCrypto
  <2>6. RemoveSnapshotTask(c)
    <3>1. PICK d \in Clients : \/ CreateSnapshotExTask(d) \/ RemoveSnapshotTask(d)
                               \/ RevertToSnapshotTask(d) \/ RevertToCurrentSnapshotTask(d)
                               \/ RemoveAllSnapshotsTask(d)
      BY <2>2, <2>4, <2>5 DEF Next
    <3>2. CreateSnapshotExTask(d) => Runs(d, "create")
      BY DEF CreateSnapshotExTask
    <3>3. RevertToSnapshotTask(d) => Runs(d, "revert")
      BY DEF RevertToSnapshotTask
    <3>4. RevertToCurrentSnapshotTask(d) => Runs(d, "revertCurrent")
      BY DEF RevertToCurrentSnapshotTask
    <3>5. RemoveAllSnapshotsTask(d) => Runs(d, "removeAll")
      BY DEF RemoveAllSnapshotsTask
    <3>6. RemoveSnapshotTask(d) => d = c
      BY <2>3 DEF RemoveSnapshotTask, RemovesTo
    <3>7. RemoveSnapshotTask(d)
      BY <2>3, <3>1, <3>2, <3>3, <3>4, <3>5
    <3> QED
      BY <3>6, <3>7
  <2>7. req[c].snap \in Snaps /\ req[c].children \in BOOLEAN
    <3>1. req[c] \in Requests
      BY <2>1
    <3> QED
      BY <3>1 DEF Requests
  <2>8. roots' = removeSnapshotInTree(roots, req[c].snap, req[c].children)
    BY <2>6 DEF RemoveSnapshotTask, RemovesTo, Breaks
  <2>9. InTree' = Of(removeSnapshotInTree(roots, req[c].snap, req[c].children))
    BY <2>8 DEF InTree, Of
  <2> QED
    BY <2>7, <2>9, RemoveLineage
<1> QED
  BY <1>1, Inductive, PTL DEF Spec, RemovesExactly
=============================================================================
