------------------------------- MODULE Positions -------------------------------
(***************************************************************************)
(* Facts about positions in a queue or a list that the proofs about every  *)
(* component need: that there is a first and a last among some, and that a *)
(* fold (FoldLeft of SequencesExt goes from the last position of a set to  *)
(* the set without it) has the value a recursive description of it says.   *)
(***************************************************************************)
EXTENDS Naturals, FiniteSetsExt, WellFoundedInduction, TLAPS

(* Some numbers, if there are any, have a least. *)
LEMMA Least ==
  ASSUME NEW T \in SUBSET Nat, T # {}
  PROVE  \E k \in T : \A m \in T : k <= m
<1>. DEFINE Less == OpToRel(<, Nat)
<1>1. \A a, b \in Nat : a < b => <<a, b>> \in Less
  BY Zenon DEF OpToRel
<1>2. PICK k \in T : \A m \in T : ~(<<m, k>> \in Less)
  BY NatLessThanWellFounded, WFMin, Zenon
<1>3. ASSUME NEW m \in T PROVE k <= m
  <2>1. ~(m < k)
    BY <1>1, <1>2
  <2>. QED  BY <2>1
<1>. QED  BY <1>3

(* Some numbers up to n, if there are any, have a last. *)
LEMMA LastUpTo ==
  ASSUME NEW n \in Nat, NEW S, S \subseteq 0 .. n, S # {}
  PROVE  \E i \in S : \A j \in S : j <= i
<1>. DEFINE T == {k \in Nat : n - k \in S}
<1>1. T # {}
  <2>1. PICK i \in S : TRUE
    OBVIOUS
  <2>2. n - i \in Nat /\ n - (n - i) = i
    BY <2>1
  <2>. QED  BY <2>1, <2>2
<1>2. PICK k \in T : \A m \in T : k <= m
  BY <1>1, Least
<1>3. ASSUME NEW j \in S PROVE j <= n - k
  <2>1. n - j \in T
    BY <1>3
  <2>. QED  BY <1>2, <2>1
<1>4. n - k \in S
  BY <1>2
<1>. QED  BY <1>3, <1>4

(* So have some positions of a sequence. *)
LEMMA LastPlace ==
  ASSUME NEW n \in Nat, NEW S, S \subseteq 1 .. n, S # {}
  PROVE  \E i \in S : \A j \in S : j <= i
<1>1. S \subseteq 0 .. n
  OBVIOUS
<1>. QED  BY <1>1, LastUpTo

(* Max is that one. *)
LEMMA GreatestUpTo ==
  ASSUME NEW n \in Nat, NEW S, S \subseteq 0 .. n, S # {}
  PROVE  Max(S) \in S /\ \A i \in S : i <= Max(S)
<1>1. \E j \in S : \A i \in S : j >= i
  <2>1. PICK j \in S : \A i \in S : i <= j
    BY LastUpTo
  <2>. QED  BY <2>1
<1>2. Max(S) \in S /\ \A i \in S : Max(S) >= i
  BY <1>1, Zenon DEF Max
<1>. QED  BY <1>2

LEMMA Greatest ==
  ASSUME NEW n \in Nat, NEW S \in SUBSET (1 .. n), S # {}
  PROVE  Max(S) \in S /\ \A i \in S : i <= Max(S)
<1>1. S \subseteq 0 .. n
  OBVIOUS
<1>. QED  BY <1>1, GreatestUpTo

(* Without its greatest position a set reaches less far. *)
LEMMA WithoutLast ==
  ASSUME NEW k \in Nat, NEW S \in SUBSET (1 .. k), S # {}
  PROVE  S \ {Max(S)} \in SUBSET (1 .. (k - 1)) /\ k - 1 \in Nat
<1>. DEFINE last == Max(S)
<1>1. last \in S /\ \A i \in S : i <= last
  BY Greatest
<1>. HIDE DEF last
<1>2. last \in 1 .. k
  BY <1>1
<1>3. ASSUME NEW i \in S, i # last PROVE i \in 1 .. (k - 1)
  <2>1. i \in 1 .. k /\ i <= last
    BY <1>1
  <2>. QED  BY <1>2, <1>3, <2>1
<1>4. S \ {last} \in SUBSET (1 .. (k - 1)) /\ k - 1 \in Nat
  BY <1>2, <1>3
<1>. QED  BY <1>4 DEF last

(* Two functions of the sets of positions up to n agree on the empty set,  *)
(* and on any other as soon as they do on the set without its greatest     *)
(* position.                                                               *)
Follow(n, f, h) ==
  /\ f[{}] = h[{}]
  /\ \A S \in SUBSET (1 .. n) :
       S # {} /\ f[S \ {Max(S)}] = h[S \ {Max(S)}] => f[S] = h[S]

(* They are then the same. *)
LEMMA SameFold ==
  ASSUME NEW n \in Nat, NEW f, NEW h, Follow(n, f, h)
  PROVE  \A S \in SUBSET (1 .. n) : f[S] = h[S]
<1>. USE DEF Follow
<1>. DEFINE Differ == {k \in 0 .. n : \E S \in SUBSET (1 .. k) : f[S] # h[S]}
<1>. SUFFICES ASSUME Differ # {} PROVE FALSE
  <2>1. ASSUME NEW S \in SUBSET (1 .. n), f[S] # h[S] PROVE n \in Differ
    BY <2>1
  <2>. QED  BY <2>1
<1>1. PICK k \in Differ : \A m \in Differ : k <= m
  <2>1. Differ \in SUBSET Nat
    OBVIOUS
  <2>. HIDE DEF Differ
  <2>. QED  BY <2>1, Least
<1>2. PICK S \in SUBSET (1 .. k) : f[S] # h[S]
  OBVIOUS
<1>3. S # {} /\ S \in SUBSET (1 .. n) /\ k \in Nat /\ k <= n
  <2>1. S # {}
    BY <1>2, Zenon
  <2>. QED  BY <2>1
<1>5. S \ {Max(S)} \in SUBSET (1 .. (k - 1)) /\ k - 1 \in 0 .. n
  <2>1. S \ {Max(S)} \in SUBSET (1 .. (k - 1)) /\ k - 1 \in Nat
    BY <1>3, WithoutLast
  <2>. QED  BY <1>3, <2>1
<1>6. f[S \ {Max(S)}] = h[S \ {Max(S)}]
  <2>1. k - 1 \notin Differ
    BY <1>1
  <2>. QED  BY <1>5, <2>1
<1>. QED  BY <1>2, <1>3, <1>6
================================================================================
