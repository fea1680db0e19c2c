------------------------- MODULE CircularBufferLemmas -------------------------
(***************************************************************************)
(* What the proofs about the ring and those about the driver share: going  *)
(* round the array, sequences given by their elements, and sums of sizes.  *)
(***************************************************************************)
EXTENDS CircularBuffer, Sequences, TLAPS, WellFoundedInduction

\* Going one place further without the modulo.
LEMMA SuccCases ==
  ASSUME NEW i \in Slot
  PROVE  /\ Succ(i) \in Slot
         /\ Succ(i) = IF i = MaxOps - 1 THEN 0 ELSE i + 1
BY MaxOpsAssumption DEF Slot, Succ

\* k places further, k at most once round.
LEMMA PlusCases ==
  ASSUME NEW i \in Slot, NEW k \in 0 .. MaxOps
  PROVE  /\ (i + k) % MaxOps \in Slot
         /\ (i + k) % MaxOps = IF i + k < MaxOps THEN i + k ELSE i + k - MaxOps
BY MaxOpsAssumption DEF Slot

\* Once round the ring, starting after i: i itself comes last.
LEMMA OnceRound ==
  ASSUME NEW i \in Slot, NEW k \in 1 .. MaxOps
  PROVE  /\ (Succ(i) + (k - 1)) % MaxOps = (i + k) % MaxOps
         /\ (i + k) % MaxOps \in Slot
         /\ (i + k) % MaxOps = i <=> k = MaxOps
<1>1. Succ(i) \in Slot /\ Succ(i) = IF i = MaxOps - 1 THEN 0 ELSE i + 1
  BY SuccCases
<1>2. /\ (i + k) % MaxOps \in Slot
      /\ (i + k) % MaxOps = IF i + k < MaxOps THEN i + k ELSE i + k - MaxOps
  BY PlusCases, MaxOpsAssumption
<1>3. (Succ(i) + (k - 1)) % MaxOps = IF Succ(i) + (k - 1) < MaxOps THEN Succ(i) + (k - 1)
                                     ELSE Succ(i) + (k - 1) - MaxOps
  <2>1. k - 1 \in 0 .. MaxOps
    BY MaxOpsAssumption
  <2> QED BY <1>1, <2>1, PlusCases
<1>4. (Succ(i) + (k - 1)) % MaxOps = (i + k) % MaxOps
  BY <1>1, <1>2, <1>3, MaxOpsAssumption DEF Slot
<1>5. (i + k) % MaxOps = i <=> k = MaxOps
  BY <1>2, MaxOpsAssumption DEF Slot
<1> QED BY <1>2, <1>4, <1>5

\* A sequence given by its elements.
LEMMA MadeSeq ==
  ASSUME NEW S, NEW n \in Nat, NEW f \in [1 .. n -> S]
  PROVE  f \in Seq(S) /\ Len(f) = n
OBVIOUS

\* Append, element by element.
LEMMA AppendIs ==
  ASSUME NEW S, NEW s \in Seq(S), NEW x \in S
  PROVE  Append(s, x) = [k \in 1 .. Len(s) + 1 |-> IF k = Len(s) + 1 THEN x ELSE s[k]]
<1> DEFINE f == [k \in 1 .. Len(s) + 1 |-> IF k = Len(s) + 1 THEN x ELSE s[k]]
<1>1. f \in Seq(S) /\ Len(f) = Len(s) + 1
  <2>1. Len(s) + 1 \in Nat /\ f \in [1 .. Len(s) + 1 -> S]
    OBVIOUS
  <2> HIDE DEF f
  <2> QED BY <2>1, MadeSeq
<1>2. Append(s, x) \in Seq(S) /\ Len(Append(s, x)) = Len(s) + 1
  OBVIOUS
<1>3. \A k \in 1 .. Len(s) + 1 : Append(s, x)[k] = f[k]
  OBVIOUS
<1> HIDE DEF f
<1>4. Append(s, x) = f
  BY <1>1, <1>2, <1>3
<1> QED BY <1>4 DEF f

\* Append to the tail, element by element.
LEMMA AppendTailIs ==
  ASSUME NEW S, NEW s \in Seq(S), NEW x \in S, Len(s) > 0
  PROVE  Append(Tail(s), x) = [k \in 1 .. Len(s) |-> IF k = Len(s) THEN x ELSE s[k + 1]]
<1>1. Tail(s) \in Seq(S) /\ Len(Tail(s)) + 1 = Len(s)
  OBVIOUS
<1>2. \A k \in 1 .. Len(s) : k # Len(s) => Tail(s)[k] = s[k + 1]
  OBVIOUS
<1>3. Append(Tail(s), x)
        = [k \in 1 .. Len(s) |-> IF k = Len(s) THEN x ELSE Tail(s)[k]]
  <2> DEFINE t == Tail(s)
  <2> HIDE DEF t
  <2>1. t \in Seq(S) /\ Len(t) + 1 = Len(s)
    BY <1>1 DEF t
  <2>2. Append(t, x) = [k \in 1 .. Len(t) + 1 |-> IF k = Len(t) + 1 THEN x ELSE t[k]]
    BY <2>1, AppendIs
  <2> QED BY <2>1, <2>2 DEF t
<1> QED BY <1>2, <1>3
-------------------------------------------------------------------------------
(* Sums.  What holds of all numbers is shown by looking at the least one   *)
(* it does not hold of.                                                    *)

\* A set of numbers that is not empty has a least element.
LEMMA LeastOf ==
  ASSUME NEW T \in SUBSET Nat, T # {}
  PROVE  \E x \in T : \A y \in T : x <= y
<1> DEFINE R == OpToRel(<, Nat)
<1>1. IsWellFoundedOn(R, Nat)
  BY NatLessThanWellFounded
<1> HIDE DEF R
<1>2. PICK x \in T : \A y \in T : ~(<<y, x>> \in R)
  BY <1>1, WFMin
<1>3. \A y \in T : ~(y < x)
  BY <1>2 DEF R, OpToRel
<1> QED BY <1>3

\* A set of positions that contains the first one and with each its successor
\* contains all of them.
LEMMA AllPositions ==
  ASSUME NEW G \in SUBSET (0 .. MaxOps), 0 \in G,
         \A k \in Slot : k \in G => k + 1 \in G
  PROVE  G = 0 .. MaxOps
<1> DEFINE T == (0 .. MaxOps) \ G
<1> SUFFICES ASSUME T # {} PROVE FALSE
  OBVIOUS
<1>1. T \in SUBSET Nat
  BY MaxOpsAssumption
<1> HIDE DEF T
<1>2. PICK x \in T : \A y \in T : x <= y
  BY <1>1, LeastOf
<1>3. x \in 0 .. MaxOps /\ x # 0
  BY DEF T
<1>4. x - 1 \in Slot /\ x - 1 \in 0 .. MaxOps /\ ~(x <= x - 1) /\ (x - 1) + 1 = x
  BY <1>3, MaxOpsAssumption DEF Slot
<1>5. x - 1 \in G
  BY <1>2, <1>4 DEF T
<1> QED BY <1>4, <1>5 DEF T

\* The functions that add up the first n sizes one by one.
Sums(size, n) ==
  {g \in [0 .. n -> Nat] : g[0] = 0 /\ \A k \in 1 .. n : g[k] = g[k - 1] + size[k - 1]}

\* There is one for every n.
LEMMA SumsExist ==
  ASSUME NEW size \in [Slot -> Nat]
  PROVE  Sums(size, MaxOps) # {}
<1> DEFINE G == {n \in 0 .. MaxOps : Sums(size, n) # {}}
<1>1. 0 \in G
  <2>1. [i \in 0 .. 0 |-> 0] \in Sums(size, 0)
    BY DEF Sums
  <2> QED BY <2>1, MaxOpsAssumption
<1>2. ASSUME NEW n \in Slot, n \in G PROVE n + 1 \in G
  <2>1. PICK g \in Sums(size, n) : TRUE
    BY <1>2
  <2>2. g \in [0 .. n -> Nat] /\ g[0] = 0 /\ \A k \in 1 .. n : g[k] = g[k - 1] + size[k - 1]
    BY DEF Sums
  <2>3. n \in Nat /\ n \in 0 .. n /\ n + 1 \in 0 .. MaxOps /\ size[n] \in Nat /\ g[n] \in Nat
    BY <2>2, MaxOpsAssumption DEF Slot
  <2> DEFINE h == [i \in 0 .. n + 1 |-> IF i = n + 1 THEN g[n] + size[n] ELSE g[i]]
  <2>4. h \in [0 .. n + 1 -> Nat]
    BY <2>2, <2>3
  <2>5. h[0] = 0 /\ h[n + 1] = g[n] + size[n] /\ \A i \in 0 .. n : h[i] = g[i]
    BY <2>2, <2>3
  <2> HIDE DEF h
  <2>6. ASSUME NEW k \in 1 .. n + 1 PROVE h[k] = h[k - 1] + size[k - 1]
    <3>1. CASE k = n + 1
      BY <2>3, <2>5, <3>1
    <3>2. CASE k # n + 1
      <4>1. k \in 1 .. n /\ k \in 0 .. n /\ k - 1 \in 0 .. n
        BY <2>3, <3>2
      <4> QED BY <2>2, <2>5, <4>1
    <3> QED BY <3>1, <3>2
  <2>7. h \in Sums(size, n + 1)
    BY <2>4, <2>5, <2>6 DEF Sums
  <2> QED BY <2>3, <2>7
<1>3. G \in SUBSET (0 .. MaxOps)
  OBVIOUS
<1> HIDE DEF G
<1>4. MaxOps \in G
  BY <1>1, <1>2, <1>3, AllPositions, MaxOpsAssumption
<1> QED BY <1>4 DEF G

\* Starts is such a function: the recursion defines what it says.
LEMMA StartsAre ==
  ASSUME NEW size \in [Slot -> Nat]
  PROVE  /\ Starts(size) \in [0 .. MaxOps -> Nat]
         /\ Starts(size)[0] = 0
         /\ \A k \in Slot : Starts(size)[k + 1] = Starts(size)[k] + size[k]
<1> DEFINE Def(g) == g = [k \in 0 .. MaxOps |-> IF k = 0 THEN 0 ELSE g[k - 1] + size[k - 1]]
           at == Starts(size)
<1>1. at = CHOOSE g : Def(g)
  BY DEF Starts
<1>2. PICK g \in Sums(size, MaxOps) : TRUE
  BY SumsExist
<1>3. g \in [0 .. MaxOps -> Nat] /\ g[0] = 0 /\ \A k \in 1 .. MaxOps : g[k] = g[k - 1] + size[k - 1]
  BY DEF Sums
<1>4. Def(g)
  BY <1>3, MaxOpsAssumption
<1>5. Def(at)
  BY <1>1, <1>4
<1>6. at[0] = 0 /\ \A k \in Slot : at[k + 1] = at[k] + size[k] /\ g[k + 1] = g[k] + size[k]
  <2>1. \A k \in 0 .. MaxOps : at[k] = IF k = 0 THEN 0 ELSE at[k - 1] + size[k - 1]
    BY <1>5
  <2> HIDE DEF at
  <2>2. \A k \in Slot : k + 1 \in 1 .. MaxOps /\ k + 1 \in 0 .. MaxOps /\ (k + 1) - 1 = k /\ k + 1 # 0
    BY MaxOpsAssumption DEF Slot
  <2>3. 0 \in 0 .. MaxOps
    BY MaxOpsAssumption
  <2>4. at[0] = 0
    BY <2>1, <2>3
  <2> QED BY <1>3, <2>1, <2>2, <2>4
<1> DEFINE G == {n \in 0 .. MaxOps : at[n] = g[n]}
<1> HIDE DEF at
<1>7. 0 \in G
  BY <1>3, <1>6, MaxOpsAssumption
<1>8. \A k \in Slot : k \in G => k + 1 \in G
  BY <1>6, MaxOpsAssumption DEF Slot
<1>9. G \in SUBSET (0 .. MaxOps)
  OBVIOUS
<1> HIDE DEF G
<1>10. \A n \in 0 .. MaxOps : at[n] = g[n]
  <2>1. G = 0 .. MaxOps
    BY <1>7, <1>8, <1>9, AllPositions
  <2> QED BY <2>1 DEF G
<1>11. at \in [0 .. MaxOps -> Nat]
  <2>1. at = [k \in 0 .. MaxOps |-> at[k]]
    BY <1>5
  <2> QED BY <1>3, <1>10, <2>1
<1> QED BY <1>6, <1>11 DEF at

\* Later entries start later, or where those before them do.
LEMMA StartsGrow ==
  ASSUME NEW size \in [Slot -> Nat], NEW j \in 0 .. MaxOps
  PROVE  \A k \in 0 .. MaxOps : k >= j => Starts(size)[k] >= Starts(size)[j]
<1> DEFINE at == Starts(size)
           G == {k \in 0 .. MaxOps : k >= j => at[k] >= at[j]}
<1>1. at \in [0 .. MaxOps -> Nat] /\ \A k \in Slot : at[k + 1] = at[k] + size[k]
  BY StartsAre
<1> HIDE DEF at
<1>2. at[j] \in Nat /\ j \in Nat
  BY <1>1, MaxOpsAssumption
<1>3. 0 \in G
  BY <1>2, MaxOpsAssumption
<1>4. ASSUME NEW k \in Slot, k \in G PROVE k + 1 \in G
  <2>1. k \in Nat /\ k \in 0 .. MaxOps /\ k + 1 \in 0 .. MaxOps /\ size[k] \in Nat
    BY MaxOpsAssumption DEF Slot
  <2>2. at[k] \in Nat /\ at[k + 1] = at[k] + size[k]
    BY <1>1, <2>1
  <2>3. CASE k >= j
    BY <1>2, <1>4, <2>1, <2>2, <2>3
  <2>4. CASE ~(k >= j)
    <3>1. k + 1 >= j => k + 1 = j
      BY <1>2, <2>1, <2>4
    <3> QED BY <1>2, <2>1, <3>1
  <2> QED BY <2>3, <2>4
<1>5. G \in SUBSET (0 .. MaxOps)
  OBVIOUS
<1> HIDE DEF G
<1>6. G = 0 .. MaxOps
  BY <1>3, <1>4, <1>5, AllPositions
<1> QED BY <1>6 DEF G, at

\* Entries without bytes all start where the one before them ends.
LEMMA StartsStay ==
  ASSUME NEW size \in [Slot -> Nat], NEW n \in 0 .. MaxOps, \A i \in Slot : i >= n => size[i] = 0
  PROVE  \A k \in 0 .. MaxOps : k >= n => Starts(size)[k] = Starts(size)[n]
<1> DEFINE at == Starts(size)
           G == {k \in 0 .. MaxOps : k >= n => at[k] = at[n]}
<1>1. at \in [0 .. MaxOps -> Nat] /\ \A k \in Slot : at[k + 1] = at[k] + size[k]
  BY StartsAre
<1> HIDE DEF at
<1>2. at[n] \in Nat /\ n \in Nat
  BY <1>1, MaxOpsAssumption
<1>3. 0 \in G
  BY <1>2, MaxOpsAssumption
<1>4. ASSUME NEW k \in Slot, k \in G PROVE k + 1 \in G
  <2>1. k \in Nat /\ k \in 0 .. MaxOps /\ k + 1 \in 0 .. MaxOps
    BY MaxOpsAssumption DEF Slot
  <2>2. at[k] \in Nat /\ at[k + 1] = at[k] + size[k]
    BY <1>1, <2>1
  <2>3. CASE k >= n
    BY <1>2, <1>4, <2>1, <2>2, <2>3
  <2>4. CASE ~(k >= n)
    <3>1. k + 1 >= n => k + 1 = n
      BY <1>2, <2>1, <2>4
    <3> QED BY <2>1, <3>1
  <2> QED BY <2>3, <2>4
<1>5. G \in SUBSET (0 .. MaxOps)
  OBVIOUS
<1> HIDE DEF G
<1>6. G = 0 .. MaxOps
  BY <1>3, <1>4, <1>5, AllPositions
<1> QED BY <1>6 DEF G, at
===============================================================================
