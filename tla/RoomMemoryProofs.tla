--------------------------- MODULE RoomMemoryProofs ---------------------------
(***************************************************************************)
(* What RoomMemory claims of the counters and histories of the rooms, for  *)
(* any rooms, sizes, ceiling, budget and limits, and any number of         *)
(* messages.                                                               *)
(*                                                                         *)
(* The model sums over histories and rooms with the folds of the community *)
(* modules. A fold takes the elements of its set in an order of its own,   *)
(* so the first section shows that the order does not matter: a sum is     *)
(* that of any element and of the rest (SumTake). Each of its lemmas is an *)
(* induction over finite sets, done with MinimalSet: of the subsets for    *)
(* which the claim is false, one is such that the claim is true of it      *)
(* without any one of its elements.                                        *)
(*                                                                         *)
(* The invariant (Inv) says by how much a counter may lack what it counts. *)
(* A picture that fades gives back its MIME type, which the message keeps; *)
(* when the message goes, the room gives it back again, down to zero at    *)
(* most. So each room's counters lack at most the MIME types of the        *)
(* pictures it has faded (Charged), the tracker at most those of all       *)
(* rooms, and a room has faded or still shows no more pictures than were   *)
(* posted (RoomKept). That fading never takes more from attachment_bytes   *)
(* than there is, which the code subtracts without a floor, is             *)
(* EnoughFades.                                                            *)
(***************************************************************************)
EXTENDS RoomMemory, FiniteSetTheorems, SequenceTheorems,
        WellFoundedInduction, TLAPS

----------------------------------------------------------------------------
(* Sums *)

\* The element a fold takes first.
First(s) == CHOOSE x \in s : TRUE

\* What the recursive definition of a sum says of g.
Sums(g, f, S) ==
    g = [s \in SUBSET S |-> IF s = {} THEN 0 ELSE f[First(s)] + g[s \ {First(s)}]]

\* A fold takes an element of its set.
LEMMA FirstIs ==
  ASSUME NEW s, s # {}
  PROVE  First(s) \in s
  BY DEF First

\* A sum, without the fold.
LEMMA SumIs ==
  ASSUME NEW f, NEW S
  PROVE  SumFunctionOnSet(f, S) = (CHOOSE g : Sums(g, f, S))[S]
  BY DEF SumFunctionOnSet, FoldFunctionOnSet, MapThenFoldSet, Sums, First

\* Induction over finite sets: a collection of them has a member that leaves it
\* when it loses any of its elements.
LEMMA MinimalSet ==
  ASSUME NEW S, IsFiniteSet(S), NEW C \in SUBSET SUBSET S, C # {}
  PROVE  \E s \in C : \A x \in s : s \ {x} \notin C
<1> DEFINE N == {Cardinality(s) : s \in C}
<1>1. \A s \in SUBSET S : IsFiniteSet(s) /\ Cardinality(s) \in Nat
  BY FS_Subset, FS_CardinalityType
<1>2. N \in SUBSET Nat /\ N # {}
  BY <1>1
<1>3. PICK n \in N : \A m \in N : ~(<<m, n>> \in OpToRel(<, Nat))
  <2> HIDE DEF N
  <2> QED
    BY <1>2, NatLessThanWellFounded, WFMin
<1>4. \A m \in N : ~(m < n)
  BY <1>2, <1>3 DEF OpToRel
<1>5. PICK s \in C : Cardinality(s) = n
  OBVIOUS
<1>6. ASSUME NEW x \in s PROVE s \ {x} \notin C
  <2>1. Cardinality(s \ {x}) = Cardinality(s) - 1
    BY <1>1, FS_RemoveElement
  <2>2. Cardinality(s) \in Nat /\ Cardinality(s \ {x}) \in Nat
    BY <1>1
  <2>3. s \ {x} \in C => Cardinality(s \ {x}) \in N
    OBVIOUS
  <2> HIDE DEF N
  <2> QED
    BY <1>4, <1>5, <2>1, <2>2, <2>3
<1> QED
  BY <1>6

\* The equations of the recursive definition.
LEMMA SumsAre ==
  ASSUME NEW f, NEW S, NEW g, Sums(g, f, S)
  PROVE  /\ g[{}] = 0
         /\ \A s \in SUBSET S : s # {} => g[s] = f[First(s)] + g[s \ {First(s)}]
  BY DEF Sums

\* The second of them, with a name for the element.
LEMMA SumsStep ==
  ASSUME NEW f, NEW S, NEW g, Sums(g, f, S), NEW s \in SUBSET S, s # {}, NEW x, x = First(s)
  PROVE  g[s] = f[x] + g[s \ {x}]
<1>1. g[s] = f[First(s)] + g[s \ {First(s)}]
  BY SumsAre
<1> QED
  BY <1>1

\* Two functions that sum f agree where both do.
LEMMA SumsAgree ==
  ASSUME NEW f, NEW S, IsFiniteSet(S), NEW T \in SUBSET S,
         NEW g, Sums(g, f, S), NEW h, Sums(h, f, T)
  PROVE  \A s \in SUBSET T : g[s] = h[s]
<1> DEFINE C == {s \in SUBSET T : g[s] # h[s]}
<1> SUFFICES ASSUME C # {} PROVE FALSE
  OBVIOUS
<1>1. C \in SUBSET SUBSET S
  OBVIOUS
<1>2. PICK s \in C : \A x \in s : s \ {x} \notin C
  <2> HIDE DEF C
  <2> QED
    BY <1>1, MinimalSet
<1>3. s \in SUBSET T /\ s \in SUBSET S /\ g[s] # h[s]
  OBVIOUS
<1>4. s # {}
  BY <1>3, SumsAre
<1>5. PICK x : x = First(s)
  OBVIOUS
<1>6. x \in s
  BY <1>4, <1>5, FirstIs
<1>7. g[s \ {x}] = h[s \ {x}]
  BY <1>2, <1>6
<1>8. g[s] = f[x] + g[s \ {x}]
  BY <1>3, <1>4, <1>5, SumsStep
<1>9. h[s] = f[x] + h[s \ {x}]
  BY <1>3, <1>4, <1>5, SumsStep
<1> QED
  BY <1>3, <1>7, <1>8, <1>9

\* What sums f over the subsets of S sums it over those of a part of S.
LEMMA SumsWithin ==
  ASSUME NEW f, NEW S, NEW T \in SUBSET S, NEW g, Sums(g, f, S)
  PROVE  \E h : Sums(h, f, T) /\ h[T] = g[T]
<1> DEFINE h == [s \in SUBSET T |-> g[s]]
<1>1. \A s \in SUBSET T : s # {} => s \ {First(s)} \in SUBSET T
  OBVIOUS
<1>2. \A s \in SUBSET T : h[s] = IF s = {} THEN 0 ELSE f[First(s)] + h[s \ {First(s)}]
  <2> SUFFICES ASSUME NEW s \in SUBSET T, s # {}
               PROVE  h[s] = f[First(s)] + h[s \ {First(s)}]
    BY SumsAre
  <2>1. PICK x : x = First(s)
    OBVIOUS
  <2>2. g[s] = f[x] + g[s \ {x}]
    BY <2>1, SumsStep
  <2>3. h[s] = g[s] /\ h[s \ {x}] = g[s \ {x}]
    BY <1>1, <2>1
  <2> QED
    BY <2>1, <2>2, <2>3
<1>3. h = [s \in SUBSET T |-> IF s = {} THEN 0 ELSE f[First(s)] + h[s \ {First(s)}]]
  <2> DEFINE k == [s \in SUBSET T |-> IF s = {} THEN 0 ELSE f[First(s)] + h[s \ {First(s)}]]
  <2>1. \A s \in SUBSET T : h[s] = k[s]
    BY <1>2
  <2> QED
    BY <2>1
<1> QED
  BY <1>3 DEF Sums

\* The recursive definition has a solution: over a finite set, there is a sum.
LEMMA SumsExist ==
  ASSUME NEW f, NEW S, IsFiniteSet(S)
  PROVE  \E g : Sums(g, f, S)
<1> DEFINE C == {s \in SUBSET S : ~\E g : Sums(g, f, s)}
<1> SUFFICES ASSUME C # {} PROVE FALSE
  OBVIOUS
<1>1. PICK s \in C : \A x \in s : s \ {x} \notin C
  <2> HIDE DEF C
  <2>1. C \in SUBSET SUBSET S
    BY DEF C
  <2> QED
    BY <2>1, MinimalSet
<1>2. s \in SUBSET S /\ IsFiniteSet(s) /\ ~\E g : Sums(g, f, s)
  BY FS_Subset
<1> DEFINE G == [t \in SUBSET s |->
                    IF t = {} THEN 0
                    ELSE f[First(t)] + SumFunctionOnSet(f, t \ {First(t)})]
<1>3. ASSUME NEW u \in SUBSET s, u # s PROVE G[u] = SumFunctionOnSet(f, u)
  <2>1. PICK x \in s : x \notin u
    BY <1>3
  <2>2. PICK g : Sums(g, f, s \ {x})
    BY <1>1, <1>2
  <2>3. PICK h : Sums(h, f, u)
    BY <2>1, <2>2, SumsWithin
  <2>4. PICK k : k = CHOOSE z : Sums(z, f, u)
    OBVIOUS
  <2>5. Sums(k, f, u) /\ SumFunctionOnSet(f, u) = k[u]
    BY <2>3, <2>4, SumIs
  <2>6. CASE u = {}
    BY <2>5, <2>6, SumsAre
  <2>7. CASE u # {}
    <3>1. PICK y : y = First(u)
      OBVIOUS
    <3>2. k[u] = f[y] + k[u \ {y}]
      BY <2>5, <2>7, <3>1, SumsStep
    <3>3. PICK l : Sums(l, f, u \ {y}) /\ l[u \ {y}] = k[u \ {y}]
      BY <2>5, SumsWithin
    <3>4. PICK m : m = CHOOSE z : Sums(z, f, u \ {y})
      OBVIOUS
    <3>5. Sums(m, f, u \ {y}) /\ SumFunctionOnSet(f, u \ {y}) = m[u \ {y}]
      BY <3>3, <3>4, SumIs
    <3>6. m[u \ {y}] = k[u \ {y}]
      <4>1. PICK v : v = u \ {y}
        OBVIOUS
      <4>2. IsFiniteSet(u) /\ v \in SUBSET u /\ v \in SUBSET v
        BY <1>2, <4>1, FS_Subset
      <4>3. Sums(m, f, v)
        BY <3>5, <4>1
      <4>4. \A w \in SUBSET v : k[w] = m[w]
        BY <2>5, <4>2, <4>3, SumsAgree
      <4> QED
        BY <4>1, <4>2, <4>4
    <3> QED
      BY <2>5, <2>7, <3>1, <3>2, <3>5, <3>6
  <2> QED
    BY <2>6, <2>7
<1>4. \A t \in SUBSET s : G[t] = IF t = {} THEN 0 ELSE f[First(t)] + G[t \ {First(t)}]
  <2> SUFFICES ASSUME NEW t \in SUBSET s, t # {}
               PROVE  G[t] = f[First(t)] + G[t \ {First(t)}]
    OBVIOUS
  <2>1. t \ {First(t)} \in SUBSET s /\ t \ {First(t)} # s
    BY FirstIs
  <2>2. G[t \ {First(t)}] = SumFunctionOnSet(f, t \ {First(t)})
    BY <1>3, <2>1
  <2> QED
    BY <2>2
<1>5. G = [t \in SUBSET s |-> IF t = {} THEN 0 ELSE f[First(t)] + G[t \ {First(t)}]]
  <2> DEFINE k == [t \in SUBSET s |-> IF t = {} THEN 0 ELSE f[First(t)] + G[t \ {First(t)}]]
  <2>1. \A t \in SUBSET s : G[t] = k[t]
    BY <1>4
  <2> QED
    BY <2>1
<1> QED
  BY <1>2, <1>5 DEF Sums

\* A sum over nothing, and one over more.
LEMMA SumEmpty ==
  ASSUME NEW f
  PROVE  SumFunctionOnSet(f, {}) = 0
<1>1. PICK g : g = CHOOSE z : Sums(z, f, {})
  OBVIOUS
<1>2. Sums(g, f, {})
  BY <1>1, SumsExist, FS_EmptySet
<1> QED
  BY <1>1, <1>2, SumIs, SumsAre

\* A sum is the first element's value and the sum of the rest.
LEMMA SumFirst ==
  ASSUME NEW f, NEW S, IsFiniteSet(S), S # {}
  PROVE  SumFunctionOnSet(f, S) = f[First(S)] + SumFunctionOnSet(f, S \ {First(S)})
<1>1. PICK x : x = First(S)
  OBVIOUS
<1>2. PICK g : g = CHOOSE z : Sums(z, f, S)
  OBVIOUS
<1>3. PICK h : h = CHOOSE z : Sums(z, f, S \ {x})
  OBVIOUS
<1>4. Sums(g, f, S) /\ SumFunctionOnSet(f, S) = g[S]
  BY <1>2, SumsExist, SumIs
<1>5. Sums(h, f, S \ {x}) /\ SumFunctionOnSet(f, S \ {x}) = h[S \ {x}]
  BY <1>3, SumsExist, SumIs, FS_Subset
<1>6. g[S \ {x}] = h[S \ {x}]
  BY <1>4, <1>5, SumsAgree
<1>7. g[S] = f[x] + g[S \ {x}]
  BY <1>1, <1>4, SumsStep
<1> QED
  BY <1>1, <1>4, <1>5, <1>6, <1>7

\* Integers have an integer sum.
LEMMA SumInt ==
  ASSUME NEW f, NEW S, IsFiniteSet(S), \A x \in S : f[x] \in Int
  PROVE  SumFunctionOnSet(f, S) \in Int
<1> DEFINE C == {s \in SUBSET S : SumFunctionOnSet(f, s) \notin Int}
<1> SUFFICES ASSUME C # {} PROVE FALSE
  OBVIOUS
<1>1. PICK s \in C : \A x \in s : s \ {x} \notin C
  <2> HIDE DEF C
  <2>1. C \in SUBSET SUBSET S
    BY DEF C
  <2> QED
    BY <2>1, MinimalSet
<1>2. s \in SUBSET S /\ SumFunctionOnSet(f, s) \notin Int /\ IsFiniteSet(s)
  BY FS_Subset
<1>3. s # {}
  BY <1>2, SumEmpty
<1>4. PICK x : x = First(s)
  OBVIOUS
<1>5. x \in s /\ SumFunctionOnSet(f, s) = f[x] + SumFunctionOnSet(f, s \ {x})
  BY <1>2, <1>3, <1>4, FirstIs, SumFirst
<1>6. SumFunctionOnSet(f, s \ {x}) \in Int
  BY <1>1, <1>2, <1>5
<1> QED
  BY <1>2, <1>5, <1>6

\* A sum is any element's value and the sum of the rest.
LEMMA SumTake ==
  ASSUME NEW f, NEW S, IsFiniteSet(S), \A x \in S : f[x] \in Int, NEW z \in S
  PROVE  SumFunctionOnSet(f, S) = f[z] + SumFunctionOnSet(f, S \ {z})
<1> DEFINE C == {s \in SUBSET S : \E y \in s :
                    SumFunctionOnSet(f, s) # f[y] + SumFunctionOnSet(f, s \ {y})}
<1> SUFFICES ASSUME C # {} PROVE FALSE
  OBVIOUS
<1>1. PICK s \in C : \A x \in s : s \ {x} \notin C
  <2> HIDE DEF C
  <2>1. C \in SUBSET SUBSET S
    BY DEF C
  <2> QED
    BY <2>1, MinimalSet
<1>2. PICK y \in s : SumFunctionOnSet(f, s) # f[y] + SumFunctionOnSet(f, s \ {y})
  OBVIOUS
<1>3. s \in SUBSET S /\ IsFiniteSet(s)
  BY FS_Subset
<1>4. PICK x : x = First(s)
  OBVIOUS
<1>5. x \in s /\ SumFunctionOnSet(f, s) = f[x] + SumFunctionOnSet(f, s \ {x})
  BY <1>2, <1>3, <1>4, FirstIs, SumFirst
<1>6. x # y /\ x \in s \ {y} /\ y \in s \ {x}
  BY <1>2, <1>5
<1>7. SumFunctionOnSet(f, s \ {x}) = f[y] + SumFunctionOnSet(f, (s \ {x}) \ {y})
  BY <1>1, <1>3, <1>5, <1>6
<1>8. SumFunctionOnSet(f, s \ {y}) = f[x] + SumFunctionOnSet(f, (s \ {y}) \ {x})
  BY <1>1, <1>3, <1>5, <1>6
<1>9. (s \ {x}) \ {y} = (s \ {y}) \ {x}
  OBVIOUS
<1>10. PICK n : n = SumFunctionOnSet(f, (s \ {y}) \ {x})
  OBVIOUS
<1>11. n \in Int /\ f[x] \in Int /\ f[y] \in Int
  <2>1. IsFiniteSet((s \ {y}) \ {x})
    BY <1>3, FS_Subset
  <2> QED
    BY <1>3, <1>5, <1>10, <2>1, SumInt
<1>12. SumFunctionOnSet(f, s) = f[x] + (f[y] + n)
  BY <1>5, <1>7, <1>9, <1>10
<1>13. SumFunctionOnSet(f, s \ {y}) = f[x] + n
  BY <1>8, <1>10
<1> QED
  BY <1>2, <1>11, <1>12, <1>13

\* Naturals have a natural sum.
LEMMA SumNat ==
  ASSUME NEW f, NEW S, IsFiniteSet(S), \A x \in S : f[x] \in Nat
  PROVE  SumFunctionOnSet(f, S) \in Nat
<1> DEFINE C == {s \in SUBSET S : SumFunctionOnSet(f, s) \notin Nat}
<1> SUFFICES ASSUME C # {} PROVE FALSE
  OBVIOUS
<1>1. PICK s \in C : \A x \in s : s \ {x} \notin C
  <2> HIDE DEF C
  <2>1. C \in SUBSET SUBSET S
    BY DEF C
  <2> QED
    BY <2>1, MinimalSet
<1>2. s \in SUBSET S /\ SumFunctionOnSet(f, s) \notin Nat /\ IsFiniteSet(s)
  BY FS_Subset
<1>3. PICK x \in s : TRUE
  BY <1>2, SumEmpty
<1>4. SumFunctionOnSet(f, s) = f[x] + SumFunctionOnSet(f, s \ {x})
  BY <1>2, <1>3, SumTake
<1>5. SumFunctionOnSet(f, s \ {x}) \in Nat
  BY <1>1, <1>2, <1>3
<1> QED
  BY <1>2, <1>3, <1>4, <1>5

\* Sums over disjoint sets.
LEMMA SumUnion ==
  ASSUME NEW f, NEW S, IsFiniteSet(S), \A x \in S : f[x] \in Int, NEW A \in SUBSET S
  PROVE  SumFunctionOnSet(f, S) = SumFunctionOnSet(f, A) + SumFunctionOnSet(f, S \ A)
<1> DEFINE C == {a \in SUBSET S : SumFunctionOnSet(f, S)
                                  # SumFunctionOnSet(f, a) + SumFunctionOnSet(f, S \ a)}
<1> SUFFICES ASSUME C # {} PROVE FALSE
  OBVIOUS
<1>1. PICK a \in C : \A x \in a : a \ {x} \notin C
  <2> HIDE DEF C
  <2>1. C \in SUBSET SUBSET S
    BY DEF C
  <2> QED
    BY <2>1, MinimalSet
<1>2. /\ a \in SUBSET S /\ IsFiniteSet(a)
      /\ SumFunctionOnSet(f, S) # SumFunctionOnSet(f, a) + SumFunctionOnSet(f, S \ a)
  BY FS_Subset
<1>3. SumFunctionOnSet(f, S) \in Int
  BY SumInt
<1>4. a # {}
  <2>1. ASSUME a = {} PROVE FALSE
    <3>1. S \ a = S
      BY <2>1
    <3> QED
      BY <1>2, <1>3, <2>1, <3>1, SumEmpty
  <2> QED
    BY <2>1
<1>5. PICK x \in a : TRUE
  BY <1>4
<1>6. /\ IsFiniteSet(a \ {x}) /\ IsFiniteSet(S \ a) /\ IsFiniteSet(S \ (a \ {x}))
      /\ x \in S \ (a \ {x}) /\ (S \ (a \ {x})) \ {x} = S \ a
  BY <1>2, <1>5, FS_Subset
<1>7. SumFunctionOnSet(f, a) = f[x] + SumFunctionOnSet(f, a \ {x})
  BY <1>2, <1>5, SumTake
<1>8. SumFunctionOnSet(f, S \ (a \ {x})) = f[x] + SumFunctionOnSet(f, S \ a)
  <2>1. PICK T : T = S \ (a \ {x})
    OBVIOUS
  <2>2. SumFunctionOnSet(f, T) = f[x] + SumFunctionOnSet(f, T \ {x})
    BY <1>6, <2>1, SumTake
  <2> QED
    BY <1>6, <2>1, <2>2
<1>9. SumFunctionOnSet(f, S) = SumFunctionOnSet(f, a \ {x})
                               + SumFunctionOnSet(f, S \ (a \ {x}))
  BY <1>1, <1>2, <1>5
<1>10. /\ SumFunctionOnSet(f, a \ {x}) \in Int /\ SumFunctionOnSet(f, S \ a) \in Int
       /\ f[x] \in Int
  BY <1>2, <1>5, <1>6, SumInt
<1> QED
  BY <1>2, <1>7, <1>8, <1>9, <1>10

\* Sums of a sum, and a smaller sum.
LEMMA SumPlus ==
  ASSUME NEW f, NEW g, NEW h, NEW S, IsFiniteSet(S),
         \A x \in S : g[x] \in Int /\ h[x] \in Int /\ f[x] = g[x] + h[x]
  PROVE  SumFunctionOnSet(f, S) = SumFunctionOnSet(g, S) + SumFunctionOnSet(h, S)
<1> DEFINE C == {s \in SUBSET S : SumFunctionOnSet(f, s)
                                  # SumFunctionOnSet(g, s) + SumFunctionOnSet(h, s)}
<1> SUFFICES ASSUME C # {} PROVE FALSE
  OBVIOUS
<1>1. PICK s \in C : \A x \in s : s \ {x} \notin C
  <2> HIDE DEF C
  <2>1. C \in SUBSET SUBSET S
    BY DEF C
  <2> QED
    BY <2>1, MinimalSet
<1>2. /\ s \in SUBSET S /\ IsFiniteSet(s)
      /\ SumFunctionOnSet(f, s) # SumFunctionOnSet(g, s) + SumFunctionOnSet(h, s)
  BY FS_Subset
<1>3. s # {}
  <2> SUFFICES ASSUME s = {} PROVE FALSE
    OBVIOUS
  <2>1. SumFunctionOnSet(f, s) = 0
    BY SumEmpty
  <2>2. SumFunctionOnSet(g, s) = 0
    BY SumEmpty
  <2>3. SumFunctionOnSet(h, s) = 0
    BY SumEmpty
  <2> QED
    BY <1>2, <2>1, <2>2, <2>3
<1>4. PICK x \in s : TRUE
  BY <1>3
<1>5. \A y \in S : f[y] \in Int /\ g[y] \in Int /\ h[y] \in Int
  OBVIOUS
<1>6. SumFunctionOnSet(f, s) = f[x] + SumFunctionOnSet(f, s \ {x})
  BY <1>2, <1>4, <1>5, SumTake
<1>7. SumFunctionOnSet(g, s) = g[x] + SumFunctionOnSet(g, s \ {x})
  BY <1>2, <1>4, <1>5, SumTake
<1>8. SumFunctionOnSet(h, s) = h[x] + SumFunctionOnSet(h, s \ {x})
  BY <1>2, <1>4, <1>5, SumTake
<1>9. SumFunctionOnSet(f, s \ {x}) = SumFunctionOnSet(g, s \ {x})
                                     + SumFunctionOnSet(h, s \ {x})
  BY <1>1, <1>2, <1>4
<1>10. SumFunctionOnSet(g, s \ {x}) \in Int /\ SumFunctionOnSet(h, s \ {x}) \in Int
  <2>1. IsFiniteSet(s \ {x}) /\ s \ {x} \in SUBSET S
    BY <1>2, FS_Subset
  <2>2. SumFunctionOnSet(g, s \ {x}) \in Int
    BY <2>1, <1>5, SumInt
  <2>3. SumFunctionOnSet(h, s \ {x}) \in Int
    BY <2>1, <1>5, SumInt
  <2> QED
    BY <2>2, <2>3
<1>11. x \in S /\ f[x] = g[x] + h[x] /\ g[x] \in Int /\ h[x] \in Int
  BY <1>2, <1>4
<1> QED
  BY <1>2, <1>6, <1>7, <1>8, <1>9, <1>10, <1>11

\* Zeros add up to zero.
LEMMA SumZero ==
  ASSUME NEW f, NEW S, IsFiniteSet(S), \A x \in S : f[x] = 0
  PROVE  SumFunctionOnSet(f, S) = 0
<1>1. \A x \in S : f[x] \in Int /\ f[x] = f[x] + f[x]
  OBVIOUS
<1>2. PICK n : n = SumFunctionOnSet(f, S)
  OBVIOUS
<1>3. n \in Int
  BY <1>1, <1>2, SumInt
<1>4. n = n + n
  BY <1>1, <1>2, SumPlus
<1>5. n = 0
  <2>1. \A k \in Int : k = k + k => k = 0
    OBVIOUS
  <2> QED
    BY <1>3, <1>4, <2>1
<1> QED
  BY <1>2, <1>5

\* Functions that agree on a set have the same sum over it.
LEMMA SumSame ==
  ASSUME NEW f, NEW g, NEW S, IsFiniteSet(S), \A x \in S : f[x] \in Int /\ g[x] = f[x]
  PROVE  SumFunctionOnSet(g, S) = SumFunctionOnSet(f, S)
<1> DEFINE z == [x \in S |-> 0]
<1>1. \A x \in S : f[x] \in Int /\ z[x] \in Int /\ g[x] = f[x] + z[x]
  OBVIOUS
<1>2. SumFunctionOnSet(z, S) = 0
  BY SumZero
<1>3. SumFunctionOnSet(f, S) \in Int
  BY SumInt
<1> HIDE DEF z
<1>4. SumFunctionOnSet(g, S) = SumFunctionOnSet(f, S) + SumFunctionOnSet(z, S)
  BY <1>1, SumPlus
<1> QED
  BY <1>2, <1>3, <1>4

\* A sum of the same things under other names.
LEMMA SumRenamed ==
  ASSUME NEW f, NEW S, IsFiniteSet(S), NEW g, NEW T, IsFiniteSet(T), NEW b \in [S -> T],
         \A x, y \in S : b[x] = b[y] => x = y, \A t \in T : \E x \in S : b[x] = t,
         \A x \in S : f[x] \in Int /\ g[b[x]] = f[x]
  PROVE  SumFunctionOnSet(g, T) = SumFunctionOnSet(f, S)
<1> DEFINE Im(s) == {b[x] : x \in s}
           C == {s \in SUBSET S : SumFunctionOnSet(g, Im(s)) # SumFunctionOnSet(f, s)}
<1>0. Im(S) = T
  OBVIOUS
<1> SUFFICES ASSUME C # {} PROVE FALSE
  BY <1>0
<1>1. PICK s \in C : \A x \in s : s \ {x} \notin C
  <2> HIDE DEF C
  <2>1. C \in SUBSET SUBSET S
    BY DEF C
  <2> QED
    BY <2>1, MinimalSet
<1>2. /\ s \in SUBSET S /\ IsFiniteSet(s) /\ Im(s) \in SUBSET T /\ IsFiniteSet(Im(s))
      /\ SumFunctionOnSet(g, Im(s)) # SumFunctionOnSet(f, s)
  BY FS_Subset
<1>3. s # {}
  <2> SUFFICES ASSUME s = {} PROVE FALSE
    OBVIOUS
  <2>1. Im(s) = {}
    OBVIOUS
  <2> QED
    BY <1>2, <2>1, SumEmpty
<1>4. PICK x \in s : TRUE
  BY <1>3
<1>5. b[x] \in Im(s) /\ Im(s) \ {b[x]} = Im(s \ {x}) /\ g[b[x]] = f[x]
  BY <1>2, <1>4
<1>6. \A t \in Im(s) : g[t] \in Int
  BY <1>2
<1>7. SumFunctionOnSet(g, Im(s)) = g[b[x]] + SumFunctionOnSet(g, Im(s) \ {b[x]})
  <2> HIDE DEF Im
  <2> QED
    BY <1>2, <1>5, <1>6, SumTake
<1>8. SumFunctionOnSet(f, s) = f[x] + SumFunctionOnSet(f, s \ {x})
  BY <1>2, <1>4, SumTake
<1>9. SumFunctionOnSet(g, Im(s \ {x})) = SumFunctionOnSet(f, s \ {x})
  BY <1>1, <1>2, <1>4
<1> HIDE DEF Im
<1> QED
  BY <1>2, <1>5, <1>7, <1>8, <1>9

\* Only x counts for something else in g.
LEMMA SumChange ==
  ASSUME NEW f, NEW g, NEW S, IsFiniteSet(S), \A y \in S : f[y] \in Int, NEW x \in S,
         g[x] \in Int, \A y \in S \ {x} : g[y] = f[y]
  PROVE  SumFunctionOnSet(g, S) = SumFunctionOnSet(f, S) + (g[x] - f[x])
<1>1. \A y \in S : g[y] \in Int
  OBVIOUS
<1>2. SumFunctionOnSet(f, S) = f[x] + SumFunctionOnSet(f, S \ {x})
  BY SumTake
<1>3. SumFunctionOnSet(g, S) = g[x] + SumFunctionOnSet(g, S \ {x})
  BY <1>1, SumTake
<1>4. IsFiniteSet(S \ {x})
  BY FS_Subset
<1>5. SumFunctionOnSet(g, S \ {x}) = SumFunctionOnSet(f, S \ {x})
  BY <1>4, SumSame
<1>6. SumFunctionOnSet(f, S \ {x}) \in Int /\ f[x] \in Int
  BY <1>4, SumInt
<1> QED
  BY <1>2, <1>3, <1>5, <1>6

\* Each counts for c.
LEMMA SumConst ==
  ASSUME NEW f, NEW S, IsFiniteSet(S), NEW c \in Nat, \A x \in S : f[x] = c
  PROVE  SumFunctionOnSet(f, S) = c * Cardinality(S)
<1> DEFINE C == {s \in SUBSET S : SumFunctionOnSet(f, s) # c * Cardinality(s)}
<1> SUFFICES ASSUME C # {} PROVE FALSE
  OBVIOUS
<1>1. PICK s \in C : \A x \in s : s \ {x} \notin C
  <2> HIDE DEF C
  <2>1. C \in SUBSET SUBSET S
    BY DEF C
  <2> QED
    BY <2>1, MinimalSet
<1>2. s \in SUBSET S /\ IsFiniteSet(s) /\ SumFunctionOnSet(f, s) # c * Cardinality(s)
  BY FS_Subset
<1>3. s # {}
  <2> SUFFICES ASSUME s = {} PROVE FALSE
    OBVIOUS
  <2>1. SumFunctionOnSet(f, s) = 0 /\ Cardinality(s) = 0
    BY SumEmpty, FS_EmptySet
  <2> QED
    BY <1>2, <2>1
<1>4. PICK x \in s : TRUE
  BY <1>3
<1>5. SumFunctionOnSet(f, s) = f[x] + SumFunctionOnSet(f, s \ {x})
  BY <1>2, <1>4, SumTake
<1>6. PICK n : n = Cardinality(s \ {x})
  OBVIOUS
<1>7. Cardinality(s) = n + 1 /\ n \in Nat
  <2>1. n = Cardinality(s) - 1
    BY <1>2, <1>4, <1>6, FS_RemoveElement
  <2>2. IsFiniteSet(s \ {x})
    BY <1>2, FS_Subset
  <2>3. Cardinality(s) \in Nat /\ n \in Nat
    BY <1>2, <1>6, <2>2, FS_CardinalityType
  <2> QED
    BY <2>1, <2>3
<1>8. SumFunctionOnSet(f, s \ {x}) = c * n
  BY <1>1, <1>2, <1>4, <1>6
<1>9. c * (n + 1) = c + c * n
  BY <1>7
<1> QED
  BY <1>2, <1>4, <1>5, <1>7, <1>8, <1>9

----------------------------------------------------------------------------
(* Sums over a history *)

Messages == {m \in [id : Nat \ {0}, kind : {"none", "shown", "faded"},
                    data : DataSizes \cup {0}] :
             IF m.kind = "shown" THEN m.data \in DataSizes ELSE m.data = 0}

\* What a history's messages weigh, by W.
Weigh(W, history) == SumFunctionOnSet([i \in DOMAIN history |-> W[history[i]]],
                                      DOMAIN history)

Weights == [Messages -> Nat]

\* The positions of a sequence and what stands there.
LEMMA DomainIs ==
  ASSUME NEW T, NEW h \in Seq(T)
  PROVE  /\ DOMAIN h = 1 .. Len(h) /\ Len(h) \in Nat /\ IsFiniteSet(DOMAIN h)
         /\ \A i \in DOMAIN h : h[i] \in T
  BY FS_Interval

\* The parts of a sequence before and after its first n.
LEMMA PartsAre ==
  ASSUME NEW T, NEW h \in Seq(T), NEW n \in 0 .. Len(h)
  PROVE  /\ SubSeq(h, 1, n) \in Seq(T) /\ Len(SubSeq(h, 1, n)) = n
         /\ \A i \in 1 .. n : SubSeq(h, 1, n)[i] = h[i]
         /\ SubSeq(h, n + 1, Len(h)) \in Seq(T)
         /\ Len(SubSeq(h, n + 1, Len(h))) = Len(h) - n
         /\ \A i \in 1 .. Len(h) - n : SubSeq(h, n + 1, Len(h))[i] = h[i + n]
<1>1. Len(h) \in Nat /\ n \in Int /\ n + 1 \in Int /\ 1 \in Int /\ Len(h) \in Int
  BY LenProperties
<1>2. /\ \A i \in 1 .. n : h[i] \in T
      /\ \A i \in n + 1 .. Len(h) : h[i] \in T
  <2>1. \A i \in 1 .. Len(h) : h[i] \in T
    BY ElementOfSeq
  <2> QED
    BY <1>1, <2>1
<1>3. PICK a : a = SubSeq(h, 1, n)
  OBVIOUS
<1>4. PICK b : b = SubSeq(h, n + 1, Len(h))
  OBVIOUS
<1>5. /\ a \in Seq(T) /\ Len(a) = IF 1 <= n THEN n - 1 + 1 ELSE 0
      /\ \A i \in 1 .. n - 1 + 1 : a[i] = h[1 + i - 1]
  BY <1>1, <1>2, <1>3, SubSeqProperties
<1>6. /\ b \in Seq(T) /\ Len(b) = IF n + 1 <= Len(h) THEN Len(h) - (n + 1) + 1 ELSE 0
      /\ \A i \in 1 .. Len(h) - (n + 1) + 1 : b[i] = h[(n + 1) + i - 1]
  BY <1>1, <1>2, <1>4, SubSeqProperties
<1>7. Len(a) = n /\ Len(b) = Len(h) - n
  BY <1>1, <1>5, <1>6
<1>8. \A i \in 1 .. n : a[i] = h[i]
  <2> SUFFICES ASSUME NEW i \in 1 .. n PROVE a[i] = h[i]
    OBVIOUS
  <2>1. i \in 1 .. n - 1 + 1 /\ 1 + i - 1 = i
    BY <1>1
  <2> QED
    BY <1>5, <2>1
<1>9. \A i \in 1 .. Len(h) - n : b[i] = h[i + n]
  <2> SUFFICES ASSUME NEW i \in 1 .. Len(h) - n PROVE b[i] = h[i + n]
    OBVIOUS
  <2>1. i \in 1 .. Len(h) - (n + 1) + 1 /\ (n + 1) + i - 1 = i + n
    BY <1>1
  <2> QED
    BY <1>6, <2>1
<1> QED
  BY <1>3, <1>4, <1>5, <1>6, <1>7, <1>8, <1>9

\* A history weighs a natural number.
LEMMA WeighNat ==
  ASSUME NEW W \in Weights, NEW h \in Seq(Messages)
  PROVE  Weigh(W, h) \in Nat
<1> DEFINE f == [i \in DOMAIN h |-> W[h[i]]]
<1>1. IsFiniteSet(DOMAIN h) /\ \A i \in DOMAIN h : f[i] \in Nat
  BY DomainIs DEF Weights
<1> HIDE DEF f
<1>2. SumFunctionOnSet(f, DOMAIN h) \in Nat
  BY <1>1, SumNat
<1> QED
  BY <1>2 DEF Weigh, f

\* An empty history weighs nothing.
LEMMA WeighNothing ==
  ASSUME NEW W
  PROVE  Weigh(W, <<>>) = 0
<1>1. DOMAIN <<>> = {}
  OBVIOUS
<1> QED
  BY <1>1, SumEmpty DEF Weigh

\* A history weighs what its two parts weigh.
LEMMA WeighSplit ==
  ASSUME NEW W \in Weights, NEW h \in Seq(Messages), NEW n \in 0 .. Len(h)
  PROVE  Weigh(W, h) = Weigh(W, SubSeq(h, 1, n)) + Weigh(W, SubSeq(h, n + 1, Len(h)))
<1> DEFINE f == [i \in DOMAIN h |-> W[h[i]]]
<1>1. PICK a, b : a = SubSeq(h, 1, n) /\ b = SubSeq(h, n + 1, Len(h))
  OBVIOUS
<1>2. /\ DOMAIN h = 1 .. Len(h) /\ Len(h) \in Nat /\ IsFiniteSet(DOMAIN h)
      /\ \A i \in DOMAIN h : h[i] \in Messages
  BY DomainIs
<1>3. /\ a \in Seq(Messages) /\ Len(a) = n /\ DOMAIN a = 1 .. n
      /\ \A i \in 1 .. n : a[i] = h[i]
  BY <1>1, <1>2, PartsAre, LenProperties
<1>4. /\ b \in Seq(Messages) /\ Len(b) = Len(h) - n /\ DOMAIN b = 1 .. Len(h) - n
      /\ \A i \in 1 .. Len(h) - n : b[i] = h[i + n]
  <2>1. /\ b \in Seq(Messages) /\ Len(b) = Len(h) - n
        /\ \A i \in 1 .. Len(h) - n : b[i] = h[i + n]
    BY <1>1, PartsAre
  <2> QED
    BY <2>1, LenProperties
<1> DEFINE fa == [i \in DOMAIN a |-> W[a[i]]]
           fb == [i \in DOMAIN b |-> W[b[i]]]
           up == [i \in 1 .. Len(h) - n |-> i + n]
<1>5. \A i \in DOMAIN h : f[i] \in Nat
  BY <1>2 DEF Weights
<1>6. \A i \in 1 .. n : i \in DOMAIN h /\ fa[i] = f[i] /\ f[i] \in Int
  BY <1>2, <1>3, <1>5
<1>7. \A i \in 1 .. Len(h) - n : i + n \in DOMAIN h /\ fb[i] = f[i + n] /\ f[i + n] \in Int
  <2>1. \A i \in 1 .. Len(h) - n : i + n \in DOMAIN h
    BY <1>2
  <2> SUFFICES ASSUME NEW i \in 1 .. Len(h) - n
               PROVE  fb[i] = f[i + n] /\ f[i + n] \in Int
    BY <2>1
  <2>2. PICK j : j = i + n
    OBVIOUS
  <2>3. j \in DOMAIN h /\ b[i] = h[j]
    BY <1>4, <2>1, <2>2
  <2>4. i \in DOMAIN b
    BY <1>4
  <2>5. fb[i] = f[j] /\ f[j] \in Int
    BY <1>5, <2>3, <2>4
  <2> QED
    BY <2>2, <2>5
<1>8. DOMAIN h \ (1 .. n) = n + 1 .. Len(h) /\ 1 .. n \in SUBSET DOMAIN h
  BY <1>2
<1>9. /\ IsFiniteSet(1 .. n) /\ IsFiniteSet(n + 1 .. Len(h)) /\ IsFiniteSet(1 .. Len(h) - n)
  BY <1>2, FS_Interval
<1>10. /\ up \in [1 .. Len(h) - n -> n + 1 .. Len(h)]
       /\ \A i, j \in 1 .. Len(h) - n : up[i] = up[j] => i = j
       /\ \A k \in n + 1 .. Len(h) : \E i \in 1 .. Len(h) - n : up[i] = k
  <2>1. \A i \in 1 .. Len(h) - n : i + n \in n + 1 .. Len(h)
    BY <1>2
  <2>2. \A i, j \in 1 .. Len(h) - n : i + n = j + n => i = j
    BY <1>2
  <2>3. \A k \in n + 1 .. Len(h) : k - n \in 1 .. Len(h) - n /\ (k - n) + n = k
    BY <1>2
  <2> QED
    BY <2>1, <2>2, <2>3
<1>11. \A i \in 1 .. Len(h) - n : fb[i] \in Int /\ f[up[i]] = fb[i]
  BY <1>7
<1> HIDE DEF f, fa, fb, up
<1>12. SumFunctionOnSet(f, DOMAIN h)
       = SumFunctionOnSet(f, 1 .. n) + SumFunctionOnSet(f, DOMAIN h \ (1 .. n))
  BY <1>2, <1>5, <1>8, SumUnion
<1>13. SumFunctionOnSet(fa, 1 .. n) = SumFunctionOnSet(f, 1 .. n)
  BY <1>6, <1>9, SumSame
<1>14. SumFunctionOnSet(f, n + 1 .. Len(h)) = SumFunctionOnSet(fb, 1 .. Len(h) - n)
  <2>1. PICK S, T : S = 1 .. Len(h) - n /\ T = n + 1 .. Len(h)
    OBVIOUS
  <2>2. IsFiniteSet(S) /\ IsFiniteSet(T) /\ up \in [S -> T]
    BY <1>9, <1>10, <2>1
  <2>3. /\ \A i, j \in S : up[i] = up[j] => i = j
        /\ \A k \in T : \E i \in S : up[i] = k
        /\ \A i \in S : fb[i] \in Int /\ f[up[i]] = fb[i]
    BY <1>10, <1>11, <2>1
  <2>4. SumFunctionOnSet(f, T) = SumFunctionOnSet(fb, S)
    BY <2>2, <2>3, SumRenamed
  <2> QED
    BY <2>1, <2>4
<1>15. Weigh(W, h) = SumFunctionOnSet(f, DOMAIN h)
  BY DEF Weigh, f
<1>16. Weigh(W, a) = SumFunctionOnSet(fa, DOMAIN a)
  BY DEF Weigh, fa
<1>17. Weigh(W, b) = SumFunctionOnSet(fb, DOMAIN b)
  BY DEF Weigh, fb
<1> QED
  BY <1>1, <1>3, <1>4, <1>8, <1>12, <1>13, <1>14, <1>15, <1>16, <1>17

\* A message adds its weight.
LEMMA WeighAppend ==
  ASSUME NEW W \in Weights, NEW h \in Seq(Messages), NEW m \in Messages
  PROVE  Weigh(W, Append(h, m)) = Weigh(W, h) + W[m]
<1>1. PICK g : g = Append(h, m)
  OBVIOUS
<1>2. PICK n : n = Len(h)
  OBVIOUS
<1>3. /\ g \in Seq(Messages) /\ Len(g) = n + 1 /\ n \in Nat /\ g[n + 1] = m
      /\ DOMAIN g = 1 .. n + 1 /\ DOMAIN h = 1 .. n
      /\ \A i \in 1 .. n : g[i] = h[i] /\ h[i] \in Messages
  BY <1>1, <1>2
<1> DEFINE f == [i \in DOMAIN g |-> W[g[i]]]
           k == [i \in DOMAIN h |-> W[h[i]]]
<1>4. /\ \A i \in 1 .. n + 1 : f[i] \in Int
      /\ \A i \in 1 .. n : f[i] = k[i] /\ k[i] \in Int
      /\ f[n + 1] = W[m]
  <2>1. \A i \in 1 .. n + 1 : g[i] \in Messages
    BY <1>3
  <2>2. \A i \in 1 .. n : i \in 1 .. n + 1
    BY <1>3
  <2>3. n + 1 \in 1 .. n + 1
    BY <1>3
  <2> QED
    BY <1>3, <2>1, <2>2, <2>3 DEF Weights
<1>5. /\ IsFiniteSet(1 .. n + 1) /\ IsFiniteSet(1 .. n) /\ n + 1 \in 1 .. n + 1
      /\ (1 .. n + 1) \ {n + 1} = 1 .. n
  <2>1. IsFiniteSet(1 .. n + 1) /\ IsFiniteSet(1 .. n)
    BY <1>3, FS_Interval
  <2>2. n + 1 \in 1 .. n + 1
    BY <1>3
  <2>3. (1 .. n + 1) \ {n + 1} = 1 .. n
    BY <1>3
  <2> QED
    BY <2>1, <2>2, <2>3
<1> HIDE DEF f, k
<1>6. SumFunctionOnSet(f, 1 .. n + 1)
      = f[n + 1] + SumFunctionOnSet(f, (1 .. n + 1) \ {n + 1})
  BY <1>4, <1>5, SumTake
<1>7. SumFunctionOnSet(f, 1 .. n) = SumFunctionOnSet(k, 1 .. n)
  BY <1>4, <1>5, SumSame
<1>8. SumFunctionOnSet(k, 1 .. n) \in Int /\ W[m] \in Int
  BY <1>4, <1>5, SumInt DEF Weights
<1>9. Weigh(W, g) = SumFunctionOnSet(f, 1 .. n + 1)
  BY <1>3 DEF Weigh, f
<1>10. Weigh(W, h) = SumFunctionOnSet(k, 1 .. n)
  BY <1>3 DEF Weigh, k
<1>11. PICK x, y : x = SumFunctionOnSet(k, 1 .. n) /\ y = W[m]
  OBVIOUS
<1>12. Weigh(W, g) = y + x /\ Weigh(W, h) = x /\ x \in Int /\ y \in Int
  BY <1>4, <1>5, <1>6, <1>7, <1>8, <1>9, <1>10, <1>11
<1> QED
  BY <1>1, <1>11, <1>12

----------------------------------------------------------------------------
(* The sums of the model *)

SizeW == [m \in Messages |-> Size(m)]
AttachmentW == [m \in Messages |-> AttachmentSize(m)]
ShownW == [m \in Messages |-> IF m.kind = "shown" THEN AttachmentSize(m) ELSE 0]
CountW == [m \in Messages |-> IF m.kind = "shown" THEN 1 ELSE 0]

\* The assumption on the constants, with what follows for the lengths.
LEMMA Constants ==
  /\ Main \in Rooms /\ IsFiniteSet(Rooms) /\ Body \in Nat \ {0} /\ Mime \in Nat
  /\ \A d \in DataSizes \cup {0} : d \in Nat
  /\ \A d \in DataSizes : Mime + d <= PictureBudget
  /\ Ceiling \in Nat /\ SoftLimit \in Nat /\ PictureBudget \in Nat /\ MaxMessages \in Nat
  /\ FadeKeep \in Nat /\ Batch \in Nat /\ MaxReactions \in Nat /\ MaxPosts \in Nat
  BY MemoryAssumption

\* The parts of a message, and what it is charged.
LEMMA MessageIs ==
  ASSUME NEW m \in Messages
  PROVE  /\ m.id \in Nat \ {0} /\ m.kind \in {"none", "shown", "faded"} /\ m.data \in Nat
         /\ AttachmentSize(m) \in Nat /\ Size(m) \in Nat /\ Size(m) = Body + AttachmentSize(m)
         /\ m.kind = "shown" => /\ AttachmentSize(m) = Mime + m.data
                                /\ AttachmentSize(m) <= PictureBudget
         /\ m.kind = "faded" => AttachmentSize(m) = Mime
         /\ m.kind = "none" => AttachmentSize(m) = 0
<1>1. /\ m.id \in Nat \ {0} /\ m.kind \in {"none", "shown", "faded"}
      /\ m.data \in DataSizes \cup {0} /\ (m.kind # "shown" => m.data = 0)
      /\ (m.kind = "shown" => m.data \in DataSizes)
  BY DEF Messages
<1>2. m.data \in Nat
  BY <1>1, Constants
<1>3. AttachmentSize(m) = IF m.kind = "none" THEN 0 ELSE Mime + m.data
  BY DEF AttachmentSize
<1>4. AttachmentSize(m) \in Nat
  BY <1>2, <1>3, Constants
<1>5. Size(m) = Body + AttachmentSize(m)
  BY DEF Size
<1> QED
  BY <1>1, <1>2, <1>3, <1>4, <1>5, Constants

\* Sizes, attachments, shown bytes and shown pictures are weights.
LEMMA WeightsAre ==
  SizeW \in Weights /\ AttachmentW \in Weights /\ ShownW \in Weights /\ CountW \in Weights
  BY MessageIs DEF Weights, SizeW, AttachmentW, ShownW, CountW

\* The model's sums over a history are weights of it.
LEMMA SizeOfIs ==
  ASSUME NEW h \in Seq(Messages)
  PROVE  SizeOf(h) = Weigh(SizeW, h)
<1> DEFINE f == [i \in DOMAIN h |-> Size(h[i])]
           g == [i \in DOMAIN h |-> SizeW[h[i]]]
<1>1. DOMAIN f = DOMAIN h /\ f = g
  BY DomainIs DEF SizeW
<1> HIDE DEF f, g
<1>2. SumFunctionOnSet(f, DOMAIN f) = SumFunctionOnSet(g, DOMAIN h)
  BY <1>1
<1> QED
  BY <1>2 DEF SizeOf, SumFunction, Weigh, f, g

\* The bytes of its attachments, and those of the pictures at S.
LEMMA AttachmentsOfIs ==
  ASSUME NEW h \in Seq(Messages)
  PROVE  /\ AttachmentsOf(h) = Weigh(AttachmentW, h)
         /\ \A S : PictureBytes(h, S) = SumFunctionOnSet([i \in DOMAIN h |-> AttachmentW[h[i]]], S)
<1> DEFINE f == AttachmentSizes(h)
           g == [i \in DOMAIN h |-> AttachmentW[h[i]]]
<1>1. DOMAIN f = DOMAIN h /\ f = g
  BY DomainIs DEF AttachmentW, AttachmentSizes
<1> HIDE DEF f, g
<1>2. SumFunctionOnSet(f, DOMAIN f) = SumFunctionOnSet(g, DOMAIN h)
  BY <1>1
<1>3. \A S : SumFunctionOnSet(f, S) = SumFunctionOnSet(g, S)
  BY <1>1
<1> QED
  BY <1>2, <1>3 DEF AttachmentsOf, SumFunction, Weigh, PictureBytes, f, g

\* The bytes of the pictures it shows.
LEMMA ShownBytesAre ==
  ASSUME NEW h \in Seq(Messages)
  PROVE  PictureBytes(h, Shown(h)) = Weigh(ShownW, h)
<1> DEFINE f == [i \in DOMAIN h |-> AttachmentW[h[i]]]
           g == [i \in DOMAIN h |-> ShownW[h[i]]]
           S == Shown(h)
<1>1. IsFiniteSet(DOMAIN h) /\ S \in SUBSET DOMAIN h
  BY DomainIs DEF Shown
<1>2. IsFiniteSet(S) /\ IsFiniteSet(DOMAIN h \ S)
  BY <1>1, FS_Subset
<1>3. \A i \in DOMAIN h : g[i] \in Int
  BY DomainIs, WeightsAre DEF Weights
<1>4. \A i \in S : g[i] \in Int /\ f[i] = g[i]
  BY <1>1, <1>3, DomainIs DEF ShownW, AttachmentW, Shown
<1>5. \A i \in DOMAIN h \ S : g[i] = 0
  BY DomainIs DEF ShownW, Shown
<1>6. PictureBytes(h, S) = SumFunctionOnSet(f, S)
  BY AttachmentsOfIs
<1>7. Weigh(ShownW, h) = SumFunctionOnSet(g, DOMAIN h)
  BY DEF Weigh
<1> HIDE DEF f, g, S
<1>8. SumFunctionOnSet(g, DOMAIN h) = SumFunctionOnSet(g, S) + SumFunctionOnSet(g, DOMAIN h \ S)
  BY <1>1, <1>3, SumUnion
<1>9. SumFunctionOnSet(f, S) = SumFunctionOnSet(g, S)
  BY <1>2, <1>4, SumSame
<1>10. SumFunctionOnSet(g, DOMAIN h \ S) = 0
  BY <1>2, <1>5, SumZero
<1>11. SumFunctionOnSet(g, S) \in Int
  BY <1>2, <1>4, SumInt
<1>12. PICK n : n = SumFunctionOnSet(g, S)
  OBVIOUS
<1>13. PictureBytes(h, S) = n /\ Weigh(ShownW, h) = n
  BY <1>6, <1>7, <1>8, <1>9, <1>10, <1>11, <1>12
<1> QED
  BY <1>13 DEF S

----------------------------------------------------------------------------
(* A room *)

Marks == [id : Nat \ {0}, emoji : Emojis, by : Reactors]

RoomStates == [history : Seq(Messages), message_ids : SUBSET (Nat \ {0}),
               reactions : SUBSET Marks, total_memory_bytes : Nat, attachment_bytes : Nat]

\* The messages of a room are in the order in which p were posted, and their ids
\* admit its reactions.
Gated(room, p) ==
    /\ \A i \in DOMAIN room.history : room.history[i].id <= p
    /\ \A i, j \in DOMAIN room.history : i < j => room.history[i].id < room.history[j].id
    /\ room.message_ids = IdsOf(room.history)
    /\ \A x \in room.reactions : x.id \in room.message_ids

\* Its counters have lost at most the debt d.
Charged(room, d) ==
    /\ room.total_memory_bytes <= SizeOf(room.history)
    /\ SizeOf(room.history) <= room.total_memory_bytes + d
    /\ room.attachment_bytes <= AttachmentsOf(room.history)
    /\ AttachmentsOf(room.history) <= room.attachment_bytes + d
    /\ PictureBytes(room.history, Shown(room.history)) <= PictureBudget + d

\* The parts of a room.
LEMMA RoomIs ==
  ASSUME NEW room \in RoomStates
  PROVE  /\ room.history \in Seq(Messages) /\ room.message_ids \in SUBSET (Nat \ {0})
         /\ room.reactions \in SUBSET Marks
         /\ room.total_memory_bytes \in Nat /\ room.attachment_bytes \in Nat
  BY DEF RoomStates

\* Dropping the oldest n leaves the ids and reactions of those that stay.
LEMMA DropIs ==
  ASSUME NEW room \in RoomStates, NEW p, Gated(room, p), NEW n \in 0 .. Len(room.history),
         NEW r, r = DropOldest(room, n)
  PROVE  /\ r \in RoomStates /\ Gated(r, p)
         /\ r.history = SubSeq(room.history, n + 1, Len(room.history))
         /\ r.total_memory_bytes = room.total_memory_bytes
         /\ r.attachment_bytes = room.attachment_bytes
<1>1. PICK h : h = room.history
  OBVIOUS
<1>2. PICK a, b : a = SubSeq(h, 1, n) /\ b = SubSeq(h, n + 1, Len(h))
  OBVIOUS
<1>3. h \in Seq(Messages) /\ n \in 0 .. Len(h)
  BY <1>1, RoomIs
<1>4. /\ a \in Seq(Messages) /\ Len(a) = n /\ \A i \in 1 .. n : a[i] = h[i]
      /\ b \in Seq(Messages) /\ Len(b) = Len(h) - n
      /\ \A i \in 1 .. Len(h) - n : b[i] = h[i + n]
  BY <1>2, <1>3, PartsAre
<1>5. /\ Len(h) \in Nat /\ DOMAIN h = 1 .. Len(h) /\ DOMAIN a = 1 .. n
      /\ DOMAIN b = 1 .. Len(h) - n /\ n \in Nat
      /\ \A i \in 1 .. Len(h) : h[i] \in Messages
  BY <1>3, <1>4, DomainIs
<1>6. PICK gone : gone = IdsOf(a)
  OBVIOUS
<1>7. /\ r.history = b /\ r.message_ids = room.message_ids \ gone
      /\ r.reactions = {x \in room.reactions : x.id \notin gone}
      /\ r.total_memory_bytes = room.total_memory_bytes
      /\ r.attachment_bytes = room.attachment_bytes
  BY <1>1, <1>2, <1>6 DEF DropOldest, RoomStates
<1>8. r \in RoomStates
  <2>1. r = [room EXCEPT !.history = b, !.message_ids = r.message_ids,
                         !.reactions = r.reactions]
    BY <1>1, <1>2, <1>6, <1>7 DEF DropOldest, RoomStates
  <2>2. r.message_ids \in SUBSET (Nat \ {0}) /\ r.reactions \in SUBSET Marks
    BY <1>7, RoomIs
  <2> QED
    BY <1>4, <2>1, <2>2 DEF RoomStates
<1>9. IdsOf(b) = IdsOf(h) \ gone
  <2>1. \A i \in 1 .. Len(h) - n : i + n \in 1 .. Len(h) /\ n < i + n
    BY <1>5
  <2>2. \A i \in 1 .. n : i \in 1 .. Len(h)
    <3>1. n \in Nat /\ Len(h) \in Nat /\ n <= Len(h)
      BY <1>3, <1>5
    <3> QED
      BY <3>1
  <2>3. \A i \in 1 .. Len(h) : i \in 1 .. n \/ (i - n \in 1 .. Len(h) - n /\ (i - n) + n = i)
    BY <1>5
  <2>4. \A i \in 1 .. n, j \in 1 .. Len(h) - n : a[i].id # b[j].id
    <3> SUFFICES ASSUME NEW i \in 1 .. n, NEW j \in 1 .. Len(h) - n
                 PROVE  a[i].id # b[j].id
      OBVIOUS
    <3>1. PICK k : k = j + n
      OBVIOUS
    <3>2. k \in 1 .. Len(h) /\ i \in 1 .. Len(h) /\ i < k
      BY <1>5, <2>1, <2>2, <3>1
    <3>3. h[i].id < h[k].id
      BY <1>1, <1>5, <3>2 DEF Gated
    <3>4. h[i].id \in Nat /\ h[k].id \in Nat
      BY <1>5, <3>2, MessageIs
    <3> QED
      BY <1>4, <3>1, <3>3, <3>4
  <2>5. IdsOf(b) = {b[j].id : j \in 1 .. Len(h) - n}
    BY <1>5 DEF IdsOf
  <2>6. gone = {a[i].id : i \in 1 .. n}
    BY <1>5, <1>6 DEF IdsOf
  <2>7. IdsOf(h) = {h[i].id : i \in 1 .. Len(h)}
    BY <1>5 DEF IdsOf
  <2>8. \A i \in 1 .. n : a[i].id \in gone
    BY <2>6
  <2>9. \A z \in IdsOf(h) \ gone : z \in IdsOf(b)
    <3> SUFFICES ASSUME NEW z \in IdsOf(h) \ gone PROVE z \in IdsOf(b)
      OBVIOUS
    <3>1. PICK i \in 1 .. Len(h) : z = h[i].id
      BY <2>7
    <3>2. i \notin 1 .. n
      BY <1>4, <2>8, <3>1
    <3>3. PICK j : j = i - n
      OBVIOUS
    <3>4. j \in 1 .. Len(h) - n /\ j + n = i
      BY <2>3, <3>2, <3>3
    <3> QED
      BY <1>4, <2>5, <3>1, <3>4
  <2>10. \A z \in IdsOf(b) : z \in IdsOf(h) \ gone
    <3> SUFFICES ASSUME NEW j \in 1 .. Len(h) - n PROVE b[j].id \in IdsOf(h) \ gone
      BY <2>5
    <3>1. b[j].id \notin gone
      BY <2>4, <2>6
    <3>2. PICK k : k = j + n
      OBVIOUS
    <3>3. k \in 1 .. Len(h) /\ b[j] = h[k]
      BY <1>4, <2>1, <3>2
    <3> QED
      BY <2>7, <3>1, <3>3
  <2> QED
    BY <2>9, <2>10
<1>10. Gated(r, p)
  <2>1. \A i \in 1 .. Len(h) - n : b[i].id <= p
    <3> SUFFICES ASSUME NEW i \in 1 .. Len(h) - n PROVE b[i].id <= p
      OBVIOUS
    <3>1. PICK k : k = i + n
      OBVIOUS
    <3>2. k \in 1 .. Len(h)
      BY <1>5, <3>1
    <3> QED
      BY <1>1, <1>4, <1>5, <3>1, <3>2 DEF Gated
  <2>2. \A i, j \in 1 .. Len(h) - n : i < j => b[i].id < b[j].id
    <3> SUFFICES ASSUME NEW i \in 1 .. Len(h) - n, NEW j \in 1 .. Len(h) - n, i < j
                 PROVE  b[i].id < b[j].id
      OBVIOUS
    <3>1. PICK k, l : k = i + n /\ l = j + n
      OBVIOUS
    <3>2. k \in 1 .. Len(h) /\ l \in 1 .. Len(h) /\ k < l
      BY <1>5, <3>1
    <3>3. b[i] = h[k] /\ b[j] = h[l]
      BY <1>4, <3>1
    <3>4. h[k].id < h[l].id
      BY <1>1, <1>5, <3>2 DEF Gated
    <3> QED
      BY <3>3, <3>4
  <2>3. r.message_ids = IdsOf(b)
    BY <1>1, <1>7, <1>9 DEF Gated
  <2>4. \A x \in r.reactions : x.id \in r.message_ids
    BY <1>7 DEF Gated
  <2> QED
    BY <1>5, <1>7, <2>1, <2>2, <2>3, <2>4 DEF Gated
<1> QED
  BY <1>1, <1>2, <1>7, <1>8, <1>10

\* The model's sums, and what a part of a history has of them.
LEMMA SumsAreNat ==
  ASSUME NEW h \in Seq(Messages)
  PROVE  /\ SizeOf(h) \in Nat /\ AttachmentsOf(h) \in Nat
         /\ PictureBytes(h, Shown(h)) \in Nat /\ Weigh(CountW, h) \in Nat
  BY SizeOfIs, AttachmentsOfIs, ShownBytesAre, WeightsAre, WeighNat

\* Every sum over a history is that of its oldest n and that of the others.
LEMMA SumsOfParts ==
  ASSUME NEW h \in Seq(Messages), NEW n \in 0 .. Len(h)
  PROVE  \E a, b \in Seq(Messages) :
            /\ a = SubSeq(h, 1, n) /\ b = SubSeq(h, n + 1, Len(h))
            /\ SizeOf(h) = SizeOf(a) + SizeOf(b)
            /\ AttachmentsOf(h) = AttachmentsOf(a) + AttachmentsOf(b)
            /\ PictureBytes(h, Shown(h)) = PictureBytes(a, Shown(a)) + PictureBytes(b, Shown(b))
            /\ Weigh(CountW, h) = Weigh(CountW, a) + Weigh(CountW, b)
<1>1. PICK a, b : a = SubSeq(h, 1, n) /\ b = SubSeq(h, n + 1, Len(h))
  OBVIOUS
<1>2. a \in Seq(Messages) /\ b \in Seq(Messages)
  BY <1>1, PartsAre
<1>3. \A W \in Weights : Weigh(W, h) = Weigh(W, a) + Weigh(W, b)
  BY <1>1, WeighSplit
<1>4. SizeOf(h) = SizeOf(a) + SizeOf(b)
  BY <1>2, <1>3, SizeOfIs, WeightsAre
<1>5. AttachmentsOf(h) = AttachmentsOf(a) + AttachmentsOf(b)
  BY <1>2, <1>3, AttachmentsOfIs, WeightsAre
<1>6. PictureBytes(h, Shown(h)) = PictureBytes(a, Shown(a)) + PictureBytes(b, Shown(b))
  BY <1>2, <1>3, ShownBytesAre, WeightsAre
<1>7. Weigh(CountW, h) = Weigh(CountW, a) + Weigh(CountW, b)
  BY <1>3, WeightsAre
<1> QED
  BY <1>1, <1>2, <1>4, <1>5, <1>6, <1>7

\* saturating_sub, which never passes zero.
LEMMA MinusIs ==
  ASSUME NEW a \in Nat, NEW b \in Nat
  PROVE  /\ Minus(a, b) \in Nat /\ Minus(a, b) >= a - b /\ Minus(a, b) <= a
         /\ b <= a => Minus(a, b) = a - b
         /\ b >= a => Minus(a, b) = 0
  BY DEF Minus

\* A counter that lacks at most d of what it counts goes on to.
LEMMA LacksAtMost ==
  ASSUME NEW c \in Nat, NEW a \in Nat, NEW b \in Nat, NEW d \in Nat,
         c <= a + b, a + b <= c + d
  PROVE  Minus(c, a) \in Nat /\ Minus(c, a) <= b /\ b <= Minus(c, a) + d
  BY DEF Minus

\* A counted room is charged what it holds.
LEMMA RecomputeIs ==
  ASSUME NEW room \in RoomStates, NEW p, Gated(room, p), NEW d \in Nat,
         PictureBytes(room.history, Shown(room.history)) <= PictureBudget + d,
         NEW r, r = recompute_memory(room)
  PROVE  r \in RoomStates /\ Gated(r, p) /\ Charged(r, d) /\ r.history = room.history
<1>1. room.history \in Seq(Messages)
  BY RoomIs
<1>2. SizeOf(room.history) \in Nat /\ AttachmentsOf(room.history) \in Nat
  BY <1>1, SumsAreNat
<1>3. /\ r.history = room.history /\ r.message_ids = room.message_ids
      /\ r.reactions = room.reactions
      /\ r.total_memory_bytes = SizeOf(room.history)
      /\ r.attachment_bytes = AttachmentsOf(room.history)
      /\ r \in RoomStates
  BY <1>2 DEF recompute_memory, RoomStates
<1>4. Gated(r, p)
  BY <1>3 DEF Gated
<1>5. Charged(r, d)
  BY <1>2, <1>3 DEF Charged
<1> QED
  BY <1>3, <1>4, <1>5

\* Dropping the n oldest and counting anew: ageing and trimming.
LEMMA CountedDropIs ==
  ASSUME NEW room \in RoomStates, NEW p, Gated(room, p), NEW d \in Nat, Charged(room, d),
         NEW n \in 0 .. Len(room.history),
         NEW r, r = recompute_memory(DropOldest(room, n))
  PROVE  /\ r \in RoomStates /\ Gated(r, p) /\ Charged(r, d)
         /\ r.history = SubSeq(room.history, n + 1, Len(room.history))
         /\ SizeOf(room.history) = SizeOf(SubSeq(room.history, 1, n)) + SizeOf(r.history)
         /\ Weigh(CountW, r.history) <= Weigh(CountW, room.history)
<1>1. PICK q : q = DropOldest(room, n)
  OBVIOUS
<1>2. PICK h : h = room.history
  OBVIOUS
<1>5. h \in Seq(Messages) /\ n \in 0 .. Len(h)
  BY <1>2, RoomIs
<1>3. PICK a, b \in Seq(Messages) :
            /\ a = SubSeq(h, 1, n) /\ b = SubSeq(h, n + 1, Len(h))
            /\ SizeOf(h) = SizeOf(a) + SizeOf(b)
            /\ AttachmentsOf(h) = AttachmentsOf(a) + AttachmentsOf(b)
            /\ PictureBytes(h, Shown(h)) = PictureBytes(a, Shown(a)) + PictureBytes(b, Shown(b))
            /\ Weigh(CountW, h) = Weigh(CountW, a) + Weigh(CountW, b)
  BY <1>5, SumsOfParts
<1>4. q \in RoomStates /\ Gated(q, p) /\ q.history = b
  BY <1>1, <1>2, <1>3, DropIs
<1>7. /\ PictureBytes(a, Shown(a)) \in Nat /\ PictureBytes(b, Shown(b)) \in Nat
      /\ Weigh(CountW, a) \in Nat /\ Weigh(CountW, b) \in Nat
  BY SumsAreNat
<1>8. PictureBytes(b, Shown(b)) <= PictureBudget + d
  <2>1. PictureBytes(h, Shown(h)) <= PictureBudget + d
    BY <1>2 DEF Charged
  <2> QED
    BY <1>3, <1>7, <2>1, Constants
<1>9. r \in RoomStates /\ Gated(r, p) /\ Charged(r, d) /\ r.history = b
  BY <1>1, <1>4, <1>8, RecomputeIs
<1> QED
  BY <1>2, <1>3, <1>7, <1>9

\* retain_newest counts what it keeps, and keeps no more.
LEMMA RetainIs ==
  ASSUME NEW room \in RoomStates, NEW p, Gated(room, p), NEW d \in Nat, Charged(room, d),
         NEW keep \in Nat, NEW r, r = retain_newest(room, keep)
  PROVE  /\ r \in RoomStates /\ Gated(r, p) /\ Charged(r, d)
         /\ SizeOf(r.history) <= SizeOf(room.history)
         /\ Weigh(CountW, r.history) <= Weigh(CountW, room.history)
<1>1. room.history \in Seq(Messages) /\ Len(room.history) \in Nat
  BY RoomIs
<1>2. SizeOf(room.history) \in Nat /\ Weigh(CountW, room.history) \in Nat
  BY <1>1, SumsAreNat
<1>3. CASE Len(room.history) <= keep
  BY <1>2, <1>3 DEF retain_newest
<1>4. CASE ~(Len(room.history) <= keep)
  <2>1. PICK n : n = Len(room.history) - keep
    OBVIOUS
  <2>2. n \in 0 .. Len(room.history)
    BY <1>1, <1>4, <2>1
  <2>3. r = recompute_memory(DropOldest(room, n))
    BY <1>4, <2>1 DEF retain_newest
  <2>4. PICK a : a = SubSeq(room.history, 1, n)
    OBVIOUS
  <2>5. /\ r \in RoomStates /\ Gated(r, p) /\ Charged(r, d)
        /\ SizeOf(room.history) = SizeOf(a) + SizeOf(r.history)
        /\ Weigh(CountW, r.history) <= Weigh(CountW, room.history)
    BY <2>2, <2>3, <2>4, CountedDropIs
  <2>6. a \in Seq(Messages) /\ r.history \in Seq(Messages)
    BY <1>1, <2>2, <2>4, <2>5, PartsAre, RoomIs
  <2>7. SizeOf(a) \in Nat /\ SizeOf(r.history) \in Nat
    BY <2>6, SumsAreNat
  <2> QED
    BY <2>5, <2>7
<1> QED
  BY <1>3, <1>4

\* prune_old_messages takes from the counters what it takes from the history.
LEMMA PruneIs ==
  ASSUME NEW room \in RoomStates, NEW p, Gated(room, p), NEW d \in Nat, Charged(room, d),
         NEW n \in 0 .. Len(room.history), NEW r, r = prune_old_messages(room, n)
  PROVE  /\ r \in RoomStates /\ Gated(r, p) /\ Charged(r, d)
         /\ r.history = SubSeq(room.history, n + 1, Len(room.history))
         /\ SizeOf(room.history) = SizeOf(SubSeq(room.history, 1, n)) + SizeOf(r.history)
         /\ Weigh(CountW, r.history) <= Weigh(CountW, room.history)
<1>1. PICK q : q = DropOldest(room, n)
  OBVIOUS
<1>2. PICK h : h = room.history
  OBVIOUS
<1>5. h \in Seq(Messages) /\ n \in 0 .. Len(h)
  BY <1>2, RoomIs
<1>3. PICK a, b \in Seq(Messages) :
            /\ a = SubSeq(h, 1, n) /\ b = SubSeq(h, n + 1, Len(h))
            /\ SizeOf(h) = SizeOf(a) + SizeOf(b)
            /\ AttachmentsOf(h) = AttachmentsOf(a) + AttachmentsOf(b)
            /\ PictureBytes(h, Shown(h)) = PictureBytes(a, Shown(a)) + PictureBytes(b, Shown(b))
            /\ Weigh(CountW, h) = Weigh(CountW, a) + Weigh(CountW, b)
  BY <1>5, SumsOfParts
<1>4. /\ q \in RoomStates /\ Gated(q, p) /\ q.history = b
      /\ q.total_memory_bytes = room.total_memory_bytes
      /\ q.attachment_bytes = room.attachment_bytes
  BY <1>1, <1>2, <1>3, DropIs
<1>7. /\ PictureBytes(a, Shown(a)) \in Nat /\ PictureBytes(b, Shown(b)) \in Nat
      /\ Weigh(CountW, a) \in Nat /\ Weigh(CountW, b) \in Nat
      /\ SizeOf(a) \in Nat /\ SizeOf(b) \in Nat
      /\ AttachmentsOf(a) \in Nat /\ AttachmentsOf(b) \in Nat
      /\ SizeOf(b) \in Nat /\ AttachmentsOf(b) \in Nat
  BY SumsAreNat
<1>8. PICK t, u : /\ t = Minus(room.total_memory_bytes, SizeOf(a))
                  /\ u = Minus(room.attachment_bytes, AttachmentsOf(a))
  OBVIOUS
<1>9. /\ r.history = b /\ r.message_ids = q.message_ids /\ r.reactions = q.reactions
      /\ r.total_memory_bytes = t /\ r.attachment_bytes = u
      /\ (t \in Nat /\ u \in Nat => r \in RoomStates)
  <2>1. r = [q EXCEPT !.attachment_bytes = u, !.total_memory_bytes = t]
    BY <1>1, <1>2, <1>3, <1>4, <1>8 DEF prune_old_messages
  <2> QED
    BY <1>4, <2>1 DEF RoomStates
<1>12. /\ room.total_memory_bytes <= SizeOf(h) /\ SizeOf(h) <= room.total_memory_bytes + d
       /\ room.attachment_bytes <= AttachmentsOf(h)
       /\ AttachmentsOf(h) <= room.attachment_bytes + d
       /\ PictureBytes(h, Shown(h)) <= PictureBudget + d
       /\ room.total_memory_bytes \in Nat /\ room.attachment_bytes \in Nat
  BY <1>2, RoomIs DEF Charged
<1>13. t \in Nat /\ t <= SizeOf(b) /\ SizeOf(b) <= t + d
  <2>1. PICK x, y, c : x = SizeOf(a) /\ y = SizeOf(b) /\ c = room.total_memory_bytes
    OBVIOUS
  <2>2. /\ x \in Nat /\ y \in Nat /\ c \in Nat /\ c <= x + y /\ x + y <= c + d
        /\ t = Minus(c, x)
    BY <1>3, <1>7, <1>8, <1>12, <2>1
  <2>3. t \in Nat /\ t <= y /\ y <= t + d
    BY <2>2, LacksAtMost
  <2> QED
    BY <2>1, <2>3
<1>14. u \in Nat /\ u <= AttachmentsOf(b) /\ AttachmentsOf(b) <= u + d
  <2>1. PICK x, y, c : x = AttachmentsOf(a) /\ y = AttachmentsOf(b) /\ c = room.attachment_bytes
    OBVIOUS
  <2>2. /\ x \in Nat /\ y \in Nat /\ c \in Nat /\ c <= x + y /\ x + y <= c + d
        /\ u = Minus(c, x)
    BY <1>3, <1>7, <1>8, <1>12, <2>1
  <2>3. u \in Nat /\ u <= y /\ y <= u + d
    BY <2>2, LacksAtMost
  <2> QED
    BY <2>1, <2>3
<1>15. PictureBytes(b, Shown(b)) <= PictureBudget + d
  BY <1>3, <1>7, <1>12, Constants
<1>16. Charged(r, d)
  BY <1>9, <1>13, <1>14, <1>15 DEF Charged
<1>17. Gated(r, p)
  BY <1>4, <1>9 DEF Gated
<1>18. Weigh(CountW, b) <= Weigh(CountW, h)
  BY <1>3, <1>7
<1> QED
  BY <1>2, <1>3, <1>9, <1>13, <1>14, <1>16, <1>17, <1>18

----------------------------------------------------------------------------
(* Fading *)

\* A finite set of naturals has a greatest element.
LEMMA LatestOf ==
  ASSUME NEW S \in SUBSET Nat, IsFiniteSet(S), S # {}
  PROVE  \E m \in S : \A i \in S : i <= m
<1> DEFINE C == {s \in SUBSET S : s # {} /\ ~\E m \in s : \A i \in s : i <= m}
<1> SUFFICES ASSUME C # {} PROVE FALSE
  OBVIOUS
<1>1. PICK s \in C : \A x \in s : s \ {x} \notin C
  <2> HIDE DEF C
  <2>1. C \in SUBSET SUBSET S
    BY DEF C
  <2> QED
    BY <2>1, MinimalSet
<1>2. s \in SUBSET Nat /\ s # {} /\ ~\E m \in s : \A i \in s : i <= m
  OBVIOUS
<1>3. PICK x \in s : TRUE
  BY <1>2
<1>4. CASE s = {x}
  BY <1>2, <1>4
<1>5. CASE s # {x}
  <2>1. s \ {x} # {} /\ s \ {x} \in SUBSET S
    BY <1>3, <1>5
  <2>2. PICK m \in s \ {x} : \A i \in s \ {x} : i <= m
    BY <1>1, <2>1
  <2>3. \A i \in s : i = x \/ i <= m
    BY <2>2
  <2>4. x \in Nat /\ m \in Nat /\ \A i \in s : i \in Nat
    BY <1>2, <1>3, <2>2
  <2>5. CASE x <= m
    BY <1>2, <2>2, <2>3, <2>5
  <2>6. CASE m <= x
    <3>1. \A i \in s : i <= x
      BY <2>3, <2>4, <2>6
    <3> QED
      BY <1>2, <1>3, <3>1
  <2> QED
    BY <2>4, <2>5, <2>6
<1> QED
  BY <1>4, <1>5

\* A set of naturals has a least element.
LEMMA FirstOf ==
  ASSUME NEW S \in SUBSET Nat, S # {}
  PROVE  \E m \in S : \A i \in S : m <= i
<1>1. PICK m \in S : \A i \in S : ~(<<i, m>> \in OpToRel(<, Nat))
  BY NatLessThanWellFounded, WFMin
<1>2. \A i \in S : ~(i < m)
  BY <1>1 DEF OpToRel
<1> QED
  BY <1>2

\* A part of a set of naturals has no greater sum.
LEMMA SumOfPart ==
  ASSUME NEW w, NEW S, IsFiniteSet(S), \A i \in S : w[i] \in Nat, NEW T \in SUBSET S
  PROVE  /\ IsFiniteSet(T) /\ SumFunctionOnSet(w, T) \in Nat
         /\ SumFunctionOnSet(w, S) \in Nat
         /\ SumFunctionOnSet(w, T) <= SumFunctionOnSet(w, S)
<1>1. IsFiniteSet(T) /\ IsFiniteSet(S \ T)
  BY FS_Subset
<1>2. SumFunctionOnSet(w, T) \in Nat
  BY <1>1, SumNat
<1>3. SumFunctionOnSet(w, S \ T) \in Nat
  BY <1>1, SumNat
<1>4. SumFunctionOnSet(w, S) = SumFunctionOnSet(w, T) + SumFunctionOnSet(w, S \ T)
  BY SumUnion
<1> QED
  BY <1>1, <1>2, <1>3, <1>4

\* Which of S fade, oldest first, while what remains of a is over B.
Fading(w, S, a, B) == {i \in S : a - SumFunctionOnSet(w, S \cap 1 .. i - 1) > B}

\* The pictures that fade weigh no more than is counted, and either are all or
\* leave what is counted within the budget.
LEMMA EnoughFades ==
  ASSUME NEW w, NEW S \in SUBSET (Nat \ {0}), IsFiniteSet(S), NEW a \in Nat, NEW B \in Nat,
         \A i \in S : w[i] \in Nat /\ w[i] <= B,
         NEW F, F = Fading(w, S, a, B)
  PROVE  /\ SumFunctionOnSet(w, F) \in Nat /\ SumFunctionOnSet(w, F) <= a
         /\ F = S \/ a - SumFunctionOnSet(w, F) <= B
<1> DEFINE Before(i) == S \cap 1 .. i - 1
<1>1. \A i \in S : w[i] \in Nat
  OBVIOUS
<1>2. \A i \in S : Before(i) \in SUBSET S
  OBVIOUS
<1>0. F = {i \in S : a - SumFunctionOnSet(w, Before(i)) > B}
  BY DEF Fading
<1>3. \A T \in SUBSET S : IsFiniteSet(T) /\ SumFunctionOnSet(w, T) \in Nat
  BY <1>1, SumOfPart
<1>4. \A i \in F, j \in S : j < i => j \in F
  <2> SUFFICES ASSUME NEW i \in F, NEW j \in S, j < i PROVE j \in F
    OBVIOUS
  <2>1. i \in S /\ i \in Nat /\ j \in Nat
    BY <1>0
  <2>2. Before(j) \in SUBSET Before(i)
    BY <2>1
  <2>3. \A k \in Before(i) : w[k] \in Nat
    OBVIOUS
  <2>4. PICK x : x = SumFunctionOnSet(w, Before(i))
    OBVIOUS
  <2>5. PICK y : y = SumFunctionOnSet(w, Before(j))
    OBVIOUS
  <2>6. IsFiniteSet(Before(i))
    BY <1>2, <1>3, <2>1
  <2>7. x \in Nat /\ y \in Nat /\ y <= x
    <3> HIDE DEF Before
    <3> QED
      BY <2>2, <2>3, <2>4, <2>5, <2>6, SumOfPart
  <2>8. a - x > B
    BY <1>0, <2>4
  <2>9. a - y > B
    BY <2>7, <2>8
  <2> QED
    BY <1>0, <2>5, <2>9
<1>5. F \in SUBSET S
  BY <1>0
<1>6. PICK f : f = SumFunctionOnSet(w, F)
  OBVIOUS
<1>7. f \in Nat
  BY <1>3, <1>5, <1>6
<1>8. f <= a
  <2>1. CASE F = {}
    <3>1. f = 0
      BY <1>6, <2>1, SumEmpty
    <3> QED
      BY <3>1
  <2>2. CASE F # {}
    <3>1. F \in SUBSET Nat /\ IsFiniteSet(F)
      BY <1>3, <1>5
    <3>2. PICK m \in F : \A i \in F : i <= m
      <4> HIDE DEF Before
      <4> QED
        BY <2>2, <3>1, LatestOf
    <3>3. F \ {m} = Before(m)
      <4>1. \A i \in F \ {m} : i \in 1 .. m - 1
        BY <1>5, <3>1, <3>2
      <4>2. \A i \in Before(m) : i \in S /\ i < m /\ i # m
        BY <1>5, <3>2
      <4>3. \A i \in Before(m) : i \in F \ {m}
        BY <1>4, <3>2, <4>2
      <4> QED
        BY <1>5, <4>1, <4>3
    <3>4. \A i \in F : w[i] \in Int
      BY <1>5
    <3>5. f = w[m] + SumFunctionOnSet(w, F \ {m})
      <4>1. PICK T : T = F
        OBVIOUS
      <4>2. IsFiniteSet(T) /\ (\A i \in T : w[i] \in Int) /\ m \in T
        BY <3>1, <3>2, <3>4, <4>1
      <4>3. SumFunctionOnSet(w, T) = w[m] + SumFunctionOnSet(w, T \ {m})
        BY <4>2, SumTake
      <4> QED
        BY <1>6, <4>1, <4>3
    <3>6. PICK x : x = SumFunctionOnSet(w, Before(m))
      OBVIOUS
    <3>7. a - x > B /\ m \in S
      BY <1>0, <3>2, <3>6
    <3>8. x \in Nat /\ w[m] \in Nat /\ w[m] <= B
      BY <1>2, <1>3, <3>6, <3>7
    <3>9. PICK v : v = w[m]
      OBVIOUS
    <3>10. f = v + x
      BY <3>3, <3>5, <3>6, <3>9
    <3>11. v \in Nat /\ v <= B
      BY <3>8, <3>9
    <3>12. x \in Nat /\ a - x > B
      BY <3>7, <3>8
    <3> QED
      BY <1>7, <3>10, <3>11, <3>12
  <2> QED
    BY <2>1, <2>2
<1>9. F = S \/ a - f <= B
  <2> SUFFICES ASSUME F # S PROVE a - f <= B
    OBVIOUS
  <2>1. S \ F # {} /\ S \ F \in SUBSET Nat
    BY <1>5
  <2>2. PICK k \in S \ F : \A i \in S \ F : k <= i
    <3>1. PICK T : T = S \ F
      OBVIOUS
    <3>2. \E k \in T : \A i \in T : k <= i
      BY <2>1, <3>1, FirstOf
    <3> QED
      BY <3>1, <3>2
  <2>3. Before(k) = F
    <3>1. \A i \in F : i < k
      <4> SUFFICES ASSUME NEW i \in F, ~(i < k) PROVE FALSE
        OBVIOUS
      <4>1. k \in Nat /\ i \in Nat /\ i # k /\ k \in S
        BY <1>5, <2>2
      <4>2. k < i
        BY <4>1
      <4> QED
        BY <1>4, <2>2, <4>1, <4>2
    <3>2. \A i \in F : i \in Before(k)
      <4> SUFFICES ASSUME NEW i \in F PROVE i \in 1 .. k - 1
        BY <1>5
      <4>1. k \in Nat /\ i \in Nat \ {0} /\ i < k
        BY <1>5, <2>2, <3>1
      <4> QED
        BY <4>1
    <3>3. \A i \in Before(k) : i \in F
      <4> SUFFICES ASSUME NEW i \in Before(k), i \notin F PROVE FALSE
        OBVIOUS
      <4>1. i \in S \ F /\ i < k /\ k \in Nat /\ i \in Nat
        BY <2>2
      <4> QED
        BY <2>2, <4>1
    <3> QED
      BY <3>2, <3>3
  <2>4. ~(a - SumFunctionOnSet(w, Before(k)) > B)
    BY <1>0, <2>2
  <2>5. ~(a - f > B)
    BY <1>6, <2>3, <2>4
  <2> QED
    BY <1>7, <2>5
<1> QED
  BY <1>6, <1>7, <1>8, <1>9

\* What a history loses when the messages of F lose D of their weight.
LEMMA FadeWeighs ==
  ASSUME NEW W \in Weights, NEW h \in Seq(Messages), NEW g \in Seq(Messages), Len(g) = Len(h),
         NEW F \in SUBSET DOMAIN h, \A i \in DOMAIN h \ F : g[i] = h[i],
         NEW D, \A i \in F : D[i] \in Nat /\ W[h[i]] = W[g[i]] + D[i]
  PROVE  /\ Weigh(W, h) = Weigh(W, g) + SumFunctionOnSet(D, F)
         /\ SumFunctionOnSet(D, F) \in Nat
<1> DEFINE a == [i \in DOMAIN h |-> W[h[i]]]
           b == [i \in DOMAIN g |-> W[g[i]]]
<1>1. PICK S : S = DOMAIN h
  OBVIOUS
<1>2. /\ DOMAIN g = S /\ IsFiniteSet(S)
      /\ \A i \in S : h[i] \in Messages /\ g[i] \in Messages
  BY <1>1, DomainIs
<1>3. IsFiniteSet(F) /\ IsFiniteSet(S \ F) /\ F \in SUBSET S
  BY <1>1, <1>2, FS_Subset
<1>4. \A i \in S : a[i] \in Nat /\ b[i] \in Nat /\ a[i] = W[h[i]] /\ b[i] = W[g[i]]
  BY <1>1, <1>2 DEF Weights
<1>5. \A i \in S \ F : b[i] = a[i]
  BY <1>1, <1>4
<1>6. Weigh(W, h) = SumFunctionOnSet(a, S) /\ Weigh(W, g) = SumFunctionOnSet(b, S)
  BY <1>1, <1>2 DEF Weigh
<1> HIDE DEF a, b
<1>7. SumFunctionOnSet(a, S) = SumFunctionOnSet(a, F) + SumFunctionOnSet(a, S \ F)
  BY <1>2, <1>3, <1>4, SumUnion
<1>8. SumFunctionOnSet(b, S) = SumFunctionOnSet(b, F) + SumFunctionOnSet(b, S \ F)
  BY <1>2, <1>3, <1>4, SumUnion
<1>9. SumFunctionOnSet(b, S \ F) = SumFunctionOnSet(a, S \ F)
  BY <1>3, <1>4, <1>5, SumSame
<1>10. SumFunctionOnSet(a, F) = SumFunctionOnSet(b, F) + SumFunctionOnSet(D, F)
  <2>1. \A i \in F : b[i] \in Int /\ D[i] \in Int /\ a[i] = b[i] + D[i]
    BY <1>3, <1>4
  <2> QED
    BY <1>3, <2>1, SumPlus
<1>11. SumFunctionOnSet(D, F) \in Nat
  BY <1>3, SumNat
<1>12. SumFunctionOnSet(b, F) \in Nat /\ SumFunctionOnSet(b, S \ F) \in Nat
  BY <1>3, <1>4, SumNat
<1>13. PICK x, y, z : /\ x = SumFunctionOnSet(b, F) /\ y = SumFunctionOnSet(D, F)
                      /\ z = SumFunctionOnSet(b, S \ F)
  OBVIOUS
<1>14. /\ x \in Nat /\ y \in Nat /\ z \in Nat
       /\ Weigh(W, h) = (x + y) + z /\ Weigh(W, g) = x + z
  BY <1>6, <1>7, <1>8, <1>9, <1>10, <1>11, <1>12, <1>13
<1>15. Weigh(W, h) = Weigh(W, g) + y
  BY <1>14
<1> QED
  BY <1>11, <1>13, <1>15

\* A message keeps its MIME type and loses its data when it fades.
LEMMA FadedMessageIs ==
  ASSUME NEW m \in Messages, m.kind = "shown",
         NEW n, n = [m EXCEPT !.kind = "faded", !.data = 0]
  PROVE  /\ n \in Messages /\ n.id = m.id
         /\ SizeW[m] = SizeW[n] + m.data /\ AttachmentW[m] = AttachmentW[n] + m.data
         /\ ShownW[m] = ShownW[n] + AttachmentW[m] /\ CountW[m] = CountW[n] + 1
         /\ AttachmentW[m] = m.data + Mime /\ m.data \in Nat /\ AttachmentW[m] \in Nat
<1>1. n \in Messages /\ n.id = m.id /\ n.kind = "faded"
  BY DEF Messages
<1>2. /\ AttachmentSize(m) = Mime + m.data /\ AttachmentSize(n) = Mime
      /\ Size(m) = Body + AttachmentSize(m) /\ Size(n) = Body + AttachmentSize(n)
      /\ m.data \in Nat /\ Mime \in Nat /\ Body \in Nat
  BY <1>1, MessageIs, Constants
<1>3. PICK x, y : x = AttachmentSize(m) /\ y = AttachmentSize(n)
  OBVIOUS
<1>4. /\ SizeW[m] = Body + x /\ SizeW[n] = Body + y
      /\ AttachmentW[m] = x /\ AttachmentW[n] = y
      /\ ShownW[m] = x /\ ShownW[n] = 0
      /\ CountW[m] = 1 /\ CountW[n] = 0
  BY <1>1, <1>2, <1>3 DEF SizeW, AttachmentW, ShownW, CountW
<1>5. PICK d : d = m.data
  OBVIOUS
<1>6. x = Mime + d /\ y = Mime /\ d \in Nat /\ Mime \in Nat /\ Body \in Nat
  BY <1>2, <1>3, <1>5
<1> QED
  BY <1>1, <1>4, <1>5, <1>6

\* What fade_oldest_attachments makes of a history.
FadedHistory(h, F) ==
    [i \in DOMAIN h |-> IF i \in F THEN [h[i] EXCEPT !.kind = "faded", !.data = 0] ELSE h[i]]

\* Messages that fade keep their ids and places.
LEMMA FadedHistoryIs ==
  ASSUME NEW h \in Seq(Messages), NEW F \in SUBSET Shown(h), NEW g, g = FadedHistory(h, F)
  PROVE  /\ g \in Seq(Messages) /\ Len(g) = Len(h) /\ DOMAIN g = DOMAIN h
         /\ \A i \in DOMAIN h : g[i].id = h[i].id
         /\ \A i \in DOMAIN h \ F : g[i] = h[i]
         /\ \A i \in F : /\ SizeW[h[i]] = SizeW[g[i]] + h[i].data
                         /\ AttachmentW[h[i]] = AttachmentW[g[i]] + h[i].data
                         /\ ShownW[h[i]] = ShownW[g[i]] + AttachmentW[h[i]]
                         /\ CountW[h[i]] = CountW[g[i]] + 1
                         /\ AttachmentW[h[i]] = h[i].data + Mime
                         /\ h[i].data \in Nat /\ AttachmentW[h[i]] \in Nat
<1>1. /\ DOMAIN h = 1 .. Len(h) /\ Len(h) \in Nat
      /\ \A i \in DOMAIN h : h[i] \in Messages
  BY DomainIs
<1>2. F \in SUBSET DOMAIN h /\ \A i \in F : h[i].kind = "shown"
  BY DEF Shown
<1>3. /\ DOMAIN g = DOMAIN h
      /\ \A i \in F : g[i] = [h[i] EXCEPT !.kind = "faded", !.data = 0]
      /\ \A i \in DOMAIN h \ F : g[i] = h[i]
  BY <1>2 DEF FadedHistory
<1>4. \A i \in F : /\ g[i] \in Messages /\ g[i].id = h[i].id
                   /\ SizeW[h[i]] = SizeW[g[i]] + h[i].data
                   /\ AttachmentW[h[i]] = AttachmentW[g[i]] + h[i].data
                   /\ ShownW[h[i]] = ShownW[g[i]] + AttachmentW[h[i]]
                   /\ CountW[h[i]] = CountW[g[i]] + 1
                   /\ AttachmentW[h[i]] = h[i].data + Mime
                   /\ h[i].data \in Nat /\ AttachmentW[h[i]] \in Nat
  <2> TAKE i \in F
  <2>1. PICK m : m = h[i]
    OBVIOUS
  <2>2. PICK n : n = g[i]
    OBVIOUS
  <2>3. m \in Messages /\ m.kind = "shown" /\ n = [m EXCEPT !.kind = "faded", !.data = 0]
    BY <1>1, <1>2, <1>3, <2>1, <2>2
  <2>4. /\ n \in Messages /\ n.id = m.id
        /\ SizeW[m] = SizeW[n] + m.data /\ AttachmentW[m] = AttachmentW[n] + m.data
        /\ ShownW[m] = ShownW[n] + AttachmentW[m] /\ CountW[m] = CountW[n] + 1
        /\ AttachmentW[m] = m.data + Mime /\ m.data \in Nat /\ AttachmentW[m] \in Nat
    BY <2>3, FadedMessageIs
  <2> QED
    BY <2>1, <2>2, <2>4
<1>5. \A i \in 1 .. Len(h) : g[i] \in Messages
  BY <1>1, <1>3, <1>4
<1>6. g = [i \in 1 .. Len(h) |-> g[i]]
  BY <1>1, <1>3 DEF FadedHistory
<1>7. g \in Seq(Messages) /\ Len(g) = Len(h)
  BY <1>1, <1>5, <1>6
<1>8. \A i \in DOMAIN h : g[i].id = h[i].id
  BY <1>3, <1>4
<1> QED
  BY <1>3, <1>4, <1>7, <1>8

\* Weights before and after.
LEMMA FadedWeights ==
  ASSUME NEW h \in Seq(Messages), NEW F \in SUBSET Shown(h), NEW g, g = FadedHistory(h, F)
  PROVE  \E lost, k \in Nat :
            /\ k = Cardinality(F)
            /\ PictureBytes(h, F) = lost + Mime * k /\ PictureBytes(h, F) \in Nat
            /\ SizeOf(h) = SizeOf(g) + lost
            /\ AttachmentsOf(h) = AttachmentsOf(g) + lost
            /\ PictureBytes(h, Shown(h)) = PictureBytes(g, Shown(g)) + PictureBytes(h, F)
            /\ Weigh(CountW, h) = Weigh(CountW, g) + k
<1> DEFINE E == [i \in DOMAIN h |-> AttachmentW[h[i]]]
           D == [i \in DOMAIN h |-> h[i].data]
           M == [i \in DOMAIN h |-> Mime]
           C == [i \in DOMAIN h |-> 1]
<1>1. /\ g \in Seq(Messages) /\ Len(g) = Len(h)
      /\ \A i \in DOMAIN h \ F : g[i] = h[i]
      /\ \A i \in F : /\ SizeW[h[i]] = SizeW[g[i]] + h[i].data
                      /\ AttachmentW[h[i]] = AttachmentW[g[i]] + h[i].data
                      /\ ShownW[h[i]] = ShownW[g[i]] + AttachmentW[h[i]]
                      /\ CountW[h[i]] = CountW[g[i]] + 1
                      /\ AttachmentW[h[i]] = h[i].data + Mime
                      /\ h[i].data \in Nat /\ AttachmentW[h[i]] \in Nat
  BY FadedHistoryIs
<1>2. F \in SUBSET DOMAIN h
  BY DEF Shown
<1>3. IsFiniteSet(F)
  BY <1>2, DomainIs, FS_Subset
<1>4. \A i \in F : /\ D[i] = h[i].data /\ E[i] = AttachmentW[h[i]] /\ M[i] = Mime /\ C[i] = 1
                   /\ D[i] \in Nat /\ E[i] \in Nat /\ M[i] \in Nat /\ C[i] \in Nat
                   /\ E[i] = D[i] + M[i]
  BY <1>1, <1>2, Constants
<1>5. PictureBytes(h, F) = SumFunctionOnSet(E, F)
  BY AttachmentsOfIs
<1> HIDE DEF E, D, M, C
<1>6. \A i \in F : D[i] \in Nat /\ SizeW[h[i]] = SizeW[g[i]] + D[i]
  BY <1>1, <1>4
<1>7. \A i \in F : D[i] \in Nat /\ AttachmentW[h[i]] = AttachmentW[g[i]] + D[i]
  BY <1>1, <1>4
<1>8. \A i \in F : E[i] \in Nat /\ ShownW[h[i]] = ShownW[g[i]] + E[i]
  BY <1>1, <1>4
<1>9. \A i \in F : C[i] \in Nat /\ CountW[h[i]] = CountW[g[i]] + C[i]
  BY <1>1, <1>4
<1>10. /\ Weigh(SizeW, h) = Weigh(SizeW, g) + SumFunctionOnSet(D, F)
       /\ SumFunctionOnSet(D, F) \in Nat
  <2>1. PICK W \in Weights : W = SizeW
    BY WeightsAre
  <2>2. g \in Seq(Messages) /\ Len(g) = Len(h) /\ \A i \in DOMAIN h \ F : g[i] = h[i]
    BY <1>1
  <2>3. \A i \in F : D[i] \in Nat /\ W[h[i]] = W[g[i]] + D[i]
    BY <1>6, <2>1
  <2>4. /\ Weigh(W, h) = Weigh(W, g) + SumFunctionOnSet(D, F)
        /\ SumFunctionOnSet(D, F) \in Nat
    BY <1>2, <2>2, <2>3, FadeWeighs
  <2> QED
    BY <2>1, <2>4
<1>11. Weigh(AttachmentW, h) = Weigh(AttachmentW, g) + SumFunctionOnSet(D, F)
  <2>1. PICK W \in Weights : W = AttachmentW
    BY WeightsAre
  <2>2. g \in Seq(Messages) /\ Len(g) = Len(h) /\ \A i \in DOMAIN h \ F : g[i] = h[i]
    BY <1>1
  <2>3. \A i \in F : D[i] \in Nat /\ W[h[i]] = W[g[i]] + D[i]
    BY <1>7, <2>1
  <2>4. /\ Weigh(W, h) = Weigh(W, g) + SumFunctionOnSet(D, F)
        /\ SumFunctionOnSet(D, F) \in Nat
    BY <1>2, <2>2, <2>3, FadeWeighs
  <2> QED
    BY <2>1, <2>4
<1>12. /\ Weigh(ShownW, h) = Weigh(ShownW, g) + SumFunctionOnSet(E, F)
       /\ SumFunctionOnSet(E, F) \in Nat
  <2>1. PICK W \in Weights : W = ShownW
    BY WeightsAre
  <2>2. g \in Seq(Messages) /\ Len(g) = Len(h) /\ \A i \in DOMAIN h \ F : g[i] = h[i]
    BY <1>1
  <2>3. \A i \in F : E[i] \in Nat /\ W[h[i]] = W[g[i]] + E[i]
    BY <1>8, <2>1
  <2>4. /\ Weigh(W, h) = Weigh(W, g) + SumFunctionOnSet(E, F)
        /\ SumFunctionOnSet(E, F) \in Nat
    BY <1>2, <2>2, <2>3, FadeWeighs
  <2> QED
    BY <2>1, <2>4
<1>13. Weigh(CountW, h) = Weigh(CountW, g) + SumFunctionOnSet(C, F)
  <2>1. PICK W \in Weights : W = CountW
    BY WeightsAre
  <2>2. g \in Seq(Messages) /\ Len(g) = Len(h) /\ \A i \in DOMAIN h \ F : g[i] = h[i]
    BY <1>1
  <2>3. \A i \in F : C[i] \in Nat /\ W[h[i]] = W[g[i]] + C[i]
    BY <1>9, <2>1
  <2>4. /\ Weigh(W, h) = Weigh(W, g) + SumFunctionOnSet(C, F)
        /\ SumFunctionOnSet(C, F) \in Nat
    BY <1>2, <2>2, <2>3, FadeWeighs
  <2> QED
    BY <2>1, <2>4
<1>14. PICK k \in Nat : k = Cardinality(F)
  BY <1>3, FS_CardinalityType
<1>15. SumFunctionOnSet(M, F) = Mime * k
  BY <1>3, <1>4, <1>14, SumConst, Constants
<1>16. SumFunctionOnSet(C, F) = k
  <2>1. SumFunctionOnSet(C, F) = 1 * k
    BY <1>3, <1>4, <1>14, SumConst
  <2> QED
    BY <2>1
<1>17. SumFunctionOnSet(E, F) = SumFunctionOnSet(D, F) + SumFunctionOnSet(M, F)
  BY <1>3, <1>4, SumPlus
<1>18. PICK lost : lost = SumFunctionOnSet(D, F)
  OBVIOUS
<1>19. lost \in Nat /\ PictureBytes(h, F) = lost + Mime * k /\ PictureBytes(h, F) \in Nat
  BY <1>5, <1>10, <1>12, <1>15, <1>17, <1>18
<1>20. SizeOf(h) = SizeOf(g) + lost /\ AttachmentsOf(h) = AttachmentsOf(g) + lost
  BY <1>1, <1>10, <1>11, <1>18, SizeOfIs, AttachmentsOfIs
<1>21. PictureBytes(h, Shown(h)) = PictureBytes(g, Shown(g)) + PictureBytes(h, F)
  BY <1>1, <1>5, <1>12, ShownBytesAre
<1>22. Weigh(CountW, h) = Weigh(CountW, g) + k
  BY <1>13, <1>16
<1> QED
  BY <1>14, <1>19, <1>20, <1>21, <1>22

\* The pictures of a room that fade, as those of its history.
LEMMA FadedOfIs ==
  ASSUME NEW room \in RoomStates, NEW h, h = room.history, NEW a, a = room.attachment_bytes,
         NEW F, F = FadedOf(room)
  PROVE  /\ F \in SUBSET Shown(h)
         /\ PictureBytes(h, F) <= a
         /\ \/ F = Shown(h)
            \/ a - PictureBytes(h, F) <= PictureBudget
<1>1. h \in Seq(Messages) /\ a \in Nat /\ PictureBudget \in Nat
  BY RoomIs, Constants
<1>2. /\ DOMAIN h = 1 .. Len(h) /\ IsFiniteSet(DOMAIN h) /\ Len(h) \in Nat
      /\ \A i \in DOMAIN h : h[i] \in Messages
  BY <1>1, DomainIs
<1> DEFINE w == [i \in DOMAIN h |-> AttachmentW[h[i]]]
<1>3. \A T : PictureBytes(h, T) = SumFunctionOnSet(w, T)
  BY <1>1, AttachmentsOfIs
<1>4. PICK S : S = Shown(h)
  OBVIOUS
<1>5. S \in SUBSET DOMAIN h /\ S \in SUBSET (Nat \ {0}) /\ IsFiniteSet(S)
  <2>1. S \in SUBSET DOMAIN h
    BY <1>4 DEF Shown
  <2>2. S \in SUBSET (Nat \ {0})
    BY <1>2, <2>1
  <2> QED
    BY <1>2, <2>1, <2>2, FS_Subset
<1>6. \A i \in S : w[i] \in Nat /\ w[i] <= PictureBudget
  <2> SUFFICES ASSUME NEW i \in S PROVE w[i] \in Nat /\ w[i] <= PictureBudget
    OBVIOUS
  <2>1. h[i] \in Messages /\ h[i].kind = "shown" /\ w[i] = AttachmentW[h[i]]
    BY <1>2, <1>4, <1>5 DEF Shown
  <2>2. PICK m : m = h[i]
    OBVIOUS
  <2>3. m \in Messages /\ m.kind = "shown" /\ w[i] = AttachmentSize(m)
    BY <2>1, <2>2 DEF AttachmentW
  <2>4. AttachmentSize(m) \in Nat /\ AttachmentSize(m) <= PictureBudget
    BY <2>3, MessageIs
  <2> QED
    BY <2>3, <2>4
<1>7. F = {i \in S : a - SumFunctionOnSet(w, S \cap 1 .. i - 1) > PictureBudget}
  <2>1. F = {i \in S : a - PictureBytes(h, S \cap 1 .. i - 1) > PictureBudget}
    BY <1>4 DEF FadedOf
  <2> QED
    BY <1>3, <2>1
<1> HIDE DEF w
<1>8. F = Fading(w, S, a, PictureBudget)
  BY <1>7 DEF Fading
<1>9. PICK B \in Nat : B = PictureBudget
  BY <1>1
<1>10. /\ SumFunctionOnSet(w, F) <= a
       /\ F = S \/ a - SumFunctionOnSet(w, F) <= B
  <2>1. (\A i \in S : w[i] \in Nat /\ w[i] <= B) /\ F = Fading(w, S, a, B)
    BY <1>6, <1>8, <1>9
  <2> HIDE <1>6, <1>7, <1>8
  <2> QED
    BY <1>1, <1>5, <2>1, EnoughFades
<1>11. F \in SUBSET S
  BY <1>7
<1> QED
  BY <1>3, <1>4, <1>9, <1>10, <1>11

\* Fading a room whose counters lack at most d leaves it within its budget, and
\* lacking also the MIME types of the pictures that faded.
LEMMA FadeIs ==
  ASSUME NEW room \in RoomStates, NEW p, Gated(room, p), NEW d \in Nat,
         room.total_memory_bytes <= SizeOf(room.history),
         SizeOf(room.history) <= room.total_memory_bytes + d,
         room.attachment_bytes <= AttachmentsOf(room.history),
         AttachmentsOf(room.history) <= room.attachment_bytes + d,
         NEW r, r = fade_oldest_attachments(room)
  PROVE  \E k \in Nat :
            /\ k = Cardinality(FadedOf(room)) /\ Freed(room) \in Nat
            /\ r \in RoomStates /\ Gated(r, p) /\ Charged(r, d + Mime * k)
            /\ SizeOf(r.history) + Freed(room) = SizeOf(room.history) + Mime * k
            /\ Weigh(CountW, r.history) + k = Weigh(CountW, room.history)
<1>1. PICK h : h = room.history
  OBVIOUS
<1>2. PICK a, t : a = room.attachment_bytes /\ t = room.total_memory_bytes
  OBVIOUS
<1>3. PICK F : F = FadedOf(room)
  OBVIOUS
<1>4. h \in Seq(Messages) /\ a \in Nat /\ t \in Nat
  BY <1>1, <1>2, RoomIs
<1>5. /\ F \in SUBSET Shown(h) /\ PictureBytes(h, F) <= a
      /\ F = Shown(h) \/ a - PictureBytes(h, F) <= PictureBudget
  BY <1>1, <1>2, <1>3, FadedOfIs
<1>6. PICK g : g = FadedHistory(h, F)
  OBVIOUS
<1>7. PICK lost, k \in Nat :
            /\ k = Cardinality(F)
            /\ PictureBytes(h, F) = lost + Mime * k /\ PictureBytes(h, F) \in Nat
            /\ SizeOf(h) = SizeOf(g) + lost
            /\ AttachmentsOf(h) = AttachmentsOf(g) + lost
            /\ PictureBytes(h, Shown(h)) = PictureBytes(g, Shown(g)) + PictureBytes(h, F)
            /\ Weigh(CountW, h) = Weigh(CountW, g) + k
  BY <1>4, <1>5, <1>6, FadedWeights
<1>8. /\ g \in Seq(Messages) /\ Len(g) = Len(h) /\ DOMAIN g = DOMAIN h
      /\ \A i \in DOMAIN h : g[i].id = h[i].id
  BY <1>4, <1>5, <1>6, FadedHistoryIs
<1>9. PICK f : f = PictureBytes(h, F)
  OBVIOUS
<1>10. Freed(room) = f
  BY <1>1, <1>3, <1>9 DEF Freed
<1>11. r = [room EXCEPT !.history = g, !.attachment_bytes = a - f,
                        !.total_memory_bytes = Minus(t, f)]
  BY <1>1, <1>2, <1>3, <1>6, <1>10 DEF fade_oldest_attachments, FadedHistory, RoomStates
<1>12. /\ r.history = g /\ r.message_ids = room.message_ids /\ r.reactions = room.reactions
       /\ r.attachment_bytes = a - f /\ r.total_memory_bytes = Minus(t, f)
  BY <1>11 DEF RoomStates
<1>13. f \in Nat /\ f <= a /\ a - f \in Nat
  BY <1>4, <1>5, <1>7, <1>9
<1>14. Minus(t, f) \in Nat
  BY <1>4, <1>13, MinusIs
<1>15. r \in RoomStates
  BY <1>8, <1>11, <1>13, <1>14 DEF RoomStates
<1>16. Gated(r, p)
  <2>1. IdsOf(g) = IdsOf(h)
    BY <1>8 DEF IdsOf
  <2> QED
    BY <1>1, <1>8, <1>12, <2>1 DEF Gated
<1>17. PICK x : x = Mime * k
  OBVIOUS
<1>18. x \in Nat
  <2>1. Mime \in Nat
    BY Constants
  <2> QED
    BY <1>17, <2>1
<1>19. PICK s, z : s = SizeOf(h) /\ z = SizeOf(g)
  OBVIOUS
<1>20. PICK b, c : b = AttachmentsOf(h) /\ c = AttachmentsOf(g)
  OBVIOUS
<1>21. PICK v, u : v = PictureBytes(h, Shown(h)) /\ u = PictureBytes(g, Shown(g))
  OBVIOUS
<1>22. /\ s \in Nat /\ z \in Nat /\ b \in Nat /\ c \in Nat /\ v \in Nat /\ u \in Nat
  BY <1>4, <1>8, <1>19, <1>20, <1>21, SumsAreNat
<1>23. f = lost + x /\ s = z + lost /\ b = c + lost /\ v = u + f
  BY <1>7, <1>9, <1>17, <1>19, <1>20, <1>21
<1>24. t <= s /\ s <= t + d /\ a <= b /\ b <= a + d
  BY <1>1, <1>2, <1>19, <1>20
<1>25. u <= PictureBudget + (d + x)
  <2>1. v <= b
    <3>1. IsFiniteSet(DOMAIN h) /\ \A i \in DOMAIN h : h[i] \in Messages
      BY <1>4, DomainIs
    <3> DEFINE w == [i \in DOMAIN h |-> AttachmentW[h[i]]]
    <3>2. v = SumFunctionOnSet(w, Shown(h))
      BY <1>4, <1>21, AttachmentsOfIs
    <3>3. b = SumFunctionOnSet(w, DOMAIN h)
      BY <1>4, <1>20, AttachmentsOfIs DEF Weigh
    <3>4. \A i \in DOMAIN h : w[i] \in Nat
      BY <3>1, WeightsAre DEF Weights
    <3>5. Shown(h) \in SUBSET DOMAIN h
      BY DEF Shown
    <3> HIDE DEF w
    <3> QED
      BY <3>1, <3>2, <3>3, <3>4, <3>5, SumOfPart
  <2>2. PICK B \in Nat : B = PictureBudget
    BY Constants
  <2>3. CASE F = Shown(h)
    <3>1. v = f
      BY <1>9, <1>21, <2>3
    <3>2. u = 0
      BY <1>13, <1>22, <1>23, <3>1
    <3> QED
      BY <1>18, <2>2, <3>2
  <2>4. CASE a - f <= B
    BY <1>4, <1>13, <1>18, <1>22, <1>23, <1>24, <2>1, <2>2, <2>4
  <2> QED
    BY <1>5, <1>9, <2>2, <2>3, <2>4
<1>26. Minus(t, f) <= z /\ z <= Minus(t, f) + (d + x)
  <2>1. PICK q : q = Minus(t, f)
    OBVIOUS
  <2>2. q = IF t > f THEN t - f ELSE 0
    BY <2>1 DEF Minus
  <2>3. q <= z /\ z <= q + (d + x)
    BY <1>4, <1>7, <1>13, <1>18, <1>22, <1>23, <1>24, <2>2
  <2> QED
    BY <2>1, <2>3
<1>27. a - f <= c /\ c <= (a - f) + (d + x)
  BY <1>4, <1>7, <1>13, <1>18, <1>22, <1>23, <1>24
<1>28. Charged(r, d + Mime * k)
  BY <1>12, <1>17, <1>19, <1>20, <1>21, <1>25, <1>26, <1>27 DEF Charged
<1>29. z + f = s + x
  BY <1>7, <1>13, <1>18, <1>22, <1>23
<1>30. SizeOf(r.history) + Freed(room) = SizeOf(room.history) + Mime * k
  BY <1>1, <1>10, <1>12, <1>17, <1>19, <1>29
<1>31. Weigh(CountW, r.history) + k = Weigh(CountW, room.history)
  BY <1>1, <1>7, <1>12
<1> QED
  BY <1>3, <1>7, <1>10, <1>13, <1>15, <1>16, <1>28, <1>30, <1>31

----------------------------------------------------------------------------
(* Storing a message *)

\* The number of messages to prune exists: it is at most the length.
LEMMA PruneCountIs ==
  ASSUME NEW h \in Seq(Messages), NEW needed \in Nat
  PROVE  PruneCount(h, needed) \in 0 .. Len(h)
<1> DEFINE Enough(n) == n = Len(h) \/ SizeOf(SubSeq(h, 1, n)) >= needed
           S == {n \in 0 .. Len(h) : Enough(n)}
<1>1. Len(h) \in Nat
  BY LenProperties
<1>2. S \in SUBSET Nat /\ Len(h) \in S
  BY <1>1
<1>3. PICK n \in S : \A k \in S : n <= k
  <2> HIDE DEF S
  <2> QED
    BY <1>2, FirstOf
<1>4. \A k \in 0 .. n - 1 : SizeOf(SubSeq(h, 1, k)) < needed
  <2> SUFFICES ASSUME NEW k \in 0 .. n - 1 PROVE SizeOf(SubSeq(h, 1, k)) < needed
    OBVIOUS
  <2>1. n \in Nat /\ n <= Len(h) /\ k \in 0 .. Len(h) /\ k < n
    BY <1>1
  <2>2. ~ Enough(k)
    <3>1. k \notin S
      <4> HIDE DEF S
      <4>1. n \in Nat /\ k \in Nat /\ k < n
        BY <2>1
      <4> QED
        BY <1>3, <4>1
    <3> QED
      BY <2>1, <3>1
  <2>3. SubSeq(h, 1, k) \in Seq(Messages)
    BY <2>1, PartsAre
  <2>4. PICK z \in Nat : z = SizeOf(SubSeq(h, 1, k))
    BY <2>3, SumsAreNat
  <2>5. ~ (z >= needed)
    BY <2>2, <2>4
  <2> QED
    BY <2>4, <2>5
<1> QED
  BY <1>3, <1>4 DEF PruneCount

\* More posts elsewhere change nothing.
LEMMA GatedLater ==
  ASSUME NEW room \in RoomStates, NEW p \in Nat, Gated(room, p)
  PROVE  Gated(room, p + 1)
<1>1. PICK h : h = room.history
  OBVIOUS
<1>2. \A i \in DOMAIN h : h[i].id \in Nat
  <2>1. \A i \in DOMAIN h : h[i] \in Messages
    BY <1>1, RoomIs, DomainIs
  <2> QED
    BY <2>1, MessageIs
<1>3. \A i \in DOMAIN h : h[i].id <= p
  BY <1>1 DEF Gated
<1>4. \A i \in DOMAIN h : h[i].id <= p + 1
  BY <1>2, <1>3
<1> QED
  BY <1>1, <1>4 DEF Gated

\* The room a new message is appended to, before any picture fades.
Stored(room, m) ==
    [room EXCEPT
        !.history = Append(@, m),
        !.message_ids = @ \cup {m.id},
        !.total_memory_bytes = @ + Size(m),
        !.attachment_bytes = @ + AttachmentSize(m)]

\* A stored message adds to the counters what it adds to the history.
LEMMA StoredIs ==
  ASSUME NEW room \in RoomStates, NEW p \in Nat, Gated(room, p), NEW d \in Nat,
         Charged(room, d), NEW m \in Messages, m.id = p + 1,
         NEW r, r = Stored(room, m)
  PROVE  /\ r \in RoomStates /\ Gated(r, p + 1)
         /\ r.total_memory_bytes <= SizeOf(r.history)
         /\ SizeOf(r.history) <= r.total_memory_bytes + d
         /\ r.attachment_bytes <= AttachmentsOf(r.history)
         /\ AttachmentsOf(r.history) <= r.attachment_bytes + d
         /\ SizeOf(r.history) = SizeOf(room.history) + Size(m)
         /\ Weigh(CountW, r.history) <= Weigh(CountW, room.history) + 1
<1>1. PICK h : h = room.history
  OBVIOUS
<1>2. PICK a, t : a = room.attachment_bytes /\ t = room.total_memory_bytes
  OBVIOUS
<1>3. PICK z, x : z = Size(m) /\ x = AttachmentSize(m)
  OBVIOUS
<1>4. h \in Seq(Messages) /\ a \in Nat /\ t \in Nat /\ z \in Nat /\ x \in Nat
  BY <1>1, <1>2, <1>3, RoomIs, MessageIs
<1>5. PICK g : g = Append(h, m)
  OBVIOUS
<1>6. /\ g \in Seq(Messages) /\ Len(g) = Len(h) + 1 /\ Len(h) \in Nat
      /\ \A i \in 1 .. Len(h) : g[i] = h[i]
      /\ g[Len(h) + 1] = m
  BY <1>4, <1>5, AppendProperties, LenProperties
<1>7. /\ r.history = g /\ r.message_ids = room.message_ids \cup {m.id}
      /\ r.reactions = room.reactions
      /\ r.total_memory_bytes = t + z /\ r.attachment_bytes = a + x
  BY <1>1, <1>2, <1>3, <1>5 DEF Stored, RoomStates
<1>8. r \in RoomStates
  <2>1. m.id \in Nat \ {0} /\ t + z \in Nat /\ a + x \in Nat
    BY <1>4, MessageIs
  <2>2. r = [room EXCEPT !.history = g, !.message_ids = room.message_ids \cup {m.id},
                         !.total_memory_bytes = t + z, !.attachment_bytes = a + x]
    BY <1>1, <1>2, <1>3, <1>5 DEF Stored, RoomStates
  <2>3. room.message_ids \cup {m.id} \in SUBSET (Nat \ {0})
    BY <2>1, RoomIs
  <2> QED
    BY <1>6, <2>1, <2>2, <2>3 DEF RoomStates
<1>9. Gated(r, p + 1)
  <2>1. DOMAIN h = 1 .. Len(h) /\ DOMAIN g = 1 .. Len(h) + 1
    BY <1>4, <1>6, DomainIs
  <2>2. \A i \in 1 .. Len(h) : h[i].id <= p /\ h[i].id \in Nat
    <3>1. \A i \in 1 .. Len(h) : h[i] \in Messages
      BY <1>4, <2>1, DomainIs
    <3>2. \A i \in 1 .. Len(h) : h[i].id <= p
      BY <1>1, <2>1 DEF Gated
    <3> QED
      BY <3>1, <3>2, MessageIs
  <2>3. \A i \in 1 .. Len(h) + 1 : i \in 1 .. Len(h) \/ i = Len(h) + 1
    BY <1>6
  <2>4. \A i \in 1 .. Len(h) + 1 : g[i].id <= p + 1
    <3> TAKE i \in 1 .. Len(h) + 1
    <3>1. CASE i \in 1 .. Len(h)
      BY <1>6, <2>2, <3>1
    <3>2. CASE i = Len(h) + 1
      BY <1>6, <3>2
    <3> QED
      BY <2>3, <3>1, <3>2
  <2>5. \A i, j \in 1 .. Len(h) + 1 : i < j => g[i].id < g[j].id
    <3> SUFFICES ASSUME NEW i \in 1 .. Len(h) + 1, NEW j \in 1 .. Len(h) + 1, i < j
                 PROVE  g[i].id < g[j].id
      OBVIOUS
    <3>1. i \in 1 .. Len(h)
      BY <1>6
    <3>2. CASE j \in 1 .. Len(h)
      <4>1. h[i].id < h[j].id
        BY <1>1, <2>1, <3>1, <3>2 DEF Gated
      <4> QED
        BY <1>6, <3>1, <3>2, <4>1
    <3>3. CASE j = Len(h) + 1
      <4>1. g[j].id = p + 1 /\ g[i].id <= p /\ g[i].id \in Nat
        BY <1>6, <2>2, <3>1, <3>3
      <4> QED
        BY <4>1
    <3> QED
      BY <2>3, <3>2, <3>3
  <2>6. IdsOf(g) = IdsOf(h) \cup {m.id}
    <3>1. IdsOf(g) = {g[i].id : i \in 1 .. Len(h) + 1} /\ IdsOf(h) = {h[i].id : i \in 1 .. Len(h)}
      BY <2>1 DEF IdsOf
    <3>2. \A i \in 1 .. Len(h) : i \in 1 .. Len(h) + 1
      BY <1>6
    <3>3. Len(h) + 1 \in 1 .. Len(h) + 1
      BY <1>6
    <3> QED
      BY <1>6, <2>3, <3>1, <3>2, <3>3
  <2>7. r.message_ids = IdsOf(g)
    BY <1>1, <1>7, <2>6 DEF Gated
  <2>8. \A y \in r.reactions : y.id \in r.message_ids
    BY <1>7 DEF Gated
  <2> QED
    BY <1>7, <2>1, <2>4, <2>5, <2>7, <2>8 DEF Gated
<1>10. SizeOf(g) = SizeOf(h) + z
  <2>1. Weigh(SizeW, g) = Weigh(SizeW, h) + SizeW[m]
    BY <1>4, <1>5, WeighAppend, WeightsAre
  <2> QED
    BY <1>3, <1>4, <1>6, <2>1, SizeOfIs DEF SizeW
<1>11. AttachmentsOf(g) = AttachmentsOf(h) + x
  <2>1. Weigh(AttachmentW, g) = Weigh(AttachmentW, h) + AttachmentW[m]
    BY <1>4, <1>5, WeighAppend, WeightsAre
  <2> QED
    BY <1>3, <1>4, <1>6, <2>1, AttachmentsOfIs DEF AttachmentW
<1>12. Weigh(CountW, g) <= Weigh(CountW, h) + 1
  <2>1. Weigh(CountW, g) = Weigh(CountW, h) + CountW[m]
    BY <1>4, <1>5, WeighAppend, WeightsAre
  <2>2. CountW[m] \in {0, 1}
    BY DEF CountW
  <2>3. PICK c, k : c = Weigh(CountW, h) /\ k = CountW[m]
    OBVIOUS
  <2>4. c \in Nat /\ k \in {0, 1} /\ Weigh(CountW, g) = c + k
    BY <1>4, <2>1, <2>2, <2>3, SumsAreNat
  <2> QED
    BY <2>3, <2>4
<1>13. PICK s, b : s = SizeOf(h) /\ b = AttachmentsOf(h)
  OBVIOUS
<1>14. s \in Nat /\ b \in Nat /\ t <= s /\ s <= t + d /\ a <= b /\ b <= a + d
  BY <1>1, <1>2, <1>4, <1>13, SumsAreNat DEF Charged
<1>15. t + z <= s + z /\ s + z <= (t + z) + d /\ a + x <= b + x /\ b + x <= (a + x) + d
  BY <1>4, <1>14
<1> QED
  BY <1>1, <1>3, <1>7, <1>8, <1>9, <1>10, <1>11, <1>12, <1>13, <1>15

\* add_message, of a room charged to within d and a tracker that lacks at most D
\* of what the room and the rest hold.
LEMMA AddMessageIs ==
  ASSUME NEW room \in RoomStates, NEW p \in Nat, Gated(room, p), NEW d \in Nat,
         Charged(room, d), NEW m \in Messages, m.id = p + 1,
         tracked \in Nat, NEW rest \in Nat, NEW D \in Nat,
         tracked <= rest + SizeOf(room.history),
         rest + SizeOf(room.history) <= tracked + D,
         NEW after, after = add_message(room, m)
  PROVE  \E k \in Nat :
            /\ k = after.faded /\ after.tracked \in Nat
            /\ after.room \in RoomStates /\ Gated(after.room, p + 1)
            /\ Charged(after.room, d + Mime * k)
            /\ Weigh(CountW, after.room.history) + k <= Weigh(CountW, room.history) + 1
            /\ after.tracked <= rest + SizeOf(after.room.history)
            /\ rest + SizeOf(after.room.history) <= after.tracked + (D + Mime * k)
<1>1. PICK h : h = room.history
  OBVIOUS
<1>2. h \in Seq(Messages) /\ Size(m) \in Nat /\ Len(h) \in Nat
  BY <1>1, RoomIs, MessageIs, LenProperties
<1>3. PICK n : n = IF room.total_memory_bytes + Size(m) > Ceiling
                   THEN PruneCount(h, Size(m)) ELSE 0
  OBVIOUS
<1>4. n \in 0 .. Len(h)
  <2>1. PruneCount(h, Size(m)) \in 0 .. Len(h)
    BY <1>2, PruneCountIs
  <2>2. 0 \in 0 .. Len(h)
    BY <1>2
  <2> QED
    BY <1>3, <2>1, <2>2
<1>5. PICK ready : ready = prune_old_messages(room, n)
  OBVIOUS
<1>6. /\ ready \in RoomStates /\ Gated(ready, p) /\ Charged(ready, d)
      /\ SizeOf(h) = SizeOf(SubSeq(h, 1, n)) + SizeOf(ready.history)
      /\ Weigh(CountW, ready.history) <= Weigh(CountW, h)
  BY <1>1, <1>4, <1>5, PruneIs
<1>7. PICK gone : gone = SizeOf(SubSeq(h, 1, n))
  OBVIOUS
<1>8. PICK kept : kept = SizeOf(ready.history)
  OBVIOUS
<1>9. gone \in Nat /\ kept \in Nat /\ SizeOf(h) = gone + kept
  <2>1. SubSeq(h, 1, n) \in Seq(Messages)
    BY <1>2, <1>4, PartsAre
  <2>2. ready.history \in Seq(Messages)
    BY <1>6, RoomIs
  <2> QED
    BY <1>6, <1>7, <1>8, <2>1, <2>2, SumsAreNat
<1>10. PICK left : left = Minus(tracked, gone)
  OBVIOUS
<1>11. PICK b : b = rest + kept
  OBVIOUS
<1>12. left \in Nat /\ left <= b /\ b <= left + D /\ b \in Nat
  <2>1. tracked <= gone + b /\ gone + b <= tracked + D /\ b \in Nat
    BY <1>1, <1>9, <1>11
  <2> QED
    BY <1>9, <1>10, <2>1, LacksAtMost
<1>13. PICK stored : stored = Stored(ready, m)
  OBVIOUS
<1>14. after = IF left + Size(m) <= Ceiling
               THEN [room |-> fade_oldest_attachments(stored),
                     tracked |-> Minus(left + Size(m), Freed(stored)),
                     faded |-> Cardinality(FadedOf(stored))]
               ELSE [room |-> ready, tracked |-> left, faded |-> 0]
  BY <1>1, <1>3, <1>5, <1>7, <1>10, <1>13 DEF add_message, Stored
<1>15. PICK c0, c1 : c0 = Weigh(CountW, h) /\ c1 = Weigh(CountW, ready.history)
  OBVIOUS
<1>16. c0 \in Nat /\ c1 \in Nat /\ c1 <= c0
  <2>1. ready.history \in Seq(Messages)
    BY <1>6, RoomIs
  <2> QED
    BY <1>2, <1>6, <1>15, <2>1, SumsAreNat
<1>17. CASE ~(left + Size(m) <= Ceiling)
  <2>1. after.room = ready /\ after.tracked = left /\ after.faded = 0
    BY <1>14, <1>17
  <2>2. Mime * 0 = 0
    BY Constants
  <2>3. d + 0 = d /\ D + 0 = D
    OBVIOUS
  <2>4. Charged(ready, d + Mime * 0)
    BY <1>6, <2>2, <2>3
  <2>5. Gated(ready, p + 1)
    BY <1>6, GatedLater
  <2>6. c1 + 0 <= c0 + 1
    BY <1>16
  <2>7. left <= rest + kept /\ rest + kept <= left + (D + Mime * 0)
    BY <1>11, <1>12, <2>2, <2>3
  <2>8. 0 \in Nat
    OBVIOUS
  <2> QED
    BY <1>1, <1>6, <1>8, <1>12, <1>15, <2>1, <2>4, <2>5, <2>6, <2>7, <2>8
<1>18. CASE left + Size(m) <= Ceiling
  <2>1. /\ after.room = fade_oldest_attachments(stored)
        /\ after.tracked = Minus(left + Size(m), Freed(stored))
        /\ after.faded = Cardinality(FadedOf(stored))
    BY <1>14, <1>18
  <2>2. /\ stored \in RoomStates /\ Gated(stored, p + 1)
        /\ stored.total_memory_bytes <= SizeOf(stored.history)
        /\ SizeOf(stored.history) <= stored.total_memory_bytes + d
        /\ stored.attachment_bytes <= AttachmentsOf(stored.history)
        /\ AttachmentsOf(stored.history) <= stored.attachment_bytes + d
        /\ SizeOf(stored.history) = SizeOf(ready.history) + Size(m)
        /\ Weigh(CountW, stored.history) <= Weigh(CountW, ready.history) + 1
    BY <1>6, <1>13, StoredIs
  <2>3. PICK r : r = fade_oldest_attachments(stored)
    OBVIOUS
  <2>4. PICK q \in Nat : q = p + 1
    OBVIOUS
  <2>5. PICK k \in Nat :
            /\ k = Cardinality(FadedOf(stored)) /\ Freed(stored) \in Nat
            /\ r \in RoomStates /\ Gated(r, q) /\ Charged(r, d + Mime * k)
            /\ SizeOf(r.history) + Freed(stored) = SizeOf(stored.history) + Mime * k
            /\ Weigh(CountW, r.history) + k = Weigh(CountW, stored.history)
    BY <2>2, <2>3, <2>4, FadeIs
  <2>6. PICK f, z, x : f = Freed(stored) /\ z = Size(m) /\ x = Mime * k
    OBVIOUS
  <2>7. PICK s, e : s = SizeOf(stored.history) /\ e = SizeOf(r.history)
    OBVIOUS
  <2>8. PICK c2, c3 : c2 = Weigh(CountW, stored.history) /\ c3 = Weigh(CountW, r.history)
    OBVIOUS
  <2>9. /\ f \in Nat /\ z \in Nat /\ x \in Nat /\ s \in Nat /\ e \in Nat
        /\ c2 \in Nat /\ c3 \in Nat
    <3>1. stored.history \in Seq(Messages) /\ r.history \in Seq(Messages)
      BY <2>2, <2>5, RoomIs
    <3>2. x \in Nat
      <4>1. Mime \in Nat
        BY Constants
      <4> QED
        BY <2>6, <4>1
    <3>3. s \in Nat /\ e \in Nat /\ c2 \in Nat /\ c3 \in Nat
      BY <2>7, <2>8, <3>1, SumsAreNat
    <3> QED
      BY <1>2, <2>5, <2>6, <3>2, <3>3
  <2>10. s = kept + z /\ e + f = s + x
    BY <1>8, <2>2, <2>5, <2>6, <2>7
  <2>11. c3 + k = c2 /\ c2 <= c1 + 1
    BY <1>15, <2>2, <2>5, <2>8
  <2>12. c3 + k <= c0 + 1
    BY <1>16, <2>9, <2>11
  <2>13. PICK l : l = left + z
    OBVIOUS
  <2>14. PICK y : y = rest + e
    OBVIOUS
  <2>15. l \in Nat /\ y \in Nat /\ D + x \in Nat
    BY <1>12, <2>9, <2>13, <2>14
  <2>16. l <= f + y /\ f + y <= l + (D + x)
    BY <1>9, <1>11, <1>12, <2>9, <2>10, <2>13, <2>14
  <2>17. Minus(l, f) \in Nat /\ Minus(l, f) <= y /\ y <= Minus(l, f) + (D + x)
    BY <2>9, <2>15, <2>16, LacksAtMost
  <2>18. after.tracked = Minus(l, f) /\ after.room = r /\ after.faded = k
    BY <2>1, <2>3, <2>5, <2>6, <2>13
  <2>19. Gated(r, p + 1)
    BY <2>4, <2>5
  <2> QED
    BY <1>1, <1>15, <2>5, <2>6, <2>7, <2>8, <2>12, <2>14, <2>17, <2>18, <2>19
<1> QED
  BY <1>17, <1>18

----------------------------------------------------------------------------
(* The inductive invariant *)

\* A room after p posts, f of whose pictures have faded: every picture faded or
\* still shown was posted.
RoomKept(room, f, p) ==
    /\ Gated(room, p)
    /\ Charged(room, Mime * f)
    /\ f + Weigh(CountW, room.history) <= p

Sizes(all) == [r \in Rooms |-> SizeOf(all[r].history)]

Inv ==
    /\ rooms \in [Rooms -> RoomStates]
    /\ tracked \in Nat
    /\ posted \in 0 .. MaxPosts
    /\ fades \in [Rooms -> Nat]
    /\ \A r \in Rooms : RoomKept(rooms[r], fades[r], posted)
    /\ tracked <= Retained
    /\ Retained <= tracked + Mime * SumFunction(fades)

\* The sizes of the rooms' histories.
LEMMA SizesAre ==
  ASSUME NEW all \in [Rooms -> RoomStates]
  PROVE  /\ \A r \in Rooms : Sizes(all)[r] = SizeOf(all[r].history) /\ Sizes(all)[r] \in Nat
         /\ SumFunctionOnSet(Sizes(all), Rooms) \in Nat
<1>1. \A r \in Rooms : Sizes(all)[r] = SizeOf(all[r].history)
  BY DEF Sizes
<1>2. \A r \in Rooms : SizeOf(all[r].history) \in Nat
  BY RoomIs, SumsAreNat
<1>3. \A r \in Rooms : Sizes(all)[r] \in Nat
  BY <1>1, <1>2
<1>4. IsFiniteSet(Rooms)
  BY Constants
<1> QED
  BY <1>1, <1>3, <1>4, SumNat

\* What the rooms retain is the sum of them.
LEMMA RetainedIs ==
  Retained = SumFunctionOnSet(Sizes(rooms), Rooms)
<1>1. DOMAIN [r \in Rooms |-> SizeOf(rooms[r].history)] = Rooms
  OBVIOUS
<1> QED
  BY <1>1 DEF Retained, Sizes, SumFunction

\* The pictures all rooms have faded.
LEMMA FadesAre ==
  ASSUME NEW f \in [Rooms -> Nat]
  PROVE  SumFunction(f) = SumFunctionOnSet(f, Rooms) /\ SumFunction(f) \in Nat
<1>1. DOMAIN f = Rooms /\ IsFiniteSet(Rooms) /\ \A r \in Rooms : f[r] \in Nat
  BY Constants
<1>2. SumFunctionOnSet(f, Rooms) \in Nat
  BY <1>1, SumNat
<1> QED
  BY <1>1, <1>2 DEF SumFunction

\* What n faded pictures may have given back twice.
LEMMA DebtIs ==
  ASSUME NEW n \in Nat, NEW k \in Nat
  PROVE  /\ Mime * n \in Nat /\ Mime * (n + k) = Mime * n + Mime * k
         /\ Mime * n <= Mime * (n + k)
<1>1. Mime \in Nat
  BY Constants
<1>2. Mime * n \in Nat /\ Mime * k \in Nat
  BY <1>1
<1>3. Mime * (n + k) = Mime * n + Mime * k
  BY <1>1
<1> QED
  BY <1>2, <1>3

\* A deleted room lacks nothing, however much it has faded.
LEMMA EmptyRoomIs ==
  ASSUME NEW p \in Nat, NEW f \in Nat, f <= p
  PROVE  /\ EmptyRoom \in RoomStates /\ RoomKept(EmptyRoom, f, p)
         /\ SizeOf(EmptyRoom.history) = 0
<1>1. /\ EmptyRoom.history = <<>> /\ EmptyRoom.message_ids = {} /\ EmptyRoom.reactions = {}
      /\ EmptyRoom.total_memory_bytes = 0 /\ EmptyRoom.attachment_bytes = 0
  BY DEF EmptyRoom
<1>2. <<>> \in Seq(Messages) /\ DOMAIN <<>> = {}
  OBVIOUS
<1>3. EmptyRoom \in RoomStates
  BY <1>2 DEF EmptyRoom, RoomStates
<1>4. \A W : Weigh(W, <<>>) = 0
  BY WeighNothing
<1>5. SizeOf(<<>>) = 0 /\ AttachmentsOf(<<>>) = 0 /\ PictureBytes(<<>>, Shown(<<>>)) = 0
  BY <1>2, <1>4, SizeOfIs, AttachmentsOfIs, ShownBytesAre
<1>6. Gated(EmptyRoom, p)
  BY <1>1, <1>2 DEF Gated, IdsOf
<1>7. Mime * f \in Nat
  BY DebtIs
<1>8. PictureBudget \in Nat
  BY Constants
<1>9. 0 <= PictureBudget + Mime * f /\ 0 <= 0 + Mime * f
  BY <1>7, <1>8
<1>10. Charged(EmptyRoom, Mime * f)
  BY <1>1, <1>5, <1>9 DEF Charged
<1>11. f + Weigh(CountW, <<>>) <= p
  BY <1>4
<1> QED
  BY <1>1, <1>3, <1>5, <1>6, <1>10, <1>11 DEF RoomKept

\* A room that keeps no more of what it shows stays kept.
LEMMA KeptOn ==
  ASSUME NEW room \in RoomStates, NEW r \in RoomStates, NEW p \in Nat, NEW f \in Nat,
         RoomKept(room, f, p), Gated(r, p), Charged(r, Mime * f),
         Weigh(CountW, r.history) <= Weigh(CountW, room.history)
  PROVE  RoomKept(r, f, p)
<1>1. PICK c, e : c = Weigh(CountW, room.history) /\ e = Weigh(CountW, r.history)
  OBVIOUS
<1>2. c \in Nat /\ e \in Nat
  BY <1>1, RoomIs, SumsAreNat
<1>3. f + c <= p
  BY <1>1 DEF RoomKept
<1>4. f + e <= p
  BY <1>1, <1>2, <1>3
<1> QED
  BY <1>1, <1>4 DEF RoomKept

\* The tracker follows what the rooms let go.
LEMMA Released ==
  ASSUME Inv, NEW all \in [Rooms -> RoomStates], NEW gone,
         \A r \in Rooms : /\ gone[r] \in Nat
                          /\ SizeOf(rooms[r].history) = gone[r] + SizeOf(all[r].history),
         NEW g, g = SumFunctionOnSet(gone, Rooms)
  PROVE  /\ Minus(tracked, g) \in Nat
         /\ Minus(tracked, g) <= SumFunctionOnSet(Sizes(all), Rooms)
         /\ SumFunctionOnSet(Sizes(all), Rooms)
                <= Minus(tracked, g) + Mime * SumFunction(fades)
<1>1. IsFiniteSet(Rooms)
  BY Constants
<1>2. PICK a, b : a = Sizes(rooms) /\ b = Sizes(all)
  OBVIOUS
<1>3. /\ \A r \in Rooms : a[r] = SizeOf(rooms[r].history) /\ a[r] \in Nat
      /\ SumFunctionOnSet(a, Rooms) \in Nat
  BY <1>2, SizesAre DEF Inv
<1>4. /\ \A r \in Rooms : b[r] = SizeOf(all[r].history) /\ b[r] \in Nat
      /\ SumFunctionOnSet(b, Rooms) \in Nat
  BY <1>2, SizesAre
<1>5. \A r \in Rooms : gone[r] \in Int /\ b[r] \in Int /\ a[r] = gone[r] + b[r]
  BY <1>3, <1>4
<1>6. SumFunctionOnSet(a, Rooms) = g + SumFunctionOnSet(b, Rooms)
  BY <1>1, <1>5, SumPlus
<1>7. g \in Nat
  BY <1>1, SumNat
<1>8. PICK z : z = SumFunctionOnSet(b, Rooms)
  OBVIOUS
<1>9. z \in Nat /\ Retained = g + z
  BY <1>2, <1>4, <1>6, <1>8, RetainedIs
<1>10. PICK d \in Nat : d = Mime * SumFunction(fades)
  BY FadesAre, DebtIs DEF Inv
<1>11. tracked \in Nat /\ tracked <= g + z /\ g + z <= tracked + d
  BY <1>9, <1>10 DEF Inv
<1>12. Minus(tracked, g) \in Nat /\ Minus(tracked, g) <= z /\ z <= Minus(tracked, g) + d
  BY <1>7, <1>9, <1>11, LacksAtMost
<1> QED
  BY <1>2, <1>8, <1>10, <1>12

\* No room, nothing charged.
LEMMA InitInv == Init => Inv
<1> SUFFICES ASSUME Init PROVE Inv
  OBVIOUS
<1>1. /\ rooms = [r \in Rooms |-> EmptyRoom] /\ tracked = 0 /\ posted = 0
      /\ fades = [r \in Rooms |-> 0]
  BY DEF Init
<1>2. MaxPosts \in Nat /\ IsFiniteSet(Rooms)
  BY Constants
<1>3. /\ EmptyRoom \in RoomStates /\ RoomKept(EmptyRoom, 0, 0)
      /\ SizeOf(EmptyRoom.history) = 0
  <2>1. 0 \in Nat /\ 0 <= 0
    OBVIOUS
  <2> QED
    BY <2>1, EmptyRoomIs
<1>4. \A r \in Rooms : rooms[r] = EmptyRoom /\ fades[r] = 0
  BY <1>1
<1>5. rooms \in [Rooms -> RoomStates] /\ fades \in [Rooms -> Nat]
  BY <1>1, <1>3
<1>6. \A r \in Rooms : RoomKept(rooms[r], fades[r], posted)
  BY <1>1, <1>3, <1>4
<1>7. Retained = 0
  <2>1. PICK z : z = Sizes(rooms)
    OBVIOUS
  <2>2. \A r \in Rooms : z[r] = 0
    BY <1>3, <1>4, <1>5, <2>1, SizesAre
  <2>3. SumFunctionOnSet(z, Rooms) = 0
    BY <1>2, <2>2, SumZero
  <2> QED
    BY <2>1, <2>3, RetainedIs
<1>8. PICK d \in Nat : d = Mime * SumFunction(fades)
  BY <1>5, FadesAre, DebtIs
<1>9. tracked <= Retained /\ Retained <= tracked + Mime * SumFunction(fades)
  BY <1>1, <1>7, <1>8
<1>10. posted \in 0 .. MaxPosts /\ tracked \in Nat
  BY <1>1, <1>2
<1> QED
  BY <1>5, <1>6, <1>9, <1>10 DEF Inv

\* A room stays kept while others post.
LEMMA KeptLater ==
  ASSUME NEW room \in RoomStates, NEW p \in Nat, NEW f \in Nat, RoomKept(room, f, p)
  PROVE  RoomKept(room, f, p + 1)
<1>1. Gated(room, p + 1)
  BY GatedLater DEF RoomKept
<1>2. PICK c \in Nat : c = Weigh(CountW, room.history)
  BY RoomIs, SumsAreNat
<1>3. f + c <= p
  BY <1>2 DEF RoomKept
<1>4. f + c <= p + 1
  BY <1>3
<1> QED
  BY <1>1, <1>2, <1>4 DEF RoomKept

\* A posted message is one, with the next id.
LEMMA PictureIs ==
  ASSUME NEW picture \in Pictures \cup {NoPicture}, NEW n \in Nat,
         NEW m, m = [id |-> n + 1, kind |-> picture.kind, data |-> picture.data]
  PROVE  m \in Messages /\ m.id = n + 1
<1>1. n + 1 \in Nat \ {0}
  OBVIOUS
<1>2. CASE picture = NoPicture
  <2>1. picture.kind = "none" /\ picture.data = 0
    BY <1>2 DEF NoPicture
  <2> QED
    BY <1>1, <2>1 DEF Messages
<1>3. CASE picture \in Pictures
  <2>1. picture.kind = "shown" /\ picture.data \in DataSizes
    BY <1>3 DEF Pictures
  <2> QED
    BY <1>1, <2>1 DEF Messages
<1> QED
  BY <1>2, <1>3

\* A message event, whether or not it is stored.
LEMMA PostKeeps ==
  ASSUME Inv, NEW r \in Rooms, NEW picture \in Pictures \cup {NoPicture}, Post(r, picture)
  PROVE  Inv'
<1>1. /\ rooms \in [Rooms -> RoomStates] /\ fades \in [Rooms -> Nat] /\ tracked \in Nat
      /\ posted \in Nat /\ posted <= MaxPosts /\ MaxPosts \in Nat /\ IsFiniteSet(Rooms)
      /\ \A s \in Rooms : RoomKept(rooms[s], fades[s], posted)
  BY Constants DEF Inv
<1>2. PICK m : m = [id |-> posted + 1, kind |-> picture.kind, data |-> picture.data]
  OBVIOUS
<1>3. m \in Messages /\ m.id = posted + 1
  BY <1>1, <1>2, PictureIs
<1>4. PICK after : after = add_message(rooms[r], m)
  OBVIOUS
<1>5. /\ posted < MaxPosts
      /\ rooms' = [rooms EXCEPT ![r] = after.room]
      /\ tracked' = after.tracked
      /\ fades' = [fades EXCEPT ![r] = @ + after.faded]
      /\ posted' = posted + 1
  BY <1>2, <1>4 DEF Post
<1>6. PICK room \in RoomStates : room = rooms[r]
  BY <1>1
<1>7. PICK f \in Nat : f = fades[r]
  BY <1>1
<1>8. PICK d \in Nat : d = Mime * f
  BY DebtIs
<1>9. Gated(room, posted) /\ Charged(room, d) /\ f + Weigh(CountW, room.history) <= posted
  BY <1>1, <1>6, <1>7, <1>8 DEF RoomKept
<1>10. PICK a : a = Sizes(rooms)
  OBVIOUS
<1>11. /\ \A s \in Rooms : a[s] = SizeOf(rooms[s].history) /\ a[s] \in Nat
       /\ Retained = SumFunctionOnSet(a, Rooms)
  BY <1>1, <1>10, SizesAre, RetainedIs
<1>12. PICK rest : rest = SumFunctionOnSet(a, Rooms \ {r})
  OBVIOUS
<1>13. rest \in Nat /\ Retained = SizeOf(room.history) + rest
  <2>1. SumFunctionOnSet(a, Rooms) = a[r] + SumFunctionOnSet(a, Rooms \ {r})
    <3>1. \A s \in Rooms : a[s] \in Int
      BY <1>11
    <3> QED
      BY <1>1, <3>1, SumTake
  <2>2. rest \in Nat
    <3>1. IsFiniteSet(Rooms \ {r}) /\ \A s \in Rooms \ {r} : a[s] \in Nat
      BY <1>1, <1>11, FS_Subset
    <3> QED
      BY <1>12, <3>1, SumNat
  <2> QED
    BY <1>6, <1>11, <1>12, <2>1, <2>2
<1>14. PICK total \in Nat : total = SumFunction(fades)
  BY <1>1, FadesAre
<1>15. PICK D \in Nat : D = Mime * total
  BY DebtIs
<1>16. PICK s0 \in Nat : s0 = SizeOf(room.history)
  BY RoomIs, SumsAreNat
<1>17. tracked <= rest + s0 /\ rest + s0 <= tracked + D
  BY <1>13, <1>14, <1>15, <1>16 DEF Inv
<1>18. PICK k \in Nat :
            /\ k = after.faded /\ after.tracked \in Nat
            /\ after.room \in RoomStates /\ Gated(after.room, posted + 1)
            /\ Charged(after.room, d + Mime * k)
            /\ Weigh(CountW, after.room.history) + k <= Weigh(CountW, room.history) + 1
            /\ after.tracked <= rest + SizeOf(after.room.history)
            /\ rest + SizeOf(after.room.history) <= after.tracked + (D + Mime * k)
  <2>1. after = add_message(room, m)
    BY <1>4, <1>6
  <2> QED
    BY <1>1, <1>3, <1>9, <1>13, <1>16, <1>17, <2>1, AddMessageIs
<1>19. /\ rooms' \in [Rooms -> RoomStates] /\ rooms'[r] = after.room
       /\ \A s \in Rooms \ {r} : rooms'[s] = rooms[s]
  BY <1>1, <1>5, <1>18
<1>20. /\ fades' \in [Rooms -> Nat] /\ fades'[r] = f + k
       /\ \A s \in Rooms \ {r} : fades'[s] = fades[s]
  <2>1. f + k \in Nat
    OBVIOUS
  <2>2. fades' = [fades EXCEPT ![r] = f + k]
    BY <1>5, <1>7, <1>18
  <2> QED
    BY <1>1, <2>1, <2>2
<1>21. posted' \in 0 .. MaxPosts
  BY <1>1, <1>5
<1>22. \A s \in Rooms : RoomKept(rooms'[s], fades'[s], posted')
  <2>1. RoomKept(rooms'[r], fades'[r], posted')
    <3>1. PICK c, e : c = Weigh(CountW, room.history) /\ e = Weigh(CountW, after.room.history)
      OBVIOUS
    <3>2. c \in Nat /\ e \in Nat
      BY <1>18, <3>1, RoomIs, SumsAreNat
    <3>3. f + c <= posted /\ e + k <= c + 1
      BY <1>9, <1>18, <3>1
    <3>4. (f + k) + e <= posted + 1
      BY <1>1, <3>2, <3>3
    <3>5. Mime * (f + k) = d + Mime * k
      BY <1>8, DebtIs
    <3>6. RoomKept(after.room, f + k, posted + 1)
      BY <1>18, <3>1, <3>4, <3>5 DEF RoomKept
    <3> QED
      BY <1>5, <1>19, <1>20, <3>6
  <2>2. \A s \in Rooms \ {r} : RoomKept(rooms'[s], fades'[s], posted')
    <3> SUFFICES ASSUME NEW s \in Rooms \ {r} PROVE RoomKept(rooms'[s], fades'[s], posted')
      OBVIOUS
    <3>1. PICK o \in RoomStates, g \in Nat : o = rooms[s] /\ g = fades[s]
      BY <1>1
    <3>2. RoomKept(o, g, posted + 1)
      BY <1>1, <3>1, KeptLater
    <3> QED
      BY <1>5, <1>19, <1>20, <3>1, <3>2
  <2> QED
    BY <2>1, <2>2
<1>23. PICK b : b = Sizes(rooms')
  OBVIOUS
<1>24. \A s \in Rooms : b[s] = SizeOf(rooms'[s].history) /\ b[s] \in Nat
  BY <1>19, <1>23, SizesAre
<1>25. Retained' = SumFunctionOnSet(b, Rooms)
  <2>1. DOMAIN [s \in Rooms |-> SizeOf(rooms'[s].history)] = Rooms
    OBVIOUS
  <2> QED
    BY <1>23, <2>1 DEF Retained, Sizes, SumFunction
<1>26. PICK s1 \in Nat : s1 = SizeOf(after.room.history)
  BY <1>18, RoomIs, SumsAreNat
<1>27. Retained' = s1 + rest
  <2>1. SumFunctionOnSet(b, Rooms) = b[r] + SumFunctionOnSet(b, Rooms \ {r})
    <3>1. \A s \in Rooms : b[s] \in Int
      BY <1>24
    <3> QED
      BY <1>1, <3>1, SumTake
  <2>2. SumFunctionOnSet(b, Rooms \ {r}) = rest
    <3>1. IsFiniteSet(Rooms \ {r}) /\ \A s \in Rooms \ {r} : a[s] \in Int /\ b[s] = a[s]
      BY <1>1, <1>11, <1>19, <1>24, FS_Subset
    <3> QED
      BY <1>12, <3>1, SumSame
  <2> QED
    BY <1>19, <1>24, <1>25, <1>26, <2>1, <2>2
<1>28. SumFunction(fades') = total + k
  <2>1. \A s \in Rooms : fades[s] \in Int
    BY <1>1
  <2>2. fades'[r] \in Int /\ \A s \in Rooms \ {r} : fades'[s] = fades[s]
    BY <1>20
  <2>3. PICK g : g = fades'
    OBVIOUS
  <2>4. SumFunctionOnSet(g, Rooms) = SumFunctionOnSet(fades, Rooms) + (g[r] - fades[r])
    BY <1>1, <2>1, <2>2, <2>3, SumChange
  <2>5. /\ SumFunction(g) = SumFunctionOnSet(g, Rooms)
        /\ SumFunction(fades) = SumFunctionOnSet(fades, Rooms)
    BY <1>1, <1>20, <2>3, FadesAre
  <2>6. g[r] - fades[r] = k
    BY <1>7, <1>20, <2>3
  <2> QED
    BY <1>14, <2>3, <2>4, <2>5, <2>6
<1>29. Mime * SumFunction(fades') = D + Mime * k
  BY <1>15, <1>28, DebtIs
<1>30. PICK t \in Nat : t = after.tracked
  BY <1>18
<1>31. t <= rest + s1 /\ rest + s1 <= t + (D + Mime * k)
  BY <1>18, <1>26, <1>30
<1>32. t <= Retained' /\ Retained' <= t + Mime * SumFunction(fades')
  BY <1>13, <1>27, <1>29, <1>31
<1>33. tracked' = t
  BY <1>5, <1>30
<1>34. /\ tracked' \in Nat /\ tracked' <= Retained'
       /\ Retained' <= tracked' + Mime * SumFunction(fades')
  BY <1>32, <1>33
<1> QED
  BY <1>19, <1>20, <1>21, <1>22, <1>34 DEF Inv

\* A reaction is on a message of the room.
LEMMA ToggleKeeps ==
  ASSUME Inv, NEW r \in Rooms, NEW id \in rooms[r].message_ids, NEW e \in Emojis,
         NEW u \in Reactors, toggle_reaction(r, id, e, u)
  PROVE  Inv'
<1>1. /\ rooms \in [Rooms -> RoomStates] /\ fades \in [Rooms -> Nat]
      /\ \A s \in Rooms : RoomKept(rooms[s], fades[s], posted)
  BY DEF Inv
<1>2. PICK room \in RoomStates : room = rooms[r]
  BY <1>1
<1>3. PICK x : x = [id |-> id, emoji |-> e, by |-> u]
  OBVIOUS
<1>4. x \in Marks /\ x.id \in room.message_ids
  BY <1>2, <1>3, RoomIs DEF Marks
<1>5. PICK y : y = IF x \in room.reactions THEN room.reactions \ {x}
                   ELSE room.reactions \cup {x}
  OBVIOUS
<1>6. y \in SUBSET Marks /\ \A z \in y : z \in room.reactions \/ z = x
  BY <1>4, <1>5, RoomIs
<1>7. PICK o : o = [room EXCEPT !.reactions = y]
  OBVIOUS
<1>8. rooms' = [rooms EXCEPT ![r] = o] /\ UNCHANGED <<tracked, posted, fades>>
  BY <1>2, <1>3, <1>5, <1>7 DEF toggle_reaction
<1>9. /\ o \in RoomStates /\ o.history = room.history /\ o.message_ids = room.message_ids
      /\ o.reactions = y /\ o.total_memory_bytes = room.total_memory_bytes
      /\ o.attachment_bytes = room.attachment_bytes
  BY <1>6, <1>7 DEF RoomStates
<1>10. RoomKept(o, fades[r], posted)
  <2>1. RoomKept(room, fades[r], posted)
    BY <1>1, <1>2
  <2>2. Gated(o, posted)
    BY <1>4, <1>6, <1>9, <2>1 DEF RoomKept, Gated
  <2>3. Charged(o, Mime * fades[r])
    BY <1>9, <2>1 DEF RoomKept, Charged
  <2> QED
    BY <1>9, <2>1, <2>2, <2>3 DEF RoomKept
<1>11. /\ rooms' \in [Rooms -> RoomStates] /\ rooms'[r] = o
       /\ \A s \in Rooms \ {r} : rooms'[s] = rooms[s]
  BY <1>1, <1>8, <1>9
<1>12. \A s \in Rooms : rooms'[s].history = rooms[s].history
  BY <1>2, <1>9, <1>11
<1>13. \A s \in Rooms : RoomKept(rooms'[s], fades[s], posted)
  BY <1>1, <1>10, <1>11
<1>14. Retained' = Retained
  BY <1>12 DEF Retained
<1> QED
  BY <1>8, <1>11, <1>13, <1>14 DEF Inv

\* Steps that only let messages go, and their bytes with them.
LEMMA ReleaseKeeps ==
  ASSUME Inv, NEW all \in [Rooms -> RoomStates], NEW gone,
         \A r \in Rooms : /\ gone[r] \in Nat
                          /\ SizeOf(rooms[r].history) = gone[r] + SizeOf(all[r].history)
                          /\ RoomKept(all[r], fades[r], posted),
         rooms' = all, tracked' = Minus(tracked, SumFunctionOnSet(gone, Rooms)),
         UNCHANGED <<posted, fades>>
  PROVE  Inv'
<1>1. PICK g : g = SumFunctionOnSet(gone, Rooms)
  OBVIOUS
<1>2. \A r \in Rooms : /\ gone[r] \in Nat
                       /\ SizeOf(rooms[r].history) = gone[r] + SizeOf(all[r].history)
  OBVIOUS
<1>3. /\ Minus(tracked, g) \in Nat
      /\ Minus(tracked, g) <= SumFunctionOnSet(Sizes(all), Rooms)
      /\ SumFunctionOnSet(Sizes(all), Rooms) <= Minus(tracked, g) + Mime * SumFunction(fades)
  BY <1>1, <1>2, Released
<1>4. Retained' = SumFunctionOnSet(Sizes(all), Rooms)
  <2>1. DOMAIN [s \in Rooms |-> SizeOf(all[s].history)] = Rooms
    OBVIOUS
  <2> QED
    BY <2>1 DEF Retained, Sizes, SumFunction
<1>5. tracked' = Minus(tracked, g)
  BY <1>1
<1> QED
  BY <1>3, <1>4, <1>5 DEF Inv

\* A room trimmed to its newest messages stays kept, and no larger.
LEMMA RetainKeeps ==
  ASSUME NEW room \in RoomStates, NEW p \in Nat, NEW f \in Nat, RoomKept(room, f, p),
         NEW keep \in Nat, NEW r, r = retain_newest(room, keep)
  PROVE  /\ r \in RoomStates /\ RoomKept(r, f, p)
         /\ SizeOf(r.history) \in Nat /\ SizeOf(room.history) - SizeOf(r.history) \in Nat
         /\ SizeOf(room.history) = (SizeOf(room.history) - SizeOf(r.history)) + SizeOf(r.history)
<1>1. PICK d \in Nat : d = Mime * f
  BY DebtIs
<1>2. Gated(room, p) /\ Charged(room, d)
  BY <1>1 DEF RoomKept
<1>3. /\ r \in RoomStates /\ Gated(r, p) /\ Charged(r, d)
      /\ SizeOf(r.history) <= SizeOf(room.history)
      /\ Weigh(CountW, r.history) <= Weigh(CountW, room.history)
  BY <1>2, RetainIs
<1>4. RoomKept(r, f, p)
  BY <1>1, <1>3, KeptOn
<1>5. PICK a, b \in Nat : a = SizeOf(room.history) /\ b = SizeOf(r.history)
  BY <1>3, RoomIs, SumsAreNat
<1>6. b \in Nat /\ a - b \in Nat /\ a = (a - b) + b
  BY <1>3, <1>5
<1> QED
  BY <1>3, <1>4, <1>5, <1>6

\* trim_to_max_messages gives the tracker the difference.
LEMMA TrimKeeps ==
  ASSUME Inv, NEW r \in Rooms, trim_to_max_messages(r)
  PROVE  Inv'
<1>1. /\ rooms \in [Rooms -> RoomStates] /\ fades \in [Rooms -> Nat] /\ posted \in Nat
      /\ IsFiniteSet(Rooms) /\ MaxMessages \in Nat
      /\ \A s \in Rooms : RoomKept(rooms[s], fades[s], posted)
  BY Constants DEF Inv
<1>2. PICK kept : kept = retain_newest(rooms[r], MaxMessages)
  OBVIOUS
<1>3. PICK diff : diff = SizeOf(rooms[r].history) - SizeOf(kept.history)
  OBVIOUS
<1>4. /\ rooms' = [rooms EXCEPT ![r] = kept] /\ tracked' = Minus(tracked, diff)
      /\ UNCHANGED <<posted, fades>>
  BY <1>2, <1>3 DEF trim_to_max_messages
<1>5. /\ kept \in RoomStates /\ RoomKept(kept, fades[r], posted)
      /\ diff \in Nat /\ SizeOf(rooms[r].history) = diff + SizeOf(kept.history)
  <2>1. PICK room \in RoomStates, f \in Nat : room = rooms[r] /\ f = fades[r]
    BY <1>1
  <2>2. RoomKept(room, f, posted) /\ kept = retain_newest(room, MaxMessages)
    BY <1>1, <1>2, <2>1
  <2>3. /\ kept \in RoomStates /\ RoomKept(kept, f, posted)
        /\ SizeOf(room.history) - SizeOf(kept.history) \in Nat
        /\ SizeOf(room.history)
             = (SizeOf(room.history) - SizeOf(kept.history)) + SizeOf(kept.history)
    BY <1>1, <2>2, RetainKeeps
  <2> QED
    BY <1>3, <2>1, <2>3
<1>6. PICK all : all = [rooms EXCEPT ![r] = kept]
  OBVIOUS
<1>7. /\ all \in [Rooms -> RoomStates] /\ all[r] = kept
      /\ \A s \in Rooms \ {r} : all[s] = rooms[s]
  BY <1>1, <1>5, <1>6
<1>8. PICK gone : gone = [s \in Rooms |-> IF s = r THEN diff ELSE 0]
  OBVIOUS
<1>9. gone[r] = diff /\ \A s \in Rooms \ {r} : gone[s] = 0
  BY <1>8
<1>10. \A s \in Rooms : /\ gone[s] \in Nat
                        /\ SizeOf(rooms[s].history) = gone[s] + SizeOf(all[s].history)
                        /\ RoomKept(all[s], fades[s], posted)
  <2> TAKE s \in Rooms
  <2>1. CASE s = r
    BY <1>5, <1>7, <1>9, <2>1
  <2>2. CASE s # r
    <3>1. gone[s] = 0 /\ all[s] = rooms[s]
      BY <1>7, <1>9, <2>2
    <3>2. SizeOf(rooms[s].history) \in Nat
      BY <1>1, RoomIs, SumsAreNat
    <3>3. SizeOf(rooms[s].history) = 0 + SizeOf(rooms[s].history)
      BY <3>2
    <3> QED
      BY <1>1, <3>1, <3>3
  <2> QED
    BY <2>1, <2>2
<1>11. SumFunctionOnSet(gone, Rooms) = diff
  <2>1. SumFunctionOnSet(gone, Rooms) = gone[r] + SumFunctionOnSet(gone, Rooms \ {r})
    <3>1. \A s \in Rooms : gone[s] \in Int
      BY <1>10
    <3> QED
      BY <1>1, <3>1, SumTake
  <2>2. SumFunctionOnSet(gone, Rooms \ {r}) = 0
    <3>1. IsFiniteSet(Rooms \ {r})
      BY <1>1, FS_Subset
    <3> QED
      BY <1>9, <3>1, SumZero
  <2> QED
    BY <1>5, <1>9, <2>1, <2>2
<1>12. rooms' = all /\ tracked' = Minus(tracked, SumFunctionOnSet(gone, Rooms))
  BY <1>4, <1>6, <1>11
<1> QED
  BY <1>4, <1>7, <1>10, <1>12, ReleaseKeeps

\* cleanup_rooms gives back the trimmed histories and what was left of the deleted.
LEMMA CleanupRoomsKeeps ==
  ASSUME Inv, NEW mainIdle \in BOOLEAN, NEW abandoned \in SUBSET (Rooms \ {Main}),
         cleanup_rooms(mainIdle, abandoned)
  PROVE  Inv'
<1>1. /\ rooms \in [Rooms -> RoomStates] /\ fades \in [Rooms -> Nat] /\ posted \in Nat
      /\ IsFiniteSet(Rooms) /\ MaxMessages \in Nat /\ FadeKeep \in Nat
      /\ \A s \in Rooms : RoomKept(rooms[s], fades[s], posted)
  BY Constants DEF Inv
<1> DEFINE target(r) == IF r = Main /\ mainIdle THEN FadeKeep ELSE MaxMessages
<1>2. PICK kept : kept = [r \in Rooms |-> retain_newest(rooms[r], target(r))]
  OBVIOUS
<1>3. PICK cut : cut = [r \in Rooms |-> SizeOf(rooms[r].history) - SizeOf(kept[r].history)]
  OBVIOUS
<1>4. PICK left : left = [r \in abandoned |-> SizeOf(kept[r].history)]
  OBVIOUS
<1>5. PICK all : all = [r \in Rooms |-> IF r \in abandoned THEN EmptyRoom ELSE kept[r]]
  OBVIOUS
<1>6. /\ rooms' = all /\ tracked' = Minus(tracked, SumFunction(cut) + SumFunction(left))
      /\ UNCHANGED <<posted, fades>>
  BY <1>2, <1>3, <1>4, <1>5 DEF cleanup_rooms
<1>7. \A r \in Rooms :
          /\ kept[r] \in RoomStates /\ RoomKept(kept[r], fades[r], posted)
          /\ cut[r] = SizeOf(rooms[r].history) - SizeOf(kept[r].history)
          /\ cut[r] \in Nat /\ SizeOf(kept[r].history) \in Nat
          /\ SizeOf(rooms[r].history) = cut[r] + SizeOf(kept[r].history)
  <2> TAKE r \in Rooms
  <2>1. PICK room \in RoomStates, f \in Nat : room = rooms[r] /\ f = fades[r]
    BY <1>1
  <2>2. PICK n \in Nat : n = target(r)
    BY <1>1
  <2>3. PICK k : k = kept[r]
    OBVIOUS
  <2>4. RoomKept(room, f, posted) /\ k = retain_newest(room, n)
    BY <1>1, <1>2, <2>1, <2>2, <2>3
  <2>5. /\ k \in RoomStates /\ RoomKept(k, f, posted) /\ SizeOf(k.history) \in Nat
        /\ SizeOf(room.history) - SizeOf(k.history) \in Nat
        /\ SizeOf(room.history) = (SizeOf(room.history) - SizeOf(k.history)) + SizeOf(k.history)
    BY <1>1, <2>4, RetainKeeps
  <2>6. cut[r] = SizeOf(room.history) - SizeOf(k.history)
    BY <1>3, <2>1, <2>3
  <2> QED
    BY <2>1, <2>3, <2>5, <2>6
<1>8. /\ \A r \in abandoned : all[r] = EmptyRoom /\ r \in Rooms
      /\ \A r \in Rooms \ abandoned : all[r] = kept[r]
  BY <1>5
<1>9. \A r \in Rooms : /\ EmptyRoom \in RoomStates /\ RoomKept(EmptyRoom, fades[r], posted)
                       /\ SizeOf(EmptyRoom.history) = 0
  <2> TAKE r \in Rooms
  <2>1. PICK room \in RoomStates, f \in Nat : room = rooms[r] /\ f = fades[r]
    BY <1>1
  <2>2. PICK c \in Nat : c = Weigh(CountW, room.history)
    BY RoomIs, SumsAreNat
  <2>3. f + c <= posted
    BY <1>1, <2>1, <2>2 DEF RoomKept
  <2>4. f <= posted
    BY <1>1, <2>3
  <2> QED
    BY <1>1, <2>1, <2>4, EmptyRoomIs
<1>10. all \in [Rooms -> RoomStates]
  BY <1>5, <1>7, <1>9
<1>11. PICK let : let = [r \in Rooms |-> IF r \in abandoned THEN SizeOf(kept[r].history) ELSE 0]
  OBVIOUS
<1>12. \A r \in Rooms : let[r] \in Nat
  BY <1>7, <1>11
<1>13. PICK gone : gone = [r \in Rooms |-> cut[r] + let[r]]
  OBVIOUS
<1>14. \A r \in Rooms : /\ gone[r] \in Nat
                        /\ SizeOf(rooms[r].history) = gone[r] + SizeOf(all[r].history)
                        /\ RoomKept(all[r], fades[r], posted)
  <2> TAKE r \in Rooms
  <2>1. PICK c, k, s : c = cut[r] /\ k = SizeOf(kept[r].history) /\ s = SizeOf(rooms[r].history)
    OBVIOUS
  <2>2. c \in Nat /\ k \in Nat /\ s = c + k
    BY <1>7, <2>1
  <2>3. CASE r \in abandoned
    <3>1. gone[r] = c + k /\ SizeOf(all[r].history) = 0
      BY <1>8, <1>9, <1>11, <1>13, <2>1, <2>3
    <3>2. c + k \in Nat /\ s = (c + k) + 0
      BY <2>2
    <3> QED
      BY <1>8, <1>9, <2>1, <2>3, <3>1, <3>2
  <2>4. CASE r \notin abandoned
    <3>1. gone[r] = c + 0 /\ SizeOf(all[r].history) = k
      BY <1>8, <1>11, <1>13, <2>1, <2>4
    <3>2. c + 0 \in Nat /\ s = (c + 0) + k
      BY <2>2
    <3> QED
      BY <1>7, <1>8, <2>1, <2>4, <3>1, <3>2
  <2> QED
    BY <2>3, <2>4
<1>15. SumFunctionOnSet(gone, Rooms) = SumFunctionOnSet(cut, Rooms) + SumFunctionOnSet(let, Rooms)
  <2>1. \A r \in Rooms : cut[r] \in Int /\ let[r] \in Int /\ gone[r] = cut[r] + let[r]
    BY <1>7, <1>12, <1>13
  <2> QED
    BY <1>1, <2>1, SumPlus
<1>16. SumFunctionOnSet(let, Rooms) = SumFunctionOnSet(left, abandoned)
  <2>1. abandoned \in SUBSET Rooms /\ IsFiniteSet(abandoned) /\ IsFiniteSet(Rooms \ abandoned)
    BY <1>1, FS_Subset
  <2>2. \A r \in Rooms : let[r] \in Int
    BY <1>12
  <2>3. SumFunctionOnSet(let, Rooms)
          = SumFunctionOnSet(let, abandoned) + SumFunctionOnSet(let, Rooms \ abandoned)
    BY <1>1, <2>1, <2>2, SumUnion
  <2>4. SumFunctionOnSet(let, Rooms \ abandoned) = 0
    <3>1. \A r \in Rooms \ abandoned : let[r] = 0
      BY <1>11
    <3> QED
      BY <2>1, <3>1, SumZero
  <2>5. SumFunctionOnSet(let, abandoned) = SumFunctionOnSet(left, abandoned)
    <3>1. \A r \in abandoned : left[r] \in Int /\ let[r] = left[r]
      BY <1>4, <1>7, <1>11, <2>1
    <3> QED
      BY <2>1, <3>1, SumSame
  <2>6. SumFunctionOnSet(let, abandoned) \in Nat
    BY <1>12, <2>1, SumNat
  <2>7. PICK x, y : x = SumFunctionOnSet(let, Rooms) /\ y = SumFunctionOnSet(let, abandoned)
    OBVIOUS
  <2>8. x = y + 0 /\ y \in Nat
    BY <2>3, <2>4, <2>6, <2>7
  <2> QED
    BY <2>5, <2>7, <2>8
<1>17. DOMAIN cut = Rooms /\ DOMAIN left = abandoned
  BY <1>3, <1>4
<1>18. tracked' = Minus(tracked, SumFunctionOnSet(gone, Rooms))
  BY <1>6, <1>15, <1>16, <1>17 DEF SumFunction
<1> QED
  BY <1>6, <1>10, <1>14, <1>18, ReleaseKeeps

\* AppState::cleanup gives back the aged messages of every room at once.
LEMMA TriggerCleanupKeeps ==
  ASSUME Inv, NEW aged \in [Rooms -> 0 .. MaxPosts], trigger_cleanup(aged)
  PROVE  Inv'
<1>1. /\ rooms \in [Rooms -> RoomStates] /\ fades \in [Rooms -> Nat] /\ posted \in Nat
      /\ Batch \in Nat /\ MaxPosts \in Nat
      /\ \A s \in Rooms : RoomKept(rooms[s], fades[s], posted)
  BY Constants DEF Inv
<1> DEFINE drop(r) == IF rooms[r].total_memory_bytes > SoftLimit
                      THEN IF aged[r] > Batch THEN Batch ELSE aged[r] ELSE 0
<1>2. PICK all : all = [r \in Rooms |-> cleanup_messages(rooms[r], drop(r))]
  OBVIOUS
<1>3. PICK gone : gone = [r \in Rooms |-> SizeOf(SubSeq(rooms[r].history, 1, drop(r)))]
  OBVIOUS
<1>4. /\ \A r \in Rooms : aged[r] <= Len(rooms[r].history)
      /\ rooms' = all /\ tracked' = Minus(tracked, SumFunction(gone))
      /\ UNCHANGED <<posted, fades>>
  BY <1>2, <1>3 DEF trigger_cleanup
<1>5. \A r \in Rooms :
          /\ all[r] \in RoomStates /\ RoomKept(all[r], fades[r], posted)
          /\ gone[r] \in Nat /\ SizeOf(rooms[r].history) = gone[r] + SizeOf(all[r].history)
  <2> TAKE r \in Rooms
  <2>1. PICK room \in RoomStates, f \in Nat : room = rooms[r] /\ f = fades[r]
    BY <1>1
  <2>2. PICK n : n = drop(r)
    OBVIOUS
  <2>3. PICK h : h = room.history
    OBVIOUS
  <2>4. h \in Seq(Messages) /\ Len(h) \in Nat
    BY <2>3, RoomIs, LenProperties
  <2>5. n \in 0 .. Len(h)
    <3>1. aged[r] \in Nat /\ aged[r] <= Len(h)
      BY <1>1, <1>4, <2>1, <2>3
    <3> QED
      BY <1>1, <2>2, <2>4, <3>1
  <2>6. PICK k : k = all[r]
    OBVIOUS
  <2>7. k = cleanup_messages(room, n)
    BY <1>2, <2>1, <2>2, <2>6
  <2>8. gone[r] = SizeOf(SubSeq(h, 1, n))
    BY <1>3, <2>1, <2>2, <2>3
  <2>9. SubSeq(h, 1, n) \in Seq(Messages)
    BY <2>4, <2>5, PartsAre
  <2>10. RoomKept(room, f, posted)
    BY <1>1, <2>1
  <2>11. PICK d \in Nat : d = Mime * f
    BY DebtIs
  <2>12. Gated(room, posted) /\ Charged(room, d)
    BY <2>10, <2>11 DEF RoomKept
  <2>13. CASE n = 0
    <3>1. k = room
      BY <2>7, <2>13 DEF cleanup_messages
    <3>2. SubSeq(h, 1, 0) = <<>>
      BY <2>4
    <3>3. gone[r] = 0
      <4>1. <<>> \in Seq(Messages)
        OBVIOUS
      <4>2. SizeOf(<<>>) = 0
        BY <4>1, SizeOfIs, WeighNothing
      <4> QED
        BY <2>8, <2>13, <3>2, <4>2
    <3>4. SizeOf(room.history) \in Nat
      BY RoomIs, SumsAreNat
    <3>5. SizeOf(room.history) = 0 + SizeOf(room.history)
      BY <3>4
    <3> QED
      BY <2>1, <2>6, <2>10, <3>1, <3>3, <3>5
  <2>14. CASE n # 0
    <3>1. k = recompute_memory(DropOldest(room, n))
      BY <2>7, <2>14 DEF cleanup_messages
    <3>2. /\ k \in RoomStates /\ Gated(k, posted) /\ Charged(k, d)
          /\ SizeOf(room.history) = SizeOf(SubSeq(room.history, 1, n)) + SizeOf(k.history)
          /\ Weigh(CountW, k.history) <= Weigh(CountW, room.history)
      BY <2>3, <2>5, <2>12, <3>1, CountedDropIs
    <3>3. RoomKept(k, f, posted)
      BY <1>1, <2>10, <2>11, <3>2, KeptOn
    <3>4. gone[r] \in Nat
      BY <2>8, <2>9, SumsAreNat
    <3> QED
      BY <2>1, <2>3, <2>6, <2>8, <3>2, <3>3, <3>4
  <2> QED
    BY <2>13, <2>14
<1>6. all \in [Rooms -> RoomStates]
  BY <1>2, <1>5
<1>7. DOMAIN gone = Rooms
  BY <1>3
<1>8. tracked' = Minus(tracked, SumFunctionOnSet(gone, Rooms))
  BY <1>4, <1>7 DEF SumFunction
<1>9. \A r \in Rooms : /\ gone[r] \in Nat
                       /\ SizeOf(rooms[r].history) = gone[r] + SizeOf(all[r].history)
                       /\ RoomKept(all[r], fades[r], posted)
  BY <1>5
<1> QED
  BY <1>4, <1>6, <1>8, <1>9, ReleaseKeeps

\* The invariant, of every reachable state: no order of posts, reactions, trimming
\* and cleaning makes a counter lack more than faded MIME types.
THEOREM InvHolds == Spec => []Inv
<1>1. Inv /\ [Next]_vars => Inv'
  <2> SUFFICES ASSUME Inv, [Next]_vars PROVE Inv'
    OBVIOUS
  <2>1. CASE UNCHANGED vars
    BY <2>1 DEF vars, Inv, Retained
  <2>2. ASSUME NEW r \in Rooms, NEW picture \in Pictures \cup {NoPicture}, Post(r, picture)
        PROVE  Inv'
    BY <2>2, PostKeeps
  <2>3. ASSUME NEW r \in Rooms, NEW id \in rooms[r].message_ids, NEW e \in Emojis,
               NEW u \in Reactors, toggle_reaction(r, id, e, u)
        PROVE  Inv'
    BY <2>3, ToggleKeeps
  <2>4. ASSUME NEW r \in Rooms, trim_to_max_messages(r)
        PROVE  Inv'
    BY <2>4, TrimKeeps
  <2>5. ASSUME NEW mainIdle \in BOOLEAN, NEW abandoned \in SUBSET (Rooms \ {Main}),
               cleanup_rooms(mainIdle, abandoned)
        PROVE  Inv'
    BY <2>5, CleanupRoomsKeeps
  <2>6. ASSUME NEW aged \in [Rooms -> 0 .. MaxPosts], trigger_cleanup(aged)
        PROVE  Inv'
    BY <2>6, TriggerCleanupKeeps
  <2> QED
    BY <2>1, <2>2, <2>3, <2>4, <2>5, <2>6 DEF Next
<1> QED
  BY <1>1, InitInv, PTL DEF Spec

\* The counters and histories keep their types: no counter of a room leaves Nat,
\* attachment_bytes included, which fading lowers unchecked (room/messages.rs).
THEOREM TypeCorrect == Spec => []TypeOK
<1>1. Inv => TypeOK
  <2> SUFFICES ASSUME Inv PROVE TypeOK
    OBVIOUS
  <2>1. /\ rooms \in [Rooms -> RoomStates] /\ fades \in [Rooms -> Nat]
        /\ posted \in 0 .. MaxPosts /\ tracked \in Nat
        /\ \A r \in Rooms : RoomKept(rooms[r], fades[r], posted)
    BY DEF Inv
  <2>2. \A r \in Rooms :
          /\ rooms[r].history \in Seq([id : 1 .. posted, kind : {"none", "shown", "faded"},
                                       data : DataSizes \cup {0}])
          /\ rooms[r].total_memory_bytes \in Nat /\ rooms[r].attachment_bytes \in Nat
          /\ fades[r] <= posted
    <3> TAKE r \in Rooms
    <3>1. PICK room \in RoomStates, f \in Nat : room = rooms[r] /\ f = fades[r]
      BY <2>1
    <3>2. PICK h : h = room.history
      OBVIOUS
    <3>3. /\ h \in Seq(Messages) /\ DOMAIN h = 1 .. Len(h) /\ Len(h) \in Nat
          /\ \A i \in DOMAIN h : h[i] \in Messages
      BY <3>2, RoomIs, DomainIs
    <3> DEFINE T == [id : 1 .. posted, kind : {"none", "shown", "faded"},
                     data : DataSizes \cup {0}]
    <3>4. \A i \in 1 .. Len(h) : h[i] \in T
      <4> TAKE i \in 1 .. Len(h)
      <4>1. h[i] \in Messages
        BY <3>3
      <4>2. h[i].id <= posted
        BY <2>1, <3>1, <3>2, <3>3 DEF RoomKept, Gated
      <4>3. h[i].id \in Nat \ {0}
        BY <4>1, MessageIs
      <4>4. h[i].id \in 1 .. posted
        <5>1. posted \in Int
          BY <2>1
        <5> QED
          BY <4>2, <4>3, <5>1
      <4> QED
        BY <4>1, <4>4 DEF Messages
    <3>5. h \in Seq(T)
      <4> HIDE DEF T
      <4> QED
        BY <3>3, <3>4
    <3>6. PICK c \in Nat : c = Weigh(CountW, h)
      BY <3>3, SumsAreNat
    <3>7. f + c <= posted
      BY <2>1, <3>1, <3>2, <3>6 DEF RoomKept
    <3>8. f <= posted
      BY <2>1, <3>7
    <3>9. room.total_memory_bytes \in Nat /\ room.attachment_bytes \in Nat
      BY RoomIs
    <3> QED
      BY <3>1, <3>2, <3>5, <3>8, <3>9
  <2>3. fades \in [Rooms -> 0 .. posted]
    <3>1. \A r \in Rooms : fades[r] \in 0 .. posted
      BY <2>1, <2>2
    <3> QED
      BY <2>1, <3>1
  <2> QED
    BY <2>1, <2>2, <2>3 DEF TypeOK
<1> QED
  BY <1>1, InvHolds, PTL

\* Reactions belong to messages the room still holds, and the gate set is theirs,
\* after any order of removals (room/reactions.rs, forget_reactions_for).
THEOREM ReactionsFollowTheirMessages == Spec => []ReactionsBelongToHistory
<1>1. Inv => ReactionsBelongToHistory
  BY DEF Inv, RoomKept, Gated, ReactionsBelongToHistory
<1> QED
  BY <1>1, InvHolds, PTL

\* The tracker and each room's total lack no more than faded MIME types of what is
\* retained, and never exceed it (limits/memory.rs, cleanup.rs).
THEOREM ChargesMatch == Spec => []TrackerAccounts
<1>1. Inv => TrackerAccounts
  <2> SUFFICES ASSUME Inv PROVE TrackerAccounts
    OBVIOUS
  <2>1. /\ rooms \in [Rooms -> RoomStates] /\ fades \in [Rooms -> Nat] /\ tracked \in Nat
        /\ \A r \in Rooms : RoomKept(rooms[r], fades[r], posted)
    BY DEF Inv
  <2>2. PICK kept \in Nat : kept = Mime * SumFunction(fades)
    BY <2>1, FadesAre, DebtIs
  <2>3. PICK all \in Nat : all = Retained
    BY <2>1, SizesAre, RetainedIs
  <2>4. tracked <= all /\ all <= tracked + kept
    BY <2>2, <2>3 DEF Inv
  <2>5. tracked \in Minus(all, kept) .. all
    BY <2>1, <2>4 DEF Minus
  <2>6. \A r \in Rooms : rooms[r].total_memory_bytes
             \in Minus(SizeOf(rooms[r].history), Mime * fades[r]) .. SizeOf(rooms[r].history)
    <3> TAKE r \in Rooms
    <3>1. PICK room \in RoomStates, f \in Nat : room = rooms[r] /\ f = fades[r]
      BY <2>1
    <3>2. PICK d \in Nat : d = Mime * f
      BY DebtIs
    <3>3. PICK t, s \in Nat : t = room.total_memory_bytes /\ s = SizeOf(room.history)
      BY RoomIs, SumsAreNat
    <3>4. t <= s /\ s <= t + d
      BY <2>1, <3>1, <3>2, <3>3 DEF RoomKept, Charged
    <3>5. t \in Minus(s, d) .. s
      BY <3>4 DEF Minus
    <3> QED
      BY <3>1, <3>2, <3>3, <3>5
  <2> QED
    BY <2>2, <2>3, <2>5, <2>6 DEF TrackerAccounts
<1> QED
  BY <1>1, InvHolds, PTL

\* The pictures a room still shows stay within its budget but for the MIME types of
\* those it has faded (room/messages.rs, fade_oldest_attachments).
THEOREM PicturesStayWithinBudget == Spec => []PicturesWithinBudget
<1>1. Inv => PicturesWithinBudget
  BY DEF Inv, RoomKept, Charged, PicturesWithinBudget
<1> QED
  BY <1>1, InvHolds, PTL

=============================================================================
