---------------------------- MODULE LayerProofs ----------------------------
(***************************************************************************)
(* The chain of Circuit 2, for every width of the window and every         *)
(* thinning factor that divides it: a mirror that holds the newest root of *)
(* every layer can prove the next key block, and in a self-verify build a  *)
(* mirror that has skipped a key block never gets on.                      *)
(***************************************************************************)
EXTENDS MirrorProofs, FiniteSetTheorems

USE ChainAssumption

-----------------------------------------------------------------------------
(* Induction over an interval, by the pigeonhole principle: a set that has 0
   and the successor of each of its members below n has all of 0 .. n. *)
LEMMA IntervalInduction ==
  ASSUME NEW n \in Nat, NEW T, 0 \in T, \A i \in 0 .. n : i < n /\ i \in T => i + 1 \in T
  PROVE  0 .. n \subseteq T
<1>. SUFFICES ASSUME NEW m \in 0 .. n, m \notin T PROVE FALSE
  OBVIOUS
<1> DEFINE S == {i \in 0 .. m : i \in T}
           R == S \ {0}
           f == [i \in S |-> i + 1]
<1>1. IsFiniteSet(S) /\ Cardinality(S) \in Nat
  <2>1. IsFiniteSet(0 .. m)
    BY FS_Interval
  <2>2. S \in SUBSET (0 .. m)
    OBVIOUS
  <2>3. IsFiniteSet(S)
    BY <2>1, <2>2, FS_Subset
  <2>. QED  BY <2>3, FS_CardinalityType
<1>2. 0 \in S
  OBVIOUS
<1>3. IsFiniteSet(R) /\ Cardinality(R) = Cardinality(S) - 1
  BY <1>1, <1>2, FS_RemoveElement
<1>4. f \in [S -> R]
  <2>. SUFFICES ASSUME NEW i \in S PROVE i + 1 \in R
    OBVIOUS
  <2>. QED  OBVIOUS
<1>5. \E x, y \in S : x # y /\ f[x] = f[y]
  <2>. HIDE DEF S, R, f
  <2>. QED  BY <1>1, <1>3, <1>4, FS_PigeonHole
<1>. QED  BY <1>5

-----------------------------------------------------------------------------
(* The powers of W. *)

LEMMA SpansRecursive ==
  spans = [l \in 0 .. MaxLayers |-> IF l = 0 THEN 1 ELSE W * spans[l - 1]]
<1> DEFINE Powers(n, g) == \A l \in 0 .. n : g[l] = IF l = 0 THEN 1 ELSE W * g[l - 1]
           T == {n \in 0 .. MaxLayers : \E g \in [0 .. n -> Nat] : Powers(n, g)}
<1>1. 0 \in T
  <2> DEFINE g == [l \in 0 .. 0 |-> 1]
  <2>1. g \in [0 .. 0 -> Nat] /\ Powers(0, g)
    OBVIOUS
  <2>2. \E h \in [0 .. 0 -> Nat] : Powers(0, h)
    <3>. HIDE DEF g, Powers
    <3>. QED  BY <2>1
  <2>. QED  BY <2>2
<1>2. ASSUME NEW n \in 0 .. MaxLayers, n < MaxLayers, n \in T PROVE n + 1 \in T
  <2>1. PICK g \in [0 .. n -> Nat] : Powers(n, g)
    BY <1>2
  <2> DEFINE h == [l \in 0 .. n + 1 |-> IF l = n + 1 THEN W * g[n] ELSE g[l]]
  <2>2. h \in [0 .. n + 1 -> Nat]
    OBVIOUS
  <2>3. Powers(n + 1, h)
    BY <2>1
  <2>4. \E k \in [0 .. n + 1 -> Nat] : Powers(n + 1, k)
    <3>. HIDE DEF h, Powers
    <3>. QED  BY <2>2, <2>3
  <2>5. n + 1 \in 0 .. MaxLayers
    BY <1>2
  <2>. QED  BY <2>4, <2>5
<1>3. 0 .. MaxLayers \subseteq T
  <2>. HIDE DEF T
  <2>. QED  BY <1>1, <1>2, IntervalInduction
<1>4. PICK g \in [0 .. MaxLayers -> Nat] : Powers(MaxLayers, g)
  BY <1>3, MaxLayers \in 0 .. MaxLayers
<1>5. g = [l \in 0 .. MaxLayers |-> IF l = 0 THEN 1 ELSE W * g[l - 1]]
  BY <1>4
<1>. QED  BY <1>5 DEF spans

LEMMA SpanBase ==
  /\ Span(0) = 1 /\ Span(1) = W
  /\ \A l \in Layers : Span(l) = W * Span(l - 1)
<1>1. \A l \in 0 .. MaxLayers : spans[l] = IF l = 0 THEN 1 ELSE W * spans[l - 1]
  BY SpansRecursive
<1>2. spans[0] = 1
  BY <1>1
<1>3. spans[1] = W * spans[0]
  BY <1>1
<1>. QED  BY <1>1, <1>2, <1>3 DEF Span, Layers

LEMMA SpanType ==
  \A l \in 0 .. MaxLayers : Span(l) \in Nat \ {0}
<1> DEFINE T == {l \in 0 .. MaxLayers : Span(l) \in Nat \ {0}}
<1>1. 0 \in T
  BY SpanBase
<1>2. ASSUME NEW n \in 0 .. MaxLayers, n < MaxLayers, n \in T PROVE n + 1 \in T
  <2>1. n + 1 \in Layers /\ (n + 1) - 1 = n /\ n + 1 \in 0 .. MaxLayers
    BY <1>2 DEF Layers
  <2>2. Span(n + 1) = W * Span(n)
    BY <2>1, SpanBase
  <2>3. Span(n) \in Nat \ {0}
    BY <1>2
  <2> DEFINE s == Span(n)
  <2>4. W * s \in Nat \ {0}
    <3>. HIDE DEF s
    <3>1. s \in Nat \ {0}
      BY <2>3 DEF s
    <3>. QED  BY <3>1
  <2>. QED  BY <2>1, <2>2, <2>4
<1>3. 0 .. MaxLayers \subseteq T
  <2>. HIDE DEF T
  <2>. QED  BY <1>1, <1>2, IntervalInduction
<1>. QED  BY <1>3

-----------------------------------------------------------------------------
(* Multiples. *)

Multiple(n, d) == \E q \in Int : n = q * d

LEMMA MultipleIsZeroMod ==
  ASSUME NEW n \in Nat, NEW d \in Nat \ {0}
  PROVE  n % d = 0 <=> Multiple(n, d)
<1> DEFINE q == n \div d
<1>1. q \in Int
  OBVIOUS
<1>2. ASSUME n % d = 0 PROVE Multiple(n, d)
  <2>1. n = q * d
    BY <1>2
  <2>. HIDE DEF q
  <2>. QED  BY <1>1, <2>1 DEF Multiple
<1>3. ASSUME NEW k \in Int, n = k * d PROVE n % d = 0
  BY <1>3
<1>. QED  BY <1>2, <1>3 DEF Multiple

LEMMA MultipleSum ==
  ASSUME NEW a \in Int, NEW b \in Int, NEW d \in Int, Multiple(a, d), Multiple(b, d)
  PROVE  Multiple(a + b, d) /\ Multiple(a - b, d)
<1>1. PICK j \in Int : a = j * d
  BY DEF Multiple
<1>2. PICK k \in Int : b = k * d
  BY DEF Multiple
<1>3. a + b = (j + k) * d /\ a - b = (j - k) * d
  BY <1>1, <1>2
<1>4. j + k \in Int /\ j - k \in Int
  OBVIOUS
<1>. QED  BY <1>3, <1>4 DEF Multiple

LEMMA MultipleTrans ==
  ASSUME NEW a \in Int, NEW b \in Int, NEW d \in Int, Multiple(a, b), Multiple(b, d)
  PROVE  Multiple(a, d)
<1>1. PICK j \in Int : a = j * b
  BY DEF Multiple
<1>2. PICK k \in Int : b = k * d
  BY DEF Multiple
<1>3. a = (j * k) * d /\ j * k \in Int
  <2>1. a = j * (k * d)
    BY <1>1, <1>2
  <2>2. j * (k * d) = (j * k) * d /\ j * k \in Int
    OBVIOUS
  <2>. QED  BY <2>1, <2>2
<1>. QED  BY <1>3 DEF Multiple

LEMMA MultipleSelf ==
  ASSUME NEW d \in Int
  PROVE  Multiple(d, d) /\ Multiple(0, d)
<1>1. d = 1 * d /\ 0 = 0 * d
  OBVIOUS
<1>2. Multiple(d, d)
  BY <1>1 DEF Multiple
<1>3. Multiple(0, d)
  BY <1>1 DEF Multiple
<1>. QED  BY <1>2, <1>3

LEMMA MultipleProduct ==
  ASSUME NEW d \in Int, NEW q \in Int
  PROVE  Multiple(q * d, d) /\ Multiple(d * q, d)
<1>1. d * q = q * d
  OBVIOUS
<1>2. Multiple(q * d, d)
  BY DEF Multiple
<1>. QED  BY <1>1, <1>2

(* Two multiples of d are at least d apart. *)
LEMMA MultipleGap ==
  ASSUME NEW a \in Int, NEW b \in Int, NEW d \in Nat \ {0}, Multiple(a, d), Multiple(b, d),
         a < b
  PROVE  a + d <= b
<1>1. PICK j \in Int : a = j * d
  BY DEF Multiple
<1>2. PICK k \in Int : b = k * d
  BY DEF Multiple
<1> DEFINE i == k - j
<1>3. b - a = i * d /\ i \in Int
  BY <1>1, <1>2
<1>. HIDE DEF i
<1>4. i >= 1
  <2>. SUFFICES ASSUME i <= 0 PROVE FALSE
    BY <1>3
  <2>1. i * d <= 0
    BY <1>3
  <2>. QED  BY <1>3, <2>1
<1>5. i * d >= d
  BY <1>3, <1>4
<1>. QED  BY <1>3, <1>5

(* The newest multiple of d up to n is the only one less than d behind it. *)
LEMMA NewestMultiple ==
  ASSUME NEW n \in Nat, NEW d \in Nat \ {0}
  PROVE  LET x == (n \div d) * d
         IN  /\ x \in Nat /\ x <= n /\ n < x + d /\ Multiple(x, d)
             /\ \A y \in Int : Multiple(y, d) /\ y <= n /\ n < y + d => y = x
<1> DEFINE q == n \div d
           x == q * d
<1>1. q \in Nat
  OBVIOUS
<1>2. x <= n /\ n < x + d
  OBVIOUS
<1>3. x \in Nat /\ Multiple(x, d)
  <2>. HIDE DEF q
  <2>1. x \in Nat
    BY <1>1
  <2>2. q \in Int
    BY <1>1
  <2>. QED  BY <2>1, <2>2 DEF Multiple
<1>. HIDE DEF x
<1>4. ASSUME NEW y \in Int, Multiple(y, d), y <= n, n < y + d
      PROVE  y = x
  <2>1. ~(y < x) /\ ~(x < y)
    BY <1>2, <1>3, <1>4, MultipleGap
  <2>. QED  BY <1>3, <2>1
<1>. QED  BY <1>2, <1>3, <1>4 DEF x

(* A positive multiple of d is at least d. *)
LEMMA MultipleAtLeast ==
  ASSUME NEW n \in Nat \ {0}, NEW d \in Nat \ {0}, Multiple(n, d)
  PROVE  d <= n
<1>1. Multiple(0, d)
  <2>1. d \in Int
    OBVIOUS
  <2>. QED  BY <2>1, MultipleSelf
<1>. QED  BY <1>1, MultipleGap

-----------------------------------------------------------------------------
(* The layers. *)

LEMMA SpanDivides ==
  ASSUME NEW k \in 0 .. MaxLayers, NEW l \in 0 .. MaxLayers, k <= l
  PROVE  Multiple(Span(l), Span(k)) /\ Span(k) <= Span(l)
<1> DEFINE T == {n \in 0 .. MaxLayers : \A i \in 0 .. n : Multiple(Span(n), Span(i))}
<1>0. \A n \in 0 .. MaxLayers : Span(n) \in Nat \ {0} /\ Multiple(Span(n), Span(n))
  BY SpanType, MultipleSelf
<1>1. 0 \in T
  BY <1>0
<1>2. ASSUME NEW n \in 0 .. MaxLayers, n < MaxLayers, n \in T PROVE n + 1 \in T
  <2>1. n + 1 \in Layers /\ (n + 1) - 1 = n /\ n + 1 \in 0 .. MaxLayers
    BY <1>2 DEF Layers
  <2>2. Span(n + 1) = W * Span(n) /\ Span(n) \in Int /\ Span(n + 1) \in Int
    BY <1>0, <2>1, SpanBase
  <2>3. Multiple(Span(n + 1), Span(n))
    BY <2>2, MultipleProduct
  <2>4. ASSUME NEW i \in 0 .. n + 1
        PROVE  Multiple(Span(n + 1), Span(i))
    <3>1. CASE i = n + 1
      BY <1>0, <2>1, <3>1
    <3>2. CASE i # n + 1
      <4>1. i \in 0 .. n /\ i \in 0 .. MaxLayers
        BY <2>1, <3>2
      <4>2. Multiple(Span(n), Span(i)) /\ Span(i) \in Int
        BY <1>0, <1>2, <4>1
      <4>. QED  BY <2>2, <2>3, <4>2, MultipleTrans
    <3>. QED  BY <3>1, <3>2
  <2>. QED  BY <2>1, <2>4
<1>3. 0 .. MaxLayers \subseteq T
  <2>. HIDE DEF T
  <2>. QED  BY <1>1, <1>2, IntervalInduction
<1>4. Multiple(Span(l), Span(k))
  BY <1>3
<1>. QED  BY <1>0, <1>4, MultipleAtLeast

(* The members of a set of layers that has every layer below its members are
   counted by its highest. *)
LEMMA InitialSegment ==
  ASSUME NEW D \in SUBSET Layers, \A l \in D : \A k \in Layers : k <= l => k \in D
  PROVE  Cardinality(D) \in 0 .. MaxLayers /\ D = 1 .. Cardinality(D)
<1> DEFINE Below(m) == {l \in D : l <= m}
           T == {m \in 0 .. MaxLayers : \E n \in 0 .. m : Below(m) = 1 .. n}
<1>0. \A l \in D : l \in Nat /\ 1 <= l /\ l <= MaxLayers
  BY DEF Layers
<1>1. 0 \in T
  <2>1. Below(0) = 1 .. 0
    BY <1>0
  <2>. QED  BY <2>1
<1>2. ASSUME NEW m \in 0 .. MaxLayers, m < MaxLayers, m \in T PROVE m + 1 \in T
  <2>0. m + 1 \in 0 .. MaxLayers /\ m + 1 \in Layers
    BY <1>2 DEF Layers
  <2>1. PICK n \in 0 .. m : Below(m) = 1 .. n
    BY <1>2
  <2>2. CASE m + 1 \in D
    <3>1. ASSUME NEW l \in 1 .. m + 1 PROVE l \in D
      <4>1. l \in Layers /\ l <= m + 1
        BY <2>0 DEF Layers
      <4>. QED  BY <2>2, <4>1
    <3>2. Below(m + 1) = 1 .. m + 1
      BY <1>0, <3>1
    <3>3. \E i \in 0 .. m + 1 : Below(m + 1) = 1 .. i
      BY <3>2
    <3>. QED  BY <2>0, <3>3
  <2>3. CASE m + 1 \notin D
    <3>1. Below(m + 1) = Below(m)
      <4>1. ASSUME NEW l \in D PROVE l <= m + 1 <=> l <= m
        BY <1>0, <2>3
      <4>. QED  BY <4>1
    <3>2. \E i \in 0 .. m + 1 : Below(m + 1) = 1 .. i
      BY <2>1, <3>1
    <3>. QED  BY <2>0, <3>2
  <2>. QED  BY <2>2, <2>3
<1>3. 0 .. MaxLayers \subseteq T
  <2>. HIDE DEF T
  <2>. QED  BY <1>1, <1>2, IntervalInduction
<1>4. PICK n \in 0 .. MaxLayers : Below(MaxLayers) = 1 .. n
  BY <1>3
<1>5. D = 1 .. n
  BY <1>0, <1>4
<1>6. Cardinality(1 .. n) = n
  <2>1. n \in Int /\ 1 \in Int /\ (IF 1 > n THEN 0 ELSE n - 1 + 1) = n
    OBVIOUS
  <2>. QED  BY <2>1, FS_Interval
<1>. QED  BY <1>5, <1>6

(* The layers that publish a root at block b are the lowest ones. *)
LEMMA LayersAreLowest ==
  ASSUME NEW b \in Nat
  PROVE  /\ NumLayers(b) \in 0 .. MaxLayers
         /\ \A l \in Layers : l <= NumLayers(b) <=> Multiple(b, Span(l))
<1> DEFINE D == {l \in Layers : Multiple(b, Span(l))}
<1>0. \A l \in Layers : l \in 0 .. MaxLayers /\ Span(l) \in Nat \ {0}
  BY SpanType DEF Layers
<1>1. LayersOf(b) = D
  BY <1>0, MultipleIsZeroMod DEF LayersOf
<1>2. ASSUME NEW l \in D, NEW k \in Layers, k <= l PROVE k \in D
  <2>1. Multiple(Span(l), Span(k))
    BY <1>0, <1>2, SpanDivides
  <2>. QED  BY <1>0, <2>1, MultipleTrans
<1>3. Cardinality(D) \in 0 .. MaxLayers /\ D = 1 .. Cardinality(D)
  <2>. HIDE DEF D
  <2>1. D \in SUBSET Layers
    BY DEF D
  <2>. QED  BY <1>2, <2>1, InitialSegment
<1>4. NumLayers(b) \in 0 .. MaxLayers /\ D = 1 .. NumLayers(b)
  BY <1>1, <1>3 DEF NumLayers
<1>. QED  BY <1>4 DEF Layers

-----------------------------------------------------------------------------
(* Key blocks. *)

KeyBlock(s) == s > 0 /\ Multiple(s, Step)

LEMMA NextKeyBlockIsKey ==
  ASSUME NEW n \in Nat
  PROVE  /\ KeyBlock(NextKeyBlock(n))
         /\ Multiple(n, Step) => NextKeyBlock(n) = n + Step
<1> DEFINE q == n \div Step
<1>1. q \in Nat /\ q \in Int /\ n \in Int /\ Step \in Nat \ {0} /\ Step \in Int
  BY StepType, DivType
<1>2. Multiple(n, Step) => n = q * Step
  <2>1. n <= n /\ n < n + Step
    BY <1>1
  <2>. QED  BY <1>1, <2>1, NewestMultiple
<1>. HIDE DEF q
<1>3. (q + 1) * Step = q * Step + Step /\ q + 1 \in Int
  BY <1>1
<1>4. NextKeyBlock(n) = (q + 1) * Step
  BY DEF NextKeyBlock, q
<1>5. Multiple(NextKeyBlock(n), Step)
  BY <1>3, <1>4 DEF Multiple
<1>6. NextKeyBlock(n) > 0
  BY NextKeyBlockBound, NextKeyBlockType
<1>. QED  BY <1>2, <1>3, <1>4, <1>5, <1>6 DEF KeyBlock

LEMMA NextIsKey ==
  ASSUME NEW n \in Nat, KeyBlock(n)
  PROVE  KeyBlock(n + Step)
<1>1. Step \in Nat \ {0} /\ Step \in Int /\ n \in Int /\ Multiple(Step, Step)
  BY StepType, MultipleSelf
<1>2. Multiple(n + Step, Step)
  BY <1>1, MultipleSum DEF KeyBlock
<1>. QED  BY <1>1, <1>2 DEF KeyBlock

LEMMA SeedIsKey ==
  ASSUME head \in Nat
  PROVE  KeyBlock(SeedSeqno)
<1>1. CASE BootstrapSeqno > 0
  <2>1. BootstrapSeqno \in Nat /\ BootstrapSeqno % Step = 0 /\ Step \in Nat \ {0}
    BY ProverAssumption, StepType
  <2>. QED  BY <1>1, <2>1, MultipleIsZeroMod DEF SeedSeqno, KeyBlock
<1>2. CASE ~(BootstrapSeqno > 0)
  BY <1>2, NextKeyBlockIsKey DEF SeedSeqno
<1>. QED  BY <1>1, <1>2

(* The prover works on thinned key blocks, one after the other, and a layer's
   window stays empty up to the first root of the layer. *)
KeyInv ==
  /\ prover.initialized => KeyBlock(prover.lastSeq)
  /\ ppc = "seed" => KeyBlock(target)
  /\ ppc \in AtKeyBlock => target = prover.lastSeq + Step
  /\ \A l \in Layers : prover.recent[l] # << >> =>
        Span(l) <= prover.lastSeq /\ prover.recent[1] # << >>
  /\ ppc = "wait" => proofs[target] = Request

LEMMA InitKey == Init => KeyInv
  BY DEF Init, ProverInit, NewMirror, AtKeyBlock, KeyInv

(* Whatever a key block publishes, the windows it fills are the lowest, and of
   layers that have a root by then. *)
LEMMA AppendStarted ==
  ASSUME NEW m \in BoundedMirror, NEW s \in Blocks, KeyBlock(s), NEW roots \in {Roots(s), NoRoots}, NEW c,
         NEW l \in Layers, AppendBundle(m, roots, s, s, c).recent[l] # << >>,
         NEW n \in Nat, n <= s,
         m.recent[l] # << >> => Span(l) <= n /\ m.recent[1] # << >>
  PROVE  Span(l) <= s /\ AppendBundle(m, roots, s, s, c).recent[1] # << >>
<1> DEFINE b == AppendBundle(m, roots, s, s, c)
<1>0. /\ s \in Nat \ {0} /\ Step \in Int /\ Span(l) \in Nat \ {0} /\ Span(1) \in Nat \ {0}
      /\ l \in Nat /\ 1 <= l /\ 1 \in Layers
  BY SpanType, StepType DEF Layers, Blocks, KeyBlock
<1>1. \A i \in Layers : b.recent[i] = IF i \in DOMAIN roots
                                      THEN Push(m.recent[i], [hash |-> roots[i], height |-> s])
                                      ELSE m.recent[i]
  BY DEF AppendBundle
<1>5. m.recent[1] \in Seq(Entry)
  BY <1>0 DEF BoundedMirror, Mirror
<1>2. CASE l \in DOMAIN roots
  <2>1. l \in LayersOf(s) /\ DOMAIN roots = LayersOf(s)
    BY <1>2 DEF Roots, NoRoots
  <2>2. Multiple(s, Span(l))
    BY <1>0, <2>1, MultipleIsZeroMod DEF LayersOf
  <2>3. l <= NumLayers(s) /\ NumLayers(s) \in Nat
    BY <1>0, <2>2, LayersAreLowest
  <2>4. 1 <= NumLayers(s)
    BY <1>0, <2>3
  <2>5. Multiple(s, Span(1))
    BY <1>0, <2>4, LayersAreLowest
  <2>6. 1 \in DOMAIN roots
    BY <1>0, <2>1, <2>5, MultipleIsZeroMod DEF LayersOf
  <2>7. b.recent[1] # << >>
    <3>1. \A w \in Seq(Entry) : \A e : Push(w, e) # << >>
      BY DEF Push
    <3>. QED  BY <1>0, <1>1, <1>5, <2>6, <3>1
  <2>. QED  BY <1>0, <2>2, <2>7, MultipleAtLeast
<1>3. CASE l \notin DOMAIN roots
  <2>1. m.recent[l] # << >>
    BY <1>1, <1>3
  <2>2. m.recent[1] # << >> /\ Span(l) <= n
    BY <2>1
  <2>3. b.recent[1] # << >>
    <3>1. \A w \in Seq(Entry) : \A e : Push(w, e) # << >>
      BY DEF Push
    <3>. QED  BY <1>0, <1>1, <1>5, <2>2, <3>1
  <2>. QED  BY <1>0, <2>2, <2>3
<1>. QED  BY <1>2, <1>3

(* Of the steps that leave the prover's record alone only the start picks a seed
   block, and only the poll a key block. *)
LEMMA OtherStepsTarget ==
  ASSUME OtherSteps
  PROVE  /\ ppc' = "seed" => target' = SeedSeqno
         /\ ppc' \in AtKeyBlock =>
              \/ ppc \in AtKeyBlock /\ target' = target
              \/ ppc = "idle" /\ target' = NextKeyBlock(prover.lastSeq)
<1>1. CASE PStart \/ PRefuse \/ PPoll \/ PDrainDone \/ PDrainFail
  BY <1>1 DEF PStart, PRefuse, PPoll, PDrainDone, PDrainFail, AtKeyBlock
<1>2. CASE PBkReject \/ PBkTimeout \/ PBkRotate \/ PEvidenceNotReady
  BY <1>2 DEF PBkReject, PBkTimeout, PBkRotate, PEvidenceNotReady, Restart, AtKeyBlock
<1>3. CASE PProve \/ PProveNoRoots \/ PSelfVerifyFailed \/ PCrash
  BY <1>3 DEF PProve, PProveNoRoots, PSelfVerifyFailed, PCrash, Restart, AtKeyBlock
<1>. QED  BY <1>1, <1>2, <1>3 DEF OtherSteps

LEMMA KeyProver ==
  ASSUME Typed, FilesInv, SeedInv, KeyInv, ProverMoves
  PROVE  KeyInv'
<1>0. /\ Step \in Nat \ {0} /\ prover.lastSeq \in Nat /\ target \in Nat /\ head \in Nat
      /\ proofs \in [Blocks -> ProofFile] /\ prover \in BoundedMirror
      /\ \A pc \in AtKeyBlock \cup {"idle"} : ppc = pc => prover.initialized
      /\ ppc \in AtKeyBlock => target \in Blocks
  BY StepType, MirrorTypes
     DEF Typed, TypeOK, ChannelTypeOK, ProverTypeOK, Mirror, Blocks, FilesInv, MainLoop, AtKeyBlock,
         TargetVisible, ProverPC
<1>1. \A l \in Layers : prover.recent[l] # << >> =>
         Span(l) <= prover.lastSeq /\ prover.recent[1] # << >>
  BY DEF KeyInv
<1>2. ASSUME prover.initialized, target = prover.lastSeq + Step
      PROVE  KeyBlock(target)
  BY <1>0, <1>2, NextIsKey DEF KeyInv
<1>3. ASSUME prover' = prover, ppc' # "seed", ppc' # "wait",
             ppc' \in AtKeyBlock => ppc \in AtKeyBlock /\ target' = target
      PROVE  KeyInv'
  BY <1>3 DEF KeyInv
<1>4. CASE PSeedApply
  <2>1. /\ ppc = "seed" /\ target <= head /\ ppc' = "seedSave"
        /\ prover' = AppendBundle(prover, Roots(target), target, target, table.commitment)
    BY <1>4 DEF PSeedApply
  <2>2. KeyBlock(target) /\ target \in Blocks
    BY <2>1 DEF KeyInv, Typed, TypeOK, ProverTypeOK, ChannelTypeOK, Blocks
  <2>3. prover'.initialized /\ prover'.lastSeq = target
    BY <2>1 DEF AppendBundle
  <2>4. \A l \in Layers : prover.recent[l] = << >>
    BY <2>1 DEF FilesInv, SeedInv
  <2>5. ASSUME NEW l \in Layers, prover'.recent[l] # << >>
        PROVE  Span(l) <= target /\ prover'.recent[1] # << >>
    BY <1>0, <2>1, <2>2, <2>4, <2>5, AppendStarted
  <2>. QED  BY <2>1, <2>2, <2>3, <2>5 DEF KeyInv, AtKeyBlock
<1>5. CASE PSeedWrite
  BY <1>3, <1>5 DEF PSeedWrite, Restart, AtKeyBlock
<1>6. CASE PBkApply
  <2>1. /\ prover'.recent = prover.recent /\ prover'.lastSeq = prover.lastSeq
        /\ prover'.initialized = prover.initialized /\ target' = target
        /\ ppc = "bkWait" /\ ppc' = "bkRotate"
    BY <1>6 DEF PBkApply, ApplyBkSetUpdate
  <2>. QED  BY <2>1 DEF KeyInv, AtKeyBlock
<1>7. CASE ProofWrites
  <2>1. /\ ppc \in {"request", "write"} /\ UNCHANGED <<prover, target, table>>
        /\ ppc' \in {"write", "wait"}
    BY <1>7, ProofWritesEffect
  <2>2. ppc' = "wait" => proofs' = [proofs EXCEPT ![target] = Request]
    BY <1>7 DEF ProofWrites, PProofWrite, PProofWriteEnd, PProofTear, WriteRequest
  <2>3. Request' = Request
    BY <2>1 DEF Request
  <2>4. ppc' = "wait" => proofs'[target'] = Request'
    BY <1>0, <2>1, <2>2, <2>3 DEF AtKeyBlock
  <2>. QED  BY <2>1, <2>4 DEF KeyInv, AtKeyBlock
<1>8. CASE RotationWrites
  BY <1>3, <1>8, RotationWritesEffect DEF AtKeyBlock
<1>9. CASE Appends
  <2>1. PICK roots \in {Roots(target), NoRoots} :
          prover' = AppendBundle(prover, roots, target, target, table.commitment)
    BY <1>9, AppendsEffect DEF AppendTarget
  <2>2. ppc = "wait" /\ ppc' = "idle" /\ prover.initialized /\ target = prover.lastSeq + Step
    BY <1>0, <1>9, AppendsEffect DEF KeyInv, AtKeyBlock
  <2>3. KeyBlock(target) /\ target \in Blocks
    BY <1>0, <1>2, <2>2 DEF AtKeyBlock
  <2>4. prover'.initialized /\ prover'.lastSeq = target /\ prover.lastSeq <= target
    BY <1>0, <2>1, <2>2 DEF AppendBundle
  <2>5. ASSUME NEW l \in Layers, prover'.recent[l] # << >>
        PROVE  Span(l) <= target /\ prover'.recent[1] # << >>
    BY <1>0, <1>1, <2>1, <2>3, <2>4, <2>5, AppendStarted
  <2>. QED  BY <2>2, <2>3, <2>4, <2>5 DEF KeyInv, AtKeyBlock
<1>10. CASE Skips
  <2>1. /\ ppc = "bundle" /\ ppc' = "idle" /\ prover'.recent = prover.recent
        /\ prover'.lastSeq = target
    BY <1>10, SkipsEffect DEF SkipTarget
  <2>2. target = prover.lastSeq + Step /\ prover.initialized
    BY <1>0, <2>1 DEF KeyInv, AtKeyBlock
  <2>3. KeyBlock(target)
    BY <1>2, <2>2
  <2>4. \A l \in Layers : Span(l) \in Nat
    BY SpanType DEF Layers
  <2>5. \A l \in Layers : prover'.recent[l] # << >> =>
           Span(l) <= target /\ prover'.recent[1] # << >>
    BY <1>0, <1>1, <2>1, <2>2, <2>4
  <2>. QED  BY <2>1, <2>3, <2>5 DEF KeyInv, AtKeyBlock
<1>11. CASE OtherSteps
  <2>1. prover' = prover /\ ppc' # "wait"
    BY <1>11, OtherStepsEffect
  <2>2. ppc' = "seed" => KeyBlock(target')
    BY <1>0, <1>11, OtherStepsTarget, SeedIsKey
  <2>3. ASSUME ppc' \in AtKeyBlock PROVE target' = prover.lastSeq + Step
    <3>1. CASE ppc \in AtKeyBlock /\ target' = target
      BY <3>1 DEF KeyInv
    <3>2. CASE ppc = "idle" /\ target' = NextKeyBlock(prover.lastSeq)
      <4>1. Multiple(prover.lastSeq, Step)
        BY <1>0, <3>2 DEF KeyInv, KeyBlock
      <4>. QED  BY <1>0, <3>2, <4>1, NextKeyBlockIsKey
    <3>. QED  BY <1>11, <2>3, <3>1, <3>2, OtherStepsTarget
  <2>. QED  BY <2>1, <2>2, <2>3 DEF KeyInv
<1>. QED
  BY <1>4, <1>5, <1>6, <1>7, <1>8, <1>9, <1>10, <1>11, ProverGroups

LEMMA KeyStep == Typed /\ FilesInv /\ SeedInv /\ KeyInv /\ [Next]_vars => KeyInv'
<1>. SUFFICES ASSUME Typed, FilesInv, SeedInv, KeyInv, [Next]_vars PROVE KeyInv'
  OBVIOUS
<1>1. CASE UNCHANGED <<proverVars, proofs>>
  <2>1. Request' = Request
    BY <1>1 DEF proverVars, Request
  <2>. QED  BY <1>1, <2>1 DEF proverVars, KeyInv
<1>2. VerifierMoves => UNCHANGED proofs
  BY DEF VerifierMoves, VerifierStep, VerifierFault, VStart, VSeed, VBkUpdate, VBkResult,
         VBkResultEnd, VBkResultTear, BkReport, VProof, VResult, VResultEnd, VResultTear,
         Report, VAppend, VCrash, fileVars
<1>3. Grow \/ VerifierMoves \/ UNCHANGED vars => UNCHANGED <<proverVars, proofs>>
  BY <1>2 DEF Grow, VerifierMoves, vars, fileVars
<1>. QED  BY <1>1, <1>3, KeyProver DEF Next

LEMMA KeyInvariant == Spec => []KeyInv
<1>1. MirrorInv /\ KeyInv /\ [Next]_vars => KeyInv'
  BY KeyStep DEF MirrorInv
<1>. QED  BY InitKey, <1>1, MirrorInvariant, PTL DEF Spec

(* What the verifier is given and what it has mirrored are thinned key blocks. *)
FileKeyInv ==
  /\ seedFile.present => KeyBlock(seedFile.seq)
  /\ ppc = "seedSave" => KeyBlock(target)
  /\ \A s \in Blocks : Exists(proofs[s]) => KeyBlock(s)
  /\ vpc \in Bundling => KeyBlock(job.seq)
  /\ verifier.initialized => KeyBlock(verifier.lastSeq)

LEMMA InitFileKeys == Init => FileKeyInv
  BY DEF Init, ChannelInit, ProverInit, VerifierInit, NoSeed, NoProof, NewMirror, Exists,
         Bundling, FileKeyInv

LEMMA FileKeysProver ==
  ASSUME Typed, FilesInv, SeedInv, KeyInv, FileKeyInv, ProverMoves
  PROVE  FileKeyInv'
<1>0. UNCHANGED <<verifier, vpc, job>>
  BY DEF ProverMoves, verifierVars
<1>1. ASSUME UNCHANGED <<seedFile, proofs>>, ppc' # "seedSave"
      PROVE  FileKeyInv'
  BY <1>0, <1>1 DEF FileKeyInv
<1>2. CASE PSeedApply
  <2>1. ppc = "seed" /\ target' = target /\ UNCHANGED <<seedFile, proofs>>
    BY <1>2 DEF PSeedApply, fileVars
  <2>. QED  BY <1>0, <2>1 DEF FileKeyInv, KeyInv
<1>3. CASE PSeedWrite
  <2>1. ppc = "seedSave" /\ ppc' = "idle" /\ proofs' = proofs /\ seedFile'.seq = target
    BY <1>3 DEF PSeedWrite, Restart
  <2>. QED  BY <1>0, <2>1 DEF FileKeyInv
<1>4. CASE ProofWrites
  <2>1. /\ ppc \in {"request", "write"} /\ ppc' \in {"write", "wait"} /\ seedFile' = seedFile
        /\ proofs' \in {[proofs EXCEPT ![target] = Request], [proofs EXCEPT ![target] = TornProof]}
    BY <1>4, ProofWritesEffect
  <2>2. KeyBlock(target)
    <3>1. prover.initialized /\ target = prover.lastSeq + Step
      BY <2>1 DEF FilesInv, MainLoop, KeyInv, AtKeyBlock
    <3>. QED  BY <3>1, NextIsKey DEF KeyInv, Typed, TypeOK, ProverTypeOK, Mirror
  <2>3. proofs \in [Blocks -> ProofFile]
    BY DEF Typed, TypeOK, ChannelTypeOK
  <2>4. \A s \in Blocks : s # target => proofs'[s] = proofs[s]
    BY <2>1, <2>3
  <2>5. ASSUME NEW s \in Blocks, Exists(proofs'[s])
        PROVE  KeyBlock(s)
    BY <2>2, <2>4, <2>5 DEF FileKeyInv
  <2>. QED  BY <1>0, <2>1, <2>5 DEF FileKeyInv
<1>5. CASE PBkApply
  BY <1>1, <1>5 DEF PBkApply, fileVars
<1>6. CASE RotationWrites
  BY <1>1, <1>6, RotationWritesEffect
<1>7. CASE Appends
  BY <1>1, <1>7, AppendsEffect DEF fileVars
<1>8. CASE Skips
  BY <1>1, <1>8, SkipsEffect DEF SkipTarget, fileVars
<1>9. CASE OtherSteps
  BY <1>1, <1>9, OtherStepsEffect DEF fileVars
<1>. QED  BY <1>2, <1>3, <1>4, <1>5, <1>6, <1>7, <1>8, <1>9, ProverGroups

LEMMA FileKeysVerifier ==
  ASSUME Typed, SeedInv, FileKeyInv, VerifierMoves
  PROVE  FileKeyInv'
<1>0. UNCHANGED <<seedFile, proofs, ppc, target>>
  BY DEF VerifierMoves, VerifierStep, VerifierFault, VStart, VSeed, VBkUpdate, VBkResult,
         VBkResultEnd, VBkResultTear, BkReport, VProof, VResult, VResultEnd, VResultTear,
         Report, VAppend, VCrash, fileVars, proverVars
<1>1. vpc' \in Bundling => KeyBlock(job'.seq)
  <2>1. CASE \E s \in Blocks : VProof(s)
    BY <2>1 DEF VProof, NextFile, FileKeyInv
  <2>2. CASE VResult \/ VResultEnd \/ VResultTear
    BY <2>2 DEF VResult, VResultEnd, VResultTear, Report, Bundling, FileKeyInv
  <2>3. CASE ~(VResult \/ VResultEnd \/ VResultTear) /\ ~\E s \in Blocks : VProof(s)
    BY <2>3
       DEF VerifierMoves, VerifierStep, VerifierFault, VStart, VSeed, VBkUpdate, VBkResult,
           VBkResultEnd, VBkResultTear, BkReport, VAppend, VCrash, Bundling
  <2>. QED  BY <2>1, <2>2, <2>3
<1>2. verifier'.initialized => KeyBlock(verifier'.lastSeq)
  <2>1. CASE verifier' = verifier
    BY <2>1 DEF FileKeyInv
  <2>2. CASE (VStart \/ VSeed) /\ verifier' = Seeded(verifier) /\ ~verifier.initialized
             /\ verifier' # verifier
    <3>1. seedFile.present
      BY <2>2 DEF VStart, VSeed
    <3>. QED  BY <2>2, <3>1 DEF Seeded, AppendBundle, FileKeyInv
  <2>3. CASE \E u \in Blocks : verifier' = ApplyBkSetUpdate(verifier, bkupds[u].new, u)
    BY <2>3 DEF ApplyBkSetUpdate, FileKeyInv
  <2>4. CASE /\ vpc = "append"
             /\ verifier' = AppendBundle(verifier, Roots(job.seq), job.seq, job.seq,
                                         job.commitment)
    BY <2>4 DEF AppendBundle, FileKeyInv, Bundling
  <2>. QED  BY <2>1, <2>2, <2>3, <2>4, VerifierEffect
<1>. QED  BY <1>0, <1>1, <1>2 DEF FileKeyInv

LEMMA FileKeysStep ==
  Typed /\ FilesInv /\ SeedInv /\ KeyInv /\ FileKeyInv /\ [Next]_vars => FileKeyInv'
<1>. SUFFICES ASSUME Typed, FilesInv, SeedInv, KeyInv, FileKeyInv, [Next]_vars
              PROVE  FileKeyInv'
  OBVIOUS
<1>1. CASE Grow \/ UNCHANGED vars
  BY <1>1 DEF Grow, vars, proverVars, verifierVars, fileVars, FileKeyInv
<1>. QED  BY <1>1, FileKeysProver, FileKeysVerifier DEF Next

LEMMA StepOfWindows == Multiple(Step, W)
<1>1. P \in Int /\ W \in Int
  OBVIOUS
<1>. QED  BY <1>1, MultipleProduct DEF Step

-----------------------------------------------------------------------------
(* A skipped key block. *)

(* The chain to a key block with roots of layer 1 only starts at the root of
   layer 1 at the last seen block: a mirror without it closes no such chain. *)
LEMMA ClosesNeedsLast ==
  ASSUME Typed, KeyInv, prover.initialized, target = prover.lastSeq + Step,
         NumLayers(target) = 1, Closes(prover, target)
  PROVE  Applied(prover)
<1> DEFINE last == prover.lastSeq
           keys == ChainBlocks(last, target)
           t    == NumActiveLayers(prover)
<1>0. /\ last \in Nat /\ last > 0 /\ Step \in Nat \ {0} /\ W \in Nat \ {0} /\ target \in Nat
      /\ last \in Int /\ W \in Int /\ Step \in Int /\ Multiple(last, Step)
      /\ prover \in BoundedMirror
  BY StepType, MirrorTypes
     DEF Typed, TypeOK, ProverTypeOK, Mirror, Blocks, KeyInv, KeyBlock
<1>1. Multiple(Step, W)
  BY StepOfWindows
<1>2. Multiple(last, W) /\ Multiple(last + W, W) /\ W <= Step
  <2>1. Multiple(last, W)
    BY <1>0, <1>1, MultipleTrans
  <2>2. Multiple(W, W)
    BY <1>0, MultipleSelf
  <2>. QED  BY <1>0, <1>1, <2>1, <2>2, MultipleSum, MultipleAtLeast
<1>3. Span(1) = W
  BY SpanBase
<1>4. keys = {k \in last + W .. target : (k - last) % W = 0 /\ k % W = 0} \cup {target}
  BY <1>3 DEF ChainBlocks
<1>5. last + W \in keys
  <2>1. (last + W) % W = 0
    BY <1>0, <1>2, MultipleIsZeroMod
  <2>2. (last + W) - last = W /\ W % W = 0
    BY <1>0
  <2>3. last + W \in last + W .. target
    BY <1>0, <1>2
  <2>. HIDE DEF keys
  <2>. QED  BY <1>4, <2>1, <2>2, <2>3
<1>6. last \notin keys
  BY <1>0, <1>4
<1>7. IsFiniteSet({l \in Layers : prover.recent[l] # << >>}) /\ t \in Nat
  <2>1. IsFiniteSet(Layers)
    BY FS_Interval DEF Layers
  <2>2. {l \in Layers : prover.recent[l] # << >>} \in SUBSET Layers
    OBVIOUS
  <2>3. IsFiniteSet({l \in Layers : prover.recent[l] # << >>})
    BY <2>1, <2>2, FS_Subset
  <2>. QED  BY <2>3, FS_CardinalityType DEF NumActiveLayers
<1>8. ~NewLayerAppeared(prover, target)
  BY <1>7 DEF NewLayerAppeared
<1>9. <<1, last>> \in ({1} \X keys) \cup {PrevHash(prover, 1)}
  <2>1. \A k \in keys :
           PrevSameLayerRoot(1, k) \in ({1} \X keys) \cup {PrevHash(prover, 1)}
    BY <1>8 DEF Closes, SameLayerCloses
  <2>2. PrevSameLayerRoot(1, last + W) = <<1, last>>
    BY <1>0, <1>3 DEF PrevSameLayerRoot
  <2>. QED  BY <1>5, <2>1, <2>2
<1>10. PrevHash(prover, 1) = <<1, last>>
  BY <1>6, <1>9
<1>11. t # 0
  BY <1>0, <1>10 DEF PrevHash
<1>12. LatestHash(prover.recent[1]) = <<1, last>>
  BY <1>7, <1>10, <1>11 DEF PrevHash
<1>13. prover.recent[1] # << >>
  <2>1. \E l \in Layers : prover.recent[l] # << >>
    <3>. SUFFICES ASSUME \A l \in Layers : prover.recent[l] = << >> PROVE FALSE
      OBVIOUS
    <3>1. {l \in Layers : prover.recent[l] # << >>} = {}
      OBVIOUS
    <3>. QED  BY <1>11, <3>1, FS_EmptySet DEF NumActiveLayers
  <2>. QED  BY <2>1 DEF KeyInv
<1>. QED  BY <1>12, <1>13 DEF Applied

(* In a self-verify build a skipped key block is fatal: as long as the next key
   block publishes a root of layer 1 only, no step of the daemon, before or after
   any restart, appends anything to its mirror again. *)
THEOREM SkippedIsFatal ==
  ASSUME SelfVerify
  PROVE  Spec => SkipIsFatal
<1>1. ASSUME MirrorInv, KeyInv, [Next]_vars, prover.initialized, ~Applied(prover),
             NumLayers(NextKeyBlock(prover.lastSeq)) = 1
      PROVE  prover'.recent = prover.recent
  <2>1. CASE ~ProverMoves
    BY <1>1, <2>1 DEF Next, Grow, VerifierMoves, proverVars, vars
  <2>2. CASE ProverMoves
    <3>1. CASE PSeedApply
      BY <1>1, <3>1 DEF PSeedApply, MirrorInv, FilesInv
    <3>2. CASE Appends
      <4>1. /\ ppc = "wait" /\ target = prover.lastSeq + Step
            /\ proofs[target] = Request /\ SelfVerified
        BY <1>1, <3>2, AppendsEffect DEF KeyInv, AtKeyBlock
      <4>2. Closes(prover, target)
        BY <4>1 DEF SelfVerified, Verifies, Request
      <4>3. NextKeyBlock(prover.lastSeq) = target
        BY <1>1, <4>1, NextKeyBlockIsKey
           DEF MirrorInv, Typed, TypeOK, ProverTypeOK, Mirror, KeyInv, KeyBlock
      <4>. QED  BY <1>1, <4>1, <4>2, <4>3, ClosesNeedsLast DEF MirrorInv
    <3>3. CASE PSeedWrite
      BY <3>3 DEF PSeedWrite
    <3>4. CASE PBkApply
      BY <3>4 DEF PBkApply, ApplyBkSetUpdate
    <3>5. CASE Skips
      BY <3>5, SkipsEffect DEF SkipTarget
    <3>6. CASE ProofWrites \/ RotationWrites \/ OtherSteps
      BY <1>1, <3>6, ProofWritesEffect, RotationWritesEffect, OtherStepsEffect DEF MirrorInv
    <3>. QED
      BY <2>2, <3>1, <3>2, <3>3, <3>4, <3>5, <3>6, ProverGroups
  <2>. QED  BY <2>1, <2>2
<1>2. MirrorInv /\ KeyInv /\ [Next]_vars
        => [prover.initialized /\ ~Applied(prover)
              /\ NumLayers(NextKeyBlock(prover.lastSeq)) = 1
            => prover'.recent = prover.recent]_vars
  BY <1>1
<1>. QED  BY MirrorInvariant, KeyInvariant, <1>2, PTL DEF Spec, SkipIsFatal

-----------------------------------------------------------------------------
(* A complete mirror. *)

(* What bridge-prover-lib/src/lib.rs asks of the thinning factor: "P must divide
   W", so that every root of a layer above the first is at a proven key block,
   and "P <= MAX_CHAIN_LEN", room for the roots of layer 1 between two of them. *)
ThinningFits == W % P = 0 /\ P <= MaxChainLen

Newest(l, n) == (n \div Span(l)) * Span(l)

LEMMA HighSpans ==
  ASSUME ThinningFits, NEW l \in Layers, 2 <= l
  PROVE  Multiple(Span(l), Step)
<1>1. /\ 2 \in 0 .. MaxLayers /\ l \in 0 .. MaxLayers /\ 2 \in Layers /\ 2 - 1 = 1
      /\ W \in Nat /\ P \in Nat \ {0} /\ W \in Int /\ P \in Int /\ Step \in Int
  BY StepType DEF Layers
<1>2. PICK q \in Int : W = q * P
  BY <1>1, MultipleIsZeroMod DEF ThinningFits, Multiple
<1>3. Span(2) = W * W
  BY <1>1, SpanBase
<1>4. W * W = q * Step
  <2>1. W * (q * P) = q * (W * P)
    BY <1>1
  <2>. QED  BY <1>2, <2>1 DEF Step
<1>5. Multiple(Span(2), Step)
  BY <1>3, <1>4 DEF Multiple
<1>6. Multiple(Span(l), Span(2)) /\ Span(l) \in Int /\ Span(2) \in Int
  BY <1>1, SpanDivides, SpanType
<1>. QED  BY <1>1, <1>5, <1>6, MultipleTrans

(* A mirror as the prover leaves it, with the newest root of every layer. *)
Ready(m) ==
  /\ m \in BoundedMirror /\ KeyBlock(m.lastSeq) /\ Complete(m)
  /\ \A l \in Layers : m.recent[l] # << >> => Span(l) <= m.lastSeq

(* Its active layers are those that have a root by then, and the newest root of
   each is the chain's. *)
LEMMA ReadyLayers ==
  ASSUME NEW m, Ready(m)
  PROVE  /\ NumActiveLayers(m) \in 1 .. MaxLayers
         /\ \A l \in Layers : /\ l <= NumActiveLayers(m) <=> Span(l) <= m.lastSeq
                              /\ Span(l) <= m.lastSeq =>
                                   /\ Newest(l, m.lastSeq) > 0
                                   /\ LatestHash(m.recent[l]) = <<l, Newest(l, m.lastSeq)>>
<1> DEFINE D == {l \in Layers : m.recent[l] # << >>}
           last == m.lastSeq
<1>0. /\ last \in Nat /\ last > 0 /\ last \in Int /\ Multiple(last, Step)
      /\ \A l \in Layers : l \in 0 .. MaxLayers /\ Span(l) \in Nat \ {0}
      /\ 1 \in Layers
  BY SpanType DEF Ready, BoundedMirror, Mirror, KeyBlock, Layers
<1>1. ASSUME NEW l \in Layers, Span(l) <= last
      PROVE  /\ Newest(l, last) > 0
             /\ LatestHash(m.recent[l]) = <<l, Newest(l, last)>> /\ l \in D
  <2>1. last < Newest(l, last) + Span(l) /\ Newest(l, last) \in Nat
    BY <1>0, NewestMultiple DEF Newest
  <2>2. Newest(l, last) > 0
    BY <1>0, <1>1, <2>1
  <2>. QED  BY <2>2 DEF Ready, Complete, Newest
<1>2. \A l \in Layers : l \in D <=> Span(l) <= last
  BY <1>1 DEF Ready
<1>3. ASSUME NEW l \in D, NEW k \in Layers, k <= l PROVE k \in D
  <2>1. Span(k) <= Span(l)
    BY <1>0, <1>3, SpanDivides
  <2>2. Span(l) <= last /\ l \in Layers
    BY <1>2
  <2>3. Span(k) <= last
    BY <1>0, <2>1, <2>2
  <2>. QED  BY <1>2, <2>3
<1>4. Cardinality(D) \in 0 .. MaxLayers /\ D = 1 .. Cardinality(D)
  <2>. HIDE DEF D
  <2>1. D \in SUBSET Layers
    BY DEF D
  <2>. QED  BY <1>3, <2>1, InitialSegment
<1>5. NumActiveLayers(m) = Cardinality(D)
  BY DEF NumActiveLayers
<1>6. 1 \in D
  <2>1. W <= Step
    <3>1. Step \in Nat \ {0} /\ W \in Nat \ {0}
      BY StepType
    <3>. QED  BY <3>1, StepOfWindows, MultipleAtLeast
  <2>2. Step <= last /\ Step \in Nat
    BY <1>0, MultipleAtLeast, StepType
  <2>3. Span(1) <= last
    BY <1>0, <2>1, <2>2, SpanBase
  <2>. QED  BY <1>0, <1>2, <2>3
<1>. HIDE DEF D
<1>. QED  BY <1>0, <1>1, <1>2, <1>4, <1>5, <1>6 DEF Layers

(* Every root of a layer above the first is at a proven key block: the chain is
   the single link from the newest one to the target. *)
LEMMA OneLink ==
  ASSUME ThinningFits, NEW m, Ready(m), NEW n \in Layers, 2 <= n, Span(n) <= m.lastSeq,
         Multiple(m.lastSeq + Step, Span(n)),
         LatestHash(m.recent[n]) = <<n, Newest(n, m.lastSeq)>>
  PROVE  LET b == m.lastSeq + Step
             S == Span(n)
         IN  /\ {k \in m.lastSeq + S .. b : (k - m.lastSeq) % S = 0 /\ k % S = 0}
                  \subseteq {b}
             /\ PrevSameLayerRoot(n, b) = LatestHash(m.recent[n])
<1> DEFINE last == m.lastSeq
           S == Span(n)
           b == last + Step
<1>0. /\ last \in Nat /\ last \in Int /\ Multiple(last, Step) /\ Step \in Nat \ {0}
      /\ S \in Nat \ {0} /\ S \in Int /\ Step \in Int
      /\ b \in Int /\ b - S \in Int
  <2>1. last \in Nat /\ Multiple(last, Step) /\ Step \in Nat \ {0}
    BY StepType DEF Ready, BoundedMirror, Mirror, KeyBlock
  <2>2. S \in Nat \ {0}
    BY SpanType DEF Layers
  <2>. HIDE DEF S, last
  <2>. QED  BY <2>1, <2>2
<1>1. Multiple(S, Step)
  BY HighSpans
<1>2. Step <= S
  BY <1>0, <1>1, MultipleAtLeast
<1>3. Multiple(b - S, S)
  <2>1. Multiple(S, S)
    BY <1>0, MultipleSelf
  <2>. QED  BY <1>0, <2>1, MultipleSum
<1>4. b - S = Newest(n, last)
  <2> DEFINE x == b - S
  <2>1. x <= last /\ last < x + S /\ x \in Int /\ Multiple(x, S)
    BY <1>0, <1>2, <1>3
  <2>. HIDE DEF x, S, last
  <2>2. x = (last \div S) * S
    BY <1>0, <2>1, NewestMultiple
  <2>. QED  BY <2>2 DEF Newest, x, S, last
<1>5. PrevSameLayerRoot(n, b) = LatestHash(m.recent[n])
  BY <1>4 DEF PrevSameLayerRoot
<1>6. \A k \in last + S .. b : k = b
  BY <1>0, <1>2
<1>. QED  BY <1>5, <1>6

(* The roots of layer 1 from one proven key block to the next: at most P of
   them, each the leaf of the one after it. *)
LEMMA LowLinks ==
  ASSUME NEW last \in Nat, Multiple(last, Step)
  PROVE  LET b    == last + Step
             keys == {k \in last + W .. b : (k - last) % W = 0 /\ k % W = 0} \cup {b}
         IN  /\ IsFiniteSet(keys) /\ Cardinality(keys) <= P
             /\ \A k \in keys : k - W = last \/ k - W \in keys
<1> DEFINE b == last + Step
           keys == {k \in last + W .. b : (k - last) % W = 0 /\ k % W = 0} \cup {b}
           f == [i \in 1 .. P |-> last + i * W]
<1>0. /\ W \in Nat \ {0} /\ P \in Nat \ {0} /\ Step \in Nat \ {0} /\ Step = P * W
      /\ W \in Int /\ P \in Int /\ Step \in Int /\ last \in Int /\ b \in Int
  BY StepType DEF Step
<1>1. Multiple(last, W) /\ Multiple(b, W) /\ W <= Step /\ Multiple(Step, W)
  BY <1>0, StepOfWindows, MultipleTrans, MultipleSum, MultipleAtLeast
<1>2. \A k \in keys : k \in Nat /\ k \in Int /\ last + W <= k /\ k <= b /\ Multiple(k, W)
  <2>1. ASSUME NEW k \in last + W .. b, k % W = 0
        PROVE  k \in Nat /\ k \in Int /\ Multiple(k, W)
    <3>1. k \in Nat /\ k \in Int
      BY <1>0
    <3>. QED  BY <1>0, <2>1, <3>1, MultipleIsZeroMod
  <2>. QED  BY <1>0, <1>1, <2>1
<1>3. ASSUME NEW k \in Nat, Multiple(k, W), last + W <= k, k <= b PROVE k \in keys
  <2>1. k % W = 0
    BY <1>0, <1>3, MultipleIsZeroMod
  <2>2. k - last \in Nat /\ k \in Int
    BY <1>0, <1>3
  <2>3. Multiple(k - last, W)
    BY <1>0, <1>1, <1>3, <2>2, MultipleSum
  <2>4. (k - last) % W = 0
    BY <1>0, <2>2, <2>3, MultipleIsZeroMod
  <2>5. k \in last + W .. b
    BY <1>0, <1>3
  <2>. QED  BY <2>1, <2>4, <2>5
<1>4. ASSUME NEW k \in keys PROVE k - W = last \/ k - W \in keys
  <2>1. CASE k - W # last
    <3>1. k - W \in Int /\ last < k - W
      BY <1>0, <1>2, <1>4, <2>1
    <3>2. Multiple(W, W) /\ Multiple(k, W)
      BY <1>0, <1>2, <1>4, MultipleSelf
    <3>3. Multiple(k - W, W)
      BY <1>0, <1>2, <1>4, <3>2, MultipleSum
    <3>4. last + W <= k - W
      BY <1>0, <1>1, <3>1, <3>3, MultipleGap
    <3>5. k - W \in Nat /\ k - W <= b
      BY <1>0, <1>2, <1>4, <3>1
    <3>. QED  BY <1>3, <3>3, <3>4, <3>5
  <2>. QED  BY <2>1
<1>5. ASSUME NEW k \in keys PROVE \E i \in 1 .. P : f[i] = k
  <2>0. k \in Int /\ Multiple(k, W) /\ last + W <= k /\ k <= b
    BY <1>2, <1>5
  <2>1. Multiple(k - last, W) /\ k - last \in Int /\ W <= k - last /\ k - last <= Step
    <3>. HIDE DEF keys
    <3>1. Multiple(k - last, W)
      BY <1>0, <1>1, <2>0, MultipleSum
    <3>. QED  BY <1>0, <2>0, <3>1
  <2>2. PICK i \in Int : k - last = i * W
    BY <2>1 DEF Multiple
  <2>3. i >= 1
    <3>. SUFFICES ASSUME i <= 0 PROVE FALSE
      BY <2>2
    <3>1. i * W <= 0
      BY <1>0
    <3>. QED  BY <1>0, <2>1, <2>2, <3>1
  <2>4. i <= P
    <3>. SUFFICES ASSUME i - P >= 1 PROVE FALSE
      BY <1>0, <2>2
    <3>1. (i - P) * W >= W
      BY <1>0
    <3>2. (i - P) * W = i * W - P * W
      BY <1>0
    <3>. QED  BY <1>0, <2>1, <2>2, <3>1, <3>2
  <2>5. i \in 1 .. P /\ f[i] = last + i * W
    BY <2>3, <2>4
  <2>. QED  BY <1>0, <2>1, <2>2, <2>5
<1>6. IsFiniteSet(keys) /\ Cardinality(keys) <= P
  <2> DEFINE I == {i \in 1 .. P : f[i] \in keys}
             g == [i \in I |-> f[i]]
  <2>1. g \in Surjection(I, keys)
    <3>1. g \in [I -> keys]
      OBVIOUS
    <3>2. \A k \in keys : \E i \in I : g[i] = k
      BY <1>5
    <3>. HIDE DEF g, I, keys
    <3>. QED  BY <3>1, <3>2 DEF Surjection
  <2>2. IsFiniteSet(1 .. P) /\ Cardinality(1 .. P) = P
    <3>1. P \in Int /\ 1 \in Int /\ (IF 1 > P THEN 0 ELSE P - 1 + 1) = P
      BY <1>0
    <3>. QED  BY <3>1, FS_Interval
  <2>3. I \in SUBSET (1 .. P)
    OBVIOUS
  <2>. HIDE DEF g, I, keys, f
  <2>4. IsFiniteSet(I) /\ Cardinality(I) <= P
    BY <2>2, <2>3, FS_Subset
  <2>5. IsFiniteSet(keys) /\ Cardinality(keys) <= Cardinality(I)
    BY <2>1, <2>4, FS_Surjection
  <2>6. Cardinality(keys) \in Nat /\ Cardinality(I) \in Nat
    BY <2>4, <2>5, FS_CardinalityType
  <2>. QED  BY <1>0, <2>4, <2>5, <2>6
<1>. QED  BY <1>4, <1>6

(* A layer appears at the block W^l, and its data leaves are all the roots of the
   layer below. *)
LEMMA NewLayerLink ==
  ASSUME ThinningFits, NEW m, Ready(m), NEW n \in Layers, 2 <= n,
         NEW t \in Layers, t < n, Span(t) <= m.lastSeq, ~(Span(t + 1) <= m.lastSeq),
         Multiple(m.lastSeq + Step, Span(n)), Newest(t, m.lastSeq) > 0
  PROVE  LET b == m.lastSeq + Step
         IN  <<t, Newest(t, m.lastSeq)>> \in DataLeaves(n, b) /\ b - Span(n) = 0
<1> DEFINE last == m.lastSeq
           b == last + Step
           S == Span(t)
           x == Newest(t, last)
<1>0. /\ last \in Nat /\ last \in Int /\ last > 0 /\ Multiple(last, Step)
      /\ Step \in Nat \ {0} /\ Step \in Int /\ t \in Nat /\ n \in Nat /\ 1 <= t
      /\ t + 1 \in Layers /\ t + 1 \in 0 .. MaxLayers /\ n \in 0 .. MaxLayers
      /\ t \in 0 .. MaxLayers /\ (t + 1) - 1 = t /\ 2 <= t + 1 /\ t + 1 <= n
  BY StepType DEF Ready, BoundedMirror, Mirror, KeyBlock, Layers
<1>1. /\ S \in Nat \ {0} /\ Span(t + 1) \in Nat \ {0} /\ Span(n) \in Nat \ {0}
      /\ Span(t + 1) = W * S
  BY <1>0, SpanType, SpanBase
<1>2. last + Step <= Span(t + 1)
  BY <1>0, <1>1, HighSpans, MultipleGap
<1>3. Span(t + 1) <= Span(n) /\ Span(n) <= b
  <2>1. Span(t + 1) <= Span(n)
    BY <1>0, SpanDivides
  <2>2. b \in Nat \ {0}
    BY <1>0
  <2>. QED  BY <1>1, <2>1, <2>2, MultipleAtLeast
<1>4. b = Span(n) /\ Span(n) = Span(t + 1) /\ b = W * S
  BY <1>0, <1>1, <1>2, <1>3
<1>5. n = t + 1
  <2>. SUFFICES ASSUME n # t + 1 PROVE FALSE
    OBVIOUS
  <2>1. /\ t + 2 \in Layers /\ t + 2 \in 0 .. MaxLayers /\ (t + 2) - 1 = t + 1
        /\ t + 2 <= n
    BY <1>0 DEF Layers
  <2>2. Span(t + 2) = W * Span(t + 1) /\ Span(t + 2) <= Span(n)
    BY <1>0, <2>1, SpanBase, SpanDivides
  <2>3. W * Span(t + 1) <= Span(t + 1)
    BY <1>4, <2>2
  <2>4. W = 1
    <3> DEFINE T == Span(t + 1)
    <3>1. T \in Nat \ {0} /\ W * T <= T
      BY <1>1, <2>3
    <3>. HIDE DEF T
    <3>. SUFFICES ASSUME W - 1 >= 1 PROVE FALSE
      OBVIOUS
    <3>2. (W - 1) * T >= T
      BY <3>1
    <3>3. (W - 1) * T = W * T - T
      BY <3>1
    <3>. QED  BY <3>1, <3>2, <3>3
  <2>5. Span(t + 1) = S
    BY <1>1, <2>4
  <2>. QED  BY <2>5
<1>6. x \in Nat /\ x > 0 /\ x <= last /\ Multiple(x, S)
  BY <1>0, <1>1, NewestMultiple DEF Newest
<1>7. \E i \in 0 .. W - 1 : b - i * S = x
  <2>. HIDE DEF x, S, last
  <2>1. PICK j \in Int : x = j * S
    BY <1>6 DEF Multiple
  <2>2. j >= 1
    <3>. SUFFICES ASSUME j <= 0 PROVE FALSE
      BY <2>1
    <3>1. j * S <= 0
      BY <1>1
    <3>. QED  BY <1>6, <2>1, <3>1
  <2>3. j < W
    <3>. SUFFICES ASSUME j - W >= 0 PROVE FALSE
      BY <2>1
    <3>1. (j - W) * S >= 0 /\ (j - W) * S = j * S - W * S
      BY <1>1
    <3>2. x >= b
      BY <1>1, <1>4, <2>1, <3>1
    <3>. QED  BY <1>0, <1>6, <3>2
  <2>4. (W - j) * S = W * S - j * S
    BY <1>1
  <2>5. b - (W - j) * S = x
    BY <1>1, <1>4, <1>6, <2>1, <2>4
  <2>6. W - j \in 0 .. W - 1
    BY <2>2, <2>3
  <2>. QED  BY <2>5, <2>6
<1>8. <<t, x>> \in DataLeaves(n, b)
  <2>1. n - 1 = t
    BY <1>0, <1>5
  <2>. HIDE DEF x
  <2>. QED  BY <1>7, <2>1 DEF DataLeaves
<1>9. b - Span(n) = 0
  BY <1>0, <1>4
<1>. QED  BY <1>8, <1>9

(* A mirror with the newest root of every layer proves the next key block. *)
LEMMA ReadyChains ==
  ASSUME ThinningFits, NEW m, Ready(m)
  PROVE  Buildable(m, m.lastSeq + Step) /\ Closes(m, m.lastSeq + Step)
<1> DEFINE last == m.lastSeq
           b == last + Step
           n == NumLayers(b)
           t == NumActiveLayers(m)
<1>0. /\ last \in Nat /\ last \in Int /\ last > 0 /\ Multiple(last, Step)
      /\ Step \in Nat \ {0} /\ Step \in Int /\ b \in Nat /\ P \in Nat \ {0}
  BY StepType DEF Ready, BoundedMirror, Mirror, KeyBlock
<1>1. /\ t \in 1 .. MaxLayers
      /\ \A l \in Layers : /\ l <= t <=> Span(l) <= last
                           /\ l <= t => /\ Newest(l, last) > 0
                                        /\ LatestHash(m.recent[l]) = <<l, Newest(l, last)>>
  BY ReadyLayers
<1>2. n \in 0 .. MaxLayers /\ \A l \in Layers : l <= n <=> Multiple(b, Span(l))
  BY <1>0, LayersAreLowest
<1>3. 1 <= n
  <2>1. Multiple(Step, Step)
    BY <1>0, MultipleSelf
  <2>2. Multiple(b, Step)
    BY <1>0, <2>1, MultipleSum
  <2>3. Multiple(b, W)
    BY <1>0, <2>2, StepOfWindows, MultipleTrans
  <2>4. 1 \in Layers /\ Span(1) = W
    BY SpanBase DEF Layers
  <2>. QED  BY <1>2, <2>3, <2>4
<1>4. n \in Layers /\ t \in Layers /\ Multiple(b, Span(n)) /\ n \in Nat /\ t \in Nat
  BY <1>1, <1>2, <1>3 DEF Layers
<1>. HIDE DEF n, t, last
<1>5. CASE n <= t
  <2> DEFINE keys == ChainBlocks(last, b)
  <2>1. /\ ~NewLayerAppeared(m, b) /\ PrevHash(m, n) = LatestHash(m.recent[n])
        /\ Span(n) <= last /\ LatestHash(m.recent[n]) = <<n, Newest(n, last)>>
    BY <1>1, <1>3, <1>4, <1>5 DEF NewLayerAppeared, PrevHash, n, t
  <2>2. /\ keys # {} /\ IsFiniteSet(keys) /\ Cardinality(keys) <= MaxChainLen
        /\ \A k \in keys : PrevSameLayerRoot(n, k) \in ({n} \X keys) \cup {PrevHash(m, n)}
    <3>1. CASE n = 1
      <4>1. Span(n) = W
        BY <3>1, SpanBase
      <4>2. keys = {k \in last + W .. b : (k - last) % W = 0 /\ k % W = 0} \cup {b}
        BY <4>1 DEF ChainBlocks, n
      <4>. HIDE DEF keys
      <4>3. /\ IsFiniteSet(keys) /\ Cardinality(keys) <= P
            /\ \A k \in keys : k - W = last \/ k - W \in keys
        BY <1>0, <4>2, LowLinks
      <4>4. Newest(n, last) = last
        <5>1. Multiple(last, W) /\ last <= last /\ last < last + W
          BY <1>0, StepOfWindows, MultipleTrans
        <5>. QED  BY <1>0, <4>1, <5>1, NewestMultiple DEF Newest
      <4>5. Cardinality(keys) \in Nat /\ keys # {}
        BY <4>2, <4>3, FS_CardinalityType
      <4>6. ASSUME NEW k \in keys
            PROVE  PrevSameLayerRoot(n, k) \in ({n} \X keys) \cup {PrevHash(m, n)}
        <5>1. PrevSameLayerRoot(n, k) = <<n, k - W>>
          BY <4>1 DEF PrevSameLayerRoot
        <5>. QED  BY <2>1, <4>3, <4>4, <5>1
      <4>. QED  BY <4>3, <4>5, <4>6 DEF ThinningFits
    <3>2. CASE n # 1
      <4>1. 2 <= n
        BY <1>3, <1>4, <3>2
      <4>2. /\ {k \in last + Span(n) .. b : (k - last) % Span(n) = 0 /\ k % Span(n) = 0}
                   \subseteq {b}
            /\ PrevSameLayerRoot(n, b) = PrevHash(m, n)
        BY <1>4, <2>1, <4>1, OneLink DEF last
      <4>3. keys = {b}
        BY <4>2 DEF ChainBlocks, n
      <4>4. IsFiniteSet({b}) /\ Cardinality({b}) = 1
        BY FS_Singleton
      <4>5. 1 <= MaxChainLen
        BY <1>0 DEF ThinningFits
      <4>. QED  BY <4>2, <4>3, <4>4, <4>5
    <3>. QED  BY <3>1, <3>2
  <2>. QED  BY <2>1, <2>2 DEF Buildable, Closes, SameLayerCloses, n, last
<1>6. CASE ~(n <= t)
  <2>1. /\ NewLayerAppeared(m, b) /\ PrevHash(m, n) = LatestHash(m.recent[t])
        /\ 2 <= n /\ t < n /\ Span(t) <= last
        /\ LatestHash(m.recent[t]) = <<t, Newest(t, last)>> /\ Newest(t, last) > 0
    BY <1>1, <1>3, <1>4, <1>6 DEF NewLayerAppeared, PrevHash, n, t
  <2>2. t + 1 \in Layers /\ ~(t + 1 <= t)
    BY <1>4, <2>1 DEF Layers
  <2>3. ~(Span(t + 1) <= last)
    BY <1>1, <2>2
  <2>4. <<t, Newest(t, last)>> \in DataLeaves(n, b) /\ b - Span(n) = 0
    BY <1>4, <2>1, <2>3, NewLayerLink DEF last
  <2>5. FoundInNewLayer(m, b) /\ NewLayerCloses(m, b)
    BY <2>1, <2>4 DEF FoundInNewLayer, NewLayerCloses, PrevSameLayerRoot, n
  <2>. QED  BY <2>1, <2>5 DEF Buildable, Closes, last
<1>. QED  BY <1>5, <1>6

(* Where the thinning factor fits, a complete mirror can prove the next key
   block whatever layers that block publishes, in every state the daemons
   reach. *)
THEOREM CompleteMirrorsChain ==
  ASSUME ThinningFits
  PROVE  Spec => []CompleteMirrorChains
<1>1. ASSUME MirrorInv, KeyInv, ppc = "bundle", prover.initialized, Complete(prover)
      PROVE  Buildable(prover, target) /\ Closes(prover, target)
  <2>1. target = prover.lastSeq + Step
    BY <1>1 DEF KeyInv, AtKeyBlock
  <2>2. Ready(prover)
    BY <1>1, MirrorTypes DEF MirrorInv, KeyInv, Ready
  <2>. QED  BY <2>1, <2>2, ReadyChains
<1>2. MirrorInv /\ KeyInv => CompleteMirrorChains
  BY <1>1 DEF CompleteMirrorChains
<1>. QED  BY MirrorInvariant, KeyInvariant, <1>2, PTL
=============================================================================
