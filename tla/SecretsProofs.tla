---------------------------- MODULE SecretsProofs ----------------------------
(***************************************************************************)
(* What the operators of Secrets and HttpContext compute, for every        *)
(* environment, every .env file and every text: the composition of the     *)
(* sources keeps a secret per name, the redactors leave none of the        *)
(* secrets behind, and the context of an event shows its secret only       *)
(* where the scanned text has it twice or is printed as it is.             *)
(*                                                                         *)
(* Those operators fold over sequences.  The induction theorems of the     *)
(* library take an operator as a parameter, which the provers here cannot  *)
(* instantiate; induction is stated below for a set of numbers instead.    *)
(***************************************************************************)
EXTENDS HttpContext, FiniteSetTheorems, SequenceTheorems, WellFoundedInduction, TLAPS

-------------------------------------------------------------------------------
(* Induction, for sets. *)

(* A set of naturals that is not empty has a least member. *)
LEMMA LeastNumber ==
    ASSUME NEW S \in SUBSET Nat, S # {}
    PROVE  \E n \in S : \A m \in S : n <= m
<1> DEFINE R == {p \in Nat \X Nat : p[1] < p[2]}
<1>1. IsWellFoundedOn(R, Nat)
  BY NatLessThanWellFounded DEF OpToRel
<1>2. PICK n \in S : \A m \in S : ~(<<m, n>> \in R)
  <2> HIDE DEF R
  <2> QED BY <1>1, WFMin
<1>3. ASSUME NEW m \in S PROVE n <= m
  <2>1. ~(m < n)
    <3>1. <<m, n>> \in Nat \X Nat
      OBVIOUS
    <3>2. <<m, n>>[1] = m /\ <<m, n>>[2] = n
      OBVIOUS
    <3> QED BY <1>2, <3>1, <3>2
  <2> QED BY <2>1
<1> QED BY <1>3

(* A set that holds 0 and the successor of each member holds every natural. *)
LEMMA Induction ==
    ASSUME NEW S \in SUBSET Nat, 0 \in S, \A n \in S : n + 1 \in S
    PROVE  \A n \in Nat : n \in S
<1> SUFFICES ASSUME Nat \ S # {} PROVE FALSE
  OBVIOUS
<1>1. PICK n \in Nat \ S : \A m \in Nat \ S : n <= m
  BY LeastNumber
<1>2. n # 0 /\ n - 1 \in Nat /\ ~(n <= n - 1)
  BY <1>1
<1>3. n - 1 \in S
  BY <1>1, <1>2
<1> QED BY <1>1, <1>2, <1>3

(* Max is the greatest member of a set of indices. *)
LEMMA GreatestIndex ==
    ASSUME NEW n \in Nat, NEW S \in SUBSET (1 .. n), S # {}
    PROVE  Max(S) \in S /\ \A y \in S : y <= Max(S)
<1> DEFINE D == {d \in Nat : n - d \in S}
<1>1. D \in SUBSET Nat /\ D # {}
  <2>1. PICK x \in S : TRUE
    OBVIOUS
  <2>2. n - x \in Nat /\ n - (n - x) = x
    BY <2>1
  <2> QED BY <2>1, <2>2
<1>2. PICK d \in D : \A m \in D : d <= m
  BY <1>1, LeastNumber
<1>3. n - d \in S
  BY <1>2
<1>4. ASSUME NEW y \in S PROVE y <= n - d
  <2>1. n - y \in Nat /\ n - (n - y) = y
    OBVIOUS
  <2>2. d <= n - y
    BY <1>2, <2>1
  <2> QED BY <2>1, <2>2, <1>2
<1>5. \E x \in S : \A y \in S : x >= y
  BY <1>3, <1>4
<1> QED BY <1>5 DEF Max

(* Min is the least member of a set of naturals. *)
LEMMA LeastIndex ==
    ASSUME NEW S \in SUBSET Nat, S # {}
    PROVE  Min(S) \in S /\ \A y \in S : Min(S) <= y
<1>1. \E n \in S : \A m \in S : n <= m
  BY LeastNumber
<1> QED BY <1>1 DEF Min

-------------------------------------------------------------------------------
(* Folds over sequences. *)

(* g is the function that folds op over sets of indices of seq. *)
IsFold(g, op, base, seq, N, B) ==
    /\ g \in [SUBSET (1 .. N) -> B]
    /\ \A s \in SUBSET (1 .. N) :
          g[s] = IF s = {} THEN base ELSE op[<<g[s \ {Max(s)}], seq[Max(s)]>>]

(* FoldLeft is a function on sets of indices, defined by recursion from the
   greatest index down.  There is such a function. *)
LEMMA FoldDefined ==
    ASSUME NEW A, NEW B, NEW base \in B, NEW op \in [B \X A -> B],
           NEW seq, NEW N \in Nat, seq \in [1 .. N -> A]
    PROVE  \E g : IsFold(g, op, base, seq, N, B)
<1> DEFINE Folds(k, g) ==
      \A s \in SUBSET (1 .. k) :
         g[s] = IF s = {} THEN base ELSE op[<<g[s \ {Max(s)}], seq[Max(s)]>>]
    Reaches(k) == \E g \in [SUBSET (1 .. k) -> B] : Folds(k, g)
    Reached == {k \in Nat : k <= N => Reaches(k)}
<1>1. Reaches(0)
  <2> DEFINE g == [s \in SUBSET (1 .. 0) |-> base]
  <2>1. SUBSET (1 .. 0) = {{}}
    OBVIOUS
  <2>2. g \in [SUBSET (1 .. 0) -> B] /\ Folds(0, g)
    BY <2>1
  <2> QED BY <2>2
<1>2. ASSUME NEW k \in Nat, k + 1 <= N, Reaches(k) PROVE Reaches(k + 1)
  <2>0. k + 1 \in Nat /\ k + 1 \in 1 .. N /\ 1 .. k \subseteq 1 .. k + 1
    BY <1>2
  <2>1. PICK g \in [SUBSET (1 .. k) -> B] : Folds(k, g)
    BY <1>2
  <2> DEFINE h == [s \in SUBSET (1 .. k + 1) |->
                     IF k + 1 \in s THEN op[<<g[s \ {k + 1}], seq[k + 1]>>] ELSE g[s]]
  <2>2. \A s \in SUBSET (1 .. k + 1) : s \ {k + 1} \in SUBSET (1 .. k)
    BY <2>0
  <2>3. h \in [SUBSET (1 .. k + 1) -> B]
    <3>1. ASSUME NEW s \in SUBSET (1 .. k + 1) PROVE h[s] \in B
      <4>1. CASE k + 1 \in s
        <5>1. <<g[s \ {k + 1}], seq[k + 1]>> \in B \X A
          BY <2>1, <2>0, <2>2
        <5> QED BY <4>1, <5>1
      <4>2. CASE k + 1 \notin s
        <5>1. s \in SUBSET (1 .. k)
          BY <2>2, <4>2
        <5> QED BY <4>2, <5>1, <2>1
      <4> QED BY <4>1, <4>2
    <3> QED BY <3>1
  <2>4. ASSUME NEW s \in SUBSET (1 .. k + 1)
        PROVE  h[s] = IF s = {} THEN base ELSE op[<<h[s \ {Max(s)}], seq[Max(s)]>>]
    <3>1. CASE k + 1 \in s
      <4>1. Max(s) = k + 1
        <5>1. Max(s) \in s /\ \A y \in s : y <= Max(s)
          <6>1. s # {}
            BY <3>1
          <6> QED BY <6>1, <2>0, GreatestIndex
        <5>2. k + 1 <= Max(s) /\ Max(s) \in 1 .. k + 1
          BY <5>1, <3>1
        <5> QED BY <5>2, <2>0
      <4>2. h[s \ {k + 1}] = g[s \ {k + 1}]
        BY <2>2, <2>0
      <4> QED BY <3>1, <4>1, <4>2
    <3>2. CASE k + 1 \notin s
      <4>1. s \in SUBSET (1 .. k) /\ s \ {Max(s)} \in SUBSET (1 .. k)
        BY <2>2, <3>2
      <4>2. h[s] = g[s] /\ h[s \ {Max(s)}] = g[s \ {Max(s)}]
        BY <3>2, <4>1, <2>0
      <4>3. g[s] = IF s = {} THEN base ELSE op[<<g[s \ {Max(s)}], seq[Max(s)]>>]
        BY <2>1, <4>1
      <4> QED BY <4>2, <4>3
    <3> QED BY <3>1, <3>2
  <2> QED BY <2>3, <2>4
<1>3. N \in Reached
  <2> HIDE DEF Reaches
  <2>1. 0 \in Reached
    BY <1>1
  <2>2. ASSUME NEW k \in Reached PROVE k + 1 \in Reached
    <3>1. k + 1 <= N => k <= N
      OBVIOUS
    <3> QED BY <1>2, <3>1
  <2>3. Reached \in SUBSET Nat
    OBVIOUS
  <2> HIDE DEF Reached
  <2> QED BY <2>1, <2>2, <2>3, Induction
<1>4. Reaches(N)
  <2> HIDE DEF Reaches
  <2> QED BY <1>3
<1> QED BY <1>4 DEF IsFold

(* On the first k indices it takes the k-th member to the result for those
   before it. *)
LEMMA FirstIndices ==
    ASSUME NEW k \in Nat
    PROVE  /\ 1 .. k + 1 # {} /\ Max(1 .. k + 1) = k + 1
           /\ (1 .. k + 1) \ {k + 1} = 1 .. k
<1>1. k + 1 \in 1 .. k + 1
  OBVIOUS
<1>2. Max(1 .. k + 1) \in 1 .. k + 1 /\ \A y \in 1 .. k + 1 : y <= Max(1 .. k + 1)
  BY <1>1, GreatestIndex, k + 1 \in Nat
<1>3. Max(1 .. k + 1) = k + 1
  BY <1>1, <1>2
<1>4. ASSUME NEW x PROVE x \in (1 .. k + 1) \ {k + 1} <=> x \in 1 .. k
  OBVIOUS
<1> QED BY <1>1, <1>3, <1>4

-------------------------------------------------------------------------------
(* The composition of the sources. *)

(* What Compose does with one more secret. *)
Keep(kept, s) ==
    IF \E i \in DOMAIN kept : kept[i].value = s.value \/ kept[i].name = s.name
      THEN kept ELSE Append(kept, s)

(* The secrets that are kept grow from the first secret to the last. *)
LEMMA ComposeRuns ==
    ASSUME NEW A, NEW sources, FlattenSeq(sources) \in Seq(A)
    PROVE  \E r : /\ r[0] = <<>>
                  /\ \A k \in 0 .. Len(FlattenSeq(sources)) - 1 :
                        r[k + 1] = Keep(r[k], FlattenSeq(sources)[k + 1])
                  /\ Compose(sources) = r[Len(FlattenSeq(sources))]
<1> DEFINE all == FlattenSeq(sources)
           N == Len(all)
           It == CHOOSE iter : iter =
                   [s \in SUBSET DOMAIN all |->
                      IF s = {} THEN <<>> ELSE Keep(iter[s \ {Max(s)}], all[Max(s)])]
<1>1. Compose(sources) = It[DOMAIN all]
  BY DEF Compose, FoldLeft, MapThenFoldSet, Keep
<1>2. N \in Nat /\ DOMAIN all = 1 .. N /\ all \in [1 .. N -> A]
  BY LenProperties
<1> HIDE DEF all, N
<1>3. \E iter : iter = [s \in SUBSET DOMAIN all |->
                      IF s = {} THEN <<>> ELSE Keep(iter[s \ {Max(s)}], all[Max(s)])]
  <2> DEFINE op == [p \in Seq(A) \X A |-> Keep(p[1], p[2])]
  <2>1. op \in [Seq(A) \X A -> Seq(A)]
    <3>1. ASSUME NEW p \in Seq(A) \X A PROVE Keep(p[1], p[2]) \in Seq(A)
      BY AppendProperties DEF Keep
    <3> QED BY <3>1
  <2>2. <<>> \in Seq(A)
    BY EmptySeq
  <2> HIDE DEF op, It
  <2>3. PICK g : IsFold(g, op, <<>>, all, N, Seq(A))
    BY <1>2, <2>1, <2>2, FoldDefined
  <2>4. ASSUME NEW s \in SUBSET (1 .. N)
        PROVE  g[s] = IF s = {} THEN <<>> ELSE Keep(g[s \ {Max(s)}], all[Max(s)])
    <3> SUFFICES ASSUME s # {}
                 PROVE  op[<<g[s \ {Max(s)}], all[Max(s)]>>] = Keep(g[s \ {Max(s)}], all[Max(s)])
      BY <2>3 DEF IsFold
    <3>1. Max(s) \in 1 .. N
      BY <1>2, GreatestIndex
    <3>2. g[s \ {Max(s)}] \in Seq(A) /\ all[Max(s)] \in A
      BY <1>2, <2>3, <3>1 DEF IsFold
    <3> QED BY <3>2 DEF op
  <2>5. g = [s \in SUBSET (1 .. N) |->
               IF s = {} THEN <<>> ELSE Keep(g[s \ {Max(s)}], all[Max(s)])]
    BY <2>3, <2>4 DEF IsFold
  <2> QED BY <1>2, <2>5
<1>4. It = [s \in SUBSET DOMAIN all |->
              IF s = {} THEN <<>> ELSE Keep(It[s \ {Max(s)}], all[Max(s)])]
  BY <1>3
<1> HIDE DEF It
<1> DEFINE r == [k \in 0 .. N |-> It[1 .. k]]
<1>5. r[0] = <<>>
  <2>1. 1 .. 0 = {} /\ {} \in SUBSET DOMAIN all /\ 0 \in 0 .. N
    BY <1>2
  <2> QED BY <1>4, <2>1
<1>6. ASSUME NEW k \in 0 .. N - 1 PROVE r[k + 1] = Keep(r[k], all[k + 1])
  <2>1. 1 .. k + 1 \in SUBSET DOMAIN all /\ k \in Nat /\ k \in 0 .. N /\ k + 1 \in 0 .. N
    BY <1>2
  <2>2. It[1 .. k + 1] = Keep(It[(1 .. k + 1) \ {Max(1 .. k + 1)}], all[Max(1 .. k + 1)])
    BY <1>4, <2>1, FirstIndices
  <2> QED BY <2>1, <2>2, FirstIndices
<1>7. Compose(sources) = r[N]
  BY <1>1, <1>2
<1> QED BY <1>5, <1>6, <1>7 DEF all, N

(* kept is what is left of the first k secrets in all: they come from all, no
   two share a name or a value, and one that is dropped gives way to one that
   comes no later and has its name or its value. *)
Composed(kept, all, k) ==
    /\ \A i \in DOMAIN kept : \E m \in 1 .. k : kept[i] = all[m]
    /\ \A i, j \in DOMAIN kept :
          i # j => kept[i].name # kept[j].name /\ kept[i].value # kept[j].value
    /\ \A j \in 1 .. k : \E i \in DOMAIN kept : \E m \in 1 .. j :
          kept[i] = all[m] /\ (all[m].value = all[j].value \/ all[m].name = all[j].name)

(* One more secret. *)
LEMMA KeepComposes ==
    ASSUME NEW A, NEW all \in Seq(A), NEW k \in Nat, k + 1 <= Len(all),
           NEW kept \in Seq(A), Composed(kept, all, k)
    PROVE  /\ Keep(kept, all[k + 1]) \in Seq(A)
           /\ Composed(Keep(kept, all[k + 1]), all, k + 1)
<1> DEFINE s == all[k + 1]
<1>1. s \in A /\ 1 .. k \subseteq 1 .. k + 1 /\ k + 1 \in 1 .. k + 1
  BY LenProperties
<1>2. CASE \E i \in DOMAIN kept : kept[i].value = s.value \/ kept[i].name = s.name
  <2>1. Keep(kept, s) = kept
    BY <1>2 DEF Keep
  <2>2. \A i \in DOMAIN kept : \E m \in 1 .. k + 1 : kept[i] = all[m]
    BY <1>1 DEF Composed
  <2>3. ASSUME NEW j \in 1 .. k + 1
        PROVE  \E i \in DOMAIN kept : \E m \in 1 .. j :
                 kept[i] = all[m] /\ (all[m].value = all[j].value \/ all[m].name = all[j].name)
    <3>1. CASE j \in 1 .. k
      BY <3>1 DEF Composed
    <3>2. CASE j = k + 1
      <4>1. PICK i \in DOMAIN kept : kept[i].value = s.value \/ kept[i].name = s.name
        BY <1>2
      <4>2. PICK m \in 1 .. k : kept[i] = all[m]
        BY DEF Composed
      <4> QED BY <3>2, <4>1, <4>2
    <3> QED BY <3>1, <3>2
  <2> QED BY <2>1, <2>2, <2>3 DEF Composed
<1>3. CASE ~(\E i \in DOMAIN kept : kept[i].value = s.value \/ kept[i].name = s.name)
  <2> DEFINE new == Append(kept, s)
             n == Len(kept)
  <2>1. Keep(kept, s) = new
    BY <1>3 DEF Keep
  <2>2. /\ n \in Nat /\ DOMAIN kept = 1 .. n /\ DOMAIN new = 1 .. n + 1
        /\ new \in Seq(A) /\ new[n + 1] = s /\ \A i \in 1 .. n : new[i] = kept[i]
    BY <1>1, AppendProperties, LenProperties
  <2> HIDE DEF new, n
  <2>3. ASSUME NEW i \in DOMAIN new PROVE \E m \in 1 .. k + 1 : new[i] = all[m]
    <3>1. CASE i \in 1 .. n
      <4>1. i \in DOMAIN kept /\ new[i] = kept[i]
        BY <2>2, <3>1
      <4>2. PICK m \in 1 .. k : kept[i] = all[m]
        BY <4>1 DEF Composed
      <4> QED BY <1>1, <4>1, <4>2
    <3>2. CASE i = n + 1
      BY <1>1, <2>2, <3>2
    <3> QED BY <2>2, <3>1, <3>2
  <2>4. ASSUME NEW i \in DOMAIN new, NEW j \in DOMAIN new, i # j
        PROVE  new[i].name # new[j].name /\ new[i].value # new[j].value
    <3>1. CASE i \in 1 .. n /\ j \in 1 .. n
      <4>1. i \in DOMAIN kept /\ j \in DOMAIN kept /\ new[i] = kept[i] /\ new[j] = kept[j]
        BY <2>2, <3>1
      <4>2. kept[i].name # kept[j].name /\ kept[i].value # kept[j].value
        BY <2>4, <4>1 DEF Composed
      <4> QED BY <4>1, <4>2
    <3>2. CASE i \in 1 .. n /\ j = n + 1
      BY <1>3, <2>2, <3>2
    <3>3. CASE i = n + 1 /\ j \in 1 .. n
      BY <1>3, <2>2, <3>3
    <3> QED BY <2>2, <2>4, <3>1, <3>2, <3>3
  <2>5. ASSUME NEW j \in 1 .. k + 1
        PROVE  \E i \in DOMAIN new : \E m \in 1 .. j :
                 new[i] = all[m] /\ (all[m].value = all[j].value \/ all[m].name = all[j].name)
    <3>1. CASE j \in 1 .. k
      <4>1. PICK i \in 1 .. n, m \in 1 .. j :
              kept[i] = all[m] /\ (all[m].value = all[j].value \/ all[m].name = all[j].name)
        BY <2>2, <3>1 DEF Composed
      <4>2. i \in DOMAIN new /\ new[i] = kept[i]
        BY <2>2
      <4> QED BY <4>1, <4>2
    <3>2. CASE j = k + 1
      <4>1. n + 1 \in DOMAIN new /\ j \in 1 .. j
        BY <2>2, <3>2
      <4> QED BY <2>2, <3>2, <4>1
    <3> QED BY <3>1, <3>2
  <2> QED BY <2>1, <2>2, <2>3, <2>4, <2>5 DEF Composed
<1> QED BY <1>2, <1>3

(* What Compose returns, for any sources. *)
LEMMA ComposeKeeps ==
    ASSUME NEW A, NEW sources, FlattenSeq(sources) \in Seq(A)
    PROVE  /\ Compose(sources) \in Seq(A)
           /\ Composed(Compose(sources), FlattenSeq(sources), Len(FlattenSeq(sources)))
<1> DEFINE all == FlattenSeq(sources)
           N == Len(all)
<1>1. PICK r : /\ r[0] = <<>>
               /\ \A k \in 0 .. N - 1 : r[k + 1] = Keep(r[k], all[k + 1])
               /\ Compose(sources) = r[N]
  BY ComposeRuns
<1>2. N \in Nat /\ all \in Seq(A)
  BY LenProperties
<1> HIDE DEF all, N
<1> DEFINE Good == {k \in Nat : k <= N => r[k] \in Seq(A) /\ Composed(r[k], all, k)}
<1>3. 0 \in Good
  <2>1. <<>> \in Seq(A) /\ DOMAIN <<>> = {}
    BY EmptySeq
  <2>2. Composed(<<>>, all, 0)
    BY <2>1 DEF Composed
  <2> QED BY <1>1, <2>1, <2>2
<1>4. ASSUME NEW k \in Good PROVE k + 1 \in Good
  <2> SUFFICES ASSUME k + 1 <= N
               PROVE  r[k + 1] \in Seq(A) /\ Composed(r[k + 1], all, k + 1)
    OBVIOUS
  <2>1. k \in Nat /\ k \in 0 .. N - 1 /\ r[k] \in Seq(A) /\ Composed(r[k], all, k)
    BY <1>2
  <2>2. k + 1 <= Len(all)
    BY DEF N
  <2>3. r[k + 1] = Keep(r[k], all[k + 1])
    BY <1>1, <2>1
  <2> QED BY <1>2, <2>1, <2>2, <2>3, KeepComposes
<1>5. N \in Good
  <2>1. Good \in SUBSET Nat
    OBVIOUS
  <2> HIDE DEF Good
  <2> QED BY <1>2, <1>3, <1>4, <2>1, Induction
<1> QED BY <1>1, <1>2, <1>5 DEF all, N

(* Two sources are flattened into one after the other. *)
LEMMA TwoSources ==
    ASSUME NEW A, NEW a \in Seq(A), NEW b \in Seq(A)
    PROVE  FlattenSeq(<<a, b>>) = a \o b
<1> DEFINE flatten == CHOOSE f : f = [i \in 1 .. Len(<<a, b>>) |->
                        IF i = 1 THEN <<a, b>>[i] ELSE f[i - 1] \o <<a, b>>[i]]
<1>1. FlattenSeq(<<a, b>>) = flatten[2]
  BY DEF FlattenSeq
<1>2. \E f : f = [i \in 1 .. Len(<<a, b>>) |->
                 IF i = 1 THEN <<a, b>>[i] ELSE f[i - 1] \o <<a, b>>[i]]
  <2> DEFINE f == [i \in 1 .. 2 |-> IF i = 1 THEN a ELSE a \o b]
  <2>1. f[1] = a /\ Len(<<a, b>>) = 2 /\ <<a, b>>[1] = a /\ <<a, b>>[2] = b
    OBVIOUS
  <2>2. \A i \in 1 .. 2 : i = 1 \/ i = 2
    OBVIOUS
  <2>3. \A i \in 1 .. 2 : f[i] = IF i = 1 THEN <<a, b>>[i] ELSE f[i - 1] \o <<a, b>>[i]
    BY <2>1, <2>2
  <2>4. f = [i \in 1 .. Len(<<a, b>>) |->
                IF i = 1 THEN <<a, b>>[i] ELSE f[i - 1] \o <<a, b>>[i]]
    BY <2>1, <2>3
  <2> QED BY <2>4
<1>3. flatten = [i \in 1 .. Len(<<a, b>>) |->
                   IF i = 1 THEN <<a, b>>[i] ELSE flatten[i - 1] \o <<a, b>>[i]]
  BY <1>2
<1> HIDE DEF flatten
<1>4. flatten[1] = a
  BY <1>3
<1>5. flatten[2] = flatten[1] \o b
  <2>1. Len(<<a, b>>) = 2 /\ <<a, b>>[2] = b /\ 2 - 1 = 1
    OBVIOUS
  <2>2. \A i \in 1 .. Len(<<a, b>>) :
           flatten[i] = IF i = 1 THEN <<a, b>>[i] ELSE flatten[i - 1] \o <<a, b>>[i]
    BY <1>3, Zenon
  <2>3. 2 \in 1 .. Len(<<a, b>>)
    BY <2>1
  <2>4. flatten[2] = IF 2 = 1 THEN <<a, b>>[2] ELSE flatten[2 - 1] \o <<a, b>>[2]
    BY <2>2, <2>3
  <2> QED BY <2>1, <2>4
<1> QED BY <1>1, <1>4, <1>5

-------------------------------------------------------------------------------
(* Filters: folds that append the images under f of the members in T. *)

Collect(found, x, T, f) == IF x \in T THEN Append(found, f[x]) ELSE found

(* it is the function that filters src. *)
IsFilter(it, src, T, f) ==
    it = [s \in SUBSET DOMAIN src |->
            IF s = {} THEN <<>> ELSE Collect(it[s \ {Max(s)}], src[Max(s)], T, f)]

(* There is one. *)
LEMMA FilterDefined ==
    ASSUME NEW A, NEW B, NEW src \in Seq(A), NEW T, NEW f \in [A -> B]
    PROVE  \E it : IsFilter(it, src, T, f)
<1> DEFINE N == Len(src)
           op == [p \in Seq(B) \X A |-> Collect(p[1], p[2], T, f)]
<1>1. N \in Nat /\ DOMAIN src = 1 .. N /\ src \in [1 .. N -> A]
  BY LenProperties
<1>2. op \in [Seq(B) \X A -> Seq(B)]
  <2>1. ASSUME NEW p \in Seq(B) \X A PROVE Collect(p[1], p[2], T, f) \in Seq(B)
    <3>1. p[1] \in Seq(B) /\ f[p[2]] \in B
      OBVIOUS
    <3> QED BY <3>1, AppendProperties DEF Collect
  <2> QED BY <2>1
<1>3. <<>> \in Seq(B)
  BY EmptySeq
<1> HIDE DEF op, N
<1>4. PICK g : IsFold(g, op, <<>>, src, N, Seq(B))
  BY <1>1, <1>2, <1>3, FoldDefined
<1>5. ASSUME NEW s \in SUBSET (1 .. N)
      PROVE  g[s] = IF s = {} THEN <<>> ELSE Collect(g[s \ {Max(s)}], src[Max(s)], T, f)
  <2> SUFFICES ASSUME s # {}
               PROVE  op[<<g[s \ {Max(s)}], src[Max(s)]>>]
                      = Collect(g[s \ {Max(s)}], src[Max(s)], T, f)
    BY <1>4 DEF IsFold
  <2>1. Max(s) \in 1 .. N
    BY <1>1, GreatestIndex
  <2>2. g[s \ {Max(s)}] \in Seq(B) /\ src[Max(s)] \in A
    BY <1>1, <1>4, <2>1 DEF IsFold
  <2> QED BY <2>2 DEF op
<1> QED BY <1>1, <1>4, <1>5 DEF IsFold, IsFilter

(* found are the images, in B, of the members of src in T. *)
Filtered(found, src, T, f, B) ==
    /\ found \in Seq(B)
    /\ \A i \in DOMAIN found : \E j \in DOMAIN src : src[j] \in T /\ found[i] = f[src[j]]
    /\ \A j \in DOMAIN src : src[j] \in T => \E i \in DOMAIN found : found[i] = f[src[j]]

(* Its result is a sequence of the images of the members in T, of all and of no
   others. *)
LEMMA FilterCollects ==
    ASSUME NEW A, NEW B, NEW src \in Seq(A), NEW T, NEW f \in [A -> B],
           NEW it, IsFilter(it, src, T, f)
    PROVE  Filtered(it[DOMAIN src], src, T, f, B)
<1> DEFINE N == Len(src)
    Right(found, k) ==
      /\ found \in Seq(B)
      /\ \A i \in DOMAIN found : \E j \in 1 .. k : src[j] \in T /\ found[i] = f[src[j]]
      /\ \A j \in 1 .. k : src[j] \in T => \E i \in DOMAIN found : found[i] = f[src[j]]
    Good == {k \in Nat : k <= N => Right(it[1 .. k], k)}
<1>1. N \in Nat /\ DOMAIN src = 1 .. N
  BY LenProperties
<1>2. 0 \in Good
  <2>1. 1 .. 0 = {} /\ {} \in SUBSET DOMAIN src
    OBVIOUS
  <2>2. it[1 .. 0] = <<>>
    BY <2>1 DEF IsFilter
  <2>3. <<>> \in Seq(B) /\ DOMAIN <<>> = {}
    BY EmptySeq
  <2>4. Right(<<>>, 0)
    BY <2>3
  <2> HIDE DEF Right
  <2> QED BY <2>2, <2>4
<1>3. ASSUME NEW k \in Nat, k + 1 <= N, Right(it[1 .. k], k)
      PROVE  Right(it[1 .. k + 1], k + 1)
  <2> DEFINE found == it[1 .. k]
             x     == src[k + 1]
             new   == Collect(found, x, T, f)
  <2>1. it[1 .. k + 1] = new
    <3>1. 1 .. k + 1 \in SUBSET DOMAIN src
      BY <1>1, <1>3
    <3>2. it[1 .. k + 1] = Collect(it[(1 .. k + 1) \ {Max(1 .. k + 1)}], src[Max(1 .. k + 1)], T, f)
      BY <3>1, FirstIndices DEF IsFilter
    <3> QED BY <3>2, FirstIndices
  <2>2. Right(found, k)
    BY <1>3
  <2>3. x \in A /\ f[x] \in B /\ 1 .. k \subseteq 1 .. k + 1 /\ k + 1 \in 1 .. k + 1
    BY <1>1, <1>3
  <2> HIDE DEF found
  <2>4. CASE x \notin T
    <3>1. new = found
      BY <2>4 DEF Collect
    <3>2. \A j \in 1 .. k + 1 : j \in 1 .. k \/ j = k + 1
      OBVIOUS
    <3>3. Right(found, k + 1)
      BY <2>2, <2>3, <2>4, <3>2
    <3> QED BY <2>1, <3>1, <3>3
  <2>5. CASE x \in T
    <3> DEFINE n == Len(found)
    <3>1. new = Append(found, f[x])
      BY <2>5 DEF Collect
    <3>2. found \in Seq(B)
      BY <2>2
    <3>3. /\ n \in Nat /\ DOMAIN found = 1 .. n /\ DOMAIN new = 1 .. n + 1
          /\ new \in Seq(B) /\ new[n + 1] = f[x] /\ \A i \in 1 .. n : new[i] = found[i]
      BY <2>3, <3>1, <3>2, AppendProperties, LenProperties
    <3> HIDE DEF n, new
    <3>4. ASSUME NEW i \in DOMAIN new
          PROVE  \E j \in 1 .. k + 1 : src[j] \in T /\ new[i] = f[src[j]]
      <4>1. CASE i \in 1 .. n
        <5>1. PICK j \in 1 .. k : src[j] \in T /\ found[i] = f[src[j]]
          BY <2>2, <3>3, <4>1
        <5> QED BY <2>3, <3>3, <4>1, <5>1
      <4>2. CASE i = n + 1
        BY <2>3, <2>5, <3>3, <4>2
      <4> QED BY <3>3, <4>1, <4>2
    <3>5. ASSUME NEW j \in 1 .. k + 1, src[j] \in T
          PROVE  \E i \in DOMAIN new : new[i] = f[src[j]]
      <4>1. CASE j \in 1 .. k
        <5>1. PICK i \in DOMAIN found : found[i] = f[src[j]]
          BY <2>2, <3>5, <4>1
        <5>2. i \in DOMAIN new /\ new[i] = found[i]
          BY <3>3
        <5> QED BY <5>1, <5>2
      <4>2. CASE j = k + 1
        <5>1. n + 1 \in DOMAIN new
          BY <3>3
        <5> QED BY <3>3, <4>2, <5>1
      <4> QED BY <4>1, <4>2
    <3>6. Right(new, k + 1)
      BY <3>3, <3>4, <3>5
    <3> QED BY <2>1, <3>6
  <2> QED BY <2>4, <2>5
<1>4. N \in Good
  <2> HIDE DEF Right
  <2>1. ASSUME NEW k \in Good PROVE k + 1 \in Good
    <3>1. k \in Nat /\ (k + 1 <= N => k <= N)
      BY <1>1
    <3> QED BY <1>3, <3>1
  <2>2. Good \in SUBSET Nat
    OBVIOUS
  <2> HIDE DEF Good
  <2> QED BY <1>1, <1>2, <2>1, <2>2, Induction
<1>5. Right(it[1 .. N], N)
  <2> HIDE DEF Right
  <2> QED BY <1>1, <1>4
<1>6. Right(it[DOMAIN src], N) /\ DOMAIN src = 1 .. N
  <2> HIDE DEF Right
  <2> QED BY <1>1, <1>5
<1> DEFINE found == it[DOMAIN src]
<1>7. Right(found, N)
  BY <1>6
<1> HIDE DEF found, N
<1>8. /\ found \in Seq(B)
      /\ \A i \in DOMAIN found : \E j \in 1 .. N : src[j] \in T /\ found[i] = f[src[j]]
      /\ \A j \in 1 .. N : src[j] \in T => \E i \in DOMAIN found : found[i] = f[src[j]]
  BY <1>7
<1>9. /\ found \in Seq(B)
      /\ \A i \in DOMAIN found : \E j \in DOMAIN src : src[j] \in T /\ found[i] = f[src[j]]
      /\ \A j \in DOMAIN src : src[j] \in T => \E i \in DOMAIN found : found[i] = f[src[j]]
  BY <1>6, <1>8
<1> QED BY <1>9 DEF found, Filtered

(* found, of n members, are the images of the members in T among the first k of
   src: at tells where each comes from, and leaves out none. *)
Picks(at, found, n, src, k, T, f) ==
    /\ at \in [1 .. n -> {j \in 1 .. k : src[j] \in T}]
    /\ \A i, h \in 1 .. n : i < h => at[i] < at[h]
    /\ \A j \in 1 .. k : src[j] \in T => \E i \in 1 .. n : at[i] = j
    /\ \A i \in 1 .. n : found[i] = f[src[at[i]]]
InOrder(found, src, k, T, f, B) ==
    found \in Seq(B) /\ \E at : Picks(at, found, Len(found), src, k, T, f)

(* A filter takes the members in T each once and in their order. *)
LEMMA FilterInOrder ==
    ASSUME NEW A, NEW B, NEW src \in Seq(A), NEW T, NEW f \in [A -> B],
           NEW it, IsFilter(it, src, T, f)
    PROVE  InOrder(it[DOMAIN src], src, Len(src), T, f, B)
<1> DEFINE N == Len(src)
           Good == {k \in Nat : k <= N => InOrder(it[1 .. k], src, k, T, f, B)}
<1>1. N \in Nat /\ DOMAIN src = 1 .. N
  BY LenProperties
<1>2. 0 \in Good
  <2>1. 1 .. 0 = {} /\ {} \in SUBSET DOMAIN src
    OBVIOUS
  <2>2. it[1 .. 0] = <<>>
    BY <2>1 DEF IsFilter
  <2>3. <<>> \in Seq(B) /\ Len(<<>>) = 0
    BY EmptySeq
  <2>4. Picks([i \in 1 .. 0 |-> 0], <<>>, 0, src, 0, T, f)
    BY <2>1 DEF Picks
  <2>5. InOrder(<<>>, src, 0, T, f, B)
    BY <2>3, <2>4 DEF InOrder
  <2> QED BY <2>2, <2>5
<1>3. ASSUME NEW k \in Nat, k + 1 <= N, InOrder(it[1 .. k], src, k, T, f, B)
      PROVE  InOrder(it[1 .. k + 1], src, k + 1, T, f, B)
  <2> DEFINE found == it[1 .. k]
             x     == src[k + 1]
             new   == Collect(found, x, T, f)
             n     == Len(found)
  <2>1. it[1 .. k + 1] = new
    <3>1. 1 .. k + 1 \in SUBSET DOMAIN src
      BY <1>1, <1>3
    <3>2. it[1 .. k + 1] = Collect(it[(1 .. k + 1) \ {Max(1 .. k + 1)}], src[Max(1 .. k + 1)], T, f)
      BY <3>1, FirstIndices DEF IsFilter
    <3> QED BY <3>2, FirstIndices
  <2>2. found \in Seq(B) /\ \E at : Picks(at, found, n, src, k, T, f)
    BY <1>3 DEF InOrder
  <2>3. x \in A /\ f[x] \in B /\ n \in Nat
    BY <1>1, <1>3, <2>2, LenProperties
  <2> HIDE DEF found, n
  <2>4. PICK at : Picks(at, found, n, src, k, T, f)
    BY <2>2
  <2>5. \A j \in 1 .. k + 1 : j \in 1 .. k \/ j = k + 1
    OBVIOUS
  <2>6. CASE x \notin T
    <3>1. new = found
      BY <2>6 DEF Collect
    <3>2. Picks(at, found, n, src, k + 1, T, f)
      <4>1. {j \in 1 .. k + 1 : src[j] \in T} = {j \in 1 .. k : src[j] \in T}
        BY <2>5, <2>6
      <4> QED BY <2>4, <2>5, <2>6, <4>1 DEF Picks
    <3> QED BY <2>1, <2>2, <3>1, <3>2 DEF InOrder, n
  <2>7. CASE x \in T
    <3> DEFINE to == [i \in 1 .. n + 1 |-> IF i = n + 1 THEN k + 1 ELSE at[i]]
    <3>1. new = Append(found, f[x])
      BY <2>7 DEF Collect
    <3>2. /\ new \in Seq(B) /\ Len(new) = n + 1
          /\ new[n + 1] = f[x] /\ \A i \in 1 .. n : new[i] = found[i]
      BY <2>2, <2>3, <3>1, AppendProperties DEF n
    <3>3. \A i \in 1 .. n : at[i] \in 1 .. k /\ src[at[i]] \in T
      BY <2>4 DEF Picks
    <3>4. /\ \A i \in 1 .. n : to[i] = at[i]
          /\ to[n + 1] = k + 1 /\ \A i \in 1 .. n + 1 : i \in 1 .. n \/ i = n + 1
          /\ DOMAIN to = 1 .. n + 1 /\ n + 1 \in 1 .. n + 1 /\ 1 .. n \subseteq 1 .. n + 1
      BY <2>3
    <3>5. to \in [1 .. n + 1 -> {j \in 1 .. k + 1 : src[j] \in T}]
      <4> DEFINE from(i) == IF i = n + 1 THEN k + 1 ELSE at[i]
      <4>1. k + 1 \in 1 .. k + 1 /\ src[k + 1] \in T /\ 1 .. k \subseteq 1 .. k + 1
        BY <2>7
      <4>2. ASSUME NEW i \in 1 .. n + 1 PROVE from(i) \in {j \in 1 .. k + 1 : src[j] \in T}
        <5>1. CASE i = n + 1
          BY <4>1, <5>1
        <5>2. CASE i # n + 1
          <6>1. i \in 1 .. n
            BY <2>3, <5>2
          <6> QED BY <3>3, <4>1, <5>2, <6>1
        <5> QED BY <5>1, <5>2
      <4> HIDE DEF from
      <4>3. [i \in 1 .. n + 1 |-> from(i)] \in [1 .. n + 1 -> {j \in 1 .. k + 1 : src[j] \in T}]
        BY <4>2
      <4> QED BY <4>3 DEF from
    <3> HIDE DEF to, new
    <3>6. \A i, h \in 1 .. n + 1 : i < h => to[i] < to[h]
      <4> SUFFICES ASSUME NEW i \in 1 .. n + 1, NEW h \in 1 .. n + 1, i < h PROVE to[i] < to[h]
        OBVIOUS
      <4>1. i \in 1 .. n
        BY <2>3
      <4>2. CASE h = n + 1
        <5>1. to[i] \in 1 .. k /\ to[h] = k + 1
          BY <3>3, <3>4, <4>1, <4>2
        <5> QED BY <5>1
      <4>3. CASE h \in 1 .. n
        BY <2>4, <3>4, <4>1, <4>3 DEF Picks
      <4> QED BY <3>4, <4>2, <4>3
    <3>7. \A j \in 1 .. k + 1 : src[j] \in T => \E i \in 1 .. n + 1 : to[i] = j
      <4> SUFFICES ASSUME NEW j \in 1 .. k + 1, src[j] \in T PROVE \E i \in 1 .. n + 1 : to[i] = j
        OBVIOUS
      <4>1. CASE j \in 1 .. k
        <5>1. PICK i \in 1 .. n : at[i] = j
          BY <2>4, <4>1 DEF Picks
        <5> QED BY <3>4, <5>1
      <4>2. CASE j = k + 1
        BY <3>4, <4>2
      <4> QED BY <2>5, <4>1, <4>2
    <3>8. \A i \in 1 .. n + 1 : new[i] = f[src[to[i]]]
      <4>1. ASSUME NEW i \in 1 .. n PROVE new[i] = f[src[to[i]]]
        <5>1. found[i] = f[src[at[i]]]
          BY <2>4 DEF Picks
        <5> QED BY <3>2, <3>4, <5>1
      <4>2. new[n + 1] = f[src[to[n + 1]]]
        BY <3>2, <3>4
      <4> QED BY <3>4, <4>1, <4>2
    <3>9. Picks(to, new, n + 1, src, k + 1, T, f)
      BY <3>5, <3>6, <3>7, <3>8 DEF Picks
    <3> QED BY <2>1, <3>2, <3>9 DEF InOrder
  <2> QED BY <2>6, <2>7
<1>4. N \in Good
  <2>1. ASSUME NEW k \in Good PROVE k + 1 \in Good
    <3>1. k \in Nat /\ (k + 1 <= N => k <= N)
      BY <1>1
    <3> QED BY <1>3, <3>1
  <2>2. Good \in SUBSET Nat
    OBVIOUS
  <2> HIDE DEF Good
  <2> QED BY <1>1, <1>2, <2>1, <2>2, Induction
<1> QED BY <1>1, <1>4

-------------------------------------------------------------------------------
(* The sources. *)

SecretOf(entry, source) == [name |-> entry.name, value |-> entry.value, source |-> source]

EnvChosen(env, entropy)   == {j \in DOMAIN env : EnvCandidate(env[j], entropy)}
FileChosen(file, entropy) == {j \in DOMAIN file : FileCandidate(file[j], entropy)}

(* found are the secrets of the chosen entries, which are in A. *)
Lists(found, A, entries, chosen, source) ==
    /\ found \in Seq({SecretOf(e, source) : e \in A})
    /\ \A i \in DOMAIN found : \E j \in chosen : found[i] = SecretOf(entries[j], source)
    /\ \A j \in chosen : \E i \in DOMAIN found : found[i] = SecretOf(entries[j], source)

(* EnvSecretSource: the secrets are the candidates of the environment. *)
LEMMA EnvCandidates ==
    ASSUME NEW A, NEW env \in Seq(A), NEW entropy
    PROVE  Lists(EnvSecrets(env, entropy), A, env, EnvChosen(env, entropy), "env")
<1> DEFINE B == {SecretOf(e, "env") : e \in A}
           T == {e \in A : EnvCandidate(e, entropy)}
           f == [e \in A |-> SecretOf(e, "env")]
           Next(found, e) == IF EnvCandidate(e, entropy) THEN Append(found, SecretOf(e, "env"))
                                                         ELSE found
           It == CHOOSE it : it = [s \in SUBSET DOMAIN env |->
                   IF s = {} THEN <<>> ELSE Next(it[s \ {Max(s)}], env[Max(s)])]
<1>1. EnvSecrets(env, entropy) = It[DOMAIN env]
  BY DEF EnvSecrets, FoldLeft, MapThenFoldSet, SecretOf
<1> HIDE DEF It
<1>2. f \in [A -> B]
  OBVIOUS
<1>3. ASSUME NEW s \in SUBSET DOMAIN env, s # {}, NEW found
      PROVE  Collect(found, env[Max(s)], T, f) = Next(found, env[Max(s)])
  <2>1. DOMAIN env = 1 .. Len(env) /\ Len(env) \in Nat
    BY LenProperties
  <2>2. Max(s) \in s
    <3> HIDE DEF B, T, f, Next
    <3> QED BY <1>3, <2>1, GreatestIndex
  <2>3. env[Max(s)] \in A
    BY <2>2, ElementOfSeq
  <2> QED BY <2>3 DEF Collect
<1> HIDE DEF B, T, f, Next
<1>4. \E it : it = [s \in SUBSET DOMAIN env |->
                  IF s = {} THEN <<>> ELSE Next(it[s \ {Max(s)}], env[Max(s)])]
  <2>1. PICK it : IsFilter(it, env, T, f)
    BY <1>2, FilterDefined
  <2>2. it = [s \in SUBSET DOMAIN env |->
                IF s = {} THEN <<>> ELSE Next(it[s \ {Max(s)}], env[Max(s)])]
    BY <1>3, <2>1 DEF IsFilter
  <2> QED BY <2>2
<1>5. IsFilter(It, env, T, f)
  <2>1. It = [s \in SUBSET DOMAIN env |->
                IF s = {} THEN <<>> ELSE Next(It[s \ {Max(s)}], env[Max(s)])]
    BY <1>4 DEF It
  <2> QED BY <1>3, <2>1 DEF IsFilter
<1> DEFINE found == It[DOMAIN env]
<1>6. Filtered(found, env, T, f, B)
  BY <1>2, <1>5, FilterCollects
<1> HIDE DEF found
<1>7. ASSUME NEW j \in DOMAIN env
      PROVE  f[env[j]] = SecretOf(env[j], "env") /\ (env[j] \in T <=> EnvCandidate(env[j], entropy))
  BY DEF f, T
<1>8. EnvSecrets(env, entropy) = found
  BY <1>1 DEF found
<1>9. /\ found \in Seq(B)
      /\ \A i \in DOMAIN found : \E j \in DOMAIN env :
            EnvCandidate(env[j], entropy) /\ found[i] = SecretOf(env[j], "env")
      /\ \A j \in DOMAIN env : EnvCandidate(env[j], entropy) =>
            \E i \in DOMAIN found : found[i] = SecretOf(env[j], "env")
  <2>1. ASSUME NEW i \in DOMAIN found
        PROVE  \E j \in DOMAIN env :
                  EnvCandidate(env[j], entropy) /\ found[i] = SecretOf(env[j], "env")
    <3>1. PICK j \in DOMAIN env : env[j] \in T /\ found[i] = f[env[j]]
      BY <1>6 DEF Filtered
    <3> QED BY <1>7, <3>1
  <2>2. ASSUME NEW j \in DOMAIN env, EnvCandidate(env[j], entropy)
        PROVE  \E i \in DOMAIN found : found[i] = SecretOf(env[j], "env")
    <3>1. env[j] \in T
      BY <1>7, <2>2
    <3>2. PICK i \in DOMAIN found : found[i] = f[env[j]]
      BY <1>6, <3>1 DEF Filtered
    <3> QED BY <1>7, <3>2
  <2> QED BY <1>6, <2>1, <2>2 DEF Filtered
<1> QED BY <1>8, <1>9 DEF B, Lists, EnvChosen
(* DotEnvSecretSource: the same for the .file file. *)
LEMMA FileCandidates ==
    ASSUME NEW A, NEW file \in Seq(A), NEW entropy
    PROVE  Lists(FileSecrets(file, entropy), A, file, FileChosen(file, entropy), "file")
<1> DEFINE B == {SecretOf(e, "file") : e \in A}
           T == {e \in A : FileCandidate(e, entropy)}
           f == [e \in A |-> SecretOf(e, "file")]
           Next(found, e) == IF FileCandidate(e, entropy) THEN Append(found, SecretOf(e, "file"))
                                                         ELSE found
           It == CHOOSE it : it = [s \in SUBSET DOMAIN file |->
                   IF s = {} THEN <<>> ELSE Next(it[s \ {Max(s)}], file[Max(s)])]
<1>1. FileSecrets(file, entropy) = It[DOMAIN file]
  BY DEF FileSecrets, FoldLeft, MapThenFoldSet, SecretOf
<1> HIDE DEF It
<1>2. f \in [A -> B]
  OBVIOUS
<1>3. ASSUME NEW s \in SUBSET DOMAIN file, s # {}, NEW found
      PROVE  Collect(found, file[Max(s)], T, f) = Next(found, file[Max(s)])
  <2>1. DOMAIN file = 1 .. Len(file) /\ Len(file) \in Nat
    BY LenProperties
  <2>2. Max(s) \in s
    <3> HIDE DEF B, T, f, Next
    <3> QED BY <1>3, <2>1, GreatestIndex
  <2>3. file[Max(s)] \in A
    BY <2>2, ElementOfSeq
  <2> QED BY <2>3 DEF Collect
<1> HIDE DEF B, T, f, Next
<1>4. \E it : it = [s \in SUBSET DOMAIN file |->
                  IF s = {} THEN <<>> ELSE Next(it[s \ {Max(s)}], file[Max(s)])]
  <2>1. PICK it : IsFilter(it, file, T, f)
    BY <1>2, FilterDefined
  <2>2. it = [s \in SUBSET DOMAIN file |->
                IF s = {} THEN <<>> ELSE Next(it[s \ {Max(s)}], file[Max(s)])]
    BY <1>3, <2>1 DEF IsFilter
  <2> QED BY <2>2
<1>5. IsFilter(It, file, T, f)
  <2>1. It = [s \in SUBSET DOMAIN file |->
                IF s = {} THEN <<>> ELSE Next(It[s \ {Max(s)}], file[Max(s)])]
    BY <1>4 DEF It
  <2> QED BY <1>3, <2>1 DEF IsFilter
<1> DEFINE found == It[DOMAIN file]
<1>6. Filtered(found, file, T, f, B)
  BY <1>2, <1>5, FilterCollects
<1> HIDE DEF found
<1>7. ASSUME NEW j \in DOMAIN file
      PROVE  f[file[j]] = SecretOf(file[j], "file") /\ (file[j] \in T <=> FileCandidate(file[j], entropy))
  BY DEF f, T
<1>8. FileSecrets(file, entropy) = found
  BY <1>1 DEF found
<1>9. /\ found \in Seq(B)
      /\ \A i \in DOMAIN found : \E j \in DOMAIN file :
            FileCandidate(file[j], entropy) /\ found[i] = SecretOf(file[j], "file")
      /\ \A j \in DOMAIN file : FileCandidate(file[j], entropy) =>
            \E i \in DOMAIN found : found[i] = SecretOf(file[j], "file")
  <2>1. ASSUME NEW i \in DOMAIN found
        PROVE  \E j \in DOMAIN file :
                  FileCandidate(file[j], entropy) /\ found[i] = SecretOf(file[j], "file")
    <3>1. PICK j \in DOMAIN file : file[j] \in T /\ found[i] = f[file[j]]
      BY <1>6 DEF Filtered
    <3> QED BY <1>7, <3>1
  <2>2. ASSUME NEW j \in DOMAIN file, FileCandidate(file[j], entropy)
        PROVE  \E i \in DOMAIN found : found[i] = SecretOf(file[j], "file")
    <3>1. file[j] \in T
      BY <1>7, <2>2
    <3>2. PICK i \in DOMAIN found : found[i] = f[file[j]]
      BY <1>6, <3>1 DEF Filtered
    <3> QED BY <1>7, <3>2
  <2> QED BY <1>6, <2>1, <2>2 DEF Filtered
<1> QED BY <1>8, <1>9 DEF B, Lists, FileChosen

(* Where a loaded secret comes from. *)
Sourced(s, env, file, entropy) ==
    \/ \E j \in DOMAIN env : EnvCandidate(env[j], entropy) /\ s = SecretOf(env[j], "env")
    \/ \E j \in DOMAIN file : FileCandidate(file[j], entropy) /\ s = SecretOf(file[j], "file")

(* Loaded secrets: candidates of the environment or of the file, of which no two
   share a name. *)
Loaded(secrets, A, env, file, entropy) ==
    /\ secrets \in Seq({SecretOf(e, "env") : e \in A} \cup {SecretOf(e, "file") : e \in A})
    /\ \A i \in DOMAIN secrets : Sourced(secrets[i], env, file, entropy)
    /\ \A i, j \in DOMAIN secrets : i # j => secrets[i].name # secrets[j].name

(* SecretSourceComposer lets nothing in but candidates, and no name twice. *)
THEOREM LoadedSecrets ==
    ASSUME NEW A, NEW env \in Seq(A), NEW file \in Seq(A), NEW entropy
    PROVE  Loaded(LoadSecrets(env, file, entropy), A, env, file, entropy)
<1> DEFINE B == {SecretOf(e, "env") : e \in A} \cup {SecretOf(e, "file") : e \in A}
           a == EnvSecrets(env, entropy)
           b == FileSecrets(file, entropy)
           secrets == LoadSecrets(env, file, entropy)
<1>0. /\ Lists(a, A, env, EnvChosen(env, entropy), "env")
      /\ Lists(b, A, file, FileChosen(file, entropy), "file")
  BY EnvCandidates, FileCandidates
<1>1. a \in Seq(B) /\ b \in Seq(B) /\ secrets = Compose(<<a, b>>)
  <2>1. a \in Seq({SecretOf(e, "env") : e \in A}) /\ b \in Seq({SecretOf(e, "file") : e \in A})
    <3> HIDE DEF a, b, secrets
    <3> QED BY <1>0 DEF Lists
  <2>2. secrets = Compose(<<a, b>>)
    BY DEF LoadSecrets
  <2> HIDE DEF a, b, secrets
  <2> QED BY <2>1, <2>2, SeqMonotonic
<1> HIDE DEF a, b, B, secrets
<1>2. /\ \A i \in DOMAIN a : Sourced(a[i], env, file, entropy)
      /\ \A i \in DOMAIN b : Sourced(b[i], env, file, entropy)
  BY <1>0 DEF Sourced, Lists, EnvChosen, FileChosen
<1>4. FlattenSeq(<<a, b>>) = a \o b /\ a \o b \in Seq(B)
  BY <1>1, TwoSources, ConcatProperties
<1>5. secrets \in Seq(B) /\ Composed(secrets, a \o b, Len(a \o b))
  BY <1>1, <1>4, ComposeKeeps
<1>6. ASSUME NEW i \in DOMAIN secrets PROVE Sourced(secrets[i], env, file, entropy)
  <2>1. PICK m \in 1 .. Len(a \o b) : secrets[i] = (a \o b)[m]
    BY <1>5 DEF Composed
  <2>2. \/ m \in DOMAIN a /\ (a \o b)[m] = a[m]
        \/ m - Len(a) \in DOMAIN b /\ (a \o b)[m] = b[m - Len(a)]
    BY <1>1, ConcatProperties, LenProperties
  <2> QED BY <1>2, <2>1, <2>2
<1>7. \A i, j \in DOMAIN secrets : i # j => secrets[i].name # secrets[j].name
  BY <1>5 DEF Composed
<1> QED BY <1>5, <1>6, <1>7 DEF Loaded, secrets, B

(* The values of the environment are among the secrets, and those of the file
   whose names the environment does not set. *)
Guards(secrets, env, file, entropy) ==
    /\ \A j \in DOMAIN env : EnvCandidate(env[j], entropy) =>
          \E i \in DOMAIN secrets : secrets[i].value = env[j].value
    /\ \A j \in DOMAIN file :
          FileCandidate(file[j], entropy) /\ (\A k \in DOMAIN env : env[k].name # file[j].name)
          => \E i \in DOMAIN secrets : secrets[i].value = file[j].value

(* SecretSourceComposer loses no value the application can see. *)
THEOREM SourcesGuarded ==
    ASSUME NEW A, NEW env \in Seq(A), NEW file \in Seq(A), NEW entropy,
           NamedOnce(env), NamedOnce(file)
    PROVE  Guards(LoadSecrets(env, file, entropy), env, file, entropy)
<1> DEFINE B == {SecretOf(e, "env") : e \in A} \cup {SecretOf(e, "file") : e \in A}
           a == EnvSecrets(env, entropy)
           b == FileSecrets(file, entropy)
           secrets == LoadSecrets(env, file, entropy)
<1>0. /\ Lists(a, A, env, EnvChosen(env, entropy), "env")
      /\ Lists(b, A, file, FileChosen(file, entropy), "file")
  BY EnvCandidates, FileCandidates
<1>1. a \in Seq(B) /\ b \in Seq(B) /\ secrets = Compose(<<a, b>>)
  <2>1. a \in Seq({SecretOf(e, "env") : e \in A}) /\ b \in Seq({SecretOf(e, "file") : e \in A})
    <3> HIDE DEF a, b, secrets
    <3> QED BY <1>0 DEF Lists
  <2>2. secrets = Compose(<<a, b>>)
    BY DEF LoadSecrets
  <2> HIDE DEF a, b, secrets
  <2> QED BY <2>1, <2>2, SeqMonotonic
<1> HIDE DEF a, b, B, secrets
<1> DEFINE all == a \o b
<1>2. /\ \A i \in DOMAIN a : \E j \in DOMAIN env : a[i] = SecretOf(env[j], "env")
      /\ \A j \in DOMAIN env : EnvCandidate(env[j], entropy) =>
            \E i \in DOMAIN a : a[i] = SecretOf(env[j], "env")
  BY <1>0 DEF Lists, EnvChosen, FileChosen
<1>3. /\ \A i \in DOMAIN b : \E j \in DOMAIN file : b[i] = SecretOf(file[j], "file")
      /\ \A j \in DOMAIN file : FileCandidate(file[j], entropy) =>
            \E i \in DOMAIN b : b[i] = SecretOf(file[j], "file")
  BY <1>0 DEF Lists, EnvChosen, FileChosen
<1>5. FlattenSeq(<<a, b>>) = all /\ all \in Seq(B)
  BY <1>1, TwoSources, ConcatProperties
<1>6. secrets \in Seq(B) /\ Composed(secrets, all, Len(all))
  BY <1>1, <1>5, ComposeKeeps
<1>7. /\ Len(a) \in Nat /\ DOMAIN a = 1 .. Len(a) /\ DOMAIN b = 1 .. Len(b) /\ Len(b) \in Nat
      /\ Len(all) = Len(a) + Len(b)
      /\ \A m \in 1 .. Len(a) : all[m] = a[m]
      /\ \A m \in 1 .. Len(b) : all[Len(a) + m] = b[m]
  BY <1>1, ConcatProperties, LenProperties
<1> HIDE DEF all
<1>8. ASSUME NEW j \in 1 .. Len(all)
      PROVE  \E i \in DOMAIN secrets : \E m \in 1 .. j :
                secrets[i] = all[m] /\ (all[m].value = all[j].value \/ all[m].name = all[j].name)
  BY <1>6 DEF Composed
<1>9. ASSUME NEW j \in DOMAIN env, EnvCandidate(env[j], entropy)
      PROVE  \E i \in DOMAIN secrets : secrets[i].value = env[j].value
  <2>1. PICK n \in 1 .. Len(a) : a[n] = SecretOf(env[j], "env")
    BY <1>2, <1>7, <1>9
  <2>2. n \in 1 .. Len(all) /\ all[n] = a[n]
    BY <1>7
  <2>3. PICK i \in DOMAIN secrets, m \in 1 .. n :
          secrets[i] = all[m] /\ (all[m].value = all[n].value \/ all[m].name = all[n].name)
    BY <1>8, <2>2
  <2>4. m \in DOMAIN a /\ all[m] = a[m]
    BY <1>7
  <2>5. PICK k \in DOMAIN env : a[m] = SecretOf(env[k], "env")
    BY <1>2, <2>4
  <2>6. /\ all[n].value = env[j].value /\ all[n].name = env[j].name
        /\ all[m].value = env[k].value /\ all[m].name = env[k].name
    BY <2>1, <2>2, <2>4, <2>5 DEF SecretOf
  <2>7. env[k].value = env[j].value
    BY <2>3, <2>6 DEF NamedOnce
  <2> QED BY <2>3, <2>6, <2>7
<1>10. ASSUME NEW j \in DOMAIN file, FileCandidate(file[j], entropy),
              \A k \in DOMAIN env : env[k].name # file[j].name
       PROVE  \E i \in DOMAIN secrets : secrets[i].value = file[j].value
  <2>1. PICK n \in 1 .. Len(b) : b[n] = SecretOf(file[j], "file")
    BY <1>3, <1>7, <1>10
  <2>2. Len(a) + n \in 1 .. Len(all) /\ all[Len(a) + n] = b[n]
    BY <1>7
  <2>3. PICK i \in DOMAIN secrets, m \in 1 .. Len(a) + n :
          /\ secrets[i] = all[m]
          /\ all[m].value = all[Len(a) + n].value \/ all[m].name = all[Len(a) + n].name
    BY <1>8, <2>2
  <2>4. all[Len(a) + n].value = file[j].value /\ all[Len(a) + n].name = file[j].name
    BY <2>1, <2>2 DEF SecretOf
  <2>5. CASE m \in 1 .. Len(a)
    <3>1. PICK k \in DOMAIN env : a[m] = SecretOf(env[k], "env")
      BY <1>2, <1>7, <2>5
    <3>2. all[m].name = env[k].name
      BY <1>7, <2>5, <3>1 DEF SecretOf
    <3> QED BY <1>10, <2>3, <2>4, <3>2
  <2>6. CASE m \notin 1 .. Len(a)
    <3>1. m - Len(a) \in 1 .. Len(b) /\ m = Len(a) + (m - Len(a))
      BY <1>7, <2>6
    <3>2. PICK k \in DOMAIN file : b[m - Len(a)] = SecretOf(file[k], "file")
      BY <1>3, <1>7, <3>1
    <3>3. all[m] = b[m - Len(a)]
      BY <1>7, <3>1
    <3>4. all[m].name = file[k].name /\ all[m].value = file[k].value
      BY <3>2, <3>3 DEF SecretOf
    <3> QED BY <2>3, <2>4, <3>4 DEF NamedOnce
  <2> QED BY <2>5, <2>6
<1> QED BY <1>9, <1>10 DEF Guards, secrets

-------------------------------------------------------------------------------
(* The redactors. *)

(* from[i] is the text from its i-th symbol on, with value replaced by mark. *)
IsReplacement(from, text, value, mark) ==
    from = [i \in 1 .. Len(text) + 1 |->
              IF i > Len(text) THEN <<>>
              ELSE IF i \in Places(value, text) THEN <<mark>> \o from[i + Len(value)]
              ELSE <<text[i]>> \o from[i + 1]]

(* A place leaves room for the value. *)
LEMMA PlaceFits ==
    ASSUME NEW A, NEW text \in Seq(A), NEW value \in Seq(A), value # <<>>,
           NEW i \in Places(value, text)
    PROVE  i \in 1 .. Len(text) /\ i + Len(value) \in i + 1 .. Len(text) + 1
<1>1. Len(text) \in Nat /\ Len(value) \in Nat \ {0}
  BY LenProperties, EmptySeq
<1>2. i \in 1 .. Len(text) - Len(value) + 1
  BY DEF Places
<1> QED BY <1>1, <1>2

(* There is such a function, from the end of the text to its start. *)
LEMMA ReplacementDefined ==
    ASSUME NEW A, NEW text \in Seq(A), NEW value \in Seq(A), value # <<>>, NEW mark \in A
    PROVE  \E from : /\ IsReplacement(from, text, value, mark)
                     /\ from \in [1 .. Len(text) + 1 -> Seq(A)]
<1> DEFINE L == Len(text)
           V == Len(value)
           P == Places(value, text)
           Body(g, i) == IF i > L THEN <<>>
                         ELSE IF i \in P THEN <<mark>> \o g[i + V]
                         ELSE <<text[i]>> \o g[i + 1]
           Defined(d, g) == /\ g \in [L + 1 - d .. L + 1 -> Seq(A)]
                            /\ \A i \in L + 1 - d .. L + 1 : g[i] = Body(g, i)
           Reached == {d \in Nat : d <= L => \E g : Defined(d, g)}
<1>1. L \in Nat /\ DOMAIN text = 1 .. L
  BY LenProperties
<1>2. \A i \in P : i \in 1 .. L /\ i + V \in i + 1 .. L + 1
  BY PlaceFits
<1> HIDE DEF L, V, P
<1>3. 0 \in Reached
  <2> DEFINE g == [i \in L + 1 .. L + 1 |-> <<>>]
  <2>1. \A i \in L + 1 .. L + 1 : i > L
    BY <1>1
  <2>2. <<>> \in Seq(A) /\ L + 1 - 0 = L + 1
    BY <1>1, EmptySeq
  <2>3. Defined(0, g)
    BY <2>1, <2>2
  <2> HIDE DEF Defined
  <2> QED BY <2>3
<1>4. ASSUME NEW d \in Nat, d + 1 <= L, NEW g, Defined(d, g)
      PROVE  \E h : Defined(d + 1, h)
  <2> DEFINE n == L - d
             first == IF n \in P THEN <<mark>> \o g[n + V] ELSE <<text[n]>> \o g[n + 1]
             h == [i \in n .. L + 1 |-> IF i = n THEN first ELSE g[i]]
  <2>1. n \in 1 .. L /\ L + 1 - (d + 1) = n /\ L + 1 - d = n + 1
    BY <1>1, <1>4
  <2>2. g \in [n + 1 .. L + 1 -> Seq(A)] /\ \A i \in n + 1 .. L + 1 : g[i] = Body(g, i)
    BY <1>4, <2>1
  <2>3. first \in Seq(A)
    <3>1. CASE n \in P
      <4>1. n + V \in n + 1 .. L + 1
        BY <1>2, <3>1
      <4>2. g[n + V] \in Seq(A)
        BY <2>2, <4>1
      <4> QED BY <3>1, <4>2, ConcatProperties
    <3>2. CASE n \notin P
      <4>1. n + 1 \in n + 1 .. L + 1 /\ text[n] \in A
        BY <1>1, <2>1, ElementOfSeq
      <4>2. g[n + 1] \in Seq(A)
        BY <2>2, <4>1
      <4> QED BY <3>2, <4>1, <4>2, ConcatProperties
    <3> QED BY <3>1, <3>2
  <2> HIDE DEF first
  <2>4. h \in [n .. L + 1 -> Seq(A)]
    <3>1. \A i \in n .. L + 1 : i = n \/ i \in n + 1 .. L + 1
      BY <1>1, <2>1
    <3> QED BY <2>2, <2>3, <3>1
  <2>5. ASSUME NEW i \in n .. L + 1 PROVE h[i] = Body(h, i)
    <3>1. CASE i = n
      <4>1. ~(n > L) /\ n + 1 \in n .. L + 1 /\ n + 1 # n
        BY <1>1, <2>1
      <4>2. n \in P => n + V \in n .. L + 1 /\ n + V # n
        BY <1>1, <1>2, <2>1
      <4>3. h[n] = first /\ h[n + 1] = g[n + 1] /\ (n \in P => h[n + V] = g[n + V])
        BY <4>1, <4>2, <3>1
      <4> QED BY <3>1, <4>1, <4>3 DEF first
    <3>2. CASE i # n
      <4>1. i \in n + 1 .. L + 1
        BY <1>1, <2>1, <3>2
      <4>2. i > L \/ (i + 1 \in n + 1 .. L + 1)
        BY <1>1, <2>1, <4>1
      <4>3. i \in P => i + V \in n + 1 .. L + 1
        BY <1>1, <1>2, <2>1, <4>1
      <4>4. \A j \in n + 1 .. L + 1 : h[j] = g[j]
        BY <1>1, <2>1
      <4> QED BY <2>2, <4>1, <4>2, <4>3, <4>4
    <3> QED BY <3>1, <3>2
  <2>6. Defined(d + 1, h)
    <3> HIDE DEF h, n, Body
    <3> QED BY <2>1, <2>4, <2>5
  <2> HIDE DEF Defined
  <2> QED BY <2>6
<1>5. L \in Reached
  <2> HIDE DEF Defined
  <2>1. ASSUME NEW d \in Reached PROVE d + 1 \in Reached
    <3>1. d \in Nat /\ (d + 1 <= L => d <= L)
      BY <1>1
    <3> QED BY <1>4, <3>1
  <2>2. Reached \in SUBSET Nat
    OBVIOUS
  <2> HIDE DEF Reached
  <2> QED BY <1>1, <1>3, <2>1, <2>2, Induction
<1>6. PICK g : Defined(L, g)
  <2> HIDE DEF Defined
  <2> QED BY <1>5, <1>1
<1>7. g \in [1 .. L + 1 -> Seq(A)] /\ \A i \in 1 .. L + 1 : g[i] = Body(g, i)
  <2>1. L + 1 - L = 1
    BY <1>1
  <2> QED BY <1>6, <2>1
<1>8. g = [i \in 1 .. L + 1 |-> Body(g, i)]
  <2> HIDE DEF Body
  <2> QED BY <1>7
<1> QED BY <1>7, <1>8 DEF IsReplacement, L, V, P

(* m says where the symbols of out, a text with value replaced by mark from its
   i-th symbol on, were: none of them where the value begins, and neighbours
   that are no marks were neighbours. *)
TracedBy(m, out, i, text, value, mark) ==
    /\ m \in [DOMAIN out -> i .. Len(text)]
    /\ \A k \in DOMAIN out :
          out[k] = mark \/ (m[k] \notin Places(value, text) /\ out[k] = text[m[k]])
    /\ \A k \in DOMAIN out :
          k + 1 \in DOMAIN out /\ out[k] # mark /\ out[k + 1] # mark => m[k + 1] = m[k] + 1
    /\ 1 \in DOMAIN out /\ out[1] # mark => m[1] = i

(* Putting a mark in front. *)
LEMMA TraceMark ==
    ASSUME NEW A, NEW text \in Seq(A), NEW value, NEW mark \in A,
           NEW i \in 1 .. Len(text), NEW j \in i + 1 .. Len(text) + 1,
           NEW out \in Seq(A), NEW m, TracedBy(m, out, j, text, value, mark)
    PROVE  \E n : TracedBy(n, <<mark>> \o out, i, text, value, mark)
<1> DEFINE new == <<mark>> \o out
           N == Len(out)
           n == [k \in DOMAIN new |-> IF k = 1 THEN i ELSE m[k - 1]]
<1>1. /\ Len(text) \in Nat /\ N \in Nat /\ DOMAIN out = 1 .. N
      /\ DOMAIN new = 1 .. N + 1 /\ new[1] = mark
      /\ \A k \in 2 .. N + 1 : new[k] = out[k - 1]
  <2>1. <<mark>> \in Seq(A) /\ Len(<<mark>>) = 1 /\ <<mark>>[1] = mark
    OBVIOUS
  <2> QED BY <2>1, ConcatProperties, LenProperties
<1> HIDE DEF new, N
<1>2. n \in [DOMAIN new -> i .. Len(text)]
  <2>1. ASSUME NEW k \in 1 .. N + 1, k # 1 PROVE m[k - 1] \in i .. Len(text)
    <3>1. k - 1 \in 1 .. N
      BY <1>1, <2>1
    <3>2. m[k - 1] \in j .. Len(text)
      BY <1>1, <3>1 DEF TracedBy
    <3> QED BY <1>1, <3>2
  <2>2. i \in i .. Len(text)
    BY <1>1
  <2> QED BY <1>1, <2>1, <2>2
<1>3. \A k \in DOMAIN new :
         new[k] = mark \/ (n[k] \notin Places(value, text) /\ new[k] = text[n[k]])
  <2> SUFFICES ASSUME NEW k \in DOMAIN new, new[k] # mark
               PROVE  n[k] \notin Places(value, text) /\ new[k] = text[n[k]]
    OBVIOUS
  <2>1. k # 1 /\ k - 1 \in DOMAIN out /\ new[k] = out[k - 1]
    BY <1>1
  <2> QED BY <2>1 DEF TracedBy
<1>4. \A k \in DOMAIN new :
         k + 1 \in DOMAIN new /\ new[k] # mark /\ new[k + 1] # mark => n[k + 1] = n[k] + 1
  <2> SUFFICES ASSUME NEW k \in DOMAIN new, k + 1 \in DOMAIN new, new[k] # mark, new[k + 1] # mark
               PROVE  n[k + 1] = n[k] + 1
    OBVIOUS
  <2>1. /\ k # 1 /\ k - 1 \in DOMAIN out /\ (k - 1) + 1 \in DOMAIN out /\ (k + 1) - 1 = (k - 1) + 1
        /\ new[k] = out[k - 1] /\ new[k + 1] = out[(k - 1) + 1] /\ k + 1 # 1
    BY <1>1
  <2>2. m[(k - 1) + 1] = m[k - 1] + 1
    BY <2>1 DEF TracedBy
  <2> QED BY <2>1, <2>2
<1>5. 1 \in DOMAIN new /\ new[1] # mark => n[1] = i
  OBVIOUS
<1> HIDE DEF n
<1>6. TracedBy(n, new, i, text, value, mark)
  BY <1>2, <1>3, <1>4, <1>5 DEF TracedBy
<1> QED BY <1>6 DEF new

(* Putting a symbol of the text in front at which the value does not begin. *)
LEMMA TraceSymbol ==
    ASSUME NEW A, NEW text \in Seq(A), NEW value, NEW mark \in A,
           NEW i \in 1 .. Len(text), i \notin Places(value, text),
           NEW out \in Seq(A), NEW m, TracedBy(m, out, i + 1, text, value, mark)
    PROVE  \E n : TracedBy(n, <<text[i]>> \o out, i, text, value, mark)
<1> DEFINE new == <<text[i]>> \o out
           N == Len(out)
           n == [k \in DOMAIN new |-> IF k = 1 THEN i ELSE m[k - 1]]
<1>1. /\ Len(text) \in Nat /\ N \in Nat /\ DOMAIN out = 1 .. N
      /\ DOMAIN new = 1 .. N + 1 /\ new[1] = text[i]
      /\ \A k \in 2 .. N + 1 : new[k] = out[k - 1]
  <2>1. <<text[i]>> \in Seq(A) /\ Len(<<text[i]>>) = 1 /\ <<text[i]>>[1] = text[i]
    BY ElementOfSeq
  <2> QED BY <2>1, ConcatProperties, LenProperties
<1> HIDE DEF new, N
<1>2. n \in [DOMAIN new -> i .. Len(text)]
  <2>1. ASSUME NEW k \in 1 .. N + 1, k # 1 PROVE m[k - 1] \in i .. Len(text)
    <3>1. k - 1 \in 1 .. N
      BY <1>1, <2>1
    <3>2. m[k - 1] \in i + 1 .. Len(text)
      BY <1>1, <3>1 DEF TracedBy
    <3> QED BY <1>1, <3>2
  <2>2. i \in i .. Len(text)
    BY <1>1
  <2> QED BY <1>1, <2>1, <2>2
<1>3. \A k \in DOMAIN new :
         new[k] = mark \/ (n[k] \notin Places(value, text) /\ new[k] = text[n[k]])
  <2> SUFFICES ASSUME NEW k \in DOMAIN new, new[k] # mark
               PROVE  n[k] \notin Places(value, text) /\ new[k] = text[n[k]]
    OBVIOUS
  <2>1. CASE k = 1
    BY <1>1, <2>1
  <2>2. CASE k # 1
    <3>1. k - 1 \in DOMAIN out /\ new[k] = out[k - 1]
      BY <1>1, <2>2
    <3> QED BY <2>2, <3>1 DEF TracedBy
  <2> QED BY <2>1, <2>2
<1>4. \A k \in DOMAIN new :
         k + 1 \in DOMAIN new /\ new[k] # mark /\ new[k + 1] # mark => n[k + 1] = n[k] + 1
  <2> SUFFICES ASSUME NEW k \in DOMAIN new, k + 1 \in DOMAIN new, new[k] # mark, new[k + 1] # mark
               PROVE  n[k + 1] = n[k] + 1
    OBVIOUS
  <2>1. CASE k = 1
    <3>1. 1 \in DOMAIN out /\ new[2] = out[1] /\ 2 \in DOMAIN new /\ k + 1 = 2
      BY <1>1, <2>1
    <3>2. m[1] = i + 1
      BY <3>1 DEF TracedBy
    <3> QED BY <2>1, <3>1, <3>2
  <2>2. CASE k # 1
    <3>1. /\ k - 1 \in DOMAIN out /\ (k - 1) + 1 \in DOMAIN out /\ (k + 1) - 1 = (k - 1) + 1
          /\ new[k] = out[k - 1] /\ new[k + 1] = out[(k - 1) + 1] /\ k + 1 # 1
      BY <1>1, <2>2
    <3>2. m[(k - 1) + 1] = m[k - 1] + 1
      BY <3>1 DEF TracedBy
    <3> QED BY <2>2, <3>1, <3>2
  <2> QED BY <2>1, <2>2
<1>5. 1 \in DOMAIN new /\ new[1] # mark => n[1] = i
  OBVIOUS
<1> HIDE DEF n
<1>6. TracedBy(n, new, i, text, value, mark)
  BY <1>2, <1>3, <1>4, <1>5 DEF TracedBy
<1> QED BY <1>6 DEF new

(* Every replacement is traced. *)
LEMMA ReplacementTraced ==
    ASSUME NEW A, NEW text \in Seq(A), NEW value \in Seq(A), value # <<>>, NEW mark \in A,
           NEW from, IsReplacement(from, text, value, mark)
    PROVE  from[1] \in Seq(A) /\ \E m : TracedBy(m, from[1], 1, text, value, mark)
<1> DEFINE L == Len(text)
           V == Len(value)
           P == Places(value, text)
           Traced(i) == from[i] \in Seq(A) /\ \E m : TracedBy(m, from[i], i, text, value, mark)
           Good == {d \in Nat : \A i \in 1 .. L + 1 : i >= L + 1 - d => Traced(i)}
<1>1. L \in Nat /\ DOMAIN text = 1 .. L
  BY LenProperties
<1>2. \A i \in P : i \in 1 .. L /\ i + V \in i + 1 .. L + 1
  BY PlaceFits
<1>3. ASSUME NEW i \in 1 .. L + 1
      PROVE  from[i] = IF i > L THEN <<>>
                       ELSE IF i \in P THEN <<mark>> \o from[i + V]
                       ELSE <<text[i]>> \o from[i + 1]
  BY DEF IsReplacement
<1> HIDE DEF L, V, P
<1>4. 0 \in Good
  <2>1. from[L + 1] = <<>>
    <3>1. L + 1 \in 1 .. L + 1 /\ L + 1 > L
      BY <1>1
    <3> QED BY <1>3, <3>1
  <2>2. <<>> \in Seq(A) /\ DOMAIN <<>> = {}
    BY EmptySeq
  <2>3. [k \in {} |-> 0] \in [{} -> L + 1 .. Len(text)]
    OBVIOUS
  <2>4. TracedBy([k \in {} |-> 0], <<>>, L + 1, text, value, mark)
    BY <2>2, <2>3 DEF TracedBy
  <2>5. Traced(L + 1)
    BY <2>1, <2>2, <2>4
  <2>6. \A i \in 1 .. L + 1 : i >= L + 1 - 0 => i = L + 1
    BY <1>1
  <2> HIDE DEF Traced
  <2> QED BY <2>5, <2>6
<1>5. ASSUME NEW d \in Good PROVE d + 1 \in Good
  <2>1. d \in Nat /\ \A i \in 1 .. L + 1 : i >= L + 1 - d => Traced(i)
    <3> HIDE DEF Traced
    <3> QED OBVIOUS
  <2>2. ASSUME NEW i \in 1 .. L, i >= L + 1 - (d + 1) PROVE Traced(i)
    <3>1. i \in 1 .. L + 1 /\ ~(i > L) /\ i \in 1 .. Len(text)
      BY <1>1 DEF L
    <3>2. CASE i \in P
      <4>1. i + V \in i + 1 .. Len(text) + 1 /\ i + V \in 1 .. L + 1 /\ i + V >= L + 1 - d
        BY <1>1, <1>2, <2>1, <2>2, <3>2 DEF L
      <4>2. Traced(i + V)
        <5> HIDE DEF Traced
        <5> QED BY <2>1, <4>1
      <4>3. PICK m : TracedBy(m, from[i + V], i + V, text, value, mark)
        BY <4>2
      <4>4. from[i] = <<mark>> \o from[i + V]
        BY <1>3, <3>1, <3>2
      <4>5. \E n : TracedBy(n, <<mark>> \o from[i + V], i, text, value, mark)
        BY <3>1, <4>1, <4>2, <4>3, TraceMark
      <4>6. <<mark>> \o from[i + V] \in Seq(A)
        BY <4>2, ConcatProperties
      <4> QED BY <4>4, <4>5, <4>6
    <3>3. CASE i \notin P
      <4>1. i + 1 \in 1 .. L + 1 /\ i + 1 >= L + 1 - d /\ i \notin Places(value, text) /\ text[i] \in A
        BY <1>1, <2>1, <2>2, <3>1, <3>3, ElementOfSeq DEF P
      <4>2. Traced(i + 1)
        <5> HIDE DEF Traced
        <5> QED BY <2>1, <4>1
      <4>3. PICK m : TracedBy(m, from[i + 1], i + 1, text, value, mark)
        BY <4>2
      <4>4. from[i] = <<text[i]>> \o from[i + 1]
        BY <1>3, <3>1, <3>3
      <4>5. \E n : TracedBy(n, <<text[i]>> \o from[i + 1], i, text, value, mark)
        BY <3>1, <4>1, <4>2, <4>3, TraceSymbol
      <4>6. <<text[i]>> \o from[i + 1] \in Seq(A)
        BY <4>1, <4>2, ConcatProperties
      <4> QED BY <4>4, <4>5, <4>6
    <3> QED BY <3>2, <3>3
  <2>3. ASSUME NEW i \in 1 .. L + 1, i >= L + 1 - (d + 1) PROVE Traced(i)
    <3>1. i \in 1 .. L \/ i >= L + 1 - d
      BY <1>1, <2>1
    <3> HIDE DEF Traced
    <3> QED BY <2>1, <2>2, <2>3, <3>1
  <2> HIDE DEF Traced
  <2> QED BY <2>1, <2>3
<1>6. L \in Good
  <2>1. Good \in SUBSET Nat
    OBVIOUS
  <2> HIDE DEF Good
  <2> QED BY <1>1, <1>4, <1>5, <2>1, Induction
<1>7. 1 \in 1 .. L + 1 /\ 1 >= L + 1 - L
  BY <1>1
<1>8. Traced(1)
  <2> HIDE DEF Traced
  <2> QED BY <1>6, <1>7
<1> QED BY <1>8

(* A text occurs at a place when its symbols follow one another there. *)
LEMMA PlaceMeans ==
    ASSUME NEW A, NEW text \in Seq(A), NEW w \in Seq(A), w # <<>>,
           NEW p \in 1 .. Len(text) - Len(w) + 1
    PROVE  p \in Places(w, text) <=> \A d \in 1 .. Len(w) : text[p + d - 1] = w[d]
<1> DEFINE W == Len(w)
           piece == SubSeq(text, p, p + W - 1)
<1>1. W \in Nat \ {0} /\ Len(text) \in Nat
  BY LenProperties, EmptySeq
<1>2. p \in Int /\ p + W - 1 \in Int /\ (p + W - 1) - p + 1 = W /\ p <= p + W - 1
  BY <1>1
<1>3. \A i \in p .. p + W - 1 : text[i] \in A
  <2>1. \A i \in p .. p + W - 1 : i \in 1 .. Len(text)
    BY <1>1
  <2> QED BY <2>1, ElementOfSeq
<1>4. /\ piece \in Seq(A) /\ Len(piece) = W
      /\ \A d \in 1 .. W : piece[d] = text[p + d - 1]
  <2> DEFINE q == p + W - 1
  <2>1. q \in Int /\ p <= q /\ q - p + 1 = W /\ \A i \in p .. q : text[i] \in A
    BY <1>2, <1>3
  <2> HIDE DEF q
  <2>2. /\ SubSeq(text, p, q) \in Seq(A)
        /\ Len(SubSeq(text, p, q)) = IF p <= q THEN q - p + 1 ELSE 0
        /\ \A d \in 1 .. q - p + 1 : SubSeq(text, p, q)[d] = text[p + d - 1]
    BY <1>2, <2>1, SubSeqProperties
  <2>3. /\ SubSeq(text, p, q) \in Seq(A) /\ Len(SubSeq(text, p, q)) = W
        /\ \A d \in 1 .. W : SubSeq(text, p, q)[d] = text[p + d - 1]
    BY <2>1, <2>2
  <2> QED BY <2>3 DEF q
<1>5. piece = w <=> \A d \in 1 .. W : piece[d] = w[d]
  <2> HIDE DEF piece
  <2> QED BY <1>4, SeqEqual
<1>6. p \in Places(w, text) <=> piece = w
  BY DEF Places
<1> QED BY <1>4, <1>5, <1>6

(* A text without the mark that occurs in a replacement occurs in the text, at a
   place where the value does not begin. *)
LEMMA OccurrenceTraced ==
    ASSUME NEW A, NEW text \in Seq(A), NEW value \in Seq(A), NEW mark \in A,
           NEW out \in Seq(A), NEW m, TracedBy(m, out, 1, text, value, mark),
           NEW w \in Seq(A), w # <<>>, \A d \in DOMAIN w : w[d] # mark,
           NEW j \in Places(w, out)
    PROVE  m[j] \in Places(w, text) /\ m[j] \notin Places(value, text)
<1> DEFINE W == Len(w)
<1>1. /\ W \in Nat \ {0} /\ DOMAIN w = 1 .. W
      /\ Len(out) \in Nat /\ DOMAIN out = 1 .. Len(out) /\ Len(text) \in Nat
  BY LenProperties, EmptySeq
<1>2. j \in 1 .. Len(out) - W + 1
  BY DEF Places
<1> HIDE DEF W
<1>3. ASSUME NEW d \in 1 .. W
      PROVE  j + d - 1 \in DOMAIN out /\ out[j + d - 1] = w[d] /\ w[d] # mark
  <2>1. j \in 1 .. Len(out) - Len(w) + 1
    BY DEF Places
  <2>2. out[j + d - 1] = w[d]
    BY <2>1, PlaceMeans DEF W
  <2>3. j + d - 1 \in DOMAIN out
    BY <1>1, <1>2
  <2> QED BY <1>1, <2>2, <2>3
<1>4. ASSUME NEW d \in 1 .. W
      PROVE  m[j + d - 1] \in 1 .. Len(text) /\ text[m[j + d - 1]] = w[d]
             /\ m[j + d - 1] \notin Places(value, text)
  BY <1>3 DEF TracedBy
<1> DEFINE Good == {d \in Nat : d + 1 <= W => m[j + (d + 1) - 1] = m[j] + d}
<1>5. j \in DOMAIN out /\ m[j] \in 1 .. Len(text)
  <2>1. 1 \in 1 .. W /\ j + 1 - 1 = j
    BY <1>1, <1>2
  <2> QED BY <1>3, <1>4, <2>1
<1>6. 0 \in Good
  <2>1. j + (0 + 1) - 1 = j /\ m[j] + 0 = m[j]
    BY <1>1, <1>2, <1>5
  <2> QED BY <2>1
<1>7. ASSUME NEW d \in Good PROVE d + 1 \in Good
  <2> SUFFICES ASSUME (d + 1) + 1 <= W
               PROVE  m[j + ((d + 1) + 1) - 1] = m[j] + (d + 1)
    OBVIOUS
  <2> DEFINE k == j + (d + 1) - 1
  <2>1. d \in Nat /\ d + 1 \in 1 .. W /\ (d + 1) + 1 \in 1 .. W
    BY <1>1
  <2>2. m[k] = m[j] + d
    BY <1>1, <2>1
  <2>3. j + ((d + 1) + 1) - 1 = k + 1 /\ k \in DOMAIN out /\ k + 1 \in DOMAIN out
    BY <1>1, <1>2, <2>1
  <2>4. out[k] # mark /\ out[k + 1] # mark
    BY <1>3, <2>1, <2>3
  <2>5. m[k + 1] = m[k] + 1
    BY <2>3, <2>4 DEF TracedBy
  <2> HIDE DEF k
  <2>6. m[j + ((d + 1) + 1) - 1] = m[j] + d + 1
    BY <2>2, <2>3, <2>5
  <2>7. m[j] + d + 1 = m[j] + (d + 1)
    <3> DEFINE x == m[j]
    <3>1. x \in Int /\ d \in Int
      BY <1>5, <2>1
    <3> HIDE DEF x
    <3>2. x + d + 1 = x + (d + 1)
      BY <3>1
    <3> QED BY <3>2 DEF x
  <2> QED BY <2>6, <2>7
<1>8. \A d \in Nat : d \in Good
  <2>1. Good \in SUBSET Nat
    OBVIOUS
  <2> HIDE DEF Good
  <2> QED BY <1>6, <1>7, <2>1, Induction
<1>9. ASSUME NEW d \in 1 .. W
      PROVE  m[j] + d - 1 \in 1 .. Len(text) /\ text[m[j] + d - 1] = w[d]
  <2>1. d - 1 \in Nat /\ (d - 1) + 1 = d /\ d <= W
    BY <1>1
  <2>2. d - 1 \in Good
    <3> HIDE DEF Good
    <3> QED BY <1>8, <2>1
  <2>3. m[j + d - 1] = m[j] + (d - 1)
    BY <2>1, <2>2
  <2>4. m[j] + (d - 1) = m[j] + d - 1
    BY <1>1, <1>5
  <2> QED BY <1>4, <2>3, <2>4
<1>10. m[j] \in 1 .. Len(text) - W + 1
  <2>1. m[j] + W - 1 \in 1 .. Len(text)
    BY <1>1, <1>9
  <2> QED BY <1>1, <1>5, <2>1
<1>11. m[j] \in Places(w, text)
  BY <1>9, <1>10, PlaceMeans DEF W
<1>12. m[j] \notin Places(value, text)
  <2>1. 1 \in 1 .. W /\ j + 1 - 1 = j
    BY <1>1, <1>2
  <2> QED BY <1>4, <2>1
<1> QED BY <1>11, <1>12

(* text.split(value).join(mark) holds no value, and nothing new but marks. *)
THEOREM NothingNew ==
    ASSUME NEW A, NEW text \in Seq(A), NEW value \in Seq(A), value # <<>>, NEW mark \in A
    PROVE  /\ ReplaceEvery(text, value, <<mark>>) \in Seq(A)
           /\ \A w \in Seq(A) :
                 /\ w # <<>> /\ \A d \in DOMAIN w : w[d] # mark
                 /\ Occurs(w, ReplaceEvery(text, value, <<mark>>))
                 => w # value /\ Occurs(w, text)
<1> DEFINE from == CHOOSE f : f = [i \in 1 .. Len(text) + 1 |->
                      IF i > Len(text) THEN <<>>
                      ELSE IF i \in Places(value, text) THEN <<mark>> \o f[i + Len(value)]
                      ELSE <<text[i]>> \o f[i + 1]]
<1>1. ReplaceEvery(text, value, <<mark>>) = from[1]
  BY DEF ReplaceEvery
<1>2. IsReplacement(from, text, value, mark)
  <2>1. \E f : IsReplacement(f, text, value, mark)
    <3> HIDE DEF from
    <3> QED BY ReplacementDefined
  <2> QED BY <2>1 DEF IsReplacement
<1> HIDE DEF from
<1>3. PICK m : from[1] \in Seq(A) /\ TracedBy(m, from[1], 1, text, value, mark)
  BY <1>2, ReplacementTraced
<1>4. ASSUME NEW w \in Seq(A), w # <<>>, \A d \in DOMAIN w : w[d] # mark, Occurs(w, from[1])
      PROVE  w # value /\ Occurs(w, text)
  <2>1. PICK j : j \in Places(w, from[1])
    BY <1>4 DEF Occurs
  <2>2. m[j] \in Places(w, text) /\ m[j] \notin Places(value, text)
    BY <1>3, <1>4, <2>1, OccurrenceTraced
  <2> QED BY <2>2 DEF Occurs
<1> QED BY <1>1, <1>3, <1>4

(* What the redactors have in common, and what they do with one more secret. *)
RedactBy(secrets, text, mark) ==
    FoldLeft(LAMBDA acc, s : ReplaceEvery(acc, s.value, <<mark>>), text, secrets)

Redacting(text, s, mark) == ReplaceEvery(text, s.value, <<mark>>)

(* The redactors replace the secrets one after the other. *)
LEMMA RedactorRuns ==
    ASSUME NEW A, NEW text \in Seq(A), NEW mark \in A, NEW B, NEW secrets \in Seq(B),
           \A s \in B : s.value \in Seq(A) /\ s.value # <<>>
    PROVE  \E r : /\ r[0] = text
                  /\ \A k \in 0 .. Len(secrets) - 1 :
                        r[k + 1] = Redacting(r[k], secrets[k + 1], mark)
                  /\ RedactBy(secrets, text, mark) = r[Len(secrets)]
<1> DEFINE N == Len(secrets)
           It == CHOOSE iter : iter =
                   [s \in SUBSET DOMAIN secrets |->
                      IF s = {} THEN text ELSE Redacting(iter[s \ {Max(s)}], secrets[Max(s)], mark)]
<1>1. RedactBy(secrets, text, mark) = It[DOMAIN secrets]
  BY DEF RedactBy, FoldLeft, MapThenFoldSet, Redacting
<1> HIDE DEF It
<1>2. N \in Nat /\ DOMAIN secrets = 1 .. N /\ secrets \in [1 .. N -> B]
  BY LenProperties
<1> HIDE DEF N
<1>3. \E iter : iter = [s \in SUBSET DOMAIN secrets |->
                IF s = {} THEN text ELSE Redacting(iter[s \ {Max(s)}], secrets[Max(s)], mark)]
  <2> DEFINE op == [p \in Seq(A) \X B |-> Redacting(p[1], p[2], mark)]
  <2>1. op \in [Seq(A) \X B -> Seq(A)]
    <3>1. ASSUME NEW p \in Seq(A) \X B PROVE Redacting(p[1], p[2], mark) \in Seq(A)
      <4>1. p[1] \in Seq(A) /\ p[2] \in B
        OBVIOUS
      <4>2. p[2].value \in Seq(A) /\ p[2].value # <<>>
        BY <4>1
      <4> QED BY <4>1, <4>2, NothingNew DEF Redacting
    <3> QED BY <3>1
  <2> HIDE DEF op
  <2>2. PICK g : IsFold(g, op, text, secrets, N, Seq(A))
    BY <1>2, <2>1, FoldDefined
  <2>3. ASSUME NEW s \in SUBSET (1 .. N)
        PROVE  g[s] = IF s = {} THEN text ELSE Redacting(g[s \ {Max(s)}], secrets[Max(s)], mark)
    <3> SUFFICES ASSUME s # {}
                 PROVE  op[<<g[s \ {Max(s)}], secrets[Max(s)]>>]
                        = Redacting(g[s \ {Max(s)}], secrets[Max(s)], mark)
      BY <2>2 DEF IsFold
    <3>1. Max(s) \in 1 .. N
      BY <1>2, GreatestIndex
    <3>2. g[s \ {Max(s)}] \in Seq(A) /\ secrets[Max(s)] \in B
      BY <1>2, <2>2, <3>1 DEF IsFold
    <3> QED BY <3>2 DEF op
  <2>4. g = [s \in SUBSET (1 .. N) |->
               IF s = {} THEN text ELSE Redacting(g[s \ {Max(s)}], secrets[Max(s)], mark)]
    BY <2>2, <2>3 DEF IsFold
  <2> QED BY <1>2, <2>4
<1>4. It = [s \in SUBSET DOMAIN secrets |->
              IF s = {} THEN text ELSE Redacting(It[s \ {Max(s)}], secrets[Max(s)], mark)]
  BY <1>3 DEF It
<1> DEFINE r == [k \in 0 .. N |-> It[1 .. k]]
<1>5. r[0] = text
  <2>1. 1 .. 0 = {} /\ {} \in SUBSET DOMAIN secrets /\ 0 \in 0 .. N
    BY <1>2
  <2> QED BY <1>4, <2>1
<1>6. ASSUME NEW k \in 0 .. N - 1 PROVE r[k + 1] = Redacting(r[k], secrets[k + 1], mark)
  <2>1. 1 .. k + 1 \in SUBSET DOMAIN secrets /\ k \in Nat /\ k \in 0 .. N /\ k + 1 \in 0 .. N
    BY <1>2
  <2>2. It[1 .. k + 1]
        = Redacting(It[(1 .. k + 1) \ {Max(1 .. k + 1)}], secrets[Max(1 .. k + 1)], mark)
    BY <1>4, <2>1, FirstIndices
  <2> QED BY <2>1, <2>2, FirstIndices
<1>7. It[DOMAIN secrets] = r[N]
  BY <1>2
<1> HIDE DEF r
<1> QED BY <1>1, <1>5, <1>6, <1>7 DEF N

(* out holds none of the first k secrets, and nothing new but marks. *)
Redacted(out, text, secrets, k, A, mark) ==
    /\ out \in Seq(A)
    /\ \A i \in 1 .. k : ~Occurs(secrets[i].value, out)
    /\ \A w \in Seq(A) : w # <<>> /\ (\A d \in DOMAIN w : w[d] # mark) /\ Occurs(w, out)
                         => Occurs(w, text)

(* A redactor leaves none of the secrets, as long as none of them is empty or
   holds the mark. *)
LEMMA RedactorCleans ==
    ASSUME NEW A, NEW text \in Seq(A), NEW mark \in A, NEW B, NEW secrets \in Seq(B),
           \A s \in B : /\ s.value \in Seq(A) /\ s.value # <<>>
                        /\ \A d \in DOMAIN s.value : s.value[d] # mark
    PROVE  Redacted(RedactBy(secrets, text, mark), text, secrets, Len(secrets), A, mark)
<1> DEFINE N == Len(secrets)
           out == RedactBy(secrets, text, mark)
<1>1. PICK r : /\ r[0] = text
               /\ \A k \in 0 .. N - 1 : r[k + 1] = Redacting(r[k], secrets[k + 1], mark)
               /\ out = r[N]
  BY RedactorRuns
<1>2. N \in Nat /\ DOMAIN secrets = 1 .. N /\ \A i \in 1 .. N : secrets[i] \in B
  BY LenProperties, ElementOfSeq
<1> HIDE DEF N, out
<1> DEFINE Good == {k \in Nat : k <= N => Redacted(r[k], text, secrets, k, A, mark)}
<1>3. 0 \in Good
  <2>1. Redacted(text, text, secrets, 0, A, mark)
    BY DEF Redacted
  <2> QED BY <1>1, <2>1
<1>4. ASSUME NEW k \in Nat, k + 1 <= N, Redacted(r[k], text, secrets, k, A, mark)
      PROVE  Redacted(r[k + 1], text, secrets, k + 1, A, mark)
  <2> DEFINE v == secrets[k + 1].value
             before == r[k]
             after == r[k + 1]
  <2>1. k + 1 \in 1 .. N /\ k \in 0 .. N - 1
    BY <1>2, <1>4
  <2>2. v \in Seq(A) /\ v # <<>> /\ \A d \in DOMAIN v : v[d] # mark
    BY <1>2, <2>1
  <2>3. before \in Seq(A)
    BY <1>4 DEF Redacted
  <2>4. after = ReplaceEvery(before, v, <<mark>>)
    BY <1>1, <2>1 DEF Redacting
  <2> HIDE DEF v, before, after
  <2>5. /\ after \in Seq(A)
        /\ \A w \in Seq(A) : w # <<>> /\ (\A d \in DOMAIN w : w[d] # mark) /\ Occurs(w, after)
                             => w # v /\ Occurs(w, before)
    BY <2>2, <2>3, <2>4, NothingNew
  <2>6. ASSUME NEW i \in 1 .. k + 1 PROVE ~Occurs(secrets[i].value, after)
    <3>1. CASE i = k + 1
      <4>1. ~Occurs(v, after)
        BY <2>2, <2>5
      <4> QED BY <3>1, <4>1 DEF v
    <3>2. CASE i # k + 1
      <4>1. i \in 1 .. k /\ i \in 1 .. N
        BY <1>2, <1>4, <3>2
      <4>2. ~Occurs(secrets[i].value, before)
        BY <1>4, <4>1 DEF Redacted, before
      <4>3. secrets[i] \in B
        BY <1>2, <4>1
      <4>4. /\ secrets[i].value \in Seq(A) /\ secrets[i].value # <<>>
            /\ \A d \in DOMAIN secrets[i].value : secrets[i].value[d] # mark
        BY <4>3
      <4> QED BY <2>5, <4>2, <4>4
    <3> QED BY <3>1, <3>2
  <2>7. ASSUME NEW w \in Seq(A), w # <<>>, \A d \in DOMAIN w : w[d] # mark, Occurs(w, after)
        PROVE  Occurs(w, text)
    <3>1. Occurs(w, before)
      BY <2>5, <2>7
    <3> QED BY <1>4, <2>7, <3>1 DEF Redacted, before
  <2> QED BY <2>5, <2>6, <2>7 DEF Redacted, after
<1>5. N \in Good
  <2>1. ASSUME NEW k \in Good PROVE k + 1 \in Good
    <3>1. k \in Nat /\ (k + 1 <= N => k <= N)
      BY <1>2
    <3> QED BY <1>4, <3>1
  <2>2. Good \in SUBSET Nat
    OBVIOUS
  <2> HIDE DEF Good
  <2> QED BY <1>2, <1>3, <2>1, <2>2, Induction
<1>6. Redacted(out, text, secrets, N, A, mark)
  BY <1>1, <1>2, <1>5
<1> QED BY <1>6 DEF out, N

(* OutputRedactor.redact leaves none of the secrets in a text. *)
THEOREM RedactCleans ==
    ASSUME NEW A, NEW text \in Seq(A), Hash[1] \in A, NEW B, NEW secrets \in Seq(B),
           \A s \in B : /\ s.value \in Seq(A) /\ s.value # <<>>
                        /\ \A d \in DOMAIN s.value : s.value[d] # Hash[1]
    PROVE  Redacted(Redact(secrets, text), text, secrets, Len(secrets), A, Hash[1])
<1>1. Redact(secrets, text) = RedactBy(secrets, text, Hash[1])
  <2>1. Hash = <<Hash[1]>>
    BY DEF Hash
  <2> QED BY <2>1 DEF Redact, RedactBy, FoldLeft, MapThenFoldSet
<1> QED BY <1>1, RedactorCleans

(* preRedact, in the child, leaves none of them either. *)
THEOREM PreRedactCleans ==
    ASSUME NEW A, NEW text \in Seq(A), Excluded[1] \in A, NEW B, NEW secrets \in Seq(B),
           \A s \in B : /\ s.value \in Seq(A) /\ s.value # <<>>
                        /\ \A d \in DOMAIN s.value : s.value[d] # Excluded[1]
    PROVE  Redacted(PreRedact(secrets, text), text, secrets, Len(secrets), A, Excluded[1])
<1>1. PreRedact(secrets, text) = RedactBy(secrets, text, Excluded[1])
  <2>1. Excluded = <<Excluded[1]>>
    BY DEF Excluded
  <2> QED BY <2>1 DEF PreRedact, RedactBy, FoldLeft, MapThenFoldSet
<1> QED BY <1>1, RedactorCleans

-------------------------------------------------------------------------------
(* Texts within texts, and what the context of an event shows of a value. *)

(* p is what stands in text after the first o symbols. *)
PartAt(p, text, o) ==
    /\ o \in Nat /\ o + Len(p) <= Len(text)
    /\ \A d \in 1 .. Len(p) : text[o + d] = p[d]

(* value occurs in text at two places. *)
Twice(value, text) == \E i, j \in Places(value, text) : i # j

(* Where a text stands, so does what is in it. *)
LEMMA PartPlaces ==
    ASSUME NEW A, NEW text \in Seq(A), NEW p \in Seq(A), NEW o, PartAt(p, text, o),
           NEW w \in Seq(A), w # <<>>, NEW i \in Places(w, p)
    PROVE  o + i \in Places(w, text)
<1>1. Len(w) \in Nat \ {0} /\ Len(p) \in Nat /\ Len(text) \in Nat /\ o \in Nat
  BY LenProperties, EmptySeq DEF PartAt
<1>2. i \in 1 .. Len(p) - Len(w) + 1
  BY DEF Places
<1>3. \A d \in 1 .. Len(w) : p[i + d - 1] = w[d]
  BY <1>2, PlaceMeans
<1>4. o + i \in 1 .. Len(text) - Len(w) + 1
  BY <1>1, <1>2 DEF PartAt
<1>5. ASSUME NEW d \in 1 .. Len(w) PROVE text[(o + i) + d - 1] = w[d]
  <2>1. i + d - 1 \in 1 .. Len(p) /\ o + (i + d - 1) = (o + i) + d - 1
    BY <1>1, <1>2
  <2>2. text[o + (i + d - 1)] = p[i + d - 1]
    BY <2>1 DEF PartAt
  <2> QED BY <1>3, <2>1, <2>2
<1> QED BY <1>4, <1>5, PlaceMeans

(* And so does what is in it twice. *)
LEMMA PartTwice ==
    ASSUME NEW A, NEW text \in Seq(A), NEW p \in Seq(A), NEW o, PartAt(p, text, o),
           NEW w \in Seq(A), w # <<>>, Twice(w, p)
    PROVE  Twice(w, text)
<1>1. PICK i, j \in Places(w, p) : i # j
  BY DEF Twice
<1>2. o + i \in Places(w, text) /\ o + j \in Places(w, text)
  BY PartPlaces
<1>3. i \in Int /\ j \in Int /\ o \in Int
  BY DEF Places, PartAt
<1>4. o + i # o + j
  BY <1>1, <1>3
<1> QED BY <1>2, <1>4 DEF Twice

(* What is there twice has more than one place. *)
LEMMA TwiceCounts ==
    ASSUME NEW A, NEW text \in Seq(A), NEW w \in Seq(A), Twice(w, text)
    PROVE  Cardinality(Places(w, text)) > 1
<1>1. Len(text) \in Nat /\ Len(w) \in Nat
  BY LenProperties
<1>2. IsFiniteSet(1 .. Len(text) - Len(w) + 1)
  BY <1>1, FS_Interval
<1>3. Places(w, text) \in SUBSET (1 .. Len(text) - Len(w) + 1)
  BY DEF Places
<1> DEFINE P == Places(w, text)
<1> HIDE DEF P
<1>4. IsFiniteSet(P)
  BY <1>2, <1>3, FS_Subset DEF P
<1>5. Cardinality(P) \in Nat
  BY <1>4, FS_CardinalityType
<1>6. P # {} /\ \A x : P # {x}
  BY DEF Twice, P
<1>7. Cardinality(P) # 0 /\ Cardinality(P) # 1
  BY <1>4, <1>6, FS_EmptySet, FS_Singleton
<1> QED BY <1>5, <1>7 DEF P

(* A piece of a text stands where it was cut out. *)
LEMMA PieceStands ==
    ASSUME NEW A, NEW text \in Seq(A), NEW f \in 1 .. Len(text) + 1, NEW l \in f - 1 .. Len(text)
    PROVE  /\ SubSeq(text, f, l) \in Seq(A) /\ Len(SubSeq(text, f, l)) = l - f + 1
           /\ PartAt(SubSeq(text, f, l), text, f - 1)
<1>1. Len(text) \in Nat
  BY LenProperties
<1>2. \A i \in f .. l : text[i] \in A
  <2>1. \A i \in f .. l : i \in 1 .. Len(text)
    BY <1>1
  <2> QED BY <2>1, ElementOfSeq
<1>3. f \in Int /\ l \in Int
  BY <1>1
<1>4. /\ SubSeq(text, f, l) \in Seq(A)
      /\ Len(SubSeq(text, f, l)) = IF f <= l THEN l - f + 1 ELSE 0
      /\ \A i \in 1 .. l - f + 1 : SubSeq(text, f, l)[i] = text[f + i - 1]
  BY <1>2, <1>3, SubSeqProperties
<1> DEFINE p == SubSeq(text, f, l)
<1> HIDE DEF p
<1>5. Len(p) = l - f + 1
  BY <1>1, <1>4 DEF p
<1>6. PartAt(p, text, f - 1)
  <2>1. f - 1 \in Nat /\ (f - 1) + Len(p) <= Len(text)
    BY <1>1, <1>5
  <2>2. ASSUME NEW d \in 1 .. Len(p) PROVE text[(f - 1) + d] = p[d]
    <3>1. d \in 1 .. l - f + 1 /\ f + d - 1 = (f - 1) + d
      BY <1>3, <1>5
    <3> QED BY <1>4, <3>1 DEF p
  <2> QED BY <2>1, <2>2 DEF PartAt
<1> QED BY <1>4, <1>5, <1>6 DEF p

(* A part of a part is a part. *)
LEMMA PartOfPart ==
    ASSUME NEW A, NEW text \in Seq(A), NEW p \in Seq(A), NEW o, PartAt(p, text, o),
           NEW q \in Seq(A), NEW n, PartAt(q, p, n)
    PROVE  PartAt(q, text, o + n)
<1>1. Len(q) \in Nat /\ Len(p) \in Nat /\ Len(text) \in Nat /\ o \in Nat /\ n \in Nat
  BY LenProperties DEF PartAt
<1>2. o + n \in Nat /\ (o + n) + Len(q) <= Len(text)
  BY <1>1 DEF PartAt
<1>3. ASSUME NEW d \in 1 .. Len(q) PROVE text[(o + n) + d] = q[d]
  <2>1. n + d \in 1 .. Len(p) /\ o + (n + d) = (o + n) + d
    BY <1>1 DEF PartAt
  <2>2. text[o + (n + d)] = p[n + d] /\ p[n + d] = q[d]
    BY <2>1 DEF PartAt
  <2> QED BY <2>1, <2>2
<1> QED BY <1>2, <1>3 DEF PartAt

(* The first place of a text, and what replacing it there makes. *)
LEMMA FirstIs ==
    ASSUME NEW text, NEW w, Occurs(w, text)
    PROVE  /\ FirstPlace(w, text) \in Places(w, text)
           /\ \A j \in Places(w, text) : FirstPlace(w, text) <= j
<1>1. Places(w, text) \in SUBSET Nat
  BY DEF Places
<1>2. Places(w, text) # {}
  BY DEF Occurs
<1> DEFINE P == Places(w, text)
<1> HIDE DEF P
<1>3. Min(P) \in P /\ \A j \in P : Min(P) <= j
  BY <1>1, <1>2, LeastIndex DEF P
<1> QED BY <1>3 DEF FirstPlace, P

(* out is text with a mark for the value at place i. *)
MarkedAt(out, text, value, mark, i) ==
    /\ Len(out) = Len(text) - Len(value) + 1
    /\ \A d \in 1 .. i - 1 : out[d] = text[d]
    /\ out[i] = mark
    /\ \A d \in i + 1 .. Len(out) : out[d] = text[d + Len(value) - 1]

(* The first occurrence of a value, and no other, is replaced by the mark. *)
LEMMA FirstMarked ==
    ASSUME NEW A, NEW text \in Seq(A), NEW value \in Seq(A), value # <<>>, NEW mark \in A,
           Occurs(value, text)
    PROVE  LET out == ReplaceFirst(text, value, <<mark>>)
           IN  out \in Seq(A) /\ MarkedAt(out, text, value, mark, FirstPlace(value, text))
<1> DEFINE i == FirstPlace(value, text)
           V == Len(value)
           L == Len(text)
           a == SubSeq(text, 1, i - 1)
           b == SubSeq(text, i + V, L)
           out == (a \o <<mark>>) \o b
<1>1. ReplaceFirst(text, value, <<mark>>) = out
  BY DEF ReplaceFirst
<1>2. V \in Nat \ {0} /\ L \in Nat
  BY LenProperties, EmptySeq
<1>3. i \in 1 .. L - V + 1
  BY FirstIs DEF Places
<1> HIDE DEF i, V
<1>4. a \in Seq(A) /\ Len(a) = i - 1 /\ PartAt(a, text, 0)
  <2>1. 1 \in 1 .. L + 1 /\ i - 1 \in 1 - 1 .. L /\ (i - 1) - 1 + 1 = i - 1
    BY <1>2, <1>3
  <2> HIDE DEF L
  <2>2. 1 \in 1 .. Len(text) + 1 /\ i - 1 \in 1 - 1 .. Len(text)
    BY <2>1 DEF L
  <2>3. /\ SubSeq(text, 1, i - 1) \in Seq(A) /\ Len(SubSeq(text, 1, i - 1)) = (i - 1) - 1 + 1
        /\ PartAt(SubSeq(text, 1, i - 1), text, 1 - 1)
    BY <2>2, PieceStands
  <2> QED BY <2>1, <2>3
<1>5. b \in Seq(A) /\ Len(b) = L - i - V + 1 /\ PartAt(b, text, i + V - 1)
  <2>1. /\ i + V \in 1 .. Len(text) + 1 /\ Len(text) \in (i + V) - 1 .. Len(text)
        /\ L - (i + V) + 1 = L - i - V + 1 /\ (i + V) - 1 = i + V - 1
    BY <1>2, <1>3
  <2>2. /\ SubSeq(text, i + V, Len(text)) \in Seq(A)
        /\ Len(SubSeq(text, i + V, Len(text))) = Len(text) - (i + V) + 1
        /\ PartAt(SubSeq(text, i + V, Len(text)), text, (i + V) - 1)
    BY <2>1, PieceStands
  <2>3. b \in Seq(A) /\ Len(b) = L - (i + V) + 1 /\ PartAt(b, text, (i + V) - 1)
    BY <2>2
  <2> HIDE DEF b, L
  <2> QED BY <2>1, <2>3
<1> HIDE DEF a, b
<1>6. /\ <<mark>> \in Seq(A) /\ Len(<<mark>>) = 1 /\ <<mark>>[1] = mark
  <2>1. mark \in A
    OBVIOUS
  <2> QED BY ONLY <2>1
<1> DEFINE c == a \o <<mark>>
<1>7. c \in Seq(A) /\ Len(c) = i /\ \A d \in 1 .. i : c[d] = IF d <= i - 1 THEN a[d] ELSE mark
  <2>1. /\ c \in Seq(A) /\ Len(c) = Len(a) + 1
        /\ \A d \in 1 .. Len(a) + 1 : c[d] = IF d <= Len(a) THEN a[d] ELSE <<mark>>[d - Len(a)]
    BY <1>4, <1>6, ConcatProperties
  <2> HIDE DEF c
  <2>2. Len(a) + 1 = i /\ i \in Int
    BY <1>3, <1>4
  <2>3. ASSUME NEW d \in 1 .. i PROVE c[d] = IF d <= i - 1 THEN a[d] ELSE mark
    <3>1. d <= i - 1 \/ d - Len(a) = 1
      BY <1>4, <2>2
    <3> QED BY <1>4, <1>6, <2>1, <2>2, <3>1
  <2> QED BY <2>1, <2>2, <2>3
<1> HIDE DEF c
<1>8. /\ out \in Seq(A) /\ Len(out) = Len(c) + Len(b)
      /\ \A d \in 1 .. Len(c) + Len(b) : out[d] = IF d <= Len(c) THEN c[d] ELSE b[d - Len(c)]
  <2>1. c \in Seq(A) /\ b \in Seq(A)
    BY <1>5, <1>7
  <2>2. out = c \o b
    BY DEF c
  <2> HIDE DEF out
  <2>3. /\ c \o b \in Seq(A) /\ Len(c \o b) = Len(c) + Len(b)
        /\ \A d \in 1 .. Len(c) + Len(b) : (c \o b)[d] = IF d <= Len(c) THEN c[d] ELSE b[d - Len(c)]
    BY <2>1, ConcatProperties
  <2> QED BY <2>2, <2>3
<1> HIDE DEF out
<1>9. Len(out) = L - V + 1
  <2>1. Len(out) = i + (L - i - V + 1)
    BY <1>5, <1>7, <1>8
  <2> HIDE DEF L
  <2> QED BY <1>2, <1>3, <2>1
<1>10. ASSUME NEW d \in 1 .. i - 1 PROVE out[d] = text[d]
  <2>1. d \in 1 .. i /\ d \in 1 .. Len(c) + Len(b) /\ d <= Len(c) /\ d <= i - 1 /\ 0 + d = d
    BY <1>2, <1>3, <1>5, <1>7
  <2>2. out[d] = a[d]
    BY <1>7, <1>8, <2>1
  <2>3. d \in 1 .. Len(a)
    BY <1>4
  <2> QED BY <1>4, <2>1, <2>2, <2>3 DEF PartAt
<1>11. out[i] = mark
  <2>1. i \in 1 .. i /\ i \in 1 .. Len(c) + Len(b) /\ i <= Len(c) /\ ~(i <= i - 1)
    BY <1>2, <1>3, <1>5, <1>7
  <2> QED BY <1>7, <1>8, <2>1
<1>12. ASSUME NEW d \in i + 1 .. Len(out) PROVE out[d] = text[d + V - 1]
  <2>1. /\ d \in 1 .. Len(c) + Len(b) /\ ~(d <= Len(c)) /\ d - Len(c) = d - i
        /\ d - i \in 1 .. Len(b) /\ (i + V - 1) + (d - i) = d + V - 1
    BY <1>2, <1>3, <1>5, <1>7, <1>8
  <2>2. out[d] = b[d - i]
    BY <1>8, <2>1
  <2>3. text[(i + V - 1) + (d - i)] = b[d - i]
    BY <1>5, <2>1 DEF PartAt
  <2> QED BY <2>1, <2>2, <2>3
<1>13. MarkedAt(out, text, value, mark, i)
  BY <1>9, <1>10, <1>11, <1>12 DEF MarkedAt, L, V
<1> QED BY <1>1, <1>8, <1>13 DEF i

(* A value without the mark that is left in it was there twice. *)
LEMMA SecondLeft ==
    ASSUME NEW A, NEW text \in Seq(A), NEW value \in Seq(A), value # <<>>, NEW mark \in A,
           \A d \in DOMAIN value : value[d] # mark,
           Occurs(value, text), Occurs(value, ReplaceFirst(text, value, <<mark>>))
    PROVE  Twice(value, text)
<1> DEFINE i == FirstPlace(value, text)
           V == Len(value)
           L == Len(text)
           out == ReplaceFirst(text, value, <<mark>>)
<1>1. out \in Seq(A) /\ MarkedAt(out, text, value, mark, i)
  BY FirstMarked
<1>2. V \in Nat \ {0} /\ L \in Nat /\ Len(out) \in Nat /\ DOMAIN value = 1 .. V
  BY <1>1, LenProperties, EmptySeq
<1>3. i \in Places(value, text) /\ i \in 1 .. L - V + 1 /\ \A j \in Places(value, text) : i <= j
  BY FirstIs DEF Places
<1>4. PICK j \in Places(value, out) : TRUE
  BY DEF Occurs
<1>5. j \in 1 .. Len(out) - V + 1
  BY DEF Places
<1> HIDE DEF out
<1>6. \A d \in 1 .. V : out[j + d - 1] = value[d]
  BY <1>1, <1>5, PlaceMeans
<1> HIDE DEF i
<1>7. j > i \/ j + V - 1 < i
  <2> SUFFICES ASSUME j <= i, i <= j + V - 1 PROVE FALSE
    BY <1>2, <1>3, <1>5
  <2>1. i - j + 1 \in 1 .. V /\ j + (i - j + 1) - 1 = i
    BY <1>2, <1>3, <1>5
  <2>2. out[i] = value[i - j + 1]
    BY <1>6, <2>1
  <2> QED BY <1>1, <1>2, <2>1, <2>2 DEF MarkedAt
<1>8. CASE j + V - 1 < i
  <2>1. j \in 1 .. L - V + 1
    BY <1>2, <1>3, <1>5, <1>8
  <2>2. ASSUME NEW d \in 1 .. V PROVE text[j + d - 1] = value[d]
    <3>1. j + d - 1 \in 1 .. i - 1
      BY <1>2, <1>3, <1>5, <1>8
    <3> QED BY <1>1, <1>6, <3>1 DEF MarkedAt
  <2>3. j \in Places(value, text)
    BY <2>1, <2>2, PlaceMeans
  <2>4. j < i
    BY <1>2, <1>3, <1>5, <1>8
  <2> QED BY <1>3, <2>3, <2>4
<1>9. CASE j > i
  <2> DEFINE k == j + V - 1
  <2>1. k \in 1 .. L - V + 1 /\ k # i
    BY <1>1, <1>2, <1>3, <1>5, <1>9 DEF MarkedAt
  <2>2. ASSUME NEW d \in 1 .. V PROVE text[k + d - 1] = value[d]
    <3>1. j + d - 1 \in i + 1 .. Len(out) /\ (j + d - 1) + V - 1 = k + d - 1
      BY <1>2, <1>3, <1>5, <1>9
    <3> HIDE DEF k
    <3> QED BY <1>1, <1>6, <3>1 DEF MarkedAt
  <2> HIDE DEF k
  <2>3. k \in Places(value, text)
    BY <2>1, <2>2, PlaceMeans
  <2> QED BY <1>3, <2>1, <2>3 DEF Twice
<1> QED BY <1>7, <1>8, <1>9

(* The greater and the lesser of two numbers. *)
LEMMA OfTwo ==
    ASSUME NEW x \in Int, NEW y \in Int
    PROVE  /\ Max({x, y}) \in {x, y} /\ Max({x, y}) >= x /\ Max({x, y}) >= y
           /\ Min({x, y}) \in {x, y} /\ Min({x, y}) <= x /\ Min({x, y}) <= y
<1>1. \E m \in {x, y} : \A n \in {x, y} : m >= n
  <2>1. CASE x >= y
    BY <2>1
  <2>2. CASE y >= x
    BY <2>2
  <2> QED BY <2>1, <2>2
<1>2. \E m \in {x, y} : \A n \in {x, y} : m <= n
  <2>1. CASE x >= y
    BY <2>1
  <2>2. CASE y >= x
    BY <2>2
  <2> QED BY <2>1, <2>2
<1>3. Max({x, y}) \in {x, y} /\ \A n \in {x, y} : Max({x, y}) >= n
  BY <1>1 DEF Max
<1>4. Min({x, y}) \in {x, y} /\ \A n \in {x, y} : Min({x, y}) <= n
  BY <1>2 DEF Min
<1> QED BY <1>3, <1>4

(* The snippet around the first occurrence shows a value only where the text has
   it twice. *)
LEMMA AroundShows ==
    ASSUME NEW A, NEW text \in Seq(A), NEW value \in Seq(A), value # <<>>, Hash[1] \in A,
           \A d \in DOMAIN value : value[d] # Hash[1],
           NEW window \in Nat, NEW p \in Around(text, value, window), Occurs(value, p)
    PROVE  Twice(value, text)
<1> DEFINE at    == FirstPlace(value, text)
           V     == Len(value)
           first == Max({1, at - window})
           last  == Min({Len(text), at + V - 1 + window})
           piece == SubSeq(text, first, last)
<1>1. Occurs(value, text) /\ p = ReplaceFirst(piece, value, Hash)
  BY DEF Around
<1>2. V \in Nat \ {0} /\ Len(text) \in Nat
  BY LenProperties, EmptySeq
<1>3. at \in Places(value, text) /\ at \in 1 .. Len(text) - V + 1
  BY <1>1, FirstIs DEF Places
<1> HIDE DEF at, V
<1>4. first \in 1 .. at
  <2>2. at - window \in Int /\ 1 \in Int
    BY <1>2, <1>3
  <2>3. first \in {1, at - window} /\ first >= 1
    BY <2>2, OfTwo
  <2> HIDE DEF first
  <2> QED BY <1>2, <1>3, <2>3
<1>5. last \in at + V - 1 .. Len(text)
  <2>2. at + V - 1 + window \in Int /\ Len(text) \in Int
    BY <1>2, <1>3
  <2>3. last \in {Len(text), at + V - 1 + window} /\ last <= Len(text)
    BY <2>2, OfTwo
  <2> HIDE DEF last
  <2> QED BY <1>2, <1>3, <2>3
<1> HIDE DEF first, last
<1>6. first \in 1 .. Len(text) + 1 /\ last \in first - 1 .. Len(text)
  BY <1>2, <1>3, <1>4, <1>5
<1>7. piece \in Seq(A) /\ PartAt(piece, text, first - 1)
  BY <1>6, PieceStands
<1> HIDE DEF piece
<1>8. CASE Occurs(value, piece)
  <2>1. Hash = <<Hash[1]>>
    BY DEF Hash
  <2>2. Twice(value, piece)
    BY <1>1, <1>7, <1>8, <2>1, SecondLeft
  <2> QED BY <1>7, <2>2, PartTwice
<1>9. CASE ~Occurs(value, piece)
  <2>1. p = piece
    BY <1>1, <1>9 DEF ReplaceFirst
  <2> QED BY <1>9, <2>1
<1> QED BY <1>8, <1>9

-------------------------------------------------------------------------------
(* The pieces of an HTTP request. *)

(* A value that begins before a mark and has none ends before it: there it does
   not matter what the mark stands for. *)
LEMMA SharedBeginning ==
    ASSUME NEW A, NEW head \in Seq(A), NEW x \in Seq(A), NEW y \in Seq(A),
           NEW value \in Seq(A), value # <<>>, NEW mark \in A,
           \A d \in DOMAIN value : value[d] # mark,
           NEW n \in 1 .. Len(x), x[n] = mark, n - 1 <= Len(y), \A d \in 1 .. n - 1 : x[d] = y[d],
           NEW j \in Places(value, head \o x), j <= Len(head)
    PROVE  j \in Places(value, head \o y)
<1> DEFINE H == Len(head)
           V == Len(value)
           p == head \o x
           q == head \o y
<1>1. /\ H \in Nat /\ V \in Nat \ {0} /\ Len(x) \in Nat /\ Len(y) \in Nat
      /\ DOMAIN value = 1 .. V
  BY LenProperties, EmptySeq
<1>2. /\ p \in Seq(A) /\ Len(p) = H + Len(x)
      /\ \A i \in 1 .. H + Len(x) : p[i] = IF i <= H THEN head[i] ELSE x[i - H]
  BY ConcatProperties
<1>3. /\ q \in Seq(A) /\ Len(q) = H + Len(y)
      /\ \A i \in 1 .. H + Len(y) : q[i] = IF i <= H THEN head[i] ELSE y[i - H]
  BY ConcatProperties
<1>4. j \in 1 .. Len(p) - V + 1 /\ j <= H /\ j \in Places(value, p)
  BY DEF Places
<1> HIDE DEF p, q
<1>5. \A d \in 1 .. V : p[j + d - 1] = value[d]
  <2>1. p \in Seq(A) /\ j \in 1 .. Len(p) - Len(value) + 1 /\ j \in Places(value, p)
    BY <1>2, <1>4
  <2> HIDE DEF V
  <2>2. \A d \in 1 .. Len(value) : p[j + d - 1] = value[d]
    BY <2>1, PlaceMeans
  <2> QED BY <2>2 DEF V
<1> HIDE DEF H, V
<1>6. j + V - 1 < H + n
  <2> SUFFICES ASSUME j + V - 1 >= H + n PROVE FALSE
    BY <1>1, <1>4
  <2> DEFINE d == H + n - j + 1
  <2>1. d \in 1 .. V /\ j + d - 1 = H + n /\ H + n \in 1 .. H + Len(x) /\ ~(H + n <= H) /\ (H + n) - H = n
    BY <1>1, <1>4
  <2> HIDE DEF d
  <2>2. value[d] = p[H + n] /\ p[H + n] = x[n]
    BY <1>2, <1>5, <2>1
  <2> QED BY <1>1, <2>1, <2>2
<1>7. j \in 1 .. Len(q) - V + 1
  BY <1>1, <1>3, <1>4, <1>6
<1>8. ASSUME NEW d \in 1 .. V PROVE q[j + d - 1] = value[d]
  <2> DEFINE i == j + d - 1
  <2>1. i \in 1 .. H + n - 1 /\ i \in 1 .. H + Len(x) /\ i \in 1 .. H + Len(y)
        /\ (i <= H \/ i - H \in 1 .. n - 1)
    BY <1>1, <1>4, <1>6
  <2>2. p[i] = value[d]
    BY <1>5
  <2> HIDE DEF i
  <2>3. q[i] = p[i]
    BY <1>2, <1>3, <2>1
  <2> QED BY <2>2, <2>3 DEF i
<1> QED BY <1>3, <1>7, <1>8, PlaceMeans DEF q, V

(* What begins behind the head of a text stands in the rest. *)
LEMMA PlaceBehind ==
    ASSUME NEW A, NEW head \in Seq(A), NEW x \in Seq(A), NEW value \in Seq(A), value # <<>>,
           NEW j \in Places(value, head \o x), j > Len(head)
    PROVE  j - Len(head) \in Places(value, x)
<1> DEFINE H == Len(head)
           p == head \o x
           i == j - H
<1>1. H \in Nat /\ Len(x) \in Nat /\ Len(value) \in Nat \ {0}
  BY LenProperties, EmptySeq
<1>2. /\ p \in Seq(A) /\ Len(p) = H + Len(x)
      /\ \A d \in 1 .. H + Len(x) : p[d] = IF d <= H THEN head[d] ELSE x[d - H]
  BY ConcatProperties
<1>3. j \in 1 .. Len(p) - Len(value) + 1 /\ j \in Places(value, p) /\ j > H
  BY DEF Places
<1> HIDE DEF p, H
<1>4. \A d \in 1 .. Len(value) : p[j + d - 1] = value[d]
  <2>1. p \in Seq(A)
    BY <1>2
  <2> QED BY <1>3, <2>1, PlaceMeans
<1>5. i \in 1 .. Len(x) - Len(value) + 1
  BY <1>1, <1>2, <1>3
<1>6. ASSUME NEW d \in 1 .. Len(value) PROVE x[i + d - 1] = value[d]
  <2>1. /\ j + d - 1 \in 1 .. H + Len(x) /\ ~(j + d - 1 <= H)
        /\ (j + d - 1) - H = i + d - 1
    BY <1>1, <1>2, <1>3
  <2> QED BY <1>2, <1>4, <2>1
<1> HIDE DEF i
<1>7. i \in Places(value, x)
  BY <1>5, <1>6, PlaceMeans
<1> QED BY <1>7 DEF i, H

(* What stands in a text of one symbol begins with that symbol. *)
LEMMA OnlySymbol ==
    ASSUME NEW A, NEW x \in Seq(A), Len(x) = 1, NEW value \in Seq(A), value # <<>>,
           NEW i \in Places(value, x)
    PROVE  x[1] = value[1] /\ 1 \in DOMAIN value
<1>1. Len(value) \in Nat \ {0} /\ DOMAIN value = 1 .. Len(value)
  BY LenProperties, EmptySeq
<1>2. i \in 1 .. Len(x) - Len(value) + 1
  BY DEF Places
<1>3. \A d \in 1 .. Len(value) : x[i + d - 1] = value[d]
  BY <1>2, PlaceMeans
<1>4. i = 1 /\ 1 \in 1 .. Len(value) /\ i + 1 - 1 = 1
  BY <1>1, <1>2
<1> QED BY <1>1, <1>3, <1>4

(* The value stands in the line of a header and begins in its name. *)
BeginsInName(value, key, val) ==
    \E i \in Places(value, key \o <<Colon>> \o val) : i <= Len(key) + 1

(* A header that is printed shows a value only where it has it twice, or where
   the value begins in the name of the header. *)
LEMMA HeaderShows ==
    ASSUME NEW A, NEW key \in Seq(A), NEW val \in Seq(A), NEW value \in Seq(A), value # <<>>,
           Hash[1] \in A, Withheld[1] \in A, Colon \in A,
           \A d \in DOMAIN value : value[d] # Hash[1] /\ value[d] # Withheld[1],
           Occurs(value, HeaderPiece(key, val, value))
    PROVE  Twice(value, val) \/ BeginsInName(value, key, val)
<1> DEFINE head == key \o <<Colon>>
           X == IF Occurs(value, val) THEN ReplaceFirst(val, value, Hash)
                ELSE IF key \in {<<"Authorization">>, <<"Cookie">>} THEN Withheld ELSE val
           out == head \o X
<1>1. HeaderPiece(key, val, value) = out
  BY DEF HeaderPiece
<1>2. Hash = <<Hash[1]>> /\ Withheld = <<Withheld[1]>>
  BY DEF Hash, Withheld
<1>3. Withheld \in Seq(A) /\ Len(Withheld) = 1
  <2> DEFINE m == Withheld[1]
  <2>1. m \in A
    OBVIOUS
  <2> HIDE DEF m
  <2>2. <<m>> \in Seq(A) /\ Len(<<m>>) = 1
    BY ONLY <2>1
  <2> QED BY <1>2, <2>2 DEF m
<1>4. head \in Seq(A) /\ Len(head) = Len(key) + 1
  <2> DEFINE c == Colon
  <2>1. c \in A
    OBVIOUS
  <2> HIDE DEF c
  <2>2. <<c>> \in Seq(A) /\ Len(<<c>>) = 1
    BY ONLY <2>1
  <2>3. key \o <<c>> \in Seq(A) /\ Len(key \o <<c>>) = Len(key) + Len(<<c>>)
    BY <2>2, ConcatProperties
  <2> QED BY <2>2, <2>3 DEF c
<1>5. Occurs(value, val) => /\ ReplaceFirst(val, value, Hash) \in Seq(A)
                            /\ MarkedAt(ReplaceFirst(val, value, Hash), val, value, Hash[1], FirstPlace(value, val))
  BY <1>2, FirstMarked
<1>6. X \in Seq(A)
  BY <1>3, <1>5
<1>7. /\ Occurs(value, val) => X = ReplaceFirst(val, value, Hash)
      /\ ~Occurs(value, val) => X = Withheld \/ X = val
  OBVIOUS
<1> HIDE DEF head, X
<1>a. PICK j \in Places(value, head \o X) : TRUE
  BY <1>1 DEF Occurs
<1>b. j \in 1 .. Len(head \o X) - Len(value) + 1
  BY DEF Places
<1> HIDE DEF out
<1>8. /\ Len(head) \in Nat /\ Len(X) \in Nat /\ Len(value) \in Nat \ {0} /\ Len(val) \in Nat
      /\ DOMAIN value = 1 .. Len(value)
  BY <1>4, <1>6, LenProperties, EmptySeq
<1>9. CASE j <= Len(head)
  <2>1. ASSUME j \in Places(value, head \o val) PROVE BeginsInName(value, key, val)
    BY <1>4, <1>9, <2>1 DEF BeginsInName, head
  <2>2. CASE Occurs(value, val)
    <3> DEFINE x == ReplaceFirst(val, value, Hash)
               n == FirstPlace(value, val)
    <3>1. X = x
      BY <1>7, <2>2
    <3>2. x \in Seq(A) /\ MarkedAt(x, val, value, Hash[1], n)
      BY <1>5, <2>2
    <3>3. n \in 1 .. Len(val) - Len(value) + 1
      BY <2>2, FirstIs DEF Places
    <3> HIDE DEF x, n
    <3>4. /\ n \in 1 .. Len(x) /\ x[n] = Hash[1] /\ n - 1 <= Len(val)
          /\ \A d \in 1 .. n - 1 : x[d] = val[d]
      BY <1>8, <3>2, <3>3 DEF MarkedAt
    <3>5. j \in Places(value, head \o x)
      BY <3>1
    <3>6. j \in Places(value, head \o val)
      BY <1>4, <1>9, <3>2, <3>4, <3>5, SharedBeginning
    <3> QED BY <2>1, <3>6
  <2>3. CASE ~Occurs(value, val) /\ X = Withheld
    <3>1. 1 \in 1 .. Len(Withheld) /\ 1 - 1 <= Len(val) /\ \A d \in 1 .. 1 - 1 : Withheld[d] = val[d]
      BY <1>3, <1>8
    <3>2. j \in Places(value, head \o Withheld)
      BY <2>3
    <3>3. j \in Places(value, head \o val)
      BY <1>3, <1>4, <1>9, <3>1, <3>2, SharedBeginning
    <3> QED BY <2>1, <3>3
  <2>4. CASE X = val
    BY <2>1, <2>4
  <2> QED BY <1>7, <2>2, <2>3, <2>4
<1>10. CASE j > Len(head)
  <2>5. j - Len(head) \in Places(value, X)
    BY <1>4, <1>6, <1>10, PlaceBehind
  <2>6. Occurs(value, X)
    BY <2>5 DEF Occurs
  <2>7. CASE Occurs(value, val)
    <3>1. Occurs(value, ReplaceFirst(val, value, <<Hash[1]>>))
      BY <1>2, <1>7, <2>6, <2>7
    <3> QED BY <2>7, <3>1, SecondLeft
  <2>8. CASE ~Occurs(value, val) /\ X = Withheld
    <3>1. j - Len(head) \in Places(value, Withheld)
      BY <2>5, <2>8
    <3>2. Withheld[1] = value[1] /\ 1 \in DOMAIN value
      BY <1>3, <1>8, <3>1, OnlySymbol
    <3> QED BY <3>2
  <2>9. CASE ~Occurs(value, val) /\ X = val
    BY <2>6, <2>9
  <2> QED BY <1>7, <2>7, <2>8, <2>9
<1>c. j <= Len(head) \/ j > Len(head)
  BY <1>8, <1>b
<1> QED BY <1>c, <1>9, <1>10

-------------------------------------------------------------------------------
(* A request is cut into lines that are laid out in it one after the other. *)

(* What Split does with one more symbol. *)
Cut(pieces, x, separator) ==
    IF x = separator THEN Append(pieces, <<>>)
    ELSE [pieces EXCEPT ![Len(pieces)] = Append(pieces[Len(pieces)], x)]

(* Pieces of texts, at least one. *)
Pieces(A) == {p \in Seq(Seq(A)) : p # <<>>}

(* One more symbol leaves pieces. *)
LEMMA CutFits ==
    ASSUME NEW A, NEW pieces \in Pieces(A), NEW x \in A, NEW separator
    PROVE  LET n    == Len(pieces)
               next == Cut(pieces, x, separator)
           IN  /\ next \in Pieces(A) /\ n \in Nat \ {0}
               /\ x = separator =>
                    /\ Len(next) = n + 1 /\ next[n + 1] = <<>>
                    /\ \A i \in 1 .. n : next[i] = pieces[i]
               /\ x # separator =>
                    /\ Len(next) = n
                    /\ next[n] = Append(pieces[n], x)
                    /\ \A i \in 1 .. n - 1 : next[i] = pieces[i]
<1> DEFINE n    == Len(pieces)
           next == Cut(pieces, x, separator)
<1>1. pieces \in Seq(Seq(A)) /\ n \in Nat \ {0}
  BY EmptySeq DEF Pieces
<1>2. CASE x = separator
  <2>1. next = Append(pieces, <<>>) /\ <<>> \in Seq(A)
    BY <1>2 DEF Cut
  <2>2. /\ next \in Seq(Seq(A)) /\ Len(next) = n + 1 /\ next[n + 1] = <<>>
        /\ \A i \in 1 .. n : next[i] = pieces[i]
    BY <1>1, <2>1, AppendProperties
  <2>3. next # <<>>
    BY <1>1, <2>2, EmptySeq
  <2> QED BY <1>1, <1>2, <2>2, <2>3 DEF Pieces
<1>3. CASE x # separator
  <2> DEFINE last == Append(pieces[n], x)
  <2>1. n \in 1 .. Len(pieces) /\ pieces[n] \in Seq(A)
    BY <1>1, ElementOfSeq
  <2>2. last \in Seq(A)
    BY <2>1, AppendProperties
  <2>3. next = [pieces EXCEPT ![n] = last]
    BY <1>3 DEF Cut
  <2> HIDE DEF next, last
  <2>4. /\ next \in Seq(Seq(A)) /\ Len(next) = n
        /\ \A i \in 1 .. n : next[i] = IF i = n THEN last ELSE pieces[i]
    BY <1>1, <2>1, <2>2, <2>3, ExceptSeq
  <2>5. next # <<>>
    BY <1>1, <2>4, EmptySeq
  <2>6. next \in Pieces(A) /\ Len(next) = n /\ \A i \in 1 .. n - 1 : next[i] = pieces[i]
    BY <1>1, <2>4, <2>5 DEF Pieces
  <2>7. next[n] = last
    BY <2>1, <2>4
  <2> QED BY <1>1, <1>3, <2>6, <2>7 DEF next, last
<1> QED BY <1>2, <1>3

(* A text is cut symbol by symbol. *)
LEMMA SplitRuns ==
    ASSUME NEW A, NEW text \in Seq(A), NEW separator
    PROVE  \E r : /\ r[0] = <<<<>>>>
                  /\ \A k \in 0 .. Len(text) - 1 : r[k + 1] = Cut(r[k], text[k + 1], separator)
                  /\ Split(text, separator) = r[Len(text)]
<1> DEFINE N == Len(text)
           base == <<<<>>>>
           It == CHOOSE iter : iter =
                   [s \in SUBSET DOMAIN text |->
                      IF s = {} THEN base ELSE Cut(iter[s \ {Max(s)}], text[Max(s)], separator)]
<1>1. Split(text, separator) = It[DOMAIN text]
  BY DEF Split, FoldLeft, MapThenFoldSet, Cut
<1> HIDE DEF It
<1>2. N \in Nat /\ DOMAIN text = 1 .. N /\ text \in [1 .. N -> A]
  BY LenProperties
<1>0. base \in Pieces(A)
  <2>1. <<>> \in Seq(A)
    OBVIOUS
  <2>2. base \in Seq(Seq(A)) /\ base # <<>>
    BY <2>1
  <2> QED BY <2>2 DEF Pieces
<1> HIDE DEF N, base
<1>3. \E iter : iter = [s \in SUBSET DOMAIN text |->
                IF s = {} THEN base ELSE Cut(iter[s \ {Max(s)}], text[Max(s)], separator)]
  <2> DEFINE op == [p \in Pieces(A) \X A |-> Cut(p[1], p[2], separator)]
  <2>1. op \in [Pieces(A) \X A -> Pieces(A)]
    <3>1. ASSUME NEW p \in Pieces(A) \X A PROVE Cut(p[1], p[2], separator) \in Pieces(A)
      BY CutFits
    <3> QED BY <3>1
  <2> HIDE DEF op
  <2>2. PICK g : IsFold(g, op, base, text, N, Pieces(A))
    BY <1>0, <1>2, <2>1, FoldDefined
  <2>3. ASSUME NEW s \in SUBSET (1 .. N)
        PROVE  g[s] = IF s = {} THEN base ELSE Cut(g[s \ {Max(s)}], text[Max(s)], separator)
    <3> SUFFICES ASSUME s # {}
                 PROVE  op[<<g[s \ {Max(s)}], text[Max(s)]>>]
                        = Cut(g[s \ {Max(s)}], text[Max(s)], separator)
      BY <2>2 DEF IsFold
    <3>1. Max(s) \in 1 .. N
      BY <1>2, GreatestIndex
    <3>2. g[s \ {Max(s)}] \in Pieces(A) /\ text[Max(s)] \in A
      BY <1>2, <2>2, <3>1 DEF IsFold
    <3> QED BY <3>2 DEF op
  <2>4. g = [s \in SUBSET (1 .. N) |->
               IF s = {} THEN base ELSE Cut(g[s \ {Max(s)}], text[Max(s)], separator)]
    BY <2>2, <2>3 DEF IsFold
  <2> QED BY <1>2, <2>4
<1>4. It = [s \in SUBSET DOMAIN text |->
              IF s = {} THEN base ELSE Cut(It[s \ {Max(s)}], text[Max(s)], separator)]
  BY <1>3 DEF It
<1> DEFINE r == [k \in 0 .. N |-> It[1 .. k]]
<1>5. r[0] = base
  <2>1. 1 .. 0 = {} /\ {} \in SUBSET DOMAIN text /\ 0 \in 0 .. N
    BY <1>2
  <2> QED BY <1>4, <2>1
<1>6. ASSUME NEW k \in 0 .. N - 1 PROVE r[k + 1] = Cut(r[k], text[k + 1], separator)
  <2>1. 1 .. k + 1 \in SUBSET DOMAIN text /\ k \in Nat /\ k \in 0 .. N /\ k + 1 \in 0 .. N
    BY <1>2
  <2>2. It[1 .. k + 1]
        = Cut(It[(1 .. k + 1) \ {Max(1 .. k + 1)}], text[Max(1 .. k + 1)], separator)
    BY <1>4, <2>1, FirstIndices
  <2> QED BY <2>1, <2>2, FirstIndices
<1>7. It[DOMAIN text] = r[N]
  BY <1>2
<1> HIDE DEF r
<1> QED BY <1>1, <1>5, <1>6, <1>7 DEF N, base

(* The pieces stand in the first n symbols of the text, one after the other, with
   a separator between each and the next. *)
Laid(pieces, starts, text, n, separator) ==
    /\ starts[1] = 0
    /\ \A i \in 1 .. Len(pieces) : PartAt(pieces[i], text, starts[i])
    /\ \A i \in 1 .. Len(pieces) - 1 : /\ starts[i + 1] = starts[i] + Len(pieces[i]) + 1
                                       /\ text[starts[i + 1]] = separator
    /\ starts[Len(pieces)] + Len(pieces[Len(pieces)]) = n

(* So do they with one more symbol. *)
LEMMA CutLays ==
    ASSUME NEW A, NEW text \in Seq(A), NEW separator, NEW k \in 0 .. Len(text) - 1,
           NEW pieces \in Pieces(A), NEW starts, Laid(pieces, starts, text, k, separator)
    PROVE  \E s : Laid(Cut(pieces, text[k + 1], separator), s, text, k + 1, separator)
<1> DEFINE n    == Len(pieces)
           x    == text[k + 1]
           next == Cut(pieces, x, separator)
<1>1. Len(text) \in Nat /\ x \in A /\ k + 1 \in 1 .. Len(text) /\ k \in Nat
  BY LenProperties, ElementOfSeq
<1>2. /\ next \in Pieces(A) /\ n \in Nat \ {0}
      /\ x = separator => /\ Len(next) = n + 1 /\ next[n + 1] = <<>>
                          /\ \A i \in 1 .. n : next[i] = pieces[i]
      /\ x # separator => /\ Len(next) = n /\ next[n] = Append(pieces[n], x)
                          /\ \A i \in 1 .. n - 1 : next[i] = pieces[i]
  BY <1>1, CutFits
<1>3. \A i \in 1 .. n : PartAt(pieces[i], text, starts[i]) /\ pieces[i] \in Seq(A) /\ Len(pieces[i]) \in Nat
  <2>1. pieces \in Seq(Seq(A))
    BY DEF Pieces
  <2> QED BY <2>1, ElementOfSeq, LenProperties DEF Laid
<1>4. starts[n] + Len(pieces[n]) = k /\ n \in 1 .. n /\ starts[n] \in Nat /\ Len(pieces[n]) \in Nat
  BY <1>2, <1>3 DEF Laid, PartAt
<1> HIDE DEF next, x, n
<1>5. CASE x = separator
  <2> DEFINE s == [i \in 1 .. n + 1 |-> IF i = n + 1 THEN k + 1 ELSE starts[i]]
  <2>1. s[n + 1] = k + 1 /\ \A i \in 1 .. n : s[i] = starts[i]
    BY <1>2
  <2> HIDE DEF s
  <2>2. s[1] = 0
    BY <1>2, <2>1 DEF Laid
  <2>3. ASSUME NEW i \in 1 .. n + 1 PROVE PartAt(next[i], text, s[i])
    <3>1. CASE i = n + 1
      <4>1. next[i] = <<>> /\ s[i] = k + 1 /\ Len(<<>>) = 0
        BY <1>2, <1>5, <2>1, <3>1
      <4> QED BY <1>1, <4>1 DEF PartAt
    <3>2. CASE i # n + 1
      <4>1. i \in 1 .. n
        BY <1>2, <3>2
      <4> QED BY <1>2, <1>3, <1>5, <2>1, <4>1
    <3> QED BY <3>1, <3>2
  <2>4. ASSUME NEW i \in 1 .. n
        PROVE  s[i + 1] = s[i] + Len(next[i]) + 1 /\ text[s[i + 1]] = separator
    <3>1. CASE i = n
      <4>1. s[i + 1] = k + 1 /\ s[i] = starts[n] /\ next[i] = pieces[n]
        BY <1>2, <1>5, <2>1, <3>1
      <4> QED BY <1>4, <1>5, <4>1 DEF x
    <3>2. CASE i # n
      <4>1. i \in 1 .. n - 1 /\ i + 1 \in 1 .. n
        BY <1>2, <3>2
      <4>2. s[i + 1] = starts[i + 1] /\ s[i] = starts[i] /\ next[i] = pieces[i]
        BY <1>2, <1>5, <2>1, <4>1
      <4> QED BY <4>1, <4>2 DEF Laid, n
    <3> QED BY <3>1, <3>2
  <2>5. s[n + 1] + Len(next[n + 1]) = k + 1
    <3>1. Len(next[n + 1]) = 0
      BY <1>2, <1>5, EmptySeq
    <3> QED BY <1>1, <2>1, <3>1
  <2>6. Len(next) = n + 1 /\ (n + 1) - 1 = n
    BY <1>2, <1>5
  <2>7. Laid(next, s, text, k + 1, separator)
    BY <2>2, <2>3, <2>4, <2>5, <2>6 DEF Laid
  <2> QED BY <2>7 DEF next, x
<1>6. CASE x # separator
  <2> DEFINE p == pieces[n]
             q == Append(p, x)
  <2>1. p \in Seq(A) /\ PartAt(p, text, starts[n]) /\ next[n] = q /\ Len(next) = n
    BY <1>2, <1>3, <1>4, <1>6
  <2>2. /\ Len(q) = Len(p) + 1 /\ q[Len(p) + 1] = x
        /\ \A d \in 1 .. Len(p) : q[d] = p[d]
    BY <1>1, <2>1, AppendProperties
  <2> HIDE DEF q
  <2>3. PartAt(q, text, starts[n])
    <3>1. starts[n] + Len(q) = k + 1
      BY <1>4, <2>2
    <3>2. ASSUME NEW d \in 1 .. Len(q) PROVE text[starts[n] + d] = q[d]
      <4>1. CASE d = Len(p) + 1
        <5>1. starts[n] + d = k + 1
          BY <1>4, <4>1
        <5> QED BY <2>2, <4>1, <5>1 DEF x
      <4>2. CASE d # Len(p) + 1
        <5>1. d \in 1 .. Len(p)
          BY <1>4, <2>2, <4>2
        <5> QED BY <2>1, <2>2, <5>1 DEF PartAt
      <4> QED BY <4>1, <4>2
    <3> QED BY <1>1, <1>4, <3>1, <3>2 DEF PartAt
  <2>4. ASSUME NEW i \in 1 .. n PROVE PartAt(next[i], text, starts[i])
    <3>1. CASE i = n
      BY <2>1, <2>3, <3>1
    <3>2. CASE i # n
      <4>1. i \in 1 .. n - 1
        BY <1>2, <3>2
      <4> QED BY <1>2, <1>3, <1>6, <4>1
    <3> QED BY <3>1, <3>2
  <2>5. ASSUME NEW i \in 1 .. n - 1
        PROVE  starts[i + 1] = starts[i] + Len(next[i]) + 1 /\ text[starts[i + 1]] = separator
    <3>1. next[i] = pieces[i]
      BY <1>2, <1>6
    <3> QED BY <3>1 DEF Laid, n
  <2>6. starts[n] + Len(next[n]) = k + 1
    BY <1>4, <2>1, <2>2
  <2>7. Laid(next, starts, text, k + 1, separator)
    BY <2>1, <2>4, <2>5, <2>6 DEF Laid
  <2> QED BY <2>7 DEF next, x
<1> QED BY <1>5, <1>6

(* The pieces Split makes of a text are laid out in it. *)
LEMMA SplitLays ==
    ASSUME NEW A, NEW text \in Seq(A), NEW separator
    PROVE  /\ Split(text, separator) \in Pieces(A)
           /\ \E s : Laid(Split(text, separator), s, text, Len(text), separator)
<1> DEFINE N == Len(text)
<1>1. PICK r : /\ r[0] = <<<<>>>>
               /\ \A k \in 0 .. N - 1 : r[k + 1] = Cut(r[k], text[k + 1], separator)
               /\ Split(text, separator) = r[N]
  BY SplitRuns
<1>2. N \in Nat
  BY LenProperties
<1> DEFINE Right(k) == r[k] \in Pieces(A) /\ \E s : Laid(r[k], s, text, k, separator)
           Good == {k \in Nat : k <= N => Right(k)}
<1>3. Right(0)
  <2> DEFINE none == <<>>
             base == <<none>>
  <2>1. none \in Seq(A) /\ Len(none) = 0
    OBVIOUS
  <2>2. r[0] = base
    BY <1>1
  <2> HIDE DEF none
  <2>3. base \in Seq(Seq(A)) /\ Len(base) = 1 /\ base[1] = none
    BY ONLY <2>1
  <2>4. base \in Pieces(A)
    BY <2>3 DEF Pieces
  <2> DEFINE s == [i \in {1} |-> 0]
  <2>5. s[1] = 0
    OBVIOUS
  <2> HIDE DEF base, s
  <2>6. PartAt(base[1], text, s[1])
    BY <1>2, <2>1, <2>3, <2>5 DEF PartAt
  <2>7. Laid(base, s, text, 0, separator)
    BY <2>1, <2>3, <2>5, <2>6 DEF Laid
  <2> QED BY <2>2, <2>4, <2>7
<1>4. ASSUME NEW k \in 0 .. N - 1, Right(k) PROVE Right(k + 1)
  <2>1. PICK s : Laid(r[k], s, text, k, separator)
    BY <1>4
  <2>2. r[k] \in Pieces(A) /\ text[k + 1] \in A
    <3>1. k + 1 \in 1 .. Len(text)
      BY <1>2
    <3> QED BY <1>4, <3>1, ElementOfSeq
  <2>3. r[k + 1] = Cut(r[k], text[k + 1], separator)
    BY <1>1
  <2>4. Cut(r[k], text[k + 1], separator) \in Pieces(A)
    BY <2>2, CutFits
  <2>5. \E t : Laid(Cut(r[k], text[k + 1], separator), t, text, k + 1, separator)
    BY <2>1, <2>2, CutLays
  <2> QED BY <2>3, <2>4, <2>5
<1> HIDE DEF Right
<1>5. 0 \in Good /\ Good \in SUBSET Nat
  BY <1>3
<1>6. ASSUME NEW k \in Good PROVE k + 1 \in Good
  <2>1. k \in Nat /\ (k + 1 <= N => k \in 0 .. N - 1 /\ k <= N)
    BY <1>2
  <2> QED BY <1>4, <2>1
<1> HIDE DEF Good
<1>7. N \in Good
  BY <1>2, <1>5, <1>6, Induction
<1>8. Right(N)
  BY <1>2, <1>7 DEF Good
<1> QED BY <1>1, <1>8 DEF Right

-------------------------------------------------------------------------------
(* The last of its lines, joined again, stand in it. *)

(* What Join does with one more line. *)
Joined(acc, line) == acc \o <<Crlf>> \o line

(* out is acc, a line end and a line. *)
AsJoined(out, acc, line, A) ==
    /\ out \in Seq(A) /\ Len(out) = Len(acc) + 1 + Len(line)
    /\ \A d \in 1 .. Len(acc) : out[d] = acc[d]
    /\ out[Len(acc) + 1] = Crlf
    /\ \A d \in 1 .. Len(line) : out[Len(acc) + 1 + d] = line[d]

(* One more line leaves a text. *)
LEMMA JoinedFits ==
    ASSUME NEW A, Crlf \in A, NEW acc \in Seq(A), NEW line \in Seq(A)
    PROVE  AsJoined(Joined(acc, line), acc, line, A)
<1> DEFINE c   == Crlf
           a   == acc \o <<c>>
           out == a \o line
           n   == Len(acc)
           m   == Len(line)
<1>1. c \in A
  OBVIOUS
<1> HIDE DEF c
<1>2. <<c>> \in Seq(A) /\ Len(<<c>>) = 1 /\ <<c>>[1] = c
  BY ONLY <1>1
<1>3. n \in Nat /\ m \in Nat
  BY LenProperties
<1>4. /\ a \in Seq(A) /\ Len(a) = n + 1
      /\ \A d \in 1 .. n + 1 : a[d] = IF d <= n THEN acc[d] ELSE <<c>>[d - n]
  BY <1>2, ConcatProperties
<1> HIDE DEF a
<1>5. /\ out \in Seq(A) /\ Len(out) = (n + 1) + m
      /\ \A d \in 1 .. (n + 1) + m : out[d] = IF d <= n + 1 THEN a[d] ELSE line[d - (n + 1)]
  <2>1. a \in Seq(A) /\ line \in Seq(A)
    BY <1>4
  <2>2. /\ a \o line \in Seq(A) /\ Len(a \o line) = Len(a) + Len(line)
        /\ \A i \in 1 .. Len(a) + Len(line) :
              (a \o line)[i] = IF i <= Len(a) THEN a[i] ELSE line[i - Len(a)]
    BY ONLY <2>1, ConcatProperties
  <2>3. Len(a) = n + 1
    BY <1>4
  <2> QED BY ONLY <2>2, <2>3 DEF out, m
<1>6. out = Joined(acc, line)
  BY DEF Joined, a, c
<1> HIDE DEF out, n, m
<1>7. ASSUME NEW d \in 1 .. n PROVE out[d] = acc[d]
  <2>1. d \in 1 .. n + 1 /\ d \in 1 .. (n + 1) + m /\ d <= n /\ d <= n + 1
    BY <1>3
  <2> QED BY <1>4, <1>5, <2>1
<1>8. out[n + 1] = c
  <2>1. n + 1 \in 1 .. n + 1 /\ n + 1 \in 1 .. (n + 1) + m /\ ~(n + 1 <= n) /\ n + 1 <= n + 1 /\ (n + 1) - n = 1
    BY <1>3
  <2> QED BY <1>2, <1>4, <1>5, <2>1
<1>9. ASSUME NEW d \in 1 .. m PROVE out[n + 1 + d] = line[d]
  <2>1. (n + 1) + d \in 1 .. (n + 1) + m /\ ~((n + 1) + d <= n + 1) /\ ((n + 1) + d) - (n + 1) = d
    BY <1>3
  <2> QED BY <1>5, <2>1
<1>10. AsJoined(out, acc, line, A)
  BY <1>3, <1>5, <1>7, <1>8, <1>9 DEF AsJoined, n, m, c
<1> QED BY <1>6, <1>10

(* Lines are joined one after the other. *)
LEMMA JoinRuns ==
    ASSUME NEW A, Crlf \in A, NEW lines \in Pieces(A)
    PROVE  \E r : /\ r[0] = lines[1]
                  /\ \A k \in 0 .. Len(lines) - 2 : r[k + 1] = Joined(r[k], lines[k + 2])
                  /\ Join(lines) = r[Len(lines) - 1]
<1> DEFINE rest == Tail(lines)
           N    == Len(rest)
           base == lines[1]
           It == CHOOSE iter : iter =
                   [s \in SUBSET DOMAIN rest |->
                      IF s = {} THEN base ELSE Joined(iter[s \ {Max(s)}], rest[Max(s)])]
<1>0. lines \in Seq(Seq(A)) /\ lines # <<>>
  BY DEF Pieces
<1>1. Join(lines) = It[DOMAIN rest]
  BY <1>0 DEF Join, FoldLeft, MapThenFoldSet, Joined
<1> HIDE DEF It
<1>2. /\ rest \in Seq(Seq(A)) /\ N = Len(lines) - 1 /\ \A i \in 1 .. N : rest[i] = lines[i + 1]
      /\ base \in Seq(A)
  <2>1. Len(lines) \in Nat \ {0} /\ 1 \in 1 .. Len(lines)
    BY <1>0, EmptySeq
  <2> QED BY <1>0, <2>1, HeadTailProperties, ElementOfSeq
<1> HIDE DEF rest, base
<1>3. N \in Nat /\ DOMAIN rest = 1 .. N /\ rest \in [1 .. N -> Seq(A)]
  BY <1>2, LenProperties
<1> HIDE DEF N
<1>4. \E iter : iter = [s \in SUBSET DOMAIN rest |->
                IF s = {} THEN base ELSE Joined(iter[s \ {Max(s)}], rest[Max(s)])]
  <2> DEFINE op == [p \in Seq(A) \X Seq(A) |-> Joined(p[1], p[2])]
  <2>1. op \in [Seq(A) \X Seq(A) -> Seq(A)]
    <3>1. ASSUME NEW p \in Seq(A) \X Seq(A) PROVE Joined(p[1], p[2]) \in Seq(A)
      BY JoinedFits DEF AsJoined
    <3> QED BY <3>1
  <2> HIDE DEF op
  <2>2. PICK g : IsFold(g, op, base, rest, N, Seq(A))
    BY <1>2, <1>3, <2>1, FoldDefined
  <2>3. ASSUME NEW s \in SUBSET (1 .. N)
        PROVE  g[s] = IF s = {} THEN base ELSE Joined(g[s \ {Max(s)}], rest[Max(s)])
    <3> SUFFICES ASSUME s # {}
                 PROVE  op[<<g[s \ {Max(s)}], rest[Max(s)]>>] = Joined(g[s \ {Max(s)}], rest[Max(s)])
      BY <2>2 DEF IsFold
    <3>1. Max(s) \in 1 .. N
      BY <1>3, GreatestIndex
    <3>2. g[s \ {Max(s)}] \in Seq(A) /\ rest[Max(s)] \in Seq(A)
      BY <1>3, <2>2, <3>1 DEF IsFold
    <3> QED BY <3>2 DEF op
  <2>4. g = [s \in SUBSET (1 .. N) |->
               IF s = {} THEN base ELSE Joined(g[s \ {Max(s)}], rest[Max(s)])]
    BY <2>2, <2>3 DEF IsFold
  <2> QED BY <1>3, <2>4
<1>5. It = [s \in SUBSET DOMAIN rest |->
              IF s = {} THEN base ELSE Joined(It[s \ {Max(s)}], rest[Max(s)])]
  BY <1>4 DEF It
<1> DEFINE r == [k \in 0 .. N |-> It[1 .. k]]
<1>6. r[0] = base
  <2>1. 1 .. 0 = {} /\ {} \in SUBSET DOMAIN rest /\ 0 \in 0 .. N
    BY <1>3
  <2> QED BY <1>5, <2>1
<1>7. ASSUME NEW k \in 0 .. N - 1 PROVE r[k + 1] = Joined(r[k], rest[k + 1])
  <2>1. 1 .. k + 1 \in SUBSET DOMAIN rest /\ k \in Nat /\ k \in 0 .. N /\ k + 1 \in 0 .. N
    BY <1>3
  <2>2. It[1 .. k + 1] = Joined(It[(1 .. k + 1) \ {Max(1 .. k + 1)}], rest[Max(1 .. k + 1)])
    BY <1>5, <2>1, FirstIndices
  <2> QED BY <2>1, <2>2, FirstIndices
<1>8. It[DOMAIN rest] = r[N]
  BY <1>3
<1> HIDE DEF r
<1>9. ASSUME NEW k \in 0 .. Len(lines) - 2 PROVE r[k + 1] = Joined(r[k], lines[k + 2])
  <2>1. Len(lines) - 2 = N - 1 /\ k + 1 \in 1 .. N /\ (k + 1) + 1 = k + 2
    <3>1. Len(lines) \in Nat
      BY <1>0, LenProperties
    <3> QED BY <1>2, <3>1
  <2> QED BY <1>2, <1>7, <2>1
<1> QED BY <1>1, <1>2, <1>6, <1>8, <1>9 DEF base

(* The last lines, joined, stand where the first of them begins. *)
LEMMA JoinStands ==
    ASSUME NEW A, Crlf \in A, NEW text \in Seq(A), NEW pieces \in Pieces(A), NEW starts,
           Laid(pieces, starts, text, Len(text), Crlf), NEW b \in 1 .. Len(pieces)
    PROVE  LET out == Join(SubSeq(pieces, b, Len(pieces)))
           IN  out \in Seq(A) /\ PartAt(out, text, starts[b])
<1> DEFINE N     == Len(pieces)
           lines == SubSeq(pieces, b, N)
           M     == N - b
<1>1. pieces \in Seq(Seq(A)) /\ N \in Nat /\ Len(text) \in Nat /\ M \in Nat
  BY LenProperties DEF Pieces
<1>2. /\ lines \in Seq(Seq(A)) /\ Len(lines) = M + 1
      /\ \A d \in 1 .. M + 1 : lines[d] = pieces[(b - 1) + d]
  <2>1. b \in 1 .. Len(pieces) + 1 /\ Len(pieces) \in b - 1 .. Len(pieces) /\ N - b + 1 = M + 1
    BY <1>1
  <2>2. /\ SubSeq(pieces, b, Len(pieces)) \in Seq(Seq(A))
        /\ Len(SubSeq(pieces, b, Len(pieces))) = Len(pieces) - b + 1
        /\ PartAt(SubSeq(pieces, b, Len(pieces)), pieces, b - 1)
    BY <1>1, <2>1, PieceStands
  <2> QED BY <2>1, <2>2 DEF PartAt
<1> HIDE DEF lines
<1>3. lines \in Pieces(A)
  BY <1>1, <1>2, EmptySeq DEF Pieces
<1>4. PICK r : /\ r[0] = lines[1]
               /\ \A k \in 0 .. Len(lines) - 2 : r[k + 1] = Joined(r[k], lines[k + 2])
               /\ Join(lines) = r[Len(lines) - 1]
  BY <1>3, JoinRuns
<1>5. ASSUME NEW i \in 1 .. N
      PROVE  pieces[i] \in Seq(A) /\ PartAt(pieces[i], text, starts[i]) /\ starts[i] \in Nat
             /\ Len(pieces[i]) \in Nat
  BY <1>1, ElementOfSeq, LenProperties DEF Laid, PartAt
<1> DEFINE Right(k) == /\ r[k] \in Seq(A) /\ PartAt(r[k], text, starts[b])
                       /\ starts[b] + Len(r[k]) = starts[b + k] + Len(pieces[b + k])
           Good == {k \in Nat : k <= M => Right(k)}
<1>6. Right(0)
  <2>1. 1 \in 1 .. M + 1 /\ (b - 1) + 1 = b /\ b + 0 = b
    BY <1>1
  <2>2. r[0] = pieces[b]
    BY <1>2, <1>4, <2>1
  <2> QED BY <1>5, <2>1, <2>2
<1>7. ASSUME NEW k \in 0 .. M - 1, Right(k) PROVE Right(k + 1)
  <2> DEFINE line == pieces[b + k + 1]
             acc  == r[k]
             out  == Joined(acc, line)
             o    == starts[b]
  <2>1. /\ b + k \in 1 .. N - 1 /\ b + k \in 1 .. N /\ b + k + 1 \in 1 .. N /\ (b + k) + 1 = b + k + 1
        /\ k + 2 \in 1 .. M + 1 /\ (b - 1) + (k + 2) = b + k + 1 /\ k \in 0 .. Len(lines) - 2
        /\ b + (k + 1) = b + k + 1
    <3>1. /\ b \in 1 .. N /\ k \in 0 .. M - 1 /\ M = N - b /\ N \in Nat /\ M \in Nat
          /\ Len(lines) = M + 1
      BY <1>1, <1>2
    <3> HIDE DEF N, M
    <3> QED BY ONLY <3>1
  <2>2. r[k + 1] = out
    BY <1>2, <1>4, <2>1
  <2>3. /\ line \in Seq(A) /\ PartAt(line, text, starts[b + k + 1]) /\ starts[b + k + 1] \in Nat
        /\ Len(line) \in Nat
    BY <1>5, <2>1
  <2>4. /\ starts[b + k + 1] = (starts[b + k] + Len(pieces[b + k])) + 1
        /\ text[starts[b + k + 1]] = Crlf
    BY <2>1 DEF Laid
  <2>5. /\ acc \in Seq(A) /\ PartAt(acc, text, o) /\ o \in Nat /\ Len(acc) \in Nat
        /\ o + Len(acc) = starts[b + k] + Len(pieces[b + k])
    BY <1>5, <1>7, LenProperties
  <2>6. starts[b + k + 1] = (o + Len(acc)) + 1
    BY <2>4, <2>5
  <2> HIDE DEF acc, line, o
  <2>7. /\ out \in Seq(A) /\ Len(out) = Len(acc) + 1 + Len(line)
        /\ \A d \in 1 .. Len(acc) : out[d] = acc[d]
        /\ out[Len(acc) + 1] = Crlf
        /\ \A d \in 1 .. Len(line) : out[Len(acc) + 1 + d] = line[d]
    <3>1. acc \in Seq(A) /\ line \in Seq(A) /\ Crlf \in A
      BY <2>3, <2>5
    <3>2. AsJoined(out, acc, line, A)
      BY ONLY <3>1, JoinedFits DEF out
    <3> HIDE DEF out
    <3> QED BY <3>2 DEF AsJoined
  <2> HIDE DEF out
  <2>8. o + Len(out) = starts[b + k + 1] + Len(line)
    BY <2>3, <2>5, <2>6, <2>7
  <2>9. o + Len(out) <= Len(text)
    BY <2>3, <2>8 DEF PartAt
  <2>10. ASSUME NEW d \in 1 .. Len(out) PROVE text[o + d] = out[d]
    <3>1. CASE d <= Len(acc)
      <4>1. d \in 1 .. Len(acc)
        BY <2>5, <3>1
      <4> QED BY <2>5, <2>7, <4>1 DEF PartAt
    <3>2. CASE d = Len(acc) + 1
      <4>1. o + d = starts[b + k + 1]
        BY <2>5, <2>6, <3>2
      <4> QED BY <2>4, <2>7, <3>2, <4>1
    <3>3. CASE d > Len(acc) + 1
      <4> DEFINE i == d - (Len(acc) + 1)
      <4>1. i \in 1 .. Len(line) /\ Len(acc) + 1 + i = d /\ starts[b + k + 1] + i = o + d
        BY <2>3, <2>5, <2>6, <2>7, <3>3
      <4> HIDE DEF i
      <4>2. text[starts[b + k + 1] + i] = line[i]
        BY <2>3, <4>1 DEF PartAt
      <4> QED BY <2>7, <4>1, <4>2
    <3>4. d \in Int /\ Len(acc) \in Int
      BY <2>5, <2>7
    <3> QED BY <3>1, <3>2, <3>3, <3>4
  <2>11. PartAt(out, text, o)
    BY <2>5, <2>9, <2>10 DEF PartAt
  <2> QED BY <2>1, <2>2, <2>7, <2>8, <2>11 DEF o, line
<1> HIDE DEF Right
<1>8. 0 \in Good /\ Good \in SUBSET Nat
  BY <1>6
<1>9. ASSUME NEW k \in Good PROVE k + 1 \in Good
  <2>1. k \in Nat /\ (k + 1 <= M => k \in 0 .. M - 1 /\ k <= M)
    BY <1>1
  <2> QED BY <1>7, <2>1
<1> HIDE DEF Good
<1>10. M \in Good
  BY <1>1, <1>8, <1>9, Induction
<1>11. Right(M)
  BY <1>1, <1>10 DEF Good
<1>12. Len(lines) - 1 = M
  BY <1>1, <1>2
<1> QED BY <1>4, <1>11, <1>12 DEF Right, lines

-------------------------------------------------------------------------------
(* So do the parts of a request that a context is made of. *)

(* p is a text that stands somewhere in text. *)
StandsIn(p, text, A) == p \in Seq(A) /\ \E o : PartAt(p, text, o)

(* What stands in a piece of a text stands in the text. *)
LEMMA StandsInPart ==
    ASSUME NEW A, NEW text \in Seq(A), NEW p, StandsIn(p, text, A), NEW q, StandsIn(q, p, A)
    PROVE  StandsIn(q, text, A)
<1>1. PICK o : PartAt(p, text, o)
  BY DEF StandsIn
<1>2. PICK n : PartAt(q, p, n)
  BY DEF StandsIn
<1>3. p \in Seq(A) /\ q \in Seq(A)
  BY DEF StandsIn
<1>4. PartAt(q, text, o + n)
  BY <1>1, <1>2, <1>3, PartOfPart
<1> QED BY <1>3, <1>4 DEF StandsIn

(* The name and the value of a header line are pieces of it. *)
LEMMA HeaderLine ==
    ASSUME NEW A, NEW l \in Seq(A), Occurs(<<Colon>>, l)
    PROVE  LET at == FirstPlace(<<Colon>>, l)
           IN  SubSeq(l, 1, at - 1) \in Seq(A) /\ StandsIn(SubSeq(l, at + 1, Len(l)), l, A)
<1> DEFINE at == FirstPlace(<<Colon>>, l)
<1>1. at \in 1 .. Len(l) /\ Len(l) \in Nat
  <2>1. at \in Places(<<Colon>>, l)
    BY FirstIs
  <2>2. Len(<<Colon>>) = 1 /\ Len(l) \in Nat
    BY LenProperties
  <2> QED BY <2>1, <2>2 DEF Places
<1> HIDE DEF at
<1>2. 1 \in 1 .. Len(l) + 1 /\ at - 1 \in 1 - 1 .. Len(l)
  BY <1>1
<1>3. SubSeq(l, 1, at - 1) \in Seq(A)
  BY ONLY <1>2, PieceStands, l \in Seq(A)
<1>4. at + 1 \in 1 .. Len(l) + 1 /\ Len(l) \in (at + 1) - 1 .. Len(l)
  BY <1>1
<1>5. /\ SubSeq(l, at + 1, Len(l)) \in Seq(A)
      /\ PartAt(SubSeq(l, at + 1, Len(l)), l, (at + 1) - 1)
  BY ONLY <1>4, PieceStands, l \in Seq(A)
<1> QED BY <1>3, <1>5 DEF StandsIn, at

(* The names of the headers are texts, and a value stands in one of the lines. *)
LEMMA HeadersStand ==
    ASSUME NEW A, NEW text \in Seq(A), NEW lines \in Seq(Seq(A)),
           \A i \in DOMAIN lines : StandsIn(lines[i], text, A),
           NEW k \in DOMAIN HeadersOf(lines)
    PROVE  k \in Seq(A) /\ StandsIn(HeadersOf(lines)[k], text, A)
<1> DEFINE at(l)  == FirstPlace(<<Colon>>, l)
           key(l) == SubSeq(l, 1, at(l) - 1)
           val(l) == SubSeq(l, at(l) + 1, Len(l))
           header == {i \in DOMAIN lines : Occurs(<<Colon>>, lines[i])}
           ofk    == {i \in header : key(lines[i]) = k}
           H      == HeadersOf(lines)
<1>1. H = [n \in {key(lines[i]) : i \in header} |->
              val(lines[Max({i \in header : key(lines[i]) = n})])]
  BY DEF HeadersOf
<1>2. ofk # {} /\ H[k] = val(lines[Max(ofk)])
  BY <1>1
<1>3. DOMAIN lines = 1 .. Len(lines) /\ Len(lines) \in Nat
  BY LenProperties
<1>4. ofk \in SUBSET (1 .. Len(lines))
  BY <1>3
<1> DEFINE m == Max(ofk)
<1>5. m \in ofk
  <2> HIDE DEF ofk
  <2> QED BY <1>2, <1>3, <1>4, GreatestIndex
<1> HIDE DEF H
<1>6. m \in DOMAIN lines /\ Occurs(<<Colon>>, lines[m]) /\ key(lines[m]) = k
  BY <1>5
<1> HIDE DEF m, ofk
<1> DEFINE l == lines[m]
<1>7. l \in Seq(A) /\ StandsIn(l, text, A) /\ Occurs(<<Colon>>, l) /\ key(l) = k /\ H[k] = val(l)
  BY <1>2, <1>3, <1>6, ElementOfSeq DEF m
<1> HIDE DEF l
<1>8. key(l) \in Seq(A) /\ StandsIn(val(l), l, A)
  BY ONLY <1>7, HeaderLine
<1> HIDE DEF key, val
<1>9. StandsIn(H[k], text, A)
  BY <1>7, <1>8, StandsInPart
<1> QED BY <1>7, <1>8, <1>9 DEF H

(* The header values and the body of a request stand in it. *)
LEMMA ParseParts ==
    ASSUME NEW A, Crlf \in A, NEW raw \in Seq(A), Parse(raw).parsed
    PROVE  LET request == Parse(raw)
           IN  /\ \A k \in DOMAIN request.headers :
                     k \in Seq(A) /\ StandsIn(request.headers[k], raw, A)
               /\ StandsIn(request.body, raw, A)
<1> DEFINE lines  == Split(raw, Crlf)
           N      == Len(lines)
           blanks == {i \in 2 .. N : lines[i] = <<>>}
           bodyAt == IF blanks = {} THEN N + 1 ELSE Min(blanks) + 1
           last   == IF blanks = {} THEN N ELSE bodyAt - 2
           heads  == SubSeq(lines, 2, last)
           end    == SubSeq(lines, bodyAt, N)
           req    == Split(lines[1], Blank)
           R      == Parse(raw)
<1>1. N >= 2 /\ R.headers = HeadersOf(heads) /\ R.body = Join(end)
  <2>1. R = IF N < 2 \/ Len(req) < 2 THEN Unparsed
            ELSE [parsed  |-> TRUE,
                  method  |-> req[1],
                  url     |-> req[2],
                  host    |-> IF <<"Host">> \in DOMAIN HeadersOf(heads)
                              THEN HeadersOf(heads)[<<"Host">>] ELSE <<>>,
                  headers |-> HeadersOf(heads),
                  body    |-> Join(end)]
    BY DEF Parse
  <2>2. ~Unparsed.parsed
    BY DEF Unparsed
  <2>3. ~(N < 2 \/ Len(req) < 2)
    BY <2>1, <2>2
  <2>4. lines \in Seq(Seq(A))
    BY SplitLays DEF Pieces
  <2>5. N \in Nat
    BY <2>4, LenProperties
  <2> HIDE DEF lines, N, heads, end, req, R
  <2>6. N >= 2
    BY <2>3, <2>5
  <2> QED BY <2>1, <2>3, <2>6
<1>2. PICK s : Laid(lines, s, raw, Len(raw), Crlf)
  BY SplitLays
<1>3. lines \in Pieces(A)
  BY SplitLays
<1> HIDE DEF lines, R
<1>4. lines \in Seq(Seq(A)) /\ N \in Nat
  BY <1>3, LenProperties DEF Pieces
<1>5. ASSUME NEW i \in 1 .. N PROVE lines[i] \in Seq(A) /\ PartAt(lines[i], raw, s[i])
  BY <1>2, <1>4, ElementOfSeq DEF Laid
<1>6. bodyAt \in 3 .. N + 1 /\ last \in 1 .. N
  <2>1. CASE blanks = {}
    BY <1>1, <1>4, <2>1
  <2>2. CASE blanks # {}
    <3>1. blanks \in SUBSET Nat /\ blanks \in SUBSET (2 .. N)
      BY <1>4
    <3> HIDE DEF blanks
    <3>2. Min(blanks) \in 2 .. N
      BY <2>2, <3>1, LeastIndex
    <3>3. bodyAt = Min(blanks) + 1 /\ last = bodyAt - 2
      BY <2>2
    <3> QED BY <1>4, <3>2, <3>3
  <2> QED BY <2>1, <2>2
<1> HIDE DEF N, bodyAt, last, blanks
<1>7. ASSUME NEW k \in DOMAIN R.headers
      PROVE  k \in Seq(A) /\ StandsIn(R.headers[k], raw, A)
  <2>1. 2 \in 1 .. Len(lines) + 1 /\ last \in 2 - 1 .. Len(lines)
    BY <1>1, <1>4, <1>6 DEF N
  <2>2. heads \in Seq(Seq(A)) /\ Len(heads) = last - 2 + 1 /\ PartAt(heads, lines, 2 - 1)
    BY <1>4, <2>1, PieceStands
  <2> HIDE DEF heads
  <2>3. ASSUME NEW i \in DOMAIN heads PROVE StandsIn(heads[i], raw, A)
    <3>1. i \in 1 .. Len(heads)
      BY <2>2, LenProperties
    <3>2. heads[i] = lines[(2 - 1) + i]
      BY <2>2, <3>1 DEF PartAt
    <3>3. (2 - 1) + i \in 1 .. N
      BY <1>4, <1>6, <2>2, <3>1
    <3> QED BY <1>5, <3>2, <3>3 DEF StandsIn
  <2>4. k \in DOMAIN HeadersOf(heads)
    BY <1>1
  <2>5. k \in Seq(A) /\ StandsIn(HeadersOf(heads)[k], raw, A)
    BY <2>2, <2>3, <2>4, HeadersStand
  <2> QED BY <1>1, <2>5
<1>8. StandsIn(R.body, raw, A)
  <2>1. CASE bodyAt = N + 1
    <3>1. end = <<>>
      BY <1>4, <2>1 DEF N
    <3>2. R.body = <<>>
      BY <1>1, <3>1 DEF Join
    <3>3. PartAt(<<>>, raw, 0)
      BY LenProperties DEF PartAt
    <3> QED BY <3>2, <3>3 DEF StandsIn
  <2>2. CASE bodyAt \in 1 .. N
    <3>1. bodyAt \in 1 .. Len(lines)
      BY <2>2 DEF N
    <3>2. Join(end) \in Seq(A) /\ PartAt(Join(end), raw, s[bodyAt])
      BY <1>2, <1>3, <3>1, JoinStands DEF N
    <3> QED BY <1>1, <3>2 DEF StandsIn
  <2> QED BY <1>4, <1>6, <2>1, <2>2
<1> QED BY <1>7, <1>8 DEF R

-------------------------------------------------------------------------------
(* Contexts. *)

(* value is shown by what a context prints as it is: the request line, the Host
   header, or a header in whose name the value begins. *)
ShownAsIs(value, request) ==
    \/ Occurs(value, request.method \o <<Blank>> \o request.url)
    \/ Occurs(value, request.host)
    \/ \E k \in DOMAIN request.headers : BeginsInName(value, k, request.headers[k])

(* The context of a network event shows a value only where the request has it
   twice, or in what is printed as it is. *)
LEMMA NetworkShows ==
    ASSUME NEW A, {Hash[1], Withheld[1], Crlf, Colon} \subseteq A, NEW content \in Seq(A),
           NEW value \in Seq(A), value # <<>>,
           \A d \in DOMAIN value : value[d] # Hash[1] /\ value[d] # Withheld[1],
           NEW p \in NetworkContext(content, value), Occurs(value, p)
    PROVE  Twice(value, content) \/ (Parse(content).parsed /\ ShownAsIs(value, Parse(content)))
<1> DEFINE request == Parse(content)
<1>1. CASE ~request.parsed
  <2>1. p \in Around(content, value, Window)
    BY <1>1 DEF NetworkContext
  <2>2. Hash[1] \in A /\ (\A d \in DOMAIN value : value[d] # Hash[1]) /\ Window \in Nat
    BY WindowsAssumption
  <2>3. Twice(value, content)
    BY <2>1, <2>2, AroundShows
  <2> QED BY <2>3
<1>2. CASE request.parsed
  <2>1. /\ \A k \in DOMAIN request.headers :
              k \in Seq(A) /\ StandsIn(request.headers[k], content, A)
        /\ StandsIn(request.body, content, A)
    BY <1>2, ParseParts
  <2> HIDE DEF request
  <2>2. \/ p \in {request.host, request.method \o <<Blank>> \o request.url}
        \/ \E k \in DOMAIN request.headers : p = HeaderPiece(k, request.headers[k], value)
        \/ p \in Around(request.body, value, BodyWindow)
    BY <1>2 DEF NetworkContext, request
  <2>3. CASE p \in {request.host, request.method \o <<Blank>> \o request.url}
    BY <1>2, <2>3 DEF ShownAsIs, request
  <2>4. ASSUME NEW q, StandsIn(q, content, A), Twice(value, q)
        PROVE  Twice(value, content)
    BY <2>4, PartTwice DEF StandsIn
  <2>5. ASSUME NEW k \in DOMAIN request.headers,
               p = HeaderPiece(k, request.headers[k], value)
        PROVE  Twice(value, content) \/ ShownAsIs(value, request)
    <3> DEFINE val == request.headers[k]
    <3>1. k \in Seq(A) /\ StandsIn(val, content, A) /\ val \in Seq(A)
      BY <2>1 DEF StandsIn
    <3>2. Occurs(value, HeaderPiece(k, val, value))
      BY <2>5
    <3> HIDE DEF val
    <3>3. Hash[1] \in A /\ Withheld[1] \in A /\ Colon \in A
      OBVIOUS
    <3>4. Twice(value, val) \/ BeginsInName(value, k, val)
      BY <3>1, <3>2, <3>3, HeaderShows
    <3> QED BY <2>4, <3>1, <3>4 DEF ShownAsIs, val
  <2>6. CASE p \in Around(request.body, value, BodyWindow)
    <3> DEFINE body == request.body
    <3>1. StandsIn(body, content, A) /\ body \in Seq(A) /\ p \in Around(body, value, BodyWindow)
      BY <2>1, <2>6 DEF StandsIn
    <3> HIDE DEF body
    <3>2. Hash[1] \in A /\ (\A d \in DOMAIN value : value[d] # Hash[1]) /\ BodyWindow \in Nat
      BY WindowsAssumption
    <3>3. Twice(value, body)
      BY <3>1, <3>2, AroundShows
    <3> QED BY <2>4, <3>1, <3>3
  <2> QED BY <1>2, <2>2, <2>3, <2>5, <2>6 DEF request
<1> QED BY <1>1, <1>2

(* So it is with the context of any event. *)
THEOREM ContextShows ==
    ASSUME NEW A, {Hash[1], Withheld[1], Crlf, Colon} \subseteq A,
           NEW e, e.content \in Seq(A), e.secret.value \in Seq(A), e.secret.value # <<>>,
           \A d \in DOMAIN e.secret.value :
              e.secret.value[d] # Hash[1] /\ e.secret.value[d] # Withheld[1],
           NEW p \in Context(e), Occurs(e.secret.value, p)
    PROVE  \/ Cardinality(Places(e.secret.value, e.content)) > 1
           \/ /\ e.channel = "network" /\ Parse(e.content).parsed
              /\ ShownAsIs(e.secret.value, Parse(e.content))
<1> DEFINE content == e.content
           value   == e.secret.value
<1>1. /\ content \in Seq(A) /\ value \in Seq(A) /\ value # <<>> /\ Occurs(value, p)
      /\ \A d \in DOMAIN value : value[d] # Hash[1] /\ value[d] # Withheld[1]
  OBVIOUS
<1>2. p \in IF e.channel = "network" THEN NetworkContext(content, value)
            ELSE Around(content, value, Window)
  BY DEF Context
<1> HIDE DEF content, value
<1>3. Twice(value, content) => Cardinality(Places(value, content)) > 1
  BY <1>1, TwiceCounts
<1>4. CASE e.channel = "network"
  <2>1. p \in NetworkContext(content, value)
    BY <1>2, <1>4
  <2>2. Twice(value, content) \/ (Parse(content).parsed /\ ShownAsIs(value, Parse(content)))
    BY <1>1, <2>1, NetworkShows
  <2> QED BY <1>3, <1>4, <2>2 DEF content, value
<1>5. CASE e.channel # "network"
  <2>1. p \in Around(content, value, Window)
    BY <1>2, <1>5
  <2>2. Hash[1] \in A /\ (\A d \in DOMAIN value : value[d] # Hash[1]) /\ Window \in Nat
    BY <1>1, WindowsAssumption
  <2>3. Twice(value, content)
    BY <1>1, <2>1, <2>2, AroundShows
  <2> QED BY <1>3, <2>3 DEF content, value
<1> QED BY <1>4, <1>5
===============================================================================
