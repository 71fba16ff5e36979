---------------------------- MODULE HostFsProofs ----------------------------
(***************************************************************************)
(* Proofs about HostFs, for any tree on the host, any names and any paths  *)
(* the program writes: the tree stays a tree, the host file system         *)
(* implements the store of files, the position in guest memory is right    *)
(* after a call that succeeds, no names are made that differ in case only, *)
(* and a path is found by what it denotes.                                 *)
(***************************************************************************)
EXTENDS HostFs, TLAPS, FiniteSetTheorems, SequenceTheorems

\* A prefix agrees with what it is a prefix of, place by place.
LEMMA Prefix ==
  ASSUME NEW p \in Seq(Name), NEW x \in Seq(Name)
  PROVE  IsPrefix(p, x) <=> Len(p) <= Len(x) /\ \A i \in 1 .. Len(p) : p[i] = x[i]
<1>1. Len(p) \in Nat /\ Len(x) \in Nat
  BY LenProperties
<1>2. SubSeq(p, 1, Len(p)) = p
  BY SubSeqFull
<1>3. ASSUME Len(p) <= Len(x)
      PROVE  /\ SubSeq(x, 1, Len(p)) \in Seq(Name) /\ Len(SubSeq(x, 1, Len(p))) = Len(p)
             /\ \A i \in 1 .. Len(p) : SubSeq(x, 1, Len(p))[i] = x[i]
  <2>1. \A i \in 1 .. Len(p) : x[i] \in Name
    BY <1>1, <1>3, ElementOfSeq
  <2> QED BY <1>1, <2>1, SubSeqProperties
<1>4. ASSUME Len(p) <= Len(x), \A i \in 1 .. Len(p) : p[i] = x[i]
      PROVE  SubSeq(x, 1, Len(p)) = p
  <2> DEFINE y == SubSeq(x, 1, Len(p))
  <2>1. y \in Seq(Name) /\ Len(y) = Len(p) /\ \A i \in 1 .. Len(y) : y[i] = p[i]
    BY <1>3, <1>4
  <2> HIDE DEF y
  <2>2. y = p
    BY <2>1, SeqEqual
  <2> QED BY <2>2 DEF y
<1> QED BY <1>1, <1>2, <1>3, <1>4 DEF IsPrefix

\* The first k names of a path.
LEMMA Initial ==
  ASSUME NEW x \in Seq(Name), NEW k \in 0 .. Len(x)
  PROVE  /\ SubSeq(x, 1, k) \in Seq(Name) /\ Len(SubSeq(x, 1, k)) = k
         /\ \A i \in 1 .. k : SubSeq(x, 1, k)[i] = x[i]
<1>1. Len(x) \in Nat /\ \A i \in 1 .. k : x[i] \in Name
  BY LenProperties, ElementOfSeq
<1> QED BY <1>1, SubSeqProperties

\* What is below p put below q.
LEMMA Spliced ==
  ASSUME NEW p \in Seq(Name), NEW q \in Seq(Name), NEW x \in Seq(Name), IsPrefix(p, x)
  PROVE  LET y == q \o SubSeq(x, Len(p) + 1, Len(x))
         IN  /\ y \in Seq(Name) /\ Len(y) = Len(q) + (Len(x) - Len(p))
             /\ \A i \in 1 .. Len(q) : y[i] = q[i]
             /\ \A i \in Len(q) + 1 .. Len(y) : y[i] = x[(i - Len(q)) + Len(p)]
<1> DEFINE u == SubSeq(x, Len(p) + 1, Len(x))
           y == q \o u
<1>1. Len(p) \in Nat /\ Len(q) \in Nat /\ Len(x) \in Nat /\ Len(p) <= Len(x)
  BY LenProperties, Prefix
<1>2. /\ u \in Seq(Name) /\ Len(u) = Len(x) - Len(p)
      /\ \A i \in 1 .. Len(x) - Len(p) : u[i] = x[i + Len(p)]
  <2>1. \A i \in Len(p) + 1 .. Len(x) : x[i] \in Name
    BY <1>1, ElementOfSeq
  <2>2. /\ u \in Seq(Name)
        /\ Len(u) = IF Len(p) + 1 <= Len(x) THEN Len(x) - (Len(p) + 1) + 1 ELSE 0
        /\ \A i \in 1 .. Len(x) - (Len(p) + 1) + 1 : u[i] = x[Len(p) + 1 + i - 1]
    <3>1. Len(p) + 1 \in Int /\ Len(x) \in Int
      BY <1>1
    <3> QED BY <2>1, <3>1, SubSeqProperties
  <2>3. Len(u) = Len(x) - Len(p)
    BY <1>1, <2>2
  <2>4. ASSUME NEW i \in 1 .. Len(x) - Len(p) PROVE u[i] = x[i + Len(p)]
    <3>1. Len(x) - (Len(p) + 1) + 1 = Len(x) - Len(p) /\ Len(p) + 1 + i - 1 = i + Len(p)
      BY <1>1
    <3> QED BY <2>2, <3>1
  <2> QED BY <2>2, <2>3, <2>4
<1> HIDE DEF u
<1>3. /\ y \in Seq(Name) /\ Len(y) = Len(q) + Len(u)
      /\ \A i \in 1 .. Len(q) + Len(u) : y[i] = IF i <= Len(q) THEN q[i] ELSE u[i - Len(q)]
  <2>1. \A v \in Seq(Name) :
          /\ q \o v \in Seq(Name) /\ Len(q \o v) = Len(q) + Len(v)
          /\ \A i \in 1 .. Len(q) + Len(v) : (q \o v)[i] = IF i <= Len(q) THEN q[i] ELSE v[i - Len(q)]
    BY ConcatProperties
  <2> QED BY <1>2, <2>1, Zenon
<1> HIDE DEF y
<1>4. ASSUME NEW i \in 1 .. Len(q) PROVE y[i] = q[i]
  <2>1. i \in 1 .. Len(q) + Len(u) /\ i <= Len(q)
    BY <1>1, <1>2
  <2> QED BY <1>3, <2>1
<1>5. ASSUME NEW i \in Len(q) + 1 .. Len(y) PROVE y[i] = x[(i - Len(q)) + Len(p)]
  <2>1. i \in 1 .. Len(q) + Len(u) /\ ~ (i <= Len(q)) /\ i - Len(q) \in 1 .. Len(x) - Len(p)
    BY <1>1, <1>2, <1>3
  <2> QED BY <1>2, <1>3, <2>1
<1> QED BY <1>2, <1>3, <1>4, <1>5 DEF y, u
-----------------------------------------------------------------------------
(***************************************************************************)
(* Trees                                                                   *)
(***************************************************************************)
\* Above a path are its proper prefixes but the root.
LEMMA AbovePrefix ==
  ASSUME NEW p \in Seq(Name), NEW q
  PROVE  q \in Above(p) <=> q \in Seq(Name) \ {Root} /\ IsPrefix(q, p) /\ Len(q) < Len(p)
<1>1. Len(p) \in Nat
  BY LenProperties
<1>2. ASSUME q \in Above(p)
      PROVE  q \in Seq(Name) \ {Root} /\ IsPrefix(q, p) /\ Len(q) < Len(p)
  <2>1. PICK k \in 1 .. Len(p) - 1 : q = SubSeq(p, 1, k)
    BY <1>2 DEF Above
  <2>2. k \in 0 .. Len(p) /\ k # 0 /\ k < Len(p)
    BY <1>1
  <2>3. q \in Seq(Name) /\ Len(q) = k /\ \A i \in 1 .. k : q[i] = p[i]
    BY <2>1, <2>2, Initial
  <2>4. q # Root
    BY <2>2, <2>3, EmptySeq DEF Root
  <2>5. IsPrefix(q, p)
    BY <1>1, <2>2, <2>3, Prefix
  <2> QED BY <2>2, <2>3, <2>4, <2>5
<1>3. ASSUME q \in Seq(Name) \ {Root}, IsPrefix(q, p), Len(q) < Len(p)
      PROVE  q \in Above(p)
  <2>1. Len(q) \in 1 .. Len(p) - 1
    BY <1>1, <1>3, EmptySeq DEF Root
  <2>2. SubSeq(p, 1, Len(q)) = q
    BY <1>3, SubSeqFull DEF IsPrefix
  <2> QED BY <2>1, <2>2 DEF Above
<1> QED BY <1>2, <1>3

\* A tree that the host can hold.
Fits(t) ==
  /\ WellFormed(t) /\ \A p \in DOMAIN t : t[p] \in Inodes \union {Dir}
  /\ IsFiniteSet(DOMAIN t) /\ Cardinality(DOMAIN t) <= MaxNodes

\* With a new entry, whose directory is there, or an old one as it is, a tree
\* is still one.
LEMMA NewEntry ==
  ASSUME NEW t, Fits(t), NEW p \in Seq(Name) \ {Root}, NEW i \in Inodes \union {Dir},
         \A q \in Above(p) : IsDir(t, q),
         p \in DOMAIN t => t[p] = i /\ i # Dir,
         p \notin DOMAIN t => i \notin Named(t) /\ Cardinality(DOMAIN t) < MaxNodes
  PROVE  /\ Fits(With(t, p, i))
         /\ Named(With(t, p, i)) = Named(t) \union ({i} \ {Dir})
<1> DEFINE n == With(t, p, i)
<1>1. DOMAIN n = DOMAIN t \union {p} /\ n[p] = i /\ \A q \in DOMAIN t : n[q] = t[q]
  BY DEF With
<1> HIDE DEF n
<1>2. \A q : IsDir(t, q) => IsDir(n, q)
  BY <1>1 DEF IsDir
<1>3. WellFormed(n)
  <2>1. DOMAIN n \subseteq Seq(Name) \ {Root}
    BY <1>1 DEF Fits, WellFormed
  <2>2. \A q \in DOMAIN n : \A a \in Above(q) : IsDir(n, a)
    BY <1>1, <1>2 DEF Fits, WellFormed
  <2>3. ASSUME NEW q \in DOMAIN n, NEW r \in DOMAIN n, n[q] = n[r], n[q] # Dir
        PROVE  q = r
    <3>1. CASE q \in DOMAIN t /\ r \in DOMAIN t
      BY <2>3, <3>1, <1>1 DEF Fits, WellFormed
    <3>2. CASE q = p /\ r = p
      BY <3>2
    <3>3. CASE p \notin DOMAIN t /\ q \in DOMAIN t /\ r = p
      BY <3>3, <2>3, <1>1 DEF Named
    <3>4. CASE p \notin DOMAIN t /\ r \in DOMAIN t /\ q = p
      BY <3>4, <2>3, <1>1 DEF Named
    <3> QED BY <3>1, <3>2, <3>3, <3>4, <1>1
  <2> QED BY <2>1, <2>2, <2>3 DEF WellFormed
<1>4. IsFiniteSet(DOMAIN n) /\ Cardinality(DOMAIN n) <= MaxNodes
  <2>1. /\ IsFiniteSet(DOMAIN t \union {p})
        /\ Cardinality(DOMAIN t \union {p}) =
             IF p \in DOMAIN t THEN Cardinality(DOMAIN t) ELSE Cardinality(DOMAIN t) + 1
    BY FS_AddElement DEF Fits
  <2>2. Cardinality(DOMAIN t) \in Nat /\ MaxNodes \in Nat
    BY FS_CardinalityType, HostFsAssumption DEF Fits
  <2> QED BY <1>1, <2>1, <2>2 DEF Fits
<1>5. \A q \in DOMAIN n : n[q] \in Inodes \union {Dir}
  BY <1>1 DEF Fits
<1>6. Named(n) = Named(t) \union ({i} \ {Dir})
  BY <1>1 DEF Named
<1> QED BY <1>3, <1>4, <1>5, <1>6 DEF n, Fits

\* Without one of its files it is one, too.
LEMMA GoneEntry ==
  ASSUME NEW t, Fits(t), NEW p \in DOMAIN t, t[p] # Dir
  PROVE  /\ Fits(Without(t, p))
         /\ Named(Without(t, p)) = Named(t) \ {t[p]}
<1> DEFINE n == Without(t, p)
<1>1. DOMAIN n = DOMAIN t \ {p} /\ \A q \in DOMAIN t \ {p} : n[q] = t[q]
  BY DEF Without
<1> HIDE DEF n
<1>2. \A q : IsDir(t, q) => IsDir(n, q)
  BY <1>1 DEF IsDir
<1>3. WellFormed(n)
  <2>1. DOMAIN n \subseteq Seq(Name) \ {Root}
    BY <1>1 DEF Fits, WellFormed
  <2>2. \A q \in DOMAIN n : \A a \in Above(q) : IsDir(n, a)
    BY <1>1, <1>2 DEF Fits, WellFormed
  <2>3. \A q, r \in DOMAIN n : n[q] = n[r] => q = r \/ n[q] = Dir
    BY <1>1 DEF Fits, WellFormed
  <2> QED BY <2>1, <2>2, <2>3 DEF WellFormed
<1>4. IsFiniteSet(DOMAIN n) /\ Cardinality(DOMAIN n) <= MaxNodes
  <2>1. IsFiniteSet(DOMAIN n) /\ Cardinality(DOMAIN n) <= Cardinality(DOMAIN t)
    BY <1>1, FS_Subset DEF Fits
  <2>2. Cardinality(DOMAIN t) \in Nat /\ Cardinality(DOMAIN n) \in Nat /\ MaxNodes \in Nat
    BY <2>1, FS_CardinalityType, HostFsAssumption DEF Fits
  <2> QED BY <2>1, <2>2 DEF Fits
<1>5. \A q \in DOMAIN n : n[q] \in Inodes \union {Dir}
  BY <1>1 DEF Fits
<1>6. Named(n) = Named(t) \ {t[p]}
  <2>1. \A q \in DOMAIN t : t[q] = t[p] => q = p
    BY DEF Fits, WellFormed
  <2> QED BY <1>1, <2>1 DEF Named
<1> QED BY <1>3, <1>4, <1>5, <1>6 DEF n, Fits
-----------------------------------------------------------------------------
(***************************************************************************)
(* Renaming                                                                *)
(***************************************************************************)
\* Where a path below p, or p, is when p has become q.
Onto(x, p, q) == q \o SubSeq(x, Len(p) + 1, Len(x))

\* Moving it back undoes it.
LEMMA MovedPath ==
  ASSUME NEW p \in Seq(Name), NEW q \in Seq(Name), NEW x \in Seq(Name), IsPrefix(p, x)
  PROVE  /\ Onto(x, p, q) \in Seq(Name) /\ Len(Onto(x, p, q)) = Len(q) + (Len(x) - Len(p))
         /\ \A i \in 1 .. Len(q) : Onto(x, p, q)[i] = q[i]
         /\ \A i \in Len(q) + 1 .. Len(Onto(x, p, q)) : Onto(x, p, q)[i] = x[(i - Len(q)) + Len(p)]
         /\ IsPrefix(q, Onto(x, p, q))
         /\ Onto(Onto(x, p, q), q, p) = x
<1> DEFINE y == Onto(x, p, q)
           z == Onto(y, q, p)
<1>0. Len(p) \in Nat /\ Len(q) \in Nat /\ Len(x) \in Nat /\ Len(p) <= Len(x)
  BY LenProperties, Prefix
<1>1. /\ y \in Seq(Name) /\ Len(y) = Len(q) + (Len(x) - Len(p))
      /\ \A i \in 1 .. Len(q) : y[i] = q[i]
      /\ \A i \in Len(q) + 1 .. Len(y) : y[i] = x[(i - Len(q)) + Len(p)]
  BY Spliced DEF Onto
<1> HIDE DEF y
<1>2. IsPrefix(q, y)
  BY <1>0, <1>1, Prefix
<1>3. /\ z \in Seq(Name) /\ Len(z) = Len(p) + (Len(y) - Len(q))
      /\ \A i \in 1 .. Len(p) : z[i] = p[i]
      /\ \A i \in Len(p) + 1 .. Len(z) : z[i] = y[(i - Len(p)) + Len(q)]
  BY <1>1, <1>2, Spliced DEF Onto
<1> HIDE DEF z
<1>4. Len(z) = Len(x)
  BY <1>0, <1>1, <1>3
<1>5. ASSUME NEW i \in 1 .. Len(z) PROVE z[i] = x[i]
  <2>1. CASE i <= Len(p)
    BY <2>1, <1>0, <1>3, Prefix
  <2>2. CASE i > Len(p)
    <3>1. i \in Len(p) + 1 .. Len(z) /\ (i - Len(p)) + Len(q) \in Len(q) + 1 .. Len(y)
      BY <2>2, <1>0, <1>1, <1>3
    <3>2. (((i - Len(p)) + Len(q)) - Len(q)) + Len(p) = i
      BY <1>0, <3>1
    <3>3. y[(i - Len(p)) + Len(q)] = x[i]
      BY <1>1, <3>1, <3>2
    <3> QED BY <1>3, <3>1, <3>3
  <2> QED BY <2>1, <2>2, <1>0
<1>6. z = x
  BY <1>3, <1>4, <1>5, SeqEqual
<1> QED BY <1>1, <1>2, <1>6 DEF y, z

\* What is above a moved path, from q on, was above it before.
LEMMA MovedAbove ==
  ASSUME NEW p \in Seq(Name), NEW q \in Seq(Name), NEW x \in Seq(Name), IsPrefix(p, x),
         NEW a \in Seq(Name), IsPrefix(q, a), IsPrefix(a, Onto(x, p, q))
  PROVE  /\ Onto(a, q, p) \in Seq(Name) /\ IsPrefix(p, Onto(a, q, p))
         /\ IsPrefix(Onto(a, q, p), x) /\ Onto(Onto(a, q, p), p, q) = a
         /\ Len(a) < Len(Onto(x, p, q)) => Len(Onto(a, q, p)) < Len(x)
<1> DEFINE y == Onto(x, p, q)
           b == Onto(a, q, p)
<1>0. Len(p) \in Nat /\ Len(q) \in Nat /\ Len(x) \in Nat /\ Len(a) \in Nat /\ Len(p) <= Len(x) /\ Len(q) <= Len(a)
  BY LenProperties, Prefix
<1>1. /\ y \in Seq(Name) /\ Len(y) = Len(q) + (Len(x) - Len(p))
      /\ \A i \in Len(q) + 1 .. Len(y) : y[i] = x[(i - Len(q)) + Len(p)]
  BY MovedPath
<1> HIDE DEF y
<1>2. /\ b \in Seq(Name) /\ Len(b) = Len(p) + (Len(a) - Len(q))
      /\ \A i \in 1 .. Len(p) : b[i] = p[i]
      /\ \A i \in Len(p) + 1 .. Len(b) : b[i] = a[(i - Len(p)) + Len(q)]
      /\ IsPrefix(p, b) /\ Onto(b, p, q) = a
  BY MovedPath
<1> HIDE DEF b
<1>3. Len(a) <= Len(y) /\ \A i \in 1 .. Len(a) : a[i] = y[i]
  BY <1>1, Prefix DEF y
<1>4. Len(b) <= Len(x) /\ (Len(a) < Len(y) => Len(b) < Len(x))
  BY <1>0, <1>1, <1>2, <1>3
<1>5. ASSUME NEW i \in 1 .. Len(b) PROVE b[i] = x[i]
  <2>1. CASE i <= Len(p)
    BY <2>1, <1>0, <1>2, Prefix
  <2>2. CASE i > Len(p)
    <3>1. /\ i \in Len(p) + 1 .. Len(b)
          /\ (i - Len(p)) + Len(q) \in Len(q) + 1 .. Len(y) /\ (i - Len(p)) + Len(q) \in 1 .. Len(a)
      BY <2>2, <1>0, <1>1, <1>2, <1>3
    <3>2. (((i - Len(p)) + Len(q)) - Len(q)) + Len(p) = i
      BY <1>0, <3>1
    <3>3. y[(i - Len(p)) + Len(q)] = x[i]
      BY <1>1, <3>1, <3>2
    <3> QED BY <1>2, <1>3, <3>1, <3>3
  <2> QED BY <2>1, <2>2, <1>0, <1>2
<1>6. IsPrefix(b, x)
  BY <1>2, <1>4, <1>5, Prefix
<1> QED BY <1>2, <1>4, <1>6 DEF b, y

\* The root is above all.
LEMMA PrefixRoot ==
  ASSUME NEW a \in Seq(Name)
  PROVE  IsPrefix(Root, a) /\ IsPrefix(a, a)
<1>1. Root \in Seq(Name) /\ Len(Root) = 0 /\ Len(a) \in Nat
  BY EmptySeq, LenProperties DEF Root
<1>2. Len(Root) <= Len(a) /\ \A i \in 1 .. Len(Root) : Root[i] = a[i]
  BY <1>1
<1>3. IsPrefix(Root, a)
  BY <1>1, <1>2, Prefix
<1>4. IsPrefix(a, a)
  BY <1>1, Prefix
<1> QED BY <1>3, <1>4

\* A prefix is shorter or the same.
LEMMA PrefixStrict ==
  ASSUME NEW a \in Seq(Name), NEW b \in Seq(Name), IsPrefix(a, b)
  PROVE  /\ Len(a) \in Nat /\ Len(b) \in Nat
         /\ IF Len(a) = Len(b) THEN a = b ELSE Len(a) < Len(b)
<1>1. Len(a) \in Nat /\ Len(b) \in Nat
  BY LenProperties
<1>2. Len(a) <= Len(b) /\ \A i \in 1 .. Len(a) : a[i] = b[i]
  BY Prefix
<1>3. Len(a) = Len(b) => a = b
  BY <1>2, SeqEqual
<1> QED BY <1>1, <1>2, <1>3

\* Prefixes of prefixes are prefixes.
LEMMA PrefixTrans ==
  ASSUME NEW a \in Seq(Name), NEW b \in Seq(Name), NEW x \in Seq(Name),
         IsPrefix(a, b), IsPrefix(b, x)
  PROVE  IsPrefix(a, x)
<1>1. Len(a) \in Nat /\ Len(b) \in Nat /\ Len(x) \in Nat
  BY LenProperties
<1>2. Len(a) <= Len(b) /\ \A i \in 1 .. Len(a) : a[i] = b[i]
  BY Prefix
<1>3. Len(b) <= Len(x) /\ \A i \in 1 .. Len(b) : b[i] = x[i]
  BY Prefix
<1>4. Len(a) <= Len(x) /\ \A i \in 1 .. Len(a) : a[i] = x[i]
  BY <1>1, <1>2, <1>3
<1> QED BY <1>4, Prefix

\* The prefixes of a path are prefixes of one another.
LEMMA PrefixChain ==
  ASSUME NEW a \in Seq(Name), NEW b \in Seq(Name), NEW x \in Seq(Name),
         IsPrefix(a, x), IsPrefix(b, x), Len(a) <= Len(b)
  PROVE  IsPrefix(a, b)
<1>1. Len(a) \in Nat /\ Len(b) \in Nat /\ Len(x) \in Nat
  BY LenProperties
<1>2. Len(a) <= Len(x) /\ \A i \in 1 .. Len(a) : a[i] = x[i]
  BY Prefix
<1>3. Len(b) <= Len(x) /\ \A i \in 1 .. Len(b) : b[i] = x[i]
  BY Prefix
<1>4. \A i \in 1 .. Len(a) : a[i] = b[i]
  BY <1>1, <1>2, <1>3
<1> QED BY <1>4, Prefix

\* When a rename is carried out: nothing is below the target, which is of the
\* same kind as the source if it is there at all.
LEMMA RenamingOk ==
  ASSUME NEW t, Fits(t), NEW p \in Seq(Name), NEW q \in Seq(Name),
         Renaming(t, p, q) = "ok", p # q
  PROVE  /\ p \in DOMAIN t /\ p # Root /\ q # Root
         /\ ~ IsPrefix(p, q) /\ ~ IsPrefix(q, p)
         /\ \A a \in Above(q) : IsDir(t, a)
         /\ \A x \in DOMAIN t : IsPrefix(q, x) => x = q
         /\ q \in DOMAIN t => (t[q] = Dir <=> t[p] = Dir)
<1>1. /\ Reach(t, q) = "ok" /\ Exists(t, p) /\ ~ IsPrefix(p, q) /\ ~ IsPrefix(q, p)
      /\ ~ (Exists(t, q) /\ IsDir(t, p) # IsDir(t, q))
      /\ ~ (IsDir(t, q) /\ Entries(t, q) # {})
  BY SMT DEF Renaming
<1>2. p # Root /\ q # Root
  BY <1>1, PrefixRoot
<1>3. \A a \in Above(q) : IsDir(t, a)
  BY <1>1 DEF Reach
<1>4. ASSUME NEW x \in DOMAIN t, IsPrefix(q, x), x # q
      PROVE  FALSE
  <2>0. x \in Seq(Name) \ {Root}
    BY DEF Fits, WellFormed
  <2>1. Len(q) < Len(x) /\ Len(q) \in Nat /\ Len(x) \in Nat
    BY <2>0, <1>4, PrefixStrict
  <2>2. q \in Above(x)
    BY <2>0, <2>1, <1>2, <1>4, AbovePrefix
  <2>3. IsDir(t, q)
    BY <2>2 DEF Fits, WellFormed
  <2> DEFINE n == x[Len(q) + 1]
             y == Append(q, n)
  <2>4. n \in Name
    <3>1. Len(q) + 1 \in 1 .. Len(x)
      BY <2>1
    <3> QED BY <2>0, <3>1, ElementOfSeq
  <2>5. /\ y \in Seq(Name) /\ Len(y) = Len(q) + 1
        /\ \A i \in 1 .. Len(q) : y[i] = q[i]
        /\ y[Len(q) + 1] = n
    BY <2>4, AppendProperties
  <2> HIDE DEF y
  <2>6. \A i \in 1 .. Len(y) : y[i] = x[i]
    <3>1. \A i \in 1 .. Len(q) : q[i] = x[i]
      BY <2>0, <1>4, Prefix
    <3> QED BY <2>1, <2>5, <3>1
  <2>7. IsPrefix(y, x)
    BY <2>0, <2>1, <2>5, <2>6, Prefix
  <2>8. y \in DOMAIN t
    <3>1. CASE y = x
      BY <3>1
    <3>2. CASE y # x
      <4>1. y # Root
        BY <2>1, <2>5, EmptySeq DEF Root
      <4>2. y \in Above(x)
        <5>1. Len(y) < Len(x)
          BY <3>2, <2>0, <2>5, <2>7, PrefixStrict
        <5> QED BY <5>1, <4>1, <2>0, <2>5, <2>7, AbovePrefix
      <4>3. IsDir(t, y)
        BY <4>2 DEF Fits, WellFormed
      <4> QED BY <4>1, <4>3 DEF IsDir
    <3> QED BY <3>1, <3>2
  <2>9. n \in Entries(t, q)
    BY <2>4, <2>8 DEF Entries, y
  <2> QED BY <2>3, <2>9, <1>1
<1>5. p \in DOMAIN t
  BY <1>1, <1>2 DEF Exists
<1>6. q \in DOMAIN t => (t[q] = Dir <=> t[p] = Dir)
  BY <1>1, <1>2, <1>5, Zenon DEF IsDir, Exists
<1> QED BY <1>1, <1>2, <1>3, <1>4, <1>5, <1>6

\* An entry that p's renaming to q leaves alone, and one that it moves from r to x.
Stays(t, p, q, x) == x \in DOMAIN t /\ x # q /\ ~ IsPrefix(p, x)
Moves(t, p, q, x, r) ==
  /\ r \in DOMAIN t /\ IsPrefix(p, r)
  /\ x = Onto(r, p, q) /\ r = Onto(x, q, p) /\ x \in Seq(Name) /\ IsPrefix(q, x)

\* Every entry after the renaming comes from one before, from a different one
\* each, and only that of q is lost.
LEMMA RenamedOrigins ==
  ASSUME NEW t, Fits(t), NEW p \in Seq(Name), NEW q \in Seq(Name),
         Renaming(t, p, q) = "ok", p # q,
         NEW n, n = Renamed(t, p, q)
  PROVE  \E O \in [DOMAIN n -> DOMAIN t \ {q}] :
           /\ \A x \in DOMAIN n : /\ n[x] = t[O[x]]
                                  /\ \/ Stays(t, p, q, x) /\ O[x] = x
                                     \/ Moves(t, p, q, x, O[x])
           /\ \A x, y \in DOMAIN n : O[x] = O[y] => x = y
           /\ \A r \in DOMAIN t \ {q} : /\ \E x \in DOMAIN n : O[x] = r
                                        /\ Stays(t, p, q, r) => r \in DOMAIN n
                                        /\ IsPrefix(p, r) => Onto(r, p, q) \in DOMAIN n
<1>0. /\ p \in DOMAIN t /\ ~ IsPrefix(p, q) /\ ~ IsPrefix(q, p)
      /\ \A x \in DOMAIN t : IsPrefix(q, x) => x = q
      /\ DOMAIN t \subseteq Seq(Name)
  BY RenamingOk DEF Fits, WellFormed
<1> DEFINE stay  == {r \in DOMAIN t : ~ IsPrefix(p, r) /\ r # q}
           moved == {r \in DOMAIN t : IsPrefix(p, r)}
           D     == stay \union {Onto(r, p, q) : r \in moved}
           O     == [x \in D |-> IF x \in stay THEN x ELSE Onto(x, q, p)]
<1>1. n = [x \in D |-> IF x \in stay THEN t[x] ELSE t[Onto(x, q, p)]]
  BY Zenon DEF Renamed, Onto
<1>2. ASSUME NEW x \in stay
      PROVE  Stays(t, p, q, x)
  BY DEF Stays
<1>3. ASSUME NEW r \in moved
      PROVE  Moves(t, p, q, Onto(r, p, q), r) /\ Onto(r, p, q) \notin stay /\ r # q
  <2>1. r \in Seq(Name) /\ IsPrefix(p, r) /\ r \in DOMAIN t
    BY <1>0
  <2>2. /\ Onto(r, p, q) \in Seq(Name) /\ IsPrefix(q, Onto(r, p, q))
        /\ Onto(Onto(r, p, q), q, p) = r
    BY <2>1, MovedPath
  <2>3. Onto(r, p, q) \notin stay
    BY <2>2, <1>0
  <2> QED BY <2>1, <2>2, <2>3, <1>0 DEF Moves
<1> HIDE DEF stay, moved
<1>4. ASSUME NEW x \in D
      PROVE  /\ O[x] \in DOMAIN t \ {q} /\ n[x] = t[O[x]]
             /\ IF x \in stay THEN Stays(t, p, q, x) /\ O[x] = x ELSE Moves(t, p, q, x, O[x])
  <2>1. CASE x \in stay
    <3>1. O[x] = x /\ n[x] = t[x]
      BY <2>1, <1>1
    <3> QED BY <2>1, <3>1, <1>2 DEF Stays
  <2>2. CASE x \notin stay
    <3>1. PICK r \in moved : x = Onto(r, p, q)
      BY <2>2
    <3>2. O[x] = Onto(x, q, p) /\ n[x] = t[Onto(x, q, p)]
      BY <2>2, <1>1
    <3>3. Moves(t, p, q, x, r) /\ r # q
      BY <3>1, <1>3
    <3>4. O[x] = r
      BY <3>2, <3>3 DEF Moves
    <3> QED BY <2>2, <3>2, <3>3, <3>4 DEF Moves
  <2> QED BY <2>1, <2>2
<1>5. DOMAIN n = D
  BY <1>1
<1>6. ASSUME NEW r \in DOMAIN t \ {q}
      PROVE  /\ \E x \in D : O[x] = r
             /\ Stays(t, p, q, r) => r \in D
             /\ IsPrefix(p, r) => Onto(r, p, q) \in D
  <2>1. CASE IsPrefix(p, r)
    <3>1. r \in moved
      BY <2>1 DEF moved
    <3>2. Onto(r, p, q) \in D /\ Onto(r, p, q) \notin stay
      BY <3>1, <1>3
    <3>3. O[Onto(r, p, q)] = r
      <4>1. O[Onto(r, p, q)] = Onto(Onto(r, p, q), q, p)
        BY <3>2
      <4> QED BY <4>1, <3>1, <1>3 DEF Moves
    <3> QED BY <2>1, <3>2, <3>3 DEF Stays
  <2>2. CASE ~ IsPrefix(p, r)
    <3>1. r \in stay
      BY <2>2 DEF stay
    <3>2. r \in D /\ O[r] = r
      BY <3>1
    <3> QED BY <2>2, <3>2
  <2> QED BY <2>1, <2>2
<1>7. ASSUME NEW x \in D, NEW y \in D, O[x] = O[y]
      PROVE  x = y
  <2>1. CASE x \in stay /\ y \in stay
    BY <2>1, <1>4, <1>7
  <2>2. CASE x \notin stay /\ y \notin stay
    <3>1. x = Onto(O[x], p, q) /\ y = Onto(O[y], p, q)
      BY <2>2, <1>4 DEF Moves
    <3> QED BY <3>1, <1>7
  <2>3. ASSUME NEW v \in D, NEW w \in D, v \in stay, w \notin stay, O[v] = O[w]
        PROVE  FALSE
    BY <2>3, <1>4 DEF Stays, Moves
  <2> QED BY <2>1, <2>2, <2>3, <1>7
<1> HIDE DEF D
<1>8. O \in [D -> DOMAIN t \ {q}]
  BY <1>4
<1> HIDE DEF O
<1>9. \A x \in D : n[x] = t[O[x]] /\ ((Stays(t, p, q, x) /\ O[x] = x) \/ Moves(t, p, q, x, O[x]))
  BY <1>4
<1>10. O \in [DOMAIN n -> DOMAIN t \ {q}]
  BY <1>5, <1>8
<1> WITNESS O \in [DOMAIN n -> DOMAIN t \ {q}]
<1> QED BY <1>5, <1>6, <1>7, <1>9

\* So what is renamed leaves a tree, and takes its name from q's file only.
LEMMA RenamedFits ==
  ASSUME NEW t, Fits(t), NEW p \in Seq(Name), NEW q \in Seq(Name),
         Renaming(t, p, q) = "ok", p # q
  PROVE  /\ Fits(Renamed(t, p, q))
         /\ Named(Renamed(t, p, q)) = IF IsFile(t, q) THEN Named(t) \ {t[q]} ELSE Named(t)
<1> DEFINE n == Renamed(t, p, q)
<1>0. /\ p \in DOMAIN t /\ p # Root /\ q # Root /\ ~ IsPrefix(p, q) /\ ~ IsPrefix(q, p)
      /\ \A a \in Above(q) : IsDir(t, a)
      /\ \A x \in DOMAIN t : IsPrefix(q, x) => x = q
      /\ q \in DOMAIN t => (t[q] = Dir <=> t[p] = Dir)
      /\ DOMAIN t \subseteq Seq(Name) \ {Root}
  BY RenamingOk DEF Fits, WellFormed
<1>1. PICK O \in [DOMAIN n -> DOMAIN t \ {q}] :
           /\ \A x \in DOMAIN n : /\ n[x] = t[O[x]]
                                  /\ \/ Stays(t, p, q, x) /\ O[x] = x
                                     \/ Moves(t, p, q, x, O[x])
           /\ \A x, y \in DOMAIN n : O[x] = O[y] => x = y
           /\ \A r \in DOMAIN t \ {q} : /\ \E x \in DOMAIN n : O[x] = r
                                        /\ Stays(t, p, q, r) => r \in DOMAIN n
                                        /\ IsPrefix(p, r) => Onto(r, p, q) \in DOMAIN n
  BY RenamedOrigins
<1> HIDE DEF n
<1>2. \A x \in DOMAIN n : O[x] \in DOMAIN t /\ O[x] # q
  BY <1>1
<1>3. DOMAIN n \subseteq Seq(Name) \ {Root}
  <2> SUFFICES ASSUME NEW x \in DOMAIN n PROVE x \in Seq(Name) \ {Root}
    OBVIOUS
  <2>1. CASE Stays(t, p, q, x)
    BY <2>1, <1>0 DEF Stays
  <2>2. CASE Moves(t, p, q, x, O[x])
    <3>1. x \in Seq(Name) /\ IsPrefix(q, x)
      BY <2>2 DEF Moves
    <3>2. x # Root
      <4>1. ~ IsPrefix(q, Root)
        <5>1. Root \in Seq(Name) /\ Len(Root) = 0 /\ Len(q) \in Nat \ {0}
          BY <1>0, EmptySeq DEF Root
        <5>2. IsPrefix(q, Root) => Len(q) <= Len(Root)
          BY <5>1, Prefix
        <5> QED BY <5>1, <5>2
      <4> QED BY <3>1, <4>1
    <3> QED BY <3>1, <3>2
  <2> QED BY <1>1, <2>1, <2>2
\* A directory that stays where it is is one still.
<1>4. ASSUME NEW a, IsDir(t, a), a = Root \/ Stays(t, p, q, a)
      PROVE  IsDir(n, a)
  <2>1. CASE a = Root
    BY <2>1 DEF IsDir
  <2>2. CASE a # Root
    <3>1. a \in DOMAIN t \ {q} /\ t[a] = Dir /\ ~ IsPrefix(p, a) /\ Stays(t, p, q, a)
      BY <2>2, <1>4 DEF Stays, IsDir
    <3>2. a \in DOMAIN n
      BY <1>1, <3>1
    <3>3. O[a] = a
      BY <1>1, <3>1, <3>2 DEF Moves, Stays
    <3> QED BY <1>1, <3>1, <3>2, <3>3 DEF IsDir
  <2> QED BY <2>1, <2>2
<1>5. ASSUME NEW x \in DOMAIN n, NEW a \in Above(x)
      PROVE  IsDir(n, a)
  <2>0. x \in Seq(Name) /\ a \in Seq(Name) \ {Root} /\ IsPrefix(a, x) /\ Len(a) < Len(x)
    BY <1>3, AbovePrefix
  <2>1. CASE Stays(t, p, q, x)
    <3>1. IsDir(t, a)
      BY <2>1 DEF Stays, Fits, WellFormed
    <3>2. ~ IsPrefix(p, a)
      BY <2>0, <2>1, PrefixTrans DEF Stays
    <3>3. a # q
      BY <2>0, <2>1, <1>0 DEF Stays
    <3>4. a \in DOMAIN t
      BY <2>0, <3>1 DEF IsDir
    <3> QED BY <3>1, <3>2, <3>3, <3>4, <1>4 DEF Stays
  <2>2. CASE Moves(t, p, q, x, O[x])
    <3> DEFINE r == O[x]
    <3>0. r \in DOMAIN t /\ r \in Seq(Name) /\ IsPrefix(p, r) /\ x = Onto(r, p, q) /\ IsPrefix(q, x)
      BY <2>2, <1>0 DEF Moves
    <3> HIDE DEF r
    <3>1. CASE Len(a) < Len(q)
      <4>1. IsPrefix(a, q)
        BY <2>0, <3>0, <3>1, PrefixChain, PrefixStrict
      <4>2. a \in Above(q)
        BY <4>1, <3>1, <2>0, AbovePrefix
      <4>3. ~ IsPrefix(p, a)
        BY <4>1, <2>0, <1>0, PrefixTrans
      <4>4. IsDir(t, a) /\ a # q
        BY <4>2, <3>1, <1>0, LenProperties
      <4>5. a \in DOMAIN t
        BY <2>0, <4>4 DEF IsDir
      <4> QED BY <4>3, <4>4, <4>5, <1>4 DEF Stays
    <3>2. CASE ~ (Len(a) < Len(q))
      <4>1. IsPrefix(q, a)
        <5>1. Len(q) <= Len(a)
          BY <2>0, <3>2, LenProperties
        <5> QED BY <5>1, <2>0, <3>0, PrefixChain
      <4> DEFINE b == Onto(a, q, p)
      <4>2. /\ b \in Seq(Name) /\ IsPrefix(p, b) /\ IsPrefix(b, r) /\ Onto(b, p, q) = a
            /\ Len(b) < Len(r)
        BY <4>1, <3>0, <2>0, MovedAbove
      <4> HIDE DEF b
      <4>3. b # Root
        <5>1. Len(p) \in Nat \ {0} /\ Len(p) <= Len(b)
          BY <1>0, <4>2, PrefixStrict, EmptySeq DEF Root
        <5> QED BY <5>1, EmptySeq DEF Root
      <4>4. b \in Above(r)
        BY <4>2, <4>3, <3>0, AbovePrefix
      <4>5. b \in DOMAIN t /\ t[b] = Dir
        BY <3>0, <4>3, <4>4 DEF Fits, WellFormed, IsDir
      <4>6. b # q
        BY <4>2, <1>0
      <4>7. a \in DOMAIN n
        BY <4>2, <4>5, <4>6, <1>1
      <4>8. O[a] = b
        <5>1. ~ Stays(t, p, q, a)
          BY <4>1, <1>0 DEF Stays
        <5>2. O[a] = Onto(a, q, p)
          BY <5>1, <4>7, <1>1 DEF Moves
        <5> QED BY <5>2 DEF b
      <4> QED BY <4>5, <4>7, <4>8, <1>1 DEF IsDir
    <3> QED BY <3>1, <3>2
  <2> QED BY <1>1, <2>1, <2>2
<1>6. \A x, y \in DOMAIN n : n[x] = n[y] => x = y \/ n[x] = Dir
  BY <1>1, <1>2 DEF Fits, WellFormed
<1>7. WellFormed(n)
  BY <1>3, <1>5, <1>6 DEF WellFormed
<1>8. IsFiniteSet(DOMAIN n) /\ Cardinality(DOMAIN n) <= MaxNodes
  <2>1. O \in Injection(DOMAIN n, DOMAIN t)
    <3>1. O \in [DOMAIN n -> DOMAIN t]
      BY <1>1, <1>2
    <3> QED BY <3>1, <1>1 DEF Injection, IsInjective
  <2>2. IsFiniteSet(DOMAIN n) /\ Cardinality(DOMAIN n) <= Cardinality(DOMAIN t)
    BY <2>1, FS_Injection DEF Fits
  <2>3. Cardinality(DOMAIN t) \in Nat /\ Cardinality(DOMAIN n) \in Nat /\ MaxNodes \in Nat
    BY <2>2, FS_CardinalityType, HostFsAssumption DEF Fits
  <2> QED BY <2>2, <2>3 DEF Fits
<1>9. \A x \in DOMAIN n : n[x] \in Inodes \union {Dir}
  BY <1>1, <1>2 DEF Fits
<1>10. Named(n) = {t[r] : r \in DOMAIN t \ {q}} \ {Dir}
  BY <1>1, <1>2 DEF Named
<1>11. Named(n) = IF IsFile(t, q) THEN Named(t) \ {t[q]} ELSE Named(t)
  <2>1. CASE IsFile(t, q)
    <3>1. q \in DOMAIN t /\ t[q] # Dir
      BY <2>1 DEF IsFile, Exists, IsDir
    <3>2. \A r \in DOMAIN t : t[r] = t[q] => r = q
      BY <3>1 DEF Fits, WellFormed
    <3> QED BY <1>10, <2>1, <3>1, <3>2 DEF Named
  <2>2. CASE ~ IsFile(t, q)
    <3>1. q \in DOMAIN t => t[q] = Dir
      BY <2>2, <1>0 DEF IsFile, Exists, IsDir
    <3> QED BY <1>10, <2>2, <3>1 DEF Named
  <2> QED BY <2>1, <2>2
<1> QED BY <1>7, <1>8, <1>9, <1>11 DEF Fits, n
-----------------------------------------------------------------------------
(***************************************************************************)
(* Paths as the program writes them                                        *)
(***************************************************************************)
\* A set of numbers that is not empty has a least element.
LEMMA Least ==
  ASSUME NEW S \in SUBSET Nat, S # {}
  PROVE  \E v \in S : \A w \in S : v <= w
<1> DEFINE R == OpToRel(<, Nat)
<1>1. PICK v \in S : \A w \in S : ~ (<<w, v>> \in R)
  <2> HIDE DEF R
  <2>1. IsWellFoundedOn(R, Nat)
    BY NatLessThanWellFounded DEF R
  <2> QED BY <2>1, WFMin
<1>2. \A w \in S : v <= w
  <2> SUFFICES ASSUME NEW w \in S PROVE ~ (w < v)
    OBVIOUS
  <2>1. v \in Nat /\ w \in Nat
    OBVIOUS
  <2>2. w < v => <<w, v>> \in R
    BY <2>1, Zenon DEF OpToRel
  <2> QED BY <1>1, <2>2
<1> QED BY <1>2

\* mos_path_join is defined by recursion over the fragments: f solves its
\* equation up to the n-th.
Follows(f, t, c, s, n) ==
  f = [k \in 0 .. n |-> IF k = 0 THEN Start(c, s) ELSE Push(t, f[k - 1], s[k])]

\* There is a solution, as there is no least n without one.
LEMMA Followed ==
  ASSUME NEW t, NEW c, NEW s, NEW n \in Nat
  PROVE  \E f : Follows(f, t, c, s, n)
<1> DEFINE T == {m \in Nat : ~ \E f : Follows(f, t, c, s, m)}
<1>1. T = {}
  <2> SUFFICES ASSUME T # {} PROVE FALSE
    OBVIOUS
  <2>1. PICK m \in T : \A k \in T : m <= k
    <3>1. T \in SUBSET Nat
      OBVIOUS
    <3> HIDE DEF T
    <3> QED BY <3>1, Least
  <2>2. m \in Nat /\ ~ \E f : Follows(f, t, c, s, m)
    OBVIOUS
  <2>3. CASE m = 0
    <3> DEFINE f == [k \in 0 .. m |-> Start(c, s)]
               g == [k \in 0 .. m |-> IF k = 0 THEN Start(c, s) ELSE Push(t, f[k - 1], s[k])]
    <3>1. f = g
      <4>1. ASSUME NEW k \in 0 .. m PROVE k = 0
        BY <2>3
      <4> QED BY <4>1
    <3>2. Follows(f, t, c, s, m)
      BY <3>1, Zenon DEF Follows
    <3> QED BY <2>2, <3>2
  <2>4. CASE m # 0
    <3>1. m - 1 \in Nat /\ ~ (m <= m - 1)
      BY <2>2, <2>4
    <3>2. PICK h : Follows(h, t, c, s, m - 1)
      BY <2>1, <3>1
    <3> DEFINE f == [k \in 0 .. m |-> IF k = 0 THEN Start(c, s) ELSE Push(t, h[k - 1], s[k])]
               g == [k \in 0 .. m |-> IF k = 0 THEN Start(c, s) ELSE Push(t, f[k - 1], s[k])]
    <3>3. ASSUME NEW k \in 0 .. m - 1 PROVE f[k] = h[k]
      <4>1. k \in 0 .. m
        BY <2>2
      <4>2. f[k] = IF k = 0 THEN Start(c, s) ELSE Push(t, h[k - 1], s[k])
        BY <4>1
      <4>3. h[k] = IF k = 0 THEN Start(c, s) ELSE Push(t, h[k - 1], s[k])
        BY <3>2 DEF Follows
      <4> QED BY <4>2, <4>3
    <3>4. f = g
      <4>1. ASSUME NEW k \in 0 .. m, k # 0 PROVE f[k - 1] = h[k - 1]
        <5>1. k - 1 \in 0 .. m - 1
          BY <2>2, <4>1
        <5> QED BY <3>3, <5>1
      <4> HIDE DEF f
      <4>2. \A k \in 0 .. m :
              (IF k = 0 THEN Start(c, s) ELSE Push(t, h[k - 1], s[k]))
                = IF k = 0 THEN Start(c, s) ELSE Push(t, f[k - 1], s[k])
        BY <4>1, Zenon
      <4> QED BY <4>2, Zenon DEF f
    <3>5. Follows(f, t, c, s, m)
      <4> HIDE DEF f
      <4> QED BY <3>4, Zenon DEF Follows
    <3> QED BY <2>2, <3>5
  <2> QED BY <2>3, <2>4
<1> QED BY <1>1

\* So mos_path_join takes the fragments one by one.
LEMMA Joining ==
  ASSUME NEW t, NEW c, NEW s, Len(s) \in Nat
  PROVE  \E a : /\ mos_path_join(t, c, s) = a[Len(s)]
                /\ \A k \in 0 .. Len(s) : a[k] = IF k = 0 THEN Start(c, s) ELSE Push(t, a[k - 1], s[k])
<1> DEFINE a == CHOOSE f : Follows(f, t, c, s, Len(s))
<1>1. mos_path_join(t, c, s) = a[Len(s)]
  BY Zenon DEF mos_path_join, Follows
<1>2. Follows(a, t, c, s, Len(s))
  BY Followed, Zenon
<1> HIDE DEF a
<1>3. \A k \in 0 .. Len(s) : a[k] = IF k = 0 THEN Start(c, s) ELSE Push(t, a[k - 1], s[k])
  BY <1>2, Zenon DEF Follows
<1> QED BY <1>1, <1>3

\* A path is spelled as it is on the host if every fragment of it is, where
\* there is an entry that is the same but for case.
Spelled(t, p) ==
  \A k \in 1 .. Len(p), m \in Name :
    Append(SubSeq(p, 1, k - 1), m) \in DOMAIN t /\ Same(m, p[k]) => SubSeq(p, 1, k) \in DOMAIN t

\* A path that is not the root is its directory and a name.
LEMMA FrontOf ==
  ASSUME NEW p \in Seq(Name), p # Root
  PROVE  /\ Len(p) - 1 \in 0 .. Len(p) /\ Len(p) \in 1 .. Len(p) /\ Len(p) \in Nat
         /\ Front(p) = SubSeq(p, 1, Len(p) - 1)
         /\ Front(p) \in Seq(Name) /\ Len(Front(p)) = Len(p) - 1
         /\ Last(p) \in Name /\ Last(p) = p[Len(p)]
         /\ p = Append(Front(p), Last(p))
         /\ \A i \in 1 .. Len(p) - 1 : Front(p)[i] = p[i]
<1>1. Len(p) \in Nat \ {0}
  BY EmptySeq DEF Root
<1>2. Len(p) - 1 \in 0 .. Len(p) /\ Len(p) \in 1 .. Len(p)
  BY <1>1
<1>3. Front(p) = SubSeq(p, 1, Len(p) - 1) /\ Last(p) = p[Len(p)]
  BY Zenon DEF Front, Last
<1>4. /\ Front(p) \in Seq(Name) /\ Len(Front(p)) = Len(p) - 1
      /\ \A i \in 1 .. Len(p) - 1 : Front(p)[i] = p[i]
  BY <1>2, <1>3, Initial
<1>5. Last(p) \in Name
  BY <1>2, <1>3, ElementOfSeq
<1>6. p = Append(Front(p), Last(p))
  <2> DEFINE y == Append(Front(p), Last(p))
  <2>1. /\ y \in Seq(Name) /\ Len(y) = Len(Front(p)) + 1
        /\ \A i \in 1 .. Len(Front(p)) : y[i] = Front(p)[i]
        /\ y[Len(Front(p)) + 1] = Last(p)
    BY <1>4, <1>5, AppendProperties
  <2> HIDE DEF y
  <2>2. Len(y) = Len(p) /\ \A i \in 1 .. Len(y) : y[i] = p[i]
    BY <1>1, <1>3, <1>4, <2>1
  <2>3. y = p
    BY <2>1, <2>2, SeqEqual
  <2> QED BY <2>3 DEF y
<1> QED BY <1>1, <1>2, <1>3, <1>4, <1>5, <1>6

\* The directories above a path are spelled as the path is.
LEMMA SpelledFront ==
  ASSUME NEW t, NEW p \in Seq(Name), NEW k \in 0 .. Len(p), Spelled(t, p)
  PROVE  Spelled(t, SubSeq(p, 1, k))
<1> DEFINE y == SubSeq(p, 1, k)
<1>0. Len(p) \in Nat
  BY LenProperties
<1>1. y \in Seq(Name) /\ Len(y) = k /\ \A i \in 1 .. k : y[i] = p[i]
  BY Initial
<1>2. ASSUME NEW j \in 0 .. k PROVE SubSeq(y, 1, j) = SubSeq(p, 1, j)
  <2>1. j \in 0 .. Len(p) /\ j \in 0 .. Len(y)
    BY <1>0, <1>1
  <2> DEFINE u == SubSeq(y, 1, j)
             v == SubSeq(p, 1, j)
  <2>2. u \in Seq(Name) /\ Len(u) = j /\ \A i \in 1 .. j : u[i] = y[i]
    BY <2>1, <1>1, Initial
  <2>3. v \in Seq(Name) /\ Len(v) = j /\ \A i \in 1 .. j : v[i] = p[i]
    BY <2>1, Initial
  <2> HIDE DEF u, v, y
  <2>4. \A i \in 1 .. Len(u) : u[i] = v[i]
    BY <2>2, <2>3, <1>1
  <2>5. u = v
    BY <2>2, <2>3, <2>4, SeqEqual
  <2> QED BY <2>5 DEF u, v, y
<1> HIDE DEF y
<1>3. ASSUME NEW j \in 1 .. Len(y), NEW m \in Name,
             Append(SubSeq(y, 1, j - 1), m) \in DOMAIN t, Same(m, y[j])
      PROVE  SubSeq(y, 1, j) \in DOMAIN t
  <2>1. j \in 1 .. Len(p) /\ j \in 0 .. k /\ j - 1 \in 0 .. k /\ j \in 1 .. k
    BY <1>0, <1>1
  <2>2. SubSeq(y, 1, j) = SubSeq(p, 1, j) /\ SubSeq(y, 1, j - 1) = SubSeq(p, 1, j - 1) /\ y[j] = p[j]
    BY <2>1, <1>1, <1>2
  <2> QED BY <2>1, <2>2, <1>3 DEF Spelled
<1>4. Spelled(t, y)
  BY <1>3 DEF Spelled
<1> QED BY <1>4 DEF y

\* What Matched finds in a directory, or leaves as it was typed, is spelled as
\* it is there.
LEMMA SpelledEntry ==
  ASSUME NEW t, NEW p \in Seq(Name), Spelled(t, p), NEW f \in Name
  PROVE  /\ Append(p, Matched(t, p, f)) \in Seq(Name)
         /\ Spelled(t, Append(p, Matched(t, p, f)))
<1> DEFINE found == {n \in Entries(t, p) : Same(n, f)}
           m == Matched(t, p, f)
           y == Append(p, m)
<1>0. Len(p) \in Nat
  BY LenProperties
<1>1. m = IF found = {} THEN f ELSE CHOOSE n \in found : TRUE
  BY Zenon DEF Matched
<1>2. m \in Name /\ (IF found = {} THEN m = f ELSE m \in found)
  BY <1>1 DEF Entries
<1>3. (found # {}) => Append(p, m) \in DOMAIN t
  BY <1>2 DEF Entries
<1> HIDE DEF m
<1>4. /\ y \in Seq(Name) /\ Len(y) = Len(p) + 1
      /\ \A i \in 1 .. Len(p) : y[i] = p[i]
      /\ y[Len(p) + 1] = m
  BY <1>2, AppendProperties
<1>5. ASSUME NEW k \in 0 .. Len(p) PROVE SubSeq(y, 1, k) = SubSeq(p, 1, k)
  <2> DEFINE u == SubSeq(y, 1, k)
             v == SubSeq(p, 1, k)
  <2>1. k \in 0 .. Len(y)
    BY <1>0, <1>4
  <2>2. u \in Seq(Name) /\ Len(u) = k /\ \A i \in 1 .. k : u[i] = y[i]
    BY <2>1, <1>4, Initial
  <2>3. v \in Seq(Name) /\ Len(v) = k /\ \A i \in 1 .. k : v[i] = p[i]
    BY Initial
  <2> HIDE DEF u, v, y
  <2>4. \A i \in 1 .. Len(u) : u[i] = v[i]
    BY <1>0, <1>4, <2>2, <2>3
  <2>5. u = v
    BY <2>2, <2>3, <2>4, SeqEqual
  <2> QED BY <2>5 DEF u, v
<1>6. SubSeq(y, 1, Len(p)) = p /\ SubSeq(y, 1, Len(p) + 1) = y
  <2>1. Len(p) \in 0 .. Len(p)
    BY <1>0
  <2>2. SubSeq(p, 1, Len(p)) = p
    BY SubSeqFull
  <2>3. SubSeq(y, 1, Len(y)) = y
    BY <1>4, SubSeqFull
  <2> QED BY <2>1, <2>2, <2>3, <1>4, <1>5
<1> HIDE DEF y
<1>7. ASSUME NEW k \in 1 .. Len(y), NEW n \in Name,
             Append(SubSeq(y, 1, k - 1), n) \in DOMAIN t, Same(n, y[k])
      PROVE  SubSeq(y, 1, k) \in DOMAIN t
  <2>1. CASE k = Len(p) + 1
    <3>1. Append(p, n) \in DOMAIN t /\ Same(n, m)
      <4>1. k - 1 = Len(p) /\ y[k] = m
        BY <2>1, <1>0, <1>4
      <4>2. SubSeq(y, 1, k - 1) = p
        BY <4>1, <1>6
      <4> QED BY <4>1, <4>2, <1>7
    <3>2. found # {}
      <4>1. CASE found = {}
        <5>1. n \in found
          BY <4>1, <3>1, <1>2 DEF Entries
        <5> QED BY <5>1
      <4> QED BY <4>1
    <3> QED BY <2>1, <3>2, <1>3, <1>6 DEF y
  <2>2. CASE k # Len(p) + 1
    <3>1. k \in 1 .. Len(p) /\ k \in 0 .. Len(p) /\ k - 1 \in 0 .. Len(p)
      BY <2>2, <1>0, <1>4
    <3>2. SubSeq(y, 1, k) = SubSeq(p, 1, k) /\ SubSeq(y, 1, k - 1) = SubSeq(p, 1, k - 1) /\ y[k] = p[k]
      BY <3>1, <1>4, <1>5
    <3> QED BY <3>1, <3>2, <1>7 DEF Spelled
  <2> QED BY <2>1, <2>2
<1>8. Spelled(t, y)
  BY <1>7 DEF Spelled
<1> QED BY <1>4, <1>8 DEF y, m

\* What is below a directory is spelled as it is.
LEMMA SpelledDir ==
  ASSUME NEW t, Fits(t), NEW p \in Seq(Name), IsDir(t, p)
  PROVE  Spelled(t, p)
<1>1. ASSUME NEW k \in 1 .. Len(p) PROVE SubSeq(p, 1, k) \in DOMAIN t
  <2>0. Len(p) \in Nat
    BY LenProperties
  <2>1. p # Root /\ p \in DOMAIN t
    <3>1. p = Root => Len(p) = 0
      BY EmptySeq DEF Root
    <3> QED BY <3>1, <2>0 DEF IsDir
  <2>2. CASE k = Len(p)
    BY <2>1, <2>2, SubSeqFull
  <2>3. CASE k # Len(p)
    <3>1. k \in 1 .. Len(p) - 1
      BY <2>0, <2>3
    <3>2. SubSeq(p, 1, k) \in Above(p)
      BY <3>1 DEF Above
    <3>3. IsDir(t, SubSeq(p, 1, k)) /\ SubSeq(p, 1, k) # Root
      BY <2>1, <3>2, AbovePrefix DEF Fits, WellFormed
    <3> QED BY <3>3 DEF IsDir
  <2> QED BY <2>2, <2>3
<1> QED BY <1>1 DEF Spelled

\* mos_path_join yields a path, and from where there is a directory one that is
\* spelled as on the host, by least counterexample over the fragments.
LEMMA JoinedPath ==
  ASSUME NEW t, Fits(t), NEW c \in Seq(Name), NEW s \in Strings
  PROVE  /\ mos_path_join(t, c, s) \in Seq(Name)
         /\ IsDir(t, Start(c, s)) => Spelled(t, mos_path_join(t, c, s))
<1> DEFINE F == Name \union {"", ".", ".."}
           c0 == Start(c, s)
<1>0. s \in Seq(F)
  BY HostFsAssumption
<1>8. Len(s) \in Nat
  BY <1>0, LenProperties
<1>1. PICK a : /\ mos_path_join(t, c, s) = a[Len(s)]
               /\ \A k \in 0 .. Len(s) : a[k] = IF k = 0 THEN c0 ELSE Push(t, a[k - 1], s[k])
  BY <1>8, Joining
<1>2. c0 = Root \/ c0 = c
  BY DEF Start
<1> HIDE DEF c0
<1> DEFINE Good(p) == p \in Seq(Name) /\ (IsDir(t, c0) => Spelled(t, p))
           T == {k \in 0 .. Len(s) : ~ Good(a[k])}
<1>4. Good(c0)
  <2>1. Root \in Seq(Name)
    BY EmptySeq DEF Root
  <2> QED BY <2>1, <1>2, SpelledDir
<1>5. ASSUME NEW p, Good(p), NEW f \in F PROVE Good(Push(t, p, f))
  <2>1. CASE f \in {"", "."}
    <3>1. Push(t, p, f) = p
      BY <2>1 DEF Push
    <3> QED BY <3>1, <1>5
  <2>2. CASE f = ".."
    <3>1. Push(t, p, f) = Pop(p)
      BY <2>2 DEF Push
    <3>2. CASE p = Root
      BY <3>1, <3>2, <1>5 DEF Pop
    <3>3. CASE p # Root
      <4>1. Pop(p) = SubSeq(p, 1, Len(p) - 1) /\ Len(p) - 1 \in 0 .. Len(p) /\ Pop(p) \in Seq(Name)
        BY <3>3, <1>5, FrontOf DEF Pop
      <4>2. IsDir(t, c0) => Spelled(t, SubSeq(p, 1, Len(p) - 1))
        BY <4>1, <1>5, SpelledFront
      <4> QED BY <3>1, <4>1, <4>2
    <3> QED BY <3>2, <3>3
  <2>3. CASE f \notin {"", ".", ".."}
    <3>1. Push(t, p, f) = Append(p, Matched(t, p, f)) /\ f \in Name
      BY <2>3 DEF Push
    <3>2. Append(p, Matched(t, p, f)) \in Seq(Name)
      <4>1. Matched(t, p, f) \in Name
        BY <3>1 DEF Matched, Entries
      <4> QED BY <4>1, <1>5, AppendProperties
    <3>3. IsDir(t, c0) => Spelled(t, Append(p, Matched(t, p, f)))
      BY <3>1, <1>5, SpelledEntry
    <3> QED BY <3>1, <3>2, <3>3
  <2> QED BY <2>1, <2>2, <2>3
<1> HIDE DEF Good
<1>6. T = {}
  <2> SUFFICES ASSUME T # {} PROVE FALSE
    OBVIOUS
  <2>1. PICK k \in T : \A j \in T : k <= j
    <3>1. T \in SUBSET Nat
      OBVIOUS
    <3> HIDE DEF T
    <3> QED BY <3>1, Least
  <2>2. k \in 0 .. Len(s) /\ ~ Good(a[k])
    OBVIOUS
  <2>3. CASE k = 0
    <3>1. a[k] = c0
      BY <2>2, <2>3, <1>1
    <3> QED BY <2>2, <3>1, <1>4
  <2>4. CASE k # 0
    <3>1. k - 1 \in 0 .. Len(s) /\ ~ (k <= k - 1) /\ k \in 1 .. Len(s)
      BY <1>8, <2>2, <2>4
    <3>2. Good(a[k - 1])
      BY <2>1, <3>1
    <3>3. s[k] \in F
      <4> HIDE DEF F
      <4> QED BY <1>0, <3>1, ElementOfSeq
    <3>4. a[k] = Push(t, a[k - 1], s[k])
      BY <2>2, <2>4, <1>1
    <3> QED BY <2>2, <3>2, <3>3, <3>4, <1>5
  <2> QED BY <2>3, <2>4
<1>7. Good(a[Len(s)])
  <2>1. Len(s) \in 0 .. Len(s)
    BY <1>8
  <2> QED BY <1>6, <2>1
<1> QED BY <1>1, <1>7 DEF Good, c0
-----------------------------------------------------------------------------
(***************************************************************************)
(* What a path denotes                                                     *)
(***************************************************************************)
\* Counting goes on by one fragment.
LEMMA CountOn ==
  ASSUME NEW w, NEW S, NEW n \in Nat, NEW i \in 1 .. n + 1
  PROVE  /\ Count(w, i, n, S) \in Nat
         /\ Count(w, i, n + 1, S) = Count(w, i, n, S) + IF w[n + 1] \in S THEN 1 ELSE 0
<1> DEFINE A == {k \in i .. n : w[k] \in S}
           B == {k \in i .. n + 1 : w[k] \in S}
<1>1. IsFiniteSet(A) /\ Cardinality(A) \in Nat
  <2>1. IsFiniteSet(i .. n) /\ A \in SUBSET (i .. n)
    BY FS_Interval
  <2> QED BY <2>1, FS_Subset, FS_CardinalityType
<1>2. CASE w[n + 1] \in S
  <2>1. B = A \union {n + 1} /\ n + 1 \notin A
    BY <1>2
  <2>2. Cardinality(B) = Cardinality(A) + 1
    BY <1>1, <2>1, FS_AddElement
  <2> QED BY <1>1, <1>2, <2>2 DEF Count
<1>3. CASE w[n + 1] \notin S
  <2>1. B = A
    BY <1>3
  <2> QED BY <1>1, <1>3, <2>1 DEF Count
<1> QED BY <1>2, <1>3

\* The names that survive are among the fragments there are.
LEMMA SurvivingType ==
  ASSUME NEW w, NEW n \in Nat
  PROVE  /\ Surviving(w, n) \in SUBSET (1 .. n) /\ IsFiniteSet(Surviving(w, n))
         /\ Cardinality(Surviving(w, n)) \in Nat
<1>1. Surviving(w, n) \in SUBSET (1 .. n)
  BY DEF Surviving
<1>2. IsFiniteSet(1 .. n)
  BY FS_Interval
<1> QED BY <1>1, <1>2, FS_Subset, FS_CardinalityType

\* The ranks of the members of a set are 1 to their number.
LEMMA RankType ==
  ASSUME NEW n \in Nat, NEW S \in SUBSET (1 .. n), NEW i \in S
  PROVE  Rank(S, i) \in 1 .. Cardinality(S)
<1> DEFINE T == {j \in S : j <= i}
<1>1. IsFiniteSet(S) /\ Cardinality(S) \in Nat
  <2>1. IsFiniteSet(1 .. n)
    BY FS_Interval
  <2> QED BY <2>1, FS_Subset, FS_CardinalityType
<1>2. i \in T /\ T \in SUBSET S
  OBVIOUS
<1>3. IsFiniteSet(T) /\ Cardinality(T) <= Cardinality(S)
  BY <1>1, <1>2, FS_Subset
<1>4. Cardinality(T) \in Nat /\ Cardinality(T) # 0
  <2> HIDE DEF T
  <2> QED BY <1>2, <1>3, FS_CardinalityType, FS_EmptySet
<1> QED BY <1>1, <1>3, <1>4 DEF Rank

\* One more fragment: it survives if it is a name, and ".." takes away the
\* names that only one more survived before it.
LEMMA SurvivingOn ==
  ASSUME NEW w, NEW n \in Nat
  PROVE  /\ w[n + 1] \in {"", "."} => Surviving(w, n + 1) = Surviving(w, n)
         /\ w[n + 1] \in Name => Surviving(w, n + 1) = Surviving(w, n) \union {n + 1}
         /\ w[n + 1] = ".." => Surviving(w, n + 1) =
              {i \in Surviving(w, n) : Count(w, i, n, Name) > Count(w, i, n, {".."}) + 1}
<1> DEFINE More(i, j) == Count(w, i, j, Name) > Count(w, i, j, {".."})
<1>0. {"", ".", ".."} \intersect Name = {}
  BY NameAssumption
<1>1. ASSUME NEW i \in 1 .. n
      PROVE  i \in Surviving(w, n + 1) <=> i \in Surviving(w, n) /\ More(i, n + 1)
  <2>1. (\A j \in i .. n + 1 : More(i, j)) <=> (\A j \in i .. n : More(i, j)) /\ More(i, n + 1)
    <3> HIDE DEF More
    <3>1. \A j : j \in i .. n + 1 <=> j \in i .. n \/ j = n + 1
      OBVIOUS
    <3> QED BY <3>1, Zenon
  <2>2. i \in 1 .. n + 1
    OBVIOUS
  <2> QED BY <2>1, <2>2, Zenon DEF Surviving
<1>2. n + 1 \in Surviving(w, n + 1) <=> w[n + 1] \in Name
  <2>1. \A S : Count(w, n + 1, n, S) = 0
    <3>1. \A S : {k \in n + 1 .. n : w[k] \in S} = {}
      OBVIOUS
    <3> QED BY <3>1, FS_EmptySet DEF Count
  <2>2. \A S : Count(w, n + 1, n + 1, S) = IF w[n + 1] \in S THEN 1 ELSE 0
    <3>1. n + 1 \in 1 .. n + 1
      OBVIOUS
    <3>2. \A S : Count(w, n + 1, n + 1, S) = Count(w, n + 1, n, S) + IF w[n + 1] \in S THEN 1 ELSE 0
      BY <3>1, CountOn
    <3> QED BY <2>1, <3>2
  <2>3. w[n + 1] \in Name => Count(w, n + 1, n + 1, Name) = 1 /\ Count(w, n + 1, n + 1, {".."}) = 0
    BY <2>2, <1>0
  <2>4. w[n + 1] \in Name => \A j \in n + 1 .. n + 1 : More(n + 1, j)
    BY <2>3
  <2>5. n + 1 \in 1 .. n + 1
    OBVIOUS
  <2> QED BY <2>4, <2>5 DEF Surviving
<1>3. ASSUME NEW i \in Surviving(w, n)
      PROVE  /\ i \in 1 .. n /\ Count(w, i, n, Name) \in Nat /\ Count(w, i, n, {".."}) \in Nat
             /\ More(i, n)
             /\ Count(w, i, n + 1, Name) = Count(w, i, n, Name) + IF w[n + 1] \in Name THEN 1 ELSE 0
             /\ Count(w, i, n + 1, {".."}) = Count(w, i, n, {".."}) + IF w[n + 1] = ".." THEN 1 ELSE 0
  <2>1. i \in 1 .. n /\ n \in i .. n
    BY DEF Surviving
  <2>2. More(i, n)
    BY <2>1 DEF Surviving
  <2>3. i \in 1 .. n + 1
    BY <2>1
  <2>4. \A S : /\ Count(w, i, n, S) \in Nat
               /\ Count(w, i, n + 1, S) = Count(w, i, n, S) + IF w[n + 1] \in S THEN 1 ELSE 0
    BY <2>3, CountOn
  <2>5. w[n + 1] \in {".."} <=> w[n + 1] = ".."
    OBVIOUS
  <2> QED BY <2>1, <2>2, <2>4, <2>5
<1>4. Surviving(w, n) \subseteq 1 .. n /\ Surviving(w, n + 1) \subseteq 1 .. n + 1
  BY DEF Surviving
<1>5. ASSUME NEW i
      PROVE  i \in Surviving(w, n + 1) <=>
               \/ i \in Surviving(w, n) /\ More(i, n + 1)
               \/ i = n + 1 /\ w[n + 1] \in Name
  <2>1. CASE i \in 1 .. n
    <3>1. i # n + 1
      BY <2>1
    <3> QED BY <2>1, <3>1, <1>1, Zenon
  <2>2. CASE i = n + 1
    <3>1. n + 1 \notin Surviving(w, n)
      BY <1>4
    <3> QED BY <2>2, <3>1, <1>2, Zenon
  <2>3. CASE i \notin 1 .. n /\ i # n + 1
    <3>1. i \notin 1 .. n + 1
      BY <2>3
    <3> QED BY <2>3, <3>1, <1>4, Zenon
  <2> QED BY <2>1, <2>2, <2>3
<1>6. CASE w[n + 1] \in {"", "."}
  <2>1. w[n + 1] \notin Name /\ w[n + 1] # ".."
    BY <1>6, <1>0
  <2>2. \A i \in Surviving(w, n) : More(i, n + 1)
    BY <2>1, <1>3
  <2> HIDE DEF More
  <2>3. Surviving(w, n + 1) = Surviving(w, n)
    BY <2>1, <2>2, <1>5
  <2> QED BY <2>1, <2>3
<1>7. CASE w[n + 1] \in Name
  <2>1. w[n + 1] \notin {"", "."} /\ w[n + 1] # ".."
    BY <1>7, <1>0
  <2>2. ASSUME NEW i \in Surviving(w, n) PROVE More(i, n + 1)
    <3>1. Count(w, i, n + 1, Name) = Count(w, i, n, Name) + 1 /\ Count(w, i, n + 1, {".."}) = Count(w, i, n, {".."}) + 0
      BY <1>7, <2>1, <1>3
    <3>2. Count(w, i, n, Name) \in Nat /\ Count(w, i, n, {".."}) \in Nat /\ More(i, n)
      BY <1>3
    <3> QED BY <3>1, <3>2
  <2> HIDE DEF More
  <2>3. Surviving(w, n + 1) = Surviving(w, n) \union {n + 1}
    BY <1>7, <2>2, <1>5
  <2> QED BY <2>1, <2>3
<1>8. CASE w[n + 1] = ".."
  <2>1. w[n + 1] \notin {"", "."} /\ w[n + 1] \notin Name
    BY <1>8, <1>0
  <2>2. \A i \in Surviving(w, n) :
          More(i, n + 1) <=> Count(w, i, n, Name) > Count(w, i, n, {".."}) + 1
    BY <1>8, <2>1, <1>3
  <2> HIDE DEF More
  <2>3. Surviving(w, n + 1) =
          {i \in Surviving(w, n) : Count(w, i, n, Name) > Count(w, i, n, {".."}) + 1}
    BY <2>1, <2>2, <1>5
  <2> QED BY <2>1, <2>3
<1> QED BY <1>6, <1>7, <1>8

\* A path that the fragments up to the n-th have led to: its names are those of
\* the fragments that survive, in their order; and how far the names from one of
\* them on outnumber the ".." says how many survive from there.
Stacked(w, n, p) ==
  LET left == Surviving(w, n)
  IN  /\ p \in Seq(Name) /\ Len(p) = Cardinality(left)
      /\ \A i \in left : Same(w[i], p[Rank(left, i)])
      /\ \A r \in 1 .. Len(p) : \E i \in left : Rank(left, i) = r
      /\ \A i \in left :
           Count(w, i, n, Name) = Count(w, i, n, {".."}) + Cardinality({j \in left : j >= i})

\* At the start there is nothing.
LEMMA StackedRoot ==
  ASSUME NEW w
  PROVE  Stacked(w, 0, Root)
<1>1. Surviving(w, 0) = {}
  BY DEF Surviving
<1>2. Root \in Seq(Name) /\ Len(Root) = 0
  BY EmptySeq DEF Root
<1>3. Cardinality({}) = 0
  BY FS_EmptySet
<1>4. 1 .. 0 = {}
  OBVIOUS
<1> HIDE DEF Root
<1> QED BY <1>1, <1>2, <1>3, <1>4, Zenon DEF Stacked

\* "" and "." do nothing.
LEMMA StackedStay ==
  ASSUME NEW w, NEW n \in Nat, NEW p, Stacked(w, n, p), w[n + 1] \notin Name, w[n + 1] \notin {".."},
         Surviving(w, n + 1) = Surviving(w, n)
  PROVE  Stacked(w, n + 1, p)
<1> DEFINE left == Surviving(w, n)
<1>1. left \in SUBSET (1 .. n)
  BY SurvivingType
<1>2. ASSUME NEW i \in left
      PROVE  Count(w, i, n + 1, Name) = Count(w, i, n, Name) /\ Count(w, i, n + 1, {".."}) = Count(w, i, n, {".."})
  <2>1. i \in 1 .. n + 1
    BY <1>1
  <2>2. Count(w, i, n, Name) \in Nat /\ Count(w, i, n + 1, Name) = Count(w, i, n, Name) + 0
    BY <2>1, CountOn
  <2>3. /\ Count(w, i, n, {".."}) \in Nat
        /\ Count(w, i, n + 1, {".."}) = Count(w, i, n, {".."}) + 0
    BY <2>1, CountOn
  <2> QED BY <2>2, <2>3
<1> QED BY <1>2, Zenon DEF Stacked

\* A name goes on top, in the spelling m.
LEMMA StackedName ==
  ASSUME NEW w, NEW n \in Nat, NEW p, Stacked(w, n, p), w[n + 1] \in Name,
         NEW m \in Name, Same(w[n + 1], m)
  PROVE  Stacked(w, n + 1, Append(p, m))
<1> DEFINE left == Surviving(w, n)
           new  == Surviving(w, n + 1)
           y    == Append(p, m)
<1>1. new = left \union {n + 1}
  BY SurvivingOn
<1>2. /\ left \in SUBSET (1 .. n) /\ IsFiniteSet(left) /\ Cardinality(left) \in Nat
      /\ new \in SUBSET (1 .. n + 1) /\ IsFiniteSet(new)
  <2>1. n + 1 \in Nat
    OBVIOUS
  <2> QED BY <2>1, SurvivingType
<1>3. n + 1 \notin left /\ Cardinality(new) = Cardinality(left) + 1
  <2>1. n + 1 \notin left
    BY <1>2
  <2> HIDE DEF left, new
  <2> QED BY <2>1, <1>1, <1>2, FS_AddElement
<1>4. p \in Seq(Name) /\ Len(p) = Cardinality(left)
  BY DEF Stacked
<1>5. /\ y \in Seq(Name) /\ Len(y) = Len(p) + 1
      /\ \A r \in 1 .. Len(p) : y[r] = p[r]
      /\ y[Len(p) + 1] = m
  BY <1>4, AppendProperties
<1>6. ASSUME NEW i \in left
      PROVE  /\ Rank(new, i) = Rank(left, i) /\ Rank(left, i) \in 1 .. Len(p)
             /\ Cardinality({j \in new : j >= i}) = Cardinality({j \in left : j >= i}) + 1
  <2>1. i \in 1 .. n
    BY <1>2
  <2>2. {j \in new : j <= i} = {j \in left : j <= i}
    BY <2>1, <1>1
  <2>3. Rank(left, i) \in 1 .. Len(p)
    BY <1>2, <1>4, RankType
  <2> DEFINE T == {j \in left : j >= i}
  <2>4. {j \in new : j >= i} = T \union {n + 1} /\ n + 1 \notin T
    BY <2>1, <1>1, <1>2
  <2>5. T \in SUBSET left
    OBVIOUS
  <2>6. IsFiniteSet(T)
    BY <2>5, <1>2, FS_Subset
  <2>7. Cardinality(T \union {n + 1}) = Cardinality(T) + 1
    <3> HIDE DEF T
    <3> QED BY <2>4, <2>6, FS_AddElement
  <2> HIDE DEF new
  <2> QED BY <2>2, <2>3, <2>4, <2>7 DEF Rank
<1>7. Rank(new, n + 1) = Len(p) + 1 /\ Cardinality({j \in new : j >= n + 1}) = 1
  <2>1. {j \in new : j <= n + 1} = new
    BY <1>2
  <2>2. {j \in new : j >= n + 1} = {n + 1}
    BY <1>1, <1>2
  <2>3. Cardinality({n + 1}) = 1
    BY FS_Singleton
  <2> HIDE DEF new
  <2> QED BY <2>1, <2>2, <2>3, <1>3, <1>4 DEF Rank
<1>8. ASSUME NEW i \in new PROVE Same(w[i], y[Rank(new, i)])
  <2>1. CASE i \in left
    <3>1. Same(w[i], p[Rank(left, i)])
      BY <2>1 DEF Stacked
    <3>2. y[Rank(new, i)] = p[Rank(left, i)]
      BY <2>1, <1>5, <1>6
    <3> QED BY <3>1, <3>2, Zenon
  <2>2. CASE i = n + 1
    BY <2>2, <1>5, <1>7
  <2> QED BY <2>1, <2>2, <1>1
<1>9. ASSUME NEW r \in 1 .. Len(y) PROVE \E i \in new : Rank(new, i) = r
  <2>1. CASE r = Len(p) + 1
    <3>1. n + 1 \in new
      BY <1>1
    <3> QED BY <2>1, <3>1, <1>7
  <2>2. CASE r # Len(p) + 1
    <3>1. r \in 1 .. Len(p)
      BY <2>2, <1>2, <1>4, <1>5
    <3>2. PICK i \in left : Rank(left, i) = r
      BY <3>1 DEF Stacked
    <3>3. i \in new
      BY <1>1
    <3> QED BY <3>2, <3>3, <1>6
  <2> QED BY <2>1, <2>2
<1>10. ASSUME NEW i \in new
       PROVE  Count(w, i, n + 1, Name) = Count(w, i, n + 1, {".."}) + Cardinality({j \in new : j >= i})
  <2>1. i \in 1 .. n + 1
    BY <1>2
  <2>2. \A S : /\ Count(w, i, n, S) \in Nat
               /\ Count(w, i, n + 1, S) = Count(w, i, n, S) + IF w[n + 1] \in S THEN 1 ELSE 0
    BY <2>1, CountOn
  <2>3. w[n + 1] \notin {".."}
    BY NameAssumption
  <2>4. /\ Count(w, i, n + 1, Name) = Count(w, i, n, Name) + 1
        /\ Count(w, i, n + 1, {".."}) = Count(w, i, n, {".."})
    BY <2>2, <2>3
  <2>5. CASE i \in left
    <3> DEFINE c == Cardinality({j \in left : j >= i})
               d == Cardinality({j \in new : j >= i})
    <3>1. Count(w, i, n, Name) = Count(w, i, n, {".."}) + c
      BY <2>5 DEF Stacked
    <3>2. c \in Nat
      <4> DEFINE T == {j \in left : j >= i}
      <4>1. T \in SUBSET left
        OBVIOUS
      <4>2. IsFiniteSet(T)
        BY <4>1, <1>2, FS_Subset
      <4> HIDE DEF T
      <4> QED BY <4>2, FS_CardinalityType DEF T
    <3>3. d = c + 1
      BY <2>5, <1>6
    <3> HIDE DEF c, d
    <3>4. Count(w, i, n + 1, Name) = Count(w, i, n + 1, {".."}) + d
      BY <2>2, <2>4, <3>1, <3>2, <3>3
    <3> QED BY <3>4 DEF d
  <2>6. CASE i = n + 1
    <3>1. \A S : Count(w, n + 1, n, S) = 0
      <4>1. \A S : {k \in n + 1 .. n : w[k] \in S} = {}
        OBVIOUS
      <4> QED BY <4>1, FS_EmptySet DEF Count
    <3>2. Cardinality({j \in new : j >= i}) = 1
      BY <2>6, <1>7
    <3>3. Count(w, i, n + 1, Name) = 1 /\ Count(w, i, n + 1, {".."}) = 0
      BY <2>4, <2>6, <3>1
    <3> QED BY <3>2, <3>3
  <2> QED BY <2>5, <2>6, <1>1
<1> HIDE DEF new, y
<1>11. Len(y) = Cardinality(new)
  BY <1>3, <1>4, <1>5
<1>12. Stacked(w, n + 1, y)
  BY <1>5, <1>8, <1>9, <1>10, <1>11 DEF Stacked, new
<1> QED BY <1>12 DEF y

\* ".." takes the last name away, if there is one.
LEMMA StackedUp ==
  ASSUME NEW w, NEW n \in Nat, NEW p, Stacked(w, n, p), w[n + 1] = ".."
  PROVE  Stacked(w, n + 1, Pop(p))
<1> DEFINE left    == Surviving(w, n)
           new     == Surviving(w, n + 1)
           from(i) == {j \in left : j >= i}
<1>1. new = {i \in left : Count(w, i, n, Name) > Count(w, i, n, {".."}) + 1}
  BY SurvivingOn
<1>2. left \in SUBSET (1 .. n) /\ IsFiniteSet(left) /\ Cardinality(left) \in Nat
  BY SurvivingType
<1>3. p \in Seq(Name) /\ Len(p) = Cardinality(left)
  BY DEF Stacked
<1>4. ASSUME NEW i \in left
      PROVE  /\ i \in 1 .. n /\ IsFiniteSet(from(i)) /\ Cardinality(from(i)) \in Nat
             /\ Count(w, i, n, {".."}) \in Nat
             /\ Count(w, i, n, Name) = Count(w, i, n, {".."}) + Cardinality(from(i))
             /\ Count(w, i, n + 1, Name) = Count(w, i, n, Name)
             /\ Count(w, i, n + 1, {".."}) = Count(w, i, n, {".."}) + 1
             /\ Rank(left, i) \in 1 .. Len(p)
  <2>1. i \in 1 .. n /\ i \in 1 .. n + 1
    BY <1>2
  <2>2. IsFiniteSet(from(i))
    <3>1. from(i) \in SUBSET left
      OBVIOUS
    <3> HIDE DEF from
    <3> QED BY <3>1, <1>2, FS_Subset
  <2>3. Count(w, i, n, Name) = Count(w, i, n, {".."}) + Cardinality(from(i))
    BY DEF Stacked
  <2>4. Count(w, i, n, Name) \in Nat /\ Count(w, i, n + 1, Name) = Count(w, i, n, Name) + 0
    <3>1. w[n + 1] \notin Name
      BY NameAssumption
    <3> QED BY <2>1, <3>1, CountOn
  <2>5. /\ Count(w, i, n, {".."}) \in Nat
        /\ Count(w, i, n + 1, {".."}) = Count(w, i, n, {".."}) + 1
    <3>1. w[n + 1] \in {".."}
      OBVIOUS
    <3> QED BY <2>1, <3>1, CountOn
  <2>6. Rank(left, i) \in 1 .. Len(p)
    BY <1>2, <1>3, RankType
  <2>7. Cardinality(from(i)) \in Nat
    <3> HIDE DEF from
    <3> QED BY <2>2, FS_CardinalityType
  <2> HIDE DEF from
  <2> QED BY <2>1, <2>2, <2>3, <2>4, <2>5, <2>6, <2>7
<1>5. CASE Len(p) = 0
  <2>1. left = {} /\ new = {}
    <3>1. left = {}
      <4> HIDE DEF left
      <4> QED BY <1>2, <1>3, <1>5, FS_EmptySet
    <3> QED BY <3>1, <1>1
  <2>2. p = Root
    BY <1>3, <1>5, EmptySeq DEF Root
  <2>3. Stacked(w, n + 1, p)
    BY <2>1, <1>3, <1>5, Zenon DEF Stacked
  <2> QED BY <2>2, <2>3 DEF Pop
<1>6. CASE Len(p) # 0
  <2>1. /\ p # Root /\ Pop(p) = Front(p) /\ Front(p) \in Seq(Name) /\ Len(p) \in Nat
        /\ Len(Front(p)) = Len(p) - 1 /\ Len(p) \in 1 .. Len(p)
        /\ \A r \in 1 .. Len(p) - 1 : Front(p)[r] = p[r]
    <3>1. p # Root
      BY <1>6, EmptySeq DEF Root
    <3> QED BY <3>1, <1>3, FrontOf DEF Pop
  <2>2. PICK m \in left : Rank(left, m) = Len(p)
    BY <2>1 DEF Stacked
  <2>3. \A j \in left : j <= m
    <3> DEFINE T == {j \in left : j <= m}
    <3>1. T \in SUBSET left
      OBVIOUS
    <3>2. Cardinality(left) = Cardinality(T)
      BY <2>2, <1>3 DEF Rank
    <3>3. left = T
      <4> HIDE DEF T, left
      <4> QED BY <3>1, <3>2, <1>2, FS_Subset
    <3> HIDE DEF left
    <3> QED BY <3>3
  <2>4. new = left \ {m}
    <3>1. Cardinality(from(m)) = 1
      <4>1. from(m) = {m}
        BY <2>3, <1>2
      <4>2. Cardinality({m}) = 1
        BY FS_Singleton
      <4> HIDE DEF from
      <4> QED BY <4>1, <4>2
    <3>2. m \notin new
      <4> HIDE DEF from, left
      <4> QED BY <3>1, <1>1, <1>4, <2>2
    <3>3. ASSUME NEW i \in left, i # m
          PROVE  i \in new
      <4>1. {i, m} \in SUBSET from(i)
        BY <2>3, <3>3, <1>2
      <4>2. Cardinality({i, m}) = 2
        <5>1. IsFiniteSet({i}) /\ Cardinality({i}) = 1
          BY FS_Singleton
        <5>2. Cardinality({i} \union {m}) = 1 + 1
          BY <5>1, <3>3, FS_AddElement
        <5>3. {i} \union {m} = {i, m}
          OBVIOUS
        <5> QED BY <5>2, <5>3
      <4> HIDE DEF from, left
      <4>3. Cardinality({i, m}) <= Cardinality(from(i))
        BY <4>1, <1>4, <3>3, FS_Subset
      <4>4. /\ Cardinality(from(i)) \in Nat /\ Count(w, i, n, {".."}) \in Nat
            /\ Count(w, i, n, Name) = Count(w, i, n, {".."}) + Cardinality(from(i))
        BY <1>4, <3>3
      <4>5. Count(w, i, n, Name) > Count(w, i, n, {".."}) + 1
        BY <4>2, <4>3, <4>4
      <4> QED BY <4>5, <1>1, <3>3
    <3> HIDE DEF left, from
    <3>4. new \subseteq left
      BY <1>1
    <3> HIDE DEF new
    <3> QED BY <3>2, <3>3, <3>4
  <2>5. Cardinality(new) = Len(p) - 1
    <3> HIDE DEF left, new
    <3> QED BY <2>2, <2>4, <1>2, <1>3, FS_RemoveElement
  <2>6. ASSUME NEW i \in new
        PROVE  /\ i \in left /\ i # m /\ i < m
               /\ Rank(new, i) = Rank(left, i) /\ Rank(left, i) \in 1 .. Len(p) - 1
    <3>1. i \in left /\ i # m
      BY <2>4
    <3>2. i <= m /\ i \in 1 .. n /\ m \in 1 .. n
      BY <3>1, <2>2, <2>3, <1>2
    <3>3. {j \in new : j <= i} = {j \in left : j <= i}
      BY <2>4, <3>1, <3>2, <1>2
    <3>4. Rank(new, i) \in 1 .. Len(p) - 1
      <4>1. new \in SUBSET (1 .. n)
        BY <2>4, <1>2
      <4> HIDE DEF new
      <4> QED BY <4>1, <2>5, RankType
    <3>5. Rank(new, i) = Rank(left, i)
      BY <3>3, Zenon DEF Rank
    <3>6. i < m
      BY <3>1, <3>2
    <3> HIDE DEF left, new
    <3> QED BY <3>1, <3>4, <3>5, <3>6
  <2>7. ASSUME NEW i \in new PROVE Same(w[i], Front(p)[Rank(new, i)])
    <3>1. Same(w[i], p[Rank(left, i)])
      BY <2>6 DEF Stacked
    <3>2. Front(p)[Rank(new, i)] = p[Rank(left, i)]
      BY <2>1, <2>6
    <3> QED BY <3>1, <3>2, Zenon
  <2>8. ASSUME NEW r \in 1 .. Len(Front(p)) PROVE \E i \in new : Rank(new, i) = r
    <3>1. r \in 1 .. Len(p) /\ r # Len(p)
      BY <2>1
    <3>2. PICK i \in left : Rank(left, i) = r
      BY <3>1 DEF Stacked
    <3>3. i # m
      BY <2>2, <3>1, <3>2
    <3> HIDE DEF left, new
    <3>4. i \in new
      BY <2>4, <3>2, <3>3
    <3> QED BY <2>6, <3>2, <3>4
  <2>9. ASSUME NEW i \in new
        PROVE  Count(w, i, n + 1, Name) = Count(w, i, n + 1, {".."}) + Cardinality({j \in new : j >= i})
    <3>1. {j \in new : j >= i} = from(i) \ {m} /\ m \in from(i)
      BY <2>2, <2>4, <2>6, <1>2
    <3> HIDE DEF from, left, new
    <3>2. Cardinality(from(i) \ {m}) = Cardinality(from(i)) - 1
      BY <3>1, <2>6, <1>4, FS_RemoveElement
    <3> DEFINE c == Cardinality(from(i))
               a == Count(w, i, n, {".."})
    <3>3. /\ c \in Nat /\ a \in Nat /\ Count(w, i, n, Name) = a + c
          /\ Count(w, i, n + 1, Name) = Count(w, i, n, Name)
          /\ Count(w, i, n + 1, {".."}) = a + 1
      BY <2>6, <1>4
    <3>4. Cardinality({j \in new : j >= i}) = c - 1
      BY <3>1, <3>2
    <3> HIDE DEF c, a
    <3>5. a + c = (a + 1) + (c - 1)
      BY <3>3
    <3> QED BY <3>3, <3>4, <3>5, Zenon
  <2> HIDE DEF new
  <2>10. Len(Front(p)) = Cardinality(new)
    BY <2>1, <2>5
  <2>11. Stacked(w, n + 1, Front(p))
    BY <2>1, <2>7, <2>8, <2>9, <2>10 DEF Stacked, new
  <2> QED BY <2>1, <2>11
<1> QED BY <1>5, <1>6

\* The current directory has led to itself.
LEMMA StackedDir ==
  ASSUME NEW w, NEW c \in Seq(Name), \A i \in 1 .. Len(c) : w[i] = c[i]
  PROVE  Stacked(w, Len(c), c)
<1>0. Len(c) \in Nat
  BY LenProperties
<1> DEFINE T == {k \in 0 .. Len(c) : ~ Stacked(w, k, SubSeq(c, 1, k))}
<1>1. T = {}
  <2> SUFFICES ASSUME T # {} PROVE FALSE
    OBVIOUS
  <2>1. PICK k \in T : \A j \in T : k <= j
    <3>1. T \in SUBSET Nat
      OBVIOUS
    <3> HIDE DEF T
    <3> QED BY <3>1, Least
  <2>2. k \in 0 .. Len(c) /\ ~ Stacked(w, k, SubSeq(c, 1, k))
    OBVIOUS
  <2>3. CASE k = 0
    <3>1. SubSeq(c, 1, 0) = Root
      <4>1. SubSeq(c, 1, 0) \in Seq(Name) /\ Len(SubSeq(c, 1, 0)) = 0
        BY <1>0, Initial
      <4> QED BY <4>1, EmptySeq DEF Root
    <3> QED BY <2>2, <2>3, <3>1, StackedRoot
  <2>4. CASE k # 0
    <3>1. k - 1 \in 0 .. Len(c) /\ ~ (k <= k - 1) /\ k \in 1 .. Len(c) /\ k - 1 \in Nat /\ (k - 1) + 1 = k
      BY <1>0, <2>2, <2>4
    <3> DEFINE x == SubSeq(c, 1, k - 1)
               y == SubSeq(c, 1, k)
    <3>2. Stacked(w, k - 1, x)
      BY <2>1, <3>1
    <3>3. x \in Seq(Name) /\ Len(x) = k - 1 /\ \A i \in 1 .. k - 1 : x[i] = c[i]
      BY <3>1, Initial
    <3>4. y \in Seq(Name) /\ Len(y) = k /\ \A i \in 1 .. k : y[i] = c[i]
      BY <2>2, Initial
    <3>5. c[k] \in Name /\ w[k] = c[k] /\ Same(c[k], c[k])
      BY <3>1, ElementOfSeq DEF Same
    <3> HIDE DEF x, y
    <3> DEFINE z == Append(x, c[k])
    <3>6. /\ z \in Seq(Name) /\ Len(z) = (k - 1) + 1
          /\ \A i \in 1 .. k - 1 : z[i] = x[i]
          /\ z[(k - 1) + 1] = c[k]
      BY <3>3, <3>5, AppendProperties
    <3>7. z = y
      <4> HIDE DEF z
      <4>1. \A i \in 1 .. Len(z) : z[i] = y[i]
        BY <3>1, <3>3, <3>4, <3>6
      <4> QED BY <3>1, <3>4, <3>6, <4>1, SeqEqual
    <3>8. w[(k - 1) + 1] \in Name /\ Same(w[(k - 1) + 1], c[k])
      BY <3>1, <3>5
    <3>9. Stacked(w, (k - 1) + 1, z)
      BY <3>1, <3>2, <3>5, <3>8, StackedName
    <3> QED BY <2>2, <3>1, <3>7, <3>9 DEF y
  <2> QED BY <2>3, <2>4
<1>2. Stacked(w, Len(c), SubSeq(c, 1, Len(c)))
  <2>1. Len(c) \in 0 .. Len(c)
    BY <1>0
  <2> QED BY <1>1, <2>1
<1> QED BY <1>2, SubSeqFull

\* A sequence of one element, and one of elements of a larger set.
LEMMA Single ==
  ASSUME NEW F, NEW e \in F, NEW s \in Seq(F), Len(s) = 1, s[1] = e
  PROVE  s = <<e>>
<1>1. <<e>> \in Seq(F) /\ Len(<<e>>) = 1 /\ <<e>>[1] = e
  OBVIOUS
<1>2. \A i \in 1 .. Len(s) : s[i] = <<e>>[i]
  BY <1>1
<1> QED BY <1>1, <1>2, SeqEqual

LEMMA Wider ==
  ASSUME NEW F, NEW G, F \subseteq G, NEW s \in Seq(F)
  PROVE  s \in Seq(G)
OBVIOUS

\* What the fragments of a path are.
Fragment == Name \union {"", ".", ".."}

\* Each fragment goes on from where those before it have led to.
LEMMA StackedPush ==
  ASSUME NEW t, NEW w, NEW n \in Nat, NEW p, Stacked(w, n, p),
         w[n + 1] \in Fragment
  PROVE  Stacked(w, n + 1, Push(t, p, w[n + 1]))
<1> DEFINE f == w[n + 1]
<1>1. CASE f \in {"", "."}
  <2>1. Push(t, p, f) = p
    BY <1>1 DEF Push
  <2>2. f \notin Name /\ f \notin {".."} /\ Surviving(w, n + 1) = Surviving(w, n)
    BY <1>1, NameAssumption, SurvivingOn
  <2>3. Stacked(w, n + 1, p)
    BY <2>2, StackedStay
  <2> QED BY <2>1, <2>3
<1>2. CASE f = ".."
  <2>1. Push(t, p, f) = Pop(p)
    BY <1>2 DEF Push
  <2>2. Stacked(w, n + 1, Pop(p))
    BY <1>2, StackedUp
  <2> QED BY <2>1, <2>2
<1>3. CASE f \notin {"", ".", ".."}
  <2> DEFINE m == Matched(t, p, f)
  <2>1. Push(t, p, f) = Append(p, m) /\ f \in Name
    BY <1>3 DEF Push, Fragment
  <2>2. m \in Name /\ Same(f, m)
    <3> DEFINE found == {n_1 \in Entries(t, p) : Same(n_1, f)}
    <3>1. m = IF found = {} THEN f ELSE CHOOSE x \in found : TRUE
      BY Zenon DEF Matched
    <3>2. IF found = {} THEN m = f ELSE m \in found
      BY <3>1
    <3> HIDE DEF m
    <3> QED BY <2>1, <3>2 DEF Same, Entries
  <2> HIDE DEF m
  <2>3. Stacked(w, n + 1, Append(p, m))
    BY <2>1, <2>2, StackedName
  <2> QED BY <2>1, <2>3
<1> QED BY <1>1, <1>2, <1>3

\* So does mos_path_join, whose fragments are those of w behind the d-th.
LEMMA StackedJoin ==
  ASSUME NEW t, NEW c, NEW s \in Seq(Fragment), NEW w, NEW d \in Nat,
         Stacked(w, d, Start(c, s)), \A k \in 1 .. Len(s) : w[d + k] = s[k]
  PROVE  Stacked(w, d + Len(s), mos_path_join(t, c, s))
<1>0. Len(s) \in Nat
  BY LenProperties
<1>1. PICK a : /\ mos_path_join(t, c, s) = a[Len(s)]
               /\ \A k \in 0 .. Len(s) : a[k] = IF k = 0 THEN Start(c, s) ELSE Push(t, a[k - 1], s[k])
  BY <1>0, Joining
<1> DEFINE T == {k \in 0 .. Len(s) : ~ Stacked(w, d + k, a[k])}
<1>2. T = {}
  <2> SUFFICES ASSUME T # {} PROVE FALSE
    OBVIOUS
  <2>1. PICK k \in T : \A j \in T : k <= j
    <3>1. T \in SUBSET Nat
      OBVIOUS
    <3> HIDE DEF T
    <3> QED BY <3>1, Least
  <2>2. k \in 0 .. Len(s) /\ ~ Stacked(w, d + k, a[k])
    OBVIOUS
  <2>3. CASE k = 0
    <3>1. a[k] = Start(c, s) /\ d + k = d
      BY <2>2, <2>3, <1>1
    <3> QED BY <2>2, <3>1
  <2>4. CASE k # 0
    <3>1. /\ k - 1 \in 0 .. Len(s) /\ ~ (k <= k - 1) /\ k \in 1 .. Len(s)
          /\ d + (k - 1) \in Nat /\ (d + (k - 1)) + 1 = d + k
      BY <1>0, <2>2, <2>4
    <3>2. Stacked(w, d + (k - 1), a[k - 1])
      BY <2>1, <3>1
    <3>3. w[d + k] = s[k] /\ s[k] \in Fragment
      BY <3>1, ElementOfSeq
    <3>4. a[k] = Push(t, a[k - 1], s[k])
      BY <2>2, <2>4, <1>1
    <3> DEFINE e == d + (k - 1)
    <3>5. e \in Nat /\ w[e + 1] = s[k] /\ Stacked(w, e, a[k - 1]) /\ e + 1 = d + k
      BY <3>1, <3>2, <3>3
    <3> HIDE DEF e
    <3>6. Stacked(w, e + 1, Push(t, a[k - 1], w[e + 1]))
      BY <3>3, <3>5, StackedPush
    <3> QED BY <2>2, <3>4, <3>5, <3>6
  <2> QED BY <2>3, <2>4
<1>3. Len(s) \in 0 .. Len(s)
  BY <1>0
<1> QED BY <1>1, <1>2, <1>3
-----------------------------------------------------------------------------
(***************************************************************************)
(* Names that differ in case only                                          *)
(***************************************************************************)
\* NoCaseTwins of any tree.
Twinless(t) ==
  \A p, q \in DOMAIN t : Front(p) = Front(q) /\ Same(Last(p), Last(q)) => p = q

\* A path that is spelled as on the host, and has a twin there, is there.
LEMMA TwinIsThere ==
  ASSUME NEW t, Fits(t), NEW p \in Seq(Name) \ {Root}, Spelled(t, p),
         NEW x \in DOMAIN t, Front(x) = Front(p), Same(Last(x), Last(p))
  PROVE  p \in DOMAIN t
<1>1. x \in Seq(Name) /\ x # Root
  BY DEF Fits, WellFormed
<1>2. Last(x) \in Name /\ x = Append(Front(x), Last(x))
  BY <1>1, FrontOf
<1>3. Front(p) = SubSeq(p, 1, Len(p) - 1) /\ Last(p) = p[Len(p)] /\ Len(p) \in 1 .. Len(p)
  BY FrontOf
<1>4. SubSeq(p, 1, Len(p)) = p
  BY SubSeqFull
<1>5. Append(SubSeq(p, 1, Len(p) - 1), Last(x)) \in DOMAIN t /\ Same(Last(x), p[Len(p)])
  BY <1>2, <1>3
<1>6. SubSeq(p, 1, Len(p)) \in DOMAIN t
  BY <1>2, <1>3, <1>5 DEF Spelled
<1> QED BY <1>4, <1>6

\* So a new entry under a path so spelled is no twin of another,
LEMMA NewTwinless ==
  ASSUME NEW t, Fits(t), NEW p \in Seq(Name) \ {Root}, NEW i, Spelled(t, p), Twinless(t)
  PROVE  Twinless(With(t, p, i))
<1>1. DOMAIN With(t, p, i) = DOMAIN t \union {p}
  BY DEF With
<1>2. ASSUME NEW x \in DOMAIN t \union {p}, NEW y \in DOMAIN t \union {p},
             Front(x) = Front(y), Same(Last(x), Last(y))
      PROVE  x = y
  <2>1. Same(Last(y), Last(x))
    BY <1>2 DEF Same
  <2>2. CASE x \in DOMAIN t /\ y \in DOMAIN t
    BY <2>2, <1>2 DEF Twinless
  <2>3. CASE x \in DOMAIN t /\ y = p
    <3>1. p \in DOMAIN t
      BY <2>3, <1>2, TwinIsThere
    <3> QED BY <2>3, <3>1, <1>2 DEF Twinless
  <2>4. CASE y \in DOMAIN t /\ x = p
    <3>1. p \in DOMAIN t
      BY <2>4, <2>1, <1>2, TwinIsThere
    <3> QED BY <2>4, <3>1, <1>2 DEF Twinless
  <2>5. CASE x = p /\ y = p
    BY <2>5
  <2> QED BY <2>2, <2>3, <2>4, <2>5
<1> QED BY <1>1, <1>2 DEF Twinless

\* (Two paths in the same directory, and back:)
LEMMA SameFront ==
  ASSUME NEW x \in Seq(Name), x # Root, NEW y \in Seq(Name), y # Root,
         Front(x) = Front(y)
  PROVE  Len(x) = Len(y) /\ \A i \in 1 .. Len(x) - 1 : x[i] = y[i]
<1>1. /\ Len(x) \in Nat /\ Len(Front(x)) = Len(x) - 1
      /\ \A i \in 1 .. Len(x) - 1 : Front(x)[i] = x[i]
  BY FrontOf
<1>2. /\ Len(y) \in Nat /\ Len(Front(y)) = Len(y) - 1
      /\ \A i \in 1 .. Len(y) - 1 : Front(y)[i] = y[i]
  BY FrontOf
<1>3. Len(x) = Len(y)
  BY <1>1, <1>2
<1> QED BY <1>1, <1>2, <1>3

LEMMA FrontAlike ==
  ASSUME NEW x \in Seq(Name), x # Root, NEW y \in Seq(Name), y # Root,
         Len(x) = Len(y), \A i \in 1 .. Len(x) - 1 : x[i] = y[i]
  PROVE  Front(x) = Front(y)
<1>1. /\ Front(x) \in Seq(Name) /\ Len(Front(x)) = Len(x) - 1
      /\ \A i \in 1 .. Len(x) - 1 : Front(x)[i] = x[i]
  BY FrontOf
<1>2. /\ Front(y) \in Seq(Name) /\ Len(Front(y)) = Len(y) - 1
      /\ \A i \in 1 .. Len(y) - 1 : Front(y)[i] = y[i]
  BY FrontOf
<1>3. \A i \in 1 .. Len(Front(x)) : Front(x)[i] = Front(y)[i]
  BY <1>1, <1>2
<1> QED BY <1>1, <1>2, <1>3, SeqEqual

\* a renamed entry is none either, nor is what it takes along,
LEMMA RenamedTwinless ==
  ASSUME NEW t, Fits(t), NEW p \in Seq(Name), NEW q \in Seq(Name),
         Renaming(t, p, q) = "ok", p # q, Spelled(t, q), Twinless(t)
  PROVE  Twinless(Renamed(t, p, q))
<1> DEFINE n == Renamed(t, p, q)
<1>0. /\ p # Root /\ q # Root /\ \A x \in DOMAIN t : IsPrefix(q, x) => x = q
      /\ DOMAIN t \subseteq Seq(Name) \ {Root}
      /\ ~ IsPrefix(p, q)
  BY RenamingOk DEF Fits, WellFormed
<1>1. PICK O \in [DOMAIN n -> DOMAIN t \ {q}] :
           \A x \in DOMAIN n : \/ Stays(t, p, q, x) /\ O[x] = x
                               \/ Moves(t, p, q, x, O[x])
  BY RenamedOrigins
<1>2. DOMAIN n \subseteq Seq(Name) \ {Root}
  BY RenamedFits DEF Fits, WellFormed
<1> HIDE DEF n
<1>3. ASSUME NEW x \in DOMAIN n, NEW y \in DOMAIN n, Front(x) = Front(y), Same(Last(x), Last(y)),
             Stays(t, p, q, x), Moves(t, p, q, y, O[y])
      PROVE  FALSE
  <2>0. x \in DOMAIN t /\ x # q /\ IsPrefix(q, y) /\ x \in Seq(Name) /\ y \in Seq(Name)
        /\ x # Root /\ y # Root
    BY <1>2, <1>3 DEF Stays, Moves
  <2>1. Len(q) \in Nat /\ Len(y) \in Nat /\ (IF Len(q) = Len(y) THEN q = y ELSE Len(q) < Len(y))
    BY <2>0, PrefixStrict
  <2>2. CASE Len(q) = Len(y)
    <3>1. y = q
      BY <2>1, <2>2
    <3>2. q \in DOMAIN t
      BY <3>1, <2>0, <1>0, <1>3, TwinIsThere
    <3> QED BY <3>1, <3>2, <2>0, <1>3 DEF Twinless
  <2>3. CASE Len(q) # Len(y)
    <3>1. Len(x) = Len(y) /\ \A i \in 1 .. Len(x) - 1 : x[i] = y[i]
      BY <2>0, <1>3, SameFront
    <3>2. \A i \in 1 .. Len(q) : q[i] = y[i]
      BY <2>0, Prefix
    <3>3. Len(q) <= Len(x) /\ \A i \in 1 .. Len(q) : q[i] = x[i]
      BY <2>1, <2>3, <3>1, <3>2
    <3>4. IsPrefix(q, x)
      BY <2>0, <3>3, Prefix
    <3> QED BY <3>4, <2>0, <1>0
  <2> QED BY <2>2, <2>3
<1>4. ASSUME NEW x \in DOMAIN n, NEW y \in DOMAIN n, Front(x) = Front(y), Same(Last(x), Last(y)),
             Moves(t, p, q, x, O[x]), Moves(t, p, q, y, O[y])
      PROVE  x = y
  <2> DEFINE r == O[x]
             u == O[y]
  <2>1. /\ r \in DOMAIN t /\ u \in DOMAIN t /\ IsPrefix(p, r) /\ IsPrefix(p, u)
        /\ x = Onto(r, p, q) /\ y = Onto(u, p, q) /\ IsPrefix(q, x) /\ IsPrefix(q, y)
        /\ x \in Seq(Name) /\ y \in Seq(Name) /\ x # Root /\ y # Root
        /\ r \in Seq(Name) /\ u \in Seq(Name) /\ r # Root /\ u # Root
    BY <1>0, <1>2, <1>4 DEF Moves
  <2> HIDE DEF r, u
  <2>2. Len(x) = Len(y) /\ \A i \in 1 .. Len(x) - 1 : x[i] = y[i]
    BY <2>1, <1>4, SameFront
  <2>3. /\ Len(x) = Len(q) + (Len(r) - Len(p)) /\ Len(y) = Len(q) + (Len(u) - Len(p))
        /\ \A i \in Len(q) + 1 .. Len(x) : x[i] = r[(i - Len(q)) + Len(p)]
        /\ \A i \in Len(q) + 1 .. Len(y) : y[i] = u[(i - Len(q)) + Len(p)]
    <3>1. ASSUME NEW v \in Seq(Name), IsPrefix(p, v), NEW z, z = Onto(v, p, q)
          PROVE  /\ Len(z) = Len(q) + (Len(v) - Len(p))
                 /\ \A i \in Len(q) + 1 .. Len(z) : z[i] = v[(i - Len(q)) + Len(p)]
      BY <3>1, MovedPath
    <3>2. /\ Len(x) = Len(q) + (Len(r) - Len(p))
          /\ \A i \in Len(q) + 1 .. Len(x) : x[i] = r[(i - Len(q)) + Len(p)]
      BY <2>1, <3>1, Zenon
    <3>3. /\ Len(y) = Len(q) + (Len(u) - Len(p))
          /\ \A i \in Len(q) + 1 .. Len(y) : y[i] = u[(i - Len(q)) + Len(p)]
      BY <2>1, <3>1, Zenon
    <3> QED BY <3>2, <3>3
  <2>4. /\ Len(p) \in Nat /\ Len(q) \in Nat /\ Len(r) \in Nat /\ Len(u) \in Nat /\ Len(x) \in Nat
        /\ Len(p) <= Len(r) /\ Len(q) <= Len(x)
        /\ \A i \in 1 .. Len(p) : p[i] = r[i] /\ p[i] = u[i]
    BY <2>1, Prefix, LenProperties
  <2>5. Len(r) = Len(u)
    <3>1. Len(q) + (Len(r) - Len(p)) = Len(q) + (Len(u) - Len(p))
      BY <2>2, <2>3
    <3> QED BY <2>4, <3>1
  <2>6. CASE Len(x) = Len(q)
    BY <2>6, <2>1, <2>2, PrefixStrict
  <2>7. CASE Len(x) # Len(q)
    <3>1. ASSUME NEW i \in Len(p) + 1 .. Len(r)
          PROVE  /\ (i - Len(p)) + Len(q) \in Len(q) + 1 .. Len(x)
                 /\ r[i] = x[(i - Len(p)) + Len(q)] /\ u[i] = y[(i - Len(p)) + Len(q)]
      <4>1. (i - Len(p)) + Len(q) \in Len(q) + 1 .. Len(x)
        BY <2>3, <2>4
      <4>2. (((i - Len(p)) + Len(q)) - Len(q)) + Len(p) = i
        BY <2>4
      <4>3. (i - Len(p)) + Len(q) \in Len(q) + 1 .. Len(y)
        BY <4>1, <2>2
      <4>4. x[(i - Len(p)) + Len(q)] = r[i]
        BY <4>1, <4>2, <2>3
      <4>5. y[(i - Len(p)) + Len(q)] = u[i]
        BY <4>3, <4>2, <2>3
      <4> QED BY <4>1, <4>4, <4>5
    <3>2. ASSUME NEW i \in 1 .. Len(r) - 1 PROVE r[i] = u[i]
      <4>1. CASE i <= Len(p)
        BY <4>1, <2>4
      <4>2. CASE i > Len(p)
        <5>1. i \in Len(p) + 1 .. Len(r) /\ (i - Len(p)) + Len(q) \in 1 .. Len(x) - 1
          BY <4>2, <2>3, <2>4
        <5> QED BY <5>1, <3>1, <2>2
      <4> QED BY <4>1, <4>2, <2>4
    <3>3. Front(r) = Front(u)
      BY <2>1, <2>5, <3>2, FrontAlike
    <3>4. Last(r) = Last(x) /\ Last(u) = Last(y)
      <4>1. Len(r) \in Len(p) + 1 .. Len(r) /\ (Len(r) - Len(p)) + Len(q) = Len(x)
        <5>1. Len(x) = Len(q) + (Len(r) - Len(p))
          BY <2>3
        <5>2. Len(p) < Len(r)
          BY <5>1, <2>4, <2>7
        <5> QED BY <5>1, <5>2, <2>4
      <4>2. r[Len(r)] = x[Len(x)] /\ u[Len(u)] = y[Len(y)]
        BY <4>1, <3>1, <2>2, <2>5
      <4> QED BY <4>2, <2>1, FrontOf
    <3>5. r = u
      BY <2>1, <3>3, <3>4, <1>4 DEF Twinless
    <3> QED BY <3>5, <2>1
  <2> QED BY <2>6, <2>7
<1>5. ASSUME NEW x \in DOMAIN n, NEW y \in DOMAIN n, Front(x) = Front(y), Same(Last(x), Last(y))
      PROVE  x = y
  <2>1. Same(Last(y), Last(x))
    BY <1>5 DEF Same
  <2>2. CASE Stays(t, p, q, x) /\ Stays(t, p, q, y)
    BY <2>2, <1>5 DEF Stays, Twinless
  <2>3. CASE Stays(t, p, q, x) /\ Moves(t, p, q, y, O[y])
    BY <2>3, <1>3, <1>5
  <2>4. CASE Stays(t, p, q, y) /\ Moves(t, p, q, x, O[x])
    BY <2>1, <2>4, <1>3, <1>5
  <2>5. CASE Moves(t, p, q, x, O[x]) /\ Moves(t, p, q, y, O[y])
    BY <2>5, <1>4, <1>5
  <2> QED BY <1>1, <2>2, <2>3, <2>4, <2>5
<1> QED BY <1>5 DEF Twinless, n

\* and one that goes leaves none.
LEMMA GoneTwinless ==
  ASSUME NEW t, NEW p, Twinless(t)
  PROVE  Twinless(Without(t, p))
BY DEF Twinless, Without

\* Two paths that the same fragments denote differ in case only.
LEMMA DenotedAlike ==
  ASSUME NEW w, NEW p, Stacked(w, Len(w), p), NEW q, Denotes(w, q)
  PROVE  Denotes(w, p) /\ Len(q) = Len(p) /\ \A r \in 1 .. Len(p) : Same(q[r], p[r])
<1> DEFINE left == Surviving(w, Len(w))
<1>1. /\ Len(p) = Cardinality(left) /\ Len(q) = Cardinality(left)
      /\ \A i \in left : Same(w[i], p[Rank(left, i)]) /\ Same(w[i], q[Rank(left, i)])
      /\ \A r \in 1 .. Len(p) : \E i \in left : Rank(left, i) = r
  BY Zenon DEF Stacked, Denotes
<1>2. ASSUME NEW r \in 1 .. Len(p) PROVE Same(q[r], p[r])
  BY <1>1 DEF Same
<1> QED BY <1>1, <1>2, Zenon DEF Denotes

\* In a tree without twins a path that differs from one spelled as on the host
\* in case only is that one: there is no first name in which they differ.
LEMMA SpelledFound ==
  ASSUME NEW t, Fits(t), Twinless(t), NEW p \in Seq(Name), Spelled(t, p),
         NEW q \in DOMAIN t, Len(q) = Len(p), \A r \in 1 .. Len(p) : Same(q[r], p[r])
  PROVE  q = p
<1>0. q \in Seq(Name) /\ q # Root /\ Len(p) \in Nat /\ \A x \in Above(q) : IsDir(t, x)
  BY LenProperties DEF Fits, WellFormed
<1> DEFINE T == {r \in 1 .. Len(p) : q[r] # p[r]}
<1>1. T = {}
  <2> SUFFICES ASSUME T # {} PROVE FALSE
    OBVIOUS
  <2>1. PICK k \in T : \A j \in T : k <= j
    <3>1. T \in SUBSET Nat
      OBVIOUS
    <3> HIDE DEF T
    <3> QED BY <3>1, Least
  <2>2. /\ k \in 1 .. Len(p) /\ q[k] # p[k] /\ k - 1 \in 0 .. Len(p) /\ k \in 0 .. Len(p)
        /\ k \in Nat /\ (k - 1) + 1 = k
    BY <1>0
  <2>3. ASSUME NEW r \in 1 .. k - 1 PROVE q[r] = p[r]
    <3>1. r \in 1 .. Len(p) /\ ~ (k <= r)
      BY <1>0, <2>2
    <3> QED BY <2>1, <3>1
  <2> HIDE DEF T
  <2> DEFINE x == SubSeq(q, 1, k)
             y == SubSeq(p, 1, k)
             u == SubSeq(q, 1, k - 1)
             v == SubSeq(p, 1, k - 1)
  <2>4. x \in Seq(Name) /\ Len(x) = k /\ \A r \in 1 .. k : x[r] = q[r]
    BY <1>0, <2>2, Initial
  <2>5. y \in Seq(Name) /\ Len(y) = k /\ \A r \in 1 .. k : y[r] = p[r]
    BY <2>2, Initial
  <2>6. u \in Seq(Name) /\ Len(u) = k - 1 /\ \A r \in 1 .. k - 1 : u[r] = q[r]
    BY <1>0, <2>2, Initial
  <2>7. v \in Seq(Name) /\ Len(v) = k - 1 /\ \A r \in 1 .. k - 1 : v[r] = p[r]
    BY <2>2, Initial
  <2> HIDE DEF x, y, u, v
  <2>8. u = v
    <3>1. \A r \in 1 .. Len(u) : u[r] = v[r]
      BY <2>3, <2>6, <2>7
    <3> QED BY <2>6, <2>7, <3>1, SeqEqual
  <2>9. x # Root /\ y # Root
    <3>1. Len(Root) = 0 /\ k # 0
      BY <2>2, EmptySeq DEF Root
    <3> QED BY <2>4, <2>5, <3>1
  <2>10. /\ Front(x) = SubSeq(x, 1, k - 1) /\ Last(x) = q[k] /\ x = Append(Front(x), Last(x))
         /\ Front(x) \in Seq(Name) /\ Len(Front(x)) = k - 1 /\ \A r \in 1 .. k - 1 : Front(x)[r] = x[r]
         /\ q[k] \in Name
    <3>1. k \in 1 .. k
      BY <2>2
    <3> QED BY <2>4, <2>9, <3>1, FrontOf
  <2>11. /\ Last(y) = p[k] /\ Front(y) \in Seq(Name) /\ Len(Front(y)) = k - 1
         /\ \A r \in 1 .. k - 1 : Front(y)[r] = y[r]
    <3>1. k \in 1 .. k
      BY <2>2
    <3> QED BY <2>5, <2>9, <3>1, FrontOf
  <2>12. Front(x) = v
    <3>1. \A r \in 1 .. Len(v) : Front(x)[r] = v[r]
      <4>1. ASSUME NEW r \in 1 .. k - 1 PROVE Front(x)[r] = v[r]
        <5>1. r \in 1 .. k
          BY <2>2
        <5> QED BY <5>1, <2>3, <2>4, <2>7, <2>10
      <4> QED BY <4>1, <2>7
    <3> QED BY <2>7, <2>10, <3>1, SeqEqual
  <2>13. Front(y) = v
    <3>1. \A r \in 1 .. Len(v) : Front(y)[r] = v[r]
      <4>1. ASSUME NEW r \in 1 .. k - 1 PROVE Front(y)[r] = v[r]
        <5>1. r \in 1 .. k
          BY <2>2
        <5> QED BY <5>1, <2>5, <2>7, <2>11
      <4> QED BY <4>1, <2>7
    <3> QED BY <2>7, <2>11, <3>1, SeqEqual
  <2>14. x \in DOMAIN t
    <3>1. CASE k = Len(p)
      <4>1. x = q
        BY <1>0, <3>1, SubSeqFull DEF x
      <4> QED BY <4>1
    <3>2. CASE k # Len(p)
      <4>1. k \in 1 .. Len(q) - 1
        BY <1>0, <2>2, <3>2
      <4>2. x \in Above(q)
        BY <4>1 DEF Above, x
      <4> QED BY <1>0, <2>9, <4>2 DEF IsDir
    <3> QED BY <3>1, <3>2
  <2>15. Same(q[k], p[k])
    BY <2>2
  <2>16. y \in DOMAIN t
    <3>1. Append(SubSeq(p, 1, k - 1), q[k]) \in DOMAIN t
      BY <2>10, <2>12, <2>14 DEF v
    <3> QED BY <2>2, <2>10, <2>15, <3>1 DEF Spelled, y
  <2>17. x = y
    BY <2>10, <2>11, <2>12, <2>13, <2>14, <2>15, <2>16 DEF Twinless
  <2>18. q[k] = p[k]
    BY <2>10, <2>11, <2>17
  <2> QED BY <2>2, <2>18
<1>2. \A r \in 1 .. Len(q) : q[r] = p[r]
  BY <1>1
<1> QED BY <1>0, <1>2, SeqEqual
-----------------------------------------------------------------------------
(***************************************************************************)
(* The invariant, and what the calls need of it                            *)
(***************************************************************************)
\* A finite set has no more images than elements.
LEMMA ImageSize ==
  ASSUME NEW S, IsFiniteSet(S), NEW g
  PROVE  LET T == {g[x] : x \in S}
         IN  IsFiniteSet(T) /\ Cardinality(T) <= Cardinality(S)
<1> DEFINE T == {g[x] : x \in S}
           h == [x \in S |-> g[x]]
<1>1. h \in Surjection(S, T)
  BY DEF Surjection
<1> QED BY <1>1, FS_Surjection

\* The inductive invariant: an FIL that is not open is cleared, and the host
\* keeps bytes for no file that is neither named nor open.
HostInv ==
  /\ TypeOK /\ Fits(tree)
  /\ \A f \in Fils : open_files[f].ino = 0 => open_files[f] = Closed
  /\ content = Kept(content, tree, open_files)

\* While the tree has room there is a file that is neither named nor open: the
\* named ones are no more than the entries, the open ones no more than the FILs.
LEMMA FreeFile ==
  ASSUME HostInv, Cardinality(DOMAIN tree) < MaxNodes
  PROVE  Free \in Inodes /\ Free \notin Named(tree) \union Held(open_files)
<1> DEFINE N == {tree[p] : p \in DOMAIN tree}
           inode == [f \in Fils |-> open_files[f].ino]
           H == {inode[f] : f \in Fils}
           U == N \union H
<1>1. IsFiniteSet(N) /\ Cardinality(N) <= Cardinality(DOMAIN tree)
  BY ImageSize DEF HostInv, Fits
<1>2. IsFiniteSet(H) /\ Cardinality(H) <= Cardinality(Fils)
  <2> HIDE DEF inode
  <2> QED BY ImageSize, HostFsAssumption
<1>3. Named(tree) \subseteq N /\ Held(open_files) \subseteq H
  BY DEF Named, Held
<1> HIDE DEF N, H
<1>4. IsFiniteSet(U) /\ Cardinality(U) = Cardinality(N) + Cardinality(H) - Cardinality(N \cap H)
  BY <1>1, <1>2, FS_Union
<1>5. IsFiniteSet(N \cap H)
  BY <1>1, FS_Subset
<1>6. /\ Cardinality(N) \in Nat /\ Cardinality(H) \in Nat /\ Cardinality(N \cap H) \in Nat
      /\ Cardinality(DOMAIN tree) \in Nat /\ Cardinality(Fils) \in Nat
  BY <1>1, <1>2, <1>5, FS_CardinalityType, HostFsAssumption DEF HostInv, Fits
<1>7. Cardinality(U) < Cardinality(Inodes)
  <2>1. Cardinality(Inodes) \in Nat /\ MaxNodes \in Nat /\ MaxNodes + Cardinality(Fils) <= Cardinality(Inodes)
    BY FS_CardinalityType, HostFsAssumption
  <2> HIDE DEF U
  <2> QED BY <2>1, <1>1, <1>2, <1>4, <1>6
<1>8. ~ (Inodes \subseteq U)
  <2> HIDE DEF U
  <2> SUFFICES ASSUME Inodes \subseteq U PROVE FALSE
    OBVIOUS
  <2>1. Cardinality(Inodes) <= Cardinality(U)
    BY <1>4, FS_Subset
  <2>2. Cardinality(Inodes) \in Nat /\ Cardinality(U) \in Nat
    BY <1>4, FS_CardinalityType, HostFsAssumption
  <2> QED BY <1>7, <2>1, <2>2
<1>9. \E i \in Inodes : i \notin Named(tree) \union Held(open_files)
  BY <1>3, <1>8
<1> QED BY <1>9, Zenon DEF Free

LEMMA Minimum ==
  ASSUME NEW S \in SUBSET Nat, S # {}
  PROVE  Min(S) \in S /\ \A x \in S : Min(S) <= x
<1>1. \E v \in S : \A w \in S : v <= w
  BY Least
<1> QED BY <1>1, Zenon DEF Min

LEMMA Maximum ==
  ASSUME NEW a \in Nat, NEW b \in Nat
  PROVE  Max({a, b}) = IF a <= b THEN b ELSE a
<1>1. \E v \in {a, b} : \A w \in {a, b} : v >= w
  <2>1. CASE a <= b
    BY <2>1
  <2>2. CASE ~ (a <= b)
    BY <2>2
  <2> QED BY <2>1, <2>2
<1>2. Max({a, b}) \in {a, b} /\ \A w \in {a, b} : Max({a, b}) >= w
  BY <1>1, Zenon DEF Max
<1> QED BY <1>2

LEMMA JoinType ==
  ASSUME HostInv, NEW s \in Strings
  PROVE  /\ Join(s) \in Seq(Name)
         /\ IsDir(tree, Start(cwd, s)) => Spelled(tree, Join(s))
         /\ IsDir(tree, cwd) => Spelled(tree, Join(s))
<1>1. Fits(tree) /\ cwd \in Seq(Name)
  BY DEF HostInv, TypeOK
<1>2. IsDir(tree, cwd) => IsDir(tree, Start(cwd, s))
  BY DEF Start, IsDir
<1> QED BY <1>1, <1>2, JoinedPath DEF Join

\* The FILs as the store of files has them.
Cursor == [f \in Fils |-> [file |-> open_files[f].ino, pos |-> open_files[f].pos]]

\* What the host keeps is what the store does.
LEMMA KeptIsKeeping ==
  ASSUME NEW s
  PROVE  Store!Keeping(s) <=> content' = Kept(s, tree', open_files')
<1>1. Store!Held = Held(open_files)
  BY DEF Store!Held, Held
<1>2. Store!Held' = Held(open_files')
  BY DEF Store!Held, Held
<1> QED BY <1>1, <1>2 DEF Store!Keeping, Kept

\* An FIL is opened or closed.
LEMMA Insertion ==
  ASSUME TypeOK, NEW f \in Fils, NEW h \in File, open_files' = [open_files EXCEPT ![f] = h]
  PROVE  /\ open_files' \in [Fils -> File]
         /\ Cursor' = [Cursor EXCEPT ![f] = [file |-> h.ino, pos |-> h.pos]]
         /\ \A g \in Fils : open_files'[g] = IF g = f THEN h ELSE open_files[g]
<1>1. open_files \in [Fils -> File]
  BY DEF TypeOK
<1>2. \A g \in Fils : open_files'[g] = IF g = f THEN h ELSE open_files[g]
  BY <1>1
<1>3. open_files' \in [Fils -> File]
  BY <1>1
<1>4. Cursor' = [g \in Fils |-> [file |-> open_files'[g].ino, pos |-> open_files'[g].pos]]
  BY DEF Cursor
<1> QED BY <1>2, <1>3, <1>4 DEF Cursor

\* The cursor of an open FIL moves.
LEMMA Movement ==
  ASSUME HostInv, NEW f \in Fils, NEW pos \in Nat, IsOpen(f), MoveTo(f, pos)
  PROVE  /\ open_files' \in [Fils -> File]
         /\ open_files[f] \in File /\ open_files[f].ino \in Inodes /\ open_files[f].ino \in Held(open_files)
         /\ Cursor' = [Cursor EXCEPT ![f].pos = pos]
         /\ Cursor'[f].pos = pos /\ Cursor[f].pos = open_files[f].pos
         /\ Cursor[f].file = open_files[f].ino
         /\ Cursor[f] # Store!Closed
         /\ Held(open_files') = Held(open_files)
         /\ \A g \in Fils : open_files'[g].ino = 0 => open_files'[g] = Closed
<1>1. open_files \in [Fils -> File] /\ open_files[f] \in File
  BY DEF HostInv, TypeOK
<1>2. open_files[f].ino # 0 /\ open_files[f].ino \in Inodes /\ open_files[f].ino \in Held(open_files)
  BY <1>1 DEF HostInv, IsOpen, File, Held
<1>3. \A g \in Fils : open_files'[g] = IF g = f THEN [open_files[f] EXCEPT !.pos = pos] ELSE open_files[g]
  BY <1>1 DEF MoveTo
<1>4. /\ [open_files[f] EXCEPT !.pos = pos] \in File
      /\ [open_files[f] EXCEPT !.pos = pos].ino = open_files[f].ino
      /\ [open_files[f] EXCEPT !.pos = pos].pos = pos
  BY <1>1 DEF File
<1>5. open_files' \in [Fils -> File]
  BY <1>1, <1>4 DEF MoveTo
<1>6. \A g \in Fils : open_files'[g].ino = open_files[g].ino
  BY <1>3, <1>4
<1>7. Held(open_files') = Held(open_files)
  BY <1>6 DEF Held
<1>8. /\ Cursor' = [g \in Fils |-> [file |-> open_files'[g].ino, pos |-> open_files'[g].pos]]
      /\ Cursor'[f].pos = pos /\ Cursor[f].pos = open_files[f].pos /\ Cursor[f].file = open_files[f].ino
  BY <1>3, <1>4 DEF Cursor
<1>9. Cursor' = [Cursor EXCEPT ![f].pos = pos]
  <2>1. \A g \in Fils : [file |-> open_files'[g].ino, pos |-> open_files'[g].pos]
          = IF g = f THEN [Cursor[f] EXCEPT !.pos = pos] ELSE Cursor[g]
    BY <1>3, <1>4 DEF Cursor
  <2>2. [Cursor EXCEPT ![f].pos = pos] = [g \in Fils |-> IF g = f THEN [Cursor[f] EXCEPT !.pos = pos] ELSE Cursor[g]]
    BY DEF Cursor
  <2> QED BY <1>8, <2>1, <2>2
<1>10. Cursor[f] # Store!Closed
  BY <1>2 DEF Cursor, Store!Closed
<1>11. \A g \in Fils : open_files'[g].ino = 0 => open_files'[g] = Closed
  BY <1>2, <1>3, <1>6 DEF HostInv
<1> QED BY <1>1, <1>2, <1>5, <1>7, <1>8, <1>9, <1>10, <1>11

LEMMA LookedUp ==
  ASSUME NEW t, NEW p, Fresult(Lookup(t, p)) = 0
  PROVE  Exists(t, p)
BY SMT DEF Fresult, Lookup

\* What f_open opens is a file, or a new one for which there is a place.
LEMMA OpenFinds ==
  ASSUME NEW p \in Seq(Name), NEW m, OpenRefused(p, m) = 0
  PROVE  \/ p \in DOMAIN tree /\ tree[p] # Dir /\ IsFile(tree, p)
         \/ /\ p \notin DOMAIN tree /\ p # Root /\ ~ IsFile(tree, p)
            /\ Reach(tree, p) = "ok" /\ Cardinality(DOMAIN tree) < MaxNodes
<1>1. ~ IsDir(tree, p)
  BY DEF OpenRefused
<1>2. CASE IsFile(tree, p)
  BY <1>1, <1>2 DEF IsFile, Exists, IsDir
<1>3. CASE ~ IsFile(tree, p)
  <2>1. ~ Exists(tree, p)
    BY <1>1, <1>3 DEF IsFile
  <2>2. Fresult(Lookup(tree, p)) # 0
    BY <2>1, LookedUp
  <2>3. Reach(tree, p) = "ok" /\ Cardinality(DOMAIN tree) < MaxNodes
    BY <1>1, <1>3, <2>2 DEF OpenRefused
  <2> QED BY <1>3, <2>1, <2>3 DEF Exists
<1> QED BY <1>2, <1>3

LEMMA RefusalCodes ==
  ASSUME NEW p, NEW m, NEW t
  PROVE  OpenRefused(p, m) \in {0, 1, 4} /\ Fresult(Lookup(t, p)) \in {0, 1, 4}
BY DEF OpenRefused, Fresult

\* A step that leaves the host and the FILs alone.
LEMMA Unchanged ==
  ASSUME HostInv, UNCHANGED <<host, cwd, open_files>>, open_dirs' \subseteq Dirs,
         fptr' \in [Fils -> 0 .. WordSize - 1], result' \in {0, 1, 4}
  PROVE  HostInv' /\ Cursor' = Cursor /\ Named(tree)' = Named(tree)
<1>1. tree' = tree /\ content' = content /\ cwd' = cwd /\ open_files' = open_files
  BY DEF host
<1>2. TypeOK'
  BY <1>1 DEF HostInv, TypeOK
<1>3. /\ Fits(tree') /\ (\A f \in Fils : open_files'[f].ino = 0 => open_files'[f] = Closed)
      /\ content' = Kept(content', tree', open_files')
  BY <1>1 DEF HostInv
<1>4. Cursor' = Cursor /\ Named(tree)' = Named(tree)
  BY <1>1 DEF Cursor, Named
<1> QED BY <1>2, <1>3, <1>4 DEF HostInv

LEMMA FptrType ==
  ASSUME TypeOK, NEW f \in Fils, NEW pos \in Nat, SaveFptr(f, pos)
  PROVE  /\ fptr' \in [Fils -> 0 .. WordSize - 1]
         /\ \A g \in Fils : fptr'[g] = IF g = f THEN pos % WordSize ELSE fptr[g]
<1>1. pos % WordSize \in 0 .. WordSize - 1
  <2>1. WordSize \in Nat \ {0}
    BY HostFsAssumption
  <2> QED BY <2>1
<1>2. fptr \in [Fils -> 0 .. WordSize - 1] /\ fptr' = [fptr EXCEPT ![f] = pos % WordSize]
  BY DEF TypeOK, SaveFptr
<1> QED BY <1>1, <1>2

LEMMA KeptType ==
  ASSUME NEW c \in [Inodes -> Seq(Bytes)], NEW t, NEW o
  PROVE  Kept(c, t, o) \in [Inodes -> Seq(Bytes)] /\ Kept(Kept(c, t, o), t, o) = Kept(c, t, o)
<1>1. <<>> \in Seq(Bytes)
  BY EmptySeq
<1>2. \A i \in Inodes : (IF i \in Named(t) \union Held(o) THEN c[i] ELSE <<>>) \in Seq(Bytes)
  BY <1>1
<1>3. Kept(c, t, o) \in [Inodes -> Seq(Bytes)]
  BY <1>2 DEF Kept
<1>4. Kept(Kept(c, t, o), t, o) = Kept(c, t, o)
  BY DEF Kept
<1> QED BY <1>3, <1>4

LEMMA OpenStep ==
  ASSUME HostInv, NEW f \in Fils, NEW s \in Strings, NEW m \in Modes, f_open(f, s, m),
         UNCHANGED <<cwd, open_dirs>>
  PROVE  HostInv' /\ (Store!Nothing \/ \E i \in Inodes : Store!Open(f, i))
<1> DEFINE p == Join(s)
           i == IF IsFile(tree, p) THEN tree[p] ELSE Free
           c == IF FA_CREATE_ALWAYS \in m THEN [content EXCEPT ![i] = <<>>] ELSE content
<1>0. p \in Seq(Name) /\ TypeOK /\ Fits(tree) /\ WordSize \in Nat \ {0}
  BY JoinType, HostFsAssumption DEF HostInv
<1> HIDE DEF p
<1>1. CASE OpenRefused(p, m) # 0
  <2>1. /\ result' = OpenRefused(p, m) /\ out' = <<>>
        /\ UNCHANGED <<host, open_files, fptr>>
    BY <1>1, Zenon DEF f_open, p, Answer
  <2>2. HostInv' /\ Cursor' = Cursor /\ Named(tree)' = Named(tree)
    BY <2>1, Unchanged, RefusalCodes DEF HostInv, TypeOK
  <2>3. Store!Nothing
    BY <2>1, <2>2, Zenon DEF Store!Nothing, Cursor, host
  <2> QED BY <2>2, <2>3
<1>2. CASE OpenRefused(p, m) = 0
  <2> DEFINE h == [ino |-> i, pos |-> 0, write |-> FA_WRITE \in m]
  <2>1. /\ result' = 0 /\ out' = <<>>
        /\ tree' = With(tree, p, i)
        /\ open_files' = [open_files EXCEPT ![f] = h]
        /\ content' = Kept(c, tree', open_files')
        /\ SaveFptr(f, 0)
    BY <1>2, Zenon DEF f_open, p, Answer, Insert
  <2>2. \/ p \in DOMAIN tree /\ tree[p] # Dir /\ IsFile(tree, p)
        \/ /\ p \notin DOMAIN tree /\ p # Root /\ ~ IsFile(tree, p)
           /\ Reach(tree, p) = "ok" /\ Cardinality(DOMAIN tree) < MaxNodes
    BY <1>0, <1>2, OpenFinds
  <2>3. i \in Inodes /\ i # Dir /\ p # Root
    <3>1. 0 \notin Inodes
      BY HostFsAssumption DEF Dir
    <3>2. CASE IsFile(tree, p)
      BY <3>2, <2>2, <1>0 DEF Fits, WellFormed
    <3>3. CASE ~ IsFile(tree, p)
      <4>1. i = Free
        BY <3>3
      <4> HIDE DEF i
      <4> QED BY <4>1, <3>1, <3>3, <2>2, FreeFile DEF Dir
    <3> QED BY <3>2, <3>3
  <2>4. IF p \in DOMAIN tree THEN i = tree[p] ELSE i \notin Named(tree) \union Held(open_files)
    BY <2>2, FreeFile DEF IsFile, IsDir, Exists
  <2> HIDE DEF i
  <2>5. Fits(tree') /\ Named(tree') = Named(tree) \union {i}
    <3>1. \A q \in Above(p) : IsDir(tree, q)
      <4>1. CASE p \in DOMAIN tree
        BY <4>1, <1>0 DEF Fits, WellFormed
      <4>2. CASE p \notin DOMAIN tree
        BY <4>2, <2>2 DEF Reach
      <4> QED BY <4>1, <4>2
    <3>2. p \notin DOMAIN tree => i \notin Named(tree) /\ Cardinality(DOMAIN tree) < MaxNodes
      BY <2>2, <2>4
    <3>3. Fits(With(tree, p, i)) /\ Named(With(tree, p, i)) = Named(tree) \union ({i} \ {Dir})
      BY <3>1, <3>2, <2>2, <2>3, <2>4, <1>0, NewEntry
    <3> QED BY <3>3, <2>1, <2>3
  <2>6. h \in File
    BY <2>3 DEF File
  <2>7. /\ open_files' \in [Fils -> File]
        /\ Cursor' = [Cursor EXCEPT ![f] = [file |-> i, pos |-> 0]]
        /\ \A g \in Fils : open_files'[g] = IF g = f THEN h ELSE open_files[g]
    <3>1. h.ino = i /\ h.pos = 0
      OBVIOUS
    <3> HIDE DEF h
    <3> QED BY <3>1, <2>1, <2>6, <1>0, Insertion
  <2>8. c \in [Inodes -> Seq(Bytes)] /\ (c = content \/ c = [content EXCEPT ![i] = <<>>])
    BY <2>3, <1>0, EmptySeq DEF TypeOK
  <2>9. fptr' \in [Fils -> 0 .. WordSize - 1]
    BY <1>0, <2>1, FptrType
  <2>10. content' \in [Inodes -> Seq(Bytes)] /\ content' = Kept(content', tree', open_files')
    <3> HIDE DEF c, h
    <3> QED BY <2>1, <2>8, KeptType
  <2>11. TypeOK'
    BY <2>1, <2>5, <2>7, <2>9, <2>10, <1>0 DEF TypeOK, Fits
  <2>12. \A g \in Fils : open_files'[g].ino = 0 => open_files'[g] = Closed
    <3>1. h.ino # 0
      BY <2>3 DEF Dir
    <3> QED BY <3>1, <2>7 DEF HostInv
  <2>13. HostInv'
    BY <2>5, <2>10, <2>11, <2>12 DEF HostInv
  <2>14. \E j \in Inodes : Store!Open(f, j)
    <3>1. \/ i \in Named(tree) /\ Named(tree)' = Named(tree)
          \/ i \notin Named(tree) \union Held(open_files) /\ Named(tree)' = Named(tree) \union {i}
      <4>1. Named(tree)' = Named(tree')
        BY DEF Named
      <4>2. CASE p \in DOMAIN tree
        <5>1. i \in Named(tree)
          BY <4>2, <2>2, <2>4 DEF Named
        <5> QED BY <4>1, <5>1, <2>5
      <4>3. CASE p \notin DOMAIN tree
        BY <4>1, <4>3, <2>4, <2>5
      <4> QED BY <4>2, <4>3
    <3>2. Store!Held = Held(open_files)
      BY DEF Store!Held, Held
    <3>3. Store!Keeping(content) \/ Store!Keeping([content EXCEPT ![i] = <<>>])
      <4> HIDE DEF c
      <4> QED BY <2>1, <2>8, KeptIsKeeping
    <3>4. PICK j \in Inodes : j = i
      BY <2>3
    <3>5. Store!Open(f, j)
      BY <3>1, <3>2, <3>3, <3>4, <2>1, <2>7, Zenon DEF Store!Open, Cursor
    <3> QED BY <3>5
  <2> QED BY <2>13, <2>14
<1> QED BY <1>1, <1>2

LEMMA CloseStep ==
  ASSUME HostInv, NEW f \in Fils, f_close(f), UNCHANGED <<cwd, open_dirs>>
  PROVE  HostInv' /\ Store!Close(f)
<1>1. /\ result' = 0 /\ out' = <<>> /\ tree' = tree /\ fptr' = fptr
      /\ open_files' = [open_files EXCEPT ![f] = Closed]
      /\ content' = Kept(content, tree', open_files')
  BY Zenon DEF f_close, Answer
<1>2. TypeOK /\ Fits(tree) /\ content \in [Inodes -> Seq(Bytes)]
  BY DEF HostInv, TypeOK
<1>3. Closed \in File /\ Closed.ino = 0 /\ Closed.pos = 0
  BY DEF Closed, File
<1>4. /\ open_files' \in [Fils -> File]
      /\ Cursor' = [Cursor EXCEPT ![f] = [file |-> 0, pos |-> 0]]
      /\ \A g \in Fils : open_files'[g] = IF g = f THEN Closed ELSE open_files[g]
  BY <1>1, <1>2, <1>3, Insertion
<1>5. content' \in [Inodes -> Seq(Bytes)] /\ content' = Kept(content', tree', open_files')
  BY <1>1, <1>2, KeptType
<1>6. TypeOK'
  BY <1>1, <1>2, <1>4, <1>5 DEF TypeOK
<1>7. \A g \in Fils : open_files'[g].ino = 0 => open_files'[g] = Closed
  BY <1>4 DEF HostInv
<1>8. HostInv'
  BY <1>1, <1>2, <1>5, <1>6, <1>7 DEF HostInv
<1>9. Store!Keeping(content)
  BY <1>1, KeptIsKeeping
<1>10. Named(tree)' = Named(tree)
  BY <1>1 DEF Named
<1>11. Store!Close(f)
  BY <1>1, <1>4, <1>9, <1>10, Zenon DEF Store!Close, Store!Closed, Cursor
<1> QED BY <1>8, <1>11
-----------------------------------------------------------------------------
(***************************************************************************)
(* The calls for directories and names                                     *)
(***************************************************************************)
\* A call that is nothing to the store.
LEMMA NothingStep ==
  ASSUME HostInv, UNCHANGED <<host, open_files, fptr>>, cwd' \in Seq(Name), open_dirs' \subseteq Dirs,
         result' \in {0, 1, 4}, out' = <<>>
  PROVE  HostInv' /\ Store!Nothing
<1>1. tree' = tree /\ content' = content /\ open_files' = open_files /\ fptr' = fptr
  BY DEF host
<1>2. TypeOK'
  BY <1>1 DEF HostInv, TypeOK
<1>3. /\ Fits(tree') /\ (\A f \in Fils : open_files'[f].ino = 0 => open_files'[f] = Closed)
      /\ content' = Kept(content', tree', open_files')
  BY <1>1 DEF HostInv
<1>4. HostInv'
  BY <1>2, <1>3 DEF HostInv
<1>5. Cursor' = Cursor /\ Named(tree)' = Named(tree)
  BY <1>1 DEF Cursor, Named
<1>6. Store!Nothing
  BY <1>1, <1>5, Zenon DEF Store!Nothing, Cursor
<1> QED BY <1>4, <1>6

\* The tree changes, and the host forgets what is no longer named.
LEMMA TreeStep ==
  ASSUME HostInv, Fits(tree'), content' = Kept(content, tree', open_files),
         UNCHANGED <<cwd, open_files, open_dirs, fptr>>, result' \in {0, 1, 4}, out' = <<>>,
         \/ Named(tree') = Named(tree)
         \/ result' = 0 /\ \E i \in Inodes : i \in Named(tree) /\ Named(tree') = Named(tree) \ {i}
  PROVE  HostInv' /\ (Store!Nothing \/ \E i \in Inodes : Store!Unname(i))
<1>0. /\ cwd' = cwd /\ open_files' = open_files /\ open_dirs' = open_dirs /\ fptr' = fptr
      /\ TypeOK /\ content \in [Inodes -> Seq(Bytes)] /\ content = Kept(content, tree, open_files)
  BY DEF HostInv, TypeOK
<1>1. content' \in [Inodes -> Seq(Bytes)] /\ content' = Kept(content', tree', open_files')
  BY <1>0, KeptType
<1>2. TypeOK'
  BY <1>0, <1>1 DEF TypeOK, Fits
<1>3. HostInv'
  BY <1>0, <1>1, <1>2 DEF HostInv
<1>4. Cursor' = Cursor /\ Named(tree)' = Named(tree')
  BY <1>0 DEF Cursor, Named
<1>5. CASE Named(tree') = Named(tree)
  <2>1. content' = content
    BY <1>0, <1>5, Zenon DEF Kept
  <2>2. Store!Nothing
    BY <1>4, <1>5, <2>1, Zenon DEF Store!Nothing, Cursor
  <2> QED BY <1>3, <2>2
<1>6. CASE result' = 0 /\ \E i \in Inodes : i \in Named(tree) /\ Named(tree') = Named(tree) \ {i}
  <2>1. PICK i \in Inodes : i \in Named(tree) /\ Named(tree') = Named(tree) \ {i}
    BY <1>6
  <2>2. Store!Keeping(content)
    BY <1>0, KeptIsKeeping
  <2>3. Store!Unname(i)
    BY <1>4, <1>6, <2>1, <2>2, Zenon DEF Store!Unname, Cursor
  <2> QED BY <1>3, <2>3
<1> QED BY <1>5, <1>6

\* What a step of the host file system is to the store of files.
StoreStep == \/ Store!Nothing
             \/ \E i \in Inodes : Store!Unname(i)
             \/ \E f \in Fils, i \in Inodes : Store!Open(f, i)
             \/ \E f \in Fils : Store!Close(f) \/ Store!Read(f) \/ Store!Write(f)
                                  \/ Store!Seek(f) \/ Store!Truncate(f)

LEMMA KeptAlready ==
  ASSUME HostInv, tree' = tree
  PROVE  Fits(tree') /\ content = Kept(content, tree', open_files) /\ Named(tree') = Named(tree)
BY DEF HostInv

LEMMA MkdirStep ==
  ASSUME HostInv, NEW s \in Strings, f_mkdir(s), UNCHANGED <<open_files, fptr>>
  PROVE  HostInv' /\ StoreStep
<1> DEFINE p == Join(s)
<1>0. p \in Seq(Name) /\ Fits(tree)
  BY JoinType DEF HostInv
<1> HIDE DEF p
<1>1. content' = content /\ UNCHANGED <<cwd, open_dirs>> /\ result' \in {0, 1, 4} /\ out' = <<>>
  BY DEF f_mkdir, Answer
<1>2. CASE Reach(tree, p) = "ok" /\ ~ Exists(tree, p) /\ Cardinality(DOMAIN tree) < MaxNodes
  <2>1. tree' = With(tree, p, Dir)
    BY <1>2, Zenon DEF f_mkdir, p
  <2>2. p # Root /\ p \notin DOMAIN tree /\ \A q \in Above(p) : IsDir(tree, q)
    BY <1>2 DEF Exists, Reach
  <2>3. Dir \notin Named(tree)
    BY DEF Named
  <2>4. Fits(tree') /\ Named(tree') = Named(tree)
    <3>1. Fits(With(tree, p, Dir)) /\ Named(With(tree, p, Dir)) = Named(tree) \union ({Dir} \ {Dir})
      BY <1>0, <1>2, <2>2, <2>3, NewEntry
    <3> QED BY <2>1, <3>1
  <2>5. content' = Kept(content, tree', open_files)
    BY <1>1, <2>4, Zenon DEF Kept, HostInv
  <2> QED BY <1>1, <2>4, <2>5, TreeStep DEF StoreStep
<1>3. CASE ~ (Reach(tree, p) = "ok" /\ ~ Exists(tree, p) /\ Cardinality(DOMAIN tree) < MaxNodes)
  <2>1. tree' = tree
    BY <1>3, Zenon DEF f_mkdir, p
  <2> QED BY <1>1, <2>1, KeptAlready, TreeStep DEF StoreStep
<1> QED BY <1>2, <1>3

LEMMA RenameStep ==
  ASSUME HostInv, NEW s \in Strings, NEW u \in Strings, f_rename(s, u), UNCHANGED <<open_files, fptr>>
  PROVE  HostInv' /\ StoreStep
<1> DEFINE p == Join(s)
           q == Join(u)
<1>0. p \in Seq(Name) /\ q \in Seq(Name) /\ Fits(tree)
  BY JoinType DEF HostInv
<1> HIDE DEF p, q
<1>1. /\ UNCHANGED <<cwd, open_dirs>> /\ out' = <<>>
      /\ result' = Fresult(Renaming(tree, p, q))
      /\ tree' = IF result' = 0 /\ p # q THEN Renamed(tree, p, q) ELSE tree
      /\ content' = Kept(content, tree', open_files)
  BY Zenon DEF f_rename, Answer, p, q
<1>2. result' \in {0, 1, 4}
  BY <1>1 DEF Fresult
<1>3. CASE result' = 0 /\ p # q
  <2>1. Renaming(tree, p, q) = "ok"
    BY <1>1, <1>3, SMT DEF Fresult
  <2>2. /\ Fits(tree')
        /\ Named(tree') = IF IsFile(tree, q) THEN Named(tree) \ {tree[q]} ELSE Named(tree)
    BY <1>0, <1>1, <1>3, <2>1, RenamedFits
  <2>3. CASE IsFile(tree, q)
    <3>1. q \in DOMAIN tree /\ tree[q] # Dir
      BY <2>3 DEF IsFile, Exists, IsDir
    <3>2. tree[q] \in Inodes /\ tree[q] \in Named(tree)
      BY <1>0, <3>1 DEF Fits, Named
    <3>3. \E i \in Inodes : i \in Named(tree) /\ Named(tree') = Named(tree) \ {i}
      BY <2>2, <2>3, <3>2
    <3> QED BY <1>1, <1>2, <1>3, <2>2, <3>3, TreeStep DEF StoreStep
  <2>4. CASE ~ IsFile(tree, q)
    <3>1. Named(tree') = Named(tree)
      BY <2>2, <2>4
    <3> QED BY <1>1, <1>2, <2>2, <3>1, TreeStep DEF StoreStep
  <2> QED BY <2>3, <2>4
<1>4. CASE ~ (result' = 0 /\ p # q)
  <2>1. tree' = tree
    BY <1>1, <1>4
  <2> QED BY <1>1, <1>2, <2>1, KeptAlready, TreeStep DEF StoreStep
<1> QED BY <1>3, <1>4

LEMMA UnlinkStep ==
  ASSUME HostInv, NEW s \in Strings, f_unlink(s), UNCHANGED <<open_files, fptr>>
  PROVE  HostInv' /\ StoreStep
<1> DEFINE p == Join(s)
<1>0. p \in Seq(Name) /\ Fits(tree)
  BY JoinType DEF HostInv
<1> HIDE DEF p
<1>1. /\ UNCHANGED <<cwd, open_dirs>> /\ out' = <<>>
      /\ result' = IF IsDir(tree, p) THEN 1 ELSE Fresult(Lookup(tree, p))
      /\ tree' = IF result' = 0 THEN Without(tree, p) ELSE tree
      /\ content' = Kept(content, tree', open_files)
  BY Zenon DEF f_unlink, Answer, p
<1>2. result' \in {0, 1, 4}
  BY <1>1, RefusalCodes
<1>3. CASE result' = 0
  <2>1. p \in DOMAIN tree /\ tree[p] # Dir
    <3>1. ~ IsDir(tree, p) /\ Exists(tree, p)
      BY <1>1, <1>3, LookedUp
    <3> QED BY <3>1 DEF Exists, IsDir
  <2>2. Fits(tree') /\ Named(tree') = Named(tree) \ {tree[p]}
    BY <1>0, <1>1, <1>3, <2>1, GoneEntry
  <2>3. tree[p] \in Inodes /\ tree[p] \in Named(tree)
    BY <1>0, <2>1 DEF Fits, Named
  <2>4. \E i \in Inodes : i \in Named(tree) /\ Named(tree') = Named(tree) \ {i}
    BY <2>2, <2>3
  <2> QED BY <1>1, <1>2, <1>3, <2>2, <2>4, TreeStep DEF StoreStep
<1>4. CASE result' # 0
  <2>1. tree' = tree
    BY <1>1, <1>4
  <2> QED BY <1>1, <1>2, <2>1, KeptAlready, TreeStep DEF StoreStep
<1> QED BY <1>3, <1>4

LEMMA NameStep ==
  ASSUME HostInv, NameCall
  PROVE  HostInv' /\ StoreStep
<1>0. open_files' = open_files /\ fptr' = fptr /\ cwd \in Seq(Name) /\ open_dirs \subseteq Dirs
  BY DEF NameCall, HostInv, TypeOK
<1>1. ASSUME UNCHANGED host, cwd' \in Seq(Name), open_dirs' \subseteq Dirs, result' \in {0, 1, 4}, out' = <<>>
      PROVE  HostInv' /\ StoreStep
  BY <1>0, <1>1, NothingStep DEF StoreStep
<1>2. ASSUME NEW s \in Strings, f_chdir(s)
      PROVE  HostInv' /\ StoreStep
  <2>1. Join(s) \in Seq(Name) /\ Fresult(Lookup(tree, Join(s))) \in {0, 1, 4}
    BY JoinType, RefusalCodes
  <2>2. /\ UNCHANGED host /\ UNCHANGED open_dirs /\ out' = <<>> /\ result' \in {0, 1, 4}
        /\ cwd' \in {cwd, Join(s)}
    BY <1>2, <2>1 DEF f_chdir, Answer
  <2> QED BY <1>0, <1>1, <2>1, <2>2
<1>3. ASSUME NEW s \in Strings, f_stat(s)
      PROVE  HostInv' /\ StoreStep
  BY <1>0, <1>1, <1>3, RefusalCodes DEF f_stat, Answer
<1>4. ASSUME NEW d \in Dirs, f_readdir(d) \/ f_closedir(d) \/ \E s \in Strings : f_opendir(d, s)
      PROVE  HostInv' /\ StoreStep
  BY <1>0, <1>1, <1>4 DEF f_readdir, f_closedir, f_opendir, Answer
<1>5. ASSUME f_getcwd \/ f_getlabel \/ f_mount
      PROVE  HostInv' /\ StoreStep
  BY <1>0, <1>1, <1>5 DEF f_getcwd, f_getlabel, f_mount, Answer
<1> QED BY <1>0, <1>2, <1>3, <1>4, <1>5, MkdirStep, UnlinkStep, RenameStep DEF NameCall
-----------------------------------------------------------------------------
(***************************************************************************)
(* The calls for the bytes of files                                        *)
(***************************************************************************)
\* A call that moves one cursor and changes no file.
LEMMA CursorStep ==
  ASSUME HostInv, NEW f \in Fils, NEW pos \in Nat, IsOpen(f), MoveTo(f, pos),
         fptr' \in [Fils -> 0 .. WordSize - 1], result' \in {0, 1, 4}, UNCHANGED <<host, cwd, open_dirs>>
  PROVE  HostInv'
<1>1. /\ open_files' \in [Fils -> File] /\ Held(open_files') = Held(open_files)
      /\ \A g \in Fils : open_files'[g].ino = 0 => open_files'[g] = Closed
  BY Movement
<1>2. tree' = tree /\ content' = content /\ cwd' = cwd /\ open_dirs' = open_dirs
  BY DEF host
<1>3. TypeOK'
  BY <1>1, <1>2 DEF HostInv, TypeOK
<1>4. content' = Kept(content', tree', open_files')
  BY <1>1, <1>2, Zenon DEF HostInv, Kept
<1> QED BY <1>1, <1>2, <1>3, <1>4 DEF HostInv

\* The bytes of a file after the first a, up to the b-th.
LEMMA Part ==
  ASSUME NEW d \in Seq(Bytes), NEW a \in Nat, NEW b \in Nat, b <= Len(d)
  PROVE  /\ SubSeq(d, a + 1, b) \in Seq(Bytes)
         /\ Len(SubSeq(d, a + 1, b)) = IF a < b THEN b - a ELSE 0
         /\ \A i \in 1 .. b - a : SubSeq(d, a + 1, b)[i] = d[a + i]
         /\ (~ (a < b)) => SubSeq(d, a + 1, b) = <<>>
<1>0. Len(d) \in Nat
  BY LenProperties
<1>1. \A i \in a + 1 .. b : d[i] \in Bytes
  <2>1. \A i \in a + 1 .. b : i \in 1 .. Len(d)
    BY <1>0
  <2> QED BY <2>1, ElementOfSeq
<1>2. /\ SubSeq(d, a + 1, b) \in Seq(Bytes)
      /\ Len(SubSeq(d, a + 1, b)) = IF a + 1 <= b THEN b - (a + 1) + 1 ELSE 0
      /\ \A i \in 1 .. b - (a + 1) + 1 : SubSeq(d, a + 1, b)[i] = d[(a + 1) + i - 1]
  <2>1. a + 1 \in Int /\ b \in Int
    OBVIOUS
  <2> QED BY <1>1, <2>1, SubSeqProperties
<1>3. Len(SubSeq(d, a + 1, b)) = IF a < b THEN b - a ELSE 0
  <2>1. (IF a + 1 <= b THEN b - (a + 1) + 1 ELSE 0) = IF a < b THEN b - a ELSE 0
    OBVIOUS
  <2> QED BY <1>2, <2>1
<1>4. ASSUME NEW i \in 1 .. b - a PROVE SubSeq(d, a + 1, b)[i] = d[a + i]
  <2>1. i \in 1 .. b - (a + 1) + 1 /\ (a + 1) + i - 1 = a + i
    OBVIOUS
  <2> QED BY <1>2, <2>1
<1>5. (~ (a < b)) => SubSeq(d, a + 1, b) = <<>>
  <2>1. (~ (a < b)) => b < a + 1
    OBVIOUS
  <2> QED BY <2>1, SubSeqEmpty
<1> QED BY <1>2, <1>3, <1>4, <1>5

\* An open FIL is at a place in a file.
LEMMA DataOf ==
  ASSUME HostInv, NEW f \in Fils, IsOpen(f)
  PROVE  /\ open_files[f].pos \in Nat /\ open_files[f].ino \in Inodes
         /\ open_files[f].ino \in Held(open_files)
         /\ Data(f) \in Seq(Bytes) /\ Len(Data(f)) \in Nat
         /\ Data(f) = content[open_files[f].ino]
<1>1. open_files[f] \in File /\ content \in [Inodes -> Seq(Bytes)]
  BY DEF HostInv, TypeOK
<1>2. open_files[f].ino # 0 /\ open_files[f].ino \in Inodes /\ open_files[f].pos \in Nat
  BY <1>1 DEF HostInv, IsOpen, File
<1>3. content[open_files[f].ino] \in Seq(Bytes)
  BY <1>1, <1>2
<1>4. open_files[f].ino \in Held(open_files)
  BY <1>2 DEF Held
<1>5. Len(content[open_files[f].ino]) \in Nat
  BY <1>3, LenProperties
<1> QED BY <1>2, <1>3, <1>4, <1>5 DEF Data

\* A cursor that moved from pos to pos2 and handed over the bytes between.
LEMMA ReadMaps ==
  ASSUME HostInv, NEW f \in Fils, IsOpen(f), NEW pos2 \in Nat, MoveTo(f, pos2), UNCHANGED host,
         pos2 >= open_files[f].pos, pos2 > open_files[f].pos => pos2 <= Len(Data(f)),
         out' = IF result' = 0 THEN SubSeq(Data(f), open_files[f].pos + 1, pos2) ELSE <<>>
  PROVE  Store!Read(f)
<1>1. /\ Cursor' = [Cursor EXCEPT ![f].pos = pos2]
      /\ Cursor'[f].pos = pos2 /\ Cursor[f].pos = open_files[f].pos
      /\ Cursor[f].file = open_files[f].ino /\ Cursor[f] # Store!Closed
  BY Movement
<1>2. open_files[f].pos \in Nat /\ Data(f) = content[open_files[f].ino]
  BY DataOf
<1>3. Store!Passed(f) = pos2 - open_files[f].pos
  BY <1>1 DEF Store!Passed, Cursor
<1>4. /\ Store!Passed(f) >= 0 /\ Cursor[f].pos + Store!Passed(f) = pos2
      /\ Cursor[f].pos + Store!Passed(f) > Cursor[f].pos => pos2 <= Len(content[Cursor[f].file])
  <2> DEFINE a == open_files[f].pos
  <2>1. a \in Nat /\ Cursor[f].pos = a /\ pos2 >= a /\ (pos2 > a => pos2 <= Len(content[Cursor[f].file]))
    BY <1>1, <1>2
  <2>2. Store!Passed(f) = pos2 - a
    BY <1>3
  <2> HIDE DEF a
  <2>3. pos2 - a >= 0 /\ a + (pos2 - a) = pos2
    BY <2>1
  <2> QED BY <2>1, <2>2, <2>3
<1>5. Store!Advance(f)
  <2>1. Cursor' = [Cursor EXCEPT ![f].pos = Cursor[f].pos + Store!Passed(f)]
    BY <1>1, <1>4, Zenon
  <2> QED BY <1>1, <1>4, <2>1, Zenon DEF Store!Advance, Cursor
<1>6. content' = content /\ Named(tree)' = Named(tree)
  BY DEF host, Named
<1>7. out' = IF result' = 0 THEN SubSeq(content[Cursor[f].file], Cursor[f].pos + 1, pos2) ELSE <<>>
  BY <1>1, <1>2, Zenon
<1> QED BY <1>4, <1>5, <1>6, <1>7, Zenon DEF Store!Read, Cursor

LEMMA ReadStep ==
  ASSUME HostInv, NEW f \in Fils, NEW n \in Lengths, f_read(f, n), UNCHANGED <<cwd, open_dirs>>
  PROVE  HostInv' /\ Store!Read(f)
<1> DEFINE pos   == open_files[f].pos
           d     == Data(f)
           m     == Min({pos + n, Len(d)})
           chunk == SubSeq(d, pos + 1, m)
           k     == Len(chunk)
<1>1. /\ IsOpen(f) /\ MoveTo(f, pos + k) /\ SaveFptr(f, pos + k)
      /\ result' = 0 /\ out' = chunk /\ UNCHANGED host
  BY Zenon DEF f_read, Handed
<1>2. pos \in Nat /\ d \in Seq(Bytes) /\ Len(d) \in Nat /\ n \in Nat
  BY <1>1, DataOf, HostFsAssumption
<1> HIDE DEF pos, d
<1>3. m \in Nat /\ m <= Len(d)
  <2>1. {pos + n, Len(d)} \in SUBSET Nat /\ {pos + n, Len(d)} # {}
    BY <1>2
  <2>2. m \in {pos + n, Len(d)} /\ m <= Len(d)
    BY <2>1, Minimum
  <2> QED BY <1>2, <2>2
<1> HIDE DEF m
<1>4. /\ k = IF pos < m THEN m - pos ELSE 0
      /\ (~ (pos < m)) => chunk = <<>>
  BY <1>2, <1>3, Part
<1> HIDE DEF k
<1>5. k \in Nat /\ pos + k \in Nat /\ pos + k >= pos /\ (pos + k > pos => pos + k <= Len(d))
  BY <1>2, <1>3, <1>4
<1>6. chunk = SubSeq(d, pos + 1, pos + k)
  <2>1. CASE pos < m
    <3>1. pos + k = m
      BY <2>1, <1>2, <1>3, <1>4
    <3> QED BY <3>1
  <2>2. CASE ~ (pos < m)
    <3>1. pos + k < pos + 1 /\ pos + k \in Int /\ pos + 1 \in Int
      BY <2>2, <1>2, <1>3, <1>4
    <3>2. SubSeq(d, pos + 1, pos + k) = <<>>
      BY <3>1, SubSeqEmpty
    <3> QED BY <3>2, <2>2, <1>4
  <2> QED BY <2>1, <2>2
<1> HIDE DEF chunk
<1>7. Store!Read(f)
  BY <1>1, <1>5, <1>6, ReadMaps DEF pos, d
<1>8. HostInv'
  <2>1. fptr' \in [Fils -> 0 .. WordSize - 1]
    BY <1>1, <1>5, FptrType DEF HostInv
  <2>2. result' \in {0, 1, 4}
    BY <1>1
  <2> QED BY <1>1, <1>5, <2>1, <2>2, CursorStep
<1> QED BY <1>7, <1>8

LEMMA GetsStep ==
  ASSUME HostInv, NEW f \in Fils, NEW n \in Lengths, f_gets(f, n), UNCHANGED <<cwd, open_dirs>>
  PROVE  HostInv' /\ Store!Read(f)
<1> DEFINE pos   == open_files[f].pos
           d     == Data(f)
           rest  == SubSeq(d, pos + 1, Len(d))
           stops == {k \in 0 .. Min({n, Len(rest)}) : k = n \/ (k > 0 /\ rest[k] \in {LF, NUL})}
           k     == IF stops = {} THEN Len(rest) ELSE Min(stops)
<1>1. /\ IsOpen(f) /\ UNCHANGED host
      /\ \/ /\ stops # {}
            /\ MoveTo(f, pos + k) /\ SaveFptr(f, pos + k)
            /\ result' = 0 /\ out' = SubSeq(rest, 1, k)
         \/ \E j \in 0 .. k :
              MoveTo(f, pos + j) /\ result' = 1 /\ out' = <<>> /\ fptr' = fptr
  BY Zenon DEF f_gets, Handed, Answer
<1>2. pos \in Nat /\ d \in Seq(Bytes) /\ Len(d) \in Nat /\ n \in Nat
  BY <1>1, DataOf, HostFsAssumption
<1> HIDE DEF pos, d
<1>3. /\ rest \in Seq(Bytes) /\ Len(rest) = (IF pos < Len(d) THEN Len(d) - pos ELSE 0)
      /\ \A i \in 1 .. Len(d) - pos : rest[i] = d[pos + i]
  BY <1>2, Part
<1> HIDE DEF rest
<1>4. Len(rest) \in Nat /\ Min({n, Len(rest)}) \in Nat /\ Min({n, Len(rest)}) <= Len(rest)
  <2>1. Len(rest) \in Nat
    BY <1>2, <1>3
  <2>2. {n, Len(rest)} \in SUBSET Nat /\ {n, Len(rest)} # {}
    BY <1>2, <2>1
  <2>3. Min({n, Len(rest)}) \in {n, Len(rest)} /\ Min({n, Len(rest)}) <= Len(rest)
    BY <2>2, Minimum
  <2> QED BY <1>2, <2>1, <2>3
<1>5. stops \subseteq 0 .. Len(rest)
  BY <1>4
<1> HIDE DEF stops
<1>6. k \in 0 .. Len(rest)
  <2>1. CASE stops = {}
    BY <2>1, <1>4
  <2>2. CASE stops # {}
    <3>1. stops \in SUBSET Nat
      BY <1>5
    <3>2. Min(stops) \in stops
      BY <3>1, <2>2, Minimum
    <3> QED BY <3>2, <2>2, <1>5
  <2> QED BY <2>1, <2>2
<1> HIDE DEF k
<1>7. k \in Nat /\ pos + k \in Nat /\ pos + k >= pos /\ (pos + k > pos => pos + k <= Len(d))
  BY <1>2, <1>3, <1>6
<1>8. SubSeq(rest, 1, k) = SubSeq(d, pos + 1, pos + k)
  <2>1. CASE k = 0
    <3>1. SubSeq(rest, 1, 0) = <<>>
      BY SubSeqEmpty
    <3>2. pos + 0 < pos + 1 /\ pos + 0 \in Int /\ pos + 1 \in Int
      BY <1>2
    <3>3. SubSeq(d, pos + 1, pos + 0) = <<>>
      BY <3>2, SubSeqEmpty
    <3> QED BY <2>1, <3>1, <3>3
  <2>2. CASE k # 0
    <3> DEFINE u == SubSeq(rest, 0 + 1, k)
               v == SubSeq(d, pos + 1, pos + k)
    <3>0. 0 < k /\ k <= Len(rest) /\ pos < pos + k /\ (pos + k) - pos = k /\ k - 0 = k
          /\ pos + k <= Len(d) /\ k <= Len(d) - pos
      BY <2>2, <1>2, <1>3, <1>6, <1>7
    <3>1. u \in Seq(Bytes) /\ Len(u) = k /\ \A i \in 1 .. k : u[i] = rest[0 + i]
      <4>1. /\ u \in Seq(Bytes) /\ Len(u) = (IF 0 < k THEN k - 0 ELSE 0)
            /\ \A i \in 1 .. k - 0 : u[i] = rest[0 + i]
        BY <3>0, <1>3, <1>7, Part
      <4> QED BY <4>1, <3>0
    <3>2. v \in Seq(Bytes) /\ Len(v) = k /\ \A i \in 1 .. k : v[i] = d[pos + i]
      <4>1. /\ v \in Seq(Bytes) /\ Len(v) = (IF pos < pos + k THEN (pos + k) - pos ELSE 0)
            /\ \A i \in 1 .. (pos + k) - pos : v[i] = d[pos + i]
        BY <3>0, <1>2, <1>7, Part
      <4> QED BY <4>1, <3>0
    <3> HIDE DEF u, v
    <3>3. ASSUME NEW i \in 1 .. Len(u) PROVE u[i] = v[i]
      <4>1. i \in 1 .. k /\ i \in 1 .. Len(d) - pos /\ 0 + i = i
        BY <3>0, <3>1, <1>2
      <4> QED BY <4>1, <3>1, <3>2, <1>3
    <3>4. u = v
      BY <3>1, <3>2, <3>3, SeqEqual
    <3>5. 0 + 1 = 1
      OBVIOUS
    <3>6. SubSeq(rest, 0 + 1, k) = SubSeq(d, pos + 1, pos + k)
      BY <3>4 DEF u, v
    <3> QED BY <3>5, <3>6, Zenon
  <2> QED BY <2>1, <2>2
<1>9. CASE MoveTo(f, pos + k) /\ SaveFptr(f, pos + k) /\ result' = 0 /\ out' = SubSeq(rest, 1, k)
  <2>1. fptr' \in [Fils -> 0 .. WordSize - 1] /\ result' \in {0, 1, 4}
    BY <1>7, <1>9, FptrType DEF HostInv, TypeOK
  <2>2. out' = IF result' = 0 THEN SubSeq(d, pos + 1, pos + k) ELSE <<>>
    BY <1>8, <1>9
  <2>3. Store!Read(f)
    BY <1>1, <1>7, <1>9, <2>2, ReadMaps DEF pos, d
  <2>4. HostInv'
    BY <1>1, <1>7, <1>9, <2>1, CursorStep
  <2> QED BY <2>3, <2>4
<1>10. ASSUME NEW j \in 0 .. k, MoveTo(f, pos + j), result' = 1, out' = <<>>, fptr' = fptr
       PROVE  HostInv' /\ Store!Read(f)
  <2>1. fptr' \in [Fils -> 0 .. WordSize - 1] /\ result' \in {0, 1, 4}
    BY <1>10 DEF HostInv, TypeOK
  <2>2. out' = IF result' = 0 THEN SubSeq(d, pos + 1, pos + j) ELSE <<>>
    BY <1>10
  <2>3. pos + j \in Nat /\ pos + j >= pos /\ (pos + j > pos => pos + j <= Len(d))
    BY <1>2, <1>7
  <2>4. Store!Read(f)
    BY <1>1, <1>10, <2>2, <2>3, ReadMaps DEF pos, d
  <2>5. HostInv'
    BY <1>1, <1>10, <2>1, <2>3, CursorStep
  <2> QED BY <2>4, <2>5
<1> QED BY <1>1, <1>9, <1>10

LEMMA SeekStep ==
  ASSUME HostInv, NEW f \in Fils, NEW offset \in Lengths, f_lseek(f, offset), UNCHANGED <<cwd, open_dirs>>
  PROVE  HostInv' /\ Store!Seek(f)
<1>0. offset \in Nat
  BY HostFsAssumption
<1>1. /\ IsOpen(f) /\ MoveTo(f, offset) /\ SaveFptr(f, offset)
      /\ result' = 0 /\ out' = <<>> /\ UNCHANGED host
  BY Zenon DEF f_lseek, Answer
<1>2. fptr' \in [Fils -> 0 .. WordSize - 1] /\ result' \in {0, 1, 4}
  BY <1>0, <1>1, FptrType DEF HostInv
<1>3. HostInv'
  BY <1>0, <1>1, <1>2, CursorStep
<1>4. /\ Cursor' = [Cursor EXCEPT ![f].pos = offset] /\ Cursor'[f].pos = offset
      /\ Cursor[f] # Store!Closed
  BY <1>0, <1>1, Movement
<1>5. content' = content /\ Named(tree)' = Named(tree)
  BY <1>1 DEF host, Named
<1>6. Cursor' = [Cursor EXCEPT ![f].pos = Cursor'[f].pos]
  BY <1>4, Zenon
<1>7. Store!Seek(f)
  BY <1>1, <1>4, <1>5, <1>6, Zenon DEF Store!Seek, Cursor
<1> QED BY <1>3, <1>7

\* A function on 1 .. n is a sequence.
LEMMA FunctionSeq ==
  ASSUME NEW n \in Nat, NEW S, NEW g \in [1 .. n -> S]
  PROVE  g \in Seq(S) /\ Len(g) = n
<1>1. g \in Seq(S)
  BY SeqDef
<1>2. Len(g) \in Nat /\ DOMAIN g = 1 .. Len(g) /\ DOMAIN g = 1 .. n
  BY <1>1, LenProperties
<1>3. 1 .. Len(g) = 1 .. n
  BY <1>2
<1>4. Len(g) = n
  <2>1. CASE Len(g) < n
    <3>1. n \in 1 .. n /\ n \notin 1 .. Len(g)
      BY <2>1, <1>2
    <3> QED BY <3>1, <1>3
  <2>2. CASE n < Len(g)
    <3>1. Len(g) \in 1 .. Len(g) /\ Len(g) \notin 1 .. n
      BY <2>2, <1>2
    <3> QED BY <3>1, <1>3
  <2> QED BY <2>1, <2>2, <1>2
<1> QED BY <1>1, <1>4

\* Overwritten changes the bytes at the cursor and no others.
LEMMA OverwrittenSeq ==
  ASSUME NEW d \in Seq(Bytes), NEW pos \in Nat, NEW u \in Seq(Bytes), u # <<>>
  PROVE  LET m == IF pos + Len(u) > Len(d) THEN pos + Len(u) ELSE Len(d)
         IN  /\ Overwritten(d, pos, u) \in Seq(Bytes) /\ Len(Overwritten(d, pos, u)) = m
             /\ Overwritten(d, pos, u) =
                  [k \in 1 .. m |-> IF k \in pos + 1 .. pos + Len(u) THEN Overwritten(d, pos, u)[k]
                                    ELSE Store!Resize(d, m)[k]]
<1> DEFINE m == IF pos + Len(u) > Len(d) THEN pos + Len(u) ELSE Len(d)
           g == [i \in 1 .. m |-> IF i \in pos + 1 .. pos + Len(u) THEN u[i - pos]
                                  ELSE IF i <= Len(d) THEN d[i] ELSE NUL]
<1>1. Len(d) \in Nat /\ Len(u) \in Nat /\ m \in Nat
  BY LenProperties
<1>2. Max({Len(d), pos + Len(u)}) = m
  <2>1. Max({Len(d), pos + Len(u)}) = IF Len(d) <= pos + Len(u) THEN pos + Len(u) ELSE Len(d)
    <3>1. pos + Len(u) \in Nat
      BY <1>1
    <3> QED BY <1>1, <3>1, Maximum
  <2> QED BY <2>1, <1>1
<1>3. Overwritten(d, pos, u) = g
  BY <1>2, Zenon DEF Overwritten
<1> HIDE DEF m
<1>4. ASSUME NEW i \in 1 .. m
      PROVE  (IF i \in pos + 1 .. pos + Len(u) THEN u[i - pos]
              ELSE IF i <= Len(d) THEN d[i] ELSE NUL) \in Bytes
  <2>1. NUL \in Bytes
    BY HostFsAssumption
  <2>2. CASE i \in pos + 1 .. pos + Len(u)
    <3>1. i - pos \in 1 .. Len(u)
      BY <2>2, <1>1
    <3>2. u[i - pos] \in Bytes
      BY <3>1, ElementOfSeq
    <3> QED BY <2>2, <3>2
  <2>3. CASE i \notin pos + 1 .. pos + Len(u) /\ i <= Len(d)
    <3>1. i \in 1 .. Len(d)
      BY <2>3, <1>1
    <3>2. d[i] \in Bytes
      BY <3>1, ElementOfSeq
    <3> QED BY <2>3, <3>2
  <2> QED BY <2>1, <2>2, <2>3
<1>5. g \in [1 .. m -> Bytes]
  BY <1>4
<1>6. \A k \in 1 .. m : g[k] = IF k \in pos + 1 .. pos + Len(u) THEN u[k - pos]
                               ELSE IF k <= Len(d) THEN d[k] ELSE NUL
  OBVIOUS
<1>7. g = [k \in 1 .. m |-> g[k]]
  BY <1>5, Zenon
<1> HIDE DEF g
<1>8. g \in Seq(Bytes) /\ Len(g) = m
  BY <1>1, <1>5, FunctionSeq
<1>9. ASSUME NEW k \in 1 .. m
      PROVE  g[k] = IF k \in pos + 1 .. pos + Len(u) THEN g[k] ELSE Store!Resize(d, m)[k]
  <2>1. Store!Resize(d, m)[k] = IF k <= Len(d) THEN d[k] ELSE 0
    BY DEF Store!Resize
  <2> QED BY <1>6, <2>1 DEF NUL
<1>10. g = [k \in 1 .. m |-> IF k \in pos + 1 .. pos + Len(u) THEN g[k] ELSE Store!Resize(d, m)[k]]
  BY <1>7, <1>9, Zenon
<1> QED BY <1>3, <1>8, <1>10 DEF m

\* One file changes, by a call through an FIL that has it open.
LEMMA ContentStep ==
  ASSUME HostInv, NEW f \in Fils, NEW pos \in Nat, IsOpen(f), MoveTo(f, pos),
         NEW x \in Seq(Bytes), content' = [content EXCEPT ![open_files[f].ino] = x],
         fptr' \in [Fils -> 0 .. WordSize - 1], result' \in {0, 1, 4}, UNCHANGED <<tree, cwd, open_dirs>>
  PROVE  HostInv'
<1>1. /\ open_files' \in [Fils -> File] /\ Held(open_files') = Held(open_files)
      /\ \A g \in Fils : open_files'[g].ino = 0 => open_files'[g] = Closed
  BY Movement
<1>2. open_files[f].ino \in Inodes /\ open_files[f].ino \in Held(open_files)
  BY DataOf
<1>3. tree' = tree /\ cwd' = cwd /\ open_dirs' = open_dirs /\ content \in [Inodes -> Seq(Bytes)]
  BY DEF HostInv, TypeOK
<1>4. /\ content' \in [Inodes -> Seq(Bytes)]
      /\ \A i \in Inodes : content'[i] = IF i = open_files[f].ino THEN x ELSE content[i]
  BY <1>2, <1>3
<1>5. TypeOK'
  BY <1>1, <1>3, <1>4 DEF HostInv, TypeOK
<1>6. \A i \in Inodes : content[i] = IF i \in Named(tree) \union Held(open_files) THEN content[i] ELSE <<>>
  <2>1. content = [i \in Inodes |-> IF i \in Named(tree) \union Held(open_files) THEN content[i] ELSE <<>>]
    BY Zenon DEF HostInv, Kept
  <2> QED BY <2>1, Zenon
<1>7. \A i \in Inodes : content'[i] = IF i \in Named(tree') \union Held(open_files') THEN content'[i] ELSE <<>>
  BY <1>1, <1>2, <1>3, <1>4, <1>6
<1>8. content' = Kept(content', tree', open_files')
  <2>1. content' = [i \in Inodes |-> content'[i]]
    BY <1>4
  <2> QED BY <2>1, <1>7, Zenon DEF Kept
<1> QED BY <1>1, <1>3, <1>5, <1>8 DEF HostInv

LEMMA PutStep ==
  ASSUME HostInv, NEW f \in Fils, NEW bs \in Seq(Bytes), Put(f, bs), UNCHANGED <<cwd, open_dirs>>
  PROVE  HostInv' /\ (Store!Nothing \/ Store!Write(f))
<1> DEFINE pos == open_files[f].pos
           i   == open_files[f].ino
           d   == content[i]
<1>1. PICK k \in 0 .. Len(bs) :
        /\ IsOpen(f)
        /\ content' = [content EXCEPT ![i] = Overwritten(d, pos, SubSeq(bs, 1, k))]
        /\ MoveTo(f, pos + k)
        /\ IF k = Len(bs)
           THEN SaveFptr(f, pos + k) /\ result' = 0 /\ out' = <<>>
           ELSE result' = 1 /\ out' = <<>> /\ fptr' = fptr
        /\ tree' = tree
  BY Zenon DEF Put, Answer
<1>2. pos \in Nat /\ i \in Inodes /\ d \in Seq(Bytes) /\ Len(d) \in Nat
  BY <1>1, DataOf, Zenon
<1>3. content \in [Inodes -> Seq(Bytes)] /\ cwd' = cwd /\ open_dirs' = open_dirs
  BY DEF HostInv, TypeOK
<1> DEFINE u == SubSeq(bs, 1, k)
<1>4. Len(bs) \in Nat /\ k \in Nat /\ k <= Len(bs)
  BY LenProperties
<1>5. u \in Seq(Bytes) /\ Len(u) = k /\ (k = 0 => u = <<>>)
  <2>1. /\ SubSeq(bs, 0 + 1, k) \in Seq(Bytes)
        /\ Len(SubSeq(bs, 0 + 1, k)) = (IF 0 < k THEN k - 0 ELSE 0)
        /\ (~ (0 < k)) => SubSeq(bs, 0 + 1, k) = <<>>
    BY <1>4, Part
  <2>2. 0 + 1 = 1 /\ (IF 0 < k THEN k - 0 ELSE 0) = k /\ (k = 0 => ~ (0 < k))
    BY <1>4
  <2> QED BY <2>1, <2>2, Zenon
<1> DEFINE x == Overwritten(d, pos, u)
<1>6. content' = [content EXCEPT ![i] = x]
  BY <1>1
<1> HIDE DEF pos, i, d, u
<1>7. fptr' \in [Fils -> 0 .. WordSize - 1] /\ result' \in {0, 1, 4}
  <2>1. CASE k = Len(bs)
    BY <2>1, <1>1, <1>2, <1>4, FptrType DEF HostInv
  <2>2. CASE k # Len(bs)
    BY <2>2, <1>1 DEF HostInv, TypeOK
  <2> QED BY <2>1, <2>2
<1>8. x \in Seq(Bytes)
  <2>1. CASE u = <<>>
    BY <2>1, <1>2 DEF Overwritten
  <2>2. CASE u # <<>>
    BY <2>2, <1>2, <1>5, OverwrittenSeq
  <2> QED BY <2>1, <2>2
<1>9. pos + k \in Nat /\ tree' = tree /\ out' = <<>>
  BY <1>1, <1>2, <1>4
<1>10. HostInv'
  <2> HIDE DEF x
  <2> QED BY <1>1, <1>3, <1>6, <1>7, <1>8, <1>9, ContentStep DEF i
<1>11. /\ Cursor' = [Cursor EXCEPT ![f].pos = pos + k]
       /\ Cursor'[f].pos = pos + k /\ Cursor[f].pos = pos
       /\ Cursor[f].file = i /\ Cursor[f] # Store!Closed
  BY <1>1, <1>9, Movement DEF pos, i
<1>12. Named(tree)' = Named(tree)
  BY <1>1 DEF Named
<1>13. CASE k = 0
  <2>1. x = d
    BY <1>5, <1>13 DEF Overwritten
  <2>2. content' = content
    BY <2>1, <1>2, <1>3, <1>6 DEF d
  <2>3. Cursor' = Cursor
    <3>1. pos + k = pos
      BY <1>2, <1>13
    <3>2. Cursor[f] = [file |-> i, pos |-> pos] /\ Cursor = [g \in Fils |-> Cursor[g]]
      BY <1>11 DEF Cursor
    <3>3. [Cursor[f] EXCEPT !.pos = pos] = Cursor[f]
      BY <3>2
    <3>4. [Cursor EXCEPT ![f].pos = pos] = [g \in Fils |-> IF g = f THEN [Cursor[f] EXCEPT !.pos = pos] ELSE Cursor[g]]
      BY <3>2
    <3>5. [Cursor EXCEPT ![f].pos = pos] = Cursor
      BY <3>2, <3>3, <3>4
    <3> QED BY <1>11, <3>1, <3>5
  <2>4. Store!Nothing
    BY <1>9, <1>12, <2>2, <2>3, Zenon DEF Store!Nothing, Cursor
  <2> QED BY <1>10, <2>4
<1>14. CASE k # 0
  <2> DEFINE m == IF pos + k > Len(d) THEN pos + k ELSE Len(d)
  <2>1. u # <<>>
    BY <1>4, <1>5, <1>14, EmptySeq
  <2>2. /\ Len(x) = m
        /\ x = [j \in 1 .. m |-> IF j \in pos + 1 .. pos + k THEN x[j] ELSE Store!Resize(d, m)[j]]
    <3>1. LET n == IF pos + Len(u) > Len(d) THEN pos + Len(u) ELSE Len(d)
          IN  /\ Len(x) = n
              /\ x = [j \in 1 .. n |-> IF j \in pos + 1 .. pos + Len(u) THEN x[j] ELSE Store!Resize(d, n)[j]]
      BY <2>1, <1>2, <1>5, OverwrittenSeq
    <3> HIDE DEF x
    <3>2. Len(u) = k
      BY <1>5
    <3> QED BY <3>1, <3>2, Zenon
  <2> HIDE DEF x
  <2>3. content'[i] = x
    BY <1>2, <1>3, <1>6
  <2>4. Store!Passed(f) = k
    BY <1>2, <1>4, <1>11 DEF Store!Passed, Cursor
  <2>5. Store!Advance(f)
    <3>1. k >= 0
      BY <1>4
    <3> QED BY <3>1, <2>4, <1>11, Zenon DEF Store!Advance, Cursor
  <2>6. pos + k > pos
    BY <1>2, <1>4, <1>14
  <2>7. content' = [content EXCEPT ![i] = [j \in 1 .. m |->
           IF j \in pos + 1 .. pos + k THEN content'[i][j] ELSE Store!Resize(d, m)[j]]]
    BY <1>6, <2>2, <2>3, Zenon
  <2>8. Len(content'[i]) = m
    BY <2>2, <2>3
  <2>9. Cursor[f].pos + Store!Passed(f) = pos + k /\ content[Cursor[f].file] = d
    BY <1>11, <2>4, Zenon DEF d
  <2>10. Store!Write(f)
    BY <1>9, <1>11, <1>12, <2>5, <2>6, <2>7, <2>8, <2>9, Zenon DEF Store!Write, Cursor
  <2> QED BY <1>10, <2>10
<1> QED BY <1>13, <1>14

LEMMA TruncateStep ==
  ASSUME HostInv, NEW f \in Fils, f_truncate(f), UNCHANGED <<cwd, open_dirs>>
  PROVE  HostInv' /\ Store!Truncate(f)
<1> DEFINE pos == open_files[f].pos
           i   == open_files[f].ino
           d   == content[i]
           x   == [j \in 1 .. pos |-> IF j <= Len(d) THEN d[j] ELSE NUL]
<1>1. /\ IsOpen(f) /\ content' = [content EXCEPT ![i] = x]
      /\ result' = 0 /\ out' = <<>> /\ UNCHANGED <<tree, open_files, fptr>>
  BY Zenon DEF f_truncate, Answer
<1>2. pos \in Nat /\ i \in Inodes /\ d \in Seq(Bytes) /\ Len(d) \in Nat
  BY <1>1, DataOf, Zenon
<1> HIDE DEF pos, i, d
<1>3. x \in Seq(Bytes)
  <2>1. ASSUME NEW j \in 1 .. pos PROVE (IF j <= Len(d) THEN d[j] ELSE NUL) \in Bytes
    <3>1. NUL \in Bytes
      BY HostFsAssumption
    <3>2. CASE j <= Len(d)
      <4>1. j \in 1 .. Len(d)
        BY <3>2, <1>2
      <4>2. d[j] \in Bytes
        BY <4>1, <1>2, ElementOfSeq
      <4> QED BY <3>2, <4>2
    <3> QED BY <3>1, <3>2
  <2>2. x \in [1 .. pos -> Bytes]
    BY <2>1
  <2> HIDE DEF x
  <2> QED BY <2>2, <1>2, FunctionSeq
<1>4. x = Store!Resize(d, pos)
  BY DEF Store!Resize, NUL
<1> HIDE DEF x
<1>5. MoveTo(f, pos)
  <2>1. open_files \in [Fils -> File] /\ open_files' = open_files
    BY <1>1 DEF HostInv, TypeOK
  <2>2. open_files[f] \in File /\ [open_files[f] EXCEPT !.pos = pos] = open_files[f]
    BY <2>1 DEF pos, File
  <2>3. [open_files EXCEPT ![f].pos = pos] = open_files
    BY <2>1, <2>2
  <2> QED BY <2>1, <2>3 DEF MoveTo
<1>6. fptr' \in [Fils -> 0 .. WordSize - 1] /\ result' \in {0, 1, 4} /\ tree' = tree
  BY <1>1 DEF HostInv, TypeOK
<1>7. HostInv'
  BY <1>1, <1>2, <1>3, <1>5, <1>6, ContentStep DEF i
<1>8. Cursor[f].file = i /\ Cursor[f].pos = pos /\ Cursor[f] # Store!Closed
  BY <1>1, <1>2, <1>5, Movement DEF pos, i
<1>9. Cursor' = Cursor /\ Named(tree)' = Named(tree)
  BY <1>1 DEF Cursor, Named
<1>10. content' = [content EXCEPT ![Cursor[f].file] = Store!Resize(content[Cursor[f].file], Cursor[f].pos)]
  BY <1>1, <1>4, <1>8, Zenon DEF d
<1>11. Store!Truncate(f)
  BY <1>1, <1>8, <1>9, <1>10, Zenon DEF Store!Truncate, Cursor
<1> QED BY <1>7, <1>11
-----------------------------------------------------------------------------
(***************************************************************************)
(* The theorems                                                            *)
(***************************************************************************)
LEMMA NextStep ==
  ASSUME HostInv, Next
  PROVE  HostInv' /\ (StoreStep \/ UNCHANGED Store!vars)
<1>1. ASSUME NEW f \in Fils, UNCHANGED <<cwd, open_dirs>>,
             \/ \E s \in Strings, m \in Modes : f_open(f, s, m)
             \/ f_close(f)
             \/ \E n \in Lengths : f_read(f, n) \/ f_gets(f, n) \/ f_lseek(f, n)
             \/ \E bs \in Texts : f_write(f, bs)
             \/ \E b \in Chars : f_putc(f, b)
             \/ f_truncate(f) \/ FilRefused(f)
      PROVE  HostInv' /\ StoreStep
  <2>1. ASSUME NEW s \in Strings, NEW m \in Modes, f_open(f, s, m)
        PROVE  HostInv' /\ StoreStep
    BY <1>1, <2>1, OpenStep DEF StoreStep
  <2>2. CASE f_close(f)
    BY <1>1, <2>2, CloseStep DEF StoreStep
  <2>3. ASSUME NEW n \in Lengths, f_read(f, n)
        PROVE  HostInv' /\ StoreStep
    BY <1>1, <2>3, ReadStep DEF StoreStep
  <2>4. ASSUME NEW n \in Lengths, f_gets(f, n)
        PROVE  HostInv' /\ StoreStep
    BY <1>1, <2>4, GetsStep DEF StoreStep
  <2>5. ASSUME NEW n \in Lengths, f_lseek(f, n)
        PROVE  HostInv' /\ StoreStep
    BY <1>1, <2>5, SeekStep DEF StoreStep
  <2>6. ASSUME NEW bs \in Texts, f_write(f, bs)
        PROVE  HostInv' /\ StoreStep
    <3>1. bs \in Seq(Bytes) /\ Put(f, bs)
      BY <2>6, HostFsAssumption DEF f_write
    <3> QED BY <1>1, <3>1, PutStep DEF StoreStep
  <2>7. ASSUME NEW b \in Chars, f_putc(f, b)
        PROVE  HostInv' /\ StoreStep
    <3>1. <<b>> \in Seq(Bytes)
      <4>1. b \in Bytes
        BY HostFsAssumption
      <4> QED BY <4>1
    <3>2. Put(f, <<b>>)
      BY <2>7, Zenon DEF f_putc
    <3> QED BY <1>1, <3>1, <3>2, PutStep DEF StoreStep
  <2>8. CASE f_truncate(f)
    BY <1>1, <2>8, TruncateStep DEF StoreStep
  <2>9. CASE FilRefused(f)
    <3>1. /\ UNCHANGED <<host, open_files, fptr>> /\ cwd' \in Seq(Name) /\ open_dirs' \subseteq Dirs
          /\ result' \in {0, 1, 4} /\ out' = <<>>
      BY <1>1, <2>9 DEF FilRefused, Answer, HostInv, TypeOK
    <3> QED BY <3>1, NothingStep DEF StoreStep
  <2> QED BY <1>1, <2>1, <2>2, <2>3, <2>4, <2>5, <2>6, <2>7, <2>8, <2>9
<1>2. CASE FileCall
  BY <1>1, <1>2 DEF FileCall
<1>3. CASE NameCall
  BY <1>3, NameStep
<1>4. CASE SoftReset
  <2>1. /\ UNCHANGED <<host, cwd, open_files>> /\ open_dirs' \subseteq Dirs /\ result' \in {0, 1, 4}
        /\ UNCHANGED <<result, out>>
    BY <1>4 DEF SoftReset, HostInv, TypeOK
  <2>2. fptr' \in [Fils -> 0 .. WordSize - 1]
    <3>1. WordSize \in Nat \ {0}
      BY HostFsAssumption
    <3> QED BY <1>4, <3>1 DEF SoftReset
  <2>3. HostInv' /\ Cursor' = Cursor /\ Named(tree)' = Named(tree)
    BY <2>1, <2>2, Unchanged
  <2>4. UNCHANGED Store!vars
    BY <2>1, <2>3, Zenon DEF Store!vars, Cursor, host
  <2> QED BY <2>3, <2>4
<1> QED BY <1>2, <1>3, <1>4 DEF Next

LEMMA Stuttering ==
  ASSUME HostInv, UNCHANGED vars
  PROVE  HostInv' /\ UNCHANGED Store!vars
<1>1. /\ UNCHANGED <<host, cwd, open_files>> /\ open_dirs' \subseteq Dirs /\ result' \in {0, 1, 4}
      /\ fptr' \in [Fils -> 0 .. WordSize - 1] /\ result' = result /\ out' = out
  BY DEF vars, HostInv, TypeOK
<1>2. HostInv' /\ Cursor' = Cursor /\ Named(tree)' = Named(tree)
  BY <1>1, Unchanged
<1>3. UNCHANGED Store!vars
  BY <1>1, <1>2, Zenon DEF Store!vars, Cursor, host
<1> QED BY <1>2, <1>3

\* At the start nothing is open.
LEMMA Begins ==
  ASSUME Init
  PROVE  HostInv /\ Store!Init
<1>1. /\ tree = HostTree /\ content = HostContent /\ cwd = <<>>
      /\ open_files = [f \in Fils |-> Closed] /\ open_dirs = {}
      /\ fptr = [f \in Fils |-> 0] /\ result = 0 /\ out = <<>>
  BY DEF Init, Root
<1>2. Fits(tree) /\ content \in [Inodes -> Seq(Bytes)]
  BY <1>1, HostAssumption DEF Fits
<1>3. Closed \in File /\ Closed.ino = 0 /\ Closed.pos = 0
  BY DEF Closed, File
<1>4. open_files \in [Fils -> File] /\ \A f \in Fils : open_files[f] = Closed
  BY <1>1, <1>3
<1>5. fptr \in [Fils -> 0 .. WordSize - 1]
  <2>1. WordSize \in Nat \ {0}
    BY HostFsAssumption
  <2> QED BY <1>1, <2>1
<1>6. cwd \in Seq(Name)
  BY <1>1, EmptySeq
<1>7. TypeOK
  BY <1>1, <1>2, <1>4, <1>5, <1>6 DEF TypeOK, Fits
<1>8. content = Kept(content, tree, open_files)
  <2>1. ASSUME NEW i \in Inodes
        PROVE  content[i] = IF i \in Named(tree) \union Held(open_files) THEN content[i] ELSE <<>>
    <3>1. i # Dir
      BY HostFsAssumption
    <3>2. content[i] # <<>> => i \in Named(tree)
      BY <1>1, <3>1, HostAssumption DEF Named
    <3> QED BY <3>2
  <2>2. content = [i \in Inodes |-> content[i]]
    BY <1>2
  <2> QED BY <2>1, <2>2, Zenon DEF Kept
<1>9. HostInv
  BY <1>2, <1>4, <1>7, <1>8 DEF HostInv
<1>10. Named(tree) \subseteq Inodes
  BY <1>2 DEF Named, Fits
<1>11. Cursor = [f \in Fils |-> Store!Closed]
  BY <1>3, <1>4 DEF Cursor, Store!Closed
<1>12. Store!Init
  BY <1>1, <1>2, <1>10, <1>11, Zenon DEF Store!Init, Cursor
<1> QED BY <1>9, <1>12

LEMMA Invariance == Spec => []HostInv
<1>1. Init => HostInv
  BY Begins
<1>2. HostInv /\ [Next]_vars => HostInv'
  BY NextStep, Stuttering
<1> QED BY <1>1, <1>2, PTL DEF Spec

\* Type correctness: above all, that the tree stays one, whatever calls made
\* it: every entry lies in a directory, and no file has two names.
THEOREM TypeCorrect == Spec => []TypeOK
<1>1. HostInv => TypeOK
  BY DEF HostInv
<1> QED BY <1>1, Invariance, PTL

\* Every call of the host file system is a call of the store of files, or
\* nothing to it.
THEOREM HostIsStore == Spec => ImplementsFileStore
<1>1. Init => Store!Init
  BY Begins
<1>2. HostInv /\ [Next]_vars => [Store!Next]_Store!vars
  <2>1. StoreStep => Store!Next
    BY Zenon DEF StoreStep, Store!Next
  <2>2. HostInv /\ Next => [Store!Next]_Store!vars
    BY <2>1, NextStep
  <2>3. HostInv /\ UNCHANGED vars => [Store!Next]_Store!vars
    BY Stuttering
  <2> QED BY <2>2, <2>3
<1>3. Spec => Store!Init /\ [][Store!Next]_Store!vars
  BY <1>1, <1>2, Invariance, PTL DEF Spec
<1> QED BY <1>3 DEF ImplementsFileStore, Store!Spec

\* A call that stores the position it moved to.
LEMMA StoredIsTracked ==
  ASSUME TypeOK, NEW f \in Fils, NEW g \in Fils, NEW pos \in Nat, SaveFptr(g, pos),
         open_files'[g].pos = pos, f # g => open_files'[f] = open_files[f],
         Tracks(f) \/ open_files'[f] # open_files[f]
  PROVE  Tracks(f)'
<1>1. \A h \in Fils : fptr'[h] = IF h = g THEN pos % WordSize ELSE fptr[h]
  BY FptrType
<1>2. CASE f = g
  BY <1>1, <1>2 DEF Tracks
<1>3. CASE f # g
  BY <1>1, <1>3 DEF Tracks, IsOpen
<1> QED BY <1>2, <1>3

LEMMA MovedIsTracked ==
  ASSUME HostInv, NEW f \in Fils, NEW g \in Fils, NEW pos \in Nat, MoveTo(g, pos), SaveFptr(g, pos),
         Tracks(f) \/ open_files'[f] # open_files[f]
  PROVE  Tracks(f)'
<1>1. open_files \in [Fils -> File]
  BY DEF HostInv, TypeOK
<1>2. open_files'[g].pos = pos /\ (f # g => open_files'[f] = open_files[f])
  BY <1>1 DEF MoveTo, File
<1> QED BY <1>2, StoredIsTracked DEF HostInv

LEMMA Tracking ==
  ASSUME HostInv, Next, ~ SoftReset, NEW f \in Fils, result' = 0,
         Tracks(f) \/ open_files'[f] # open_files[f]
  PROVE  Tracks(f)'
<1>1. ASSUME UNCHANGED <<open_files, fptr>>
      PROVE  Tracks(f)'
  BY <1>1 DEF Tracks, IsOpen
<1>2. CASE NameCall
  BY <1>1, <1>2 DEF NameCall
<1>3. ASSUME NEW g \in Fils, NEW s \in Strings, NEW m \in Modes, f_open(g, s, m)
      PROVE  Tracks(f)'
  <2>1. CASE OpenRefused(Join(s), m) # 0
    BY <1>1, <1>3, <2>1, Zenon DEF f_open
  <2>2. CASE OpenRefused(Join(s), m) = 0
    <3> DEFINE i == IF IsFile(tree, Join(s)) THEN tree[Join(s)] ELSE Free
               h == [ino |-> i, pos |-> 0, write |-> FA_WRITE \in m]
    <3>1. open_files' = [open_files EXCEPT ![g] = h] /\ SaveFptr(g, 0)
      BY <1>3, <2>2, Zenon DEF f_open, Insert
    <3>2. h.pos = 0
      OBVIOUS
    <3> HIDE DEF h
    <3>3. open_files \in [Fils -> File] /\ TypeOK
      BY DEF HostInv, TypeOK
    <3>4. open_files'[g].pos = 0 /\ (f # g => open_files'[f] = open_files[f])
      BY <3>1, <3>2, <3>3
    <3> QED BY <3>1, <3>3, <3>4, StoredIsTracked
  <2> QED BY <2>1, <2>2
<1>4. ASSUME NEW g \in Fils, f_close(g)
      PROVE  Tracks(f)'
  <2>1. open_files' = [open_files EXCEPT ![g] = Closed] /\ fptr' = fptr /\ open_files \in [Fils -> File]
    BY <1>4 DEF f_close, HostInv, TypeOK
  <2>2. open_files'[f] = IF f = g THEN Closed ELSE open_files[f]
    BY <2>1
  <2> QED BY <2>1, <2>2 DEF Tracks, IsOpen
<1>5. ASSUME NEW g \in Fils, NEW n \in Lengths, f_read(g, n)
      PROVE  Tracks(f)'
  <2> DEFINE a == open_files[g].pos
             k == Len(SubSeq(Data(g), a + 1, Min({a + n, Len(Data(g))})))
  <2>1. MoveTo(g, a + k) /\ SaveFptr(g, a + k) /\ IsOpen(g)
    BY <1>5, Zenon DEF f_read
  <2>2. a + k \in Nat
    <3>1. a \in Nat /\ Data(g) \in Seq(Bytes) /\ Len(Data(g)) \in Nat /\ n \in Nat
      BY <2>1, DataOf, HostFsAssumption
    <3>2. {a + n, Len(Data(g))} \in SUBSET Nat /\ {a + n, Len(Data(g))} # {}
      BY <3>1
    <3>3. Min({a + n, Len(Data(g))}) \in {a + n, Len(Data(g))} /\ Min({a + n, Len(Data(g))}) <= Len(Data(g))
      BY <3>2, Minimum
    <3>4. Min({a + n, Len(Data(g))}) \in Nat
      BY <3>1, <3>3
    <3>5. SubSeq(Data(g), a + 1, Min({a + n, Len(Data(g))})) \in Seq(Bytes)
      BY <3>1, <3>3, <3>4, Part
    <3> QED BY <3>1, <3>5, LenProperties
  <2> HIDE DEF a, k
  <2> QED BY <2>1, <2>2, MovedIsTracked
<1>6. ASSUME NEW g \in Fils, NEW n \in Lengths, f_gets(g, n)
      PROVE  Tracks(f)'
  <2> DEFINE a     == open_files[g].pos
             rest  == SubSeq(Data(g), a + 1, Len(Data(g)))
             stops == {k \in 0 .. Min({n, Len(rest)}) : k = n \/ (k > 0 /\ rest[k] \in {LF, NUL})}
             k     == IF stops = {} THEN Len(rest) ELSE Min(stops)
  <2>1. /\ IsOpen(g)
        /\ \/ stops # {} /\ MoveTo(g, a + k) /\ SaveFptr(g, a + k)
           \/ result' = 1
    BY <1>6, Zenon DEF f_gets, Answer
  <2>2. MoveTo(g, a + k) /\ SaveFptr(g, a + k) /\ stops # {}
    <3> HIDE DEF stops, k
    <3> QED BY <2>1
  <2>3. a + k \in Nat
    <3>1. a \in Nat
      BY <2>1, DataOf
    <3>2. stops \in SUBSET Nat
      OBVIOUS
    <3>3. k = Min(stops)
      BY <2>2
    <3> HIDE DEF stops, k
    <3>4. k \in Nat
      BY <2>2, <3>2, <3>3, Minimum
    <3> QED BY <3>1, <3>4
  <2> HIDE DEF a, k, stops, rest
  <2> QED BY <2>1, <2>2, <2>3, MovedIsTracked
<1>7. ASSUME NEW g \in Fils, NEW n \in Lengths, f_lseek(g, n)
      PROVE  Tracks(f)'
  <2>1. n \in Nat /\ MoveTo(g, n) /\ SaveFptr(g, n)
    BY <1>7, HostFsAssumption DEF f_lseek
  <2> QED BY <2>1, MovedIsTracked
<1>8. ASSUME NEW g \in Fils, NEW bs \in Seq(Bytes), Put(g, bs)
      PROVE  Tracks(f)'
  <2> DEFINE a == open_files[g].pos
  <2>1. PICK k \in 0 .. Len(bs) :
          IsOpen(g) /\ MoveTo(g, a + k) /\ IF k = Len(bs) THEN SaveFptr(g, a + k) ELSE result' = 1
    BY <1>8, Zenon DEF Put, Answer
  <2>2. SaveFptr(g, a + k)
    BY <2>1
  <2>3. a + k \in Nat
    BY <2>1, DataOf
  <2> HIDE DEF a
  <2> QED BY <2>1, <2>2, <2>3, MovedIsTracked
<1>9. ASSUME NEW g \in Fils, f_truncate(g) \/ FilRefused(g)
      PROVE  Tracks(f)'
  BY <1>1, <1>9 DEF f_truncate, FilRefused
<1>10. \A bs \in Texts : bs \in Seq(Bytes)
  BY HostFsAssumption
<1>11. \A b \in Chars : <<b>> \in Seq(Bytes)
  <2>1. \A b \in Chars : b \in Bytes
    BY HostFsAssumption
  <2> QED BY <2>1
<1>12. CASE FileCall
  <2>1. PICK g \in Fils :
           \/ \E s \in Strings, m \in Modes : f_open(g, s, m)
           \/ f_close(g)
           \/ \E n \in Lengths : f_read(g, n) \/ f_gets(g, n) \/ f_lseek(g, n)
           \/ \E bs \in Texts : Put(g, bs)
           \/ \E b \in Chars : Put(g, <<b>>)
           \/ f_truncate(g) \/ FilRefused(g)
    BY <1>12, Zenon DEF FileCall, f_write, f_putc
  <2>2. ASSUME NEW b \in Chars, Put(g, <<b>>)
        PROVE  Tracks(f)'
    BY <1>8, <1>11, <2>2
  <2>3. ASSUME NEW bs \in Texts, Put(g, bs)
        PROVE  Tracks(f)'
    BY <1>8, <1>10, <2>3
  <2> QED BY <2>1, <2>2, <2>3, <1>3, <1>4, <1>5, <1>6, <1>7, <1>9
<1> QED BY <1>2, <1>12 DEF Next

\* A call that succeeds leaves the copy of the position in guest memory right.
THEOREM FptrTracks == Spec => FptrTracksPosition
<1>1. HostInv /\ [Next]_vars =>
        [~ SoftReset =>
           \A f \in Fils : result' = 0 /\ (Tracks(f) \/ open_files'[f] # open_files[f]) => Tracks(f)']_vars
  BY Tracking
<1> QED BY <1>1, Invariance, PTL DEF Spec, FptrTracksPosition

LEMMA TwinsStay ==
  ASSUME HostInv, Next, NoCaseTwins, IsDir(tree, cwd)
  PROVE  NoCaseTwins'
<1>0. Twinless(tree) /\ Fits(tree) /\ (Twinless(tree') => NoCaseTwins')
  BY DEF Twinless, NoCaseTwins, HostInv
<1>1. ASSUME tree' = tree PROVE NoCaseTwins'
  BY <1>0, <1>1
<1>2. ASSUME NEW f \in Fils, NEW s \in Strings, NEW m \in Modes, f_open(f, s, m)
      PROVE  NoCaseTwins'
  <2> DEFINE p == Join(s)
             i == IF IsFile(tree, p) THEN tree[p] ELSE Free
  <2>1. p \in Seq(Name) /\ Spelled(tree, p)
    BY JoinType
  <2> HIDE DEF p
  <2>2. CASE OpenRefused(p, m) # 0
    <3>1. UNCHANGED host
      BY <1>2, <2>2, Zenon DEF f_open, p
    <3> QED BY <1>1, <3>1 DEF host
  <2>3. CASE OpenRefused(p, m) = 0
    <3>1. tree' = With(tree, p, i)
      BY <1>2, <2>3, Zenon DEF f_open, p
    <3>2. p # Root
      BY <2>1, <2>3, <1>0, OpenFinds DEF Fits, WellFormed
    <3> HIDE DEF i
    <3> QED BY <1>0, <2>1, <3>1, <3>2, NewTwinless
  <2> QED BY <2>2, <2>3
<1>3. ASSUME NEW s \in Strings, f_mkdir(s)
      PROVE  NoCaseTwins'
  <2> DEFINE p == Join(s)
  <2>1. p \in Seq(Name) /\ Spelled(tree, p)
    BY JoinType
  <2> HIDE DEF p
  <2>2. \/ tree' = tree
        \/ ~ Exists(tree, p) /\ tree' = With(tree, p, Dir)
    BY <1>3, Zenon DEF f_mkdir, p
  <2>3. CASE ~ Exists(tree, p) /\ tree' = With(tree, p, Dir)
    <3>1. p # Root
      BY <2>3 DEF Exists
    <3> QED BY <1>0, <2>1, <2>3, <3>1, NewTwinless
  <2> QED BY <1>1, <2>2, <2>3
<1>4. ASSUME NEW s \in Strings, NEW u \in Strings, f_rename(s, u)
      PROVE  NoCaseTwins'
  <2> DEFINE p == Join(s)
             q == Join(u)
  <2>1. p \in Seq(Name) /\ q \in Seq(Name) /\ Spelled(tree, q)
    BY JoinType
  <2> HIDE DEF p, q
  <2>2. /\ result' = Fresult(Renaming(tree, p, q))
        /\ tree' = IF result' = 0 /\ p # q THEN Renamed(tree, p, q) ELSE tree
    BY <1>4, Zenon DEF f_rename, Answer, p, q
  <2>3. CASE result' = 0 /\ p # q
    <3>1. Renaming(tree, p, q) = "ok"
      BY <2>2, <2>3, SMT DEF Fresult
    <3>2. Twinless(Renamed(tree, p, q))
      BY <1>0, <2>1, <2>3, <3>1, RenamedTwinless
    <3> QED BY <1>0, <2>2, <2>3, <3>2
  <2>4. CASE ~ (result' = 0 /\ p # q)
    BY <1>1, <2>2, <2>4
  <2> QED BY <2>3, <2>4
<1>5. ASSUME NEW s \in Strings, f_unlink(s)
      PROVE  NoCaseTwins'
  <2>1. tree' = tree \/ tree' = Without(tree, Join(s))
    BY <1>5, Zenon DEF f_unlink
  <2> QED BY <1>0, <1>1, <2>1, GoneTwinless
<1>6. CASE FileCall
  <2>0. \A f \in Fils, n \in Lengths : f_gets(f, n) => tree' = tree
    BY Zenon DEF f_gets, host
  <2>1. PICK f \in Fils : (\E s \in Strings, m \in Modes : f_open(f, s, m)) \/ tree' = tree
    BY <1>6, <2>0, Zenon DEF FileCall, f_close, f_read, f_lseek, f_write, f_putc, Put, f_truncate, FilRefused, host
  <2> QED BY <1>1, <1>2, <2>1
<1>7. CASE NameCall
  <2>1. \/ tree' = tree
        \/ \E s \in Strings : f_mkdir(s) \/ f_unlink(s)
        \/ \E s, u \in Strings : f_rename(s, u)
    BY <1>7, Zenon DEF NameCall, f_chdir, f_stat, f_readdir, f_closedir, f_opendir, f_getcwd,
                       f_getlabel, f_mount, host
  <2> QED BY <1>1, <1>3, <1>4, <1>5, <2>1
<1>8. CASE SoftReset
  BY <1>1, <1>8 DEF SoftReset, host
<1> QED BY <1>6, <1>7, <1>8 DEF Next

\* A program whose current directory is there brings about no two entries that
\* it could not tell apart, whatever it opens, makes or renames.
THEOREM TwinsAreNotMade == Spec => NoTwinMade
<1>1. HostInv /\ [Next]_vars => [NoCaseTwins /\ IsDir(tree, cwd) => NoCaseTwins']_vars
  BY TwinsStay
<1> QED BY <1>1, Invariance, PTL DEF Spec, NoTwinMade

LEMMA Found ==
  ASSUME HostInv
  PROVE  PathsFound
<1> SUFFICES ASSUME NEW s \in Strings
             PROVE  LET w == IF Absolute(s) THEN s ELSE cwd \o s
                    IN  /\ Denotes(w, Join(s))
                        /\ NoCaseTwins /\ (Absolute(s) \/ IsDir(tree, cwd)) =>
                             \A q \in DOMAIN tree : Denotes(w, q) => q = Join(s)
  BY DEF PathsFound
<1> DEFINE w == IF Absolute(s) THEN s ELSE cwd \o s
           p == Join(s)
<1>1. s \in Seq(Fragment) /\ s # <<>> /\ Len(s) \in Nat \ {0}
  <2>1. s \in Seq(Fragment) /\ s # <<>>
    BY HostFsAssumption DEF Fragment
  <2> QED BY <2>1, EmptySeq, LenProperties
<1>2. Fits(tree) /\ cwd \in Seq(Name) /\ Len(cwd) \in Nat
  BY LenProperties DEF HostInv, TypeOK
<1>3. Absolute(s) <=> Len(s) > 1 /\ s[1] = ""
  <2> DEFINE e == ""
             empty == s[1] = e
  <2>1. e \in Fragment
    BY DEF Fragment
  <2>2. Absolute(s) <=> s # <<e>> /\ empty
    BY Zenon DEF Absolute
  <2> SUFFICES Len(s) > 1 /\ empty <=> s # <<e>> /\ empty
    BY <2>2, Zenon
  <2> HIDE DEF e, empty
  <2>3. Len(s) = 1 /\ empty => s = <<e>>
    BY <1>1, <2>1, Single DEF empty
  <2>4. s = <<e>> => Len(s) = 1
    OBVIOUS
  <2> QED BY <1>1, <2>3, <2>4
<1>4. Stacked(w, Len(w), p)
  <2>1. CASE Absolute(s)
    <3>1. w = s /\ Start(cwd, s) = Root
      BY <2>1, <1>3 DEF Start
    <3>2. \A k \in 1 .. Len(s) : s[0 + k] = s[k]
      OBVIOUS
    <3>3. Stacked(s, 0 + Len(s), mos_path_join(tree, cwd, s))
      BY <1>1, <3>1, <3>2, StackedRoot, StackedJoin
    <3>4. 0 + Len(s) = Len(s)
      BY <1>1
    <3> QED BY <3>1, <3>3, <3>4, Zenon DEF Join
  <2>2. CASE ~ Absolute(s)
    <3> DEFINE y == cwd \o s
    <3>1. w = y /\ Start(cwd, s) = cwd
      BY <2>2, <1>3 DEF Start
    <3>2. /\ Len(y) = Len(cwd) + Len(s)
          /\ \A i \in 1 .. Len(cwd) + Len(s) : y[i] = IF i <= Len(cwd) THEN cwd[i] ELSE s[i - Len(cwd)]
      <4>1. cwd \in Seq(Fragment)
        <5>1. Name \subseteq Fragment
          BY DEF Fragment
        <5> QED BY <1>2, <5>1, Wider
      <4> QED BY <1>1, <4>1, ConcatProperties
    <3> HIDE DEF y
    <3>3. \A i \in 1 .. Len(cwd) : y[i] = cwd[i]
      BY <1>1, <1>2, <3>2
    <3>4. Stacked(y, Len(cwd), Start(cwd, s))
      BY <1>2, <3>1, <3>3, StackedDir
    <3>5. ASSUME NEW k \in 1 .. Len(s) PROVE y[Len(cwd) + k] = s[k]
      <4>1. Len(cwd) + k \in 1 .. Len(cwd) + Len(s) /\ ~ (Len(cwd) + k <= Len(cwd)) /\ (Len(cwd) + k) - Len(cwd) = k
        BY <1>1, <1>2
      <4> QED BY <3>2, <4>1
    <3>6. Stacked(y, Len(cwd) + Len(s), mos_path_join(tree, cwd, s))
      BY <1>1, <1>2, <3>4, <3>5, StackedJoin
    <3> QED BY <3>1, <3>2, <3>6 DEF Join
  <2> QED BY <2>1, <2>2
<1>5. p \in Seq(Name) /\ (Absolute(s) \/ IsDir(tree, cwd) => Spelled(tree, p))
  <2>1. Absolute(s) => Start(cwd, s) = Root
    BY <1>3 DEF Start
  <2>2. Absolute(s) \/ IsDir(tree, cwd) => IsDir(tree, Start(cwd, s)) \/ IsDir(tree, cwd)
    BY <2>1 DEF IsDir
  <2> QED BY <2>2, JoinType
<1> HIDE DEF w, p
<1>6. Denotes(w, p)
  BY <1>4, Zenon DEF Stacked, Denotes
<1>7. ASSUME NoCaseTwins, Absolute(s) \/ IsDir(tree, cwd), NEW q \in DOMAIN tree, Denotes(w, q)
      PROVE  q = p
  <2>1. Twinless(tree) /\ Spelled(tree, p)
    BY <1>5, <1>7 DEF Twinless, NoCaseTwins
  <2>2. Len(q) = Len(p) /\ \A r \in 1 .. Len(p) : Same(q[r], p[r])
    BY <1>4, <1>7, DenotedAlike
  <2> QED BY <1>2, <1>5, <2>1, <2>2, SpelledFound
<1> QED BY <1>6, <1>7 DEF w, p

\* Every path the program writes is taken for what it denotes, and what it
\* denotes is found if it is there.
THEOREM PathsAreFound == Spec => []PathsFound
<1>1. HostInv => PathsFound
  BY Found
<1> QED BY <1>1, Invariance, PTL
=============================================================================
