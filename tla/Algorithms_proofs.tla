--------------------------- MODULE Algorithms_proofs ---------------------------
(***************************************************************************)
(* Proofs about the four sequential algorithms: StreamParser,              *)
(* SemanticChunker, AnswerPipeline and FederatedSearch.                    *)
(***************************************************************************)
EXTENDS StreamParser, SemanticChunker, AnswerPipeline, FederatedSearch, Collections

-----------------------------------------------------------------------------
(***************************************************************************)
(* The stream parser.  StreamInv reads the fields of the parser off what   *)
(* was fed: in each of the three modes the text passed on and the text     *)
(* held back are adjacent slices of it, and where text was passed on no    *)
(* tag can begin any more, whatever piece comes next.                      *)
(***************************************************************************)

StreamSpec == StreamInit /\ [][StreamNext]_streamVars

-----------------------------------------------------------------------------
(* Slices of a sequence.                                                   *)

LEMMA Slice ==
  ASSUME NEW T, NEW f \in Seq(T), NEW i \in 1..(Len(f) + 1), NEW j \in (i - 1)..Len(f)
  PROVE  /\ SubSeq(f, i, j) \in Seq(T) /\ Len(SubSeq(f, i, j)) = j - i + 1
         /\ j - i + 1 \in Nat /\ DOMAIN SubSeq(f, i, j) = 1..(j - i + 1)
         /\ \A k \in 1..(j - i + 1) : SubSeq(f, i, j)[k] = f[i + k - 1] /\ i + k - 1 \in 1..Len(f)
<1>1. /\ i \in Int /\ j \in Int /\ i >= 1 /\ j >= i - 1 /\ j <= Len(f) /\ Len(f) \in Nat
      /\ j - i + 1 \in Nat
  OBVIOUS
<1>2. \A k \in 1..(j - i + 1) : i + k - 1 \in 1..Len(f)
  BY <1>1
<1>3. SubSeq(f, i, j) = [k \in 1..(j - i + 1) |-> f[i + k - 1]]
  BY <1>1
<1>4. \A k \in 1..(j - i + 1) : f[i + k - 1] \in T
  BY <1>2
<1>. DEFINE n == j - i + 1
            s == [k \in 1..n |-> f[i + k - 1]]
<1>. HIDE DEF n
<1>5. s \in Seq(T) /\ Len(s) = n /\ DOMAIN s = 1..n /\ n \in Nat
  BY <1>1, <1>4 DEF n
<1>. QED  BY <1>2, <1>3, <1>5 DEF n

LEMMA SliceSlice ==
  ASSUME NEW T, NEW f \in Seq(T), NEW i \in 1..(Len(f) + 1), NEW j \in (i - 1)..Len(f),
         NEW k \in 1..(j - i + 2), NEW l \in (k - 1)..(j - i + 1)
  PROVE  SubSeq(SubSeq(f, i, j), k, l) = SubSeq(f, i + k - 1, i + l - 1)
<1>. DEFINE s == SubSeq(f, i, j)
            a == i + k - 1
            b == i + l - 1
<1>1. /\ i \in Int /\ j \in Int /\ k \in Int /\ l \in Int /\ Len(f) \in Nat
      /\ a \in 1..(Len(f) + 1) /\ b \in (a - 1)..Len(f) /\ b - a = l - k
  OBVIOUS
<1>2. /\ s \in Seq(T) /\ Len(s) = j - i + 1
      /\ \A m \in 1..(j - i + 1) : s[m] = f[i + m - 1]
  BY Slice
<1>. HIDE DEF s
<1>3. k \in 1..(Len(s) + 1) /\ l \in (k - 1)..Len(s)
  BY <1>1, <1>2
<1>4. /\ SubSeq(s, k, l) \in Seq(T) /\ Len(SubSeq(s, k, l)) = l - k + 1
      /\ \A m \in 1..(l - k + 1) : SubSeq(s, k, l)[m] = s[k + m - 1]
  <2>1. s \in Seq(T)
    BY <1>2
  <2>. QED  BY ONLY <1>3, <2>1, Slice
<1>. HIDE DEF a, b
<1>5. /\ SubSeq(f, a, b) \in Seq(T) /\ Len(SubSeq(f, a, b)) = b - a + 1
      /\ \A m \in 1..(b - a + 1) : SubSeq(f, a, b)[m] = f[a + m - 1]
  BY <1>1, Slice
<1>6. ASSUME NEW m \in 1..(l - k + 1)
      PROVE  SubSeq(s, k, l)[m] = SubSeq(f, a, b)[m]
  <2>1. k + m - 1 \in 1..(j - i + 1) /\ i + (k + m - 1) - 1 = a + m - 1
    BY <1>1 DEF a
  <2>. QED  BY <1>1, <1>2, <1>4, <1>5, <2>1
<1>. QED  BY <1>1, <1>4, <1>5, <1>6, SeqEqual DEF s, a, b

LEMMA SliceJoin ==
  ASSUME NEW T, NEW f \in Seq(T), NEW i \in 1..(Len(f) + 1), NEW j \in (i - 1)..Len(f),
         NEW l \in j..Len(f)
  PROVE  SubSeq(f, i, j) \o SubSeq(f, j + 1, l) = SubSeq(f, i, l)
<1>. DEFINE s == SubSeq(f, i, j)
            t == SubSeq(f, j + 1, l)
            a == j + 1
            n == j - i + 1
            m == l - a + 1
<1>1. /\ i \in Int /\ j \in Int /\ l \in Int /\ Len(f) \in Nat /\ n \in Nat /\ m \in Nat
      /\ a \in 1..(Len(f) + 1) /\ l \in (a - 1)..Len(f) /\ l \in (i - 1)..Len(f)
      /\ n + m = l - i + 1 /\ i + n = a
  OBVIOUS
<1>2. s \in Seq(T) /\ Len(s) = n /\ \A k \in 1..n : s[k] = f[i + k - 1]
  BY Slice
<1>3. t \in Seq(T) /\ Len(t) = m /\ \A k \in 1..m : t[k] = f[a + k - 1]
  <2>. HIDE DEF a
  <2>1. /\ SubSeq(f, a, l) \in Seq(T) /\ Len(SubSeq(f, a, l)) = l - a + 1
        /\ \A k \in 1..(l - a + 1) : SubSeq(f, a, l)[k] = f[a + k - 1]
    BY <1>1, Slice
  <2>. QED  BY <2>1 DEF a
<1>4. /\ SubSeq(f, i, l) \in Seq(T) /\ Len(SubSeq(f, i, l)) = l - i + 1
      /\ \A k \in 1..(l - i + 1) : SubSeq(f, i, l)[k] = f[i + k - 1]
  BY <1>1, Slice
<1>. HIDE DEF s, t, n, m, a
<1>5. /\ s \o t \in Seq(T) /\ Len(s \o t) = n + m
      /\ \A k \in 1..n : (s \o t)[k] = s[k]
  <2>1. s \in Seq(T) /\ t \in Seq(T) /\ Len(s) = n /\ Len(t) = m /\ n \in Nat /\ m \in Nat
    BY <1>1, <1>2, <1>3
  <2>2. s \o t \in Seq(T) /\ Len(s \o t) = n + m
    BY ONLY <2>1, SMTT(40)
  <2>3. \A k \in 1..n : (s \o t)[k] = s[k]
    BY ONLY <2>1, SMTT(40)
  <2>. QED  BY <2>2, <2>3
<1>6. ASSUME NEW k \in 1..(n + m)
      PROVE  (s \o t)[k] = f[i + k - 1]
  <2>1. CASE k \in 1..n
    BY <1>2, <1>5, <2>1
  <2>2. CASE k \notin 1..n
    <3>1. /\ k - n \in 1..m /\ ~(k <= n) /\ k \in Int /\ a + (k - n) - 1 = i + k - 1
      BY <1>1, <2>2
    <3>2. (s \o t)[k] = t[k - n]
      <4>1. s \in Seq(T) /\ t \in Seq(T) /\ Len(s) = n /\ Len(t) = m /\ k \in 1..(n + m)
        BY <1>1, <1>2, <1>3
      <4>. QED  BY ONLY <3>1, <4>1, ConcatProperties, ZenonT(40)
    <3>. QED  BY <1>3, <3>1, <3>2
  <2>. QED  BY <2>1, <2>2
<1>7. \A k \in 1..(n + m) : (s \o t)[k] = SubSeq(f, i, l)[k]
  BY <1>1, <1>4, <1>6
<1>. QED  BY <1>1, <1>4, <1>5, <1>7, SeqEqual DEF s, t

LEMMA SliceGrown ==
  ASSUME NEW T, NEW f \in Seq(T), NEW g \in Seq(T), NEW i \in 1..(Len(f) + 1)
  PROVE  /\ f \o g \in Seq(T) /\ Len(f \o g) = Len(f) + Len(g)
         /\ \A k \in 1..Len(f) : (f \o g)[k] = f[k]
         /\ \A j \in (i - 1)..Len(f) : SubSeq(f \o g, i, j) = SubSeq(f, i, j)
         /\ SubSeq(f \o g, i, Len(f \o g)) = SubSeq(f, i, Len(f)) \o g
<1>. DEFINE h == f \o g
            n == Len(f)
            m == Len(g)
<1>1. /\ h \in Seq(T) /\ Len(h) = n + m /\ n \in Nat /\ m \in Nat
      /\ \A k \in 1..n : h[k] = f[k]
  OBVIOUS
<1>2. ASSUME NEW j \in (i - 1)..n
      PROVE  SubSeq(h, i, j) = SubSeq(f, i, j)
  <2>. HIDE DEF h
  <2>1. i \in 1..(Len(h) + 1) /\ j \in (i - 1)..Len(h)
    BY <1>1
  <2>2. /\ SubSeq(h, i, j) \in Seq(T) /\ Len(SubSeq(h, i, j)) = j - i + 1
        /\ \A k \in 1..(j - i + 1) : SubSeq(h, i, j)[k] = h[i + k - 1]
    BY <1>1, <2>1, Slice, ZenonT(40)
  <2>3. /\ SubSeq(f, i, j) \in Seq(T) /\ Len(SubSeq(f, i, j)) = j - i + 1
        /\ \A k \in 1..(j - i + 1) : SubSeq(f, i, j)[k] = f[i + k - 1] /\ i + k - 1 \in 1..n
    BY Slice
  <2>4. \A k \in 1..(j - i + 1) : SubSeq(h, i, j)[k] = SubSeq(f, i, j)[k]
    BY <1>1, <2>2, <2>3
  <2>. QED  BY <2>2, <2>3, <2>4, SeqEqual
<1>3. SubSeq(h, n + 1, n + m) = g
  <2>. DEFINE a == n + 1
              b == n + m
  <2>1. a \in 1..(Len(h) + 1) /\ b \in (a - 1)..Len(h) /\ b - a + 1 = m
    BY <1>1
  <2>. HIDE DEF a, b, h
  <2>2. /\ SubSeq(h, a, b) \in Seq(T) /\ Len(SubSeq(h, a, b)) = b - a + 1
        /\ \A k \in 1..(b - a + 1) : SubSeq(h, a, b)[k] = h[a + k - 1]
    BY <1>1, <2>1, Slice
  <2>3. ASSUME NEW k \in 1..m
        PROVE  h[a + k - 1] = g[k]
    <3>1. a + k - 1 \in 1..(n + m) /\ ~(a + k - 1 <= n) /\ (a + k - 1) - n = k
      BY <1>1 DEF a
    <3>. QED  BY <1>1, <3>1, ConcatProperties DEF h
  <2>4. \A k \in 1..m : SubSeq(h, a, b)[k] = g[k]
    BY <2>1, <2>2, <2>3
  <2>. QED  BY <2>1, <2>2, <2>4, SeqEqual DEF a, b
<1>4. SubSeq(h, i, n) \o SubSeq(h, n + 1, n + m) = SubSeq(h, i, n + m)
  <2>1. i \in 1..(Len(h) + 1) /\ n \in (i - 1)..Len(h) /\ n + m \in n..Len(h)
    BY <1>1
  <2>. HIDE DEF h, n, m
  <2>. QED  BY <1>1, <2>1, SliceJoin
<1>5. n \in (i - 1)..n
  BY <1>1
<1>6. SubSeq(h, i, Len(h)) = SubSeq(f, i, n) \o g
  <2>. HIDE DEF h, n, m
  <2>. QED  BY <1>1, <1>2, <1>3, <1>4, <1>5
<1>. QED  BY <1>1, <1>2, <1>6

-----------------------------------------------------------------------------
(* Where a tag is, and where it cannot be whatever follows.                *)

At(tag, f, i) ==
    /\ i >= 1 /\ i + Len(tag) - 1 <= Len(f)
    /\ \A k \in 1..Len(tag) : f[i + k - 1] = tag[k]

Ruled(tag, f, i) == \E k \in 1..Len(tag) : i + k - 1 <= Len(f) /\ f[i + k - 1] # tag[k]

(* A tag opens with the only "<" it has. *)
IsTag(tag) ==
    /\ tag \in Seq(Symbols) /\ Len(tag) \in 2..3
    /\ tag[1] = "<"
    /\ \A k \in 1..Len(tag) : k # 1 => tag[k] # "<"
    /\ \A k \in 1..Len(tag) : tag[k] # "x"

LEMMA Tags == /\ IsTag(OpenTag) /\ Len(OpenTag) = 2
              /\ IsTag(CloseTag) /\ Len(CloseTag) = 3
  BY DEF IsTag, OpenTag, CloseTag, Symbols

LEMMA PrefixIs ==
  ASSUME NEW s \in Seq(Symbols), NEW t \in Seq(Symbols)
  PROVE  IsPrefix(s, t) <=> Len(s) <= Len(t) /\ \A k \in 1..Len(s) : s[k] = t[k]
<1>1. Len(s) \in Nat /\ Len(t) \in Nat
  OBVIOUS
<1>2. SubSeq(s, 1, Len(s)) = s
  OBVIOUS
<1>3. ASSUME Len(s) <= Len(t)
      PROVE  SubSeq(s, 1, Len(s)) = SubSeq(t, 1, Len(s)) <=> \A k \in 1..Len(s) : s[k] = t[k]
  <2>1. Len(s) \in 0..Len(t)
    BY <1>1, <1>3
  <2>. DEFINE n == Len(s)
  <2>2. 1 \in 1..(Len(t) + 1) /\ n \in (1 - 1)..Len(t) /\ n - 1 + 1 = n
    BY <1>1, <2>1
  <2>. HIDE DEF n
  <2>3. /\ SubSeq(t, 1, n) \in Seq(Symbols) /\ Len(SubSeq(t, 1, n)) = n - 1 + 1
        /\ \A k \in 1..(n - 1 + 1) : SubSeq(t, 1, n)[k] = t[1 + k - 1]
    BY <2>2, Slice
  <2>4. \A k \in 1..n : 1 + k - 1 = k
    OBVIOUS
  <2>5. Len(SubSeq(t, 1, n)) = n /\ \A k \in 1..n : SubSeq(t, 1, n)[k] = t[k]
    BY <2>2, <2>3, <2>4
  <2>6. s = SubSeq(t, 1, n) <=> \A k \in 1..n : s[k] = SubSeq(t, 1, n)[k]
    BY <2>3, <2>5, SeqEqual DEF n
  <2>. QED  BY <1>2, <2>5, <2>6 DEF n
<1>. QED  BY <1>3 DEF IsPrefix

LEMMA TagAt ==
  ASSUME NEW tag, IsTag(tag), NEW f \in Seq(Symbols), NEW i \in 1..Len(f)
  PROVE  IsPrefix(tag, SubSeq(f, i, Len(f))) <=> At(tag, f, i)
<1>. DEFINE n == Len(f)
            t == SubSeq(f, i, n)
<1>1. tag \in Seq(Symbols) /\ Len(tag) \in 2..3 /\ n \in Nat /\ i \in 1..(n + 1) /\ n \in (i - 1)..n
  BY DEF IsTag
<1>2. /\ t \in Seq(Symbols) /\ Len(t) = n - i + 1
      /\ \A k \in 1..(n - i + 1) : t[k] = f[i + k - 1]
  BY <1>1, Slice
<1>. HIDE DEF t, n
<1>3. IsPrefix(tag, t) <=> Len(tag) <= n - i + 1 /\ \A k \in 1..Len(tag) : tag[k] = t[k]
  BY <1>1, <1>2, PrefixIs
<1>4. i \in Int /\ i >= 1 /\ Len(tag) \in Int
  BY <1>1
<1>5. Len(tag) <= n - i + 1 <=> i + Len(tag) - 1 <= n
  BY <1>1, <1>4
<1>6. Len(tag) <= n - i + 1 => \A k \in 1..Len(tag) : k \in 1..(n - i + 1)
  BY <1>1, <1>4
<1>. QED  BY <1>2, <1>3, <1>4, <1>5, <1>6 DEF At, t, n

LEMMA FindFacts ==
  ASSUME NEW tag, IsTag(tag), NEW f \in Seq(Symbols)
  PROVE  /\ Find(tag, f) \in 0..Len(f)
         /\ Find(tag, f) # 0 => /\ At(tag, f, Find(tag, f))
                                /\ \A i \in 1..Len(f) : At(tag, f, i) => Find(tag, f) <= i
         /\ Find(tag, f) = 0 => \A i \in 1..Len(f) : ~At(tag, f, i)
<1>. DEFINE n == Len(f)
            places == [i \in 1..n |-> i]
            I == {i \in 1..Len(places) : IsPrefix(tag, SubSeq(f, places[i], Len(f)))}
            J == {i \in 1..n : At(tag, f, i)}
<1>1. n \in Nat
  OBVIOUS
<1>2. Find(tag, f) = IF I # {} THEN Min(I) ELSE 0
  BY DEF Find, SelectInSeq
<1>3. I = J
  <2>1. Len(places) = n
    BY <1>1
  <2>2. \A i \in 1..n : places[i] = i
    OBVIOUS
  <2>. HIDE DEF places
  <2>3. I = {i \in 1..n : IsPrefix(tag, SubSeq(f, i, Len(f)))}
    BY <2>1, <2>2
  <2>. QED  BY <2>3, TagAt
<1>4. J \subseteq 1..n /\ IsFiniteSet(1..n)
  BY <1>1, CountTo
<1>. HIDE DEF J, I
<1>5. IsFiniteSet(J)
  BY <1>4, FS_Subset
<1>6. J # {} => Min(J) \in J /\ \A i \in J : Min(J) <= i
  <2>1. J \subseteq Int
    BY <1>4
  <2>. QED  BY <1>5, <2>1, SmallestExists
<1>. HIDE DEF n
<1>7. CASE J = {}
  BY <1>1, <1>2, <1>3, <1>7 DEF J, n
<1>8. CASE J # {}
  <2>1. Find(tag, f) = Min(J)
    BY <1>2, <1>3, <1>8
  <2>2. Find(tag, f) \in 1..n /\ At(tag, f, Find(tag, f)) /\ \A i \in J : Find(tag, f) <= i
    BY <1>6, <1>8, <2>1 DEF J
  <2>. QED  BY <1>1, <2>2 DEF J, n
<1>. QED  BY <1>7, <1>8

(* What may be passed on cannot be a tag's beginning. *)
LEMMA SendableRules ==
  ASSUME NEW tag, IsTag(tag), NEW f \in Seq(Symbols), \A i \in 1..Len(f) : ~At(tag, f, i)
  PROVE  /\ Sendable(tag, f) \in 0..Len(f)
         /\ Len(f) - Sendable(tag, f) < Len(tag)
         /\ \A i \in 1..Sendable(tag, f) : Ruled(tag, f, i)
<1>. DEFINE n == Len(f)
            I == {i \in 1..Len(f) : f[i] = "<"}
            last == IF I # {} THEN Max(I) ELSE 0
<1>1. n \in Nat /\ tag \in Seq(Symbols) /\ Len(tag) \in 2..3 /\ tag[1] = "<"
      /\ (\A k \in 1..Len(tag) : k # 1 => tag[k] # "<")
  BY DEF IsTag
<1>2. Sendable(tag, f) = IF last # 0 /\ IsPrefix(SubSeq(f, last, n), tag) THEN last - 1 ELSE n
  BY DEF Sendable, SelectLastInSeq
<1>3. I \subseteq 1..n /\ IsFiniteSet(1..n)
  BY <1>1, CountTo
<1>4. IsFiniteSet(I) /\ I \subseteq Int
  <2>1. IsFiniteSet(I)
    BY <1>3, FS_Subset
  <2>. QED  BY <1>3, <2>1
<1>5. I # {} => last \in I /\ \A i \in I : i <= last
  <2>. HIDE DEF I
  <2>. QED  BY <1>4, LargestExists
<1>6. /\ last \in 0..n
      /\ last # 0 => f[last] = "<"
      /\ \A i \in 1..n : f[i] = "<" => last # 0 /\ i <= last
  <2>1. CASE I = {}
    BY <1>1, <2>1
  <2>2. CASE I # {}
    <3>1. last \in 1..n /\ f[last] = "<" /\ \A i \in I : i <= last
      BY <1>5, <2>2
    <3>. HIDE DEF last
    <3>. QED  BY <1>1, <3>1
  <2>. QED  BY <2>1, <2>2
<1>. HIDE DEF last, I, n
<1>7. last # 0 => (IsPrefix(SubSeq(f, last, n), tag)
                     <=> n - last + 1 <= Len(tag)
                         /\ \A k \in 1..(n - last + 1) : f[last + k - 1] = tag[k])
  <2>. SUFFICES ASSUME last # 0
                PROVE  IsPrefix(SubSeq(f, last, n), tag)
                         <=> n - last + 1 <= Len(tag)
                             /\ \A k \in 1..(n - last + 1) : f[last + k - 1] = tag[k]
    OBVIOUS
  <2>1. last \in 1..(n + 1) /\ n \in (last - 1)..n
    BY <1>1, <1>6
  <2>2. /\ SubSeq(f, last, n) \in Seq(Symbols) /\ Len(SubSeq(f, last, n)) = n - last + 1
        /\ \A k \in 1..(n - last + 1) : SubSeq(f, last, n)[k] = f[last + k - 1]
    BY <2>1, Slice DEF n
  <2>. DEFINE t == SubSeq(f, last, n)
              l == n - last + 1
  <2>3. t \in Seq(Symbols) /\ Len(t) = l /\ \A k \in 1..l : t[k] = f[last + k - 1]
    BY <2>2
  <2>. HIDE DEF t, l
  <2>4. IsPrefix(t, tag) <=> Len(t) <= Len(tag) /\ \A k \in 1..Len(t) : t[k] = tag[k]
    BY <1>1, <2>3, PrefixIs
  <2>. QED  BY <2>3, <2>4 DEF t, l
<1>8. ASSUME NEW i \in 1..n, ~Ruled(tag, f, i)
      PROVE  /\ i = last /\ last # 0 /\ IsPrefix(SubSeq(f, last, n), tag)
  <2>1. \A k \in 1..Len(tag) : i + k - 1 <= n => f[i + k - 1] = tag[k]
    BY <1>8 DEF Ruled, n
  <2>2. ~(i + Len(tag) - 1 <= n)
    <3>. SUFFICES ASSUME i + Len(tag) - 1 <= n PROVE FALSE
      OBVIOUS
    <3>1. \A k \in 1..Len(tag) : f[i + k - 1] = tag[k]
      <4>1. \A k \in 1..Len(tag) : i + k - 1 <= n
        BY <1>1
      <4>. QED  BY <2>1, <4>1
    <3>2. At(tag, f, i)
      BY <1>1, <3>1 DEF At, n
    <3>. QED  BY <3>2 DEF n
  <2>3. f[i] = "<" /\ last # 0 /\ i <= last
    <3>1. 1 \in 1..Len(tag) /\ i + 1 - 1 = i /\ i <= n
      BY <1>1
    <3>. QED  BY <1>1, <1>6, <2>1, <3>1
  <2>4. i = last
    <3>. SUFFICES ASSUME i # last PROVE FALSE
      OBVIOUS
    <3>. DEFINE k == last - i + 1
    <3>1. k \in 1..Len(tag) /\ k # 1 /\ i + k - 1 = last /\ last <= n
      BY <1>1, <1>6, <2>2, <2>3
    <3>. HIDE DEF k
    <3>2. f[last] = tag[k]
      BY <2>1, <3>1
    <3>. QED  BY <1>1, <1>6, <2>3, <3>1, <3>2
  <2>5. n - last + 1 <= Len(tag)
    BY <1>1, <1>6, <2>2, <2>4
  <2>6. \A k \in 1..(n - last + 1) : k \in 1..Len(tag) /\ last + k - 1 <= n
    BY <1>1, <1>6, <2>3, <2>5
  <2>. QED  BY <1>7, <2>1, <2>3, <2>4, <2>5, <2>6
<1>9. CASE last # 0 /\ IsPrefix(SubSeq(f, last, n), tag)
  <2>1. Sendable(tag, f) = last - 1
    BY <1>2, <1>9
  <2>2. \A i \in 1..(last - 1) : i \in 1..n /\ i # last
    BY <1>1, <1>6
  <2>3. n - (last - 1) < Len(tag)
    <3>1. n - last + 1 <= Len(tag) /\ \A k \in 1..(n - last + 1) : f[last + k - 1] = tag[k]
      BY <1>7, <1>9
    <3>2. last \in 1..n
      BY <1>1, <1>6, <1>9
    <3>3. n - last + 1 # Len(tag)
      <4>. SUFFICES ASSUME n - last + 1 = Len(tag) PROVE FALSE
        OBVIOUS
      <4>1. last + Len(tag) - 1 <= n /\ last >= 1
        BY <1>1, <3>2
      <4>2. At(tag, f, last)
        BY <3>1, <4>1 DEF At, n
      <4>. QED  BY <3>2, <4>2 DEF n
    <3>4. n - last + 1 <= Len(tag) /\ Len(tag) \in Int /\ last \in Int
      BY <1>1, <3>1, <3>2
    <3>. QED  BY <1>1, <3>3, <3>4
  <2>4. last - 1 \in 0..n
    BY <1>1, <1>6, <1>9
  <2>. QED  BY <1>8, <2>1, <2>2, <2>3, <2>4 DEF n
<1>10. CASE ~(last # 0 /\ IsPrefix(SubSeq(f, last, n), tag))
  <2>1. Sendable(tag, f) = n
    BY <1>2, <1>10
  <2>. QED  BY <1>1, <1>8, <1>10, <2>1 DEF n
<1>. QED  BY <1>9, <1>10

-----------------------------------------------------------------------------
(* The plain text of a sequence: as many "x" as it holds.                  *)

Xs(f) == {i \in 1..Len(f) : f[i] = "x"}
Plains(f) == Cardinality(Xs(f))

LEMMA XsFinite ==
  ASSUME NEW f \in Seq(Symbols)
  PROVE  IsFiniteSet(Xs(f)) /\ Plains(f) \in Nat
<1>1. Xs(f) \subseteq 1..Len(f) /\ IsFiniteSet(1..Len(f))
  BY CountTo DEF Xs
<1>. QED  BY <1>1, FS_Subset, FS_CardinalityType DEF Plains

LEMMA PlainIs ==
  ASSUME NEW f \in Seq(Symbols)
  PROVE  Plain(f) = [k \in 1..Plains(f) |-> "x"]
<1>. DEFINE P == Xs(f)
            m == Cardinality(P)
            picked == Picked(P, f)
<1>1. Plain(f) = picked
  <2>1. {i \in DOMAIN f : f[i] \in {"x"}} = P
    BY DEF Xs
  <2>. QED  BY <2>1 DEF Plain, Only
<1>2. P \subseteq DOMAIN f /\ \A i \in P : f[i] = "x"
  BY DEF Xs
<1>. HIDE DEF P
<1>3. /\ picked \in Seq(Symbols) /\ Len(picked) = m
      /\ \A k \in 1..m : Places(P)[k] \in P /\ picked[k] = f[Places(P)[k]]
  BY <1>2, PickedFacts
<1>4. \A k \in 1..m : picked[k] = "x"
  BY <1>2, <1>3
<1>. HIDE DEF picked, m
<1>5. picked = [k \in 1..m |-> "x"]
  BY <1>3, <1>4
<1>. QED  BY <1>1, <1>5 DEF Plains, m, P

LEMMA PlainsJoin ==
  ASSUME NEW f \in Seq(Symbols), NEW g \in Seq(Symbols)
  PROVE  Plains(f \o g) = Plains(f) + Plains(g)
<1>. DEFINE n == Len(f)
            m == Len(g)
            later == {n + i : i \in Xs(g)}
            shift == [i \in Xs(g) |-> n + i]
<1>1. n \in Nat /\ m \in Nat /\ f \o g \in Seq(Symbols) /\ Len(f \o g) = n + m
  OBVIOUS
<1>2. \A i \in 1..n : (f \o g)[i] = f[i]
  OBVIOUS
<1>3. ASSUME NEW i \in 1..m
      PROVE  (f \o g)[n + i] = g[i] /\ n + i \in 1..(n + m)
  <2>1. n + i \in 1..(n + m) /\ ~(n + i <= n) /\ (n + i) - n = i
    BY <1>1
  <2>. QED  BY <1>1, <2>1, ConcatProperties
<1>. DEFINE h == f \o g
<1>4. Xs(h) = Xs(f) \cup later
  <2>1. ASSUME NEW i \in Xs(h)
        PROVE  i \in Xs(f) \cup later
    <3>1. i \in 1..(n + m) /\ h[i] = "x"
      BY <1>1 DEF Xs
    <3>2. CASE i \in 1..n
      BY <1>2, <3>1, <3>2 DEF Xs
    <3>3. CASE i \notin 1..n
      <4>1. i - n \in 1..m /\ n + (i - n) = i
        BY <1>1, <3>1, <3>3
      <4>2. g[i - n] = "x"
        BY <1>3, <3>1, <4>1
      <4>3. i - n \in Xs(g)
        BY <4>1, <4>2 DEF Xs
      <4>. QED  BY <4>1, <4>3
    <3>. QED  BY <3>2, <3>3
  <2>2. ASSUME NEW i \in Xs(f)
        PROVE  i \in Xs(h)
    <3>1. i \in 1..n /\ f[i] = "x" /\ i \in 1..(n + m)
      BY <1>1 DEF Xs
    <3>. QED  BY <1>1, <1>2, <3>1 DEF Xs
  <2>3. ASSUME NEW i \in Xs(g)
        PROVE  n + i \in Xs(h)
    <3>1. i \in 1..m /\ g[i] = "x"
      BY DEF Xs
    <3>. QED  BY <1>1, <1>3, <3>1 DEF Xs
  <2>. QED  BY <2>1, <2>2, <2>3
<1>5. Xs(f) \cap later = {}
  BY <1>1 DEF Xs
<1>6. IsFiniteSet(Xs(f)) /\ IsFiniteSet(Xs(g)) /\ Plains(f) \in Nat /\ Plains(g) \in Nat
  BY XsFinite
<1>7. IsFiniteSet(later) /\ Cardinality(later) = Plains(g)
  <2>1. shift \in Bijection(Xs(g), later)
    <3>1. \A i \in Xs(g) : i \in Int
      BY DEF Xs
    <3>2. shift \in [Xs(g) -> later]
      OBVIOUS
    <3>3. \A i, j \in Xs(g) : shift[i] = shift[j] => i = j
      BY <1>1, <3>1
    <3>4. \A j \in later : \E i \in Xs(g) : shift[i] = j
      OBVIOUS
    <3>. QED  BY <3>2, <3>3, <3>4 DEF Bijection, Injection, Surjection, IsInjective
  <2>2. ExistsBijection(Xs(g), later)
    BY <2>1 DEF ExistsBijection
  <2>. HIDE DEF later
  <2>. QED  BY <1>6, <2>2, FS_Bijection DEF Plains
<1>. HIDE DEF later
<1>8. Cardinality(Xs(f) \cup later) = Plains(f) + Plains(g)
  <2>1. Cardinality(Xs(f) \cup later)
          = Cardinality(Xs(f)) + Cardinality(later) - Cardinality(Xs(f) \cap later)
    BY <1>6, <1>7, FS_Union
  <2>2. Cardinality(Xs(f) \cap later) = 0
    BY <1>5, FS_EmptySet
  <2>. QED  BY <1>6, <1>7, <2>1, <2>2 DEF Plains
<1>. QED  BY <1>4, <1>8 DEF Plains

LEMMA WithoutFacts ==
  ASSUME NEW tag, IsTag(tag), NEW f \in Seq(Symbols)
  PROVE  /\ Without(tag, f) \in Seq(Symbols)
         /\ Plains(Without(tag, f)) = Plains(f)
         /\ Len(f) < Len(tag) => Without(tag, f) = f
<1>. DEFINE n == Len(f)
            starts == {i \in 1..n : IsPrefix(tag, SubSeq(f, i, n))}
            gone == UNION {i..(i + Len(tag) - 1) : i \in starts}
            P == 1..n \ gone
            m == Cardinality(P)
            e == Places(P)
            picked == Picked(P, f)
<1>1. Without(tag, f) = picked
  BY DEF Without
<1>2. n \in Nat /\ DOMAIN f = 1..n
  OBVIOUS
<1>3. Len(tag) \in 2..3 /\ \A k \in 1..Len(tag) : tag[k] # "x"
  BY DEF IsTag
<1>4. starts = {i \in 1..n : At(tag, f, i)}
  BY TagAt
<1>. HIDE DEF starts
<1>5. Len(f) < Len(tag) => picked = f
  <2>. SUFFICES ASSUME n < Len(tag) PROVE picked = f
    OBVIOUS
  <2>1. starts = {}
    <3>1. \A i \in 1..n : ~(i + Len(tag) - 1 <= n)
      BY <1>2, <1>3
    <3>. QED  BY <1>4, <3>1 DEF At
  <2>2. P = DOMAIN f
    BY <1>2, <2>1
  <2>. HIDE DEF P
  <2>. QED  BY <2>2, PickedAll
<1>6. Xs(f) \subseteq P
  <2>. SUFFICES ASSUME NEW i \in Xs(f), NEW j \in starts, i \in j..(j + Len(tag) - 1)
                PROVE  FALSE
    BY DEF Xs
  <2>1. At(tag, f, j) /\ j \in 1..n /\ f[i] = "x" /\ i \in 1..n
    BY <1>4 DEF Xs
  <2>2. i - j + 1 \in 1..Len(tag) /\ j + (i - j + 1) - 1 = i
    BY <1>3, <2>1
  <2>3. f[i] = tag[i - j + 1]
    BY <2>1, <2>2 DEF At
  <2>. QED  BY <1>3, <2>1, <2>2, <2>3
<1>. HIDE DEF gone
<1>7. P \subseteq 1..n
  OBVIOUS
<1>. HIDE DEF P
<1>8. /\ picked \in Seq(Symbols) /\ Len(picked) = m /\ m \in Nat
      /\ \A k \in 1..m : e[k] \in P /\ picked[k] = f[e[k]]
      /\ \A k, l \in 1..m : k < l => e[k] < e[l]
      /\ \A i \in P : \E k \in 1..m : e[k] = i /\ picked[k] = f[i]
  <2>1. P \subseteq DOMAIN f
    BY <1>2, <1>7
  <2>2. picked \in Seq(Symbols) /\ Len(picked) = m /\ m \in 0..Len(f)
    BY <2>1, PickedFacts
  <2>3. \A k \in 1..m : e[k] \in P /\ picked[k] = f[e[k]]
    BY <2>1, PickedFacts
  <2>4. \A k, l \in 1..m : k < l => e[k] < e[l]
    BY <2>1, PickedFacts
  <2>5. \A i \in P : \E k \in 1..m : e[k] = i /\ picked[k] = f[i]
    BY <2>1, PickedFacts
  <2>6. m \in Nat
    BY <1>2, <2>2
  <2>. HIDE DEF e, m, picked
  <2>. QED  BY <2>2, <2>3, <2>4, <2>5, <2>6
<1>. HIDE DEF e, m, picked
<1>9. Plains(picked) = Plains(f)
  <2>. DEFINE g == [k \in Xs(picked) |-> e[k]]
  <2>1. \A k \in Xs(picked) : k \in 1..m /\ picked[k] = "x"
    BY <1>8 DEF Xs
  <2>2. g \in [Xs(picked) -> Xs(f)]
    BY <1>7, <1>8, <2>1 DEF Xs
  <2>3. \A k, l \in Xs(picked) : g[k] = g[l] => k = l
    <3>. SUFFICES ASSUME NEW k \in Xs(picked), NEW l \in Xs(picked), e[k] = e[l] PROVE k = l
      OBVIOUS
    <3>1. k \in 1..m /\ l \in 1..m
      BY <2>1
    <3>2. e[k] \in Int
      <4>1. e[k] \in P
        BY <1>8, <3>1
      <4>2. e[k] \in 1..n
        BY <1>7, <4>1
      <4>3. \A i \in 1..n : i \in Int
        BY <1>2
      <4>. QED  BY <4>2, <4>3
    <3>. QED  BY <1>2, <1>8, <3>1, <3>2
  <2>4. ASSUME NEW i \in Xs(f)
        PROVE  \E k \in Xs(picked) : g[k] = i
    <3>1. PICK k \in 1..m : e[k] = i /\ picked[k] = f[i]
      BY <1>6, <1>8
    <3>2. k \in Xs(picked)
      BY <1>8, <3>1 DEF Xs
    <3>. QED  BY <3>1, <3>2
  <2>5. g \in Bijection(Xs(picked), Xs(f))
    BY <2>2, <2>3, <2>4 DEF Bijection, Injection, Surjection, IsInjective
  <2>6. ExistsBijection(Xs(picked), Xs(f))
    BY <2>5 DEF ExistsBijection
  <2>. QED  BY <1>8, <2>6, XsFinite, FS_Bijection DEF Plains
<1>. QED  BY <1>1, <1>5, <1>8, <1>9

LEMMA CleanFacts ==
  ASSUME NEW f \in Seq(Symbols)
  PROVE  /\ Clean(f) \in Seq(Symbols) /\ Plains(Clean(f)) = Plains(f)
         /\ Len(f) < 2 => Clean(f) = f
<1>1. /\ Without(CloseTag, f) \in Seq(Symbols)
      /\ Plains(Without(CloseTag, f)) = Plains(f)
      /\ Len(f) < 3 => Without(CloseTag, f) = f
  BY Tags, WithoutFacts
<1>. DEFINE g == Without(CloseTag, f)
<1>. HIDE DEF g
<1>2. g \in Seq(Symbols)
  BY <1>1 DEF g
<1>3. /\ Without(OpenTag, g) \in Seq(Symbols)
      /\ Plains(Without(OpenTag, g)) = Plains(g)
      /\ Len(g) < 2 => Without(OpenTag, g) = g
  BY <1>2, Tags, WithoutFacts
<1>. QED  BY <1>1, <1>3 DEF Clean, g

-----------------------------------------------------------------------------
(* Tags in a part of what was fed, and when more is fed.                   *)

FirstAt(tag, f, from, i) ==
    At(tag, f, i) /\ i >= from /\ \A j \in from..(i - 1) : ~At(tag, f, j)

LEMMA Shifted ==
  ASSUME NEW tag, IsTag(tag), NEW f \in Seq(Symbols), NEW c \in 0..Len(f)
  PROVE  LET part == SubSeq(f, c + 1, Len(f))
         IN  /\ part \in Seq(Symbols) /\ Len(part) = Len(f) - c
             /\ \A i \in 1..Len(part) : At(tag, part, i) <=> At(tag, f, c + i)
             /\ \A i \in 1..Len(part) : Ruled(tag, part, i) => Ruled(tag, f, c + i)
             /\ \A k \in 1..(Len(part) + 1) : \A l \in (k - 1)..Len(part) :
                  SubSeq(part, k, l) = SubSeq(f, c + k, c + l)
<1>. DEFINE n == Len(f)
            a == c + 1
            part == SubSeq(f, a, n)
<1>1. /\ n \in Nat /\ c \in Nat /\ a \in 1..(n + 1) /\ n \in (a - 1)..n /\ n - a + 1 = n - c
      /\ Len(tag) \in 2..3
  BY DEF IsTag
<1>2. /\ part \in Seq(Symbols) /\ Len(part) = n - c
      /\ \A k \in 1..(n - c) : part[k] = f[c + k]
  <2>. HIDE DEF a
  <2>1. /\ SubSeq(f, a, n) \in Seq(Symbols) /\ Len(SubSeq(f, a, n)) = n - a + 1
        /\ \A k \in 1..(n - a + 1) : SubSeq(f, a, n)[k] = f[a + k - 1]
    BY <1>1, Slice
  <2>2. \A k \in 1..(n - c) : a + k - 1 = c + k
    BY <1>1 DEF a
  <2>. QED  BY <1>1, <2>1, <2>2
<1>. HIDE DEF part, n
<1>3. ASSUME NEW i \in 1..Len(part)
      PROVE  /\ At(tag, part, i) <=> At(tag, f, c + i)
             /\ Ruled(tag, part, i) => Ruled(tag, f, c + i)
  <2>. DEFINE l == Len(tag)
              m == Len(part)
  <2>1. i + l - 1 <= m <=> (c + i) + l - 1 <= n
    <3>1. l \in Int /\ m = n - c /\ n \in Int /\ c \in Int /\ i \in Int
      BY <1>1, <1>2
    <3>. HIDE DEF l, m
    <3>. QED  BY ONLY <3>1
  <2>2. \A k \in 1..Len(tag) : i + k - 1 <= Len(part) <=> (c + i) + k - 1 <= n
    BY <1>1, <1>2
  <2>3. ASSUME NEW k \in 1..Len(tag), i + k - 1 <= Len(part)
        PROVE  part[i + k - 1] = f[(c + i) + k - 1]
    <3>1. i + k - 1 \in 1..(n - c) /\ c + (i + k - 1) = (c + i) + k - 1
      BY <1>1, <1>2, <2>3
    <3>. QED  BY <1>2, <3>1
  <2>4. i + Len(tag) - 1 <= Len(part) => \A k \in 1..Len(tag) : i + k - 1 <= Len(part)
    BY <1>1, <1>2
  <2>5. i >= 1 /\ c + i >= 1
    BY <1>1
  <2>6. At(tag, part, i) <=> At(tag, f, c + i)
    BY <2>1, <2>3, <2>4, <2>5 DEF At, n
  <2>7. Ruled(tag, part, i) => Ruled(tag, f, c + i)
    BY <2>2, <2>3 DEF Ruled, n
  <2>. QED  BY <2>6, <2>7
<1>4. ASSUME NEW k \in 1..(Len(part) + 1), NEW l \in (k - 1)..Len(part)
      PROVE  SubSeq(part, k, l) = SubSeq(f, c + k, c + l)
  <2>1. /\ k \in 1..(n - a + 2) /\ l \in (k - 1)..(n - a + 1)
        /\ a + k - 1 = c + k /\ a + l - 1 = c + l
    BY <1>1, <1>2
  <2>. HIDE DEF a
  <2>2. SubSeq(SubSeq(f, a, n), k, l) = SubSeq(f, a + k - 1, a + l - 1)
    BY <1>1, <2>1, SliceSlice DEF n
  <2>. QED  BY <2>1, <2>2 DEF part
<1>. QED  BY <1>2, <1>3, <1>4 DEF part, n

LEMMA Grown ==
  ASSUME NEW tag, IsTag(tag), NEW f \in Seq(Symbols), NEW g \in Seq(Symbols)
  PROVE  /\ \A i \in 1..Len(f) : Ruled(tag, f, i) => Ruled(tag, f \o g, i)
         /\ \A i \in Nat, from \in Nat \ {0} :
              FirstAt(tag, f, from, i) => FirstAt(tag, f \o g, from, i)
<1>. DEFINE n == Len(f)
            h == f \o g
<1>1. /\ n \in Nat /\ Len(g) \in Nat /\ h \in Seq(Symbols) /\ Len(h) = n + Len(g)
      /\ \A k \in 1..n : h[k] = f[k]
  OBVIOUS
<1>2. Len(tag) \in 2..3
  BY DEF IsTag
<1>. HIDE DEF h, n
<1>3. ASSUME NEW i \in 1..n, Ruled(tag, f, i)
      PROVE  Ruled(tag, h, i)
  <2>1. PICK k \in 1..Len(tag) : i + k - 1 <= n /\ f[i + k - 1] # tag[k]
    BY <1>3 DEF Ruled, n
  <2>2. i + k - 1 \in 1..n /\ i + k - 1 <= Len(h)
    BY <1>1, <1>2, <2>1
  <2>. QED  BY <1>1, <2>1, <2>2 DEF Ruled
<1>4. ASSUME NEW i \in Nat \ {0}, i + Len(tag) - 1 <= n
      PROVE  At(tag, h, i) <=> At(tag, f, i)
  <2>1. \A k \in 1..Len(tag) : i + k - 1 \in 1..n
    BY <1>1, <1>2, <1>4
  <2>2. \A k \in 1..Len(tag) : h[i + k - 1] = f[i + k - 1]
    BY <1>1, <2>1
  <2>3. i + Len(tag) - 1 <= Len(h)
    BY <1>1, <1>2, <1>4
  <2>. QED  BY <1>4, <2>2, <2>3 DEF At, n
<1>5. ASSUME NEW i \in Nat, NEW from \in Nat \ {0}, FirstAt(tag, f, from, i)
      PROVE  FirstAt(tag, h, from, i)
  <2>1. At(tag, f, i) /\ i >= from /\ \A j \in from..(i - 1) : ~At(tag, f, j)
    BY <1>5 DEF FirstAt
  <2>2. i >= 1 /\ i + Len(tag) - 1 <= n
    BY <2>1 DEF At, n
  <2>3. At(tag, h, i)
    BY <1>4, <2>1, <2>2
  <2>4. \A j \in from..(i - 1) : j \in Nat \ {0} /\ j + Len(tag) - 1 <= n
    BY <1>1, <1>2, <2>2
  <2>5. \A j \in from..(i - 1) : ~At(tag, h, j)
    BY <1>4, <2>1, <2>4
  <2>. QED  BY <2>1, <2>3, <2>5 DEF FirstAt
<1>. QED  BY <1>3, <1>5 DEF h, n

LEMMA RuledOut ==
  ASSUME NEW tag, IsTag(tag), NEW f \in Seq(Symbols), NEW i \in Nat, Ruled(tag, f, i)
  PROVE  ~At(tag, f, i)
  BY DEF Ruled, At

(* The first tag is the one that is found. *)
LEMMA FindsFirst ==
  ASSUME NEW tag, IsTag(tag), NEW f \in Seq(Symbols), NEW i \in Nat
  PROVE  /\ FirstAt(tag, f, 1, i) => Find(tag, f) = i
         /\ (\A j \in 1..Len(f) : ~At(tag, f, j)) => Find(tag, f) = 0
<1>1. /\ Find(tag, f) \in 0..Len(f)
      /\ Find(tag, f) # 0 => /\ At(tag, f, Find(tag, f))
                             /\ \A j \in 1..Len(f) : At(tag, f, j) => Find(tag, f) <= j
      /\ Find(tag, f) = 0 => \A j \in 1..Len(f) : ~At(tag, f, j)
  BY FindFacts
<1>2. Len(tag) \in 2..3 /\ Len(f) \in Nat
  BY DEF IsTag
<1>3. ASSUME FirstAt(tag, f, 1, i)
      PROVE  Find(tag, f) = i
  <2>1. At(tag, f, i) /\ \A j \in 1..(i - 1) : ~At(tag, f, j)
    BY <1>3 DEF FirstAt
  <2>2. i \in 1..Len(f)
    <3>1. i >= 1 /\ i + Len(tag) - 1 <= Len(f)
      BY <2>1 DEF At
    <3>. DEFINE l == Len(tag)
                n == Len(f)
    <3>2. l \in 2..3 /\ n \in Nat /\ i >= 1 /\ i + l - 1 <= n
      BY <1>2, <3>1
    <3>. HIDE DEF l, n
    <3>3. i \in 1..n
      BY ONLY <3>2, i \in Nat
    <3>. QED  BY <3>3 DEF n
  <2>3. Find(tag, f) # 0 /\ Find(tag, f) <= i
    BY <1>1, <2>1, <2>2
  <2>. DEFINE j == Find(tag, f)
  <2>4. j \in 0..Len(f) /\ j # 0 /\ j <= i /\ At(tag, f, j)
    BY <1>1, <2>3
  <2>. HIDE DEF j
  <2>5. ~(j \in 1..(i - 1))
    BY <2>1, <2>4
  <2>6. j = i
    BY <1>2, <2>4, <2>5
  <2>. QED  BY <2>6 DEF j
<1>4. ASSUME \A j \in 1..Len(f) : ~At(tag, f, j)
      PROVE  Find(tag, f) = 0
  <2>1. Find(tag, f) # 0 => Find(tag, f) \in 1..Len(f)
    BY <1>1, <1>2
  <2>. QED  BY <1>1, <1>4, <2>1
<1>. QED  BY <1>3, <1>4

-----------------------------------------------------------------------------
(* The three modes of a parser, in terms of everything fed so far.         *)

ParserTyped(p) ==
    p \in [buffer : Seq(Symbols), inThink : BOOLEAN, seen : BOOLEAN,
           thinking : Seq(Symbols), answer : Seq(Symbols), closed : BOOLEAN]

(* No opening tag so far; what has been passed on is not the beginning of one. *)
HearsAt(p, f, a) ==
    /\ ~p.inThink /\ ~p.seen /\ p.thinking = <<>>
    /\ p.answer = SubSeq(f, 1, a) /\ p.buffer = SubSeq(f, a + 1, Len(f))
    /\ \A i \in 1..a : Ruled(OpenTag, f, i)
Hears(p, f) ==
    /\ \E a \in 0..Len(f) : HearsAt(p, f, a) /\ Len(f) - a < 2
    /\ \A i \in 1..Len(f) : ~At(OpenTag, f, i)

(* Inside the reasoning that the tag at a + 1 opens. *)
ThinksAt(p, f, a, c) ==
    /\ p.inThink /\ p.seen
    /\ FirstAt(OpenTag, f, 1, a + 1) /\ a + 2 <= c
    /\ p.answer = SubSeq(f, 1, a) /\ p.thinking = SubSeq(f, a + 3, c)
    /\ p.buffer = SubSeq(f, c + 1, Len(f))
    /\ \A i \in (a + 3)..c : Ruled(CloseTag, f, i)
Thinks(p, f) ==
    \E a \in 0..Len(f), c \in 0..Len(f) :
       ThinksAt(p, f, a, c) /\ \A i \in (a + 3)..Len(f) : ~At(CloseTag, f, i)

(* Behind the reasoning, which ends at c. *)
AnswersAt(p, f, a, c) ==
    /\ ~p.inThink /\ p.seen
    /\ FirstAt(OpenTag, f, 1, a + 1) /\ a + 2 <= c /\ FirstAt(CloseTag, f, a + 3, c + 1)
    /\ p.thinking = SubSeq(f, a + 3, c)
    /\ a <= Len(p.answer) /\ \A k \in 1..a : p.answer[k] = f[k]
    /\ Plains(p.answer) + Plains(p.buffer)
         = Plains(SubSeq(f, 1, a)) + Plains(SubSeq(f, c + 4, Len(f)))
Answers(p, f) ==
    p.buffer = <<>> /\ \E a \in 0..Len(f), c \in 0..Len(f) : AnswersAt(p, f, a, c)

InMode(p, f) == ParserTyped(p) /\ (Hears(p, f) \/ Thinks(p, f) \/ Answers(p, f))

LEMMA AnsweringDoes ==
  ASSUME NEW p, ParserTyped(p), NEW f \in Seq(Symbols),
         NEW a \in 0..Len(f), NEW c \in 0..Len(f), AnswersAt(p, f, a, c)
  PROVE  InMode(Answering(p), f) /\ Answering(p).closed = p.closed
<1>. DEFINE q == Answering(p)
            clean == Clean(p.buffer)
<1>1. p.buffer \in Seq(Symbols) /\ p.answer \in Seq(Symbols)
  BY DEF ParserTyped
<1>2. clean \in Seq(Symbols) /\ Plains(clean) = Plains(p.buffer)
  BY <1>1, CleanFacts
<1>. HIDE DEF clean
<1>3. /\ ParserTyped(q) /\ q.inThink = p.inThink /\ q.seen = p.seen /\ q.closed = p.closed
      /\ q.thinking = p.thinking /\ q.answer = p.answer \o clean /\ q.buffer = <<>>
  <2>. DEFINE answer == p.answer \o clean
  <2>1. answer \in Seq(Symbols) /\ <<>> \in Seq(Symbols)
    BY <1>1, <1>2
  <2>2. q = [p EXCEPT !.answer = answer, !.buffer = <<>>]
    BY DEF Answering, clean
  <2>. HIDE DEF answer, q
  <2>3. ParserTyped(q)
    BY <2>1, <2>2 DEF ParserTyped
  <2>4. /\ q.inThink = p.inThink /\ q.seen = p.seen /\ q.closed = p.closed
        /\ q.thinking = p.thinking /\ q.answer = answer /\ q.buffer = <<>>
    BY <2>2 DEF ParserTyped
  <2>. QED  BY <2>3, <2>4 DEF answer
<1>. HIDE DEF q
<1>4. Plains(q.answer) = Plains(p.answer) + Plains(p.buffer)
  BY <1>1, <1>2, <1>3, PlainsJoin
<1>5. Plains(q.buffer) = 0
  <2>1. Xs(<<>>) = {}
    BY DEF Xs
  <2>. QED  BY <1>3, <2>1, FS_EmptySet DEF Plains
<1>6. /\ Len(q.answer) = Len(p.answer) + Len(clean) /\ Len(p.answer) \in Nat /\ Len(clean) \in Nat
      /\ \A k \in 1..Len(p.answer) : q.answer[k] = p.answer[k]
  BY <1>1, <1>2, <1>3
<1>7. a <= Len(p.answer) /\ \A k \in 1..a : p.answer[k] = f[k]
  BY DEF AnswersAt
<1>8. a <= Len(q.answer) /\ \A k \in 1..a : q.answer[k] = f[k]
  <2>. DEFINE l == Len(p.answer)
              m == Len(clean)
              g == q.answer
              h == p.answer
  <2>1. /\ l \in Nat /\ m \in Nat /\ a \in Int /\ a <= l /\ Len(g) = l + m
        /\ \A k \in 1..l : g[k] = h[k]
        /\ \A k \in 1..a : h[k] = f[k]
    BY <1>6, <1>7
  <2>. HIDE DEF l, m, g, h
  <2>2. a <= l + m /\ \A k \in 1..a : k \in 1..l
    BY ONLY <2>1
  <2>3. a <= Len(g) /\ \A k \in 1..a : g[k] = f[k]
    BY ONLY <2>1, <2>2
  <2>. QED  BY <2>3 DEF g
<1>9. Plains(q.answer) \in Nat
  BY <1>3, XsFinite DEF ParserTyped
<1>10. Plains(q.answer) + Plains(q.buffer)
         = Plains(SubSeq(f, 1, a)) + Plains(SubSeq(f, c + 4, Len(f)))
  BY <1>4, <1>5, <1>9 DEF AnswersAt
<1>11. AnswersAt(q, f, a, c)
  BY <1>3, <1>8, <1>10 DEF AnswersAt
<1>. QED  BY <1>3, <1>11 DEF InMode, Answers, q

LEMMA ThinkingDoes ==
  ASSUME NEW p, ParserTyped(p), NEW f \in Seq(Symbols),
         NEW a \in 0..Len(f), NEW c \in 0..Len(f), ThinksAt(p, f, a, c)
  PROVE  InMode(Thinking(p), f) /\ Thinking(p).closed = p.closed
<1>. DEFINE n == Len(f)
            part == SubSeq(f, c + 1, n)
            j == Find(CloseTag, part)
<1>1. /\ p.inThink /\ p.seen
      /\ FirstAt(OpenTag, f, 1, a + 1) /\ a + 2 <= c
      /\ p.answer = SubSeq(f, 1, a) /\ p.thinking = SubSeq(f, a + 3, c)
      /\ p.buffer = part
      /\ \A i \in (a + 3)..c : Ruled(CloseTag, f, i)
  BY DEF ThinksAt
<1>2. /\ part \in Seq(Symbols) /\ Len(part) = n - c
      /\ \A i \in 1..Len(part) : At(CloseTag, part, i) <=> At(CloseTag, f, c + i)
      /\ \A i \in 1..Len(part) : Ruled(CloseTag, part, i) => Ruled(CloseTag, f, c + i)
      /\ \A k \in 1..(Len(part) + 1) : \A l \in (k - 1)..Len(part) :
           SubSeq(part, k, l) = SubSeq(f, c + k, c + l)
  BY Tags, Shifted
<1>3. /\ n \in Nat /\ a \in Nat /\ c \in Nat /\ c <= n /\ Len(CloseTag) = 3
      /\ a + 3 \in 1..(n + 1) /\ c \in ((a + 3) - 1)..n
  BY <1>1, Tags
<1>. HIDE DEF n, part
<1>4. /\ j \in 0..Len(part)
      /\ j # 0 => /\ At(CloseTag, part, j)
                  /\ \A i \in 1..Len(part) : At(CloseTag, part, i) => j <= i
      /\ j = 0 => \A i \in 1..Len(part) : ~At(CloseTag, part, i)
  BY <1>2, Tags, FindFacts
<1>. HIDE DEF j
<1>5. CASE j # 0
  <2>. DEFINE d == c + j - 1
              q == [p EXCEPT !.thinking = @ \o Before(CloseTag, p.buffer),
                             !.inThink = FALSE,
                             !.buffer = After(CloseTag, p.buffer)]
  <2>1. Thinking(p) = Answering(q)
    BY <1>1, <1>5 DEF Thinking, j
  <2>2. /\ j \in 1..Len(part) /\ At(CloseTag, part, j) /\ j + 3 - 1 <= n - c
        /\ d \in c..n /\ d + 4 = c + (j + 3) /\ d + 1 = c + j /\ c + (n - c) = n /\ d \in 0..n
        /\ j + 3 \in 1..(Len(part) + 1) /\ j - 1 \in (1 - 1)..Len(part) /\ 1 \in 1..(Len(part) + 1)
        /\ Len(part) \in ((j + 3) - 1)..Len(part)
    BY <1>2, <1>3, <1>4, <1>5 DEF At
  <2>3. Before(CloseTag, part) = SubSeq(f, c + 1, d)
    <3>1. SubSeq(part, 1, j - 1) = SubSeq(f, c + 1, c + (j - 1))
      <4>1. 1 \in 1..(Len(part) + 1) /\ j - 1 \in (1 - 1)..Len(part)
        BY <2>2
      <4>2. \A k \in 1..(Len(part) + 1) : \A l \in (k - 1)..Len(part) :
               SubSeq(part, k, l) = SubSeq(f, c + k, c + l)
        BY <1>2
      <4>. QED  BY ONLY <4>1, <4>2
    <3>2. c + (j - 1) = d
      BY <1>3, <2>2
    <3>. QED  BY <3>1, <3>2 DEF Before, j
  <2>4. After(CloseTag, part) = SubSeq(f, d + 4, n)
    <3>1. SubSeq(part, j + 3, Len(part)) = SubSeq(f, c + (j + 3), c + Len(part))
      BY <1>2, <2>2
    <3>. QED  BY <1>2, <1>3, <2>2, <3>1 DEF After, j
  <2>5. p.thinking \o SubSeq(f, c + 1, d) = SubSeq(f, a + 3, d)
    <3>. DEFINE b == a + 3
    <3>1. b \in 1..(n + 1) /\ c \in (b - 1)..n /\ d \in c..n
      BY <1>3, <2>2
    <3>. HIDE DEF b, d
    <3>2. SubSeq(f, b, c) \o SubSeq(f, c + 1, d) = SubSeq(f, b, d)
      BY <3>1, SliceJoin DEF n
    <3>. QED  BY <1>1, <3>2 DEF b
  <2>6. /\ SubSeq(f, a + 3, d) \in Seq(Symbols) /\ SubSeq(f, d + 4, n) \in Seq(Symbols)
        /\ SubSeq(f, 1, a) \in Seq(Symbols) /\ Len(SubSeq(f, 1, a)) = a
        /\ \A k \in 1..a : SubSeq(f, 1, a)[k] = f[k]
    <3>. DEFINE b == a + 3
                e == d + 4
    <3>1. b \in 1..(n + 1) /\ d \in (b - 1)..n /\ e \in 1..(n + 1) /\ n \in (e - 1)..n
          /\ 1 \in 1..(n + 1) /\ a \in (1 - 1)..n /\ a - 1 + 1 = a
          /\ \A k \in 1..a : 1 + k - 1 = k
      BY <1>1, <1>2, <1>3, <2>2
    <3>. HIDE DEF b, d, e
    <3>2. SubSeq(f, b, d) \in Seq(Symbols) /\ SubSeq(f, e, n) \in Seq(Symbols)
      BY <3>1, Slice DEF n
    <3>3. /\ SubSeq(f, 1, a) \in Seq(Symbols) /\ Len(SubSeq(f, 1, a)) = a - 1 + 1
          /\ \A k \in 1..(a - 1 + 1) : SubSeq(f, 1, a)[k] = f[1 + k - 1]
      BY <3>1, Slice DEF n
    <3>4. Len(SubSeq(f, 1, a)) = a /\ \A k \in 1..a : SubSeq(f, 1, a)[k] = f[k]
      BY <3>1, <3>3
    <3>. QED  BY <3>2, <3>3, <3>4 DEF b, e
  <2>7. /\ ParserTyped(q) /\ ~q.inThink /\ q.seen /\ q.closed = p.closed
        /\ q.thinking = SubSeq(f, a + 3, d) /\ q.buffer = SubSeq(f, d + 4, n)
        /\ q.answer = SubSeq(f, 1, a)
    BY <1>1, <2>3, <2>4, <2>5, <2>6 DEF ParserTyped
  <2>8. FirstAt(CloseTag, f, a + 3, d + 1)
    <3>1. At(CloseTag, f, d + 1) /\ d + 1 >= a + 3
      BY <1>1, <1>2, <1>3, <2>2
    <3>2. ASSUME NEW i \in (a + 3)..((d + 1) - 1)
          PROVE  ~At(CloseTag, f, i)
      <4>1. CASE i <= c
        <5>1. i \in (a + 3)..c /\ i \in Nat
          BY <1>3, <4>1
        <5>. QED  BY <1>1, <5>1, Tags, RuledOut
      <4>2. CASE ~(i <= c)
        <5>1. i - c \in 1..Len(part) /\ c + (i - c) = i /\ ~(j <= i - c)
          BY <1>2, <1>3, <2>2, <4>2
        <5>2. ~At(CloseTag, part, i - c)
          BY <1>4, <1>5, <5>1
        <5>. QED  BY <1>2, <5>1, <5>2
      <4>. QED  BY <4>1, <4>2
    <3>. QED  BY <3>1, <3>2 DEF FirstAt
  <2>9. AnswersAt(q, f, a, d)
    <3>1. a + 2 <= d
      BY <1>1, <1>3, <2>2
    <3>. HIDE DEF q, d
    <3>2. a <= Len(q.answer)
      <4>1. Len(q.answer) = a
        BY <2>6, <2>7
      <4>2. a <= a
        BY <1>3
      <4>. QED  BY ONLY <4>1, <4>2
    <3>3. \A k \in 1..a : q.answer[k] = f[k]
      BY <2>6, <2>7
    <3>4. Plains(q.answer) + Plains(q.buffer)
            = Plains(SubSeq(f, 1, a)) + Plains(SubSeq(f, d + 4, Len(f)))
      BY <2>7 DEF n
    <3>. QED  BY <1>1, <2>7, <2>8, <3>1, <3>2, <3>3, <3>4 DEF AnswersAt
  <2>. HIDE DEF q, d
  <2>10. InMode(Answering(q), f) /\ Answering(q).closed = q.closed
    BY <2>2, <2>7, <2>9, AnsweringDoes DEF n
  <2>. QED  BY <2>1, <2>7, <2>10
<1>6. CASE j = 0
  <2>. DEFINE m == Sendable(CloseTag, part)
              d == c + m
              q == [p EXCEPT !.thinking = @ \o SubSeq(p.buffer, 1, m),
                             !.buffer = SubSeq(@, m + 1, Len(@))]
  <2>1. Thinking(p) = q
    BY <1>1, <1>6 DEF Thinking, j
  <2>2. /\ m \in 0..Len(part)
        /\ \A i \in 1..m : Ruled(CloseTag, part, i)
    BY <1>2, <1>4, <1>6, Tags, SendableRules
  <2>. HIDE DEF m
  <2>3. /\ d \in c..n /\ d \in 0..n /\ m + 1 \in 1..(Len(part) + 1) /\ 1 \in 1..(Len(part) + 1)
        /\ m \in (1 - 1)..Len(part) /\ Len(part) \in ((m + 1) - 1)..Len(part)
        /\ c + (m + 1) = d + 1 /\ c + Len(part) = n
    BY <1>2, <1>3, <2>2
  <2>4. SubSeq(part, 1, m) = SubSeq(f, c + 1, d) /\ SubSeq(part, m + 1, Len(part)) = SubSeq(f, d + 1, n)
    <3>1. SubSeq(part, 1, m) = SubSeq(f, c + 1, c + m)
      BY <1>2, <2>3
    <3>2. SubSeq(part, m + 1, Len(part)) = SubSeq(f, c + (m + 1), c + Len(part))
      BY <1>2, <2>3
    <3>. QED  BY <2>3, <3>1, <3>2
  <2>5. p.thinking \o SubSeq(f, c + 1, d) = SubSeq(f, a + 3, d)
    <3>. DEFINE b == a + 3
    <3>1. b \in 1..(n + 1) /\ c \in (b - 1)..n /\ d \in c..n
      BY <1>3, <2>3
    <3>. HIDE DEF b, d
    <3>2. SubSeq(f, b, c) \o SubSeq(f, c + 1, d) = SubSeq(f, b, d)
      BY <3>1, SliceJoin DEF n
    <3>. QED  BY <1>1, <3>2 DEF b
  <2>6. SubSeq(f, a + 3, d) \in Seq(Symbols) /\ SubSeq(f, d + 1, n) \in Seq(Symbols)
    <3>. DEFINE b == a + 3
                e == d + 1
    <3>1. b \in 1..(n + 1) /\ d \in (b - 1)..n /\ e \in 1..(n + 1) /\ n \in (e - 1)..n
      BY <1>1, <1>2, <1>3, <2>3
    <3>. HIDE DEF b, d, e
    <3>2. SubSeq(f, b, d) \in Seq(Symbols) /\ SubSeq(f, e, n) \in Seq(Symbols)
      BY <3>1, Slice DEF n
    <3>. QED  BY <3>2 DEF b, e
  <2>7. /\ ParserTyped(q) /\ q.inThink /\ q.seen /\ q.closed = p.closed
        /\ q.thinking = SubSeq(f, a + 3, d) /\ q.buffer = SubSeq(f, d + 1, n)
        /\ q.answer = p.answer
    BY <1>1, <2>4, <2>5, <2>6 DEF ParserTyped
  <2>. HIDE DEF q
  <2>8. ASSUME NEW i \in (a + 3)..d
        PROVE  Ruled(CloseTag, f, i)
    <3>1. CASE i <= c
      <4>1. i \in (a + 3)..c
        BY <1>3, <3>1
      <4>. QED  BY <1>1, <4>1
    <3>2. CASE ~(i <= c)
      <4>1. i - c \in 1..Len(part) /\ c + (i - c) = i /\ i - c \in 1..m
        BY <1>2, <1>3, <2>2, <2>3, <3>2
      <4>. QED  BY <1>2, <2>2, <4>1
    <3>. QED  BY <3>1, <3>2
  <2>9. ASSUME NEW i \in (a + 3)..n
        PROVE  ~At(CloseTag, f, i)
    <3>1. CASE i <= c
      <4>1. i \in (a + 3)..c /\ i \in Nat
        BY <1>3, <3>1
      <4>. QED  BY <1>1, <4>1, Tags, RuledOut
    <3>2. CASE ~(i <= c)
      <4>1. i - c \in 1..Len(part) /\ c + (i - c) = i
        BY <1>2, <1>3, <3>2
      <4>. QED  BY <1>2, <1>4, <1>6, <4>1
    <3>. QED  BY <3>1, <3>2
  <2>10. a + 2 <= d
    BY <1>1, <1>3, <2>3
  <2>. HIDE DEF d
  <2>11. ThinksAt(q, f, a, d)
    BY <1>1, <2>7, <2>8, <2>10 DEF ThinksAt, n
  <2>. QED  BY <2>1, <2>3, <2>7, <2>9, <2>11 DEF InMode, Thinks, n
<1>. QED  BY <1>5, <1>6

LEMMA ListeningDoes ==
  ASSUME NEW p, ParserTyped(p), NEW f \in Seq(Symbols),
         NEW a \in 0..Len(f), HearsAt(p, f, a)
  PROVE  InMode(Listening(p), f) /\ Listening(p).closed = p.closed
<1>. DEFINE n == Len(f)
            part == SubSeq(f, a + 1, n)
            j == Find(OpenTag, part)
<1>1. /\ ~p.inThink /\ ~p.seen /\ p.thinking = <<>>
      /\ p.answer = SubSeq(f, 1, a) /\ p.buffer = part
      /\ \A i \in 1..a : Ruled(OpenTag, f, i)
  BY DEF HearsAt
<1>2. /\ part \in Seq(Symbols) /\ Len(part) = n - a
      /\ \A i \in 1..Len(part) : At(OpenTag, part, i) <=> At(OpenTag, f, a + i)
      /\ \A i \in 1..Len(part) : Ruled(OpenTag, part, i) => Ruled(OpenTag, f, a + i)
      /\ \A k \in 1..(Len(part) + 1) : \A l \in (k - 1)..Len(part) :
           SubSeq(part, k, l) = SubSeq(f, a + k, a + l)
  BY Tags, Shifted
<1>3. n \in Nat /\ a \in Nat /\ a <= n /\ Len(OpenTag) = 2
  BY Tags
<1>. HIDE DEF n, part
<1>4. /\ j \in 0..Len(part)
      /\ j # 0 => /\ At(OpenTag, part, j)
                  /\ \A i \in 1..Len(part) : At(OpenTag, part, i) => j <= i
      /\ j = 0 => \A i \in 1..Len(part) : ~At(OpenTag, part, i)
  BY <1>2, Tags, FindFacts
<1>. HIDE DEF j
<1>5. CASE j # 0
  <2>. DEFINE d == a + j - 1
              c == d + 2
              q == [p EXCEPT !.answer = @ \o Before(OpenTag, p.buffer),
                             !.inThink = TRUE,
                             !.seen = TRUE,
                             !.buffer = After(OpenTag, p.buffer)]
  <2>1. Listening(p) = Thinking(q)
    BY <1>1, <1>5 DEF Listening, j
  <2>2. j \in 1..Len(part) /\ At(OpenTag, part, j) /\ j + 2 - 1 <= n - a
    <3>1. At(OpenTag, part, j) /\ j \in 1..Len(part)
      BY <1>2, <1>3, <1>4, <1>5
    <3>2. j + Len(OpenTag) - 1 <= Len(part)
      BY <3>1 DEF At
    <3>. QED  BY <1>2, <1>3, <3>1, <3>2
  <2>3. /\ d \in a..n /\ c \in 0..n /\ d \in 0..n /\ c + 1 = a + (j + 2) /\ d + 1 = a + j
        /\ a + (n - a) = n /\ a + (j - 1) = d /\ d + 2 <= c
        /\ j + 2 \in 1..(Len(part) + 1) /\ j - 1 \in (1 - 1)..Len(part) /\ 1 \in 1..(Len(part) + 1)
        /\ Len(part) \in ((j + 2) - 1)..Len(part)
    BY <1>2, <1>3, <2>2
  <2>4. Before(OpenTag, part) = SubSeq(f, a + 1, d)
    <3>1. SubSeq(part, 1, j - 1) = SubSeq(f, a + 1, a + (j - 1))
      BY <1>2, <2>3
    <3>. QED  BY <2>3, <3>1 DEF Before, j
  <2>5. After(OpenTag, part) = SubSeq(f, c + 1, n)
    <3>1. SubSeq(part, j + 2, Len(part)) = SubSeq(f, a + (j + 2), a + Len(part))
      BY <1>2, <2>3
    <3>. QED  BY <1>2, <1>3, <2>3, <3>1 DEF After, j
  <2>6. p.answer \o SubSeq(f, a + 1, d) = SubSeq(f, 1, d)
    <3>1. 1 \in 1..(n + 1) /\ a \in (1 - 1)..n /\ d \in a..n
      BY <1>3, <2>3
    <3>. HIDE DEF d
    <3>2. SubSeq(f, 1, a) \o SubSeq(f, a + 1, d) = SubSeq(f, 1, d)
      BY <3>1, SliceJoin DEF n
    <3>. QED  BY <1>1, <3>2
  <2>7. /\ SubSeq(f, 1, d) \in Seq(Symbols) /\ SubSeq(f, c + 1, n) \in Seq(Symbols)
        /\ SubSeq(f, d + 3, c) = <<>>
    <3>. DEFINE e == c + 1
    <3>1. /\ 1 \in 1..(n + 1) /\ d \in (1 - 1)..n /\ e \in 1..(n + 1) /\ n \in (e - 1)..n
          /\ c \in (e - 1)..n /\ c - e + 1 = 0 /\ d + 3 = e
      BY <1>2, <1>3, <2>2, <2>3
    <3>. HIDE DEF c, d, e
    <3>2. SubSeq(f, 1, d) \in Seq(Symbols) /\ SubSeq(f, e, n) \in Seq(Symbols)
      BY <3>1, Slice DEF n
    <3>3. SubSeq(f, e, c) \in Seq(Symbols) /\ Len(SubSeq(f, e, c)) = 0
      BY <3>1, Slice DEF n
    <3>4. SubSeq(f, e, c) = <<>>
      BY <3>3
    <3>. QED  BY <3>1, <3>2, <3>4 DEF e
  <2>8. /\ ParserTyped(q) /\ q.inThink /\ q.seen /\ q.closed = p.closed
        /\ q.answer = SubSeq(f, 1, d) /\ q.buffer = SubSeq(f, c + 1, n)
        /\ q.thinking = <<>>
    <3>. DEFINE s == SubSeq(f, 1, d)
                t == SubSeq(f, c + 1, n)
    <3>1. s \in Seq(Symbols) /\ t \in Seq(Symbols)
      BY <2>7
    <3>2. q = [p EXCEPT !.answer = s, !.inThink = TRUE, !.seen = TRUE, !.buffer = t]
      BY <1>1, <2>4, <2>5, <2>6 DEF ParserTyped
    <3>. HIDE DEF q, s, t
    <3>3. ParserTyped(q)
      BY <3>1, <3>2 DEF ParserTyped
    <3>4. /\ q.inThink /\ q.seen /\ q.closed = p.closed /\ q.answer = s /\ q.buffer = t
          /\ q.thinking = p.thinking
      BY <3>2 DEF ParserTyped
    <3>. QED  BY <1>1, <3>3, <3>4 DEF s, t
  <2>9. FirstAt(OpenTag, f, 1, d + 1)
    <3>1. At(OpenTag, f, d + 1) /\ d + 1 >= 1
      BY <1>2, <1>3, <2>2, <2>3
    <3>2. ASSUME NEW i \in 1..((d + 1) - 1)
          PROVE  ~At(OpenTag, f, i)
      <4>1. CASE i <= a
        <5>1. i \in 1..a /\ i \in Nat
          BY <1>3, <4>1
        <5>. QED  BY <1>1, <5>1, Tags, RuledOut
      <4>2. CASE ~(i <= a)
        <5>1. i - a \in 1..Len(part) /\ a + (i - a) = i /\ ~(j <= i - a)
          BY <1>2, <1>3, <2>2, <2>3, <4>2
        <5>2. ~At(OpenTag, part, i - a)
          BY <1>4, <1>5, <5>1
        <5>. QED  BY <1>2, <5>1, <5>2
      <4>. QED  BY <4>1, <4>2
    <3>. QED  BY <3>1, <3>2 DEF FirstAt
  <2>10. ThinksAt(q, f, d, c)
    <3>1. \A i \in (d + 3)..c : FALSE
      BY <1>2, <1>3, <2>2, <2>3
    <3>. HIDE DEF q, d, c
    <3>. QED  BY <2>3, <2>7, <2>8, <2>9, <3>1 DEF ThinksAt, n
  <2>. HIDE DEF q, d, c
  <2>11. InMode(Thinking(q), f) /\ Thinking(q).closed = q.closed
    BY <2>3, <2>8, <2>10, ThinkingDoes DEF n
  <2>. QED  BY <2>1, <2>8, <2>11
<1>6. CASE j = 0
  <2>. DEFINE m == Sendable(OpenTag, part)
              d == a + m
              q == [p EXCEPT !.answer = @ \o SubSeq(p.buffer, 1, m),
                             !.buffer = SubSeq(@, m + 1, Len(@))]
  <2>1. Listening(p) = q
    BY <1>1, <1>6 DEF Listening, j
  <2>2. /\ m \in 0..Len(part) /\ Len(part) - m < 2
        /\ \A i \in 1..m : Ruled(OpenTag, part, i)
    BY <1>2, <1>3, <1>4, <1>6, Tags, SendableRules
  <2>. HIDE DEF m
  <2>3. /\ d \in a..n /\ d \in 0..n /\ m + 1 \in 1..(Len(part) + 1) /\ 1 \in 1..(Len(part) + 1)
        /\ m \in (1 - 1)..Len(part) /\ Len(part) \in ((m + 1) - 1)..Len(part)
        /\ a + (m + 1) = d + 1 /\ a + Len(part) = n /\ n - d < 2
    BY <1>2, <1>3, <2>2
  <2>4. SubSeq(part, 1, m) = SubSeq(f, a + 1, d) /\ SubSeq(part, m + 1, Len(part)) = SubSeq(f, d + 1, n)
    <3>1. SubSeq(part, 1, m) = SubSeq(f, a + 1, a + m)
      BY <1>2, <2>3
    <3>2. SubSeq(part, m + 1, Len(part)) = SubSeq(f, a + (m + 1), a + Len(part))
      BY <1>2, <2>3
    <3>. QED  BY <2>3, <3>1, <3>2
  <2>5. p.answer \o SubSeq(f, a + 1, d) = SubSeq(f, 1, d)
    <3>1. 1 \in 1..(n + 1) /\ a \in (1 - 1)..n /\ d \in a..n
      BY <1>3, <2>3
    <3>. HIDE DEF d
    <3>2. SubSeq(f, 1, a) \o SubSeq(f, a + 1, d) = SubSeq(f, 1, d)
      BY <3>1, SliceJoin DEF n
    <3>. QED  BY <1>1, <3>2
  <2>6. SubSeq(f, 1, d) \in Seq(Symbols) /\ SubSeq(f, d + 1, n) \in Seq(Symbols)
    <3>. DEFINE e == d + 1
    <3>1. 1 \in 1..(n + 1) /\ d \in (1 - 1)..n /\ e \in 1..(n + 1) /\ n \in (e - 1)..n
      BY <1>3, <2>3
    <3>. HIDE DEF d, e
    <3>2. SubSeq(f, 1, d) \in Seq(Symbols) /\ SubSeq(f, e, n) \in Seq(Symbols)
      BY <3>1, Slice DEF n
    <3>. QED  BY <3>2 DEF e
  <2>7. /\ ParserTyped(q) /\ ~q.inThink /\ ~q.seen /\ q.closed = p.closed
        /\ q.answer = SubSeq(f, 1, d) /\ q.buffer = SubSeq(f, d + 1, n)
        /\ q.thinking = <<>>
    <3>. DEFINE s == SubSeq(f, 1, d)
                t == SubSeq(f, d + 1, n)
    <3>1. s \in Seq(Symbols) /\ t \in Seq(Symbols)
      BY <2>6
    <3>2. q = [p EXCEPT !.answer = s, !.buffer = t]
      BY <1>1, <2>4, <2>5 DEF ParserTyped
    <3>. HIDE DEF q, s, t
    <3>3. ParserTyped(q)
      BY <3>1, <3>2 DEF ParserTyped
    <3>4. /\ q.inThink = p.inThink /\ q.seen = p.seen /\ q.closed = p.closed
          /\ q.answer = s /\ q.buffer = t /\ q.thinking = p.thinking
      BY <3>2 DEF ParserTyped
    <3>. QED  BY <1>1, <3>3, <3>4 DEF s, t
  <2>. HIDE DEF q
  <2>8. ASSUME NEW i \in 1..d
        PROVE  Ruled(OpenTag, f, i)
    <3>1. CASE i <= a
      <4>1. i \in 1..a
        BY <1>3, <3>1
      <4>. QED  BY <1>1, <4>1
    <3>2. CASE ~(i <= a)
      <4>1. i - a \in 1..Len(part) /\ a + (i - a) = i /\ i - a \in 1..m
        BY <1>2, <1>3, <2>2, <2>3, <3>2
      <4>. QED  BY <1>2, <2>2, <4>1
    <3>. QED  BY <3>1, <3>2
  <2>9. ASSUME NEW i \in 1..n
        PROVE  ~At(OpenTag, f, i)
    <3>1. CASE i <= a
      <4>1. i \in 1..a /\ i \in Nat
        BY <1>3, <3>1
      <4>. QED  BY <1>1, <4>1, Tags, RuledOut
    <3>2. CASE ~(i <= a)
      <4>1. i - a \in 1..Len(part) /\ a + (i - a) = i
        BY <1>2, <1>3, <3>2
      <4>. QED  BY <1>2, <1>4, <1>6, <4>1
    <3>. QED  BY <3>1, <3>2
  <2>. HIDE DEF d
  <2>10. HearsAt(q, f, d)
    BY <2>7, <2>8 DEF HearsAt, n
  <2>. QED  BY <2>1, <2>3, <2>7, <2>9, <2>10 DEF InMode, Hears, n
<1>. QED  BY <1>5, <1>6

-----------------------------------------------------------------------------
(* Feeding and closing.                                                    *)

StreamInv ==
    /\ fed \in Seq(Symbols) /\ ParserTyped(parser)
    /\ ~parser.closed => InMode(parser, fed)
    /\ CutAnyhow

(* What is held back goes with the piece that follows it. *)
LEMMA FeedKeeps ==
  ASSUME NEW piece \in Seq(Symbols), StreamInv, Feed(piece)
  PROVE  StreamInv'
<1>. DEFINE p == [parser EXCEPT !.buffer = @ \o piece]
            f == fed
            g == f \o piece
            n == Len(f)
<1>1. ParserTyped(parser) /\ InMode(parser, fed) /\ ~parser.closed /\ f \in Seq(Symbols)
  BY DEF StreamInv, Feed
<1>2. /\ parser' = (IF p.inThink THEN Thinking(p)
                    ELSE IF p.seen THEN Answering(p) ELSE Listening(p))
      /\ fed' = g
  BY DEF Feed
<1>3. /\ ParserTyped(p) /\ p.inThink = parser.inThink /\ p.seen = parser.seen
      /\ p.closed = parser.closed /\ p.thinking = parser.thinking /\ p.answer = parser.answer
      /\ p.buffer = parser.buffer \o piece
  <2>. DEFINE b == parser.buffer \o piece
  <2>1. b \in Seq(Symbols)
    BY <1>1 DEF ParserTyped
  <2>2. p = [parser EXCEPT !.buffer = b]
    BY <1>1 DEF ParserTyped
  <2>. HIDE DEF b, p
  <2>. QED  BY <1>1, <2>1, <2>2 DEF ParserTyped, b
<1>4. /\ g \in Seq(Symbols) /\ Len(g) = n + Len(piece) /\ n \in Nat /\ Len(piece) \in Nat
      /\ \A k \in 1..n : g[k] = f[k]
  BY <1>1
<1>5. \A i \in 1..(n + 1) : /\ \A j \in (i - 1)..n : SubSeq(g, i, j) = SubSeq(f, i, j)
                           /\ SubSeq(g, i, Len(g)) = SubSeq(f, i, n) \o piece
  <2>. TAKE i \in 1..(n + 1)
  <2>. QED  BY <1>1, SliceGrown
<1>6. ASSUME NEW tag, IsTag(tag)
      PROVE  /\ \A i \in 1..n : Ruled(tag, f, i) => Ruled(tag, g, i)
             /\ \A i \in Nat, from \in Nat \ {0} :
                  FirstAt(tag, f, from, i) => FirstAt(tag, g, from, i)
  BY <1>1, <1>6, Grown
<1>. HIDE DEF p, g, n, f
<1>7. ASSUME Hears(parser, f)
      PROVE  InMode(parser', g) /\ parser'.closed = p.closed
  <2>1. PICK a \in 0..n : HearsAt(parser, f, a)
    BY <1>7 DEF Hears, n
  <2>2. /\ 1 \in 1..(n + 1) /\ a \in (1 - 1)..n /\ a + 1 \in 1..(n + 1) /\ a \in 0..Len(g)
        /\ 1..a \subseteq 1..n
    BY <1>4
  <2>3. SubSeq(g, 1, a) = SubSeq(f, 1, a) /\ SubSeq(g, a + 1, Len(g)) = SubSeq(f, a + 1, n) \o piece
    BY <1>5, <2>2
  <2>4. \A i \in 1..a : Ruled(OpenTag, g, i)
    BY <1>6, <2>1, <2>2, Tags DEF HearsAt
  <2>5. HearsAt(p, g, a)
    BY <1>3, <2>1, <2>3, <2>4 DEF HearsAt, n
  <2>6. parser' = Listening(p)
    BY <1>2, <2>5 DEF HearsAt
  <2>. QED  BY <1>3, <1>4, <2>2, <2>5, <2>6, ListeningDoes
<1>8. ASSUME Thinks(parser, f)
      PROVE  InMode(parser', g) /\ parser'.closed = p.closed
  <2>1. PICK a \in 0..n, c \in 0..n : ThinksAt(parser, f, a, c)
    BY <1>8 DEF Thinks, n
  <2>2. a + 2 <= c /\ FirstAt(OpenTag, f, 1, a + 1)
    BY <2>1 DEF ThinksAt
  <2>3. /\ 1 \in 1..(n + 1) /\ a \in (1 - 1)..n /\ c + 1 \in 1..(n + 1)
        /\ a + 3 \in 1..(n + 1) /\ c \in ((a + 3) - 1)..n
        /\ a \in 0..Len(g) /\ c \in 0..Len(g) /\ a + 1 \in Nat /\ 1 \in Nat \ {0}
        /\ (a + 3)..c \subseteq 1..n
    BY <1>4, <2>2
  <2>4. /\ SubSeq(g, 1, a) = SubSeq(f, 1, a) /\ SubSeq(g, a + 3, c) = SubSeq(f, a + 3, c)
        /\ SubSeq(g, c + 1, Len(g)) = SubSeq(f, c + 1, n) \o piece
    BY <1>5, <2>3
  <2>5. \A i \in (a + 3)..c : Ruled(CloseTag, g, i)
    BY <1>6, <2>1, <2>3, Tags DEF ThinksAt
  <2>6. FirstAt(OpenTag, g, 1, a + 1)
    BY <1>6, <2>2, <2>3, Tags
  <2>7. ThinksAt(p, g, a, c)
    BY <1>3, <2>1, <2>4, <2>5, <2>6 DEF ThinksAt, n
  <2>8. parser' = Thinking(p)
    BY <1>2, <2>7 DEF ThinksAt
  <2>. QED  BY <1>3, <1>4, <2>3, <2>7, <2>8, ThinkingDoes
<1>9. ASSUME Answers(parser, f)
      PROVE  InMode(parser', g) /\ parser'.closed = p.closed
  <2>1. PICK a \in 0..n, c \in 0..n : AnswersAt(parser, f, a, c)
    BY <1>9 DEF Answers, n
  <2>2. /\ a + 2 <= c /\ FirstAt(OpenTag, f, 1, a + 1) /\ FirstAt(CloseTag, f, a + 3, c + 1)
        /\ parser.buffer = <<>>
    BY <1>9, <2>1 DEF AnswersAt, Answers
  <2>3. c + 1 + 3 - 1 <= n
    <3>1. c + 1 + Len(CloseTag) - 1 <= Len(f)
      BY <2>2 DEF FirstAt, At
    <3>. QED  BY <3>1, Tags DEF n
  <2>4. /\ 1 \in 1..(n + 1) /\ a \in (1 - 1)..n /\ c + 4 \in 1..(n + 1)
        /\ a + 3 \in 1..(n + 1) /\ c \in ((a + 3) - 1)..n /\ n \in ((c + 4) - 1)..n
        /\ a \in 0..Len(g) /\ c \in 0..Len(g) /\ a + 1 \in Nat /\ c + 1 \in Nat
        /\ 1 \in Nat \ {0} /\ a + 3 \in Nat \ {0} /\ 1..a \subseteq 1..n
    BY <1>4, <2>2, <2>3
  <2>5. /\ SubSeq(g, 1, a) = SubSeq(f, 1, a) /\ SubSeq(g, a + 3, c) = SubSeq(f, a + 3, c)
        /\ SubSeq(g, c + 4, Len(g)) = SubSeq(f, c + 4, n) \o piece
    BY <1>5, <2>4
  <2>6. FirstAt(OpenTag, g, 1, a + 1) /\ FirstAt(CloseTag, g, a + 3, c + 1)
    BY <1>6, <2>2, <2>4, Tags
  <2>7. a <= Len(parser.answer) /\ \A k \in 1..a : parser.answer[k] = g[k]
    BY <1>4, <2>1, <2>4 DEF AnswersAt
  <2>8. p.buffer = piece
    BY <1>3, <2>2
  <2>9. Plains(parser.answer) + 0 = Plains(SubSeq(f, 1, a)) + Plains(SubSeq(f, c + 4, n))
    <3>1. Plains(<<>>) = 0
      <4>1. Xs(<<>>) = {}
        BY DEF Xs
      <4>. QED  BY <4>1, FS_EmptySet DEF Plains
    <3>. QED  BY <2>1, <2>2, <3>1 DEF AnswersAt, n
  <2>10. /\ SubSeq(f, c + 4, n) \in Seq(Symbols) /\ SubSeq(f, 1, a) \in Seq(Symbols)
    <3>. DEFINE e == c + 4
    <3>1. e \in 1..(n + 1) /\ n \in (e - 1)..n
      BY <2>4
    <3>. HIDE DEF e
    <3>2. SubSeq(f, e, n) \in Seq(Symbols) /\ SubSeq(f, 1, a) \in Seq(Symbols)
      BY <1>1, <2>4, <3>1, Slice DEF n
    <3>. QED  BY <3>2 DEF e
  <2>11. Plains(SubSeq(g, c + 4, Len(g))) = Plains(SubSeq(f, c + 4, n)) + Plains(piece)
    BY <2>5, <2>10, PlainsJoin
  <2>12. /\ Plains(SubSeq(f, 1, a)) \in Nat /\ Plains(SubSeq(f, c + 4, n)) \in Nat
         /\ Plains(piece) \in Nat /\ Plains(parser.answer) \in Nat
    BY <1>1, <2>10, XsFinite DEF ParserTyped
  <2>13. Plains(parser.answer) + Plains(piece)
           = Plains(SubSeq(g, 1, a)) + Plains(SubSeq(g, c + 4, Len(g)))
    <3>. DEFINE r == Plains(parser.answer)
                s == Plains(SubSeq(f, 1, a))
                t == Plains(SubSeq(f, c + 4, n))
                u == Plains(piece)
    <3>1. r \in Nat /\ s \in Nat /\ t \in Nat /\ u \in Nat /\ r + 0 = s + t
      BY <2>9, <2>12
    <3>. HIDE DEF r, s, t, u
    <3>2. r + u = s + (t + u)
      BY <3>1
    <3>. QED  BY <2>5, <2>11, <3>2 DEF r, s, t, u
  <2>14. AnswersAt(p, g, a, c)
    BY <1>3, <2>1, <2>2, <2>5, <2>6, <2>7, <2>8, <2>13 DEF AnswersAt
  <2>15. parser' = Answering(p)
    BY <1>2, <2>14 DEF AnswersAt
  <2>. QED  BY <1>3, <1>4, <2>4, <2>14, <2>15, AnsweringDoes
<1>10. InMode(parser', g) /\ ~parser'.closed
  BY <1>1, <1>3, <1>7, <1>8, <1>9 DEF InMode, f
<1>. QED  BY <1>2, <1>4, <1>10 DEF StreamInv, CutAnyhow, InMode

LEMMA FlushKeeps ==
  ASSUME StreamInv, Flush
  PROVE  StreamInv'
<1>. DEFINE p == parser
            f == fed
            n == Len(f)
            open == Find(OpenTag, f)
            rest == After(OpenTag, f)
            close == Find(CloseTag, rest)
<1>1. ParserTyped(p) /\ InMode(p, f) /\ ~p.closed /\ f \in Seq(Symbols) /\ n \in Nat
  BY DEF StreamInv, Flush
<1>2. /\ parser' = [(IF p.inThink THEN [p EXCEPT !.thinking = @ \o p.buffer, !.buffer = <<>>]
                     ELSE Answering(p)) EXCEPT !.closed = TRUE]
      /\ fed' = f
  BY DEF Flush
<1>3. /\ p.buffer \in Seq(Symbols) /\ p.answer \in Seq(Symbols) /\ p.thinking \in Seq(Symbols)
      /\ Clean(p.buffer) \in Seq(Symbols) /\ Plains(Clean(p.buffer)) = Plains(p.buffer)
      /\ (Len(p.buffer) < 2 => Clean(p.buffer) = p.buffer)
  <2>1. p.buffer \in Seq(Symbols) /\ p.answer \in Seq(Symbols) /\ p.thinking \in Seq(Symbols)
    BY <1>1 DEF ParserTyped
  <2>. QED  BY <2>1, CleanFacts
<1>4. /\ ParserTyped(parser') /\ parser'.closed
      /\ p.inThink => /\ parser'.thinking = p.thinking \o p.buffer /\ parser'.answer = p.answer
      /\ ~p.inThink => /\ parser'.thinking = p.thinking
                       /\ parser'.answer = p.answer \o Clean(p.buffer)
  <2>. DEFINE s == p.thinking \o p.buffer
              t == p.answer \o Clean(p.buffer)
  <2>1. s \in Seq(Symbols) /\ t \in Seq(Symbols) /\ <<>> \in Seq(Symbols)
    BY <1>3
  <2>2. CASE p.inThink
    <3>1. parser' = [p EXCEPT !.thinking = s, !.buffer = <<>>, !.closed = TRUE]
      BY <1>1, <1>2, <2>2 DEF ParserTyped
    <3>. HIDE DEF p, s, t
    <3>2. /\ ParserTyped(parser') /\ parser'.closed /\ parser'.thinking = s
          /\ parser'.answer = p.answer
      BY <1>1, <2>1, <3>1 DEF ParserTyped
    <3>. QED  BY <2>2, <3>2 DEF s
  <2>3. CASE ~p.inThink
    <3>1. parser' = [p EXCEPT !.answer = t, !.buffer = <<>>, !.closed = TRUE]
      BY <1>1, <1>2, <2>3 DEF ParserTyped, Answering
    <3>. HIDE DEF p, s, t
    <3>2. /\ ParserTyped(parser') /\ parser'.closed /\ parser'.thinking = p.thinking
          /\ parser'.answer = t
      BY <1>1, <2>1, <3>1 DEF ParserTyped
    <3>. QED  BY <2>3, <3>2 DEF t
  <2>. QED  BY <2>2, <2>3
<1>. DEFINE Told ==
       IF open = 0
       THEN parser'.thinking = <<>> /\ parser'.answer = f
       ELSE IF close = 0
            THEN parser'.thinking = rest /\ parser'.answer = Before(OpenTag, f)
            ELSE /\ parser'.thinking = Before(CloseTag, rest)
                 /\ IsPrefix(Before(OpenTag, f), parser'.answer)
                 /\ Plain(parser'.answer) = Plain(Before(OpenTag, f) \o After(CloseTag, rest))
<1>. HIDE DEF p, f, n
<1>5. ASSUME Hears(p, f)
      PROVE  Told
  <2>1. PICK a \in 0..n : HearsAt(p, f, a) /\ n - a < 2
    BY <1>5 DEF Hears, n
  <2>2. open = 0
    BY <1>1, <1>5, Tags, FindsFirst DEF Hears
  <2>3. /\ ~p.inThink /\ p.thinking = <<>> /\ p.answer = SubSeq(f, 1, a)
        /\ p.buffer = SubSeq(f, a + 1, n)
    BY <2>1 DEF HearsAt, n
  <2>4. Len(p.buffer) < 2
    <3>. DEFINE e == a + 1
    <3>1. e \in 1..(n + 1) /\ n \in (e - 1)..n /\ n - e + 1 < 2
      BY <1>1, <2>1
    <3>. HIDE DEF e
    <3>2. Len(SubSeq(f, e, n)) = n - e + 1
      BY <1>1, <3>1, Slice DEF n
    <3>. QED  BY <2>3, <3>1, <3>2 DEF e
  <2>5. SubSeq(f, 1, a) \o SubSeq(f, a + 1, n) = f
    <3>1. 1 \in 1..(n + 1) /\ a \in (1 - 1)..n /\ n \in a..n
      BY <1>1
    <3>2. SubSeq(f, 1, a) \o SubSeq(f, a + 1, n) = SubSeq(f, 1, n)
      BY <1>1, <3>1, SliceJoin DEF n
    <3>3. SubSeq(f, 1, n) = f
      BY <1>1 DEF n
    <3>. QED  BY <3>2, <3>3
  <2>. QED  BY <1>3, <1>4, <2>2, <2>3, <2>4, <2>5
<1>6. ASSUME NEW a \in 0..n, FirstAt(OpenTag, f, 1, a + 1), a + 2 <= n
      PROVE  /\ open = a + 1 /\ open # 0
             /\ Before(OpenTag, f) = SubSeq(f, 1, a) /\ rest = SubSeq(f, (a + 2) + 1, n)
  <2>1. a + 1 \in Nat /\ a + 1 # 0 /\ (a + 1) - 1 = a /\ (a + 1) + 2 = (a + 2) + 1
    BY <1>1
  <2>2. open = a + 1
    BY <1>1, <1>6, <2>1, Tags, FindsFirst
  <2>. HIDE DEF open
  <2>3. Before(OpenTag, f) = SubSeq(f, 1, open - 1) /\ rest = SubSeq(f, open + 2, n)
    BY Tags DEF Before, After, open, n
  <2>. QED  BY <2>1, <2>2, <2>3
<1>7. ASSUME Thinks(p, f)
      PROVE  Told
  <2>1. PICK a \in 0..n, c \in 0..n :
          ThinksAt(p, f, a, c) /\ \A i \in (a + 3)..n : ~At(CloseTag, f, i)
    BY <1>7 DEF Thinks, n
  <2>2. /\ p.inThink /\ FirstAt(OpenTag, f, 1, a + 1) /\ a + 2 <= c
        /\ p.answer = SubSeq(f, 1, a) /\ p.thinking = SubSeq(f, a + 3, c)
        /\ p.buffer = SubSeq(f, c + 1, n)
    BY <2>1 DEF ThinksAt, n
  <2>3. a + 2 <= n /\ a + 2 \in 0..n
    BY <1>1, <2>2
  <2>4. /\ open # 0 /\ Before(OpenTag, f) = SubSeq(f, 1, a)
        /\ rest = SubSeq(f, (a + 2) + 1, n)
    BY <1>6, <2>2, <2>3
  <2>. DEFINE b == a + 2
  <2>5. /\ SubSeq(f, b + 1, n) \in Seq(Symbols) /\ Len(SubSeq(f, b + 1, n)) = n - b
        /\ \A i \in 1..Len(SubSeq(f, b + 1, n)) :
             At(CloseTag, SubSeq(f, b + 1, n), i) <=> At(CloseTag, f, b + i)
    <3>. HIDE DEF b
    <3>. QED  BY <1>1, <2>3, Tags, Shifted DEF n, b
  <2>6. \A i \in 1..(n - b) : b + i \in (a + 3)..n
    BY <1>1, <2>3
  <2>7. \A i \in 1..Len(rest) : ~At(CloseTag, rest, i)
    BY <2>1, <2>4, <2>5, <2>6
  <2>8. close = 0
    <3>1. rest \in Seq(Symbols)
      BY <2>4, <2>5
    <3>. HIDE DEF rest
    <3>. QED  BY <2>7, <3>1, Tags, FindsFirst
  <2>9. p.thinking \o p.buffer = rest
    <3>. DEFINE e == a + 3
    <3>1. e \in 1..(n + 1) /\ c \in (e - 1)..n /\ n \in c..n /\ (a + 2) + 1 = e
      BY <1>1, <2>2
    <3>. HIDE DEF e
    <3>2. SubSeq(f, e, c) \o SubSeq(f, c + 1, n) = SubSeq(f, e, n)
      BY <1>1, <3>1, SliceJoin DEF n
    <3>3. rest = SubSeq(f, e, n)
      BY <2>4, <3>1
    <3>. QED  BY <2>2, <3>2, <3>3 DEF e
  <2>. HIDE DEF open, rest, close
  <2>. QED  BY <1>4, <2>2, <2>4, <2>8, <2>9
<1>8. ASSUME Answers(p, f)
      PROVE  Told
  <2>1. PICK a \in 0..n, c \in 0..n : AnswersAt(p, f, a, c)
    BY <1>8 DEF Answers, n
  <2>2. /\ ~p.inThink /\ FirstAt(OpenTag, f, 1, a + 1) /\ a + 2 <= c
        /\ FirstAt(CloseTag, f, a + 3, c + 1)
        /\ p.thinking = SubSeq(f, a + 3, c) /\ p.buffer = <<>>
        /\ a <= Len(p.answer) /\ \A k \in 1..a : p.answer[k] = f[k]
        /\ Plains(p.answer) + Plains(p.buffer)
             = Plains(SubSeq(f, 1, a)) + Plains(SubSeq(f, c + 4, n))
    BY <1>8, <2>1 DEF AnswersAt, Answers, n
  <2>3. /\ At(CloseTag, f, c + 1) /\ c + 3 <= n
        /\ \A i \in (a + 3)..c : ~At(CloseTag, f, i)
    <3>1. At(CloseTag, f, c + 1) /\ \A i \in (a + 3)..((c + 1) - 1) : ~At(CloseTag, f, i)
      BY <2>2 DEF FirstAt
    <3>2. (c + 1) + Len(CloseTag) - 1 <= n
      BY <3>1 DEF At, n
    <3>3. (c + 1) - 1 = c /\ c + 3 <= n
      BY <1>1, <3>2, Tags
    <3>. QED  BY <3>1, <3>3
  <2>4. a + 2 <= n /\ a + 2 \in 0..n
    BY <1>1, <2>2
  <2>5. /\ open # 0 /\ Before(OpenTag, f) = SubSeq(f, 1, a)
        /\ rest = SubSeq(f, (a + 2) + 1, n)
    BY <1>6, <2>2, <2>4
  <2>. DEFINE b == a + 2
              part == SubSeq(f, b + 1, n)
              d == c + 1 - b
  <2>6. /\ part \in Seq(Symbols) /\ Len(part) = n - b
        /\ \A i \in 1..Len(part) : At(CloseTag, part, i) <=> At(CloseTag, f, b + i)
        /\ \A k \in 1..(Len(part) + 1) : \A l \in (k - 1)..Len(part) :
             SubSeq(part, k, l) = SubSeq(f, b + k, b + l)
    <3>. HIDE DEF b
    <3>. QED  BY <1>1, <2>4, Tags, Shifted DEF n, b
  <2>7. /\ d \in 1..(n - b) /\ b + d = c + 1 /\ d \in Nat /\ b + (d - 1) = c
        /\ b + (d + 3) = c + 4 /\ b + (n - b) = n /\ b + 1 = a + 3
        /\ \A i \in 1..(d - 1) : i \in 1..(n - b) /\ b + i \in (a + 3)..c
        /\ 1 \in 1..((n - b) + 1) /\ d - 1 \in (1 - 1)..(n - b)
        /\ d + 3 \in 1..((n - b) + 1) /\ n - b \in ((d + 3) - 1)..(n - b)
    BY <1>1, <2>2, <2>3, <2>4
  <2>8. rest = part
    BY <2>5
  <2>. HIDE DEF part, d, b
  <2>9. FirstAt(CloseTag, part, 1, d)
    <3>1. At(CloseTag, part, d) /\ d >= 1
      BY <1>1, <2>3, <2>6, <2>7
    <3>2. \A i \in 1..(d - 1) : ~At(CloseTag, part, i)
      BY <2>3, <2>6, <2>7
    <3>. QED  BY <3>1, <3>2 DEF FirstAt
  <2>10. close = d /\ close # 0
    <3>1. Find(CloseTag, part) = d
      BY <2>6, <2>7, <2>9, Tags, FindsFirst
    <3>2. d # 0
      BY <1>1, <2>7
    <3>. QED  BY <2>8, <3>1, <3>2
  <2>11. Before(CloseTag, rest) = SubSeq(f, a + 3, c)
    <3>1. Before(CloseTag, rest) = SubSeq(part, 1, d - 1)
      BY <2>8, <2>10 DEF Before
    <3>2. SubSeq(part, 1, d - 1) = SubSeq(f, b + 1, b + (d - 1))
      BY <2>6, <2>7
    <3>. QED  BY <2>7, <3>1, <3>2
  <2>12. After(CloseTag, rest) = SubSeq(f, c + 4, n)
    <3>1. After(CloseTag, rest) = SubSeq(part, d + 3, Len(part))
      BY <2>8, <2>10, Tags DEF After
    <3>2. SubSeq(part, d + 3, Len(part)) = SubSeq(f, b + (d + 3), b + Len(part))
      BY <2>6, <2>7
    <3>. QED  BY <2>6, <2>7, <3>1, <3>2
  <2>. DEFINE s == SubSeq(f, 1, a)
              t == SubSeq(f, c + 4, n)
  <2>13. /\ s \in Seq(Symbols) /\ Len(s) = a /\ t \in Seq(Symbols)
         /\ \A k \in 1..a : s[k] = f[k]
    <3>. DEFINE e == c + 4
    <3>1. /\ e \in 1..(n + 1) /\ n \in (e - 1)..n /\ 1 \in 1..(n + 1) /\ a \in (1 - 1)..n
          /\ a - 1 + 1 = a /\ \A k \in 1..a : 1 + k - 1 = k
      BY <1>1, <2>3
    <3>. HIDE DEF e
    <3>2. SubSeq(f, e, n) \in Seq(Symbols)
      BY <1>1, <3>1, Slice DEF n
    <3>3. /\ SubSeq(f, 1, a) \in Seq(Symbols) /\ Len(SubSeq(f, 1, a)) = a - 1 + 1
          /\ \A k \in 1..(a - 1 + 1) : SubSeq(f, 1, a)[k] = f[1 + k - 1]
      BY <1>1, <3>1, Slice DEF n
    <3>. QED  BY <3>1, <3>2, <3>3 DEF e
  <2>. HIDE DEF s, t
  <2>14. parser'.answer = p.answer
    <3>1. <<>> \in Seq(Symbols) /\ Len(<<>>) < 2
      OBVIOUS
    <3>2. Clean(<<>>) = <<>>
      BY <3>1, CleanFacts
    <3>3. p.answer \o <<>> = p.answer
      BY <1>3
    <3>. QED  BY <1>4, <2>2, <3>2, <3>3
  <2>15. IsPrefix(s, p.answer)
    <3>1. \A k \in 1..a : s[k] = p.answer[k]
      BY <2>2, <2>13
    <3>. QED  BY <1>3, <2>2, <2>13, <3>1, PrefixIs
  <2>16. Plains(p.answer) = Plains(s \o t)
    <3>1. Plains(<<>>) = 0
      <4>1. Xs(<<>>) = {}
        BY DEF Xs
      <4>. QED  BY <4>1, FS_EmptySet DEF Plains
    <3>2. Plains(p.answer) \in Nat /\ Plains(p.answer) + 0 = Plains(s) + Plains(t)
      BY <1>3, <2>2, <3>1, XsFinite DEF s, t
    <3>3. Plains(p.answer) + 0 = Plains(p.answer)
      BY <3>2
    <3>. QED  BY <2>13, <3>2, <3>3, PlainsJoin
  <2>17. Plain(p.answer) = Plain(s \o t)
    <3>1. s \o t \in Seq(Symbols)
      BY <2>13
    <3>. QED  BY <1>3, <2>16, <3>1, PlainIs
  <2>. HIDE DEF open, close, rest
  <2>. QED  BY <1>4, <2>2, <2>5, <2>10, <2>11, <2>12, <2>14, <2>15, <2>17 DEF s, t
<1>9. Told
  BY <1>1, <1>5, <1>7, <1>8 DEF InMode
<1>. QED  BY <1>1, <1>2, <1>4, <1>9 DEF StreamInv, CutAnyhow

(* However long the stream is and wherever it is cut into pieces, the      *)
(* closed parser took the reasoning exactly from between the tags, and no  *)
(* plain text is lost or changes sides.  StreamBufferParser.feed and       *)
(* finalize.                                                               *)
THEOREM StreamCutAnyhow == StreamSpec => []CutAnyhow
<1>1. StreamInit => StreamInv
  <2>. SUFFICES ASSUME StreamInit PROVE StreamInv
    OBVIOUS
  <2>1. parser = NewParser /\ fed = <<>>
    BY DEF StreamInit
  <2>2. ParserTyped(parser) /\ ~parser.closed /\ fed \in Seq(Symbols)
    BY <2>1 DEF NewParser, ParserTyped
  <2>3. Hears(parser, fed)
    <3>1. Len(<<>>) = 0 /\ SubSeq(<<>>, 1, 0) = <<>> /\ 0 \in 0..0 /\ 0 - 0 < 2
      OBVIOUS
    <3>2. HearsAt(parser, fed, 0)
      BY <2>1, <3>1 DEF HearsAt, NewParser
    <3>3. \A i \in 1..0 : ~At(OpenTag, fed, i)
      OBVIOUS
    <3>. QED  BY <2>1, <3>1, <3>2, <3>3 DEF Hears
  <2>. QED  BY <2>2, <2>3 DEF StreamInv, InMode, CutAnyhow
<1>2. StreamInv /\ [StreamNext]_streamVars => StreamInv'
  <2>. SUFFICES ASSUME StreamInv, [StreamNext]_streamVars PROVE StreamInv'
    OBVIOUS
  <2>1. ASSUME NEW size \in 1..MaxPiece, NEW piece \in [1..size -> Symbols], Feed(piece)
        PROVE  StreamInv'
    <3>1. piece \in Seq(Symbols)
      BY StreamAssumption
    <3>. QED  BY <2>1, <3>1, FeedKeeps
  <2>2. CASE Flush
    BY <2>2, FlushKeeps
  <2>3. CASE UNCHANGED streamVars
    BY <2>3 DEF streamVars, StreamInv, CutAnyhow
  <2>. QED  BY <2>1, <2>2, <2>3 DEF StreamNext
<1>3. StreamInv => CutAnyhow
  BY DEF StreamInv
<1>. QED  BY <1>1, <1>2, <1>3, PTL DEF StreamSpec

-----------------------------------------------------------------------------
(***************************************************************************)
(* The chunker.  ChunkInv knows what is being collected as the stretch of  *)
(* units from some s to the last one, and of the chunks that are closed    *)
(* where they begin and end (Filling); at the end of the document they     *)
(* are whole.                                                              *)
(***************************************************************************)

ChunkSpec == ChunkInit /\ [][ChunkNext]_chunkVars

-----------------------------------------------------------------------------
(* Stretches of adjacent units.                                            *)

Run(a, b) == [k \in 1..(b - a + 1) |-> a + k - 1]

LEMMA RunFacts ==
  ASSUME NEW a \in Nat \ {0}, NEW b \in Nat, a <= b + 1
  PROVE  /\ Run(a, b) \in Seq(Nat) /\ Len(Run(a, b)) = b - a + 1
         /\ DOMAIN Run(a, b) = 1..(b - a + 1)
         /\ ToSet(Run(a, b)) = a..b
         /\ a = b + 1 <=> Run(a, b) = <<>>
         /\ a <= b => Head(Run(a, b)) = a /\ Last(Run(a, b)) = b
<1>. DEFINE r == Run(a, b)
            n == b - a + 1
<1>1. n \in Nat
  OBVIOUS
<1>2. r = [k \in 1..n |-> a + k - 1]
  BY DEF Run
<1>3. \A k \in 1..n : a + k - 1 \in Nat /\ a + k - 1 \in a..b
  OBVIOUS
<1>4. ASSUME NEW i \in a..b
      PROVE  i - a + 1 \in 1..n /\ a + (i - a + 1) - 1 = i
  OBVIOUS
<1>. HIDE DEF n
<1>5. r \in Seq(Nat) /\ Len(r) = n /\ DOMAIN r = 1..n /\ \A k \in 1..n : r[k] = a + k - 1
  BY <1>1, <1>2, <1>3
<1>. HIDE DEF r
<1>6. ToSet(r) = a..b
  <2>1. \A k \in 1..n : r[k] \in a..b
    BY <1>3, <1>5
  <2>2. \A i \in a..b : i - a + 1 \in 1..n /\ r[i - a + 1] = i
    BY <1>4, <1>5
  <2>3. ToSet(r) = {r[k] : k \in 1..n}
    BY <1>5 DEF ToSet
  <2>. QED  BY <2>1, <2>2, <2>3
<1>7. a <= b => Head(r) = a /\ Last(r) = b
  <2>. SUFFICES ASSUME a <= b PROVE Head(r) = a /\ Last(r) = b
    OBVIOUS
  <2>1. n >= 1 /\ r # <<>> /\ n = b - a + 1
    BY <1>5 DEF n
  <2>2. Head(r) = r[1] /\ r[1] = a
    BY <1>1, <1>5, <2>1
  <2>3. Last(r) = r[n] /\ r[n] = b
    BY <1>1, <1>5, <2>1 DEF Last
  <2>. QED  BY <2>2, <2>3
<1>8. a = b + 1 <=> n = 0
  BY DEF n
<1>9. n = 0 <=> r = <<>>
  BY <1>1, <1>5
<1>. QED  BY <1>5, <1>6, <1>7, <1>8, <1>9 DEF r, n

LEMMA RunParts ==
  ASSUME NEW a \in Nat \ {0}, NEW b \in Nat, a <= b + 1,
         NEW i \in 1..(b - a + 2), NEW j \in (i - 1)..(b - a + 1)
  PROVE  SubSeq(Run(a, b), i, j) = Run(a + i - 1, a + j - 1)
<1>1. /\ Run(a, b) \in Seq(Nat) /\ Len(Run(a, b)) = b - a + 1
      /\ DOMAIN Run(a, b) = 1..(b - a + 1)
  BY RunFacts
<1>2. i \in Int /\ j \in Int /\ i >= 1 /\ j >= i - 1 /\ j <= b - a + 1
  OBVIOUS
<1>3. SubSeq(Run(a, b), i, j) = [k \in 1..(j - i + 1) |-> Run(a, b)[k + i - 1]]
  BY <1>1, <1>2
<1>4. \A k \in 1..(j - i + 1) : k + i - 1 \in 1..(b - a + 1)
  BY <1>2
<1>5. \A k \in 1..(j - i + 1) : Run(a, b)[k + i - 1] = (a + i - 1) + k - 1
  <2>. SUFFICES ASSUME NEW k \in 1..(j - i + 1) PROVE Run(a, b)[k + i - 1] = (a + i - 1) + k - 1
    OBVIOUS
  <2>1. Run(a, b)[k + i - 1] = a + (k + i - 1) - 1
    BY <1>4 DEF Run
  <2>. QED  BY <1>2, <2>1
<1>6. j - i + 1 = (a + j - 1) - (a + i - 1) + 1
  BY <1>2
<1>7. Run(a + i - 1, a + j - 1) = [k \in 1..(j - i + 1) |-> (a + i - 1) + k - 1]
  BY <1>6 DEF Run
<1>. QED  BY <1>3, <1>5, <1>7

LEMMA RunGrows ==
  ASSUME NEW a \in Nat \ {0}, NEW b \in Nat, a <= b + 1
  PROVE  Append(Run(a, b), b + 1) = Run(a, b + 1)
<1>. DEFINE n == b - a + 1
            new == Append(Run(a, b), b + 1)
<1>1. Run(a, b) \in Seq(Nat) /\ Len(Run(a, b)) = n /\ n \in Nat
  BY RunFacts
<1>2. \A k \in 1..n : Run(a, b)[k] = a + k - 1
  BY DEF Run
<1>3. a + (n + 1) - 1 = b + 1 /\ (b + 1) - a + 1 = n + 1
  OBVIOUS
<1>. HIDE DEF n
<1>4. new \in Seq(Nat) /\ Len(new) = n + 1 /\ \A k \in 1..n : new[k] = a + k - 1
  BY <1>1, <1>2
<1>5. new[n + 1] = b + 1
  BY <1>1
<1>. HIDE DEF new
<1>6. \A k \in 1..(n + 1) : new[k] = a + k - 1
  BY <1>1, <1>3, <1>4, <1>5
<1>7. new = [k \in 1..(n + 1) |-> a + k - 1]
  BY <1>1, <1>4, <1>6
<1>. QED  BY <1>3, <1>7 DEF Run, new

LEMMA RunJoins ==
  ASSUME NEW a \in Nat \ {0}, NEW b \in Nat, a <= b + 1, NEW c \in Nat, b <= c
  PROVE  Run(a, b) \o Run(b + 1, c) = Run(a, c)
<1>. DEFINE n == b - a + 1
            m == c - (b + 1) + 1
            new == Run(a, b) \o Run(b + 1, c)
<1>1. /\ Run(a, b) \in Seq(Nat) /\ Len(Run(a, b)) = n /\ n \in Nat
      /\ Run(b + 1, c) \in Seq(Nat) /\ Len(Run(b + 1, c)) = m /\ m \in Nat
  <2>1. Run(a, b) \in Seq(Nat) /\ Len(Run(a, b)) = n /\ n \in Nat
    BY RunFacts
  <2>2. b + 1 \in Nat \ {0} /\ b + 1 <= c + 1 /\ m \in Nat
    OBVIOUS
  <2>3. Run(b + 1, c) \in Seq(Nat) /\ Len(Run(b + 1, c)) = m
    BY <2>2, RunFacts
  <2>. QED  BY <2>1, <2>2, <2>3
<1>2. /\ \A k \in 1..n : Run(a, b)[k] = a + k - 1
      /\ \A k \in 1..m : Run(b + 1, c)[k] = (b + 1) + k - 1
  BY DEF Run
<1>3. c - a + 1 = n + m /\ b = a + n - 1
  OBVIOUS
<1>. HIDE DEF n, m
<1>4. /\ new \in Seq(Nat) /\ Len(new) = n + m
      /\ \A k \in 1..n : new[k] = Run(a, b)[k]
      /\ \A k \in 1..m : new[n + k] = Run(b + 1, c)[k]
  <2>. DEFINE s == Run(a, b)
              t == Run(b + 1, c)
  <2>1. s \in Seq(Nat) /\ t \in Seq(Nat) /\ Len(s) = n /\ Len(t) = m
    BY <1>1
  <2>2. new = s \o t
    OBVIOUS
  <2>. HIDE DEF s, t, new
  <2>3. s \o t \in Seq(Nat) /\ Len(s \o t) = Len(s) + Len(t)
    BY <2>1
  <2>4. \A i \in 1..Len(s) : (s \o t)[i] = s[i]
    BY <2>1
  <2>5. \A k \in 1..Len(t) : (s \o t)[Len(s) + k] = t[k]
    <3>. SUFFICES ASSUME NEW k \in 1..Len(t) PROVE (s \o t)[Len(s) + k] = t[k]
      OBVIOUS
    <3>1. /\ Len(s) \in Nat /\ Len(t) \in Nat
          /\ Len(s) + k \in 1..(Len(s) + Len(t)) /\ ~(Len(s) + k <= Len(s))
          /\ Len(s) + k - Len(s) = k
      BY <2>1
    <3>. QED  BY <2>1, <3>1, ConcatProperties
  <2>. QED  BY <2>1, <2>2, <2>3, <2>4, <2>5 DEF s, t
<1>. HIDE DEF new
<1>5. ASSUME NEW k \in 1..(n + m)
      PROVE  new[k] = a + k - 1
  <2>1. CASE k \in 1..n
    BY <1>2, <1>4, <2>1
  <2>2. CASE k \notin 1..n
    <3>1. k - n \in 1..m /\ n + (k - n) = k
      BY <1>1, <2>2
    <3>2. new[k] = (b + 1) + (k - n) - 1
      BY <1>2, <1>4, <3>1
    <3>. QED  BY <1>1, <1>3, <3>2
  <2>. QED  BY <2>1, <2>2
<1>6. new = [k \in 1..(n + m) |-> a + k - 1]
  BY <1>1, <1>4, <1>5
<1>. QED  BY <1>3, <1>6 DEF Run, new

-----------------------------------------------------------------------------
(* The tokens of the units from a to b.                                    *)

Unit == [kind : Kinds, tokens : UnitTokens]
Counts(u, S) == [i \in S |-> u[i].tokens]
Sum(u, a, b) == Total(Counts(u, a..b), a..b)

LEMMA UnitCounts ==
  ASSUME NEW u \in Seq(Unit), NEW i \in 1..Len(u)
  PROVE  u[i].tokens \in Nat /\ u[i] \in Unit
<1>1. u[i] \in Unit
  OBVIOUS
<1>2. u[i].tokens \in UnitTokens
  BY <1>1 DEF Unit
<1>. QED  BY <1>1, <1>2, ChunkingAssumption

LEMMA SumFacts ==
  ASSUME NEW u \in Seq(Unit), NEW a \in Nat \ {0}, NEW b \in 0..Len(u)
  PROVE  /\ Sum(u, a, b) \in Nat
         /\ b < a => Sum(u, a, b) = 0
         /\ b = a => Sum(u, a, b) = u[a].tokens
         /\ b < Len(u) /\ a <= b + 1 => Sum(u, a, b + 1) = Sum(u, a, b) + u[b + 1].tokens
<1>1. \A i \in 1..Len(u) : u[i].tokens \in Nat
  BY UnitCounts
<1>2. ASSUME NEW c \in 0..Len(u)
      PROVE  /\ IsFiniteSet(a..c) /\ \A i \in a..c : Counts(u, a..c)[i] \in Nat
             /\ \A i \in a..c : Counts(u, a..c)[i] = u[i].tokens
  <2>1. a..c \subseteq 1..Len(u) /\ c \in Int
    OBVIOUS
  <2>2. \A i \in a..c : Counts(u, a..c)[i] = u[i].tokens
    BY DEF Counts
  <2>3. IsFiniteSet(a..c)
    BY <2>1, FS_Interval
  <2>. QED  BY <1>1, <2>1, <2>2, <2>3
<1>3. Sum(u, a, b) \in Nat
  <2>1. Total(Counts(u, a..b), a..b) \in Int
    BY <1>2, TotalInt
  <2>. DEFINE zeros == [i \in a..b |-> 0]
  <2>2. \A i \in a..b : zeros[i] \in Int /\ zeros[i] <= Counts(u, a..b)[i]
    BY <1>2
  <2>3. \A i \in a..b : zeros[i] = 0
    OBVIOUS
  <2>. HIDE DEF zeros
  <2>4. Total(zeros, a..b) <= Total(Counts(u, a..b), a..b)
    BY <1>2, <2>2, TotalLeq
  <2>5. Total(zeros, a..b) = 0
    BY <1>2, <2>3, TotalZero
  <2>. QED  BY <2>1, <2>4, <2>5 DEF Sum
<1>4. b < a => Sum(u, a, b) = 0
  <2>1. b < a => a..b = {}
    OBVIOUS
  <2>. QED  BY <2>1, TotalEmpty DEF Sum
<1>5. ASSUME b < Len(u), a <= b + 1
      PROVE  Sum(u, a, b + 1) = Sum(u, a, b) + u[b + 1].tokens
  <2>1. b + 1 \in 0..Len(u) /\ b + 1 \in a..(b + 1) /\ (a..(b + 1)) \ {b + 1} = a..b
    BY <1>5
  <2>. DEFINE f == Counts(u, a..(b + 1))
  <2>2. IsFiniteSet(a..(b + 1)) /\ \A i \in a..(b + 1) : f[i] \in Int /\ f[i] = u[i].tokens
    BY <1>2, <2>1
  <2>. HIDE DEF f
  <2>3. Total(f, a..(b + 1)) = f[b + 1] + Total(f, a..b)
    <3>. DEFINE S == a..(b + 1)
                e == b + 1
    <3>1. IsFiniteSet(S) /\ (\A i \in S : f[i] \in Int) /\ e \in S /\ S \ {e} = a..b
      BY <2>1, <2>2
    <3>. HIDE DEF S, e
    <3>2. Total(f, S) = f[e] + Total(f, S \ {e})
      BY <3>1, TotalPick
    <3>. QED  BY <3>1, <3>2 DEF S, e
  <2>4. \A i \in a..b : f[i] \in Int /\ Counts(u, a..b)[i] = f[i]
    BY <1>2, <2>1, <2>2
  <2>5. Total(f, a..b) = Total(Counts(u, a..b), a..b)
    BY <1>2, <2>4, TotalSame
  <2>6. Total(Counts(u, a..b), a..b) \in Nat /\ f[b + 1] \in Int
    BY <1>3, <2>1, <2>2 DEF Sum
  <2>. QED  BY <2>1, <2>2, <2>3, <2>5, <2>6 DEF Sum, f
<1>6. b = a => Sum(u, a, b) = u[a].tokens
  <2>. SUFFICES ASSUME b = a PROVE Sum(u, a, b) = u[a].tokens
    OBVIOUS
  <2>1. a..a = {a}
    OBVIOUS
  <2>2. Counts(u, a..a)[a] = u[a].tokens /\ Counts(u, a..a)[a] \in Nat /\ IsFiniteSet(a..a)
    BY <1>2, <2>1
  <2>3. Total(Counts(u, a..a), a..a) = Counts(u, a..a)[a]
    BY <2>1, <2>2, TotalOnly
  <2>. QED  BY <2>2, <2>3 DEF Sum
<1>. QED  BY <1>3, <1>4, <1>5, <1>6

LEMMA SumJoins ==
  ASSUME NEW u \in Seq(Unit), NEW a \in Nat \ {0}, NEW b \in 0..Len(u), a <= b + 1,
         NEW c \in b..Len(u)
  PROVE  Sum(u, a, c) = Sum(u, a, b) + Sum(u, b + 1, c)
<1>. DEFINE Wrong == {d \in b..Len(u) : Sum(u, a, d) # Sum(u, a, b) + Sum(u, b + 1, d)}
<1>1. SUFFICES ASSUME Wrong # {} PROVE FALSE
  OBVIOUS
<1>2. Wrong \subseteq b..Len(u)
  OBVIOUS
<1>3. IsFiniteSet(b..Len(u)) /\ b \in Nat /\ Len(u) \in Nat
  BY FS_Interval
<1>4. IsFiniteSet(Wrong) /\ Wrong \subseteq Int
  BY <1>2, <1>3, FS_Subset
<1>. DEFINE d == Min(Wrong)
<1>5. d \in Wrong /\ \A e \in Wrong : d <= e
  BY <1>1, <1>4, SmallestExists
<1>. HIDE DEF d
<1>6. d \in b..Len(u) /\ Sum(u, a, d) # Sum(u, a, b) + Sum(u, b + 1, d)
  BY <1>5
<1>7. d # b
  <2>1. Sum(u, b + 1, b) = 0 /\ Sum(u, a, b) \in Nat
    BY <1>3, SumFacts
  <2>. QED  BY <1>6, <2>1
<1>. DEFINE p == d - 1
<1>8. p \in b..Len(u) /\ p \notin Wrong /\ p \in 0..Len(u) /\ p < Len(u) /\ p + 1 = d
  <2>1. p \in b..Len(u) /\ p < d /\ d \in Int /\ p \in Int /\ p < Len(u) /\ p + 1 = d /\ p \in 0..Len(u)
    BY <1>3, <1>6, <1>7
  <2>. QED  BY <1>5, <2>1
<1>9. Sum(u, a, p) = Sum(u, a, b) + Sum(u, b + 1, p)
  BY <1>8
<1>. HIDE DEF p, Wrong
<1>10. /\ Sum(u, a, d) = Sum(u, a, p) + u[d].tokens
       /\ Sum(u, b + 1, d) = Sum(u, b + 1, p) + u[d].tokens
       /\ Sum(u, a, b) \in Nat /\ Sum(u, b + 1, p) \in Nat
  <2>1. a <= p + 1 /\ b + 1 <= p + 1 /\ b + 1 \in Nat \ {0}
    BY <1>3, <1>8
  <2>2. Sum(u, a, p + 1) = Sum(u, a, p) + u[p + 1].tokens
    BY <1>8, <2>1, SumFacts
  <2>. DEFINE q == b + 1
  <2>3. q \in Nat \ {0} /\ q <= p + 1
    BY <2>1
  <2>. HIDE DEF q
  <2>4. Sum(u, q, p + 1) = Sum(u, q, p) + u[p + 1].tokens /\ Sum(u, q, p) \in Nat
    BY <1>8, <2>3, SumFacts
  <2>5. Sum(u, a, b) \in Nat
    BY SumFacts
  <2>. QED  BY <1>8, <2>2, <2>4, <2>5 DEF q
<1>11. u[d].tokens \in Nat
  <2>1. d \in 1..Len(u)
    BY <1>3, <1>6, <1>7
  <2>. QED  BY <2>1, UnitCounts
<1>. QED  BY <1>6, <1>9, <1>10, <1>11

LEMMA SumKept ==
  ASSUME NEW u \in Seq(Unit), NEW x \in Unit, NEW a \in Nat \ {0}, NEW b \in 0..Len(u)
  PROVE  Sum(Append(u, x), a, b) = Sum(u, a, b)
<1>1. \A i \in a..b : i \in 1..Len(u)
  OBVIOUS
<1>2. \A i \in 1..Len(u) : Append(u, x)[i] = u[i]
  OBVIOUS
<1>3. Counts(Append(u, x), a..b) = Counts(u, a..b)
  BY <1>1, <1>2 DEF Counts
<1>. QED  BY <1>3 DEF Sum

-----------------------------------------------------------------------------
(* The chunks that are closed, of the units u.                             *)

Lo(chunk) == chunk[1]
Hi(chunk) == chunk[Len(chunk)]
Titles(u, i) == u[i].kind = "heading"
Small(n) == n <= MaxTokens \/ n <= 2 * MaxTokens - 2

(* The stretch from a to b may be a chunk. *)
Fair(u, a, b) ==
    \/ Small(Sum(u, a, b))
    \/ \E i \in a..b : Titles(u, i)
    \/ a = b

(* chunk is one of the chunks of u. *)
Piece(u, chunk) ==
    \E a \in 1..Len(u), b \in 1..Len(u) : a <= b /\ chunk = Run(a, b) /\ Fair(u, a, b)

(* What the chunk from a to b shares with one before it that ends at e. *)
Little(u, a, e) == Sum(u, a, e) <= OverlapTokens \/ a = e

(* The chunk from a to b may follow one that ends at e. *)
After1(u, e, a, b) ==
    /\ a <= e + 1
    /\ b > e \/ (b = e /\ e < Len(u) /\ Titles(u, e + 1))
    /\ Little(u, a, e)

End(gs) == IF gs = <<>> THEN 0 ELSE Hi(gs[Len(gs)])

Pieces(u, gs) ==
    /\ gs \in Seq(Seq(Nat))
    /\ \A g \in 1..Len(gs) : Piece(u, gs[g])
    /\ gs # <<>> => Lo(gs[1]) = 1
    /\ \A g \in 1..Len(gs) : g > 1 => After1(u, Hi(gs[g - 1]), Lo(gs[g]), Hi(gs[g]))

(* No heading ends a chunk unless it fills it. *)
Bodied(u, gs) ==
    \A g \in 1..Len(gs) : Titles(u, Hi(gs[g])) => u[Hi(gs[g])].tokens >= MaxTokens

(* Behind the chunks gs the units from s on are being collected. *)
Filling(u, gs, s) ==
    LET n == Len(u)
        e == End(gs)
    IN  /\ Pieces(u, gs) /\ Bodied(u, gs)
        /\ s \in 1..(n + 1) /\ s <= e + 1 /\ e <= n
        /\ s <= n => e < n
        /\ s = n + 1 => e = n
        /\ Little(u, s, e)
        /\ s <= e => ~Titles(u, e)
        /\ s < n => Titles(u, s) \/ Small(Sum(u, s, n))
        /\ s <= n /\ gs # <<>> =>
             s > e \/ Sum(u, Lo(gs[Len(gs)]), e) + Sum(u, s, n) > MaxTokens
        /\ s = n + 1 /\ Len(gs) > 1 => Lo(gs[Len(gs)]) > Hi(gs[Len(gs) - 1])

LEMMA RunEnds ==
  ASSUME NEW a \in Nat \ {0}, NEW b \in Nat, a <= b
  PROVE  Lo(Run(a, b)) = a /\ Hi(Run(a, b)) = b
<1>1. Len(Run(a, b)) = b - a + 1 /\ 1 \in 1..(b - a + 1) /\ b - a + 1 \in 1..(b - a + 1)
  BY RunFacts
<1>2. Run(a, b)[1] = a + 1 - 1 /\ Run(a, b)[b - a + 1] = a + (b - a + 1) - 1
  BY <1>1 DEF Run
<1>. QED  BY <1>1, <1>2 DEF Lo, Hi

LEMMA PieceFacts ==
  ASSUME NEW u, u \in Seq(Unit), NEW chunk, Piece(u, chunk)
  PROVE  /\ Lo(chunk) \in 1..Len(u) /\ Hi(chunk) \in 1..Len(u) /\ Lo(chunk) <= Hi(chunk)
         /\ chunk = Run(Lo(chunk), Hi(chunk)) /\ Fair(u, Lo(chunk), Hi(chunk))
<1>1. PICK a \in 1..Len(u), b \in 1..Len(u) : a <= b /\ chunk = Run(a, b) /\ Fair(u, a, b)
  BY DEF Piece
<1>2. a \in Nat \ {0} /\ b \in Nat
  OBVIOUS
<1>3. Lo(chunk) = a /\ Hi(chunk) = b
  BY <1>1, <1>2, RunEnds
<1>. QED  BY <1>1, <1>3

(* A chunk more. *)
LEMMA PieceAdded ==
  ASSUME NEW u, u \in Seq(Unit), NEW gs, Pieces(u, gs),
         NEW a \in 1..Len(u), NEW b \in 1..Len(u), a <= b, Fair(u, a, b),
         gs = <<>> => a = 1, gs # <<>> => After1(u, End(gs), a, b)
  PROVE  LET more == Append(gs, Run(a, b))
         IN  /\ Pieces(u, more) /\ End(more) = b /\ more # <<>> /\ Len(more) = Len(gs) + 1
             /\ \A g \in 1..Len(gs) : more[g] = gs[g]
             /\ more[Len(gs) + 1] = Run(a, b)
             /\ Lo(Run(a, b)) = a /\ Hi(Run(a, b)) = b
<1>. DEFINE n == Len(gs)
            more == Append(gs, Run(a, b))
<1>1. gs \in Seq(Seq(Nat)) /\ n \in Nat
  BY DEF Pieces
<1>2. a \in Nat \ {0} /\ b \in Nat
  OBVIOUS
<1>3. Run(a, b) \in Seq(Nat) /\ Lo(Run(a, b)) = a /\ Hi(Run(a, b)) = b
  BY <1>2, RunFacts, RunEnds
<1>4. Piece(u, Run(a, b))
  BY DEF Piece
<1>5. /\ more \in Seq(Seq(Nat)) /\ Len(more) = n + 1 /\ more # <<>>
      /\ \A g \in 1..n : more[g] = gs[g]
      /\ more[n + 1] = Run(a, b)
  <2>. DEFINE c == Run(a, b)
  <2>1. c \in Seq(Nat) /\ more = Append(gs, c)
    BY <1>3
  <2>. HIDE DEF c, more
  <2>2. more \in Seq(Seq(Nat)) /\ Len(more) = n + 1 /\ more[n + 1] = c
    BY <1>1, <2>1
  <2>3. \A g \in 1..n : more[g] = gs[g]
    BY <1>1, <2>1
  <2>4. more # <<>>
    BY <1>1, <2>2
  <2>. QED  BY <2>2, <2>3, <2>4 DEF c
<1>. HIDE DEF more
<1>6. End(more) = b
  BY <1>3, <1>5 DEF End
<1>7. \A g \in 1..Len(more) : Piece(u, more[g])
  <2>1. \A g \in 1..n : Piece(u, gs[g])
    BY DEF Pieces
  <2>2. \A g \in 1..(n + 1) : g \in 1..n \/ g = n + 1
    BY <1>1
  <2>. QED  BY <1>4, <1>5, <2>1, <2>2
<1>8. Lo(more[1]) = 1
  <2>1. CASE gs = <<>>
    BY <1>1, <1>3, <1>5, <2>1
  <2>2. CASE gs # <<>>
    <3>1. 1 \in 1..n /\ Lo(gs[1]) = 1
      BY <1>1, <2>2 DEF Pieces
    <3>. QED  BY <1>5, <3>1
  <2>. QED  BY <2>1, <2>2
<1>9. ASSUME NEW g \in 1..Len(more), g > 1
      PROVE  After1(u, Hi(more[g - 1]), Lo(more[g]), Hi(more[g]))
  <2>1. g - 1 \in 1..n /\ more[g - 1] = gs[g - 1]
    <3>1. g \in 1..(n + 1) /\ n \in Nat
      BY <1>1, <1>5
    <3>2. g - 1 \in 1..n
      BY <1>9, <3>1
    <3>. QED  BY <1>5, <3>2
  <2>2. CASE g = n + 1
    <3>1. gs # <<>> /\ End(gs) = Hi(gs[n])
      BY <1>1, <2>1 DEF End
    <3>2. g - 1 = n
      BY <1>1, <2>2
    <3>. QED  BY <1>3, <1>5, <2>1, <2>2, <3>1, <3>2
  <2>3. CASE g # n + 1
    <3>1. g \in 1..n
      BY <1>1, <1>5, <2>3
    <3>2. After1(u, Hi(gs[g - 1]), Lo(gs[g]), Hi(gs[g]))
      BY <1>9, <3>1 DEF Pieces
    <3>. QED  BY <1>5, <2>1, <3>1, <3>2
  <2>. QED  BY <2>2, <2>3
<1>10. Pieces(u, more)
  BY <1>5, <1>7, <1>8, <1>9 DEF Pieces
<1>. QED  BY <1>3, <1>5, <1>6, <1>10 DEF more

(* A unit more. *)
LEMMA PiecesKept ==
  ASSUME NEW u, u \in Seq(Unit), NEW x \in Unit, NEW gs, Pieces(u, gs), Bodied(u, gs)
  PROVE  Pieces(Append(u, x), gs) /\ Bodied(Append(u, x), gs)
<1>. DEFINE v == Append(u, x)
<1>1. /\ Len(u) \in Nat /\ Len(v) = Len(u) + 1 /\ v \in Seq(Unit)
      /\ \A i \in 1..Len(u) : v[i] = u[i] /\ i \in 1..Len(v)
  OBVIOUS
<1>2. \A a \in Nat \ {0}, b \in 0..Len(u) : Sum(v, a, b) = Sum(u, a, b)
  BY SumKept
<1>. HIDE DEF v
<1>3. ASSUME NEW g \in 1..Len(gs)
      PROVE  /\ Piece(v, gs[g])
             /\ Lo(gs[g]) \in 1..Len(u) /\ Hi(gs[g]) \in 1..Len(u) /\ Lo(gs[g]) <= Hi(gs[g])
  <2>. DEFINE a == Lo(gs[g])
              b == Hi(gs[g])
  <2>1. a \in 1..Len(u) /\ b \in 1..Len(u) /\ a <= b /\ gs[g] = Run(a, b) /\ Fair(u, a, b)
    BY PieceFacts DEF Pieces
  <2>. HIDE DEF a, b
  <2>2. \A i \in a..b : i \in 1..Len(u) /\ (Titles(u, i) <=> Titles(v, i))
    BY <1>1, <2>1 DEF Titles
  <2>3. Sum(v, a, b) = Sum(u, a, b)
    BY <1>1, <1>2, <2>1
  <2>4. Fair(v, a, b)
    BY <2>1, <2>2, <2>3 DEF Fair
  <2>. QED  BY <1>1, <2>1, <2>4 DEF Piece, a, b
<1>4. ASSUME NEW g \in 1..Len(gs), g > 1
      PROVE  After1(v, Hi(gs[g - 1]), Lo(gs[g]), Hi(gs[g]))
  <2>1. After1(u, Hi(gs[g - 1]), Lo(gs[g]), Hi(gs[g])) /\ Len(gs) \in Nat
    BY <1>4 DEF Pieces
  <2>2. g - 1 \in 1..Len(gs)
    BY <1>4, <2>1
  <2>3. /\ Hi(gs[g - 1]) \in 1..Len(u) /\ Lo(gs[g]) \in 1..Len(u)
    BY <1>3, <2>2
  <2>4. Sum(v, Lo(gs[g]), Hi(gs[g - 1])) = Sum(u, Lo(gs[g]), Hi(gs[g - 1]))
    BY <1>1, <1>2, <2>3
  <2>5. Hi(gs[g - 1]) < Len(u) => Hi(gs[g - 1]) + 1 \in 1..Len(u) /\ Hi(gs[g - 1]) < Len(v)
    BY <1>1, <2>3
  <2>. QED  BY <1>1, <2>1, <2>4, <2>5 DEF After1, Little, Titles
<1>5. Pieces(v, gs)
  BY <1>3, <1>4 DEF Pieces
<1>6. Bodied(v, gs)
  BY <1>1, <1>3 DEF Bodied, Titles
<1>. QED  BY <1>5, <1>6 DEF v

-----------------------------------------------------------------------------
(* The branches of _group, on stretches: the body of what is being         *)
(* collected ends at b, and headings alone are behind it.                  *)

BodyEnds(u, s, b) ==
    /\ b \in (s - 1)..Len(u)
    /\ b >= s => ~Titles(u, b)
    /\ \A i \in (b + 1)..Len(u) : Titles(u, i)

Shut(gs, s, b) == IF b < s THEN gs ELSE Append(gs, Run(s, b))

LEMMA EndFacts ==
  ASSUME NEW u, u \in Seq(Unit), NEW gs, Pieces(u, gs)
  PROVE  /\ Len(gs) \in Nat /\ gs \in Seq(Seq(Nat))
         /\ gs = <<>> <=> End(gs) = 0
         /\ gs # <<>> => /\ End(gs) \in 1..Len(u) /\ Lo(gs[Len(gs)]) \in 1..Len(u)
                         /\ End(gs) = Hi(gs[Len(gs)]) /\ Lo(gs[Len(gs)]) <= End(gs)
<1>1. Len(gs) \in Nat /\ gs \in Seq(Seq(Nat))
  BY DEF Pieces
<1>2. gs # <<>> => Len(gs) \in 1..Len(gs)
  BY <1>1
<1>3. gs # <<>> => Piece(u, gs[Len(gs)])
  BY <1>2 DEF Pieces
<1>4. gs # <<>> => /\ Hi(gs[Len(gs)]) \in 1..Len(u) /\ Lo(gs[Len(gs)]) \in 1..Len(u)
                   /\ Lo(gs[Len(gs)]) <= Hi(gs[Len(gs)])
  BY <1>3, PieceFacts
<1>. QED  BY <1>1, <1>4 DEF End

LEMMA FillingFacts ==
  ASSUME NEW u, u \in Seq(Unit), NEW gs, NEW s, Filling(u, gs, s)
  PROVE  /\ Len(u) \in Nat /\ End(gs) \in 0..Len(u) /\ s \in 1..(Len(u) + 1)
         /\ Pieces(u, gs) /\ Bodied(u, gs)
         /\ s <= End(gs) + 1
         /\ s <= Len(u) => End(gs) < Len(u)
         /\ s = Len(u) + 1 => End(gs) = Len(u)
         /\ Little(u, s, End(gs))
         /\ s <= End(gs) => ~Titles(u, End(gs))
         /\ s < Len(u) => Titles(u, s) \/ Small(Sum(u, s, Len(u)))
         /\ gs = <<>> => s = 1
         /\ gs # <<>> => End(gs) \in 1..Len(u)
<1>1. Pieces(u, gs) /\ Len(u) \in Nat
  BY DEF Filling
<1>2. End(gs) \in 0..Len(u)
  BY <1>1, EndFacts
<1>. HIDE DEF Titles, Little, Small
<1>. QED  BY <1>1, <1>2, EndFacts DEF Filling

LEMMA CloseBody ==
  ASSUME NEW u, u \in Seq(Unit), NEW gs, NEW s, Filling(u, gs, s), NEW b, BodyEnds(u, s, b)
  PROVE  LET G == Shut(gs, s, b)
         IN  Pieces(u, G) /\ Bodied(u, G) /\ End(G) = b /\ (G = <<>> => b = 0) /\ b \in 0..Len(u)
<1>. DEFINE n == Len(u)
            e == End(gs)
            G == Shut(gs, s, b)
<1>1. /\ n \in Nat /\ e \in 0..n /\ s \in 1..(n + 1)
      /\ Pieces(u, gs) /\ Bodied(u, gs) /\ s <= e + 1
      /\ s <= n => e < n
      /\ s = n + 1 => e = n
      /\ Little(u, s, e)
      /\ s <= e => ~Titles(u, e)
      /\ s < n => Titles(u, s) \/ Small(Sum(u, s, n))
      /\ gs = <<>> => s = 1
  BY FillingFacts
<1>2. b \in (s - 1)..n /\ (b >= s => ~Titles(u, b)) /\ \A i \in (b + 1)..n : Titles(u, i)
  BY DEF BodyEnds
<1>. HIDE DEF n, e
<1>3. b \in 0..n
  BY <1>1, <1>2
<1>4. s <= e => e <= b
  <2>. SUFFICES ASSUME s <= e, ~(e <= b) PROVE FALSE
    BY <1>1, <1>3
  <2>1. e \in (b + 1)..n
    BY <1>1, <1>3
  <2>. QED  BY <1>1, <1>2, <2>1
<1>5. CASE b < s
  <2>1. b = s - 1 /\ b = e
    BY <1>1, <1>2, <1>4, <1>5
  <2>2. G = gs
    BY <1>5 DEF Shut
  <2>. QED  BY <1>1, <1>3, <2>1, <2>2, EndFacts DEF n, e
<1>6. CASE b >= s
  <2>1. /\ s \in 1..n /\ b \in 1..n /\ s <= b /\ G = Append(gs, Run(s, b)) /\ s <= n
    BY <1>1, <1>2, <1>6 DEF Shut
  <2>2. Fair(u, s, b)
    <3>1. CASE s = n
      BY <1>1, <1>2, <2>1, <3>1 DEF Fair
    <3>2. CASE Titles(u, s)
      BY <1>1, <2>1, <3>2 DEF Fair
    <3>3. CASE Small(Sum(u, s, n))
      <4>1. s \in Nat \ {0} /\ b \in 0..n /\ s <= b + 1 /\ n \in b..n /\ n \in 0..n
        BY <1>1, <2>1
      <4>2. Sum(u, s, n) = Sum(u, s, b) + Sum(u, b + 1, n)
        BY <4>1, SumJoins DEF n
      <4>3. b + 1 \in Nat \ {0}
        BY <4>1
      <4>4. Sum(u, s, b) \in Nat /\ Sum(u, b + 1, n) \in Nat
        BY <4>1, <4>3, SumFacts DEF n
      <4>5. Small(Sum(u, s, b))
        BY <3>3, <4>2, <4>4, ChunkingAssumption DEF Small, ValidConfig
      <4>. QED  BY <4>5 DEF Fair
    <3>. QED  BY <1>1, <2>1, <3>1, <3>2, <3>3
  <2>3. After1(u, e, s, b)
    <3>1. b > e \/ b = e
      BY <1>1, <1>4, <2>1
    <3>2. b = e => e < n /\ Titles(u, e + 1)
      <4>. SUFFICES ASSUME b = e PROVE e < n /\ Titles(u, e + 1)
        OBVIOUS
      <4>1. e < n /\ e + 1 \in (b + 1)..n
        BY <1>1, <2>1
      <4>. QED  BY <1>2, <4>1
    <3>. QED  BY <1>1, <3>1, <3>2 DEF After1, n
  <2>4. /\ Pieces(u, G) /\ End(G) = b /\ G # <<>> /\ Len(G) = Len(gs) + 1
        /\ \A g \in 1..Len(gs) : G[g] = gs[g]
        /\ G[Len(gs) + 1] = Run(s, b) /\ Hi(Run(s, b)) = b
    BY <1>1, <2>1, <2>2, <2>3, PieceAdded DEF n, e
  <2>5. Bodied(u, G)
    <3>1. Len(gs) \in Nat
      BY <1>1 DEF Pieces
    <3>2. \A g \in 1..Len(G) : g \in 1..Len(gs) \/ g = Len(gs) + 1
      BY <2>4, <3>1
    <3>. QED  BY <1>1, <1>2, <1>6, <2>4, <3>2 DEF Bodied
  <2>. QED  BY <1>3, <2>4, <2>5 DEF n
<1>. QED  BY <1>1, <1>2, <1>5, <1>6

(* A unit that fits. *)
LEMMA FillFits ==
  ASSUME NEW u, u \in Seq(Unit), NEW gs, NEW s, Filling(u, gs, s), NEW x \in Unit,
         s = Len(u) + 1 \/ Sum(u, s, Len(u)) + x.tokens <= MaxTokens
  PROVE  Filling(Append(u, x), gs, s)
<1>. DEFINE n == Len(u)
            e == End(gs)
            v == Append(u, x)
<1>1. /\ n \in Nat /\ e \in 0..n /\ s \in 1..(n + 1)
      /\ Pieces(u, gs) /\ Bodied(u, gs) /\ s <= e + 1
      /\ s = n + 1 => e = n
      /\ Little(u, s, e)
      /\ s <= e => ~Titles(u, e)
  BY FillingFacts
<1>2. /\ v \in Seq(Unit) /\ Len(v) = n + 1 /\ v[n + 1] = x
      /\ \A i \in 1..n : v[i] = u[i]
  OBVIOUS
<1>3. Pieces(v, gs) /\ Bodied(v, gs)
  BY <1>1, PiecesKept
<1>4. \A a \in Nat \ {0}, b \in 0..n : Sum(v, a, b) = Sum(u, a, b)
  BY SumKept
<1>5. /\ n + 1 \in 0..Len(v) /\ n \in 0..n /\ n \in 0..Len(v) /\ n < Len(v)
      /\ s \in Nat \ {0} /\ s <= n + 1
  BY <1>1, <1>2
<1>6. Sum(v, s, n + 1) = Sum(u, s, n) + x.tokens
  <2>1. Sum(v, s, n + 1) = Sum(v, s, n) + v[n + 1].tokens
    BY <1>2, <1>5, SumFacts
  <2>. QED  BY <1>2, <1>4, <1>5, <2>1
<1>7. x.tokens \in Nat /\ Sum(u, s, n) \in Nat
  <2>1. x.tokens \in UnitTokens
    BY DEF Unit
  <2>. QED  BY <1>5, <2>1, SumFacts, ChunkingAssumption
<1>. HIDE DEF v
<1>8. Little(v, s, e)
  BY <1>1, <1>4, <1>5 DEF Little
<1>9. s <= e => ~Titles(v, e)
  <2>1. s <= e => e \in 1..n
    BY <1>1
  <2>. QED  BY <1>1, <1>2, <2>1 DEF Titles
<1>10. s < n + 1 => Small(Sum(v, s, n + 1))
  BY <1>1, <1>6 DEF Small
<1>11. s <= n + 1 /\ gs # <<>> =>
         s > e \/ Sum(v, Lo(gs[Len(gs)]), e) + Sum(v, s, n + 1) > MaxTokens
  <2>. SUFFICES ASSUME gs # <<>>, ~(s > e)
                PROVE  Sum(v, Lo(gs[Len(gs)]), e) + Sum(v, s, n + 1) > MaxTokens
    OBVIOUS
  <2>1. s <= n
    BY <1>1
  <2>2. Sum(u, Lo(gs[Len(gs)]), e) + Sum(u, s, n) > MaxTokens
    BY <2>1 DEF Filling
  <2>3. Lo(gs[Len(gs)]) \in Nat \ {0}
    <3>1. Lo(gs[Len(gs)]) \in 1..n
      BY <1>1, EndFacts
    <3>. QED  BY <3>1
  <2>4. Sum(v, Lo(gs[Len(gs)]), e) = Sum(u, Lo(gs[Len(gs)]), e)
    BY <1>1, <1>4, <2>3
  <2>5. Sum(u, Lo(gs[Len(gs)]), e) \in Nat
    BY <1>1, <2>3, SumFacts
  <2>. QED  BY <1>6, <1>7, <2>2, <2>4, <2>5, ChunkingAssumption DEF ValidConfig
<1>. HIDE DEF n, e
<1>12. /\ s \in 1..((n + 1) + 1) /\ e <= n + 1 /\ e < n + 1 /\ s # (n + 1) + 1
  BY <1>1
<1>. QED  BY <1>1, <1>2, <1>3, <1>8, <1>9, <1>10, <1>11, <1>12 DEF Filling, e, n, v

(* What the branches that close a chunk know of the unit they do it for. *)
LEMMA UnitMore ==
  ASSUME NEW u, u \in Seq(Unit), NEW x \in Unit
  PROVE  LET v == Append(u, x)
             n == Len(u)
         IN  /\ n \in Nat /\ v \in Seq(Unit) /\ Len(v) = n + 1 /\ v[n + 1] = x
             /\ \A i \in 1..n : v[i] = u[i] /\ (Titles(v, i) <=> Titles(u, i))
             /\ x.tokens \in Nat
             /\ \A a \in Nat \ {0}, b \in 0..n : Sum(v, a, b) = Sum(u, a, b)
             /\ \A a \in 1..(n + 1) : Sum(v, a, n + 1) = Sum(u, a, n) + x.tokens
<1>. DEFINE v == Append(u, x)
            n == Len(u)
<1>1. /\ n \in Nat /\ v \in Seq(Unit) /\ Len(v) = n + 1 /\ v[n + 1] = x
      /\ \A i \in 1..n : v[i] = u[i]
  OBVIOUS
<1>2. x.tokens \in Nat
  <2>1. x.tokens \in UnitTokens
    BY DEF Unit
  <2>. QED  BY <2>1, ChunkingAssumption
<1>3. \A a \in Nat \ {0}, b \in 0..n : Sum(v, a, b) = Sum(u, a, b)
  BY SumKept
<1>. HIDE DEF v, n
<1>4. ASSUME NEW a \in 1..(n + 1)
      PROVE  Sum(v, a, n + 1) = Sum(u, a, n) + x.tokens
  <2>1. a \in Nat \ {0} /\ n \in 0..n /\ n \in 0..Len(v) /\ n < Len(v) /\ a <= n + 1
    BY <1>1
  <2>2. Sum(v, a, n + 1) = Sum(v, a, n) + v[n + 1].tokens
    BY <1>1, <2>1, SumFacts
  <2>. QED  BY <1>1, <1>3, <2>1, <2>2
<1>. QED  BY <1>1, <1>2, <1>3, <1>4 DEF Titles, v, n

(* A unit that fills a chunk by itself. *)
LEMMA FillOversized ==
  ASSUME NEW u, u \in Seq(Unit), NEW gs, NEW s, Filling(u, gs, s), NEW b, BodyEnds(u, s, b),
         NEW x \in Unit, x.tokens >= MaxTokens
  PROVE  Filling(Append(u, x), Append(Shut(gs, s, b), Run(b + 1, Len(u) + 1)), Len(u) + 2)
<1>. DEFINE n == Len(u)
            v == Append(u, x)
            G == Shut(gs, s, b)
            H == Append(G, Run(b + 1, n + 1))
<1>1. /\ n \in Nat /\ v \in Seq(Unit) /\ Len(v) = n + 1 /\ v[n + 1] = x
      /\ \A i \in 1..n : v[i] = u[i] /\ (Titles(v, i) <=> Titles(u, i))
  BY UnitMore
<1>2. Pieces(u, G) /\ Bodied(u, G) /\ End(G) = b /\ (G = <<>> => b = 0) /\ b \in 0..n
  BY CloseBody
<1>3. \A i \in (b + 1)..n : Titles(u, i)
  BY DEF BodyEnds
<1>. HIDE DEF G
<1>4. Pieces(v, G) /\ Bodied(v, G)
  BY <1>2, PiecesKept
<1>. HIDE DEF v, n
<1>. DEFINE a == b + 1
            c == n + 1
<1>5. /\ a \in 1..Len(v) /\ c \in 1..Len(v) /\ a <= c /\ Len(v) = c /\ b \in 0..Len(v)
      /\ a \in Nat \ {0} /\ b < a /\ b < c /\ n \in Nat
  BY <1>1, <1>2
<1>6. Fair(v, a, c)
  <2>1. CASE b = n
    BY <2>1 DEF Fair
  <2>2. CASE b # n
    <3>1. a \in (b + 1)..n /\ a \in 1..n /\ a \in a..c
      BY <1>1, <1>2, <2>2
    <3>. QED  BY <1>1, <1>3, <3>1 DEF Fair
  <2>. QED  BY <2>1, <2>2
<1>7. Sum(v, a, b) = 0
  BY <1>1, <1>5, SumFacts
<1>8. Little(v, a, b)
  BY <1>7, ChunkingAssumption DEF Little, ValidConfig
<1>9. After1(v, b, a, c)
  BY <1>5, <1>8 DEF After1
<1>10. G = <<>> => a = 1
  BY <1>2
<1>11. H = Append(G, Run(a, c))
  OBVIOUS
<1>. HIDE DEF a, c, H
<1>12. /\ Pieces(v, H) /\ End(H) = c /\ H # <<>> /\ Len(H) = Len(G) + 1
       /\ \A g \in 1..Len(G) : H[g] = G[g]
       /\ H[Len(G) + 1] = Run(a, c)
       /\ Lo(Run(a, c)) = a /\ Hi(Run(a, c)) = c
  BY <1>1, <1>2, <1>4, <1>5, <1>6, <1>9, <1>10, <1>11, PieceAdded, SMTT(40)
<1>13. Len(G) \in Nat
  BY <1>2 DEF Pieces
<1>14. Bodied(v, H)
  <2>1. \A g \in 1..Len(H) : g \in 1..Len(G) \/ g = Len(G) + 1
    BY <1>12, <1>13
  <2>2. v[c].tokens >= MaxTokens
    BY <1>1 DEF c
  <2>. QED  BY <1>4, <1>12, <2>1, <2>2 DEF Bodied
<1>. DEFINE s1 == n + 2
<1>15. s1 \in 1..(c + 1) /\ s1 = c + 1 /\ ~(s1 <= c) /\ ~(s1 < c) /\ s1 \in Nat \ {0} /\ c \in 0..Len(v)
  BY <1>1, <1>5 DEF c
<1>16. Little(v, s1, c)
  <2>1. Sum(v, s1, c) = 0
    BY <1>1, <1>15, SumFacts
  <2>. QED  BY <2>1, ChunkingAssumption DEF Little, ValidConfig
<1>17. Len(H) > 1 => Lo(H[Len(H)]) > Hi(H[Len(H) - 1])
  <2>. SUFFICES ASSUME Len(H) > 1 PROVE Lo(H[Len(H)]) > Hi(H[Len(H) - 1])
    OBVIOUS
  <2>1. Len(H) - 1 = Len(G) /\ Len(G) \in 1..Len(G) /\ G # <<>>
    BY <1>12, <1>13
  <2>2. H[Len(G)] = G[Len(G)] /\ Hi(G[Len(G)]) = b
    BY <1>2, <1>12, <2>1 DEF End
  <2>. QED  BY <1>5, <1>12, <2>1, <2>2
<1>18. Filling(v, H, s1)
  <2>. HIDE DEF s1
  <2>1. Len(v) = c /\ End(H) = c /\ c <= c
    BY <1>5, <1>12
  <2>. QED  BY <1>12, <1>14, <1>15, <1>16, <1>17, <2>1 DEF Filling
<1>. QED  BY <1>11, <1>18 DEF v, n, G, a, c, s1

(* Headings that are carried on to the next chunk. *)
LEMMA FillCarry ==
  ASSUME NEW u, u \in Seq(Unit), NEW gs, NEW s, Filling(u, gs, s), NEW b, BodyEnds(u, s, b),
         b < Len(u), NEW x \in Unit
  PROVE  Filling(Append(u, x), Shut(gs, s, b), b + 1)
<1>. DEFINE n == Len(u)
            v == Append(u, x)
            G == Shut(gs, s, b)
            a == b + 1
<1>1. /\ n \in Nat /\ v \in Seq(Unit) /\ Len(v) = n + 1
      /\ \A i \in 1..n : v[i] = u[i] /\ (Titles(v, i) <=> Titles(u, i))
  BY UnitMore
<1>2. Pieces(u, G) /\ Bodied(u, G) /\ End(G) = b /\ b \in 0..n
  BY CloseBody
<1>3. Titles(u, a)
  <2>1. a \in (b + 1)..n
    BY <1>1, <1>2
  <2>. QED  BY <2>1 DEF BodyEnds
<1>. HIDE DEF G
<1>4. Pieces(v, G) /\ Bodied(v, G)
  BY <1>2, PiecesKept
<1>. HIDE DEF v, n
<1>5. /\ a \in 1..n /\ a \in 1..((n + 1) + 1) /\ b \in 0..Len(v) /\ a \in Nat \ {0}
      /\ b < a /\ b <= n + 1 /\ b < n + 1 /\ a <= b + 1 /\ ~(a <= b) /\ a # (n + 1) + 1 /\ a > b
  BY <1>1, <1>2 DEF n
<1>6. Little(v, a, b)
  <2>1. Sum(v, a, b) = 0
    BY <1>1, <1>5, SumFacts
  <2>. QED  BY <2>1, ChunkingAssumption DEF Little, ValidConfig
<1>7. Titles(v, a)
  BY <1>1, <1>3, <1>5
<1>. HIDE DEF a
<1>8. Filling(v, G, a)
  BY <1>1, <1>2, <1>4, <1>5, <1>6, <1>7 DEF Filling
<1>. QED  BY <1>8 DEF v, G, a

(* A chunk that is full, and what of it the next one repeats. *)
LEMMA FillNext ==
  ASSUME NEW u, u \in Seq(Unit), NEW gs, NEW s, Filling(u, gs, s), s <= Len(u),
         ~Titles(u, Len(u)), NEW x \in Unit, x.tokens < MaxTokens,
         Sum(u, s, Len(u)) + x.tokens > MaxTokens,
         NEW o \in s..(Len(u) + 1),
         \/ o = Len(u) + 1
         \/ Sum(u, o, Len(u)) <= OverlapTokens
         \/ o = Len(u) /\ u[o].tokens < MaxTokens
  PROVE  Filling(Append(u, x), Append(gs, Run(s, Len(u))), o)
<1>. DEFINE n == Len(u)
            v == Append(u, x)
            G == Shut(gs, s, n)
<1>1. /\ n \in Nat /\ v \in Seq(Unit) /\ Len(v) = n + 1
      /\ \A i \in 1..n : v[i] = u[i] /\ (Titles(v, i) <=> Titles(u, i))
      /\ x.tokens \in Nat
      /\ \A a \in Nat \ {0}, b \in 0..n : Sum(v, a, b) = Sum(u, a, b)
      /\ \A a \in 1..(n + 1) : Sum(v, a, n + 1) = Sum(u, a, n) + x.tokens
  BY UnitMore
<1>2. s \in 1..(n + 1)
  BY FillingFacts
<1>3. s \in 1..n /\ n \in 1..n
  BY <1>1, <1>2
<1>4. BodyEnds(u, s, n)
  BY <1>1, <1>3 DEF BodyEnds
<1>5. Pieces(u, G) /\ Bodied(u, G) /\ End(G) = n
  BY <1>4, CloseBody
<1>6. G = Append(gs, Run(s, n))
  BY <1>3 DEF Shut
<1>7. Pieces(v, G) /\ Bodied(v, G)
  BY <1>5, PiecesKept
<1>8. Len(gs) \in Nat /\ gs \in Seq(Seq(Nat))
  BY FillingFacts, EndFacts
<1>9. Lo(G[Len(G)]) = s
  <2>. DEFINE c == Run(s, n)
  <2>0. s \in Nat \ {0} /\ s <= n /\ s <= n + 1
    BY <1>1, <1>3
  <2>1. c \in Seq(Nat) /\ Lo(c) = s
    BY <1>1, <2>0, RunFacts, RunEnds
  <2>2. G = Append(gs, c)
    BY <1>6
  <2>. HIDE DEF c, G
  <2>3. Len(G) = Len(gs) + 1 /\ G[Len(gs) + 1] = c
    BY <1>8, <2>1, <2>2
  <2>. QED  BY <2>1, <2>3
<1>10. /\ MaxTokens \in Nat /\ OverlapTokens \in Nat /\ OverlapTokens < MaxTokens
  BY ChunkingAssumption DEF ValidConfig
<1>. HIDE DEF v, G, n
<1>11. o \in s..(n + 1) /\ ~Titles(u, n) /\ x.tokens < MaxTokens
       /\ Sum(u, s, n) + x.tokens > MaxTokens
       /\ (o = n + 1 \/ Sum(u, o, n) <= OverlapTokens \/ (o = n /\ u[o].tokens < MaxTokens))
  BY DEF n
<1>12. /\ o \in 1..((n + 1) + 1) /\ o \in 1..(n + 1) /\ o \in Nat \ {0} /\ o <= n + 1
       /\ n <= n + 1 /\ n < n + 1 /\ o # (n + 1) + 1 /\ n \in 0..n
  BY <1>1, <1>3, <1>11
<1>13. Sum(v, o, n) = Sum(u, o, n) /\ Sum(u, o, n) \in Nat /\ Sum(u, s, n) \in Nat
       /\ Sum(v, s, n) = Sum(u, s, n)
  <2>1. s \in Nat \ {0} /\ n = Len(u) /\ n \in 0..Len(u)
    BY <1>3, <1>12 DEF n
  <2>. QED  BY <1>1, <1>12, <2>1, SumFacts
<1>14. Sum(v, o, n + 1) = Sum(u, o, n) + x.tokens
  BY <1>1, <1>12
<1>15. Little(v, o, n)
  <2>1. o = n + 1 => Sum(u, o, n) = 0
    BY <1>12, SumFacts DEF n
  <2>. QED  BY <1>10, <1>11, <1>13, <2>1 DEF Little
<1>16. o < n + 1 => Small(Sum(v, o, n + 1))
  <2>. SUFFICES ASSUME o < n + 1 PROVE Small(Sum(v, o, n + 1))
    OBVIOUS
  <2>1. o = n => Sum(u, o, n) = u[o].tokens
    BY <1>12, SumFacts DEF n
  <2>2. Sum(u, o, n) <= MaxTokens - 1
    <3>1. o = n => u[o].tokens \in Nat
      BY <1>3, UnitCounts DEF n
    <3>. QED  BY <1>10, <1>11, <1>12, <1>13, <2>1, <3>1
  <2>. QED  BY <1>1, <1>10, <1>11, <1>13, <1>14, <2>2, SMTT(40) DEF Small
<1>17. o > n \/ Sum(v, s, n) + Sum(v, o, n + 1) > MaxTokens
  BY <1>1, <1>10, <1>11, <1>13, <1>14
<1>18. ~Titles(v, n)
  BY <1>1, <1>3, <1>11
<1>19. Filling(v, G, o)
  BY <1>1, <1>5, <1>7, <1>9, <1>12, <1>15, <1>16, <1>17, <1>18 DEF Filling
<1>. QED  BY <1>6, <1>19 DEF v, n

-----------------------------------------------------------------------------
(* The end of the document.                                                *)

(* The chunks of the whole document. *)
Whole(u, gs) ==
    /\ Pieces(u, gs)
    /\ \A g \in 1..Len(gs) :
         Titles(u, Hi(gs[g])) => Hi(gs[g]) = Len(u) \/ u[Hi(gs[g])].tokens >= MaxTokens
    /\ End(gs) = Len(u)

Ended(u, gs, s) == IF s > Len(u) THEN gs ELSE Append(gs, Run(s, Len(u)))

(* Two chunks may be one when they share nothing. *)
Apart(gs) == Len(gs) > 1 => Lo(gs[Len(gs)]) > Hi(gs[Len(gs) - 1])

LEMMA EndedWhole ==
  ASSUME NEW u, u \in Seq(Unit), NEW gs, NEW s, Filling(u, gs, s)
  PROVE  LET G == Ended(u, gs, s)
         IN  /\ Whole(u, G)
             /\ \/ Apart(G)
                \/ /\ Len(G) > 1
                   /\ Sum(u, Lo(G[Len(G) - 1]), Hi(G[Len(G) - 1]))
                        + Sum(u, Lo(G[Len(G)]), Hi(G[Len(G)])) > MaxTokens
<1>. DEFINE n == Len(u)
            e == End(gs)
            G == Ended(u, gs, s)
<1>1. /\ n \in Nat /\ e \in 0..n /\ s \in 1..(n + 1)
      /\ Pieces(u, gs) /\ Bodied(u, gs) /\ s <= e + 1
      /\ s <= n => e < n
      /\ s = n + 1 => e = n
      /\ Little(u, s, e)
      /\ s < n => Titles(u, s) \/ Small(Sum(u, s, n))
      /\ gs = <<>> => s = 1
  BY FillingFacts
<1>2. Len(gs) \in Nat
  BY <1>1, EndFacts
<1>3. CASE s > n
  <2>1. G = gs /\ s = n + 1
    BY <1>1, <1>3 DEF Ended
  <2>2. Whole(u, gs)
    BY <1>1, <2>1 DEF Whole, Bodied
  <2>3. Apart(gs)
    BY <2>1 DEF Filling, Apart
  <2>. QED  BY <2>1, <2>2, <2>3
<1>4. CASE s <= n
  <2>1. G = Append(gs, Run(s, n)) /\ s \in 1..n /\ n \in 1..n /\ s \in Nat \ {0}
    BY <1>1, <1>4 DEF Ended
  <2>2. Fair(u, s, n)
    BY <1>1, <2>1 DEF Fair
  <2>3. After1(u, e, s, n)
    BY <1>1, <1>4 DEF After1
  <2>. HIDE DEF G
  <2>4. /\ Pieces(u, G) /\ End(G) = n /\ G # <<>> /\ Len(G) = Len(gs) + 1
        /\ \A g \in 1..Len(gs) : G[g] = gs[g]
        /\ G[Len(gs) + 1] = Run(s, n)
        /\ Lo(Run(s, n)) = s /\ Hi(Run(s, n)) = n
    BY <1>1, <1>4, <2>1, <2>2, <2>3, PieceAdded
  <2>5. Whole(u, G)
    <3>1. \A g \in 1..Len(G) : g \in 1..Len(gs) \/ g = Len(gs) + 1
      BY <1>2, <2>4
    <3>. QED  BY <1>1, <2>4, <3>1 DEF Whole, Bodied
  <2>6. CASE gs = <<>>
    <3>1. Len(G) = 1
      BY <2>4, <2>6
    <3>. QED  BY <2>5, <3>1 DEF Apart, G
  <2>7. CASE gs # <<>>
    <3>1. /\ Len(gs) \in 1..Len(gs) /\ Len(G) - 1 = Len(gs) /\ Len(G) > 1
          /\ e = Hi(gs[Len(gs)])
      BY <1>1, <1>2, <2>4, <2>7, EndFacts, SMTT(40)
    <3>2. s > e \/ Sum(u, Lo(gs[Len(gs)]), e) + Sum(u, s, n) > MaxTokens
      BY <1>4, <2>7 DEF Filling
    <3>3. G[Len(G) - 1] = gs[Len(gs)] /\ G[Len(G)] = Run(s, n)
      BY <2>4, <3>1
    <3>4. s > e => Apart(G)
      BY <2>4, <3>1, <3>3 DEF Apart
    <3>. QED  BY <2>4, <2>5, <3>1, <3>2, <3>3, <3>4 DEF G
  <2>. QED  BY <2>6, <2>7
<1>. QED  BY <1>1, <1>3, <1>4

(* The beginning of a list of chunks. *)
LEMMA PiecesStart ==
  ASSUME NEW u, u \in Seq(Unit), NEW gs, Pieces(u, gs), NEW m \in 0..Len(gs)
  PROVE  LET start == SubSeq(gs, 1, m)
         IN  /\ Pieces(u, start) /\ Len(start) = m
             /\ \A g \in 1..m : start[g] = gs[g]
             /\ End(start) = IF m = 0 THEN 0 ELSE Hi(gs[m])
<1>. DEFINE start == SubSeq(gs, 1, m)
<1>1. gs \in Seq(Seq(Nat)) /\ Len(gs) \in Nat /\ m \in Nat /\ m <= Len(gs)
  BY EndFacts
<1>2. /\ start \in Seq(Seq(Nat)) /\ Len(start) = m
      /\ \A g \in 1..m : start[g] = gs[g]
  BY <1>1
<1>. HIDE DEF start
<1>3. \A g \in 1..m : g \in 1..Len(gs) /\ (g > 1 => g - 1 \in 1..m)
  BY <1>1
<1>4. \A g \in 1..m : Piece(u, start[g])
  BY <1>2, <1>3 DEF Pieces
<1>5. start # <<>> => Lo(start[1]) = 1
  <2>1. start # <<>> => 1 \in 1..m /\ gs # <<>>
    BY <1>1, <1>2
  <2>. QED  BY <1>2, <2>1 DEF Pieces
<1>6. \A g \in 1..m : g > 1 => After1(u, Hi(start[g - 1]), Lo(start[g]), Hi(start[g]))
  BY <1>2, <1>3 DEF Pieces
<1>7. Pieces(u, start)
  BY <1>2, <1>4, <1>5, <1>6 DEF Pieces
<1>8. End(start) = IF m = 0 THEN 0 ELSE Hi(gs[m])
  <2>1. m = 0 <=> start = <<>>
    BY <1>1, <1>2
  <2>2. m # 0 => m \in 1..m
    BY <1>1
  <2>. QED  BY <1>2, <2>1, <2>2 DEF End
<1>. QED  BY <1>2, <1>7, <1>8 DEF start

(* A short last chunk folded into the one before it. *)
LEMMA FoldedWhole ==
  ASSUME NEW u, u \in Seq(Unit), NEW gs, Whole(u, gs), Len(gs) > 1, Apart(gs),
         Sum(u, Lo(gs[Len(gs) - 1]), Hi(gs[Len(gs) - 1]))
           + Sum(u, Lo(gs[Len(gs)]), Hi(gs[Len(gs)])) <= MaxTokens
  PROVE  Whole(u, Append(SubSeq(gs, 1, Len(gs) - 2), gs[Len(gs) - 1] \o gs[Len(gs)]))
<1>. DEFINE n == Len(u)
            m == Len(gs)
            a == Lo(gs[m - 1])
            b == Hi(gs[m - 1])
            c == Lo(gs[m])
            start == SubSeq(gs, 1, m - 2)
<1>1. /\ Pieces(u, gs) /\ End(gs) = n /\ m \in Nat /\ m > 1 /\ gs # <<>> /\ n \in Nat
      /\ \A g \in 1..m : Titles(u, Hi(gs[g])) => Hi(gs[g]) = n \/ u[Hi(gs[g])].tokens >= MaxTokens
  BY EndFacts DEF Whole
<1>2. m - 1 \in 1..m /\ m \in 1..m /\ m - 2 \in 0..m /\ m - 1 > 0
  BY <1>1
<1>3. Hi(gs[m]) = n
  BY <1>1 DEF End
<1>4. Piece(u, gs[m - 1]) /\ Piece(u, gs[m])
  BY <1>1, <1>2 DEF Pieces
<1>5. /\ a \in 1..n /\ b \in 1..n /\ a <= b /\ gs[m - 1] = Run(a, b)
      /\ c \in 1..n /\ c <= n /\ gs[m] = Run(c, n)
  BY <1>3, <1>4, PieceFacts
<1>6. After1(u, b, c, n)
  BY <1>1, <1>2, <1>3 DEF Pieces
<1>7. c = b + 1
  <2>1. c > b
    BY DEF Apart
  <2>. HIDE DEF b, c
  <2>2. c <= b + 1
    BY <1>6 DEF After1
  <2>. QED  BY <1>5, <2>1, <2>2
<1>8. Sum(u, a, b) + Sum(u, c, n) <= MaxTokens
  BY <1>3
<1>9. /\ Pieces(u, start) /\ Len(start) = m - 2
      /\ \A g \in 1..(m - 2) : start[g] = gs[g]
      /\ End(start) = IF m - 2 = 0 THEN 0 ELSE Hi(gs[m - 2])
  <2>. DEFINE k == m - 2
  <2>1. k \in 0..Len(gs) /\ Pieces(u, gs)
    BY <1>1, <1>2
  <2>. HIDE DEF k, m
  <2>2. /\ Pieces(u, SubSeq(gs, 1, k)) /\ Len(SubSeq(gs, 1, k)) = k
        /\ \A g \in 1..k : SubSeq(gs, 1, k)[g] = gs[g]
        /\ End(SubSeq(gs, 1, k)) = IF k = 0 THEN 0 ELSE Hi(gs[k])
    BY <2>1, PiecesStart
  <2>. QED  BY <2>2 DEF k, m
<1>10. start = <<>> => a = 1
  <2>. SUFFICES ASSUME start = <<>> PROVE a = 1
    OBVIOUS
  <2>1. m - 1 = 1
    <3>. HIDE DEF start, m
    <3>1. Len(start) = 0
      OBVIOUS
    <3>2. m - 2 = 0
      BY <1>9, <3>1
    <3>. QED  BY <1>1, <3>2
  <2>. QED  BY <1>1, <2>1 DEF Pieces
<1>11. start # <<>> => After1(u, End(start), a, n)
  <2>. SUFFICES ASSUME start # <<>> PROVE After1(u, End(start), a, n)
    OBVIOUS
  <2>1. m - 2 # 0
    <3>1. Len(start) # 0 
      BY <1>9, EndFacts
    <3>. QED  BY <1>9, <3>1
  <2>2. m - 1 > 1 /\ (m - 1) - 1 = m - 2
    BY <1>1, <2>1
  <2>3. After1(u, Hi(gs[m - 2]), a, b)
    BY <1>1, <1>2, <2>2 DEF Pieces
  <2>4. Hi(gs[m - 2]) \in 1..n
    <3>1. m - 2 \in 1..m
      BY <1>1, <2>2
    <3>2. Piece(u, gs[m - 2])
      BY <1>1, <3>1 DEF Pieces
    <3>. QED  BY <3>2, PieceFacts
  <2>. DEFINE p == Hi(gs[m - 2])
  <2>5. End(start) = p
    BY <1>9, <2>1
  <2>. HIDE DEF a, b, c, p, start
  <2>6. a <= p + 1 /\ Little(u, a, p) /\ (b > p \/ b = p)
    BY <2>3 DEF After1, p
  <2>7. n > p
    BY <1>5, <1>7, <2>4, <2>6 DEF p
  <2>. QED  BY <2>5, <2>6, <2>7 DEF After1
<1>12. gs[m - 1] \o gs[m] = Run(a, n)
  <2>1. a \in Nat \ {0} /\ b \in Nat /\ a <= b + 1 /\ n \in Nat /\ b <= n
    BY <1>1, <1>5
  <2>. HIDE DEF a, b, c, n, m
  <2>2. Run(a, b) \o Run(b + 1, n) = Run(a, n)
    BY <2>1, RunJoins
  <2>. QED  BY <1>5, <1>7, <2>2
<1>13. Fair(u, a, n)
  <2>1. a \in Nat \ {0} /\ b \in 0..n /\ a <= b + 1 /\ n \in b..n
    BY <1>1, <1>5
  <2>. HIDE DEF a, b, c, m
  <2>2. Sum(u, a, n) = Sum(u, a, b) + Sum(u, b + 1, n)
    BY <2>1, SumJoins
  <2>3. Sum(u, a, n) <= MaxTokens
    BY <1>7, <1>8, <2>2
  <2>. QED  BY <2>3 DEF Fair, Small
<1>. DEFINE last == Run(a, n)
            more == Append(start, last)
<1>14. /\ a \in 1..n /\ n \in 1..n /\ a <= n
  BY <1>1, <1>5
<1>. HIDE DEF a, start, more
<1>15. /\ Pieces(u, Append(start, Run(a, n))) /\ End(Append(start, Run(a, n))) = n
       /\ Len(Append(start, Run(a, n))) = Len(start) + 1
       /\ \A g \in 1..Len(start) : Append(start, Run(a, n))[g] = start[g]
       /\ Append(start, Run(a, n))[Len(start) + 1] = Run(a, n) /\ Hi(Run(a, n)) = n
  BY <1>9, <1>10, <1>11, <1>13, <1>14, PieceAdded
<1>16. /\ Pieces(u, more) /\ End(more) = n /\ Len(more) = m - 1
       /\ \A g \in 1..(m - 2) : more[g] = gs[g]
       /\ more[m - 1] = last /\ Hi(last) = n
  <2>1. (m - 2) + 1 = m - 1
    BY <1>1
  <2>. HIDE DEF m, n
  <2>. QED  BY <1>9, <1>15, <2>1 DEF more
<1>17. \A g \in 1..Len(more) : g \in 1..(m - 2) \/ g = m - 1
  BY <1>1, <1>16
<1>18. \A g \in 1..(m - 2) : g \in 1..m
  BY <1>1
<1>19. Whole(u, more)
  <2>. HIDE DEF m, n, last
  <2>. QED  BY <1>1, <1>16, <1>17, <1>18 DEF Whole, n
<1>. QED  BY <1>12, <1>19 DEF more, start

-----------------------------------------------------------------------------
(* The actions in terms of stretches.                                      *)

ChunkInv ==
    /\ units \in Seq(Unit) /\ split \in BOOLEAN
    /\ ~split => \E s \in 1..(Len(units) + 1) :
                   current = Run(s, Len(units)) /\ Filling(units, groups, s)
    /\ split => Whole(units, groups)

LEMMA SizesSum ==
  /\ \A chunk : Size(chunk) = Total(Counts(units, ToSet(chunk)), ToSet(chunk))
  /\ \A chunk : Tokens(chunk) = Total(Counts(units', ToSet(chunk)), ToSet(chunk))
<1>1. ASSUME NEW chunk
      PROVE  Size(chunk) = Total(Counts(units, ToSet(chunk)), ToSet(chunk))
  BY ZenonT(40) DEF Size, MapThenSumSet, MapThenFoldSet, Total, Counts
<1>2. ASSUME NEW chunk
      PROVE  Tokens(chunk) = Total(Counts(units', ToSet(chunk)), ToSet(chunk))
  BY ZenonT(40) DEF Tokens, MapThenSumSet, MapThenFoldSet, Total, Counts
<1>. QED  BY <1>1, <1>2

LEMMA RunSizes ==
  ASSUME NEW a \in Nat \ {0}, NEW b \in Nat, a <= b + 1
  PROVE  Size(Run(a, b)) = Sum(units, a, b) /\ Tokens(Run(a, b)) = Sum(units', a, b)
<1>1. ToSet(Run(a, b)) = a..b
  BY RunFacts
<1>. QED  BY <1>1, SizesSum DEF Sum

(* The situation of a branch: the stretch collected, and a unit more. *)
Collecting(unit, s) ==
    /\ units \in Seq(Unit) /\ unit \in Unit /\ units' = Append(units, unit)
    /\ s \in 1..(Len(units) + 1)
    /\ current = Run(s, Len(units)) /\ Filling(units, groups, s)

LEMMA BodyFacts ==
  ASSUME NEW unit, NEW s, Collecting(unit, s)
  PROVE  \E b \in (s - 1)..Len(units) :
           /\ BodyEnds(units, s, b)
           /\ Body(current) = Run(s, b) /\ Headings(current) = Run(b + 1, Len(units))
           /\ Close(Body(current)) = Shut(groups, s, b)
           /\ Append(Headings(current), Len(units')) = Run(b + 1, Len(units) + 1)
           /\ Headings(current) = <<>> <=> b = Len(units)
<1>. DEFINE n == Len(units)
            m == n - s + 1
            I == {i \in 1..Len(current) : units'[current[i]].kind # "heading"}
            k == Kept(current)
            b == s + k - 1
<1>1. /\ n \in Nat /\ s \in 1..(n + 1) /\ current = Run(s, n) /\ m \in Nat
      /\ units \in Seq(Unit) /\ unit \in Unit /\ units' = Append(units, unit)
  BY DEF Collecting
<1>2. /\ Len(units') = n + 1 /\ \A i \in 1..n : Titles(units', i) <=> Titles(units, i)
  BY <1>1, UnitMore
<1>3. Len(current) = m /\ s \in Nat \ {0} /\ s <= n + 1
  <2>1. s \in Nat \ {0} /\ s <= n + 1
    BY <1>1
  <2>. QED  BY <1>1, <2>1, RunFacts
<1>4. \A i \in 1..m : current[i] = s + i - 1 /\ s + i - 1 \in s..n /\ s + i - 1 \in 1..n
  BY <1>1 DEF Run
<1>5. k = IF I # {} THEN Max(I) ELSE 0
  BY DEF Kept, SelectLastInSeq
<1>. HIDE DEF n, k
<1>6. I = {i \in 1..m : ~Titles(units, s + i - 1)}
  <2>1. \A i \in 1..m : units'[current[i]].kind # "heading" <=> ~Titles(units, s + i - 1)
    BY <1>2, <1>4 DEF Titles
  <2>. QED  BY <1>3, <2>1
<1>. HIDE DEF I, m
<1>7. /\ k \in 0..m
      /\ k > 0 => ~Titles(units, s + k - 1)
      /\ \A i \in 1..m : i > k => Titles(units, s + i - 1)
  <2>1. CASE I = {}
    <3>1. \A i \in 1..m : Titles(units, s + i - 1)
      BY <1>6, <2>1
    <3>2. k = 0
      BY <1>5, <2>1
    <3>3. k \in 0..m /\ ~(k > 0)
      BY <1>1, <3>2
    <3>. QED  BY <3>1, <3>3
  <2>2. CASE I # {}
    <3>1. I \subseteq 1..m /\ IsFiniteSet(1..m)
      BY <1>1, <1>6, CountTo
    <3>2. IsFiniteSet(I) /\ I \subseteq Int
      <4>1. IsFiniteSet(I)
        BY <3>1, FS_Subset
      <4>. QED  BY <3>1, <4>1
    <3>3. k \in I /\ \A i \in I : i <= k
      BY <1>5, <2>2, <3>2, LargestExists
    <3>4. k \in 1..m /\ ~Titles(units, s + k - 1)
      BY <1>6, <3>3
    <3>5. ASSUME NEW i \in 1..m, i > k
          PROVE  Titles(units, s + i - 1)
      <4>1. i \notin I
        BY <3>3, <3>4, <3>5
      <4>. QED  BY <1>6, <4>1
    <3>. QED  BY <1>1, <3>4, <3>5
  <2>. QED  BY <2>1, <2>2
<1>8. b \in (s - 1)..n /\ b \in Nat /\ b <= n /\ b + 1 \in Nat \ {0} /\ s <= b + 1
      /\ b + 1 <= n + 1 /\ b + 1 \in 1..(n + 1)
  BY <1>1, <1>3, <1>7 DEF m
<1>9. BodyEnds(units, s, b)
  <2>1. b >= s => ~Titles(units, b)
    <3>1. b >= s => k > 0
      BY <1>1, <1>7
    <3>. QED  BY <1>7, <3>1
  <2>2. ASSUME NEW i \in (b + 1)..n
        PROVE  Titles(units, i)
    <3>1. i - s + 1 \in 1..m /\ i - s + 1 > k /\ s + (i - s + 1) - 1 = i
      BY <1>1, <1>3, <1>7, <1>8 DEF m
    <3>. QED  BY <1>7, <3>1
  <2>. QED  BY <1>8, <2>1, <2>2 DEF BodyEnds, n
<1>10. Body(current) = Run(s, b)
  <2>1. SubSeq(Run(s, n), 1, k) = Run(s + 1 - 1, s + k - 1)
    <3>1. 1 \in 1..(n - s + 2) /\ k \in (1 - 1)..(n - s + 1)
      BY <1>1, <1>7 DEF m
    <3>. QED  BY <1>1, <1>3, <3>1, RunParts
  <2>2. s + 1 - 1 = s
    BY <1>3
  <2>. QED  BY <1>1, <2>1, <2>2 DEF Body, k
<1>11. Headings(current) = Run(b + 1, n)
  <2>1. SubSeq(Run(s, n), k + 1, m) = Run(s + (k + 1) - 1, s + m - 1)
    <3>1. k + 1 \in 1..(n - s + 2) /\ m \in ((k + 1) - 1)..(n - s + 1)
      BY <1>1, <1>7 DEF m
    <3>. QED  BY <1>1, <1>3, <3>1, RunParts
  <2>2. s + (k + 1) - 1 = b + 1 /\ s + m - 1 = n
    BY <1>1, <1>3, <1>7 DEF m
  <2>. QED  BY <1>1, <1>3, <2>1, <2>2 DEF Headings, k
<1>. HIDE DEF b
<1>12. Close(Body(current)) = Shut(groups, s, b)
  <2>1. Run(s, b) = <<>> <=> s = b + 1
    BY <1>3, <1>8, RunFacts
  <2>2. b < s <=> s = b + 1
    BY <1>3, <1>8
  <2>. QED  BY <1>10, <2>1, <2>2 DEF Close, Shut
<1>13. Append(Headings(current), Len(units')) = Run(b + 1, n + 1)
  <2>. DEFINE a == b + 1
  <2>1. a \in Nat \ {0} /\ a <= n + 1
    BY <1>8
  <2>. HIDE DEF a
  <2>2. Append(Run(a, n), n + 1) = Run(a, n + 1)
    BY <1>1, <2>1, RunGrows
  <2>. QED  BY <1>2, <1>11, <2>2 DEF a
<1>14. Headings(current) = <<>> <=> b = n
  <2>. DEFINE a == b + 1
  <2>1. a \in Nat \ {0} /\ a <= n + 1 /\ (a = n + 1 <=> b = n)
    BY <1>1, <1>8
  <2>. HIDE DEF a
  <2>2. Run(a, n) = <<>> <=> a = n + 1
    BY <1>1, <2>1, RunFacts
  <2>. QED  BY <1>11, <2>1, <2>2 DEF a
<1>. QED  BY <1>8, <1>9, <1>10, <1>11, <1>12, <1>13, <1>14 DEF n

LEMMA OverlapFacts ==
  ASSUME NEW unit, NEW s, Collecting(unit, s), s <= Len(units)
  PROVE  \E o \in s..(Len(units) + 1) :
           /\ Append(Overlap(current), Len(units')) = Run(o, Len(units) + 1)
           /\ \/ o = Len(units) + 1
              \/ Sum(units, o, Len(units)) <= OverlapTokens
              \/ o = Len(units) /\ units[o].tokens < MaxTokens
<1>. DEFINE n == Len(units)
            m == n - s + 1
            From(k) == SubSeq(current, k, Len(current))
            fitting == {k \in DOMAIN current :
                          /\ \A i \in ToSet(From(k)) : units'[i].kind # "item"
                          /\ Tokens(From(k)) <= OverlapTokens}
            last == units'[Last(current)]
<1>1. /\ n \in Nat /\ s \in 1..n /\ current = Run(s, n) /\ m \in Nat /\ m >= 1
      /\ units \in Seq(Unit) /\ unit \in Unit /\ units' = Append(units, unit)
  BY DEF Collecting
<1>2. /\ Len(units') = n + 1 /\ \A i \in 1..n : units'[i] = units[i]
      /\ \A a \in Nat \ {0}, b \in 0..n : Sum(units', a, b) = Sum(units, a, b)
  BY <1>1, UnitMore
<1>3. /\ Len(current) = m /\ s \in Nat \ {0} /\ s <= n + 1 /\ s <= n
      /\ DOMAIN current = 1..m /\ Last(current) = n
  <2>1. s \in Nat \ {0} /\ s <= n + 1 /\ s <= n
    BY <1>1
  <2>. QED  BY <1>1, <2>1, RunFacts
<1>4. \A k \in 1..m : s + k - 1 \in s..n /\ s + k - 1 \in Nat \ {0} /\ s + k - 1 <= n + 1
  BY <1>1
<1>5. ASSUME NEW k \in 1..m
      PROVE  From(k) = Run(s + k - 1, n) /\ Tokens(From(k)) = Sum(units, s + k - 1, n)
  <2>1. SubSeq(Run(s, n), k, m) = Run(s + k - 1, s + m - 1)
    <3>1. k \in 1..(n - s + 2) /\ m \in (k - 1)..(n - s + 1)
      BY <1>1
    <3>. QED  BY <1>1, <1>3, <3>1, RunParts
  <2>2. s + m - 1 = n
    BY <1>1
  <2>3. From(k) = Run(s + k - 1, n)
    BY <1>1, <1>3, <2>1, <2>2
  <2>. DEFINE a == s + k - 1
  <2>4. a \in Nat \ {0} /\ a <= n + 1 /\ n \in 0..n
    BY <1>1, <1>4
  <2>. HIDE DEF a, n
  <2>5. Tokens(Run(a, n)) = Sum(units', a, n) /\ Sum(units', a, n) = Sum(units, a, n)
    BY <1>1, <1>2, <2>4, RunSizes
  <2>. QED  BY <2>3, <2>5 DEF a
<1>6. Overlap(current) = IF OverlapTokens = 0 THEN <<>>
                         ELSE IF fitting # {} THEN From(Min(fitting))
                         ELSE IF last.kind = "sentence" /\ last.tokens < MaxTokens
                         THEN From(Len(current))
                         ELSE <<>>
  BY DEF Overlap
<1>7. \E o \in s..(n + 1) :
        /\ Overlap(current) = Run(o, n)
        /\ \/ o = n + 1 \/ Sum(units, o, n) <= OverlapTokens
           \/ o = n /\ units[o].tokens < MaxTokens
  <2>1. CASE Overlap(current) = <<>>
    <3>1. n + 1 \in s..(n + 1) /\ n + 1 \in Nat \ {0} /\ n + 1 <= n + 1
      BY <1>1
    <3>2. Run(n + 1, n) = <<>>
      BY <1>1, <3>1, RunFacts
    <3>. QED  BY <2>1, <3>1, <3>2
  <2>2. CASE Overlap(current) # <<>> /\ fitting # {}
    <3>. DEFINE k == Min(fitting)
    <3>1. Overlap(current) = From(k)
      BY <1>6, <2>2
    <3>2. fitting \subseteq 1..m /\ IsFiniteSet(1..m)
      BY <1>1, <1>3, CountTo
    <3>3. IsFiniteSet(fitting) /\ fitting \subseteq Int
      <4>. HIDE DEF fitting
      <4>1. IsFiniteSet(fitting)
        BY <3>2, FS_Subset
      <4>. QED  BY <3>2, <4>1
    <3>4. k \in fitting
      <4>. HIDE DEF fitting
      <4>. QED  BY <2>2, <3>3, SmallestExists
    <3>5. k \in 1..m /\ Tokens(From(k)) <= OverlapTokens
      BY <3>2, <3>4
    <3>. HIDE DEF k, fitting, From, m, n
    <3>6. s + k - 1 \in s..(n + 1)
      BY <1>1, <1>4, <3>5
    <3>. QED  BY <1>5, <3>1, <3>5, <3>6
  <2>3. CASE Overlap(current) # <<>> /\ fitting = {}
    <3>1. Overlap(current) = From(m) /\ last.tokens < MaxTokens
      BY <1>3, <1>6, <2>3
    <3>2. s + m - 1 = n /\ m \in 1..m /\ n \in 1..n /\ n \in s..(n + 1)
      BY <1>1
    <3>3. last = units[n]
      BY <1>2, <1>3, <3>2
    <3>. HIDE DEF From, m, n, last
    <3>4. Overlap(current) = Run(n, n)
      BY <1>5, <3>1, <3>2
    <3>. QED  BY <3>1, <3>2, <3>3, <3>4
  <2>. QED  BY <2>1, <2>2, <2>3
<1>8. PICK o \in s..(n + 1) :
        /\ Overlap(current) = Run(o, n)
        /\ \/ o = n + 1 \/ Sum(units, o, n) <= OverlapTokens
           \/ o = n /\ units[o].tokens < MaxTokens
  BY <1>7
<1>9. o \in Nat \ {0} /\ o <= n + 1
  BY <1>1
<1>. HIDE DEF n
<1>10. Append(Run(o, n), n + 1) = Run(o, n + 1)
  BY <1>1, <1>9, RunGrows
<1>11. Append(Overlap(current), Len(units')) = Run(o, n + 1)
  BY <1>2, <1>8, <1>10
<1>. QED  BY <1>8, <1>11 DEF n

-----------------------------------------------------------------------------
(* Each branch keeps the invariant.                                        *)

LEMMA ReadCollects ==
  ASSUME ChunkInv, NEW unit \in Unit, Read(unit)
  PROVE  /\ ~split /\ split' = split
         /\ \E s : Collecting(unit, s)
<1>1. /\ ~split /\ units' = Append(units, unit) /\ split' = split
  BY DEF Read
<1>. QED  BY <1>1 DEF ChunkInv, Collecting

(* What a branch has to show. *)
LEMMA Collected ==
  ASSUME NEW unit, NEW s, Collecting(unit, s), split = FALSE, split' = FALSE,
         NEW o \in 1..(Len(units) + 2),
         current' = Run(o, Len(units) + 1), Filling(Append(units, unit), groups', o)
  PROVE  ChunkInv'
<1>1. units' = Append(units, unit) /\ Len(units') = Len(units) + 1 /\ units' \in Seq(Unit)
      /\ Len(units) \in Nat
  BY UnitMore DEF Collecting
<1>2. o \in 1..(Len(units') + 1) /\ current' = Run(o, Len(units')) /\ Filling(units', groups', o)
  BY <1>1
<1>. QED  BY <1>1, <1>2 DEF ChunkInv

LEMMA OversizedKeeps ==
  ASSUME ChunkInv, NEW unit \in Unit, Oversized(unit)
  PROVE  ChunkInv'
<1>1. /\ Read(unit) /\ unit.tokens >= MaxTokens
      /\ groups' = Append(Close(Body(current)), Append(Headings(current), Len(units')))
      /\ current' = <<>>
  BY DEF Oversized
<1>2. ~split /\ split' = split
  BY <1>1, ReadCollects
<1>3. PICK s : Collecting(unit, s)
  BY <1>1, ReadCollects
<1>4. PICK b \in (s - 1)..Len(units) :
        /\ BodyEnds(units, s, b)
        /\ Close(Body(current)) = Shut(groups, s, b)
        /\ Append(Headings(current), Len(units')) = Run(b + 1, Len(units) + 1)
  BY <1>3, BodyFacts
<1>5. Filling(Append(units, unit), groups', Len(units) + 2)
  BY <1>1, <1>3, <1>4, FillOversized DEF Collecting
<1>6. Len(units) \in Nat /\ Len(units) + 2 \in 1..(Len(units) + 2)
      /\ Len(units) + 2 = (Len(units) + 1) + 1 /\ Len(units) + 2 \in Nat \ {0}
  BY <1>3 DEF Collecting
<1>7. current' = Run(Len(units) + 2, Len(units) + 1)
  <2>. DEFINE a == Len(units) + 2
              c == Len(units) + 1
  <2>1. a \in Nat \ {0} /\ c \in Nat /\ a <= c + 1 /\ a = c + 1
    BY <1>6
  <2>. HIDE DEF a, c
  <2>2. Run(a, c) = <<>>
    BY <2>1, RunFacts
  <2>. QED  BY <1>1, <2>2 DEF a, c
<1>8. split = FALSE /\ split' = FALSE
  BY <1>2 DEF ChunkInv
<1>. QED  BY <1>3, <1>5, <1>6, <1>7, <1>8, Collected

LEMMA FitsKeeps ==
  ASSUME ChunkInv, NEW unit \in Unit, Fits(unit)
  PROVE  ChunkInv'
<1>1. /\ Read(unit) /\ unit.tokens < MaxTokens /\ ~Overflows(unit)
      /\ current' = Append(current, Len(units')) /\ groups' = groups
  BY DEF Fits
<1>2. ~split /\ split' = split
  BY <1>1, ReadCollects
<1>3. PICK s : Collecting(unit, s)
  BY <1>1, ReadCollects
<1>. DEFINE n == Len(units)
<1>4. /\ n \in Nat /\ s \in 1..(n + 1) /\ current = Run(s, n) /\ units \in Seq(Unit)
      /\ units' = Append(units, unit) /\ Filling(units, groups, s)
      /\ s \in Nat \ {0} /\ s <= n + 1 /\ n \in 0..n
  BY <1>3 DEF Collecting
<1>5. Len(units') = n + 1 /\ unit.tokens \in Nat
      /\ \A a \in Nat \ {0}, b \in 0..n : Sum(units', a, b) = Sum(units, a, b)
  BY <1>4, UnitMore
<1>. HIDE DEF n
<1>6. Tokens(current) = Sum(units, s, n) /\ Sum(units, s, n) \in Nat
  <2>1. Tokens(Run(s, n)) = Sum(units', s, n)
    BY <1>4, RunSizes
  <2>2. Sum(units, s, n) \in Nat
    BY <1>4, SumFacts DEF n
  <2>. QED  BY <1>4, <1>5, <2>1, <2>2
<1>7. s = n + 1 \/ Sum(units, s, n) + unit.tokens <= MaxTokens
  <2>1. s = n + 1 <=> current = <<>>
    BY <1>4, RunFacts
  <2>. QED  BY <1>1, <1>5, <1>6, <2>1, ChunkingAssumption DEF Overflows, ValidConfig
<1>8. Filling(Append(units, unit), groups', s)
  BY <1>1, <1>4, <1>7, FillFits DEF n
<1>9. current' = Run(s, n + 1) /\ s \in 1..(n + 2)
  <2>1. Append(Run(s, n), n + 1) = Run(s, n + 1)
    BY <1>4, RunGrows
  <2>2. s \in 1..(n + 2)
    BY <1>4
  <2>. QED  BY <1>1, <1>4, <1>5, <2>1, <2>2
<1>10. split = FALSE /\ split' = FALSE
  BY <1>2 DEF ChunkInv
<1>. QED  BY <1>3, <1>8, <1>9, <1>10, Collected DEF n

LEMMA CarryHeadingsKeeps ==
  ASSUME ChunkInv, NEW unit \in Unit, CarryHeadings(unit)
  PROVE  ChunkInv'
<1>1. /\ Read(unit) /\ Headings(current) # <<>>
      /\ groups' = Close(Body(current))
      /\ current' = Append(Headings(current), Len(units'))
  BY DEF CarryHeadings
<1>2. ~split /\ split' = split
  BY <1>1, ReadCollects
<1>3. PICK s : Collecting(unit, s)
  BY <1>1, ReadCollects
<1>4. PICK b \in (s - 1)..Len(units) :
        /\ BodyEnds(units, s, b)
        /\ Close(Body(current)) = Shut(groups, s, b)
        /\ Append(Headings(current), Len(units')) = Run(b + 1, Len(units) + 1)
        /\ Headings(current) = <<>> <=> b = Len(units)
  BY <1>3, BodyFacts
<1>5. Len(units) \in Nat /\ s \in 1..(Len(units) + 1)
  BY <1>3 DEF Collecting
<1>6. b < Len(units) /\ b + 1 \in 1..(Len(units) + 2)
  BY <1>1, <1>4, <1>5
<1>7. Filling(Append(units, unit), groups', b + 1)
  BY <1>1, <1>3, <1>4, <1>6, FillCarry DEF Collecting
<1>8. split = FALSE /\ split' = FALSE
  BY <1>2 DEF ChunkInv
<1>. QED  BY <1>1, <1>3, <1>4, <1>6, <1>7, <1>8, Collected

LEMMA StartNextKeeps ==
  ASSUME ChunkInv, NEW unit \in Unit, StartNext(unit)
  PROVE  ChunkInv'
<1>1. /\ Read(unit) /\ Headings(current) = <<>> /\ Overflows(unit)
      /\ groups' = Close(current)
      /\ current' = Append(Overlap(current), Len(units'))
  BY DEF StartNext
<1>2. ~split /\ split' = split
  BY <1>1, ReadCollects
<1>3. PICK s : Collecting(unit, s)
  BY <1>1, ReadCollects
<1>. DEFINE n == Len(units)
<1>4. /\ n \in Nat /\ s \in 1..(n + 1) /\ current = Run(s, n) /\ units \in Seq(Unit)
      /\ units' = Append(units, unit) /\ Filling(units, groups, s)
      /\ s \in Nat \ {0} /\ s <= n + 1 /\ n \in 0..n
  BY <1>3 DEF Collecting
<1>5. unit.tokens \in Nat
      /\ \A a \in Nat \ {0}, b \in 0..n : Sum(units', a, b) = Sum(units, a, b)
  BY <1>4, UnitMore
<1>6. PICK b \in (s - 1)..n :
        /\ BodyEnds(units, s, b)
        /\ Headings(current) = <<>> <=> b = n
  BY <1>3, BodyFacts
<1>. HIDE DEF n
<1>7. s <= n
  <2>1. s = n + 1 <=> current = <<>>
    BY <1>4, RunFacts
  <2>. QED  BY <1>1, <1>4, <2>1 DEF Overflows
<1>8. ~Titles(units, n)
  BY <1>1, <1>6, <1>7 DEF BodyEnds
<1>9. unit.tokens < MaxTokens /\ Sum(units, s, n) + unit.tokens > MaxTokens
  <2>1. Tokens(Run(s, n)) = Sum(units', s, n)
    BY <1>4, RunSizes
  <2>. QED  BY <1>1, <1>4, <1>5, <2>1 DEF Overflows
<1>10. PICK o \in s..(n + 1) :
         /\ Append(Overlap(current), Len(units')) = Run(o, n + 1)
         /\ \/ o = n + 1
            \/ Sum(units, o, n) <= OverlapTokens
            \/ o = n /\ units[o].tokens < MaxTokens
  BY <1>3, <1>7, OverlapFacts DEF n
<1>11. Filling(Append(units, unit), Append(groups, Run(s, n)), o)
  BY <1>4, <1>7, <1>8, <1>9, <1>10, FillNext DEF n
<1>12. groups' = Append(groups, Run(s, n))
  BY <1>1, <1>4 DEF Close, Overflows
<1>13. o \in 1..(n + 2)
  BY <1>4
<1>14. split = FALSE /\ split' = FALSE
  BY <1>2 DEF ChunkInv
<1>. QED  BY <1>1, <1>3, <1>10, <1>11, <1>12, <1>13, <1>14, Collected DEF n

LEMMA FinishKeeps ==
  ASSUME ChunkInv, Finish
  PROVE  ChunkInv'
<1>1. /\ ~split /\ split' = TRUE /\ units' = units
      /\ groups' = Folded(Close(current))
  BY DEF Finish
<1>2. units \in Seq(Unit) /\ Len(units) \in Nat
  BY DEF ChunkInv
<1>3. PICK s \in 1..(Len(units) + 1) :
        current = Run(s, Len(units)) /\ Filling(units, groups, s)
  BY <1>1 DEF ChunkInv
<1>. DEFINE n == Len(units)
            G == Ended(units, groups, s)
<1>4. Close(current) = G
  <2>1. s \in Nat \ {0} /\ s <= n + 1 /\ (s > n <=> s = n + 1)
    BY <1>2
  <2>2. current = <<>> <=> s = n + 1
    BY <1>2, <1>3, <2>1, RunFacts
  <2>. QED  BY <1>3, <2>1, <2>2 DEF Close, Ended
<1>5. /\ Whole(units, G)
      /\ \/ Apart(G)
         \/ /\ Len(G) > 1
            /\ Sum(units, Lo(G[Len(G) - 1]), Hi(G[Len(G) - 1]))
                 + Sum(units, Lo(G[Len(G)]), Hi(G[Len(G)])) > MaxTokens
  BY <1>2, <1>3, EndedWhole
<1>. HIDE DEF G, n
<1>. DEFINE m == Len(G)
            folded == Append(SubSeq(G, 1, m - 2), G[m - 1] \o G[m])
<1>6. m \in Nat /\ Pieces(units, G)
  BY <1>2, <1>5, EndFacts DEF Whole
<1>7. CASE groups' = G
  BY <1>1, <1>2, <1>5, <1>7 DEF ChunkInv
<1>8. CASE groups' # G
  <2>1. m >= 2 /\ groups' = folded /\ Tokens(G[m - 1]) + Tokens(G[m]) <= MaxTokens
    BY <1>1, <1>4, <1>8 DEF Folded
  <2>2. m - 1 \in 1..m /\ m \in 1..m /\ m > 1
    BY <1>6, <2>1
  <2>3. ASSUME NEW g \in 1..m
        PROVE  /\ Tokens(G[g]) = Sum(units, Lo(G[g]), Hi(G[g]))
               /\ Sum(units, Lo(G[g]), Hi(G[g])) \in Nat
    <3>1. Piece(units, G[g])
      BY <1>6 DEF Pieces
    <3>. DEFINE a == Lo(G[g])
                b == Hi(G[g])
    <3>2. /\ a \in 1..n /\ b \in 1..n /\ a <= b /\ G[g] = Run(a, b)
      BY <1>2, <3>1, PieceFacts DEF n
    <3>. HIDE DEF a, b
    <3>3. a \in Nat \ {0} /\ b \in Nat /\ a <= b + 1 /\ b \in 0..n
      BY <1>2, <3>2 DEF n
    <3>4. Tokens(Run(a, b)) = Sum(units', a, b)
      BY <3>3, RunSizes
    <3>5. Sum(units, a, b) \in Nat
      BY <1>2, <3>3, SumFacts DEF n
    <3>. QED  BY <1>1, <3>2, <3>4, <3>5 DEF a, b
  <2>4. Sum(units, Lo(G[m - 1]), Hi(G[m - 1])) + Sum(units, Lo(G[m]), Hi(G[m])) <= MaxTokens
    <3>. HIDE DEF m
    <3>. QED  BY <2>1, <2>2, <2>3
  <2>5. Apart(G)
    <3>1. Sum(units, Lo(G[m - 1]), Hi(G[m - 1])) \in Nat
          /\ Sum(units, Lo(G[m]), Hi(G[m])) \in Nat
      <4>. HIDE DEF m
      <4>. QED  BY <2>2, <2>3
    <3>. QED  BY <1>5, <2>4, <3>1, ChunkingAssumption DEF ValidConfig
  <2>6. Whole(units, folded)
    BY <1>2, <1>5, <2>2, <2>4, <2>5, FoldedWhole
  <2>. QED  BY <1>1, <1>2, <2>1, <2>6 DEF ChunkInv
<1>. QED  BY <1>7, <1>8

LEMMA ChunkInductive == ChunkSpec => []ChunkInv
<1>1. ChunkInit => ChunkInv
  <2>. SUFFICES ASSUME ChunkInit PROVE ChunkInv
    OBVIOUS
  <2>1. units = <<>> /\ groups = <<>> /\ current = <<>> /\ split = FALSE
    BY DEF ChunkInit
  <2>2. Run(1, 0) = <<>>
    BY RunFacts
  <2>3. units \in Seq(Unit) /\ Len(units) = 0
    BY <2>1
  <2>4. Pieces(units, groups) /\ Bodied(units, groups) /\ End(groups) = 0
    BY <2>1 DEF Pieces, Bodied, End
  <2>5. Little(units, 1, 0)
    <3>1. Sum(units, 1, 0) = 0
      <4>1. 1..0 = {}
        OBVIOUS
      <4>. QED  BY <4>1, TotalEmpty DEF Sum
    <3>. QED  BY <3>1, ChunkingAssumption DEF Little, ValidConfig
  <2>6. Filling(units, groups, 1)
    BY <2>1, <2>3, <2>4, <2>5 DEF Filling
  <2>7. 1 \in 1..(Len(units) + 1) /\ current = Run(1, Len(units))
    BY <2>1, <2>2, <2>3
  <2>. QED  BY <2>1, <2>3, <2>6, <2>7 DEF ChunkInv
<1>2. ChunkInv /\ [ChunkNext]_chunkVars => ChunkInv'
  <2>. SUFFICES ASSUME ChunkInv, [ChunkNext]_chunkVars PROVE ChunkInv'
    OBVIOUS
  <2>1. CASE \E unit \in [kind : Kinds, tokens : UnitTokens] :
               Oversized(unit) \/ Fits(unit) \/ CarryHeadings(unit) \/ StartNext(unit)
    BY <2>1, OversizedKeeps, FitsKeeps, CarryHeadingsKeeps, StartNextKeeps DEF Unit
  <2>2. CASE Finish
    BY <2>2, FinishKeeps
  <2>3. CASE UNCHANGED chunkVars
    BY <2>3 DEF chunkVars, ChunkInv
  <2>. QED  BY <2>1, <2>2, <2>3 DEF ChunkNext
<1>. QED  BY <1>1, <1>2, PTL DEF ChunkSpec

(* Whatever the headings, the sizes of the sentences and the bounds, a     *)
(* document that has been chunked is whole: no unit is lost or moved,      *)
(* chunks overlap by no more than they may, and none is too long but for a *)
(* heading or a single unit.  SemanticChunker._group and its helpers.      *)
THEOREM DocumentChunked == ChunkSpec => []ChunksWhole
<1>1. ChunkInv => ChunksWhole
  <2>. SUFFICES ASSUME ChunkInv, split PROVE ChunksWhole
    BY DEF ChunksWhole
  <2>. DEFINE n == Len(units)
  <2>1. /\ units \in Seq(Unit) /\ n \in Nat /\ Pieces(units, groups) /\ End(groups) = n
        /\ \A g \in 1..Len(groups) :
             Titles(units, Hi(groups[g])) =>
               Hi(groups[g]) = n \/ units[Hi(groups[g])].tokens >= MaxTokens
    BY DEF ChunkInv, Whole
  <2>2. Len(groups) \in Nat /\ groups \in Seq(Seq(Nat)) /\ DOMAIN groups = 1..Len(groups)
    BY <2>1, EndFacts
  <2>3. ASSUME NEW g \in 1..Len(groups)
        PROVE  /\ groups[g] = [k \in 1..Len(groups[g]) |-> Head(groups[g]) + k - 1]
               /\ Head(groups[g]) = Lo(groups[g]) /\ Last(groups[g]) = Hi(groups[g])
               /\ Lo(groups[g]) \in 1..n /\ Hi(groups[g]) \in 1..n
               /\ \/ Size(groups[g]) <= MaxTokens \/ Size(groups[g]) <= 2 * MaxTokens - 2
                  \/ \E i \in ToSet(groups[g]) : Heading(i)
                  \/ Len(groups[g]) = 1
    <3>. DEFINE chunk == groups[g]
                a == Lo(chunk)
                b == Hi(chunk)
    <3>1. Piece(units, chunk)
      BY <2>1 DEF Pieces
    <3>2. a \in 1..n /\ b \in 1..n /\ a <= b /\ chunk = Run(a, b) /\ Fair(units, a, b)
      BY <2>1, <3>1, PieceFacts
    <3>. HIDE DEF a, b, n, chunk
    <3>3. a \in Nat \ {0} /\ b \in Nat /\ a <= b + 1
      BY <3>2
    <3>4. /\ Len(chunk) = b - a + 1 /\ Head(chunk) = a /\ Last(chunk) = b
          /\ ToSet(chunk) = a..b /\ Size(chunk) = Sum(units, a, b)
      BY <3>2, <3>3, RunFacts, RunSizes
    <3>5. chunk = [k \in 1..Len(chunk) |-> Head(chunk) + k - 1]
      BY <3>2, <3>4 DEF Run
    <3>6. \/ Size(chunk) <= MaxTokens \/ Size(chunk) <= 2 * MaxTokens - 2
          \/ \E i \in ToSet(chunk) : Heading(i)
          \/ Len(chunk) = 1
      BY <3>2, <3>3, <3>4 DEF Fair, Small, Titles, Heading
    <3>. QED  BY <3>2, <3>4, <3>5, <3>6 DEF a, b, chunk
  <2>4. ASSUME NEW g \in 1..Len(groups), g > 1
        PROVE  /\ Head(groups[g]) <= Last(groups[g - 1]) + 1
               /\ \/ Last(groups[g]) > Last(groups[g - 1])
                  \/ Last(groups[g]) = Last(groups[g - 1]) /\ Heading(Last(groups[g]) + 1)
               /\ LET shared == Head(groups[g])..Last(groups[g - 1])
                  IN  \/ MapThenSumSet(LAMBDA i : units[i].tokens, shared) <= OverlapTokens
                      \/ Cardinality(shared) = 1
    <3>1. g - 1 \in 1..Len(groups)
      BY <2>2, <2>4
    <3>. DEFINE a == Lo(groups[g])
                b == Hi(groups[g])
                e == Hi(groups[g - 1])
                shared == a..e
    <3>2. Head(groups[g]) = a /\ Last(groups[g]) = b /\ Last(groups[g - 1]) = e
          /\ a \in 1..n /\ e \in 1..n
      BY <2>3, <3>1
    <3>3. After1(units, e, a, b)
      BY <2>1, <2>4 DEF Pieces
    <3>. HIDE DEF a, b, e
    <3>4. MapThenSumSet(LAMBDA i : units[i].tokens, shared) = Sum(units, a, e)
      BY DEF MapThenSumSet, MapThenFoldSet, Sum, Total, Counts
    <3>5. a = e => Cardinality(shared) = 1
      <4>1. a = e => shared = {a}
        BY <3>2
      <4>. QED  BY <4>1, FS_Singleton
    <3>. QED  BY <3>2, <3>3, <3>4, <3>5 DEF After1, Little, Titles, Heading
  <2>5. ASSUME NEW g \in 1..Len(groups), Heading(Last(groups[g]))
        PROVE  Last(groups[g]) = n \/ units[Last(groups[g])].tokens >= MaxTokens
    BY <2>1, <2>3, <2>5 DEF Titles, Heading
  <2>6. ASSUME NEW g \in 1..Len(groups), g = 1
        PROVE  Head(groups[g]) = 1
    BY <2>1, <2>2, <2>3, <2>6 DEF Pieces
  <2>7. units # <<>> => groups # <<>> /\ Last(Last(groups)) = n
    <3>. SUFFICES ASSUME units # <<>> PROVE groups # <<>> /\ Last(Last(groups)) = n
      OBVIOUS
    <3>1. n # 0
      BY <2>1
    <3>2. groups # <<>> /\ End(groups) = Hi(groups[Len(groups)])
      BY <2>1, <3>1, EndFacts
    <3>3. Len(groups) \in 1..Len(groups) /\ Last(groups) = groups[Len(groups)]
      BY <2>2, <3>2 DEF Last
    <3>. QED  BY <2>1, <2>3, <3>2, <3>3
  <2>. QED  BY <2>2, <2>3, <2>4, <2>5, <2>6, <2>7 DEF ChunksWhole
<1>. QED  BY <1>1, ChunkInductive, PTL

-----------------------------------------------------------------------------
(***************************************************************************)
(* The answer pipeline.  AnswerInv says of each stage which chunks are     *)
(* left, why one that is not has gone (LeftInv), and whether what is left  *)
(* has been through the check of its home yet (SafeInv).                   *)
(***************************************************************************)

AnswerSpec == AnswerInit /\ [][AnswerNext]_answerVars

-----------------------------------------------------------------------------
(* Types, and the orders chunks are sorted in.                             *)

Stages == {"generate", "rank", "deduplicate", "diversify", "assemble", "validate",
           "authorize", "rerank", "collapse", "select", "build", "answered"}

AnswerTyped ==
    /\ store \in [Chunks -> [doc : Docs, text : Texts, near : Near, home : BOOLEAN]]
    /\ options \in Options
    /\ stage \in Stages
    /\ list \in Seq(Chunks) /\ quoted \in Seq(Chunks) /\ context \in Seq(Chunks)
    /\ scored \subseteq Chunks

StoreTyped == store \in [Chunks -> [doc : Docs, text : Texts, near : Near, home : BOOLEAN]]

Pairs == Chunks \X Chunks
NearerFirst == {pair \in Pairs : Nearer(pair[1], pair[2])}
RankedFirst == {pair \in Pairs : Ranked(pair[1], pair[2])}
RetrievedFirst == {pair \in Pairs : ByRetrieval(pair[1], pair[2])}
FinalFirst(W) == {pair \in Pairs : FinalIn(W, pair[1], pair[2])}

LEMMA ChunkFacts ==
  ASSUME StoreTyped, NEW c \in Chunks
  PROVE  /\ c \in Int /\ store[c].near \in Int /\ store[c].doc \in Int
         /\ store[c].text \in Texts /\ store[c].doc \in Docs /\ store[c].home \in BOOLEAN
         /\ Score(c) \in Int
         /\ \A W : EffectiveIn(W, c) \in Int
<1>1. /\ store[c].doc \in Docs /\ store[c].near \in Near /\ store[c].text \in Texts
      /\ store[c].home \in BOOLEAN
  BY DEF StoreTyped
<1>2. c \in Int /\ store[c].near \in Int /\ store[c].doc \in Int
  <2>1. Docs \subseteq Int /\ Near \subseteq Int /\ Chunks \subseteq Int
    BY OptionsAssumption
  <2>. QED  BY <1>1, <2>1
<1>3. Hit(c) \in Int
  BY DEF Hit
<1>4. Score(c) \in Int
  BY <1>2, <1>3 DEF Score
<1>5. \A W : EffectiveIn(W, c) \in Int
  BY <1>3, <1>4 DEF EffectiveIn, RerankScore
<1>. QED  BY <1>1, <1>2, <1>4, <1>5

LEMMA Numbered ==
  ASSUME NEW S, S \subseteq Chunks
  PROVE  IsFiniteSet(S) /\ Cardinality(S) \in Nat
  BY OptionsAssumption, FS_Subset, FS_CardinalityType

LEMMA NearerOrders ==
  ASSUME StoreTyped, NEW S, S \subseteq Chunks
  PROVE  Orders(NearerFirst, S)
<1>1. \A c \in S : c \in Int /\ store[c].near \in Int
  BY ChunkFacts
<1>2. \A c, d \in S : <<c, d>> \in NearerFirst <=> Nearer(c, d)
  BY DEF NearerFirst, Pairs
<1>. QED  BY <1>1, <1>2 DEF Orders, Nearer

LEMMA RankedOrders ==
  ASSUME StoreTyped, NEW S, S \subseteq Chunks
  PROVE  Orders(RankedFirst, S)
<1>1. \A c \in S : c \in Int /\ Score(c) \in Int
  BY ChunkFacts
<1>2. \A c, d \in S : <<c, d>> \in RankedFirst <=> Ranked(c, d)
  BY DEF RankedFirst, Pairs
<1>. QED  BY <1>1, <1>2 DEF Orders, Ranked

LEMMA RetrievalOrders ==
  ASSUME StoreTyped, NEW S, S \subseteq Chunks
  PROVE  Orders(RetrievedFirst, S)
<1>1. \A c \in S : c \in Int /\ Score(c) \in Int /\ store[c].doc \in Int
  BY ChunkFacts
<1>2. \A c, d \in S : <<c, d>> \in RetrievedFirst <=> ByRetrieval(c, d)
  BY DEF RetrievedFirst, Pairs
<1>. QED  BY <1>1, <1>2 DEF Orders, ByRetrieval, InDocument

LEMMA FinalOrders ==
  ASSUME StoreTyped, NEW W, NEW S, S \subseteq Chunks
  PROVE  Orders(FinalFirst(W), S)
<1>1. \A c \in S : EffectiveIn(W, c) \in Int
  BY ChunkFacts
<1>2. \A c, d \in S : <<c, d>> \in FinalFirst(W) <=> FinalIn(W, c, d)
  BY DEF FinalFirst, Pairs
<1>3. /\ \A a \in S : ~ByRetrieval(a, a)
      /\ \A a, b \in S : a # b => ByRetrieval(a, b) \/ ByRetrieval(b, a)
      /\ \A a, b, c \in S : ByRetrieval(a, b) /\ ByRetrieval(b, c) => ByRetrieval(a, c)
  <2>1. \A c, d \in S : <<c, d>> \in RetrievedFirst <=> ByRetrieval(c, d)
    BY DEF RetrievedFirst, Pairs
  <2>. QED  BY <2>1, RetrievalOrders DEF Orders
<1>. QED  BY <1>1, <1>2, <1>3 DEF Orders, FinalIn

(* What is sorted in one of these orders. *)
NearerList(S) ==
    [k \in 1..Cardinality(S) |-> CHOOSE c \in S : Cardinality({d \in S : Nearer(d, c)}) = k - 1]
RankedList(S) ==
    [k \in 1..Cardinality(S) |-> CHOOSE c \in S : Cardinality({d \in S : Ranked(d, c)}) = k - 1]
RetrievalList(S) ==
    [k \in 1..Cardinality(S) |-> CHOOSE c \in S : Cardinality({d \in S : ByRetrieval(d, c)}) = k - 1]
FinalList(W, S) ==
    [k \in 1..Cardinality(S) |-> CHOOSE c \in S : Cardinality({d \in S : FinalIn(W, d, c)}) = k - 1]

LEMMA NearerBest ==
  ASSUME StoreTyped, NEW S, S \subseteq Chunks, NEW n \in Nat
  PROVE  BestOf(Top(n, NearerList(S)), n, NearerFirst, S)
<1>1. IsFiniteSet(S) /\ Orders(NearerFirst, S)
  BY Numbered, NearerOrders
<1>2. \A c \in S : Ahead(NearerFirst, S, c) = {d \in S : Nearer(d, c)}
  BY DEF Ahead, NearerFirst, Pairs
<1>3. ASSUME NEW k \in 1..Cardinality(S)
      PROVE  NearerList(S)[k] \in S /\ Cardinality(Ahead(NearerFirst, S, NearerList(S)[k])) = k - 1
  <2>1. PICK c \in S : Cardinality(Ahead(NearerFirst, S, c)) = k - 1
    BY <1>1, RankTaken
  <2>2. \E b \in S : Cardinality({d \in S : Nearer(d, b)}) = k - 1
    BY <1>2, <2>1
  <2>3. NearerList(S)[k] = CHOOSE b \in S : Cardinality({d \in S : Nearer(d, b)}) = k - 1
    BY DEF NearerList
  <2>4. NearerList(S)[k] \in S /\ Cardinality({d \in S : Nearer(d, NearerList(S)[k])}) = k - 1
    BY <2>2, <2>3
  <2>. QED  BY <1>2, <2>4
<1>4. NearerList(S) \in [1..Cardinality(S) -> S]
  BY <1>3 DEF NearerList
<1>5. Lists(NearerFirst, S, NearerList(S))
  BY <1>1, <1>3, <1>4, RankedLists
<1>. QED  BY <1>1, <1>5, BestOfTop

LEMMA RankedBest ==
  ASSUME StoreTyped, NEW S, S \subseteq Chunks, NEW n \in Nat
  PROVE  BestOf(Top(n, RankedList(S)), n, RankedFirst, S)
<1>1. IsFiniteSet(S) /\ Orders(RankedFirst, S)
  BY Numbered, RankedOrders
<1>2. \A c \in S : Ahead(RankedFirst, S, c) = {d \in S : Ranked(d, c)}
  BY DEF Ahead, RankedFirst, Pairs
<1>3. ASSUME NEW k \in 1..Cardinality(S)
      PROVE  RankedList(S)[k] \in S /\ Cardinality(Ahead(RankedFirst, S, RankedList(S)[k])) = k - 1
  <2>1. PICK c \in S : Cardinality(Ahead(RankedFirst, S, c)) = k - 1
    BY <1>1, RankTaken
  <2>2. \E b \in S : Cardinality({d \in S : Ranked(d, b)}) = k - 1
    BY <1>2, <2>1
  <2>3. RankedList(S)[k] = CHOOSE b \in S : Cardinality({d \in S : Ranked(d, b)}) = k - 1
    BY DEF RankedList
  <2>4. RankedList(S)[k] \in S /\ Cardinality({d \in S : Ranked(d, RankedList(S)[k])}) = k - 1
    BY <2>2, <2>3
  <2>. QED  BY <1>2, <2>4
<1>4. RankedList(S) \in [1..Cardinality(S) -> S]
  BY <1>3 DEF RankedList
<1>5. Lists(RankedFirst, S, RankedList(S))
  BY <1>1, <1>3, <1>4, RankedLists
<1>. QED  BY <1>1, <1>5, BestOfTop

LEMMA RetrievalBest ==
  ASSUME StoreTyped, NEW S, S \subseteq Chunks, NEW n \in Nat
  PROVE  BestOf(Top(n, RetrievalList(S)), n, RetrievedFirst, S)
<1>1. IsFiniteSet(S) /\ Orders(RetrievedFirst, S)
  BY Numbered, RetrievalOrders
<1>2. \A c \in S : Ahead(RetrievedFirst, S, c) = {d \in S : ByRetrieval(d, c)}
  BY DEF Ahead, RetrievedFirst, Pairs
<1>3. ASSUME NEW k \in 1..Cardinality(S)
      PROVE  RetrievalList(S)[k] \in S /\ Cardinality(Ahead(RetrievedFirst, S, RetrievalList(S)[k])) = k - 1
  <2>1. PICK c \in S : Cardinality(Ahead(RetrievedFirst, S, c)) = k - 1
    BY <1>1, RankTaken
  <2>2. \E b \in S : Cardinality({d \in S : ByRetrieval(d, b)}) = k - 1
    BY <1>2, <2>1
  <2>3. RetrievalList(S)[k] = CHOOSE b \in S : Cardinality({d \in S : ByRetrieval(d, b)}) = k - 1
    BY DEF RetrievalList
  <2>4. RetrievalList(S)[k] \in S /\ Cardinality({d \in S : ByRetrieval(d, RetrievalList(S)[k])}) = k - 1
    BY <2>2, <2>3
  <2>. QED  BY <1>2, <2>4
<1>4. RetrievalList(S) \in [1..Cardinality(S) -> S]
  BY <1>3 DEF RetrievalList
<1>5. Lists(RetrievedFirst, S, RetrievalList(S))
  BY <1>1, <1>3, <1>4, RankedLists
<1>. QED  BY <1>1, <1>5, BestOfTop

LEMMA FinalBest ==
  ASSUME StoreTyped, NEW W, NEW S, S \subseteq Chunks, NEW n \in Nat
  PROVE  BestOf(Top(n, FinalList(W, S)), n, FinalFirst(W), S)
<1>1. IsFiniteSet(S) /\ Orders(FinalFirst(W), S)
  BY Numbered, FinalOrders
<1>2. \A c \in S : Ahead(FinalFirst(W), S, c) = {d \in S : FinalIn(W, d, c)}
  BY DEF Ahead, FinalFirst, Pairs
<1>3. ASSUME NEW k \in 1..Cardinality(S)
      PROVE  FinalList(W, S)[k] \in S /\ Cardinality(Ahead(FinalFirst(W), S, FinalList(W, S)[k])) = k - 1
  <2>1. PICK c \in S : Cardinality(Ahead(FinalFirst(W), S, c)) = k - 1
    BY <1>1, RankTaken
  <2>2. \E b \in S : Cardinality({d \in S : FinalIn(W, d, b)}) = k - 1
    BY <1>2, <2>1
  <2>3. FinalList(W, S)[k] = CHOOSE b \in S : Cardinality({d \in S : FinalIn(W, d, b)}) = k - 1
    BY DEF FinalList
  <2>4. FinalList(W, S)[k] \in S /\ Cardinality({d \in S : FinalIn(W, d, FinalList(W, S)[k])}) = k - 1
    BY <2>2, <2>3
  <2>. QED  BY <1>2, <2>4
<1>4. FinalList(W, S) \in [1..Cardinality(S) -> S]
  BY <1>3 DEF FinalList
<1>5. Lists(FinalFirst(W), S, FinalList(W, S))
  BY <1>1, <1>3, <1>4, RankedLists
<1>. QED  BY <1>1, <1>5, BestOfTop

-----------------------------------------------------------------------------
(* Characters and tokens.                                                  *)

(* The characters of the blocks as a sum, whatever the state they are read in. *)
Costs(chunks) == [i \in DOMAIN chunks |-> Length[store[chunks[i]].text]]

LEMMA SameTokens ==
  ASSUME UNCHANGED store
  PROVE  /\ ContextTokens(list)' = ContextTokens(list')
         /\ \A d : ContextTokens(Append(list, d))' = ContextTokens(Append(list', d))
<1>1. Characters(list)' = Characters(list')
  <2>1. Characters(list)' = Total(Costs(list)', DOMAIN list')
    BY ZenonT(40) DEF Characters, MapThenSumSet, MapThenFoldSet, Total, Costs
  <2>2. Characters(list') = Total(Costs(list'), DOMAIN list')
    BY ZenonT(40) DEF Characters, MapThenSumSet, MapThenFoldSet, Total, Costs
  <2>3. Costs(list)' = Costs(list')
    BY DEF Costs
  <2>. QED  BY <2>1, <2>2, <2>3
<1>2. ASSUME NEW d
      PROVE  Characters(Append(list, d))' = Characters(Append(list', d))
  <2>1. Characters(Append(list, d))' = Total(Costs(Append(list, d))', DOMAIN Append(list', d))
    BY ZenonT(40) DEF Characters, MapThenSumSet, MapThenFoldSet, Total, Costs
  <2>2. Characters(Append(list', d)) = Total(Costs(Append(list', d)), DOMAIN Append(list', d))
    BY ZenonT(40) DEF Characters, MapThenSumSet, MapThenFoldSet, Total, Costs
  <2>3. Costs(Append(list, d))' = Costs(Append(list', d))
    BY DEF Costs
  <2>. QED  BY <2>1, <2>2, <2>3
<1>. QED  BY <1>1, <1>2 DEF ContextTokens

LEMMA CharactersCount ==
  ASSUME StoreTyped, NEW chunks \in Seq(Chunks)
  PROVE  Characters(chunks) \in Int /\ (chunks = <<>> => Characters(chunks) = 0)
<1>. DEFINE f == [i \in DOMAIN chunks |-> Length[store[chunks[i]].text]]
<1>1. Characters(chunks) = Total(f, DOMAIN chunks)
  BY ZenonT(40) DEF Characters, MapThenSumSet, MapThenFoldSet, Total
<1>2. IsFiniteSet(DOMAIN chunks)
  BY CountTo
<1>3. \A i \in DOMAIN chunks : f[i] \in Int
  <2>1. \A i \in DOMAIN chunks : store[chunks[i]].text \in Texts
    BY ChunkFacts
  <2>2. Length \in [Texts -> Nat]
    BY OptionsAssumption
  <2>. QED  BY <2>1, <2>2
<1>. HIDE DEF f
<1>4. Total(f, DOMAIN chunks) \in Int
  BY <1>2, <1>3, TotalInt
<1>5. chunks = <<>> => DOMAIN chunks = {}
  OBVIOUS
<1>. QED  BY <1>1, <1>4, <1>5, TotalEmpty

LEMMA TokensCount ==
  ASSUME StoreTyped, NEW chunks \in Seq(Chunks)
  PROVE  ContextTokens(chunks) \in Int /\ ContextTokens(<<>>) = 0
<1>1. Characters(chunks) \in Int /\ Envelope \in Int /\ CharsPerToken \in Nat \ {0}
  BY CharactersCount, OptionsAssumption
<1>2. CeilDiv(Envelope + Characters(chunks), CharsPerToken) \in Int
  BY <1>1 DEF CeilDiv
<1>. QED  BY <1>2 DEF ContextTokens

-----------------------------------------------------------------------------
(* Why a chunk is not among those that are left.                           *)

Copied(c) == \E d \in Chunks : store[d].text = store[c].text /\ Ranked(d, c)
Crowded(c) ==
    /\ options.perDocument # None
    /\ Cardinality({d \in Chunks : store[d].doc = store[c].doc /\ Ranked(d, c)})
         >= options.perDocument
Far(c) == Cardinality({d \in Chunks : Nearer(d, c)}) >= options.pool
Excused(c) == Copied(c) \/ Crowded(c) \/ Far(c)
Weak(c) == options.rerank /\ Effective(c) < options.minScore
Past(c) ==
    /\ \A d \in ToSet(list) : Final(d, c)
    /\ \/ Len(list) = options.topK
       \/ \E d \in Chunks \ ToSet(list) :
            /\ d = c \/ Final(d, c)
            /\ ContextTokens(Append(list, d)) > options.budget

Gone == Home \ ToSet(list)
OneText == \A c, d \in ToSet(list) : store[c].text = store[d].text => c = d

(* Which chunks are left, stage by stage. *)
LeftInv ==
    /\ OneEach(list) /\ Len(list) <= options.pool
    /\ stage \notin {"generate", "rank", "deduplicate"} => OneText
    /\ stage \in {"rank", "deduplicate", "diversify", "assemble", "validate",
                  "authorize", "rerank"} => \A c \in Gone : Excused(c)
    /\ stage \in {"collapse", "select"} => \A c \in Gone : Excused(c) \/ Weak(c)
    /\ stage \in {"build", "answered"} =>
         /\ \A c \in Gone : Excused(c) \/ Weak(c) \/ Past(c)
         /\ Ordered(FinalFirst(scored), list)
         /\ ContextTokens(list) <= options.budget

(* What is shown of them. *)
SafeInv ==
    /\ stage = "validate" => ToSet(quoted) \subseteq ToSet(list)
    /\ stage \in {"authorize", "rerank", "collapse", "select", "build", "answered"} =>
         ToSet(quoted) \cup ToSet(list) \subseteq Home
    /\ stage = "answered" =>
         /\ context = list
         /\ sources = [doc \in {store[c].doc : c \in ToSet(list)} |->
                         Only({c \in Chunks : store[c].doc = doc}, list)]

AnswerInv == AnswerTyped /\ LeftInv /\ SafeInv

LEMMA Optioned ==
  ASSUME AnswerTyped
  PROVE  /\ StoreTyped
         /\ options.pool \in Nat /\ options.topK \in Nat /\ options.window \in Nat
         /\ options.perDocument \in Nat \cup {None} /\ options.minScore \in Nat
         /\ options.budget \in Nat
<1>1. ValidOptions(options)
  BY OptionsAssumption DEF AnswerTyped
<1>. QED  BY <1>1 DEF AnswerTyped, StoreTyped, ValidOptions

LEMMA SameScores ==
  ASSUME UNCHANGED <<store, options>>
  PROVE  /\ Home' = Home /\ (StoreTyped' <=> StoreTyped)
         /\ \A c : Excused(c)' <=> Excused(c)
<1>1. Home' = Home /\ (StoreTyped' <=> StoreTyped)
  BY DEF Home, StoreTyped
<1>2. ASSUME NEW c
      PROVE  Excused(c)' <=> Excused(c)
  BY DEF Excused, Copied, Crowded, Far, Ranked, Nearer, Score, Hit
<1>. QED  BY <1>1, <1>2

LEMMA SameFinal ==
  ASSUME UNCHANGED <<store, options, scored>>
  PROVE  /\ \A c : Weak(c)' <=> Weak(c)
         /\ \A c, d : Final(c, d)' <=> Final(c, d)
         /\ FinalFirst(scored)' = FinalFirst(scored)
  BY DEF Weak, Effective, EffectiveIn, RerankScore, Score, Hit, Final, FinalIn, ByRetrieval,
         InDocument, FinalFirst, Pairs

-----------------------------------------------------------------------------
(* The stages that choose what is left.                                    *)

LEMMA GenerateKeeps ==
  ASSUME AnswerInv, Generate
  PROVE  AnswerInv'
<1>1. /\ stage = "generate" /\ stage' = "rank"
      /\ UNCHANGED <<store, options, scored, quoted, context, sources>>
  BY DEF Generate, Advance
<1>2. AnswerTyped /\ StoreTyped /\ options.pool \in Nat
  BY Optioned DEF AnswerInv
<1>3. list' = Top(options.pool, NearerList(Chunks))
  BY DEF Generate, Best, Sorted, NearerList
<1>4. BestOf(list', options.pool, NearerFirst, Chunks)
  BY <1>2, <1>3, NearerBest
<1>5. /\ list' \in Seq(Chunks) /\ OneEach(list') /\ Len(list') <= options.pool
      /\ \A c \in Chunks \ ToSet(list') :
           Len(list') = options.pool /\ \A d \in ToSet(list') : <<d, c>> \in NearerFirst
  BY <1>4 DEF BestOf
<1>6. ASSUME NEW c \in Home \ ToSet(list')
      PROVE  Excused(c)
  <2>1. c \in Chunks \ ToSet(list')
    BY <1>6 DEF Home
  <2>2. ToSet(list') \subseteq {d \in Chunks : Nearer(d, c)}
    BY <1>5, <2>1 DEF NearerFirst, Pairs
  <2>3. Cardinality(ToSet(list')) = options.pool
    BY <1>5, <2>1, ToSetCount
  <2>4. /\ IsFiniteSet({d \in Chunks : Nearer(d, c)})
        /\ Cardinality({d \in Chunks : Nearer(d, c)}) \in Nat
    BY Numbered
  <2>5. Cardinality(ToSet(list')) <= Cardinality({d \in Chunks : Nearer(d, c)})
    BY <2>2, <2>4, FS_Subset
  <2>. QED  BY <1>2, <2>3, <2>4, <2>5 DEF Excused, Far
<1>7. AnswerTyped'
  BY <1>1, <1>2, <1>5 DEF AnswerTyped, Stages
<1>8. LeftInv'
  BY <1>1, <1>5, <1>6, SameScores DEF LeftInv, Gone
<1>9. SafeInv'
  BY <1>1 DEF SafeInv
<1>. QED  BY <1>7, <1>8, <1>9 DEF AnswerInv

LEMMA RankKeeps ==
  ASSUME AnswerInv, Rank
  PROVE  AnswerInv'
<1>1. /\ stage = "rank" /\ stage' = "deduplicate"
      /\ UNCHANGED <<store, options, scored, quoted, context, sources>>
  BY DEF Rank, Advance
<1>2. AnswerTyped /\ StoreTyped /\ list \in Seq(Chunks) /\ Len(list) \in Nat
  BY Optioned DEF AnswerInv, AnswerTyped
<1>3. list' = Top(Len(list), RankedList(ToSet(list)))
  BY DEF Rank, Best, Sorted, RankedList
<1>4. ToSet(list) \subseteq Chunks /\ Cardinality(ToSet(list)) <= Len(list)
  BY <1>2, ToSetCount DEF ToSet
<1>5. BestOf(list', Len(list), RankedFirst, ToSet(list))
  BY <1>2, <1>3, <1>4, RankedBest
<1>6. /\ list' \in Seq(Chunks) /\ OneEach(list') /\ Len(list') <= Len(list)
      /\ ToSet(list') = ToSet(list)
  BY <1>4, <1>5 DEF BestOf
<1>7. /\ options.pool \in Nat /\ Len(list) <= options.pool
      /\ \A c \in Gone : Excused(c)
  BY <1>1, Optioned DEF AnswerInv, LeftInv
<1>8. AnswerTyped'
  BY <1>1, <1>2, <1>6 DEF AnswerTyped, Stages
<1>9. Len(list') <= options.pool
  BY <1>6, <1>7
<1>10. \A c \in Home \ ToSet(list') : Excused(c)
  BY <1>6, <1>7 DEF Gone
<1>11. LeftInv'
  BY <1>1, <1>6, <1>9, <1>10, SameScores DEF LeftInv, Gone
<1>12. SafeInv'
  BY <1>1 DEF SafeInv
<1>. QED  BY <1>8, <1>11, <1>12 DEF AnswerInv

(* A filter: what it takes out must be excused. *)
LEMMA FilterFacts ==
  ASSUME AnswerInv, NEW S
  PROVE  /\ Only(S, list) \in Seq(Chunks) /\ OneEach(Only(S, list))
         /\ Len(Only(S, list)) <= options.pool
         /\ ToSet(Only(S, list)) = ToSet(list) \cap S
         /\ ToSet(list) \subseteq S => Only(S, list) = list
<1>1. /\ list \in Seq(Chunks) /\ OneEach(list) /\ Len(list) <= options.pool
      /\ options.pool \in Nat
  BY Optioned DEF AnswerInv, AnswerTyped, LeftInv
<1>2. /\ Only(S, list) \in Seq(Chunks) /\ Len(Only(S, list)) \in 0..Len(list)
      /\ ToSet(Only(S, list)) = ToSet(list) \cap S
      /\ ToSet(list) \subseteq S => Only(S, list) = list
  BY <1>1, OnlyFacts
<1>3. OneEach(Only(S, list))
  <2>1. {i \in DOMAIN list : list[i] \in S} \subseteq DOMAIN list
    OBVIOUS
  <2>. QED  BY <1>1, <2>1, PickedOneEach DEF Only
<1>4. Len(Only(S, list)) <= options.pool
  BY <1>1, <1>2
<1>. QED  BY <1>2, <1>3, <1>4

LEMMA DeduplicateKeeps ==
  ASSUME AnswerInv, Deduplicate
  PROVE  AnswerInv'
<1>. DEFINE S == {c \in Chunks : \A d \in ToSet(list) :
                    store[d].text = store[c].text => ~Ranked(d, c)}
<1>1. /\ stage = "deduplicate" /\ stage' = "diversify" /\ list' = Only(S, list)
      /\ UNCHANGED <<store, options, scored, quoted, context, sources>>
  BY DEF Deduplicate, Advance
<1>2. AnswerTyped /\ StoreTyped /\ ToSet(list) \subseteq Chunks
  BY Optioned DEF AnswerInv, AnswerTyped, ToSet
<1>. HIDE DEF S
<1>3. /\ list' \in Seq(Chunks) /\ OneEach(list') /\ Len(list') <= options.pool
      /\ ToSet(list') = ToSet(list) \cap S
  BY <1>1, FilterFacts
<1>4. \A c \in Gone : Excused(c)
  BY <1>1 DEF AnswerInv, LeftInv
<1>5. ASSUME NEW c \in Home \ ToSet(list')
      PROVE  Excused(c)
  <2>1. CASE c \in Gone
    BY <1>4, <2>1
  <2>2. CASE c \notin Gone
    <3>1. c \in ToSet(list) /\ c \notin S
      BY <1>3, <1>5, <2>2 DEF Gone
    <3>2. PICK d \in ToSet(list) : store[d].text = store[c].text /\ Ranked(d, c)
      BY <1>2, <3>1 DEF S
    <3>. QED  BY <1>2, <3>2 DEF Excused, Copied
  <2>. QED  BY <2>1, <2>2
<1>6. ASSUME NEW c \in ToSet(list'), NEW d \in ToSet(list'), store[c].text = store[d].text
      PROVE  c = d
  <2>1. c \in ToSet(list) /\ d \in ToSet(list) /\ c \in Chunks /\ d \in Chunks
    BY <1>2, <1>3
  <2>2. ~Ranked(c, d) /\ ~Ranked(d, c)
    BY <1>3, <1>6, <2>1 DEF S
  <2>3. <<c, d>> \notin RankedFirst /\ <<d, c>> \notin RankedFirst
    BY <2>2 DEF RankedFirst
  <2>4. Orders(RankedFirst, Chunks)
    BY <1>2, RankedOrders
  <2>. QED  BY <2>1, <2>3, <2>4 DEF Orders
<1>7. AnswerTyped'
  BY <1>1, <1>2, <1>3 DEF AnswerTyped, Stages
<1>8. LeftInv'
  BY <1>1, <1>3, <1>5, <1>6, SameScores DEF LeftInv, Gone, OneText
<1>9. SafeInv'
  BY <1>1 DEF SafeInv
<1>. QED  BY <1>7, <1>8, <1>9 DEF AnswerInv

LEMMA DiversifyKeeps ==
  ASSUME AnswerInv, Diversify
  PROVE  AnswerInv'
<1>. DEFINE In(c) == {d \in ToSet(list) : store[d].doc = store[c].doc /\ Ranked(d, c)}
            S == {c \in Chunks : Cardinality(In(c)) < options.perDocument}
<1>1. /\ stage = "diversify" /\ stage' = "assemble"
      /\ list' = IF options.perDocument = None THEN list ELSE Only(S, list)
      /\ UNCHANGED <<store, options, scored, quoted, context, sources>>
  BY DEF Diversify, Advance
<1>2. /\ AnswerTyped /\ StoreTyped /\ ToSet(list) \subseteq Chunks
      /\ options.perDocument \in Nat \cup {None}
  BY Optioned DEF AnswerInv, AnswerTyped, ToSet
<1>3. /\ OneText /\ \A c \in Gone : Excused(c)
      /\ list \in Seq(Chunks) /\ OneEach(list) /\ Len(list) <= options.pool
  BY <1>1, <1>2 DEF AnswerInv, LeftInv, AnswerTyped
<1>4. ASSUME NEW c \in ToSet(list), c \notin S, options.perDocument # None
      PROVE  Excused(c)
  <2>. DEFINE all == {d \in Chunks : store[d].doc = store[c].doc /\ Ranked(d, c)}
  <2>1. In(c) \subseteq all /\ all \subseteq Chunks
    BY <1>2
  <2>2. IsFiniteSet(all) /\ Cardinality(all) \in Nat /\ Cardinality(In(c)) \in Nat
    BY <1>2, <2>1, Numbered
  <2>3. Cardinality(In(c)) <= Cardinality(all)
    BY <2>1, <2>2, FS_Subset
  <2>4. ~(Cardinality(In(c)) < options.perDocument)
    BY <1>2, <1>4
  <2>5. Cardinality(all) >= options.perDocument
    <3>. HIDE DEF all, In
    <3>. QED  BY <1>2, <1>4, <2>2, <2>3, <2>4
  <2>. QED  BY <1>4, <2>5 DEF Excused, Crowded
<1>. HIDE DEF S, In
<1>5. /\ list' \in Seq(Chunks) /\ OneEach(list') /\ Len(list') <= options.pool
      /\ ToSet(list') \subseteq ToSet(list)
      /\ \A c \in ToSet(list) \ ToSet(list') : options.perDocument # None /\ c \notin S
  <2>1. CASE options.perDocument = None
    BY <1>1, <1>3, <2>1
  <2>2. CASE options.perDocument # None
    BY <1>1, <2>2, FilterFacts
  <2>. QED  BY <2>1, <2>2
<1>6. ASSUME NEW c \in Home \ ToSet(list')
      PROVE  Excused(c)
  BY <1>3, <1>4, <1>5, <1>6 DEF Gone
<1>7. AnswerTyped'
  BY <1>1, <1>2, <1>5 DEF AnswerTyped, Stages
<1>8. LeftInv'
  BY <1>1, <1>3, <1>5, <1>6, SameScores DEF LeftInv, Gone, OneText
<1>9. SafeInv'
  BY <1>1 DEF SafeInv
<1>. QED  BY <1>7, <1>8, <1>9 DEF AnswerInv

LEMMA AssembleKeeps ==
  ASSUME AnswerInv, Assemble
  PROVE  AnswerInv'
<1>. DEFINE top == Top(options.pool, list)
            fitting == {n \in 0..Len(top) :
                          Characters(SubSeq(top, 1, n)) + (IF n = 0 THEN 0 ELSE n - 1)
                            <= MaxContextChars}
<1>1. /\ stage = "assemble" /\ stage' = "validate"
      /\ list' = top /\ quoted' = SubSeq(top, 1, Max(fitting))
      /\ UNCHANGED <<store, options, scored, context, sources>>
  BY DEF Assemble, Advance
<1>2. /\ AnswerTyped /\ StoreTyped /\ options.pool \in Nat
      /\ list \in Seq(Chunks) /\ Len(list) \in Nat /\ Len(list) <= options.pool
  BY Optioned DEF AnswerInv, AnswerTyped, LeftInv
<1>3. top = list
  BY <1>2, TopFacts
<1>. HIDE DEF top
<1>4. 0 \in fitting
  <2>1. SubSeq(top, 1, 0) = <<>> /\ Len(top) \in Nat
    BY <1>2, <1>3
  <2>2. Characters(SubSeq(top, 1, 0)) = 0
    <3>1. <<>> \in Seq(Chunks)
      OBVIOUS
    <3>2. Characters(<<>>) = 0
      BY <1>2, <3>1, CharactersCount
    <3>. QED  BY <2>1, <3>2
  <2>3. MaxContextChars \in Nat
    BY OptionsAssumption
  <2>4. 0 \in 0..Len(top) /\ 0 + 0 <= MaxContextChars
    BY <2>1, <2>3
  <2>. QED  BY <2>2, <2>4
<1>5. fitting \subseteq 0..Len(list) /\ IsFiniteSet(0..Len(list))
  BY <1>2, <1>3, FS_Interval
<1>6. IsFiniteSet(fitting) /\ fitting \subseteq Int
  BY <1>5, FS_Subset
<1>. HIDE DEF fitting
<1>7. Max(fitting) \in 0..Len(list)
  BY <1>4, <1>5, <1>6, LargestExists
<1>8. quoted' \in Seq(Chunks) /\ ToSet(quoted') \subseteq ToSet(list)
  <2>. DEFINE m == Max(fitting)
  <2>1. m \in 0..Len(list) /\ quoted' = SubSeq(list, 1, m)
    BY <1>1, <1>3, <1>7
  <2>. HIDE DEF m
  <2>2. quoted' \in Seq(Chunks) /\ Len(quoted') = m /\ \A i \in 1..m : quoted'[i] = list[i]
    BY <1>2, <2>1
  <2>. QED  BY <1>2, <2>1, <2>2 DEF ToSet
<1>9. AnswerTyped'
  BY <1>1, <1>2, <1>3, <1>8 DEF AnswerTyped, Stages
<1>10. LeftInv'
  BY <1>1, <1>3, SameScores DEF AnswerInv, LeftInv, Gone, OneText
<1>11. SafeInv'
  BY <1>1, <1>3, <1>8 DEF SafeInv
<1>. QED  BY <1>9, <1>10, <1>11 DEF AnswerInv

LEMMA ValidateKeeps ==
  ASSUME AnswerInv, Validate
  PROVE  AnswerInv'
<1>1. /\ stage = "validate" /\ stage' = "authorize" /\ list' = Only(Home, list)
      /\ quoted' = IF list' = list THEN quoted ELSE <<>>
      /\ UNCHANGED <<store, options, scored, context, sources>>
  BY DEF Validate, Advance
<1>2. /\ list' \in Seq(Chunks) /\ OneEach(list') /\ Len(list') <= options.pool
      /\ ToSet(list') = ToSet(list) \cap Home
  BY <1>1, FilterFacts
<1>3. AnswerTyped /\ OneText /\ (\A c \in Gone : Excused(c)) /\ ToSet(quoted) \subseteq ToSet(list)
  BY <1>1 DEF AnswerInv, LeftInv, SafeInv
<1>4. quoted' \in Seq(Chunks) /\ ToSet(quoted') \subseteq Home
  <2>1. CASE list' = list
    BY <1>1, <1>2, <1>3, <2>1 DEF AnswerTyped
  <2>2. CASE list' # list
    BY <1>1, <2>2 DEF ToSet
  <2>. QED  BY <2>1, <2>2
<1>5. \A c \in Home \ ToSet(list') : Excused(c)
  BY <1>2, <1>3 DEF Gone
<1>6. AnswerTyped'
  BY <1>1, <1>2, <1>3, <1>4 DEF AnswerTyped, Stages
<1>7. LeftInv'
  BY <1>1, <1>2, <1>3, <1>5, SameScores DEF LeftInv, Gone, OneText
<1>8. SafeInv'
  BY <1>1, <1>2, <1>4, SameScores DEF SafeInv
<1>. QED  BY <1>6, <1>7, <1>8 DEF AnswerInv

LEMMA AuthorizeKeeps ==
  ASSUME AnswerInv, Authorize
  PROVE  AnswerInv'
<1>1. stage = "authorize" /\ UNCHANGED <<store, options, list, scored, quoted, context, sources>>
  BY DEF Authorize
<1>2. ToSet(quoted) \cup ToSet(list) \subseteq Home
  BY <1>1 DEF AnswerInv, SafeInv
<1>3. stage' = "rerank"
  BY <1>2 DEF Authorize
<1>4. AnswerTyped'
  BY <1>1, <1>3 DEF AnswerInv, AnswerTyped, Stages
<1>5. LeftInv'
  BY <1>1, <1>3, SameScores DEF AnswerInv, LeftInv, Gone, OneText
<1>6. SafeInv'
  BY <1>1, <1>2, <1>3, SameScores DEF SafeInv
<1>. QED  BY <1>4, <1>5, <1>6 DEF AnswerInv

LEMMA RerankKeeps ==
  ASSUME AnswerInv, Rerank
  PROVE  AnswerInv'
<1>. DEFINE S == ToSet(list)
            n == Len(list)
            W == ToSet(Top(options.window, RetrievalList(S)))
            first == Top(n, FinalList(W, W))
            remainder == Top(n, RetrievalList(S \ W))
            ordered == first \o remainder
            enough == {c \in Chunks : EffectiveIn(W, c) >= options.minScore}
<1>1. /\ stage = "rerank" /\ stage' = "collapse"
      /\ UNCHANGED <<store, options, quoted, context, sources>>
  BY DEF Rerank, Advance
<1>2. /\ AnswerTyped /\ StoreTyped /\ list \in Seq(Chunks) /\ n \in Nat
      /\ options.window \in Nat /\ options.pool \in Nat /\ options.minScore \in Nat
      /\ S \subseteq Chunks
  BY Optioned DEF AnswerInv, AnswerTyped, ToSet
<1>3. /\ OneEach(list) /\ n <= options.pool /\ OneText
      /\ \A c \in Gone : Excused(c)
      /\ ToSet(quoted) \cup S \subseteq Home
  BY <1>1 DEF AnswerInv, LeftInv, SafeInv
<1>4. IF options.rerank THEN scored' = W /\ list' = Only(enough, ordered)
                        ELSE UNCHANGED <<scored, list>>
  BY DEF Rerank, Window, Best, Sorted, RetrievalList, FinalList
<1>5. W \subseteq S
  <2>1. BestOf(Top(options.window, RetrievalList(S)), options.window, RetrievedFirst, S)
    BY <1>2, RetrievalBest
  <2>. QED  BY <2>1 DEF BestOf, ToSet
<1>6. Cardinality(S) = n /\ IsFiniteSet(S)
  BY <1>2, <1>3, ToSetCount
<1>. HIDE DEF W, S, n, enough
<1>7. Cardinality(W) <= n /\ Cardinality(S \ W) <= n
  <2>1. W \in SUBSET S /\ S \ W \in SUBSET S
    BY <1>5
  <2>. QED  BY <1>6, <2>1, FS_Subset
<1>8. BestOf(first, n, FinalFirst(W), W)
  BY <1>2, <1>5, FinalBest
<1>9. BestOf(remainder, n, RetrievedFirst, S \ W)
  BY <1>2, <1>5, RetrievalBest
<1>10. /\ first \in Seq(Chunks) /\ OneEach(first) /\ ToSet(first) = W
       /\ remainder \in Seq(Chunks) /\ OneEach(remainder) /\ ToSet(remainder) = S \ W
  <2>1. first \in Seq(W) /\ OneEach(first) /\ ToSet(first) = W
    BY <1>7, <1>8 DEF BestOf
  <2>2. remainder \in Seq(S \ W) /\ OneEach(remainder) /\ ToSet(remainder) = S \ W
    BY <1>7, <1>9 DEF BestOf
  <2>3. W \subseteq Chunks /\ S \ W \subseteq Chunks
    BY <1>2, <1>5
  <2>. HIDE DEF first, remainder
  <2>. QED  BY <2>1, <2>2, <2>3
<1>. HIDE DEF first, remainder
<1>11. ordered \in Seq(Chunks) /\ OneEach(ordered) /\ ToSet(ordered) = S /\ Len(ordered) = n
  <2>1. /\ ordered \in Seq(Chunks) /\ ToSet(ordered) = ToSet(first) \cup ToSet(remainder)
        /\ Len(ordered) = Len(first) + Len(remainder)
    BY <1>10, ConcatFacts
  <2>2. Cardinality(W) = Len(first) /\ Cardinality(S \ W) = Len(remainder)
    BY <1>10, ToSetCount
  <2>3. Cardinality(W) + Cardinality(S \ W) = n
    <3>1. IsFiniteSet(W) /\ IsFiniteSet(S \ W)
      BY <1>5, <1>6, FS_Subset
    <3>2. W \cup (S \ W) = S /\ W \cap (S \ W) = {}
      BY <1>5
    <3>3. /\ Cardinality(W) \in Nat /\ Cardinality(S \ W) \in Nat
          /\ Cardinality({}) = 0
      BY <3>1, FS_CardinalityType, FS_EmptySet
    <3>. QED  BY <1>6, <3>1, <3>2, <3>3, FS_Union, SMTT(40)
  <2>4. ToSet(ordered) = S
    BY <1>5, <1>10, <2>1
  <2>. HIDE DEF ordered
  <2>5. Len(ordered) = n
    BY <2>1, <2>2, <2>3
  <2>. QED  BY <1>6, <2>1, <2>4, <2>5, ToSetCount
<1>. HIDE DEF ordered
<1>12. /\ list' \in Seq(Chunks) /\ OneEach(list') /\ Len(list') <= n
       /\ ToSet(list') \subseteq S
       /\ \A c \in S \ ToSet(list') : options.rerank /\ c \notin enough
  <2>1. CASE options.rerank
    <3>1. list' = Only(enough, ordered)
      BY <1>4, <2>1
    <3>2. {i \in DOMAIN ordered : ordered[i] \in enough} \subseteq DOMAIN ordered
      OBVIOUS
    <3>3. OneEach(list')
      BY <1>11, <3>1, <3>2, PickedOneEach DEF Only
    <3>4. /\ list' \in Seq(Chunks) /\ Len(list') \in 0..n
          /\ ToSet(list') = S \cap enough
      BY <1>11, <3>1, OnlyFacts
    <3>. QED  BY <1>2, <2>1, <3>3, <3>4
  <2>2. CASE ~options.rerank
    <3>1. list' = list /\ ToSet(list') = S
      BY <1>4, <2>2 DEF S
    <3>2. Len(list') = n
      BY <3>1 DEF n
    <3>. QED  BY <1>2, <1>3, <3>1, <3>2
  <2>. QED  BY <2>1, <2>2
<1>13. ASSUME NEW c \in Home \ ToSet(list')
       PROVE  Excused(c) \/ Weak(c)'
  <2>1. CASE c \in S
    <3>1. options.rerank /\ c \notin enough /\ c \in Chunks
      BY <1>2, <1>12, <1>13, <2>1
    <3>2. scored' = W /\ EffectiveIn(W, c) \in Int
      BY <1>2, <1>4, <3>1, ChunkFacts
    <3>3. EffectiveIn(W, c) < options.minScore
      BY <1>2, <3>1, <3>2 DEF enough
    <3>4. EffectiveIn(W, c)' = EffectiveIn(W', c)
      BY <1>1 DEF EffectiveIn, RerankScore, Score, Hit
    <3>5. Effective(c)' = EffectiveIn(W, c)
      BY <1>1, <3>2 DEF Effective, EffectiveIn, RerankScore, Score, Hit
    <3>. QED  BY <1>1, <3>1, <3>3, <3>5 DEF Weak
  <2>2. CASE c \notin S
    BY <1>3, <1>13, <2>2 DEF Gone, S
  <2>. QED  BY <2>1, <2>2
<1>14. scored' \subseteq Chunks
  BY <1>2, <1>4, <1>5 DEF AnswerTyped
<1>15. AnswerTyped'
  BY <1>1, <1>2, <1>12, <1>14 DEF AnswerTyped, Stages
<1>16. LeftInv'
  <2>1. Len(list') <= options.pool
    BY <1>2, <1>3, <1>12
  <2>2. OneText'
    BY <1>1, <1>3, <1>12 DEF OneText, S
  <2>3. \A c \in Gone' : Excused(c)' \/ Weak(c)'
    BY <1>1, <1>13, SameScores DEF Gone
  <2>. QED  BY <1>1, <1>12, <2>1, <2>2, <2>3 DEF LeftInv
<1>17. SafeInv'
  BY <1>1, <1>3, <1>12, SameScores DEF SafeInv
<1>. QED  BY <1>15, <1>16, <1>17 DEF AnswerInv

LEMMA CollapseKeeps ==
  ASSUME AnswerInv, Collapse
  PROVE  AnswerInv'
<1>. DEFINE P == {i \in DOMAIN list : \A j \in DOMAIN list :
                    store[list[j]].text = store[list[i]].text => ~Wins(j, i)}
<1>1. /\ stage = "collapse" /\ stage' = "select" /\ list' = Picked(P, list)
      /\ UNCHANGED <<store, options, scored, quoted, context, sources>>
  BY DEF Collapse, Advance
<1>2. AnswerTyped /\ StoreTyped /\ list \in Seq(Chunks) /\ OneEach(list) /\ OneText
  BY <1>1, Optioned DEF AnswerInv, AnswerTyped, LeftInv
<1>3. ASSUME NEW i \in DOMAIN list, NEW j \in DOMAIN list,
             store[list[j]].text = store[list[i]].text
      PROVE  ~Wins(j, i)
  <2>1. list[i] = list[j]
    BY <1>2, <1>3 DEF OneText, ToSet
  <2>2. i = j /\ i \in Int
    BY <1>2, <2>1 DEF OneEach
  <2>3. Effective(list[i]) \in Int
    BY <1>2, ChunkFacts DEF Effective
  <2>. QED  BY <2>1, <2>2, <2>3 DEF Wins
<1>4. P = DOMAIN list
  BY <1>3
<1>. HIDE DEF P
<1>5. list' = list
  BY <1>1, <1>2, <1>4, PickedAll
<1>6. AnswerTyped'
  BY <1>1, <1>2, <1>5 DEF AnswerTyped, Stages
<1>7. LeftInv'
  BY <1>1, <1>5, SameScores, SameFinal DEF AnswerInv, LeftInv, Gone, OneText
<1>8. SafeInv'
  BY <1>1, <1>5, SameScores DEF AnswerInv, SafeInv
<1>. QED  BY <1>6, <1>7, <1>8 DEF AnswerInv

LEMMA SelectKeeps ==
  ASSUME AnswerInv, Select
  PROVE  AnswerInv'
<1>. DEFINE S == ToSet(list)
            head == Top(options.topK, FinalList(scored, S))
            fitting == {n \in 0..Len(head) : ContextTokens(SubSeq(head, 1, n)) <= options.budget}
            m == Max(fitting)
<1>1. /\ stage = "select" /\ stage' = "build" /\ list' = SubSeq(head, 1, m)
      /\ UNCHANGED <<store, options, scored, quoted, context, sources>>
  BY DEF Select, Advance, Best, Sorted, Final, FinalList
<1>2. /\ AnswerTyped /\ StoreTyped /\ list \in Seq(Chunks) /\ Len(list) \in Nat
      /\ options.topK \in Nat /\ options.pool \in Nat /\ options.budget \in Nat
      /\ S \subseteq Chunks
  BY Optioned DEF AnswerInv, AnswerTyped, ToSet
<1>3. /\ OneEach(list) /\ Len(list) <= options.pool /\ OneText
      /\ \A c \in Gone : Excused(c) \/ Weak(c)
      /\ ToSet(quoted) \cup S \subseteq Home
  BY <1>1 DEF AnswerInv, LeftInv, SafeInv
<1>4. BestOf(head, options.topK, FinalFirst(scored), S)
  BY <1>2, FinalBest
<1>. HIDE DEF head
<1>5. /\ head \in Seq(S) /\ Len(head) \in Nat /\ Len(head) <= options.topK
      /\ Ordered(FinalFirst(scored), head) /\ OneEach(head)
      /\ \A c \in S \ ToSet(head) : /\ Len(head) = options.topK
                                   /\ \A d \in ToSet(head) : <<d, c>> \in FinalFirst(scored)
  BY <1>4 DEF BestOf
<1>. HIDE DEF S
<1>6. head \in Seq(Chunks) /\ DOMAIN head = 1..Len(head) /\ ToSet(head) \subseteq S
  BY <1>2, <1>5 DEF ToSet
<1>7. 0 \in fitting
  <2>1. SubSeq(head, 1, 0) = <<>>
    BY <1>6
  <2>2. ContextTokens(<<>>) = 0
    BY <1>2, <1>6, TokensCount
  <2>3. ContextTokens(SubSeq(head, 1, 0)) = 0
    BY <2>1, <2>2
  <2>4. 0 \in 0..Len(head) /\ 0 <= options.budget
    BY <1>2, <1>5
  <2>. QED  BY <2>3, <2>4
<1>8. fitting \subseteq 0..Len(head) /\ IsFiniteSet(0..Len(head))
  BY <1>5, FS_Interval
<1>9. IsFiniteSet(fitting) /\ fitting \subseteq Int
  BY <1>8, FS_Subset
<1>10. m \in fitting /\ \A n \in fitting : n <= m
  <2>. HIDE DEF fitting
  <2>. QED  BY <1>7, <1>9, LargestExists
<1>11. m \in 0..Len(head) /\ ContextTokens(SubSeq(head, 1, m)) <= options.budget
  BY <1>10
<1>12. m + 1 \in 0..Len(head) => ContextTokens(SubSeq(head, 1, m + 1)) > options.budget
  <2>. SUFFICES ASSUME m + 1 \in 0..Len(head)
                PROVE  ContextTokens(SubSeq(head, 1, m + 1)) > options.budget
    OBVIOUS
  <2>1. m + 1 \notin fitting
    <3>1. m \in Int
      BY <1>11
    <3>. HIDE DEF m, fitting
    <3>2. m + 1 \in fitting => m + 1 <= m
      BY <1>10
    <3>. QED  BY <3>1, <3>2
  <2>2. SubSeq(head, 1, m + 1) \in Seq(Chunks)
    <3>1. m \in Int
      BY <1>11
    <3>. HIDE DEF m
    <3>. QED  BY <1>6, <3>1
  <2>3. ContextTokens(SubSeq(head, 1, m + 1)) \in Int
    BY <1>2, <2>2, TokensCount
  <2>. QED  BY <1>2, <2>1, <2>3
<1>. HIDE DEF m, fitting
<1>13. /\ list' \in Seq(Chunks) /\ Len(list') = m /\ DOMAIN list' = 1..m
       /\ \A i \in 1..m : i \in 1..Len(head) /\ list'[i] = head[i]
  BY <1>1, <1>5, <1>6, <1>11
<1>14. ToSet(list') \subseteq ToSet(head)
  BY <1>6, <1>13 DEF ToSet
<1>15. OneEach(list') /\ Ordered(FinalFirst(scored), list')
  BY <1>5, <1>6, <1>13 DEF OneEach, Ordered
<1>16. Len(list') <= options.pool
  <2>1. Cardinality(S) <= Len(list) /\ IsFiniteSet(S)
    BY <1>2, ToSetCount DEF S
  <2>2. Cardinality(ToSet(list')) = Len(list')
    BY <1>13, <1>15, ToSetCount
  <2>3. Cardinality(ToSet(list')) <= Cardinality(S)
    BY <1>6, <1>14, <2>1, FS_Subset
  <2>4. Cardinality(S) \in Nat
    BY <2>1, FS_CardinalityType
  <2>. QED  BY <1>2, <1>3, <1>13, <1>11, <2>1, <2>2, <2>3, <2>4
<1>17. \A c, d : c \in Chunks /\ d \in Chunks => (<<c, d>> \in FinalFirst(scored) <=> Final(c, d))
  BY DEF FinalFirst, Pairs, Final
<1>18. ASSUME NEW c \in S, c \notin ToSet(list')
       PROVE  /\ \A d \in ToSet(list') : Final(d, c)
              /\ \/ Len(list') = options.topK
                 \/ \E d \in Chunks \ ToSet(list') :
                      /\ d = c \/ Final(d, c)
                      /\ ContextTokens(Append(list', d)) > options.budget
  <2>1. CASE m = Len(head)
    <3>1. ToSet(list') = ToSet(head)
      BY <1>6, <1>13, <2>1 DEF ToSet
    <3>2. /\ Len(head) = options.topK
          /\ \A d \in ToSet(head) : <<d, c>> \in FinalFirst(scored)
      BY <1>5, <1>18, <3>1
    <3>3. \A d \in ToSet(list') : Final(d, c)
      BY <3>1, <3>2 DEF FinalFirst, Final
    <3>. QED  BY <1>13, <2>1, <3>2, <3>3
  <2>2. CASE m # Len(head)
    <3>. DEFINE d == head[m + 1]
    <3>1. m \in Nat /\ m + 1 \in 1..Len(head) /\ m + 1 \in 0..Len(head)
      BY <1>5, <1>11, <2>2
    <3>2. d \in Chunks /\ d \in ToSet(head)
      BY <1>6, <3>1 DEF ToSet
    <3>3. d \notin ToSet(list')
      <4>. SUFFICES ASSUME NEW i \in 1..m, list'[i] = d PROVE FALSE
        BY <1>13 DEF ToSet
      <4>1. i \in 1..Len(head) /\ head[i] = head[m + 1]
        BY <1>13
      <4>2. i = m + 1
        BY <1>5, <1>6, <3>1, <4>1 DEF OneEach
      <4>. QED  BY <3>1, <4>2
    <3>4. Append(list', d) = SubSeq(head, 1, m + 1)
      <4>1. SubSeq(head, 1, m + 1) \in Seq(Chunks) /\ Len(SubSeq(head, 1, m + 1)) = m + 1
            /\ \A i \in 1..(m + 1) : SubSeq(head, 1, m + 1)[i] = head[i]
        BY <1>6, <3>1
      <4>2. Append(list', d) \in Seq(Chunks) /\ Len(Append(list', d)) = m + 1
            /\ \A i \in 1..(m + 1) : Append(list', d)[i] = head[i]
        <5>1. Append(list', d) \in Seq(Chunks) /\ Len(Append(list', d)) = m + 1
          BY <1>13, <3>1, <3>2
        <5>2. ASSUME NEW i \in 1..(m + 1)
              PROVE  Append(list', d)[i] = head[i]
          <6>1. CASE i = m + 1
            BY <1>13, <3>1, <3>2, <6>1
          <6>2. CASE i \in 1..m
            BY <1>13, <3>1, <3>2, <6>2
          <6>3. i = m + 1 \/ i \in 1..m
            <7>1. m \in Nat /\ i \in 1..(m + 1)
              BY <3>1, <5>2
            <7>. HIDE DEF m
            <7>. QED  BY <7>1
          <6>. QED  BY <6>1, <6>2, <6>3
        <5>. QED  BY <5>1, <5>2
      <4>. HIDE DEF d
      <4>3. \A i \in 1..(m + 1) : Append(list', d)[i] = SubSeq(head, 1, m + 1)[i]
        BY <4>1, <4>2
      <4>. QED  BY <3>1, <4>1, <4>2, <4>3, SeqEqual
    <3>5. ContextTokens(Append(list', d)) > options.budget
      BY <1>12, <3>1, <3>4
    <3>. HIDE DEF d
    <3>6. c \in Chunks
      BY <1>2
    <3>7. CASE c \in ToSet(head)
      <4>1. PICK k \in 1..Len(head) : head[k] = c
        BY <1>6, <3>7 DEF ToSet
      <4>2. ~(k \in 1..m)
        BY <1>13, <1>18, <4>1 DEF ToSet
      <4>3. k >= m + 1 /\ k \in Int
        BY <3>1, <4>1, <4>2
      <4>4. d = c \/ Final(d, c)
        <5>1. CASE k = m + 1
          BY <4>1, <5>1 DEF d
        <5>2. CASE k # m + 1
          <6>1. <<head[m + 1], head[k]>> \in FinalFirst(scored)
            BY <1>5, <1>6, <3>1, <4>1, <4>3, <5>2 DEF Ordered
          <6>. QED  BY <4>1, <6>1 DEF d, FinalFirst, Final
        <5>. QED  BY <5>1, <5>2
      <4>5. ASSUME NEW b \in ToSet(list')
            PROVE  Final(b, c)
        <5>1. PICK i \in 1..m : list'[i] = b
          BY <1>13 DEF ToSet
        <5>2. i \in 1..Len(head) /\ head[i] = b /\ i < k
          BY <1>13, <3>1, <4>3, <5>1
        <5>3. <<head[i], head[k]>> \in FinalFirst(scored)
          BY <1>5, <1>6, <4>1, <5>2 DEF Ordered
        <5>. QED  BY <4>1, <5>2, <5>3 DEF FinalFirst, Final
      <4>. QED  BY <3>2, <3>3, <3>5, <4>4, <4>5
    <3>8. CASE c \notin ToSet(head)
      <4>1. \A b \in ToSet(head) : Final(b, c)
        BY <1>5, <3>8 DEF FinalFirst, Final
      <4>. QED  BY <1>14, <3>2, <3>3, <3>5, <4>1
    <3>. QED  BY <3>7, <3>8
  <2>. QED  BY <2>1, <2>2
<1>19. AnswerTyped'
  BY <1>1, <1>2, <1>13 DEF AnswerTyped, Stages
<1>20. LeftInv'
  <2>1. OneText'
    BY <1>1, <1>3, <1>6, <1>14 DEF OneText, S
  <2>2. \A c \in Gone' : Excused(c)' \/ Weak(c)' \/ Past(c)'
    <3>. SUFFICES ASSUME NEW c \in Home, c \notin ToSet(list')
                  PROVE  Excused(c)' \/ Weak(c)' \/ Past(c)'
      BY <1>1, SameScores DEF Gone
    <3>1. CASE c \in S
      <4>3. \A d : ContextTokens(Append(list, d))' = ContextTokens(Append(list', d))
        BY <1>1, SameTokens
      <4>4. \A d : Final(d, c)' <=> Final(d, c)
        BY <1>1, SameFinal
      <4>. QED  BY <1>1, <1>18, <3>1, <4>3, <4>4 DEF Past
    <3>2. CASE c \notin S
      <4>1. Excused(c) \/ Weak(c)
        BY <1>3, <3>2 DEF Gone, S
      <4>. QED  BY <1>1, <4>1, SameScores, SameFinal
    <3>. QED  BY <3>1, <3>2
  <2>3. ContextTokens(list)' <= options.budget
    <3>1. ContextTokens(list)' = ContextTokens(list')
      BY <1>1, SameTokens
    <3>. QED  BY <1>1, <1>11, <3>1
  <2>4. Ordered(FinalFirst(scored), list)'
    BY <1>1, <1>15, SameFinal DEF Ordered
  <2>. QED  BY <1>1, <1>15, <1>16, <2>1, <2>2, <2>3, <2>4 DEF LeftInv
<1>21. SafeInv'
  BY <1>1, <1>3, <1>6, <1>14, SameScores DEF SafeInv
<1>. QED  BY <1>19, <1>20, <1>21 DEF AnswerInv

(* The primed Past only differs in the list it is about. *)
LEMMA SamePast ==
  ASSUME UNCHANGED <<store, options, scored, list>>
  PROVE  \A c : Past(c)' <=> Past(c)
<1>1. \A d : ContextTokens(Append(list, d))' = ContextTokens(Append(list, d))
  BY SameTokens
<1>2. \A c, d : Final(d, c)' <=> Final(d, c)
  BY SameFinal
<1>. QED  BY <1>1, <1>2 DEF Past

LEMMA BuildKeeps ==
  ASSUME AnswerInv, Build
  PROVE  AnswerInv'
<1>1. stage = "build" /\ UNCHANGED <<store, options, list, scored, quoted>>
  BY DEF Build
<1>2. /\ AnswerTyped /\ StoreTyped /\ list \in Seq(Chunks) /\ options.budget \in Nat
  BY Optioned DEF AnswerInv, AnswerTyped
<1>3. ContextTokens(list) <= options.budget /\ ContextTokens(list) \in Int
  BY <1>1, <1>2, TokensCount DEF AnswerInv, LeftInv
<1>4. ~(ContextTokens(list) > options.budget)
  BY <1>2, <1>3
<1>5. /\ stage' = "answered" /\ context' = list
      /\ sources' = [doc \in {store[c].doc : c \in ToSet(list)} |->
                       Only({c \in Chunks : store[c].doc = doc}, list)]
  BY <1>4 DEF Build
<1>6. AnswerTyped'
  BY <1>1, <1>2, <1>5 DEF AnswerTyped, Stages
<1>7. LeftInv'
  <2>1. ContextTokens(list)' = ContextTokens(list)
    BY <1>1, SameTokens
  <2>2. /\ OneEach(list) /\ Len(list) <= options.pool /\ OneText
        /\ \A c \in Gone : Excused(c) \/ Weak(c) \/ Past(c)
        /\ Ordered(FinalFirst(scored), list)
    BY <1>1 DEF AnswerInv, LeftInv
  <2>3. Gone' = Gone /\ (OneText' <=> OneText)
    BY <1>1, SameScores DEF Gone, OneText
  <2>4. \A c \in Gone' : Excused(c)' \/ Weak(c)' \/ Past(c)'
    BY <1>1, <2>2, <2>3, SameScores, SameFinal, SamePast
  <2>. QED  BY <1>1, <1>3, <1>5, <2>1, <2>2, <2>3, <2>4, SameFinal DEF LeftInv
<1>8. SafeInv'
  <2>1. ToSet(quoted) \cup ToSet(list) \subseteq Home
    BY <1>1 DEF AnswerInv, SafeInv
  <2>. QED  BY <1>1, <1>5, <2>1, SameScores DEF SafeInv
<1>. QED  BY <1>6, <1>7, <1>8 DEF AnswerInv

LEMMA AnswerStart == AnswerInit => AnswerInv
<1>. SUFFICES ASSUME AnswerInit PROVE AnswerInv
  OBVIOUS
<1>1. AnswerTyped
  BY DEF AnswerInit, AnswerTyped, Stages
<1>2. options.pool \in Nat
  BY <1>1, Optioned
<1>3. LeftInv
  BY <1>2 DEF AnswerInit, LeftInv, OneEach
<1>4. SafeInv
  BY DEF AnswerInit, SafeInv
<1>. QED  BY <1>1, <1>3, <1>4 DEF AnswerInv

LEMMA AnswerStutters ==
  ASSUME AnswerInv, UNCHANGED answerVars
  PROVE  AnswerInv'
<1>1. UNCHANGED <<store, options, stage, list, scored, quoted, context, sources>>
  BY DEF answerVars
<1>2. AnswerTyped'
  BY <1>1 DEF AnswerInv, AnswerTyped
<1>3. LeftInv'
  <2>1. ContextTokens(list)' = ContextTokens(list)
    BY <1>1, SameTokens
  <2>2. Gone' = Gone /\ (OneText' <=> OneText)
    BY <1>1, SameScores DEF Gone, OneText
  <2>3. \A c : (Excused(c)' <=> Excused(c)) /\ (Weak(c)' <=> Weak(c))
    BY <1>1, SameScores, SameFinal
  <2>4. \A c : Past(c)' <=> Past(c)
    BY <1>1, SamePast
  <2>. QED  BY <1>1, <2>1, <2>2, <2>3, <2>4, SameFinal DEF AnswerInv, LeftInv
<1>4. SafeInv'
  BY <1>1, SameScores DEF AnswerInv, SafeInv
<1>. QED  BY <1>2, <1>3, <1>4 DEF AnswerInv

(* The invariant of the pipeline holds of every stage. *)
LEMMA AnswerInductive == AnswerSpec => []AnswerInv
<1>1. AnswerInit => AnswerInv
  BY AnswerStart
<1>2. AnswerInv /\ [AnswerNext]_answerVars => AnswerInv'
  BY GenerateKeeps, RankKeeps, DeduplicateKeeps, DiversifyKeeps, AssembleKeeps, ValidateKeeps,
     AuthorizeKeeps, RerankKeeps, CollapseKeeps, SelectKeeps, BuildKeeps, AnswerStutters
     DEF AnswerNext
<1>. QED  BY <1>1, <1>2, PTL DEF AnswerSpec

(* When a question is answered, a chunk that may be shown and is missing   *)
(* from the answer is missing for a reason: too far down the search, a     *)
(* copy, crowded out of its document, too weak after reranking, or behind  *)
(* what filled the answer.  query_engine.answer with deduplicator,         *)
(* diversifier, reranker, collapser and selector.                          *)
THEOREM AnswerLosesNothing == AnswerSpec => []NothingLost
<1>1. AnswerInv => NothingLost
  <2>. SUFFICES ASSUME AnswerInv, stage = "answered" PROVE NothingLost
    BY DEF NothingLost
  <2>1. /\ context = list /\ list \in Seq(Chunks) /\ OneEach(list) /\ OneText /\ StoreTyped
        /\ Ordered(FinalFirst(scored), list)
        /\ \A c \in Gone : Excused(c) \/ Weak(c) \/ Past(c)
    BY Optioned DEF AnswerInv, SafeInv, LeftInv, AnswerTyped
  <2>2. Cardinality({store[c].text : c \in ToSet(list)}) = Len(list)
    <3>. DEFINE texts == [i \in 1..Len(list) |-> store[list[i]].text]
    <3>1. texts \in Seq({store[c].text : c \in ToSet(list)}) /\ Len(texts) = Len(list)
      BY <2>1 DEF ToSet
    <3>2. OneEach(texts)
      BY <2>1 DEF OneEach, OneText, ToSet
    <3>3. ToSet(texts) = {store[c].text : c \in ToSet(list)}
      BY <2>1 DEF ToSet
    <3>. HIDE DEF texts
    <3>4. Cardinality(ToSet(texts)) = Len(texts)
      BY <3>1, <3>2, ToSetCount
    <3>. QED  BY <3>1, <3>3, <3>4
  <2>3. \A i, j \in DOMAIN list : i < j => Final(list[i], list[j])
    BY <2>1 DEF Ordered, FinalFirst, Final
  <2>4. ASSUME NEW c \in Home \ ToSet(list)
        PROVE  Excused(c) \/ Weak(c) \/ Past(c)
    BY <2>1 DEF Gone
  <2>. QED  BY <2>1, <2>2, <2>3, <2>4
            DEF NothingLost, Excused, Copied, Crowded, Far, Weak, Past
<1>. QED  BY <1>1, AnswerInductive, PTL

(* Whatever the vector store returns and however the knobs are set:        *)
(* nothing from elsewhere is in the answer or quoted once it has been      *)
(* authorized, the context is within its budget, the selector and the      *)
(* builder never disagree about it, and every block is cited under exactly *)
(* one source.  engine.py, validation.py, selector.py, context_builder.py. *)
THEOREM AnswerContextHolds == AnswerSpec => []ContextHolds
<1>1. AnswerInv => ContextHolds
  <2>. SUFFICES ASSUME AnswerInv PROVE ContextHolds
    OBVIOUS
  <2>1. stage \notin {"failed", "refused"}
    BY DEF AnswerInv, AnswerTyped, Stages
  <2>2. stage \in {"authorize", "rerank", "collapse", "select", "build", "answered"} =>
          ToSet(quoted) \cup ToSet(list) \subseteq Home
    BY DEF AnswerInv, SafeInv
  <2>3. ASSUME stage = "answered"
        PROVE  /\ ContextTokens(context) <= options.budget
               /\ UNION {ToSet(sources[doc]) : doc \in DOMAIN sources} = ToSet(context)
               /\ \A doc \in DOMAIN sources :
                    sources[doc] # <<>> /\ \A c \in ToSet(sources[doc]) : store[c].doc = doc
    <3>. DEFINE D == {store[c].doc : c \in ToSet(list)}
                of(doc) == Only({c \in Chunks : store[c].doc = doc}, list)
    <3>1. /\ context = list /\ list \in Seq(Chunks) /\ ContextTokens(list) <= options.budget
          /\ sources = [doc \in D |-> of(doc)]
      BY <2>3 DEF AnswerInv, AnswerTyped, SafeInv, LeftInv
    <3>2. ASSUME NEW doc
          PROVE  ToSet(of(doc)) = {c \in ToSet(list) : store[c].doc = doc}
      <4>1. ToSet(of(doc)) = ToSet(list) \cap {c \in Chunks : store[c].doc = doc}
        BY <3>1, OnlyFacts
      <4>2. ToSet(list) \subseteq Chunks
        BY <3>1 DEF ToSet
      <4>. QED  BY <4>1, <4>2
    <3>. HIDE DEF of
    <3>3. DOMAIN sources = D /\ \A doc \in D : sources[doc] = of(doc)
      BY <3>1
    <3>4. \A doc \in D : ToSet(sources[doc]) = {c \in ToSet(list) : store[c].doc = doc}
      BY <3>2, <3>3
    <3>5. UNION {ToSet(sources[doc]) : doc \in D} = ToSet(list)
      BY <3>4
    <3>6. \A doc \in D : sources[doc] # <<>>
      <4>1. ToSet(<<>>) = {}
        BY DEF ToSet
      <4>2. \A doc \in D : ToSet(sources[doc]) # {}
        BY <3>4
      <4>. QED  BY <4>1, <4>2
    <3>. QED  BY <3>1, <3>3, <3>4, <3>5, <3>6, ZenonT(40)
  <2>. QED  BY <2>1, <2>2, <2>3 DEF ContextHolds
<1>. QED  BY <1>1, AnswerInductive, PTL

-----------------------------------------------------------------------------
(***************************************************************************)
(* The federated search.  FederatedInv knows of a pass which shards have   *)
(* been asked, that what they found is cited, and what each failure was    *)
(* noted as.                                                               *)
(***************************************************************************)

FederatedSpec == FederatedInit /\ [][FederatedNext]_federatedVars

-----------------------------------------------------------------------------
(* What a shard answers, and what becomes of the citations.                *)

Indexed(org) == {p \in Passages : corpus[p].org = org /\ corpus[p].team \in Visible(org)}

LEMMA RetrievedFacts ==
  ASSUME NEW org
  PROVE  /\ Retrieved(org) \in Seq(Passages)
         /\ ToSet(Retrieved(org)) \subseteq Indexed(org)
<1>. DEFINE found == Places(Indexed(org))
            n == Cardinality(Indexed(org))
<1>1. Indexed(org) \subseteq Passages /\ Indexed(org) \subseteq Int /\ IsFiniteSet(Indexed(org))
  <2>1. Indexed(org) \subseteq Passages
    BY DEF Indexed
  <2>2. Passages \subseteq Int /\ IsFiniteSet(Passages)
    BY FederationAssumption
  <2>. QED  BY <2>1, <2>2, FS_Subset
<1>2. Retrieved(org) = Top(TopK, found)
  BY DEF Retrieved, Indexed, Sorted, Places
<1>3. n \in Nat /\ found \in [1..n -> Indexed(org)]
  BY <1>1, ThroughPlaces DEF Through
<1>. HIDE DEF found, n
<1>4. found \in Seq(Passages) /\ ToSet(found) \subseteq Indexed(org)
  BY <1>1, <1>3 DEF ToSet
<1>5. TopK \in Nat
  BY FederationAssumption
<1>. QED  BY <1>2, <1>4, <1>5, TopFacts

LEMMA MergedFacts ==
  ASSUME cited \in Seq(Passages), NEW passages \in Seq(Passages)
  PROVE  /\ Merged(passages) \in Seq(Passages)
         /\ ToSet(cited) \subseteq ToSet(Merged(passages))
         /\ ToSet(Merged(passages)) \subseteq ToSet(cited) \cup ToSet(passages)
         /\ (\A i, j \in DOMAIN cited : Alike(cited[i], cited[j]) => i = j) =>
              \A i, j \in DOMAIN Merged(passages) :
                Alike(Merged(passages)[i], Merged(passages)[j]) => i = j
         /\ \A p \in ToSet(passages) : Similar(p) =>
              \E q \in ToSet(Merged(passages)) : Alike(q, p)
<1>. DEFINE news == {i \in DOMAIN passages :
                       /\ Similar(passages[i])
                       /\ \A q \in ToSet(cited) : ~Alike(q, passages[i])
                       /\ \A j \in 1..(i - 1) : Similar(passages[j]) =>
                                               ~Alike(passages[j], passages[i])}
            added == Picked(news, passages)
            m == Cardinality(news)
            e == Places(news)
            all == Merged(passages)
            n == Len(cited)
<1>1. all = cited \o added
  BY DEF Merged
<1>2. news \subseteq DOMAIN passages
  OBVIOUS
<1>. HIDE DEF news
<1>3. /\ added \in Seq(Passages) /\ Len(added) = m /\ m \in Nat
      /\ \A k \in 1..m : e[k] \in news /\ added[k] = passages[e[k]]
      /\ \A k, l \in 1..m : k < l => e[k] < e[l]
      /\ \A i \in news : \E k \in 1..m : e[k] = i /\ added[k] = passages[i]
  BY <1>2, PickedFacts, SMTT(40)
<1>. HIDE DEF added, m, e, all
<1>. HIDE DEF n
<1>4. /\ n \in Nat /\ all \in Seq(Passages) /\ DOMAIN all = 1..(n + m) /\ DOMAIN cited = 1..n
      /\ \A i \in 1..n : all[i] = cited[i]
      /\ \A k \in 1..m : all[n + k] = added[k]
      /\ ToSet(all) = ToSet(cited) \cup ToSet(added)
  BY <1>1, <1>3, ConcatFacts DEF n
<1>5. DOMAIN cited = 1..n
  BY <1>4
<1>6. ToSet(cited) \subseteq ToSet(all)
  BY <1>4
<1>7. ToSet(all) \subseteq ToSet(cited) \cup ToSet(passages)
  <2>1. ToSet(added) \subseteq ToSet(passages)
    BY <1>2, <1>3 DEF ToSet
  <2>. QED  BY <1>4, <2>1
<1>8. ASSUME NEW k \in 1..m, NEW q \in ToSet(cited)
      PROVE  ~Alike(q, added[k])
  BY <1>3 DEF news
<1>9. ASSUME NEW k \in 1..m, NEW l \in 1..m, k < l
      PROVE  ~Alike(added[k], added[l])
  <2>1. /\ e[k] \in news /\ e[l] \in news /\ e[k] < e[l]
        /\ added[k] = passages[e[k]] /\ added[l] = passages[e[l]]
    BY <1>3, <1>9
  <2>2. e[k] \in 1..(e[l] - 1) /\ Similar(passages[e[k]])
    <3>1. e[k] \in 1..Len(passages) /\ e[l] \in 1..Len(passages)
      BY <1>2, <2>1
    <3>. QED  BY <2>1, <3>1 DEF news
  <2>. QED  BY <2>1, <2>2 DEF news
<1>10. ASSUME \A i, j \in 1..n : Alike(cited[i], cited[j]) => i = j,
              NEW i \in 1..(n + m), NEW j \in 1..(n + m), i < j, Alike(all[i], all[j])
       PROVE  FALSE
  <2>1. CASE j \in 1..n
    <3>1. i \in 1..n
      BY <1>4, <1>10, <2>1
    <3>. QED  BY <1>4, <1>10, <2>1, <3>1
  <2>2. CASE i \in 1..n /\ j \notin 1..n
    <3>1. j - n \in 1..m /\ all[n + (j - n)] = added[j - n] /\ n + (j - n) = j
      BY <1>3, <1>4, <2>2
    <3>2. cited[i] \in ToSet(cited) /\ all[i] = cited[i]
      BY <1>4, <2>2 DEF ToSet
    <3>. QED  BY <1>8, <1>10, <3>1, <3>2
  <2>3. CASE i \notin 1..n /\ j \notin 1..n
    <3>1. i - n \in 1..m /\ j - n \in 1..m /\ i - n < j - n
      BY <1>3, <1>4, <1>10, <2>3
    <3>2. /\ all[n + (i - n)] = added[i - n] /\ n + (i - n) = i
          /\ all[n + (j - n)] = added[j - n] /\ n + (j - n) = j
      <4>1. n + (i - n) = i /\ n + (j - n) = j
        BY <1>3, <1>4
      <4>2. all[n + (i - n)] = added[i - n] /\ all[n + (j - n)] = added[j - n]
        <5>1. \A k \in 1..m : all[n + k] = added[k]
          BY <1>4
        <5>. QED  BY ONLY <3>1, <5>1
      <4>. QED  BY ONLY <4>1, <4>2
    <3>3. ~Alike(added[i - n], added[j - n])
      BY ONLY <1>9, <3>1
    <3>4. all[i] = added[i - n] /\ all[j] = added[j - n]
      BY ONLY <3>2
    <3>. QED  BY <1>10, <3>3, <3>4
  <2>. QED  BY <2>1, <2>2, <2>3
<1>11. ASSUME \A i, j \in DOMAIN cited : Alike(cited[i], cited[j]) => i = j,
              NEW i \in DOMAIN all, NEW j \in DOMAIN all, Alike(all[i], all[j])
       PROVE  i = j
  <2>1. i \in Int /\ j \in Int /\ Alike(all[j], all[i])
    BY <1>4, <1>11 DEF Alike
  <2>2. \A k, l \in 1..n : Alike(cited[k], cited[l]) => k = l
    BY <1>4, <1>11
  <2>3. ~ (i < j) /\ ~ (j < i)
    BY <1>4, <1>10, <1>11, <2>1, <2>2
  <2>. QED  BY <2>1, <2>3
<1>12. ASSUME NEW p \in ToSet(passages), Similar(p)
       PROVE  \E q \in ToSet(all) : Alike(q, p)
  <2>. DEFINE like == {i \in DOMAIN passages : Similar(passages[i]) /\ Alike(passages[i], p)}
  <2>1. like \subseteq 1..Len(passages) /\ like # {} /\ Len(passages) \in Nat
    BY <1>12 DEF ToSet, Alike
  <2>2. IsFiniteSet(like) /\ like \subseteq Int
    BY <2>1, CountTo, FS_Subset
  <2>3. Min(like) \in like /\ \A i \in like : Min(like) <= i
    <3>. HIDE DEF like
    <3>. QED  BY <2>1, <2>2, SmallestExists
  <2>. DEFINE i == Min(like)
  <2>4. i \in 1..Len(passages) /\ Similar(passages[i]) /\ Alike(passages[i], p)
    BY <2>3
  <2>5. CASE \E q \in ToSet(cited) : Alike(q, passages[i])
    BY <1>6, <2>4, <2>5 DEF Alike
  <2>6. CASE \A q \in ToSet(cited) : ~Alike(q, passages[i])
    <3>1. ASSUME NEW j \in 1..(i - 1), Similar(passages[j]), Alike(passages[j], passages[i])
          PROVE  FALSE
      <4>1. j \in DOMAIN passages /\ j < i
        <5>1. i \in 1..Len(passages) /\ DOMAIN passages = 1..Len(passages) /\ Len(passages) \in Nat
          BY <2>1, <2>4
        <5>. HIDE DEF i
        <5>. QED  BY <5>1
      <4>2. j \in like
        BY <2>4, <3>1, <4>1 DEF Alike
      <4>3. j \in Int /\ i \in Int
        BY <2>4
      <4>. HIDE DEF like
      <4>. QED  BY <2>3, <4>1, <4>2, <4>3
    <3>2. i \in news
      BY <2>4, <2>6, <3>1 DEF news
    <3>3. PICK k \in 1..m : added[k] = passages[i]
      BY <1>3, <3>2
    <3>4. all[n + k] = passages[i] /\ n + k \in DOMAIN all
      BY <1>3, <1>4, <3>3
    <3>. QED  BY <2>4, <3>4 DEF ToSet
  <2>. QED  BY <2>5, <2>6
<1>. QED  BY <1>4, <1>6, <1>7, <1>11, <1>12 DEF all
-----------------------------------------------------------------------------
(* What holds between the steps of a search.                               *)

FederatedTyped ==
    /\ corpus \in [Passages -> [org : Shards, team : Teams \cup {Everyone},
                                begins : Beginnings, similar : SUBSET Passes]]
    /\ asker \in [role : Roles, org : Orgs \cup {Nobody}, team : Teams \cup {Nobody},
                  before : BOOLEAN]
    /\ pass \in Passes \cup {"over"}
    /\ todo \subseteq Shards /\ (pass = "over" => todo = {})
    /\ cited \in Seq(Passages)

(* A search asks no shard that is not the asker's. *)
InReach ==
    \A s \in todo : s = Everyone \/ s = asker.org \/ asker.role = "super_admin"

CitedWell ==
    /\ \A p \in ToSet(cited) : MayRead(p)
    /\ \A i, j \in DOMAIN cited : Alike(cited[i], cited[j]) => i = j

(* What the shards found so far in this pass is cited. *)
Covered(which) == \A p \in FoundIn(which) : \E q \in ToSet(cited) : Alike(q, p)

InPrimary ==
    pass = "primary" =>
      /\ \A s \in Shards : <<"contextual", s>> \notin answered \cup broken
      /\ Covered("primary")

InContextual ==
    pass = "contextual" =>
      /\ \/ Everyone \in todo
         \/ <<"contextual", Everyone>> \in answered \cup broken
      /\ FoundIn("primary") = {} /\ Covered("contextual")
      /\ status = "ok" => \A s \in Shards : <<"primary", s>> \notin broken

FederatedInv ==
    /\ FederatedTyped /\ InReach /\ CitedWell
    /\ InPrimary /\ InContextual /\ FederationHolds

LEMMA FederatedStart == FederatedInit => FederatedInv
<1>. SUFFICES ASSUME FederatedInit PROVE FederatedInv
  OBVIOUS
<1>1. PICK listed \in BOOLEAN : todo = Targets(listed) \cup {Everyone}
  BY DEF FederatedInit
<1>2. Targets(listed) \subseteq Shards
  BY DEF Targets, FederatedInit, Shards
<1>3. InReach
  BY <1>1 DEF InReach, Targets
<1>4. FederatedTyped
  BY <1>1, <1>2 DEF FederatedTyped, FederatedInit, Shards, Passes
<1>5. cited = <<>> /\ answered = {} /\ broken = {} /\ pass = "primary"
  BY DEF FederatedInit
<1>6. CitedWell /\ InPrimary /\ InContextual /\ FederationHolds
  BY <1>5 DEF CitedWell, InPrimary, InContextual, FederationHolds, Covered, FoundIn, ToSet
<1>. QED  BY <1>3, <1>4, <1>6 DEF FederatedInv

LEMMA SameRetrieved ==
  ASSUME UNCHANGED <<corpus, asker>>, NEW org
  PROVE  Retrieved(org)' = Retrieved(org)
  BY DEF Retrieved, Visible, Sorted

LEMMA SameFound ==
  ASSUME UNCHANGED <<corpus, asker>>, NEW which
  PROVE  FoundIn(which)' =
           {p \in Passages : which \in corpus[p].similar /\
              \E s \in Shards : <<which, s>> \in answered' /\ p \in ToSet(Retrieved(s))}
<1>1. \A s : Retrieved(s)' = Retrieved(s)
  BY SameRetrieved
<1>2. \A s : ToSet(Retrieved(s))' = ToSet(Retrieved(s))
  BY <1>1 DEF ToSet
<1>. QED  BY <1>2 DEF FoundIn

(* A turn: the shard is one the asker may ask, and the pass goes on. *)
LEMMA TurnFacts ==
  ASSUME FederatedInv, NEW shard \in Shards, Turn(shard)
  PROVE  /\ pass \in Passes /\ UNCHANGED <<corpus, asker, pass, status>>
         /\ cited' \in Seq(Passages) => FederatedTyped'
         /\ InReach' /\ FederationHolds'
         /\ shard = Everyone \/ shard = asker.org \/ asker.role = "super_admin"
         /\ Everyone \in todo => Everyone \in todo' \/ shard = Everyone
<1>1. /\ shard \in todo /\ todo' = todo \ {shard}
      /\ UNCHANGED <<corpus, asker, pass, status>>
  BY DEF Turn
<1>2. pass \in Passes
  BY <1>1 DEF FederatedInv, FederatedTyped
<1>3. cited' \in Seq(Passages) => FederatedTyped'
  BY <1>1 DEF FederatedInv, FederatedTyped
<1>4. InReach'
  BY <1>1 DEF FederatedInv, InReach
<1>5. FederationHolds'
  BY <1>1, <1>2 DEF FederationHolds, Passes
<1>6. shard = Everyone \/ shard = asker.org \/ asker.role = "super_admin"
  BY <1>1 DEF FederatedInv, InReach
<1>. QED  BY <1>1, <1>2, <1>3, <1>4, <1>5, <1>6

LEMMA SameReach ==
  ASSUME UNCHANGED <<corpus, asker>>, NEW p
  PROVE  MayRead(p)' <=> MayRead(p)
  BY DEF MayRead

LEMMA AskKeeps ==
  ASSUME FederatedInv, NEW shard \in Shards, Ask(shard)
  PROVE  FederatedInv'
<1>. DEFINE more == Retrieved(shard)
<1>1. /\ Turn(shard) /\ cited' = Merged(more)
      /\ answered' = answered \cup {<<pass, shard>>} /\ broken' = broken
  BY DEF Ask
<1>2. /\ pass \in Passes /\ UNCHANGED <<corpus, asker, pass, status>>
      /\ cited' \in Seq(Passages) => FederatedTyped'
      /\ InReach' /\ FederationHolds'
      /\ shard = Everyone \/ shard = asker.org \/ asker.role = "super_admin"
      /\ Everyone \in todo => Everyone \in todo' \/ shard = Everyone
  BY <1>1, TurnFacts
<1>3. more \in Seq(Passages) /\ ToSet(more) \subseteq Indexed(shard)
  BY RetrievedFacts
<1>4. cited \in Seq(Passages) /\ CitedWell
  BY DEF FederatedInv, FederatedTyped
<1>. HIDE DEF more
<1>5. /\ cited' \in Seq(Passages)
      /\ ToSet(cited) \subseteq ToSet(cited')
      /\ ToSet(cited') \subseteq ToSet(cited) \cup ToSet(more)
      /\ (\A i, j \in DOMAIN cited : Alike(cited[i], cited[j]) => i = j) =>
           \A i, j \in DOMAIN cited' : Alike(cited'[i], cited'[j]) => i = j
      /\ \A p \in ToSet(more) : Similar(p) => \E q \in ToSet(cited') : Alike(q, p)
  BY <1>1, <1>3, <1>4, MergedFacts
<1>6. \A p, q : Alike(p, q)' <=> Alike(p, q)
  BY <1>2 DEF Alike
<1>7. FederatedTyped'
  BY <1>2, <1>5
<1>8. CitedWell'
  <2>1. ASSUME NEW p \in ToSet(cited')
        PROVE  MayRead(p)'
    <3>1. CASE p \in ToSet(cited)
      BY <1>2, <1>4, <3>1, SameReach DEF CitedWell
    <3>2. CASE p \in ToSet(more)
      <4>1. p \in Passages /\ corpus[p].org = shard /\ corpus[p].team \in Visible(shard)
        BY <1>3, <3>2 DEF Indexed
      <4>2. MayRead(p)
        <5>1. CASE shard = Everyone
          BY <4>1, <5>1 DEF MayRead, Visible
        <5>2. CASE shard # Everyone
          BY <1>2, <4>1, <5>2 DEF MayRead, Visible
        <5>. QED  BY <5>1, <5>2
      <4>. QED  BY <1>2, <4>2, SameReach
    <3>. QED  BY <1>5, <2>1, <3>1, <3>2
  <2>2. \A i, j \in DOMAIN cited' : Alike(cited[i], cited[j])' => i = j
    BY <1>2, <1>4, <1>5 DEF CitedWell, Alike
  <2>. QED  BY <2>1, <2>2 DEF CitedWell
<1>9. \A which : which # pass => FoundIn(which)' = FoundIn(which)
  BY <1>1, <1>2, SameFound DEF FoundIn
<1>10. ASSUME Covered(pass)
       PROVE  Covered(pass)'
  <2>1. ASSUME NEW p \in FoundIn(pass)'
        PROVE  \E q \in ToSet(cited') : Alike(q, p)
    <3>1. p \in Passages /\ pass \in corpus[p].similar
          /\ \E s \in Shards : <<pass, s>> \in answered' /\ p \in ToSet(Retrieved(s))
      BY <1>2, <2>1, SameFound
    <3>2. PICK s \in Shards : <<pass, s>> \in answered' /\ p \in ToSet(Retrieved(s))
      BY <3>1
    <3>3. CASE s = shard
      BY <1>5, <3>1, <3>2, <3>3 DEF Similar, more
    <3>4. CASE s # shard
      <4>1. p \in FoundIn(pass)
        BY <1>1, <3>1, <3>2, <3>4 DEF FoundIn
      <4>. QED  BY <1>5, <1>10, <4>1 DEF Covered
    <3>. QED  BY <3>3, <3>4
  <2>. QED  BY <1>2, <1>6, <2>1 DEF Covered
<1>11. InPrimary'
  <2>. SUFFICES ASSUME pass = "primary" PROVE InPrimary'
    BY <1>2 DEF InPrimary
  <2>1. (\A s \in Shards : <<"contextual", s>> \notin answered \cup broken) /\ Covered(pass)
    BY DEF FederatedInv, InPrimary
  <2>. QED  BY <1>1, <1>2, <1>10, <2>1 DEF InPrimary
<1>12. InContextual'
  <2>. SUFFICES ASSUME pass = "contextual" PROVE InContextual'
    BY <1>2 DEF InContextual
  <2>1. /\ Everyone \in todo \/ <<pass, Everyone>> \in answered \cup broken
        /\ FoundIn("primary") = {} /\ Covered(pass)
        /\ status = "ok" => \A s \in Shards : <<"primary", s>> \notin broken
    BY DEF FederatedInv, InContextual
  <2>2. Everyone \in todo' \/ <<pass, Everyone>> \in answered' \cup broken'
    BY <1>1, <1>2, <2>1
  <2>3. FoundIn("primary")' = {} /\ Covered(pass)'
    BY <1>9, <1>10, <2>1
  <2>. QED  BY <1>1, <1>2, <2>1, <2>2, <2>3 DEF InContextual
<1>. QED  BY <1>2, <1>7, <1>8, <1>11, <1>12 DEF FederatedInv

LEMMA ShardFailsKeeps ==
  ASSUME FederatedInv, NEW shard \in Shards, ShardFails(shard)
  PROVE  FederatedInv'
<1>1. /\ Turn(shard) /\ cited' = cited /\ answered' = answered
      /\ broken' = broken \cup {<<pass, shard>>}
  BY DEF ShardFails
<1>2. /\ pass \in Passes /\ UNCHANGED <<corpus, asker, pass, status>>
      /\ cited' \in Seq(Passages) => FederatedTyped'
      /\ InReach' /\ FederationHolds'
      /\ Everyone \in todo => Everyone \in todo' \/ shard = Everyone
  BY <1>1, TurnFacts
<1>3. FederatedTyped' /\ CitedWell'
  BY <1>1, <1>2, SameReach DEF FederatedInv, FederatedTyped, CitedWell, Alike
<1>4. \A which : FoundIn(which)' = FoundIn(which) /\ (Covered(which) => Covered(which)')
  <2>. TAKE which
  <2>1. FoundIn(which)' = FoundIn(which)
    BY <1>1, <1>2, SameFound DEF FoundIn
  <2>. QED  BY <1>1, <1>2, <2>1 DEF Covered, Alike
<1>5. InPrimary'
  <2>. SUFFICES ASSUME pass = "primary" PROVE InPrimary'
    BY <1>2 DEF InPrimary
  <2>1. (\A s \in Shards : <<"contextual", s>> \notin answered \cup broken) /\ Covered(pass)
    BY DEF FederatedInv, InPrimary
  <2>. QED  BY <1>1, <1>2, <1>4, <2>1 DEF InPrimary
<1>6. InContextual'
  <2>. SUFFICES ASSUME pass = "contextual" PROVE InContextual'
    BY <1>2 DEF InContextual
  <2>1. /\ Everyone \in todo \/ <<pass, Everyone>> \in answered \cup broken
        /\ FoundIn("primary") = {} /\ Covered(pass)
        /\ status = "ok" => \A s \in Shards : <<"primary", s>> \notin broken
    BY DEF FederatedInv, InContextual
  <2>2. Everyone \in todo' \/ <<pass, Everyone>> \in answered' \cup broken'
    BY <1>1, <1>2, <2>1
  <2>3. FoundIn("primary")' = {} /\ Covered(pass)'
    <3>1. FoundIn("primary")' = FoundIn("primary") /\ (Covered(pass) => Covered(pass)')
      BY <1>4, <1>2
    <3>. QED  BY <2>1, <3>1
  <2>4. status' = "ok" => \A s \in Shards : <<"primary", s>> \notin broken'
    BY <1>1, <1>2, <2>1
  <2>. QED  BY <1>2, <2>2, <2>3, <2>4 DEF InContextual
<1>. QED  BY <1>2, <1>3, <1>5, <1>6 DEF FederatedInv

(* The status of a pass that says "ok". *)
LEMMA StatusFacts ==
  /\ PassStatus # "failed" => \E s \in Shards : <<pass, s>> \in answered
  /\ PassStatus = "ok" => \A s \in Shards : <<pass, s>> \notin broken
<1>1. {s \in Shards : <<pass, s>> \in answered} # {} => \E s \in Shards : <<pass, s>> \in answered
  OBVIOUS
<1>2. {s \in Shards : <<pass, s>> \in broken} = {} => \A s \in Shards : <<pass, s>> \notin broken
  OBVIOUS
<1>. QED  BY <1>1, <1>2 DEF PassStatus

LEMMA EndPassKeeps ==
  ASSUME FederatedInv, EndPass
  PROVE  FederatedInv'
<1>1. /\ pass \in Passes /\ todo = {}
      /\ UNCHANGED <<corpus, asker, answered, broken>>
      /\ status' = IF pass = "primary" THEN PassStatus
                   ELSE IF PassStatus = "failed" /\ status = "ok" THEN "failed" ELSE status
  BY DEF EndPass, FederatedInv, FederatedTyped
<1>2. \A which : FoundIn(which)' = FoundIn(which)
  BY <1>1, SameFound DEF FoundIn
<1>3. FederatedTyped /\ CitedWell
  BY DEF FederatedInv
<1>4. CASE pass = "primary" /\ cited = <<>> /\ asker.before
  <2>1. Begin("contextual")
    BY <1>4 DEF EndPass
  <2>2. PICK listed \in BOOLEAN : todo' = Targets(listed) \cup {Everyone}
    BY <2>1 DEF Begin
  <2>3. pass' = "contextual" /\ cited' = <<>>
    BY <2>1 DEF Begin
  <2>4. Targets(listed) \subseteq Shards
    BY <1>3 DEF Targets, FederatedTyped, Shards
  <2>5. FederatedTyped' /\ InReach'
    <3>1. todo' \subseteq Shards
      BY <2>2, <2>4 DEF Shards
    <3>2. FederatedTyped'
      BY <1>1, <1>3, <2>3, <3>1 DEF FederatedTyped, Passes
    <3>3. InReach'
      BY <1>1, <2>2 DEF InReach, Targets
    <3>. QED  BY <3>2, <3>3
  <2>6. CitedWell' /\ InPrimary' /\ FederationHolds'
    BY <2>3 DEF CitedWell, InPrimary, FederationHolds, ToSet
  <2>7. /\ \A s \in Shards : <<"contextual", s>> \notin answered \cup broken
        /\ Covered("primary")
    BY <1>4 DEF FederatedInv, InPrimary
  <2>8. FoundIn("primary") = {} /\ FoundIn("contextual") = {}
    <3>1. FoundIn("contextual") = {}
      BY <2>7 DEF FoundIn
    <3>2. ToSet(cited) = {}
      BY <1>4 DEF ToSet
    <3>. QED  BY <2>7, <3>1, <3>2 DEF Covered
  <2>9. status' = "ok" => \A s \in Shards : <<"primary", s>> \notin broken
    BY <1>1, <1>4, StatusFacts
  <2>10. InContextual'
    <3>1. FoundIn("primary")' = {} /\ FoundIn("contextual")' = {}
      BY <1>2, <2>8
    <3>2. Covered("contextual")'
      BY <3>1 DEF Covered
    <3>. QED  BY <1>1, <2>2, <2>9, <3>1, <3>2 DEF InContextual
  <2>. QED  BY <2>5, <2>6, <2>10 DEF FederatedInv
<1>5. CASE ~(pass = "primary" /\ cited = <<>> /\ asker.before)
  <2>1. pass' = "over" /\ UNCHANGED <<todo, cited>>
    BY <1>5 DEF EndPass
  <2>2. FederatedTyped' /\ InReach' /\ CitedWell' /\ InPrimary' /\ InContextual'
    <3>1. FederatedTyped' /\ InReach'
      BY <1>1, <1>3, <2>1 DEF FederatedTyped, InReach
    <3>2. CitedWell'
      BY <1>1, <1>3, <2>1, SameReach DEF CitedWell, Alike
    <3>. QED  BY <2>1, <3>1, <3>2 DEF InPrimary, InContextual
  <2>. DEFINE last == IF \E s \in Shards : <<"contextual", s>> \in answered \cup broken
                      THEN "contextual" ELSE "primary"
  <2>3. last = pass
    <3>1. CASE pass = "primary"
      BY <3>1 DEF FederatedInv, InPrimary
    <3>2. CASE pass = "contextual"
      BY <1>1, <3>2 DEF FederatedInv, InContextual, Shards
    <3>. QED  BY <1>1, <3>1, <3>2 DEF Passes
  <2>4. Covered(pass) /\ (pass = "contextual" => FoundIn("primary") = {})
    BY <1>1 DEF FederatedInv, InPrimary, InContextual, Passes
  <2>5. status' = "ok" => /\ \A s \in Shards : <<"primary", s>> \notin broken
                          /\ \E s \in Shards : <<pass, s>> \in answered
    <3>1. CASE pass = "primary"
      BY <1>1, <3>1, StatusFacts
    <3>2. CASE pass = "contextual"
      <4>1. status' = "ok" => status = "ok" /\ PassStatus # "failed"
        BY <1>1, <3>2
      <4>2. status = "ok" => \A s \in Shards : <<"primary", s>> \notin broken
        BY <3>2 DEF FederatedInv, InContextual
      <4>. QED  BY <4>1, <4>2, StatusFacts
    <3>. QED  BY <1>1, <3>1, <3>2 DEF Passes
  <2>6. cited = <<>> /\ asker.before => pass = "contextual"
    BY <1>1, <1>5 DEF Passes
  <2>7. /\ \A p \in ToSet(cited) : MayRead(p)
        /\ \A i, j \in DOMAIN cited : Alike(cited[i], cited[j]) => i = j
    BY <1>3 DEF CitedWell
  <2>8. FederationHolds'
    <3>1. /\ \A p \in FoundIn(last)' : \E q \in ToSet(cited) : Alike(q, p)
          /\ last = "contextual" => FoundIn("primary")' = {}
          /\ cited = <<>> /\ asker.before => last = "contextual"
          /\ status' = "ok" => /\ \A s \in Shards : <<"primary", s>> \notin broken
                               /\ \E s \in Shards : <<last, s>> \in answered
      <4>1. FoundIn(last)' = FoundIn(last)
        BY <1>2, <2>3, <1>1
      <4>2. FoundIn("primary")' = FoundIn("primary")
        BY <1>2
      <4>. QED  BY <2>3, <2>4, <2>5, <2>6, <4>1, <4>2 DEF Covered
    <3>2. \A p \in ToSet(cited) : MayRead(p)'
      BY <1>1, <2>7, SameReach
    <3>. QED  BY <1>1, <2>1, <2>7, <3>1, <3>2 DEF FederationHolds, Alike
  <2>. QED  BY <2>2, <2>8 DEF FederatedInv
<1>. QED  BY <1>4, <1>5

(* Whatever shards fail, the search as a whole keeps its promises: nobody  *)
(* is shown a passage that is not theirs to see, no two citations begin    *)
(* alike, what the shards found in the last pass is cited, nothing is      *)
(* cited only if no pass found anything, and "ok" means that no shard      *)
(* failed in the first pass and one answered in the last.                  *)
(* FederatedSearchService.search.                                          *)
THEOREM FederatedWhole == FederatedSpec => []FederationHolds
<1>1. FederatedInit => FederatedInv
  BY FederatedStart
<1>2. FederatedInv /\ [FederatedNext]_federatedVars => FederatedInv'
  <2>. SUFFICES ASSUME FederatedInv, [FederatedNext]_federatedVars
                PROVE  FederatedInv'
    OBVIOUS
  <2>1. CASE UNCHANGED federatedVars
    <3>1. UNCHANGED <<corpus, asker, pass, todo, cited, status, answered, broken>>
      BY <2>1 DEF federatedVars
    <3>2. \A which : FoundIn(which)' = FoundIn(which)
      BY <3>1, SameFound DEF FoundIn
    <3>3. FederatedTyped' /\ InReach' /\ CitedWell'
      BY <3>1, SameReach DEF FederatedInv, FederatedTyped, InReach, CitedWell, Alike
    <3>4. InPrimary' /\ InContextual'
      BY <3>1, <3>2 DEF FederatedInv, InPrimary, InContextual, Covered, Alike
    <3>5. FederationHolds'
      <4>1. \A p : MayRead(p)' <=> MayRead(p)
        BY <3>1, SameReach
      <4>. QED  BY <3>1, <3>2, <4>1 DEF FederatedInv, FederationHolds, Alike
    <3>. QED  BY <3>3, <3>4, <3>5 DEF FederatedInv
  <2>2. CASE FederatedNext
    BY <2>2, AskKeeps, ShardFailsKeeps, EndPassKeeps DEF FederatedNext
  <2>. QED  BY <2>1, <2>2
<1>3. FederatedInv => FederationHolds
  BY DEF FederatedInv
<1>. QED  BY <1>1, <1>2, <1>3, PTL DEF FederatedSpec
================================================================================
