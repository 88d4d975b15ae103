--------------------------- MODULE RecordingsProofs ---------------------------
(***************************************************************************)
(* Proofs about Recordings, for all sets of requests, backends, paths and  *)
(* prefixes.                                                               *)
(***************************************************************************)
EXTENDS Recordings, SequenceTheorems, FiniteSetTheorems, WellFoundedInduction, TLAPS

-----------------------------------------------------------------------------
(* Induction over the positions of a sequence. *)

LEMMA LeastNumber ==
    ASSUME NEW S, S \subseteq Nat, S # {}
    PROVE  \E m \in S : \A n \in S : m <= n
<1>1. PICK m \in S : \A n \in S : ~ (<<n, m>> \in OpToRel(<, Nat))
  BY WFMin, NatLessThanWellFounded
<1>2. \A n \in S : n \in Nat /\ m \in Nat /\ ~ (n < m)
  BY <1>1, Zenon DEF OpToRel
<1>3. QED
  BY <1>2

(* What holds at 0 and goes from each number to the next holds up to n. *)
LEMMA UpTo ==
    ASSUME NEW n \in Nat, NEW G, 0 \in G, \A i \in 1..n : i - 1 \in G => i \in G
    PROVE  \A i \in 0..n : i \in G
<1> DEFINE Bad == {i \in 0..n : i \notin G}
<1> SUFFICES ASSUME Bad # {} PROVE FALSE
  OBVIOUS
<1>1. PICK m \in Bad : \A i \in Bad : m <= i
  <2>1. Bad \subseteq Nat
    OBVIOUS
  <2> HIDE DEF Bad
  <2>2. QED
    BY <2>1, LeastNumber
<1>2. m \in 1..n /\ m - 1 \notin Bad
  BY <1>1
<1>3. QED
  BY <1>1, <1>2

(* A recursive function on the positions exists, and stays in a set that its *)
(* steps do not leave.                                                       *)
StepsTo(g, m, S, base, H) ==
    /\ g \in [0..m -> S] /\ g[0] = base
    /\ \A i \in 1..m : g[i] = H[<<g[i - 1], i>>]

LEMMA StepsExist ==
    ASSUME NEW S, NEW base \in S, NEW n \in Nat, NEW H \in [S \X (1..n) -> S]
    PROVE  \E g : StepsTo(g, n, S, base, H)
<1> DEFINE G == {m \in 0..n : \E g : StepsTo(g, m, S, base, H)}
<1>1. 0 \in G
  <2>1. StepsTo([i \in 0..0 |-> base], 0, S, base, H)
    BY DEF StepsTo
  <2>2. QED
    BY <2>1
<1>2. ASSUME NEW m \in 1..n, m - 1 \in G
      PROVE  m \in G
  <2>1. PICK g : StepsTo(g, m - 1, S, base, H)
    BY <1>2
  <2> DEFINE h == [i \in 0..m |-> IF i = m THEN H[<<g[m - 1], m>>] ELSE g[i]]
  <2>2. m \in Nat /\ m # 0 /\ m - 1 \in 0..(m - 1) /\ m \in 1..n
    OBVIOUS
  <2>3. g[m - 1] \in S /\ H[<<g[m - 1], m>>] \in S
    BY <2>1, <2>2 DEF StepsTo
  <2>4. h \in [0..m -> S]
    BY <2>1, <2>2, <2>3 DEF StepsTo
  <2>5. h[0] = base /\ h[m] = H[<<h[m - 1], m>>]
    <3>1. m \in 0..m /\ m - 1 \in 0..m /\ m - 1 # m /\ 0 \in 0..m /\ 0 # m
      BY <2>2
    <3>2. h[0] = g[0] /\ h[m] = H[<<g[m - 1], m>>] /\ h[m - 1] = g[m - 1]
      BY <3>1
    <3> HIDE DEF h
    <3>3. g[0] = base
      BY <2>1 DEF StepsTo
    <3>4. QED
      BY <3>2, <3>3
  <2>6. ASSUME NEW i \in 1..m, i # m PROVE h[i] = H[<<h[i - 1], i>>]
    <3>1. i \in 1..(m - 1) /\ i \in 0..m /\ i - 1 \in 0..m /\ i - 1 # m
      BY <2>6
    <3>2. h[i] = g[i] /\ h[i - 1] = g[i - 1]
      BY <2>6, <3>1
    <3> HIDE DEF h
    <3>3. g[i] = H[<<g[i - 1], i>>]
      BY <2>1, <3>1 DEF StepsTo
    <3>4. QED
      BY <3>2, <3>3
  <2>7. StepsTo(h, m, S, base, H)
    BY <2>4, <2>5, <2>6 DEF StepsTo
  <2>8. QED
    BY <2>2, <2>7
<1> HIDE DEF G
<1>3. n \in G
  BY <1>1, <1>2, UpTo
<1>4. QED
  BY <1>3 DEF G

LEMMA RemovedAt ==
    ASSUME NEW T, NEW s \in Seq(T), NEW i \in 1..Len(s)
    PROVE  RemoveAt(s, i) \in Seq(T) /\ Len(RemoveAt(s, i)) = Len(s) - 1
<1>1. SubSeq(s, 1, i - 1) \in Seq(T) /\ Len(SubSeq(s, 1, i - 1)) = i - 1
  OBVIOUS
<1>2. SubSeq(s, i + 1, Len(s)) \in Seq(T) /\ Len(SubSeq(s, i + 1, Len(s))) = Len(s) - i
  BY SubSeqProperties
<1>3. PICK a, b : a = SubSeq(s, 1, i - 1) /\ b = SubSeq(s, i + 1, Len(s))
  OBVIOUS
<1>4. a \o b \in Seq(T) /\ Len(a \o b) = Len(s) - 1
  <2>1. a \in Seq(T) /\ b \in Seq(T) /\ Len(a) = i - 1 /\ Len(b) = Len(s) - i
    BY <1>1, <1>2, <1>3
  <2>2. QED
    BY <2>1
<1>5. QED
  BY <1>3, <1>4 DEF RemoveAt

-----------------------------------------------------------------------------
(* Paths and their segments. *)

(* The segments there can be of tokens in T. *)
SegmentsOf(T) == {s \in Seq(T) : s # <<>> /\ \A i \in 1..Len(s) : s[i] \notin Separators}

(* What Cuts computes at each token of a path. *)
CutAt(path, cut, i) ==
    IF path[i] \in Separators THEN cut
    ELSE IF cut = <<>> \/ path[i - 1] \in Separators THEN Append(cut, <<path[i]>>)
    ELSE [cut EXCEPT ![Len(cut)] = Append(@, path[i])]
IsCuts(path, cut) ==
    cut = [i \in 0..Len(path) |->
             IF i = 0 THEN <<>>
             ELSE IF path[i] \in Separators THEN cut[i - 1]
             ELSE IF cut[i - 1] = <<>> \/ path[i - 1] \in Separators THEN Append(cut[i - 1], <<path[i]>>)
             ELSE [cut[i - 1] EXCEPT ![Len(cut[i - 1])] = Append(@, path[i])]]

LEMMA SegmentsGrow ==
    ASSUME NEW T, NEW s \in SegmentsOf(T), NEW token \in T, token \notin Separators
    PROVE  Append(s, token) \in SegmentsOf(T)
<1>1. s \in Seq(T) /\ \A i \in 1..Len(s) : s[i] \notin Separators
  BY DEF SegmentsOf
<1>2. Append(s, token) \in Seq(T) /\ Append(s, token) # <<>>
  BY <1>1
<1>3. \A i \in 1..Len(Append(s, token)) : Append(s, token)[i] \notin Separators
  BY <1>1
<1>4. QED
  BY <1>2, <1>3 DEF SegmentsOf

LEMMA CutsStay ==
    ASSUME NEW T, NEW path \in Seq(T), NEW cut \in Seq(SegmentsOf(T)), NEW i \in 1..Len(path)
    PROVE  CutAt(path, cut, i) \in Seq(SegmentsOf(T))
<1>1. CASE path[i] \in Separators
  BY <1>1 DEF CutAt
<1>2. CASE path[i] \notin Separators /\ (cut = <<>> \/ path[i - 1] \in Separators)
  <2>1. path[i] \in T
    OBVIOUS
  <2>2. <<path[i]>> \in SegmentsOf(T)
    BY <1>2, <2>1 DEF SegmentsOf
  <2>3. QED
    BY <1>2, <2>2 DEF CutAt
<1>3. CASE path[i] \notin Separators /\ ~(cut = <<>> \/ path[i - 1] \in Separators)
  <2>1. CutAt(path, cut, i) = [cut EXCEPT ![Len(cut)] = Append(@, path[i])]
    BY <1>3 DEF CutAt
  <2>2. Len(cut) \in 1..Len(cut)
    BY <1>3
  <2>3. cut[Len(cut)] \in SegmentsOf(T) /\ path[i] \in T
    BY <2>2
  <2>4. Append(cut[Len(cut)], path[i]) \in SegmentsOf(T)
    BY <1>3, <2>3, SegmentsGrow
  <2>5. QED
    BY <2>1, <2>2, <2>4, ExceptSeq
<1>4. QED
  BY <1>1, <1>2, <1>3

(* Cuts is what its definition says, and its values are segments.  (A lemma  *)
(* is needed because a recursive function is a CHOOSE.)                      *)
LEMMA CutsAreSteps ==
    ASSUME NEW T, NEW path \in Seq(T)
    PROVE  /\ Cuts(path)[0] = <<>>
           /\ \A i \in 1..Len(path) : Cuts(path)[i] = CutAt(path, Cuts(path)[i - 1], i)
           /\ \A i \in 0..Len(path) : Cuts(path)[i] \in Seq(SegmentsOf(T))
<1> DEFINE n == Len(path)
           S == Seq(SegmentsOf(T))
           H == [x \in S \X (1..n) |-> CutAt(path, x[1], x[2])]
<1>1. n \in Nat /\ <<>> \in S /\ \A i \in 1..n : i - 1 \in 0..n /\ i \in 0..n /\ i # 0
  OBVIOUS
<1>2. \A cut \in S, i \in 1..n : CutAt(path, cut, i) \in S
  BY CutsStay
<1> HIDE DEF S, n
<1>3. H \in [S \X (1..n) -> S]
  BY <1>2
<1>4. \A cut \in S, i \in 1..n : H[<<cut, i>>] = CutAt(path, cut, i)
  OBVIOUS
<1> HIDE DEF H
<1>5. PICK g : StepsTo(g, n, S, <<>>, H)
  BY <1>1, <1>3, StepsExist
<1>6. IsCuts(path, g)
  <2>1. g = [i \in 0..n |-> g[i]] /\ g[0] = <<>>
    BY <1>5 DEF StepsTo
  <2>2. ASSUME NEW i \in 1..n PROVE g[i] = CutAt(path, g[i - 1], i)
    BY <1>1, <1>4, <1>5 DEF StepsTo
  <2>3. \A i \in 0..n : i = 0 \/ i \in 1..n
    BY <1>1
  <2>4. QED
    BY <2>1, <2>2, <2>3 DEF IsCuts, CutAt, n
<1>7. Cuts(path) = CHOOSE cut : IsCuts(path, cut)
  BY DEF Cuts, IsCuts
<1>8. IsCuts(path, Cuts(path))
  BY <1>6, <1>7
<1>9. Cuts(path)[0] = <<>> /\ \A i \in 1..n : Cuts(path)[i] = CutAt(path, Cuts(path)[i - 1], i)
  <2>1. Cuts(path) = [i \in 0..n |-> IF i = 0 THEN <<>> ELSE CutAt(path, Cuts(path)[i - 1], i)]
    BY <1>8 DEF IsCuts, CutAt, n
  <2>2. 0 \in 0..n
    BY <1>1
  <2>3. QED
    BY <1>1, <2>1, <2>2
<1>10. \A i \in 0..n : Cuts(path)[i] \in S
  <2> DEFINE G == {i \in 0..n : Cuts(path)[i] \in S}
  <2>1. 0 \in G /\ \A i \in 1..n : i - 1 \in G => i \in G
    BY <1>1, <1>2, <1>9
  <2> HIDE DEF G
  <2>2. \A i \in 0..n : i \in G
    BY <1>1, <2>1, UpTo
  <2>3. QED
    BY <2>2 DEF G
<1>11. QED
  BY <1>9, <1>10 DEF S, n

LEMMA PartsGrow ==
    ASSUME NEW T, NEW path \in Seq(T), NEW m \in 0..Len(path), NEW j \in 1..(Len(path) - m)
    PROVE  /\ SubSeq(path, m + 1, m + j) \in Seq(T)
           /\ j = 1 => SubSeq(path, m + 1, m + j) = <<path[m + j]>>
           /\ j # 1 => SubSeq(path, m + 1, m + j)
                         = Append(SubSeq(path, m + 1, m + (j - 1)), path[m + j])
<1>1. /\ m + 1 \in 1..Len(path) /\ m + j \in (m + 1)..Len(path)
      /\ (m + j) - 1 = m + (j - 1)
  OBVIOUS
<1>2. SubSeq(path, m + 1, m + j) = SubSeq(path, m + 1, m + (j - 1)) \o <<path[m + j]>>
  BY <1>1, SubSeqRecursiveSecond
<1>3. /\ SubSeq(path, m + 1, m + j) \in Seq(T)
      /\ SubSeq(path, m + 1, m + (j - 1)) \in Seq(T)
  BY <1>1
<1>4. j = 1 => SubSeq(path, m + 1, m + (j - 1)) = <<>>
  BY <1>1, SubSeqEmpty
<1>5. path[m + j] \in T
  BY <1>1
<1>6. /\ <<>> \o <<path[m + j]>> = <<path[m + j]>>
      /\ SubSeq(path, m + 1, m + (j - 1)) \o <<path[m + j]>>
            = Append(SubSeq(path, m + 1, m + (j - 1)), path[m + j])
  BY <1>3, <1>5, AppendIsConcat
<1>7. QED
  BY <1>2, <1>3, <1>4, <1>6

LEMMA LastIsReplaced ==
    ASSUME NEW U, NEW s \in Seq(U), NEW a \in U, NEW b \in U
    PROVE  /\ Append(s, a) # <<>>
           /\ Append(s, a)[Len(Append(s, a))] = a
           /\ [Append(s, a) EXCEPT ![Len(Append(s, a))] = b] = Append(s, b)
<1> DEFINE t == Append(s, a)
<1>1. t \in Seq(U) /\ Len(t) = Len(s) + 1 /\ t # <<>> /\ t[Len(t)] = a
      /\ \A i \in 1..Len(s) : t[i] = s[i]
  OBVIOUS
<1> HIDE DEF t
<1>2. /\ [t EXCEPT ![Len(t)] = b] \in Seq(U) /\ Len([t EXCEPT ![Len(t)] = b]) = Len(s) + 1
      /\ \A i \in 1..Len(t) : [t EXCEPT ![Len(t)] = b][i] = IF i = Len(t) THEN b ELSE t[i]
  BY <1>1, ExceptSeq
<1>3. /\ Append(s, b) \in Seq(U) /\ Len(Append(s, b)) = Len(s) + 1
      /\ \A i \in 1..(Len(s) + 1) : Append(s, b)[i] = IF i = Len(s) + 1 THEN b ELSE s[i]
  OBVIOUS
<1>4. [t EXCEPT ![Len(t)] = b] = Append(s, b)
  <2>1. PICK u, v : u = [t EXCEPT ![Len(t)] = b] /\ v = Append(s, b)
    OBVIOUS
  <2>2. /\ u \in Seq(U) /\ v \in Seq(U) /\ Len(u) = Len(v)
        /\ \A i \in 1..Len(u) : u[i] = v[i]
    BY <1>1, <1>2, <1>3, <2>1
  <2>3. QED
    BY <2>1, <2>2, SeqEqual
<1>5. QED
  BY <1>1, <1>4 DEF t

(* A last segment: what comes after a separator and holds none. *)
LEMMA CutsGoOn ==
    ASSUME NEW T, NEW path \in Seq(T), NEW m \in 0..Len(path),
           m = 0 \/ path[m] \in Separators,
           \A i \in (m + 1)..Len(path) : path[i] \notin Separators
    PROVE  \A j \in 1..(Len(path) - m) :
               Cuts(path)[m + j] = Append(Cuts(path)[m], SubSeq(path, m + 1, m + j))
<1> DEFINE n == Len(path) - m
           cut == Cuts(path)
           before == cut[m]
           Part(j) == SubSeq(path, m + 1, m + j)
           G == {j \in 0..n : j # 0 => cut[m + j] = Append(before, Part(j))}
<1>1. /\ n \in Nat
      /\ cut[0] = <<>> /\ before \in Seq(SegmentsOf(T))
      /\ \A i \in 1..Len(path) : cut[i] = CutAt(path, cut[i - 1], i)
  BY CutsAreSteps
<1>2. 0 \in G
  BY <1>1
<1>3. ASSUME NEW j \in 1..n, j - 1 \in G PROVE j \in G
  <2>1. m + j \in 1..Len(path) /\ (m + j) - 1 = m + (j - 1) /\ path[m + j] \notin Separators
    BY <1>1
  <2>2. cut[m + j] = CutAt(path, cut[m + (j - 1)], m + j)
    BY <1>1, <2>1
  <2>3. /\ Part(j) \in Seq(T) /\ (j = 1 => Part(j) = <<path[m + j]>>)
        /\ (j # 1 => Part(j) = Append(Part(j - 1), path[m + j]))
        /\ (j # 1 => Part(j - 1) \in Seq(T))
    <3>1. j \in 1..(Len(path) - m) /\ (j # 1 => j - 1 \in 1..(Len(path) - m))
      BY <1>1
    <3>2. \A i \in 1..(Len(path) - m) :
             /\ Part(i) \in Seq(T) /\ (i = 1 => Part(i) = <<path[m + i]>>)
             /\ i # 1 => Part(i) = Append(Part(i - 1), path[m + i])
      BY PartsGrow
    <3> HIDE DEF Part
    <3>3. QED
      BY <3>1, <3>2
  <2>4. cut[m + j] = Append(before, Part(j))
    <3>1. CASE j = 1
      <4>1. m + (j - 1) = m /\ (before = <<>> \/ path[m] \in Separators)
        BY <1>1, <3>1
      <4> HIDE DEF Part
      <4>2. QED
        BY <2>1, <2>2, <2>3, <3>1, <4>1 DEF CutAt
    <3>2. CASE j # 1
      <4>1. cut[m + (j - 1)] = Append(before, Part(j - 1))
        BY <1>3, <3>2
      <4>2. path[(m + j) - 1] \notin Separators
        BY <2>1, <3>2
      <4>3. before \in Seq(Seq(T))
        <5>1. SegmentsOf(T) \subseteq Seq(T)
          BY DEF SegmentsOf
        <5>2. QED
          BY <1>1, <5>1, SeqMonotonic
      <4> HIDE DEF Part, before
      <4> DEFINE last == Append(before, Part(j - 1))
      <4>4. /\ last # <<>> /\ last[Len(last)] = Part(j - 1)
            /\ [last EXCEPT ![Len(last)] = Part(j)] = Append(before, Part(j))
        <5>1. PICK U, a, b : U = Seq(T) /\ a = Part(j - 1) /\ b = Part(j)
          OBVIOUS
        <5>2. before \in Seq(U) /\ a \in U /\ b \in U
          BY <2>3, <3>2, <4>3, <5>1
        <5>3. /\ Append(before, a) # <<>>
              /\ Append(before, a)[Len(Append(before, a))] = a
              /\ [Append(before, a) EXCEPT ![Len(Append(before, a))] = b] = Append(before, b)
          BY <5>2, LastIsReplaced
        <5>4. QED
          BY <5>1, <5>3
      <4>5. cut[m + j] = CutAt(path, last, m + j)
        BY <2>2, <4>1
      <4> HIDE DEF last
      <4>6. cut[m + j] = [last EXCEPT ![Len(last)] = Append(@, path[m + j])]
        BY <2>1, <4>2, <4>4, <4>5 DEF CutAt
      <4>7. QED
        BY <2>3, <3>2, <4>4, <4>6
    <3>3. QED
      BY <3>1, <3>2
  <2>5. QED
    BY <1>1, <2>4
<1> HIDE DEF G
<1>4. \A j \in 0..n : j \in G
  BY <1>1, <1>2, <1>3, UpTo
<1>5. QED
  BY <1>1, <1>4 DEF G

LEMMA SegmentsAreSegments ==
    ASSUME NEW T, NEW path \in Seq(T)
    PROVE  Segments(path) \in Seq(SegmentsOf(T))
  BY CutsAreSteps DEF Segments

(* A segment is its own only segment. *)
LEMMA SegmentOfASegment ==
    ASSUME NEW T, NEW s \in SegmentsOf(T)
    PROVE  Segments(s) = <<s>>
<1>1. PICK m : m = 0
  OBVIOUS
<1>2. /\ s \in Seq(T) /\ m \in 0..Len(s) /\ Len(s) \in 1..(Len(s) - m)
      /\ \A i \in (m + 1)..Len(s) : s[i] \notin Separators
  BY <1>1 DEF SegmentsOf
<1>3. \A j \in 1..(Len(s) - m) : Cuts(s)[m + j] = Append(Cuts(s)[m], SubSeq(s, m + 1, m + j))
  BY <1>1, <1>2, CutsGoOn, Zenon
<1>4. Cuts(s)[m + Len(s)] = Append(Cuts(s)[m], SubSeq(s, m + 1, m + Len(s)))
  BY <1>2, <1>3, Zenon
<1>5. m + 1 = 1 /\ m + Len(s) = Len(s) /\ SubSeq(s, 1, Len(s)) = s
  BY <1>1, <1>2
<1>6. Cuts(s)[m] = <<>>
  BY <1>1, <1>2, CutsAreSteps
<1>7. Cuts(s)[Len(s)] = Append(<<>>, s)
  BY <1>4, <1>5, <1>6, Zenon
<1>8. Append(<<>>, s) = <<s>>
  OBVIOUS
<1>9. QED
  BY <1>7, <1>8, Zenon DEF Segments

(* Another segment after a separator. *)
LEMMA SegmentsOfMore ==
    ASSUME NEW T, "/" \in T, NEW path \in Seq(T), NEW s \in SegmentsOf(T)
    PROVE  Segments(path \o <<"/">> \o s) = Append(Segments(path), s)
<1> DEFINE more == path \o <<"/">> \o s
           m == Len(path) + 1
<1>1. /\ s \in Seq(T) /\ Len(s) \in Nat \ {0} /\ Len(path) \in Nat
      /\ \A i \in 1..Len(s) : s[i] \notin Separators
  BY DEF SegmentsOf
<1>2. /\ more \in Seq(T) /\ Len(more) = m + Len(s)
      /\ \A i \in 1..Len(path) : more[i] = path[i]
      /\ more[m] = "/"
      /\ \A i \in 1..Len(s) : more[m + i] = s[i]
  BY <1>1
<1> HIDE DEF more
<1>3. m \in 1..Len(more) /\ more[m] \in Separators /\ Len(more) - m = Len(s)
  BY <1>1, <1>2 DEF Separators
<1>4. \A i \in 0..Len(path) : Cuts(more)[i] = Cuts(path)[i]
  <2> DEFINE G == {i \in 0..Len(path) : Cuts(more)[i] = Cuts(path)[i]}
  <2>1. 0 \in G
    BY <1>1, <1>2, CutsAreSteps
  <2>2. ASSUME NEW i \in 1..Len(path), i - 1 \in G PROVE i \in G
    <3>1. i \in 1..Len(more) /\ more[i] = path[i] /\ (i # 1 => more[i - 1] = path[i - 1])
      <4>1. Len(path) <= Len(more) /\ (i # 1 => i - 1 \in 1..Len(path))
        BY <1>1, <1>2
      <4>2. QED
        BY <1>1, <1>2, <4>1
    <3>2. /\ Cuts(more)[i] = CutAt(more, Cuts(path)[i - 1], i)
          /\ Cuts(path)[i] = CutAt(path, Cuts(path)[i - 1], i)
      BY <1>2, <2>2, <3>1, CutsAreSteps
    <3>3. i = 1 => Cuts(path)[i - 1] = <<>>
      BY CutsAreSteps
    <3>4. QED
      BY <3>1, <3>2, <3>3 DEF CutAt
  <2> HIDE DEF G
  <2>3. \A i \in 0..Len(path) : i \in G
    BY <1>1, <2>1, <2>2, UpTo
  <2>4. QED
    BY <2>3 DEF G
<1>5. Cuts(more)[m] = Segments(path)
  <2>1. Cuts(more)[m] = CutAt(more, Cuts(more)[m - 1], m) /\ m - 1 = Len(path)
    BY <1>1, <1>2, <1>3, CutsAreSteps
  <2>2. CutAt(more, Cuts(more)[m - 1], m) = Cuts(more)[m - 1]
    BY <1>3 DEF CutAt
  <2>3. QED
    BY <1>1, <1>4, <2>1, <2>2 DEF Segments
<1>6. Cuts(more)[m + Len(s)] = Append(Cuts(more)[m], SubSeq(more, m + 1, m + Len(s)))
  <2>1. \A i \in (m + 1)..Len(more) : more[i] \notin Separators
    <3>1. ASSUME NEW i \in (m + 1)..Len(more) PROVE more[i] \notin Separators
      <4>1. i - m \in 1..Len(s) /\ m + (i - m) = i
        BY <1>1, <1>2
      <4>2. QED
        BY <1>1, <1>2, <4>1
    <3>2. QED
      BY <3>1
  <2>2. m \in 0..Len(more) /\ Len(s) \in 1..(Len(more) - m)
    BY <1>1, <1>3
  <2> HIDE DEF m
  <2>3. QED
    <3>1. \A j \in 1..(Len(more) - m) :
             Cuts(more)[m + j] = Append(Cuts(more)[m], SubSeq(more, m + 1, m + j))
      BY <1>2, <1>3, <2>1, <2>2, CutsGoOn, Zenon
    <3>2. QED
      BY <2>2, <3>1, Zenon
<1>7. SubSeq(more, m + 1, m + Len(s)) = s
  <2>1. PICK a, t : a = m /\ t = SubSeq(more, a + 1, a + Len(s))
    OBVIOUS
  <2> HIDE DEF m
  <2>2. a \in Nat /\ Len(more) = a + Len(s)
    BY <1>1, <1>2, <1>3, <2>1
  <2>3. t \in Seq(T) /\ Len(t) = Len(s) /\ \A i \in 1..Len(s) : t[i] = more[a + i]
    BY <1>1, <1>2, <2>1, <2>2
  <2>4. \A i \in 1..Len(s) : t[i] = s[i]
    BY <1>2, <2>1, <2>3
  <2>5. t = s
    BY <1>1, <2>3, <2>4, SeqEqual
  <2>6. QED
    BY <2>1, <2>5
<1>8. QED
  BY <1>2, <1>5, <1>6, <1>7 DEF Segments, more

-----------------------------------------------------------------------------
(* Joining segments, and walking along them. *)

JoinAt(segments, join, i) ==
    IF i = 1 THEN segments[1] ELSE join \o <<"/">> \o segments[i]
IsJoins(segments, join) ==
    join = [i \in 0..Len(segments) |->
              IF i = 0 THEN <<>>
              ELSE IF i = 1 THEN segments[1] ELSE join[i - 1] \o <<"/">> \o segments[i]]

LEMMA JoinsAreSteps ==
    ASSUME NEW T, "/" \in T, NEW segments \in Seq(SegmentsOf(T))
    PROVE  /\ Joins(segments)[0] = <<>>
           /\ \A i \in 1..Len(segments) : Joins(segments)[i] = JoinAt(segments, Joins(segments)[i - 1], i)
           /\ \A i \in 0..Len(segments) : Joins(segments)[i] \in Seq(T)
<1> DEFINE n == Len(segments)
           S == Seq(T)
           H == [x \in S \X (1..n) |-> JoinAt(segments, x[1], x[2])]
<1>1. n \in Nat /\ <<>> \in S /\ \A i \in 1..n : i - 1 \in 0..n /\ i \in 0..n /\ i # 0
  OBVIOUS
<1>2. \A join \in S, i \in 1..n : JoinAt(segments, join, i) \in S
  <2>1. \A i \in 1..n : segments[i] \in Seq(T)
    BY DEF SegmentsOf
  <2>2. <<"/">> \in Seq(T)
    OBVIOUS
  <2>3. QED
    BY <2>1, <2>2 DEF JoinAt
<1> HIDE DEF S, n
<1>3. H \in [S \X (1..n) -> S]
  BY <1>2
<1>4. \A join \in S, i \in 1..n : H[<<join, i>>] = JoinAt(segments, join, i)
  OBVIOUS
<1> HIDE DEF H
<1>5. PICK g : StepsTo(g, n, S, <<>>, H)
  BY <1>1, <1>3, StepsExist
<1>6. IsJoins(segments, g)
  <2>1. g = [i \in 0..n |-> g[i]] /\ g[0] = <<>>
    BY <1>5 DEF StepsTo
  <2>2. ASSUME NEW i \in 1..n PROVE g[i] = JoinAt(segments, g[i - 1], i)
    BY <1>1, <1>4, <1>5 DEF StepsTo
  <2>3. \A i \in 0..n : i = 0 \/ i \in 1..n
    BY <1>1
  <2>4. QED
    BY <2>1, <2>2, <2>3 DEF IsJoins, JoinAt, n
<1>7. Joins(segments) = CHOOSE join : IsJoins(segments, join)
  BY DEF Joins, IsJoins
<1>8. IsJoins(segments, Joins(segments))
  BY <1>6, <1>7
<1>9. /\ Joins(segments)[0] = <<>>
      /\ \A i \in 1..n : Joins(segments)[i] = JoinAt(segments, Joins(segments)[i - 1], i)
  <2>1. Joins(segments) = [i \in 0..n |-> IF i = 0 THEN <<>>
                                        ELSE JoinAt(segments, Joins(segments)[i - 1], i)]
    BY <1>8 DEF IsJoins, JoinAt, n
  <2>2. 0 \in 0..n
    BY <1>1
  <2>3. QED
    BY <1>1, <2>1, <2>2
<1>10. \A i \in 0..n : Joins(segments)[i] \in S
  <2> DEFINE G == {i \in 0..n : Joins(segments)[i] \in S}
  <2>1. 0 \in G /\ \A i \in 1..n : i - 1 \in G => i \in G
    BY <1>1, <1>2, <1>9
  <2> HIDE DEF G
  <2>2. \A i \in 0..n : i \in G
    BY <1>1, <2>1, UpTo
  <2>3. QED
    BY <2>2 DEF G
<1>11. QED
  BY <1>9, <1>10 DEF S, n

(* Splitting undoes joining. *)
LEMMA SegmentsOfJoined ==
    ASSUME NEW T, "/" \in T, NEW segments \in Seq(SegmentsOf(T))
    PROVE  Joined(segments) \in Seq(T) /\ Segments(Joined(segments)) = segments
<1> DEFINE n == Len(segments)
           G == {i \in 0..n : Segments(Joins(segments)[i]) = SubSeq(segments, 1, i)}
<1>1. n \in Nat
  OBVIOUS
<1>2. 0 \in G
  <2>1. Joins(segments)[0] = <<>> /\ Len(<<>>) = 0 /\ <<>> \in Seq(T)
    BY JoinsAreSteps
  <2>2. Segments(<<>>) = <<>>
    BY <2>1, CutsAreSteps DEF Segments
  <2>3. SubSeq(segments, 1, 0) = <<>>
    BY SubSeqEmpty
  <2>4. PICK join, part : join = Joins(segments)[0] /\ part = SubSeq(segments, 1, 0)
    OBVIOUS
  <2>5. Segments(join) = part
    BY <2>1, <2>2, <2>3, <2>4
  <2>6. Segments(Joins(segments)[0]) = SubSeq(segments, 1, 0)
    BY <2>4, <2>5, Zenon
  <2>7. QED
    BY <1>1, <2>6
<1>3. ASSUME NEW i \in 1..n, i - 1 \in G PROVE i \in G
  <2> DEFINE join == Joins(segments)[i - 1]
  <2>1. i - 1 \in 0..n /\ join \in Seq(T) /\ segments[i] \in SegmentsOf(T)
    BY JoinsAreSteps
  <2>2. Joins(segments)[i] = JoinAt(segments, join, i)
    BY JoinsAreSteps
  <2>3. Segments(join) = SubSeq(segments, 1, i - 1)
    BY <1>3
  <2> HIDE DEF join
  <2>4. Segments(JoinAt(segments, join, i)) = SubSeq(segments, 1, i)
    <3>1. CASE i = 1
      <4>1. SubSeq(segments, 1, 1) = <<segments[1]>>
        <5>1. SubSeq(segments, 0 + 1, 0 + 1) = <<segments[0 + 1]>>
          <6>1. 0 \in 0..Len(segments) /\ 1 \in 1..(Len(segments) - 0)
            BY <1>1, <3>1
          <6>2. QED
            BY <6>1, PartsGrow
        <5>2. 0 + 1 = 1
          OBVIOUS
        <5>3. QED
          BY <5>1, <5>2
      <4>2. QED
        BY <2>1, <3>1, <4>1, SegmentOfASegment DEF JoinAt
    <3>2. CASE i # 1
      <4>1. Segments(JoinAt(segments, join, i)) = Append(SubSeq(segments, 1, i - 1), segments[i])
        BY <2>1, <2>3, <3>2, SegmentsOfMore DEF JoinAt
      <4>2. SubSeq(segments, 0 + 1, 0 + i) = Append(SubSeq(segments, 0 + 1, 0 + (i - 1)), segments[0 + i])
        <5>1. 0 \in 0..Len(segments) /\ i \in 1..(Len(segments) - 0)
          OBVIOUS
        <5>2. QED
          BY <3>2, <5>1, PartsGrow
      <4>3. 0 + 1 = 1 /\ 0 + i = i /\ 0 + (i - 1) = i - 1
        OBVIOUS
      <4>4. QED
        BY <4>1, <4>2, <4>3
    <3>3. QED
      BY <3>1, <3>2
  <2>5. QED
    BY <2>2, <2>4
<1> HIDE DEF G
<1>4. n \in G
  <2>1. \A i \in 0..n : i \in G
    BY <1>1, <1>2, <1>3, UpTo
  <2>2. QED
    BY <1>1, <2>1
<1>5. Segments(Joins(segments)[n]) = SubSeq(segments, 1, n)
  BY <1>4 DEF G
<1>6. SubSeq(segments, 1, n) = segments /\ Joins(segments)[n] \in Seq(T)
  BY <1>1, JoinsAreSteps, SubSeqFull
<1>7. QED
  BY <1>5, <1>6 DEF Joined

(* Resolved stays among sequences of segments, and goes into the only segment *)
(* of a path that is one.                                                     *)
WalkFrom(base, path) == IF path # <<>> /\ path[1] \in Separators THEN <<>> ELSE base
IsWalk(base, path, at) ==
    at = [i \in 0..Len(Segments(path)) |->
            IF i = 0
            THEN IF path # <<>> /\ path[1] \in Separators THEN <<>> ELSE base
            ELSE Into(at[i - 1], Segments(path)[i])]

LEMMA WalkIsSteps ==
    ASSUME NEW T, NEW base \in Seq(SegmentsOf(T)), NEW path \in Seq(T)
    PROVE  /\ Walk(base, path)[0] = WalkFrom(base, path)
           /\ \A i \in 1..Len(Segments(path)) :
                  Walk(base, path)[i] = Into(Walk(base, path)[i - 1], Segments(path)[i])
           /\ \A i \in 0..Len(Segments(path)) : Walk(base, path)[i] \in Seq(SegmentsOf(T))
<1> DEFINE n == Len(Segments(path))
           S == Seq(SegmentsOf(T))
           at == Walk(base, path)
           H == [x \in S \X (1..n) |-> Into(x[1], Segments(path)[x[2]])]
<1>1. /\ n \in Nat /\ WalkFrom(base, path) \in S
      /\ \A i \in 1..n : i - 1 \in 0..n /\ i \in 0..n /\ i # 0
  BY SegmentsAreSegments DEF WalkFrom
<1>2. \A x \in S, i \in 1..n : Into(x, Segments(path)[i]) \in S
  <2>1. \A i \in 1..n : Segments(path)[i] \in SegmentsOf(T)
    BY SegmentsAreSegments
  <2>2. \A x \in S : x # <<>> => Front(x) \in S
    BY DEF Front
  <2>3. QED
    BY <2>1, <2>2 DEF Into
<1> HIDE DEF S, n
<1>3. H \in [S \X (1..n) -> S]
  BY <1>2
<1>4. \A x \in S, i \in 1..n : H[<<x, i>>] = Into(x, Segments(path)[i])
  OBVIOUS
<1> HIDE DEF H
<1>5. PICK g : StepsTo(g, n, S, WalkFrom(base, path), H)
  BY <1>1, <1>3, StepsExist
<1>6. IsWalk(base, path, g)
  <2>1. g = [i \in 0..n |-> g[i]] /\ g[0] = WalkFrom(base, path)
    BY <1>5 DEF StepsTo
  <2>2. ASSUME NEW i \in 1..n PROVE g[i] = Into(g[i - 1], Segments(path)[i])
    BY <1>1, <1>4, <1>5 DEF StepsTo
  <2>3. \A i \in 0..n : i = 0 \/ i \in 1..n
    BY <1>1
  <2>4. QED
    BY <2>1, <2>2, <2>3 DEF IsWalk, WalkFrom, n
<1>7. at = CHOOSE w : IsWalk(base, path, w)
  BY DEF Walk, IsWalk
<1>8. IsWalk(base, path, at)
  BY <1>6, <1>7
<1> HIDE DEF at
<1>9. at[0] = WalkFrom(base, path) /\ \A i \in 1..n : at[i] = Into(at[i - 1], Segments(path)[i])
  <2>1. at = [i \in 0..n |-> IF i = 0 THEN WalkFrom(base, path)
                            ELSE Into(at[i - 1], Segments(path)[i])]
    BY <1>8 DEF IsWalk, WalkFrom, n
  <2>2. 0 \in 0..n
    BY <1>1
  <2>3. QED
    BY <1>1, <2>1, <2>2
<1>10. \A i \in 0..n : at[i] \in S
  <2> DEFINE G == {i \in 0..n : at[i] \in S}
  <2>1. 0 \in G /\ \A i \in 1..n : i - 1 \in G => i \in G
    BY <1>1, <1>2, <1>9
  <2> HIDE DEF G
  <2>2. \A i \in 0..n : i \in G
    BY <1>1, <2>1, UpTo
  <2>3. QED
    BY <2>2 DEF G
<1>11. QED
  BY <1>9, <1>10 DEF S, n, at

LEMMA ResolvedIsSegments ==
    ASSUME NEW T, NEW base \in Seq(SegmentsOf(T)), NEW path \in Seq(T)
    PROVE  Resolved(base, path) \in Seq(SegmentsOf(T))
  BY WalkIsSteps, SegmentsAreSegments DEF Resolved

LEMMA ResolvedGoesIn ==
    ASSUME NEW T, NEW base \in Seq(SegmentsOf(T)), NEW s \in SegmentsOf(T), s \notin Dots
    PROVE  Resolved(base, s) = Append(base, s)
<1>1. s \in Seq(T) /\ s # <<>> /\ s[1] \notin Separators
  BY DEF SegmentsOf
<1>2. Segments(s) = <<s>>
  BY SegmentOfASegment
<1>3. Walk(base, s)[0] = base
  BY <1>1, WalkIsSteps DEF WalkFrom
<1>4. Walk(base, s)[1] = Into(Walk(base, s)[0], s)
  <2>1. Len(Segments(s)) = 1 /\ 1 \in 1..Len(Segments(s)) /\ 1 - 1 = 0 /\ Segments(s)[1] = s
    BY <1>2
  <2>2. Walk(base, s)[1] = Into(Walk(base, s)[1 - 1], Segments(s)[1])
    BY <1>1, <2>1, WalkIsSteps
  <2>3. QED
    BY <2>1, <2>2
<1>5. Into(base, s) = Append(base, s)
  BY DEF Into, Dots
<1>6. QED
  BY <1>2, <1>3, <1>4, <1>5 DEF Resolved

IsUrlWalk(segments, at) ==
    at = [i \in 0..Len(segments) |-> IF i = 0 THEN Root ELSE Resolved(at[i - 1], segments[i])]

(* A URL of segments that are no dots goes into each of them. *)
LEMMA UrlGoesIn ==
    ASSUME NEW T, "rec" \in T, NEW segments \in Seq(SegmentsOf(T)),
           \A i \in 1..Len(segments) : segments[i] \notin Dots
    PROVE  UrlWalk(segments)[Len(segments)] = Root \o segments
<1> DEFINE n == Len(segments)
           S == Seq(SegmentsOf(T))
           at == UrlWalk(segments)
           H == [x \in S \X (1..n) |-> Resolved(x[1], segments[x[2]])]
<1>1. n \in Nat /\ \A i \in 1..n : i - 1 \in 0..n /\ i \in 0..n /\ i # 0
  OBVIOUS
<1>2. Root \in S
  <2>1. <<"rec">> \in SegmentsOf(T)
    BY DEF SegmentsOf, Separators
  <2>2. QED
    BY <2>1 DEF Root
<1>3. \A x \in S, i \in 1..n : Resolved(x, segments[i]) = Append(x, segments[i])
  BY ResolvedGoesIn
<1>4. \A x \in S, i \in 1..n : Append(x, segments[i]) \in S
  OBVIOUS
<1> HIDE DEF S, n
<1>5. H \in [S \X (1..n) -> S]
  BY <1>3, <1>4
<1>6. \A x \in S, i \in 1..n : H[<<x, i>>] = Resolved(x, segments[i])
  OBVIOUS
<1> HIDE DEF H
<1>7. PICK g : StepsTo(g, n, S, Root, H)
  BY <1>1, <1>2, <1>5, StepsExist
<1>8. IsUrlWalk(segments, g)
  <2>1. g = [i \in 0..n |-> g[i]] /\ g[0] = Root
    BY <1>7 DEF StepsTo
  <2>2. ASSUME NEW i \in 1..n PROVE g[i] = Resolved(g[i - 1], segments[i])
    BY <1>1, <1>6, <1>7 DEF StepsTo
  <2>3. \A i \in 0..n : i = 0 \/ i \in 1..n
    BY <1>1
  <2>4. QED
    BY <2>1, <2>2, <2>3 DEF IsUrlWalk, n
<1>9. at = CHOOSE w : IsUrlWalk(segments, w)
  BY DEF UrlWalk, IsUrlWalk
<1>10. IsUrlWalk(segments, at)
  BY <1>8, <1>9
<1> HIDE DEF at
<1>11. at[0] = Root /\ \A i \in 1..n : at[i] = Resolved(at[i - 1], segments[i])
  <2>1. at = [i \in 0..n |-> IF i = 0 THEN Root ELSE Resolved(at[i - 1], segments[i])]
    BY <1>10 DEF IsUrlWalk, n
  <2>2. 0 \in 0..n
    BY <1>1
  <2>3. QED
    BY <1>1, <2>1, <2>2
<1>12. n \in {i \in 0..n : at[i] = Root \o SubSeq(segments, 1, i)}
  <2> DEFINE G == {i \in 0..n : at[i] = Root \o SubSeq(segments, 1, i)}
  <2>1. 0 \in G
    <3>1. SubSeq(segments, 1, 0) = <<>>
      BY SubSeqEmpty
    <3>2. Root \o <<>> = Root
      BY <1>2 DEF S
    <3>3. at[0] = Root \o SubSeq(segments, 1, 0)
      BY <1>11, <3>1, <3>2, Zenon
    <3>4. QED
      BY <1>1, <3>3
  <2>2. ASSUME NEW i \in 1..n, i - 1 \in G PROVE i \in G
    <3>1. at[i - 1] = Root \o SubSeq(segments, 1, i - 1) /\ i \in 1..Len(segments)
      BY <1>1, <2>2 DEF n
    <3>2. /\ SubSeq(segments, 1, i) = SubSeq(segments, 1, i - 1) \o <<segments[i]>>
          /\ SubSeq(segments, 1, i - 1) \in S
          /\ <<segments[i]>> \in S
      BY <3>1, SubSeqRecursiveSecond DEF S
    <3>3. PICK part : part = SubSeq(segments, 1, i - 1)
      OBVIOUS
    <3>4. Root \o part \in S
      BY <1>2, <3>2, <3>3 DEF S
    <3>5. at[i] = Append(Root \o part, segments[i])
      BY <1>3, <1>11, <3>1, <3>3, <3>4
    <3>6. Append(Root \o part, segments[i]) = (Root \o part) \o <<segments[i]>>
      BY <3>1, <3>4, AppendIsConcat DEF S
    <3>7. (Root \o part) \o <<segments[i]>> = Root \o (part \o <<segments[i]>>)
      <4>1. PICK U, r, last : U = SegmentsOf(T) /\ r = Root /\ last = <<segments[i]>>
        OBVIOUS
      <4>2. r \in Seq(U) /\ part \in Seq(U) /\ last \in Seq(U)
        BY <1>2, <3>2, <3>3, <4>1 DEF S
      <4>3. (r \o part) \o last = r \o (part \o last)
        BY <4>2, ConcatAssociative
      <4>4. QED
        BY <4>1, <4>3
    <3>8. at[i] = Root \o SubSeq(segments, 1, i)
      BY <3>2, <3>3, <3>5, <3>6, <3>7
    <3>9. QED
      BY <1>1, <3>8
  <2> HIDE DEF G
  <2>3. \A i \in 0..n : i \in G
    BY <1>1, <2>1, <2>2, UpTo
  <2>4. QED
    BY <1>1, <2>3 DEF G
<1>13. at[n] = Root \o SubSeq(segments, 1, n)
  BY <1>12
<1>14. SubSeq(segments, 1, n) = segments
  BY SubSeqFull DEF n
<1>15. QED
  BY <1>13, <1>14 DEF at, n

-----------------------------------------------------------------------------
(* What a URL asks for, and the name of a file. *)

(* The tokens there can be once those of T are unescaped. *)
Plainer(T) == T \union {".", "/", "\\", "sg", "rec"}

LEMMA SafeSegmentsAreSegments ==
    ASSUME NEW T, NEW path \in Seq(T), SafePath(path)
    PROVE  LET safe == safeRecordingPathSegments(path)
           IN  /\ safe \in Seq(SegmentsOf(Plainer(T))) /\ safe # <<>>
               /\ \A i \in 1..Len(safe) : safe[i] \notin Dots
<1> DEFINE U == Plainer(T)
           parts == Segments(path)
           safe == safeRecordingPathSegments(path)
<1>1. parts \in Seq(SegmentsOf(T)) /\ parts # <<>>
  BY SegmentsAreSegments DEF SafePath
<1>2. ASSUME NEW i \in 1..Len(parts)
      PROVE  Decoded(parts[i]) \in SegmentsOf(U) /\ Decoded(parts[i]) \notin Dots
  <2> DEFINE s == parts[i]
             d == Decoded(s)
  <2>1. s \in SegmentsOf(T) /\ s \in Seq(T) /\ s # <<>>
    <3>1. parts[i] \in SegmentsOf(T)
      <4> HIDE DEF parts
      <4>1. QED
        BY <1>1
    <3>2. \A x \in SegmentsOf(T) : x \in Seq(T) /\ x # <<>>
      BY DEF SegmentsOf
    <3>3. QED
      BY <3>1, <3>2
  <2>2. SafeSegment(s)
    <3>1. DOMAIN parts = 1..Len(parts)
      BY <1>1
    <3>2. s \in ToSet(parts)
      BY <3>1 DEF ToSet
    <3>3. QED
      BY <3>2 DEF SafePath
  <2> HIDE DEF s
  <2>3. d \in Seq(U) /\ Len(d) = Len(s)
    <3>1. Len(s) \in Nat /\ DOMAIN s = 1..Len(s) /\ \A j \in 1..Len(s) : s[j] \in T
      BY <2>1
    <3>2. d = [j \in 1..Len(s) |-> IF s[j] \in DOMAIN Unescaped THEN Unescaped[s[j]] ELSE s[j]]
      BY <3>1 DEF Decoded
    <3>3. \A x \in DOMAIN Unescaped : Unescaped[x] \in U
      BY DEF Unescaped, Plainer
    <3>4. \A j \in 1..Len(s) : (IF s[j] \in DOMAIN Unescaped THEN Unescaped[s[j]] ELSE s[j]) \in U
      BY <3>1, <3>3 DEF Plainer
    <3> HIDE DEF d, U
    <3>5. QED
      BY <3>1, <3>2, <3>4
  <2> HIDE DEF d
  <2>4. d # <<>> /\ \A j \in 1..Len(d) : d[j] \notin Separators
    <3>1. ~Contains(d, "/") /\ ~Contains(d, "\\")
      BY <2>2 DEF SafeSegment, d
    <3>2. QED
      BY <2>1, <2>3, <3>1 DEF Contains, Separators
  <2>5. d \notin Dots
    BY <2>2 DEF SafeSegment, d
  <2>6. QED
    BY <2>3, <2>4, <2>5 DEF SegmentsOf, d, s
<1>3. safe = [i \in 1..Len(parts) |-> Decoded(parts[i])]
  BY <1>1 DEF safeRecordingPathSegments
<1> HIDE DEF safe, parts, U
<1>4. safe \in Seq(SegmentsOf(U)) /\ Len(safe) = Len(parts)
      /\ \A i \in 1..Len(parts) : safe[i] = Decoded(parts[i])
  <2>1. PICK D : D = [i \in 1..Len(parts) |-> Decoded(parts[i])]
    OBVIOUS
  <2>2. D \in [1..Len(parts) -> SegmentsOf(U)] /\ Len(parts) \in Nat
    BY <1>1, <1>2, <2>1
  <2>3. QED
    BY <1>3, <2>1, <2>2
<1>5. QED
  BY <1>1, <1>2, <1>4 DEF safe, U

(* What a URL asks for is the unescaped path, below the root. *)
LEMMA UrlIsThePath ==
    ASSUME NEW T, NEW path \in Seq(T), SafePath(path)
    PROVE  recordingUrl(path) = Root \o safeRecordingPathSegments(path)
<1> DEFINE safe == safeRecordingPathSegments(path)
<1>1. /\ safe \in Seq(SegmentsOf(Plainer(T))) /\ "rec" \in Plainer(T)
      /\ \A i \in 1..Len(safe) : safe[i] \notin Dots
  BY SafeSegmentsAreSegments DEF Plainer
<1> HIDE DEF safe
<1>2. UrlWalk(safe)[Len(safe)] = Root \o safe
  BY <1>1, UrlGoesIn
<1>3. recordingUrl(path) = UrlWalk(safe)[Len(safe)]
  BY DEF recordingUrl, safe
<1>4. QED
  BY <1>2, <1>3 DEF safe

LEMMA BelowTheRoot ==
    ASSUME NEW T, NEW s \in Seq(SegmentsOf(T)), s # <<>>
    PROVE  /\ IsStrictPrefix(Root, Root \o s)
           /\ Len(Root \o s) = Len(Root) + Len(s)
           /\ \A i \in 1..Len(s) : (Root \o s)[Len(Root) + i] = s[i]
<1> DEFINE U == SegmentsOf(T \union {"rec"})
<1>1. Root \in Seq(U) /\ Len(Root) = 1 /\ s \in Seq(U)
  <2>1. SegmentsOf(T) \subseteq U
    BY DEF SegmentsOf
  <2>2. <<"rec">> \in U
    BY DEF SegmentsOf, Separators
  <2>3. s \in Seq(U)
    BY <2>1, SeqMonotonic
  <2>4. QED
    BY <2>2, <2>3 DEF Root
<1> HIDE DEF U
<1>2. PICK r, rs : r = Root /\ rs = Root \o s
  OBVIOUS
<1>3. /\ rs \in Seq(U) /\ Len(rs) = 1 + Len(s) /\ rs[1] = r[1]
      /\ \A i \in 1..Len(s) : rs[1 + i] = s[i]
  <2>1. rs = r \o s /\ r \in Seq(U) /\ Len(r) = 1
    BY <1>1, <1>2
  <2>2. Len(s) \in Nat /\ Len(s) # 0
    BY <1>1
  <2>3. /\ rs \in Seq(U) /\ Len(rs) = 1 + Len(s)
        /\ \A i \in 1..(1 + Len(s)) : rs[i] = IF i <= 1 THEN r[i] ELSE s[i - 1]
    <3>1. PICK all : all = r \o s
      OBVIOUS
    <3>2. s \in Seq(U)
      BY <1>1
    <3>3. /\ all \in Seq(U) /\ Len(all) = Len(r) + Len(s)
          /\ \A i \in 1..(Len(r) + Len(s)) : all[i] = IF i <= Len(r) THEN r[i] ELSE s[i - Len(r)]
      <4>1. /\ r \o s \in Seq(U) /\ Len(r \o s) = Len(r) + Len(s)
            /\ \A i \in 1..(Len(r) + Len(s)) : (r \o s)[i] = IF i <= Len(r) THEN r[i] ELSE s[i - Len(r)]
        BY <2>1, <3>2, ConcatProperties, Zenon
      <4>2. QED
        BY <3>1, <4>1, Zenon
    <3>4. QED
      BY <2>1, <3>1, <3>3
  <2>4. QED
    BY <2>2, <2>3
<1>4. SubSeq(r, 1, Len(r)) = SubSeq(rs, 1, Len(r))
  <2>1. r \in Seq(U) /\ Len(r) = 1 /\ Len(rs) >= 1
    BY <1>1, <1>2, <1>3
  <2>2. SubSeq(r, 1, 1) \in Seq(U) /\ Len(SubSeq(r, 1, 1)) = 1 /\ SubSeq(r, 1, 1)[1] = r[1]
    BY <2>1
  <2>3. SubSeq(rs, 1, 1) \in Seq(U) /\ Len(SubSeq(rs, 1, 1)) = 1 /\ SubSeq(rs, 1, 1)[1] = rs[1]
    BY <1>3, <2>1
  <2>4. SubSeq(r, 1, 1) = SubSeq(rs, 1, 1)
    BY <1>3, <2>2, <2>3, SeqEqual
  <2>5. QED
    BY <2>1, <2>4
<1>5. r # rs /\ Len(r) <= Len(rs)
  BY <1>1, <1>2, <1>3
<1>6. QED
  BY <1>1, <1>2, <1>3, <1>4, <1>5 DEF IsStrictPrefix, IsPrefix

(* A path without escapes means what it says. *)
LEMMA PlainPaths ==
    ASSUME NEW T, NEW path \in Seq(T), Unescaping(path)
    PROVE  safeRecordingPathSegments(path) = Segments(path)
<1> DEFINE U == {path[i] : i \in 1..Len(path)}
<1>1. path \in Seq(U) /\ \A x \in U : x \notin DOMAIN Unescaped
  BY DEF Unescaping
<1>2. Segments(path) \in Seq(SegmentsOf(U))
  BY <1>1, SegmentsAreSegments
<1> HIDE DEF U
<1>3. ASSUME NEW i \in 1..Len(Segments(path)) PROVE Decoded(Segments(path)[i]) = Segments(path)[i]
  <2> DEFINE s == Segments(path)[i]
  <2>1. s \in Seq(U)
    BY <1>2 DEF SegmentsOf
  <2> HIDE DEF s
  <2>2. DOMAIN s = 1..Len(s) /\ \A j \in 1..Len(s) : s[j] \notin DOMAIN Unescaped
    BY <1>1, <2>1
  <2>3. Decoded(s) = [j \in 1..Len(s) |-> s[j]]
    BY <2>2 DEF Decoded
  <2>4. QED
    BY <2>1, <2>2, <2>3 DEF s
<1> DEFINE parts == Segments(path)
<1>4. DOMAIN parts = 1..Len(parts) /\ parts = [i \in 1..Len(parts) |-> parts[i]]
  BY <1>2
<1>5. safeRecordingPathSegments(path) = [i \in 1..Len(parts) |-> Decoded(parts[i])]
  BY <1>4 DEF safeRecordingPathSegments
<1>6. QED
  BY <1>3, <1>4, <1>5

(* The name of a file below the root gives back its segments. *)
LEMMA NamesGiveTheFile ==
    ASSUME NEW T, "/" \in T, NEW file \in Seq(SegmentsOf(T)), BelowRoot(file)
    PROVE  /\ relativeRecordingPath(file) \in Seq(T)
           /\ file = Root \o Segments(relativeRecordingPath(file))
<1> DEFINE rest == SubSeq(file, 2, Len(file))
           U == SegmentsOf(T)
<1>1. Len(Root) = 1 /\ IsStrictPrefix(Root, file)
  BY DEF BelowRoot, Root
<1>2. Len(file) >= 1 /\ SubSeq(Root, 1, 1) = SubSeq(file, 1, 1)
  BY <1>1 DEF IsStrictPrefix, IsPrefix
<1>3. rest \in Seq(U)
  <2>1. \A i \in 2..Len(file) : file[i] \in U
    OBVIOUS
  <2>2. QED
    BY <2>1, SubSeqProperties
<1> HIDE DEF U
<1>4. SubSeq(Root, 1, 1) = Root
  <2>1. PICK r : r = Root
    OBVIOUS
  <2>2. r \in Seq({<<"rec">>}) /\ Len(r) = 1
    BY <2>1 DEF Root
  <2>3. SubSeq(r, 1, 1) = r
    BY <2>2, SubSeqFull
  <2>4. QED
    BY <2>1, <2>3
<1>5. file = SubSeq(file, 1, 1) \o rest
  <2>1. file \in Seq(U) /\ 1 \in 1..Len(file) /\ SubSeq(file, 1, Len(file)) = file
    BY <1>2, SubSeqFull DEF U
  <2>2. SubSeq(file, 1, Len(file)) = <<file[1]>> \o SubSeq(file, 1 + 1, Len(file))
    BY <2>1, SubSeqRecursiveFirst
  <2>3. SubSeq(file, 1, 1) = <<file[1]>> \o SubSeq(file, 1 + 1, 1)
    BY <2>1, SubSeqRecursiveFirst
  <2>4. SubSeq(file, 1 + 1, 1) = <<>> /\ 1 + 1 = 2
    BY SubSeqEmpty
  <2>5. <<file[1]>> \o <<>> = <<file[1]>>
    BY <2>1
  <2>6. QED
    BY <2>1, <2>2, <2>3, <2>4, <2>5
<1>6. relativeRecordingPath(file) = Joined(rest)
  BY <1>1 DEF relativeRecordingPath, FromRoot
<1> HIDE DEF rest
<1>7. Joined(rest) \in Seq(T) /\ Segments(Joined(rest)) = rest
  BY <1>3, SegmentsOfJoined DEF U
<1>8. QED
  BY <1>2, <1>4, <1>5, <1>6, <1>7

-----------------------------------------------------------------------------
(* The members of a set in a sequence. *)

PickAt(seq, S, pick, i) == IF seq[i] \in S THEN Append(pick, seq[i]) ELSE pick
IsPicks(seq, S, pick) ==
    pick = [i \in 0..Len(seq) |->
              IF i = 0 THEN <<>>
              ELSE IF seq[i] \in S THEN Append(pick[i - 1], seq[i]) ELSE pick[i - 1]]

LEMMA PicksAreSteps ==
    ASSUME NEW T, NEW seq \in Seq(T), NEW S
    PROVE  /\ Picks(seq, S)[0] = <<>>
           /\ \A i \in 1..Len(seq) : Picks(seq, S)[i] = PickAt(seq, S, Picks(seq, S)[i - 1], i)
           /\ \A i \in 0..Len(seq) : Picks(seq, S)[i] \in Seq(T)
<1> DEFINE n == Len(seq)
           Q == Seq(T)
           H == [x \in Q \X (1..n) |-> PickAt(seq, S, x[1], x[2])]
<1>1. n \in Nat /\ <<>> \in Q /\ \A i \in 1..n : i - 1 \in 0..n /\ i \in 0..n /\ i # 0
  OBVIOUS
<1>2. \A pick \in Q, i \in 1..n : PickAt(seq, S, pick, i) \in Q
  BY DEF PickAt
<1> HIDE DEF Q, n
<1>3. H \in [Q \X (1..n) -> Q]
  BY <1>2
<1>4. \A pick \in Q, i \in 1..n : H[<<pick, i>>] = PickAt(seq, S, pick, i)
  OBVIOUS
<1> HIDE DEF H
<1>5. PICK g : StepsTo(g, n, Q, <<>>, H)
  BY <1>1, <1>3, StepsExist
<1>6. IsPicks(seq, S, g)
  <2>1. g = [i \in 0..n |-> g[i]] /\ g[0] = <<>>
    BY <1>5 DEF StepsTo
  <2>2. ASSUME NEW i \in 1..n PROVE g[i] = PickAt(seq, S, g[i - 1], i)
    BY <1>1, <1>4, <1>5 DEF StepsTo
  <2>3. \A i \in 0..n : i = 0 \/ i \in 1..n
    BY <1>1
  <2>4. QED
    BY <2>1, <2>2, <2>3 DEF IsPicks, PickAt, n
<1>7. Picks(seq, S) = CHOOSE pick : IsPicks(seq, S, pick)
  BY DEF Picks, IsPicks
<1>8. IsPicks(seq, S, Picks(seq, S))
  BY <1>6, <1>7
<1>9. /\ Picks(seq, S)[0] = <<>>
      /\ \A i \in 1..n : Picks(seq, S)[i] = PickAt(seq, S, Picks(seq, S)[i - 1], i)
  <2>1. Picks(seq, S) = [i \in 0..n |-> IF i = 0 THEN <<>>
                                      ELSE PickAt(seq, S, Picks(seq, S)[i - 1], i)]
    BY <1>8 DEF IsPicks, PickAt, n
  <2>2. 0 \in 0..n
    BY <1>1
  <2>3. QED
    BY <1>1, <2>1, <2>2
<1>10. \A i \in 0..n : Picks(seq, S)[i] \in Q
  <2> DEFINE G == {i \in 0..n : Picks(seq, S)[i] \in Q}
  <2>1. 0 \in G /\ \A i \in 1..n : i - 1 \in G => i \in G
    BY <1>1, <1>2, <1>9
  <2> HIDE DEF G
  <2>2. \A i \in 0..n : i \in G
    BY <1>1, <2>1, UpTo
  <2>3. QED
    BY <2>2 DEF G
<1>11. QED
  BY <1>9, <1>10 DEF Q, n

(* How many have been picked after each position: the place of a pick. *)
Place(seq, S, i) == Len(Picks(seq, S)[i])

LEMMA PlacesGrow ==
    ASSUME NEW T, NEW seq \in Seq(T), NEW S
    PROVE  /\ Place(seq, S, 0) = 0
           /\ \A i \in 0..Len(seq) : Place(seq, S, i) \in Nat
           /\ \A i \in 1..Len(seq) :
                 /\ Place(seq, S, i) = IF seq[i] \in S THEN Place(seq, S, i - 1) + 1
                                       ELSE Place(seq, S, i - 1)
                 /\ \A j \in 1..Place(seq, S, i - 1) : Picks(seq, S)[i][j] = Picks(seq, S)[i - 1][j]
                 /\ seq[i] \in S => Picks(seq, S)[i][Place(seq, S, i)] = seq[i]
<1> DEFINE pick == Picks(seq, S)
<1>1. /\ pick[0] = <<>> /\ Len(seq) \in Nat
      /\ \A i \in 1..Len(seq) : pick[i] = PickAt(seq, S, pick[i - 1], i)
      /\ \A i \in 0..Len(seq) : pick[i] \in Seq(T)
  BY PicksAreSteps
<1> HIDE DEF pick
<1>2. Len(pick[0]) = 0 /\ \A i \in 0..Len(seq) : Len(pick[i]) \in Nat
  BY <1>1
<1>3. ASSUME NEW i \in 1..Len(seq)
      PROVE  /\ Len(pick[i]) = IF seq[i] \in S THEN Len(pick[i - 1]) + 1 ELSE Len(pick[i - 1])
             /\ \A j \in 1..Len(pick[i - 1]) : pick[i][j] = pick[i - 1][j]
             /\ seq[i] \in S => pick[i][Len(pick[i])] = seq[i]
  <2>1. pick[i - 1] \in Seq(T) /\ seq[i] \in T /\ pick[i] = PickAt(seq, S, pick[i - 1], i)
    BY <1>1
  <2>2. PICK before : before = pick[i - 1]
    OBVIOUS
  <2>3. CASE seq[i] \in S
    <3>1. pick[i] = Append(before, seq[i]) /\ before \in Seq(T)
      BY <2>1, <2>2, <2>3 DEF PickAt
    <3>2. /\ Len(Append(before, seq[i])) = Len(before) + 1
          /\ \A j \in 1..Len(before) : Append(before, seq[i])[j] = before[j]
          /\ Append(before, seq[i])[Len(before) + 1] = seq[i]
      BY <2>1, <3>1, AppendProperties
    <3>3. QED
      BY <2>2, <2>3, <3>1, <3>2
  <2>4. CASE seq[i] \notin S
    BY <2>1, <2>4 DEF PickAt
  <2>5. QED
    BY <2>3, <2>4
<1>4. QED
  BY <1>2, <1>3 DEF Place, pick

(* What has been picked stays. *)
LEMMA PicksStay ==
    ASSUME NEW T, NEW seq \in Seq(T), NEW S, NEW k \in 0..Len(seq)
    PROVE  \A i \in k..Len(seq) :
               /\ Place(seq, S, k) <= Place(seq, S, i)
               /\ \A j \in 1..Place(seq, S, k) : Picks(seq, S)[i][j] = Picks(seq, S)[k][j]
<1>0. /\ Place(seq, S, 0) = 0
      /\ \A i \in 0..Len(seq) : Place(seq, S, i) \in Nat
      /\ \A i \in 1..Len(seq) :
            /\ Place(seq, S, i) = IF seq[i] \in S THEN Place(seq, S, i - 1) + 1
                                  ELSE Place(seq, S, i - 1)
            /\ \A j \in 1..Place(seq, S, i - 1) : Picks(seq, S)[i][j] = Picks(seq, S)[i - 1][j]
            /\ seq[i] \in S => Picks(seq, S)[i][Place(seq, S, i)] = seq[i]
  BY PlacesGrow, Zenon
<1> DEFINE n == Len(seq) - k
           Same(i) == /\ Place(seq, S, k) <= Place(seq, S, i)
                      /\ \A j \in 1..Place(seq, S, k) : Picks(seq, S)[i][j] = Picks(seq, S)[k][j]
           G == {d \in 0..n : Same(k + d)}
<1>1. n \in Nat /\ k + 0 = k /\ Place(seq, S, k) \in Nat
  BY <1>0
<1>2. 0 \in G
  BY <1>1
<1>3. ASSUME NEW d \in 1..n, d - 1 \in G PROVE d \in G
  <2>1. k + d \in 1..Len(seq) /\ (k + d) - 1 = k + (d - 1) /\ k + (d - 1) \in 0..Len(seq)
    BY <1>1
  <2>2. PICK i, h : i = k + d /\ h = k + (d - 1) /\ h = i - 1
    BY <2>1
  <2>3. Same(h)
    BY <1>3, <2>2
  <2>4. /\ Place(seq, S, h) \in Nat /\ Place(seq, S, i) \in {Place(seq, S, h), Place(seq, S, h) + 1}
        /\ \A j \in 1..Place(seq, S, h) : Picks(seq, S)[i][j] = Picks(seq, S)[h][j]
    BY <1>0, <2>1, <2>2
  <2>5. Same(i)
    BY <1>1, <2>3, <2>4
  <2>6. QED
    BY <1>1, <2>2, <2>5
<1> HIDE DEF G
<1>4. \A d \in 0..n : d \in G
  BY <1>1, <1>2, <1>3, UpTo
<1>5. ASSUME NEW i \in k..Len(seq) PROVE Same(i)
  <2>1. i - k \in 0..n /\ k + (i - k) = i
    BY <1>1
  <2>2. Same(k + (i - k))
    BY <1>4, <2>1 DEF G
  <2>3. QED
    BY <2>1, <2>2
<1>6. QED
  BY <1>5

(* A member is picked at its place, and earlier members at earlier places. *)
LEMMA PickedAtItsPlace ==
    ASSUME NEW T, NEW seq \in Seq(T), NEW S, NEW k \in 1..Len(seq), seq[k] \in S
    PROVE  /\ Place(seq, S, k) \in 1..Len(Picked(seq, S))
           /\ Picked(seq, S)[Place(seq, S, k)] = seq[k]
           /\ \A i \in 0..(k - 1) : Place(seq, S, i) < Place(seq, S, k)
<1> DEFINE n == Len(seq)
<1>1. n \in Nat /\ k - 1 \in 0..n /\ k \in 0..n /\ n \in k..n
  OBVIOUS
<1>2. /\ Place(seq, S, k) = Place(seq, S, k - 1) + 1 /\ Place(seq, S, k - 1) \in Nat
      /\ Picks(seq, S)[k][Place(seq, S, k)] = seq[k]
  BY <1>1, PlacesGrow
<1>3. Place(seq, S, n) \in Nat /\ Len(Picked(seq, S)) = Place(seq, S, n)
  BY <1>1, PlacesGrow DEF Picked, Place
<1>4. /\ Place(seq, S, k) <= Place(seq, S, n)
      /\ \A j \in 1..Place(seq, S, k) : Picks(seq, S)[n][j] = Picks(seq, S)[k][j]
  BY <1>1, PicksStay
<1>5. ASSUME NEW i \in 0..(k - 1) PROVE Place(seq, S, i) < Place(seq, S, k)
  <2>1. i \in 0..n /\ k - 1 \in i..n
    BY <1>1
  <2>2. Place(seq, S, i) <= Place(seq, S, k - 1) /\ Place(seq, S, i) \in Nat
    BY <2>1, PicksStay, PlacesGrow
  <2>3. QED
    BY <1>2, <2>2
<1>6. Place(seq, S, k) \in 1..Place(seq, S, k)
  BY <1>2
<1>7. QED
  BY <1>2, <1>3, <1>4, <1>5, <1>6 DEF Picked

(* Whatever is picked is a member at that place. *)
ArePlaced(seq, S, picked) ==
    \A j \in 1..Len(picked) : \E k \in 1..Len(seq) :
        seq[k] \in S /\ Place(seq, S, k) = j /\ picked[j] = seq[k]

LEMMA PickedIsAMember ==
    ASSUME NEW T, NEW seq \in Seq(T), NEW S
    PROVE  Picked(seq, S) \in Seq(T) /\ ArePlaced(seq, S, Picked(seq, S))
<1>0. /\ Place(seq, S, 0) = 0
      /\ \A i \in 0..Len(seq) : Place(seq, S, i) \in Nat
      /\ \A i \in 1..Len(seq) :
            /\ Place(seq, S, i) = IF seq[i] \in S THEN Place(seq, S, i - 1) + 1
                                  ELSE Place(seq, S, i - 1)
            /\ \A j \in 1..Place(seq, S, i - 1) : Picks(seq, S)[i][j] = Picks(seq, S)[i - 1][j]
            /\ seq[i] \in S => Picks(seq, S)[i][Place(seq, S, i)] = seq[i]
  BY PlacesGrow, Zenon
<1> DEFINE n == Len(seq)
           Found(i, j) == \E k \in 1..i :
                             seq[k] \in S /\ Place(seq, S, k) = j /\ Picks(seq, S)[i][j] = seq[k]
           G == {i \in 0..n : \A j \in 1..Place(seq, S, i) : Found(i, j)}
<1>1. n \in Nat /\ n \in 0..n
  OBVIOUS
<1>2. 0 \in G
  <2>1. Place(seq, S, 0) = 0
    BY <1>0
  <2>2. QED
    BY <1>1, <2>1
<1>3. ASSUME NEW i \in 1..n, i - 1 \in G PROVE i \in G
  <2>1. /\ Place(seq, S, i - 1) \in Nat
        /\ Place(seq, S, i) = IF seq[i] \in S THEN Place(seq, S, i - 1) + 1 ELSE Place(seq, S, i - 1)
        /\ \A j \in 1..Place(seq, S, i - 1) : Picks(seq, S)[i][j] = Picks(seq, S)[i - 1][j]
        /\ seq[i] \in S => Picks(seq, S)[i][Place(seq, S, i)] = seq[i]
    BY <1>0, <1>1
  <2>2. \A j \in 1..Place(seq, S, i - 1) : Found(i - 1, j)
    BY <1>3
  <2>3. ASSUME NEW j \in 1..Place(seq, S, i) PROVE Found(i, j)
    <3>1. CASE j \in 1..Place(seq, S, i - 1)
      <4>1. PICK k \in 1..(i - 1) : seq[k] \in S /\ Place(seq, S, k) = j /\ Picks(seq, S)[i - 1][j] = seq[k]
        BY <2>2, <3>1
      <4>2. Picks(seq, S)[i][j] = seq[k] /\ k \in 1..i
        BY <2>1, <3>1, <4>1
      <4>3. QED
        BY <4>1, <4>2
    <3>2. CASE j \notin 1..Place(seq, S, i - 1)
      <4>1. seq[i] \in S /\ j = Place(seq, S, i)
        BY <2>1, <3>2
      <4>2. QED
        BY <2>1, <4>1
    <3>3. QED
      BY <3>1, <3>2
  <2>4. QED
    BY <1>1, <2>3
<1> HIDE DEF G
<1>4. n \in G
  BY <1>1, <1>2, <1>3, UpTo
<1>5. Picked(seq, S) \in Seq(T) /\ Len(Picked(seq, S)) = Place(seq, S, n)
  BY <1>1, PicksAreSteps DEF Picked, Place
<1>6. QED
  BY <1>4, <1>5 DEF G, Picked, ArePlaced

(* With more members every place moves on. *)
LEMMA PlacesMoveOn ==
    ASSUME NEW T, NEW seq \in Seq(T), NEW S, NEW R,
           \A i \in 1..Len(seq) : seq[i] \in S => seq[i] \in R
    PROVE  \A i \in 0..Len(seq) : Place(seq, S, i) <= Place(seq, R, i)
<1>a. /\ Place(seq, S, 0) = 0
      /\ \A i \in 0..Len(seq) : Place(seq, S, i) \in Nat
      /\ \A i \in 1..Len(seq) :
            /\ Place(seq, S, i) = IF seq[i] \in S THEN Place(seq, S, i - 1) + 1
                                  ELSE Place(seq, S, i - 1)
            /\ \A j \in 1..Place(seq, S, i - 1) : Picks(seq, S)[i][j] = Picks(seq, S)[i - 1][j]
            /\ seq[i] \in S => Picks(seq, S)[i][Place(seq, S, i)] = seq[i]
  BY PlacesGrow, Zenon
<1>b. /\ Place(seq, R, 0) = 0
      /\ \A i \in 0..Len(seq) : Place(seq, R, i) \in Nat
      /\ \A i \in 1..Len(seq) :
            /\ Place(seq, R, i) = IF seq[i] \in R THEN Place(seq, R, i - 1) + 1
                                  ELSE Place(seq, R, i - 1)
            /\ \A j \in 1..Place(seq, R, i - 1) : Picks(seq, R)[i][j] = Picks(seq, R)[i - 1][j]
            /\ seq[i] \in R => Picks(seq, R)[i][Place(seq, R, i)] = seq[i]
  BY PlacesGrow, Zenon
<1> DEFINE n == Len(seq)
           G == {i \in 0..n : Place(seq, S, i) <= Place(seq, R, i)}
<1>1. n \in Nat /\ Place(seq, S, 0) = 0 /\ Place(seq, R, 0) = 0
  BY <1>a, <1>b
<1>2. 0 \in G
  BY <1>1
<1>3. ASSUME NEW i \in 1..n, i - 1 \in G PROVE i \in G
  <2>1. i - 1 \in 0..n /\ Place(seq, S, i - 1) <= Place(seq, R, i - 1)
    BY <1>1, <1>3
  <2>2. Place(seq, S, i - 1) \in Nat /\ Place(seq, R, i - 1) \in Nat
    BY <1>a, <1>b, <2>1
  <2>3. /\ Place(seq, S, i) = IF seq[i] \in S THEN Place(seq, S, i - 1) + 1 ELSE Place(seq, S, i - 1)
        /\ Place(seq, R, i) = IF seq[i] \in R THEN Place(seq, R, i - 1) + 1 ELSE Place(seq, R, i - 1)
    BY <1>a, <1>b
  <2>4. QED
    BY <1>1, <2>1, <2>2, <2>3
<1> HIDE DEF G
<1>4. \A i \in 0..n : i \in G
  BY <1>1, <1>2, <1>3, UpTo
<1>5. QED
  BY <1>4 DEF G

-----------------------------------------------------------------------------
(* The HTTPS agents. *)

TransportOK(st) ==
    /\ st = [agents |-> st.agents, call |-> st.call]
    /\ st.agents \in Seq(Backends) /\ Len(st.agents) <= MaxAgents
    /\ st.call \in [Tasks \X Backends -> CallType]
    /\ \A k \in Tasks \X Backends : st.call[k].st # "cut"

(* An agent that makes room has no socket. *)
LEMMA RoomIsIdle ==
    ASSUME NEW st, TransportOK(st), MakesRoom(st) # 0
    PROVE  /\ MakesRoom(st) \in 1..Len(st.agents)
           /\ Idle(st.call, st.agents[MakesRoom(st)])
<1> DEFINE I == {i \in 1..Len(st.agents) : Idle(st.call, st.agents[i])}
<1>1. MakesRoom(st) = IF I # {} THEN Min(I) ELSE 0
  BY Zenon DEF MakesRoom, SelectInSeq
<1>2. I # {} /\ MakesRoom(st) = Min(I)
  BY <1>1
<1>3. I \subseteq Nat
  BY DEF TransportOK
<1> HIDE DEF I
<1>4. Min(I) \in I
  <2>1. \E m \in I : \A n \in I : m <= n
    BY <1>2, <1>3, LeastNumber
  <2>2. QED
    BY <2>1, Zenon DEF Min
<1>5. QED
  BY <1>2, <1>4 DEF I

(* So nobody loses a socket: what is destroyed are requests' future sockets. *)
KeepSockets(calls, now) ==
    /\ now \in [Tasks \X Backends -> CallType]
    /\ \A x \in Tasks \X Backends : now[x].st = calls[x].st /\ now[x].file = calls[x].file

LEMMA NothingIsCut ==
    ASSUME NEW calls \in [Tasks \X Backends -> CallType], NEW b, Idle(calls, b)
    PROVE  KeepSockets(calls, Destroyed(calls, b))
<1> DEFINE New(k) == IF k[2] = b /\ calls[k].st = "ready" THEN [calls[k] EXCEPT !.agent = FALSE]
                     ELSE calls[k]
<1>1. Destroyed(calls, b) = [k \in Tasks \X Backends |-> New(k)]
  BY DEF Destroyed, Idle
<1>2. ASSUME NEW k \in Tasks \X Backends
      PROVE  New(k) \in CallType /\ New(k).st = calls[k].st /\ New(k).file = calls[k].file
  BY DEF CallType
<1> HIDE DEF New
<1>3. QED
  BY <1>1, <1>2 DEF KeepSockets

(* httpOptions gives the request its options or leaves everything alone, and *)
(* no other request loses anything by it.                                    *)
New(file) == [st |-> "ready", file |-> file, agent |-> TRUE]
Granted(st, k, file, now) ==
    /\ TransportOK(now)
    /\ now = st \/ now.call[k] = New(file)
    /\ \A x \in (Tasks \X Backends) \ {k} :
          now.call[x].st = st.call[x].st /\ now.call[x].file = st.call[x].file

LEMMA OptionsTakeNothing ==
    ASSUME NEW st, TransportOK(st), NEW k \in Tasks \X Backends, NEW file \in Urls
    PROVE  Granted(st, k, file, httpOptions(st, k, file))
<1> DEFINE Ready(names, calls) == [agents |-> names, call |-> [calls EXCEPT ![k] = New(file)]]
           i == MakesRoom(st)
           cut == Destroyed(st.call, st.agents[i])
<1>1. New(file) \in CallType /\ New(file).st # "cut"
  BY DEF CallType, New
<1>2. ASSUME NEW names \in Seq(Backends), Len(names) <= MaxAgents,
             NEW calls \in [Tasks \X Backends -> CallType],
             \A x \in Tasks \X Backends : calls[x].st = st.call[x].st /\ calls[x].file = st.call[x].file
      PROVE  Granted(st, k, file, Ready(names, calls))
  BY <1>1, <1>2 DEF TransportOK, Granted
<1>3. /\ k[2] \in Backends
      /\ st.agents \in Seq(Backends) /\ Len(st.agents) <= MaxAgents
      /\ st.call \in [Tasks \X Backends -> CallType]
  BY DEF TransportOK
<1>4. httpOptions(st, k, file) =
        IF Contains(st.agents, k[2]) THEN Ready(st.agents, st.call)
        ELSE IF Len(st.agents) < MaxAgents THEN Ready(Append(st.agents, k[2]), st.call)
        ELSE IF i = 0 THEN st
        ELSE Ready(Append(RemoveAt(st.agents, i), k[2]), cut)
  BY DEF httpOptions, New
<1>5. CASE Contains(st.agents, k[2])
  <2>1. httpOptions(st, k, file) = Ready(st.agents, st.call)
    BY <1>4, <1>5
  <2>2. QED
    BY <1>2, <1>3, <2>1
<1>6. CASE ~Contains(st.agents, k[2]) /\ Len(st.agents) < MaxAgents
  <2>1. httpOptions(st, k, file) = Ready(Append(st.agents, k[2]), st.call)
    BY <1>4, <1>6
  <2>2. Append(st.agents, k[2]) \in Seq(Backends) /\ Len(Append(st.agents, k[2])) <= MaxAgents
    BY <1>3, <1>6, RecordingAssumption
  <2>3. QED
    BY <1>2, <1>3, <2>1, <2>2
<1>7. CASE ~Contains(st.agents, k[2]) /\ ~(Len(st.agents) < MaxAgents) /\ i = 0
  <2>1. httpOptions(st, k, file) = st
    BY <1>4, <1>7
  <2>2. QED
    BY <2>1 DEF Granted
<1>8. CASE ~Contains(st.agents, k[2]) /\ ~(Len(st.agents) < MaxAgents) /\ i # 0
  <2> DEFINE names == Append(RemoveAt(st.agents, i), k[2])
  <2>1. httpOptions(st, k, file) = Ready(names, cut)
    BY <1>4, <1>8
  <2>2. i \in 1..Len(st.agents) /\ Idle(st.call, st.agents[i])
    BY <1>8, RoomIsIdle
  <2> HIDE DEF i
  <2>3. names \in Seq(Backends) /\ Len(names) <= MaxAgents
    <3>1. /\ RemoveAt(st.agents, i) \in Seq(Backends)
          /\ Len(RemoveAt(st.agents, i)) = Len(st.agents) - 1
      BY <1>3, <2>2, RemovedAt
    <3>2. QED
      BY <1>3, <2>2, <3>1
  <2>4. /\ cut \in [Tasks \X Backends -> CallType]
        /\ \A x \in Tasks \X Backends : cut[x].st = st.call[x].st /\ cut[x].file = st.call[x].file
    <3>1. PICK calls, b : calls = st.call /\ b = st.agents[i]
      OBVIOUS
    <3>2. calls \in [Tasks \X Backends -> CallType] /\ Idle(calls, b)
      BY <1>3, <2>2, <3>1
    <3>3. KeepSockets(calls, Destroyed(calls, b))
      BY <3>2, NothingIsCut
    <3>4. QED
      BY <3>1, <3>3 DEF KeepSockets
  <2> HIDE DEF names, cut
  <2>5. QED
    BY <1>2, <2>1, <2>3, <2>4
<1>9. QED
  BY <1>5, <1>6, <1>7, <1>8

-----------------------------------------------------------------------------
(* The stages of a request.                                                  *)

(* Where a request can be that does op, and where it owns an HTTP request. *)
Places(op) ==
    IF op = "none" THEN {"idle"}
    ELSE IF op = "list" THEN {"resolving", "listing", "done", "failed"}
    ELSE IF op = "delete" THEN {"resolving", "calling", "done", "failed"}
    ELSE IF op = "download" THEN {"resolving", "calling", "streaming", "held", "done", "failed"}
    ELSE IF op = "merge"
         THEN {"making", "resolving", "calling", "storing", "merging", "removing",
               "streaming", "held", "done", "failed"}
         ELSE {}
Calling(op) == IF op = "download" THEN {"calling", "streaming", "held"} ELSE {"calling", "storing"}

(* A directory is that of a merge that has made it and will still remove it;  *)
(* whoever is past admission has a target.                                    *)
StageOK(t) ==
    /\ pc[t] \in Places(job[t].op)
    /\ pc[t] = "held" => t \in left
    /\ t \in tempDir => job[t].op = "merge" /\ pc[t] \notin {"making", "done", "failed"}
    /\ pc[t] \notin {"idle", "failed"} /\ job[t].op # "list" =>
         Admitted(job[t]) /\ next[t] \in DOMAIN job[t].targets

(* Unless it lists, a request has one HTTP request at most, to the backend of *)
(* its current target and about the file that this target's path means.       *)
CallOK(t) ==
    \A b \in Backends :
        /\ call[<<t, b>>].st # "cut"
        /\ call[<<t, b>>].st # "none" =>
             \/ job[t].op = "list"
             \/ /\ pc[t] \in Calling(job[t].op)
                /\ b = Target(t).backend
                /\ Target(t).path \in DOMAIN Url
                /\ call[<<t, b>>].file = Url[Target(t).path]

TaskOK(t) == StageOK(t) /\ CallOK(t)

IInv == RequestTypes /\ \A t \in Tasks : TaskOK(t)

LEMMA StartsWell == Init => IInv
<1> SUFFICES ASSUME Init PROVE IInv
  OBVIOUS
<1>1. RequestTypes
  <2>1. NoCall \in CallType
    BY DEF NoCall, CallType, Urls
  <2>2. agents \in Seq(Backends) /\ Len(agents) <= MaxAgents
    BY RecordingAssumption DEF Init
  <2>3. QED
    BY <2>1, <2>2 DEF RequestTypes, Init, Stages
<1>2. ASSUME NEW t \in Tasks PROVE TaskOK(t)
  BY DEF Init, TaskOK, StageOK, CallOK, Places, NoJob, NoCall
<1>3. QED
  BY <1>1, <1>2 DEF IInv

LEMMA TransportIsOK ==
    ASSUME IInv PROVE TransportOK(Transport)
  BY DEF IInv, RequestTypes, TaskOK, CallOK, TransportOK, Transport

(* What a step of t leaves of another request u. *)
Left(u) ==
    /\ pc'[u] = pc[u] /\ job'[u] = job[u] /\ next'[u] = next[u]
    /\ u \in left => u \in left'
    /\ u \in tempDir' => u \in tempDir
    /\ \A b \in Backends : /\ call'[<<u, b>>].st = call[<<u, b>>].st
                           /\ call'[<<u, b>>].file = call[<<u, b>>].file

LEMMA OthersStay ==
    ASSUME IInv, UNCHANGED recordingPathPrefix, NEW u \in Tasks, Left(u)
    PROVE  TaskOK(u)'
<1>1. StageOK(u)'
  BY DEF IInv, TaskOK, StageOK, Left, Admitted
<1>2. CallOK(u)'
  BY DEF IInv, TaskOK, CallOK, Left, Target
<1>3. QED
  BY <1>1, <1>2 DEF TaskOK

(* A step of t that changes what is its own only. *)
Others(t) == \A u \in Tasks \ {t} : Left(u)
WorldOK ==
    /\ UNCHANGED recordingPathPrefix
    /\ agents' \in Seq(Backends) /\ Len(agents') <= MaxAgents
    /\ call' \in [Tasks \X Backends -> CallType]
TasksOK ==
    /\ pc' \in [Tasks -> Stages] /\ job' \in [Tasks -> Jobs \union {NoJob}]
    /\ next' \in [Tasks -> Nat \ {0}] /\ left' \subseteq Tasks /\ tempDir' \subseteq Tasks

LEMMA StepIsLocal ==
    ASSUME IInv, NEW t \in Tasks, WorldOK, TasksOK, Others(t), TaskOK(t)'
    PROVE  IInv' /\ Others(t)
<1>1. RequestTypes'
  BY DEF IInv, RequestTypes, WorldOK, TasksOK
<1>2. ASSUME NEW u \in Tasks, u # t PROVE TaskOK(u)'
  BY <1>2, OthersStay DEF Others, WorldOK
<1>3. QED
  BY <1>1, <1>2 DEF IInv

(* Most steps leave the HTTP requests alone, or end those of the task. *)
LEMMA CallsEnd ==
    ASSUME RequestTypes, NEW t \in Tasks,
           \/ call' = call
           \/ \E b \in Backends : call' = [call EXCEPT ![<<t, b>>] = NoCall]
    PROVE  /\ call' \in [Tasks \X Backends -> CallType]
           /\ \A u \in Tasks \ {t}, b \in Backends : call'[<<u, b>>] = call[<<u, b>>]
           /\ \A b \in Backends : call'[<<t, b>>] \in {call[<<t, b>>], NoCall}
<1>1. NoCall \in CallType
  BY DEF NoCall, CallType, Urls
<1>2. QED
  BY <1>1 DEF RequestTypes

LEMMA AskIsOK ==
    ASSUME IInv, NEW t \in Tasks, NEW j \in Jobs, Ask(t, j)
    PROVE  IInv' /\ Others(t)
<1>1. IsJob(j)
  BY RecordingAssumption
<1>2. /\ pc[t] = "idle" /\ job' = [job EXCEPT ![t] = j] /\ next' = [next EXCEPT ![t] = 1]
      /\ pc' = [pc EXCEPT ![t] = IF ~Admitted(j) THEN "failed"
                                 ELSE IF j.op = "merge" THEN "making" ELSE "resolving"]
      /\ UNCHANGED <<recordingPathPrefix, agents, call, left, tempDir>>
  BY DEF Ask, fileVars, callVars
<1>3. WorldOK /\ TasksOK /\ Others(t)
  BY <1>2 DEF IInv, RequestTypes, WorldOK, TasksOK, Others, Left, Stages
<1>4. job'[t] = j /\ next'[t] = 1 /\ pc'[t] \in {"failed", "making", "resolving"}
  BY <1>2 DEF IInv, RequestTypes
<1>5. job[t].op = "none" /\ TaskOK(t)
  BY <1>2 DEF IInv, TaskOK, StageOK, Places
<1>6. StageOK(t)'
  <2>1. t \notin tempDir
    BY <1>5 DEF TaskOK, StageOK
  <2>2. pc'[t] \in Places(j.op)
    BY <1>1, <1>2 DEF IInv, RequestTypes, IsJob, Operations, Places
  <2>3. ASSUME pc'[t] # "failed", j.op # "list"
        PROVE  Admitted(j) /\ 1 \in DOMAIN j.targets
    BY <1>1, <1>2, <2>3 DEF IInv, RequestTypes, IsJob, Operations, IsSequence, Admitted
  <2>4. QED
    BY <1>2, <1>4, <2>1, <2>2, <2>3 DEF StageOK, Admitted
<1>7. CallOK(t)'
  BY <1>2, <1>5 DEF TaskOK, CallOK, Calling
<1>8. QED
  BY <1>3, <1>6, <1>7, StepIsLocal DEF TaskOK

(* A step to the stage p that leaves all HTTP requests alone, or ends one of t. *)
LEMMA StageStep ==
    ASSUME IInv, NEW t \in Tasks, NEW p \in Stages,
           pc' = [pc EXCEPT ![t] = p],
           UNCHANGED <<recordingPathPrefix, agents, job, next>>,
           left' \in {left, left \union {t}},
           tempDir' \in {tempDir, tempDir \union {t}, tempDir \ {t}},
           \/ call' = call
           \/ \E b \in Backends : call' = [call EXCEPT ![<<t, b>>] = NoCall],
           StageOK(t)',
           job[t].op = "list" \/ p \in Calling(job[t].op)
               \/ \A b \in Backends : call'[<<t, b>>].st = "none"
    PROVE  IInv' /\ Others(t)
<1>1. /\ call' \in [Tasks \X Backends -> CallType]
      /\ \A u \in Tasks \ {t}, b \in Backends : call'[<<u, b>>] = call[<<u, b>>]
      /\ \A b \in Backends : call'[<<t, b>>] \in {call[<<t, b>>], NoCall}
  BY CallsEnd DEF IInv
<1>2. WorldOK /\ TasksOK
  BY <1>1 DEF IInv, RequestTypes, WorldOK, TasksOK
<1>3. Others(t)
  BY <1>1 DEF IInv, RequestTypes, Others, Left
<1>4. CallOK(t)'
  <2>1. pc'[t] = p
    BY DEF IInv, RequestTypes
  <2>2. NoCall.st = "none"
    BY DEF NoCall
  <2>3. CallOK(t)
    BY DEF IInv, TaskOK
  <2>4. QED
    BY <1>1, <2>1, <2>2, <2>3 DEF CallOK, Target
<1>5. QED
  BY <1>2, <1>3, <1>4, StepIsLocal DEF TaskOK

LEMMA QuietStep ==
    ASSUME IInv, NEW t \in Tasks, NEW p \in Stages,
           pc' = [pc EXCEPT ![t] = p],
           UNCHANGED <<recordingPathPrefix, call, agents, job, next>>,
           left' \in {left, left \union {t}},
           tempDir' \in {tempDir, tempDir \union {t}, tempDir \ {t}},
           StageOK(t)',
           job[t].op = "list" \/ p \in Calling(job[t].op) \/ pc[t] \notin Calling(job[t].op)
    PROVE  IInv' /\ Others(t)
<1>1. job[t].op = "list" \/ p \in Calling(job[t].op)
         \/ \A b \in Backends : call'[<<t, b>>].st = "none"
  BY DEF IInv, TaskOK, CallOK
<1>2. QED
  BY <1>1, StageStep

(* The steps that change no HTTP request. *)
Quiet(t) ==
    \/ MakeTempDir(t) \/ ResolveFails(t) \/ Downloading(t) \/ StoreSource(t)
    \/ Merged(t) \/ MergeFails(t) \/ RemoveTempDir(t)

LEMMA QuietStepsAreOK ==
    ASSUME IInv, NEW t \in Tasks, Quiet(t)
    PROVE  IInv' /\ Others(t)
<1>1. /\ UNCHANGED <<recordingPathPrefix, call, agents, job, next, left>>
      /\ StageOK(t) /\ t \in DOMAIN pc
  BY DEF Quiet, MakeTempDir, ResolveFails, Downloading, StoreSource, Merged, MergeFails,
         RemoveTempDir, fileVars, callVars, IInv, TaskOK, RequestTypes
<1> DEFINE Aimed == pc'[t] # "failed" /\ job[t].op # "list" =>
                      (Admitted(job[t]) /\ next[t] \in DOMAIN job[t].targets)'
<1>9. pc[t] \notin {"idle", "failed"} => Aimed
  BY <1>1 DEF StageOK, Admitted
<1> HIDE DEF Aimed
<1>2. CASE MakeTempDir(t)
  <2>1. PICK p \in {"resolving", "failed"} :
          /\ pc[t] = "making" /\ pc' = [pc EXCEPT ![t] = p]
          /\ tempDir' = IF p = "resolving" THEN tempDir \union {t} ELSE tempDir
    BY <1>2 DEF MakeTempDir
  <2>2. job[t].op = "merge"
    BY <1>1, <2>1 DEF StageOK, Places
  <2>3. StageOK(t)'
    BY <1>1, <1>9, <2>1, <2>2 DEF StageOK, Places, Aimed
  <2>4. p \in Stages /\ pc[t] \notin Calling(job[t].op)
    BY <2>1, <2>2 DEF Stages, Calling
  <2>5. tempDir' \in {tempDir, tempDir \union {t}, tempDir \ {t}} /\ left' = left
    BY <1>1, <2>1
  <2>6. QED
    BY <1>1, <2>1, <2>3, <2>4, <2>5, QuietStep
<1>3. CASE ResolveFails(t)
  <2>1. /\ pc[t] = "resolving" /\ pc' = [pc EXCEPT ![t] = AfterFailure(t)]
        /\ tempDir' = tempDir
    BY <1>3 DEF ResolveFails
  <2>2. StageOK(t)'
    BY <1>1, <1>9, <2>1 DEF StageOK, Places, Aimed, AfterFailure
  <2>3. QED
    BY <1>1, <2>1, <2>2, QuietStep DEF Stages, Calling, AfterFailure
<1>4. CASE Downloading(t)
  <2>1. /\ pc[t] = "calling" /\ pc' = [pc EXCEPT ![t] = HandedOver(t)]
        /\ job[t].op = "download" /\ tempDir' = tempDir
    BY <1>4 DEF Downloading
  <2>2. StageOK(t)'
    BY <1>1, <1>9, <2>1 DEF StageOK, Places, Aimed, HandedOver
  <2>3. QED
    BY <1>1, <2>1, <2>2, QuietStep DEF Stages, Calling, HandedOver
<1>5. CASE StoreSource(t)
  <2>1. /\ pc[t] = "calling" /\ pc' = [pc EXCEPT ![t] = "storing"]
        /\ job[t].op = "merge" /\ tempDir' = tempDir
    BY <1>5 DEF StoreSource
  <2>2. StageOK(t)'
    BY <1>1, <1>9, <2>1 DEF StageOK, Places, Aimed
  <2>3. QED
    BY <1>1, <2>1, <2>2, QuietStep DEF Stages, Calling
<1>6. CASE Merged(t) \/ MergeFails(t)
  <2>1. PICK p \in {HandedOver(t), AfterFailure(t)} :
          pc[t] = "merging" /\ pc' = [pc EXCEPT ![t] = p] /\ tempDir' = tempDir
    BY <1>6 DEF Merged, MergeFails
  <2>2. job[t].op = "merge"
    BY <1>1, <2>1 DEF StageOK, Places
  <2>3. StageOK(t)'
    BY <1>1, <1>9, <2>1, <2>2 DEF StageOK, Places, Aimed, HandedOver, AfterFailure
  <2>4. p \in Stages /\ pc[t] \notin Calling(job[t].op)
    BY <2>1, <2>2 DEF Stages, Calling, HandedOver, AfterFailure
  <2>5. QED
    BY <1>1, <2>1, <2>3, <2>4, QuietStep
<1>7. CASE RemoveTempDir(t)
  <2>1. /\ pc[t] = "removing" /\ pc' = [pc EXCEPT ![t] = "failed"] /\ tempDir' = tempDir \ {t}
    BY <1>7 DEF RemoveTempDir
  <2>2. job[t].op = "merge"
    BY <1>1, <2>1 DEF StageOK, Places
  <2>3. StageOK(t)'
    BY <1>1, <1>9, <2>1, <2>2 DEF StageOK, Places, Aimed
  <2>4. "failed" \in Stages /\ pc[t] \notin Calling(job[t].op)
    BY <2>1, <2>2 DEF Stages, Calling
  <2>5. QED
    BY <1>1, <2>1, <2>3, <2>4, QuietStep
<1>8. QED
  BY <1>2, <1>3, <1>4, <1>5, <1>6, <1>7 DEF Quiet

LEMMA TargetsHaveBackends ==
    ASSUME IInv, NEW t \in Tasks, pc[t] \notin {"idle", "failed"}, job[t].op # "list"
    PROVE  /\ job[t] \in Jobs /\ IsJob(job[t]) /\ next[t] \in DOMAIN job[t].targets
           /\ Target(t).backend \in Backends
<1>1. StageOK(t)
  BY DEF IInv, TaskOK
<1>2. job[t] # NoJob /\ next[t] \in DOMAIN job[t].targets
  BY <1>1 DEF StageOK, NoJob
<1>3. job[t] \in Jobs /\ IsJob(job[t])
  BY <1>2, RecordingAssumption DEF IInv, RequestTypes
<1>4. QED
  BY <1>2, <1>3 DEF IsJob, Target

(* Who does not list has no second HTTP request. *)
LEMMA OneCall ==
    ASSUME IInv, NEW t \in Tasks, job[t].op # "list", NEW b \in Backends,
           b = Target(t).backend \/ call[<<t, b>>].st # "none",
           call' = [call EXCEPT ![<<t, b>>] = NoCall]
    PROVE  \A x \in Backends : call'[<<t, x>>].st = "none"
<1>1. NoCall.st = "none"
  BY DEF NoCall
<1>2. ASSUME NEW x \in Backends, x # b PROVE call[<<t, x>>].st = "none"
  BY <1>2 DEF IInv, TaskOK, CallOK
<1>3. QED
  BY <1>1, <1>2 DEF IInv, RequestTypes

LEMMA CallFailsIsOK ==
    ASSUME IInv, NEW t \in Tasks, NEW b \in Backends, CallFails(t, b)
    PROVE  IInv' /\ Others(t)
<1> DEFINE p == IF pc[t] \in {"failed", "done"} THEN pc[t]
                ELSE IF pc[t] \in {"streaming", "held"} THEN "done" ELSE AfterFailure(t)
<1>1. /\ call[<<t, b>>].st # "none" /\ call' = [call EXCEPT ![<<t, b>>] = NoCall]
      /\ pc' = [pc EXCEPT ![t] = p]
      /\ UNCHANGED <<recordingPathPrefix, agents, job, next, left, tempDir>>
  BY DEF CallFails, fileVars
<1>2. StageOK(t) /\ t \in DOMAIN pc
  BY <1>1 DEF IInv, TaskOK, RequestTypes
<1>3. job[t].op = "list" \/ pc[t] \in Calling(job[t].op)
  BY <1>1 DEF IInv, TaskOK, CallOK
<1>4. p \in Stages
  BY <1>2 DEF Stages, StageOK, Places, AfterFailure
<1>5. StageOK(t)'
  <2>1. Admitted(job[t])' <=> Admitted(job[t])
    BY <1>1 DEF Admitted
  <2>2. p \in Places(job[t].op) /\ p # "held" /\ (job[t].op = "merge" => p = "removing")
    BY <1>2, <1>3 DEF StageOK, Places, AfterFailure, Calling
  <2> HIDE DEF p
  <2>3. pc[t] \in {"idle", "failed"} => p = "failed"
    BY <1>2, <1>3 DEF StageOK, Places, Calling, p
  <2>4. QED
    BY <1>1, <1>2, <2>1, <2>2, <2>3 DEF StageOK
<1>6. job[t].op = "list" \/ \A x \in Backends : call'[<<t, x>>].st = "none"
  BY <1>1, OneCall
<1> HIDE DEF p
<1>7. QED
  BY <1>1, <1>2, <1>4, <1>5, <1>6, StageStep

LEMMA DeletedIsOK ==
    ASSUME IInv, NEW t \in Tasks, Deleted(t)
    PROVE  IInv' /\ Others(t)
<1> DEFINE b == Target(t).backend
<1>1. /\ job[t].op = "delete" /\ pc[t] = "calling"
      /\ call[<<t, b>>].st = "open" /\ call' = [call EXCEPT ![<<t, b>>] = NoCall]
      /\ pc' = [pc EXCEPT ![t] = "done"]
      /\ UNCHANGED <<recordingPathPrefix, agents, job, next, left, tempDir>>
  BY DEF Deleted, WithoutFile
<1>2. StageOK(t) /\ t \in DOMAIN pc
  BY <1>1 DEF IInv, TaskOK, RequestTypes
<1>3. b \in Backends
  BY <1>1, TargetsHaveBackends
<1>4. StageOK(t)'
  BY <1>1, <1>2 DEF StageOK, Places, Admitted
<1>5. \A x \in Backends : call'[<<t, x>>].st = "none"
  BY <1>1, <1>3, OneCall
<1> HIDE DEF b
<1>6. "done" \in Stages
  BY DEF Stages
<1>7. QED
  BY <1>1, <1>2, <1>3, <1>4, <1>5, <1>6, StageStep

(* The end of a stream, with or without its client. *)
LEMMA ClosingIsOK ==
    ASSUME IInv, NEW t \in Tasks, pc[t] = "streaming", StreamCloses(t),
           UNCHANGED <<recordingPathPrefix, agents, job, next>>,
           left' \in {left, left \union {t}}
    PROVE  IInv' /\ Others(t)
<1>1. StageOK(t) /\ CallOK(t) /\ t \in DOMAIN pc
  BY DEF IInv, TaskOK, RequestTypes
<1>2. /\ pc' = [pc EXCEPT ![t] = "done"] /\ tempDir' = tempDir \ {t}
      /\ call' = IF job[t].op = "download"
                 THEN [call EXCEPT ![<<t, Target(t).backend>>] = NoCall] ELSE call
  BY DEF StreamCloses, CleanedUp
<1>3. job[t].op \in {"download", "merge"}
  BY <1>1 DEF StageOK, Places
<1>4. StageOK(t)'
  BY <1>1, <1>2, <1>3 DEF StageOK, Places, Admitted
<1>5. Target(t).backend \in Backends
  BY <1>3, TargetsHaveBackends
<1>6. \A x \in Backends : call'[<<t, x>>].st = "none"
  <2>1. CASE job[t].op = "download"
    BY <1>2, <1>5, <2>1, OneCall
  <2>2. CASE job[t].op = "merge"
    BY <1>1, <1>2, <2>2 DEF CallOK, Calling
  <2>3. QED
    BY <1>3, <2>1, <2>2
<1>7. \/ call' = call
      \/ \E b \in Backends : call' = [call EXCEPT ![<<t, b>>] = NoCall]
  BY <1>2, <1>5
<1>8. "done" \in Stages
  BY DEF Stages
<1>9. QED
  BY <1>1, <1>2, <1>4, <1>6, <1>7, <1>8, StageStep

LEMMA LeavingIsOK ==
    ASSUME IInv, NEW t \in Tasks, StreamEnds(t) \/ ClientLeaves(t)
    PROVE  IInv' /\ Others(t)
<1>1. UNCHANGED <<recordingPathPrefix, agents, job, next>> /\ left' \in {left, left \union {t}}
  BY DEF StreamEnds, ClientLeaves, fileVars
<1>2. CASE pc[t] = "streaming"
  BY <1>1, <1>2, ClosingIsOK DEF StreamEnds, ClientLeaves
<1>3. CASE pc[t] # "streaming"
  <2>1. UNCHANGED <<pc, tempDir, call>>
    BY <1>3 DEF StreamEnds, ClientLeaves
  <2>2. StageOK(t) /\ t \in DOMAIN pc /\ pc[t] \in Stages
    BY DEF IInv, TaskOK, RequestTypes
  <2>3. StageOK(t)'
    BY <1>1, <2>1, <2>2 DEF StageOK, Admitted
  <2>4. CallOK(t)'
    BY <1>1, <2>1 DEF IInv, TaskOK, CallOK, Target
  <2>5. WorldOK /\ TasksOK /\ Others(t)
    BY <1>1, <2>1 DEF IInv, RequestTypes, WorldOK, TasksOK, Others, Left
  <2>6. QED
    BY <2>3, <2>4, <2>5, StepIsLocal DEF TaskOK
<1>4. QED
  BY <1>2, <1>3

LEMMA SourceStoredIsOK ==
    ASSUME IInv, NEW t \in Tasks, SourceStored(t)
    PROVE  IInv' /\ Others(t)
<1> DEFINE b == Target(t).backend
           p == IF next[t] < Len(job[t].targets) THEN "resolving" ELSE "merging"
           n == IF next[t] < Len(job[t].targets) THEN next[t] + 1 ELSE next[t]
<1>1. /\ pc[t] = "storing" /\ call' = [call EXCEPT ![<<t, b>>] = NoCall]
      /\ pc' = [pc EXCEPT ![t] = p] /\ next' = [next EXCEPT ![t] = n]
      /\ UNCHANGED <<recordingPathPrefix, agents, job, left, tempDir>>
  BY DEF SourceStored, fileVars, IInv, RequestTypes
<1>2. StageOK(t) /\ CallOK(t) /\ t \in DOMAIN pc
  BY DEF IInv, TaskOK, RequestTypes
<1>3. job[t].op = "merge"
  BY <1>1, <1>2 DEF StageOK, Places
<1>4. b \in Backends /\ IsJob(job[t]) /\ next[t] \in DOMAIN job[t].targets
  BY <1>1, <1>3, TargetsHaveBackends
<1>5. n \in Nat \ {0} /\ n \in DOMAIN job[t].targets
  BY <1>4 DEF IsJob, IsSequence, IInv, RequestTypes
<1>6. p \in Stages /\ p \in Places("merge") /\ p \notin {"held", "making", "done", "failed"}
  BY DEF Stages, Places
<1>7. \A x \in Backends : call'[<<t, x>>].st = "none"
  BY <1>1, <1>3, <1>4, OneCall
<1>8. /\ call' \in [Tasks \X Backends -> CallType]
      /\ \A u \in Tasks \ {t}, x \in Backends : call'[<<u, x>>] = call[<<u, x>>]
  BY <1>1, <1>4, CallsEnd DEF IInv
<1> HIDE DEF p, n, b
<1>9. WorldOK /\ TasksOK
  BY <1>1, <1>5, <1>6, <1>8 DEF IInv, RequestTypes, WorldOK, TasksOK
<1>10. Others(t)
  BY <1>1, <1>8 DEF IInv, RequestTypes, Others, Left
<1>11. pc'[t] = p /\ next'[t] = n
  BY <1>1 DEF IInv, RequestTypes
<1>12. StageOK(t)'
  BY <1>1, <1>2, <1>3, <1>5, <1>6, <1>11 DEF StageOK, Admitted
<1>13. CallOK(t)'
  BY <1>7 DEF CallOK
<1>14. QED
  BY <1>9, <1>10, <1>12, <1>13, StepIsLocal DEF TaskOK

(* A step of t that asks the transport for options. *)
LEMMA TransportStep ==
    ASSUME IInv, NEW t \in Tasks, NEW p \in Stages, NEW now, TransportOK(now),
           \A u \in Tasks \ {t}, b \in Backends :
               /\ now.call[<<u, b>>].st = call[<<u, b>>].st
               /\ now.call[<<u, b>>].file = call[<<u, b>>].file,
           agents' = now.agents, call' = now.call,
           pc' = [pc EXCEPT ![t] = p],
           UNCHANGED <<recordingPathPrefix, job, next, left, tempDir>>,
           StageOK(t)', CallOK(t)'
    PROVE  IInv' /\ Others(t)
<1>1. WorldOK /\ TasksOK
  BY DEF IInv, RequestTypes, WorldOK, TasksOK, TransportOK
<1>2. Others(t)
  BY DEF IInv, RequestTypes, Others, Left
<1>3. QED
  BY <1>1, <1>2, StepIsLocal DEF TaskOK

LEMMA ResolveIsOK ==
    ASSUME IInv, NEW t \in Tasks, Resolve(t)
    PROVE  IInv' /\ Others(t)
<1> DEFINE k == <<t, Target(t).backend>>
           path == Target(t).path
           now == IF path \in DOMAIN Url THEN httpOptions(Transport, k, Url[path]) ELSE Transport
           p == IF now.call[k].st = "ready" THEN "calling" ELSE AfterFailure(t)
<1>1. /\ pc[t] = "resolving" /\ job[t].op # "list"
      /\ agents' = now.agents /\ call' = now.call /\ pc' = [pc EXCEPT ![t] = p]
      /\ UNCHANGED <<recordingPathPrefix, job, next, left, tempDir>>
  BY DEF Resolve, fileVars
<1>2. StageOK(t) /\ CallOK(t) /\ t \in DOMAIN pc
  BY DEF IInv, TaskOK, RequestTypes
<1>3. k \in Tasks \X Backends
  BY <1>1, TargetsHaveBackends
<1>4. TransportOK(Transport) /\ Transport.call = call
  BY TransportIsOK DEF Transport
<1>5. \/ now = Transport
      \/ path \in DOMAIN Url /\ Granted(Transport, k, Url[path], now)
  BY <1>3, <1>4, OptionsTakeNothing DEF Urls
<1> HIDE DEF now
<1>6. /\ TransportOK(now)
      /\ \A x \in (Tasks \X Backends) \ {k} :
            now.call[x].st = call[x].st /\ now.call[x].file = call[x].file
      /\ \/ now.call[k] = call[k]
         \/ path \in DOMAIN Url /\ now.call[k] = New(Url[path])
  BY <1>4, <1>5 DEF Granted
<1>7. \A b \in Backends : call[<<t, b>>].st = "none"
  BY <1>1, <1>2 DEF CallOK, Calling
<1>8. /\ \A b \in Backends : <<t, b>> # k => now.call[<<t, b>>].st = "none"
      /\ \/ now.call[k].st = "none" /\ p = AfterFailure(t)
         \/ /\ path \in DOMAIN Url /\ now.call[k].st = "ready" /\ now.call[k].file = Url[path]
            /\ p = "calling"
  BY <1>3, <1>6, <1>7 DEF New
<1> HIDE DEF p
<1>9. p \in {"calling", AfterFailure(t)}
  BY <1>8
<1>10. pc'[t] = p /\ p \in Stages
  BY <1>1, <1>2, <1>9 DEF Stages, AfterFailure
<1>11. StageOK(t)'
  <2>1. Admitted(job[t])' <=> Admitted(job[t])
    BY <1>1 DEF Admitted
  <2>2. QED
    BY <1>1, <1>2, <1>9, <1>10, <2>1 DEF StageOK, Places, AfterFailure
<1>12. CallOK(t)'
  <2>1. ASSUME NEW b \in Backends, call'[<<t, b>>].st # "none"
        PROVE  /\ pc'[t] = "calling" /\ b = Target(t).backend /\ path \in DOMAIN Url
               /\ call'[<<t, b>>].file = Url[path]
    BY <1>1, <1>8, <1>10, <2>1
  <2>2. Target(t)' = Target(t)
    BY <1>1 DEF Target
  <2>3. \A b \in Backends : call'[<<t, b>>].st # "cut"
    BY <1>1, <1>6 DEF TransportOK
  <2>4. "calling" \in Calling(job'[t].op)
    BY DEF Calling
  <2>5. QED
    BY <2>1, <2>2, <2>3, <2>4 DEF CallOK
<1>13. \A u \in Tasks \ {t}, b \in Backends :
          now.call[<<u, b>>].st = call[<<u, b>>].st /\ now.call[<<u, b>>].file = call[<<u, b>>].file
  BY <1>3, <1>6
<1>14. QED
  BY <1>1, <1>6, <1>10, <1>11, <1>12, <1>13, TransportStep

LEMMA OpenIsOK ==
    ASSUME IInv, NEW t \in Tasks, NEW b \in Backends, Open(<<t, b>>)
    PROVE  IInv' /\ Others(t)
<1> DEFINE k == <<t, b>>
<1>1. /\ call[k].st = "ready" /\ call' = [call EXCEPT ![k] = [@ EXCEPT !.st = "open"]]
      /\ UNCHANGED <<recordingPathPrefix, agents, pc, job, next, left, tempDir>>
  BY DEF Open, fileVars, taskVars
<1>2. [call[k] EXCEPT !.st = "open"] \in CallType
  <2>1. call[k] \in CallType
    BY DEF IInv, RequestTypes
  <2>2. \A c \in CallType : [c EXCEPT !.st = "open"] \in CallType
    BY DEF CallType
  <2>3. QED
    BY <2>1, <2>2
<1>3. /\ call' \in [Tasks \X Backends -> CallType]
      /\ \A x \in Tasks \X Backends : x # k => call'[x] = call[x]
  BY <1>1, <1>2 DEF IInv, RequestTypes
<1>4. call'[k].st = "open" /\ call'[k].file = call[k].file
  BY <1>1 DEF IInv, RequestTypes, CallType
<1>5. WorldOK /\ TasksOK
  BY <1>1, <1>3 DEF IInv, RequestTypes, WorldOK, TasksOK
<1>6. Others(t)
  BY <1>1, <1>3 DEF Others, Left
<1>7. StageOK(t)'
  BY <1>1 DEF IInv, TaskOK, StageOK, Admitted
<1>8. CallOK(t)'
  <2>1. CallOK(t) /\ job' = job /\ pc' = pc /\ next' = next
    BY <1>1 DEF IInv, TaskOK
  <2>2. ASSUME NEW c \in Backends
        PROVE  /\ call'[<<t, c>>].st \in {call[<<t, c>>].st, "open"}
               /\ call'[<<t, c>>].st = "none" <=> call[<<t, c>>].st = "none"
               /\ call'[<<t, c>>].file = call[<<t, c>>].file
    <3>1. CASE c = b
      BY <1>1, <1>4, <3>1
    <3>2. CASE c # b
      BY <1>3, <3>2
    <3>3. QED
      BY <3>1, <3>2
  <2>3. QED
    BY <2>1, <2>2 DEF CallOK, Target
<1>9. QED
  BY <1>5, <1>6, <1>7, <1>8, StepIsLocal DEF TaskOK

(* The first pages of a list: after each backend was asked, the transport is  *)
(* fit to be asked by the next one, and no other request was touched.         *)
Untouched(t, st) ==
    /\ TransportOK(st)
    /\ \A u \in Tasks \ {t}, b \in Backends :
          /\ st.call[<<u, b>>].st = call[<<u, b>>].st
          /\ st.call[<<u, b>>].file = call[<<u, b>>].file

LEMMA AskingLeavesUntouched ==
    ASSUME NEW t \in Tasks, NEW st, Untouched(t, st), NEW b \in Backends, NEW file \in Urls
    PROVE  Untouched(t, httpOptions(st, <<t, b>>, file))
<1>1. Granted(st, <<t, b>>, file, httpOptions(st, <<t, b>>, file))
  BY OptionsTakeNothing DEF Untouched
<1>2. QED
  BY <1>1 DEF Granted, Untouched

AsksInTurn(t, asked) ==
    asked = [i \in 0..Len(BackendOrder) |->
               IF i = 0 THEN Transport ELSE httpOptions(asked[i - 1], <<t, BackendOrder[i]>>, <<>>)]

LEMMA FirstPagesAreAsked ==
    ASSUME IInv, NEW t \in Tasks
    PROVE  AsksInTurn(t, FirstPages(t)) /\ Untouched(t, FirstPages(t)[Len(BackendOrder)])
<1> DEFINE n == Len(BackendOrder)
           Good(st) == Untouched(t, st)
           S == {st \in [agents: Seq(Backends), call: [Tasks \X Backends -> CallType]] : Good(st)}
           Ask1(st, i) == httpOptions(st, <<t, BackendOrder[i]>>, <<>>)
           H == [x \in S \X (1..n) |-> Ask1(x[1], x[2])]
<1>1. n \in Nat /\ \A i \in 1..n : BackendOrder[i] \in Backends
  BY RecordingAssumption DEF IsSequence, Backends, ToSet
<1>2. <<>> \in Urls
  BY DEF Urls
<1>3. \A st : st \in S <=> Good(st)
  BY DEF Untouched, TransportOK
<1>4. Good(Transport)
  BY TransportIsOK DEF Untouched, Transport
<1>5. ASSUME NEW st \in S, NEW i \in 1..n PROVE Ask1(st, i) \in S
  BY <1>1, <1>2, <1>3, AskingLeavesUntouched
<1> HIDE DEF S, Good, Ask1
<1>6. H \in [S \X (1..n) -> S]
  BY <1>5
<1>7. \A st \in S, i \in 1..n : H[<<st, i>>] = Ask1(st, i)
  OBVIOUS
<1> HIDE DEF H, n
<1>8. PICK g : StepsTo(g, n, S, Transport, H)
  BY <1>1, <1>3, <1>4, <1>6, StepsExist
<1>9. AsksInTurn(t, g)
  <2>1. g = [i \in 0..n |-> g[i]] /\ \A i \in 1..n : i - 1 \in 0..n
    BY <1>1, <1>8 DEF StepsTo
  <2>2. ASSUME NEW i \in 1..n PROVE g[i] = Ask1(g[i - 1], i)
    <3>1. g[i - 1] \in S /\ g[i] = H[<<g[i - 1], i>>]
      BY <1>8, <2>1 DEF StepsTo
    <3>2. QED
      BY <1>7, <3>1
  <2>3. g[0] = Transport /\ \A i \in 0..n : i = 0 \/ i \in 1..n
    BY <1>1, <1>8 DEF StepsTo
  <2>4. QED
    BY <2>1, <2>2, <2>3 DEF AsksInTurn, Ask1, n
<1>10. FirstPages(t) = CHOOSE asked : AsksInTurn(t, asked)
  BY DEF FirstPages, AsksInTurn
<1>11. AsksInTurn(t, FirstPages(t))
  BY <1>9, <1>10
<1>12. \A i \in 0..n : Good(FirstPages(t)[i])
  <2> DEFINE G == {i \in 0..n : Good(FirstPages(t)[i])}
  <2>1. 0 \in G
    BY <1>1, <1>4, <1>11 DEF AsksInTurn, n
  <2>2. ASSUME NEW i \in 1..n, i - 1 \in G PROVE i \in G
    BY <1>1, <1>3, <1>5, <1>11, <2>2 DEF AsksInTurn, n, Ask1
  <2> HIDE DEF G
  <2>3. \A i \in 0..n : i \in G
    BY <1>1, <2>1, <2>2, UpTo
  <2>4. QED
    BY <2>3 DEF G
<1>13. QED
  BY <1>1, <1>11, <1>12 DEF Good, n

LEMMA StartListIsOK ==
    ASSUME IInv, NEW t \in Tasks, StartList(t)
    PROVE  IInv' /\ Others(t)
<1> DEFINE now == FirstPages(t)[Len(BackendOrder)]
           p == IF \A b \in Backends : now.call[<<t, b>>].st = "ready" THEN "listing" ELSE "failed"
<1>1. /\ job[t].op = "list" /\ pc[t] = "resolving"
      /\ agents' = now.agents /\ call' = now.call /\ pc' = [pc EXCEPT ![t] = p]
      /\ UNCHANGED <<recordingPathPrefix, job, next, left, tempDir>>
  BY DEF StartList
<1>2. Untouched(t, now)
  BY FirstPagesAreAsked
<1> HIDE DEF now
<1>3. p \in {"listing", "failed"}
  OBVIOUS
<1> HIDE DEF p
<1>4. p \in Stages /\ StageOK(t) /\ pc'[t] = p
  BY <1>1, <1>3 DEF IInv, TaskOK, RequestTypes, Stages
<1>5. StageOK(t)'
  BY <1>1, <1>3, <1>4 DEF StageOK, Places
<1>6. CallOK(t)'
  BY <1>1, <1>2 DEF CallOK, Untouched, TransportOK
<1>7. QED
  BY <1>1, <1>2, <1>4, <1>5, <1>6, TransportStep DEF Untouched

LEMMA ListPageIsOK ==
    ASSUME IInv, NEW t \in Tasks, NEW b \in Backends, NEW withTotal \in BOOLEAN,
           ListPage(t, b, withTotal)
    PROVE  IInv' /\ Others(t)
<1> DEFINE k == <<t, b>>
           ended == [Transport EXCEPT !.call[k] = NoCall]
           asked == httpOptions(ended, k, <<>>)
<1>1. /\ job[t].op = "list" /\ call[k].st = "open"
      /\ UNCHANGED <<recordingPathPrefix, job, next, left, tempDir>>
  BY DEF ListPage, fileVars
<1>2. PICK now \in {ended, asked} : agents' = now.agents /\ call' = now.call
  BY DEF ListPage, Transport
<1>3. PICK p \in {pc[t], "failed", "done"} :
          pc' = [pc EXCEPT ![t] = p] /\ (pc[t] # "listing" => p = pc[t])
  BY DEF ListPage
<1>4. Untouched(t, ended)
  <2>1. NoCall \in CallType /\ NoCall.st # "cut"
    BY DEF NoCall, CallType, Urls
  <2>2. TransportOK(Transport) /\ Transport = [agents |-> agents, call |-> call]
    BY TransportIsOK DEF Transport
  <2>3. ended = [agents |-> agents, call |-> [call EXCEPT ![k] = NoCall]]
    BY <2>2
  <2>4. QED
    BY <2>1, <2>2, <2>3 DEF TransportOK, Untouched
<1> HIDE DEF ended
<1>5. Untouched(t, now)
  BY <1>4, AskingLeavesUntouched DEF Urls
<1> HIDE DEF asked
<1>6. p \in Stages /\ StageOK(t) /\ pc'[t] = p
  BY <1>3 DEF IInv, TaskOK, RequestTypes, Stages
<1>7. StageOK(t)'
  BY <1>1, <1>3, <1>6 DEF StageOK, Places
<1>8. CallOK(t)'
  BY <1>1, <1>2, <1>5 DEF CallOK, Untouched, TransportOK
<1>9. QED
  BY <1>1, <1>2, <1>3, <1>5, <1>6, <1>7, <1>8, TransportStep DEF Untouched

LEMMA StartRecordingIsOK ==
    ASSUME IInv, NEW b \in Backends, NEW path \in StartPaths, StartRecording(b, path)
    PROVE  IInv'
<1>1. UNCHANGED <<recordingPathPrefix, agents, call, pc, job, next, left, tempDir>>
  BY DEF StartRecording, callVars, taskVars
<1>2. RequestTypes'
  BY <1>1 DEF IInv, RequestTypes
<1>3. ASSUME NEW t \in Tasks PROVE TaskOK(t)'
  BY <1>1, OthersStay DEF Left
<1>4. QED
  BY <1>2, <1>3 DEF IInv

LEMMA TaskStepIsOK ==
    ASSUME IInv, NEW t \in Tasks, TaskNext(t)
    PROVE  IInv' /\ Others(t)
<1>1. CASE \E j \in Jobs : Ask(t, j)
  BY <1>1, AskIsOK
<1>2. CASE Quiet(t)
  BY <1>2, QuietStepsAreOK
<1>3. CASE Resolve(t) \/ StartList(t)
  BY <1>3, ResolveIsOK, StartListIsOK
<1>4. CASE \E b \in Backends : Open(<<t, b>>) \/ CallFails(t, b)
  BY <1>4, OpenIsOK, CallFailsIsOK
<1>5. CASE \E b \in Backends, withTotal \in BOOLEAN : ListPage(t, b, withTotal)
  BY <1>5, ListPageIsOK
<1>6. CASE Deleted(t) \/ SourceStored(t) \/ StreamEnds(t) \/ ClientLeaves(t)
  BY <1>6, DeletedIsOK, SourceStoredIsOK, LeavingIsOK
<1>7. QED
  BY <1>1, <1>2, <1>3, <1>4, <1>5, <1>6 DEF TaskNext, Quiet

LEMMA IInvIsKept == IInv /\ [Next]_vars => IInv'
<1> SUFFICES ASSUME IInv, [Next]_vars PROVE IInv'
  OBVIOUS
<1>1. ASSUME NEW t \in Tasks, TaskNext(t) PROVE IInv'
  BY <1>1, TaskStepIsOK
<1>2. CASE UNCHANGED vars
  <2>1. UNCHANGED <<recordingPathPrefix, agents, call, pc, job, next, left, tempDir>>
    BY <1>2 DEF vars, fileVars, callVars, taskVars
  <2>2. RequestTypes'
    BY <2>1 DEF IInv, RequestTypes
  <2>3. ASSUME NEW t \in Tasks PROVE TaskOK(t)'
    BY <2>1, OthersStay DEF Left
  <2>4. QED
    BY <2>2, <2>3 DEF IInv
<1>3. QED
  BY <1>1, <1>2, StartRecordingIsOK DEF Next

THEOREM RequestsStayInStage == Spec => []IInv
  BY StartsWell, IInvIsKept, PTL DEF Spec

(* No temporary directory outlives its merge, for any number of merges,       *)
(* targets and failures: whatever ends a merge that has its directory also    *)
(* removes it, but for a stream that nobody was left to be handed to.         *)
THEOREM DirectoriesGo == Spec => []TempDirsGo
<1>1. IInv => TempDirsGo
  BY DEF IInv, RequestTypes, TaskOK, StageOK, Places, TempDirsGo
<1>2. QED
  BY <1>1, RequestsStayInStage, PTL

-----------------------------------------------------------------------------
(* The files that requests are about. *)

LEMMA UrlsAreBelow ==
    ASSUME NEW path, IsSequence(path), path \in DOMAIN Url, NEW prefix
    PROVE  /\ IsStrictPrefix(Root, Url[path])
           /\ OwnedRecordingPath(prefix, path) /\ prefix # <<>> =>
                 /\ Len(Url[path]) = Len(Root) + 1
                 /\ IsStrictPrefix(prefix, Url[path][Len(Url[path])])
<1> DEFINE safe == safeRecordingPathSegments(path)
<1>1. SafePath(path) /\ Url[path] = recordingUrl(path)
  BY DEF Url
<1>2. PICK T : path \in Seq(T)
  BY DEF IsSequence
<1>3. safe \in Seq(SegmentsOf(Plainer(T))) /\ safe # <<>>
  BY <1>1, <1>2, SafeSegmentsAreSegments
<1>4. Url[path] = Root \o safe
  BY <1>1, <1>2, UrlIsThePath
<1>5. OwnedRecordingPath(prefix, path) /\ prefix # <<>> =>
        Len(safe) = 1 /\ IsStrictPrefix(prefix, safe[1])
  BY DEF OwnedRecordingPath, ownsRecordingPath
<1> HIDE DEF safe
<1>6. PICK url : url = Root \o safe
  OBVIOUS
<1>7. /\ IsStrictPrefix(Root, url) /\ Len(url) = Len(Root) + Len(safe)
      /\ \A i \in 1..Len(safe) : url[Len(Root) + i] = safe[i]
  BY <1>3, <1>6, BelowTheRoot
<1>8. Len(safe) = 1 => Len(url) = Len(Root) + 1 /\ url[Len(url)] = safe[1]
  BY <1>7
<1>9. QED
  BY <1>4, <1>5, <1>6, <1>7, <1>8

(* A file that a start records to, and its name. *)
LEMMA StartsAreBelow ==
    ASSUME NEW prefix \in PathPrefixes, NEW path \in DOMAIN Start[prefix]
    PROVE  LET file == Start[prefix][path]
           IN  /\ file \in DOMAIN Name /\ BelowRoot(file)
               /\ OwnedRecordingPath(prefix, Name[file])
               /\ IsSequence(Name[file])
               /\ file = Root \o Segments(Name[file])
<1> DEFINE file == Start[prefix][path]
           T == {path[i] : i \in 1..Len(path)} \union {"rec", "/"}
<1>1. /\ path \in StartPaths /\ MayRecord(prefix, path)
      /\ file = Resolved(Root, path) /\ file \in DOMAIN Name
      /\ Name[file] = relativeRecordingPath(file)
  BY DEF Start, Name, recordingFilePath
<1> HIDE DEF file
<1>2. BelowRoot(file) /\ OwnedRecordingPath(prefix, Name[file])
  BY <1>1 DEF MayRecord, relativeRecordingPath
<1>3. path \in Seq(T) /\ "/" \in T
  <2>1. path \in Seq(Range(path))
    BY <1>1, RecordingAssumption DEF IsSequence
  <2>2. QED
    BY <2>1
<1> HIDE DEF T
<1>4. Root \in Seq(SegmentsOf(T))
  <2>1. <<"rec">> \in SegmentsOf(T)
    BY DEF SegmentsOf, Separators, T
  <2>2. QED
    BY <2>1 DEF Root
<1>5. file \in Seq(SegmentsOf(T))
  BY <1>1, <1>3, <1>4, ResolvedIsSegments
<1>6. Name[file] \in Seq(T) /\ file = Root \o Segments(Name[file])
  BY <1>1, <1>2, <1>3, <1>5, NamesGiveTheFile
<1>7. IsSequence(Name[file])
  BY <1>6, SeqOfRange DEF IsSequence
<1>8. QED
  BY <1>1, <1>2, <1>6, <1>7 DEF file

StartedOK ==
    \A r \in started :
        /\ \E path \in DOMAIN Start[recordingPathPrefix] : r.file = Start[recordingPathPrefix][path]
        /\ r.recordingPath = Name[r.file]
        /\ r.answered => r.recordingPath \in DOMAIN Url

LEMMA StartedStaysOK == IInv /\ StartedOK /\ [Next]_vars => StartedOK'
<1> SUFFICES ASSUME IInv, StartedOK, [Next]_vars PROVE StartedOK'
  OBVIOUS
<1>1. CASE \E b \in Backends, path \in StartPaths : StartRecording(b, path)
  <2>1. PICK b \in Backends, path \in StartPaths : StartRecording(b, path)
    BY <1>1
  <2> DEFINE file == Start[recordingPathPrefix][path]
             new == [file |-> file, recordingPath |-> Name[file], answered |-> Name[file] \in DOMAIN Url]
  <2>2. /\ path \in DOMAIN Start[recordingPathPrefix] /\ UNCHANGED recordingPathPrefix
        /\ started' = started \union {new}
    BY <2>1 DEF StartRecording
  <2>3. new.file = file /\ new.recordingPath = Name[file]
    BY Zenon
  <2>4. new.answered => Name[file] \in DOMAIN Url
    BY Zenon
  <2> HIDE DEF new
  <2>5. QED
    BY <2>2, <2>3, <2>4 DEF StartedOK
<1>2. CASE UNCHANGED <<recordingPathPrefix, started>>
  BY <1>2 DEF StartedOK
<1>3. ASSUME NEW t \in Tasks, TaskNext(t) PROVE UNCHANGED <<recordingPathPrefix, started>>
  BY <1>3 DEF TaskNext, Ask, MakeTempDir, Resolve, ResolveFails, StartList, Open, CallFails,
              ListPage, Deleted, WithoutFile, Downloading, StoreSource, SourceStored, Merged,
              MergeFails, RemoveTempDir, StreamEnds, ClientLeaves, fileVars
<1>4. CASE UNCHANGED vars
  BY <1>2, <1>4 DEF vars, fileVars
<1>5. QED
  BY <1>1, <1>2, <1>3, <1>4 DEF Next

LEMMA StartsAreKept == Spec => [](IInv /\ StartedOK)
<1>1. Init => StartedOK
  BY DEF Init, StartedOK
<1>2. QED
  BY <1>1, StartsWell, IInvIsKept, StartedStaysOK, PTL DEF Spec

(* The file an HTTP request is about, unless it lists. *)
LEMMA AskedIsTheTarget ==
    ASSUME IInv, NEW k \in Tasks \X Backends, call[k].st # "none", job[k[1]].op # "list"
    PROVE  \E path \in DOMAIN Url : /\ IsSequence(path) /\ call[k].file = Url[path]
                                    /\ OwnedRecordingPath(recordingPathPrefix, path)
<1> DEFINE t == k[1]
           path == Target(t).path
<1>1. t \in Tasks /\ k[2] \in Backends /\ k = <<t, k[2]>>
  OBVIOUS
<1>2. StageOK(t) /\ CallOK(t)
  BY <1>1 DEF IInv, TaskOK
<1>3. pc[t] \in Calling(job[t].op) /\ path \in DOMAIN Url /\ call[k].file = Url[path]
  BY <1>1, <1>2 DEF CallOK
<1>4. pc[t] \notin {"idle", "failed"} /\ job[t].op # "none"
  BY <1>2, <1>3 DEF Calling, StageOK, Places
<1>5. Admitted(job[t]) /\ next[t] \in DOMAIN job[t].targets
  BY <1>2, <1>4 DEF StageOK
<1>6. job[t] \in Jobs
  BY <1>1, <1>4 DEF IInv, RequestTypes, NoJob
<1>7. IsSequence(path)
  BY <1>5, <1>6, RecordingAssumption DEF IsJob, Target
<1>8. path \in Owned[recordingPathPrefix]
  BY <1>5 DEF Admitted, Target
<1>9. OwnedRecordingPath(recordingPathPrefix, path)
  BY <1>8 DEF Owned, IInv, RequestTypes
<1>10. QED
  BY <1>3, <1>7, <1>9

(* A request reaches the file it is about and nothing else, for every         *)
(* configured prefix, every path and every number of requests, however their  *)
(* steps interleave and however few agents there are.                         *)
THEOREM RequestsReachTheirOwn == Spec => []RequestsReachTheirFile
<1>1. ASSUME IInv, StartedOK PROVE RequestsReachTheirFile
  <2> DEFINE Asked   == {call[k].file : k \in {x \in DOMAIN call : call[x].st # "none" /\ job[x[1]].op # "list"}}
             Plain   == {r \in started : r.answered /\ Unescaping(r.recordingPath)}
             Ours(f) == recordingPathPrefix # <<>> => /\ Len(f) = Len(Root) + 1
                                                      /\ IsStrictPrefix(recordingPathPrefix, f[Len(f)])
  <2>1. recordingPathPrefix \in PathPrefixes /\ DOMAIN call = Tasks \X Backends
    BY <1>1 DEF IInv, RequestTypes
  <2>2. ASSUME NEW f \in Asked PROVE IsStrictPrefix(Root, f) /\ Ours(f)
    <3>1. PICK k \in Tasks \X Backends : call[k].st # "none" /\ job[k[1]].op # "list" /\ f = call[k].file
      BY <2>1, <2>2
    <3>2. PICK path \in DOMAIN Url : /\ IsSequence(path) /\ f = Url[path]
                                     /\ OwnedRecordingPath(recordingPathPrefix, path)
      BY <1>1, <3>1, AskedIsTheTarget
    <3>3. QED
      BY <3>2, UrlsAreBelow
  <2>3. ASSUME NEW r \in started
        PROVE  /\ BelowRoot(r.file) /\ r.recordingPath = Name[r.file]
               /\ OwnedRecordingPath(recordingPathPrefix, r.recordingPath)
               /\ IsSequence(r.recordingPath)
               /\ r.file = Root \o Segments(r.recordingPath)
               /\ r.answered => r.recordingPath \in DOMAIN Url
    BY <1>1, <2>1, <2>3, StartsAreBelow DEF StartedOK
  <2>4. ASSUME NEW r \in Plain
        PROVE  Ours(r.file) /\ Url[r.recordingPath] = r.file
    <3> DEFINE path == r.recordingPath
    <3>1. r \in started /\ path \in DOMAIN Url /\ IsSequence(path) /\ Unescaping(path)
      BY <2>3, <2>4
    <3>2. Url[path] = recordingUrl(path) /\ SafePath(path)
      BY <3>1 DEF Url
    <3>3. PICK T : path \in Seq(T)
      BY <3>1 DEF IsSequence
    <3>4. recordingUrl(path) = Root \o safeRecordingPathSegments(path)
      BY <3>2, <3>3, UrlIsThePath
    <3>5. safeRecordingPathSegments(path) = Segments(path)
      BY <3>1, <3>3, PlainPaths
    <3>6. Url[path] = r.file
      BY <2>3, <3>1, <3>2, <3>4, <3>5
    <3>7. OwnedRecordingPath(recordingPathPrefix, path)
      BY <2>3, <3>1
    <3>8. Ours(Url[path])
      BY <3>1, <3>7, UrlsAreBelow
    <3>9. QED
      BY <3>6, <3>8
  <2>5. \A k \in DOMAIN call : call[k].st # "cut"
    BY <1>1, <2>1 DEF IInv, TaskOK, CallOK
  <2>6. \A f \in Asked \union {r.file : r \in started} : IsStrictPrefix(Root, f)
    BY <2>2, <2>3 DEF BelowRoot
  <2>7. \A f \in Asked \union {r.file : r \in Plain} : Ours(f)
    BY <2>2, <2>4
  <2>8. \A r \in Plain : Url[r.recordingPath] = r.file
    BY <2>4
  <2> HIDE DEF Asked, Plain, Ours
  <2>9. QED
    BY <2>5, <2>6, <2>7, <2>8 DEF RequestsReachTheirFile, Asked, Plain, Ours
<1>2. QED
  BY <1>1, StartsAreKept, PTL

-----------------------------------------------------------------------------
(* Lists put together from pages. *)

LEMMA OrderOfFiles ==
    /\ FileOrder \in Seq(Files) /\ Len(FileOrder) \in Nat
    /\ \A f \in Files : \E i \in 1..Len(FileOrder) : FileOrder[i] = f
    /\ \A i, j \in 1..Len(FileOrder) : FileOrder[i] = FileOrder[j] => i = j
<1>1. FileOrder \in Seq(Range(FileOrder)) /\ IsInjective(FileOrder)
  BY RecordingAssumption DEF IsSequence
<1>2. Files = Range(FileOrder)
  BY DEF Files, ToSet, Range
<1>3. \A f \in Files : \E i \in 1..Len(FileOrder) : FileOrder[i] = f
  BY <1>1 DEF Files, ToSet
<1>4. QED
  BY <1>1, <1>2, <1>3 DEF IsInjective

LEMMA PlacesAreNumbers ==
    ASSUME NEW S
    PROVE  \A i \in 0..Len(FileOrder) : Place(FileOrder, S, i) \in Nat
  BY OrderOfFiles, PlacesGrow, Zenon

(* What rtpbridge would list of what it stores, and what the list must name.  *)
Matching(t, b) == {f \in stored[b] : IsPrefix(Filter(t), Name[f])}
Wanted(t, b)   == {f \in kept[t][b] : IsPrefix(Filter(t), Name[f])}

(* Every wanted file is in the pages p of the index of S, or still to come:   *)
(* its place in the index is beyond them.                                     *)
Found(p, S, wanted) ==
    \A i \in 1..Len(FileOrder) :
        FileOrder[i] \in wanted => FileOrder[i] \in ToSet(p) \/ Len(p) < Place(FileOrder, S, i)

(* Nothing listed has its place in the index further on than in the pages.    *)
NoFurther(p, S) ==
    \A j \in 1..Len(p), i \in 1..Len(FileOrder) :
        p[j] = FileOrder[i] => Place(FileOrder, S, i) <= j

InOrder(p) ==
    \A j, k \in 1..Len(p) : j < k =>
        \A m, n \in 1..Len(FileOrder) : p[j] = FileOrder[m] /\ p[k] = FileOrder[n] => m < n

(* One more page. *)
PageAfter(idx, skip, max) ==
    SubSeq(idx, skip + 1, IF skip + max < Len(idx) THEN skip + max ELSE Len(idx))

IsPage(idx, skip, max, a) ==
    /\ \A m \in 1..Len(a) : skip + m \in 1..Len(idx) /\ a[m] = idx[skip + m]
    /\ \A q \in 1..Len(idx) :
          /\ skip < q /\ q <= skip + Len(a) => q - skip \in 1..Len(a) /\ a[q - skip] = idx[q]
          /\ skip < q /\ (Len(a) < max \/ skip + max >= Len(idx)) => q <= skip + Len(a)

LEMMA PageOfIndex ==
    ASSUME NEW T, NEW idx \in Seq(T), NEW skip \in Nat, NEW max \in Nat \ {0}, NEW a,
           a = PageAfter(idx, skip, max)
    PROVE  /\ a \in Seq(T)
           /\ IsPage(idx, skip, max, a)
<1> DEFINE last == IF skip + max < Len(idx) THEN skip + max ELSE Len(idx)
<1>1. Len(idx) \in Nat /\ last \in Nat /\ last <= Len(idx) /\ last <= skip + max
  OBVIOUS
<1>2. skip + max < Len(idx) \/ last = Len(idx)
  OBVIOUS
<1>3. skip + max < Len(idx) => last = skip + max
  OBVIOUS
<1> HIDE DEF last
<1>4. CASE skip + 1 <= last
  <2>1. /\ a \in Seq(T) /\ Len(a) = last - skip
        /\ \A m \in 1..Len(a) : a[m] = idx[skip + m]
    <3>1. /\ SubSeq(idx, skip + 1, last) \in Seq(T)
          /\ Len(SubSeq(idx, skip + 1, last)) = last - (skip + 1) + 1
          /\ \A m \in 1..(last - (skip + 1) + 1) : SubSeq(idx, skip + 1, last)[m] = idx[(skip + 1) + m - 1]
      BY <1>1, <1>4, SubSeqProperties
    <3>2. PICK w : w = SubSeq(idx, skip + 1, last)
      OBVIOUS
    <3>3. a = w
      BY <3>2 DEF last, PageAfter
    <3>4. w \in Seq(T) /\ Len(w) = last - skip /\ \A m \in 1..(last - skip) : w[m] = idx[skip + m]
      BY <1>1, <3>1, <3>2
    <3>5. QED
      BY <3>3, <3>4
  <2>2. \A m \in 1..Len(a) : skip + m \in 1..Len(idx)
    BY <1>1, <1>4, <2>1
  <2>3. ASSUME NEW q \in 1..Len(idx), skip < q, q <= skip + Len(a)
        PROVE  q - skip \in 1..Len(a) /\ a[q - skip] = idx[q]
    <3>1. q - skip \in 1..Len(a) /\ skip + (q - skip) = q
      BY <1>1, <2>1, <2>3
    <3>2. QED
      BY <2>1, <3>1
  <2>4. ASSUME NEW q \in 1..Len(idx), skip < q, Len(a) < max \/ skip + max >= Len(idx)
        PROVE  q <= skip + Len(a)
    <3>1. last = Len(idx)
      <4>1. CASE Len(a) < max
        BY <1>1, <1>2, <1>3, <2>1, <4>1
      <4>2. CASE skip + max >= Len(idx)
        BY <1>1, <1>2, <4>2
      <4>3. QED
        BY <2>4, <4>1, <4>2
    <3>2. QED
      BY <1>1, <2>1, <3>1
  <2>5. QED
    BY <2>1, <2>2, <2>3, <2>4 DEF IsPage
<1>5. CASE ~(skip + 1 <= last)
  <2>1. a = <<>>
    <3>1. a = SubSeq(idx, skip + 1, last)
      BY DEF last, PageAfter
    <3>2. QED
      BY <1>1, <1>5, <3>1
  <2>2. QED
    BY <1>1, <1>2, <1>3, <1>5, <2>1 DEF IsPage
<1>6. QED
  BY <1>4, <1>5 DEF IsPage

IsNext(p, S, max, a) == a = PageAfter(Picked(FileOrder, S), Len(p), max)
GoesOn(p, S, max, a) ==
    /\ p \o a \in Seq(Files)
    /\ \A W : W \subseteq S /\ Found(p, S, W) =>
          /\ Found(p \o a, S, W)
          /\ Len(a) < max \/ Len(p) + max >= Len(Picked(FileOrder, S)) => W \subseteq ToSet(p \o a)
    /\ NoFurther(p, S) => NoFurther(p \o a, S)
    /\ NoFurther(p, S) /\ InOrder(p) => InOrder(p \o a)

LEMMA NextPage ==
    ASSUME NEW S, S \subseteq Files, NEW p \in Seq(Files), NEW max \in Nat \ {0}, NEW a,
           IsNext(p, S, max, a)
    PROVE  GoesOn(p, S, max, a)
<1>1. PICK idx, skip : idx = Picked(FileOrder, S) /\ skip = Len(p)
  OBVIOUS
<1>2. /\ idx \in Seq(Files)
      /\ \A j \in 1..Len(idx) : \E k \in 1..Len(FileOrder) :
            FileOrder[k] \in S /\ Place(FileOrder, S, k) = j /\ idx[j] = FileOrder[k]
  <2>1. FileOrder \in Seq(Files)
    BY OrderOfFiles
  <2>2. Picked(FileOrder, S) \in Seq(Files) /\ ArePlaced(FileOrder, S, Picked(FileOrder, S))
    BY <2>1, PickedIsAMember
  <2>3. QED
    BY <1>1, <2>2 DEF ArePlaced
<1>3. skip \in Nat /\ a = PageAfter(idx, skip, max)
  BY <1>1 DEF IsNext
<1>4. /\ a \in Seq(Files)
      /\ \A m \in 1..Len(a) : skip + m \in 1..Len(idx) /\ a[m] = idx[skip + m]
      /\ \A q \in 1..Len(idx) :
            /\ skip < q /\ q <= skip + Len(a) => q - skip \in 1..Len(a) /\ a[q - skip] = idx[q]
            /\ skip < q /\ (Len(a) < max \/ skip + max >= Len(idx)) => q <= skip + Len(a)
  <2>1. a \in Seq(Files) /\ IsPage(idx, skip, max, a)
    BY <1>2, <1>3, PageOfIndex
  <2>2. QED
    BY <2>1 DEF IsPage
<1>5. PICK r : r = p \o a
  OBVIOUS
<1>6. /\ r \in Seq(Files) /\ Len(r) = skip + Len(a)
      /\ \A j \in 1..skip : j \in 1..Len(r) /\ r[j] = p[j]
      /\ \A j \in 1..Len(r) : j > skip => j \in 1..Len(idx) /\ r[j] = idx[j]
  <2>1. /\ r \in Seq(Files) /\ Len(r) = skip + Len(a)
        /\ \A j \in 1..(skip + Len(a)) : r[j] = IF j <= skip THEN p[j] ELSE a[j - skip]
    BY <1>1, <1>4, <1>5
  <2>2. ASSUME NEW j \in 1..Len(r), j > skip PROVE j \in 1..Len(idx) /\ r[j] = idx[j]
    <3>1. Len(a) \in Nat /\ skip \in Nat
      BY <1>3, <1>4
    <3>2. j - skip \in 1..Len(a) /\ skip + (j - skip) = j
      BY <2>1, <2>2, <3>1
    <3>3. r[j] = a[j - skip]
      BY <2>1, <2>2, <3>1
    <3>4. QED
      BY <1>4, <3>2, <3>3
  <2>3. QED
    BY <1>1, <1>4, <2>1, <2>2
(* A member of S, its place, and the index. *)
<1>7. ASSUME NEW i \in 1..Len(FileOrder), FileOrder[i] \in S
      PROVE  Place(FileOrder, S, i) \in 1..Len(idx) /\ idx[Place(FileOrder, S, i)] = FileOrder[i]
  <2>1. FileOrder \in Seq(Files)
    BY OrderOfFiles
  <2>2. /\ Place(FileOrder, S, i) \in 1..Len(Picked(FileOrder, S))
        /\ Picked(FileOrder, S)[Place(FileOrder, S, i)] = FileOrder[i]
        /\ \A h \in 0..(i - 1) : Place(FileOrder, S, h) < Place(FileOrder, S, i)
    BY <1>7, <2>1, PickedAtItsPlace, Zenon
  <2>3. QED
    BY <1>1, <2>2
<1>8. ASSUME NEW j \in 1..Len(r), j > skip, NEW i \in 1..Len(FileOrder), r[j] = FileOrder[i]
      PROVE  FileOrder[i] \in S /\ Place(FileOrder, S, i) = j
  <2>1. PICK k \in 1..Len(FileOrder) :
          FileOrder[k] \in S /\ Place(FileOrder, S, k) = j /\ idx[j] = FileOrder[k]
    BY <1>2, <1>6, <1>8
  <2>2. k = i
    BY <1>6, <1>8, <2>1, OrderOfFiles
  <2>3. QED
    BY <2>1, <2>2
<1>9. ASSUME NEW W, W \subseteq S, Found(p, S, W)
      PROVE  /\ Found(r, S, W)
             /\ Len(a) < max \/ skip + max >= Len(idx) => W \subseteq ToSet(r)
  <2>1. ASSUME NEW i \in 1..Len(FileOrder), FileOrder[i] \in W
        PROVE  \/ FileOrder[i] \in ToSet(r)
               \/ /\ Len(r) < Place(FileOrder, S, i)
                  /\ ~(Len(a) < max \/ skip + max >= Len(idx))
    <3>1. PICK q : q = Place(FileOrder, S, i)
      OBVIOUS
    <3>2. q \in 1..Len(idx) /\ idx[q] = FileOrder[i]
      BY <1>7, <1>9, <2>1, <3>1
    <3>3. FileOrder[i] \in ToSet(p) \/ skip < q
      BY <1>1, <1>9, <2>1, <3>1 DEF Found
    <3>4. CASE FileOrder[i] \in ToSet(p)
      <4>1. PICK j \in 1..skip : p[j] = FileOrder[i]
        BY <1>1, <3>4 DEF ToSet
      <4>2. j \in 1..Len(r) /\ r[j] = FileOrder[i]
        BY <1>6, <4>1
      <4>3. QED
        BY <1>6, <4>2 DEF ToSet
    <3>5. CASE skip < q /\ q <= Len(r)
      <4>1. q \in 1..Len(r) /\ r[q] = FileOrder[i]
        BY <1>3, <1>6, <3>2, <3>5
      <4>2. QED
        BY <1>6, <4>1 DEF ToSet
    <3>6. CASE skip < q /\ ~(q <= Len(r))
      <4>1. ~(Len(a) < max \/ skip + max >= Len(idx))
        BY <1>4, <1>6, <3>2, <3>6
      <4>2. Len(r) < q
        BY <1>6, <3>2, <3>6
      <4>3. QED
        BY <3>1, <4>1, <4>2
    <3>7. QED
      BY <3>3, <3>4, <3>5, <3>6
  <2>2. ASSUME NEW f \in W PROVE \E i \in 1..Len(FileOrder) : FileOrder[i] = f
    BY <1>9, <2>2, OrderOfFiles
  <2>3. QED
    BY <2>1, <2>2 DEF Found
<1>10. ASSUME NoFurther(p, S) PROVE NoFurther(r, S)
  <2>1. ASSUME NEW j \in 1..Len(r), NEW i \in 1..Len(FileOrder), r[j] = FileOrder[i]
        PROVE  Place(FileOrder, S, i) <= j
    <3>1. CASE j > skip
      BY <1>6, <1>8, <2>1, <3>1
    <3>2. CASE ~(j > skip)
      <4>1. j \in 1..Len(p) /\ p[j] = FileOrder[i]
        BY <1>1, <1>3, <1>6, <2>1, <3>2
      <4>2. QED
        BY <1>10, <4>1 DEF NoFurther
    <3>3. QED
      BY <3>1, <3>2
  <2>2. QED
    BY <2>1 DEF NoFurther
<1>11. ASSUME NoFurther(p, S), InOrder(p) PROVE InOrder(r)
  <2>1. ASSUME NEW j \in 1..Len(r), NEW k \in 1..Len(r), j < k,
               NEW m \in 1..Len(FileOrder), NEW n \in 1..Len(FileOrder),
               r[j] = FileOrder[m], r[k] = FileOrder[n]
        PROVE  m < n
    <3>1. CASE k > skip
      <4>1. Place(FileOrder, S, n) = k
        BY <1>8, <2>1, <3>1
      <4>2. Place(FileOrder, S, m) <= j
        BY <1>10, <1>11, <2>1 DEF NoFurther
      <4>3. ~(n <= m)
        <5>1. ASSUME n <= m PROVE FALSE
          <6>1. n \in 0..Len(FileOrder) /\ m \in n..Len(FileOrder)
            BY <5>1, OrderOfFiles
          <6>2. \A i \in n..Len(FileOrder) : Place(FileOrder, S, n) <= Place(FileOrder, S, i)
            BY <6>1, OrderOfFiles, PicksStay, Zenon
          <6>3. /\ Place(FileOrder, S, n) <= Place(FileOrder, S, m)
                /\ Place(FileOrder, S, m) \in Nat
            <7>1. \A i \in 0..Len(FileOrder) : Place(FileOrder, S, i) \in Nat
              BY OrderOfFiles, PlacesGrow, Zenon
            <7>2. m \in 0..Len(FileOrder)
              BY OrderOfFiles
            <7>3. QED
              BY <6>1, <6>2, <7>1, <7>2
          <6>4. QED
            BY <1>6, <2>1, <4>1, <4>2, <6>3
        <5>2. QED
          BY <5>1
      <4>4. QED
        BY <4>3
    <3>2. CASE ~(k > skip)
      <4>1. /\ j \in 1..Len(p) /\ p[j] = FileOrder[m]
            /\ k \in 1..Len(p) /\ p[k] = FileOrder[n]
        BY <1>1, <1>3, <1>6, <2>1, <3>2
      <4>2. QED
        BY <1>11, <2>1, <4>1 DEF InOrder
    <3>3. QED
      BY <3>1, <3>2
  <2>2. QED
    BY <2>1 DEF InOrder
<1>12. QED
  BY <1>1, <1>5, <1>6, <1>9, <1>10, <1>11 DEF GoesOn

(* The pages of a request: none unless it lists; while it lists, what is      *)
(* wanted is there or to come; a file comes twice only when its place in the  *)
(* index moved on, because another came meanwhile.                            *)
PageOK(t, b) ==
    LET p == page[<<t, b>>]
        S == Matching(t, b)
        lists == job[t].op = "list"
        asked == call[<<t, b>>].st # "none"
    IN  /\ ~lists \/ pc[t] = "resolving" => p = <<>>
        /\ lists /\ pc[t] \in {"resolving", "done"} => ~asked
        /\ lists /\ pc[t] = "listing" =>
             /\ Wanted(t, b) \subseteq stored[b]
             /\ Found(p, S, Wanted(t, b))
             /\ asked \/ Wanted(t, b) \subseteq ToSet(p)
             /\ b \notin added[t] => NoFurther(p, S)
        /\ lists /\ pc[t] = "done" => Wanted(t, b) \subseteq ToSet(p)
        /\ lists /\ pc[t] \in {"listing", "done"} /\ b \notin added[t] => InOrder(p)

PagesOK == FileTypes /\ \A t \in Tasks, b \in Backends : PageOK(t, b)

LEMMA PagesStartWell == Init => PagesOK
<1> SUFFICES ASSUME Init PROVE PagesOK
  OBVIOUS
<1>1. FileTypes
  BY RecordingAssumption DEF Init, FileTypes
<1>2. ASSUME NEW t \in Tasks, NEW b \in Backends PROVE PageOK(t, b)
  BY DEF Init, PageOK, NoJob
<1>3. QED
  BY <1>1, <1>2 DEF PagesOK

(* A request that stays where it is, or fails, keeps its pages. *)
SameFiles(t, b) ==
    /\ stored'[b] = stored[b] /\ kept'[t][b] = kept[t][b]
    /\ b \in added'[t] <=> b \in added[t]
SamePage(t, b) ==
    /\ UNCHANGED recordingPathPrefix
    /\ job'[t] = job[t] /\ page'[<<t, b>>] = page[<<t, b>>]

LEMMA FramePage ==
    ASSUME NEW t \in Tasks, NEW b \in Backends, PageOK(t, b), SamePage(t, b),
           \/ /\ pc'[t] = pc[t] /\ call'[<<t, b>>].st = call[<<t, b>>].st
              /\ SameFiles(t, b)
           \/ /\ pc'[t] = pc[t] /\ call'[<<t, b>>].st # "none" /\ call[<<t, b>>].st # "none"
              /\ SameFiles(t, b)
           \/ pc'[t] = "failed"
           \/ job[t].op # "list"
    PROVE  PageOK(t, b)'
<1>1. CASE job[t].op # "list"
  BY <1>1 DEF PageOK, SamePage
<1>2. CASE job[t].op = "list" /\ pc'[t] = "failed"
  BY <1>2 DEF PageOK, SamePage
<1>3. CASE pc'[t] = pc[t] /\ SameFiles(t, b) /\ (call'[<<t, b>>].st # "none" <=> call[<<t, b>>].st # "none")
  <2>1. Filter(t)' = Filter(t)
    BY DEF Filter, SamePage
  <2>2. Matching(t, b)' = Matching(t, b) /\ Wanted(t, b)' = Wanted(t, b)
    BY <1>3, <2>1 DEF Matching, Wanted, SameFiles
  <2>3. QED
    BY <1>3, <2>2 DEF PageOK, SamePage, SameFiles
<1>4. QED
  BY <1>1, <1>2, <1>3

(* A file comes: places in the index only move on. *)
LEMMA PagesWithMore ==
    ASSUME IInv, PagesOK, NEW b \in Backends, NEW path \in StartPaths, StartRecording(b, path)
    PROVE  PagesOK'
<1> DEFINE file == Start[recordingPathPrefix][path]
<1>1. /\ UNCHANGED <<recordingPathPrefix, kept, call, page, pc, job>>
      /\ path \in DOMAIN Start[recordingPathPrefix]
      /\ stored' = [stored EXCEPT ![b] = stored[b] \union {file}]
      /\ added' = [t \in Tasks |-> IF pc[t] = "listing" THEN added[t] \union {b} ELSE added[t]]
  BY DEF StartRecording, callVars, taskVars
<1>2. file \in Files
  BY <1>1, RecordingAssumption DEF IInv, RequestTypes, Range
<1> HIDE DEF file
<1>3. FileTypes'
  BY <1>1, <1>2 DEF PagesOK, FileTypes
<1>4. ASSUME NEW t \in Tasks, NEW c \in Backends PROVE PageOK(t, c)'
  <2>1. PageOK(t, c) /\ SamePage(t, c)
    BY <1>1 DEF PagesOK, SamePage
  <2>2. CASE c # b
    <3>1. SameFiles(t, c)
      BY <1>1, <2>2 DEF SameFiles, PagesOK, FileTypes
    <3>2. QED
      BY <1>1, <2>1, <3>1, FramePage
  <2>3. CASE c = b /\ pc[t] = "listing" /\ job[t].op = "list"
    <3>1. /\ Wanted(t, b)' = Wanted(t, b)
          /\ Matching(t, b) \subseteq Matching(t, b)'
          /\ stored[b] \subseteq stored'[b] /\ b \in added'[t]
      BY <1>1, <2>3 DEF Wanted, Matching, Filter, PagesOK, FileTypes
    <3>2. PICK S, R : S = Matching(t, b) /\ R = Matching(t, b)'
      OBVIOUS
    <3>3. \A i \in 1..Len(FileOrder) : Place(FileOrder, S, i) <= Place(FileOrder, R, i)
      <4>1. \A i \in 1..Len(FileOrder) : FileOrder[i] \in S => FileOrder[i] \in R
        BY <3>1, <3>2
      <4>2. \A i \in 0..Len(FileOrder) : Place(FileOrder, S, i) <= Place(FileOrder, R, i)
        BY <4>1, OrderOfFiles, PlacesMoveOn, Zenon
      <4>3. QED
        BY <4>2, OrderOfFiles
    <3>4. \A i \in 1..Len(FileOrder) : Place(FileOrder, S, i) \in Nat /\ Place(FileOrder, R, i) \in Nat
      BY OrderOfFiles, PlacesAreNumbers
    <3>5. PICK p : p = page[<<t, b>>] /\ p = page'[<<t, b>>] /\ Len(p) \in Nat
      BY <1>1 DEF PagesOK, FileTypes
    <3>6. Found(p, S, Wanted(t, b))
      BY <2>1, <2>3, <3>2, <3>5 DEF PageOK
    <3>7. PICK W : W = Wanted(t, b)
      OBVIOUS
    <3>8. Found(p, R, W)
      <4>1. ASSUME NEW i \in 1..Len(FileOrder), FileOrder[i] \in W, FileOrder[i] \notin ToSet(p)
            PROVE  Len(p) < Place(FileOrder, R, i)
        <5>1. Len(p) < Place(FileOrder, S, i)
          BY <3>6, <3>7, <4>1 DEF Found
        <5>2. PICK x, y : x = Place(FileOrder, S, i) /\ y = Place(FileOrder, R, i)
          OBVIOUS
        <5>3. x \in Nat /\ y \in Nat /\ x <= y
          BY <3>3, <3>4, <5>2
        <5>4. QED
          BY <3>5, <5>1, <5>2, <5>3
      <4>2. QED
        BY <4>1 DEF Found
    <3>9. QED
      BY <1>1, <2>1, <2>3, <3>1, <3>2, <3>5, <3>7, <3>8 DEF PageOK
  <2>4. CASE c = b /\ ~(pc[t] = "listing" /\ job[t].op = "list")
    <3>1. /\ kept'[t] = kept[t] /\ Wanted(t, b)' = Wanted(t, b)
          /\ pc[t] # "listing" => (b \in added'[t] <=> b \in added[t])
      BY <1>1 DEF Wanted, Filter
    <3>2. QED
      BY <1>1, <2>1, <2>4, <3>1 DEF PageOK
  <2>5. QED
    BY <2>2, <2>3, <2>4
<1>5. QED
  BY <1>3, <1>4 DEF PagesOK

(* A file goes: where that shifts an index, what is listed of it is wanted no *)
(* more, and places only move back.                                           *)
LEMMA PagesWithLess ==
    ASSUME IInv, PagesOK, NEW t \in Tasks, Deleted(t)
    PROVE  PagesOK'
<1>0. PICK b, f : b = Target(t).backend /\ f = call[<<t, b>>].file
  OBVIOUS
<1>1. /\ job[t].op = "delete" /\ pc[t] = "calling" /\ call[<<t, b>>].st = "open"
      /\ stored' = [stored EXCEPT ![b] = stored[b] \ {f}]
      /\ kept' = [u \in Tasks |-> IF pc[u] = "listing" /\ f \in stored[b]
                                  THEN [kept[u] EXCEPT ![b] = {}] ELSE kept[u]]
      /\ UNCHANGED <<recordingPathPrefix, added, page, job>>
  BY <1>0 DEF Deleted, WithoutFile
<1>2. Others(t)
  BY DeletedIsOK
<1>3. b \in Backends
  BY <1>0, <1>1, TargetsHaveBackends
<1>4. FileTypes'
  <2>1. stored' \in [Backends -> SUBSET Files]
    BY <1>1 DEF PagesOK, FileTypes
  <2>2. kept' \in [Tasks -> [Backends -> SUBSET Files]]
    BY <1>1 DEF PagesOK, FileTypes
  <2>3. QED
    BY <1>1, <2>1, <2>2 DEF PagesOK, FileTypes
<1>5. ASSUME NEW u \in Tasks, NEW c \in Backends PROVE PageOK(u, c)'
  <2>1. PageOK(u, c) /\ SamePage(u, c)
    BY <1>1 DEF PagesOK, SamePage
  <2>2. u # t => pc'[u] = pc[u] /\ call'[<<u, c>>].st = call[<<u, c>>].st
    BY <1>2 DEF Others, Left
  <2>3. CASE u = t \/ job[u].op # "list"
    BY <1>1, <2>1, <2>3, FramePage
  <2>4. CASE u # t /\ job[u].op = "list" /\ (c # b \/ f \notin stored[b])
    <3>1. SameFiles(u, c)
      BY <1>1, <2>4 DEF SameFiles, PagesOK, FileTypes
    <3>2. QED
      BY <2>1, <2>2, <2>4, <3>1, FramePage
  <2>5. CASE u # t /\ job[u].op = "list" /\ c = b /\ f \in stored[b] /\ pc[u] # "listing"
    <3>1. Wanted(u, b)' = Wanted(u, b)
      BY <1>1, <2>5 DEF Wanted, Filter
    <3>2. QED
      BY <1>1, <2>1, <2>2, <2>5, <3>1 DEF PageOK
  <2>6. CASE u # t /\ job[u].op = "list" /\ c = b /\ f \in stored[b] /\ pc[u] = "listing"
    <3>1. /\ Wanted(u, b)' = {}
          /\ Matching(u, b)' \subseteq Matching(u, b)
      BY <1>1, <1>3, <2>6 DEF Wanted, Matching, Filter, PagesOK, FileTypes
    <3>2. PICK S, R, p : S = Matching(u, b) /\ R = Matching(u, b)' /\ p = page[<<u, b>>]
      OBVIOUS
    <3>3. \A i \in 0..Len(FileOrder) : Place(FileOrder, R, i) <= Place(FileOrder, S, i)
      <4>1. \A i \in 1..Len(FileOrder) : FileOrder[i] \in R => FileOrder[i] \in S
        BY <3>1, <3>2
      <4>2. QED
        BY <4>1, OrderOfFiles, PlacesMoveOn, Zenon
    <3>4. /\ \A i \in 0..Len(FileOrder) : Place(FileOrder, S, i) \in Nat
          /\ \A i \in 0..Len(FileOrder) : Place(FileOrder, R, i) \in Nat
      BY PlacesAreNumbers
    <3>5. NoFurther(p, S) => NoFurther(p, R)
      <4>1. \A i \in 1..Len(FileOrder) : /\ Place(FileOrder, R, i) <= Place(FileOrder, S, i)
                                        /\ Place(FileOrder, S, i) \in Nat
                                        /\ Place(FileOrder, R, i) \in Nat
        BY <3>3, <3>4, OrderOfFiles
      <4>2. p \in Seq(Files)
        BY <1>3, <3>2 DEF PagesOK, FileTypes
      <4>3. QED
        BY <4>1, <4>2 DEF NoFurther
    <3>6. Found(p, R, {})
      BY DEF Found
    <3>7. QED
      BY <1>1, <2>1, <2>2, <2>6, <3>1, <3>2, <3>5, <3>6 DEF PageOK
  <2>7. QED
    BY <2>3, <2>4, <2>5, <2>6
<1>6. QED
  BY <1>4, <1>5 DEF PagesOK

(* A request's other steps leave the files, and other requests' pages, alone. *)
LEMMA OthersKeepTheirPages ==
    ASSUME IInv, PagesOK, NEW t \in Tasks, TaskNext(t), ~Deleted(t),
           NEW u \in Tasks \ {t}, NEW b \in Backends
    PROVE  PageOK(u, b)'
<1>1. Others(t)
  BY TaskStepIsOK
<1>2. /\ UNCHANGED <<recordingPathPrefix, stored>>
      /\ kept'[u] = kept[u] /\ added'[u] = added[u] /\ page'[<<u, b>>] = page[<<u, b>>]
  <2>1. CASE StartList(t)
    BY <2>1 DEF StartList, PagesOK, FileTypes
  <2>2. CASE \E c \in Backends, withTotal \in BOOLEAN : ListPage(t, c, withTotal)
    BY <2>2 DEF ListPage, fileVars, PagesOK, FileTypes
  <2>3. CASE ~StartList(t) /\ ~(\E c \in Backends, withTotal \in BOOLEAN : ListPage(t, c, withTotal))
    BY <2>3 DEF TaskNext, Ask, MakeTempDir, Resolve, ResolveFails, Open, CallFails, Downloading,
                StoreSource, SourceStored, Merged, MergeFails, RemoveTempDir, StreamEnds,
                ClientLeaves, fileVars, callVars
  <2>4. QED
    BY <2>1, <2>2, <2>3
<1>3. PageOK(u, b) /\ SamePage(u, b) /\ SameFiles(u, b)
  BY <1>1, <1>2 DEF PagesOK, SamePage, SameFiles, Others, Left
<1>4. pc'[u] = pc[u] /\ call'[<<u, b>>].st = call[<<u, b>>].st
  BY <1>1 DEF Others, Left
<1>5. QED
  BY <1>3, <1>4, FramePage

(* The steps of a request that does not list, or fails. *)
LEMMA OwnQuietPages ==
    ASSUME IInv, PagesOK, NEW t \in Tasks, NEW b \in Backends,
           \/ \E j \in Jobs : Ask(t, j)
           \/ Quiet(t) \/ Resolve(t) \/ SourceStored(t) \/ StreamEnds(t) \/ ClientLeaves(t)
           \/ \E c \in Backends : Open(<<t, c>>) \/ CallFails(t, c)
    PROVE  PageOK(t, b)'
<1>1. StageOK(t) /\ CallOK(t) /\ PageOK(t, b) /\ t \in DOMAIN pc /\ t \in DOMAIN job
  BY DEF IInv, TaskOK, PagesOK, RequestTypes
<1>2. CASE \E j \in Jobs : Ask(t, j)
  <2>1. PICK j \in Jobs : Ask(t, j)
    BY <1>2
  <2>2. /\ pc[t] = "idle" /\ job'[t] = j /\ pc'[t] \in {"failed", "making", "resolving"}
        /\ UNCHANGED <<call, stored, kept, added, page>>
    BY <1>1, <2>1 DEF Ask, fileVars, callVars
  <2>3. job[t].op = "none"
    BY <1>1, <2>2 DEF StageOK, Places
  <2>4. page'[<<t, b>>] = <<>> /\ call'[<<t, b>>].st = "none"
    BY <1>1, <2>2, <2>3 DEF PageOK, CallOK, Calling
  <2>5. j.op = "list" => pc'[t] # "making"
    BY <1>1, <2>1 DEF Ask
  <2>6. QED
    BY <2>2, <2>4 DEF PageOK
<1>3. CASE Quiet(t) \/ Resolve(t) \/ SourceStored(t) \/ StreamEnds(t) \/ ClientLeaves(t)
  <2>1. UNCHANGED <<stored, kept, added, page>> /\ SamePage(t, b)
    BY <1>3 DEF Quiet, MakeTempDir, Resolve, ResolveFails, Downloading, StoreSource, SourceStored,
                Merged, MergeFails, RemoveTempDir, StreamEnds, ClientLeaves, fileVars, callVars,
                SamePage
  <2>2. job[t].op # "list" \/ pc'[t] = "failed"
    <3>1. CASE ResolveFails(t)
      BY <1>1, <3>1 DEF ResolveFails, AfterFailure
    <3>2. CASE Resolve(t) \/ Downloading(t) \/ StoreSource(t) \/ ClientLeaves(t)
      BY <3>2 DEF Resolve, Downloading, StoreSource, ClientLeaves
    <3>3. CASE MakeTempDir(t) \/ SourceStored(t) \/ Merged(t) \/ MergeFails(t) \/ RemoveTempDir(t)
                 \/ StreamEnds(t)
      <4>1. pc[t] \in {"making", "storing", "merging", "removing", "streaming"}
        BY <3>3 DEF MakeTempDir, SourceStored, Merged, MergeFails, RemoveTempDir, StreamEnds
      <4>2. QED
        BY <1>1, <4>1 DEF StageOK, Places
    <3>4. QED
      BY <1>3, <3>1, <3>2, <3>3 DEF Quiet
  <2>3. QED
    BY <1>1, <2>1, <2>2, FramePage
<1>4. CASE \E c \in Backends : Open(<<t, c>>)
  <2>1. PICK c \in Backends : Open(<<t, c>>)
    BY <1>4
  <2>2. UNCHANGED <<stored, kept, added, page, pc>> /\ SamePage(t, b) /\ SameFiles(t, b)
    BY <2>1 DEF Open, fileVars, taskVars, SamePage, SameFiles
  <2>3. /\ call[<<t, c>>].st = "ready" /\ call'[<<t, c>>].st = "open"
        /\ c # b => call'[<<t, b>>] = call[<<t, b>>]
    BY <2>1 DEF Open, IInv, RequestTypes, CallType
  <2>4. QED
    BY <1>1, <2>2, <2>3, FramePage
<1>5. CASE \E c \in Backends : CallFails(t, c)
  <2>1. PICK c \in Backends : CallFails(t, c)
    BY <1>5
  <2>2. UNCHANGED <<stored, kept, added, page>> /\ SamePage(t, b)
    BY <2>1 DEF CallFails, fileVars, SamePage
  <2>3. /\ call[<<t, c>>].st # "none"
        /\ pc'[t] = IF pc[t] \in {"failed", "done"} THEN pc[t]
                    ELSE IF pc[t] \in {"streaming", "held"} THEN "done" ELSE AfterFailure(t)
    BY <1>1, <2>1 DEF CallFails
  <2>4. job[t].op = "list" => pc[t] # "done"
    BY <2>3 DEF PagesOK, PageOK
  <2>5. job[t].op # "list" \/ pc'[t] = "failed"
    BY <1>1, <2>3, <2>4 DEF StageOK, Places, AfterFailure
  <2>6. QED
    BY <1>1, <2>2, <2>5, FramePage
<1>6. QED
  BY <1>2, <1>3, <1>4, <1>5

(* A list begins with nothing listed, and every backend asked. *)
LEMMA PagesBegin ==
    ASSUME IInv, PagesOK, NEW t \in Tasks, StartList(t)
    PROVE  FileTypes' /\ \A b \in Backends : PageOK(t, b)'
<1> DEFINE now == FirstPages(t)[Len(BackendOrder)]
           p == IF \A b \in Backends : now.call[<<t, b>>].st = "ready" THEN "listing" ELSE "failed"
<1>1. /\ job[t].op = "list" /\ pc[t] = "resolving"
      /\ call' = now.call /\ pc' = [pc EXCEPT ![t] = p]
      /\ kept' = [kept EXCEPT ![t] = stored] /\ added' = [added EXCEPT ![t] = {}]
      /\ UNCHANGED <<recordingPathPrefix, stored, page, job>>
  BY DEF StartList
<1>2. p = "failed" \/ (p = "listing" /\ \A b \in Backends : call'[<<t, b>>].st = "ready")
  BY <1>1
<1> HIDE DEF now, p
<1>3. pc'[t] = p /\ kept'[t] = stored /\ added'[t] = {}
  BY <1>1 DEF IInv, RequestTypes, PagesOK, FileTypes
<1>4. FileTypes'
  BY <1>1 DEF PagesOK, FileTypes
<1>5. ASSUME NEW b \in Backends PROVE PageOK(t, b)'
  <2>1. PageOK(t, b) /\ page'[<<t, b>>] = <<>>
    BY <1>1 DEF PagesOK, PageOK
  <2>2. CASE p = "failed"
    BY <1>1, <1>3, <2>1, <2>2 DEF PageOK
  <2>3. CASE p = "listing" /\ call'[<<t, b>>].st = "ready"
    <3>1. Wanted(t, b)' = Matching(t, b) /\ Matching(t, b)' = Matching(t, b)
      BY <1>1, <1>3 DEF Wanted, Matching, Filter
    <3>2. Matching(t, b) \subseteq stored'[b]
      BY <1>1 DEF Matching
    <3>3. PICK S : S = Matching(t, b)
      OBVIOUS
    <3>4. Found(<<>>, S, S)
      <4>1. ASSUME NEW i \in 1..Len(FileOrder), FileOrder[i] \in S
            PROVE  0 < Place(FileOrder, S, i)
        <5>1. FileOrder \in Seq(Files)
          BY OrderOfFiles
        <5>2. Place(FileOrder, S, i) \in 1..Len(Picked(FileOrder, S))
          BY <4>1, <5>1, PickedAtItsPlace
        <5>3. QED
          BY <5>2
      <4>2. QED
        BY <4>1 DEF Found
    <3>5. NoFurther(<<>>, S) /\ InOrder(<<>>)
      BY DEF NoFurther, InOrder
    <3>6. QED
      BY <1>1, <1>3, <2>1, <2>3, <3>1, <3>2, <3>3, <3>4, <3>5 DEF PageOK
  <2>4. QED
    BY <1>2, <2>2, <2>3
<1>6. QED
  BY <1>4, <1>5

(* One more page comes; the list is over when it is every backend's last. *)
LEMMA PagesGoOn ==
    ASSUME IInv, PagesOK, NEW t \in Tasks, NEW b \in Backends, NEW withTotal \in BOOLEAN,
           ListPage(t, b, withTotal)
    PROVE  FileTypes' /\ \A c \in Backends : PageOK(t, c)'
<1> DEFINE k == <<t, b>>
           over == LastPage(t, b, withTotal)
           ended == [Transport EXCEPT !.call[k] = NoCall]
           now == httpOptions(ended, k, <<>>)
           all == over /\ \A other \in Backends \ {b} : call[<<t, other>>].st = "none"
<1>1. /\ job[t].op = "list" /\ call[k].st = "open"
      /\ page' = [page EXCEPT ![k] = page[k] \o Answer(t, b)]
      /\ call' = IF over THEN [call EXCEPT ![k] = NoCall] ELSE now.call
      /\ UNCHANGED <<recordingPathPrefix, stored, kept, added, job>>
  BY DEF ListPage, fileVars
<1>2. /\ pc'[t] # pc[t] => pc[t] = "listing"
      /\ pc'[t] \in {pc[t], "failed", "done"}
      /\ pc[t] = "listing" /\ pc'[t] = "done" => all
      /\ pc[t] = "listing" /\ pc'[t] = "listing" /\ ~over => now.call[k].st = "ready"
  BY DEF ListPage, IInv, RequestTypes
<1>3. Granted(ended, k, <<>>, now) /\ ended.call = [call EXCEPT ![k] = NoCall]
  <2>1. NoCall \in CallType /\ NoCall.st # "cut" /\ <<>> \in Urls
    BY DEF NoCall, CallType, Urls
  <2>2. TransportOK(Transport) /\ Transport = [agents |-> agents, call |-> call]
    BY TransportIsOK DEF Transport
  <2>3. ended = [agents |-> agents, call |-> [call EXCEPT ![k] = NoCall]]
    BY <2>2
  <2>4. TransportOK(ended)
    BY <2>1, <2>2, <2>3 DEF TransportOK
  <2> HIDE DEF ended
  <2>5. QED
    BY <2>1, <2>3, <2>4, OptionsTakeNothing
<1>4. /\ \A c \in Backends \ {b} : call'[<<t, c>>].st = call[<<t, c>>].st
      /\ over => call'[k].st = "none"
      /\ ~over => call' = now.call
  <2>1. /\ k \in Tasks \X Backends /\ call \in [Tasks \X Backends -> CallType]
        /\ NoCall.st = "none"
    BY DEF NoCall, IInv, RequestTypes
  <2>2. CASE over
    BY <1>1, <2>1, <2>2
  <2>3. CASE ~over
    <3>1. call' = now.call
      BY <1>1, <2>3
    <3>2. \A x \in (Tasks \X Backends) \ {k} : now.call[x].st = ended.call[x].st
      BY <1>3 DEF Granted
    <3> HIDE DEF over, now, ended
    <3>3. QED
      BY <1>3, <2>1, <2>3, <3>1, <3>2
  <2>4. QED
    BY <2>2, <2>3
<1>5. pc'[t] = "listing" => over \/ call'[k].st = "ready"
  BY <1>2, <1>4
<1> HIDE DEF ended, now
<1>6. PICK S, p, a, W : S = Matching(t, b) /\ p = page[k] /\ a = Answer(t, b) /\ W = Wanted(t, b)
  OBVIOUS
<1>7. /\ p \in Seq(Files) /\ page' = [page EXCEPT ![k] = p \o a]
      /\ S \subseteq Files /\ pageLimit \in Nat \ {0}
      /\ IsNext(p, S, pageLimit, a)
      /\ over <=> \/ Len(a) < pageLimit
                  \/ withTotal /\ Len(p) + pageLimit >= Len(Picked(FileOrder, S))
  BY <1>1, <1>6, RecordingAssumption
     DEF Answer, Index, IsNext, PageAfter, LastPage, Matching, PagesOK, FileTypes
<1>8. /\ p \o a \in Seq(Files)
      /\ W \subseteq S /\ Found(p, S, W) => /\ Found(p \o a, S, W)
                                            /\ over => W \subseteq ToSet(p \o a)
      /\ NoFurther(p, S) => NoFurther(p \o a, S)
      /\ NoFurther(p, S) /\ InOrder(p) => InOrder(p \o a)
  <2>1. GoesOn(p, S, pageLimit, a)
    BY <1>7, NextPage
  <2>2. QED
    BY <1>7, <2>1 DEF GoesOn
<1> HIDE DEF over
<1>9. PICK r : r = p \o a
  OBVIOUS
<1>10. FileTypes'
  BY <1>1, <1>7, <1>8 DEF PagesOK, FileTypes
<1>11. /\ Matching(t, b)' = S /\ Wanted(t, b)' = W /\ page'[k] = r
       /\ stored' = stored /\ added' = added /\ job' = job
  BY <1>1, <1>6, <1>7, <1>9 DEF Matching, Wanted, Filter, PagesOK, FileTypes
<1>12. PageOK(t, b)
  BY DEF PagesOK
<1>13. pc[t] \in {"resolving", "listing", "done", "failed"} /\ pc[t] \notin {"resolving", "done"}
  BY <1>1, <1>12 DEF IInv, TaskOK, StageOK, Places, PageOK
<1>14. PageOK(t, b)'
  <2>1. CASE pc[t] = "listing"
    <3>1. /\ W \subseteq stored[b] /\ Found(p, S, W)
          /\ b \notin added[t] => NoFurther(p, S) /\ InOrder(p)
      BY <1>1, <1>6, <1>12, <2>1 DEF PageOK
    <3>2. W \subseteq S
      BY <1>6, <3>1 DEF Matching, Wanted
    <3>3. /\ Found(r, S, W) /\ (over => W \subseteq ToSet(r))
          /\ b \notin added[t] => NoFurther(r, S) /\ InOrder(r)
      BY <1>8, <1>9, <3>1, <3>2
    <3>4. pc'[t] = "done" => over
      BY <1>2, <2>1
    <3>5. QED
      BY <1>1, <1>2, <1>4, <1>5, <1>11, <2>1, <3>1, <3>3, <3>4 DEF PageOK
  <2>2. CASE pc[t] = "failed"
    <3>1. pc'[t] = "failed"
      BY <1>2, <2>2
    <3>2. QED
      BY <1>1, <1>11, <3>1 DEF PageOK
  <2>3. QED
    BY <1>13, <2>1, <2>2
<1>15. ASSUME NEW c \in Backends \ {b} PROVE PageOK(t, c)'
  <2>1. PageOK(t, c) /\ SamePage(t, c) /\ SameFiles(t, c)
    BY <1>1 DEF PagesOK, SamePage, SameFiles, FileTypes
  <2>2. CASE pc[t] = "listing" /\ pc'[t] = "done"
    <3>1. call[<<t, c>>].st = "none" /\ call'[<<t, c>>].st = "none"
      BY <1>2, <1>4, <2>2
    <3>2. Wanted(t, c)' = Wanted(t, c) /\ page'[<<t, c>>] = page[<<t, c>>]
      BY <1>1, <2>1 DEF Wanted, Filter, SamePage
    <3>3. QED
      BY <1>1, <2>1, <2>2, <3>1, <3>2 DEF PageOK
  <2>3. CASE ~(pc[t] = "listing" /\ pc'[t] = "done")
    <3>1. pc'[t] \in {pc[t], "failed"}
      BY <1>2, <2>3
    <3>2. call'[<<t, c>>].st = call[<<t, c>>].st
      BY <1>4
    <3>3. QED
      BY <2>1, <3>1, <3>2, FramePage
  <2>4. QED
    BY <2>2, <2>3
<1>16. QED
  BY <1>10, <1>14, <1>15

LEMMA PagesStayOK == IInv /\ PagesOK /\ [Next]_vars => PagesOK'
<1> SUFFICES ASSUME IInv, PagesOK, [Next]_vars PROVE PagesOK'
  OBVIOUS
<1>1. ASSUME NEW t \in Tasks, TaskNext(t) PROVE PagesOK'
  <2>1. CASE Deleted(t)
    BY <2>1, PagesWithLess
  <2>2. CASE ~Deleted(t)
    <3>1. FileTypes' /\ \A b \in Backends : PageOK(t, b)'
      <4>1. CASE StartList(t)
        BY <4>1, PagesBegin
      <4>2. CASE \E b \in Backends, withTotal \in BOOLEAN : ListPage(t, b, withTotal)
        BY <4>2, PagesGoOn
      <4>3. CASE \/ \E j \in Jobs : Ask(t, j)
                 \/ Quiet(t) \/ Resolve(t) \/ SourceStored(t) \/ StreamEnds(t) \/ ClientLeaves(t)
                 \/ \E c \in Backends : Open(<<t, c>>) \/ CallFails(t, c)
        <5>1. \A b \in Backends : PageOK(t, b)'
          BY <4>3, OwnQuietPages
        <5>2. UNCHANGED <<stored, kept, added, page>>
          BY <4>3 DEF Ask, Quiet, MakeTempDir, Resolve, ResolveFails, Downloading, StoreSource,
                      SourceStored, Merged, MergeFails, RemoveTempDir, StreamEnds, ClientLeaves,
                      Open, CallFails, fileVars, callVars
        <5>3. QED
          BY <5>1, <5>2 DEF PagesOK, FileTypes
      <4>4. QED
        BY <1>1, <2>2, <4>1, <4>2, <4>3 DEF TaskNext, Quiet
    <3>2. ASSUME NEW u \in Tasks \ {t}, NEW b \in Backends PROVE PageOK(u, b)'
      BY <1>1, <2>2, OthersKeepTheirPages
    <3>3. QED
      BY <3>1, <3>2 DEF PagesOK
  <2>3. QED
    BY <2>1, <2>2
<1>2. CASE UNCHANGED vars
  <2>1. UNCHANGED <<recordingPathPrefix, stored, kept, added, page, pc, job, call>>
    BY <1>2 DEF vars, fileVars, callVars, taskVars
  <2>2. FileTypes'
    BY <2>1 DEF PagesOK, FileTypes
  <2>3. ASSUME NEW t \in Tasks, NEW b \in Backends PROVE PageOK(t, b)'
    BY <2>1, FramePage DEF PagesOK, SamePage, SameFiles
  <2>4. QED
    BY <2>2, <2>3 DEF PagesOK
<1>3. QED
  BY <1>1, <1>2, PagesWithMore DEF Next

LEMMA DistinctOnesCount ==
    ASSUME NEW T, NEW s \in Seq(T), \A i, j \in 1..Len(s) : s[i] = s[j] => i = j
    PROVE  Cardinality(ToSet(s)) = Len(s)
<1>1. Len(s) \in Nat /\ DOMAIN s = 1..Len(s) /\ s \in [1..Len(s) -> ToSet(s)]
  BY DEF ToSet
<1>2. s \in Injection(1..Len(s), ToSet(s)) /\ s \in Surjection(1..Len(s), ToSet(s))
  BY <1>1 DEF Injection, IsInjective, Surjection, ToSet
<1>3. ExistsBijection(1..Len(s), ToSet(s))
  BY <1>2 DEF Bijection, ExistsBijection
<1>4. QED
  BY <1>1, <1>3, FS_CountingElements

(* What is picked of a sequence without repetitions has none. *)
LEMMA DistinctPicks ==
    ASSUME NEW T, NEW s \in Seq(T), NEW S, \A i, j \in 1..Len(s) : s[i] = s[j] => i = j
    PROVE  Cardinality(ToSet(Picked(s, S))) = Len(Picked(s, S))
<1>1. PICK picked : picked = Picked(s, S)
  OBVIOUS
<1>2. /\ picked \in Seq(T)
      /\ \A j \in 1..Len(picked) : \E k \in 1..Len(s) :
            s[k] \in S /\ Place(s, S, k) = j /\ picked[j] = s[k]
  BY <1>1, PickedIsAMember DEF ArePlaced
<1>3. ASSUME NEW i \in 1..Len(picked), NEW j \in 1..Len(picked), picked[i] = picked[j]
      PROVE  i = j
  <2>1. PICK k \in 1..Len(s) : Place(s, S, k) = i /\ picked[i] = s[k]
    BY <1>2
  <2>2. PICK m \in 1..Len(s) : Place(s, S, m) = j /\ picked[j] = s[m]
    BY <1>2
  <2>3. k = m
    BY <1>3, <2>1, <2>2
  <2>4. QED
    BY <2>1, <2>2, <2>3
<1>4. Cardinality(ToSet(picked)) = Len(picked)
  BY <1>2, <1>3, DistinctOnesCount
<1>5. QED
  BY <1>1, <1>4

LEMMA PagesAreKept == Spec => [](IInv /\ PagesOK)
  BY StartsWell, IInvIsKept, PagesStartWell, PagesStayOK, PTL DEF Spec

(* A list names every file that its filter lets through and that was stored   *)
(* all the while, and no file twice unless one came meanwhile: for any number *)
(* of backends, pages, files that come and go, and lists that run at once.    *)
THEOREM ListsNameEverything == Spec => []ListsAreComplete
<1>1. IInv /\ PagesOK => ListsAreComplete
  <2> SUFFICES ASSUME IInv, PagesOK, NEW t \in Tasks, NEW b \in Backends,
                      job[t].op = "list", pc[t] = "done"
               PROVE  /\ \A f \in kept[t][b] :
                            IsPrefix(Filter(t), Name[f]) /\ Name[f] \in Owned[recordingPathPrefix]
                            => f \in ToSet(Listed(t, b))
                      /\ b \notin added[t] => Cardinality(ToSet(Listed(t, b))) = Len(Listed(t, b))
    BY DEF ListsAreComplete
  <2>1. PICK p, S : /\ p = page[<<t, b>>]
                    /\ S = {f \in Files : Name[f] \in Owned[recordingPathPrefix]}
    OBVIOUS
  <2>2. p \in Seq(Files) /\ Listed(t, b) = Picked(p, S)
    BY <2>1 DEF PagesOK, FileTypes, Listed
  <2>3. /\ Wanted(t, b) \subseteq ToSet(p)
        /\ b \notin added[t] => InOrder(p)
    BY <2>1 DEF PagesOK, PageOK
  <2>4. ASSUME NEW f \in kept[t][b], IsPrefix(Filter(t), Name[f]),
               Name[f] \in Owned[recordingPathPrefix]
        PROVE  f \in ToSet(Listed(t, b))
    <3>1. f \in Wanted(t, b)
      BY <2>4 DEF Wanted
    <3>2. PICK k \in 1..Len(p) : p[k] = f
      BY <2>2, <2>3, <3>1 DEF ToSet
    <3>3. p[k] \in S
      BY <2>1, <2>2, <2>4, <3>2
    <3>4. PICK picked : picked = Picked(p, S)
      OBVIOUS
    <3>5. picked \in Seq(Files)
      BY <2>2, <3>4, PickedIsAMember
    <3>6. Place(p, S, k) \in 1..Len(picked) /\ picked[Place(p, S, k)] = p[k]
      BY <2>2, <3>3, <3>4, PickedAtItsPlace
    <3>7. QED
      BY <2>2, <3>2, <3>4, <3>5, <3>6 DEF ToSet
  <2>5. ASSUME b \notin added[t]
        PROVE  Cardinality(ToSet(Listed(t, b))) = Len(Listed(t, b))
    <3>1. ASSUME NEW i \in 1..Len(p), NEW j \in 1..Len(p), p[i] = p[j], i < j PROVE FALSE
      <4>1. PICK m \in 1..Len(FileOrder) : FileOrder[m] = p[i]
        <5>1. p[i] \in Files
          BY <2>2
        <5>2. QED
          BY <5>1, OrderOfFiles
      <4>2. m < m
        BY <2>3, <2>5, <3>1, <4>1 DEF InOrder
      <4>3. QED
        BY <4>2, OrderOfFiles
    <3>2. \A i, j \in 1..Len(p) : p[i] = p[j] => i = j
      <4>1. ASSUME NEW i \in 1..Len(p), NEW j \in 1..Len(p), p[i] = p[j] PROVE i = j
        <5>1. ~(i < j) /\ ~(j < i)
          BY <3>1, <4>1
        <5>2. QED
          BY <2>2, <5>1
      <4>2. QED
        BY <4>1
    <3>3. QED
      BY <2>2, <3>2, DistinctPicks
  <2>6. QED
    BY <2>4, <2>5
<1>2. QED
  BY <1>1, PagesAreKept, PTL

(* What is stored, listed and asked for has its type, and no more agents are  *)
(* kept than MaxAgents.                                                       *)
THEOREM RecordingTypes == Spec => []TypeOK
<1>1. IInv /\ PagesOK => TypeOK
  BY DEF IInv, PagesOK, TypeOK
<1>2. QED
  BY <1>1, PagesAreKept, PTL
=============================================================================
