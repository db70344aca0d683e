--------------------------- MODULE LogLinesProofs ---------------------------
(***************************************************************************)
(* What an append, a dropped buffer and a write do to the lines of a log:  *)
(* the order of the lines, the lines held, and the gaps and notices of the *)
(* file.  A lost run of lines that no younger line in the file shows yet   *)
(* is a gap to come (LostRuns), which is what makes the account of gaps    *)
(* and notices inductive (Announced).  The lemmas speak of any file and    *)
(* buffers; AsyncLoggingProofs instantiates them with those of the writer. *)
(***************************************************************************)
EXTENDS LogLines, Sequences, FiniteSetTheorems, TLAPS

-----------------------------------------------------------------------------
\* The lines in the file and in the buffers on their way to it, as a file out of p entries
\* and a sequence way of buffers.

\* The lines of a buffer follow one another without a gap.
Consecutive(s) == \A i \in DOMAIN s : s[i] = s[1] + (i - 1) /\ s[i] > 0

\* The entries of the file and the lines of every buffer ascend, one after the other.
Ordered(out, way) ==
    /\ Ascends(out)
    /\ \A a \in DOMAIN way : Consecutive(way[a]) /\ Precedes(out, way[a])
    /\ \A a, b \in DOMAIN way : a < b => Precedes(way[a], way[b])

\* The last line of every run of lost lines that lies beyond the end of the file: each
\* of them is a gap to come.
LostRuns(out, lost) == {d \in lost : d + 1 \notin lost /\ \A i \in DOMAIN out : out[i] < d}

\* Every gap among the first k entries has a notice before it or an error, and so have the
\* gaps that are still to come.
Announced(out, p, lost, errs) ==
    /\ \A k \in 0..p : Cardinality(Gaps(out, k)) <= Cardinality(Notices(out, k)) + errs
    /\ Cardinality(Gaps(out, p)) + Cardinality(LostRuns(out, lost))
         <= Cardinality(Notices(out, p)) + errs

\* What a member of Held is.
LEMMA InHeld ==
    ASSUME NEW out, NEW way, NEW n
    PROVE  n \in Held(out, way) <=>
               \/ n # 0 /\ \E i \in DOMAIN out : out[i] = n
               \/ \E a \in DOMAIN way : \E i \in DOMAIN way[a] : way[a][i] = n
BY DEF Held, Range

\* The lines of all buffers from the third to the k-th, as Surplus has them.
LinesFrom3(way, k) == UNION {Range(way[a]) : a \in 3..k}

\* What a member of LinesFrom3 is.
LEMMA InLinesFrom3 ==
    ASSUME NEW way, NEW k, NEW n
    PROVE  n \in LinesFrom3(way, k) <=> \E a \in 3..k : \E i \in DOMAIN way[a] : way[a][i] = n
BY DEF LinesFrom3, Range

\* Nothing on record is newer than line l.
UpTo(out, way, l) ==
    /\ \A i \in DOMAIN out : out[i] \in Nat /\ out[i] <= l
    /\ \A a \in DOMAIN way : \A i \in DOMAIN way[a] : way[a][i] \in Nat /\ way[a][i] <= l

\* A buffer at the end of the way, empty or with the next line in it.
Grows(way, w, m, l) ==
    /\ DOMAIN way = 1..m /\ DOMAIN w = 1..(m + 1) /\ \A a \in 1..m : w[a] = way[a]
    /\ \A i \in DOMAIN w[m + 1] : i = 1 /\ w[m + 1][i] = l + 1

\* A buffer at the end of the way keeps the order and holds what it brings.
LEMMA WayGrows ==
    ASSUME NEW out, NEW way, NEW w, NEW l \in Nat, NEW m \in Nat,
           Ordered(out, way), UpTo(out, way, l), Grows(way, w, m, l)
    PROVE  /\ Ordered(out, w)
           /\ Held(out, w) = Held(out, way) \cup Range(w[m + 1])
<1>. USE DEF Grows
<1>1. ASSUME NEW a \in DOMAIN w PROVE Consecutive(w[a]) /\ Precedes(out, w[a])
    <2>1. CASE a = m + 1
        BY <2>1 DEF Consecutive, Precedes, UpTo
    <2>2. CASE a # m + 1
        BY <2>2 DEF Ordered
    <2>. QED BY <2>1, <2>2
<1>2. ASSUME NEW a \in DOMAIN w, NEW b \in DOMAIN w, a < b PROVE Precedes(w[a], w[b])
    <2>1. a \in DOMAIN way /\ w[a] = way[a]
        BY <1>2
    <2>2. CASE b = m + 1
        BY <2>1, <2>2 DEF Precedes, UpTo
    <2>3. CASE b # m + 1
        BY <1>2, <2>1, <2>3 DEF Ordered
    <2>. QED BY <2>2, <2>3
<1>3. Ordered(out, w)
    BY <1>1, <1>2 DEF Ordered
<1>4. ASSUME NEW n PROVE n \in Held(out, w) <=> n \in Held(out, way) \/ n \in Range(w[m + 1])
    <2>1. n \in Range(w[m + 1]) <=> \E i \in DOMAIN w[m + 1] : w[m + 1][i] = n
        BY Zenon DEF Range
    <2>2. ASSUME NEW a \in DOMAIN way PROVE a \in DOMAIN w /\ w[a] = way[a]
        OBVIOUS
    <2>3. m + 1 \in DOMAIN w /\ \A a \in DOMAIN w : a \in DOMAIN way \/ a = m + 1
        OBVIOUS
    <2>. QED BY <2>1, <2>2, <2>3, InHeld
<1>5. Held(out, w) = Held(out, way) \cup Range(w[m + 1])
    BY <1>4
<1>. QED BY <1>3, <1>5

\* The next line at the end of the last buffer, which has k lines.
LastGrows(way, w, m, k, l) ==
    /\ DOMAIN way = 1..m /\ DOMAIN w = 1..m /\ \A a \in 1..m : a # m => w[a] = way[a]
    /\ DOMAIN way[m] = 1..k /\ DOMAIN w[m] = 1..(k + 1)
    /\ \A i \in 1..k : w[m][i] = way[m][i]
    /\ w[m][k + 1] = l + 1 /\ (k > 0 => way[m][k] = l)

\* A line at the end of the last buffer keeps the order and is held from then on.
LEMMA BufferGrows ==
    ASSUME NEW out, NEW way, NEW w, NEW l \in Nat, NEW m \in Nat \ {0}, NEW k \in Nat,
           Ordered(out, way), UpTo(out, way, l), LastGrows(way, w, m, k, l)
    PROVE  Ordered(out, w) /\ Held(out, w) = Held(out, way) \cup {l + 1}
<1>. USE DEF LastGrows
<1>1. Consecutive(way[m]) /\ Precedes(out, way[m]) /\ m \in DOMAIN way
    BY SMTT(60), Z3T(60) DEF Ordered
<1>2. Consecutive(w[m])
    <2>1. k > 0 => way[m][1] \in Nat /\ l = way[m][1] + (k - 1)
        BY <1>1, SMTT(60), Z3T(60) DEF Consecutive, UpTo
    <2>2. ASSUME NEW i \in DOMAIN w[m] PROVE w[m][i] = w[m][1] + (i - 1) /\ w[m][i] > 0
        <3>1. CASE k = 0
            BY <3>1
        <3>2. CASE k > 0 /\ i = k + 1
            <4>1. w[m][1] = way[m][1] /\ w[m][i] = l + 1
                BY <3>2
            <4>. QED BY <2>1, <3>2, <4>1, SMTT(60), Z3T(60)
        <3>3. CASE k > 0 /\ i # k + 1
            BY <1>1, <3>3, SMTT(60), Z3T(60) DEF Consecutive
        <3>. QED BY <3>1, <3>2, <3>3
    <2>. QED BY <2>2 DEF Consecutive
<1>3. Precedes(out, w[m])
    BY <1>1, SMTT(60), Z3T(60) DEF Precedes, UpTo
<1>4. ASSUME NEW a \in DOMAIN w PROVE Consecutive(w[a]) /\ Precedes(out, w[a])
    BY <1>2, <1>3 DEF Ordered
<1>5. ASSUME NEW a \in DOMAIN w, NEW b \in DOMAIN w, a < b PROVE Precedes(w[a], w[b])
    <2>1. w[a] = way[a] /\ a \in DOMAIN way /\ Precedes(way[a], way[b])
        BY <1>5 DEF Ordered
    <2>2. CASE b = m
        BY <2>1, <2>2, SMTT(60), Z3T(60) DEF Precedes, UpTo
    <2>3. CASE b # m
        BY <2>1, <2>3, SMTT(60), Z3T(60)
    <2>. QED BY <2>2, <2>3
<1>6. Ordered(out, w)
    BY <1>4, <1>5 DEF Ordered
<1>7. ASSUME NEW n PROVE n \in Held(out, w) <=> n \in Held(out, way) \/ n = l + 1
    <2>1. (\E i \in DOMAIN w[m] : w[m][i] = n) <=>
              (\E i \in DOMAIN way[m] : way[m][i] = n) \/ n = l + 1
        <3>1. k + 1 \in DOMAIN w[m] /\ \A i \in DOMAIN w[m] : i \in DOMAIN way[m] \/ i = k + 1
            BY SMTT(60), Z3T(60)
        <3>2. \A i \in DOMAIN way[m] : i \in DOMAIN w[m] /\ w[m][i] = way[m][i]
            BY SMTT(60), Z3T(60)
        <3>. QED BY <3>1, <3>2, Zenon
    <2>. QED BY <1>1, <2>1, InHeld, SMTT(60), Z3T(60)
<1>8. Held(out, w) = Held(out, way) \cup {l + 1}
    BY <1>7
<1>. QED BY <1>6, <1>8

\* The buffers from the third to the q-th are gone.
Shrinks(way, w, m, q) ==
    /\ 2 <= q /\ q < m /\ DOMAIN way = 1..m /\ DOMAIN w = 1..(m - (q - 2))
    /\ \A a \in 1..(m - (q - 2)) : w[a] = way[IF a <= 2 THEN a ELSE a + (q - 2)]

\* Dropping buffers keeps the order, and exactly their lines are held no longer.
LEMMA WayShrinks ==
    ASSUME NEW out, NEW way, NEW w, NEW l \in Nat, NEW m \in Nat, NEW q \in Nat,
           Ordered(out, way), UpTo(out, way, l), Shrinks(way, w, m, q)
    PROVE  Ordered(out, w) /\ Held(out, w) = Held(out, way) \ LinesFrom3(way, q)
<1>. USE DEF Shrinks
<1>. DEFINE f(a) == IF a <= 2 THEN a ELSE a + (q - 2)
<1>1. ASSUME NEW a \in DOMAIN w PROVE f(a) \in DOMAIN way /\ w[a] = way[f(a)] /\ f(a) \notin 3..q
    BY SMTT(60), Z3T(60)
<1>2. ASSUME NEW a \in DOMAIN w, NEW b \in DOMAIN w, a < b PROVE f(a) < f(b)
    BY <1>2, SMTT(60), Z3T(60)
<1>3. ASSUME NEW a \in DOMAIN way, a \notin 3..q PROVE \E b \in DOMAIN w : w[b] = way[a]
    <2>1. CASE a <= 2
        BY <2>1
    <2>2. CASE a > q
        <3>1. a - (q - 2) \in DOMAIN w /\ w[a - (q - 2)] = way[a]
            BY <2>2, SMTT(60), Z3T(60)
        <3>. QED BY <3>1
    <2>. QED BY <1>3, <2>1, <2>2
<1>. HIDE DEF f
<1>4. Ordered(out, w)
    BY <1>1, <1>2, SMTT(60), Z3T(60) DEF Ordered
<1>5. \A n : n \in LinesFrom3(way, q) <=> \E k \in 3..q : \E i \in DOMAIN way[k] : way[k][i] = n
    BY InLinesFrom3, SMTT(60), Z3T(60)
<1>6. ASSUME NEW n \in LinesFrom3(way, q) PROVE n \notin Held(out, w) /\ n \in Held(out, way)
    <2>1. PICK k \in 3..q : \E i \in DOMAIN way[k] : way[k][i] = n
        BY <1>5, SMTT(60), Z3T(60)
    <2>2. PICK i \in DOMAIN way[k] : way[k][i] = n
        BY <2>1
    <2>3. k \in DOMAIN way /\ n \in Nat
        BY <2>2, SMTT(60), Z3T(60) DEF UpTo
    <2>4. ASSUME NEW j \in DOMAIN out PROVE out[j] # n
        <3>1. out[j] < n
            BY <2>2, <2>3, ZenonT(60), ZenonT(90) DEF Ordered, Precedes
        <3>. QED BY <2>3, <3>1 DEF UpTo
    <2>5. ASSUME NEW a \in DOMAIN w, NEW j \in DOMAIN w[a] PROVE w[a][j] # n
        <3>1. f(a) \in DOMAIN way /\ w[a] = way[f(a)] /\ (f(a) < k \/ k < f(a))
            BY <1>1, <2>3, SMTT(60), Z3T(60)
        <3>2. w[a][j] < n \/ n < w[a][j]
            BY <2>2, <2>3, <3>1, SMTT(60), Z3T(60) DEF Ordered, Precedes
        <3>3. w[a][j] \in Nat
            BY <3>1 DEF UpTo
        <3>. QED BY <2>3, <3>2, <3>3, SMTT(60), Z3T(60)
    <2>6. n \notin Held(out, w)
        BY <2>4, <2>5, InHeld, SMTT(60), Z3T(60)
    <2>7. n \in Held(out, way)
        BY <2>2, <2>3, InHeld, Zenon
    <2>. QED BY <2>6, <2>7
<1>7. ASSUME NEW n, n \notin LinesFrom3(way, q) PROVE n \in Held(out, w) <=> n \in Held(out, way)
    <2>1. ASSUME NEW a \in DOMAIN way, NEW i \in DOMAIN way[a], way[a][i] = n
          PROVE  \E b \in DOMAIN w : \E j \in DOMAIN w[b] : w[b][j] = n
        <3>1. a \notin 3..q
            BY <1>5, <1>7, <2>1, SMTT(60), Z3T(60)
        <3>2. PICK b \in DOMAIN w : w[b] = way[a]
            BY <1>3, <3>1, SMTT(60), Z3T(60)
        <3>. QED BY <2>1, <3>2
    <2>2. ASSUME NEW a \in DOMAIN w, NEW i \in DOMAIN w[a], w[a][i] = n
          PROVE  \E b \in DOMAIN way : \E j \in DOMAIN way[b] : way[b][j] = n
        BY <1>1, <2>2
    <2>. QED BY <2>1, <2>2, InHeld, SMTT(60), Z3T(60)
<1>8. Held(out, w) = Held(out, way) \ LinesFrom3(way, q)
    BY <1>6, <1>7
<1>. QED BY <1>4, <1>8

\* The lines that are dropped together are one gap to come, at most.
LEMMA OneRun ==
    ASSUME NEW out, NEW way, NEW l \in Nat, NEW m \in Nat, NEW q \in Nat, NEW gone,
           NEW lost \in SUBSET (1..l),
           Ordered(out, way), UpTo(out, way, l), 2 <= q, q < m, DOMAIN way = 1..m,
           gone = LinesFrom3(way, q),
           Held(out, way) = (1..l) \ lost
    PROVE  \E x : LostRuns(out, lost \cup gone) \subseteq LostRuns(out, lost) \cup {x}
<1>. DEFINE Last(d) == d \in gone /\ d + 1 \notin lost \cup gone
<1>1. \A n : n \in gone <=> \E k \in 3..q : \E i \in DOMAIN way[k] : way[k][i] = n
    BY InLinesFrom3
<1>2. ASSUME NEW d, NEW e, Last(d), Last(e), d < e PROVE FALSE
    <2>1. PICK k \in 3..q : \E i \in DOMAIN way[k] : way[k][i] = d
        BY <1>1, <1>2, SMTT(60), Z3T(60)
    <2>2. PICK h \in 3..q : \E i \in DOMAIN way[h] : way[h][i] = e
        BY <1>1, <1>2, SMTT(60), Z3T(60)
    <2>3. k \in DOMAIN way /\ h \in DOMAIN way
        OBVIOUS
    <2>4. d \in Nat /\ e \in Nat /\ e <= l
        BY <2>1, <2>2, <2>3, SMTT(60), Z3T(60) DEF UpTo
    <2>5. d + 1 \in Held(out, way)
        BY <1>2, <2>4
    <2>6. ASSUME NEW j \in DOMAIN out, out[j] = d + 1 PROVE FALSE
        <3>1. out[j] < d
            BY <2>1, <2>3 DEF Ordered, Precedes
        <3>. QED BY <2>4, <2>6, <3>1, SMTT(60), Z3T(60)
    <2>7. ASSUME NEW a \in DOMAIN way, NEW j \in DOMAIN way[a], way[a][j] = d + 1 PROVE FALSE
        <3>1. CASE a < k
            <4>1. way[a][j] < d
                BY <2>1, <2>3, <3>1, SMTT(60), Z3T(60) DEF Ordered, Precedes
            <4>. QED BY <2>4, <2>7, <4>1, SMTT(60), Z3T(60)
        <3>2. CASE h < a
            <4>1. e < way[a][j]
                BY <2>2, <2>3, <3>2 DEF Ordered, Precedes
            <4>. QED BY <1>2, <2>4, <2>7, <4>1, SMTT(60), Z3T(60)
        <3>3. CASE k <= a /\ a <= h
            <4>1. a \in 3..q
                BY <3>3, SMTT(60), Z3T(60)
            <4>2. d + 1 \in gone
                BY <1>1, <2>7, <4>1, SMTT(60), Z3T(60)
            <4>. QED BY <1>2, <4>2
        <3>. QED BY <3>1, <3>2, <3>3, SMTT(60), Z3T(60)
    <2>. QED BY <2>5, <2>6, <2>7, InHeld, SMTT(60), Z3T(60)
<1>3. \A d \in gone : d \in Nat
    <2>1. \A k \in 3..q : k \in DOMAIN way
        OBVIOUS
    <2>. QED BY <1>1, <2>1 DEF UpTo
<1>4. \A d, e : Last(d) /\ Last(e) => d = e
    <2>1. ASSUME NEW d, NEW e, Last(d), Last(e), d # e PROVE FALSE
        <3>1. d < e \/ e < d
            BY <1>3, <2>1
        <3>. QED BY <1>2, <2>1, <3>1, SMTT(60), Z3T(60)
    <2>. QED BY <2>1, Zenon
<1>. DEFINE x == CHOOSE d : Last(d)
<1>5. ASSUME NEW d \in LostRuns(out, lost \cup gone) PROVE d \in LostRuns(out, lost) \cup {x}
    <2>1. CASE d \in lost
        BY <2>1 DEF LostRuns
    <2>2. CASE d \in gone
        <3>1. Last(d)
            BY <2>2, Zenon DEF LostRuns
        <3>2. Last(x)
            BY <3>1, Zenon
        <3>. QED BY <1>4, <3>1, <3>2, Zenon
    <2>. QED BY <2>1, <2>2, SMTT(60), Z3T(60) DEF LostRuns
<1>6. LostRuns(out, lost \cup gone) \subseteq LostRuns(out, lost) \cup {x}
    BY <1>5, Zenon
<1>. QED BY <1>6, ZenonT(60), ZenonT(90)

\* Whatever is written after them, the first p entries have the gaps and notices they had.
LEMMA GapsStay ==
    ASSUME NEW out, NEW out2, NEW p \in Nat, NEW k \in 0..p,
           \A i \in 1..p : out2[i] = out[i]
    PROVE  Gaps(out2, k) = Gaps(out, k) /\ Notices(out2, k) = Notices(out, k)
<1>1. ASSUME NEW i \in 1..k PROVE i \in 1..p /\ \A j \in 1..(i - 1) : j \in 1..p
    OBVIOUS
<1>2. ASSUME NEW i \in 1..k PROVE i \in Gaps(out2, k) <=> i \in Gaps(out, k)
    BY <1>1 DEF Gaps
<1>3. Gaps(out2, k) = Gaps(out, k)
    BY <1>2 DEF Gaps
<1>. QED BY <1>1, <1>3 DEF Notices

\* What is counted is finite.
LEMMA GapsFinite ==
    ASSUME NEW out, NEW p \in Nat
    PROVE  /\ IsFiniteSet(Gaps(out, p)) /\ Cardinality(Gaps(out, p)) \in Nat
           /\ IsFiniteSet(Notices(out, p)) /\ Cardinality(Notices(out, p)) \in Nat
<1>1. IsFiniteSet(1..p)
    BY FS_Interval
<1>2. Gaps(out, p) \in SUBSET (1..p) /\ Notices(out, p) \in SUBSET (1..p)
    BY Zenon DEF Gaps, Notices
<1>. QED BY <1>1, <1>2, FS_Subset, FS_CardinalityType, ZenonT(60), ZenonT(90)

\* The gaps to come are finitely many.
LEMMA LostRunsFinite ==
    ASSUME NEW out, NEW l \in Nat, NEW lost \in SUBSET (1..l)
    PROVE  IsFiniteSet(LostRuns(out, lost)) /\ Cardinality(LostRuns(out, lost)) \in Nat
<1>1. IsFiniteSet(1..l)
    BY FS_Interval
<1>2. LostRuns(out, lost) \in SUBSET (1..l)
    BY ZenonT(60), ZenonT(90) DEF LostRuns
<1>. QED BY <1>1, <1>2, FS_Subset, FS_CardinalityType, ZenonT(60), ZenonT(90)

\* A set that lies in another one but for an element is larger by one at most.
LEMMA OneMore ==
    ASSUME NEW S, IsFiniteSet(S), NEW x, NEW T, T \subseteq S \cup {x}
    PROVE  IsFiniteSet(T) /\ Cardinality(T) \in Nat /\ Cardinality(T) <= Cardinality(S) + 1
<1>1. IsFiniteSet(S \cup {x}) /\ Cardinality(S \cup {x}) <= Cardinality(S) + 1
    <2>1. /\ IsFiniteSet(S \cup {x})
          /\ Cardinality(S \cup {x}) = IF x \in S THEN Cardinality(S) ELSE Cardinality(S) + 1
        BY FS_AddElement, Zenon
    <2>2. Cardinality(S) \in Nat
        BY FS_CardinalityType, Zenon
    <2>. QED BY <2>1, <2>2
<1>2. IsFiniteSet(T) /\ Cardinality(T) <= Cardinality(S \cup {x})
    BY <1>1, FS_Subset
<1>. QED BY <1>1, <1>2, FS_CardinalityType, SMTT(60), Z3T(60)

\* A set that lies in another one is not larger.
LEMMA NoMore ==
    ASSUME NEW S, IsFiniteSet(S), NEW T, T \subseteq S
    PROVE  IsFiniteSet(T) /\ Cardinality(T) \in Nat /\ Cardinality(T) <= Cardinality(S)
BY FS_Subset, FS_CardinalityType

\* A notice, or an error when there is none, announces the gap to come.
LEMMA NoticeAnnounces ==
    ASSUME NEW out, NEW out2, NEW p \in Nat, NEW l \in Nat, NEW x,
           NEW lost \in SUBSET (1..l), NEW lost2 \in SUBSET (1..l), NEW errs \in Nat,
           DOMAIN out = 1..p, DOMAIN out2 = 1..(p + 1), \A i \in 1..p : out2[i] = out[i],
           out2[p + 1] = 0,
           LostRuns(out, lost2) \subseteq LostRuns(out, lost) \cup {x},
           Announced(out, p, lost, errs)
    PROVE  Announced(out, p, lost2, errs + 1) /\ Announced(out2, p + 1, lost2, errs)
<1>. DEFINE G(k) == Cardinality(Gaps(out, k))
            N(k) == Cardinality(Notices(out, k))
            R == Cardinality(LostRuns(out, lost))
            R2 == Cardinality(LostRuns(out, lost2))
<1>1. \A k \in 0..p : G(k) \in Nat /\ N(k) \in Nat
    <2>1. ASSUME NEW k \in 0..p PROVE k \in Nat
        OBVIOUS
    <2>. QED BY <2>1, GapsFinite, Zenon
<1>2. R \in Nat /\ R2 \in Nat /\ R2 <= R + 1
    BY LostRunsFinite, OneMore, Zenon
<1>3. (\A k \in 0..p : G(k) <= N(k) + errs) /\ G(p) + R <= N(p) + errs
    BY Zenon DEF Announced
<1>4. \A k \in 0..p : Gaps(out2, k) = Gaps(out, k) /\ Notices(out2, k) = Notices(out, k)
    BY GapsStay, SMTT(60), Z3T(60)
<1>5. Gaps(out2, p + 1) = Gaps(out, p)
    <2>1. p + 1 \notin Gaps(out2, p + 1)
        BY DEF Gaps
    <2>2. Gaps(out2, p + 1) = Gaps(out2, p)
        BY <2>1 DEF Gaps
    <2>. QED BY <1>4, <2>2
<1>6. Cardinality(Notices(out2, p + 1)) = N(p) + 1
    <2>1. Notices(out2, p + 1) = Notices(out2, p) \cup {p + 1} /\ p + 1 \notin Notices(out2, p)
        BY SMTT(60), Z3T(60) DEF Notices
    <2>2. Notices(out2, p) = Notices(out, p) /\ IsFiniteSet(Notices(out, p))
        <3>1. p \in 0..p
            OBVIOUS
        <3>. QED BY <1>4, <3>1, GapsFinite, ZenonT(60), ZenonT(90)
    <2>. QED BY <2>1, <2>2, FS_AddElement
<1>7. LostRuns(out2, lost2) = LostRuns(out, lost2)
    <2>1. ASSUME NEW d \in lost2
          PROVE  (\A i \in DOMAIN out2 : out2[i] < d) <=> (\A i \in DOMAIN out : out[i] < d)
        <3>1. d > 0
            OBVIOUS
        <3>2. \A i \in DOMAIN out2 : i \in DOMAIN out \/ i = p + 1
            OBVIOUS
        <3>3. \A i \in DOMAIN out : i \in DOMAIN out2 /\ out2[i] = out[i]
            BY SMTT(60), Z3T(60)
        <3>. QED BY <3>1, <3>2, <3>3, SMTT(60), Z3T(60)
    <2>. QED BY <2>1, Zenon DEF LostRuns
<1>8. p \in 0..p
    OBVIOUS
<1>. HIDE DEF G, N, R, R2
<1>9. (\A k \in 0..p : G(k) <= N(k) + (errs + 1)) /\ G(p) + R2 <= N(p) + (errs + 1)
    <2>1. ASSUME NEW k \in 0..p PROVE G(k) <= N(k) + (errs + 1)
        BY <1>1, <1>3, SMTT(60), Z3T(60)
    <2>2. G(p) + R2 <= N(p) + (errs + 1)
        BY <1>1, <1>2, <1>3, <1>8, SMTT(60), Z3T(60)
    <2>. QED BY <2>1, <2>2, Zenon
<1>10. G(p) <= (N(p) + 1) + errs /\ G(p) + R2 <= (N(p) + 1) + errs
    BY <1>1, <1>2, <1>3, <1>8, SMTT(60), Z3T(60)
<1>11. Announced(out, p, lost2, errs + 1)
    BY <1>9, Zenon DEF Announced, G, N, R2
<1>12. ASSUME NEW k \in 0..(p + 1)
       PROVE  Cardinality(Gaps(out2, k)) <= Cardinality(Notices(out2, k)) + errs
    <2>1. CASE k \in 0..p
        BY <1>3, <1>4, <2>1, Zenon DEF G, N
    <2>2. CASE k = p + 1
        BY <1>5, <1>6, <1>10, <2>2, Zenon DEF G
    <2>. QED BY <2>1, <2>2
<1>13. Announced(out2, p + 1, lost2, errs)
    BY <1>5, <1>6, <1>7, <1>10, <1>12, Zenon DEF Announced, G, R2
<1>. QED BY <1>11, <1>13

\* n of the q lines of the first buffer of the way are written after the p entries of the
\* file; the way goes on with the next buffer.
Moves(out, way, out2, w, p, m, n, q) ==
    /\ DOMAIN out = 1..p /\ DOMAIN out2 = 1..(p + n)
    /\ \A i \in 1..p : out2[i] = out[i]
    /\ \A i \in 1..n : out2[p + i] = way[1][i]
    /\ DOMAIN way = 1..m /\ DOMAIN w = 1..(m - 1) /\ \A a \in 1..(m - 1) : w[a] = way[a + 1]
    /\ DOMAIN way[1] = 1..q

\* The lines of s from the n-th, which is not one of them, to the q-th.
Rest(s, n, q) == {s[i] : i \in (n + 1)..q}

\* Writing a buffer keeps the order, and exactly the rest that is not written is lost.
LEMMA WayMoves ==
    ASSUME NEW out, NEW way, NEW out2, NEW w, NEW l \in Nat, NEW p \in Nat, NEW m \in Nat \ {0},
           NEW q \in Nat, NEW n \in 0..q,
           Ordered(out, way), UpTo(out, way, l), Moves(out, way, out2, w, p, m, n, q)
    PROVE  Ordered(out2, w) /\ Held(out2, w) = Held(out, way) \ Rest(way[1], n, q)
<1>. DEFINE b == way[1]
<1>1. Consecutive(b) /\ Precedes(out, b) /\ 1 \in DOMAIN way
    BY SMTT(60), Z3T(60) DEF Ordered, Moves
<1>2. \A i \in 1..q : b[i] \in Nat /\ b[i] > 0 /\ b[i] = b[1] + (i - 1) /\ b[1] \in Nat
    <2>1. ASSUME NEW i \in 1..q PROVE b[i] \in Nat /\ 1 \in 1..q
        <3>1. b[i] \in Nat
            BY <1>1, ZenonT(60), ZenonT(90) DEF Moves, UpTo
        <3>. QED BY <3>1
    <2>. QED BY <1>1, <2>1, Zenon DEF Consecutive, Moves
<1>3. \A a \in DOMAIN w : a + 1 \in DOMAIN way /\ w[a] = way[a + 1] /\ Precedes(b, w[a])
    <2>1. ASSUME NEW a \in DOMAIN w PROVE a + 1 \in DOMAIN way /\ w[a] = way[a + 1] /\ 1 < a + 1
        BY SMTT(60), Z3T(60) DEF Moves
    <2>. QED BY <1>1, <2>1, SMTT(60), Z3T(60) DEF Ordered
<1>4. \A i \in DOMAIN out2 : \/ i \in 1..p /\ out2[i] = out[i] /\ i \in DOMAIN out
                             \/ i - p \in 1..n /\ out2[i] = b[i - p] /\ i - p \in 1..q /\ i > p
    <2>1. ASSUME NEW i \in DOMAIN out2, i \notin 1..p
          PROVE  i - p \in 1..n /\ out2[i] = b[i - p] /\ i - p \in 1..q /\ i > p
        <3>1. i \in 1..(p + n)
            BY DEF Moves
        <3>2. i - p \in 1..n /\ i - p \in 1..q /\ i > p /\ p + (i - p) = i
            BY <2>1, <3>1, SMTT(60), Z3T(60)
        <3>. QED BY <3>2, SMTT(60), Z3T(60) DEF Moves
    <2>. QED BY <2>1, SMTT(60), Z3T(60) DEF Moves
<1>5. /\ \A i \in DOMAIN out : out[i] \in Nat /\ i \in DOMAIN out2 /\ out2[i] = out[i]
      /\ \A i \in DOMAIN out2 : i \in Nat
    <2>1. \A i \in DOMAIN out : out[i] \in Nat
        BY DEF UpTo
    <2>. QED BY <2>1, SMTT(60), Z3T(60) DEF Moves
<1>6. \A i \in 1..n : p + i \in DOMAIN out2 /\ out2[p + i] = b[i]
    BY SMTT(60), Z3T(60) DEF Moves
<1>. HIDE DEF b
<1>7. Ascends(out2)
    <2>1. ASSUME NEW i \in DOMAIN out2, NEW j \in DOMAIN out2, i < j, out2[j] # 0
          PROVE  out2[i] < out2[j]
        <3>1. CASE j \in 1..p
            <4>1. i \in 1..p /\ i \in DOMAIN out /\ j \in DOMAIN out
                BY <1>4, <1>5, <2>1, <3>1, SMTT(60), Z3T(60) DEF Moves
            <4>. QED BY <1>5, <2>1, <4>1, SMTT(60), Z3T(60) DEF Ordered, Ascends
        <3>2. CASE j - p \in 1..q /\ out2[j] = b[j - p] /\ i \in 1..p /\ out2[i] = out[i]
            BY <1>1, <3>2, SMTT(60), Z3T(60) DEF Precedes, Moves, b
        <3>3. CASE j - p \in 1..q /\ out2[j] = b[j - p] /\ i - p \in 1..q /\ out2[i] = b[i - p]
            <4>1. i - p < j - p
                BY <1>5, <2>1
            <4>. QED BY <1>2, <3>3, <4>1
        <3>. QED BY <1>4, <3>1, <3>2, <3>3, SMTT(60), Z3T(60)
    <2>. QED BY <2>1, SMTT(60), Z3T(60) DEF Ascends
<1>8. ASSUME NEW a \in DOMAIN w PROVE Consecutive(w[a]) /\ Precedes(out2, w[a])
    <2>1. Consecutive(w[a]) /\ Precedes(out, w[a])
        BY <1>3 DEF Ordered
    <2>2. ASSUME NEW i \in DOMAIN out2, NEW j \in DOMAIN w[a] PROVE out2[i] < w[a][j]
        <3>1. CASE i \in DOMAIN out
            BY <1>5, <2>1, <3>1, SMTT(60), Z3T(60) DEF Precedes
        <3>2. CASE i - p \in 1..q /\ out2[i] = b[i - p]
            BY <1>3, <3>2, SMTT(60), Z3T(60) DEF Precedes, Moves, b
        <3>. QED BY <1>4, <3>1, <3>2, SMTT(60), Z3T(60)
    <2>. QED BY <2>1, <2>2, SMTT(60), Z3T(60) DEF Precedes
<1>9. ASSUME NEW a \in DOMAIN w, NEW c \in DOMAIN w, a < c PROVE Precedes(w[a], w[c])
    <2>1. a + 1 < c + 1
        BY <1>9, SMTT(60), Z3T(60) DEF Moves
    <2>. QED BY <1>3, <2>1 DEF Ordered
<1>10. Ordered(out2, w)
    BY <1>7, <1>8, <1>9 DEF Ordered
<1>11. ASSUME NEW x \in Rest(b, n, q) PROVE x \notin Held(out2, w) /\ x \in Held(out, way)
    <2>1. PICK i \in (n + 1)..q : x = b[i]
        BY DEF Rest
    <2>2. i \in 1..q /\ x \in Nat /\ x > 0
        BY <1>2, <2>1, SMTT(60), Z3T(60)
    <2>3. x \in Held(out, way)
        BY <1>1, <2>1, <2>2, InHeld, SMTT(60), Z3T(60) DEF Moves, b
    <2>4. ASSUME NEW j \in DOMAIN out2 PROVE out2[j] # x
        <3>1. CASE j \in DOMAIN out /\ out2[j] = out[j]
            <4>1. out[j] < x
                BY <1>1, <2>1, <2>2, <3>1, ZenonT(60), ZenonT(90) DEF Precedes, Moves, b
            <4>. QED BY <1>5, <2>2, <3>1, <4>1, SMTT(60), Z3T(60)
        <3>2. CASE j - p \in 1..n /\ out2[j] = b[j - p] /\ j - p \in 1..q
            BY <1>2, <2>1, <2>2, <3>2, SMTT(60), Z3T(60)
        <3>. QED BY <1>4, <3>1, <3>2, SMTT(60), Z3T(60)
    <2>5. ASSUME NEW a \in DOMAIN w, NEW j \in DOMAIN w[a] PROVE w[a][j] # x
        <3>1. x < w[a][j]
            BY <1>3, <2>1, <2>2, ZenonT(60), ZenonT(90) DEF Precedes, Moves, b
        <3>. QED BY <2>2, <3>1
    <2>. QED BY <2>3, <2>4, <2>5, InHeld, SMTT(60), Z3T(60)
<1>12. ASSUME NEW x, x \notin Rest(b, n, q), x \in Held(out, way) PROVE x \in Held(out2, w)
    <2>1. ASSUME NEW i \in DOMAIN out, out[i] = x, x # 0 PROVE x \in Held(out2, w)
        BY <1>5, <2>1, InHeld, SMTT(60), Z3T(60)
    <2>2. ASSUME NEW a \in DOMAIN way, NEW i \in DOMAIN way[a], way[a][i] = x
          PROVE  x \in Held(out2, w)
        <3>1. CASE a = 1
            <4>1. i \in 1..q /\ x = b[i]
                BY <2>2, <3>1, SMTT(60), Z3T(60) DEF Moves, b
            <4>2. i \notin (n + 1)..q
                BY <1>12, <4>1, SMTT(60), Z3T(60) DEF Rest
            <4>3. i \in 1..n
                BY <4>1, <4>2, SMTT(60), Z3T(60)
            <4>4. x # 0
                BY <1>2, <4>1, SMTT(60), Z3T(60)
            <4>. QED BY <1>6, <4>1, <4>3, <4>4, InHeld, SMTT(60), Z3T(60)
        <3>2. CASE a # 1
            <4>1. a - 1 \in DOMAIN w /\ w[a - 1] = way[a]
                BY <3>2, SMTT(60), Z3T(60) DEF Moves
            <4>. QED BY <2>2, <4>1, InHeld, SMTT(60), Z3T(60)
        <3>. QED BY <3>1, <3>2, SMTT(60), Z3T(60)
    <2>. QED BY <1>12, <2>1, <2>2, InHeld, SMTT(60), Z3T(60)
<1>13. ASSUME NEW x \in Held(out2, w) PROVE x \in Held(out, way)
    <2>1. ASSUME NEW i \in DOMAIN out2, out2[i] = x, x # 0 PROVE x \in Held(out, way)
        <3>1. CASE i \in DOMAIN out /\ out2[i] = out[i]
            BY <2>1, <3>1, InHeld
        <3>2. CASE i - p \in 1..q /\ out2[i] = b[i - p]
            BY <1>1, <2>1, <3>2, InHeld, ZenonT(60), ZenonT(90) DEF Moves, b
        <3>. QED BY <1>4, <3>1, <3>2, SMTT(60), Z3T(60)
    <2>2. ASSUME NEW a \in DOMAIN w, NEW i \in DOMAIN w[a], w[a][i] = x
          PROVE  x \in Held(out, way)
        BY <1>3, <2>2, InHeld
    <2>. QED BY <2>1, <2>2, InHeld, SMTT(60), Z3T(60)
<1>14. Held(out2, w) = Held(out, way) \ Rest(b, n, q)
    BY <1>11, <1>12, <1>13, SMTT(60), Z3T(60)
<1>. QED BY <1>10, <1>14 DEF b

\* A buffer that is written has a gap at most before its first line, and that gap was one
\* to come.
LEMMA OneGap ==
    ASSUME NEW out, NEW way, NEW out2, NEW w, NEW l \in Nat, NEW p \in Nat, NEW m \in Nat \ {0},
           NEW q \in Nat, NEW n \in 0..q, NEW k \in p..(p + n), NEW lost \in SUBSET (1..l),
           Ordered(out, way), UpTo(out, way, l), Moves(out, way, out2, w, p, m, n, q),
           Held(out, way) = (1..l) \ lost
    PROVE  /\ Gaps(out2, k) \subseteq Gaps(out, p) \cup {p + 1}
           /\ Notices(out2, k) = Notices(out, p)
           /\ p + 1 \in Gaps(out2, k) =>
                 /\ n > 0 /\ way[1][1] - 1 \in LostRuns(out, lost)
                 /\ \A more : way[1][1] - 1 \notin LostRuns(out2, more)
<1>. DEFINE b == way[1]
<1>1. Consecutive(b) /\ Precedes(out, b) /\ 1 \in DOMAIN way
    BY SMTT(60), Z3T(60) DEF Ordered, Moves
<1>2. \A i \in 1..q : b[i] \in Nat /\ b[i] > 0 /\ b[i] = b[1] + (i - 1) /\ b[1] \in Nat
    <2>1. ASSUME NEW i \in 1..q PROVE b[i] \in Nat /\ 1 \in 1..q
        <3>1. b[i] \in Nat
            BY <1>1, ZenonT(60), ZenonT(90) DEF Moves, UpTo
        <3>. QED BY <3>1
    <2>. QED BY <1>1, <2>1, Zenon DEF Consecutive, Moves
<1>3. ASSUME NEW i \in 1..k, i \notin 1..p
      PROVE  i - p \in 1..n /\ i - p \in 1..q /\ out2[i] = b[i - p]
    <2>1. i - p \in 1..n /\ i - p \in 1..q /\ p + (i - p) = i
        BY <1>3
    <2>. QED BY <2>1 DEF Moves
<1>4. Gaps(out2, p) = Gaps(out, p) /\ Notices(out2, p) = Notices(out, p)
    <2>1. p \in 0..p /\ \A i \in 1..p : out2[i] = out[i]
        BY DEF Moves
    <2>. QED BY <2>1, GapsStay, ZenonT(60), ZenonT(90)
<1>5. Notices(out2, k) = Notices(out, p)
    <2>1. ASSUME NEW i \in 1..k, out2[i] = 0 PROVE i \in 1..p
        BY <1>2, <1>3, <2>1
    <2>2. \A i \in 1..p : i \in 1..k
        OBVIOUS
    <2>. QED BY <1>4, <2>1, <2>2 DEF Notices
<1>6. ASSUME NEW i \in Gaps(out2, k), i \notin 1..p PROVE i = p + 1
    <2>1. i \in 1..k /\ \A j \in 1..(i - 1) : out2[j] # out2[i] - 1
        BY DEF Gaps
    <2>2. SUFFICES ASSUME i # p + 1 PROVE FALSE
        OBVIOUS
    <2>3. i - p \in 1..q /\ out2[i] = b[i - p]
        BY <1>3, <1>6, <2>1
    <2>4. i - 1 \in 1..k /\ i - 1 \notin 1..p /\ i - 1 \in 1..(i - 1)
        BY <1>6, <2>1, <2>2
    <2>5. (i - 1) - p \in 1..q /\ out2[i - 1] = b[(i - 1) - p]
        BY <1>3, <2>4
    <2>6. b[(i - 1) - p] = b[i - p] - 1
        <3>1. b[i - p] = b[1] + ((i - p) - 1) /\ b[1] \in Nat
            BY <1>2, <2>3
        <3>2. b[(i - 1) - p] = b[1] + (((i - 1) - p) - 1)
            BY <1>2, <2>5
        <3>. QED BY <2>1, <3>1, <3>2
    <2>. QED BY <2>1, <2>3, <2>4, <2>5, <2>6
<1>7. ASSUME NEW i \in Gaps(out2, k), i \in 1..p PROVE i \in Gaps(out, p)
    BY <1>4, <1>7 DEF Gaps
<1>8. ASSUME p + 1 \in Gaps(out2, k)
      PROVE  /\ n > 0 /\ b[1] - 1 \in LostRuns(out, lost)
             /\ \A more : b[1] - 1 \notin LostRuns(out2, more)
    <2>. DEFINE g == b[1] - 1
    <2>1. /\ p + 1 \in 1..k /\ \A j \in 1..p : out2[j] # out2[p + 1] - 1
          /\ \E j \in 1..p : out2[j] # 0
        BY <1>8, SMTT(60), Z3T(60) DEF Gaps
    <2>2. n > 0 /\ 1 \in 1..q /\ out2[p + 1] = b[1] /\ p + 1 \in DOMAIN out2
        BY <1>3, <2>1, SMTT(60), Z3T(60) DEF Moves
    <2>3. \A j \in DOMAIN out : out[j] \in Nat /\ out[j] < b[1] /\ out[j] # g
        <3>1. \A j \in DOMAIN out : j \in 1..p /\ out2[j] = out[j] /\ out[j] \in Nat
            BY SMTT(60), Z3T(60) DEF Moves, UpTo
        <3>2. \A j \in DOMAIN out : out[j] < b[1]
            BY <1>1, <2>2, SMTT(60), Z3T(60) DEF Precedes, Moves
        <3>. QED BY <2>1, <2>2, <3>1, <3>2, SMTT(60), Z3T(60)
    <2>4. PICK j \in DOMAIN out : out[j] # 0
        BY <2>1, SMTT(60), Z3T(60) DEF Moves
    <2>5. b[1] \in Nat /\ g \in 1..l /\ b[1] <= l
        <3>1. b[1] \in Nat /\ b[1] <= l
            BY <1>1, <2>2, ZenonT(60), ZenonT(90) DEF UpTo, Moves
        <3>2. out[j] \in Nat /\ out[j] < b[1]
            BY <2>3, SMTT(60), Z3T(60)
        <3>. QED BY <2>4, <3>1, <3>2, SMTT(60), Z3T(60)
    <2>6. ASSUME NEW a \in DOMAIN way, NEW i \in DOMAIN way[a] PROVE way[a][i] # g
        <3>1. CASE a = 1
            BY <1>2, <2>5, <3>1, SMTT(60), Z3T(60) DEF Moves
        <3>2. CASE a # 1
            <4>1. b[1] < way[a][i]
                <5>1. 1 < a
                    BY <3>2, SMTT(60), Z3T(60) DEF Moves
                <5>. QED BY <1>1, <2>2, <5>1, Zenon DEF Ordered, Precedes, Moves
            <4>2. way[a][i] \in Nat
                BY SMTT(60), Z3T(60) DEF UpTo
            <4>. QED BY <2>5, <4>1, <4>2
        <3>. QED BY <3>1, <3>2, SMTT(60), Z3T(60)
    <2>7. g \notin Held(out, way) /\ b[1] \in Held(out, way)
        <3>1. g \notin Held(out, way)
            BY <2>3, <2>6, InHeld, SMTT(60), Z3T(60)
        <3>2. 1 \in DOMAIN way[1]
            BY <2>2, SMTT(60), Z3T(60) DEF Moves
        <3>. QED BY <1>1, <3>1, <3>2, InHeld, SMTT(60), Z3T(60)
    <2>8. g \in lost /\ b[1] \notin lost /\ g + 1 = b[1]
        BY <2>5, <2>7, SMTT(60), Z3T(60)
    <2>9. \A i \in DOMAIN out : out[i] < g
        BY <2>3, <2>5, SMTT(60), Z3T(60)
    <2>10. g \in LostRuns(out, lost)
        BY <2>8, <2>9, SMTT(60), Z3T(60) DEF LostRuns
    <2>11. ~(out2[p + 1] < g)
        BY <2>2, <2>5
    <2>12. ASSUME NEW more PROVE g \notin LostRuns(out2, more)
        BY <2>2, <2>11, ZenonT(60), ZenonT(90) DEF LostRuns
    <2>. QED BY <2>2, <2>10, <2>12, SMTT(60), Z3T(60)
<1>. HIDE DEF b
<1>9. Gaps(out2, k) \subseteq Gaps(out, p) \cup {p + 1}
    BY <1>6, <1>7, SMTT(60), Z3T(60)
<1>. QED BY <1>5, <1>8, <1>9, SMTT(60), Z3T(60) DEF b

\* What a failing write loses is one gap to come, what a complete one takes none.
LEMMA WriteLoses ==
    ASSUME NEW out, NEW way, NEW out2, NEW w, NEW l \in Nat, NEW p \in Nat, NEW m \in Nat \ {0},
           NEW q \in Nat, NEW n \in 0..q, NEW lost \in SUBSET (1..l),
           Ordered(out, way), UpTo(out, way, l), Moves(out, way, out2, w, p, m, n, q)
    PROVE  LET lost2 == lost \cup Rest(way[1], n, q) IN
           /\ n = q => LostRuns(out2, lost2) \subseteq LostRuns(out, lost)
           /\ n # q => LostRuns(out2, lost2) \subseteq LostRuns(out, lost) \cup {way[1][q]}
<1>. DEFINE b == way[1]
            lost2 == lost \cup Rest(b, n, q)
<1>. SUFFICES ASSUME NEW d \in LostRuns(out2, lost2), d \notin LostRuns(out, lost)
              PROVE  n # q /\ d = b[q]
    BY ZenonT(60), ZenonT(90)
<1>1. d \in lost2 /\ d + 1 \notin lost2 /\ \A i \in DOMAIN out2 : out2[i] < d
    BY SMTT(60), Z3T(60) DEF LostRuns
<1>2. \A i \in DOMAIN out : i \in DOMAIN out2 /\ out2[i] = out[i]
    BY DEF Moves
<1>3. d \notin lost
    <2>1. SUFFICES ASSUME d \in lost PROVE d \in LostRuns(out, lost)
        OBVIOUS
    <2>2. d + 1 \notin lost /\ \A i \in DOMAIN out : out[i] < d
        BY <1>1, <1>2, SMTT(60), Z3T(60)
    <2>. QED BY <2>1, <2>2, SMTT(60), Z3T(60) DEF LostRuns
<1>4. PICK i \in (n + 1)..q : d = b[i]
    BY <1>1, <1>3, SMTT(60), Z3T(60) DEF Rest
<1>5. CASE i = q
    BY <1>4, <1>5, SMTT(60), Z3T(60)
<1>6. CASE i # q
    <2>1. i \in 1..q /\ i + 1 \in 1..q /\ 1 \in 1..q /\ i + 1 \in (n + 1)..q
        BY <1>6, SMTT(60), Z3T(60)
    <2>2. Consecutive(b) /\ DOMAIN b = 1..q /\ b[1] \in Nat
        <3>1. 1 \in DOMAIN way /\ DOMAIN b = 1..q
            BY DEF Moves
        <3>. QED BY <2>1, <3>1, SMTT(60), Z3T(60) DEF Ordered, UpTo
    <2>3. b[i] = b[1] + (i - 1) /\ b[i + 1] = b[1] + ((i + 1) - 1)
        BY <2>1, <2>2, ZenonT(60), ZenonT(90) DEF Consecutive
    <2>4. b[i + 1] = b[i] + 1
        BY <2>1, <2>2, <2>3, SMTT(60), Z3T(60)
    <2>5. d + 1 \in Rest(b, n, q)
        BY <1>4, <2>1, <2>4 DEF Rest
    <2>. QED BY <1>1, <2>5, SMTT(60), Z3T(60)
<1>. QED BY <1>5, <1>6

\* Writing a buffer, or n lines of it with an error, leaves every gap announced: a gap in the
\* file was one to come before, and the lines lost now are one gap to come at most.
LEMMA WriteAnnounced ==
    ASSUME NEW out, NEW way, NEW out2, NEW w, NEW l \in Nat, NEW p \in Nat, NEW m \in Nat \ {0},
           NEW q \in Nat, NEW n \in 0..q, NEW lost \in SUBSET (1..l), NEW errs \in Nat,
           Ordered(out, way), UpTo(out, way, l), Moves(out, way, out2, w, p, m, n, q),
           Held(out, way) = (1..l) \ lost, Announced(out, p, lost, errs)
    PROVE  Announced(out2, p + n, lost \cup Rest(way[1], n, q), IF n = q THEN errs ELSE errs + 1)
<1>. DEFINE lost2 == lost \cup Rest(way[1], n, q)
            errs2 == IF n = q THEN errs ELSE errs + 1
            g == way[1][1] - 1
            G == Cardinality(Gaps(out, p))
            N == Cardinality(Notices(out, p))
            R == Cardinality(LostRuns(out, lost))
            G2(k) == Cardinality(Gaps(out2, k))
            R2 == Cardinality(LostRuns(out2, lost2))
            gap(k) == p + 1 \in Gaps(out2, k)
<1>. SUFFICES Announced(out2, p + n, lost2, errs2)
    BY Zenon
<1>1. /\ IsFiniteSet(Gaps(out, p)) /\ G \in Nat /\ N \in Nat
      /\ IsFiniteSet(LostRuns(out, lost)) /\ R \in Nat
    BY GapsFinite, LostRunsFinite, Zenon
<1>2. /\ G + R <= N + errs
      /\ \A k \in 0..p : Cardinality(Gaps(out, k)) <= Cardinality(Notices(out, k)) + errs
    BY Zenon DEF Announced
<1>3. ASSUME NEW k \in p..(p + n)
      PROVE  /\ Notices(out2, k) = Notices(out, p)
             /\ Gaps(out2, k) \subseteq Gaps(out, p) \cup {p + 1}
             /\ gap(k) => g \in LostRuns(out, lost) /\ g \notin LostRuns(out2, lost2)
    <2>1. /\ Gaps(out2, k) \subseteq Gaps(out, p) \cup {p + 1}
          /\ Notices(out2, k) = Notices(out, p)
          /\ p + 1 \in Gaps(out2, k) =>
                /\ n > 0 /\ way[1][1] - 1 \in LostRuns(out, lost)
                /\ \A more : way[1][1] - 1 \notin LostRuns(out2, more)
        BY OneGap, ZenonT(60), ZenonT(90)
    <2>. QED BY <2>1, Zenon
<1>4. /\ n = q => LostRuns(out2, lost2) \subseteq LostRuns(out, lost)
      /\ n # q => LostRuns(out2, lost2) \subseteq LostRuns(out, lost) \cup {way[1][q]}
    BY WriteLoses, ZenonT(60), ZenonT(90)
<1>5. errs2 \in Nat /\ errs <= errs2 /\ errs2 = (IF n = q THEN errs ELSE errs + 1)
    OBVIOUS
<1>. HIDE DEF lost2, errs2, g
<1>6. ASSUME NEW k \in p..(p + n)
      PROVE  /\ G2(k) \in Nat /\ G2(k) <= G + 1
             /\ ~gap(k) => G2(k) <= G
    <2>1. G2(k) \in Nat /\ G2(k) <= G + 1
        BY <1>1, <1>3, OneMore, ZenonT(60), ZenonT(90)
    <2>2. ~gap(k) => Gaps(out2, k) \subseteq Gaps(out, p)
        BY <1>3, ZenonT(60), ZenonT(90)
    <2>3. ~gap(k) => G2(k) <= G
        BY <1>1, <2>2, NoMore, ZenonT(60), ZenonT(90)
    <2>. QED BY <2>1, <2>3, ZenonT(60), ZenonT(90)
<1>7. ASSUME NEW k \in p..(p + n), gap(k) PROVE R >= 1
    <2>1. g \in LostRuns(out, lost)
        BY <1>3, <1>7, ZenonT(60), ZenonT(90)
    <2>2. /\ Cardinality(LostRuns(out, lost) \ {g}) = R - 1
          /\ Cardinality(LostRuns(out, lost) \ {g}) \in Nat
        BY <1>1, <2>1, FS_RemoveElement, FS_CardinalityType, ZenonT(60), ZenonT(90)
    <2>. QED BY <1>1, <2>2, SMTT(60), Z3T(60)
<1>8. R2 \in Nat /\ R2 <= R + (IF n = q THEN 0 ELSE 1)
    <2>1. CASE n = q
        <3>1. R2 \in Nat /\ R2 <= R
            BY <1>1, <1>4, <2>1, NoMore, ZenonT(60), ZenonT(90)
        <3>. QED BY <1>1, <2>1, <3>1, SMTT(60), Z3T(60)
    <2>2. CASE n # q
        <3>1. R2 \in Nat /\ R2 <= R + 1
            BY <1>1, <1>4, <2>2, OneMore, ZenonT(60), ZenonT(90)
        <3>. QED BY <1>1, <2>2, <3>1, SMTT(60), Z3T(60)
    <2>. QED BY <2>1, <2>2, SMTT(60), Z3T(60)
<1>9. ASSUME NEW k \in p..(p + n), gap(k) PROVE R2 <= (R - 1) + (IF n = q THEN 0 ELSE 1)
    <2>. DEFINE S == LostRuns(out, lost) \ {g}
    <2>1. g \in LostRuns(out, lost) /\ g \notin LostRuns(out2, lost2)
        BY <1>3, <1>9, ZenonT(60), ZenonT(90)
    <2>2. IsFiniteSet(S) /\ Cardinality(S) = R - 1
        BY <1>1, <2>1, FS_RemoveElement, ZenonT(60), ZenonT(90)
    <2>3. /\ n = q => LostRuns(out2, lost2) \subseteq S
          /\ n # q => LostRuns(out2, lost2) \subseteq S \cup {way[1][q]}
        BY <1>4, <2>1, ZenonT(60), ZenonT(90)
    <2>. HIDE DEF S
    <2>4. CASE n = q
        <3>1. R2 \in Nat /\ R2 <= Cardinality(S)
            BY <2>2, <2>3, <2>4, NoMore, ZenonT(60), ZenonT(90)
        <3>. QED BY <1>1, <2>2, <2>4, <3>1, SMTT(60), Z3T(60)
    <2>5. CASE n # q
        <3>1. R2 \in Nat /\ R2 <= Cardinality(S) + 1
            BY <2>2, <2>3, <2>5, OneMore, ZenonT(60), ZenonT(90)
        <3>. QED BY <1>1, <2>2, <2>5, <3>1, SMTT(60), Z3T(60)
    <2>. QED BY <2>4, <2>5, SMTT(60), Z3T(60)
<1>. HIDE DEF G, N, R, G2, R2, gap
<1>10. ASSUME NEW k \in p..(p + n) PROVE G2(k) <= N + errs2 /\ G2(k) + R2 <= N + errs2
    <2>1. CASE gap(k)
        BY <1>1, <1>2, <1>5, <1>6, <1>7, <1>8, <1>9, <2>1, SMTT(60), Z3T(60)
    <2>2. CASE ~gap(k)
        BY <1>1, <1>2, <1>5, <1>6, <1>8, <2>2, SMTT(60), Z3T(60)
    <2>. QED BY <2>1, <2>2, SMTT(60), Z3T(60)
<1>11. ASSUME NEW k \in 0..(p + n)
       PROVE  Cardinality(Gaps(out2, k)) <= Cardinality(Notices(out2, k)) + errs2
    <2>1. CASE k <= p
        <3>1. k \in 0..p /\ k \in Nat /\ \A i \in 1..p : out2[i] = out[i]
            BY <2>1, SMTT(60), Z3T(60) DEF Moves
        <3>2. Gaps(out2, k) = Gaps(out, k) /\ Notices(out2, k) = Notices(out, k)
            BY <3>1, GapsStay, SMTT(60), Z3T(60)
        <3>3. Cardinality(Gaps(out, k)) \in Nat /\ Cardinality(Notices(out, k)) \in Nat
            BY <3>1, GapsFinite, ZenonT(60), ZenonT(90)
        <3>4. Cardinality(Gaps(out, k)) <= Cardinality(Notices(out, k)) + errs2
            BY <1>2, <1>5, <3>1, <3>3, SMTT(60), Z3T(60)
        <3>. QED BY <3>2, <3>4, SMTT(60), Z3T(60)
    <2>2. CASE k > p
        <3>1. k \in p..(p + n)
            BY <2>2, SMTT(60), Z3T(60)
        <3>. QED BY <1>3, <1>10, <3>1, ZenonT(60), ZenonT(90) DEF G2, N
    <2>. QED BY <2>1, <2>2, SMTT(60), Z3T(60)
<1>12. p + n \in p..(p + n)
    OBVIOUS
<1>. QED BY <1>3, <1>10, <1>11, <1>12, Zenon DEF Announced, G2, R2, N

\* A notice at the end of the file is no line: order and lines stay as they are.
LEMMA NoticeAppended ==
    ASSUME NEW out, NEW out2, NEW way, NEW p \in Nat, NEW l \in Nat,
           DOMAIN out = 1..p, DOMAIN out2 = 1..(p + 1), \A i \in 1..p : out2[i] = out[i],
           out2[p + 1] = 0, Ordered(out, way), UpTo(out, way, l)
    PROVE  Ordered(out2, way) /\ Held(out2, way) = Held(out, way)
<1>1. Ascends(out2)
    <2>. SUFFICES ASSUME NEW i \in DOMAIN out2, NEW j \in DOMAIN out2, i < j, out2[j] # 0
                  PROVE  out2[i] < out2[j]
        BY DEF Ascends
    <2>1. i \in DOMAIN out /\ j \in DOMAIN out /\ out2[i] = out[i] /\ out2[j] = out[j]
        BY SMTT(60), Z3T(60)
    <2>. QED BY <2>1, SMTT(60), Z3T(60) DEF Ordered, Ascends
<1>2. ASSUME NEW a \in DOMAIN way PROVE Consecutive(way[a]) /\ Precedes(out2, way[a])
    <2>1. Consecutive(way[a]) /\ Precedes(out, way[a])
        BY SMTT(60), Z3T(60) DEF Ordered
    <2>2. ASSUME NEW i \in DOMAIN out2, NEW j \in DOMAIN way[a] PROVE out2[i] < way[a][j]
        <3>1. way[a][j] \in Nat /\ way[a][j] > 0
            BY <2>1, SMTT(60), Z3T(60) DEF Consecutive, UpTo
        <3>2. CASE i = p + 1
            BY <3>1, <3>2, SMTT(60), Z3T(60)
        <3>3. CASE i # p + 1
            BY <2>1, <3>3 DEF Precedes
        <3>. QED BY <3>2, <3>3, SMTT(60), Z3T(60)
    <2>. QED BY <2>1, <2>2, SMTT(60), Z3T(60) DEF Precedes
<1>3. ASSUME NEW n PROVE n \in Held(out2, way) <=> n \in Held(out, way)
    <2>1. n # 0 => ((\E i \in DOMAIN out2 : out2[i] = n) <=> (\E i \in DOMAIN out : out[i] = n))
        BY SMTT(60), Z3T(60)
    <2>2. n \in Held(out2, way) <=>
               \/ n # 0 /\ \E i \in DOMAIN out2 : out2[i] = n
               \/ \E a \in DOMAIN way : \E i \in DOMAIN way[a] : way[a][i] = n
        BY InHeld, SMTT(60), Z3T(60)
    <2>3. n \in Held(out, way) <=>
               \/ n # 0 /\ \E i \in DOMAIN out : out[i] = n
               \/ \E a \in DOMAIN way : \E i \in DOMAIN way[a] : way[a][i] = n
        BY InHeld, SMTT(60), Z3T(60)
    <2>. QED BY <2>1, <2>2, <2>3, ZenonT(60), ZenonT(90)
<1>4. Held(out2, way) = Held(out, way)
    BY <1>3, Zenon
<1>. QED BY <1>1, <1>2, <1>4, ZenonT(60), ZenonT(90) DEF Ordered

\* Lines that were logged have a number up to the last.
LEMMA HeldUpTo ==
    ASSUME NEW out, NEW way, NEW l \in Nat, NEW lost, Held(out, way) = (1..l) \ lost
    PROVE  UpTo(out, way, l)
<1>1. \A n : n \in Held(out, way) => n \in 1..l
    OBVIOUS
<1>2. ASSUME NEW i \in DOMAIN out PROVE out[i] = 0 \/ out[i] \in 1..l
    BY <1>1, InHeld, ZenonT(60), ZenonT(90)
<1>3. ASSUME NEW a \in DOMAIN way, NEW i \in DOMAIN way[a] PROVE way[a][i] \in 1..l
    BY <1>1, InHeld, ZenonT(60), ZenonT(90)
<1>. QED BY <1>2, <1>3 DEF UpTo

\* The elements of a concatenation, one by one.
LEMMA ConcatIndex ==
    ASSUME NEW T, NEW s \in Seq(T), NEW t \in Seq(T)
    PROVE  /\ s \o t \in Seq(T) /\ Len(s \o t) = Len(s) + Len(t)
           /\ \A i \in 1..Len(s) : (s \o t)[i] = s[i]
           /\ \A i \in 1..Len(t) : (s \o t)[Len(s) + i] = t[i]
<1>1. \A i \in 1..Len(t) : Len(s) + i \in 1..(Len(s) + Len(t)) /\ (Len(s) + i) - Len(s) = i
    OBVIOUS
<1>2. \A i \in 1..Len(s) : (s \o t)[i] = s[i]
    OBVIOUS
<1>. QED BY <1>1, <1>2

\* The way is d buffers of btw, those after the first n, then f full ones and the
\* current one ...
WayAre(way, btw, n, full, cur, d, f) ==
    /\ d \in Nat /\ f \in Nat
    /\ DOMAIN way = 1..(d + f + 1)
    /\ \A a \in 1..d : way[a] = btw[n + a]
    /\ \A a \in 1..f : way[d + a] = full[a]
    /\ way[d + f + 1] = cur

\* ... with what is left of btw, and all the full ones.
WayIs(way, btw, n, full, cur) == WayAre(way, btw, n, full, cur, Len(btw) - n, Len(full))

\* The buffers on their way, one by one.
LEMMA WayIndex ==
    ASSUME NEW T, NEW btw \in Seq(T), NEW full \in Seq(T), NEW cur \in T, NEW n \in Nat,
           n <= Len(btw)
    PROVE  WayIs(SubSeq(btw, n + 1, Len(btw)) \o full \o << cur >>, btw, n, full, cur)
<1>. DEFINE s == SubSeq(btw, n + 1, Len(btw))
            t == s \o full
            d == Len(btw) - n
            m == Len(full)
<1>1. d \in Nat /\ m \in Nat
    OBVIOUS
<1>2. s \in Seq(T) /\ Len(s) = d /\ \A a \in 1..d : s[a] = btw[n + a]
    OBVIOUS
<1>. HIDE DEF s, d
<1>3. /\ t \in Seq(T) /\ Len(t) = d + m
      /\ \A a \in 1..d : t[a] = s[a]
      /\ \A a \in 1..m : t[d + a] = full[a]
    <2>1. \A u \in Seq(T), v \in Seq(T) :
             /\ u \o v \in Seq(T) /\ Len(u \o v) = Len(u) + Len(v)
             /\ \A i \in 1..Len(u) : (u \o v)[i] = u[i]
             /\ \A i \in 1..Len(v) : (u \o v)[Len(u) + i] = v[i]
        BY ConcatIndex
    <2>. QED BY <1>2, <2>1, ZenonT(60), ZenonT(90)
<1>4. << cur >> \in Seq(T) /\ Len(<< cur >>) = 1 /\ << cur >>[1] = cur
    OBVIOUS
<1>. HIDE DEF t, m
<1>5. /\ t \o << cur >> \in Seq(T) /\ Len(t \o << cur >>) = Len(t) + Len(<< cur >>)
      /\ \A a \in 1..Len(t) : (t \o << cur >>)[a] = t[a]
      /\ \A i \in 1..Len(<< cur >>) : (t \o << cur >>)[Len(t) + i] = << cur >>[i]
    <2>. DEFINE c == << cur >>
    <2>1. t \in Seq(T) /\ c \in Seq(T)
        BY <1>3, <1>4, SMTT(60), Z3T(60)
    <2>. HIDE DEF c
    <2>2. /\ t \o c \in Seq(T) /\ Len(t \o c) = Len(t) + Len(c)
          /\ \A a \in 1..Len(t) : (t \o c)[a] = t[a]
          /\ \A i \in 1..Len(c) : (t \o c)[Len(t) + i] = c[i]
        BY <2>1, ConcatIndex, SMTT(60), Z3T(60)
    <2>. QED BY <2>2, Zenon DEF c
<1>6. Len(t \o << cur >>) = d + m + 1
    BY <1>3, <1>4, <1>5, ZenonT(60), ZenonT(90)
<1>7. \A a \in 1..(d + m) : (t \o << cur >>)[a] = t[a]
    BY <1>3, <1>5, ZenonT(60), ZenonT(90)
<1>8. (t \o << cur >>)[d + m + 1] = cur
    <2>1. 1 \in 1..1
        OBVIOUS
    <2>. QED BY <1>3, <1>4, <1>5, <2>1, ZenonT(60), ZenonT(90)
<1>9. \A a \in 1..d : a \in 1..(d + m)
    BY <1>1, SMTT(60), Z3T(60)
<1>10. \A a \in 1..m : d + a \in 1..(d + m)
    BY <1>1, SMTT(60), Z3T(60)
<1>11. DOMAIN (t \o << cur >>) = 1..(d + m + 1)
    BY <1>5, <1>6, SMTT(60), Z3T(60)
<1>12. /\ \A a \in 1..d : (t \o << cur >>)[a] = btw[n + a]
       /\ \A a \in 1..m : (t \o << cur >>)[d + a] = full[a]
    BY <1>2, <1>3, <1>7, <1>9, <1>10, ZenonT(60), ZenonT(90)
<1>. QED BY <1>1, <1>8, <1>11, <1>12, ZenonT(60), ZenonT(90) DEF WayIs, WayAre, d, m, s, t

\* The way w has the buffers of way but for the last, cur2 instead of cur.
LastChanged(way, w, m, cur, cur2) ==
    /\ m \in Nat \ {0} /\ DOMAIN way = 1..m /\ DOMAIN w = 1..m
    /\ way[m] = cur /\ w[m] = cur2
    /\ \A a \in 1..m : a # m => w[a] = way[a]

\* Two ways, of m buffers, that differ in the current one.
TwoCurrent(way, w, btw, n, full, cur, cur2, m) ==
    /\ WayIs(way, btw, n, full, cur) /\ WayIs(w, btw, n, full, cur2)
    /\ m = (Len(btw) - n) + Len(full) + 1

\* Only the current buffer changes.
LEMMA WayOfCurrent ==
    ASSUME NEW way, NEW w, NEW btw, NEW n, NEW full, NEW cur, NEW cur2, NEW m,
           TwoCurrent(way, w, btw, n, full, cur, cur2, m)
    PROVE  LastChanged(way, w, m, cur, cur2)
<1>1. PICK d, f : d = Len(btw) - n /\ f = Len(full)
    BY Zenon
<1>1a. WayAre(way, btw, n, full, cur, d, f) /\ WayAre(w, btw, n, full, cur2, d, f)
    BY <1>1, ZenonT(60), ZenonT(90) DEF WayIs, TwoCurrent
<1>2. /\ d \in Nat /\ f \in Nat /\ DOMAIN way = 1..(d + f + 1) /\ DOMAIN w = 1..(d + f + 1)
      /\ \A a \in 1..d : way[a] = btw[n + a] /\ w[a] = btw[n + a]
      /\ \A a \in 1..f : way[d + a] = full[a] /\ w[d + a] = full[a]
      /\ way[d + f + 1] = cur /\ w[d + f + 1] = cur2
    BY <1>1a, ZenonT(60), ZenonT(90) DEF WayAre
<1>3. m = d + f + 1
    BY <1>1, ZenonT(60), ZenonT(90) DEF TwoCurrent
<1>4. ASSUME NEW a \in 1..m, a # m PROVE w[a] = way[a]
    <2>1. CASE a <= d
        BY <1>2, <1>3, <2>1, SMTT(60), Z3T(60)
    <2>2. CASE a > d
        <3>1. a - d \in 1..f /\ d + (a - d) = a
            BY <1>2, <1>3, <1>4, <2>2, SMTT(60), Z3T(60)
        <3>2. w[d + (a - d)] = way[d + (a - d)]
            BY <1>2, <3>1, ZenonT(60), ZenonT(90)
        <3>. QED BY <3>1, <3>2, ZenonT(60), ZenonT(90)
    <2>. QED BY <1>2, <1>3, <2>1, <2>2, SMTT(60), Z3T(60)
<1>5. m \in Nat \ {0}
    BY <1>2, <1>3, SMTT(60), Z3T(60)
<1>. QED BY <1>2, <1>3, <1>4, <1>5, ZenonT(60), ZenonT(90) DEF LastChanged

\* The way w is the m buffers of way, and cur2 after them.
OneAdded(way, w, m, cur2) ==
    /\ m \in Nat \ {0} /\ DOMAIN way = 1..m /\ DOMAIN w = 1..(m + 1)
    /\ w[m + 1] = cur2
    /\ \A a \in 1..m : w[a] = way[a]

\* A way of m buffers, and the one with its current buffer among the full ones.
ThenFull(way, w, T, btw, n, full, cur, cur2, m) ==
    /\ WayIs(way, btw, n, full, cur) /\ WayIs(w, btw, n, Append(full, cur), cur2)
    /\ m = (Len(btw) - n) + Len(full) + 1
    /\ full \in Seq(T) /\ cur \in T

\* The current buffer becomes the last of the full ones.
LEMMA WayOfFull ==
    ASSUME NEW T, NEW way, NEW w, NEW btw, NEW n, NEW full, NEW cur, NEW cur2, NEW m,
           ThenFull(way, w, T, btw, n, full, cur, cur2, m)
    PROVE  OneAdded(way, w, m, cur2)
<1>1. PICK d, f : d = Len(btw) - n /\ f = Len(full)
    BY Zenon
<1>1a. full \in Seq(T) /\ cur \in T
    BY ZenonT(60), ZenonT(90) DEF ThenFull
<1>2. /\ Len(Append(full, cur)) = Len(full) + 1 /\ Append(full, cur)[Len(full) + 1] = cur
      /\ \A a \in 1..Len(full) : Append(full, cur)[a] = full[a]
    BY <1>1a, SMTT(60), Z3T(60)
<1>3. PICK more : more = Append(full, cur)
    BY Zenon
<1>4. Len(more) = f + 1 /\ more[f + 1] = cur /\ \A a \in 1..f : more[a] = full[a]
    BY <1>1, <1>2, <1>3, ZenonT(60), ZenonT(90)
<1>4a. WayAre(way, btw, n, full, cur, d, f) /\ WayAre(w, btw, n, more, cur2, d, f + 1)
    BY <1>1, <1>3, <1>4, ZenonT(60), ZenonT(90) DEF WayIs, ThenFull
<1>5. /\ d \in Nat /\ f \in Nat /\ DOMAIN way = 1..(d + f + 1)
      /\ \A a \in 1..d : way[a] = btw[n + a]
      /\ \A a \in 1..f : way[d + a] = full[a]
      /\ way[d + f + 1] = cur
    BY <1>4a, ZenonT(60), ZenonT(90) DEF WayAre
<1>6. /\ DOMAIN w = 1..(d + (f + 1) + 1)
      /\ \A a \in 1..d : w[a] = btw[n + a]
      /\ \A a \in 1..(f + 1) : w[d + a] = more[a]
      /\ w[d + (f + 1) + 1] = cur2
    BY <1>4a, ZenonT(60), ZenonT(90) DEF WayAre
<1>7. m = d + f + 1
    BY <1>1, ZenonT(60), ZenonT(90) DEF ThenFull
<1>8. ASSUME NEW a \in 1..m PROVE w[a] = way[a]
    <2>1. CASE a <= d
        BY <1>5, <1>6, <1>7, <2>1, SMTT(60), Z3T(60)
    <2>2. CASE a > d /\ a # m
        <3>1. a - d \in 1..f /\ d + (a - d) = a /\ a - d \in 1..(f + 1)
            BY <1>5, <1>7, <2>2, SMTT(60), Z3T(60)
        <3>2. w[d + (a - d)] = way[d + (a - d)]
            BY <1>4, <1>5, <1>6, <3>1, ZenonT(60), ZenonT(90)
        <3>. QED BY <3>1, <3>2, ZenonT(60), ZenonT(90)
    <2>3. CASE a = m
        <3>1. a = d + (f + 1) /\ a = d + f + 1 /\ f + 1 \in 1..(f + 1)
            BY <1>5, <1>7, <2>3, SMTT(60), Z3T(60)
        <3>. QED BY <1>4, <1>5, <1>6, <3>1, ZenonT(60), ZenonT(90)
    <2>. QED BY <1>5, <1>7, <2>1, <2>2, <2>3, SMTT(60), Z3T(60)
<1>9. m \in Nat \ {0} /\ d + (f + 1) + 1 = m + 1
    BY <1>5, <1>7, SMTT(60), Z3T(60)
<1>. QED BY <1>5, <1>6, <1>7, <1>8, <1>9, ZenonT(60), ZenonT(90) DEF OneAdded

\* The way w is the m buffers of way but the first, b.
FirstGone(way, w, m, b) ==
    /\ m \in Nat \ {0} /\ DOMAIN way = 1..m /\ DOMAIN w = 1..(m - 1)
    /\ way[1] = b
    /\ \A a \in 1..(m - 1) : w[a] = way[a + 1]

\* A way of m buffers with n of btw written, and the one with n + 1 written.
ThenNext(way, w, btw, n, full, cur, m) ==
    /\ WayIs(way, btw, n, full, cur) /\ WayIs(w, btw, n + 1, full, cur)
    /\ m = (Len(btw) - n) + Len(full) + 1
    /\ n \in Nat /\ Len(btw) \in Nat /\ n < Len(btw)

\* The first buffer left to write has been written.
LEMMA WayOfNext ==
    ASSUME NEW way, NEW w, NEW btw, NEW n, NEW full, NEW cur, NEW m,
           ThenNext(way, w, btw, n, full, cur, m)
    PROVE  FirstGone(way, w, m, btw[n + 1])
<1>1. PICK d, f : d = Len(btw) - n /\ f = Len(full)
    BY Zenon
<1>1a. /\ WayAre(way, btw, n, full, cur, d, f)
       /\ n \in Nat /\ Len(btw) \in Nat /\ n < Len(btw)
    BY <1>1, ZenonT(60), ZenonT(90) DEF WayIs, ThenNext
<1>2. /\ d \in Nat /\ f \in Nat /\ DOMAIN way = 1..(d + f + 1)
      /\ \A a \in 1..d : way[a] = btw[n + a]
      /\ \A a \in 1..f : way[d + a] = full[a]
      /\ way[d + f + 1] = cur
    BY <1>1a, ZenonT(60), ZenonT(90) DEF WayAre
<1>3. d - 1 = Len(btw) - (n + 1) /\ 1 \in 1..d
    BY <1>1, <1>1a, SMTT(60), Z3T(60)
<1>3a. WayAre(w, btw, n + 1, full, cur, d - 1, f)
    BY <1>1, <1>3, ZenonT(60), ZenonT(90) DEF WayIs, ThenNext
<1>4. /\ DOMAIN w = 1..((d - 1) + f + 1)
      /\ \A a \in 1..(d - 1) : w[a] = btw[(n + 1) + a]
      /\ \A a \in 1..f : w[(d - 1) + a] = full[a]
      /\ w[(d - 1) + f + 1] = cur
    BY <1>3a, ZenonT(60), ZenonT(90) DEF WayAre
<1>5. m = d + f + 1
    BY <1>1, ZenonT(60), ZenonT(90) DEF ThenNext
<1>6. m \in Nat \ {0} /\ (d - 1) + f + 1 = m - 1
    BY <1>2, <1>5, SMTT(60), Z3T(60)
<1>7. ASSUME NEW a \in 1..(m - 1) PROVE w[a] = way[a + 1]
    <2>1. CASE a <= d - 1
        <3>1. a \in 1..(d - 1) /\ a + 1 \in 1..d /\ (n + 1) + a = n + (a + 1)
            BY <1>1a, <1>2, <1>6, <2>1, SMTT(60), Z3T(60)
        <3>2. w[a] = btw[(n + 1) + a] /\ way[a + 1] = btw[n + (a + 1)]
            BY <1>2, <1>4, <3>1, ZenonT(60), ZenonT(90)
        <3>. QED BY <3>1, <3>2, ZenonT(60), ZenonT(90)
    <2>2. CASE a > d - 1 /\ a # m - 1
        <3>1. /\ a - (d - 1) \in 1..f /\ (d - 1) + (a - (d - 1)) = a
              /\ d + (a - (d - 1)) = a + 1
            BY <1>2, <1>5, <2>2, SMTT(60), Z3T(60)
        <3>2. w[(d - 1) + (a - (d - 1))] = way[d + (a - (d - 1))]
            BY <1>2, <1>4, <3>1, ZenonT(60), ZenonT(90)
        <3>. QED BY <3>1, <3>2, ZenonT(60), ZenonT(90)
    <2>3. CASE a = m - 1
        <3>1. a = (d - 1) + f + 1 /\ a + 1 = d + f + 1
            BY <1>2, <1>5, <2>3, SMTT(60), Z3T(60)
        <3>. QED BY <1>2, <1>4, <3>1, Zenon
    <2>. QED BY <1>2, <1>6, <2>1, <2>2, <2>3, SMTT(60), Z3T(60)
<1>8. way[1] = btw[n + 1]
    BY <1>2, <1>3, ZenonT(60), ZenonT(90)
<1>. QED BY <1>2, <1>4, <1>5, <1>6, <1>7, <1>8, ZenonT(60), ZenonT(90) DEF FirstGone

\* A way with nothing left to write, and the one with btw2, its full and its current
\* buffer, to be written.
ThenSwap(way, w, btw, btw2, full, cur, f, m) ==
    /\ WayAre(way, btw, 0, full, cur, 0, f) /\ WayAre(w, btw2, 0, << >>, << >>, m, 0)
    /\ f \in Nat /\ m = f + 1
    /\ btw2[m] = cur /\ \A a \in 1..f : btw2[a] = full[a]

\* The full buffers and the current one become the buffers to write, an empty one follows.
LEMMA WayOfSwap ==
    ASSUME NEW way, NEW w, NEW btw, NEW btw2, NEW full, NEW cur, NEW f, NEW m,
           ThenSwap(way, w, btw, btw2, full, cur, f, m)
    PROVE  OneAdded(way, w, m, << >>)
<1>0. /\ WayAre(way, btw, 0, full, cur, 0, f) /\ WayAre(w, btw2, 0, << >>, << >>, m, 0)
      /\ f \in Nat /\ m = f + 1
      /\ btw2[m] = cur /\ \A a \in 1..f : btw2[a] = full[a]
    BY Zenon DEF ThenSwap
<1>1. /\ DOMAIN way = 1..(0 + f + 1) /\ way[0 + f + 1] = cur
      /\ \A a \in 1..f : way[0 + a] = full[a]
      /\ DOMAIN w = 1..(m + 0 + 1) /\ w[m + 0 + 1] = << >>
      /\ \A a \in 1..m : w[a] = btw2[0 + a]
    BY <1>0, ZenonT(60), ZenonT(90) DEF WayAre
<1>2. m \in Nat \ {0} /\ 0 + f + 1 = m /\ m + 0 + 1 = m + 1 /\ \A a \in 1..m : 0 + a = a
    BY <1>0, SMTT(60), Z3T(60)
<1>3. \A a \in 1..m : a = m \/ a \in 1..f
    BY <1>0, <1>2, SMTT(60), Z3T(60)
<1>4. \A a \in 1..f : 0 + a = a
    BY <1>0, SMTT(60), Z3T(60)
<1>5. ASSUME NEW a \in 1..m PROVE w[a] = way[a]
    <2>1. w[a] = btw2[a]
        BY <1>1, <1>2, ZenonT(60), ZenonT(90)
    <2>2. CASE a = m
        BY <1>0, <1>1, <1>2, <2>1, <2>2, ZenonT(60), ZenonT(90)
    <2>3. CASE a \in 1..f
        BY <1>0, <1>1, <1>4, <2>1, <2>3, ZenonT(60), ZenonT(90)
    <2>. QED BY <1>3, <2>2, <2>3, ZenonT(60), ZenonT(90)
<1>. QED BY <1>1, <1>2, <1>5, ZenonT(60), ZenonT(90) DEF OneAdded

\* A way of m buffers with q to be written, and the one with the first two of them.
ThenTwo(way, w, btw, btw2, full, cur, q, f, m) ==
    /\ WayAre(way, btw, 0, full, cur, q, f) /\ WayAre(w, btw2, 0, full, cur, 2, f)
    /\ q \in Nat /\ f \in Nat /\ 2 <= q /\ m = q + f + 1
    /\ btw2[1] = btw[1] /\ btw2[2] = btw[2]

\* The way w is that of way without the buffers 3 to q of btw.
TwoLeft(way, w, btw, q, m) == Shrinks(way, w, m, q) /\ \A a \in 1..q : way[a] = btw[a]

\* All but the first two buffers to write are given up.
LEMMA WayOfTwo ==
    ASSUME NEW way, NEW w, NEW btw, NEW btw2, NEW full, NEW cur, NEW q, NEW f, NEW m,
           ThenTwo(way, w, btw, btw2, full, cur, q, f, m)
    PROVE  TwoLeft(way, w, btw, q, m)
<1>0. /\ WayAre(way, btw, 0, full, cur, q, f) /\ WayAre(w, btw2, 0, full, cur, 2, f)
      /\ q \in Nat /\ f \in Nat /\ 2 <= q /\ m = q + f + 1
      /\ btw2[1] = btw[1] /\ btw2[2] = btw[2]
    BY Zenon DEF ThenTwo
<1>1. /\ DOMAIN way = 1..m /\ way[m] = cur
      /\ \A a \in 1..q : way[a] = btw[0 + a]
      /\ \A a \in 1..f : way[q + a] = full[a]
      /\ DOMAIN w = 1..(2 + f + 1) /\ w[2 + f + 1] = cur
      /\ \A a \in 1..2 : w[a] = btw2[0 + a]
      /\ \A a \in 1..f : w[2 + a] = full[a]
    BY <1>0, ZenonT(60), ZenonT(90) DEF WayAre
<1>2. m - (q - 2) = 2 + f + 1 /\ (\A a \in 1..q : 0 + a = a) /\ (\A a \in 1..2 : 0 + a = a)
    BY <1>0, SMTT(60), Z3T(60)
<1>3. (\A a \in 1..q : way[a] = btw[a]) /\ \A a \in 1..2 : w[a] = btw2[a]
    BY <1>1, <1>2, ZenonT(60), ZenonT(90)
<1>4. ASSUME NEW a \in 1..(m - (q - 2))
      PROVE  w[a] = way[IF a <= 2 THEN a ELSE a + (q - 2)]
    <2>1. CASE a <= 2
        <3>1. (a = 1 \/ a = 2) /\ a \in 1..q /\ a \in 1..2
            BY <1>0, <1>2, <2>1, SMTT(60), Z3T(60)
        <3>2. w[a] = way[a]
            BY <1>0, <1>3, <3>1, ZenonT(60), ZenonT(90)
        <3>. QED BY <2>1, <3>2, ZenonT(60), ZenonT(90)
    <2>2. CASE a > 2 /\ a # 2 + f + 1
        <3>1. a - 2 \in 1..f /\ 2 + (a - 2) = a /\ q + (a - 2) = a + (q - 2) /\ ~(a <= 2)
            BY <1>0, <1>2, <2>2, SMTT(60), Z3T(60)
        <3>2. w[2 + (a - 2)] = way[q + (a - 2)]
            BY <1>1, <3>1, ZenonT(60), ZenonT(90)
        <3>. QED BY <3>1, <3>2, ZenonT(60), ZenonT(90)
    <2>3. CASE a = 2 + f + 1
        <3>1. a + (q - 2) = m /\ ~(a <= 2)
            BY <1>0, <2>3, SMTT(60), Z3T(60)
        <3>. QED BY <1>1, <2>3, <3>1, ZenonT(60), ZenonT(90)
    <2>. QED BY <1>0, <1>2, <2>1, <2>2, <2>3, SMTT(60), Z3T(60)
<1>5. q < m
    BY <1>0, SMTT(60), Z3T(60)
<1>. QED BY <1>0, <1>1, <1>2, <1>3, <1>4, <1>5, ZenonT(60), ZenonT(90) DEF Shrinks, TwoLeft
=============================================================================
