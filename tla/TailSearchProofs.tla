-------------------------- MODULE TailSearchProofs --------------------------
(***************************************************************************)
(* The search for the last lines of a file that does not change: what the  *)
(* loop of tail_lines counts, buffer by buffer, and that the place it ends *)
(* with is the start of the last lines.  Newlines are counted from the end *)
(* of the file, so the proof is about how many members of a finite set of  *)
(* positions are at or after one of them.                                  *)
(***************************************************************************)
EXTENDS TailProofs, FunctionTheorems

-----------------------------------------------------------------------------
(* Counting from the end of a set of numbers. *)

Onwards(F, k) == {j \in F : j >= k}

(* A set of numbers has fewer members from a later member on.              *)
LEMMA LaterIsLess ==
    ASSUME NEW F \in SUBSET Nat, IsFiniteSet(F), NEW k \in F, NEW l \in F, k < l
    PROVE  Cardinality({j \in F : j >= l}) < Cardinality({j \in F : j >= k})
<1> DEFINE K == {j \in F : j >= k}
           L == {j \in F : j >= l}
<1>1. K \in SUBSET F /\ L \in SUBSET F /\ k \in Nat /\ l \in Nat
  OBVIOUS
<1>2. IsFiniteSet(K) /\ IsFiniteSet(L)
  BY <1>1, FS_Subset
<1>3. L \in SUBSET K /\ k \in K /\ k \notin L
  <2>1. k >= k /\ ~(k >= l) /\ \A j \in F : j \in Nat /\ (j >= l => j >= k)
    BY <1>1
  <2> QED
    BY <2>1
<1>4. Cardinality(L) <= Cardinality(K) /\ (Cardinality(K) = Cardinality(L) => K = L)
  BY <1>2, <1>3, FS_Subset
<1>5. Cardinality(K) \in Nat /\ Cardinality(L) \in Nat
  BY <1>2, FS_CardinalityType
<1> HIDE DEF K, L
<1>6. Cardinality(K) # Cardinality(L)
  BY <1>3, <1>4
<1>7. Cardinality(L) < Cardinality(K)
  BY <1>4, <1>5, <1>6
<1> QED
  BY <1>7 DEF K, L

(* So no two members have as many members from them on.                    *)
LEMMA CountsDiffer ==
    ASSUME NEW F \in SUBSET Nat, IsFiniteSet(F), NEW k \in F, NEW l \in F,
           Cardinality({j \in F : j >= k}) = Cardinality({j \in F : j >= l})
    PROVE  k = l
<1> DEFINE K == Cardinality({j \in F : j >= k})
           L == Cardinality({j \in F : j >= l})
<1>1. k \in Nat /\ l \in Nat
  OBVIOUS
<1>2. K \in Nat /\ L \in Nat
  <2>1. {j \in F : j >= k} \in SUBSET F /\ {j \in F : j >= l} \in SUBSET F
    OBVIOUS
  <2> QED
    BY <2>1, FS_Subset, FS_CardinalityType
<1>3. k < l => L < K
  BY LaterIsLess
<1>4. l < k => K < L
  BY LaterIsLess
<1>5. K = L
  OBVIOUS
<1> HIDE DEF K, L
<1> QED
  BY <1>1, <1>2, <1>3, <1>4, <1>5

(* And there is a member for every count: as many counts as members.       *)
LEMMA CountIsMet ==
    ASSUME NEW F \in SUBSET Nat, IsFiniteSet(F), NEW c \in 1..Cardinality(F)
    PROVE  \E k \in F : Cardinality({j \in F : j >= k}) = c
<1> DEFINE n == Cardinality(F)
           count == [k \in F |-> Cardinality({j \in F : j >= k})]
<1>1. n \in Nat
  BY FS_CardinalityType
<1>2. \A k \in F : count[k] \in 1..n
  <2> TAKE k \in F
  <2> DEFINE K == {j \in F : j >= k}
  <2>1. K \in SUBSET F /\ k \in K
    OBVIOUS
  <2>2. IsFiniteSet(K) /\ Cardinality(K) <= n
    BY <2>1, FS_Subset
  <2>3. Cardinality(K) \in Nat /\ Cardinality(K) # 0
    BY <2>1, <2>2, FS_CardinalityType, FS_EmptySet
  <2>4. count[k] = Cardinality(K)
    OBVIOUS
  <2> HIDE DEF K, n, count
  <2> QED
    BY <1>1, <2>2, <2>3, <2>4
<1>3. \A k, l \in F : count[k] = count[l] => k = l
  BY CountsDiffer
<1>4. count \in Injection(F, 1..n)
  <2>1. count \in [F -> 1..n]
    BY <1>2
  <2> HIDE DEF count
  <2> QED
    BY <1>3, <2>1, Fun_IsInj
<1>5. IsFiniteSet(1..n) /\ Cardinality(1..n) = n
  <2>1. 1 \in Int /\ n \in Int
    BY <1>1
  <2>2. IsFiniteSet(1..n) /\ Cardinality(1..n) = IF 1 > n THEN 0 ELSE (n - 1) + 1
    BY <2>1, FS_Interval
  <2> HIDE DEF n
  <2> QED
    BY <1>1, <2>2
<1>6. count \in Surjection(F, 1..n)
  <2> HIDE DEF count
  <2> QED
    BY <1>4, <1>5, FS_Injection DEF n
<1>7. \E k \in F : count[k] = c
  <2>1. c \in 1..n
    OBVIOUS
  <2> HIDE DEF count, n
  <2>2. \A i \in 1..n : \E k \in F : count[k] = i
    BY <1>6, Fun_SurjectionProperties
  <2> QED
    BY <2>1, <2>2
<1> QED
  BY <1>7

-----------------------------------------------------------------------------
(* The newlines of a file and of a piece of it. *)

LEMMA NewlinesFinite ==
    ASSUME NEW s \in Seq(Byte)
    PROVE  /\ Len(s) \in Nat /\ Newlines(s) \subseteq 1..Len(s)
           /\ Newlines(s) \in SUBSET Nat
           /\ IsFiniteSet(Newlines(s)) /\ Cardinality(Newlines(s)) \in Nat
<1>1. Len(s) \in Nat
  BY LenProperties
<1>2. Newlines(s) \in SUBSET (1..Len(s))
  BY LenProperties DEF Newlines
<1>3. IsFiniteSet(1..Len(s))
  BY <1>1, FS_Interval
<1>4. IsFiniteSet(Newlines(s))
  BY <1>2, <1>3, FS_Subset
<1> QED
  BY <1>1, <1>2, <1>4, FS_CardinalityType

LEMMA PartFinite ==
    ASSUME NEW s \in Seq(Byte), NEW p \in Int, NEW q \in Int
    PROVE  /\ IsFiniteSet(NewlinesIn(s, p, q))
           /\ Cardinality(NewlinesIn(s, p, q)) \in Nat
<1>1. NewlinesIn(s, p, q) \in SUBSET Newlines(s)
  BY DEF NewlinesIn
<1> QED
  BY <1>1, NewlinesFinite, FS_Subset, FS_CardinalityType

(* The newlines of two adjacent parts are those of both together.          *)
LEMMA PartsAdd ==
    ASSUME NEW s \in Seq(Byte), NEW p \in Int, NEW m \in Int, NEW q \in Int,
           p <= m + 1, m <= q
    PROVE  Cardinality(NewlinesIn(s, p, m)) + Cardinality(NewlinesIn(s, m + 1, q))
             = Cardinality(NewlinesIn(s, p, q))
<1> DEFINE A == NewlinesIn(s, p, m)
           B == NewlinesIn(s, m + 1, q)
<1>1. Newlines(s) \in SUBSET Nat
  BY NewlinesFinite
<1>2. A \cup B = NewlinesIn(s, p, q) /\ A \cap B = {}
  BY <1>1 DEF NewlinesIn
<1>3. /\ IsFiniteSet(A) /\ Cardinality(A) \in Nat
      /\ IsFiniteSet(B) /\ Cardinality(B) \in Nat
  BY PartFinite
<1>4. Cardinality({}) = 0
  BY FS_EmptySet
<1> HIDE DEF A, B
<1>5. Cardinality(A \cup B) = Cardinality(A) + Cardinality(B) - Cardinality(A \cap B)
  BY <1>3, FS_Union
<1>6. Cardinality(A \cap B) = 0
  BY <1>2, <1>4
<1>7. Cardinality(A \cup B) = Cardinality(A) + Cardinality(B)
  BY <1>3, <1>5, <1>6
<1>8. Cardinality(NewlinesIn(s, p, q)) = Cardinality(A) + Cardinality(B)
  BY <1>2, <1>7
<1> QED
  BY <1>8 DEF A, B

(* b is the bytes of s after the first o and up to e. *)
Piece(b, s, o, e) ==
    /\ s \in Seq(Byte) /\ o \in Nat /\ e \in Nat /\ o <= e /\ e <= Len(s)
    /\ b = SubSeq(s, o + 1, e)

(* A piece of s has a newline wherever s has one. *)
LEMMA PieceIs ==
    ASSUME NEW b, NEW s, NEW o, NEW e, Piece(b, s, o, e)
    PROVE  /\ b \in Seq(Byte) /\ Len(b) = e - o
           /\ \A k \in 1..(e - o) : k \in Newlines(b) <=> o + k \in Newlines(s)
           /\ Newlines(b) \subseteq 1..(e - o) /\ Newlines(s) \subseteq 1..Len(s)
<1> USE DEF Piece
<1>1. Len(s) \in Nat /\ DOMAIN s = 1..Len(s)
  BY LenProperties
<1>2. b \in Seq(Byte) /\ Len(b) = e - o /\ \A i \in 1..(e - o) : b[i] = s[o + i]
  <2>1. CASE o = e
    <3>1. b = << >>
      BY <1>1, <2>1, SubSeqEmpty
    <3> QED
      BY <2>1, <3>1
  <2>2. CASE o < e
    <3>1. o + 1 \in 1..Len(s) /\ e \in 1..Len(s) /\ o + 1 \in Nat /\ o + 1 <= e
      BY <1>1, <2>2
    <3>2. \A i \in (o + 1)..e : s[i] \in Byte
      BY <1>1, <3>1, ElementOfSeq
    <3>3. /\ SubSeq(s, o + 1, e) \in Seq(Byte)
          /\ Len(SubSeq(s, o + 1, e)) = (e - (o + 1)) + 1
          /\ \A i \in 1..((e - (o + 1)) + 1) :
               SubSeq(s, o + 1, e)[i] = s[((o + 1) + i) - 1]
      BY <3>1, <3>2, SubSeqProperties
    <3>4. (e - (o + 1)) + 1 = e - o /\ \A i \in 1..(e - o) : ((o + 1) + i) - 1 = o + i
      OBVIOUS
    <3> QED
      BY <3>3, <3>4
  <2> QED
    BY <2>1, <2>2
<1>3. DOMAIN b = 1..(e - o)
  BY <1>2, LenProperties
<1>4. \A k \in 1..(e - o) : k \in Newlines(b) <=> o + k \in Newlines(s)
  BY <1>1, <1>2, <1>3 DEF Newlines
<1>5. Newlines(b) \subseteq 1..(e - o) /\ Newlines(s) \subseteq 1..Len(s)
  BY <1>1, <1>3 DEF Newlines
<1> QED
  BY <1>2, <1>4, <1>5

(* The newlines of a piece of s, from its place k on, are the newlines of  *)
(* s between the two ends.                                                 *)
LEMMA PieceOnwards ==
    ASSUME NEW b, NEW s, NEW o, NEW e, Piece(b, s, o, e), NEW k \in Nat, k > 0
    PROVE  Cardinality(Onwards(Newlines(b), k)) = Cardinality(NewlinesIn(s, o + k, e))
<1> DEFINE S == NewlinesIn(s, o + k, e)
           T == Onwards(Newlines(b), k)
           f == [j \in S |-> j - o]
<1>a. s \in Seq(Byte) /\ o \in Nat /\ e \in Nat /\ o <= e /\ e <= Len(s)
  BY DEF Piece
<1>b. /\ \A i \in 1..(e - o) : i \in Newlines(b) <=> o + i \in Newlines(s)
      /\ Newlines(b) \subseteq 1..(e - o) /\ Newlines(s) \subseteq 1..Len(s)
  BY PieceIs
<1>c. Len(s) \in Nat
  BY <1>a, LenProperties
<1>1. \A j \in S : j \in Nat /\ j - o \in T
  BY <1>a, <1>b, <1>c DEF NewlinesIn, Onwards
<1>2. \A j \in T : o + j \in S /\ f[o + j] = j
  BY <1>a, <1>b, <1>c DEF NewlinesIn, Onwards
<1>3. f \in [S -> T]
  BY <1>1
<1>4. \A i, j \in S : f[i] = f[j] => i = j
  BY <1>a, <1>1
<1>5. \A j \in T : \E i \in S : f[i] = j
  BY <1>2
<1>6. IsFiniteSet(S)
  BY <1>a, PartFinite
<1> HIDE DEF S, T, f
<1>7. f \in Bijection(S, T)
  BY <1>3, <1>4, <1>5, Fun_IsBij
<1>8. ExistsBijection(S, T)
  BY <1>7, Fun_ExistsBij
<1>9. Cardinality(T) = Cardinality(S)
  BY <1>6, <1>8, FS_Bijection
<1> QED
  BY <1>9 DEF S, T

LEMMA PieceCount ==
    ASSUME NEW b, NEW s, NEW o, NEW e, Piece(b, s, o, e)
    PROVE  Cardinality(Newlines(b)) = Cardinality(NewlinesIn(s, o + 1, e))
<1>1. Newlines(b) \subseteq 1..(e - o)
  BY PieceIs
<1>2. Onwards(Newlines(b), 1) = Newlines(b)
  BY <1>1 DEF Onwards
<1>3. 1 \in Nat /\ 1 > 0
  OBVIOUS
<1> QED
  BY <1>2, <1>3, PieceOnwards

(* A whole number of buffers before the end of a longer file, the last     *)
(* place that is less than a buffer is the start of the whole buffers.     *)
LEMMA WholeCount ==
    ASSUME NEW s \in Seq(Byte), Len(s) > BufSize, NEW o \in Nat, o < BufSize,
           NEW q \in Nat, Len(s) = o + BufSize * q
    PROVE  Cardinality(Newlines(WholeBuffers(s))) = Cardinality(NewlinesIn(s, o + 1, Len(s)))
<1>1. BufSize \in Nat \ {0} /\ Len(s) \in Nat
  BY TailAssumption, LenProperties
<1>2. Len(s) % BufSize = o
  <2> DEFINE B == BufSize
             n == Len(s)
  <2>1. B \in Nat \ {0} /\ n \in Nat /\ n = B * q + o /\ o \in 0..(B - 1)
    BY <1>1
  <2> HIDE DEF B, n
  <2>2. (B * q + o) % B = o
    BY <2>1
  <2>3. n % B = o
    BY <2>1, <2>2
  <2> QED
    BY <2>3 DEF B, n
<1>3. WholeBuffers(s) = SubSeq(s, o + 1, Len(s))
  BY <1>1, <1>2 DEF WholeBuffers
<1>4. o <= Len(s) /\ Len(s) <= Len(s)
  BY <1>1
<1> DEFINE w == WholeBuffers(s)
           n == Len(s)
<1>5. n \in Nat /\ o <= n /\ n <= Len(s) /\ w = SubSeq(s, o + 1, n)
  BY <1>1, <1>3, <1>4
<1> HIDE DEF w, n
<1>6. Piece(w, s, o, n)
  BY <1>5 DEF Piece
<1>7. Cardinality(Newlines(w)) = Cardinality(NewlinesIn(s, o + 1, n))
  BY <1>6, PieceCount
<1> QED
  BY <1>7 DEF w, n

-----------------------------------------------------------------------------
(* The place the search ends with is the start of the last lines. *)

(* The line starts of s are 0 and its newlines but a final one.            *)
LEMMA StartsOfLines ==
    ASSUME NEW s \in Seq(Byte), s # << >>
    PROVE  /\ Len(s) \in Nat \ {0}
           /\ LineStarts(s) = {0} \cup (Newlines(s) \ {Len(s)})
           /\ Unterminated(s) <=> Len(s) \notin Newlines(s)
           /\ LineStarts(s) \in SUBSET Nat /\ IsFiniteSet(LineStarts(s))
           /\ Cardinality(LineStarts(s)) = Cardinality(Newlines(s) \ {Len(s)}) + 1
           /\ Cardinality(LineStarts(s)) \in Nat
<1>1. Len(s) \in Nat /\ DOMAIN s = 1..Len(s) /\ Len(s) # 0
  BY LenProperties, EmptySeq
<1>2. Newlines(s) \in SUBSET (1..Len(s)) /\ IsFiniteSet(Newlines(s))
  BY NewlinesFinite
<1>3. LineStarts(s) = {0} \cup (Newlines(s) \ {Len(s)})
  BY <1>1 DEF LineStarts, Newlines
<1>4. Unterminated(s) <=> Len(s) \notin Newlines(s)
  BY <1>1 DEF Unterminated, Newlines
<1>5. IsFiniteSet(Newlines(s) \ {Len(s)}) /\ Cardinality(Newlines(s) \ {Len(s)}) \in Nat
  BY <1>2, FS_RemoveElement, FS_CardinalityType
<1>6. 0 \notin Newlines(s) \ {Len(s)}
  BY <1>2
<1>7. LineStarts(s) = (Newlines(s) \ {Len(s)}) \cup {0}
  BY <1>3
<1>8. /\ IsFiniteSet(LineStarts(s))
      /\ Cardinality(LineStarts(s)) = Cardinality(Newlines(s) \ {Len(s)}) + 1
  <2> DEFINE M == Newlines(s) \ {Len(s)}
  <2>1. /\ IsFiniteSet(M \cup {0})
        /\ Cardinality(M \cup {0}) = IF 0 \in M THEN Cardinality(M) ELSE Cardinality(M) + 1
    BY <1>5, FS_AddElement
  <2> HIDE DEF M
  <2>2. 0 \notin M /\ LineStarts(s) = M \cup {0}
    BY <1>6, <1>7 DEF M
  <2>3. IsFiniteSet(LineStarts(s)) /\ Cardinality(LineStarts(s)) = Cardinality(M) + 1
    BY <2>1, <2>2
  <2> QED
    BY <2>3 DEF M
<1>9. LineStarts(s) \in SUBSET Nat
  BY <1>1, <1>2, <1>3
<1> QED
  BY <1>1, <1>3, <1>4, <1>5, <1>8, <1>9

(* The start of the last k lines is the only line start with k from it on. *)
LEMMA LastLinesIs ==
    ASSUME NEW s \in Seq(Byte), s # << >>, NEW k \in Nat \ {0}, NEW x \in LineStarts(s),
           x # 0, Cardinality({i \in LineStarts(s) : i >= x}) = k
    PROVE  LastLines(s, k) = x
<1> DEFINE L == LineStarts(s)
           X == {i \in L : i >= x}
<1>1. L \in SUBSET Nat /\ IsFiniteSet(L) /\ 0 \in L /\ x \in Nat /\ Cardinality(L) \in Nat
  BY StartsOfLines
<1>2. X \in SUBSET L /\ 0 \notin X
  BY <1>1
<1>3. Cardinality(X) <= Cardinality(L) /\ (Cardinality(L) = Cardinality(X) => L = X)
  BY <1>1, <1>2, FS_Subset
<1>4. Cardinality(L) # k /\ k <= Cardinality(L)
  BY <1>1, <1>2, <1>3
<1>5. ~(Cardinality(L) <= k)
  BY <1>1, <1>4
<1>6. LastLines(s, k) = CHOOSE j \in L : Cardinality({i \in L : i >= j}) = k
  BY <1>5 DEF LastLines
<1>7. \A j \in L : Cardinality({i \in L : i >= j}) = k => j = x
  BY <1>1, CountsDiffer
<1> QED
  BY <1>6, <1>7

LEMMA PlaceIsRight ==
    ASSUME NEW s \in Seq(Byte), NEW n \in Nat, NEW x, PlaceRight(s, n, x),
           \/ Len(s) <= BufSize
           \/ n < Cardinality(Newlines(WholeBuffers(s)))
           \/ n = 0
    PROVE  x = LastLines(s, LinesShown(s, n))
<1> DEFINE N == Newlines(s)
<1>1. Len(s) \in Nat /\ N \in SUBSET (1..Len(s)) /\ IsFiniteSet(N) /\ Cardinality(N) \in Nat
  BY NewlinesFinite
<1>2. CASE n = 0
  BY <1>2 DEF PlaceRight, LinesShown, LastLines
<1>3. CASE n # 0 /\ x \in N /\ Cardinality(NewlinesIn(s, x, Len(s))) = n + 1
  <2> DEFINE M == NewlinesIn(s, x, Len(s))
             X == {i \in LineStarts(s) : i >= x}
  <2>1. s # << >> /\ x \in 1..Len(s) /\ x \in Nat
    BY <1>1, <1>3, EmptySeq
  <2>2. /\ LineStarts(s) = {0} \cup (N \ {Len(s)})
        /\ Unterminated(s) <=> Len(s) \notin N
    BY <2>1, StartsOfLines
  <2>3. IsFiniteSet(M)
    BY <1>1, <2>1, PartFinite
  <2>4. x # Len(s)
    <3>1. CASE x = Len(s)
      <4>1. M = {x}
        BY <1>1, <1>3, <2>1, <3>1 DEF NewlinesIn
      <4>2. Cardinality(M) = 1
        BY <4>1, FS_Singleton
      <4> QED
        BY <1>3, <4>2
    <3> QED
      BY <3>1
  <2>5. x \in LineStarts(s) /\ x # 0
    BY <1>3, <2>1, <2>2, <2>4
  <2>6. X = M \ {Len(s)}
    BY <1>1, <2>1, <2>2 DEF NewlinesIn
  <2>7. Len(s) \in M <=> Len(s) \in N
    BY <1>1, <2>1 DEF NewlinesIn
  <2>8. Cardinality(X) = IF Len(s) \in N THEN n ELSE n + 1
    <3>1. Cardinality(M \ {Len(s)})
            = IF Len(s) \in M THEN Cardinality(M) - 1 ELSE Cardinality(M)
      BY <2>3, FS_RemoveElement
    <3> HIDE DEF M, X, N
    <3>2. Cardinality(M) = n + 1
      BY <1>3 DEF M
    <3> QED
      BY <2>6, <2>7, <3>1, <3>2
  <2>9. Cardinality(X) = LinesShown(s, n) /\ LinesShown(s, n) \in Nat \ {0}
    BY <1>3, <2>2, <2>8 DEF LinesShown
  <2> QED
    BY <2>1, <2>5, <2>9, LastLinesIs
<1>4. CASE n # 0 /\ Cardinality(Newlines(WholeBuffers(s))) <= n /\ (Len(s) <= BufSize => x = 0)
  <2>1. Len(s) <= BufSize
    <3>1. CASE ~(Len(s) <= BufSize)
      <4> DEFINE w == WholeBuffers(s)
                 c == Cardinality(Newlines(w))
      <4>1. BufSize \in Nat \ {0} /\ Len(s) > BufSize
        BY <1>1, <3>1, TailAssumption
      <4>2. Len(s) % BufSize \in 0..(BufSize - 1)
        BY <1>1, <4>1
      <4>3. Len(s) % BufSize \in Nat /\ Len(s) % BufSize <= Len(s)
        BY <1>1, <4>1, <4>2
      <4>4. w = SubSeq(s, (Len(s) % BufSize) + 1, Len(s))
        BY <3>1 DEF WholeBuffers
      <4>5. Len(s) <= Len(s)
        BY <1>1
      <4>6. w \in Seq(Byte)
        BY <1>1, <4>3, <4>4, <4>5
      <4>7. c \in Nat
        BY <4>6, NewlinesFinite
      <4>8. c <= n /\ n < c
        BY <1>4, <3>1
      <4> HIDE DEF c
      <4> QED
        BY <4>7, <4>8
    <3> QED
      BY <3>1
  <2>2. x = 0 /\ Cardinality(N) <= n
    BY <1>4, <2>1 DEF WholeBuffers
  <2>3. LinesShown(s, n) # 0 /\ LinesShown(s, n) \in Nat
    BY <1>4 DEF LinesShown
  <2>4. Cardinality(LineStarts(s)) <= LinesShown(s, n)
    <3>1. CASE s = << >>
      <4>1. Len(s) = 0
        BY <3>1
      <4>2. LineStarts(s) = {}
        BY <4>1 DEF LineStarts
      <4>3. Cardinality(LineStarts(s)) = 0
        BY <4>2, FS_EmptySet
      <4> QED
        BY <2>3, <4>3
    <3>2. CASE s # << >>
      <4> DEFINE l == Len(s)
                 L == Cardinality(LineStarts(s))
      <4>1. /\ L = Cardinality(N \ {l}) + 1
            /\ Unterminated(s) <=> l \notin N
        BY <3>2, StartsOfLines
      <4>2. Cardinality(N \ {l}) = IF l \in N THEN Cardinality(N) - 1 ELSE Cardinality(N)
        BY <1>1, FS_RemoveElement
      <4>3. LinesShown(s, n) = IF l \in N THEN n ELSE n + 1
        BY <1>4, <4>1 DEF LinesShown
      <4> HIDE DEF l, L, N
      <4>4. Cardinality(N) \in Nat
        BY <1>1 DEF N
      <4>5. L <= LinesShown(s, n)
        BY <2>2, <4>1, <4>2, <4>3, <4>4
      <4> QED
        BY <4>5 DEF L
    <3> QED
      BY <3>1, <3>2
  <2>5. LastLines(s, LinesShown(s, n)) = 0
    BY <2>3, <2>4 DEF LastLines
  <2> QED
    BY <2>2, <2>5
<1> QED
  BY <1>2, <1>3, <1>4 DEF PlaceRight

-----------------------------------------------------------------------------
(* One buffer of the search. *)

(* A buffer without the newline looked for leaves no more newlines counted *)
(* than lines asked for: a set that had more would have it.                *)
LEMMA NoHit ==
    ASSUME NEW b \in Seq(Byte), proc.newlines \in Nat, proc.number \in Nat,
           proc.newlines <= proc.number, Hit(b) = {}
    PROVE  Counted(b) \in Nat /\ Counted(b) <= proc.number
<1> DEFINE F == Newlines(b)
           n == Cardinality(F)
           c == (proc.number + 1) - proc.newlines
<1>1. F \in SUBSET Nat /\ IsFiniteSet(F) /\ n \in Nat
  BY NewlinesFinite
<1>2. Counted(b) = proc.newlines + n
  BY DEF Counted
<1>3. CASE c <= n
  <2>1. c \in 1..n
    <3> HIDE DEF n
    <3> QED
      BY <1>1, <1>3
  <2>2. PICK k \in F : Cardinality({j \in F : j >= k}) = c
    BY <1>1, <2>1, CountIsMet
  <2>3. proc.newlines + c = proc.number + 1
    OBVIOUS
  <2>4. k \in Hit(b)
    <3> HIDE DEF c
    <3> QED
      BY <2>2, <2>3 DEF Hit
  <2> QED
    BY <2>4
<1>4. CASE ~(c <= n)
  <2> HIDE DEF n
  <2> QED
    BY <1>1, <1>2, <1>4
<1> QED
  BY <1>3, <1>4

(* A buffer read from o of s, the newlines after it counted: with its own  *)
(* all from o on are, and a hit is a newline of s with number after it.    *)
LEMMA BufferCounts ==
    ASSUME NEW b, NEW s, NEW o, NEW e, Piece(b, s, o, e), proc.number \in Nat
    PROVE  proc.newlines = Cardinality(NewlinesIn(s, e + 1, Len(s))) =>
           /\ Counted(b) = Cardinality(NewlinesIn(s, o + 1, Len(s)))
           /\ \A k \in Hit(b) :
                /\ o + k \in Newlines(s)
                /\ Cardinality(NewlinesIn(s, o + k, Len(s))) = proc.number + 1
<1>2. /\ b \in Seq(Byte) /\ Len(b) = e - o
      /\ \A k \in 1..(e - o) : k \in Newlines(b) <=> o + k \in Newlines(s)
      /\ Newlines(b) \subseteq 1..(e - o)
  BY PieceIs
<1>a. Cardinality(Newlines(b)) = Cardinality(NewlinesIn(s, o + 1, e))
  BY PieceCount
<1>b. /\ s \in Seq(Byte) /\ o \in Nat /\ e \in Nat /\ o <= e /\ e <= Len(s)
  BY DEF Piece
<1> HAVE proc.newlines = Cardinality(NewlinesIn(s, e + 1, Len(s)))
<1> DEFINE n == Len(s)
           after == Cardinality(NewlinesIn(s, e + 1, n))
<1>1. n \in Nat /\ e <= n
  BY <1>b, LenProperties
<1>3. after \in Nat
  BY <1>1, <1>b, PartFinite
<1>4. ASSUME NEW p \in Int, p <= e + 1
      PROVE  /\ Cardinality(NewlinesIn(s, p, e)) \in Nat
             /\ Cardinality(NewlinesIn(s, p, e)) + after = Cardinality(NewlinesIn(s, p, n))
  <2>1. e \in Int /\ n \in Int /\ s \in Seq(Byte)
    BY <1>1, <1>b
  <2>2. Cardinality(NewlinesIn(s, p, e)) \in Nat
    BY <2>1, PartFinite
  <2> HIDE DEF n
  <2>3. Cardinality(NewlinesIn(s, p, e)) + after = Cardinality(NewlinesIn(s, p, n))
    BY <1>1, <1>4, <2>1, PartsAdd
  <2> QED
    BY <2>2, <2>3
<1>5. Counted(b) = Cardinality(NewlinesIn(s, o + 1, n))
  <2>1. o + 1 \in Int /\ o + 1 <= e + 1
    BY <1>b
  <2>2. Cardinality(NewlinesIn(s, o + 1, e)) \in Nat
    BY <1>4, <2>1
  <2>3. Counted(b) = after + Cardinality(NewlinesIn(s, o + 1, e))
    BY <1>a DEF Counted
  <2>4. Cardinality(NewlinesIn(s, o + 1, e)) + after = Cardinality(NewlinesIn(s, o + 1, n))
    BY <1>4, <2>1
  <2> HIDE DEF after
  <2> QED
    BY <1>3, <2>2, <2>3, <2>4
<1>6. ASSUME NEW k \in Hit(b)
      PROVE  /\ o + k \in Newlines(s)
             /\ Cardinality(NewlinesIn(s, o + k, n)) = proc.number + 1
  <2> DEFINE c == Cardinality({j \in Newlines(b) : j >= k})
  <2>1. k \in Newlines(b) /\ proc.newlines + c = proc.number + 1
    BY DEF Hit
  <2>2. k \in 1..(e - o)
    BY <1>2, <2>1
  <2>3. k \in Nat /\ k > 0 /\ o + k \in Int /\ o + k <= e + 1
    BY <1>b, <2>2
  <2>4. c = Cardinality(NewlinesIn(s, o + k, e))
    BY <2>3, PieceOnwards DEF Onwards
  <2>5. c \in Nat /\ c + after = Cardinality(NewlinesIn(s, o + k, n))
    BY <1>4, <2>3, <2>4
  <2>6. o + k \in Newlines(s)
    BY <1>2, <2>1, <2>2
  <2>7. Cardinality(NewlinesIn(s, o + k, n)) = proc.number + 1
    <3>1. proc.newlines = after
      OBVIOUS
    <3> HIDE DEF c, after
    <3> QED
      BY <1>3, <2>1, <2>5, <3>1
  <2> QED
    BY <2>6, <2>7
<1> QED
  BY <1>5, <1>6

-----------------------------------------------------------------------------
(* The steps. *)

(* A file that is what stat has seen was so before the step: the others    *)
(* only make a file longer that only grows.                                *)
LEMMA NotChangedBefore ==
    ASSUME TailInvariant, [Next]_vars, NotChanged', proc'.size = proc.size
    PROVE  NotChanged /\ data'["old"] = data["old"]
<1>0. proc \in Locals /\ data \in [Inode -> Seq(Byte)] /\ Len(data["old"]) \in Nat
  BY LenProperties DEF TailInvariant, TypeOK, Inode
<1>1. CASE UNCHANGED <<data, grown>>
  BY <1>1 DEF NotChanged
<1>2. CASE AppendByte
  <2>1. grown /\ dir \in Inode
    BY <1>2 DEF AppendByte, Change, NotChanged, TailInvariant, TypeOK
  <2>2. dir = "old" /\ proc.size <= Len(data["old"]) /\ proc.size \in Nat
    BY <1>0, <2>1, TailAssumption DEF TailInvariant, PositionsInFile, Locals
  <2>3. PICK b \in Byte : data' = [data EXCEPT ![dir] = Append(@, b)]
    BY <1>2 DEF AppendByte
  <2>4. data'["old"] = Append(data["old"], b) /\ data["old"] \in Seq(Byte)
    BY <1>0, <2>2, <2>3 DEF Inode
  <2>5. Len(data'["old"]) = Len(data["old"]) + 1
    BY <2>4, AppendProperties
  <2>6. Len(data'["old"]) = proc.size
    BY DEF NotChanged
  <2> QED
    BY <1>0, <2>2, <2>5, <2>6
<1>3. CASE TruncateTo \/ Replace \/ Remove
  BY <1>3 DEF TruncateTo, Replace, Remove, Change, NotChanged
<1>4. TailStep => UNCHANGED <<data, grown>>
  BY DEF TailStep, ParseOptions, Stat, Open, TailBytes, TailLines, SearchBuffer,
         SearchRest, Finished, GlusterRead, While, Poll, Out, SeekAndCopy, Found,
         Fails, Goes, Local
<1>5. Interrupt \/ UNCHANGED vars => UNCHANGED <<data, grown>>
  BY DEF Interrupt, vars
<1> QED
  BY <1>1, <1>2, <1>3, <1>4, <1>5 DEF Next, OthersStep, Rest

(* A step to a place where nothing has been chosen and no search is on. *)
LEMMA ElsewhereKeeps ==
    ASSUME SearchInvariant, proc'.start = None,
           proc'.pc \notin {"search", "search_rest", "finished"},
           proc'.pc \in {"parse", "stat", "open", "tail_lines"} => proc'.newlines = 0
    PROVE  SearchInvariant'
BY DEF SearchInvariant, At, Placed, ShownAll

(* A step after the choice, which stays: what is left to see is that the   *)
(* copy ends at the end.                                                   *)
LEMMA ChosenStays ==
    ASSUME TailInvariant, SearchInvariant, [Next]_vars, proc.start # None,
           proc'.pc \in {"copy", "while", "poll", "out", "done", "killed"},
           proc'.start = proc.start, proc'.mode = proc.mode, proc'.number = proc.number,
           grown => proc'.size = proc.size,
           NotChanged /\ ~failed' /\ proc'.pc \in {"while", "poll", "out", "done"}
             => proc'.pos = Len(data["old"])
    PROVE  SearchInvariant'
<1>1. NotChanged' => NotChanged /\ data'["old"] = data["old"]
  <2>1. NotChanged' => grown
    BY DEF NotChanged, Next, TailStep, ParseOptions, Stat, Open, TailBytes, TailLines,
       SearchBuffer, SearchRest, Finished, GlusterRead, While, Poll, Out, SeekAndCopy,
       Found, Fails, Goes, Local, Interrupt, OthersStep, AppendByte, TruncateTo, Replace,
       Remove, Change, Rest, vars
  <2> QED
    BY <2>1, NotChangedBefore
<1> QED
  BY <1>1 DEF SearchInvariant, At, Placed, ShownAll

LEMMA BeforeSearchKeeps ==
    ASSUME TailInvariant, SearchInvariant, ParseOptions \/ Stat \/ Open
    PROVE  SearchInvariant'
<1>0. /\ proc \in Locals /\ proc.start = None /\ proc.newlines = 0
      /\ proc.pc \in {"parse", "stat", "open"}
  BY DEF TailInvariant, TypeOK, StepsMatch, SearchInvariant, At, ParseOptions, Stat, Open
<1>1. CASE ParseOptions
  <2>1. /\ proc'.pc \in {"stat", "done"} /\ proc'.newlines = proc.newlines
        /\ proc'.start = proc.start
    BY <1>0, <1>1 DEF ParseOptions, Goes, At, Locals
  <2> QED
    BY <1>0, <2>1, ElsewhereKeeps
<1>2. CASE Stat
  <2>1. /\ proc'.pc \in {"out", "open"} /\ proc'.newlines = proc.newlines
        /\ proc'.start = proc.start
    BY <1>0, <1>2 DEF Stat, Goes, Fails, Err, At, Locals
  <2> QED
    BY <1>0, <2>1, ElsewhereKeeps
<1>3. CASE Open
  <2>1. /\ proc'.pc \in {"out", "tail_bytes", "tail_lines"}
        /\ proc'.newlines = proc.newlines /\ proc'.start = proc.start
    BY <1>0, <1>3 DEF Open, Goes, Fails, Err, At, Locals
  <2> QED
    BY <1>0, <2>1, ElsewhereKeeps
<1> QED
  BY <1>1, <1>2, <1>3

(* goto err before anything has been chosen. *)
LEMMA ErrSearches ==
    ASSUME TailInvariant, SearchInvariant, NEW f, NEW o,
           \/ Fails(f, Err) \/ Goes(Err) \/ Goes([Err EXCEPT !.offset = o]),
           proc.pc \in {"tail_bytes", "search", "search_rest", "finished"}
    PROVE  SearchInvariant'
<1>1. proc \in Locals /\ proc.start = None
  BY DEF TailInvariant, TypeOK, StepsMatch
<1>2. proc'.pc = "out" /\ proc'.start = None
  BY <1>1 DEF Fails, Goes, Err, Locals
<1> QED
  BY <1>2, ElsewhereKeeps

(* What the copy starts from is what tail_bytes or the search has chosen.  *)
LEMMA SeekSearches ==
    ASSUME TailInvariant, SearchInvariant, [Next]_vars, TailBytes \/ Finished
    PROVE  SearchInvariant'
<1> DEFINE o == IF proc.pc = "finished" THEN proc.offset
                ELSE Greater(proc.size - proc.number, 0)
<1>0. /\ proc \in Locals /\ proc.pc \in {"tail_bytes", "finished"} /\ SeekAndCopy(o)
      /\ proc.pc = "tail_bytes" => proc.mode = "BYTES"
      /\ proc.pc = "finished" => proc.mode = "LINES"
  BY DEF TailInvariant, TypeOK, StepsMatch, TailBytes, Finished, At
<1> HIDE DEF o
<1>1. CASE Fails("seek", Err) \/ Goes([Err EXCEPT !.offset = o])
  BY <1>0, <1>1, ErrSearches
<1>2. CASE Goes([proc EXCEPT !.pc = "copy", !.offset = o, !.pos = o, !.start = o, !.io = 0])
  <2>1. /\ proc'.pc = "copy" /\ proc'.number = proc.number /\ proc'.size = proc.size
        /\ proc'.start = o /\ proc'.mode = proc.mode
    BY <1>0, <1>2 DEF Goes, Locals
  <2>2. NotChanged' => NotChanged /\ data'["old"] = data["old"]
    BY <2>1, NotChangedBefore
  <2>3. ASSUME Placed' PROVE PlaceRight(data'["old"], proc'.number, proc'.start)
    <3>1. proc.pc = "finished" /\ NotChanged /\ data'["old"] = data["old"]
      BY <1>0, <2>1, <2>2, <2>3 DEF Placed
    <3>2. PlaceRight(data["old"], proc.number, o)
      BY <3>1 DEF SearchInvariant, At, o
    <3> QED
      BY <2>1, <3>1, <3>2
  <2>4. ASSUME proc'.mode = "BYTES", NotChanged'
        PROVE  proc'.start = Greater(Len(data'["old"]) - proc'.number, 0)
    BY <1>0, <2>1, <2>2, <2>4 DEF NotChanged, o
  <2> QED
    BY <2>1, <2>3, <2>4 DEF SearchInvariant, At, ShownAll
<1> QED
  BY <1>0, <1>1, <1>2 DEF SeekAndCopy

(* The step back beyond which the loop goes on, and what it starts with. *)
LEMMA TailLinesSearches ==
    ASSUME TailInvariant, SearchInvariant, TailLines, [Next]_vars
    PROVE  SearchInvariant'
<1> DEFINE s == data["old"]
           n == Len(s)
<1>0. /\ proc \in Locals /\ proc.pc = "tail_lines" /\ proc.newlines = 0
      /\ proc.number \in Nat /\ proc.size \in Nat /\ proc.start = None
  BY DEF TailInvariant, TypeOK, StepsMatch, Locals, SearchInvariant, At, TailLines
<1>a. s \in Seq(Byte) /\ n \in Nat
  BY LenProperties DEF TailInvariant, TypeOK, Inode
<1>1. CASE proc.number = 0
  <2>1. proc' = [proc EXCEPT !.pc = "finished", !.offset = proc.size]
    BY <1>1 DEF TailLines, Goes
  <2>2. /\ proc'.pc = "finished" /\ proc'.offset = proc.size /\ proc'.number = 0
        /\ proc'.size = proc.size /\ proc'.start = None
    BY <1>0, <1>1, <2>1 DEF Locals
  <2>3. NotChanged' => NotChanged /\ data'["old"] = s
    BY <2>2, NotChangedBefore
  <2>4. NotChanged' => PlaceRight(data'["old"], 0, proc'.offset)
    BY <2>2, <2>3 DEF PlaceRight, NotChanged
  <2> QED
    BY <2>2, <2>4 DEF SearchInvariant, At, Placed, ShownAll
<1>2. CASE proc.number # 0
  <2>1. proc' = [proc EXCEPT !.pc = "search", !.offset = StartOffset]
    BY <1>2 DEF TailLines, Goes
  <2>2. /\ proc'.pc = "search" /\ proc'.offset = StartOffset /\ proc'.number = proc.number
        /\ proc'.size = proc.size /\ proc'.newlines = 0 /\ proc'.start = None
    BY <1>0, <2>1 DEF Locals
  <2>3. NotChanged' => NotChanged /\ data'["old"] = s
    BY <2>2, NotChangedBefore
  <2>4. ASSUME NotChanged' PROVE Searching(s, n)'
    <3>1. proc.size = n /\ data'["old"] = s
      BY <2>3, <2>4 DEF NotChanged
    <3>2. StartOffset = IF n > BufSize THEN n - BufSize ELSE 0
      <4>1. proc.size \in Nat /\ BufSize \in Nat
        BY <1>0, TailAssumption
      <4> HIDE DEF n
      <4> QED
        BY <3>1, <4>1 DEF StartOffset, Greater
    <3>3. Lesser(StartOffset + BufSize, n) = n
      <4>1. BufSize \in Nat
        BY TailAssumption
      <4> HIDE DEF n
      <4> QED
        BY <1>a, <3>2, <4>1 DEF Lesser
    <3>4. NewlinesIn(s, n + 1, n) = {}
      <4>1. \A k \in Newlines(s) : k \in Nat
        BY NewlinesFinite, <1>a
      <4> HIDE DEF n
      <4> QED
        BY <1>a, <4>1 DEF NewlinesIn
    <3>5. Cardinality(NewlinesIn(s, n + 1, n)) = 0
      BY <3>4, FS_EmptySet
    <3>6. n > BufSize => \E q \in 0..n : n = StartOffset + BufSize * q
      <4>1. BufSize \in Nat
        BY TailAssumption
      <4> HIDE DEF n
      <4>2. n > BufSize => 1 \in 0..n /\ n = StartOffset + BufSize * 1
        BY <1>a, <3>2, <4>1
      <4> QED
        BY <4>2
    <3>7. /\ proc'.number # 0 /\ proc'.newlines <= proc'.number
          /\ Lesser(proc'.offset + BufSize, n) = n
          /\ proc'.newlines = Cardinality(NewlinesIn(s, n + 1, n))
          /\ n > BufSize => \E q \in 0..n : n = proc'.offset + BufSize * q
      BY <1>0, <1>2, <2>2, <3>3, <3>5, <3>6
    <3> QED
      BY <3>1, <3>7 DEF Searching
  <2> QED
    BY <2>2, <2>3, <2>4 DEF SearchInvariant, At, Placed, ShownAll
<1> QED
  BY <1>1, <1>2

(* What the loop knows when it has read a buffer. *)
LEMMA BufferRead ==
    ASSUME TailInvariant, SearchInvariant, NotChanged, proc.pc = "search"
    PROVE  LET s == data["old"]
               o == proc.offset
               b == ReadAt(o) IN
           /\ s \in Seq(Byte) /\ Len(s) \in Nat /\ o \in Nat /\ o <= Len(s)
           /\ proc.number \in Nat \ {0} /\ proc.newlines \in Nat
           /\ proc.newlines <= proc.number /\ b \in Seq(Byte)
           /\ Counted(b) = Cardinality(NewlinesIn(s, o + 1, Len(s)))
           /\ \A k \in Hit(b) :
                /\ o + k \in Newlines(s)
                /\ Cardinality(NewlinesIn(s, o + k, Len(s))) = proc.number + 1
           /\ Len(s) > BufSize => \E q \in 0..Len(s) : Len(s) = o + BufSize * q
           /\ Len(s) <= BufSize => o = 0
<1> DEFINE s == data["old"]
           o == proc.offset
           b == ReadAt(o)
           n == Len(s)
           e == Lesser(o + BufSize, n)
<1>1. /\ proc \in Locals /\ proc.fd = "old" /\ o \in Nat /\ grown /\ proc.size = n
      /\ proc.number \in Nat /\ proc.newlines \in Nat /\ BufSize \in Nat \ {0}
  BY TailAssumption
     DEF TailInvariant, TypeOK, Locals, StepsMatch, InFile, PositionsInFile, NotChanged
<1>2. s \in Seq(Byte) /\ n \in Nat
  BY LenProperties DEF TailInvariant, TypeOK, Inode
<1>3. o <= n /\ (n <= BufSize => o = 0)
  BY <1>1 DEF TailInvariant, PositionsInFile, Pieces
<1>4. /\ proc.number # 0 /\ proc.newlines <= proc.number
      /\ proc.newlines = Cardinality(NewlinesIn(s, e + 1, n))
      /\ n > BufSize => \E q \in 0..n : n = o + BufSize * q
  BY <1>1 DEF SearchInvariant, Searching, At
<1>5. e \in Nat /\ o <= e /\ e <= n
  <2> HIDE DEF n, o
  <2> QED
    BY <1>1, <1>2, <1>3 DEF Lesser
<1>6. b = SubSeq(s, o + 1, e)
  BY <1>1 DEF ReadAt
<1>7. Piece(b, s, o, e)
  <2> HIDE DEF b, e, s, o
  <2> QED
    BY <1>1, <1>2, <1>5, <1>6 DEF Piece, n
<1>8. b \in Seq(Byte)
  <2> HIDE DEF b, e, s, o
  <2> QED
    BY <1>7, PieceIs
<1>9. /\ Counted(b) = Cardinality(NewlinesIn(s, o + 1, n))
      /\ \A k \in Hit(b) :
           /\ o + k \in Newlines(s)
           /\ Cardinality(NewlinesIn(s, o + k, n)) = proc.number + 1
  <2> HIDE DEF b, e, s, o
  <2> QED
    BY <1>1, <1>4, <1>7, BufferCounts DEF n
<1>10. proc.number \in Nat \ {0}
  BY <1>1, <1>4
<1> QED
  BY <1>1, <1>2, <1>3, <1>4, <1>8, <1>9, <1>10

(* What each way out of a turn of the loop leaves. *)
LEMMA SearchBufferSearches ==
    ASSUME TailInvariant, SearchInvariant, SearchBuffer, [Next]_vars
    PROVE  SearchInvariant'
<1> DEFINE s == data["old"]
           n == Len(s)
           o == proc.offset
           b == ReadAt(o)
<1>0. proc \in Locals /\ proc.pc = "search" /\ proc.start = None
  BY DEF TailInvariant, TypeOK, StepsMatch, SearchBuffer, At
<1>1. CASE Fails("seek", Err) \/ Fails("read", Err) \/ Goes(Err)
  BY <1>0, <1>1, ErrSearches
<1>2. CASE Found(b, o)
  <2>1. PICK k \in Hit(b) : proc' = [proc EXCEPT !.pc = "finished", !.offset = o + k]
    BY <1>2 DEF Found, Goes
  <2>2. /\ proc'.pc = "finished" /\ proc'.offset = o + k /\ proc'.number = proc.number
        /\ proc'.size = proc.size /\ proc'.start = None
    BY <1>0, <2>1 DEF Locals
  <2>3. ASSUME NotChanged' PROVE PlaceRight(data'["old"], proc'.number, proc'.offset)
    <3>1. NotChanged /\ data'["old"] = s
      BY <2>2, <2>3, NotChangedBefore
    <3>2. /\ proc.number # 0 /\ o + k \in Newlines(s)
          /\ Cardinality(NewlinesIn(s, o + k, n)) = proc.number + 1
      BY <1>0, <3>1, BufferRead
    <3> QED
      BY <2>2, <3>1, <3>2 DEF PlaceRight
  <2> QED
    BY <2>2, <2>3 DEF SearchInvariant, At, Placed, ShownAll
<1>3. CASE /\ Hit(b) = {} /\ o - BufSize < 0
           /\ Goes([proc EXCEPT !.pc = "search_rest", !.offset = o - Len(b),
                                !.pos = o + Len(b), !.newlines = Counted(b)])
  <2>1. /\ proc'.pc = "search_rest" /\ proc'.offset = o - Len(b)
        /\ proc'.number = proc.number /\ proc'.size = proc.size /\ proc'.start = None
    BY <1>0, <1>3 DEF Goes, Locals
  <2>2. ASSUME NotChanged'
        PROVE  /\ proc'.number # 0
               /\ Cardinality(Newlines(WholeBuffers(data'["old"]))) <= proc'.number
               /\ Len(data'["old"]) <= BufSize => proc'.offset <= 0
    <3>1. NotChanged /\ data'["old"] = s
      BY <2>1, <2>2, NotChangedBefore
    <3>2. /\ s \in Seq(Byte) /\ n \in Nat /\ o \in Nat /\ proc.number \in Nat \ {0}
          /\ proc.newlines \in Nat /\ proc.newlines <= proc.number /\ b \in Seq(Byte)
          /\ Counted(b) = Cardinality(NewlinesIn(s, o + 1, n))
          /\ n > BufSize => \E q \in 0..n : n = o + BufSize * q
          /\ n <= BufSize => o = 0
      BY <1>0, <3>1, BufferRead
    <3>3. Counted(b) <= proc.number
      BY <1>3, <3>2, NoHit
    <3>4. Cardinality(Newlines(WholeBuffers(s))) = Cardinality(NewlinesIn(s, o + 1, n))
      <4>1. CASE n <= BufSize
        <5>1. WholeBuffers(s) = s /\ o = 0
          BY <3>2, <4>1 DEF WholeBuffers
        <5>2. NewlinesIn(s, 1, n) = Newlines(s)
          <6>1. Newlines(s) \subseteq 1..n
            BY <3>2, NewlinesFinite
          <6> QED
            BY <6>1 DEF NewlinesIn
        <5> QED
          BY <5>1, <5>2
      <4>2. CASE n > BufSize
        <5>1. PICK q \in 0..n : n = o + BufSize * q
          BY <3>2, <4>2
        <5>2. q \in Nat
          OBVIOUS
        <5>3. o < BufSize
          <6>1. BufSize \in Nat
            BY TailAssumption
          <6> QED
            BY <1>3, <3>2, <6>1
        <5> HIDE DEF s, o
        <5> QED
          BY <3>2, <4>2, <5>1, <5>2, <5>3, WholeCount
      <4>3. n <= BufSize \/ n > BufSize
        BY <3>2, TailAssumption
      <4> QED
        BY <4>1, <4>2, <4>3
    <3>5. n <= BufSize => o - Len(b) <= 0
      <4>1. Len(b) \in Nat
        BY <3>2, LenProperties
      <4> QED
        BY <3>2, <4>1
    <3>6. Cardinality(Newlines(WholeBuffers(s))) <= proc.number
      BY <3>2, <3>3, <3>4
    <3> QED
      BY <2>1, <3>1, <3>2, <3>5, <3>6
  <2> QED
    BY <2>1, <2>2 DEF SearchInvariant, At, Placed, ShownAll
<1>4. CASE /\ Hit(b) = {} /\ o - BufSize >= 0
           /\ Goes([proc EXCEPT !.offset = o - BufSize, !.newlines = Counted(b)])
  <2>1. /\ proc'.pc = "search" /\ proc'.offset = o - BufSize /\ proc'.newlines = Counted(b)
        /\ proc'.number = proc.number /\ proc'.size = proc.size /\ proc'.start = None
    BY <1>0, <1>4 DEF Goes, Locals
  <2>2. ASSUME NotChanged'
        PROVE  Searching(s, n)' /\ data'["old"] = s
    <3>1. NotChanged /\ data'["old"] = s
      BY <2>1, <2>2, NotChangedBefore
    <3>2. /\ s \in Seq(Byte) /\ n \in Nat /\ o \in Nat /\ proc.number \in Nat \ {0}
          /\ proc.newlines \in Nat /\ proc.newlines <= proc.number /\ b \in Seq(Byte)
          /\ Counted(b) = Cardinality(NewlinesIn(s, o + 1, n)) /\ o <= n
          /\ n > BufSize => \E q \in 0..n : n = o + BufSize * q
          /\ n <= BufSize => o = 0
      BY <1>0, <3>1, BufferRead
    <3>3. Counted(b) <= proc.number
      BY <1>4, <3>2, NoHit
    <3>4. Lesser((o - BufSize) + BufSize, n) = o
      <4>1. BufSize \in Nat
        BY TailAssumption
      <4> HIDE DEF n, o
      <4>2. (o - BufSize) + BufSize = o
        BY <3>2, <4>1
      <4> QED
        BY <3>2, <4>2 DEF Lesser
    <3>5. ASSUME n > BufSize PROVE \E q \in 0..n : n = (o - BufSize) + BufSize * q
      <4>1. PICK q \in 0..n : n = o + BufSize * q
        BY <3>2, <3>5
      <4>2. BufSize \in Nat \ {0} /\ q \in Nat /\ o - BufSize >= 0
        BY <1>4, TailAssumption
      <4> HIDE DEF n, o
      <4>3. BufSize * (q + 1) = BufSize * q + BufSize
        BY <4>2
      <4>4. n = (o - BufSize) + BufSize * (q + 1)
        BY <3>2, <4>1, <4>2, <4>3
      <4>5. BufSize * (q + 1) >= q + 1
        BY <4>2
      <4>6. q + 1 \in 0..n
        BY <3>2, <4>2, <4>4, <4>5
      <4> QED
        BY <4>4, <4>6
    <3>6. /\ proc'.number # 0 /\ proc'.newlines <= proc'.number
          /\ Lesser(proc'.offset + BufSize, n) = o
          /\ proc'.newlines = Cardinality(NewlinesIn(s, o + 1, n))
          /\ n > BufSize => \E q \in 0..n : n = proc'.offset + BufSize * q
      BY <2>1, <3>2, <3>3, <3>4, <3>5
    <3> QED
      BY <3>1, <3>6 DEF Searching
  <2> QED
    BY <2>1, <2>2 DEF SearchInvariant, At, Placed, ShownAll
<1> QED
  BY <1>1, <1>2, <1>3, <1>4 DEF SearchBuffer

(* A file of one buffer has been read whole: the rest is empty. *)
LEMMA SearchRestSearches ==
    ASSUME TailInvariant, SearchInvariant, SearchRest, [Next]_vars
    PROVE  SearchInvariant'
<1> DEFINE s == data["old"]
           b == ReadAt(proc.pos)
           x == IF Counted(b) < proc.number THEN 0 ELSE Greater(proc.offset, 0)
<1>0. proc \in Locals /\ proc.pc = "search_rest" /\ proc.pos \in Nat /\ proc.offset \in Int
      /\ proc.start = None
  BY DEF TailInvariant, TypeOK, StepsMatch, Locals, SearchRest, At
<1>1. CASE Fails("read", Err)
  BY <1>0, <1>1, ErrSearches
<1>2. CASE Found(b, proc.offset) \/ (Hit(b) = {} /\ Goes([proc EXCEPT !.pc = "finished",
                                                              !.offset = x]))
  <2>1. /\ proc'.pc = "finished" /\ proc'.number = proc.number /\ proc'.size = proc.size
        /\ proc'.start = None
        /\ Hit(b) # {} \/ proc'.offset = x
    BY <1>0, <1>2 DEF Found, Goes, Locals
  <2>2. ASSUME NotChanged' PROVE PlaceRight(data'["old"], proc'.number, proc'.offset)
    <3>1. NotChanged /\ data'["old"] = s
      BY <2>1, <2>2, NotChangedBefore
    <3>2. /\ proc.number # 0 /\ Cardinality(Newlines(WholeBuffers(s))) <= proc.number
          /\ Len(s) <= BufSize => proc.offset <= 0
      BY <1>0, <3>1 DEF SearchInvariant, At
    <3>3. ASSUME Len(s) <= BufSize PROVE proc'.offset = 0
      <4>1. proc.fd = "old" /\ Len(s) \in Nat /\ BufSize \in Nat /\ data \in [Inode -> Seq(Byte)]
        BY <1>0, <3>1, TailAssumption, LenProperties
           DEF TailInvariant, TypeOK, PositionsInFile, StepsMatch, InFile, NotChanged, Inode
      <4>2. ~SeveralPieces
        BY <3>1, <3>3, <4>1 DEF SeveralPieces, NotChanged
      <4>3. proc.pos = Len(s)
        BY <1>0, <3>1, <4>2 DEF TailInvariant, Pieces, NotChanged
      <4>4. b \in Seq(Byte) /\ Len(b) \in Nat /\ proc.pos + Len(b) <= proc.pos
        BY <1>0, <4>1, <4>3, ReadType DEF Inode
      <4>5. Len(b) = 0
        BY <1>0, <4>4
      <4>6. Hit(b) = {}
        BY <4>4, <4>5, NewlinesFinite DEF Hit
      <4>7. x = 0
        BY <1>0, <3>2, <3>3 DEF Greater
      <4> QED
        BY <2>1, <4>6, <4>7
    <3> QED
      BY <2>1, <3>1, <3>2, <3>3 DEF PlaceRight
  <2> QED
    BY <2>1, <2>2 DEF SearchInvariant, At, Placed, ShownAll
<1> QED
  BY <1>1, <1>2 DEF SearchRest

(* The copy ends when there is nothing left to read, and a poll of a file  *)
(* that does not change begins no other copy before its end.               *)
LEMMA CopySearches ==
    ASSUME TailInvariant, SearchInvariant, [Next]_vars, GlusterRead
    PROVE  SearchInvariant'
<1> DEFINE s == data["old"]
           b == ReadAt(proc.pos)
           read == [proc EXCEPT !.pos = proc.pos + Len(b), !.io = Len(b)]
<1>0. /\ proc \in Locals /\ proc.pos \in Nat /\ proc.pc = "copy" /\ proc.start # None
      /\ proc.fd \in Inode
  BY DEF TailInvariant, TypeOK, StepsMatch, InFile, Locals, GlusterRead, At
<1>1. CASE proc' = read
  <2>1. /\ proc'.pc = "copy" /\ proc'.start = proc.start /\ proc'.mode = proc.mode
        /\ proc'.number = proc.number /\ proc'.size = proc.size
    BY <1>0, <1>1 DEF Locals
  <2> QED
    BY <1>0, <2>1, ChosenStays
<1>2. ASSUME NEW p \in {proc, read}, NEW r, proc' = CopyDone(p, r), failed' \/ b = << >>
      PROVE  SearchInvariant'
  <2>1. /\ proc'.pc \in {"while", "out"} /\ proc'.start = proc.start
        /\ proc'.mode = proc.mode /\ proc'.number = proc.number /\ proc'.size = proc.size
        /\ proc'.pos = p.pos
    BY <1>0, <1>2 DEF CopyDone, Locals
  <2>2. ASSUME NotChanged, ~failed' PROVE proc'.pos = Len(s)
    <3>1. b = << >> /\ Len(b) = 0
      BY <1>2, <2>2
    <3>2. proc'.pos = proc.pos
      <4>1. read.pos = proc.pos
        BY <1>0, <3>1 DEF Locals
      <4> QED
        BY <1>2, <2>1, <4>1
    <3>3. /\ proc.fd = "old" /\ s \in Seq(Byte) /\ Len(s) \in Nat /\ proc.pos <= Len(s)
          /\ BufSize \in Nat \ {0}
      BY <1>0, <2>2, TailAssumption, LenProperties
         DEF TailInvariant, TypeOK, PositionsInFile, NotChanged, Inode
    <3>4. CASE proc.pos < Len(s)
      <4> DEFINE n == Lesser(proc.pos + BufSize, Len(s))
      <4>1. n \in Nat /\ n <= Len(s) /\ proc.pos + 1 <= n
        BY <1>0, <3>3, <3>4 DEF Lesser
      <4>2. b = SubSeq(s, proc.pos + 1, n)
        BY <3>3 DEF ReadAt
      <4> HIDE DEF n, b, s
      <4>3. Piece(b, s, proc.pos, n)
        BY <1>0, <3>3, <4>1, <4>2 DEF Piece
      <4>4. Len(b) = n - proc.pos
        BY <4>3, PieceIs
      <4> QED
        BY <1>0, <3>1, <4>1, <4>4
    <3> QED
      BY <1>0, <3>2, <3>3, <3>4
  <2> QED
    BY <1>0, <2>1, <2>2, ChosenStays
<1> QED
  BY <1>1, <1>2 DEF GlusterRead, Fails, Goes

LEMMA FollowSearches ==
    ASSUME TailInvariant, SearchInvariant, [Next]_vars, While \/ Poll
    PROVE  SearchInvariant'
<1>0. /\ proc \in Locals /\ proc.pc \in {"while", "poll"} /\ proc.start # None
      /\ failed \in BOOLEAN /\ proc.size \in Nat /\ data \in [Inode -> Seq(Byte)]
  BY DEF TailInvariant, TypeOK, StepsMatch, Locals, While, Poll, At
<1>1. /\ proc'.pc \in {"poll", "while", "copy", "out"} /\ proc'.start = proc.start
      /\ proc'.mode = proc.mode /\ proc'.number = proc.number /\ (failed => failed')
      /\ \/ proc'.pos = proc.pos /\ proc'.size = proc.size
         \/ /\ dir # None /\ Len(data[dir]) < proc.size
            /\ proc'.pc = "copy"
  BY <1>0 DEF While, Poll, Goes, Fails, Err, Locals
<1>2. grown => proc'.size = proc.size
  <2>1. grown /\ dir # None => dir = "old" /\ proc.size <= Len(data["old"])
    BY DEF TailInvariant, PositionsInFile
  <2>2. Len(data["old"]) \in Nat
    BY <1>0, LenProperties DEF Inode
  <2> QED
    BY <1>0, <1>1, <2>1, <2>2
<1>3. NotChanged /\ ~failed' /\ proc'.pc \in {"while", "poll", "out", "done"}
        => proc'.pos = Len(data["old"])
  BY <1>0, <1>1 DEF SearchInvariant, ShownAll
<1> QED
  BY <1>0, <1>1, <1>2, <1>3, ChosenStays

LEMMA OutSearches ==
    ASSUME TailInvariant, SearchInvariant, [Next]_vars, Out
    PROVE  SearchInvariant'
<1>0. proc \in Locals /\ proc.pc = "out" /\ failed \in BOOLEAN
  BY DEF TailInvariant, TypeOK, Out, At
<1>1. /\ proc'.pc = "done" /\ proc'.start = proc.start /\ proc'.mode = proc.mode
      /\ proc'.number = proc.number /\ proc'.pos = proc.pos /\ proc'.size = proc.size
      /\ failed => failed'
  BY <1>0 DEF Out, Goes, Fails, Locals
<1>2. NotChanged /\ ~failed' /\ proc.start # None => proc'.pos = Len(data["old"])
  BY <1>0, <1>1 DEF SearchInvariant, ShownAll
<1>3. CASE proc.start = None
  BY <1>1, <1>3, ElsewhereKeeps
<1>4. CASE proc.start # None
  BY <1>1, <1>2, <1>4, ChosenStays
<1> QED
  BY <1>3, <1>4

(* Others do not touch what gftail knows; of a file they change it claims  *)
(* nothing.                                                                *)
LEMMA OthersKeepSearch ==
    ASSUME TailInvariant, SearchInvariant, [Next]_vars, UNCHANGED proc, failed => failed'
    PROVE  SearchInvariant'
<1>1. NotChanged' => NotChanged /\ data'["old"] = data["old"]
  BY NotChangedBefore
<1>2. Placed' => Placed /\ data'["old"] = data["old"]
  BY <1>1 DEF Placed
<1>3. Searching(data["old"], Len(data["old"])) /\ data'["old"] = data["old"]
        => Searching(data["old"], Len(data["old"]))'
  BY DEF Searching
<1> QED
  BY <1>1, <1>2, <1>3 DEF SearchInvariant, At, ShownAll

LEMMA InterruptKeepsSearch ==
    ASSUME TailInvariant, SearchInvariant, [Next]_vars, Interrupt
    PROVE  SearchInvariant'
<1>1. CASE UNCHANGED proc
  BY <1>1, OthersKeepSearch DEF Interrupt
<1>2. CASE proc' = [proc EXCEPT !.pc = "killed"]
  <2>1. /\ proc'.pc = "killed" /\ proc'.start = proc.start /\ proc'.mode = proc.mode
        /\ proc'.number = proc.number /\ proc'.size = proc.size
    BY <1>2 DEF TailInvariant, TypeOK, Locals
  <2>2. CASE proc.start = None
    BY <2>1, <2>2, ElsewhereKeeps
  <2>3. CASE proc.start # None
    BY <2>1, <2>3, ChosenStays
  <2> QED
    BY <2>2, <2>3
<1> QED
  BY <1>1, <1>2 DEF Interrupt

-----------------------------------------------------------------------------
LEMMA SearchInit == Init => SearchInvariant
BY DEF Init, InitState, SearchInvariant, At, Placed, ShownAll

LEMMA SearchKeeps == TailInvariant /\ SearchInvariant /\ [Next]_vars => SearchInvariant'
<1> SUFFICES ASSUME TailInvariant, SearchInvariant, [Next]_vars PROVE SearchInvariant'
  OBVIOUS
<1>1. CASE TailStep
  BY <1>1, BeforeSearchKeeps, TailLinesSearches, SearchBufferSearches,
     SearchRestSearches, SeekSearches, CopySearches, FollowSearches, OutSearches
     DEF TailStep
<1>2. CASE Interrupt
  BY <1>2, InterruptKeepsSearch
<1>3. CASE UNCHANGED <<proc, failed>>
  BY <1>3, OthersKeepSearch
<1>4. OthersStep \/ UNCHANGED vars => UNCHANGED <<proc, failed>>
  BY DEF OthersStep, AppendByte, TruncateTo, Replace, Remove, Change, vars
<1> QED
  BY <1>1, <1>2, <1>3, <1>4 DEF Next, Rest

(* At every step of the search of a file that does not change, the buffers *)
(* behind it have been counted and hold no more newlines than asked for.   *)
THEOREM SearchCounts == Spec => []SearchInvariant
<1> QED
  BY TailSafe, SearchInit, SearchKeeps, PTL DEF Spec

(* tail_lines copies from the start of the last lines, for a buffer of any *)
(* size and any file that does not change, when the newline before those   *)
(* lines is in a whole buffer or the file is no longer than one.           *)
THEOREM SearchFindsTheLines == Spec => []SearchIsRight
<1>1. TailInvariant /\ SearchInvariant => SearchIsRight
  <2> SUFFICES ASSUME TailInvariant, SearchInvariant, Placed,
                      Findable(data["old"], proc.number)
               PROVE  proc.start
                        = LastLines(data["old"], LinesShown(data["old"], proc.number))
    BY DEF SearchIsRight
  <2>1. data["old"] \in Seq(Byte) /\ proc.number \in Nat
    BY DEF TailInvariant, TypeOK, Locals, Inode
  <2>2. PlaceRight(data["old"], proc.number, proc.start)
    BY DEF SearchInvariant
  <2> QED
    BY <2>1, <2>2, PlaceIsRight DEF Findable
<1> QED
  BY <1>1, TailSafe, SearchCounts, PTL

(* What gftail has shown of a file that does not change, when its copy has *)
(* ended and no call has failed, is the end that was asked for: those      *)
(* bytes, or those lines if they can be found, and nothing else.           *)
THEOREM ShowsTheRightEnd == Spec => []ShowsTheEnd
<1>1. TailInvariant /\ SearchInvariant /\ SearchIsRight => ShowsTheEnd
  <2> SUFFICES ASSUME TailInvariant, SearchInvariant, SearchIsRight,
                      NotChanged, ~failed, ShownAll
               PROVE  LET s == data["old"] IN
                      /\ proc.mode = "BYTES" =>
                           out = SubSeq(s, Greater(Len(s) - proc.number, 0) + 1, Len(s))
                      /\ proc.mode = "LINES" /\ Findable(s, proc.number) =>
                           out = SubSeq(s, LastLines(s, LinesShown(s, proc.number)) + 1,
                                        Len(s))
    BY DEF ShowsTheEnd
  <2>1. grown /\ proc.start # None /\ proc.pos = Len(data["old"])
    BY DEF SearchInvariant, NotChanged, ShownAll
  <2>2. out = SubSeq(data["old"], proc.start + 1, Len(data["old"]))
    BY <2>1 DEF TailInvariant, ShownIsContiguous
  <2>3. proc.mode = "BYTES" => proc.start = Greater(Len(data["old"]) - proc.number, 0)
    BY <2>1 DEF SearchInvariant
  <2>4. proc.mode = "LINES" /\ Findable(data["old"], proc.number)
          => proc.start = LastLines(data["old"], LinesShown(data["old"], proc.number))
    BY <2>1 DEF SearchIsRight, Placed
  <2> QED
    BY <2>2, <2>3, <2>4
<1> QED
  BY <1>1, TailSafe, SearchCounts, SearchFindsTheLines, PTL
=============================================================================
