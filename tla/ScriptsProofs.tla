--------------------------- MODULE ScriptsProofs ---------------------------
(***************************************************************************)
(* Proofs about the two programs that are shell scripts: the CGI scripts   *)
(* of UrlManager, and the crawler SpiderLite.                              *)
(*                                                                         *)
(* UrlManager.  Requests on different files stay apart (Apart), so what a  *)
(* script finds of its url is still so when it changes the file (Edits),   *)
(* each file keeps its own urls (OwnFiles), and a page is made while       *)
(* nothing else happens (Pages).  The number is that of the changes that   *)
(* are counted, which are those of the scripts that are through (Numbers); *)
(* the names of the files that hold it stay apart as long as no two        *)
(* processes meet (Names).  The listing is a recursive function, whose     *)
(* values are found by induction over numbers: SetInduction.               *)
(*                                                                         *)
(* SpiderLite.  VisitedOnce follows from what is known of url at each step *)
(* (InHand).  VisitedPagesKept needs why a number that is used again is    *)
(* not that of a visited page (NumbersInUse).  NothingOverlooked needs     *)
(* where a url is between its page and its download (OnItsWay).            *)
(***************************************************************************)
EXTENDS UrlManager, SpiderLite, WellFoundedInduction, FiniteSetTheorems, TLAPS

-----------------------------------------------------------------------------
(* Induction over numbers, in a form that names no operator                *)

\* A set that has 0, and n + 1 whenever it has n, has every number: otherwise
\* take the shortest interval 0..n of an n it lacks.
LEMMA SetInduction ==
  ASSUME NEW S, 0 \in S, \A n \in Nat : n \in S => n + 1 \in S
  PROVE  Nat \subseteq S
  <1> SUFFICES ASSUME NEW m \in Nat, m \notin S PROVE FALSE
    OBVIOUS
  <1> DEFINE T == {n \in Nat : n \notin S}
             B == {0..n : n \in T}
             R == StrictSubsetOrdering(Nat)
  <1>1. IsWellFoundedOn(R, FiniteSubsetsOf(Nat))
    BY FS_StrictSubsetOrderingWellFounded
  <1>2. B \subseteq FiniteSubsetsOf(Nat) /\ B # {}
    <2>1. \A n \in Nat : 0..n \subseteq Nat /\ IsFiniteSet(0..n)
      BY FS_Interval
    <2>2. 0..m \in B
      OBVIOUS
    <2> QED
      BY <2>1, <2>2 DEF FiniteSubsetsOf
  <1>3. PICK b \in B : \A a \in B : <<a, b>> \notin R
    <2> HIDE DEF R, B
    <2> QED
      BY <1>1, <1>2, WFMin
  <1>4. PICK n \in T : b = 0..n
    OBVIOUS
  <1>5. n # 0
    OBVIOUS
  <1>6. n - 1 \in Nat /\ n - 1 + 1 = n
    BY <1>5
  <1>7. n - 1 \in T
    BY <1>6
  <1>8. 0..n - 1 \in B
    BY <1>7
  <1>9. <<0..n - 1, b>> \in R
    <2>1. 0..n - 1 \subseteq 0..n /\ 0..n - 1 \in SUBSET Nat /\ 0..n \in SUBSET Nat
      BY <1>6
    <2>2. n \in 0..n /\ n \notin 0..n - 1
      OBVIOUS
    <2> QED
      BY <1>4, <2>1, <2>2 DEF StrictSubsetOrdering
  <1> QED
    BY <1>3, <1>8, <1>9

\* Induction down from n to 1.
LEMMA DownInduction ==
  ASSUME NEW n \in Nat, NEW S, n + 1 \in S, \A k \in 1..n : k + 1 \in S => k \in S
  PROVE  1..n + 1 \subseteq S
  <1> DEFINE D == {d \in Nat : d > n \/ n + 1 - d \in S}
  <1>1. 0 \in D
    OBVIOUS
  <1>2. \A d \in Nat : d \in D => d + 1 \in D
    <2> SUFFICES ASSUME NEW d \in Nat, d \in D, d + 1 <= n
                 PROVE  n + 1 - (d + 1) \in S
      OBVIOUS
    <2>1. n + 1 - (d + 1) \in 1..n /\ (n + 1 - (d + 1)) + 1 = n + 1 - d
      OBVIOUS
    <2>2. n + 1 - d \in S
      OBVIOUS
    <2> QED
      BY <2>1, <2>2
  <1>3. Nat \subseteq D
    <2> HIDE DEF D
    <2> QED
      BY <1>1, <1>2, SetInduction
  <1> SUFFICES ASSUME NEW k \in 1..n + 1 PROVE k \in S
    OBVIOUS
  <1>4. n + 1 - k \in Nat /\ ~(n + 1 - k > n) /\ n + 1 - (n + 1 - k) = k
    OBVIOUS
  <1> QED
    BY <1>3, <1>4

-----------------------------------------------------------------------------
(* Numbers of the files                                                    *)

\* Division, as the provers know it.
LEMMA Quotient ==
  ASSUME NEW t \in Nat \ {0}, NEW x \in Nat
  PROVE  x = t * (x \div t) + (x % t) /\ x % t \in 0..t - 1 /\ x \div t \in Nat
  OBVIOUS

\* Multiples of t that lie less than t apart are equal.
LEMMA SameQuotient ==
  ASSUME NEW t \in Nat \ {0}, NEW q \in Int, NEW p \in Int, NEW r \in 0..t - 1,
         NEW s \in 0..t - 1, t * q + r = t * p + s
  PROVE  q = p /\ r = s
  <1>1. t * (q - p) = s - r
    BY SMT
  <1>2. \A d \in Int : d >= 1 => t * d >= t
    OBVIOUS
  <1>3. \A d \in Int : d <= -1 => t * d <= -t
    OBVIOUS
  <1>4. q - p \in Int
    OBVIOUS
  <1>5. ~(q - p >= 1)
    BY <1>1, <1>2, <1>4
  <1>6. ~(q - p <= -1)
    BY <1>1, <1>3, <1>4
  <1>7. q = p
    BY <1>5, <1>6
  <1> QED
    BY <1>1, <1>7

\* Below m times t, a number has a quotient by t below m.
LEMMA SmallQuotient ==
  ASSUME NEW t \in Nat \ {0}, NEW m \in Nat, NEW x \in Nat, x < m * t
  PROVE  x \div t < m
  <1> SUFFICES ASSUME x \div t >= m PROVE FALSE
    BY Quotient
  <1> DEFINE q == x \div t
  <1>1. q \in Nat /\ x >= t * q
    BY Quotient
  <1>2. \A a \in Nat, b \in Nat : a >= b => t * a >= b * t
    <2> SUFFICES ASSUME NEW a \in Nat, NEW b \in Nat, a >= b PROVE t * a >= b * t
      OBVIOUS
    <2>1. a - b \in Nat /\ t * (a - b) \in Nat
      OBVIOUS
    <2>2. t * a = t * (a - b) + b * t
      BY SMT
    <2> QED
      BY <2>1, <2>2
  <1>3. t * q >= m * t
    BY <1>1, <1>2
  <1> QED
    BY <1>1, <1>3


\* There are as many files as pairs of a length and an end of md5.
LEMMA FilesFacts ==
  ASSUME ConstantsOK
  PROVE  /\ Len(Lens) \in Nat /\ DOMAIN Lens = 1..Len(Lens)
         /\ Len(Tails) \in Nat /\ DOMAIN Tails = 1..Len(Tails)
         /\ \A a, b \in DOMAIN Lens : Lens[a] = Lens[b] => a = b
         /\ \A a, b \in DOMAIN Tails : Tails[a] = Tails[b] => a = b
         /\ NFiles \in Nat
         /\ NFiles # 0 => Len(Tails) \in Nat \ {0}
  <1>1. \A S : \A s \in Seq(S) : Len(s) \in Nat /\ DOMAIN s = 1..Len(s)
    OBVIOUS
  <1>2. /\ Len(Lens) \in Nat /\ DOMAIN Lens = 1..Len(Lens)
        /\ Len(Tails) \in Nat /\ DOMAIN Tails = 1..Len(Tails)
    BY <1>1 DEF ConstantsOK
  <1>3. /\ \A a, b \in DOMAIN Lens : Lens[a] = Lens[b] => a = b
        /\ \A a, b \in DOMAIN Tails : Tails[a] = Tails[b] => a = b
    BY DEF ConstantsOK, IsInjective
  <1>4. \A a, b \in Nat : a * b \in Nat /\ (b = 0 => a * b = 0)
    OBVIOUS
  <1> QED
    BY <1>2, <1>3, <1>4 DEF NFiles

\* Each file has one number.
LEMMA FileNumbers ==
  ASSUME ConstantsOK
  PROVE  /\ \A k \in 1..NFiles : FileAt(k) \in Files
         /\ \A k, j \in 1..NFiles : FileAt(k) = FileAt(j) => k = j
         /\ \A f \in Files : \E k \in 1..NFiles : FileAt(k) = f
  <1> DEFINE l == Len(Lens)
             t == Len(Tails)
             Q(k) == (k - 1) \div t
             M(k) == (k - 1) % t
  <1>1. /\ l \in Nat /\ DOMAIN Lens = 1..l
        /\ t \in Nat /\ DOMAIN Tails = 1..t
        /\ NFiles \in Nat /\ NFiles = l * t
        /\ NFiles # 0 => t \in Nat \ {0}
    BY FilesFacts DEF NFiles
  <1>2. ASSUME NEW k \in 1..NFiles
        PROVE  /\ t \in Nat \ {0}
               /\ Q(k) \in 0..l - 1 /\ M(k) \in 0..t - 1
               /\ k - 1 = t * Q(k) + M(k)
               /\ Q(k) + 1 \in DOMAIN Lens /\ M(k) + 1 \in DOMAIN Tails
               /\ FileAt(k) = <<Lens[Q(k) + 1], Tails[M(k) + 1]>>
    <2>1. t \in Nat \ {0} /\ k - 1 \in Nat /\ k - 1 < l * t
      BY <1>1
    <2> HIDE DEF l, t
    <2>2. k - 1 = t * Q(k) + M(k) /\ M(k) \in 0..t - 1 /\ Q(k) \in Nat
      BY <2>1, Quotient
    <2>3. Q(k) < l
      BY <1>1, <2>1, SmallQuotient
    <2>4. FileAt(k) = <<Lens[Q(k) + 1], Tails[M(k) + 1]>>
      BY DEF FileAt, t
    <2>5. \A a \in Nat, b \in Nat : a < b => a \in 0..b - 1 /\ a + 1 \in 1..b
      OBVIOUS
    <2>6. Q(k) \in 0..l - 1 /\ Q(k) + 1 \in 1..l
      BY <1>1, <2>2, <2>3, <2>5
    <2>7. M(k) + 1 \in 1..t
      BY <1>1, <2>2
    <2> QED
      BY <1>1, <2>1, <2>2, <2>4, <2>6, <2>7
  <1>3. \A k \in 1..NFiles : FileAt(k) \in Files
    <2> SUFFICES ASSUME NEW k \in 1..NFiles PROVE FileAt(k) \in Files
      OBVIOUS
    <2> HIDE DEF Q, M, l, t
    <2> QED
      BY <1>2 DEF Files
  <1>4. \A k, j \in 1..NFiles : FileAt(k) = FileAt(j) => k = j
    <2> SUFFICES ASSUME NEW k \in 1..NFiles, NEW j \in 1..NFiles, FileAt(k) = FileAt(j)
                 PROVE  k = j
      OBVIOUS
    <2>1. Q(k) + 1 = Q(j) + 1 /\ M(k) + 1 = M(j) + 1
      <3>1. Lens[Q(k) + 1] = Lens[Q(j) + 1] /\ Tails[M(k) + 1] = Tails[M(j) + 1]
        <4> HIDE DEF Q, M, l, t
        <4> QED
          BY <1>2
      <3> HIDE DEF Q, M, l, t
      <3> QED
        BY <1>2, <3>1, FilesFacts
    <2>2. k - 1 = j - 1
      <3> HIDE DEF Q, M, l, t
      <3>1. Q(k) = Q(j) /\ M(k) = M(j)
        BY <1>2, <2>1
      <3> QED
        BY <1>2, <3>1
    <2> QED
      BY <1>1, <2>2
  <1>5. \A f \in Files : \E k \in 1..NFiles : FileAt(k) = f
    <2> SUFFICES ASSUME NEW f \in Files PROVE \E k \in 1..NFiles : FileAt(k) = f
      OBVIOUS
    <2>1. PICK a \in 1..l, b \in 1..t : f = <<Lens[a], Tails[b]>>
      BY <1>1 DEF Files
    <2>2. t \in Nat \ {0} /\ a \in Nat /\ b \in Nat
      BY <1>1
    <2> DEFINE k == t * (a - 1) + b
    <2>3. k \in 1..NFiles
      <3>1. \A c \in Nat : t * c \in Nat
        BY <2>2
      <3>2. t * (a - 1) \in Nat /\ t * (l - a) \in Nat
        BY <1>1, <3>1
      <3>3. l * t = t * (a - 1) + t * (l - a) + t
        <4> HIDE DEF l, t
        <4> QED
          BY <1>1, <2>2, SMT
      <3> HIDE DEF l, t
      <3> QED
        BY <1>1, <2>2, <3>2, <3>3
    <2>4. Q(k) = a - 1 /\ M(k) = b - 1
      <3>1. k - 1 = t * Q(k) + M(k) /\ Q(k) \in Int /\ M(k) \in 0..t - 1
        <4> HIDE DEF k, Q, M, l, t
        <4> QED
          BY <1>1, <1>2, <2>3
      <3>2. t * Q(k) + M(k) = t * (a - 1) + (b - 1)
        <4>1. k - 1 = t * (a - 1) + (b - 1)
          <5> HIDE DEF t
          <5>1. t * (a - 1) \in Int
            BY <2>2
          <5> QED
            BY <2>2, <5>1
        <4> QED
          BY <3>1, <4>1
      <3>3. a - 1 \in Int /\ b - 1 \in 0..t - 1
        BY <1>1, <2>2
      <3> HIDE DEF k, Q, M, l, t
      <3> QED
        BY <2>2, <3>1, <3>2, <3>3, SameQuotient
    <2>5. FileAt(k) = <<Lens[Q(k) + 1], Tails[M(k) + 1]>>
      <3> HIDE DEF k, Q, M, l, t
      <3> QED
        BY <1>2, <2>3
    <2>6. Q(k) + 1 = a /\ M(k) + 1 = b
      <3> HIDE DEF k, Q, M, l, t
      <3> QED
        BY <2>2, <2>4
    <2> HIDE DEF k, Q, M, l, t
    <2> QED
      BY <2>1, <2>3, <2>5, <2>6
  <1> QED
    BY <1>3, <1>4, <1>5


-----------------------------------------------------------------------------
(* The listing                                                             *)

\* Every file holds urls.
FilesTyped == file \in [Files -> Seq(Urls)]

\* There is a function as the definition of Listing has it.
LEMMA ListingExists ==
  ASSUME ConstantsOK, FilesTyped
  PROVE  \E g \in [1..NFiles + 1 -> Seq(Urls)] :
           /\ g[NFiles + 1] = <<>>
           /\ \A k \in 1..NFiles : g[k] = file[FileAt(k)] \o g[k + 1]
  <1> DEFINE N == NFiles
             F == [1..N + 1 -> Seq(Urls)]
             From(g, k) == /\ g[N + 1] = <<>>
                           /\ \A j \in k..N : g[j] = file[FileAt(j)] \o g[j + 1]
             S == {k \in 1..N + 1 : \E g \in F : From(g, k)}
  <1>1. N \in Nat
    BY FilesFacts
  <1>2. \A k \in 1..N : file[FileAt(k)] \in Seq(Urls)
    BY FileNumbers DEF FilesTyped
  <1> HIDE DEF N
  <1>3. N + 1 \in S
    <2>1. [k \in 1..N + 1 |-> <<>>] \in F /\ N + 1 \in 1..N + 1
      BY <1>1
    <2>2. From([k \in 1..N + 1 |-> <<>>], N + 1)
      <3>1. ~ \E j \in N + 1..N : TRUE
        BY <1>1
      <3>2. [k \in 1..N + 1 |-> <<>>][N + 1] = <<>>
        BY <2>1
      <3> QED
        BY <3>1, <3>2
    <2> HIDE DEF F, From
    <2> QED
      BY <2>1, <2>2
  <1>4. \A k \in 1..N : k + 1 \in S => k \in S
    <2> SUFFICES ASSUME NEW k \in 1..N, k + 1 \in S PROVE k \in S
      OBVIOUS
    <2>1. PICK g \in F : From(g, k + 1)
      OBVIOUS
    <2> DEFINE s == file[FileAt(k)] \o g[k + 1]
               h == [g EXCEPT ![k] = s]
    <2>2. k \in 1..N + 1 /\ k + 1 \in 1..N + 1 /\ k # N + 1
      BY <1>1
    <2>3. s \in Seq(Urls)
      <3>1. \A a, b \in Seq(Urls) : a \o b \in Seq(Urls)
        OBVIOUS
      <3> QED
        BY <1>2, <2>1, <2>2, <3>1
    <2>4. h \in F
      <3> HIDE DEF s
      <3> QED
        BY <2>1, <2>3
    <2>5. h[N + 1] = <<>>
      BY <1>1, <2>1, <2>2
    <2>6. ASSUME NEW j \in k..N PROVE h[j] = file[FileAt(j)] \o h[j + 1]
      <3>1. j \in 1..N + 1 /\ j + 1 \in 1..N + 1 /\ j + 1 # k
        BY <1>1
      <3>2. h[j + 1] = g[j + 1]
        <4> HIDE DEF s
        <4> QED
          BY <2>1, <3>1
      <3>3. CASE j = k
        <4>1. h[k] = s
          <5> HIDE DEF s
          <5> QED
            BY <2>1, <2>2
        <4> QED
          BY <3>2, <3>3, <4>1
      <3>4. CASE j # k
        <4>1. j \in k + 1..N
          BY <3>4, <1>1
        <4>2. h[j] = g[j]
          <5> HIDE DEF s
          <5> QED
            BY <2>1, <3>1, <3>4
        <4> QED
          BY <2>1, <3>2, <4>1, <4>2
      <3> QED
        BY <3>3, <3>4
    <2>7. From(h, k)
      <3> HIDE DEF h
      <3> QED
        BY <2>5, <2>6
    <2> HIDE DEF F, From, h
    <2> QED
      BY <2>2, <2>4, <2>7
  <1>5. 1..N + 1 \subseteq S
    <2> HIDE DEF S
    <2> QED
      BY <1>1, <1>3, <1>4, DownInduction
  <1>6. 1 \in S
    <2> HIDE DEF S
    <2> QED
      BY <1>1, <1>5
  <1> QED
    BY <1>6 DEF N

\* Listing, a recursive function, is what its definition says: a function that
\* satisfies the equation exists, so CHOOSE yields one.
LEMMA ListingIs ==
  ASSUME ConstantsOK, FilesTyped
  PROVE  /\ Listing \in [1..NFiles + 1 -> Seq(Urls)]
         /\ Listing[NFiles + 1] = <<>>
         /\ \A k \in 1..NFiles : Listing[k] = file[FileAt(k)] \o Listing[k + 1]
  <1> DEFINE N == NFiles
             Body(g) == [k \in 1..NFiles + 1 |->
                           IF k > NFiles THEN <<>> ELSE file[FileAt(k)] \o g[k + 1]]
  <1>1. N \in Nat
    BY FilesFacts
  <1>2. PICK g \in [1..N + 1 -> Seq(Urls)] :
           /\ g[N + 1] = <<>>
           /\ \A k \in 1..N : g[k] = file[FileAt(k)] \o g[k + 1]
    BY ListingExists
  <1>3. g = Body(g)
    <2>1. ASSUME NEW k \in 1..N + 1
          PROVE  g[k] = IF k > N THEN <<>> ELSE file[FileAt(k)] \o g[k + 1]
      <3>1. k > N => k = N + 1
        BY <1>1
      <3>2. ~(k > N) => k \in 1..N
        BY <1>1
      <3> HIDE DEF N
      <3> QED
        BY <1>2, <3>1, <3>2
    <2> QED
      BY <1>2, <2>1
  <1>4. Listing = Body(Listing)
    <2>1. Listing = CHOOSE h : h = Body(h)
      BY DEF Listing
    <2> HIDE DEF Body
    <2> QED
      BY <1>3, <2>1
  <1>5. Listing[N + 1] = <<>>
    BY <1>1, <1>4
  <1>6. \A k \in 1..N : Listing[k] = file[FileAt(k)] \o Listing[k + 1]
    <2> SUFFICES ASSUME NEW k \in 1..N PROVE Listing[k] = file[FileAt(k)] \o Listing[k + 1]
      OBVIOUS
    <2>1. k \in 1..N + 1 /\ ~(k > N)
      BY <1>1
    <2> QED
      BY <1>4, <2>1
  <1>7. Listing = [k \in 1..N + 1 |-> Listing[k]]
    BY <1>4
  <1> DEFINE S == {k \in 1..N + 1 : Listing[k] \in Seq(Urls)}
  <1>8. 1..N + 1 \subseteq S
    <2>1. N + 1 \in S
      <3>1. <<>> \in Seq(Urls)
        OBVIOUS
      <3>2. N + 1 \in 1..N + 1
        BY <1>1
      <3> HIDE DEF N
      <3> QED
        BY <1>5, <3>1, <3>2
    <2>2. \A k \in 1..N : k + 1 \in S => k \in S
      <3>1. \A a, b \in Seq(Urls) : a \o b \in Seq(Urls)
        OBVIOUS
      <3>2. \A k \in 1..N : k \in 1..N + 1 /\ file[FileAt(k)] \in Seq(Urls)
        BY <1>1, FileNumbers DEF FilesTyped
      <3> HIDE DEF N
      <3> QED
        BY <1>6, <3>1, <3>2
    <2> HIDE DEF S, N
    <2> QED
      BY <1>1, <2>1, <2>2, DownInduction
  <1>9. Listing \in [1..N + 1 -> Seq(Urls)]
    <2> HIDE DEF N
    <2> QED
      BY <1>7, <1>8
  <1> QED
    BY <1>5, <1>6, <1>9


\* The listing from a file on is the end of the whole listing.
LEMMA ListingEnds ==
  ASSUME ConstantsOK, FilesTyped, NEW k \in 1..NFiles + 1
  PROVE  /\ Len(Listing[k]) \in 0..Len(Listing[1])
         /\ Len(Listing[1]) \in Nat
         /\ \A x \in 1..Len(Listing[k]) :
              Listing[k][x] = Listing[1][Len(Listing[1]) - Len(Listing[k]) + x]
  <1> DEFINE N == NFiles
             all == Listing[1]
             Suffix(s) == /\ Len(s) \in 0..Len(all)
                          /\ \A x \in 1..Len(s) : s[x] = all[Len(all) - Len(s) + x]
             S == {n \in Nat : n > N \/ Suffix(Listing[n + 1])}
  <1>1. N \in Nat /\ \A n \in 1..N + 1 : Listing[n] \in Seq(Urls)
    BY FilesFacts, ListingIs
  <1>2. all \in Seq(Urls) /\ Len(all) \in Nat
    BY <1>1
  <1>3. 0 \in S
    <2>1. Suffix(Listing[1])
      BY <1>2
    <2> HIDE DEF Suffix
    <2> QED
      BY <2>1
  <1>4. \A n \in Nat : n \in S => n + 1 \in S
    <2> SUFFICES ASSUME NEW n \in Nat, n \in S, n + 1 <= N
                 PROVE  Suffix(Listing[n + 2])
      <3> HIDE DEF N, Suffix
      <3>1. \A n \in Nat : (n + 1) + 1 = n + 2 /\ (~(n + 1 <= N) => n + 1 > N)
        BY <1>1
      <3> QED
        BY <1>1, <3>1
    <2>1. n + 1 \in 1..N /\ n + 2 \in 1..N + 1 /\ n + 1 \in 1..N + 1 /\ (n + 1) + 1 = n + 2
      BY <1>1
    <2>2. Suffix(Listing[n + 1])
      <3> HIDE DEF Suffix
      <3> QED
        BY <1>1, <2>1
    <2>3. PICK f \in Seq(Urls) : f = file[FileAt(n + 1)]
      BY <2>1, FileNumbers DEF FilesTyped
    <2>4. PICK s \in Seq(Urls) : s = Listing[n + 1]
      BY <1>1, <2>1
    <2>5. PICK r \in Seq(Urls) : r = Listing[n + 2]
      BY <1>1, <2>1
    <2>6. s = f \o r
      BY <2>1, <2>3, <2>4, <2>5, ListingIs
    <2>7. Len(s) = Len(f) + Len(r) /\ \A x \in 1..Len(r) : r[x] = s[Len(f) + x]
      BY <2>6
    <2>8. Suffix(s)
      BY <2>2, <2>4
    <2>9. Len(r) \in 0..Len(all)
      <3>1. Len(f) \in Nat /\ Len(r) \in Nat /\ Len(s) = Len(f) + Len(r) /\ Len(s) <= Len(all)
        BY <1>2, <2>7, <2>8
      <3> QED
        BY <1>2, <3>1
    <2>10. ASSUME NEW x \in 1..Len(r) PROVE r[x] = all[Len(all) - Len(r) + x]
      <3>1. Len(f) + x \in 1..Len(s)
        <4>1. Len(f) \in Nat /\ Len(r) \in Nat /\ Len(s) = Len(f) + Len(r)
          BY <2>7
        <4> QED
          BY <4>1
      <3>2. Len(all) - Len(s) + (Len(f) + x) = Len(all) - Len(r) + x
        <4>1. Len(f) \in Nat /\ Len(r) \in Nat /\ Len(s) = Len(f) + Len(r)
          BY <2>7
        <4>2. PICK a \in Nat : a = Len(all)
          BY <1>2
        <4>3. PICK b \in Nat, e \in Nat : b = Len(f) /\ e = Len(r)
          BY <4>1
        <4>4. a - (b + e) + (b + x) = a - e + x
          OBVIOUS
        <4> HIDE DEF all
        <4> QED
          BY <4>1, <4>2, <4>3, <4>4
      <3> QED
        BY <2>7, <2>8, <3>1, <3>2
    <2> QED
      BY <2>5, <2>9, <2>10
  <1>5. Nat \subseteq S
    <2> HIDE DEF S
    <2> QED
      BY <1>3, <1>4, SetInduction
  <1>6. k - 1 \in Nat /\ ~(k - 1 > N) /\ (k - 1) + 1 = k
    BY <1>1
  <1>7. Suffix(Listing[k])
    <2> HIDE DEF Suffix, N
    <2> QED
      BY <1>5, <1>6
  <1> QED
    BY <1>2, <1>7

\* f is what all has after its d-th line.
Follows(all, f, d) == d + Len(f) <= Len(all) /\ \A x \in 1..Len(f) : f[x] = all[d + x]

\* The lines of the files before the k-th.
Before(k) == Len(Listing[1]) - Len(Listing[k])

\* The next file of the listing.
LEMMA FileFollows ==
  ASSUME ConstantsOK, FilesTyped, NEW k \in 1..NFiles
  PROVE  /\ file[FileAt(k)] \in Seq(Urls) /\ Before(k) \in Nat
         /\ Before(k + 1) = Before(k) + Len(file[FileAt(k)])
         /\ Follows(Listing[1], file[FileAt(k)], Before(k))
  <1>1. PICK f : f = file[FileAt(k)]
    OBVIOUS
  <1>2. PICK d : d = Len(Listing[1]) - Len(Listing[k])
    OBVIOUS
  <1>3. NFiles \in Nat
    BY FilesFacts
  <1>4. k \in 1..NFiles + 1 /\ k + 1 \in 1..NFiles + 1
    BY <1>3
  <1>5. f \in Seq(Urls)
    BY <1>1, FileNumbers DEF FilesTyped
  <1>6. PICK s \in Seq(Urls) : s = Listing[k]
    BY <1>4, ListingIs
  <1>7. PICK r \in Seq(Urls) : r = Listing[k + 1]
    BY <1>4, ListingIs
  <1>8. s = f \o r
    BY <1>1, <1>6, <1>7, ListingIs
  <1>9. Len(s) = Len(f) + Len(r) /\ \A x \in 1..Len(f) : x \in 1..Len(s) /\ s[x] = f[x]
    BY <1>5, <1>8
  <1>10. PICK n \in Nat : n = Len(Listing[1]) /\ Len(s) \in 0..n
    BY <1>4, <1>6, ListingEnds
  <1>11. \A x \in 1..Len(s) : s[x] = Listing[1][n - Len(s) + x]
    BY <1>4, <1>6, <1>10, ListingEnds
  <1>12. d = n - Len(s) /\ d \in Nat
    BY <1>2, <1>6, <1>10
  <1>13. Len(f) \in Nat /\ Len(r) \in Nat /\ Len(s) \in Nat
    BY <1>5, <1>6, <1>7
  <1>14. n - Len(r) = d + Len(f) /\ d + Len(f) <= n
    <2>1. d \in Nat /\ d = n - Len(s)
      BY <1>12
    <2>2. Len(s) = Len(f) + Len(r)
      BY <1>9
    <2> QED
      BY <1>6, <1>10, <1>13, <2>1, <2>2
  <1>15. /\ f \in Seq(Urls) /\ d \in Nat
         /\ Len(Listing[1]) - Len(Listing[k + 1]) = d + Len(f)
         /\ d + Len(f) <= Len(Listing[1])
         /\ \A x \in 1..Len(f) : f[x] = Listing[1][d + x]
    BY <1>5, <1>7, <1>9, <1>10, <1>11, <1>12, <1>14
  <1> QED
    BY <1>1, <1>2, <1>15 DEF Before, Follows

-----------------------------------------------------------------------------
(* The number of the urls                                                  *)

\* No line of s is there twice.
NoRepeat(s) == \A n, m \in DOMAIN s : s[n] = s[m] => n = m

\* A file without repetitions has as many urls as lines.
LEMMA LinesCounted ==
  ASSUME NEW S, NEW s \in Seq(S), NoRepeat(s)
  PROVE  IsFiniteSet(Lines(s)) /\ Cardinality(Lines(s)) = Len(s)
  <1>1. DOMAIN s = 1..Len(s) /\ Len(s) \in Nat
    OBVIOUS
  <1>2. s \in [1..Len(s) -> Lines(s)]
    <2>1. s = [n \in 1..Len(s) |-> s[n]]
      OBVIOUS
    <2>2. \A n \in 1..Len(s) : s[n] \in Lines(s)
      BY <1>1 DEF Lines
    <2> QED
      BY <2>1, <2>2
  <1>3. \A x \in Lines(s) : \E n \in 1..Len(s) : s[n] = x
    BY <1>1 DEF Lines
  <1>4. s \in Bijection(1..Len(s), Lines(s))
    BY <1>1, <1>2, <1>3 DEF NoRepeat, Bijection, Injection, Surjection, IsInjective
  <1>5. ExistsBijection(1..Len(s), Lines(s))
    BY <1>4 DEF ExistsBijection
  <1>6. Cardinality(Lines(s)) = Len(s)
    BY <1>1, <1>5, FS_CountingElements
  <1>7. IsFiniteSet(Lines(s))
    BY <1>1, <1>5, FS_NatBijection
  <1> QED
    BY <1>6, <1>7


\* A url is in its own file only, and once.
OwnFiles == \A f \in Files : NoRepeat(file[f]) /\ \A u \in Lines(file[f]) : FileOf(u) = f

\* The stored urls of the files from the k-th on.
StoredFrom(k) == {u \in Urls : Stored(u) /\ \E j \in k..NFiles : FileOf(u) = FileAt(j)}

\* The listing is as long as there are stored urls: each file adds its own.
LEMMA ListingCounts ==
  ASSUME ConstantsOK, FilesTyped, OwnFiles
  PROVE  Len(Listing[1]) = Cardinality({u \in Urls : Stored(u)})
  <1> DEFINE N == NFiles
             S == {k \in 1..N + 1 : Len(Listing[k]) = Cardinality(StoredFrom(k))}
  <1>1. N \in Nat
    BY FilesFacts
  <1>2. N + 1 \in S
    <2>1. Len(Listing[N + 1]) = 0
      BY ListingIs
    <2>2. ~ \E j \in N + 1..N : TRUE
      BY <1>1
    <2>3. StoredFrom(N + 1) = {}
      BY <2>2 DEF StoredFrom
    <2>4. Cardinality(StoredFrom(N + 1)) = 0
      BY <2>3, FS_EmptySet
    <2>5. N + 1 \in 1..N + 1
      BY <1>1
    <2> HIDE DEF N
    <2> QED
      BY <2>1, <2>4, <2>5
  <1>3. \A k \in 1..N : k + 1 \in S => k \in S
    <2> SUFFICES ASSUME NEW k \in 1..N, k + 1 \in S PROVE k \in S
      OBVIOUS
    <2>1. k \in 1..N + 1 /\ k + 1 \in 1..N + 1
      BY <1>1
    <2> DEFINE f == file[FileAt(k)]
    <2>2. f \in Seq(Urls) /\ FileAt(k) \in Files
      BY FileNumbers DEF FilesTyped
    <2>3. NoRepeat(f) /\ \A u \in Lines(f) : FileOf(u) = FileAt(k)
      BY <2>2 DEF OwnFiles
    <2>4. IsFiniteSet(Lines(f)) /\ Cardinality(Lines(f)) = Len(f)
      BY <2>2, <2>3, LinesCounted
    <2>5. Lines(f) \subseteq Urls
      <3>1. \A n \in DOMAIN f : f[n] \in Urls
        BY <2>2
      <3> QED
        BY <3>1 DEF Lines
    <2>6. StoredFrom(k) = StoredFrom(k + 1) \cup Lines(f)
      <3>1. ASSUME NEW u \in StoredFrom(k) PROVE u \in StoredFrom(k + 1) \cup Lines(f)
        <4>1. PICK j \in k..N : FileOf(u) = FileAt(j)
          BY DEF StoredFrom
        <4>2. CASE j = k
          BY <4>1, <4>2 DEF StoredFrom, Stored
        <4>3. CASE j # k
          <5>1. j \in k + 1..N
            BY <4>3, <1>1
          <5> QED
            BY <4>1, <5>1 DEF StoredFrom
        <4> QED
          BY <4>2, <4>3
      <3>2. ASSUME NEW u \in StoredFrom(k + 1) PROVE u \in StoredFrom(k)
        <4>1. PICK j \in k + 1..N : FileOf(u) = FileAt(j)
          BY DEF StoredFrom
        <4>2. j \in k..N
          BY <1>1
        <4> QED
          BY <4>1, <4>2 DEF StoredFrom
      <3>3. ASSUME NEW u \in Lines(f) PROVE u \in StoredFrom(k)
        <4>1. FileOf(u) = FileAt(k) /\ k \in k..N
          BY <1>1, <2>3
        <4> QED
          BY <2>5, <4>1 DEF StoredFrom, Stored
      <3> QED
        BY <3>1, <3>2, <3>3
    <2>7. StoredFrom(k + 1) \cap Lines(f) = {}
      <3> SUFFICES ASSUME NEW u \in StoredFrom(k + 1), u \in Lines(f) PROVE FALSE
        OBVIOUS
      <3>1. PICK j \in k + 1..N : FileOf(u) = FileAt(j)
        BY DEF StoredFrom
      <3>2. FileAt(j) = FileAt(k) /\ j \in 1..N /\ j # k
        BY <1>1, <2>3, <3>1
      <3> QED
        BY <3>2, FileNumbers
    <2>8. IsFiniteSet(StoredFrom(k + 1))
      <3>1. StoredFrom(k + 1) \in SUBSET Urls /\ IsFiniteSet(Urls)
        BY DEF StoredFrom, ConstantsOK
      <3> QED
        BY <3>1, FS_Subset
    <2>9. Cardinality(StoredFrom(k)) = Cardinality(StoredFrom(k + 1)) + Len(f)
      <3>1. Cardinality(StoredFrom(k) ) =
              Cardinality(StoredFrom(k + 1)) + Cardinality(Lines(f))
                - Cardinality(StoredFrom(k + 1) \cap Lines(f))
        BY <2>4, <2>6, <2>8, FS_Union
      <3>2. Cardinality(StoredFrom(k + 1) \cap Lines(f)) = 0
        BY <2>7, FS_EmptySet
      <3>3. Cardinality(StoredFrom(k + 1)) \in Nat /\ Len(f) \in Nat
        BY <2>2, <2>8, FS_CardinalityType
      <3> HIDE DEF f
      <3> QED
        BY <2>4, <3>1, <3>2, <3>3
    <2>10. Len(Listing[k]) = Len(f) + Len(Listing[k + 1])
      <3>1. PICK r \in Seq(Urls) : r = Listing[k + 1]
        BY <2>1, ListingIs
      <3>2. Listing[k] = f \o r
        BY <3>1, ListingIs
      <3>3. \A a, b \in Seq(Urls) : Len(a \o b) = Len(a) + Len(b)
        OBVIOUS
      <3> HIDE DEF f
      <3> QED
        BY <2>2, <3>1, <3>2, <3>3
    <2>11. Len(Listing[k + 1]) = Cardinality(StoredFrom(k + 1))
      OBVIOUS
    <2>12. Cardinality(StoredFrom(k + 1)) \in Nat /\ Len(f) \in Nat
      BY <2>2, <2>8, FS_CardinalityType
    <2>13. Len(Listing[k]) = Cardinality(StoredFrom(k))
      <3> HIDE DEF f
      <3> QED
        BY <2>9, <2>10, <2>11, <2>12
    <2> QED
      BY <2>1, <2>13
  <1>4. 1..N + 1 \subseteq S
    <2> HIDE DEF S
    <2> QED
      BY <1>1, <1>2, <1>3, DownInduction
  <1>5. Len(Listing[1]) = Cardinality(StoredFrom(1))
    <2>1. 1 \in 1..N + 1
      BY <1>1
    <2> QED
      BY <1>4, <2>1
  <1>6. StoredFrom(1) = {u \in Urls : Stored(u)}
    <2>1. ASSUME NEW u \in Urls PROVE \E j \in 1..N : FileOf(u) = FileAt(j)
      <3>1. FileOf(u) \in Files
        BY DEF ConstantsOK
      <3> QED
        BY <3>1, FileNumbers
    <2> QED
      BY <2>1 DEF StoredFrom
  <1> QED
    BY <1>5, <1>6


-----------------------------------------------------------------------------
(* Types                                                                   *)

\* p has changed its file and has yet to count that.
Inside(p) == pc[p] \in {"trunc", "awk", "write", "mv"}

\* The types of all but the files that hold numbers.
TypeOK ==
  /\ scen \in Scenarios
  /\ FilesTyped
  /\ tmp \in Seq(Urls)
  /\ pc \in [Reqs -> PC]
  /\ req \in [Reqs -> Request]
  /\ snap \in [Reqs -> Seq(Urls)]
  /\ at \in [Reqs -> 1..NFiles + 1]
  /\ line_begin \in [Reqs -> Nat]
  /\ need_print \in [Reqs -> Int]
  /\ served \in Nat
  /\ met \in BOOLEAN

\* The files that the names and the redirections stand for.
NodesTyped ==
  /\ node \in [Nodes -> Int]
  /\ cnt \in Nodes
  /\ cnt_tmp \in Nodes \cup {NULL}
  /\ fd \in [Reqs -> Nodes \cup {NULL}]
  /\ val \in [Reqs -> Int]

\* Each step is one of a request of its kind.
Fits ==
  \A p \in Reqs :
    /\ pc[p] = "check" \/ Inside(p) => req[p].op \in {"add", "delete"}
    /\ pc[p] = "append" => req[p].op = "add"
    /\ pc[p] \in {"sed", "sedmv"} => req[p].op = "delete"
    /\ pc[p] \in {"rm", "scan", "show"} => req[p].op = "show"

\* There are two files more than processes, and NULL is none of them.
LEMMA NodesFacts ==
  ASSUME ConstantsOK
  PROVE  /\ Cardinality(Reqs) \in Nat /\ IsFiniteSet(Reqs)
         /\ Nodes = 1..Cardinality(Reqs) + 2
         /\ 1 \in Nodes /\ NULL \notin Nodes
         /\ IsFiniteSet(Nodes) /\ Cardinality(Nodes) = Cardinality(Reqs) + 2
  <1>1. IsFiniteSet(Reqs) /\ NULL \notin Nodes
    BY DEF ConstantsOK
  <1>2. Cardinality(Reqs) \in Nat
    BY <1>1, FS_CardinalityType
  <1>3. Nodes = 1..Cardinality(Reqs) + 2
    BY DEF Nodes
  <1>4. IsFiniteSet(Nodes) /\ Cardinality(Nodes) = Cardinality(Reqs) + 2
    <2>1. PICK n \in Nat : n = Cardinality(Reqs)
      BY <1>2
    <2>2. PICK m \in Int : m = n + 2 /\ ~(1 > m) /\ m - 1 + 1 = m
      OBVIOUS
    <2>3. IsFiniteSet(1..m) /\ Cardinality(1..m) = m
      <3>1. 1 \in Int
        OBVIOUS
      <3>2. IsFiniteSet(1..m) /\ Cardinality(1..m) = IF 1 > m THEN 0 ELSE m - 1 + 1
        BY <3>1, FS_Interval
      <3> QED
        BY <2>2, <3>2
    <2> QED
      BY <1>3, <2>1, <2>2, <2>3
  <1> QED
    BY <1>1, <1>2, <1>3, <1>4

\* There is a file for a process that makes url_cnt_tmp: each process has at most
\* one open, and one has the name url_cnt.
LEMMA NodeLeft ==
  ASSUME ConstantsOK, NodesTyped, cnt_tmp = NULL
  PROVE  (CHOOSE n \in Nodes : n \notin InUse) \in Nodes \ InUse
  <1> DEFINE F == {fd[p] : p \in Reqs}
             C == F \cup {cnt}
  <1>1. IsFiniteSet(F) /\ Cardinality(F) <= Cardinality(Reqs)
    <2>1. IsFiniteSet(Reqs)
      BY NodesFacts
    <2>2. fd \in Surjection(Reqs, F)
      <3>1. fd \in [Reqs -> F]
        BY DEF NodesTyped
      <3> QED
        BY <3>1 DEF Surjection
    <2> HIDE DEF F
    <2> QED
      BY <2>1, <2>2, FS_Surjection
  <1>2. IsFiniteSet(C) /\ Cardinality(C) <= Cardinality(F) + 1
    <2>1. Cardinality(F) \in Nat
      BY <1>1, FS_CardinalityType
    <2>2. /\ IsFiniteSet(F \cup {cnt})
          /\ Cardinality(F \cup {cnt}) = IF cnt \in F THEN Cardinality(F) ELSE Cardinality(F) + 1
      BY <1>1, FS_AddElement
    <2> HIDE DEF F
    <2> QED
      BY <2>1, <2>2
  <1>3. ~(Nodes \subseteq C)
    <2> SUFFICES ASSUME Nodes \subseteq C PROVE FALSE
      OBVIOUS
    <2>1. Cardinality(Nodes) <= Cardinality(C)
      <3>1. Nodes \in SUBSET C
        OBVIOUS
      <3> HIDE DEF C
      <3> QED
        BY <1>2, <3>1, FS_Subset
    <2>2. Cardinality(C) \in Nat /\ Cardinality(F) \in Nat
      BY <1>1, <1>2, FS_CardinalityType
    <2> HIDE DEF C, F
    <2> QED
      BY <1>1, <1>2, <2>1, <2>2, NodesFacts
  <1>4. PICK n \in Nodes : n \notin C
    BY <1>3
  <1>5. n \notin InUse
    <2>1. n # NULL
      BY NodesFacts
    <2> QED
      BY <1>4, <2>1 DEF InUse
  <1> QED
    BY <1>5


\* A finite set as a sequence.
LEMMA SequenceOf ==
  ASSUME NEW S, IsFiniteSet(S), NEW s, s = SetToSeq(S)
  PROVE  s \in Seq(S) /\ NoRepeat(s) /\ Lines(s) = S
  <1>1. PICK n \in Nat : n = Cardinality(S)
    BY FS_CardinalityType
  <1>2. ExistsBijection(1..n, S)
    BY <1>1, FS_CardinalityType
  <1>3. PICK g \in [1..n -> S] : IsInjective(g)
    BY <1>2 DEF ExistsBijection, Bijection, Injection
  <1>5. s \in [1..n -> S] /\ IsInjective(s)
    <2>1. s = CHOOSE f \in [1..n -> S] : IsInjective(f)
      BY <1>1 DEF SetToSeq
    <2> QED
      BY <1>3, <2>1
  <1>6. NoRepeat(s)
    BY <1>5 DEF NoRepeat, IsInjective
  <1>7. s \in Seq(S) /\ Len(s) = n
    BY <1>5
  <1>8. IsFiniteSet(Lines(s)) /\ Cardinality(Lines(s)) = n
    BY <1>6, <1>7, LinesCounted
  <1>9. Lines(s) \in SUBSET S
    BY <1>5 DEF Lines
  <1>10. Lines(s) = S
    BY <1>1, <1>8, <1>9, FS_Subset
  <1> QED
    BY <1>6, <1>7, <1>10

\* md5_divide.sh puts each url into its file, once.
LEMMA InitFiles ==
  ASSUME ConstantsOK, NEW S \in SUBSET Urls,
         file = [f \in Files |-> SetToSeq({u \in S : FileOf(u) = f})]
  PROVE  FilesTyped /\ OwnFiles /\ \A u \in Urls : Stored(u) <=> u \in S
  <1>1. IsFiniteSet(Urls)
    BY DEF ConstantsOK
  <1>2. ASSUME NEW f \in Files
        PROVE  /\ file[f] \in Seq(Urls) /\ NoRepeat(file[f])
               /\ Lines(file[f]) = {u \in S : FileOf(u) = f}
    <2> DEFINE T == {u \in S : FileOf(u) = f}
    <2>1. T \in SUBSET Urls /\ IsFiniteSet(T)
      <3>1. T \in SUBSET Urls
        OBVIOUS
      <3> HIDE DEF T
      <3> QED
        BY <1>1, <3>1, FS_Subset
    <2>2. file[f] = SetToSeq(T)
      OBVIOUS
    <2>3. PICK s : s = file[f]
      OBVIOUS
    <2>4. s \in Seq(T) /\ NoRepeat(s) /\ Lines(s) = T
      <3> HIDE DEF T
      <3> QED
        BY <2>1, <2>2, <2>3, SequenceOf
    <2>5. s \in Seq(Urls)
      <3> HIDE DEF T
      <3> QED
        BY <2>1, <2>4
    <2> QED
      BY <2>3, <2>4, <2>5
  <1>3. FilesTyped
    <2>1. file = [f \in Files |-> file[f]]
      OBVIOUS
    <2> QED
      BY <1>2, <2>1 DEF FilesTyped
  <1>4. OwnFiles
    BY <1>2 DEF OwnFiles
  <1>5. ASSUME NEW u \in Urls PROVE Stored(u) <=> u \in S
    <2>1. FileOf(u) \in Files
      BY DEF ConstantsOK
    <2> QED
      BY <1>2, <2>1 DEF Stored
  <1> QED
    BY <1>3, <1>4, <1>5

\* The first state has the types.
LEMMA InitTypes ==
  ASSUME ConstantsOK, Init
  PROVE  TypeOK /\ NodesTyped /\ Fits
  <1>1. PICK S \in SUBSET Urls :
          /\ file = [f \in Files |-> SetToSeq({u \in S : FileOf(u) = f})]
          /\ node = [n \in Nodes |-> IF n = 1 THEN Cardinality(S) ELSE Blank]
    BY DEF Init
  <1>2. FilesTyped
    BY <1>1, InitFiles
  <1>3. Cardinality(S) \in Nat
    <2>1. IsFiniteSet(Urls)
      BY DEF ConstantsOK
    <2>2. IsFiniteSet(S)
      BY <2>1, FS_Subset
    <2> QED
      BY <2>2, FS_CardinalityType
  <1>4. node \in [Nodes -> Int]
    BY <1>1, <1>3 DEF Blank
  <1>5. 1 \in Nodes
    BY NodesFacts
  <1>6. 1 \in 1..NFiles + 1
    BY FilesFacts
  <1>7. [op |-> "add", url |-> CHOOSE u \in Urls : TRUE, cur |-> 1, per |-> 1] \in Request
    <2>1. (CHOOSE u \in Urls : TRUE) \in Urls
      BY DEF ConstantsOK
    <2>2. 1 \in 1..MaxPage
      BY DEF ConstantsOK
    <2> QED
      BY <2>1, <2>2 DEF Request, Ops
  <1>8. TypeOK
    <2>1. req \in [Reqs -> Request]
      <3>1. PICK r \in Request :
              r = [op |-> "add", url |-> CHOOSE u \in Urls : TRUE, cur |-> 1, per |-> 1]
        BY <1>7
      <3>2. req \in [Reqs -> {r}]
        BY <3>1 DEF Init
      <3> QED
        BY <3>2
    <2>2. /\ scen \in Scenarios /\ tmp \in Seq(Urls) /\ snap \in [Reqs -> Seq(Urls)]
          /\ line_begin \in [Reqs -> Nat] /\ need_print \in [Reqs -> Int]
          /\ served \in Nat /\ met \in BOOLEAN
      <3>1. <<>> \in Seq(Urls)
        OBVIOUS
      <3>2. tmp = <<>> /\ snap = [p \in Reqs |-> <<>>]
        BY DEF Init
      <3>3. scen \in Scenarios /\ served = 0 /\ met = FALSE
        BY DEF Init
      <3>4. line_begin \in [Reqs -> Nat] /\ need_print \in [Reqs -> Int]
        BY DEF Init
      <3> QED
        BY <3>1, <3>2, <3>3, <3>4
    <2>3. pc \in [Reqs -> PC]
      BY DEF Init, PC
    <2>4. at \in [Reqs -> 1..NFiles + 1]
      BY <1>6 DEF Init
    <2> QED
      BY <1>2, <2>1, <2>2, <2>3, <2>4 DEF TypeOK
  <1>9. NodesTyped
    BY <1>4, <1>5 DEF Init, NodesTyped, Blank
  <1>10. Fits
    BY DEF Init, Fits, Inside
  <1> QED
    BY <1>8, <1>9, <1>10

\* The parts of a request.
LEMMA RequestFacts ==
  ASSUME NEW r \in Request
  PROVE  r.op \in Ops /\ r.url \in Urls /\ r.cur \in 1..MaxPage /\ r.per \in 1..MaxPage
  BY DEF Request

\* s has the lines of g that are not u, in their order: as many as g has of them, of
\* places that go up.
Sifted(s, g, u) ==
  \E n \in Nat : \E place \in [1..n -> DOMAIN g] :
    /\ Len(s) = n
    /\ \A k, m \in 1..n : k < m => place[k] < place[m]
    /\ \A k \in 1..n : s[k] = g[place[k]] /\ s[k] # u
    /\ n = Cardinality({k \in DOMAIN g : g[k] # u})

\* What sed has read is the file without the url.
LEMMA SedFacts ==
  ASSUME ConstantsOK, TypeOK, NEW p \in Reqs, SedRead(p),
         NEW g, g = file[FileOf(req[p].url)]
  PROVE  \E s \in Seq(Urls) : snap' = [snap EXCEPT ![p] = s] /\ Sifted(s, g, req[p].url)
  <1> DEFINE kept == {k \in DOMAIN file[FileOf(req[p].url)] : file[FileOf(req[p].url)][k] # req[p].url}
  <1>0. kept = {k \in DOMAIN g : g[k] # req[p].url}
    OBVIOUS
  <1>1. req[p].url \in Urls /\ FileOf(req[p].url) \in Files
    <2>1. req[p] \in Request
      BY DEF TypeOK
    <2> QED
      BY <2>1, RequestFacts DEF ConstantsOK
  <1>2. g \in Seq(Urls)
    BY <1>1 DEF TypeOK, FilesTyped
  <1>3. PICK place \in [1..Cardinality(kept) -> kept] :
          /\ \A k, m \in DOMAIN place : k < m => place[k] < place[m]
          /\ snap' = [snap EXCEPT ![p] = [k \in DOMAIN place |-> g[place[k]]]]
    <2>1. \E place \in [1..Cardinality(kept) -> kept] :
            /\ \A k, m \in DOMAIN place : k < m => place[k] < place[m]
            /\ snap' = [snap EXCEPT ![p] = [k \in DOMAIN place |-> file[FileOf(req[p].url)][place[k]]]]
      BY DEF SedRead
    <2> HIDE DEF kept
    <2> QED
      BY <2>1
  <1>4. Cardinality(kept) \in Nat
    <2>1. IsFiniteSet(DOMAIN g)
      <3>1. DOMAIN g = 1..Len(g) /\ Len(g) \in Int /\ 1 \in Int
        BY <1>2
      <3> QED
        BY <3>1, FS_Interval
    <2>2. kept \in SUBSET DOMAIN g
      BY <1>0
    <2> HIDE DEF kept
    <2>3. IsFiniteSet(kept)
      BY <2>1, <2>2, FS_Subset
    <2> QED
      BY <2>3, FS_CardinalityType
  <1>5. PICK n \in Nat : n = Cardinality(kept)
    BY <1>4
  <1> DEFINE s == [k \in 1..n |-> g[place[k]]]
  <1>6. place \in [1..n -> DOMAIN g] /\ \A k \in 1..n : place[k] \in kept
    BY <1>3, <1>5
  <1>7. \A k \in 1..n : g[place[k]] \in Urls
    <2>1. \A x \in DOMAIN g : g[x] \in Urls
      BY <1>2
    <2>2. \A k \in 1..n : place[k] \in DOMAIN g
      BY <1>6
    <2> QED
      BY <2>1, <2>2
  <1>8. s \in Seq(Urls) /\ Len(s) = n
    <2>1. \A h \in [1..n -> Urls] : h \in Seq(Urls) /\ Len(h) = n
      OBVIOUS
    <2>2. s \in [1..n -> Urls]
      BY <1>7
    <2> HIDE DEF s
    <2> QED
      BY <2>1, <2>2
  <1>9. DOMAIN place = 1..n
    BY <1>6
  <1>10. snap' = [snap EXCEPT ![p] = s]
    BY <1>3, <1>9
  <1>11. \A k \in 1..n : s[k] = g[place[k]] /\ s[k] # req[p].url
    BY <1>6
  <1>12. n = Cardinality({k \in DOMAIN g : g[k] # req[p].url})
    BY <1>0, <1>5
  <1>13. \A k, m \in 1..n : k < m => place[k] < place[m]
    BY <1>3, <1>9
  <1> HIDE DEF s
  <1>14. Sifted(s, g, req[p].url)
    BY <1>6, <1>8, <1>11, <1>12, <1>13 DEF Sifted
  <1> QED
    BY <1>8, <1>10, <1>14


\* A process that goes on to a step of the scripts leaves the others where they are.
LEMMA GotoType ==
  ASSUME TypeOK, NEW p \in Reqs, NEW label \in PC, Goto(p, label)
  PROVE  /\ pc' \in [Reqs -> PC] /\ pc'[p] = label
         /\ \A q \in Reqs : q # p => pc'[q] = pc[q]
  BY DEF TypeOK, Goto

\* The parts of the request that p serves, and its file.
LEMMA RequestOf ==
  ASSUME ConstantsOK, TypeOK, NEW p \in Reqs
  PROVE  /\ req[p] \in Request
         /\ req[p].url \in Urls /\ FileOf(req[p].url) \in Files
         /\ file[FileOf(req[p].url)] \in Seq(Urls)
         /\ req[p].cur \in 1..MaxPage /\ req[p].per \in 1..MaxPage /\ MaxPage \in Nat
  <1>1. req[p] \in Request
    BY DEF TypeOK
  <1>2. /\ req[p].url \in Urls
        /\ req[p].cur \in 1..MaxPage /\ req[p].per \in 1..MaxPage
    BY <1>1, RequestFacts
  <1>3. FileOf(req[p].url) \in Files /\ MaxPage \in Nat
    BY <1>2 DEF ConstantsOK
  <1> QED
    BY <1>1, <1>2, <1>3 DEF TypeOK, FilesTyped

\* A new request keeps the types,
LEMMA BeginTypes ==
  ASSUME ConstantsOK, TypeOK, NEW p \in Reqs, Begin(p)
  PROVE  TypeOK'
  <1>1. PICK r \in Request :
          /\ req' = [req EXCEPT ![p] = r]
          /\ Goto(p, IF r.op = "show" THEN "rm" ELSE "check")
    BY DEF Begin
  <1>2. (IF r.op = "show" THEN "rm" ELSE "check") \in PC
    BY DEF PC
  <1>3. pc' \in [Reqs -> PC]
    BY <1>1, <1>2, GotoType
  <1>4. req' \in [Reqs -> Request]
    BY <1>1 DEF TypeOK
  <1>5. served' \in Nat
    BY DEF Begin, TypeOK
  <1> QED
    BY <1>3, <1>4, <1>5 DEF Begin, TypeOK, FilesTyped, show, count

\* so do the steps that look at a file and change it,
LEMMA EditTypes ==
  ASSUME ConstantsOK, TypeOK, NEW p \in Reqs,
         Check(p) \/ AppendUrl(p) \/ SedRead(p) \/ SedRename(p)
  PROVE  TypeOK'
  <1>1. CASE Check(p)
    <2>1. \E label \in PC : Goto(p, label)
      BY <1>1 DEF Check, PC
    <2>2. pc' \in [Reqs -> PC]
      BY <2>1, GotoType
    <2> QED
      BY <1>1, <2>2 DEF Check, TypeOK, FilesTyped, show, count
  <1>2. CASE AppendUrl(p)
    <2>1. pc' \in [Reqs -> PC]
      BY <1>2, GotoType DEF AppendUrl, PC
    <2>2. Append(file[FileOf(req[p].url)], req[p].url) \in Seq(Urls)
      <3>1. \A s \in Seq(Urls), u \in Urls : Append(s, u) \in Seq(Urls)
        OBVIOUS
      <3> QED
        BY <3>1, RequestOf
    <2>3. FilesTyped'
      BY <1>2, <2>2 DEF AppendUrl, TypeOK, FilesTyped
    <2> QED
      BY <1>2, <2>1, <2>3 DEF AppendUrl, TypeOK, show, count
  <1>3. CASE SedRead(p)
    <2>1. pc' \in [Reqs -> PC]
      BY <1>3, GotoType DEF SedRead, PC
    <2>2. snap' \in [Reqs -> Seq(Urls)]
      <3>1. PICK g : g = file[FileOf(req[p].url)]
        OBVIOUS
      <3>2. \E s \in Seq(Urls) : snap' = [snap EXCEPT ![p] = s]
        BY <1>3, <3>1, SedFacts
      <3> QED
        BY <3>2 DEF TypeOK
    <2> QED
      BY <1>3, <2>1, <2>2 DEF SedRead, TypeOK, FilesTyped, show, count
  <1>4. CASE SedRename(p)
    <2>1. pc' \in [Reqs -> PC]
      BY <1>4, GotoType DEF SedRename, PC
    <2>2. FilesTyped'
      <3>1. snap[p] \in Seq(Urls)
        BY DEF TypeOK
      <3> QED
        BY <1>4, <3>1 DEF SedRename, TypeOK, FilesTyped
    <2> QED
      BY <1>4, <2>1, <2>2 DEF SedRename, TypeOK, show, count
  <1> QED
    BY <1>1, <1>2, <1>3, <1>4

\* those of add_url_cnt.sh,
LEMMA CountTypes ==
  ASSUME ConstantsOK, TypeOK, NEW p \in Reqs,
         OpenTmp(p) \/ AwkRead(p) \/ AwkWrite(p) \/ Move(p)
  PROVE  TypeOK'
  <1>1. \E label \in PC : Goto(p, label)
    BY DEF OpenTmp, AwkRead, AwkWrite, Move, PC
  <1>2. pc' \in [Reqs -> PC]
    BY <1>1, GotoType
  <1>3. met' \in BOOLEAN
    BY DEF OpenTmp, AwkRead, AwkWrite, Move, TypeOK
  <1>4. UNCHANGED <<scen, file, show, req, snap, served>>
    BY DEF OpenTmp, AwkRead, AwkWrite, Move
  <1> QED
    BY <1>2, <1>3, <1>4 DEF TypeOK, FilesTyped, show

\* and those of get_show_urls.sh.
LEMMA ShowTypes ==
  ASSUME ConstantsOK, TypeOK, NEW p \in Reqs,
         RemoveTmp(p) \/ Scan(p) \/ ScanEnds(p) \/ Show(p)
  PROVE  TypeOK'
  <1>1. CASE RemoveTmp(p)
    <2>1. pc' \in [Reqs -> PC]
      BY <1>1, GotoType DEF RemoveTmp, PC
    <2>2. tmp' \in Seq(Urls) /\ at' \in [Reqs -> 1..NFiles + 1]
      <3>1. 1 \in 1..NFiles + 1
        BY FilesFacts
      <3>2. <<>> \in Seq(Urls)
        OBVIOUS
      <3> QED
        BY <1>1, <3>1, <3>2 DEF RemoveTmp, TypeOK
    <2>3. req[p].per * (req[p].cur - 1) + 1 \in Nat /\ req[p].per \in Int
      <3>1. \A a, b \in Nat : a * b + 1 \in Nat
        OBVIOUS
      <3>2. req[p].per \in Nat /\ req[p].cur - 1 \in Nat
        BY RequestOf
      <3> QED
        BY <3>1, <3>2
    <2>4. line_begin' \in [Reqs -> Nat] /\ need_print' \in [Reqs -> Int]
      BY <1>1, <2>3 DEF RemoveTmp, TypeOK
    <2> QED
      BY <1>1, <2>1, <2>2, <2>4 DEF RemoveTmp, TypeOK, FilesTyped, count
  <1>2. CASE Scan(p)
    <2> DEFINE lines == file[FileAt(at[p])]
               to == IF line_begin[p] + need_print[p] <= Len(lines)
                     THEN line_begin[p] + need_print[p] ELSE Len(lines)
               more == tmp \o SubSeq(lines, line_begin[p] + 1, to)
    <2>1. at[p] \in 1..NFiles /\ at[p] + 1 \in 1..NFiles + 1
      BY <1>2, FilesFacts DEF Scan, TypeOK
    <2>2. lines \in Seq(Urls)
      BY <2>1, FileNumbers DEF TypeOK, FilesTyped
    <2>3. line_begin[p] \in Nat /\ need_print[p] \in Int /\ tmp \in Seq(Urls)
      BY DEF TypeOK
    <2>4. more \in Seq(Urls) /\ Len(more) \in Nat
      <3>1. \A s \in Seq(Urls) : \A a \in Nat, b \in Int : b <= Len(s) => SubSeq(s, a + 1, b) \in Seq(Urls)
        OBVIOUS
      <3>2. to \in Int /\ to <= Len(lines)
        <4>1. Len(lines) \in Int
          BY <2>2
        <4> HIDE DEF lines
        <4> QED
          BY <4>1, <2>3
      <3>3. \A s, t \in Seq(Urls) : s \o t \in Seq(Urls) /\ Len(s) \in Nat
        OBVIOUS
      <3>4. SubSeq(lines, line_begin[p] + 1, to) \in Seq(Urls)
        <4> HIDE DEF lines, to
        <4> QED
          BY <2>2, <2>3, <3>1, <3>2
      <3> HIDE DEF lines, to
      <3> QED
        BY <2>3, <3>3, <3>4
    <2>5. at' \in [Reqs -> 1..NFiles + 1]
      BY <1>2, <2>1 DEF Scan, TypeOK
    <2>6. \/ /\ line_begin[p] > Len(lines)
             /\ line_begin' = [line_begin EXCEPT ![p] = @ - Len(lines)]
             /\ UNCHANGED <<tmp, need_print, pc>>
          \/ /\ tmp' = more
             /\ line_begin' = [line_begin EXCEPT ![p] = 0]
             /\ need_print' = [need_print EXCEPT ![p] = req[p].per - Len(more)]
             /\ Goto(p, IF Len(more) >= req[p].per THEN "show" ELSE "scan")
      BY <1>2 DEF Scan
    <2>7. /\ tmp' \in Seq(Urls) /\ pc' \in [Reqs -> PC]
          /\ line_begin' \in [Reqs -> Nat] /\ need_print' \in [Reqs -> Int]
      <3>1. CASE /\ line_begin[p] > Len(lines)
                 /\ line_begin' = [line_begin EXCEPT ![p] = @ - Len(lines)]
                 /\ UNCHANGED <<tmp, need_print, pc>>
        <4>1. PICK n \in Nat : n = Len(lines)
          BY <2>2
        <4>2. line_begin[p] - n \in Nat
          BY <2>3, <3>1, <4>1
        <4> HIDE DEF lines
        <4>3. line_begin' = [line_begin EXCEPT ![p] = line_begin[p] - n]
          BY <3>1, <4>1
        <4> QED
          BY <3>1, <4>2, <4>3 DEF TypeOK
      <3>2. CASE /\ tmp' = more
                 /\ line_begin' = [line_begin EXCEPT ![p] = 0]
                 /\ need_print' = [need_print EXCEPT ![p] = req[p].per - Len(more)]
                 /\ Goto(p, IF Len(more) >= req[p].per THEN "show" ELSE "scan")
        <4>1. \E label \in PC : Goto(p, label)
          BY <3>2 DEF PC
        <4>2. pc' \in [Reqs -> PC]
          BY <4>1, GotoType
        <4> HIDE DEF more
        <4>3. req[p].per - Len(more) \in Int
          BY <2>4, RequestOf
        <4> QED
          BY <2>4, <3>2, <4>2, <4>3 DEF TypeOK
      <3> HIDE DEF more, lines
      <3> QED
        BY <2>6, <3>1, <3>2
    <2>8. UNCHANGED <<scen, file, count, req, snap, served, met>>
      BY <1>2 DEF Scan
    <2> HIDE DEF more, to, lines
    <2> QED
      BY <2>5, <2>7, <2>8 DEF TypeOK, FilesTyped
  <1>3. CASE ScanEnds(p)
    BY <1>3, GotoType DEF ScanEnds, PC, TypeOK, FilesTyped, show, count
  <1>4. CASE Show(p)
    BY <1>4, GotoType DEF Show, PC, TypeOK, FilesTyped, show, count
  <1> QED
    BY <1>1, <1>2, <1>3, <1>4

\* Every step keeps the types.
LEMMA NextTypes ==
  ASSUME ConstantsOK, TypeOK, [Next]_vars
  PROVE  TypeOK'
  <1>1. CASE UNCHANGED vars
    BY <1>1 DEF vars, show, TypeOK, FilesTyped
  <1>2. ASSUME NEW p \in Reqs, Begin(p) \/ Step(p) PROVE TypeOK'
    BY <1>2, BeginTypes, EditTypes, CountTypes, ShowTypes DEF Step
  <1> QED
    BY <1>1, <1>2 DEF Next

\* Every step is one of a request of its kind.
LEMMA NextFits ==
  ASSUME ConstantsOK, TypeOK, Fits, NEW p \in Reqs, Begin(p) \/ Step(p)
  PROVE  Fits'
  <1>1. TypeOK'
    BY NextTypes DEF Next
  <1>2. CASE Begin(p)
    <2>1. PICK r \in Request :
            /\ req' = [req EXCEPT ![p] = r]
            /\ Goto(p, IF r.op = "show" THEN "rm" ELSE "check")
      BY <1>2 DEF Begin
    <2>2. r.op \in Ops
      BY RequestFacts
    <2>3. req'[p] = r /\ \A q \in Reqs : q # p => req'[q] = req[q]
      BY <2>1 DEF TypeOK
    <2>4. /\ pc'[p] = (IF r.op = "show" THEN "rm" ELSE "check")
          /\ \A q \in Reqs : q # p => pc'[q] = pc[q]
      BY <2>1 DEF TypeOK, Goto
    <2> QED
      BY <2>2, <2>3, <2>4 DEF Fits, Inside, Ops
  <1>3. CASE Step(p)
    <2>1. req' = req
      BY <1>3 DEF Step, Check, AppendUrl, SedRead, SedRename, OpenTmp, AwkRead, AwkWrite, Move,
                  RemoveTmp, Scan, ScanEnds, Show
    <2>2. \A q \in Reqs : q # p => pc'[q] = pc[q]
      BY <1>3 DEF Step, Check, AppendUrl, SedRead, SedRename, OpenTmp, AwkRead, AwkWrite, Move,
                  RemoveTmp, Scan, ScanEnds, Show, Goto, TypeOK
    <2>3. req[p].op \in Ops
      BY RequestOf, RequestFacts
    <2>4. \/ /\ pc[p] = "check"
             /\ pc'[p] \in {"free", IF req[p].op = "add" THEN "append" ELSE "sed"}
          \/ pc[p] \in {"append", "sedmv"} /\ pc'[p] = "trunc"
          \/ pc[p] = "sed" /\ pc'[p] = "sedmv"
          \/ Inside(p) /\ pc'[p] \in {"free", "awk", "write", "mv"}
          \/ pc[p] \in {"rm", "scan", "show"} /\ pc'[p] \in {"free", "scan", "show"}
      BY <1>3 DEF Step, Check, AppendUrl, SedRead, SedRename, OpenTmp, AwkRead, AwkWrite, Move,
                  RemoveTmp, Scan, ScanEnds, Show, Goto, TypeOK, Inside
    <2>5. ASSUME NEW q \in Reqs, q # p
          PROVE  /\ pc'[q] = "check" \/ Inside(q)' => req'[q].op \in {"add", "delete"}
                 /\ pc'[q] = "append" => req'[q].op = "add"
                 /\ pc'[q] \in {"sed", "sedmv"} => req'[q].op = "delete"
                 /\ pc'[q] \in {"rm", "scan", "show"} => req'[q].op = "show"
      BY <2>1, <2>2, <2>5 DEF Fits, Inside
    <2>6. /\ pc'[p] = "check" \/ Inside(p)' => req'[p].op \in {"add", "delete"}
          /\ pc'[p] = "append" => req'[p].op = "add"
          /\ pc'[p] \in {"sed", "sedmv"} => req'[p].op = "delete"
          /\ pc'[p] \in {"rm", "scan", "show"} => req'[p].op = "show"
      BY <2>1, <2>3, <2>4 DEF Fits, Inside, Ops
    <2> QED
      BY <2>5, <2>6 DEF Fits
  <1> QED
    BY <1>2, <1>3


-----------------------------------------------------------------------------
(* Requests at the same time on different files                            *)

\* The file of p's request.
Own(p) == FileOf(req[p].url)

\* No two requests under way have the same file, and a request to show is alone.
Apart == \A p, q \in Busy : p # q => Own(p) # Own(q) /\ req[p].op # "show"

\* What a script has found of its url stays true up to its end.
Edits ==
  \A p \in Reqs :
    /\ pc[p] = "append" => ~Stored(req[p].url)
    /\ pc[p] \in {"sed", "sedmv"} => Stored(req[p].url)
    /\ pc[p] = "sedmv" =>
         NoRepeat(snap[p]) /\ Lines(snap[p]) = Lines(file[Own(p)]) \ {req[p].url}
    /\ Inside(p) => (Stored(req[p].url) <=> req[p].op = "add")

\* A step is one of a process that is busy, and leaves the others and their requests.
LEMMA StepFacts ==
  ASSUME ConstantsOK, TypeOK, NEW p \in Reqs, Step(p)
  PROVE  /\ pc[p] # "free" /\ scen' = scen /\ req' = req
         /\ \A q \in Reqs : q # p => pc'[q] = pc[q] /\ snap'[q] = snap[q]
  <1>1. pc[p] # "free" /\ scen' = scen /\ req' = req
    BY DEF Step, Check, AppendUrl, SedRead, SedRename, OpenTmp, AwkRead, AwkWrite, Move,
           RemoveTmp, Scan, ScanEnds, Show
  <1>2. \A q \in Reqs : q # p => pc'[q] = pc[q]
    BY DEF Step, Check, AppendUrl, SedRead, SedRename, OpenTmp, AwkRead, AwkWrite, Move,
           RemoveTmp, Scan, ScanEnds, Show, Goto, TypeOK
  <1>3. \A q \in Reqs : q # p => snap'[q] = snap[q]
    <2>1. CASE SedRead(p)
      <3>1. PICK g : g = file[FileOf(req[p].url)]
        OBVIOUS
      <3>2. PICK s \in Seq(Urls) : snap' = [snap EXCEPT ![p] = s]
        BY <2>1, <3>1, SedFacts
      <3> QED
        BY <3>2 DEF TypeOK
    <2>2. CASE ~SedRead(p)
      BY <2>2 DEF Step, Check, AppendUrl, SedRename, OpenTmp, AwkRead, AwkWrite, Move,
             RemoveTmp, Scan, ScanEnds, Show
    <2> QED
      BY <2>1, <2>2
  <1> QED
    BY <1>1, <1>2, <1>3

\* A request begins as the scenario says.
LEMMA BeginFacts ==
  ASSUME ConstantsOK, TypeOK, NEW p \in Reqs, Begin(p)
  PROVE  /\ pc[p] = "free" /\ pc'[p] \in {"check", "rm"}
         /\ UNCHANGED <<scen, file, node, cnt, cnt_tmp, fd, val, snap, tmp, at, line_begin, need_print, met>>
         /\ \A q \in Reqs : q # p => pc'[q] = pc[q] /\ req'[q] = req[q]
         /\ pc'[p] = "rm" <=> req'[p].op = "show"
         /\ scen = "alone" => Busy = {}
         /\ scen = "apart" =>
              /\ \A q \in Busy : Own(q) # FileOf(req'[p].url) /\ req[q].op # "show"
              /\ req'[p].op = "show" => Busy = {}
  <1>1. PICK r \in Request :
          /\ req' = [req EXCEPT ![p] = r]
          /\ Goto(p, IF r.op = "show" THEN "rm" ELSE "check")
          /\ scen = "alone" => Busy = {}
          /\ scen = "apart" =>
               /\ \A q \in Busy : FileOf(req[q].url) # FileOf(r.url)
               /\ r.op = "show" => Busy = {}
               /\ \A q \in Busy : req[q].op # "show"
    BY DEF Begin
  <1>2. req'[p] = r /\ \A q \in Reqs : q # p => req'[q] = req[q]
    BY <1>1 DEF TypeOK
  <1>3. /\ pc'[p] = (IF r.op = "show" THEN "rm" ELSE "check")
        /\ \A q \in Reqs : q # p => pc'[q] = pc[q]
    BY <1>1 DEF TypeOK, Goto
  <1>4. pc[p] = "free"
    BY DEF Begin
  <1>5. UNCHANGED <<scen, file, node, cnt, cnt_tmp, fd, val, snap, tmp, at, line_begin, need_print, met>>
    BY DEF Begin, count, show
  <1> QED
    BY <1>1, <1>2, <1>3, <1>4, <1>5 DEF Own

\* Requests that begin apart stay apart.
LEMMA NextApart ==
  ASSUME ConstantsOK, TypeOK, scen # "any", Apart, NEW p \in Reqs, Begin(p) \/ Step(p)
  PROVE  Apart'
  <1>1. CASE Step(p)
    <2>1. \A q \in Reqs : q \in Busy' => q \in Busy
      BY <1>1, StepFacts DEF Busy
    <2>2. req' = req
      BY <1>1, StepFacts
    <2>3. Busy' \subseteq Reqs
      BY DEF Busy
    <2> QED
      BY <2>1, <2>2, <2>3 DEF Apart, Own
  <1>2. CASE Begin(p)
    <2>1. \A q \in Busy' : q \in Reqs /\ (q = p \/ q \in Busy)
      BY <1>2, BeginFacts DEF Busy
    <2>2. p \notin Busy
      BY <1>2, BeginFacts DEF Busy
    <2>3. scen = "alone" \/ scen = "apart"
      BY DEF TypeOK, ConstantsOK, Scenario
    <2>4. \A q \in Busy : q \in Reqs /\ req'[q] = req[q]
      BY <1>2, <2>2, BeginFacts DEF Busy
    <2>5. \A q \in Busy : Own(q) # FileOf(req'[p].url) /\ req[q].op # "show" /\ req'[p].op # "show"
      BY <1>2, <2>3, BeginFacts
    <2>6. \A q \in Busy : Own(q)' = Own(q)
      BY <2>4 DEF Own
    <2>7. Own(p)' = FileOf(req'[p].url)
      BY DEF Own
    <2>8. ASSUME NEW q \in Busy', NEW r \in Busy', q # r PROVE Own(q)' # Own(r)' /\ req'[q].op # "show"
      <3>1. CASE q = p
        BY <2>1, <2>5, <2>6, <2>7, <2>8, <3>1
      <3>2. CASE r = p
        BY <2>1, <2>4, <2>5, <2>6, <2>7, <2>8, <3>2
      <3>3. CASE q # p /\ r # p
        BY <2>1, <2>4, <2>6, <2>8, <3>3 DEF Apart
      <3> QED
        BY <3>1, <3>2, <3>3
    <2> QED
      BY <2>8 DEF Apart
  <1> QED
    BY <1>1, <1>2

\* sed keeps the other lines, each once.
LEMMA KeptLines ==
  ASSUME NEW g \in Seq(Urls), NoRepeat(g), NEW u, NEW s \in Seq(Urls), Sifted(s, g, u)
  PROVE  NoRepeat(s) /\ Lines(s) = Lines(g) \ {u}
  <1>0. PICK n \in Nat : \E place \in [1..n -> DOMAIN g] :
          /\ Len(s) = n
          /\ \A k, m \in 1..n : k < m => place[k] < place[m]
          /\ \A k \in 1..n : s[k] = g[place[k]] /\ s[k] # u
          /\ n = Cardinality({k \in DOMAIN g : g[k] # u})
    BY DEF Sifted
  <1>11. PICK place \in [1..n -> DOMAIN g] :
          /\ Len(s) = n
          /\ \A k, m \in 1..n : k < m => place[k] < place[m]
          /\ \A k \in 1..n : s[k] = g[place[k]] /\ s[k] # u
          /\ n = Cardinality({k \in DOMAIN g : g[k] # u})
    BY <1>0
  <1> DEFINE kept == {k \in DOMAIN g : g[k] # u}
  <1>1. DOMAIN s = 1..n /\ DOMAIN g = 1..Len(g) /\ Len(g) \in Nat
    BY <1>11
  <1>2. \A k, m \in 1..n : place[k] = place[m] => k = m
    <2>1. \A k \in 1..n : place[k] \in Nat
      BY <1>1
    <2>2. \A k, m \in 1..n : k < m \/ m < k \/ k = m
      OBVIOUS
    <2>3. \A a, b \in Nat : a < b => a # b
      OBVIOUS
    <2> QED
      BY <1>11, <2>1, <2>2, <2>3
  <1>3. NoRepeat(s)
    BY <1>1, <1>2, <1>11 DEF NoRepeat
  <1>4. place \in [1..n -> kept]
    BY <1>1, <1>11
  <1>5. IsFiniteSet(kept)
    <2>1. IsFiniteSet(DOMAIN g)
      <3>1. 1 \in Int /\ Len(g) \in Int
        BY <1>1
      <3> QED
        BY <1>1, <3>1, FS_Interval
    <2>2. kept \in SUBSET DOMAIN g
      OBVIOUS
    <2> HIDE DEF kept
    <2> QED
      BY <2>1, <2>2, FS_Subset
  <1>6. place \in Injection(1..n, kept)
    BY <1>2, <1>4 DEF Injection, IsInjective
  <1>7. Cardinality(1..n) = n /\ IsFiniteSet(1..n)
    <2>1. 1 \in Int /\ n \in Int /\ (1 > n => n = 0) /\ n - 1 + 1 = n
      OBVIOUS
    <2>2. IsFiniteSet(1..n) /\ Cardinality(1..n) = IF 1 > n THEN 0 ELSE n - 1 + 1
      BY <2>1, FS_Interval
    <2> QED
      BY <2>1, <2>2
  <1>8. place \in Surjection(1..n, kept)
    <2>1. Cardinality(1..n) = Cardinality(kept)
      BY <1>7, <1>11
    <2> HIDE DEF kept
    <2> QED
      BY <1>5, <1>6, <2>1, FS_Injection
  <1>9. \A x \in Lines(g) \ {u} : x \in Lines(s)
    <2> SUFFICES ASSUME NEW x \in Lines(g), x # u PROVE x \in Lines(s)
      OBVIOUS
    <2>1. PICK j \in kept : x = g[j]
      BY DEF Lines
    <2>2. PICK k \in 1..n : place[k] = j
      <3> HIDE DEF kept
      <3> QED
        BY <1>8, <2>1 DEF Surjection
    <2> QED
      BY <1>1, <1>11, <2>1, <2>2 DEF Lines
  <1>10. \A x \in Lines(s) : x \in Lines(g) \ {u}
    BY <1>1, <1>11 DEF Lines
  <1> QED
    BY <1>3, <1>9, <1>10


\* What a step does to the files.
LEMMA FileStep ==
  ASSUME ConstantsOK, TypeOK, OwnFiles, Edits, NEW p \in Reqs, Step(p)
  PROVE  /\ \A f \in Files : f # Own(p) => file'[f] = file[f]
         /\ \/ file' = file
            \/ /\ pc[p] = "append" /\ pc'[p] = "trunc"
               /\ NoRepeat(file'[Own(p)])
               /\ Lines(file'[Own(p)]) = Lines(file[Own(p)]) \cup {req[p].url}
            \/ /\ pc[p] = "sedmv" /\ pc'[p] = "trunc"
               /\ NoRepeat(file'[Own(p)])
               /\ Lines(file'[Own(p)]) = Lines(file[Own(p)]) \ {req[p].url}
  <1>1. Own(p) \in Files /\ file[Own(p)] \in Seq(Urls)
    BY RequestOf DEF Own
  <1>2. NoRepeat(file[Own(p)])
    BY <1>1 DEF OwnFiles
  <1>3. CASE AppendUrl(p)
    <2>1. PICK s \in Seq(Urls) : s = file[Own(p)]
      BY <1>1
    <2>2. PICK t : t = Append(s, req[p].url)
      OBVIOUS
    <2>3. file' = [file EXCEPT ![Own(p)] = t]
      BY <1>3, <2>1, <2>2 DEF AppendUrl, Own
    <2>4. file'[Own(p)] = t /\ \A f \in Files : f # Own(p) => file'[f] = file[f]
      BY <1>1, <2>3 DEF TypeOK, FilesTyped
    <2>5. pc[p] = "append" /\ pc'[p] = "trunc"
      BY <1>3 DEF AppendUrl, Goto, TypeOK
    <2>6. req[p].url \notin Lines(s)
      BY <2>1, <2>5 DEF Edits, Stored, Own
    <2>7. /\ DOMAIN t = 1..Len(s) + 1 /\ DOMAIN s = 1..Len(s) /\ Len(s) \in Nat
          /\ \A n \in 1..Len(s) : t[n] = s[n]
          /\ t[Len(s) + 1] = req[p].url
      BY <2>2, RequestOf
    <2>8. Lines(t) = Lines(s) \cup {req[p].url}
      <3>1. \A n \in 1..Len(s) + 1 : n \in 1..Len(s) \/ n = Len(s) + 1
        BY <2>7
      <3>2. Len(s) + 1 \in 1..Len(s) + 1 /\ \A n \in 1..Len(s) : n \in 1..Len(s) + 1
        BY <2>7
      <3> QED
        BY <2>7, <3>1, <3>2 DEF Lines
    <2>9. NoRepeat(t)
      <3>1. \A n \in 1..Len(s) : t[n] # t[Len(s) + 1]
        BY <2>6, <2>7 DEF Lines
      <3>2. \A n \in 1..Len(s) + 1 : n \in 1..Len(s) \/ n = Len(s) + 1
        BY <2>7
      <3> QED
        BY <1>2, <2>1, <2>7, <3>1, <3>2 DEF NoRepeat
    <2> QED
      BY <2>1, <2>4, <2>5, <2>8, <2>9
  <1>4. CASE SedRename(p)
    <2>1. file' = [file EXCEPT ![Own(p)] = snap[p]]
      BY <1>4 DEF SedRename, Own
    <2>2. file'[Own(p)] = snap[p] /\ \A f \in Files : f # Own(p) => file'[f] = file[f]
      BY <1>1, <2>1 DEF TypeOK, FilesTyped
    <2>3. pc[p] = "sedmv" /\ pc'[p] = "trunc"
      BY <1>4 DEF SedRename, Goto, TypeOK
    <2> QED
      BY <2>2, <2>3 DEF Edits
  <1>5. CASE ~AppendUrl(p) /\ ~SedRename(p)
    <2>1. file' = file
      BY <1>5 DEF Step, Check, SedRead, OpenTmp, AwkRead, AwkWrite, Move,
             RemoveTmp, Scan, ScanEnds, Show
    <2> QED
      BY <2>1
  <1> QED
    BY <1>3, <1>4, <1>5

\* Every file keeps its own urls, once each.
LEMMA NextOwnFiles ==
  ASSUME ConstantsOK, TypeOK, OwnFiles, Edits, NEW p \in Reqs, Begin(p) \/ Step(p)
  PROVE  OwnFiles'
  <1>1. CASE Begin(p)
    BY <1>1, BeginFacts DEF OwnFiles
  <1>2. CASE Step(p)
    <2> SUFFICES ASSUME NEW f \in Files
                 PROVE  NoRepeat(file'[f]) /\ \A u \in Lines(file'[f]) : FileOf(u) = f
      BY DEF OwnFiles
    <2>1. CASE file'[f] = file[f]
      BY <2>1 DEF OwnFiles
    <2>2. CASE file'[f] # file[f]
      <3>1. f = Own(p)
        BY <1>2, <2>2, FileStep
      <3>2. NoRepeat(file'[f]) /\ Lines(file'[f]) \subseteq Lines(file[f]) \cup {req[p].url}
        BY <1>2, <2>2, <3>1, FileStep
      <3> QED
        BY <3>1, <3>2 DEF OwnFiles, Own
    <2> QED
      BY <2>1, <2>2
  <1> QED
    BY <1>1, <1>2

\* A busy process finds its file as it was after a step of another.
LEMMA OthersStay ==
  ASSUME ConstantsOK, TypeOK, OwnFiles, Edits, Apart, NEW p \in Reqs, Begin(p) \/ Step(p),
         NEW q \in Reqs, q # p, pc[q] # "free"
  PROVE  /\ pc'[q] = pc[q] /\ req'[q] = req[q] /\ snap'[q] = snap[q]
         /\ file'[Own(q)] = file[Own(q)]
  <1>1. CASE Begin(p)
    BY <1>1, BeginFacts
  <1>2. CASE Step(p)
    <2>1. Own(q) # Own(p)
      BY <1>2, StepFacts DEF Apart, Busy
    <2>2. Own(q) \in Files
      BY RequestOf DEF Own
    <2> QED
      BY <1>2, <2>1, <2>2, StepFacts, FileStep
  <1> QED
    BY <1>1, <1>2

\* What a script has found of its url stays true: no other has the same file.
LEMMA NextEdits ==
  ASSUME ConstantsOK, TypeOK, Fits, OwnFiles, Edits, Apart, NEW p \in Reqs, Begin(p) \/ Step(p)
  PROVE  Edits'
  <1> DEFINE E(q) ==
        /\ pc[q] = "append" => ~Stored(req[q].url)
        /\ pc[q] \in {"sed", "sedmv"} => Stored(req[q].url)
        /\ pc[q] = "sedmv" =>
             NoRepeat(snap[q]) /\ Lines(snap[q]) = Lines(file[Own(q)]) \ {req[q].url}
        /\ Inside(q) => (Stored(req[q].url) <=> req[q].op = "add")
  <1>1. ASSUME NEW q \in Reqs, q # p PROVE E(q)'
    <2>1. CASE pc[q] = "free"
      <3>1. pc'[q] = pc[q]
        BY <1>1, BeginFacts, StepFacts
      <3> QED
        BY <2>1, <3>1 DEF Inside
    <2>2. CASE pc[q] # "free"
      <3>1. /\ pc'[q] = pc[q] /\ req'[q] = req[q] /\ snap'[q] = snap[q]
            /\ file'[FileOf(req[q].url)] = file[FileOf(req[q].url)]
        BY <1>1, <2>2, OthersStay DEF Own
      <3>2. E(q)
        BY DEF Edits
      <3> QED
        BY <3>1, <3>2 DEF Inside, Stored, Own
    <2> QED
      BY <2>1, <2>2
  <1>2. E(p)'
    <2>1. CASE Begin(p)
      BY <2>1, BeginFacts DEF Inside
    <2>2. CASE Check(p)
      <3>1. pc'[p] \in {"free", IF req[p].op = "add" THEN "append" ELSE "sed"}
        BY <2>2 DEF Check, Goto, TypeOK
      <3>2. /\ pc'[p] = "append" => req[p].op = "add" /\ ~Stored(req[p].url)
            /\ pc'[p] = "sed" => Stored(req[p].url)
        <4>1. pc'[p] = IF Stored(req[p].url) = (req[p].op = "add") THEN "free"
                       ELSE IF req[p].op = "add" THEN "append" ELSE "sed"
          BY <2>2 DEF Check, Goto, TypeOK
        <4>2. Stored(req[p].url) \in BOOLEAN
          BY DEF Stored
        <4>3. CASE Stored(req[p].url)
          <5>1. pc'[p] # "append"
            BY <4>1, <4>3
          <5> QED
            BY <4>3, <5>1
        <4>4. CASE ~Stored(req[p].url)
          <5>1. pc'[p] # "sed"
            BY <4>1, <4>2, <4>4
          <5>2. pc'[p] = "append" => req[p].op = "add"
            BY <4>1
          <5> QED
            BY <4>4, <5>1, <5>2
        <4> QED
          BY <4>3, <4>4
      <3>3. file' = file /\ req' = req
        BY <2>2 DEF Check
      <3> QED
        BY <3>1, <3>2, <3>3 DEF Inside, Stored
    <2>3. CASE AppendUrl(p) \/ SedRename(p)
      <3>1. Step(p)
        BY <2>3 DEF Step
      <3>2. req' = req /\ pc'[p] = "trunc" /\ pc[p] \in {"append", "sedmv"}
        BY <2>3 DEF AppendUrl, SedRename, Goto, TypeOK
      <3>3. pc[p] = "append" => req[p].op = "add" /\ ~Stored(req[p].url)
        BY DEF Edits, Fits
      <3>4. pc[p] = "sedmv" => req[p].op = "delete" /\ Stored(req[p].url)
        BY DEF Edits, Fits
      <3>5. (req[p].url \in Lines(file'[FileOf(req[p].url)])) <=> req[p].op = "add"
        <4>1. Own(p) = FileOf(req[p].url)
          BY DEF Own
        <4>2. Stored(req[p].url) <=> req[p].url \in Lines(file[Own(p)])
          BY <4>1 DEF Stored
        <4>3. \/ file' = file
              \/ pc[p] = "append" /\ Lines(file'[Own(p)]) = Lines(file[Own(p)]) \cup {req[p].url}
              \/ pc[p] = "sedmv" /\ Lines(file'[Own(p)]) = Lines(file[Own(p)]) \ {req[p].url}
          BY <3>1, FileStep
        <4>4. CASE file' # file
          BY <3>3, <3>4, <4>1, <4>3, <4>4
        <4>5. CASE AppendUrl(p)
          <5>1. PICK s \in Seq(Urls) : s = file[Own(p)]
            BY <4>1, RequestOf
          <5>2. file'[Own(p)] = Append(s, req[p].url)
            BY <4>1, <4>5, <5>1, RequestOf DEF AppendUrl, TypeOK, FilesTyped
          <5>3. Append(s, req[p].url) # s
            BY <5>1, RequestOf
          <5> QED
            BY <4>4, <5>1, <5>2, <5>3
        <4>6. CASE SedRename(p)
          <5>1. file'[Own(p)] = snap[p] /\ pc[p] = "sedmv"
            BY <4>1, <4>6, RequestOf DEF SedRename, TypeOK, FilesTyped
          <5>2. Lines(snap[p]) = Lines(file[Own(p)]) \ {req[p].url}
            BY <5>1 DEF Edits
          <5> QED
            BY <3>4, <4>1, <5>1, <5>2
        <4> QED
          BY <2>3, <4>5, <4>6
      <3> QED
        BY <3>2, <3>5 DEF Inside, Stored
    <2>4. CASE SedRead(p)
      <3>1. pc[p] = "sed" /\ pc'[p] = "sedmv" /\ req' = req /\ file' = file
        BY <2>4 DEF SedRead, Goto, TypeOK
      <3>2. Stored(req[p].url)
        BY <3>1 DEF Edits
      <3>3. PICK g \in Seq(Urls) : g = file[FileOf(req[p].url)] /\ NoRepeat(g)
        BY RequestOf DEF OwnFiles
      <3>4. PICK s \in Seq(Urls) :
              snap' = [snap EXCEPT ![p] = s] /\ Sifted(s, g, req[p].url)
        BY <2>4, <3>3, SedFacts
      <3>5. NoRepeat(s) /\ Lines(s) = Lines(g) \ {req[p].url}
        BY <3>3, <3>4, KeptLines
      <3>6. snap'[p] = s
        BY <3>4 DEF TypeOK
      <3> QED
        BY <3>1, <3>2, <3>3, <3>5, <3>6 DEF Inside, Stored, Own
    <2>5. CASE OpenTmp(p) \/ AwkRead(p) \/ AwkWrite(p) \/ Move(p)
      <3>1. Inside(p) /\ pc'[p] \in {"awk", "write", "mv", "free"} /\ req' = req /\ file' = file
        BY <2>5 DEF OpenTmp, AwkRead, AwkWrite, Move, Inside, Goto, TypeOK
      <3> QED
        BY <3>1 DEF Edits, Inside, Stored
    <2>6. CASE RemoveTmp(p) \/ Scan(p) \/ ScanEnds(p) \/ Show(p)
      <3>1. pc'[p] \in {"scan", "show", "free"}
        BY <2>6 DEF RemoveTmp, Scan, ScanEnds, Show, Goto, TypeOK
      <3> QED
        BY <3>1 DEF Inside
    <2> QED
      BY <2>1, <2>2, <2>3, <2>4, <2>5, <2>6 DEF Step
  <1> QED
    BY <1>1, <1>2 DEF Edits


\* A url comes or goes only by the request that names it.
LEMMA StoredStep ==
  ASSUME ConstantsOK, TypeOK, OwnFiles, Edits, Fits, NEW p \in Reqs, Begin(p) \/ Step(p)
  PROVE  /\ \A u \in Urls : Stored(u)' # Stored(u) =>
              /\ Asked(p, u) /\ Stored(u)' = (req[p].op = "add")
              /\ pc'[p] = "trunc"
  <1>1. CASE Begin(p)
    BY <1>1, BeginFacts DEF Stored
  <1>2. CASE Step(p)
    <2> SUFFICES ASSUME NEW u \in Urls, Stored(u)' # Stored(u)
                 PROVE  Asked(p, u) /\ Stored(u)' = (req[p].op = "add") /\ pc'[p] = "trunc"
      OBVIOUS
    <2>1. FileOf(u) \in Files
      BY DEF ConstantsOK
    <2>2. FileOf(u) = Own(p) /\ file' # file
      BY <1>2, <2>1, FileStep DEF Stored
    <2>3. Stored(u) <=> u \in Lines(file[Own(p)])
      BY <2>2 DEF Stored
    <2>4. Stored(u)' <=> u \in Lines(file'[Own(p)])
      BY <2>2 DEF Stored
    <2>5. \/ /\ pc[p] = "append" /\ pc'[p] = "trunc"
             /\ Lines(file'[Own(p)]) = Lines(file[Own(p)]) \cup {req[p].url}
          \/ /\ pc[p] = "sedmv" /\ pc'[p] = "trunc"
             /\ Lines(file'[Own(p)]) = Lines(file[Own(p)]) \ {req[p].url}
      BY <1>2, <2>2, FileStep
    <2>6. Stored(u) \in BOOLEAN /\ Stored(u)' \in BOOLEAN
      BY DEF Stored
    <2>7. u = req[p].url
      BY <2>3, <2>4, <2>5, <2>6
    <2>8. CASE pc[p] = "append"
      <3>1. req[p].op = "add"
        BY <2>8 DEF Fits
      <3>2. Stored(u)'
        BY <2>4, <2>5, <2>7, <2>8
      <3> QED
        BY <2>5, <2>6, <2>7, <2>8, <3>1, <3>2 DEF Asked
    <2>9. CASE pc[p] = "sedmv"
      <3>1. req[p].op # "add"
        BY <2>9 DEF Fits
      <3>2. ~Stored(u)'
        BY <2>4, <2>5, <2>7, <2>9
      <3> QED
        BY <2>5, <2>6, <2>7, <2>9, <3>1, <3>2 DEF Asked
    <2> QED
      BY <2>5, <2>8, <2>9
  <1> QED
    BY <1>1, <1>2

-----------------------------------------------------------------------------
(* The count                                                               *)

\* Processes that have changed the urls and not the count.
Pending(op) == {req[p].url : p \in {q \in Reqs : Inside(q) /\ req[q].op = op}}

\* The urls that the count knows of.
Counted == ({u \in Urls : Stored(u)} \ Pending("add")) \cup Pending("delete")

\* One process at a time makes the new file, and has it open until it has written.
Names ==
  /\ \A p, q \in Reqs : Counting(p) /\ Counting(q) => p = q
  /\ cnt # cnt_tmp
  /\ cnt_tmp # NULL <=> \E p \in Reqs : Counting(p)
  /\ \A p \in Reqs : fd[p] = IF pc[p] \in {"awk", "write"} THEN cnt_tmp ELSE NULL
\* The number in url_cnt counts the changes that are counted; each process in
\* add_url_cnt.sh carries it on by one.
Numbers ==
  /\ \A p \in Reqs :
       /\ pc[p] = "write" => val[p] = node[cnt]
       /\ pc[p] = "mv" => node[cnt_tmp] = node[cnt] + IF req[p].op = "add" THEN 1 ELSE -1
  /\ node[cnt] = Cardinality(Counted)

\* The names and the redirections stand for files.
LEMMA NextNodes ==
  ASSUME ConstantsOK, TypeOK, NodesTyped, NEW p \in Reqs, Begin(p) \/ Step(p)
  PROVE  NodesTyped'
  <1>1. CASE OpenTmp(p)
    <2>1. cnt_tmp' \in Nodes
      BY <1>1, NodeLeft DEF OpenTmp, NodesTyped
    <2>2. node' = [node EXCEPT ![cnt_tmp'] = Blank] /\ fd' = [fd EXCEPT ![p] = cnt_tmp']
          /\ cnt' = cnt /\ val' = val
      BY <1>1 DEF OpenTmp
    <2>3. node' \in [Nodes -> Int]
      <3>1. PICK m : m = cnt_tmp'
        OBVIOUS
      <3>2. node' = [node EXCEPT ![m] = Blank] /\ Blank \in Int
        BY <2>2, <3>1 DEF Blank
      <3> QED
        BY <3>2 DEF NodesTyped
    <2>4. fd' \in [Reqs -> Nodes \cup {NULL}]
      BY <2>1, <2>2 DEF NodesTyped
    <2> QED
      BY <2>1, <2>2, <2>3, <2>4 DEF NodesTyped
  <1>2. CASE AwkRead(p)
    BY <1>2 DEF AwkRead, NodesTyped
  <1>3. CASE AwkWrite(p)
    <2>1. \A n \in {1, -1} : val[p] + n \in Int
      BY DEF NodesTyped
    <2>2. val[p] + (IF req[p].op = "add" THEN 1 ELSE -1) \in Int
      BY <2>1
    <2>3. node' \in [Nodes -> Int]
      BY <1>3, <2>2 DEF AwkWrite, NodesTyped
    <2> QED
      BY <1>3, <2>3 DEF AwkWrite, NodesTyped
  <1>4. CASE Move(p)
    BY <1>4 DEF Move, NodesTyped
  <1>5. CASE Begin(p) \/ ~(OpenTmp(p) \/ AwkRead(p) \/ AwkWrite(p) \/ Move(p))
    <2>1. UNCHANGED <<node, cnt, cnt_tmp, fd, val>>
      BY <1>5, BeginFacts DEF Step, Check, AppendUrl, SedRead, SedRename, RemoveTmp, Scan, ScanEnds,
         Show, count
    <2> QED
      BY <2>1 DEF NodesTyped
  <1> QED
    BY <1>1, <1>2, <1>3, <1>4, <1>5

\* Steps that do not touch the count and its files.
LEMMA NotCounting ==
  ASSUME ConstantsOK, TypeOK, NEW p \in Reqs,
         \/ Begin(p) \/ Check(p) \/ AppendUrl(p) \/ SedRead(p) \/ SedRename(p)
         \/ RemoveTmp(p) \/ Scan(p) \/ ScanEnds(p) \/ Show(p)
  PROVE  /\ UNCHANGED <<node, cnt, cnt_tmp, fd, val, met>>
         /\ pc[p] \notin {"awk", "write", "mv"} /\ pc'[p] \notin {"awk", "write", "mv"}
         /\ \A q \in Reqs : q # p => pc'[q] = pc[q] /\ req'[q] = req[q]
  <1>1. CASE Begin(p)
    BY <1>1, BeginFacts
  <1>2. CASE ~Begin(p)
    <2>1. UNCHANGED <<node, cnt, cnt_tmp, fd, val, met>>
      BY <1>2 DEF Check, AppendUrl, SedRead, SedRename, RemoveTmp, Scan, ScanEnds, Show, count
    <2>2. pc[p] \notin {"awk", "write", "mv"} /\ pc'[p] \notin {"awk", "write", "mv"}
      BY <1>2 DEF Check, AppendUrl, SedRead, SedRename, RemoveTmp, Scan, ScanEnds, Show,
                  Goto, TypeOK
    <2>3. Step(p)
      BY <1>2 DEF Step
    <2> QED
      BY <2>1, <2>2, <2>3, StepFacts
  <1> QED
    BY <1>1, <1>2

\* While no two processes have met, url_cnt and url_cnt_tmp are different files, and
\* the latter is of the one process inside.
LEMMA NextNames ==
  ASSUME ConstantsOK, TypeOK, NodesTyped, ~met => Names, NEW p \in Reqs, Begin(p) \/ Step(p), ~met'
  PROVE  ~met /\ Names'
  <1>1. ~met
    <2>1. CASE OpenTmp(p)
      BY <2>1 DEF OpenTmp
    <2>2. CASE AwkRead(p) \/ AwkWrite(p) \/ Move(p)
      BY <2>2 DEF AwkRead, AwkWrite, Move
    <2> QED
      BY <2>1, <2>2, NotCounting DEF Step
  <1>2. Names
    BY <1>1
  <1>3. CASE OpenTmp(p)
    <2>1. pc[p] = "trunc" /\ pc'[p] = "awk" /\ \A q \in Reqs : q # p => pc'[q] = pc[q]
      BY <1>3 DEF OpenTmp, Goto, TypeOK
    <2>2. \A q \in Reqs : ~Counting(q)
      BY <1>3, <2>1 DEF OpenTmp, Counting
    <2>3. cnt_tmp = NULL
      BY <1>2, <2>2 DEF Names
    <2>4. cnt_tmp' \in Nodes \ InUse
      BY <1>3, <2>3, NodeLeft DEF OpenTmp
    <2>5. cnt_tmp' # cnt /\ cnt_tmp' # NULL /\ cnt' = cnt
      BY <1>3, <2>4, NodesFacts DEF OpenTmp, InUse
    <2>6. fd'[p] = cnt_tmp' /\ \A q \in Reqs : q # p => fd'[q] = fd[q]
      BY <1>3 DEF OpenTmp, NodesTyped
    <2>7. \A q \in Reqs : q # p => fd[q] = NULL
      BY <1>2, <2>2 DEF Names, Counting
    <2>11. \A q, r \in Reqs : Counting(q)' /\ Counting(r)' => q = r
      BY <2>1, <2>2 DEF Counting
    <2>12. cnt' # cnt_tmp'
      BY <2>5
    <2>13. cnt_tmp' # NULL <=> \E q \in Reqs : Counting(q)'
      BY <2>1, <2>5 DEF Counting
    <2>14. \A q \in Reqs : fd'[q] = IF pc'[q] \in {"awk", "write"} THEN cnt_tmp' ELSE NULL
      BY <2>1, <2>2, <2>6, <2>7 DEF Counting
    <2> QED
      BY <1>1, <2>11, <2>12, <2>13, <2>14 DEF Names
  <1>4. CASE AwkRead(p)
    <2>1. pc[p] = "awk" /\ pc'[p] = "write" /\ \A q \in Reqs : q # p => pc'[q] = pc[q]
      BY <1>4 DEF AwkRead, Goto, TypeOK
    <2>2. UNCHANGED <<cnt, cnt_tmp, fd>>
      BY <1>4 DEF AwkRead
    <2>3. \A q \in Reqs : (Counting(q)' <=> Counting(q)) /\ (pc'[q] \in {"awk", "write"} <=> pc[q] \in {"awk", "write"})
      BY <2>1 DEF Counting
    <2>11. \A q, r \in Reqs : Counting(q)' /\ Counting(r)' => q = r
      BY <1>2, <2>3 DEF Names
    <2>12. cnt' # cnt_tmp'
      BY <1>2, <2>2 DEF Names
    <2>13. cnt_tmp' # NULL <=> \E q \in Reqs : Counting(q)'
      BY <1>2, <2>2, <2>3 DEF Names
    <2>14. \A q \in Reqs : fd'[q] = IF pc'[q] \in {"awk", "write"} THEN cnt_tmp' ELSE NULL
      BY <1>2, <2>2, <2>3 DEF Names
    <2> QED
      BY <1>1, <2>11, <2>12, <2>13, <2>14 DEF Names
  <1>5. CASE AwkWrite(p)
    <2>1. pc[p] = "write" /\ pc'[p] = "mv" /\ \A q \in Reqs : q # p => pc'[q] = pc[q]
      BY <1>5 DEF AwkWrite, Goto, TypeOK
    <2>2. UNCHANGED <<cnt, cnt_tmp>>
      BY <1>5 DEF AwkWrite
    <2>3. fd'[p] = NULL /\ \A q \in Reqs : q # p => fd'[q] = fd[q]
      BY <1>5 DEF AwkWrite, NodesTyped
    <2>4. \A q \in Reqs : Counting(q)' <=> Counting(q)
      BY <2>1 DEF Counting
    <2>11. \A q, r \in Reqs : Counting(q)' /\ Counting(r)' => q = r
      BY <1>2, <2>4 DEF Names
    <2>12. cnt' # cnt_tmp'
      BY <1>2, <2>2 DEF Names
    <2>13. cnt_tmp' # NULL <=> \E q \in Reqs : Counting(q)'
      BY <1>2, <2>2, <2>4 DEF Names
    <2>14. \A q \in Reqs : fd'[q] = IF pc'[q] \in {"awk", "write"} THEN cnt_tmp' ELSE NULL
      BY <1>2, <2>1, <2>2, <2>3 DEF Names
    <2> QED
      BY <1>1, <2>11, <2>12, <2>13, <2>14 DEF Names
  <1>6. CASE Move(p)
    <2>1. pc[p] = "mv" /\ pc'[p] = "free" /\ \A q \in Reqs : q # p => pc'[q] = pc[q]
      BY <1>6 DEF Move, Goto, TypeOK
    <2>2. \A q \in Reqs : ~Counting(q)'
      BY <1>2, <2>1 DEF Names, Counting
    <2>3. cnt_tmp # NULL
      BY <1>2, <2>1 DEF Names, Counting
    <2>4. cnt' = cnt_tmp /\ cnt_tmp' = NULL /\ fd' = fd
      BY <1>6, <2>3 DEF Move
    <2>5. \A q \in Reqs : fd[q] = NULL
      BY <1>2, <2>1, <2>2 DEF Names, Counting
    <2>11. \A q, r \in Reqs : Counting(q)' /\ Counting(r)' => q = r
      BY <2>2
    <2>12. cnt' # cnt_tmp'
      BY <2>3, <2>4
    <2>13. cnt_tmp' # NULL <=> \E q \in Reqs : Counting(q)'
      BY <2>2, <2>4
    <2>14. \A q \in Reqs : fd'[q] = IF pc'[q] \in {"awk", "write"} THEN cnt_tmp' ELSE NULL
      BY <2>2, <2>4, <2>5 DEF Counting
    <2> QED
      BY <1>1, <2>11, <2>12, <2>13, <2>14 DEF Names
  <1>7. CASE \/ Begin(p) \/ Check(p) \/ AppendUrl(p) \/ SedRead(p) \/ SedRename(p)
             \/ RemoveTmp(p) \/ Scan(p) \/ ScanEnds(p) \/ Show(p)
    <2>1. UNCHANGED <<cnt, cnt_tmp, fd>>
      BY <1>7, NotCounting
    <2>2. \A q \in Reqs : (Counting(q)' <=> Counting(q)) /\ (pc'[q] \in {"awk", "write"} <=> pc[q] \in {"awk", "write"})
      BY <1>7, NotCounting DEF Counting
    <2>11. \A q, r \in Reqs : Counting(q)' /\ Counting(r)' => q = r
      BY <1>2, <2>2 DEF Names
    <2>12. cnt' # cnt_tmp'
      BY <1>2, <2>1 DEF Names
    <2>13. cnt_tmp' # NULL <=> \E q \in Reqs : Counting(q)'
      BY <1>2, <2>1, <2>2 DEF Names
    <2>14. \A q \in Reqs : fd'[q] = IF pc'[q] \in {"awk", "write"} THEN cnt_tmp' ELSE NULL
      BY <1>2, <2>1, <2>2 DEF Names
    <2> QED
      BY <1>1, <2>11, <2>12, <2>13, <2>14 DEF Names
  <1> QED
    BY <1>1, <1>3, <1>4, <1>5, <1>6, <1>7 DEF Step


\* Who has changed u and not the count.
Waits(q, u, op) == Inside(q) /\ req[q].op = op /\ req[q].url = u

\* A url is counted if it is stored and not waiting to be counted, or waits to be
\* counted off.
LEMMA InCounted ==
  ASSUME TypeOK, NEW u
  PROVE  u \in Counted <=>
           \/ u \in Urls /\ Stored(u) /\ \A q \in Reqs : ~Waits(q, u, "add")
           \/ \E q \in Reqs : Waits(q, u, "delete")
  BY DEF Counted, Pending, Waits

\* No two busy processes are about one url.
LEMMA OneAsks ==
  ASSUME Apart, NEW p \in Reqs, pc[p] # "free", NEW q \in Reqs, q # p, NEW op
  PROVE  ~Waits(q, req[p].url, op)
  BY DEF Apart, Busy, Waits, Own, Inside

\* A step changes what no other process waits for.
LEMMA StepsInside ==
  ASSUME ConstantsOK, TypeOK, NEW p \in Reqs, Begin(p) \/ Step(p)
  PROVE  \A q \in Reqs : q # p => \A u, op : Waits(q, u, op)' <=> Waits(q, u, op)
  <1>1. \A q \in Reqs : q # p => pc'[q] = pc[q] /\ req'[q] = req[q]
    BY StepFacts, BeginFacts
  <1> QED
    BY <1>1 DEF Waits, Inside

\* A change of the urls alone is not counted yet.
LEMMA ChangeNotCounted ==
  ASSUME ConstantsOK, TypeOK, TypeOK', Fits, OwnFiles, Edits, Edits', Apart,
         NEW p \in Reqs, Begin(p) \/ Step(p), ~Move(p)
  PROVE  Counted' = Counted
  <1> SUFFICES ASSUME NEW u PROVE u \in Counted' <=> u \in Counted
    OBVIOUS
  <1>1. u \in Counted' <=>
           \/ u \in Urls /\ Stored(u)' /\ \A q \in Reqs : ~Waits(q, u, "add")'
           \/ \E q \in Reqs : Waits(q, u, "delete")'
    BY DEF Counted, Pending, Waits
  <1>2. u \in Counted <=>
           \/ u \in Urls /\ Stored(u) /\ \A q \in Reqs : ~Waits(q, u, "add")
           \/ \E q \in Reqs : Waits(q, u, "delete")
    BY InCounted
  <1>3. \A q \in Reqs : q # p => \A op : Waits(q, u, op)' <=> Waits(q, u, op)
    BY StepsInside
  <1>4. CASE AppendUrl(p) \/ SedRename(p)
    <2>1. /\ pc[p] \in {"append", "sedmv"} /\ pc'[p] = "trunc" /\ req' = req
          /\ pc[p] = "append" => req[p].op = "add"
          /\ pc[p] = "sedmv" => req[p].op = "delete"
      BY <1>4 DEF AppendUrl, SedRename, Goto, TypeOK, Fits
    <2>2. CASE u = req[p].url
      <3>1. \A q \in Reqs : q # p => \A op : ~Waits(q, u, op)
        BY <2>1, <2>2, OneAsks
      <3>2. \A op : ~Waits(p, u, op)
        BY <2>1 DEF Waits, Inside
      <3>3. \A op : Waits(p, u, op)' <=> op = req[p].op
        BY <2>1, <2>2 DEF Waits, Inside
      <3>4. u \in Urls
        BY <2>2, RequestOf
      <3>5. CASE pc[p] = "append"
        <4>1. ~Stored(u)
          BY <2>2, <3>5 DEF Edits
        <4>2. u \notin Counted
          BY <1>2, <3>1, <3>2, <4>1
        <4>3. Waits(p, u, "add")'
          BY <2>1, <3>3, <3>5
        <4>4. ~Waits(p, u, "delete")'
          BY <2>1, <3>3, <3>5
        <4>5. u \notin Counted'
          BY <1>1, <1>3, <3>1, <4>3, <4>4
        <4> QED
          BY <4>2, <4>5
      <3>6. CASE pc[p] = "sedmv"
        <4>1. Stored(u)
          BY <2>2, <3>6 DEF Edits
        <4>2. u \in Counted
          BY <1>2, <3>1, <3>2, <3>4, <4>1
        <4>3. Waits(p, u, "delete")'
          BY <2>1, <3>3, <3>6
        <4>4. u \in Counted'
          BY <1>1, <4>3
        <4> QED
          BY <4>2, <4>4
      <3> QED
        BY <2>1, <3>5, <3>6
    <2>3. CASE u # req[p].url
      <3>1. \A op : ~Waits(p, u, op) /\ ~Waits(p, u, op)'
        BY <2>1, <2>3 DEF Waits
      <3>2. u \in Urls => Stored(u)' = Stored(u)
        BY <2>3, StoredStep DEF Asked
      <3> QED
        BY <1>1, <1>2, <1>3, <3>1, <3>2
    <2> QED
      BY <2>2, <2>3
  <1>5. CASE ~(AppendUrl(p) \/ SedRename(p))
    <2>1. file' = file
      BY <1>5, BeginFacts DEF Step, Check, SedRead, OpenTmp, AwkRead, AwkWrite, Move, RemoveTmp,
         Scan, ScanEnds, Show
    <2>2. Stored(u)' <=> Stored(u)
      BY <2>1 DEF Stored
    <2>3. \A op : Waits(p, u, op)' <=> Waits(p, u, op)
      <3>1. CASE Inside(p)
        <4>1. OpenTmp(p) \/ AwkRead(p) \/ AwkWrite(p)
          BY <3>1, BeginFacts DEF Step, Check, AppendUrl, SedRead, SedRename, RemoveTmp, Scan,
             ScanEnds, Show, Inside
        <4>2. Inside(p)' /\ req' = req
          BY <4>1 DEF OpenTmp, AwkRead, AwkWrite, Goto, TypeOK, Inside
        <4> QED
          BY <3>1, <4>2 DEF Waits
      <3>2. CASE ~Inside(p)
        <4>1. ~(OpenTmp(p) \/ AwkRead(p) \/ AwkWrite(p))
          BY <3>2 DEF OpenTmp, AwkRead, AwkWrite, Inside
        <4>2. ~Inside(p)'
          <5>1. CASE Begin(p)
            BY <5>1, BeginFacts DEF Inside
          <5>2. CASE Check(p) \/ SedRead(p) \/ RemoveTmp(p) \/ Scan(p) \/ ScanEnds(p) \/ Show(p)
            BY <5>2 DEF Check, SedRead, RemoveTmp, Scan, ScanEnds, Show, Goto, TypeOK, Inside
          <5> QED
            BY <1>5, <4>1, <5>1, <5>2 DEF Step
        <4> QED
          BY <3>2, <4>2 DEF Waits
      <3> QED
        BY <3>1, <3>2
    <2> QED
      BY <1>1, <1>2, <1>3, <2>2, <2>3
  <1> QED
    BY <1>4, <1>5

\* The move of the new count is when it is.
LEMMA MoveCounts ==
  ASSUME ConstantsOK, TypeOK, Fits, OwnFiles, Edits, Apart, NEW p \in Reqs, Move(p)
  PROVE  /\ IsFiniteSet(Counted)
         /\ req[p].op = "add" =>
              req[p].url \notin Counted /\ Counted' = Counted \cup {req[p].url}
         /\ req[p].op # "add" =>
              req[p].url \in Counted /\ Counted' = Counted \ {req[p].url}
  <1>0. PICK v : v = req[p].url
    OBVIOUS
  <1>1. IsFiniteSet(Counted)
    <2>1. \A q \in Reqs : req[q].url \in Urls
      BY RequestOf
    <2>2. Counted \in SUBSET Urls
      BY <2>1 DEF Counted, Pending
    <2>3. IsFiniteSet(Urls)
      BY DEF ConstantsOK
    <2> QED
      BY <2>2, <2>3, FS_Subset
  <1>2. /\ pc[p] = "mv" /\ pc'[p] = "free" /\ req' = req /\ file' = file
        /\ req[p].op \in {"add", "delete"}
    BY DEF Move, Goto, TypeOK, Fits, Inside
  <1>3. ASSUME NEW u
        PROVE  u \in Counted' <=>
           \/ u \in Urls /\ Stored(u) /\ \A q \in Reqs : ~Waits(q, u, "add")'
           \/ \E q \in Reqs : Waits(q, u, "delete")'
    <2>1. Stored(u)' <=> Stored(u)
      BY <1>2 DEF Stored
    <2> QED
      BY <2>1 DEF Counted, Pending, Waits
  <1>4. ASSUME NEW u
        PROVE  u \in Counted <=>
           \/ u \in Urls /\ Stored(u) /\ \A q \in Reqs : ~Waits(q, u, "add")
           \/ \E q \in Reqs : Waits(q, u, "delete")
    BY InCounted
  <1>5. \A q \in Reqs : q # p => \A u, op : Waits(q, u, op)' <=> Waits(q, u, op)
    BY StepsInside DEF Step
  <1>6. \A u, op : ~Waits(p, u, op)'
    BY <1>0, <1>2 DEF Waits, Inside
  <1>7. \A u, op : Waits(p, u, op) <=> u = v /\ op = req[p].op
    BY <1>0, <1>2 DEF Waits, Inside
  <1>8. \A q \in Reqs : q # p => \A op : ~Waits(q, v, op)
    BY <1>0, <1>2, OneAsks
  <1>9. Stored(v) <=> req[p].op = "add"
    BY <1>0, <1>2 DEF Edits, Inside
  <1>10. v \in Urls
    BY <1>0, RequestOf
  <1>11. ASSUME NEW u, u # v PROVE u \in Counted' <=> u \in Counted
    BY <1>3, <1>4, <1>5, <1>6, <1>7, <1>11
  <1>12. req[p].op = "add" => v \notin Counted /\ v \in Counted'
    <2> SUFFICES ASSUME req[p].op = "add"
                 PROVE  v \notin Counted /\ v \in Counted'
      OBVIOUS
    <2>1. Waits(p, v, "add") /\ ~Waits(p, v, "delete")
      BY <1>7
    <2>2. v \notin Counted
      BY <1>4, <1>8, <2>1
    <2>3. \A q \in Reqs : ~Waits(q, v, "add")'
      BY <1>5, <1>6, <1>8
    <2> QED
      BY <1>3, <1>9, <1>10, <2>2, <2>3
  <1>13. req[p].op # "add" => v \in Counted /\ v \notin Counted'
    <2> SUFFICES ASSUME req[p].op # "add"
                 PROVE  v \in Counted /\ v \notin Counted'
      OBVIOUS
    <2>1. Waits(p, v, "delete")
      BY <1>2, <1>7
    <2>2. v \in Counted
      BY <1>4, <2>1
    <2>3. \A q \in Reqs : ~Waits(q, v, "delete")'
      BY <1>5, <1>6, <1>8
    <2> QED
      BY <1>3, <1>9, <2>2, <2>3
  <1> QED
    BY <1>0, <1>1, <1>11, <1>12, <1>13


\* Every step keeps the number right: one that changes a file is not counted yet, and
\* mv counts it.
LEMMA NextNumbers ==
  ASSUME ConstantsOK, TypeOK, TypeOK', NodesTyped, Fits, OwnFiles, Edits, Edits', Apart,
         Names, Numbers, NEW p \in Reqs, Begin(p) \/ Step(p), ~met'
  PROVE  Numbers'
  <1>1. IsFiniteSet(Counted) /\ Cardinality(Counted) \in Nat
    <2>1. \A q \in Reqs : req[q].url \in Urls
      BY RequestOf
    <2>2. Counted \in SUBSET Urls
      BY <2>1 DEF Counted, Pending
    <2>3. IsFiniteSet(Urls)
      BY DEF ConstantsOK
    <2>4. IsFiniteSet(Counted)
      BY <2>2, <2>3, FS_Subset
    <2> QED
      BY <2>4, FS_CardinalityType
  <1>2. PICK n \in Nat : n = node[cnt] /\ n = Cardinality(Counted)
    BY <1>1 DEF Numbers
  <1>3. CASE OpenTmp(p)
    <2>1. pc[p] = "trunc" /\ pc'[p] = "awk" /\ \A q \in Reqs : q # p => pc'[q] = pc[q]
      BY <1>3 DEF OpenTmp, Goto, TypeOK
    <2>2. \A q \in Reqs : pc'[q] # "write" /\ pc'[q] # "mv"
      BY <1>3, <2>1 DEF OpenTmp, Counting
    <2>3. \A q \in Reqs : ~Counting(q)
      BY <1>3, <2>1 DEF OpenTmp, Counting
    <2>4. cnt_tmp = NULL
      BY <2>3 DEF Names
    <2>5. PICK m \in Nodes : m = cnt_tmp' /\ m # cnt
      BY <1>3, <2>4, NodeLeft DEF OpenTmp, InUse
    <2>6. node' = [node EXCEPT ![m] = Blank] /\ cnt' = cnt
      BY <1>3, <2>5 DEF OpenTmp
    <2>7. node'[cnt'] = n
      BY <1>2, <2>5, <2>6 DEF NodesTyped
    <2>8. Counted' = Counted
      BY <1>3, <2>1, ChangeNotCounted DEF Move
    <2> QED
      BY <1>2, <2>2, <2>7, <2>8 DEF Numbers
  <1>4. CASE AwkRead(p)
    <2>1. pc[p] = "awk" /\ pc'[p] = "write" /\ \A q \in Reqs : q # p => pc'[q] = pc[q]
      BY <1>4 DEF AwkRead, Goto, TypeOK
    <2>2. \A q \in Reqs : q # p => pc'[q] # "write" /\ pc'[q] # "mv"
      BY <2>1 DEF Names, Counting
    <2>3. val'[p] = n /\ node' = node /\ cnt' = cnt
      BY <1>2, <1>4 DEF AwkRead, NodesTyped
    <2>4. Counted' = Counted
      BY <1>4, <2>1, ChangeNotCounted DEF Move
    <2> QED
      BY <1>2, <2>1, <2>2, <2>3, <2>4 DEF Numbers
  <1>5. CASE AwkWrite(p)
    <2>1. pc[p] = "write" /\ pc'[p] = "mv" /\ \A q \in Reqs : q # p => pc'[q] = pc[q]
      BY <1>5 DEF AwkWrite, Goto, TypeOK
    <2>2. \A q \in Reqs : q # p => pc'[q] # "write" /\ pc'[q] # "mv"
      BY <2>1 DEF Names, Counting
    <2>3. fd[p] = cnt_tmp /\ cnt_tmp # NULL /\ cnt_tmp # cnt /\ val[p] = n
      BY <1>2, <2>1 DEF Names, Numbers, Counting
    <2>4. n # Blank
      BY DEF Blank
    <2>5. PICK m : m = n + IF req[p].op = "add" THEN 1 ELSE -1
      OBVIOUS
    <2>6. node' = [node EXCEPT ![cnt_tmp] = m] /\ cnt' = cnt /\ cnt_tmp' = cnt_tmp /\ req' = req
      BY <1>5, <2>3, <2>4, <2>5 DEF AwkWrite
    <2>7. node'[cnt_tmp] = m /\ node'[cnt] = n
      BY <1>2, <2>3, <2>6 DEF NodesTyped
    <2>8. Counted' = Counted
      BY <1>5, <2>1, ChangeNotCounted DEF Move
    <2>9. \A q \in Reqs : pc'[q] = "mv" => node'[cnt_tmp'] = node'[cnt'] + IF req'[q].op = "add" THEN 1 ELSE -1
      BY <2>2, <2>5, <2>6, <2>7
    <2>10. \A q \in Reqs : pc'[q] # "write"
      BY <2>1, <2>2
    <2> QED
      BY <1>2, <2>6, <2>7, <2>8, <2>9, <2>10 DEF Numbers
  <1>6. CASE Move(p)
    <2>1. pc[p] = "mv" /\ pc'[p] = "free" /\ \A q \in Reqs : q # p => pc'[q] = pc[q]
      BY <1>6 DEF Move, Goto, TypeOK
    <2>2. \A q \in Reqs : pc'[q] # "write" /\ pc'[q] # "mv"
      BY <2>1 DEF Names, Counting
    <2>3. cnt_tmp # NULL /\ node[cnt_tmp] = n + IF req[p].op = "add" THEN 1 ELSE -1
      BY <1>2, <2>1 DEF Names, Numbers, Counting
    <2>4. node' = node /\ cnt' = cnt_tmp
      BY <1>6, <2>3 DEF Move
    <2>5. CASE req[p].op = "add"
      <3>1. Cardinality(Counted') = n + 1
        BY <1>2, <1>6, <2>5, MoveCounts, FS_AddElement
      <3> QED
        BY <2>2, <2>3, <2>4, <2>5, <3>1 DEF Numbers
    <2>6. CASE req[p].op # "add"
      <3>1. Cardinality(Counted') = n - 1
        BY <1>2, <1>6, <2>6, MoveCounts, FS_RemoveElement
      <3>2. n + (-1) = n - 1
        OBVIOUS
      <3> QED
        BY <2>2, <2>3, <2>4, <2>6, <3>1, <3>2 DEF Numbers
    <2> QED
      BY <2>5, <2>6
  <1>7. CASE \/ Begin(p) \/ Check(p) \/ AppendUrl(p) \/ SedRead(p) \/ SedRename(p)
             \/ RemoveTmp(p) \/ Scan(p) \/ ScanEnds(p) \/ Show(p)
    <2>1. /\ UNCHANGED <<node, cnt, cnt_tmp, fd, val>>
          /\ pc[p] \notin {"awk", "write", "mv"} /\ pc'[p] \notin {"awk", "write", "mv"}
          /\ \A q \in Reqs : q # p => pc'[q] = pc[q] /\ req'[q] = req[q]
      BY <1>7, NotCounting
    <2>2. Counted' = Counted
      BY <2>1, ChangeNotCounted DEF Move
    <2>3. \A q \in Reqs : pc'[q] = "write" => val'[q] = node'[cnt']
      BY <2>1 DEF Numbers
    <2>4. \A q \in Reqs : pc'[q] = "mv" => node'[cnt_tmp'] = node'[cnt'] + IF req'[q].op = "add" THEN 1 ELSE -1
      BY <2>1 DEF Numbers
    <2>5. node'[cnt'] = n
      BY <1>2, <2>1
    <2> QED
      BY <1>2, <2>2, <2>3, <2>4, <2>5 DEF Numbers
  <1> QED
    BY <1>3, <1>4, <1>5, <1>6, <1>7 DEF Step

\* cal_sum_of_url.sh counts the urls of the first files.
LEMMA InitCounts ==
  ASSUME ConstantsOK, Init
  PROVE  OwnFiles /\ Apart /\ Edits /\ Names /\ Numbers
  <1>1. PICK S \in SUBSET Urls :
          /\ file = [f \in Files |-> SetToSeq({u \in S : FileOf(u) = f})]
          /\ node = [n \in Nodes |-> IF n = 1 THEN Cardinality(S) ELSE Blank]
    BY DEF Init
  <1>2. OwnFiles /\ \A u \in Urls : Stored(u) <=> u \in S
    BY <1>1, InitFiles
  <1>3. \A p \in Reqs : pc[p] = "free"
    BY DEF Init
  <1>4. Apart /\ Edits
    BY <1>3 DEF Apart, Edits, Busy, Inside
  <1>5. Names
    <2>1. cnt \in Nodes /\ cnt_tmp = NULL /\ \A p \in Reqs : fd[p] = NULL
      BY NodesFacts DEF Init
    <2> QED
      BY <1>3, <2>1, NodesFacts DEF Names, Counting
  <1>6. Counted = S
    BY <1>2, <1>3 DEF Counted, Pending, Inside
  <1>7. node[cnt] = Cardinality(S)
    BY <1>1, NodesFacts DEF Init
  <1>8. Numbers
    BY <1>3, <1>6, <1>7 DEF Numbers
  <1> QED
    BY <1>2, <1>4, <1>5, <1>8

\* When no request is under way, the urls counted are those stored.
LEMMA QuietCounts ==
  ASSUME ConstantsOK, TypeOK, OwnFiles, Numbers, Busy = {}
  PROVE  node[cnt] = Len(Listing[1])
  <1>1. \A p \in Reqs : ~Inside(p)
    BY DEF Busy, Inside
  <1>2. Counted = {u \in Urls : Stored(u)}
    BY <1>1 DEF Counted, Pending
  <1>3. Len(Listing[1]) = Cardinality({u \in Urls : Stored(u)})
    BY ListingCounts DEF TypeOK
  <1> QED
    BY <1>2, <1>3 DEF Numbers


-----------------------------------------------------------------------------
(* The pages                                                               *)

\* The end of a page, or of the lines if they end before it.
Least(a, b) == IF a <= b THEN a ELSE b

\* The lines after the a-th, up to the b-th.
Part(s, a, b) == SubSeq(s, a + 1, b)

\* The k-th to e-th lines of f, which follow a d-th line, come after a part from a to b,
\* and continue it up to c.
Continues(f, d, a, b, c, k, e) ==
  /\ b <= d /\ c <= d + Len(f) /\ e <= Len(f) /\ e = c - d
  /\ (a < b /\ b = d /\ k = 0 /\ e >= 0) \/ (~(a < b) /\ k = a - d)

\* The least of two numbers is one of them and above neither.
LEMMA LeastFacts ==
  ASSUME NEW a \in Int, NEW b \in Int, NEW c, c = Least(a, b)
  PROVE  c \in Int /\ c <= a /\ c <= b /\ (c = a \/ c = b)
  BY DEF Least

\* The lines of a part.
LEMMA PartFacts ==
  ASSUME NEW S, NEW s \in Seq(S), NEW a \in Nat, NEW b \in Int, b <= Len(s)
  PROVE  /\ Part(s, a, b) \in Seq(S)
         /\ Len(Part(s, a, b)) = IF a < b THEN b - a ELSE 0
         /\ \A x \in 1..Len(Part(s, a, b)) : Part(s, a, b)[x] = s[a + x]
  BY DEF Part

\* A part up to b, continued up to c by the part of a sequence f that all has from d on.
LEMMA PartGrows ==
  ASSUME NEW all \in Seq(Urls), NEW f \in Seq(Urls), NEW d \in Nat, Follows(all, f, d),
         NEW a \in Nat, NEW b \in Int, NEW c \in Int, NEW k \in Nat, NEW e \in Int,
         Continues(f, d, a, b, c, k, e)
  PROVE  Part(all, a, b) \o Part(f, k, e) = Part(all, a, c)
  <1> DEFINE t == Part(all, a, b)
             r == Part(f, k, e)
             w == Part(all, a, c)
  <1>1. Len(all) \in Nat /\ Len(f) \in Nat
    OBVIOUS
  <1>12. /\ b <= d /\ c <= d + Len(f) /\ e <= Len(f) /\ e = c - d
         /\ (a < b /\ b = d /\ k = 0 /\ e >= 0) \/ (~(a < b) /\ k = a - d)
    BY DEF Continues
  <1>2. \A x \in 1..Len(f) : f[x] = all[d + x]
    BY DEF Follows
  <1>0. b <= Len(all) /\ c <= Len(all)
    BY <1>1, <1>12 DEF Follows
  <1>3. t \in Seq(Urls) /\ Len(t) = (IF a < b THEN b - a ELSE 0) /\ \A x \in 1..Len(t) : t[x] = all[a + x]
    BY <1>0, PartFacts
  <1>4. r \in Seq(Urls) /\ Len(r) = (IF k < e THEN e - k ELSE 0) /\ \A x \in 1..Len(r) : r[x] = f[k + x]
    <2>1. e \in Int /\ e <= Len(f)
      BY <1>12
    <2> QED
      BY <2>1, PartFacts
  <1>5. w \in Seq(Urls) /\ Len(w) = (IF a < c THEN c - a ELSE 0) /\ \A x \in 1..Len(w) : w[x] = all[a + x]
    BY <1>0, PartFacts
  <1> HIDE DEF t, r, w
  <1>6. \A x \in 1..Len(r) : r[x] = all[d + k + x]
    <2> SUFFICES ASSUME NEW x \in 1..Len(r) PROVE r[x] = all[d + k + x]
      OBVIOUS
    <2>1. k + x \in 1..Len(f)
      BY <1>1, <1>4, <1>12
    <2>2. d + (k + x) = d + k + x
      BY <1>4
    <2> QED
      BY <1>2, <1>4, <2>1, <2>2
  <1>7. PICK v : v = t \o r
    OBVIOUS
  <1>8. /\ v \in Seq(Urls) /\ Len(v) = Len(t) + Len(r)
        /\ \A x \in 1..Len(t) : v[x] = t[x]
        /\ \A x \in 1..Len(r) : v[Len(t) + x] = r[x]
    <2>1. \A q, u \in Seq(Urls) :
            /\ q \o u \in Seq(Urls) /\ Len(q \o u) = Len(q) + Len(u)
            /\ \A x \in 1..Len(q) : (q \o u)[x] = q[x]
            /\ \A x \in 1..Len(u) : (q \o u)[Len(q) + x] = u[x]
      OBVIOUS
    <2>2. t \in Seq(Urls) /\ r \in Seq(Urls)
      BY <1>3, <1>4
    <2>3. /\ t \o r \in Seq(Urls) /\ Len(t \o r) = Len(t) + Len(r)
          /\ \A x \in 1..Len(t) : (t \o r)[x] = t[x]
          /\ \A x \in 1..Len(r) : (t \o r)[Len(t) + x] = r[x]
      BY <2>1, <2>2
    <2> QED
      BY <1>7, <2>3
  <1>11. ASSUME NEW q \in Seq(Urls), NEW u \in Seq(Urls), Len(q) = Len(u), \A x \in 1..Len(q) : q[x] = u[x]
         PROVE  q = u
    <2>1. q = [x \in 1..Len(q) |-> q[x]] /\ u = [x \in 1..Len(u) |-> u[x]]
      OBVIOUS
    <2> QED
      BY <1>11, <2>1
  <1>9. CASE a < b /\ b = d /\ k = 0 /\ e >= 0
    <2>1. Len(t) = d - a /\ d - a \in Nat
      BY <1>3, <1>9
    <2>2. Len(v) = Len(w)
      <3>1. Len(r) = e
        BY <1>4, <1>9, <1>12
      <3>2. c = d + e /\ a < c
        BY <1>9, <1>12
      <3>3. Len(w) = c - a
        BY <1>5, <1>9, <1>12, <3>2
      <3> QED
        BY <1>8, <2>1, <3>1, <3>2, <3>3
    <2>3. ASSUME NEW x \in 1..Len(v) PROVE v[x] = w[x]
      <3>1. w[x] = all[a + x]
        BY <1>5, <2>2
      <3>2. CASE x <= Len(t)
        <4>1. x \in 1..Len(t)
          BY <2>1, <3>2
        <4> QED
          BY <1>3, <1>8, <3>1, <4>1
      <3>3. CASE x > Len(t)
        <4>1. Len(r) \in Nat
          BY <1>4
        <4>2. PICK y \in 1..Len(r) : x = Len(t) + y
          <5>1. x - Len(t) \in 1..Len(r) /\ x = Len(t) + (x - Len(t))
            BY <1>8, <2>1, <3>3, <4>1
          <5> QED
            BY <5>1
        <4>3. d + k + y = a + x
          BY <1>9, <2>1, <4>1, <4>2
        <4> QED
          BY <1>6, <1>8, <3>1, <4>2, <4>3
      <3> QED
        BY <1>8, <2>1, <3>2, <3>3
    <2>4. v = w
      BY <1>5, <1>8, <1>11, <2>2, <2>3
    <2> QED
      BY <1>7, <2>4 DEF t, r, w
  <1>10. CASE ~(a < b) /\ k = a - d
    <2>1. Len(t) = 0
      BY <1>3, <1>10
    <2>2. Len(v) = Len(w)
      BY <1>1, <1>4, <1>5, <1>8, <1>10, <1>12, <2>1
    <2>3. ASSUME NEW x \in 1..Len(v) PROVE v[x] = w[x]
      <3>1. w[x] = all[a + x]
        BY <1>5, <2>2
      <3>2. x \in 1..Len(r) /\ Len(t) + x = x /\ d + k + x = a + x
        BY <1>4, <1>8, <1>10, <2>1
      <3> QED
        BY <1>6, <1>8, <3>1, <3>2
    <2>4. v = w
      BY <1>5, <1>8, <1>11, <2>2, <2>3
    <2> QED
      BY <1>7, <2>4 DEF t, r, w
  <1> QED
    BY <1>9, <1>10, <1>12


\* A part that ends before it begins is empty.
LEMMA EmptyPart ==
  ASSUME NEW S, NEW s \in Seq(S), NEW a \in Nat, NEW b \in Int, b <= a, b <= Len(s)
  PROVE  Part(s, a, b) = <<>>
  <1>1. Part(s, a, b) \in Seq(S) /\ Len(Part(s, a, b)) = 0
    BY PartFacts
  <1>2. \A q \in Seq(S) : Len(q) = 0 => q = <<>>
    OBVIOUS
  <1> QED
    BY <1>1, <1>2

\* sk lines are to be skipped and per to be shown; d are behind: t is what is shown of
\* them, lb is still to be skipped and need to be shown.
Showing(all, sk, per, d, t, lb, need) ==
  /\ t = Part(all, sk, Least(sk + per, d))
  /\ lb = IF sk > d THEN sk - d ELSE 0
  /\ need = per - Len(t)

\* One file of a scan.
LEMMA ScanFile ==
  ASSUME NEW all \in Seq(Urls), NEW f \in Seq(Urls), NEW d \in Nat, Follows(all, f, d),
         NEW sk \in Nat, NEW per \in Nat \ {0}, NEW t \in Seq(Urls), NEW lb \in Nat, NEW need \in Int,
         Showing(all, sk, per, d, t, lb, need), need > 0
  PROVE  /\ lb > Len(f) =>
              /\ t = Part(all, sk, Least(sk + per, d + Len(f)))
              /\ lb - Len(f) = (IF sk > d + Len(f) THEN sk - (d + Len(f)) ELSE 0)
         /\ lb <= Len(f) =>
              /\ t \o Part(f, lb, Least(lb + need, Len(f))) = Part(all, sk, Least(sk + per, d + Len(f)))
              /\ ~(sk > d + Len(f))
              /\ Len(Part(all, sk, Least(sk + per, d + Len(f)))) >= per => sk + per <= d + Len(f)
  <1>0. ASSUME NEW y \in Int, NEW z \in Int, NEW x \in Int, Continues(f, d, sk, y, z, lb, x)
        PROVE  Part(all, sk, y) \o Part(f, lb, x) = Part(all, sk, z)
    BY <1>0, PartGrows, SMTT(20)
  <1>1. PICK n \in Nat : n = Len(f)
    OBVIOUS
  <1>2. PICK m \in Nat : m = Len(all)
    OBVIOUS
  <1>3. d + n <= m
    BY <1>1, <1>2 DEF Follows
  <1>4. PICK len \in Nat : len = Len(t)
    OBVIOUS
  <1>5. need = per - len
    BY <1>4 DEF Showing
  <1>6. PICK b \in Int : b = Least(sk + per, d)
    BY DEF Least
  <1>7. PICK c \in Int : c = Least(sk + per, d + n)
    BY DEF Least
  <1>8. PICK e \in Int : e = Least(lb + need, n)
    BY DEF Least
  <1>9. t = Part(all, sk, b)
    BY <1>6 DEF Showing
  <1>10. b <= d /\ c <= d + n
    <2>1. sk + per \in Int /\ d + n \in Int /\ d \in Int
      OBVIOUS
    <2> QED
      BY <1>6, <1>7, <2>1, LeastFacts
  <1>11. b <= m /\ c <= m
    BY <1>3, <1>10
  <1>12. /\ Len(Part(all, sk, b)) = (IF sk < b THEN b - sk ELSE 0)
         /\ Len(Part(all, sk, c)) = (IF sk < c THEN c - sk ELSE 0)
    <2>1. ASSUME NEW y \in Int, y <= m PROVE Len(Part(all, sk, y)) = IF sk < y THEN y - sk ELSE 0
      BY <1>2, <2>1, PartFacts
    <2> QED
      BY <1>11, <2>1
  <1>13. len = IF sk < b THEN b - sk ELSE 0
    BY <1>4, <1>9, <1>12
  <1>14. /\ lb > n => /\ b <= sk /\ c <= sk
                      /\ lb - n = (IF sk > d + n THEN sk - (d + n) ELSE 0)
         /\ lb <= n =>
              /\ ~(sk > d + n)
              /\ e = c - d /\ e <= n
              /\ (sk < b /\ b = d /\ lb = 0 /\ e >= 0) \/ (~(sk < b) /\ lb = sk - d)
              /\ \A k \in Int : k = (IF sk < c THEN c - sk ELSE 0) /\ k >= per => sk + per <= d + n
    <2>1. /\ b = IF sk + per <= d THEN sk + per ELSE d
          /\ c = IF sk + per <= d + n THEN sk + per ELSE d + n
          /\ e = IF lb + need <= n THEN lb + need ELSE n
      BY <1>6, <1>7, <1>8 DEF Least
    <2>2. lb = IF sk > d THEN sk - d ELSE 0
      BY DEF Showing
    <2>3. need > 0
      OBVIOUS
    <2> QED
      BY <1>5, <1>13, <2>1, <2>2, <2>3
  <1>15. ASSUME lb > n
         PROVE  /\ t = Part(all, sk, c)
                /\ lb - n = (IF sk > d + n THEN sk - (d + n) ELSE 0)
    <2>1. b <= sk /\ c <= sk /\ lb - n = (IF sk > d + n THEN sk - (d + n) ELSE 0)
      BY <1>14, <1>15
    <2>2. ASSUME NEW y \in Int, y <= m, y <= sk PROVE Part(all, sk, y) = <<>>
      BY <1>2, <2>2, EmptyPart
    <2> QED
      BY <1>9, <1>11, <2>1, <2>2
  <1>16. ASSUME lb <= n
         PROVE  /\ t \o Part(f, lb, e) = Part(all, sk, c) /\ ~(sk > d + n)
                /\ Len(Part(all, sk, c)) >= per => sk + per <= d + n
    <2>1. e = c - d /\ e <= n /\ ((sk < b /\ b = d /\ lb = 0 /\ e >= 0) \/ (~(sk < b) /\ lb = sk - d))
      BY <1>14, <1>16
    <2>2. t \o Part(f, lb, e) = Part(all, sk, c)
      <3>1. e <= Len(f) /\ c <= d + Len(f)
        BY <1>1, <1>10, <2>1
      <3>2. Part(all, sk, b) \o Part(f, lb, e) = Part(all, sk, c)
        <4>1. Continues(f, d, sk, b, c, lb, e)
          BY <1>10, <2>1, <3>1 DEF Continues
        <4> QED
          BY <4>1, <1>0
      <3> QED
        BY <1>9, <3>2
    <2>3. Len(Part(all, sk, c)) = IF sk < c THEN c - sk ELSE 0
      BY <1>12
    <2> QED
      BY <1>14, <1>16, <2>2, <2>3
  <1> QED
    BY <1>1, <1>7, <1>8, <1>15, <1>16

\* The lines that a request to show leaves out.
Skip(p) == req[p].per * (req[p].cur - 1) + 1
\* The lines of the files that it has gone through.
Done(p) == Before(at[p])
\* A scan has shown what the page has of the files it has gone through.
Scanned(p) ==
  /\ Showing(Listing[1], Skip(p), req[p].per, Done(p), tmp, line_begin[p], need_print[p])
  /\ need_print[p] > 0
\* The page is what the listing has from its first line to its last.
PageDone(p) == tmp = Part(Listing[1], Skip(p), Least(Skip(p) + req[p].per, Len(Listing[1])))
\* Every scan and every page is right.
Pages == \A p \in Reqs : /\ pc[p] = "scan" => Scanned(p)
                         /\ pc[p] = "show" => PageDone(p)

\* While a request to show is under way there is no other.
LEMMA ShowAlone ==
  ASSUME Fits, Apart, NEW p \in Reqs, NEW q \in Reqs, p # q, pc[p] \in {"rm", "scan", "show"}
  PROVE  pc[q] = "free"
  BY DEF Fits, Apart, Busy

\* A page has lines, and leaves out a number of them.
LEMMA SkipFacts ==
  ASSUME ConstantsOK, TypeOK, NEW p \in Reqs
  PROVE  Skip(p) \in Nat /\ req[p].per \in Nat \ {0}
  <1>1. PICK per \in Nat \ {0} : per = req[p].per
    BY RequestOf
  <1>2. PICK cur \in Nat \ {0} : cur = req[p].cur
    BY RequestOf
  <1>3. per * (cur - 1) + 1 \in Nat
    <2>1. \A a, b \in Nat : a * b \in Nat
      OBVIOUS
    <2>2. cur - 1 \in Nat
      OBVIOUS
    <2>3. per * (cur - 1) \in Nat
      BY <2>1, <2>2
    <2> QED
      BY <2>3
  <1> QED
    BY <1>1, <1>2, <1>3 DEF Skip

\* The listing is a sequence of urls.
LEMMA ListingFacts ==
  ASSUME ConstantsOK, TypeOK
  PROVE  /\ Listing[1] \in Seq(Urls)
         /\ \A k \in 1..NFiles + 1 : Listing[k] \in Seq(Urls)
         /\ NFiles \in Nat
  <1>1. NFiles \in Nat
    BY FilesFacts
  <1>2. 1 \in 1..NFiles + 1
    BY <1>1
  <1> QED
    BY <1>1, <1>2, ListingIs DEF TypeOK

\* The listing changes only with the files.
LEMMA SameListing ==
  ASSUME file' = file
  PROVE  Listing' = Listing
  BY DEF Listing

\* A scan that has not begun has shown nothing.
LEMMA RemoveTmpPages ==
  ASSUME ConstantsOK, TypeOK, NEW p \in Reqs, RemoveTmp(p)
  PROVE  pc'[p] = "scan" /\ Scanned(p)'
  <1>1. PICK all \in Seq(Urls) : all = Listing[1]
    BY ListingFacts
  <1>2. Listing' = Listing
    BY SameListing DEF RemoveTmp
  <1>3. PICK sk \in Nat, per \in Nat \ {0} : sk = Skip(p) /\ per = req[p].per
    BY SkipFacts
  <1>4. /\ pc'[p] = "scan" /\ tmp' = <<>> /\ at'[p] = 1 /\ req' = req
        /\ line_begin'[p] = sk /\ need_print'[p] = per
    BY <1>3 DEF RemoveTmp, TypeOK, Goto, Skip
  <1>5. Skip(p)' = sk
    BY <1>3, <1>4 DEF Skip
  <1>6. Done(p)' = 0
    <2>1. Len(all) \in Nat
      OBVIOUS
    <2>2. Done(p)' = Len(all) - Len(all)
      BY <1>1, <1>2, <1>4 DEF Done, Before
    <2> QED
      BY <2>1, <2>2
  <1>7. Showing(all, sk, per, 0, <<>>, sk, per)
    <2>1. Least(sk + per, 0) = 0
      BY DEF Least
    <2>2. Part(all, sk, 0) = <<>>
      <3>1. 0 <= sk /\ 0 <= Len(all)
        OBVIOUS
      <3> QED
        BY <3>1, EmptyPart
    <2>3. Len(<<>>) = 0
      OBVIOUS
    <2>4. sk = (IF sk > 0 THEN sk - 0 ELSE 0) /\ per = per - 0
      OBVIOUS
    <2> QED
      BY <2>1, <2>2, <2>3, <2>4 DEF Showing
  <1>8. per > 0
    OBVIOUS
  <1> QED
    BY <1>1, <1>2, <1>3, <1>4, <1>5, <1>6, <1>7, <1>8 DEF Scanned

\* A scan goes on to the next file, or the page is full.
LEMMA ScanPages ==
  ASSUME ConstantsOK, TypeOK, NEW p \in Reqs, Scan(p), Scanned(p)
  PROVE  (pc'[p] = "scan" /\ Scanned(p)') \/ (pc'[p] = "show" /\ PageDone(p)')
  <1>1. PICK all \in Seq(Urls) : all = Listing[1]
    BY ListingFacts
  <1>2. Listing' = Listing /\ req' = req /\ file' = file
    BY SameListing DEF Scan
  <1>3. PICK sk \in Nat, per \in Nat \ {0} : sk = Skip(p) /\ per = req[p].per
    BY SkipFacts
  <1>4. Skip(p)' = sk
    BY <1>2, <1>3 DEF Skip
  <1>5. PICK k \in 1..NFiles : k = at[p]
    <2>1. at[p] \in 1..NFiles + 1 /\ at[p] <= NFiles /\ NFiles \in Nat
      BY ListingFacts DEF Scan, TypeOK
    <2> QED
      BY <2>1
  <1>6. PICK f : f = file[FileAt(k)]
    OBVIOUS
  <1>7. PICK d : d = Before(k)
    OBVIOUS
  <1>8. f \in Seq(Urls) /\ d \in Nat /\ Before(k + 1) = d + Len(f) /\ Follows(all, f, d)
    BY <1>1, <1>6, <1>7, FileFollows DEF TypeOK
  <1>9. Done(p) = d
    BY <1>5, <1>7 DEF Done
  <1>10. at'[p] = k + 1
    BY <1>5 DEF Scan, TypeOK
  <1>11. Done(p)' = d + Len(f)
    BY <1>2, <1>8, <1>10 DEF Done, Before
  <1>12. PICK t \in Seq(Urls) : t = tmp
    BY DEF TypeOK
  <1>13. PICK lb \in Nat, need \in Int : lb = line_begin[p] /\ need = need_print[p]
    BY DEF TypeOK
  <1>14. Showing(all, sk, per, d, t, lb, need) /\ need > 0
    BY <1>1, <1>3, <1>9, <1>12, <1>13 DEF Scanned
  <1>15. PICK n \in Nat : n = Len(f)
    BY <1>8
  <1>16. CASE lb > n
    <2>1. line_begin'[p] = lb - n /\ tmp' = t /\ need_print'[p] = need /\ pc'[p] = "scan"
      BY <1>5, <1>6, <1>12, <1>13, <1>15, <1>16 DEF Scan, TypeOK
    <2>2. /\ t = Part(all, sk, Least(sk + per, d + n))
          /\ lb - n = (IF sk > d + n THEN sk - (d + n) ELSE 0)
      <3>1. lb > Len(f)
        BY <1>15, <1>16
      <3>2. /\ t = Part(all, sk, Least(sk + per, d + Len(f)))
            /\ lb - Len(f) = (IF sk > d + Len(f) THEN sk - (d + Len(f)) ELSE 0)
        BY <1>8, <1>14, <3>1, ScanFile, SMTT(20)
      <3> QED
        BY <1>15, <3>2
    <2>3. need = per - Len(t)
      BY <1>14 DEF Showing
    <2>4. Showing(all, sk, per, d + n, t, lb - n, need)
      BY <2>2, <2>3 DEF Showing
    <2>5. Scanned(p)'
      BY <1>1, <1>2, <1>3, <1>4, <1>11, <1>14, <1>15, <2>1, <2>4 DEF Scanned
    <2> QED
      BY <2>1, <2>5
  <1>17. CASE lb <= n
    <2>1. PICK more : more = t \o Part(f, lb, Least(lb + need, n))
      OBVIOUS
    <2>2. more \in Seq(Urls)
      <3>1. Part(f, lb, Least(lb + need, n)) \in Seq(Urls)
        <4>1. lb + need \in Int /\ n \in Int
          OBVIOUS
        <4>2. PICK e : e = Least(lb + need, n)
          OBVIOUS
        <4>3. e \in Int /\ e <= Len(f)
          BY <1>15, <4>1, <4>2, LeastFacts
        <4>4. Part(f, lb, e) \in Seq(Urls)
          BY <1>8, <4>3, PartFacts
        <4> QED
          BY <4>2, <4>4
      <3>2. \A q, u \in Seq(Urls) : q \o u \in Seq(Urls)
        OBVIOUS
      <3> QED
        BY <2>1, <3>1, <3>2
    <2>3. /\ more = Part(all, sk, Least(sk + per, d + n))
          /\ ~(sk > d + n)
          /\ Len(more) >= per => sk + per <= d + n
      <3>1. lb <= Len(f)
        BY <1>15, <1>17
      <3>2. /\ t \o Part(f, lb, Least(lb + need, Len(f))) = Part(all, sk, Least(sk + per, d + Len(f)))
            /\ ~(sk > d + Len(f))
            /\ Len(Part(all, sk, Least(sk + per, d + Len(f)))) >= per => sk + per <= d + Len(f)
        BY <1>8, <1>14, <3>1, ScanFile, ZenonT(40)
      <3> QED
        BY <1>15, <2>1, <3>2
    <2>4. more = tmp \o SubSeq(file[FileAt(at[p])], line_begin[p] + 1,
                               IF line_begin[p] + need_print[p] <= Len(file[FileAt(at[p])])
                               THEN line_begin[p] + need_print[p] ELSE Len(file[FileAt(at[p])]))
      BY <1>5, <1>6, <1>12, <1>13, <1>15, <2>1 DEF Part, Least
    <2>5. ~(line_begin[p] > Len(file[FileAt(at[p])]))
      BY <1>5, <1>6, <1>13, <1>15, <1>17
    <2>6. /\ tmp' = more
          /\ line_begin' = [line_begin EXCEPT ![p] = 0]
          /\ need_print' = [need_print EXCEPT ![p] = req[p].per - Len(more)]
          /\ Goto(p, IF Len(more) >= req[p].per THEN "show" ELSE "scan")
      BY <2>4, <2>5 DEF Scan
    <2>7. /\ line_begin'[p] = 0 /\ need_print'[p] = per - Len(more)
          /\ pc'[p] = IF Len(more) >= per THEN "show" ELSE "scan"
      BY <1>3, <2>6 DEF TypeOK, Goto
    <2>8. CASE Len(more) >= per
      <3>1. sk + per <= d + n /\ d + n <= Len(all) /\ Len(all) \in Nat
        BY <1>8, <1>15, <2>3, <2>8 DEF Follows
      <3>2. Least(sk + per, d + n) = sk + per
        BY <3>1 DEF Least
      <3>3. Least(sk + per, Len(all)) = sk + per
        <4>1. sk + per <= Len(all)
          BY <1>8, <3>1
        <4> QED
          BY <4>1 DEF Least
      <3>4. more = Part(all, sk, Least(sk + per, Len(all)))
        BY <2>3, <3>2, <3>3
      <3>5. PageDone(p)'
        BY <1>1, <1>2, <1>3, <1>4, <2>6, <3>4 DEF PageDone
      <3> QED
        BY <2>7, <2>8, <3>5
    <2>9. CASE ~(Len(more) >= per)
      <3>1. per - Len(more) > 0
        BY <2>2, <2>9
      <3>2. 0 = IF sk > d + n THEN sk - (d + n) ELSE 0
        BY <2>3
      <3>3. Showing(all, sk, per, d + n, more, 0, per - Len(more))
        BY <2>3, <3>2 DEF Showing
      <3>4. Scanned(p)'
        BY <1>1, <1>2, <1>3, <1>4, <1>11, <1>15, <2>6, <2>7, <3>1, <3>3 DEF Scanned
      <3> QED
        BY <2>7, <2>9, <3>4
    <2> QED
      BY <2>8, <2>9
  <1> QED
    BY <1>16, <1>17

\* A scan that has gone through all files has the page, or what there is of it.
LEMMA ScanEndsPages ==
  ASSUME ConstantsOK, TypeOK, NEW p \in Reqs, ScanEnds(p), Scanned(p)
  PROVE  pc'[p] = "show" /\ PageDone(p)'
  <1>1. PICK all \in Seq(Urls) : all = Listing[1]
    BY ListingFacts
  <1>2. Listing' = Listing /\ req' = req /\ tmp' = tmp
    BY SameListing DEF ScanEnds, show
  <1>3. pc'[p] = "show"
    BY DEF ScanEnds, Goto, TypeOK
  <1>4. Skip(p)' = Skip(p)
    BY <1>2 DEF Skip
  <1>5. at[p] = NFiles + 1
    <2>1. at[p] \in 1..NFiles + 1 /\ at[p] > NFiles /\ NFiles \in Nat
      BY ListingFacts DEF ScanEnds, TypeOK
    <2> QED
      BY <2>1
  <1>6. Listing[at[p]] = <<>>
    BY <1>5, ListingIs DEF TypeOK
  <1>7. Done(p) = Len(Listing[1])
    <2>1. Len(<<>>) = 0 /\ Len(all) \in Nat
      OBVIOUS
    <2> QED
      BY <1>1, <1>6, <2>1 DEF Done, Before
  <1>8. PageDone(p)
    BY <1>7 DEF Scanned, Showing, PageDone
  <1>9. PageDone(p)' <=> PageDone(p)
    BY <1>2, <1>4 DEF PageDone
  <1> QED
    BY <1>3, <1>8, <1>9

\* Every step keeps the pages right: nothing else happens while one is made.
LEMMA NextPages ==
  ASSUME ConstantsOK, TypeOK, Fits, Fits', Apart, Apart', Pages, NEW p \in Reqs, Begin(p) \/ Step(p)
  PROVE  Pages'
  <1> SUFFICES ASSUME NEW q \in Reqs
               PROVE  /\ pc'[q] = "scan" => Scanned(q)'
                      /\ pc'[q] = "show" => PageDone(q)'
    BY DEF Pages
  <1>1. CASE q # p
    <2>1. pc'[q] = pc[q]
      BY <1>1, BeginFacts, StepFacts
    <2>2. CASE Begin(p)
      <3>1. pc'[p] # "free"
        BY <2>2, BeginFacts
      <3>2. \A x \in Reqs : \A y \in Reqs : x # y /\ pc'[x] \in {"rm", "scan", "show"} => pc'[y] = "free"
        BY DEF Fits, Apart, Busy
      <3> QED
        BY <1>1, <3>1, <3>2
    <2>3. CASE Step(p)
      <3>1. pc[p] # "free"
        BY <2>3, StepFacts
      <3> QED
        BY <1>1, <2>1, <3>1, ShowAlone
    <2> QED
      BY <2>2, <2>3
  <1>2. CASE q = p
    <2>1. CASE RemoveTmp(p)
      BY <1>2, <2>1, RemoveTmpPages
    <2>2. CASE Scan(p)
      BY <1>2, <2>2, ScanPages DEF Pages, Scan
    <2>3. CASE ScanEnds(p)
      BY <1>2, <2>3, ScanEndsPages DEF Pages, ScanEnds
    <2>4. CASE Begin(p)
      BY <1>2, <2>4, BeginFacts
    <2>5. CASE Check(p) \/ AppendUrl(p) \/ SedRead(p) \/ SedRename(p) \/ OpenTmp(p) \/ AwkRead(p)
               \/ AwkWrite(p) \/ Move(p) \/ Show(p)
      <3>1. pc'[p] \notin {"scan", "show"}
        BY <2>5 DEF Check, AppendUrl, SedRead, SedRename, OpenTmp, AwkRead, AwkWrite, Move, Show,
               Goto, TypeOK
      <3> QED
        BY <1>2, <3>1
    <2> QED
      BY <2>1, <2>2, <2>3, <2>4, <2>5 DEF Step
  <1> QED
    BY <1>1, <1>2

-----------------------------------------------------------------------------
(* The theorems                                                            *)

\* The inductive invariant: the types, and outside the scenario "any" that requests are
\* apart, the files are in order and the pages are right, and until two processes meet
\* inside add_url_cnt.sh also the number.
IInv ==
  /\ TypeOK /\ NodesTyped /\ Fits
  /\ scen # "any" => /\ Apart /\ OwnFiles /\ Edits /\ Pages
                     /\ ~met => Names /\ Numbers

\* It holds at first,
LEMMA InitInv ==
  ASSUME ConstantsOK, Init
  PROVE  IInv
  <1>1. Pages
    BY DEF Init, Pages
  <1> QED
    BY <1>1, InitTypes, InitCounts DEF IInv

\* every step keeps it,
LEMMA StepInv ==
  ASSUME ConstantsOK, IInv, NEW p \in Reqs, Begin(p) \/ Step(p)
  PROVE  IInv'
  <1>1. TypeOK' /\ NodesTyped' /\ Fits'
    BY NextTypes, NextNodes, NextFits DEF IInv, Next
  <1>2. scen' = scen
    BY StepFacts, BeginFacts DEF IInv
  <1>3. CASE scen # "any"
    <2>1. TypeOK /\ NodesTyped /\ Fits /\ Apart /\ OwnFiles /\ Edits /\ Pages /\ (~met => Names /\ Numbers)
      BY <1>3 DEF IInv
    <2>2. Apart' /\ OwnFiles' /\ Edits'
      BY <1>3, <2>1, NextApart, NextOwnFiles, NextEdits
    <2>3. Pages'
      BY <1>1, <2>1, <2>2, NextPages
    <2>4. ASSUME ~met' PROVE Names' /\ Numbers'
      <3>1. ~met /\ Names'
        BY <2>1, <2>4, NextNames
      <3>2. Numbers'
        BY <1>1, <2>1, <2>2, <2>4, <3>1, NextNumbers
      <3> QED
        BY <3>1, <3>2
    <2> QED
      BY <1>1, <2>2, <2>3, <2>4 DEF IInv
  <1>4. CASE scen = "any"
    BY <1>1, <1>2, <1>4 DEF IInv
  <1> QED
    BY <1>3, <1>4

\* and so does none.
LEMMA StutterInv ==
  ASSUME IInv, UNCHANGED vars
  PROVE  IInv'
  <1>1. /\ UNCHANGED <<scen, file, node, cnt, cnt_tmp, fd, val, tmp, at, line_begin, need_print>>
        /\ UNCHANGED <<pc, req, snap, served, met>>
    BY DEF vars, count, show
  <1>2. TypeOK' /\ NodesTyped' /\ Fits'
    BY <1>1 DEF IInv, TypeOK, NodesTyped, Fits, FilesTyped, Inside
  <1>3. CASE scen = "any"
    BY <1>1, <1>2, <1>3 DEF IInv
  <1>4. CASE scen # "any"
    <2>1. Apart /\ OwnFiles /\ Edits /\ Pages /\ (~met => Names /\ Numbers)
      BY <1>4 DEF IInv
    <2>2. Listing' = Listing
      BY <1>1, SameListing
    <2>3. Apart' /\ OwnFiles' /\ Edits'
      BY <1>1, <2>1 DEF Apart, OwnFiles, Edits, Busy, Own, Stored, Inside
    <2>4. Pages'
      BY <1>1, <2>1, <2>2 DEF Pages, Scanned, PageDone, Skip, Done, Before
    <2>5. Names <=> Names'
      BY <1>1 DEF Names, Counting
    <2>6. Counted' = Counted
      BY <1>1 DEF Counted, Pending, Inside, Stored
    <2>7. Numbers <=> Numbers'
      BY <1>1, <2>6 DEF Numbers
    <2> QED
      BY <1>1, <1>2, <2>1, <2>3, <2>4, <2>5, <2>7 DEF IInv
  <1> QED
    BY <1>3, <1>4

\* The inductive invariant holds.
THEOREM Invariance == Spec => []IInv
  <1>1. Init => IInv
    BY ConstantsAssumption, InitInv
  <1>2. IInv /\ [Next]_vars => IInv'
    BY ConstantsAssumption, StepInv, StutterInv DEF Next
  <1> QED
    BY <1>1, <1>2, PTL DEF Spec

\* The variables keep their types, in every scenario: each name and redirection stands
\* for a file, and each script is at a step of a request of its kind.
THEOREM TypesCorrect == Spec => [](TypeOK /\ NodesTyped /\ Fits)
  <1>1. IInv => TypeOK /\ NodesTyped /\ Fits
    BY DEF IInv
  <1> QED
    BY <1>1, Invariance, PTL

\* With requests on different files, and no two processes at once inside add_url_cnt.sh,
\* url_cnt is the number of the urls whenever all is quiet: a request that fails or shows
\* is not counted, one that adds or deletes is, once.
THEOREM CountIsRight == Spec => []CountMatches
  <1>1. IInv => CountMatches
    <2> SUFFICES ASSUME IInv, scen # "any", ~met, Busy = {}
                 PROVE  node[cnt] = Len(Listing[1])
      BY DEF CountMatches
    <2> QED
      BY ConstantsAssumption, QuietCounts DEF IInv
  <1> QED
    BY <1>1, Invariance, PTL

\* A page is the run of lines of the listing that its number and size say, whatever
\* files the lines are in and whatever requests came before: no gap, no overlap.
THEOREM PagesRight == Spec => []PagesFollowOn
  <1>1. IInv => PagesFollowOn
    <2> SUFFICES ASSUME IInv, NEW p \in Reqs, scen # "any", pc[p] = "show"
                 PROVE  tmp = SubSeq(Listing[1], req[p].per * (req[p].cur - 1) + 2,
                               IF req[p].per * (req[p].cur - 1) + 2 + req[p].per - 1 <= Len(Listing[1])
                               THEN req[p].per * (req[p].cur - 1) + 2 + req[p].per - 1 ELSE Len(Listing[1]))
      BY DEF PagesFollowOn
    <2>1. tmp = Part(Listing[1], Skip(p), Least(Skip(p) + req[p].per, Len(Listing[1])))
      BY DEF IInv, Pages, PageDone
    <2>2. PICK sk \in Nat, per \in Nat \ {0} : sk = Skip(p) /\ per = req[p].per
      BY ConstantsAssumption, SkipFacts DEF IInv
    <2>3. PICK part \in Int : part = per * (req[p].cur - 1)
      <3>1. req[p].cur - 1 \in Int
        BY ConstantsAssumption, RequestOf DEF IInv
      <3> QED
        BY <3>1
    <2>4. sk = part + 1
      BY <2>2, <2>3 DEF Skip
    <2>5. PICK n : n = Len(Listing[1])
      OBVIOUS
    <2>6. part + 2 = sk + 1 /\ part + 2 + per - 1 = sk + per
      BY <2>4
    <2>7. tmp = SubSeq(Listing[1], sk + 1, IF sk + per <= n THEN sk + per ELSE n)
      BY <2>1, <2>2, <2>5 DEF Part, Least
    <2> QED
      BY <2>2, <2>3, <2>5, <2>6, <2>7
  <1> QED
    BY <1>1, Invariance, PTL

\* Requests at the same time on different files do not disturb each other: a url comes
\* or goes only by a step of a request that names it and asks for that.
THEOREM ChangedAsAsked == Spec => OnlyAsAsked
  <1> DEFINE A == scen # "any" =>
                    \A u \in Urls : Stored(u) # Stored(u)' =>
                      \E p \in Reqs : Asked(p, u) /\ (req[p].op = "add") = Stored(u)'
  <1>1. IInv /\ [Next]_vars => [A]_(vars)
    <2> SUFFICES ASSUME IInv, Next PROVE A
      OBVIOUS
    <2>1. PICK p \in Reqs : Begin(p) \/ Step(p)
      BY DEF Next
    <2> SUFFICES ASSUME scen # "any", NEW u \in Urls, Stored(u) # Stored(u)'
                 PROVE  Asked(p, u) /\ (req[p].op = "add") = Stored(u)'
      OBVIOUS
    <2>2. TypeOK /\ OwnFiles /\ Edits /\ Fits
      BY DEF IInv
    <2>3. Asked(p, u) /\ Stored(u)' = (req[p].op = "add")
      BY ConstantsAssumption, <2>1, <2>2, StoredStep
    <2> QED
      BY <2>3
  <1> QED
    BY <1>1, Invariance, PTL DEF Spec, OnlyAsAsked

-----------------------------------------------------------------------------
(* The crawler                                                             *)

\* The urls that were tried.
Tried == Range(download_md5)

\* What is visited has been tried; url has not until it is recorded, and is not
\* visited until its page turns out to be text.
InHand ==
  /\ \A n \in DOMAIN visited : visited[n].url \in Tried
  /\ spider_pc \in {"wget", "record"} => url \notin Tried
  /\ spider_pc = "filetype" =>
       url \in Tried /\ \A n \in DOMAIN visited : visited[n].url # url

\* In the first run the numbers of visited pages are below the next one, but for
\* the page in hand, and when the root names no new url: then the run is at its end.
NumbersInUse ==
  runs <= 1 =>
    /\ VisitedPagesKept
    /\ runs = 0 => spider_pc = "off" /\ visited = <<>> /\ htm_uniq = <<>>
    /\ (spider_pc # "off" /\ htm_uniq = <<>>) => Len(unvisited) = 1
    /\ spider_pc \notin {"off", "read"} => line >= 1
    /\ spider_pc \in {"wget", "record", "filetype"} => \A v \in Range(visited) : v.path < i
    /\ spider_pc \in {"search", "uniq", "append"} => \A v \in Range(visited) : v.path <= i
    /\ spider_pc = "read" => line >= Len(unvisited) \/ \A v \in Range(visited) : v.path < i

\* The lines of unvisited that have been read were tried, or are in hand.
ReadIsTried ==
  /\ line <= Len(unvisited)
  /\ \A k \in DOMAIN unvisited :
       k <= line => unvisited[k] \in Tried
                    \/ (spider_pc \in {"wget", "record"} /\ unvisited[k] = url)

\* A url that a visited page names has been tried, or is in hand, in a line to come,
\* or in a temporary file.
Ahead(u) == \E k \in DOMAIN unvisited : k > line /\ unvisited[k] = u
OnItsWay(u) ==
  \/ u \in Tried
  \/ spider_pc \in {"wget", "record"} /\ u = url
  \/ spider_pc # "off" /\ Ahead(u)
  \/ spider_pc = "uniq" /\ u \in htm
  \/ spider_pc \in {"uniq", "append"} /\ u \in Range(htm_uniq)
Unfinished ==
  ~kills =>
    /\ ReadIsTried
    /\ \A v \in Range(visited) :
         (spider_pc = "search" /\ v.url = url) \/ \A u \in web[v.url] : OnItsWay(u)

SpiderIInv == SpiderTypeOK /\ InHand /\ VisitedOnce /\ NumbersInUse /\ Unfinished

-----------------------------------------------------------------------------
(* Sequences                                                               *)

\* A line appended to a file is the last, and the others stay.
LEMMA AppendFacts ==
  ASSUME NEW S, NEW s \in Seq(S), NEW x \in S
  PROVE  /\ Append(s, x) \in Seq(S)
         /\ Len(Append(s, x)) = Len(s) + 1
         /\ DOMAIN Append(s, x) = DOMAIN s \cup {Len(s) + 1}
         /\ \A k \in DOMAIN s : Append(s, x)[k] = s[k]
         /\ Append(s, x)[Len(s) + 1] = x
         /\ Range(Append(s, x)) = Range(s) \cup {x}
  <1>1. /\ Append(s, x) \in Seq(S)
        /\ Len(Append(s, x)) = Len(s) + 1
    OBVIOUS
  <1>2. /\ DOMAIN s = 1..Len(s)
        /\ DOMAIN Append(s, x) = 1..Len(s) + 1
        /\ Len(s) \in Nat
    OBVIOUS
  <1>3. DOMAIN Append(s, x) = DOMAIN s \cup {Len(s) + 1}
    BY <1>2
  <1>4. /\ \A k \in DOMAIN s : Append(s, x)[k] = s[k]
        /\ Append(s, x)[Len(s) + 1] = x
    OBVIOUS
  <1>5. Range(Append(s, x)) = Range(s) \cup {x}
    BY <1>3, <1>4, <1>2 DEF Range
  <1> QED
    BY <1>1, <1>3, <1>4, <1>5

\* cat of one file behind another: the lines of both, the first ones in their places.
LEMMA ConcatFacts ==
  ASSUME NEW S, NEW s \in Seq(S), NEW r \in Seq(S)
  PROVE  /\ s \o r \in Seq(S)
         /\ Len(s \o r) = Len(s) + Len(r)
         /\ \A k \in DOMAIN s : k \in DOMAIN (s \o r) /\ (s \o r)[k] = s[k]
         /\ \A k \in DOMAIN (s \o r) : k \in DOMAIN s \/ (k > Len(s) /\ (s \o r)[k] = r[k - Len(s)])
         /\ \A k \in DOMAIN r : Len(s) + k \in DOMAIN (s \o r) /\ (s \o r)[Len(s) + k] = r[k]
  <1>1. /\ s \o r \in Seq(S)
        /\ Len(s \o r) = Len(s) + Len(r)
        /\ Len(s) \in Nat /\ Len(r) \in Nat
        /\ DOMAIN s = 1..Len(s) /\ DOMAIN r = 1..Len(r)
        /\ DOMAIN (s \o r) = 1..Len(s) + Len(r)
    OBVIOUS
  <1>2. \A k \in DOMAIN (s \o r) : (s \o r)[k] = IF k <= Len(s) THEN s[k] ELSE r[k - Len(s)]
    OBVIOUS
  <1>3. \A k \in DOMAIN s : k \in DOMAIN (s \o r) /\ (s \o r)[k] = s[k]
    BY <1>1, <1>2
  <1>4. \A k \in DOMAIN (s \o r) : k \in DOMAIN s \/ (k > Len(s) /\ (s \o r)[k] = r[k - Len(s)])
    BY <1>1, <1>2
  <1>5. \A k \in DOMAIN r : Len(s) + k \in DOMAIN (s \o r) /\ (s \o r)[Len(s) + k] = r[k]
    BY <1>1, <1>2
  <1> QED
    BY <1>1, <1>3, <1>4, <1>5

-----------------------------------------------------------------------------
(* Types                                                                   *)

LEMMA SpiderInitTypes ==
  ASSUME WebsOK, SpiderInit
  PROVE  SpiderTypeOK
  BY DEF WebsOK, SpiderInit, SpiderTypeOK, WebUrls, SpiderPC

LEMMA SpiderNextTypes ==
  ASSUME WebsOK, SpiderTypeOK, [SpiderNext]_spider_vars
  PROVE  SpiderTypeOK'
  <1> USE DEF files, spider_tmp, loop
  <1>1. CASE UNCHANGED spider_vars
    BY <1>1 DEF SpiderTypeOK, spider_vars
  <1>2. CASE BeginRun
    <2>1. /\ unvisited' \in Seq(WebUrls)
          /\ spider_pc' = "read" /\ line' = 0 /\ i' = 1
      BY <1>2 DEF BeginRun
    <2>2. runs' \in 0..MaxRuns
      BY <1>2 DEF WebsOK, BeginRun, SpiderTypeOK
    <2> QED
      BY <1>2, <2>1, <2>2 DEF BeginRun, SpiderTypeOK, SpiderPC
  <1>3. CASE Read
    <2>1. line' \in Nat /\ url' \in WebUrls
      BY <1>3 DEF Read, SpiderTypeOK
    <2>2. spider_pc' \in {"off", "read", "wget"}
      BY <1>3 DEF Read
    <2> QED
      BY <1>3, <2>1, <2>2 DEF Read, SpiderTypeOK, SpiderPC
  <1>4. CASE Wget
    <2>1. \A n \in DOMAIN dump' : dump'[n] \in WebUrls \cup {NoText}
      BY <1>4 DEF Wget, With, SpiderTypeOK
    <2>2. i \in DOMAIN dump'
      BY <1>4 DEF Wget, With
    <2> QED
      BY <1>4, <2>1, <2>2 DEF Wget, SpiderTypeOK, SpiderPC
  <1>5. CASE Record
    <2>1. download_md5' \in Seq(WebUrls)
      BY <1>5 DEF Record, SpiderTypeOK
    <2> QED
      BY <1>5, <2>1 DEF Record, SpiderTypeOK, SpiderPC
  <1>6. CASE FileType
    <2>1. CASE dump[i] = url
      <3>1. [url |-> url, path |-> i] \in [url : WebUrls, path : Nat]
        BY DEF SpiderTypeOK
      <3>2. visited' = Append(visited, [url |-> url, path |-> i])
        BY <1>6, <2>1 DEF FileType
      <3>3. visited \in Seq([url : WebUrls, path : Nat])
        BY DEF SpiderTypeOK
      <3>4. visited' \in Seq([url : WebUrls, path : Nat])
        BY <3>1, <3>2, <3>3, AppendFacts
      <3> QED
        BY <1>6, <2>1, <3>4 DEF FileType, SpiderTypeOK, SpiderPC
    <2>2. CASE dump[i] # url
      <3>1. \A n \in DOMAIN dump' : dump'[n] \in WebUrls \cup {NoText}
        BY <1>6, <2>2 DEF FileType, Without, SpiderTypeOK
      <3> QED
        BY <1>6, <2>2, <3>1 DEF FileType, SpiderTypeOK, SpiderPC
    <2> QED
      BY <2>1, <2>2
  <1>7. CASE Search
    <2>1. htm' \subseteq WebUrls
      BY <1>7 DEF Search, SpiderTypeOK
    <2> QED
      BY <1>7, <2>1 DEF Search, SpiderTypeOK, SpiderPC
  <1>8. CASE Uniq
    <2>1. htm' \subseteq WebUrls /\ spider_pc' \in {"uniq", "append"}
      BY <1>8 DEF Uniq, SpiderTypeOK
    <2>2. \/ htm_uniq' = htm_uniq
          \/ \E u \in htm : htm_uniq' = Append(htm_uniq, u)
      BY <1>8 DEF Uniq
    <2>3. htm_uniq \in Seq(WebUrls) /\ htm \subseteq WebUrls
      BY DEF SpiderTypeOK
    <2>4. htm_uniq' \in Seq(WebUrls)
      BY <2>2, <2>3, AppendFacts
    <2> QED
      BY <1>8, <2>1, <2>4 DEF Uniq, SpiderTypeOK, SpiderPC
  <1>9. CASE AppendUrls
    <2>1. unvisited' \in Seq(WebUrls) /\ i' \in Nat
      BY <1>9 DEF AppendUrls, SpiderTypeOK
    <2> QED
      BY <1>9, <2>1 DEF AppendUrls, SpiderTypeOK, SpiderPC
  <1>10. CASE Kill
    BY <1>10 DEF Kill, SpiderTypeOK, SpiderPC
  <1> QED
    BY <1>1, <1>2, <1>3, <1>4, <1>5, <1>6, <1>7, <1>8, <1>9, <1>10 DEF SpiderNext, Crawl

-----------------------------------------------------------------------------
(* What is visited                                                         *)

\* A step of any other kind leaves both files, and url unless it reads a line.
LEMMA FilesLeft ==
  ASSUME [SpiderNext]_spider_vars, ~Record, ~FileType
  PROVE  /\ UNCHANGED <<visited, download_md5>>
         /\ \/ Read
            \/ url' = url /\ (spider_pc' \in {"wget", "record"} => spider_pc \in {"wget", "record"})
                          /\ (spider_pc' = "filetype" => spider_pc = "filetype")
  <1> USE DEF files, spider_tmp, loop
  <1>1. CASE UNCHANGED spider_vars
    BY <1>1 DEF spider_vars
  <1>2. CASE BeginRun
    BY <1>2 DEF BeginRun
  <1>3. CASE Read
    BY <1>3 DEF Read
  <1>4. CASE Wget
    BY <1>4 DEF Wget
  <1>5. CASE Search
    BY <1>5 DEF Search
  <1>6. CASE Uniq
    BY <1>6 DEF Uniq
  <1>7. CASE AppendUrls
    BY <1>7 DEF AppendUrls
  <1>8. CASE Kill
    BY <1>8 DEF Kill
  <1> QED
    BY <1>1, <1>2, <1>3, <1>4, <1>5, <1>6, <1>7, <1>8 DEF SpiderNext, Crawl

LEMMA NextInHand ==
  ASSUME SpiderTypeOK, InHand, VisitedOnce, [SpiderNext]_spider_vars
  PROVE  InHand' /\ VisitedOnce'
  <1>1. CASE Record
    <2>1. Tried' = Tried \cup {url}
      BY <1>1, AppendFacts DEF Record, SpiderTypeOK, Tried
    <2>2. UNCHANGED <<visited, url>> /\ spider_pc = "record" /\ spider_pc' = "filetype"
      BY <1>1 DEF Record, loop
    <2>3. VisitedOnce'
      BY <2>2 DEF VisitedOnce
    <2>4. \A n \in DOMAIN visited : visited[n].url \in Tried /\ visited[n].url # url
      BY <2>2 DEF InHand
    <2> QED
      BY <2>1, <2>2, <2>3, <2>4 DEF InHand
  <1>2. CASE FileType
    <2>1. Tried' = Tried /\ url' = url /\ spider_pc = "filetype" /\ spider_pc' \in {"search", "read"}
      BY <1>2 DEF FileType, Tried, loop
    <2>2. CASE visited' = visited
      BY <2>1, <2>2 DEF InHand, VisitedOnce
    <2>3. CASE visited' # visited
      <3> DEFINE v == [url |-> url, path |-> i]
      <3>1. visited' = Append(visited, v)
        BY <1>2, <2>3 DEF FileType
      <3>2. v \in [url : WebUrls, path : Nat] /\ visited \in Seq([url : WebUrls, path : Nat])
        BY DEF SpiderTypeOK
      <3>3. v.url = url
        OBVIOUS
      <3> HIDE DEF v
      <3>4. /\ DOMAIN visited' = DOMAIN visited \cup {Len(visited) + 1}
            /\ \A k \in DOMAIN visited : visited'[k] = visited[k]
            /\ visited'[Len(visited) + 1] = v
        BY <3>1, <3>2, AppendFacts
      <3>5. url \in Tried /\ \A n \in DOMAIN visited : visited[n].url # url
        BY <2>1 DEF InHand
      <3>6. VisitedOnce'
        BY <3>3, <3>4, <3>5 DEF VisitedOnce
      <3>7. \A n \in DOMAIN visited' : visited'[n].url \in Tried
        BY <3>3, <3>4, <3>5 DEF InHand
      <3> QED
        BY <2>1, <3>6, <3>7 DEF InHand
    <2> QED
      BY <2>2, <2>3
  <1>3. CASE ~Record /\ ~FileType
    <2>1. /\ UNCHANGED <<visited, download_md5>>
          /\ \/ Read
             \/ url' = url /\ (spider_pc' \in {"wget", "record"} => spider_pc \in {"wget", "record"})
                           /\ (spider_pc' = "filetype" => spider_pc = "filetype")
      BY <1>3, FilesLeft
    <2>2. Tried' = Tried
      BY <2>1 DEF Tried
    <2>3. VisitedOnce'
      BY <2>1 DEF VisitedOnce
    <2>4. CASE Read
      <3>1. spider_pc' \in {"read", "wget", "off"} /\ (spider_pc' = "wget" => url' \notin Tried)
        BY <2>4 DEF Read, Tried
      <3> QED
        BY <2>1, <2>2, <2>3, <3>1 DEF InHand
    <2>5. CASE ~Read
      BY <2>1, <2>2, <2>3, <2>5 DEF InHand
    <2> QED
      BY <2>4, <2>5
  <1> QED
    BY <1>1, <1>2, <1>3

-----------------------------------------------------------------------------
(* Numbers of pages                                                        *)

LEMMA PathsAreNumbers == SpiderTypeOK => \A v \in Range(visited) : v.path \in Nat
  <1> SUFFICES ASSUME SpiderTypeOK, NEW n \in DOMAIN visited PROVE visited[n].path \in Nat
    BY DEF Range
  <1> DEFINE Visits == [url : WebUrls, path : Nat]
  <1>1. visited \in Seq(Visits)
    BY DEF SpiderTypeOK
  <1>2. \A v \in Visits : v.path \in Nat
    OBVIOUS
  <1> HIDE DEF Visits
  <1>3. visited[n] \in Visits
    BY <1>1
  <1> QED
    BY <1>2, <1>3

LEMMA NextNumbersInUse ==
  ASSUME SpiderTypeOK, NumbersInUse, [SpiderNext]_spider_vars
  PROVE  NumbersInUse'
  <1> SUFFICES ASSUME runs' <= 1 PROVE NumbersInUse'
    BY DEF NumbersInUse
  <1> USE DEF files, spider_tmp, loop
  <1>1. CASE UNCHANGED spider_vars
    BY <1>1 DEF spider_vars, NumbersInUse, VisitedPagesKept
  <1>2. CASE BeginRun
    <2>1. runs = 0 /\ runs' = 1 /\ spider_pc' = "read"
      BY <1>2 DEF BeginRun, SpiderTypeOK
    <2>2. visited' = <<>>
      BY <1>2, <2>1 DEF BeginRun, NumbersInUse
    <2>3. Range(visited') = {}
      BY <2>2 DEF Range
    <2>4. Len(unvisited') = 1
      BY <1>2 DEF BeginRun
    <2> QED
      BY <2>1, <2>3, <2>4 DEF NumbersInUse, VisitedPagesKept
  <1> SUFFICES ASSUME ~BeginRun PROVE NumbersInUse'
    BY <1>2
  <1>3. CASE Read
    <2>1. /\ UNCHANGED <<runs, unvisited, visited, dump, htm_uniq, i>>
          /\ spider_pc = "read" /\ spider_pc' \in {"read", "wget", "off"}
          /\ spider_pc' # "off" => line < Len(unvisited) /\ line' = line + 1
      BY <1>3 DEF Read
    <2>2. Len(unvisited) \in Nat /\ line \in Nat
      BY DEF SpiderTypeOK
    <2>3. spider_pc' # "off" => \A v \in Range(visited) : v.path < i
      BY <2>1, <2>2 DEF NumbersInUse
    <2> QED
      BY <2>1, <2>2, <2>3 DEF NumbersInUse, VisitedPagesKept
  <1>4. CASE Wget
    <2>1. /\ UNCHANGED <<runs, unvisited, visited, htm_uniq, line, i>>
          /\ spider_pc = "wget" /\ spider_pc' = "record"
      BY <1>4 DEF Wget
    <2>2. PICK page : dump' = With(dump, i, page)
      BY <1>4 DEF Wget
    <2>3. \A v \in Range(visited) : v.path < i /\ v.path \in DOMAIN dump /\ dump[v.path] = v.url
      BY <2>1 DEF NumbersInUse, VisitedPagesKept
    <2>4. i \in Nat
      BY DEF SpiderTypeOK
    <2>5. \A v \in Range(visited) : v.path # i
      BY <2>3, <2>4
    <2>6. VisitedPagesKept'
      BY <2>1, <2>2, <2>3, <2>5 DEF With, VisitedPagesKept
    <2> QED
      BY <2>1, <2>6 DEF NumbersInUse
  <1>5. CASE Record
    <2>1. /\ UNCHANGED <<runs, unvisited, visited, dump, htm_uniq, line, i>>
          /\ spider_pc = "record" /\ spider_pc' = "filetype"
      BY <1>5 DEF Record
    <2> QED
      BY <2>1 DEF NumbersInUse, VisitedPagesKept
  <1>6. CASE FileType
    <2>1. /\ UNCHANGED <<runs, unvisited, htm_uniq, line, i, url>>
          /\ spider_pc = "filetype" /\ spider_pc' \in {"search", "read"}
      BY <1>6 DEF FileType
    <2>2. \A v \in Range(visited) : v.path < i /\ v.path \in DOMAIN dump /\ dump[v.path] = v.url
      BY <2>1 DEF NumbersInUse, VisitedPagesKept
    <2>3. i \in Nat /\ (spider_pc = "filetype" => i \in DOMAIN dump)
      BY DEF SpiderTypeOK
    <2>4. \A v \in Range(visited) : v.path # i
      BY <2>2, <2>3
    <2>5. CASE dump[i] = url
      <3> DEFINE v == [url |-> url, path |-> i]
      <3>1. visited' = Append(visited, v) /\ dump' = dump /\ spider_pc' = "search"
        BY <1>6, <2>5 DEF FileType
      <3>2. v \in [url : WebUrls, path : Nat] /\ visited \in Seq([url : WebUrls, path : Nat])
        BY DEF SpiderTypeOK
      <3>3. v.url = url /\ v.path = i
        OBVIOUS
      <3> HIDE DEF v
      <3>4. Range(visited') = Range(visited) \cup {v}
        <4> DEFINE Visits == [url : WebUrls, path : Nat]
        <4>1. v \in Visits /\ visited \in Seq(Visits)
          BY <3>2
        <4> HIDE DEF Visits
        <4>2. Range(Append(visited, v)) = Range(visited) \cup {v}
          BY <4>1, AppendFacts
        <4> QED
          BY <3>1, <4>2
      <3>5. VisitedPagesKept'
        BY <2>1, <2>2, <2>3, <2>5, <3>1, <3>3, <3>4 DEF VisitedPagesKept
      <3>6. \A w \in Range(visited) : w.path \in Nat
        BY PathsAreNumbers
      <3>7. \A w \in Range(visited') : w.path <= i
        BY <2>2, <2>3, <3>3, <3>4, <3>6
      <3> QED
        BY <2>1, <3>1, <3>5, <3>7 DEF NumbersInUse
    <2>6. CASE dump[i] # url
      <3>1. visited' = visited /\ dump' = Without(dump, i) /\ spider_pc' = "read"
        BY <1>6, <2>6 DEF FileType
      <3>2. VisitedPagesKept'
        BY <2>2, <2>4, <3>1 DEF VisitedPagesKept, Without
      <3> QED
        BY <2>1, <2>2, <3>1, <3>2 DEF NumbersInUse
    <2> QED
      BY <2>5, <2>6
  <1>7. CASE Search
    <2>1. /\ UNCHANGED <<runs, unvisited, visited, dump, htm_uniq, line, i>>
          /\ spider_pc = "search" /\ spider_pc' = "uniq"
      BY <1>7 DEF Search
    <2> QED
      BY <2>1 DEF NumbersInUse, VisitedPagesKept
  <1>8. CASE Uniq
    <2>1. /\ UNCHANGED <<runs, unvisited, visited, dump, line, i>>
          /\ spider_pc = "uniq" /\ spider_pc' \in {"uniq", "append"}
      BY <1>8 DEF Uniq
    <2>2. \/ htm_uniq' = htm_uniq
          \/ \E u \in htm : htm_uniq' = Append(htm_uniq, u)
      BY <1>8 DEF Uniq
    <2>3. htm_uniq \in Seq(WebUrls) /\ htm \subseteq WebUrls
      BY DEF SpiderTypeOK
    <2>4. htm_uniq' = <<>> => htm_uniq = <<>>
      BY <2>2, <2>3
    <2> QED
      BY <2>1, <2>4 DEF NumbersInUse, VisitedPagesKept
  <1>9. CASE AppendUrls
    <2>1. /\ UNCHANGED <<runs, visited, dump, line, htm_uniq>>
          /\ spider_pc = "append" /\ spider_pc' = "read"
          /\ unvisited' = unvisited \o htm_uniq
          /\ i' = IF htm_uniq = <<>> THEN i ELSE i + 1
      BY <1>9 DEF AppendUrls
    <2>2. /\ unvisited \in Seq(WebUrls) /\ htm_uniq \in Seq(WebUrls) /\ line \in Nat /\ i \in Nat
      BY DEF SpiderTypeOK
    <2>3. \A v \in Range(visited) : v.path \in Nat
      BY PathsAreNumbers
    <2>4. \A v \in Range(visited) : v.path <= i
      BY <2>1 DEF NumbersInUse
    <2>5. line >= 1
      BY <2>1 DEF NumbersInUse
    <2>6. htm_uniq = <<>> => unvisited' = unvisited /\ Len(unvisited) = 1
      BY <2>1, <2>2 DEF NumbersInUse
    <2>7. htm_uniq # <<>> => \A v \in Range(visited) : v.path < i'
      BY <2>1, <2>2, <2>3, <2>4
    <2>8. line' >= Len(unvisited') \/ \A v \in Range(visited) : v.path < i'
      BY <2>1, <2>2, <2>5, <2>6, <2>7
    <2>9. VisitedPagesKept'
      BY <2>1 DEF NumbersInUse, VisitedPagesKept
    <2> QED
      BY <2>1, <2>6, <2>8, <2>9 DEF NumbersInUse
  <1>10. CASE Kill
    <2>1. /\ UNCHANGED <<runs, unvisited, visited, dump, htm_uniq, line, i>>
          /\ spider_pc # "off" /\ spider_pc' = "off"
      BY <1>10 DEF Kill
    <2> QED
      BY <2>1 DEF NumbersInUse, VisitedPagesKept
  <1> QED
    BY <1>1, <1>3, <1>4, <1>5, <1>6, <1>7, <1>8, <1>9, <1>10 DEF SpiderNext, Crawl

-----------------------------------------------------------------------------
(* Urls on their way                                                       *)

\* Where no page is between its visit and its search, it is enough that each url
\* on its way stays so.
LEMMA StayOnTheirWay ==
  ASSUME Unfinished, UNCHANGED <<web, visited, kills>>, spider_pc # "search",
         ~kills => ReadIsTried',
         NEW P, ~kills => \A u \in P : OnItsWay(u) => OnItsWay(u)',
         \A v \in Range(visited) : web[v.url] \subseteq P
  PROVE  Unfinished'
  <1> SUFFICES ASSUME ~kills, NEW v \in Range(visited), NEW u \in web[v.url]
               PROVE  OnItsWay(u)'
    BY DEF Unfinished
  <1>1. OnItsWay(u)
    BY DEF Unfinished
  <1> QED
    BY <1>1

\* The web names urls.
LEMMA NamedAreUrls == SpiderTypeOK => \A v \in Range(visited) : web[v.url] \subseteq WebUrls
  <1> SUFFICES ASSUME SpiderTypeOK, NEW n \in DOMAIN visited PROVE web[visited[n].url] \subseteq WebUrls
    BY DEF Range
  <1> DEFINE Visits == [url : WebUrls, path : Nat]
  <1>1. visited \in Seq(Visits) /\ web \in [WebUrls -> SUBSET WebUrls]
    BY DEF SpiderTypeOK
  <1>2. \A v \in Visits : v.url \in WebUrls
    OBVIOUS
  <1> HIDE DEF Visits
  <1>3. visited[n].url \in WebUrls
    BY <1>1, <1>2
  <1> QED
    BY <1>1, <1>3

LEMMA NextUnfinished ==
  ASSUME SpiderTypeOK, Unfinished, [SpiderNext]_spider_vars
  PROVE  Unfinished'
  <1> USE DEF files, spider_tmp, loop
  <1>1. UNCHANGED <<web, kills>>
    BY DEF SpiderNext, Crawl, BeginRun, Read, Wget, Record, FileType, Search, Uniq, AppendUrls, Kill, spider_vars
  <1> SUFFICES ASSUME ~kills PROVE Unfinished'
    BY <1>1 DEF Unfinished
  <1>2. /\ line <= Len(unvisited)
        /\ \A k \in DOMAIN unvisited :
             k <= line => unvisited[k] \in Tried
                          \/ (spider_pc \in {"wget", "record"} /\ unvisited[k] = url)
    BY DEF Unfinished, ReadIsTried
  <1>3. unvisited \in Seq(WebUrls) /\ htm_uniq \in Seq(WebUrls) /\ htm \subseteq WebUrls /\ line \in Nat
    BY DEF SpiderTypeOK
  <1>4. DOMAIN unvisited = 1..Len(unvisited) /\ Len(unvisited) \in Nat
    BY <1>3
  <1>5. \A v \in Range(visited) : web[v.url] \subseteq WebUrls
    BY NamedAreUrls
  <1>6. CASE UNCHANGED spider_vars
    BY <1>6 DEF spider_vars, Unfinished, ReadIsTried, OnItsWay, Ahead, Tried
  <1>7. CASE BeginRun
    <2>1. /\ UNCHANGED <<visited, download_md5>>
          /\ spider_pc = "off" /\ spider_pc' = "read" /\ line' = 0
          /\ \E root \in WebUrls : unvisited' = <<root>>
      BY <1>7 DEF BeginRun
    <2>2. Tried' = Tried
      BY <2>1 DEF Tried
    <2>3. ReadIsTried'
      BY <2>1 DEF ReadIsTried
    <2>4. \A u \in WebUrls : OnItsWay(u) => OnItsWay(u)'
      BY <2>1, <2>2 DEF OnItsWay
    <2>5. spider_pc # "search"
      BY <2>1
    <2> QED
      BY <1>1, <1>5, <2>1, <2>3, <2>4, <2>5, StayOnTheirWay
  <1>8. CASE Read
    <2>1. UNCHANGED <<unvisited, visited, download_md5>> /\ spider_pc = "read"
      BY <1>8 DEF Read
    <2>2. Tried' = Tried
      BY <2>1 DEF Tried
    <2>3. CASE line < Len(unvisited)
      <3>1. /\ line' = line + 1 /\ url' = unvisited[line + 1]
            /\ spider_pc' \in {"read", "wget"}
            /\ url' \in Tried \/ spider_pc' = "wget"
        BY <1>8, <2>3 DEF Read, Tried
      <3>2. ReadIsTried'
        <4>1. line' <= Len(unvisited')
          BY <1>3, <1>4, <2>1, <2>3, <3>1
        <4>2. ASSUME NEW k \in DOMAIN unvisited, k <= line'
              PROVE  unvisited[k] \in Tried \/ (spider_pc' = "wget" /\ unvisited[k] = url')
          <5>1. k <= line \/ k = line + 1
            BY <1>3, <1>4, <3>1, <4>2
          <5> QED
            BY <1>2, <2>1, <3>1, <5>1
        <4> QED
          BY <2>1, <2>2, <4>1, <4>2 DEF ReadIsTried
      <3>3. \A u \in WebUrls : OnItsWay(u) => OnItsWay(u)'
        <4> SUFFICES ASSUME NEW u \in WebUrls, OnItsWay(u) PROVE OnItsWay(u)'
          OBVIOUS
        <4>1. u \in Tried \/ Ahead(u)
          BY <2>1 DEF OnItsWay
        <4>2. CASE u \in Tried
          BY <2>2, <4>2 DEF OnItsWay
        <4>3. CASE Ahead(u)
          <5>1. PICK k \in DOMAIN unvisited : k > line /\ unvisited[k] = u
            BY <4>3 DEF Ahead
          <5>2. k = line + 1 \/ k > line'
            BY <1>3, <1>4, <3>1, <5>1
          <5>3. CASE k = line + 1
            BY <2>2, <3>1, <5>1, <5>3 DEF OnItsWay
          <5>4. CASE k > line'
            BY <2>1, <3>1, <5>1, <5>4 DEF OnItsWay, Ahead
          <5> QED
            BY <5>2, <5>3, <5>4
        <4> QED
          BY <4>1, <4>2, <4>3
      <3>4. spider_pc # "search"
        BY <2>1
      <3> QED
        BY <1>1, <1>5, <2>1, <3>2, <3>3, <3>4, StayOnTheirWay
    <2>4. CASE ~(line < Len(unvisited))
      <3>1. line' = line /\ url' = url /\ spider_pc' = "off"
        BY <1>8, <2>4 DEF Read
      <3>2. ReadIsTried'
        BY <1>2, <2>1, <2>2, <3>1 DEF ReadIsTried
      <3>3. \A u : ~Ahead(u)
        BY <1>3, <1>4, <2>4 DEF Ahead
      <3>4. \A u \in WebUrls : OnItsWay(u) => OnItsWay(u)'
        BY <2>1, <2>2, <3>3 DEF OnItsWay
      <3>5. spider_pc # "search"
        BY <2>1
      <3> QED
        BY <1>1, <1>5, <2>1, <3>2, <3>4, <3>5, StayOnTheirWay
    <2> QED
      BY <2>3, <2>4
  <1>9. CASE Wget
    <2>1. /\ UNCHANGED <<unvisited, visited, download_md5, htm, htm_uniq, line, url>>
          /\ spider_pc = "wget" /\ spider_pc' = "record"
      BY <1>9 DEF Wget
    <2>2. Tried' = Tried
      BY <2>1 DEF Tried
    <2>3. ReadIsTried'
      BY <1>2, <2>1, <2>2 DEF ReadIsTried
    <2>4. \A u \in WebUrls : OnItsWay(u) => OnItsWay(u)'
      BY <2>1, <2>2 DEF OnItsWay, Ahead
    <2>5. spider_pc # "search"
      BY <2>1
    <2> QED
      BY <1>1, <1>5, <2>1, <2>3, <2>4, <2>5, StayOnTheirWay
  <1>10. CASE Record
    <2>1. /\ UNCHANGED <<unvisited, visited, htm, htm_uniq, line, url>>
          /\ spider_pc = "record" /\ spider_pc' = "filetype"
      BY <1>10 DEF Record
    <2>2. Tried' = Tried \cup {url}
      BY <1>10, AppendFacts DEF Record, Tried, SpiderTypeOK
    <2>3. ReadIsTried'
      BY <1>2, <2>1, <2>2 DEF ReadIsTried
    <2>4. \A u \in WebUrls : OnItsWay(u) => OnItsWay(u)'
      BY <2>1, <2>2 DEF OnItsWay, Ahead
    <2>5. spider_pc # "search"
      BY <2>1
    <2> QED
      BY <1>1, <1>5, <2>1, <2>3, <2>4, <2>5, StayOnTheirWay
  <1>11. CASE FileType
    <2>1. /\ UNCHANGED <<unvisited, download_md5, htm, htm_uniq, line, url>>
          /\ spider_pc = "filetype" /\ spider_pc' \in {"search", "read"}
      BY <1>11 DEF FileType
    <2>2. Tried' = Tried
      BY <2>1 DEF Tried
    <2>3. ReadIsTried'
      BY <1>2, <2>1, <2>2 DEF ReadIsTried
    <2>4. \A u \in WebUrls : OnItsWay(u) => OnItsWay(u)'
      BY <2>1, <2>2 DEF OnItsWay, Ahead
    <2>5. spider_pc # "search"
      BY <2>1
    <2>6. CASE visited' = visited
      BY <1>1, <1>5, <2>3, <2>4, <2>5, <2>6, StayOnTheirWay
    <2>7. CASE visited' # visited
      <3> DEFINE v == [url |-> url, path |-> i]
      <3> DEFINE Visits == [url : WebUrls, path : Nat]
      <3>1. visited' = Append(visited, v) /\ spider_pc' = "search"
        BY <1>11, <2>7 DEF FileType
      <3>2. v \in Visits /\ visited \in Seq(Visits)
        BY DEF SpiderTypeOK
      <3>3. v.url = url
        OBVIOUS
      <3> HIDE DEF v, Visits
      <3>4. Range(Append(visited, v)) = Range(visited) \cup {v}
        BY <3>2, AppendFacts
      <3>5. \A w \in Range(visited') :
              (spider_pc' = "search" /\ w.url = url') \/ \A u \in web'[w.url] : OnItsWay(u)'
        <4> SUFFICES ASSUME NEW w \in Range(visited)
                     PROVE  \A u \in web[w.url] : OnItsWay(u)'
          BY <1>1, <2>1, <3>1, <3>3, <3>4
        <4>1. \A u \in web[w.url] : u \in WebUrls /\ OnItsWay(u)
          BY <1>5, <2>5 DEF Unfinished
        <4> QED
          BY <2>4, <4>1
      <3> QED
        BY <2>3, <3>5 DEF Unfinished
    <2> QED
      BY <2>6, <2>7
  <1>12. CASE Search
    <2>1. /\ UNCHANGED <<unvisited, visited, download_md5, htm_uniq, line, url>>
          /\ spider_pc = "search" /\ spider_pc' = "uniq" /\ htm' = web[url]
      BY <1>12 DEF Search
    <2>2. Tried' = Tried
      BY <2>1 DEF Tried
    <2>3. ReadIsTried'
      BY <1>2, <2>1, <2>2 DEF ReadIsTried
    <2>4. \A u : OnItsWay(u) => OnItsWay(u)'
      BY <2>1, <2>2 DEF OnItsWay, Ahead
    <2>5. \A u \in web[url] : OnItsWay(u)'
      BY <2>1 DEF OnItsWay
    <2>6. \A v \in Range(visited) : \A u \in web[v.url] : OnItsWay(u)'
      BY <2>4, <2>5 DEF Unfinished
    <2> QED
      BY <1>1, <2>1, <2>3, <2>6 DEF Unfinished
  <1>13. CASE Uniq
    <2>1. /\ UNCHANGED <<unvisited, visited, download_md5, line, url>>
          /\ spider_pc = "uniq" /\ spider_pc' \in {"uniq", "append"}
      BY <1>13 DEF Uniq
    <2>2. Tried' = Tried
      BY <2>1 DEF Tried
    <2>3. ReadIsTried'
      BY <1>2, <2>1, <2>2 DEF ReadIsTried
    <2>4. spider_pc # "search"
      BY <2>1
    <2>5. \A u \in WebUrls : OnItsWay(u) => OnItsWay(u)'
      <3>1. CASE htm = {} /\ spider_pc' = "append" /\ UNCHANGED spider_tmp
        BY <2>1, <2>2, <3>1 DEF OnItsWay, Ahead
      <3>2. ASSUME NEW w \in htm, spider_pc' = spider_pc, htm' = htm \ {w},
                   htm_uniq' = IF w \in Range(unvisited) THEN htm_uniq ELSE Append(htm_uniq, w)
            PROVE  \A u \in WebUrls : OnItsWay(u) => OnItsWay(u)'
        <4>1. Range(htm_uniq) \subseteq Range(htm_uniq')
          BY <1>3, <3>2, AppendFacts
        <4>2. w \in Range(unvisited) \/ w \in Range(htm_uniq')
          BY <1>3, <3>2, AppendFacts
        <4>3. w \in Range(unvisited) => w \in Tried \/ Ahead(w)
          BY <1>2, <1>3, <1>4, <2>1 DEF Range, Ahead
        <4>4. OnItsWay(w)'
          BY <2>1, <2>2, <3>2, <4>2, <4>3 DEF OnItsWay, Ahead
        <4>5. \A u \in WebUrls \ {w} : OnItsWay(u) => OnItsWay(u)'
          BY <2>1, <2>2, <3>2, <4>1 DEF OnItsWay, Ahead
        <4> QED
          BY <4>4, <4>5
      <3> QED
        BY <1>13, <3>1, <3>2 DEF Uniq
    <2> QED
      BY <1>1, <1>5, <2>1, <2>3, <2>4, <2>5, StayOnTheirWay
  <1>14. CASE AppendUrls
    <2>1. /\ UNCHANGED <<visited, download_md5, line, url>>
          /\ spider_pc = "append" /\ spider_pc' = "read" /\ unvisited' = unvisited \o htm_uniq
      BY <1>14 DEF AppendUrls
    <2>2. Tried' = Tried
      BY <2>1 DEF Tried
    <2>3. /\ Len(unvisited') = Len(unvisited) + Len(htm_uniq)
          /\ \A k \in DOMAIN unvisited : k \in DOMAIN unvisited' /\ unvisited'[k] = unvisited[k]
          /\ \A k \in DOMAIN unvisited' : k \in DOMAIN unvisited \/ k > Len(unvisited)
          /\ \A k \in DOMAIN htm_uniq :
               Len(unvisited) + k \in DOMAIN unvisited' /\ unvisited'[Len(unvisited) + k] = htm_uniq[k]
      BY <1>3, <2>1, ConcatFacts
    <2>4. Len(htm_uniq) \in Nat /\ DOMAIN htm_uniq = 1..Len(htm_uniq)
      BY <1>3
    <2>5. ReadIsTried'
      <3>1. line' <= Len(unvisited')
        BY <1>2, <1>3, <1>4, <2>1, <2>3, <2>4
      <3>2. ASSUME NEW k \in DOMAIN unvisited', k <= line
            PROVE  unvisited'[k] \in Tried
        <4>1. k \in DOMAIN unvisited
          <5>1. CASE k > Len(unvisited)
            <6>1. k \in Nat
              BY <1>4, <2>3, <2>4, <3>2, <1>3, <2>1
            <6> QED
              BY <1>2, <1>3, <1>4, <3>2, <5>1, <6>1
          <5> QED
            BY <2>3, <3>2, <5>1
        <4> QED
          BY <1>2, <2>1, <2>3, <3>2, <4>1
      <3> QED
        BY <2>1, <2>2, <3>1, <3>2 DEF ReadIsTried
    <2>6. \A u : Ahead(u) => Ahead(u)'
      BY <2>1, <2>3 DEF Ahead
    <2>7. \A u \in Range(htm_uniq) : Ahead(u)'
      <3> SUFFICES ASSUME NEW k \in DOMAIN htm_uniq
                   PROVE  \E j \in DOMAIN unvisited' : j > line /\ unvisited'[j] = htm_uniq[k]
        BY <2>1 DEF Range, Ahead
      <3>1. Len(unvisited) + k > line
        BY <1>2, <1>3, <1>4, <2>4
      <3> QED
        BY <2>3, <3>1
    <2>8. \A u \in WebUrls : OnItsWay(u) => OnItsWay(u)'
      BY <2>1, <2>2, <2>6, <2>7 DEF OnItsWay
    <2>9. spider_pc # "search"
      BY <2>1
    <2> QED
      BY <1>1, <1>5, <2>1, <2>5, <2>8, <2>9, StayOnTheirWay
  <1>15. CASE Kill
    BY <1>15 DEF Kill
  <1> QED
    BY <1>6, <1>7, <1>8, <1>9, <1>10, <1>11, <1>12, <1>13, <1>14, <1>15 DEF SpiderNext, Crawl

-----------------------------------------------------------------------------
(* The invariant                                                           *)

LEMMA SpiderInitInv ==
  ASSUME WebsOK, SpiderInit
  PROVE  SpiderIInv
  <1>1. SpiderTypeOK
    BY SpiderInitTypes
  <1>2. /\ unvisited = <<>> /\ visited = <<>> /\ htm_uniq = <<>>
        /\ line = 0 /\ spider_pc = "off" /\ runs = 0
    BY DEF SpiderInit
  <1>3. Range(visited) = {} /\ DOMAIN visited = {} /\ DOMAIN unvisited = {} /\ Len(unvisited) = 0
    BY <1>2 DEF Range
  <1>4. InHand /\ VisitedOnce
    BY <1>2, <1>3 DEF InHand, VisitedOnce
  <1>5. NumbersInUse
    BY <1>2, <1>3 DEF NumbersInUse, VisitedPagesKept
  <1>6. Unfinished
    BY <1>2, <1>3 DEF Unfinished, ReadIsTried
  <1> QED
    BY <1>1, <1>4, <1>5, <1>6 DEF SpiderIInv

LEMMA SpiderNextInv ==
  ASSUME WebsOK, SpiderIInv, [SpiderNext]_spider_vars
  PROVE  SpiderIInv'
  BY SpiderNextTypes, NextInHand, NextNumbersInUse, NextUnfinished DEF SpiderIInv

\* The inductive invariant holds.
THEOREM SpiderInvariance == SpiderSpec => []SpiderIInv
  <1>1. SpiderInit => SpiderIInv
    BY WebsAssumption, SpiderInitInv
  <1>2. SpiderIInv /\ [SpiderNext]_spider_vars => SpiderIInv'
    BY WebsAssumption, SpiderNextInv
  <1> QED
    BY <1>1, <1>2, PTL DEF SpiderSpec

\* The variables keep their types.
THEOREM SpiderTypeCorrect == SpiderSpec => []SpiderTypeOK
  <1>1. SpiderIInv => SpiderTypeOK
    BY DEF SpiderIInv
  <1> QED
    BY SpiderInvariance, <1>1, PTL

\* Whatever the web, and however often the crawler is run and killed, no url is
\* visited twice.
THEOREM VisitOnce == SpiderSpec => []VisitedOnce
  <1>1. SpiderIInv => VisitedOnce
    BY DEF SpiderIInv
  <1> QED
    BY SpiderInvariance, <1>1, PTL

\* In the first run no page that visited names is overwritten or removed.
THEOREM PagesKept == SpiderSpec => []VisitedPagesKept
  <1>1. SpiderIInv => VisitedPagesKept
    BY DEF SpiderIInv, NumbersInUse, VisitedPagesKept
  <1> QED
    BY SpiderInvariance, <1>1, PTL

\* A crawler that is never killed has, whenever it is at rest, tried every url that
\* a page it visited names.
THEOREM Complete == SpiderSpec => []NothingOverlooked
  <1>1. SpiderIInv => NothingOverlooked
    <2> SUFFICES ASSUME Unfinished, spider_pc = "off", ~kills, NEW v \in Range(visited),
                        NEW u \in web[v.url]
                 PROVE  u \in Tried
      BY DEF SpiderIInv, NothingOverlooked, Tried
    <2>1. OnItsWay(u)
      BY DEF Unfinished
    <2> QED
      BY <2>1 DEF OnItsWay
  <1> QED
    BY SpiderInvariance, <1>1, PTL
=============================================================================
