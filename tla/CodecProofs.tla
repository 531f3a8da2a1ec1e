---------------------------- MODULE CodecProofs -----------------------------
(***************************************************************************)
(* Lemmas about FrameCodec, for buffers of any bytes: what a fold over a   *)
(* sequence is, which lines, fields, lengths and payloads a buffer holds,  *)
(* that they stay when more bytes arrive, what each decoder answers to     *)
(* them, and into which lines a header block is sliced.                    *)
(***************************************************************************)
EXTENDS FrameCodec, TLAPS, SequenceTheorems, FiniteSetTheorems, WellFoundedInduction

-----------------------------------------------------------------------------
(* Induction over a set of numbers, and recursion over a sequence.         *)

\* A set with 0 that is closed under successor holds every natural number.
LEMMA NatSetInduction ==
    ASSUME NEW T, 0 \in T, \A n \in Nat : n \in T => n + 1 \in T
    PROVE  Nat \subseteq T
<1> DEFINE R == StrictSubsetOrdering(Nat)
           F == FiniteSubsetsOf(Nat)
           C == {0..n : n \in Nat \ T}
<1>1. SUFFICES ASSUME NEW k \in Nat, k \notin T PROVE FALSE
  OBVIOUS
<1>2. IsWellFoundedOn(R, F)
  BY FS_StrictSubsetOrderingWellFounded
<1>3. C \subseteq F
  <2>1. \A n \in Nat : 0..n \subseteq Nat /\ IsFiniteSet(0..n)
    BY FS_Interval
  <2>. QED BY <2>1 DEF FiniteSubsetsOf
<1>4. C # {}
  BY <1>1
<1>5. PICK x \in C : \A y \in C : ~ (<<y, x>> \in R)
  <2> HIDE DEF C, R, F
  <2>. QED BY <1>2, <1>3, <1>4, WFMin
<1>6. PICK n \in Nat \ T : x = 0..n
  OBVIOUS
<1>7. n - 1 \in Nat /\ n - 1 + 1 = n
  BY <1>6
<1>8. n - 1 \notin T
  BY <1>6, <1>7
<1>9. 0..(n - 1) \in C
  BY <1>7, <1>8
<1>10. <<0..(n - 1), 0..n>> \in R
  <2>1. 0..(n - 1) \subseteq 0..n /\ n \in 0..n /\ n \notin 0..(n - 1)
    BY <1>7
  <2>2. 0..(n - 1) \in SUBSET Nat /\ 0..n \in SUBSET Nat
    BY <1>7
  <2>. QED BY <2>1, <2>2 DEF StrictSubsetOrdering
<1>. QED BY <1>5, <1>6, <1>9, <1>10

IsFold(f, S, start, step, N) ==
    f \in [0..N -> S] /\ f[0] = start /\ \A n \in 1..N : f[n] = step[n][f[n - 1]]

\* A fold exists: its steps, the n-th of which leads from x to step[n][x], stay in S.
LEMMA FoldExists ==
    ASSUME NEW S, NEW start \in S, NEW step \in [Nat -> [S -> S]], NEW N \in Nat
    PROVE  \E f : IsFold(f, S, start, step, N)
<1> DEFINE Is(f, m) == f = [n \in 0..m |-> IF n = 0 THEN start ELSE step[n][f[n - 1]]]
           T == {m \in Nat : \E f \in [0..m -> S] : Is(f, m)}
<1>1. 0 \in T
  <2>1. [n \in 0..0 |-> start] \in [0..0 -> S] /\ Is([n \in 0..0 |-> start], 0)
    OBVIOUS
  <2>. QED BY <2>1
<1>2. ASSUME NEW m \in Nat, m \in T PROVE m + 1 \in T
  <2>1. PICK f \in [0..m -> S] : Is(f, m)
    BY <1>2
  <2> DEFINE g == [n \in 0..(m + 1) |-> IF n \in 0..m THEN f[n] ELSE step[m + 1][f[m]]]
             h == [n \in 0..(m + 1) |-> IF n = 0 THEN start ELSE step[n][g[n - 1]]]
  <2>2. g \in [0..(m + 1) -> S]
    OBVIOUS
  <2>3. ASSUME NEW n \in 0..(m + 1) PROVE g[n] = h[n]
    <3>1. CASE n = 0
      BY <2>1, <3>1
    <3>2. CASE n \in 1..m
      <4>1. g[n] = f[n] /\ g[n - 1] = f[n - 1] /\ h[n] = step[n][g[n - 1]]
        BY <3>2
      <4>2. f[n] = step[n][f[n - 1]]
        BY <2>1, <3>2
      <4>. QED BY <4>1, <4>2
    <3>3. CASE n = m + 1
      BY <3>3
    <3>. QED BY <3>1, <3>2, <3>3
  <2>4. g = h
    BY <2>3
  <2>5. Is(g, m + 1)
    BY <2>4
  <2> HIDE DEF g, Is
  <2>. QED BY <2>2, <2>5
<1>3. Nat \subseteq T
  <2> HIDE DEF T
  <2>. QED BY <1>1, <1>2, NatSetInduction
<1>4. PICK f \in [0..N -> S] : Is(f, N)
  BY <1>3
<1>5. IsFold(f, S, start, step, N)
  BY <1>4 DEF IsFold
<1>. QED BY <1>5

\* Functions that begin alike and go on alike are equal.
Alike(f, g, N) ==
    /\ f = [n \in 0..N |-> f[n]] /\ g = [n \in 0..N |-> g[n]] /\ f[0] = g[0]
    /\ \A n \in 0..(N - 1) : f[n] = g[n] => f[n + 1] = g[n + 1]

LEMMA FoldsAgree ==
    ASSUME NEW N \in Nat, NEW f, NEW g, Alike(f, g, N)
    PROVE  f = g
<1> DEFINE T == {n \in Nat : n <= N => f[n] = g[n]}
<1>1. 0 \in T
  BY DEF Alike
<1>2. ASSUME NEW n \in Nat, n \in T PROVE n + 1 \in T
  <2>1. CASE n + 1 <= N
    <3>1. n \in 0..(N - 1) /\ f[n] = g[n]
      BY <1>2, <2>1
    <3>2. f[n + 1] = g[n + 1]
      BY <3>1 DEF Alike
    <3>. QED BY <3>2
  <2>. QED BY <2>1
<1>3. Nat \subseteq T
  <2> HIDE DEF T
  <2>. QED BY <1>1, <1>2, NatSetInduction
<1>4. \A n \in 0..N : f[n] = g[n]
  BY <1>3
<1>. QED BY <1>4 DEF Alike

-----------------------------------------------------------------------------
(* The first of some places.                                               *)

LEMMA FirstIs ==
    ASSUME NEW places \in SUBSET Nat, places # {}
    PROVE  First(places) \in places /\ \A j \in places : First(places) <= j
<1> DEFINE T == {n \in Nat : \A m \in places : m > n}
<1>1. \E i \in places : \A j \in places : i <= j
  <2>1. SUFFICES ASSUME \A i \in places : \E j \in places : j < i PROVE FALSE
    OBVIOUS
  <2>2. 0 \in T
    <3>1. ASSUME NEW m \in places PROVE m > 0
      <4>1. PICK j \in places : j < m
        BY <2>1
      <4>. QED BY <4>1
    <3>. QED BY <3>1
  <2>3. ASSUME NEW n \in Nat, n \in T PROVE n + 1 \in T
    <3>1. ASSUME NEW m \in places PROVE m > n + 1
      <4>1. PICK j \in places : j < m
        BY <2>1
      <4>. QED BY <2>3, <4>1
    <3>. QED BY <3>1
  <2>4. Nat \subseteq T
    <3> HIDE DEF T
    <3>. QED BY <2>2, <2>3, NatSetInduction
  <2>5. PICK i \in places : TRUE
    OBVIOUS
  <2>. QED BY <2>4, <2>5
<1>. QED BY <1>1 DEF First

\* It is the only one that is not after another.
LEMMA FirstOnly ==
    ASSUME NEW places \in SUBSET Nat, NEW i \in places, \A j \in places : i <= j
    PROVE  First(places) = i
<1>1. First(places) \in Nat /\ First(places) <= i /\ i <= First(places)
  BY FirstIs
<1>. QED BY <1>1

-----------------------------------------------------------------------------
(* The bytes of a buffer.                                                  *)

\* Strings: the provers have to be told of these that they are some.
Token == STRING \cup {"CR", "LF", "NATS/1.0", ":", " ", "'"}
                \cup Verbs("ServerCodec") \cup Verbs("ClientCodec")
Buffer == Seq(Token)

\* Buffers of the same bytes are the same.
LEMMA SameBytes ==
    ASSUME NEW s \in Buffer, NEW t \in Buffer, Len(s) = Len(t), \A i \in 1..Len(s) : s[i] = t[i]
    PROVE  s = t
BY SeqEqual, Zenon DEF Buffer

LEMMA WidthIs == \A token : Width(token) \in Nat
<1> SUFFICES ASSUME NEW token PROVE Width(token) \in Nat
  OBVIOUS
<1>1. Width(token) \in {1, 3, 4, 5, 6, 8}
  BY Zenon DEF Width
<1>. QED BY <1>1

\* A sum from left to right.
IsSum(f, src) ==
    f = [n \in 0..Len(src) |-> IF n = 0 THEN 0 ELSE f[n - 1] + Width(src[n])]

LEMMA BytesIs ==
    ASSUME NEW src \in Buffer
    PROVE  \E f \in [0..Len(src) -> Nat] : IsSum(f, src) /\ Bytes(src) = f[Len(src)]
<1> DEFINE N == Len(src)
           step == [n \in Nat |-> [x \in Nat |-> x + Width(src[n])]]
<1>1. N \in Nat
  BY DEF Buffer
<1>2. step \in [Nat -> [Nat -> Nat]]
  BY WidthIs
<1>3. PICK f : IsFold(f, Nat, 0, step, N)
  <2> HIDE DEF step, N
  <2>1. 0 \in Nat
    OBVIOUS
  <2>. QED BY <1>1, <1>2, <2>1, FoldExists
<1>4. f \in [0..N -> Nat] /\ IsSum(f, src)
  <2>1. ASSUME NEW n \in 1..N PROVE f[n] = f[n - 1] + Width(src[n])
    <3>1. f[n] = step[n][f[n - 1]]
      <4> HIDE DEF step, N
      <4>. QED BY <1>3 DEF IsFold
    <3>2. n \in Nat /\ f[n - 1] \in Nat
      <4> HIDE DEF step, N
      <4>. QED BY <1>1, <1>3 DEF IsFold
    <3>. QED BY <3>1, <3>2
  <2>2. f = [n \in 0..N |-> IF n = 0 THEN 0 ELSE f[n - 1] + Width(src[n])]
    BY <1>1, <1>3, <2>1 DEF IsFold
  <2>. QED BY <1>3, <2>2 DEF IsSum, IsFold
<1>5. Bytes(src) = (CHOOSE g : IsSum(g, src))[N]
  BY Zenon DEF Bytes, IsSum
<1>6. ASSUME NEW g, IsSum(g, src) PROVE g = f
  <2>1. g[0] = f[0] /\ g = [n \in 0..N |-> g[n]] /\ f = [n \in 0..N |-> f[n]]
    BY <1>1, <1>4, <1>6 DEF IsSum
  <2>2. ASSUME NEW n \in 0..(N - 1), f[n] = g[n] PROVE f[n + 1] = g[n + 1]
    BY <1>1, <1>4, <1>6, <2>2 DEF IsSum
  <2> HIDE DEF N
  <2>3. Alike(f, g, N)
    BY <2>1, <2>2, Zenon DEF Alike
  <2>. QED BY <1>1, <2>3, FoldsAgree, Zenon
<1>7. (CHOOSE g : IsSum(g, src)) = f
  BY <1>4, <1>6
<1>. QED BY <1>4, <1>5, <1>7

\* More bytes are no fewer.
LEMMA MoreBytes ==
    ASSUME NEW src \in Buffer, NEW more \in Buffer
    PROVE  Bytes(src) \in Nat /\ Bytes(src) <= Bytes(src \o more)
<1> DEFINE N == Len(src)
           M == Len(src \o more)
<1>1. N \in Nat /\ M \in Nat /\ N <= M /\ src \o more \in Buffer
  BY DEF Buffer
<1>2. PICK f \in [0..N -> Nat] : IsSum(f, src) /\ Bytes(src) = f[N]
  BY BytesIs
<1>3. PICK g \in [0..M -> Nat] : IsSum(g, src \o more) /\ Bytes(src \o more) = g[M]
  BY <1>1, BytesIs
<1> DEFINE T == {n \in Nat : n <= M => g[n] >= IF n <= N THEN f[n] ELSE f[N]}
<1>4. 0 \in T
  BY <1>1, <1>2, <1>3 DEF IsSum
<1>5. ASSUME NEW n \in Nat, n \in T PROVE n + 1 \in T
  <2> SUFFICES ASSUME n + 1 <= M PROVE g[n + 1] >= IF n + 1 <= N THEN f[n + 1] ELSE f[N]
    OBVIOUS
  <2>1. g[n + 1] = g[n] + Width((src \o more)[n + 1])
    BY <1>1, <1>3 DEF IsSum
  <2>2. n + 1 <= N => f[n + 1] = f[n] + Width(src[n + 1]) /\ (src \o more)[n + 1] = src[n + 1]
    BY <1>1, <1>2 DEF IsSum, Buffer
  <2>3. Width((src \o more)[n + 1]) \in Nat /\ g[n] \in Nat /\ (n + 1 <= N => f[n] \in Nat)
        /\ f[N] \in Nat
    BY <1>1, WidthIs
  <2>4. g[n] >= IF n <= N THEN f[n] ELSE f[N]
    BY <1>1, <1>5
  <2>5. CASE n + 1 <= N
    <3>1. f[n + 1] = f[n] + Width((src \o more)[n + 1]) /\ g[n] >= f[n] /\ f[n] \in Nat
      BY <1>1, <2>2, <2>3, <2>4, <2>5
    <3>. QED BY <2>1, <2>3, <2>5, <3>1
  <2>6. CASE n + 1 > N
    <3>1. g[n] >= f[N]
      <4>1. CASE n = N
        BY <1>1, <2>4, <4>1
      <4>2. CASE n > N
        BY <1>1, <2>4, <4>2
      <4>. QED BY <1>1, <2>6, <4>1, <4>2
    <3>. QED BY <1>1, <2>1, <2>3, <2>6, <3>1
  <2>. QED BY <1>1, <2>5, <2>6
<1>6. M \in T
  <2> HIDE DEF T, M
  <2>. QED BY <1>1, <1>4, <1>5, NatSetInduction
<1>. QED BY <1>1, <1>2, <1>3, <1>6

-----------------------------------------------------------------------------
(* What stays when more bytes arrive.                                      *)

\* One buffer is the beginning of another.
Begins(src, full) ==
    /\ src \in Buffer /\ full \in Buffer /\ Len(src) <= Len(full)
    /\ \A i \in 1..Len(src) : src[i] = full[i]

LEMMA BeginsJoin ==
    ASSUME NEW src \in Buffer, NEW more \in Buffer
    PROVE  Begins(src, src \o more)
BY DEF Begins, Buffer

LEMMA BeginsSubSeq ==
    ASSUME NEW src, NEW full, Begins(src, full), NEW a \in Nat \ {0}, NEW b \in Nat, b <= Len(src)
    PROVE  SubSeq(src, a, b) = SubSeq(full, a, b)
BY DEF Begins, Buffer

\* What begins as the same buffer has the same slices.
LEMMA SlicesShared ==
    ASSUME NEW src, NEW other, NEW full, Begins(src, full), Begins(other, full)
    PROVE  \A a \in Nat \ {0} : \A b \in Nat :
               b <= Len(src) /\ b <= Len(other) => SubSeq(src, a, b) = SubSeq(other, a, b)
<1>1. ASSUME NEW a \in Nat \ {0}, NEW b \in Nat, b <= Len(src), b <= Len(other)
      PROVE  SubSeq(src, a, b) = SubSeq(other, a, b)
  <2>1. SubSeq(src, a, b) = SubSeq(full, a, b)
    BY <1>1, BeginsSubSeq, Zenon
  <2>2. SubSeq(other, a, b) = SubSeq(full, a, b)
    BY <1>1, BeginsSubSeq, Zenon
  <2>. QED BY <2>1, <2>2, Zenon
<1>. QED BY <1>1, Zenon

LEMMA CrlfsIs ==
    ASSUME NEW src \in Buffer
    PROVE  /\ Crlfs(src) \in SUBSET Nat /\ LineEnds(src) \in SUBSET Nat
           /\ \A i : i \in Crlfs(src) <=> /\ i \in Nat \ {0} /\ i + 1 <= Len(src)
                                          /\ src[i] = "CR" /\ src[i + 1] = "LF"
BY DEF Crlfs, LineEnds, Buffer

LEMMA CrlfsBegin ==
    ASSUME NEW src, NEW full, Begins(src, full)
    PROVE  /\ Crlfs(src) = {i \in Crlfs(full) : i + 1 <= Len(src)}
           /\ LineEnds(src) = {i \in LineEnds(full) : i + 1 <= Len(src)}
<1>1. src \in Buffer /\ full \in Buffer /\ Len(src) \in Nat /\ Len(full) \in Nat
      /\ Len(src) <= Len(full) /\ \A i \in 1..Len(src) : src[i] = full[i]
  BY DEF Begins, Buffer
<1>2. \A i \in Nat \ {0} : i + 1 <= Len(src) =>
          i + 1 <= Len(full) /\ src[i] = full[i] /\ src[i + 1] = full[i + 1]
  BY <1>1
<1>3. Crlfs(src) = {i \in Crlfs(full) : i + 1 <= Len(src)}
  BY <1>1, <1>2, CrlfsIs
<1>. QED BY <1>3 DEF LineEnds

\* The first of the places that are found already is the first of all.
LEMMA FirstBegin ==
    ASSUME NEW places \in SUBSET Nat, NEW n \in Nat, {i \in places : i + 1 <= n} # {}
    PROVE  /\ First({i \in places : i + 1 <= n}) = First(places)
           /\ First(places) \in places /\ First(places) + 1 <= n
<1>1. First(places) \in places /\ \A j \in places : First(places) <= j
  BY FirstIs
<1>2. First(places) \in {i \in places : i + 1 <= n}
  <2>1. PICK i \in places : i + 1 <= n
    OBVIOUS
  <2>2. First(places) \in Nat /\ First(places) <= i
    BY <1>1, <2>1
  <2>. QED BY <1>1, <2>1, <2>2
<1>3. {i \in places : i + 1 <= n} \in SUBSET Nat
  OBVIOUS
<1>4. First({i \in places : i + 1 <= n}) = First(places)
  BY <1>1, <1>2, <1>3, FirstOnly
<1>. QED BY <1>1, <1>2, <1>4

LEMMA MetadataIs ==
    ASSUME NEW body \in Buffer, Crlfs(body) # {}
    PROVE  /\ First(Crlfs(body)) \in Crlfs(body) /\ \A i \in Crlfs(body) : First(Crlfs(body)) <= i
           /\ MetadataLen(body) \in 2..Len(body)
           /\ Metadata(body) \in Buffer /\ Len(Metadata(body)) = MetadataLen(body) - 2
           /\ \A i \in 1..Len(Metadata(body)) : Metadata(body)[i] = body[i]
           /\ PayloadEnds(body) \in SUBSET Nat
<1>1. First(Crlfs(body)) \in Crlfs(body) /\ \A i \in Crlfs(body) : First(Crlfs(body)) <= i
  BY CrlfsIs, FirstIs
<1> DEFINE e == First(Crlfs(body))
<1>2. e \in Nat \ {0} /\ e + 1 <= Len(body) /\ Len(body) \in Nat
  BY <1>1, CrlfsIs DEF Buffer
<1>3. MetadataLen(body) = e + 1 /\ Metadata(body) = SubSeq(body, 1, e - 1)
  BY DEF Metadata, MetadataLen
<1> HIDE DEF e
<1>4. Metadata(body) \in Buffer /\ Len(Metadata(body)) = e - 1
      /\ \A i \in 1..Len(Metadata(body)) : Metadata(body)[i] = body[i]
  BY <1>2, <1>3 DEF Buffer
<1>5. PayloadEnds(body) \in SUBSET Nat
  BY CrlfsIs DEF PayloadEnds
<1>. QED BY <1>1, <1>2, <1>3, <1>4, <1>5

LEMMA MetadataBegin ==
    ASSUME NEW body, NEW full, Begins(body, full), Crlfs(body) # {}
    PROVE  /\ Crlfs(full) # {}
           /\ Metadata(body) = Metadata(full) /\ MetadataLen(body) = MetadataLen(full)
           /\ PayloadEnds(body) = {i \in PayloadEnds(full) : i + 1 <= Len(body)}
<1>1. body \in Buffer /\ full \in Buffer /\ Len(body) \in Nat
  BY DEF Begins, Buffer
<1>2. Crlfs(body) = {i \in Crlfs(full) : i + 1 <= Len(body)} /\ Crlfs(full) \in SUBSET Nat
  BY <1>1, CrlfsBegin, CrlfsIs
<1>3. Crlfs(full) # {}
  BY <1>2
<1>4. First(Crlfs(body)) = First(Crlfs(full))
  BY <1>1, <1>2, FirstBegin
<1>5. MetadataLen(body) = MetadataLen(full)
  BY <1>4 DEF MetadataLen
<1>6. Metadata(body) = Metadata(full)
  <2>1. First(Crlfs(body)) - 1 \in Nat /\ First(Crlfs(body)) - 1 <= Len(body)
    BY <1>1, MetadataIs, CrlfsIs
  <2>. QED BY <1>4, <2>1, BeginsSubSeq DEF Metadata
<1>7. PayloadEnds(body) = {i \in PayloadEnds(full) : i + 1 <= Len(body)}
  BY <1>2, <1>5 DEF PayloadEnds
<1>. QED BY <1>3, <1>5, <1>6, <1>7

LEMMA PayloadEndBegin ==
    ASSUME NEW body, NEW full, Begins(body, full), Crlfs(body) # {}, PayloadEnds(body) # {}
    PROVE  /\ PayloadEnds(full) # {}
           /\ First(PayloadEnds(body)) = First(PayloadEnds(full))
           /\ First(PayloadEnds(body)) \in Crlfs(body)
           /\ First(PayloadEnds(body)) > MetadataLen(body)
<1>1. body \in Buffer /\ full \in Buffer /\ Len(body) \in Nat
  BY DEF Begins, Buffer
<1>2. PayloadEnds(body) = {i \in PayloadEnds(full) : i + 1 <= Len(body)}
      /\ PayloadEnds(full) \in SUBSET Nat /\ PayloadEnds(body) \in SUBSET Nat
  BY <1>1, MetadataBegin, MetadataIs
<1>3. First(PayloadEnds(body)) = First(PayloadEnds(full))
  BY <1>1, <1>2, FirstBegin
<1>4. First(PayloadEnds(body)) \in PayloadEnds(body)
  BY <1>2, FirstIs
<1>. QED BY <1>2, <1>3, <1>4 DEF PayloadEnds

\* The body of a frame, behind its verb.
LEMMA BodyBegins ==
    ASSUME NEW src, NEW full, Begins(src, full), src # <<>>
    PROVE  Begins(Tail(src), Tail(full)) /\ src[1] = full[1] /\ full # <<>>
           /\ Tail(src) \in Buffer /\ Len(Tail(src)) = Len(src) - 1
<1>1. src \in Buffer /\ full \in Buffer /\ Len(src) \in Nat /\ Len(full) \in Nat
      /\ Len(src) <= Len(full) /\ Len(src) > 0 /\ \A i \in 1..Len(src) : src[i] = full[i]
  BY DEF Begins, Buffer
<1>2. Tail(src) \in Buffer /\ Tail(full) \in Buffer /\ Len(Tail(src)) = Len(src) - 1
      /\ Len(Tail(full)) = Len(full) - 1
      /\ \A i \in 1..Len(Tail(src)) : Tail(src)[i] = src[i + 1] /\ Tail(full)[i] = full[i + 1]
  BY <1>1 DEF Buffer
<1>. QED BY <1>1, <1>2 DEF Begins

LEMMA CrlfsOfBody ==
    ASSUME NEW src \in Buffer, src # <<>>, src[1] # "CR"
    PROVE  Crlfs(Tail(src)) = {i \in Nat : i + 1 \in Crlfs(src)}
<1>1. Len(src) \in Nat /\ Len(src) > 0 /\ Tail(src) \in Buffer /\ Len(Tail(src)) = Len(src) - 1
      /\ \A i \in 1..Len(Tail(src)) : Tail(src)[i] = src[i + 1]
  BY DEF Buffer
<1>2. ASSUME NEW i \in Crlfs(Tail(src)) PROVE i \in Nat /\ i + 1 \in Crlfs(src)
  <2>1. i \in Nat \ {0} /\ i + 1 <= Len(Tail(src)) /\ Tail(src)[i] = "CR" /\ Tail(src)[i + 1] = "LF"
    BY <1>1, CrlfsIs
  <2>2. i + 1 \in Nat \ {0} /\ (i + 1) + 1 <= Len(src) /\ src[i + 1] = "CR" /\ src[(i + 1) + 1] = "LF"
    BY <1>1, <2>1
  <2>. QED BY <2>1, <2>2, CrlfsIs
<1>3. ASSUME NEW i \in Nat, i + 1 \in Crlfs(src) PROVE i \in Crlfs(Tail(src))
  <2>1. (i + 1) + 1 <= Len(src) /\ src[i + 1] = "CR" /\ src[(i + 1) + 1] = "LF"
    BY <1>3, CrlfsIs
  <2>2. i # 0
    BY <2>1
  <2>3. i \in Nat \ {0} /\ i + 1 <= Len(Tail(src)) /\ Tail(src)[i] = "CR" /\ Tail(src)[i + 1] = "LF"
    BY <1>1, <2>1, <2>2
  <2>. QED BY <1>1, <2>3, CrlfsIs
<1>. QED BY <1>2, <1>3

-----------------------------------------------------------------------------
(* The branches of the decoder.                                            *)

LEMMA DecodeIs ==
    ASSUME NEW c, NEW src
    PROVE  /\ LineEnds(src) = {} => Decode(c, src) = IF Len(src) < BufLimit THEN FrameTooShort
                                                     ELSE FatalError
           /\ LineEnds(src) # {} /\ src[1] \notin Verbs(c) =>
                  Decode(c, src) = IF Bytes(src) < LongestPrefix(c) THEN FrameTooShort
                                   ELSE [FatalError EXCEPT !.consume = First(LineEnds(src))]
           /\ LineEnds(src) # {} /\ src[1] \in Verbs(c) =>
                  LET result == DecodeBody(src[1], Tail(src))
                  IN  Decode(c, src) = IF result.outcome = "frame"
                                       THEN [result EXCEPT !.consume = @ + 1] ELSE result
<1>1. LineEnds(src) = {} => Decode(c, src) = IF Len(src) < BufLimit THEN FrameTooShort
                                             ELSE FatalError
  BY Zenon DEF Decode
<1>2. LineEnds(src) # {} /\ src[1] \notin Verbs(c) =>
          Decode(c, src) = IF Bytes(src) < LongestPrefix(c) THEN FrameTooShort
                           ELSE [FatalError EXCEPT !.consume = First(LineEnds(src))]
  BY Zenon DEF Decode
<1>3. LineEnds(src) # {} /\ src[1] \in Verbs(c) =>
          LET result == DecodeBody(src[1], Tail(src))
          IN  Decode(c, src) = IF result.outcome = "frame"
                               THEN [result EXCEPT !.consume = @ + 1] ELSE result
  BY Zenon DEF Decode
<1>. QED BY <1>1, <1>2, <1>3

LEMMA DecodeBodyIs ==
    ASSUME NEW verb, NEW body
    PROVE  /\ verb \in Bare => DecodeBody(verb, body) = DecodeBare(verb, body)
           /\ verb \in Json => DecodeBody(verb, body) = DecodeJson(verb, body)
           /\ verb = "-ERR" => DecodeBody(verb, body) = DecodeErr(body)
           /\ verb \in {"SUB", "UNSUB"} => DecodeBody(verb, body) = DecodeFields(verb, body)
           /\ verb = "MSG" => DecodeBody(verb, body) = DecodeMsg(body)
           /\ verb = "PUB" => DecodeBody(verb, body) = DecodePub(body)
           /\ verb = "HMSG" => DecodeBody(verb, body) = DecodeHMsg(body)
           /\ verb = "HPUB" => DecodeBody(verb, body) = DecodeHPub(body)
<1>1. verb \in Bare => DecodeBody(verb, body) = DecodeBare(verb, body)
  BY Zenon DEF DecodeBody, Bare, Json
<1>2. verb \in Json => DecodeBody(verb, body) = DecodeJson(verb, body)
  BY Zenon DEF DecodeBody, Bare, Json
<1>3. verb = "-ERR" => DecodeBody(verb, body) = DecodeErr(body)
  BY Zenon DEF DecodeBody, Bare, Json
<1>4. verb \in {"SUB", "UNSUB"} => DecodeBody(verb, body) = DecodeFields(verb, body)
  BY Zenon DEF DecodeBody, Bare, Json
<1>5. verb = "MSG" => DecodeBody(verb, body) = DecodeMsg(body)
  BY Zenon DEF DecodeBody, Bare, Json
<1>6. verb = "PUB" => DecodeBody(verb, body) = DecodePub(body)
  BY Zenon DEF DecodeBody, Bare, Json
<1>7. verb = "HMSG" => DecodeBody(verb, body) = DecodeHMsg(body)
  BY Zenon DEF DecodeBody, Bare, Json
<1>8. verb = "HPUB" => DecodeBody(verb, body) = DecodeHPub(body)
  BY Zenon DEF DecodeBody, Bare, Json
<1>. QED BY <1>1, <1>2, <1>3, <1>4, <1>5, <1>6, <1>7, <1>8

LEMMA DecodePubIs ==
    ASSUME NEW body
    PROVE  /\ ~Sized("PUB", body) => DecodePub(body) = FatalError
           /\ Sized("PUB", body) /\ PayloadEnds(body) = {} => DecodePub(body) = FrameTooShort
           /\ Sized("PUB", body) /\ PayloadEnds(body) # {} =>
                  DecodePub(body) = DecodeLoaded("PUB", body)
BY Zenon DEF DecodePub

\* A number that is written can be read.
LEMMA NumberIs ==
    ASSUME NEW token, IsNumber(token)
    PROVE  Number(token) \in 0..MaxNumber /\ Numeral[Number(token)] = token
           /\ Number(token) \in Nat
<1>1. MaxNumber \in Nat
  BY LimitAssumption
<1>. QED BY <1>1 DEF IsNumber, Number

LEMMA SliceIs ==
    ASSUME NEW verb, NEW body
    PROVE  LET header == Number(Declared(body, 1))
               total  == Number(Declared(body, 0))
               start  == MetadataLen(body)
               lengths == IsNumber(Declared(body, 1)) /\ IsNumber(Declared(body, 0))
               valid  == Enough(verb, body, 2) /\ lengths /\ total >= header
           IN  /\ ~Enough(verb, body, 2) => Slice(verb, body) = FrameTooShort
               /\ Enough(verb, body, 2) /\ (~lengths \/ total < header) =>
                      Slice(verb, body) = FatalError
               /\ valid /\ total > Len(body) => Slice(verb, body) = FrameTooShort
               /\ valid /\ ~(total > Len(body)) /\ start + total > Len(body) =>
                      Slice(verb, body) = Panic
               /\ valid /\ ~(total > Len(body)) /\ ~(start + total > Len(body)) =>
                      Slice(verb, body) =
                          Advance(Frame(verb, Before(body, 2),
                                        SubSeq(body, start + 1, start + header),
                                        SubSeq(body, start + header + 1, start + total)),
                                  start + total + 2)
<1> DEFINE header == Number(Declared(body, 1))
           total  == Number(Declared(body, 0))
           start  == MetadataLen(body)
           lengths == IsNumber(Declared(body, 1)) /\ IsNumber(Declared(body, 0))
           valid == Enough(verb, body, 2) /\ lengths /\ total >= header
<1>1. ~Enough(verb, body, 2) => Slice(verb, body) = FrameTooShort
  BY Zenon DEF Slice
<1>2. lengths /\ total >= header => ~(total < header)
  <2>1. lengths => header \in Nat /\ total \in Nat
    BY NumberIs
  <2> HIDE DEF header, total, lengths
  <2>. QED BY <2>1
<1>3. Enough(verb, body, 2) /\ (~lengths \/ total < header) => Slice(verb, body) = FatalError
  BY <1>2, Zenon DEF Slice
<1>4. valid /\ total > Len(body) => Slice(verb, body) = FrameTooShort
  BY <1>2, Zenon DEF Slice
<1>5. valid /\ ~(total > Len(body)) =>
          Slice(verb, body) =
              IF start + total > Len(body) THEN Panic
              ELSE Advance(Frame(verb, Before(body, 2),
                                 SubSeq(body, start + 1, start + header),
                                 SubSeq(body, start + header + 1, start + total)),
                           start + total + 2)
  BY <1>2, Zenon DEF Slice
<1>. QED BY <1>1, <1>3, <1>4, <1>5, Zenon

-----------------------------------------------------------------------------
(* The line of a frame, the first of its bytes.                            *)

\* src and bytes are beginnings of the same stream, and bytes has a line: src is waited on
\* until it has that line as well.
LEMMA LineArrives ==
    ASSUME NEW c, NEW bytes, NEW src, NEW full, Begins(bytes, full), Begins(src, full),
           LineEnds(bytes) # {}
    PROVE  \/ Decode(c, src) = FrameTooShort /\ LineEnds(src) = {} /\ Len(src) < Len(bytes)
           \/ LineEnds(src) # {}
<1>1. bytes \in Buffer /\ src \in Buffer /\ Len(bytes) \in Nat /\ Len(src) \in Nat
      /\ BufLimit \in Nat
  BY LimitAssumption DEF Begins, Buffer
<1>2. LineEnds(bytes) = {i \in LineEnds(full) : i + 1 <= Len(bytes)}
      /\ LineEnds(src) = {i \in LineEnds(full) : i + 1 <= Len(src)}
  BY CrlfsBegin
<1>3. PICK i \in LineEnds(bytes) : TRUE
  OBVIOUS
<1>4. i \in Nat /\ i + 1 <= BufLimit /\ i + 1 <= Len(bytes) /\ i \in LineEnds(full)
  BY <1>1, <1>2, <1>3, CrlfsIs DEF LineEnds
<1>5. CASE LineEnds(src) = {}
  <2>1. ~ (i + 1 <= Len(src))
    BY <1>2, <1>4, <1>5
  <2>2. Len(src) < BufLimit /\ Len(src) < Len(bytes)
    BY <1>1, <1>4, <2>1
  <2>. QED BY <1>5, <2>2, DecodeIs
<1>. QED BY <1>5

LEMMA HasLine ==
    ASSUME NEW src \in Buffer, LineEnds(src) # {}
    PROVE  /\ src # <<>> /\ Tail(src) \in Buffer /\ Len(Tail(src)) = Len(src) - 1
           /\ Crlfs(src) # {} /\ First(LineEnds(src)) \in LineEnds(src)
           /\ First(LineEnds(src)) \in 1..Len(src)
           /\ src[1] # "CR" => Crlfs(Tail(src)) # {}
<1>1. First(LineEnds(src)) \in LineEnds(src) /\ LineEnds(src) \subseteq Crlfs(src)
  BY CrlfsIs, FirstIs DEF LineEnds
<1> DEFINE e == First(LineEnds(src))
<1>2. e \in Nat \ {0} /\ e + 1 <= Len(src) /\ src[e] = "CR" /\ e \in Crlfs(src) /\ Len(src) \in Nat
  BY <1>1, CrlfsIs DEF Buffer
<1> HIDE DEF e
<1>3. src # <<>> /\ Tail(src) \in Buffer /\ Len(Tail(src)) = Len(src) - 1
  BY <1>2 DEF Buffer
<1>4. ASSUME src[1] # "CR" PROVE Crlfs(Tail(src)) # {}
  <2>1. e - 1 \in Nat /\ e - 1 + 1 = e
    BY <1>2, <1>4
  <2>2. Crlfs(Tail(src)) = {i \in Nat : i + 1 \in Crlfs(src)}
    BY <1>3, <1>4, CrlfsOfBody
  <2>3. e - 1 \in Crlfs(Tail(src))
    BY <1>2, <2>1, <2>2
  <2>. QED BY <2>3
<1>. QED BY <1>1, <1>2, <1>3, <1>4 DEF e

LEMMA LineArrived ==
    ASSUME NEW bytes, NEW src, NEW full, Begins(bytes, full), Begins(src, full),
           LineEnds(bytes) # {}, LineEnds(src) # {}
    PROVE  /\ src[1] = bytes[1]
           /\ Begins(Tail(bytes), Tail(full)) /\ Begins(Tail(src), Tail(full))
           /\ bytes[1] # "CR" =>
                  /\ Crlfs(Tail(src)) # {} /\ Crlfs(Tail(bytes)) # {}
                  /\ Metadata(Tail(src)) = Metadata(Tail(bytes))
                  /\ MetadataLen(Tail(src)) = MetadataLen(Tail(bytes))
<1>1. bytes \in Buffer /\ src \in Buffer
  BY DEF Begins
<1>2. bytes # <<>> /\ src # <<>>
  BY <1>1, HasLine, Zenon
<1>3. src[1] = bytes[1] /\ Begins(Tail(bytes), Tail(full)) /\ Begins(Tail(src), Tail(full))
  <2>1. bytes[1] = full[1] /\ Begins(Tail(bytes), Tail(full))
    BY <1>2, BodyBegins, Zenon
  <2>2. src[1] = full[1] /\ Begins(Tail(src), Tail(full))
    BY <1>2, BodyBegins, Zenon
  <2>. QED BY <2>1, <2>2, Zenon
<1>4. ASSUME bytes[1] # "CR"
      PROVE  /\ Crlfs(Tail(src)) # {} /\ Crlfs(Tail(bytes)) # {}
             /\ Metadata(Tail(src)) = Metadata(Tail(bytes))
             /\ MetadataLen(Tail(src)) = MetadataLen(Tail(bytes))
  <2>1. Crlfs(Tail(src)) # {} /\ Crlfs(Tail(bytes)) # {}
    BY <1>1, <1>3, <1>4, HasLine
  <2>. QED BY <1>3, <2>1, MetadataBegin
<1>. QED BY <1>3, <1>4

LEMMA Joined ==
    ASSUME NEW s \in Buffer, NEW t \in Buffer
    PROVE  /\ s \o t \in Buffer /\ Len(s \o t) = Len(s) + Len(t)
           /\ \A i \in 1..Len(s) : (s \o t)[i] = s[i]
           /\ \A i \in 1..Len(t) : (s \o t)[Len(s) + i] = t[i]
           /\ \A i \in 1..Len(s) + Len(t) :
                  (s \o t)[i] = IF i <= Len(s) THEN s[i] ELSE t[i - Len(s)]
           /\ Range(s \o t) = Range(s) \cup Range(t)
<1>1. Len(s) \in Nat /\ Len(t) \in Nat /\ s \o t \in Buffer /\ Len(s \o t) = Len(s) + Len(t)
      /\ \A i \in 1..Len(s) + Len(t) :
                  (s \o t)[i] = IF i <= Len(s) THEN s[i] ELSE t[i - Len(s)]
  BY DEF Buffer
<1>2. \A i \in 1..Len(s) : (s \o t)[i] = s[i]
  BY <1>1
<1>3. \A i \in 1..Len(t) : (s \o t)[Len(s) + i] = t[i]
  BY <1>1
<1>4. Range(s \o t) = Range(s) \cup Range(t)
  BY RangeConcatenation, RangeEquality DEF Buffer
<1>. QED BY <1>1, <1>2, <1>3, <1>4

LEMMA CrlfIs ==
    /\ CRLF \in Buffer /\ Len(CRLF) = 2 /\ CRLF[1] = "CR" /\ CRLF[2] = "LF"
BY DEF CRLF, Buffer, Token

\* A line and what follows it.
LEMMA CrlfsAfter ==
    ASSUME NEW line \in Buffer, NEW rest \in Buffer, "CR" \notin Range(line)
    PROVE  LET body == line \o CRLF \o rest
           IN  /\ body \in Buffer /\ Len(body) = Len(line) + 2 + Len(rest)
               /\ \A i \in 1..Len(line) : body[i] = line[i]
               /\ \A i \in 1..Len(rest) : body[Len(line) + 2 + i] = rest[i]
               /\ Crlfs(body) = {Len(line) + 1} \cup {i + Len(line) + 2 : i \in Crlfs(rest)}
<1> DEFINE L == Len(line)
           body == line \o CRLF \o rest
<1>1. L \in Nat /\ Len(rest) \in Nat
  BY DEF Buffer
<1>2. /\ line \o CRLF \in Buffer /\ Len(line \o CRLF) = L + 2
      /\ \A i \in 1..L : (line \o CRLF)[i] = line[i]
      /\ (line \o CRLF)[L + 1] = "CR" /\ (line \o CRLF)[L + 2] = "LF"
  <2>1. CRLF \in Buffer /\ 1 \in 1..Len(CRLF) /\ 2 \in 1..Len(CRLF)
    BY CrlfIs
  <2>2. (line \o CRLF)[L + 1] = CRLF[1] /\ (line \o CRLF)[L + 2] = CRLF[2]
    BY <2>1, Joined
  <2>3. /\ line \o CRLF \in Buffer /\ Len(line \o CRLF) = Len(line) + Len(CRLF)
        /\ \A i \in 1..Len(line) : (line \o CRLF)[i] = line[i]
    BY <2>1, Joined, Zenon
  <2>. QED BY <2>2, <2>3, CrlfIs
<1>3. /\ body \in Buffer /\ Len(body) = L + 2 + Len(rest)
      /\ \A i \in 1..(L + 2) : body[i] = (line \o CRLF)[i]
      /\ \A i \in 1..Len(rest) : body[L + 2 + i] = rest[i]
  <2> DEFINE head == line \o CRLF
  <2>1. head \in Buffer /\ Len(head) = L + 2
    BY <1>2
  <2> HIDE DEF head
  <2>2. /\ head \o rest \in Buffer /\ Len(head \o rest) = Len(head) + Len(rest)
        /\ \A i \in 1..Len(head) : (head \o rest)[i] = head[i]
        /\ \A i \in 1..Len(rest) : (head \o rest)[Len(head) + i] = rest[i]
    BY <2>1, Joined, Zenon
  <2>. QED BY <2>1, <2>2 DEF head
<1>4. /\ \A i \in 1..L : body[i] = line[i] /\ body[i] # "CR"
      /\ body[L + 1] = "CR" /\ body[L + 2] = "LF"
  <2>1. ASSUME NEW i \in 1..L PROVE body[i] = line[i] /\ line[i] \in Range(line)
    <3>1. i \in 1..(L + 2)
      BY <1>1
    <3>2. line[i] \in Range(line)
      BY RangeEquality DEF Buffer
    <3>. QED BY <1>2, <1>3, <3>1, <3>2
  <2>2. L + 1 \in 1..(L + 2) /\ L + 2 \in 1..(L + 2)
    BY <1>1
  <2>. QED BY <1>2, <1>3, <2>1, <2>2
<1> HIDE DEF body, L
<1>5. ASSUME NEW i \in Crlfs(body) PROVE i = L + 1 \/ \E j \in Crlfs(rest) : i = j + L + 2
  <2>1. i \in Nat \ {0} /\ i + 1 <= Len(body) /\ body[i] = "CR" /\ body[i + 1] = "LF"
    BY <1>3, CrlfsIs
  <2>2. i > L /\ i # L + 2
    BY <1>1, <1>4, <2>1
  <2>3. CASE i > L + 2
    <3> DEFINE j == i - (L + 2)
    <3>1. j \in Nat \ {0} /\ j + 1 <= Len(rest) /\ i = L + 2 + j /\ i + 1 = L + 2 + (j + 1)
      BY <1>1, <1>3, <2>1, <2>3
    <3>2. j \in 1..Len(rest) /\ j + 1 \in 1..Len(rest)
      BY <1>1, <3>1
    <3> HIDE DEF j
    <3>3. rest[j] = "CR" /\ rest[j + 1] = "LF"
      BY <1>3, <2>1, <3>1, <3>2
    <3>4. j \in Crlfs(rest) /\ i = j + L + 2
      BY <1>1, <3>1, <3>3, CrlfsIs
    <3>. QED BY <3>4
  <2>. QED BY <1>1, <2>1, <2>2, <2>3
<1>6. L + 1 \in Crlfs(body)
  <2>1. L + 1 \in Nat \ {0} /\ (L + 1) + 1 <= Len(body) /\ (L + 1) + 1 = L + 2
    BY <1>1, <1>3
  <2>. QED BY <1>3, <1>4, <2>1, CrlfsIs
<1>7. ASSUME NEW j \in Crlfs(rest) PROVE j + L + 2 \in Crlfs(body)
  <2>1. j \in Nat \ {0} /\ j + 1 <= Len(rest) /\ rest[j] = "CR" /\ rest[j + 1] = "LF"
    BY CrlfsIs
  <2>2. j \in 1..Len(rest) /\ j + 1 \in 1..Len(rest) /\ j + L + 2 = L + 2 + j
        /\ (j + L + 2) + 1 = L + 2 + (j + 1) /\ (j + L + 2) + 1 <= Len(body)
    BY <1>1, <1>3, <2>1
  <2>3. body[j + L + 2] = "CR" /\ body[(j + L + 2) + 1] = "LF"
    BY <1>3, <2>1, <2>2
  <2>4. j + L + 2 \in Nat \ {0}
    BY <1>1, <2>1
  <2>. QED BY <1>3, <2>2, <2>3, <2>4, CrlfsIs
<1>8. Crlfs(body) = {L + 1} \cup {i + L + 2 : i \in Crlfs(rest)}
  BY <1>5, <1>6, <1>7
<1>. QED BY <1>3, <1>4, <1>8 DEF body, L

LEMMA LineIs ==
    ASSUME NEW line \in Buffer, NEW rest \in Buffer, "CR" \notin Range(line)
    PROVE  LET body == line \o CRLF \o rest
           IN  /\ Crlfs(body) # {} /\ Metadata(body) = line /\ MetadataLen(body) = Len(line) + 2
               /\ PayloadEnds(body) = {i + Len(line) + 2 : i \in Crlfs(rest)}
<1> DEFINE body == line \o CRLF \o rest
           L == Len(line)
<1>1. /\ body \in Buffer /\ Len(body) = L + 2 + Len(rest)
      /\ \A i \in 1..L : body[i] = line[i]
      /\ Crlfs(body) = {L + 1} \cup {i + L + 2 : i \in Crlfs(rest)}
  BY CrlfsAfter
<1>2. L \in Nat /\ Len(rest) \in Nat /\ Crlfs(rest) \in SUBSET Nat
  BY CrlfsIs DEF Buffer
<1>3. line = SubSeq(line, 1, L)
  BY DEF Buffer
<1> HIDE DEF body, L
<1>4. First(Crlfs(body)) = L + 1
  <2>1. Crlfs(body) \in SUBSET Nat /\ L + 1 \in Crlfs(body) /\ \A j \in Crlfs(body) : L + 1 <= j
    BY <1>1, <1>2
  <2>. QED BY <2>1, FirstOnly
<1>5. MetadataLen(body) = L + 2
  BY <1>2, <1>4 DEF MetadataLen
<1>6. Metadata(body) = line
  <2>1. Metadata(body) = SubSeq(body, 1, L)
    BY <1>2, <1>4 DEF Metadata
  <2>2. Begins(line, body)
    BY <1>1, <1>2 DEF Begins, L
  <2>3. SubSeq(line, 1, L) = SubSeq(body, 1, L)
    <3>1. 1 \in Nat \ {0} /\ L <= Len(line)
      BY <1>2 DEF L
    <3>. QED BY <1>2, <2>2, <3>1, BeginsSubSeq
  <2>. QED BY <1>3, <2>1, <2>3
<1>7. PayloadEnds(body) = {i + L + 2 : i \in Crlfs(rest)}
  <2>1. \A i \in Crlfs(rest) : i \in Nat /\ i # 0
    BY <1>2, CrlfsIs
  <2>. QED BY <1>1, <1>2, <1>5, <2>1 DEF PayloadEnds
<1>. QED BY <1>1, <1>5, <1>6, <1>7 DEF body, L

LEMMA OneToken ==
    ASSUME NEW token \in Token
    PROVE  <<token>> \in Buffer /\ Len(<<token>>) = 1 /\ <<token>>[1] = token
           /\ Range(<<token>>) = {token}
<1>1. <<token>> \in Buffer /\ Len(<<token>>) = 1 /\ <<token>>[1] = token
  BY DEF Buffer
<1> DEFINE one == <<token>>
<1>2. one \in Buffer /\ Len(one) = 1 /\ one[1] = token
  BY <1>1, Zenon
<1> HIDE DEF one
<1>3. Range(one) = {one[i] : i \in 1..Len(one)}
  BY <1>2, RangeEquality, Zenon DEF Buffer
<1>4. Range(one) = {token}
  BY <1>2, <1>3
<1>. QED BY <1>1, <1>4, Zenon DEF one

LEMMA BehindVerb ==
    ASSUME NEW verb \in Token, NEW body \in Buffer, NEW src, src = <<verb>> \o body
    PROVE  src \in Buffer /\ src # <<>> /\ src[1] = verb /\ Tail(src) = body
           /\ Len(src) = Len(body) + 1
<1>1. src \in Buffer
  BY DEF Buffer
<1>2. Len(src) = Len(body) + 1
  BY DEF Buffer
<1>3. src[1] = verb
  BY DEF Buffer
<1>4. Tail(src) = body
  BY DEF Buffer
<1>5. src # <<>>
  BY <1>2 DEF Buffer
<1>. QED BY <1>1, <1>2, <1>3, <1>4, <1>5

Associated(r, s, t) == (r \o s) \o t = r \o (s \o t)

LEMMA Associate ==
    ASSUME NEW r \in Buffer, NEW s \in Buffer, NEW t \in Buffer
    PROVE  Associated(r, s, t)
BY ConcatAssociative DEF Buffer, Associated

LEMMA JoinedIn ==
    ASSUME NEW r \in Buffer, NEW s \in Buffer
    PROVE  r \o s \in Buffer
BY DEF Buffer

\* A verb, a line, and the rest.
Lined(bytes, verb, line, rest) ==
    /\ verb \in Token /\ verb # "CR" /\ line \in Buffer /\ "CR" \notin Range(line)
    /\ rest \in Buffer
    /\ bytes = <<verb>> \o (line \o CRLF \o rest)

\* What is known of them, and of what has arrived.
LinedFacts(bytes, verb, line, rest) ==
    /\ bytes \in Buffer /\ bytes[1] = verb
    /\ Len(bytes) = Len(line) + 3 + Len(rest) /\ Len(bytes) \in Nat
    /\ Tail(bytes) \in Buffer /\ Len(Tail(bytes)) = Len(line) + 2 + Len(rest)
    /\ Metadata(Tail(bytes)) = line /\ MetadataLen(Tail(bytes)) = Len(line) + 2
    /\ Crlfs(Tail(bytes)) # {}
    /\ PayloadEnds(Tail(bytes)) = {i + Len(line) + 2 : i \in Crlfs(rest)}
    /\ \A i \in 1..Len(rest) : Tail(bytes)[Len(line) + 2 + i] = rest[i]

ArrivedFacts(src, full, bytes, verb, line) ==
    /\ src[1] = verb /\ Len(Tail(src)) = Len(src) - 1 /\ Tail(src) \in Buffer
    /\ Crlfs(Tail(src)) # {} /\ Len(src) \in Nat
    /\ Metadata(Tail(src)) = line /\ MetadataLen(Tail(src)) = Len(line) + 2
    /\ Len(line) + 3 <= Len(src)
    /\ Begins(Tail(src), Tail(full)) /\ Begins(Tail(bytes), Tail(full))

LEMMA LineOfItem ==
    ASSUME NEW bytes, NEW verb, NEW line, NEW rest, Lined(bytes, verb, line, rest)
    PROVE  LinedFacts(bytes, verb, line, rest)
<1> DEFINE body == line \o CRLF \o rest
<1>0. verb \in Token /\ line \in Buffer /\ "CR" \notin Range(line) /\ rest \in Buffer
  BY DEF Lined
<1>1. body \in Buffer /\ Len(body) = Len(line) + 2 + Len(rest)
      /\ \A i \in 1..Len(rest) : body[Len(line) + 2 + i] = rest[i]
  BY <1>0, CrlfsAfter, Zenon
<1>2. Metadata(body) = line /\ MetadataLen(body) = Len(line) + 2 /\ Crlfs(body) # {}
      /\ PayloadEnds(body) = {i + Len(line) + 2 : i \in Crlfs(rest)}
  BY <1>0, LineIs, Zenon
<1>3. bytes = <<verb>> \o body
  BY Zenon DEF Lined
<1> HIDE DEF body
<1>4. bytes \in Buffer /\ bytes[1] = verb /\ Tail(bytes) = body /\ Len(bytes) = Len(body) + 1
  <2>1. verb \in Token /\ body \in Buffer
    BY <1>0, <1>1, Zenon
  <2>. QED BY <1>3, <2>1, BehindVerb, Zenon
<1>5. Len(bytes) = Len(line) + 3 + Len(rest) /\ Len(bytes) \in Nat
  <2>1. Len(line) \in Nat /\ Len(rest) \in Nat
    BY <1>0 DEF Buffer
  <2>2. Len(bytes) = Len(line) + 2 + Len(rest) + 1
    BY <1>1, <1>4, Zenon
  <2>. QED BY <2>1, <2>2
<1>. QED BY <1>1, <1>2, <1>4, <1>5, Zenon DEF LinedFacts

LEMMA LineOfItemArrived ==
    ASSUME NEW bytes, NEW verb, NEW line, NEW rest, Lined(bytes, verb, line, rest),
           NEW src, NEW full, Begins(bytes, full), Begins(src, full),
           LineEnds(bytes) # {}, LineEnds(src) # {}
    PROVE  ArrivedFacts(src, full, bytes, verb, line)
<1>0. LinedFacts(bytes, verb, line, rest)
  BY LineOfItem, Zenon
<1>1. bytes[1] = verb /\ verb # "CR"
  BY <1>0, Zenon DEF Lined, LinedFacts
<1>2. Metadata(Tail(bytes)) = line /\ MetadataLen(Tail(bytes)) = Len(line) + 2
  BY <1>0, Zenon DEF LinedFacts
<1>3. /\ src[1] = verb /\ Crlfs(Tail(src)) # {}
      /\ Metadata(Tail(src)) = line /\ MetadataLen(Tail(src)) = Len(line) + 2
      /\ Begins(Tail(src), Tail(full)) /\ Begins(Tail(bytes), Tail(full))
  BY <1>1, <1>2, LineArrived, Zenon
<1>4. Len(Tail(src)) = Len(src) - 1 /\ Tail(src) \in Buffer
  BY HasLine DEF Begins
<1>5. MetadataLen(Tail(src)) \in 2..Len(Tail(src))
  BY <1>3, <1>4, MetadataIs
<1>6. Len(line) + 3 <= Len(src) /\ Len(src) \in Nat
  <2>1. Len(line) \in Nat /\ Len(src) \in Nat
    BY DEF Begins, Buffer, Lined
  <2>. QED BY <1>3, <1>4, <1>5, <2>1
<1>. QED BY <1>3, <1>4, <1>6, Zenon DEF ArrivedFacts

-----------------------------------------------------------------------------
(* MSG and PUB.                                                            *)

LEMMA NumeralIs ==
    ASSUME NEW n \in 0..MaxNumber
    PROVE  /\ Numeral[n] \in Token /\ Numeral[n] \notin {"CR", "LF", "bin"}
           /\ IsNumber(Numeral[n]) /\ Number(Numeral[n]) = n
<1>1. Numeral[n] \in STRING \ {"CR", "LF", "bin"}
      /\ \A m \in 0..MaxNumber : Numeral[m] = Numeral[n] => m = n
  BY NumeralAssumption
<1>2. Numeral[n] \in Token
  BY <1>1 DEF Token
<1>3. IsNumber(Numeral[n])
  BY DEF IsNumber
<1>4. Number(Numeral[n]) = n
  BY <1>1, <1>3, NumberIs
<1>. QED BY <1>1, <1>2, <1>3, <1>4

\* A token behind others.
Ends(line, fields, token) ==
    /\ line \in Buffer /\ Len(line) = Len(fields) + 1 /\ line[Len(line)] = token
    /\ SubSeq(line, 1, Len(line) - 1) = fields /\ Range(line) = Range(fields) \cup {token}

LEMMA EndsIs ==
    ASSUME NEW fields \in Buffer, NEW token \in Token
    PROVE  Ends(fields \o <<token>>, fields, token)
<1> DEFINE last == <<token>>
           line == fields \o last
<1>1. last \in Buffer /\ Len(last) = 1 /\ last[1] = token /\ Range(last) = {token}
  BY OneToken, Zenon
<1> HIDE DEF last
<1>2. /\ line \in Buffer /\ Len(line) = Len(fields) + Len(last)
      /\ \A i \in 1..Len(fields) : line[i] = fields[i]
      /\ \A i \in 1..Len(last) : line[Len(fields) + i] = last[i]
      /\ Range(line) = Range(fields) \cup Range(last)
  BY <1>1, Joined, Zenon
<1> HIDE DEF line
<1>3. Len(fields) \in Nat
  BY DEF Buffer
<1>4. Len(line) = Len(fields) + 1 /\ line[Len(line)] = token
  BY <1>1, <1>2, <1>3
<1>5. SubSeq(line, 1, Len(fields)) = fields
  BY <1>2, <1>3, <1>4 DEF Buffer
<1>6. Len(line) - 1 = Len(fields)
  BY <1>3, <1>4
<1>7. Ends(line, fields, token)
  BY <1>1, <1>2, <1>4, <1>5, <1>6, Zenon DEF Ends
<1>. QED BY <1>7, Zenon DEF line, last

\* What precedes the payload.
SizedAs(verb, body, fields, n) ==
    /\ Sized(verb, body) /\ Before(body, 1) = fields /\ Number(Declared(body, 0)) = n

LEMMA SizedIs ==
    ASSUME NEW verb, NEW body, NEW fields \in Buffer, NEW n \in 0..MaxNumber,
           Ends(Metadata(body), fields, Numeral[n]), Len(fields) \in Arity(verb)
    PROVE  SizedAs(verb, body, fields, n)
<1> DEFINE line == Metadata(body)
<1>1. Len(line) = Len(fields) + 1 /\ line[Len(line)] = Numeral[n]
      /\ SubSeq(line, 1, Len(line) - 1) = fields
  BY Zenon DEF Ends
<1>2. Len(fields) \in Nat
  BY DEF Buffer
<1>3. Before(body, 1) = fields
  BY <1>1, Zenon DEF Before
<1> HIDE DEF line
<1>4. Len(line) >= 1 /\ Len(line) - 0 = Len(line)
  BY <1>1, <1>2
<1>5. Enough(verb, body, 1)
  BY <1>3, <1>4, Zenon DEF Enough, line
<1>6. Declared(body, 0) = Numeral[n]
  BY <1>1, <1>4, Zenon DEF Declared, line
<1>7. IsNumber(Numeral[n]) /\ Number(Numeral[n]) = n
  BY NumeralIs, Zenon
<1>. QED BY <1>3, <1>5, <1>6, <1>7, Zenon DEF SizedAs, Sized

\* The payload that a body holds, and what is decoded.
Payload(body) == SubSeq(body, MetadataLen(body) + 1, First(PayloadEnds(body)) - 1)

LEMMA LoadedIs ==
    ASSUME NEW verb \in Loaded, NEW body, NEW fields, NEW n, SizedAs(verb, body, fields, n)
    PROVE  /\ PayloadEnds(body) = {} => DecodeBody(verb, body) = FrameTooShort
           /\ PayloadEnds(body) # {} =>
                  DecodeBody(verb, body) =
                      IF n = Len(Payload(body)) /\ Utf8(fields)
                      THEN Advance(Frame(verb, fields, NoHeaders, Payload(body)),
                                   First(PayloadEnds(body)) - 1 + 2)
                      ELSE FatalError
<1>0. Sized(verb, body) /\ Before(body, 1) = fields /\ Number(Declared(body, 0)) = n
  BY Zenon DEF SizedAs
<1>1. PayloadEnds(body) = {} => DecodeBody(verb, body) = FrameTooShort
  <2>1. CASE verb = "MSG"
    BY <2>1, DecodeBodyIs, Zenon DEF DecodeMsg
  <2>2. CASE verb = "PUB"
    BY <1>0, <2>2, DecodeBodyIs, DecodePubIs, Zenon
  <2>. QED BY <2>1, <2>2, Zenon DEF Loaded
<1>2. PayloadEnds(body) # {} => DecodeBody(verb, body) = DecodeLoaded(verb, body)
  <2>1. CASE verb = "MSG"
    BY <2>1, DecodeBodyIs, Zenon DEF DecodeMsg
  <2>2. CASE verb = "PUB"
    BY <1>0, <2>2, DecodeBodyIs, DecodePubIs, Zenon
  <2>. QED BY <2>1, <2>2, Zenon DEF Loaded
<1>3. DecodeLoaded(verb, body) =
          IF n = Len(Payload(body)) /\ Utf8(fields)
          THEN Advance(Frame(verb, fields, NoHeaders, Payload(body)),
                       First(PayloadEnds(body)) - 1 + 2)
          ELSE FatalError
  BY <1>0, Zenon DEF DecodeLoaded, Payload
<1>. QED BY <1>1, <1>2, <1>3, Zenon

\* Where CRLF is found in a payload with its CRLF.
LEMMA CrlfsOfPayload ==
    ASSUME NEW payload \in Buffer, NEW rest, rest = payload \o CRLF
    PROVE  /\ rest \in Buffer /\ Len(rest) = Len(payload) + 2
           /\ \A i \in 1..Len(payload) : rest[i] = payload[i]
           /\ Crlfs(rest) = Crlfs(payload) \cup {Len(payload) + 1}
<1> DEFINE L == Len(payload)
<1>1. L \in Nat
  BY DEF Buffer
<1>2. /\ rest \in Buffer /\ Len(rest) = L + 2
      /\ \A i \in 1..L : rest[i] = payload[i]
      /\ rest[L + 1] = "CR" /\ rest[L + 2] = "LF"
  <2> DEFINE all == payload \o CRLF
  <2>1. CRLF \in Buffer /\ 1 \in 1..Len(CRLF) /\ 2 \in 1..Len(CRLF)
    BY CrlfIs
  <2>2. /\ all \in Buffer /\ Len(all) = Len(payload) + Len(CRLF)
        /\ \A i \in 1..Len(payload) : all[i] = payload[i]
        /\ \A i \in 1..Len(CRLF) : all[Len(payload) + i] = CRLF[i]
    BY <2>1, Joined, Zenon
  <2>3. rest = all
    OBVIOUS
  <2> HIDE DEF all
  <2>. QED BY <2>1, <2>2, <2>3, CrlfIs
<1> HIDE DEF L
<1>3. ASSUME NEW i \in Crlfs(rest) PROVE i \in Crlfs(payload) \/ i = L + 1
  <2>1. i \in Nat \ {0} /\ i + 1 <= Len(rest) /\ rest[i] = "CR" /\ rest[i + 1] = "LF"
    BY <1>2, CrlfsIs
  <2>2. i <= L + 1 /\ i # L
    BY <1>1, <1>2, <2>1
  <2>3. CASE i < L
    <3>1. i \in 1..L /\ i + 1 \in 1..L
      BY <1>1, <2>1, <2>3
    <3>2. payload[i] = "CR" /\ payload[i + 1] = "LF" /\ i + 1 <= Len(payload)
      BY <1>2, <2>1, <3>1 DEF L
    <3>. QED BY <2>1, <3>2, CrlfsIs
  <2>. QED BY <1>1, <2>1, <2>2, <2>3
<1>4. L + 1 \in Crlfs(rest)
  <2>1. L + 1 \in Nat \ {0} /\ (L + 1) + 1 <= Len(rest) /\ (L + 1) + 1 = L + 2
    BY <1>1, <1>2
  <2>. QED BY <1>2, <2>1, CrlfsIs
<1>5. ASSUME NEW i \in Crlfs(payload) PROVE i \in Crlfs(rest)
  <2>1. i \in Nat \ {0} /\ i + 1 <= L /\ payload[i] = "CR" /\ payload[i + 1] = "LF"
    BY CrlfsIs DEF L
  <2>2. i \in 1..L /\ i + 1 \in 1..L /\ i + 1 <= Len(rest)
    BY <1>1, <1>2, <2>1
  <2>3. rest[i] = "CR" /\ rest[i + 1] = "LF"
    BY <1>2, <2>1, <2>2
  <2>. QED BY <1>2, <2>1, <2>2, <2>3, CrlfsIs
<1>6. Crlfs(rest) = Crlfs(payload) \cup {L + 1}
  BY <1>3, <1>4, <1>5
<1>. QED BY <1>2, <1>6 DEF L

-----------------------------------------------------------------------------
(* The slices of a header block.                                           *)

\* From left to right.
IsScan(f, bytes) ==
    f = [i \in 0..Len(bytes) |->
            IF i = 0 THEN [found |-> <<>>, start |-> 1]
            ELSE IF i \in Crlfs(bytes)
            THEN [found |-> Append(f[i - 1].found, SubSeq(bytes, f[i - 1].start, i - 1)),
                  start |-> i + 2]
            ELSE f[i - 1]]
Scans == [found : Seq(Buffer), start : Nat \ {0}]
ScanFrom(f, bytes) ==
    /\ f \in [0..Len(bytes) -> Scans] /\ f[0] = [found |-> <<>>, start |-> 1]
    /\ \A i \in 1..Len(bytes) :
           f[i] = IF i \in Crlfs(bytes)
                  THEN [found |-> Append(f[i - 1].found, SubSeq(bytes, f[i - 1].start, i - 1)),
                        start |-> i + 2]
                  ELSE f[i - 1]

LEMMA ScanIs ==
    ASSUME NEW bytes \in Buffer
    PROVE  \E f : ScanFrom(f, bytes) /\ IsScan(f, bytes)
<1> DEFINE N == Len(bytes)
           after(i, x) == IF i \in Crlfs(bytes)
                          THEN [found |-> Append(x.found, SubSeq(bytes, x.start, i - 1)),
                                start |-> i + 2]
                          ELSE x
           step == [i \in Nat |-> [x \in Scans |-> after(i, x)]]
           zero == [found |-> <<>>, start |-> 1]
<1>1. N \in Nat
  BY DEF Buffer
<1>2. ASSUME NEW i \in Nat, NEW x \in Scans PROVE after(i, x) \in Scans
  <2>1. CASE i \in Crlfs(bytes)
    <3>1. i \in Nat \ {0} /\ i + 1 <= N
      BY <2>1, CrlfsIs
    <3>2. x.found \in Seq(Buffer) /\ x.start \in Nat \ {0}
      BY DEF Scans
    <3>3. SubSeq(bytes, x.start, i - 1) \in Buffer
      BY <1>1, <3>1, <3>2 DEF Buffer
    <3>4. Append(x.found, SubSeq(bytes, x.start, i - 1)) \in Seq(Buffer) /\ i + 2 \in Nat \ {0}
      BY <3>1, <3>2, <3>3
    <3>. QED BY <2>1, <3>4 DEF Scans
  <2>. QED BY <2>1
<1>3. step \in [Nat -> [Scans -> Scans]]
  BY <1>2
<1>4. zero \in Scans
  BY DEF Scans
<1>5. PICK f : IsFold(f, Scans, zero, step, N)
  <2> HIDE DEF step, N, zero
  <2>. QED BY <1>1, <1>3, <1>4, FoldExists
<1>6. f \in [0..N -> Scans] /\ f[0] = zero
  BY <1>5 DEF IsFold
<1>7. ASSUME NEW i \in 1..N PROVE f[i] = after(i, f[i - 1])
  <2>1. f[i] = step[i][f[i - 1]]
    <3> HIDE DEF step, N, zero
    <3>. QED BY <1>5 DEF IsFold
  <2>2. i \in Nat /\ f[i - 1] \in Scans
    <3> HIDE DEF N
    <3>1. i - 1 \in 0..N
      BY <1>1
    <3>. QED BY <1>6, <3>1
  <2> HIDE DEF after
  <2>. QED BY <2>1, <2>2
<1>8. ScanFrom(f, bytes)
  BY <1>6, <1>7 DEF ScanFrom
<1>9. IsScan(f, bytes)
  <2> DEFINE g == [i \in 0..N |-> IF i = 0 THEN zero ELSE after(i, f[i - 1])]
  <2>1. \A i \in 0..N : f[i] = g[i]
    <3> HIDE DEF after, zero, N
    <3>. QED BY <1>1, <1>6, <1>7
  <2>2. f = g
    <3> HIDE DEF after, zero, N
    <3>. QED BY <1>6, <2>1
  <2>. QED BY <2>2, Zenon DEF IsScan
<1>. QED BY <1>8, <1>9

LEMMA ScanOnly ==
    ASSUME NEW bytes \in Buffer, NEW f, ScanFrom(f, bytes), NEW g, IsScan(g, bytes)
    PROVE  g = f
<1> DEFINE N == Len(bytes)
           after(i, x) == IF i \in Crlfs(bytes)
                          THEN [found |-> Append(x.found, SubSeq(bytes, x.start, i - 1)),
                                start |-> i + 2]
                          ELSE x
           zero == [found |-> <<>>, start |-> 1]
<1>1. N \in Nat
  BY DEF Buffer
<1>2. g = [i \in 0..N |-> IF i = 0 THEN zero ELSE after(i, g[i - 1])]
  BY Zenon DEF IsScan
<1>3. f \in [0..N -> Scans] /\ f[0] = zero
  BY DEF ScanFrom
<1>4. \A i \in 1..N : f[i] = after(i, f[i - 1])
  BY DEF ScanFrom
<1> HIDE DEF after, zero, N
<1>5. f = [n \in 0..N |-> f[n]] /\ g = [n \in 0..N |-> g[n]] /\ f[0] = g[0]
  BY <1>1, <1>2, <1>3
<1>6. ASSUME NEW n \in 0..(N - 1), f[n] = g[n] PROVE f[n + 1] = g[n + 1]
  <2>1. n + 1 \in 1..N /\ n + 1 \in 0..N /\ n + 1 # 0 /\ n + 1 - 1 = n
    BY <1>1
  <2>2. f[n + 1] = after(n + 1, f[n])
    BY <1>4, <2>1
  <2>3. g[n + 1] = after(n + 1, g[n])
    <3>1. \A i \in 0..N : g[i] = IF i = 0 THEN zero ELSE after(i, g[i - 1])
      BY <1>2, Zenon
    <3> DEFINE k == n + 1
    <3>2. k \in 0..N /\ k # 0 /\ k - 1 = n
      BY <1>1
    <3> HIDE DEF k
    <3>3. g[k] = after(k, g[k - 1])
      BY <3>1, <3>2
    <3>4. g[k] = after(k, g[n])
      BY <3>2, <3>3
    <3>. QED BY <3>4 DEF k
  <2>. QED BY <1>6, <2>2, <2>3
<1>7. Alike(f, g, N)
  BY <1>5, <1>6, Zenon DEF Alike
<1>. QED BY <1>1, <1>7, FoldsAgree, Zenon

LEMMA SlicesIs ==
    ASSUME NEW bytes \in Buffer, NEW f, ScanFrom(f, bytes)
    PROVE  Slices(bytes) = f[Len(bytes)].found
<1>1. Slices(bytes) = (CHOOSE g : IsScan(g, bytes))[Len(bytes)].found
  BY Zenon DEF Slices, IsScan
<1>2. \E g : IsScan(g, bytes)
  BY ScanIs, Zenon
<1>3. IsScan(CHOOSE g : IsScan(g, bytes), bytes)
  BY <1>2, Zenon
<1>4. (CHOOSE g : IsScan(g, bytes)) = f
  BY <1>3, ScanOnly, Zenon
<1>. QED BY <1>1, <1>4, Zenon

\* Bytes that are a number of slices, each with its CRLF.
Sliced(bytes, found) ==
    /\ bytes \in Buffer /\ (bytes # <<>> => bytes[Len(bytes)] = "LF")
    /\ \E f : ScanFrom(f, bytes) /\ f[Len(bytes)] = [found |-> found, start |-> Len(bytes) + 1]

LEMMA SlicedSlices ==
    ASSUME NEW bytes, NEW found, Sliced(bytes, found)
    PROVE  Slices(bytes) = found
<1>1. PICK f : ScanFrom(f, bytes)
               /\ f[Len(bytes)] = [found |-> found, start |-> Len(bytes) + 1]
  BY Zenon DEF Sliced
<1>2. Slices(bytes) = f[Len(bytes)].found
  BY <1>1, SlicesIs, Zenon DEF Sliced
<1>. QED BY <1>1, <1>2

\* Another line.
LinedUp(bytes, head, line) ==
    /\ bytes \in Buffer /\ Len(bytes) = Len(head) + Len(line) + 2
    /\ \A i \in 1..Len(head) : bytes[i] = head[i]
    /\ \A i \in 1..Len(line) : bytes[Len(head) + i] = line[i]
    /\ bytes[Len(head) + Len(line) + 1] = "CR" /\ bytes[Len(head) + Len(line) + 2] = "LF"

LEMMA LinedUpIs ==
    ASSUME NEW head \in Buffer, NEW line \in Buffer
    PROVE  LinedUp(head \o line \o CRLF, head, line)
<1> DEFINE front == head \o line
           bytes == front \o CRLF
           H == Len(head)
           L == Len(line)
<1>1. front \in Buffer /\ Len(front) = H + L
      /\ (\A i \in 1..H : front[i] = head[i]) /\ (\A i \in 1..L : front[H + i] = line[i])
  BY Joined, Zenon
<1>2. CRLF \in Buffer /\ Len(CRLF) = 2 /\ CRLF[1] = "CR" /\ CRLF[2] = "LF"
  BY CrlfIs
<1> HIDE DEF front
<1>3. bytes \in Buffer /\ Len(bytes) = Len(front) + Len(CRLF)
      /\ (\A i \in 1..Len(front) : bytes[i] = front[i])
      /\ (\A i \in 1..Len(CRLF) : bytes[Len(front) + i] = CRLF[i])
  <2>1. front \in Buffer /\ CRLF \in Buffer
    BY <1>1, <1>2, Zenon
  <2>. QED BY <2>1, Joined, Zenon
<1>4. H \in Nat /\ L \in Nat
  BY DEF Buffer
<1> HIDE DEF bytes, H, L
<1>5. Len(bytes) = H + L + 2
  BY <1>1, <1>2, <1>3, <1>4
<1>6. \A i \in 1..H : bytes[i] = head[i]
  BY <1>1, <1>3, <1>4
<1>7. \A i \in 1..L : bytes[H + i] = line[i]
  <2>1. ASSUME NEW i \in 1..L PROVE bytes[H + i] = line[i]
    <3> DEFINE k == H + i
    <3>1. k \in 1..Len(front)
      BY <1>1, <1>4
    <3> HIDE DEF k
    <3>2. bytes[k] = front[k]
      BY <1>3, <3>1
    <3>. QED BY <1>1, <3>2 DEF k
  <2>. QED BY <2>1
<1>8. bytes[H + L + 1] = "CR" /\ bytes[H + L + 2] = "LF"
  BY <1>1, <1>2, <1>3, <1>4
<1>. QED BY <1>3, <1>5, <1>6, <1>7, <1>8, Zenon DEF LinedUp, bytes, front, H, L

LEMMA CrlfsLinedUp ==
    ASSUME NEW head \in Buffer, NEW line \in Buffer, NEW bytes, LinedUp(bytes, head, line),
           head # <<>> => head[Len(head)] = "LF", "CR" \notin Range(line)
    PROVE  Crlfs(bytes) = Crlfs(head) \cup {Len(head) + Len(line) + 1}
<1> DEFINE H == Len(head)
           L == Len(line)
<1>1. /\ bytes \in Buffer /\ Len(bytes) = H + L + 2
      /\ \A i \in 1..H : bytes[i] = head[i]
      /\ \A i \in 1..L : bytes[H + i] = line[i]
      /\ bytes[H + L + 1] = "CR" /\ bytes[H + L + 2] = "LF"
  BY Zenon DEF LinedUp
<1>2. H \in Nat /\ L \in Nat /\ (H > 0 => head[H] = "LF")
  BY DEF Buffer
<1>3. \A i \in 1..L : line[i] # "CR"
  BY RangeEquality DEF Buffer
<1>4. \A i : i \in Crlfs(head) <=> i \in Nat \ {0} /\ i + 1 <= H /\ head[i] = "CR" /\ head[i + 1] = "LF"
  BY CrlfsIs
<1> HIDE DEF H, L
<1>5. ASSUME NEW i \in Crlfs(bytes) PROVE i \in Crlfs(head) \/ i = H + L + 1
  <2>1. i \in Nat \ {0} /\ i + 1 <= H + L + 2 /\ bytes[i] = "CR" /\ bytes[i + 1] = "LF"
    BY <1>1, CrlfsIs
  <2>2. CASE i < H
    <3>1. i \in 1..H /\ i + 1 \in 1..H
      BY <1>2, <2>1, <2>2
    <3>. QED BY <1>1, <1>4, <2>1, <3>1
  <2>3. CASE i = H
    <3>1. i \in 1..H /\ H > 0
      BY <1>2, <2>1, <2>3
    <3>2. head[i] = "CR" /\ head[i] = "LF"
      BY <1>1, <1>2, <2>1, <2>3, <3>1
    <3>. QED BY <3>2
  <2>4. CASE i > H /\ i <= H + L
    <3> DEFINE j == i - H
    <3>1. j \in 1..L /\ i = H + j
      BY <1>2, <2>1, <2>4
    <3> HIDE DEF j
    <3>2. bytes[i] = line[j]
      BY <1>1, <3>1
    <3>. QED BY <1>3, <2>1, <3>1, <3>2
  <2>. QED BY <1>2, <2>1, <2>2, <2>3, <2>4
<1>6. H + L + 1 \in Crlfs(bytes)
  <2> DEFINE k == H + L + 1
  <2>1. k \in Nat \ {0} /\ k + 1 <= Len(bytes) /\ k + 1 = H + L + 2
    BY <1>1, <1>2
  <2>2. bytes[k] = "CR" /\ bytes[k + 1] = "LF"
    BY <1>1, <2>1
  <2> HIDE DEF k
  <2>3. k \in Crlfs(bytes)
    BY <1>1, <2>1, <2>2, CrlfsIs
  <2>. QED BY <2>3 DEF k
<1>7. ASSUME NEW i \in Crlfs(head) PROVE i \in Crlfs(bytes)
  <2>1. i \in Nat \ {0} /\ i + 1 <= H /\ head[i] = "CR" /\ head[i + 1] = "LF"
    BY <1>4
  <2>2. i \in 1..H /\ i + 1 \in 1..H /\ i + 1 <= Len(bytes)
    BY <1>1, <1>2, <2>1
  <2>3. bytes[i] = "CR" /\ bytes[i + 1] = "LF"
    BY <1>1, <2>1, <2>2
  <2>. QED BY <1>1, <2>1, <2>2, <2>3, CrlfsIs
<1>8. Crlfs(bytes) = Crlfs(head) \cup {H + L + 1}
  BY <1>5, <1>6, <1>7
<1>. QED BY <1>8 DEF H, L

LEMMA SliceMore ==
    ASSUME NEW head, NEW found, Sliced(head, found), NEW line \in Buffer, "CR" \notin Range(line)
    PROVE  Sliced(head \o line \o CRLF, Append(found, line))
<1> DEFINE bytes == head \o line \o CRLF
           H == Len(head)
           L == Len(line)
<1>1. head \in Buffer /\ (head # <<>> => head[H] = "LF")
  BY Zenon DEF Sliced
<1>2. LinedUp(bytes, head, line)
  BY <1>1, LinedUpIs, Zenon
<1> HIDE DEF bytes
<1>3. /\ bytes \in Buffer /\ Len(bytes) = H + L + 2
      /\ \A i \in 1..H : bytes[i] = head[i]
      /\ \A i \in 1..L : bytes[H + i] = line[i]
      /\ bytes[H + L + 1] = "CR" /\ bytes[H + L + 2] = "LF"
  BY <1>2, Zenon DEF LinedUp
<1>4. Crlfs(bytes) = Crlfs(head) \cup {H + L + 1}
  BY <1>1, <1>2, CrlfsLinedUp, Zenon
<1>5. PICK f : ScanFrom(f, head) /\ f[H] = [found |-> found, start |-> H + 1]
  BY Zenon DEF Sliced
<1>6. PICK g : ScanFrom(g, bytes)
  BY <1>3, ScanIs, Zenon
<1>7. H \in Nat /\ L \in Nat /\ Len(bytes) \in Nat
  BY <1>1, <1>3 DEF Buffer
<1>8. Begins(head, bytes)
  BY <1>1, <1>3, <1>7 DEF Begins
<1>9. \A i \in Crlfs(head) : i \in Nat \ {0} /\ i + 1 <= H
  BY <1>1, CrlfsIs
<1>10. \A n \in Nat : n <= H => g[n] = f[n]
  <2> DEFINE T == {n \in Nat : n <= H => g[n] = f[n]}
  <2>1. 0 \in T
    BY <1>5, <1>6 DEF ScanFrom
  <2>2. ASSUME NEW n \in Nat, n \in T PROVE n + 1 \in T
    <3> DEFINE k == n + 1
    <3>1. SUFFICES ASSUME k <= H PROVE g[k] = f[k]
      OBVIOUS
    <3>2. k \in Nat /\ k \in 1..H /\ k \in 1..Len(bytes) /\ k - 1 = n /\ k # H + L + 1 /\ n \in 0..H
      BY <1>3, <1>7, <3>1
    <3>3. g[n] = f[n]
      BY <2>2, <3>2
    <3> HIDE DEF k, T, L
    <3>4. f[n] \in Scans
      BY <1>5, <3>2 DEF ScanFrom
    <3>5. CASE k \in Crlfs(head)
      <4>1. k \in Crlfs(bytes)
        BY <1>4, <3>5
      <4>2. g[k] = [found |-> Append(g[n].found, SubSeq(bytes, g[n].start, k - 1)), start |-> k + 2]
        BY <1>6, <3>2, <4>1 DEF ScanFrom
      <4>3. f[k] = [found |-> Append(f[n].found, SubSeq(head, f[n].start, k - 1)), start |-> k + 2]
        BY <1>5, <3>2, <3>5 DEF ScanFrom, H
      <4>4. SubSeq(head, f[n].start, k - 1) = SubSeq(bytes, f[n].start, k - 1)
        <5>1. f[n].start \in Nat \ {0} /\ k - 1 \in Nat /\ k - 1 <= Len(head)
          BY <1>7, <3>2, <3>4 DEF Scans, H
        <5>. QED BY <1>8, <5>1, BeginsSubSeq, Zenon
      <4>. QED BY <3>3, <4>2, <4>3, <4>4, Zenon
    <3>6. CASE k \notin Crlfs(head)
      <4>1. k \notin Crlfs(bytes)
        BY <1>4, <3>2, <3>6
      <4>2. g[k] = g[n]
        BY <1>6, <3>2, <4>1 DEF ScanFrom
      <4>3. f[k] = f[n]
        BY <1>5, <3>2, <3>6 DEF ScanFrom, H
      <4>. QED BY <3>3, <4>2, <4>3
    <3>. QED BY <3>5, <3>6
  <2>3. Nat \subseteq T
    <3> HIDE DEF T
    <3>. QED BY <2>1, <2>2, NatSetInduction
  <2>. QED BY <2>3
<1>11. g[H] = [found |-> found, start |-> H + 1]
  BY <1>5, <1>7, <1>10
<1>12. \A n \in Nat : n <= L => g[H + n] = g[H]
  <2> DEFINE T == {n \in Nat : n <= L => g[H + n] = g[H]}
  <2>1. 0 \in T
    BY <1>7
  <2>2. ASSUME NEW n \in Nat, n \in T PROVE n + 1 \in T
    <3> DEFINE k == H + (n + 1)
    <3>1. SUFFICES ASSUME n + 1 <= L PROVE g[k] = g[H]
      OBVIOUS
    <3>2. k \in Nat /\ k \in 1..Len(bytes) /\ k - 1 = H + n /\ k # H + L + 1 /\ ~(k + 1 <= H)
      BY <1>3, <1>7, <3>1
    <3>3. g[H + n] = g[H]
      BY <1>7, <2>2, <3>1
    <3> HIDE DEF k
    <3>4. k \notin Crlfs(bytes)
      BY <1>4, <1>9, <3>2
    <3>5. g[k] = g[k - 1]
      BY <1>6, <3>2, <3>4 DEF ScanFrom
    <3>. QED BY <3>2, <3>3, <3>5
  <2>3. Nat \subseteq T
    <3> HIDE DEF T
    <3>. QED BY <2>1, <2>2, NatSetInduction
  <2>. QED BY <2>3
<1>13. SubSeq(bytes, H + 1, H + L) = line
  <2> DEFINE sub == SubSeq(bytes, H + 1, H + L)
  <2>1. sub \in Buffer /\ Len(sub) = L
    BY <1>3, <1>7 DEF Buffer
  <2>2. \A i \in 1..L : sub[i] = bytes[H + i]
    BY <1>3, <1>7 DEF Buffer
  <2> HIDE DEF sub
  <2>3. sub = line
    <3>1. Len(sub) = Len(line) /\ \A i \in 1..Len(sub) : sub[i] = line[i]
      BY <1>3, <2>1, <2>2, Zenon DEF L
    <3>. QED BY <2>1, <3>1, SameBytes, Zenon
  <2>. QED BY <2>3 DEF sub
<1>14. g[H + L + 1] = [found |-> Append(found, line), start |-> H + L + 3]
  <2> DEFINE k == H + L + 1
  <2>1. k \in 1..Len(bytes) /\ k - 1 = H + L /\ k + 2 = H + L + 3 /\ k \in Crlfs(bytes)
    BY <1>3, <1>4, <1>7
  <2> HIDE DEF k
  <2>2. g[k] = [found |-> Append(g[k - 1].found, SubSeq(bytes, g[k - 1].start, k - 1)), start |-> k + 2]
    BY <1>6, <2>1 DEF ScanFrom
  <2>3. g[k - 1] = [found |-> found, start |-> H + 1]
    BY <1>7, <1>11, <1>12, <2>1
  <2>4. g[k] = [found |-> Append(found, SubSeq(bytes, H + 1, H + L)), start |-> H + L + 3]
    BY <2>1, <2>2, <2>3
  <2>. QED BY <1>13, <2>4 DEF k
<1>15. g[Len(bytes)] = [found |-> Append(found, line), start |-> Len(bytes) + 1]
  <2> DEFINE k == H + L + 2
  <2>1. k \in 1..Len(bytes) /\ k - 1 = H + L + 1 /\ k = Len(bytes) /\ k + 1 = H + L + 3
        /\ k # H + L + 1 /\ ~(k + 1 <= H)
    BY <1>3, <1>7
  <2> HIDE DEF k
  <2>2. k \notin Crlfs(bytes)
    BY <1>4, <1>9, <2>1
  <2>3. g[k] = g[k - 1]
    BY <1>6, <2>1, <2>2 DEF ScanFrom
  <2>. QED BY <1>14, <2>1, <2>3
<1>16. bytes # <<>> => bytes[Len(bytes)] = "LF"
  BY <1>3
<1>17. Sliced(bytes, Append(found, line))
  BY <1>3, <1>6, <1>15, <1>16, Zenon DEF Sliced
<1>. QED BY <1>17 DEF bytes

-----------------------------------------------------------------------------
(* Header blocks.                                                          *)

IsBlock(f, lines) ==
    f = [n \in 0..Len(lines) |-> IF n = 0 THEN <<"NATS/1.0">> \o CRLF
                                 ELSE f[n - 1] \o lines[n] \o CRLF]

LEMMA BlockIs ==
    ASSUME NEW lines \in Seq(Buffer)
    PROVE  \E f \in [0..Len(lines) -> Buffer] :
               /\ f[0] = <<"NATS/1.0">> \o CRLF
               /\ \A n \in 1..Len(lines) : f[n] = f[n - 1] \o lines[n] \o CRLF
               /\ Block(lines) = f[Len(lines)] \o CRLF
<1> DEFINE N == Len(lines)
           after(n, x) == x \o lines[n] \o CRLF
           step == [n \in Nat |-> [x \in Buffer |-> IF n \in 1..N THEN after(n, x) ELSE x]]
           zero == <<"NATS/1.0">> \o CRLF
<1>1. N \in Nat
  OBVIOUS
<1>2. CRLF \in Buffer /\ zero \in Buffer
  <2>1. "NATS/1.0" \in Token
    BY DEF Token
  <2>2. <<"NATS/1.0">> \in Buffer
    BY <2>1, OneToken, Zenon
  <2>. QED BY <2>2, CrlfIs, JoinedIn, Zenon
<1>3. ASSUME NEW n \in 1..N, NEW x \in Buffer PROVE after(n, x) \in Buffer
  <2>1. lines[n] \in Buffer
    OBVIOUS
  <2>2. x \o lines[n] \in Buffer
    BY <2>1, JoinedIn, Zenon
  <2>. QED BY <1>2, <2>2, JoinedIn, Zenon
<1>4. step \in [Nat -> [Buffer -> Buffer]]
  <2> HIDE DEF after, N
  <2>. QED BY <1>3
<1>5. PICK f : IsFold(f, Buffer, zero, step, N)
  <2> HIDE DEF step, N, zero
  <2>. QED BY <1>1, <1>2, <1>4, FoldExists
<1> HIDE DEF after, zero
<1>6. f \in [0..N -> Buffer] /\ f[0] = zero
  BY <1>5 DEF IsFold
<1>7. ASSUME NEW n \in 1..N PROVE f[n] = after(n, f[n - 1])
  <2> HIDE DEF N
  <2>1. f[n] = step[n][f[n - 1]]
    <3> HIDE DEF step
    <3>. QED BY <1>5 DEF IsFold
  <2>2. n \in Nat /\ n - 1 \in 0..N
    BY <1>1
  <2>3. f[n - 1] \in Buffer
    BY <1>6, <2>2
  <2>. QED BY <2>1, <2>2, <2>3
<1>8. ASSUME NEW g, IsBlock(g, lines) PROVE g = f
  <2>1. g = [n \in 0..N |-> IF n = 0 THEN zero ELSE after(n, g[n - 1])]
    BY <1>8, Zenon DEF IsBlock, zero, after
  <2> HIDE DEF N
  <2>2. f = [n \in 0..N |-> f[n]] /\ g = [n \in 0..N |-> g[n]] /\ f[0] = g[0]
    BY <1>1, <1>6, <2>1
  <2>3. ASSUME NEW n \in 0..(N - 1), f[n] = g[n] PROVE f[n + 1] = g[n + 1]
    <3> DEFINE k == n + 1
    <3>1. k \in 1..N /\ k \in 0..N /\ k # 0 /\ k - 1 = n
      BY <1>1
    <3> HIDE DEF k
    <3>2. f[k] = after(k, f[k - 1])
      BY <1>7, <3>1
    <3>3. g[k] = after(k, g[k - 1])
      BY <2>1, <3>1
    <3>4. f[k] = g[k]
      BY <2>3, <3>1, <3>2, <3>3
    <3>. QED BY <3>4 DEF k
  <2>4. Alike(f, g, N)
    BY <2>2, <2>3, Zenon DEF Alike
  <2>. QED BY <1>1, <2>4, FoldsAgree, Zenon
<1>9. IsBlock(f, lines)
  <2> DEFINE g == [n \in 0..N |-> IF n = 0 THEN zero ELSE after(n, f[n - 1])]
  <2>1. f = g
    <3> HIDE DEF N
    <3>1. \A n \in 0..N : f[n] = g[n]
      BY <1>1, <1>6, <1>7
    <3>. QED BY <1>6, <3>1
  <2>. QED BY <2>1, Zenon DEF IsBlock, zero, after
<1>10. (CHOOSE g : IsBlock(g, lines)) = f
  BY <1>8, <1>9, Zenon
<1>11. Block(lines) = (CHOOSE g : IsBlock(g, lines))[N] \o CRLF
  BY Zenon DEF Block, IsBlock
<1>12. Block(lines) = f[N] \o CRLF
  BY <1>10, <1>11, Zenon
<1>. QED BY <1>6, <1>7, <1>12, Zenon DEF zero, after

\* The version and the first n lines.
Lead(found, lines, n) ==
    /\ found \in Seq(Buffer) /\ Len(found) = n + 1 /\ found[1] = <<"NATS/1.0">>
    /\ \A i \in 1..n : found[i + 1] = lines[i]

BlockFacts(lines, block) ==
    /\ block \in Buffer /\ Len(block) - 1 \in Crlfs(block)
    /\ Len(Slices(block)) = Len(lines) + 2
    /\ Slices(block)[1] = <<"NATS/1.0">> /\ Slices(block)[Len(lines) + 2] = <<>>
    /\ \A i \in 1..Len(lines) : Slices(block)[i + 1] = lines[i]
    /\ Utf8(block)

LEMMA BlockSlices ==
    ASSUME NEW lines \in Seq(Buffer),
           \A i \in 1..Len(lines) : Range(lines[i]) \cap {"CR", "bin"} = {}
    PROVE  BlockFacts(lines, Block(lines))
<1> DEFINE N == Len(lines)
           version == <<"NATS/1.0">>
<1>1. N \in Nat /\ \A i \in 1..N : lines[i] \in Buffer
  OBVIOUS
<1>2. PICK f \in [0..N -> Buffer] :
          /\ f[0] = version \o CRLF
          /\ \A n \in 1..N : f[n] = f[n - 1] \o lines[n] \o CRLF
          /\ Block(lines) = f[N] \o CRLF
  BY BlockIs, Zenon
<1>3. version \in Buffer /\ Range(version) = {"NATS/1.0"} /\ <<>> \in Buffer /\ Range(<<>>) = {}
  <2>1. "NATS/1.0" \in Token
    BY DEF Token
  <2>2. version \in Buffer /\ Range(version) = {"NATS/1.0"}
    BY <2>1, OneToken, Zenon
  <2>3. Range(<<>>) = {}
    BY DEF Range
  <2>. QED BY <2>2, <2>3 DEF Buffer
<1>4. CRLF \in Buffer /\ Range(CRLF) = {"CR", "LF"}
  <2>1. Range(CRLF) = {CRLF[i] : i \in 1..2}
    <3>1. CRLF \in Seq(Token) /\ Len(CRLF) = 2
      BY CrlfIs, Zenon DEF Buffer
    <3>2. Range(CRLF) = {CRLF[i] : i \in 1..Len(CRLF)}
      BY <3>1, RangeEquality, Zenon
    <3>. QED BY <3>1, <3>2, Zenon
  <2>. QED BY <2>1, CrlfIs
<1> HIDE DEF version, N
<1>5. Sliced(<<>>, <<>>)
  <2>1. PICK g : ScanFrom(g, <<>>)
    BY <1>3, ScanIs, Zenon
  <2>2. g[Len(<<>>)] = [found |-> <<>>, start |-> Len(<<>>) + 1]
    BY <2>1 DEF ScanFrom
  <2>. QED BY <1>3, <2>1, <2>2, Zenon DEF Sliced
<1> DEFINE Done(n) == \E found : /\ Sliced(f[n], found) /\ Lead(found, lines, n)
                                 /\ "bin" \notin Range(f[n])
           T == {n \in Nat : n <= N => Done(n)}
<1>6. 0 \in T
  <2>1. Sliced(<<>> \o version \o CRLF, Append(<<>>, version))
    <3>1. "CR" \notin Range(version)
      BY <1>3
    <3>. QED BY <1>3, <1>5, <3>1, SliceMore, Zenon
  <2>2. <<>> \o version = version
    BY <1>3, ConcatEmptySeq, Zenon DEF Buffer
  <2>3. Sliced(f[0], Append(<<>>, version))
    BY <1>2, <2>1, <2>2, Zenon
  <2>4. Lead(Append(<<>>, version), lines, 0)
    <3>1. \A S : \A s \in S : /\ Append(<<>>, s) \in Seq(S) /\ Len(Append(<<>>, s)) = 0 + 1
                              /\ Append(<<>>, s)[1] = s
      OBVIOUS
    <3>2. \A i \in 1..0 : Append(<<>>, version)[i + 1] = lines[i]
      OBVIOUS
    <3>. QED BY <1>3, <3>1, <3>2, Zenon DEF Lead, version
  <2>5. Range(version \o CRLF) = Range(version) \cup Range(CRLF)
    BY <1>3, <1>4, Joined, Zenon
  <2>6. "bin" \notin Range(f[0])
    <3>1. "bin" \notin Range(version) \cup Range(CRLF)
      BY <1>3, <1>4
    <3>. QED BY <1>2, <2>5, <3>1, Zenon
  <2>. QED BY <2>3, <2>4, <2>6
<1>7. ASSUME NEW n \in Nat, n \in T PROVE n + 1 \in T
  <2> DEFINE k == n + 1
  <2>0. k \in Nat
    OBVIOUS
  <2>1. SUFFICES ASSUME k <= N PROVE Done(k)
    <3> HIDE DEF Done
    <3>. QED BY <2>0
  <2>2. k \in 1..N /\ k - 1 = n /\ k \in Nat /\ n <= N /\ n \in 0..N
    BY <1>1, <2>1
  <2>3. PICK found : Sliced(f[n], found) /\ Lead(found, lines, n) /\ "bin" \notin Range(f[n])
    BY <1>7, <2>2
  <2>4. f[k] = f[n] \o lines[k] \o CRLF
    <3> HIDE DEF k
    <3>. QED BY <1>2, <2>2
  <2>5. lines[k] \in Buffer /\ "CR" \notin Range(lines[k]) /\ "bin" \notin Range(lines[k])
    <3> HIDE DEF k
    <3>1. Range(lines[k]) \cap {"CR", "bin"} = {}
      BY <2>2 DEF N
    <3>. QED BY <1>1, <2>2, <3>1
  <2>6. Sliced(f[k], Append(found, lines[k]))
    <3> HIDE DEF k
    <3>1. Sliced(f[n] \o lines[k] \o CRLF, Append(found, lines[k]))
      BY <2>3, <2>5, SliceMore, Zenon
    <3>. QED BY <2>4, <3>1, Zenon
  <2>7. Lead(Append(found, lines[k]), lines, k)
    <3> HIDE DEF k
    <3> DEFINE more == Append(found, lines[k])
    <3>1. found \in Seq(Buffer) /\ Len(found) = k /\ found[1] = <<"NATS/1.0">>
          /\ \A i \in 1..n : found[i + 1] = lines[i]
      BY <2>2, <2>3 DEF Lead
    <3>2. more \in Seq(Buffer) /\ Len(more) = k + 1 /\ more[k + 1] = lines[k]
          /\ \A i \in 1..k : more[i] = found[i]
      BY <2>2, <2>5, <3>1
    <3> HIDE DEF more
    <3>3. \A i \in 1..k : more[i + 1] = lines[i]
      <4>1. ASSUME NEW i \in 1..k PROVE more[i + 1] = lines[i]
        <5>1. CASE i = k
          BY <3>2, <5>1
        <5>2. CASE i # k
          <6>1. i \in 1..n /\ i + 1 \in 1..k
            BY <2>2, <5>2
          <6>. QED BY <3>1, <3>2, <6>1
        <5>. QED BY <5>1, <5>2
      <4>. QED BY <4>1
    <3>4. more[1] = <<"NATS/1.0">>
      BY <2>2, <3>1, <3>2
    <3>. QED BY <3>2, <3>3, <3>4, Zenon DEF Lead, more
  <2>8. "bin" \notin Range(f[k])
    <3> DEFINE front == f[n] \o lines[k]
    <3>1. f[n] \in Buffer
      BY <1>2, <2>2
    <3>2. front \in Buffer /\ Range(front) = Range(f[n]) \cup Range(lines[k])
      BY <2>5, <3>1, Joined, Zenon
    <3> HIDE DEF front
    <3>3. Range(front \o CRLF) = Range(front) \cup Range(CRLF)
      BY <1>4, <3>2, Joined, Zenon
    <3>4. f[k] = front \o CRLF
      BY <2>4, Zenon DEF front
    <3>. QED BY <1>4, <2>3, <2>5, <3>2, <3>3, <3>4
  <2>. QED BY <2>6, <2>7, <2>8, Zenon
<1>8. Nat \subseteq T
  <2> HIDE DEF T
  <2>. QED BY <1>6, <1>7, NatSetInduction
<1>9. PICK found : Sliced(f[N], found) /\ Lead(found, lines, N) /\ "bin" \notin Range(f[N])
  BY <1>1, <1>8
<1> DEFINE block == Block(lines)
           front == f[N]
<1>10. front \in Buffer /\ block = front \o <<>> \o CRLF
  <2>1. front \in Buffer
    BY <1>1, <1>2
  <2>2. front \o <<>> = front
    BY <2>1, ConcatEmptySeq, Zenon DEF Buffer
  <2>. QED BY <1>2, <2>1, <2>2, Zenon
<1>11. Sliced(block, Append(found, <<>>))
  <2>1. "CR" \notin Range(<<>>)
    BY <1>3
  <2>2. Sliced(front \o <<>> \o CRLF, Append(found, <<>>))
    BY <1>3, <1>9, <2>1, SliceMore, Zenon
  <2>. QED BY <1>10, <2>2, Zenon
<1>12. block \in Buffer /\ Slices(block) = Append(found, <<>>)
  BY <1>11, SlicedSlices, Zenon DEF Sliced
<1>13. Len(block) - 1 \in Crlfs(block)
  <2>1. LinedUp(block, front, <<>>)
    <3>1. LinedUp(front \o <<>> \o CRLF, front, <<>>)
      BY <1>3, <1>10, LinedUpIs, Zenon
    <3>. QED BY <1>10, <3>1, Zenon
  <2>2. front # <<>> => front[Len(front)] = "LF"
    BY <1>9, Zenon DEF Sliced
  <2> HIDE DEF block, front
  <2>3. Crlfs(block) = Crlfs(front) \cup {Len(front) + Len(<<>>) + 1}
    <3>1. "CR" \notin Range(<<>>)
      BY <1>3
    <3>. QED BY <1>3, <1>10, <2>1, <2>2, <3>1, CrlfsLinedUp, Zenon
  <2>4. Len(block) = Len(front) + Len(<<>>) + 2
    BY <2>1, Zenon DEF LinedUp
  <2>5. Len(front) \in Nat
    BY <1>10 DEF Buffer
  <2>. QED BY <2>3, <2>4, <2>5
<1>14. Utf8(block)
  <2>1. Range(front \o CRLF) = Range(front) \cup Range(CRLF)
    BY <1>4, <1>10, Joined, Zenon
  <2>2. "bin" \notin Range(front \o CRLF)
    BY <1>4, <1>9, <2>1
  <2>. QED BY <1>2, <2>2, Zenon DEF Utf8
<1> HIDE DEF block
<1> DEFINE all == Slices(block)
<1>15. Len(all) = N + 2 /\ all[N + 2] = <<>> /\ \A i \in 1..(N + 1) : all[i] = found[i]
  BY <1>1, <1>3, <1>9, <1>12 DEF Lead
<1> HIDE DEF all
<1>16. all[1] = <<"NATS/1.0">> /\ \A i \in 1..N : all[i + 1] = lines[i]
  <2>1. 1 \in 1..(N + 1) /\ \A i \in 1..N : i + 1 \in 1..(N + 1)
    BY <1>1
  <2>2. found[1] = <<"NATS/1.0">> /\ \A i \in 1..N : found[i + 1] = lines[i]
    BY <1>9, Zenon DEF Lead
  <2>. QED BY <1>15, <2>1, <2>2
<1>. QED BY <1>12, <1>13, <1>14, <1>15, <1>16, Zenon DEF BlockFacts, block, all, N

-----------------------------------------------------------------------------
(* HMSG and HPUB.                                                          *)

\* Two tokens behind others.
EndTwo(line, fields, one, two) ==
    /\ line \in Buffer /\ Len(line) = Len(fields) + 2
    /\ line[Len(line) - 1] = one /\ line[Len(line)] = two
    /\ SubSeq(line, 1, Len(line) - 2) = fields /\ Range(line) = Range(fields) \cup {one, two}

LEMMA EndTwoIs ==
    ASSUME NEW fields \in Buffer, NEW one \in Token, NEW two \in Token
    PROVE  EndTwo(fields \o <<one, two>>, fields, one, two)
<1> DEFINE last == <<one, two>>
           line == fields \o last
<1>1. last \in Buffer /\ Len(last) = 2 /\ last[1] = one /\ last[2] = two /\ Range(last) = {one, two}
  <2>1. last \in Buffer /\ Len(last) = 2 /\ last[1] = one /\ last[2] = two /\ DOMAIN last = 1..2
    BY DEF Buffer
  <2>2. Range(last) = {one, two}
    <3> HIDE DEF last
    <3>. QED BY <2>1 DEF Range
  <2>. QED BY <2>1, <2>2
<1> HIDE DEF last
<1>2. /\ line \in Buffer /\ Len(line) = Len(fields) + Len(last)
      /\ \A i \in 1..Len(fields) : line[i] = fields[i]
      /\ \A i \in 1..Len(last) : line[Len(fields) + i] = last[i]
      /\ Range(line) = Range(fields) \cup Range(last)
  BY <1>1, Joined, Zenon
<1> HIDE DEF line
<1>3. Len(fields) \in Nat
  BY DEF Buffer
<1>4. Len(line) = Len(fields) + 2 /\ line[Len(line)] = two
  BY <1>1, <1>2, <1>3
<1>5. line[Len(line) - 1] = one
  <2>1. 1 \in 1..Len(last) /\ Len(line) - 1 = Len(fields) + 1
    BY <1>1, <1>3, <1>4
  <2>. QED BY <1>1, <1>2, <2>1
<1>6. SubSeq(line, 1, Len(fields)) = fields
  BY <1>2, <1>3, <1>4 DEF Buffer
<1>7. Len(line) - 2 = Len(fields)
  BY <1>3, <1>4
<1>8. EndTwo(line, fields, one, two)
  BY <1>1, <1>2, <1>4, <1>5, <1>6, <1>7, Zenon DEF EndTwo
<1>. QED BY <1>8, Zenon DEF line, last

\* What precedes the header block.
SizedTwice(verb, body, fields, h, t) ==
    /\ Enough(verb, body, 2) /\ Before(body, 2) = fields
    /\ IsNumber(Declared(body, 1)) /\ IsNumber(Declared(body, 0))
    /\ Number(Declared(body, 1)) = h /\ Number(Declared(body, 0)) = t

LEMMA SizedTwiceIs ==
    ASSUME NEW verb, NEW body, NEW fields \in Buffer, NEW h \in 0..MaxNumber, NEW t \in 0..MaxNumber,
           EndTwo(Metadata(body), fields, Numeral[h], Numeral[t]), Len(fields) \in Arity(verb)
    PROVE  SizedTwice(verb, body, fields, h, t)
<1> DEFINE line == Metadata(body)
<1>1. Len(line) = Len(fields) + 2 /\ line[Len(line) - 1] = Numeral[h] /\ line[Len(line)] = Numeral[t]
      /\ SubSeq(line, 1, Len(line) - 2) = fields
  BY Zenon DEF EndTwo
<1>2. Len(fields) \in Nat
  BY DEF Buffer
<1>3. Before(body, 2) = fields
  BY <1>1, Zenon DEF Before
<1> HIDE DEF line
<1>4. Len(line) >= 2 /\ Len(line) - 0 = Len(line)
  BY <1>1, <1>2
<1>5. Enough(verb, body, 2)
  BY <1>3, <1>4, Zenon DEF Enough, line
<1>6. Declared(body, 0) = Numeral[t] /\ Declared(body, 1) = Numeral[h]
  BY <1>1, <1>4, Zenon DEF Declared, line
<1>7. IsNumber(Numeral[h]) /\ Number(Numeral[h]) = h /\ IsNumber(Numeral[t]) /\ Number(Numeral[t]) = t
  BY NumeralIs, Zenon
<1>. QED BY <1>3, <1>5, <1>6, <1>7, Zenon DEF SizedTwice

\* The two slices.
BlockOf(body, h)      == SubSeq(body, MetadataLen(body) + 1, MetadataLen(body) + h)
RestOf(body, h, t) == SubSeq(body, MetadataLen(body) + h + 1, MetadataLen(body) + t)
Whole(verb, fields, headers, payload, n) == Advance(Frame(verb, fields, headers, payload), n)

SliceFacts(verb, body, fields, h, t) ==
    /\ t > Len(body) => Slice(verb, body) = FrameTooShort
    /\ ~(t > Len(body)) /\ MetadataLen(body) + t > Len(body) => Slice(verb, body) = Panic
    /\ ~(t > Len(body)) /\ ~(MetadataLen(body) + t > Len(body)) =>
           Slice(verb, body) = Whole(verb, fields, BlockOf(body, h), RestOf(body, h, t),
                                     MetadataLen(body) + t + 2)

LEMMA SizedSlice ==
    ASSUME NEW verb, NEW body, NEW fields, NEW h, NEW t, SizedTwice(verb, body, fields, h, t), t >= h
    PROVE  SliceFacts(verb, body, fields, h, t)
<1> DEFINE header == Number(Declared(body, 1))
           total  == Number(Declared(body, 0))
           start  == MetadataLen(body)
           lengths == IsNumber(Declared(body, 1)) /\ IsNumber(Declared(body, 0))
           valid == Enough(verb, body, 2) /\ lengths /\ total >= header
<1>1. valid /\ header = h /\ total = t /\ Before(body, 2) = fields
  BY Zenon DEF SizedTwice
<1>2. /\ valid /\ total > Len(body) => Slice(verb, body) = FrameTooShort
      /\ valid /\ ~(total > Len(body)) /\ start + total > Len(body) => Slice(verb, body) = Panic
      /\ valid /\ ~(total > Len(body)) /\ ~(start + total > Len(body)) =>
             Slice(verb, body) =
                 Advance(Frame(verb, Before(body, 2), SubSeq(body, start + 1, start + header),
                               SubSeq(body, start + header + 1, start + total)),
                         start + total + 2)
  BY SliceIs, Zenon
<1> HIDE DEF header, total, valid
<1>. QED BY <1>1, <1>2, Zenon DEF SliceFacts, Whole, BlockOf, RestOf

\* What is made of them.
ParsedSlices(verb, fields, block, payload, n, body, sliced) ==
    /\ sliced.outcome = "frame"
    /\ sliced.frame.headers = block /\ sliced.frame.payload = payload
    /\ ~(Utf8(fields) /\ ValidHeaders(block)) => Parse(sliced, body) = FatalError
    /\ Utf8(fields) /\ ValidHeaders(block) =>
           Parse(sliced, body) = IF n > Len(body) THEN Panic
                                 ELSE Whole(verb, fields, ParseHeaders(block), payload, n)

LEMMA ParseIs ==
    ASSUME NEW verb, NEW fields, NEW block, NEW payload, NEW n, NEW body, NEW sliced,
           sliced = Whole(verb, fields, block, payload, n)
    PROVE  ParsedSlices(verb, fields, block, payload, n, body, sliced)
<1>1. sliced = [outcome |-> "frame", consume |-> n,
                frame |-> [verb |-> verb, fields |-> fields, headers |-> block, payload |-> payload]]
  BY Zenon DEF Whole, Advance, Frame
<1>2. sliced.outcome = "frame" /\ sliced.frame.headers = block /\ sliced.frame.payload = payload
      /\ sliced.frame.fields = fields /\ sliced.consume = n
  BY <1>1
<1>3. [sliced EXCEPT !.frame.headers = ParseHeaders(@)] =
          [outcome |-> "frame", consume |-> n,
           frame |-> [verb |-> verb, fields |-> fields, headers |-> ParseHeaders(block),
                      payload |-> payload]]
  BY <1>1
<1>4. [sliced EXCEPT !.frame.headers = ParseHeaders(@)]
      = Whole(verb, fields, ParseHeaders(block), payload, n)
  BY <1>3, Zenon DEF Whole, Advance, Frame
<1>5. ~(Utf8(fields) /\ ValidHeaders(block)) => Parse(sliced, body) = FatalError
  BY <1>2, Zenon DEF Parse
<1>6. Utf8(fields) /\ ValidHeaders(block) =>
          Parse(sliced, body) = IF n > Len(body) THEN Panic
                                ELSE [sliced EXCEPT !.frame.headers = ParseHeaders(@)]
  BY <1>2, Zenon DEF Parse
<1>. QED BY <1>2, <1>4, <1>5, <1>6, Zenon DEF ParsedSlices

LEMMA DecodeHeadedIs ==
    ASSUME NEW verb \in Headed, NEW body
    PROVE  LET sliced == Slice(verb, body)
               read   == Utf8(sliced.frame.headers) /\ Utf8(sliced.frame.payload)
           IN  /\ sliced.outcome # "frame" => DecodeBody(verb, body) = sliced
               /\ sliced.outcome = "frame" /\ verb = "HPUB" /\ ~read =>
                      DecodeBody(verb, body) = Panic
               /\ sliced.outcome = "frame" /\ (verb = "HMSG" \/ read) =>
                      DecodeBody(verb, body) = Parse(sliced, body)
<1>1. CASE verb = "HMSG"
  <2>1. DecodeBody(verb, body) = DecodeHMsg(body)
    BY <1>1, DecodeBodyIs, Zenon
  <2>2. verb # "HPUB"
    BY <1>1
  <2>. QED BY <1>1, <2>1, <2>2, Zenon DEF DecodeHMsg
<1>2. CASE verb = "HPUB"
  <2>1. DecodeBody(verb, body) = DecodeHPub(body)
    BY <1>2, DecodeBodyIs, Zenon
  <2>2. verb # "HMSG"
    BY <1>2
  <2>. QED BY <1>2, <2>1, <2>2, Zenon DEF DecodeHPub
<1>. QED BY <1>1, <1>2, Zenon DEF Headed

=============================================================================
