--------------------------- MODULE ChunkingProofs ---------------------------
(***************************************************************************)
(* Proofs about Chunking, for texts of any length and any settings.        *)
(*                                                                         *)
(* Three layers.  Strings: what Strip, Within, SplitAt and FlattenSeq do   *)
(* to sequences of any length.  Sentences: what _split_into_units takes    *)
(* ends in a character that is no blank.  Loops: the invariants of         *)
(* _hard_split and of the packing in chunk_text.                           *)
(***************************************************************************)
EXTENDS Chunking, WellFoundedInduction, SequenceTheorems, TLAPS

Str == Seq(Char)

-----------------------------------------------------------------------------
(***************************************************************************)
(* Induction over natural numbers, with the predicate given as a set.      *)
(***************************************************************************)

LEMMA LeastElement ==
    ASSUME NEW T \in SUBSET Nat, T # {}
    PROVE  \E n \in T : \A m \in T : n <= m
<1>1. PICK n \in T : \A m \in T : ~ (<<m, n>> \in OpToRel(<, Nat))
  BY NatLessThanWellFounded, WFMin
<1>2. \A m \in T : ~ (m < n)
  BY <1>1 DEF OpToRel
<1> QED
  BY <1>2

LEMMA SetInduction ==
    ASSUME NEW T, 0 \in T, \A n \in Nat : n \in T => n + 1 \in T
    PROVE  \A n \in Nat : n \in T
<1> SUFFICES ASSUME NEW k \in Nat, k \notin T
             PROVE  FALSE
  OBVIOUS
<1> DEFINE U == {n \in Nat : n \notin T}
<1>1. PICK n \in U : \A m \in U : n <= m
  <2>1. U \in SUBSET Nat /\ k \in U
    OBVIOUS
  <2> QED
    BY <2>1, LeastElement
<1>2. n # 0 /\ n - 1 \in Nat
  BY <1>1
<1>3. n - 1 \in T
  BY <1>1, <1>2
<1> QED
  BY <1>1, <1>2, <1>3

LEMMA MinFacts ==
    ASSUME NEW T \in SUBSET Nat, T # {}
    PROVE  Min(T) \in T /\ \A m \in T : Min(T) <= m
<1>1. \E n \in T : \A m \in T : n =< m
  BY LeastElement
<1> QED
  BY <1>1 DEF Min

LEMMA MaxFacts ==
    ASSUME NEW n \in Nat, NEW T \in SUBSET (1 .. n), T # {}
    PROVE  Max(T) \in T /\ \A m \in T : m <= Max(T)
<1> DEFINE U == {n - m : m \in T}
<1>1. PICK k \in U : \A j \in U : k <= j
  <2>1. U \in SUBSET Nat
    OBVIOUS
  <2>2. PICK m \in T : TRUE
    OBVIOUS
  <2>3. n - m \in U
    OBVIOUS
  <2> HIDE DEF U
  <2> QED
    BY <2>1, <2>3, LeastElement
<1>2. PICK x \in T : k = n - x
  BY <1>1
<1>3. ASSUME NEW y \in T
      PROVE  x >= y
  <2>1. n - y \in U
    OBVIOUS
  <2>2. n - x <= n - y
    BY <1>1, <1>2, <2>1
  <2> QED
    BY <2>2
<1> QED
  BY <1>2, <1>3 DEF Max

-----------------------------------------------------------------------------
(***************************************************************************)
(* Strings: Strip and Within.                                              *)
(***************************************************************************)

Ink(s)     == {i \in DOMAIN s : s[i] # " "}
EndsInk(s) == s # <<>> /\ s[Len(s)] # " "

(* Neither begins nor ends with a blank.                                   *)
Trim(s) == s # <<>> => s[1] # " " /\ s[Len(s)] # " "

LEMMA StrFacts ==
    ASSUME NEW s \in Str
    PROVE  /\ Len(s) \in Nat /\ DOMAIN s = 1 .. Len(s)
           /\ \A i \in 1 .. Len(s) : s[i] \in Char
           /\ s = <<>> <=> Len(s) = 0
BY EmptySeq DEF Str

(* Strip cuts off the blanks before the first and behind the last ink.     *)
LEMMA StripOfBlank ==
    ASSUME NEW s, Ink(s) = {}
    PROVE  Strip(s) = <<>>
BY DEF Strip, Ink

LEMMA StripOfInk ==
    ASSUME NEW s \in Str, Ink(s) # {}
    PROVE  \E a, b \in Ink(s) :
              /\ \A i \in Ink(s) : a <= i /\ i <= b
              /\ Strip(s) = SubSeq(s, a, b)
              /\ Strip(s) \in Str
              /\ Len(Strip(s)) = b - a + 1
              /\ \A i \in 1 .. (b - a + 1) : Strip(s)[i] = s[a + i - 1]
<1>1. Len(s) \in Nat /\ DOMAIN s = 1 .. Len(s) /\ \A i \in 1 .. Len(s) : s[i] \in Char
  BY StrFacts
<1>2. Ink(s) \in SUBSET (1 .. Len(s))
  BY <1>1 DEF Ink
<1>3. Ink(s) \in SUBSET Nat
  BY <1>2
<1>4. Min(Ink(s)) \in Ink(s) /\ \A i \in Ink(s) : Min(Ink(s)) <= i
  BY <1>3, MinFacts
<1>5. Max(Ink(s)) \in Ink(s) /\ \A i \in Ink(s) : i <= Max(Ink(s))
  BY <1>1, <1>2, MaxFacts
<1>6. PICK a \in Ink(s) : a = Min(Ink(s))
  BY <1>4
<1>7. PICK b \in Ink(s) : b = Max(Ink(s))
  BY <1>5
<1>8. \A i \in Ink(s) : a <= i /\ i <= b
  BY <1>4, <1>5, <1>6, <1>7
<1>9. Strip(s) = SubSeq(s, a, b)
  BY <1>6, <1>7 DEF Strip, Ink
<1>10. a \in 1 .. Len(s) /\ b \in 1 .. Len(s) /\ a <= b
  BY <1>2, <1>8
<1>11. /\ SubSeq(s, a, b) \in Str
       /\ Len(SubSeq(s, a, b)) = b - a + 1
       /\ \A i \in 1 .. (b - a + 1) : SubSeq(s, a, b)[i] = s[a + i - 1]
  <2>1. \A i \in a .. b : s[i] \in Char
    BY <1>1, <1>10
  <2> QED
    BY <1>1, <1>10, <2>1, SubSeqProperties DEF Str
<1> QED
  BY <1>8, <1>9, <1>11

LEMMA StripFacts ==
    ASSUME NEW s \in Str
    PROVE  /\ Strip(s) \in Str
           /\ Len(Strip(s)) <= Len(s)
           /\ Trim(Strip(s))
           /\ Strip(s) = <<>> <=> Ink(s) = {}
<1>1. Len(s) \in Nat /\ DOMAIN s = 1 .. Len(s)
  BY StrFacts
<1>2. CASE Ink(s) = {}
  <2>1. Strip(s) = <<>> /\ <<>> \in Str /\ Len(<<>>) = 0
    BY <1>2, StripOfBlank, EmptySeq DEF Str
  <2> QED
    BY <1>1, <1>2, <2>1 DEF Trim
<1>3. CASE Ink(s) # {}
  <2>1. PICK a, b \in Ink(s) :
              /\ \A i \in Ink(s) : a <= i /\ i <= b
              /\ Strip(s) \in Str
              /\ Len(Strip(s)) = b - a + 1
              /\ \A i \in 1 .. (b - a + 1) : Strip(s)[i] = s[a + i - 1]
    BY <1>3, StripOfInk
  <2>2. s[a] # " " /\ s[b] # " "
    BY DEF Ink
  <2>5. a \in 1 .. Len(s) /\ b \in 1 .. Len(s) /\ a <= b
    BY <1>1, <2>1 DEF Ink
  <2>6. Len(s) \in Nat /\ a \in Int /\ b \in Int /\ 1 <= a /\ b <= Len(s) /\ a <= b
    BY <1>1, <2>5
  <2>3. Strip(s)[1] = s[a] /\ Strip(s)[Len(Strip(s))] = s[b]
    <3>1. 1 \in 1 .. (b - a + 1) /\ b - a + 1 \in 1 .. (b - a + 1)
      BY <2>6
    <3>2. a + 1 - 1 = a /\ a + (b - a + 1) - 1 = b
      BY <2>6
    <3> QED
      BY <2>1, <3>1, <3>2
  <2>4. Strip(s) # <<>> /\ Len(Strip(s)) <= Len(s)
    <3>1. Len(Strip(s)) # 0 /\ Len(Strip(s)) <= Len(s)
      BY <2>1, <2>6
    <3> QED
      BY <2>1, <3>1, StrFacts
  <2> QED
    BY <1>3, <2>1, <2>2, <2>3, <2>4 DEF Trim
<1> QED
  BY <1>2, <1>3

(* Within, character by character.                                         *)
LEMMA WithinAt ==
    ASSUME NEW s \in Str, NEW t \in Str
    PROVE  Within(s, t) <=>
              \E i \in 0 .. (Len(t) - Len(s)) : \A k \in 1 .. Len(s) : t[i + k] = s[k]
<1>1. /\ Len(s) \in Nat /\ Len(t) \in Nat
      /\ \A i \in 1 .. Len(t) : t[i] \in Char
  BY StrFacts
<1>2. ASSUME NEW i \in 0 .. (Len(t) - Len(s))
      PROVE  SubSeq(t, i + 1, i + Len(s)) = s <=> \A k \in 1 .. Len(s) : t[i + k] = s[k]
  <2> DEFINE u == SubSeq(t, i + 1, i + Len(s))
  <2>1. \A j \in (i + 1) .. (i + Len(s)) : t[j] \in Char
    BY <1>1
  <2>2. /\ u \in Str
        /\ Len(u) = IF i + 1 <= i + Len(s) THEN i + Len(s) - (i + 1) + 1 ELSE 0
        /\ \A k \in 1 .. (i + Len(s) - (i + 1) + 1) : u[k] = t[i + 1 + k - 1]
    <3>1. i + 1 \in Int /\ i + Len(s) \in Int
      BY <1>1
    <3> QED
      BY <2>1, <3>1, SubSeqProperties DEF Str
  <2> HIDE DEF u
  <2>3. Len(u) = Len(s)
    BY <1>1, <2>2
  <2>4. \A k \in 1 .. Len(s) : u[k] = t[i + k]
    <3>1. \A k \in 1 .. Len(s) : i + 1 + k - 1 = i + k
      BY <1>1
    <3>2. i + Len(s) - (i + 1) + 1 = Len(s)
      BY <1>1
    <3> QED
      BY <2>2, <3>1, <3>2
  <2>5. u = s <=> \A k \in 1 .. Len(s) : u[k] = s[k]
    BY <2>2, <2>3, SeqEqual DEF Str
  <2> QED
    BY <2>4, <2>5 DEF u
<1> QED
  BY <1>2 DEF Within

LEMMA EmptyWithin ==
    ASSUME NEW t \in Str
    PROVE  <<>> \in Str /\ Within(<<>>, t)
<1>1. <<>> \in Str /\ Len(<<>>) = 0 /\ Len(t) \in Nat
  BY EmptySeq, StrFacts DEF Str
<1>2. 0 \in 0 .. (Len(t) - Len(<<>>)) /\ \A k \in 1 .. Len(<<>>) : t[0 + k] = <<>>[k]
  BY <1>1
<1> QED
  BY <1>1, <1>2, WithinAt

(* Only the blanks at the ends go: what is trim is still found.            *)
LEMMA WithinStrip ==
    ASSUME NEW w \in Str, NEW t \in Str, Trim(w), Within(w, t)
    PROVE  Within(w, Strip(t))
<1>1. /\ Len(w) \in Nat /\ Len(t) \in Nat /\ DOMAIN t = 1 .. Len(t)
  BY StrFacts
<1>2. CASE w = <<>>
  BY <1>2, EmptyWithin, StripFacts
<1>3. CASE w # <<>>
  <2>1. PICK i \in 0 .. (Len(t) - Len(w)) : \A k \in 1 .. Len(w) : t[i + k] = w[k]
    BY WithinAt
  <2>8. Len(w) # 0
    BY <1>3, StrFacts
  <2>2. Len(w) \in 1 .. Len(w) /\ 1 \in 1 .. Len(w) /\ w[1] # " " /\ w[Len(w)] # " "
    <3>2. Len(w) \in 1 .. Len(w) /\ 1 \in 1 .. Len(w)
      BY <1>1, <2>8
    <3>3. w[1] # " " /\ w[Len(w)] # " "
      BY <1>3 DEF Trim
    <3> QED
      BY <3>2, <3>3
  <2>3. i + 1 \in Ink(t) /\ i + Len(w) \in Ink(t)
    <3>1. t[i + 1] = w[1] /\ t[i + Len(w)] = w[Len(w)]
      BY <2>1, <2>2
    <3>2. i + 1 \in 1 .. Len(t) /\ i + Len(w) \in 1 .. Len(t)
      <4>1. Len(w) \in Nat /\ Len(t) \in Nat /\ 1 <= Len(w)
        BY <1>1, <2>8
      <4> QED
        BY <4>1
    <3> QED
      BY <1>1, <2>2, <3>1, <3>2 DEF Ink
  <2>4. PICK a, b \in Ink(t) :
              /\ \A j \in Ink(t) : a <= j /\ j <= b
              /\ Strip(t) \in Str
              /\ Len(Strip(t)) = b - a + 1
              /\ \A j \in 1 .. (b - a + 1) : Strip(t)[j] = t[a + j - 1]
    BY <2>3, StripOfInk
  <2>5. a \in 1 .. Len(t) /\ b \in 1 .. Len(t) /\ a <= i + 1 /\ i + Len(w) <= b
    BY <1>1, <2>3, <2>4 DEF Ink
  <2> DEFINE p == i + 1 - a
  <2>6. p \in 0 .. (Len(Strip(t)) - Len(w))
    BY <1>1, <2>4, <2>5
  <2>7. ASSUME NEW k \in 1 .. Len(w)
        PROVE  Strip(t)[p + k] = w[k]
    <3>1. p + k \in 1 .. (b - a + 1) /\ a + (p + k) - 1 = i + k
      BY <1>1, <2>5
    <3> HIDE DEF p
    <3> QED
      BY <2>1, <2>4, <3>1
  <2> QED
    BY <2>4, <2>6, <2>7, WithinAt
<1> QED
  BY <1>2, <1>3

LEMMA WithinConcat ==
    ASSUME NEW w \in Str, NEW s \in Str, NEW t \in Str
    PROVE  /\ s \o t \in Str
           /\ Within(w, s) => Within(w, s \o t)
           /\ Within(w, t) => Within(w, s \o t)
<1>1. /\ s \o t \in Str /\ Len(s \o t) = Len(s) + Len(t)
      /\ \A i \in 1 .. Len(s) + Len(t) : (s \o t)[i] =
            IF i <= Len(s) THEN s[i] ELSE t[i - Len(s)]
  BY ConcatProperties DEF Str
<1>2. Len(w) \in Nat /\ Len(s) \in Nat /\ Len(t) \in Nat
  BY StrFacts
<1>3. ASSUME Within(w, s)
      PROVE  Within(w, s \o t)
  <2>1. PICK i \in 0 .. (Len(s) - Len(w)) : \A k \in 1 .. Len(w) : s[i + k] = w[k]
    BY <1>3, WithinAt
  <2>2. \A k \in 1 .. Len(w) : (s \o t)[i + k] = w[k]
    BY <1>1, <1>2, <2>1
  <2>3. i \in 0 .. (Len(s \o t) - Len(w))
    BY <1>1, <1>2
  <2> QED
    BY <1>1, <2>2, <2>3, WithinAt
<1>4. ASSUME Within(w, t)
      PROVE  Within(w, s \o t)
  <2>1. PICK i \in 0 .. (Len(t) - Len(w)) : \A k \in 1 .. Len(w) : t[i + k] = w[k]
    BY <1>4, WithinAt
  <2> DEFINE p == Len(s) + i
  <2>2. ASSUME NEW k \in 1 .. Len(w)
        PROVE  (s \o t)[p + k] = w[k]
    <3>1. p + k \in 1 .. Len(s) + Len(t) /\ ~(p + k <= Len(s)) /\ (p + k) - Len(s) = i + k
      BY <1>2
    <3> HIDE DEF p
    <3> QED
      BY <1>1, <2>1, <3>1
  <2>3. p \in 0 .. (Len(s \o t) - Len(w))
    BY <1>1, <1>2
  <2> QED
    BY <1>1, <2>2, <2>3, WithinAt
<1> QED
  BY <1>1, <1>3, <1>4

LEMMA StripWithin ==
    ASSUME NEW s \in Str
    PROVE  Within(Strip(s), s)
<1>1. CASE Ink(s) = {}
  BY <1>1, StripOfBlank, EmptyWithin
<1>2. CASE Ink(s) # {}
  <2>1. PICK a, b \in Ink(s) :
              /\ \A i \in Ink(s) : a <= i /\ i <= b
              /\ Strip(s) \in Str
              /\ Len(Strip(s)) = b - a + 1
              /\ \A i \in 1 .. (b - a + 1) : Strip(s)[i] = s[a + i - 1]
    BY <1>2, StripOfInk
  <2>2. a \in 1 .. Len(s) /\ b \in 1 .. Len(s) /\ Len(s) \in Nat
    BY StrFacts DEF Ink
  <2>3. a - 1 \in 0 .. (Len(s) - Len(Strip(s)))
    BY <2>1, <2>2
  <2>4. \A k \in 1 .. Len(Strip(s)) : (a - 1) + k = a + k - 1
    BY <2>1, <2>2
  <2>5. \A k \in 1 .. Len(Strip(s)) : s[(a - 1) + k] = Strip(s)[k]
    BY <2>1, <2>4
  <2> QED
    BY <2>1, <2>3, <2>5, WithinAt
<1> QED
  BY <1>1, <1>2

(* A blank text holds nothing but the empty one.                           *)
LEMMA InkWithin ==
    ASSUME NEW w \in Str, NEW t \in Str, Within(w, t), Ink(w) # {}
    PROVE  Ink(t) # {} /\ t # <<>>
<1>1. PICK i \in 0 .. (Len(t) - Len(w)) : \A k \in 1 .. Len(w) : t[i + k] = w[k]
  BY WithinAt
<1>2. PICK k \in 1 .. Len(w) : w[k] # " "
  BY StrFacts DEF Ink
<1>3. /\ Len(w) \in Nat /\ Len(t) \in Nat /\ DOMAIN t = 1 .. Len(t)
      /\ t = <<>> <=> Len(t) = 0
  BY StrFacts
<1>4. i + k \in 1 .. Len(t) /\ t[i + k] # " "
  <2>1. i + k \in 1 .. Len(t)
    BY <1>3
  <2> QED
    BY <1>1, <1>2, <2>1
<1>5. i + k \in Ink(t)
  BY <1>3, <1>4 DEF Ink
<1>6. Len(t) # 0
  <2>1. Len(w) \in Nat /\ Len(t) \in Nat /\ k \in 1 .. Len(w)
    BY <1>3
  <2> QED
    BY <2>1
<1> QED
  BY <1>3, <1>5, <1>6

-----------------------------------------------------------------------------
(***************************************************************************)
(* Recursive functions: SplitAt and FlattenSeq.                            *)
(***************************************************************************)

(* The function on 0 .. N that begins with a and goes on by step.          *)
Follows(f, A, N, a, step) ==
    /\ f \in [0 .. N -> A]
    /\ f[0] = a
    /\ \A i \in 1 .. N : f[i] = step[i][f[i - 1]]

(* There always is one.                                                    *)
LEMMA Recursion ==
    ASSUME NEW A, NEW a \in A, NEW N \in Nat, NEW step \in [1 .. N -> [A -> A]]
    PROVE  \E f : Follows(f, A, N, a, step)
<1> DEFINE T == {n \in Nat : n <= N =>
                    \E f \in [0 .. n -> A] :
                        f[0] = a /\ \A i \in 1 .. n : f[i] = step[i][f[i - 1]]}
<1>1. 0 \in T
  <2> DEFINE f == [i \in 0 .. 0 |-> a]
  <2>1. f \in [0 .. 0 -> A] /\ f[0] = a /\ \A i \in 1 .. 0 : f[i] = step[i][f[i - 1]]
    OBVIOUS
  <2> QED
    BY <2>1
<1>2. ASSUME NEW n \in Nat, n \in T
      PROVE  n + 1 \in T
  <2> SUFFICES ASSUME n + 1 <= N
               PROVE  \E f \in [0 .. (n + 1) -> A] :
                         f[0] = a /\ \A i \in 1 .. (n + 1) : f[i] = step[i][f[i - 1]]
    OBVIOUS
  <2>1. PICK f \in [0 .. n -> A] :
               f[0] = a /\ \A i \in 1 .. n : f[i] = step[i][f[i - 1]]
    BY <1>2
  <2>2. n + 1 \in 1 .. N /\ n \in 0 .. n
    OBVIOUS
  <2>3. step[n + 1][f[n]] \in A
    BY <2>2
  <2> DEFINE g == [i \in 0 .. (n + 1) |-> IF i <= n THEN f[i] ELSE step[n + 1][f[n]]]
  <2>4. g \in [0 .. (n + 1) -> A]
    BY <2>3
  <2>5. g[0] = a
    BY <2>1
  <2>6. \A i \in 0 .. n : g[i] = f[i]
    OBVIOUS
  <2>7. g[n + 1] = step[n + 1][f[n]]
    OBVIOUS
  <2> HIDE DEF g
  <2>8. ASSUME NEW i \in 1 .. (n + 1)
        PROVE  g[i] = step[i][g[i - 1]]
    <3>1. CASE i = n + 1
      <4>1. i - 1 = n
        BY <3>1
      <4> QED
        BY <2>2, <2>6, <2>7, <3>1, <4>1
    <3>2. CASE i # n + 1
      <4>1. i \in 1 .. n /\ i \in 0 .. n /\ i - 1 \in 0 .. n
        BY <3>2
      <4> QED
        BY <2>1, <2>6, <4>1
    <3> QED
      BY <3>1, <3>2
  <2> QED
    BY <2>4, <2>5, <2>8
<1> HIDE DEF T
<1>3. \A n \in Nat : n \in T
  BY <1>1, <1>2, SetInduction
<1>4. N \in T /\ N <= N
  BY <1>3
<1> QED
  BY <1>4 DEF T, Follows

(* FlattenSeq puts one sequence after the other.                           *)
LEMMA FlattenSteps ==
    ASSUME NEW X, NEW ss \in Seq(Seq(X)), ss # <<>>
    PROVE  \E g \in [1 .. Len(ss) -> Seq(X)] :
              /\ g[1] = ss[1]
              /\ \A i \in 2 .. Len(ss) : g[i] = g[i - 1] \o ss[i]
              /\ FlattenSeq(ss) = g[Len(ss)]
<1>1. /\ Len(ss) \in Nat /\ Len(ss) # 0
      /\ \A i \in 1 .. Len(ss) : ss[i] \in Seq(X)
  BY EmptySeq, ElementOfSeq
<1> DEFINE L == Len(ss)
           Rec(g) == g = [i \in 1 .. L |-> IF i = 1 THEN ss[i] ELSE g[i - 1] \o ss[i]]
<1>2. PICK N \in Nat : N + 1 = Len(ss)
  <2>1. Len(ss) - 1 \in Nat /\ (Len(ss) - 1) + 1 = Len(ss)
    BY <1>1
  <2> QED
    BY <2>1
<1>3. \E g : Rec(g)
  <2> DEFINE step == [i \in 1 .. N |-> [x \in Seq(X) |-> x \o ss[i + 1]]]
  <2>1. step \in [1 .. N -> [Seq(X) -> Seq(X)]]
    <3>1. ASSUME NEW i \in 1 .. N, NEW x \in Seq(X)
          PROVE  x \o ss[i + 1] \in Seq(X)
      <4>1. i + 1 \in 1 .. Len(ss)
        BY <1>2
      <4> QED
        BY <1>1, <4>1, ConcatProperties
    <3> QED
      BY <3>1
  <2>2. \A i \in 1 .. N : \A x \in Seq(X) : step[i][x] = x \o ss[i + 1]
    OBVIOUS
  <2> HIDE DEF step
  <2>3. ss[1] \in Seq(X)
    BY <1>1
  <2>4. PICK f \in [0 .. N -> Seq(X)] :
               f[0] = ss[1] /\ \A i \in 1 .. N : f[i] = step[i][f[i - 1]]
    <3>1. \E f : Follows(f, Seq(X), N, ss[1], step)
      BY <2>1, <2>3, Recursion
    <3> QED
      BY <3>1 DEF Follows
  <2>5. \A i \in 1 .. N : f[i] = f[i - 1] \o ss[i + 1]
    <3> TAKE i \in 1 .. N
    <3>1. i - 1 \in 0 .. N
      OBVIOUS
    <3> QED
      BY <2>2, <2>4, <3>1
  <2> DEFINE g == [i \in 1 .. L |-> f[i - 1]]
  <2>6. ASSUME NEW i \in 1 .. L
        PROVE  g[i] = IF i = 1 THEN ss[i] ELSE g[i - 1] \o ss[i]
    <3>1. CASE i = 1
      BY <2>4, <3>1
    <3>2. CASE i # 1
      <4>1. i - 1 \in 1 .. N /\ i - 1 \in 1 .. L /\ (i - 1) + 1 = i
        BY <1>2, <3>2
      <4>2. g[i - 1] = f[(i - 1) - 1] /\ g[i] = f[i - 1]
        BY <4>1
      <4> HIDE DEF g
      <4>3. f[i - 1] = f[(i - 1) - 1] \o ss[i]
        BY <2>5, <4>1
      <4> QED
        BY <3>2, <4>2, <4>3
    <3> QED
      BY <3>1, <3>2
  <2>7. g = [i \in 1 .. L |-> g[i]]
    OBVIOUS
  <2>8. [i \in 1 .. L |-> g[i]] =
            [i \in 1 .. L |-> IF i = 1 THEN ss[i] ELSE g[i - 1] \o ss[i]]
    <3> HIDE DEF g, L
    <3> QED
      BY <2>6
  <2>9. Rec(g)
    BY <2>7, <2>8
  <2> QED
    BY <2>9
<1>4. PICK g : Rec(g) /\ g = CHOOSE h : Rec(h)
  BY <1>3
<1>5. FlattenSeq(ss) = (CHOOSE h : Rec(h))[L]
  BY <1>1 DEF FlattenSeq
<1>6. g[1] = ss[1]
  BY <1>1, <1>4
<1>7. \A i \in 2 .. L : g[i] = g[i - 1] \o ss[i]
  <2> TAKE i \in 2 .. L
  <2>1. i \in 1 .. L /\ i # 1
    BY <1>1
  <2> QED
    BY <1>4, <2>1
<1>8. \A i \in 1 .. L : g[i] \in Seq(X)
  <2> DEFINE T == {n \in Nat : n + 1 \in 1 .. L => g[n + 1] \in Seq(X)}
  <2>1. 0 \in T
    BY <1>1, <1>6
  <2>2. ASSUME NEW n \in Nat, n \in T
        PROVE  n + 1 \in T
    <3> SUFFICES ASSUME n + 2 \in 1 .. L
                 PROVE  g[n + 2] \in Seq(X)
      <4>1. (n + 1) + 1 = n + 2
        OBVIOUS
      <4> HIDE DEF L
      <4> QED
        BY <4>1
    <3>1. n + 1 \in 1 .. L /\ n + 2 \in 2 .. L /\ (n + 2) - 1 = n + 1
      BY <1>1
    <3>2. g[n + 1] \in Seq(X) /\ ss[n + 2] \in Seq(X)
      BY <1>1, <2>2, <3>1
    <3>3. g[n + 2] = g[n + 1] \o ss[n + 2]
      <4> HIDE DEF L, Rec, T
      <4> QED
        BY <1>7, <3>1
    <3> QED
      BY <3>2, <3>3, ConcatProperties
  <2> HIDE DEF T
  <2>3. \A n \in Nat : n \in T
    BY <2>1, <2>2, SetInduction
  <2> TAKE i \in 1 .. L
  <2>4. i - 1 \in Nat /\ (i - 1) + 1 = i
    BY <1>1
  <2>5. i - 1 \in T
    BY <2>3, <2>4
  <2> HIDE DEF L
  <2> QED
    BY <2>4, <2>5 DEF T
<1>9. g = [i \in 1 .. L |-> g[i]]
  BY <1>4
<1>10. g \in [1 .. L -> Seq(X)]
  <2> HIDE DEF Rec, L
  <2> QED
    BY <1>8, <1>9
<1> HIDE DEF Rec
<1> QED
  BY <1>4, <1>5, <1>6, <1>7, <1>10

LEMMA FlattenType ==
    ASSUME NEW X, NEW ss \in Seq(Seq(X))
    PROVE  FlattenSeq(ss) \in Seq(X)
<1>1. CASE ss = <<>>
  <2>1. Len(ss) = 0 /\ <<>> \in Seq(X)
    BY <1>1, EmptySeq
  <2> QED
    BY <1>1, <2>1 DEF FlattenSeq
<1>2. CASE ss # <<>>
  <2>1. Len(ss) \in 1 .. Len(ss)
    <3>1. Len(ss) \in Nat \ {0}
      BY <1>2, EmptySeq
    <3> QED
      BY <3>1
  <2> QED
    <3>1. PICK g \in [1 .. Len(ss) -> Seq(X)] : FlattenSeq(ss) = g[Len(ss)]
      BY <1>2, FlattenSteps, Zenon
    <3> QED
      BY <2>1, <3>1
<1> QED
  BY <1>1, <1>2

(* What SplitAt builds: strings, at least one.                             *)
Pieces == Seq(Str) \ {<<>>}

LEMMA Singleton ==
    ASSUME NEW S, NEW e \in S
    PROVE  <<e>> \in Seq(S) /\ Len(<<e>>) = 1 /\ <<e>>[1] = e /\ <<e>> # <<>>
OBVIOUS

(* The two steps of SplitAt: a new piece, or a character of the last one.  *)
LEMMA PieceFacts ==
    ASSUME NEW p \in Pieces, NEW c \in Char
    PROVE  /\ Len(p) \in Nat /\ Len(p) # 0
           /\ \A k \in 1 .. Len(p) : p[k] \in Str
           /\ Append(p, <<>>) \in Pieces
           /\ Len(Append(p, <<>>)) = Len(p) + 1
           /\ \A k \in 1 .. Len(p) : Append(p, <<>>)[k] = p[k]
           /\ Append(p, <<>>)[Len(p) + 1] = <<>>
           /\ Front(p) \o <<Append(Last(p), c)>> \in Pieces
           /\ Len(Front(p) \o <<Append(Last(p), c)>>) = Len(p)
           /\ \A k \in 1 .. Len(p) - 1 : (Front(p) \o <<Append(Last(p), c)>>)[k] = p[k]
           /\ (Front(p) \o <<Append(Last(p), c)>>)[Len(p)] = Append(p[Len(p)], c)
<1>1. p \in Seq(Str) /\ <<>> \in Str
  BY EmptySeq DEF Pieces, Str
<1>2. Len(p) \in Nat /\ Len(p) # 0 /\ \A k \in 1 .. Len(p) : p[k] \in Str
  <2>1. Len(p) \in Nat \ {0}
    BY EmptySeq DEF Pieces
  <2>2. \A k \in 1 .. Len(p) : p[k] \in Str
    BY <1>1, ElementOfSeq
  <2> QED
    BY <2>1, <2>2
<1>3. /\ Append(p, <<>>) \in Pieces
      /\ Len(Append(p, <<>>)) = Len(p) + 1
      /\ \A k \in 1 .. Len(p) : Append(p, <<>>)[k] = p[k]
      /\ Append(p, <<>>)[Len(p) + 1] = <<>>
  BY <1>1, AppendProperties DEF Pieces
<1>4. PICK last \in Str : last = Append(p[Len(p)], c)
  <2>1. p[Len(p)] \in Seq(Char)
    BY <1>2 DEF Str
  <2> QED
    BY <2>1, AppendProperties DEF Str
<1>5. PICK tail \in Seq(Str) : tail = <<last>> /\ Len(tail) = 1 /\ tail[1] = last
  BY Singleton
<1>6. PICK front \in Seq(Str) :
          /\ front = Front(p) /\ Len(front) = Len(p) - 1
          /\ \A k \in 1 .. Len(p) - 1 : front[k] = p[k]
  <2>1. \A k \in 1 .. Len(p) - 1 : p[k] \in Str
    BY <1>2
  <2>2. /\ SubSeq(p, 1, Len(p) - 1) \in Seq(Str)
        /\ Len(SubSeq(p, 1, Len(p) - 1)) =
              IF 1 <= Len(p) - 1 THEN (Len(p) - 1) - 1 + 1 ELSE 0
        /\ \A k \in 1 .. (Len(p) - 1) - 1 + 1 : SubSeq(p, 1, Len(p) - 1)[k] = p[1 + k - 1]
    <3>1. Len(p) - 1 \in Int /\ 1 \in Int
      BY <1>2
    <3> QED
      BY <2>1, <3>1, SubSeqProperties
  <2>3. Len(SubSeq(p, 1, Len(p) - 1)) = Len(p) - 1
    <3>1. \A n \in Nat : n # 0 => (IF 1 <= n - 1 THEN (n - 1) - 1 + 1 ELSE 0) = n - 1
      OBVIOUS
    <3> QED
      BY <1>2, <2>2, <3>1
  <2>4. \A k \in 1 .. Len(p) - 1 : SubSeq(p, 1, Len(p) - 1)[k] = p[k]
    <3>1. \A k \in 1 .. Len(p) - 1 : k \in 1 .. (Len(p) - 1) - 1 + 1 /\ 1 + k - 1 = k
      BY <1>2
    <3> QED
      BY <2>2, <3>1
  <2> QED
    BY <2>2, <2>3, <2>4 DEF Front
<1>7. PICK r : r = front \o tail
  OBVIOUS
<1>8. /\ r \in Seq(Str) /\ Len(r) = Len(p)
      /\ \A k \in 1 .. Len(p) - 1 : r[k] = p[k]
      /\ r[Len(p)] = last
  <2>1. /\ r \in Seq(Str) /\ Len(r) = Len(front) + Len(tail)
        /\ \A i \in 1 .. Len(front) + Len(tail) : r[i] =
                     IF i <= Len(front) THEN front[i] ELSE tail[i - Len(front)]
    BY <1>7, ConcatProperties
  <2>2. Len(front) + Len(tail) = Len(p)
    BY <1>2, <1>5, <1>6
  <2>3. \A k \in 1 .. Len(p) - 1 : k \in 1 .. Len(p) /\ k <= Len(front)
    BY <1>2, <1>6
  <2>4. Len(p) \in 1 .. Len(p) /\ ~(Len(p) <= Len(front)) /\ Len(p) - Len(front) = 1
    BY <1>2, <1>6
  <2>5. r[Len(p)] = tail[1]
    BY <2>1, <2>2, <2>4
  <2>6. \A k \in 1 .. Len(p) - 1 : r[k] = front[k]
    BY <2>1, <2>2, <2>3
  <2> QED
    BY <1>5, <1>6, <2>1, <2>2, <2>5, <2>6
<1>9. r # <<>>
  BY <1>2, <1>8, EmptySeq
<1>10. r = Front(p) \o <<Append(Last(p), c)>>
  BY <1>4, <1>5, <1>6, <1>7 DEF Last
<1> QED
  BY <1>2, <1>3, <1>4, <1>8, <1>9, <1>10 DEF Pieces

(* SplitAt goes through the characters of s.                               *)
Splits(g, s, cut) ==
    /\ g[0] = << <<>> >>
    /\ \A i \in 1 .. Len(s) : g[i - 1] \in Pieces /\ g[i] =
            IF i \in cut THEN Append(g[i - 1], <<>>)
            ELSE Front(g[i - 1]) \o <<Append(Last(g[i - 1]), s[i])>>
    /\ g[Len(s)] \in Pieces
    /\ SplitAt(s, cut) = g[Len(s)]

LEMMA SplitSteps ==
    ASSUME NEW s \in Str, NEW cut
    PROVE  \E g : Splits(g, s, cut)
<1>1. Len(s) \in Nat /\ \A i \in 1 .. Len(s) : s[i] \in Char
  BY StrFacts
<1> DEFINE L == Len(s)
           Rec(g) == g = [i \in 0 .. L |->
                            IF i = 0 THEN << <<>> >>
                            ELSE LET done == g[i - 1]
                                 IN  IF i \in cut THEN Append(done, <<>>)
                                     ELSE Front(done) \o <<Append(Last(done), s[i])>>]
<1>2. << <<>> >> \in Pieces
  <2>1. <<>> \in Str
    BY EmptySeq DEF Str
  <2> QED
    BY <2>1, Singleton DEF Pieces
<1>3. ASSUME NEW i \in 1 .. L, NEW p \in Pieces
      PROVE  /\ Append(p, <<>>) \in Pieces
             /\ Front(p) \o <<Append(Last(p), s[i])>> \in Pieces
  BY <1>1, PieceFacts
<1>4. \E g : Rec(g)
  <2> DEFINE Step(i, p) == IF i \in cut THEN Append(p, <<>>)
                           ELSE Front(p) \o <<Append(Last(p), s[i])>>
             step == [i \in 1 .. L |-> [p \in Pieces |-> Step(i, p)]]
  <2>1. \A i \in 1 .. L : \A p \in Pieces : Step(i, p) \in Pieces
    BY <1>3
  <2>2. step \in [1 .. L -> [Pieces -> Pieces]]
    <3> HIDE DEF Step, L
    <3> QED
      BY <2>1
  <2>3. \A i \in 1 .. L : \A p \in Pieces : step[i][p] = Step(i, p)
    <3> HIDE DEF Step, L
    <3> QED
      OBVIOUS
  <2> HIDE DEF step
  <2>4. PICK f : Follows(f, Pieces, L, << <<>> >>, step)
    <3>1. L \in Nat
      BY <1>1
    <3> HIDE DEF L
    <3> QED
      BY <1>2, <2>2, <3>1, Recursion
  <2>5. f[0] = << <<>> >> /\ f = [i \in 0 .. L |-> f[i]]
    BY <2>4 DEF Follows
  <2>6. \A i \in 1 .. L : f[i] = Step(i, f[i - 1])
    <3> TAKE i \in 1 .. L
    <3>1. i - 1 \in 0 .. L
      BY <1>1
    <3>2. f[i - 1] \in Pieces /\ f[i] = step[i][f[i - 1]]
      BY <2>4, <3>1 DEF Follows
    <3> HIDE DEF L, Step
    <3> QED
      BY <2>3, <3>2
  <2>7. ASSUME NEW i \in 0 .. L
        PROVE  f[i] = IF i = 0 THEN << <<>> >> ELSE Step(i, f[i - 1])
    <3>1. CASE i = 0
      BY <2>5, <3>1
    <3>2. CASE i # 0
      <4>1. i \in 1 .. L
        BY <1>1, <3>2
      <4> HIDE DEF L, Step
      <4> QED
        BY <2>6, <3>2, <4>1
    <3> QED
      BY <3>1, <3>2
  <2>8. [i \in 0 .. L |-> f[i]] =
            [i \in 0 .. L |-> IF i = 0 THEN << <<>> >> ELSE Step(i, f[i - 1])]
    <3> HIDE DEF L, Step
    <3> QED
      BY <2>7
  <2>9. Rec(f)
    BY <2>5, <2>8
  <2> QED
    BY <2>9
<1>5. PICK g : Rec(g) /\ g = CHOOSE h : Rec(h)
  BY <1>4
<1>6. SplitAt(s, cut) = (CHOOSE h : Rec(h))[L]
  BY DEF SplitAt
<1>7. g[0] = << <<>> >>
  BY <1>1, <1>5
<1>8. \A i \in 1 .. L : g[i] =
          IF i \in cut THEN Append(g[i - 1], <<>>)
          ELSE Front(g[i - 1]) \o <<Append(Last(g[i - 1]), s[i])>>
  <2> TAKE i \in 1 .. L
  <2>1. i \in 0 .. L /\ i # 0
    BY <1>1
  <2> QED
    BY <1>5, <2>1
<1> HIDE DEF Rec
<1>9. \A i \in 0 .. L : g[i] \in Pieces
  <2> DEFINE T == {n \in Nat : n <= L => g[n] \in Pieces}
  <2>1. 0 \in T
    BY <1>2, <1>7
  <2>2. ASSUME NEW n \in Nat, n \in T
        PROVE  n + 1 \in T
    <3> SUFFICES ASSUME n + 1 <= L
                 PROVE  g[n + 1] \in Pieces
      OBVIOUS
    <3>1. n + 1 \in 1 .. L /\ (n + 1) - 1 = n /\ n <= L
      BY <1>1
    <3>2. g[n] \in Pieces
      BY <2>2, <3>1
    <3>3. g[n + 1] = IF n + 1 \in cut THEN Append(g[n], <<>>)
                     ELSE Front(g[n]) \o <<Append(Last(g[n]), s[n + 1])>>
      <4> HIDE DEF L
      <4> QED
        BY <1>8, <3>1
    <3> QED
      BY <1>3, <3>1, <3>2, <3>3
  <2> HIDE DEF T
  <2>3. \A n \in Nat : n \in T
    BY <2>1, <2>2, SetInduction
  <2> TAKE i \in 0 .. L
  <2>4. i \in Nat /\ i <= L
    BY <1>1
  <2>5. i \in T
    BY <2>3, <2>4
  <2> HIDE DEF L
  <2> QED
    BY <2>4, <2>5 DEF T
<1>10. \A i \in 1 .. L : g[i - 1] \in Pieces
  <2> TAKE i \in 1 .. L
  <2>1. i - 1 \in 0 .. L
    BY <1>1
  <2> QED
    BY <1>9, <2>1
<1>11. g[L] \in Pieces
  <2>1. L \in 0 .. L
    BY <1>1
  <2> QED
    BY <1>9, <2>1
<1> QED
  BY <1>5, <1>6, <1>7, <1>8, <1>10, <1>11 DEF Splits

LEMMA SplitType ==
    ASSUME NEW s \in Str, NEW cut
    PROVE  SplitAt(s, cut) \in Pieces
BY SplitSteps DEF Splits

-----------------------------------------------------------------------------
(***************************************************************************)
(* Sentences.                                                              *)
(***************************************************************************)

LEMMA FunctionSeq ==
    ASSUME NEW S, NEW n \in Nat, NEW f \in [1 .. n -> S]
    PROVE  f \in Seq(S) /\ Len(f) = n
OBVIOUS

(* A text that ends in ink, cut only behind ink, falls into pieces that    *)
(* are empty or end in ink.                                                *)
CutBehindInk(s, cut) ==
    \A i \in 1 .. Len(s) : i \in cut => i - 1 \in 1 .. Len(s) /\ s[i - 1] # " "

LEMMA SplitEndsInk ==
    ASSUME NEW s \in Str, NEW cut, CutBehindInk(s, cut), Trim(s)
    PROVE  \A k \in 1 .. Len(SplitAt(s, cut)) :
              SplitAt(s, cut)[k] = <<>> \/ EndsInk(SplitAt(s, cut)[k])
<1>1. Len(s) \in Nat
  BY StrFacts
<1>2. PICK g : Splits(g, s, cut)
  BY SplitSteps
<1> DEFINE Done(i) == \A k \in 1 .. Len(g[i]) - 1 : g[i][k] = <<>> \/ EndsInk(g[i][k])
           Open(i) == \/ g[i][Len(g[i])] = <<>>
                      \/ /\ g[i][Len(g[i])] # <<>> /\ i \in 1 .. Len(s)
                         /\ g[i][Len(g[i])][Len(g[i][Len(g[i])])] = s[i]
           T == {n \in Nat : n <= Len(s) => Done(n) /\ Open(n)}
<1>3. 0 \in T
  <2>1. Len(g[0]) = 1 /\ g[0][1] = <<>>
    BY <1>2 DEF Splits
  <2>2. Done(0) /\ Open(0)
    BY <2>1
  <2> QED
    BY <2>2
<1>4. ASSUME NEW n \in Nat, n \in T
      PROVE  n + 1 \in T
  <2> SUFFICES ASSUME n + 1 <= Len(s)
               PROVE  Done(n + 1) /\ Open(n + 1)
    OBVIOUS
  <2>1. n + 1 \in 1 .. Len(s) /\ (n + 1) - 1 = n /\ n <= Len(s)
    BY <1>1
  <2>2. PICK p : p = g[n]
    OBVIOUS
  <2>3. PICK q : q = g[n + 1]
    OBVIOUS
  <2>4. PICK c \in Char : c = s[n + 1]
    BY <2>1, StrFacts
  <2>5. p \in Pieces /\ q = IF n + 1 \in cut THEN Append(p, <<>>)
                            ELSE Front(p) \o <<Append(Last(p), c)>>
    BY <1>2, <2>1, <2>2, <2>3, <2>4 DEF Splits
  <2>6. Done(n) /\ Open(n)
    BY <1>4, <2>1
  <2>7. /\ \A k \in 1 .. Len(p) - 1 : p[k] = <<>> \/ EndsInk(p[k])
        /\ \/ p[Len(p)] = <<>>
           \/ /\ p[Len(p)] # <<>> /\ n \in 1 .. Len(s)
              /\ p[Len(p)][Len(p[Len(p)])] = s[n]
    BY <2>2, <2>6
  <2>8. SUFFICES /\ \A k \in 1 .. Len(q) - 1 : q[k] = <<>> \/ EndsInk(q[k])
                 /\ \/ q[Len(q)] = <<>>
                    \/ /\ q[Len(q)] # <<>> /\ q[Len(q)][Len(q[Len(q)])] = s[n + 1]
    BY <2>1, <2>3
  <2> HIDE DEF Done, Open, T
  <2>9. CASE n + 1 \in cut
    <3>1. /\ Len(p) \in Nat /\ Len(p) # 0 /\ Len(q) = Len(p) + 1
          /\ \A k \in 1 .. Len(p) : q[k] = p[k]
          /\ q[Len(p) + 1] = <<>>
      BY <2>5, <2>9, PieceFacts
    <3>2. n \in 1 .. Len(s) /\ s[n] # " "
      BY <2>1, <2>9 DEF CutBehindInk
    <3>3. p[Len(p)] = <<>> \/ EndsInk(p[Len(p)])
      BY <2>7, <3>2 DEF EndsInk
    <3>4. ASSUME NEW k \in 1 .. Len(q) - 1
          PROVE  q[k] = <<>> \/ EndsInk(q[k])
      <4>1. k \in 1 .. Len(p) /\ (k # Len(p) => k \in 1 .. Len(p) - 1)
        <5>1. Len(p) \in Nat /\ k \in 1 .. Len(p)
          BY <3>1
        <5> QED
          BY <5>1
      <4> QED
        BY <2>7, <3>1, <3>3, <4>1
    <3> QED
      BY <3>1, <3>4
  <2>10. CASE n + 1 \notin cut
    <3>1. /\ Len(p) \in Nat /\ Len(p) # 0 /\ Len(q) = Len(p)
          /\ \A k \in 1 .. Len(p) : p[k] \in Str
          /\ \A k \in 1 .. Len(p) - 1 : q[k] = p[k]
          /\ q[Len(p)] = Append(p[Len(p)], c)
      BY <2>5, <2>10, PieceFacts
    <3>2. \A k \in 1 .. Len(q) - 1 : q[k] = <<>> \/ EndsInk(q[k])
      BY <2>7, <3>1
    <3>3. PICK w \in Seq(Char) : w = p[Len(p)]
      <4>1. Len(p) \in 1 .. Len(p)
        BY <3>1
      <4> QED
        BY <3>1, <4>1 DEF Str
    <3>4. /\ Append(w, c) # <<>> /\ Len(Append(w, c)) = Len(w) + 1
          /\ Append(w, c)[Len(w) + 1] = c
      BY AppendProperties
    <3>5. q[Len(q)] = Append(w, c)
      BY <3>1, <3>3
    <3> QED
      BY <2>4, <3>2, <3>4, <3>5
  <2> QED
    BY <2>9, <2>10
<1> HIDE DEF T
<1>5. \A n \in Nat : n \in T
  BY <1>3, <1>4, SetInduction
<1>6. Done(Len(s)) /\ Open(Len(s))
  <2>1. Len(s) \in T /\ Len(s) <= Len(s)
    BY <1>1, <1>5
  <2> HIDE DEF Done, Open
  <2> QED
    BY <2>1 DEF T
<1>7. PICK p \in Pieces : p = SplitAt(s, cut) /\ p = g[Len(s)]
  BY <1>2 DEF Splits
<1>8. /\ \A k \in 1 .. Len(p) - 1 : p[k] = <<>> \/ EndsInk(p[k])
      /\ \/ p[Len(p)] = <<>>
         \/ /\ p[Len(p)] # <<>> /\ Len(s) \in 1 .. Len(s)
            /\ p[Len(p)][Len(p[Len(p)])] = s[Len(s)]
  BY <1>6, <1>7
<1>9. Len(p) \in Nat
  <2>1. " " \in Char
    BY DEF Char
  <2> QED
    BY <2>1, PieceFacts
<1>10. Len(s) \in 1 .. Len(s) => s[Len(s)] # " "
  <2>1. Len(s) \in 1 .. Len(s) => Len(s) # 0
    BY <1>1
  <2> QED
    BY <2>1, StrFacts DEF Trim
<1>11. p[Len(p)] = <<>> \/ EndsInk(p[Len(p)])
  BY <1>8, <1>10 DEF EndsInk
<1>12. ASSUME NEW k \in 1 .. Len(p)
       PROVE  p[k] = <<>> \/ EndsInk(p[k])
  <2>1. k # Len(p) => k \in 1 .. Len(p) - 1
    BY <1>9
  <2> QED
    BY <1>8, <1>11, <2>1
<1> QED
  BY <1>7, <1>12

LEMMA SentencesEndInk ==
    ASSUME NEW s \in Str, Trim(s)
    PROVE  /\ Sentences(s) \in Seq(Str)
           /\ \A k \in 1 .. Len(Sentences(s)) :
                 Sentences(s)[k] = <<>> \/ EndsInk(Sentences(s)[k])
<1>1. Len(s) \in Nat
  BY StrFacts
<1>2. PICK cut : cut = {i \in 2 .. Len(s) : s[i] = " " /\ s[i - 1] = "."}
  OBVIOUS
<1>3. Sentences(s) = SplitAt(s, cut)
  BY <1>2 DEF Sentences
<1>4. \A i \in 1 .. Len(s) : i \in cut => i - 1 \in 1 .. Len(s) /\ s[i - 1] # " "
  <2> TAKE i \in 1 .. Len(s)
  <2> HAVE i \in cut
  <2>1. i \in 2 .. Len(s) /\ s[i - 1] = "."
    BY <1>2
  <2>2. i - 1 \in 1 .. Len(s)
    BY <1>1, <2>1
  <2> QED
    BY <2>1, <2>2
<1>6. \A k \in 1 .. Len(SplitAt(s, cut)) :
          SplitAt(s, cut)[k] = <<>> \/ EndsInk(SplitAt(s, cut)[k])
  BY <1>4, SplitEndsInk DEF CutBehindInk
<1>7. SplitAt(s, cut) \in Seq(Str)
  BY SplitType DEF Pieces
<1> QED
  BY <1>3, <1>6, <1>7

LEMMA DeglueType ==
    ASSUME NEW s \in Str
    PROVE  Deglue(s) \in Str
<1>1. PICK glued : glued = {i \in 2 .. Len(s) : s[i] = "x" /\ s[i - 1] = "."}
  OBVIOUS
<1>2. PICK ss : ss = [i \in DOMAIN s |-> IF i \in glued THEN <<" ", s[i]>> ELSE <<s[i]>>]
  OBVIOUS
<1>3. Len(s) \in Nat /\ DOMAIN s = 1 .. Len(s) /\ \A i \in 1 .. Len(s) : s[i] \in Char
  BY StrFacts
<1>4. ASSUME NEW c \in Char
      PROVE  <<" ", c>> \in Seq(Char) /\ <<c>> \in Seq(Char)
  <2>1. PICK blank \in Char : blank = " "
    BY DEF Char
  <2>2. <<blank, c>> \in Seq(Char) /\ <<c>> \in Seq(Char)
    OBVIOUS
  <2> QED
    BY <2>1, <2>2
<1>5. ss \in [1 .. Len(s) -> Seq(Char)]
  BY <1>2, <1>3, <1>4
<1>6. ss \in Seq(Seq(Char))
  BY <1>3, <1>5, FunctionSeq
<1>7. FlattenSeq(ss) \in Seq(Char)
  BY <1>6, FlattenType
<1> QED
  BY <1>1, <1>2, <1>7 DEF Deglue, Str

LEMMA NormalizeFacts ==
    ASSUME NEW s \in Str
    PROVE  Normalize(s) \in Str /\ Trim(Normalize(s))
<1>1. PICK spare : spare = {i \in 2 .. Len(s) : s[i] = " " /\ s[i - 1] = " "}
  OBVIOUS
<1>2. PICK ss : ss = [i \in DOMAIN s |-> IF i \in spare THEN <<>> ELSE <<s[i]>>]
  OBVIOUS
<1>3. Len(s) \in Nat /\ DOMAIN s = 1 .. Len(s) /\ \A i \in 1 .. Len(s) : s[i] \in Char
  BY StrFacts
<1>4. ASSUME NEW c \in Char
      PROVE  <<>> \in Seq(Char) /\ <<c>> \in Seq(Char)
  OBVIOUS
<1>5. ss \in [1 .. Len(s) -> Seq(Char)]
  BY <1>2, <1>3, <1>4
<1>6. ss \in Seq(Seq(Char))
  BY <1>3, <1>5, FunctionSeq
<1>7. FlattenSeq(ss) \in Str
  BY <1>6, FlattenType DEF Str
<1>8. Normalize(s) = Strip(FlattenSeq(ss))
  BY <1>1, <1>2 DEF Normalize
<1> QED
  BY <1>7, <1>8, StripFacts

(* What can become a unit: a string whose last character is ink.           *)
Inked == {s \in Str : EndsInk(s)}

LEMMA NotEmptyType ==
    ASSUME NEW ss \in Seq(Str), \A k \in 1 .. Len(ss) : ss[k] = <<>> \/ EndsInk(ss[k])
    PROVE  NotEmpty(ss) \in Seq(Inked)
<1>1. PICK zs : zs = [k \in DOMAIN ss |-> IF ss[k] = <<>> THEN <<>> ELSE <<ss[k]>>]
  OBVIOUS
<1>2. Len(ss) \in Nat /\ DOMAIN ss = 1 .. Len(ss) /\ \A i \in 1 .. Len(ss) : ss[i] \in Str
  BY ElementOfSeq
<1>3. \A k \in 1 .. Len(ss) : ss[k] # <<>> => ss[k] \in Inked
  BY <1>2 DEF Inked
<1>4. ASSUME NEW c \in Inked
      PROVE  <<c>> \in Seq(Inked)
  OBVIOUS
<1>5. <<>> \in Seq(Inked)
  OBVIOUS
<1>6. zs \in [1 .. Len(ss) -> Seq(Inked)]
  BY <1>1, <1>2, <1>3, <1>4, <1>5
<1>7. zs \in Seq(Seq(Inked))
  BY <1>2, <1>6, FunctionSeq
<1> QED
  BY <1>1, <1>7, FlattenType DEF NotEmpty

(* Every sentence of a text ends in ink, however the text is broken into   *)
(* lines and spaced.                                                       *)
LEMMA AllSentencesInked ==
    ASSUME NEW s \in Str
    PROVE  AllSentences(s) \in Seq(Inked)
<1>1. PICK lines : lines = Lines(s)
  OBVIOUS
<1>2. lines \in Seq(Str)
  BY <1>1, SplitType DEF Lines, Pieces
<1>3. Len(lines) \in Nat /\ DOMAIN lines = 1 .. Len(lines)
      /\ \A k \in 1 .. Len(lines) : lines[k] \in Str
  BY <1>2, ElementOfSeq
<1>4. ASSUME NEW line \in Str
      PROVE  NotEmpty(Sentences(Normalize(Deglue(line)))) \in Seq(Inked)
  BY DeglueType, NormalizeFacts, SentencesEndInk, NotEmptyType
<1>5. PICK zs : zs = [k \in DOMAIN lines |->
                        NotEmpty(Sentences(Normalize(Deglue(lines[k]))))]
  OBVIOUS
<1>6. zs \in [1 .. Len(lines) -> Seq(Inked)]
  BY <1>3, <1>4, <1>5
<1>7. zs \in Seq(Seq(Inked))
  BY <1>3, <1>6, FunctionSeq
<1> QED
  BY <1>1, <1>5, <1>7, FlattenType DEF AllSentences

-----------------------------------------------------------------------------
(***************************************************************************)
(* The inductive invariant of the two loops.                               *)
(***************************************************************************)

(* _hard_split is inside the sentence it cuts, and every sentence still to *)
(* take ends in ink.                                                       *)
SplitOK ==
    /\ sentences \in Seq(Inked)
    /\ phase \notin {"check", "refused"} => overlap < chunk_size
    /\ phase # "split" => start = 0
    /\ start # 0 => /\ sentences # <<>>
                    /\ Len(Head(sentences)) > chunk_size
                    /\ start < Len(Head(sentences))

(* Units fit, and the last one is blank only inside _hard_split.           *)
UnitsOK ==
    /\ \A k \in 1 .. Len(units) : Len(units[k]) <= chunk_size
    /\ start = 0 /\ units # <<>> => EndsInk(units[Len(units)])

(* What chunk_text holds fits.                                             *)
MergeOK ==
    /\ phase \notin {"merge", "done"} => merged = 0
    /\ phase = "done" => merged = Len(units)
    /\ merged = 0 => current = <<>> /\ chunks = <<>>
    /\ Len(place) = merged
    /\ Len(current) <= chunk_size
    /\ \A k \in 1 .. Len(chunks) : Len(chunks[k]) <= chunk_size /\ Ink(chunks[k]) # {}

(* The k-th chunk, the last one being current until it is added.           *)
ChunkAt(k) == IF k <= Len(chunks) THEN chunks[k] ELSE current

(* The units taken are found where place says, the last one in current.    *)
KeptOK ==
    /\ \A i \in 1 .. merged : /\ place[i] \in 1 .. Len(chunks) + 1
                              /\ Within(Strip(units[i]), ChunkAt(place[i]))
    /\ phase # "done" /\ merged # 0 => place[merged] = Len(chunks) + 1
    /\ phase = "done" => \A i \in 1 .. merged : place[i] <= Len(chunks)

IInv == TypeOK /\ SplitOK /\ UnitsOK /\ MergeOK /\ KeptOK

-----------------------------------------------------------------------------
(***************************************************************************)
(* What one turn of the loops computes.                                    *)
(***************************************************************************)

LEMMA MinPair ==
    ASSUME NEW a \in Nat, NEW b \in Nat
    PROVE  Min({a, b}) = IF a <= b THEN a ELSE b
<1>1. {a, b} \in SUBSET Nat /\ {a, b} # {}
  OBVIOUS
<1>2. Min({a, b}) \in {a, b} /\ \A m \in {a, b} : Min({a, b}) <= m
  BY <1>1, MinFacts
<1> QED
  BY <1>2

LEMMA MaxPair ==
    ASSUME NEW a \in Int, NEW b \in Int
    PROVE  Max({a, b}) = IF a <= b THEN b ELSE a
BY DEF Max

LEMMA EndsInkHasInk ==
    ASSUME NEW s \in Str, EndsInk(s)
    PROVE  Ink(s) # {} /\ Ink(Strip(s)) # {}
<1>1. Len(s) \in 1 .. Len(s) /\ DOMAIN s = 1 .. Len(s)
  <2>1. Len(s) \in Nat /\ DOMAIN s = 1 .. Len(s)
    BY StrFacts
  <2>2. Len(s) # 0
    BY StrFacts DEF EndsInk
  <2> QED
    BY <2>1, <2>2
<1>2. Len(s) \in Ink(s)
  BY <1>1 DEF Ink, EndsInk
<1>3. Strip(s) \in Str /\ Strip(s) # <<>> /\ Trim(Strip(s))
  BY <1>2, StripFacts
<1>4. Len(Strip(s)) \in 1 .. Len(Strip(s)) /\ DOMAIN Strip(s) = 1 .. Len(Strip(s))
  <2>1. Len(Strip(s)) \in Nat /\ DOMAIN Strip(s) = 1 .. Len(Strip(s))
    BY <1>3, StrFacts
  <2>2. Len(Strip(s)) # 0
    BY <1>3, StrFacts
  <2> QED
    BY <2>1, <2>2
<1>5. Strip(s)[Len(Strip(s))] # " "
  BY <1>3 DEF Trim
<1>6. Len(Strip(s)) \in Ink(Strip(s))
  BY <1>4, <1>5 DEF Ink
<1> QED
  BY <1>2, <1>6

LEMMA BlankType == <<" ">> \in Str /\ Len(<<" ">>) = 1
<1>1. PICK blank \in Char : blank = " "
  BY DEF Char
<1>2. <<blank>> \in Seq(Char) /\ Len(<<blank>>) = 1
  OBVIOUS
<1> QED
  BY <1>1, <1>2 DEF Str

(* Blanks before a text are stripped with its own.                         *)
LEMMA StripBehindBlanks ==
    ASSUME NEW s \in Str, NEW t \in Str, Ink(s) = {}
    PROVE  Len(Strip(s \o t)) <= Len(t)
<1>1. /\ s \o t \in Str /\ Len(s \o t) = Len(s) + Len(t)
      /\ \A i \in 1 .. Len(s) + Len(t) : (s \o t)[i] =
            IF i <= Len(s) THEN s[i] ELSE t[i - Len(s)]
  BY ConcatProperties DEF Str
<1>2. Len(s) \in Nat /\ Len(t) \in Nat /\ DOMAIN s = 1 .. Len(s)
  BY StrFacts
<1>3. DOMAIN (s \o t) = 1 .. Len(s) + Len(t)
  BY <1>1, StrFacts
<1>4. \A i \in Ink(s \o t) : i \in 1 .. Len(s) + Len(t) /\ ~(i <= Len(s))
  <2> TAKE i \in Ink(s \o t)
  <2>1. i \in 1 .. Len(s) + Len(t)
    BY <1>3 DEF Ink
  <2>3. (s \o t)[i] # " "
    BY DEF Ink
  <2>2. ASSUME i <= Len(s)
        PROVE  FALSE
    <3>1. i \in 1 .. Len(s)
      BY <1>2, <2>1, <2>2
    <3>2. s[i] # " "
      BY <1>1, <2>1, <2>2, <2>3
    <3> QED
      BY <1>2, <3>1, <3>2 DEF Ink
  <2> QED
    BY <2>1, <2>2
<1>5. CASE Ink(s \o t) = {}
  <2>1. Strip(s \o t) = <<>> /\ Len(<<>>) = 0
    BY <1>5, StripOfBlank
  <2> QED
    BY <1>2, <2>1
<1>6. CASE Ink(s \o t) # {}
  <2>1. PICK a, b \in Ink(s \o t) : Len(Strip(s \o t)) = b - a + 1
    BY <1>1, <1>6, StripOfInk
  <2>2. a \in 1 .. Len(s) + Len(t) /\ b \in 1 .. Len(s) + Len(t) /\ ~(a <= Len(s))
    BY <1>4
  <2> QED
    BY <1>2, <2>1, <2>2
<1> QED
  BY <1>5, <1>6

(* f"{current} {unit}".strip()                                             *)
Joined(c, u) == Strip(c \o <<" ">> \o u)

LEMMA JoinedFacts ==
    ASSUME NEW c \in Str, NEW u \in Str
    PROVE  /\ Joined(c, u) \in Str
           /\ \A w \in Str : Trim(w) /\ Within(w, c) => Within(w, Joined(c, u))
           /\ Within(Strip(u), Joined(c, u))
           /\ Ink(c) = {} => Len(Joined(c, u)) <= Len(u)
<1>1. PICK cb \in Str : cb = c \o <<" ">>
  BY BlankType, WithinConcat
<1>2. PICK j \in Str : j = cb \o u
  BY WithinConcat
<1>3. Joined(c, u) = Strip(j)
  BY <1>1, <1>2 DEF Joined
<1>4. \A w \in Str : Trim(w) /\ Within(w, c) => Within(w, Strip(j))
  <2> TAKE w \in Str
  <2> HAVE Trim(w) /\ Within(w, c)
  <2>1. Within(w, cb)
    BY <1>1, BlankType, WithinConcat
  <2>2. Within(w, j)
    BY <1>2, <2>1, WithinConcat
  <2> QED
    BY <2>2, WithinStrip
<1>5. Within(Strip(u), Strip(j))
  <2>1. Strip(u) \in Str /\ Trim(Strip(u)) /\ Within(Strip(u), u)
    BY StripFacts, StripWithin
  <2>2. Within(Strip(u), j)
    BY <1>2, <2>1, WithinConcat
  <2> QED
    BY <2>1, <2>2, WithinStrip
<1>6. ASSUME Ink(c) = {}
      PROVE  Len(Strip(j)) <= Len(u)
  <2>1. Ink(cb) = {}
    <3>1. /\ Len(cb) = Len(c) + 1
          /\ \A i \in 1 .. Len(c) + 1 : cb[i] = IF i <= Len(c) THEN c[i] ELSE <<" ">>[i - Len(c)]
      BY <1>1, BlankType, ConcatProperties DEF Str
    <3>2. Len(c) \in Nat /\ DOMAIN c = 1 .. Len(c) /\ DOMAIN cb = 1 .. Len(cb)
      BY StrFacts
    <3>3. \A i \in 1 .. Len(c) : c[i] = " "
      BY <1>6, <3>2 DEF Ink
    <3>4. \A i \in 1 .. Len(c) + 1 : (i <= Len(c) => i \in 1 .. Len(c))
                                  /\ (~(i <= Len(c)) => i - Len(c) = 1)
      BY <3>2
    <3>5. \A i \in 1 .. Len(c) + 1 : cb[i] = " "
      <4> TAKE i \in 1 .. Len(c) + 1
      <4>1. CASE i <= Len(c)
        BY <3>1, <3>3, <3>4, <4>1
      <4>2. CASE ~(i <= Len(c))
        <5>1. cb[i] = <<" ">>[1]
          BY <3>1, <3>4, <4>2
        <5> QED
          BY <5>1
      <4> QED
        BY <4>1, <4>2
    <3> QED
      BY <3>1, <3>2, <3>5 DEF Ink
  <2> QED
    BY <1>2, <2>1, StripBehindBlanks
<1> QED
  BY <1>3, <1>4, <1>5, <1>6, StripFacts

LEMMA CandidateFacts ==
    ASSUME TypeOK, merged < Len(units)
    PROVE  /\ Unit \in Str /\ merged + 1 \in 1 .. Len(units)
           /\ Candidate \in Str
           /\ \A w \in Str : Trim(w) /\ Within(w, current) => Within(w, Candidate)
           /\ Within(Strip(Unit), Candidate)
           /\ Ink(current) = {} => Len(Candidate) <= Len(Unit)
<1>1. current \in Str /\ units \in Seq(Str) /\ merged \in Nat /\ Len(units) \in Nat
  BY DEF TypeOK, Str
<1>2. merged + 1 \in 1 .. Len(units)
  BY <1>1
<1>3. Unit \in Str /\ Len(Unit) \in Nat
  <2>1. Unit \in Str
    BY <1>1, <1>2, ElementOfSeq DEF Unit
  <2> QED
    BY <2>1, StrFacts
<1>4. CASE current = <<>>
  <2>1. Candidate = Unit
    BY <1>4 DEF Candidate
  <2>2. \A w \in Str : Within(w, current) => w = <<>>
    <3> TAKE w \in Str
    <3> HAVE Within(w, current)
    <3>1. Len(current) = 0 /\ Len(w) \in Nat
      BY <1>4, StrFacts
    <3>2. PICK i \in 0 .. (Len(current) - Len(w)) : TRUE
      BY <1>1, WithinAt
    <3>3. Len(w) = 0
      BY <3>1, <3>2
    <3> QED
      BY <3>3, StrFacts
  <2>3. \A w \in Str : Trim(w) /\ Within(w, current) => Within(w, Candidate)
    BY <1>3, <2>1, <2>2, EmptyWithin
  <2> QED
    BY <1>2, <1>3, <2>1, <2>3, StripWithin
<1>5. CASE current # <<>>
  <2>1. Candidate = Joined(current, Unit)
    BY <1>5 DEF Candidate, Joined
  <2> QED
    BY <1>1, <1>2, <1>3, <2>1, JoinedFacts
<1> QED
  BY <1>4, <1>5

LEMMA NextCurrentFacts ==
    ASSUME TypeOK, merged < Len(units), Len(Unit) <= chunk_size
    PROVE  /\ NextCurrent \in Str
           /\ Len(NextCurrent) <= chunk_size
           /\ Within(Strip(Unit), NextCurrent)
<1>1. current \in Str /\ overlap \in Nat /\ chunk_size \in Nat
  BY ChunkingAssumption DEF TypeOK, Str
<1>2. Unit \in Str /\ Within(Strip(Unit), Unit)
  BY CandidateFacts, StripWithin
<1>3. PICK tail : tail = SubSeq(current, Max({1, Len(current) - overlap + 1}), Len(current))
  OBVIOUS
<1>4. tail \in Str
  <2>0. Len(current) \in Nat
    BY <1>1, StrFacts
  <2>1. \A i \in 1 .. Len(current) : current[i] \in Char
    BY <1>1, StrFacts
  <2>2. PICK m \in Int : m = Max({1, Len(current) - overlap + 1}) /\ 1 <= m
    <3>1. Len(current) - overlap + 1 \in Int
      BY <1>1, <2>0
    <3> QED
      BY <3>1, MaxPair
  <2>3. \A i \in m .. Len(current) : i \in 1 .. Len(current)
    BY <2>0, <2>2
  <2>4. \A i \in m .. Len(current) : current[i] \in Char
    BY <2>1, <2>3
  <2> QED
    <3>1. SubSeq(current, m, Len(current)) \in Seq(Char)
      <4>1. Len(current) \in Int
        BY <2>0
      <4> QED
        BY <2>4, <4>1, SubSeqProperties
    <3> QED
      BY <1>3, <2>2, <3>1 DEF Str
<1>5. Carried = IF tail = <<>> THEN Unit ELSE Joined(tail, Unit)
  BY <1>3 DEF Carried, Joined
<1>6. Carried \in Str /\ Within(Strip(Unit), Carried)
  BY <1>2, <1>4, <1>5, JoinedFacts
<1>7. Len(Carried) \in Nat
  BY <1>6, StrFacts
<1> QED
  BY <1>1, <1>2, <1>6, <1>7 DEF NextCurrent

(* A piece of _hard_split.                                                 *)
LEMMA PieceOfSentence ==
    ASSUME NEW h \in Inked, NEW from \in Nat, NEW end \in Nat,
           from < end, end <= Len(h)
    PROVE  /\ SubSeq(h, from + 1, end) \in Str
           /\ Len(SubSeq(h, from + 1, end)) = end - from
           /\ end = Len(h) => EndsInk(SubSeq(h, from + 1, end))
<1>1. h \in Str /\ EndsInk(h)
  BY DEF Inked
<1>2. Len(h) \in Nat /\ \A i \in 1 .. Len(h) : h[i] \in Char
  BY <1>1, StrFacts
<1>3. PICK u : u = SubSeq(h, from + 1, end)
  OBVIOUS
<1>4. \A i \in (from + 1) .. end : h[i] \in Char
  BY <1>2
<1>5. /\ u \in Str /\ Len(u) = (IF from + 1 <= end THEN end - (from + 1) + 1 ELSE 0)
      /\ \A i \in 1 .. end - (from + 1) + 1 : u[i] = h[from + 1 + i - 1]
  <2>1. from + 1 \in Int /\ end \in Int
    OBVIOUS
  <2> QED
    BY <1>3, <1>4, <2>1, SubSeqProperties DEF Str
<1>6. Len(u) = end - from
  BY <1>5
<1>7. ASSUME end = Len(h)
      PROVE  EndsInk(u)
  <2>1. Len(u) \in 1 .. end - (from + 1) + 1 /\ from + 1 + Len(u) - 1 = end
    BY <1>6
  <2>2. u[Len(u)] = h[Len(h)]
    BY <1>5, <1>7, <2>1
  <2>3. u # <<>>
    <3>1. Len(u) # 0
      BY <1>6
    <3> QED
      BY <1>5, <3>1, StrFacts
  <2> QED
    BY <1>1, <2>2, <2>3 DEF EndsInk
<1> QED
  BY <1>3, <1>5, <1>6, <1>7

-----------------------------------------------------------------------------
(***************************************************************************)
(* Invariance.                                                             *)
(***************************************************************************)

LEMMA TypeFacts ==
    ASSUME TypeOK
    PROVE  /\ chunk_size \in Nat /\ chunk_size # 0 /\ overlap \in Nat
           /\ start \in Nat /\ merged \in Nat /\ merged <= Len(units)
           /\ text \in Str /\ units \in Seq(Str) /\ Len(units) \in Nat
           /\ current \in Str /\ Len(current) \in Nat
           /\ chunks \in Seq(Str) /\ Len(chunks) \in Nat
           /\ place \in Seq(Nat) /\ Len(place) \in Nat
<1>1. /\ start \in Nat /\ text \in Str /\ units \in Seq(Str) /\ merged \in 0 .. Len(units)
      /\ current \in Str /\ chunks \in Seq(Str) /\ place \in Seq(Nat)
  BY DEF TypeOK, Str
<1>2. chunk_size \in Nat /\ chunk_size # 0 /\ overlap \in Nat
  BY ChunkingAssumption DEF TypeOK
<1>3. /\ Len(units) \in Nat /\ Len(current) \in Nat /\ Len(chunks) \in Nat
      /\ Len(place) \in Nat
  BY <1>1, StrFacts, LenProperties
<1> QED
  BY <1>1, <1>2, <1>3

LEMMA InkedInStr == Seq(Inked) \subseteq Seq(Str)
BY DEF Inked

LEMMA InitOK == Init => IInv
<1> SUFFICES ASSUME Init
             PROVE  IInv
  OBVIOUS
<1>1. text \in Str /\ sentences = AllSentences(text)
  BY ChunkingAssumption DEF Init, Str
<1>2. sentences \in Seq(Inked) /\ sentences \in Seq(Str)
  BY <1>1, AllSentencesInked, InkedInStr
<1>3. <<chunk_size, overlap>> \in Settings /\ chunk_size \in Nat
  <2>1. PICK p \in Settings : chunk_size = p[1] /\ overlap = p[2]
    BY DEF Init
  <2>2. p \in (Nat \ {0}) \X Nat
    BY ChunkingAssumption
  <2> QED
    BY <2>1, <2>2
<1>4. /\ phase = "check" /\ start = 0 /\ units = <<>>
      /\ merged = 0 /\ current = <<>> /\ chunks = <<>> /\ place = <<>>
  BY DEF Init
<1>5. Len(units) = 0 /\ Len(current) = 0 /\ Len(chunks) = 0 /\ Len(place) = 0
  BY <1>4
<1>6. TypeOK
  <2>1. units \in Seq(Seq(Char)) /\ current \in Seq(Char) /\ chunks \in Seq(Seq(Char))
        /\ place \in Seq(Nat)
    BY <1>4
  <2>2. merged \in 0 .. Len(units) /\ start \in Nat
    BY <1>4, <1>5
  <2> QED
    BY <1>1, <1>2, <1>3, <1>4, <2>1, <2>2 DEF TypeOK, Phases, Str
<1>7. SplitOK
  BY <1>2, <1>4 DEF SplitOK
<1>8. UnitsOK
  BY <1>4, <1>5 DEF UnitsOK
<1>9. MergeOK
  BY <1>3, <1>4, <1>5 DEF MergeOK
<1>10. KeptOK
  BY <1>4 DEF KeptOK
<1> QED
  BY <1>6, <1>7, <1>8, <1>9, <1>10 DEF IInv

(* A turn that adds a unit leaves what is merged alone: nothing is merged  *)
(* yet.                                                                    *)
LEMMA UnitAdded ==
    ASSUME IInv, phase = "split", NEW u \in Str, units' = Append(units, u),
           Len(u) <= chunk_size, start' = 0 => EndsInk(u),
           UNCHANGED <<text, chunk_size, overlap, phase, merged, current, chunks, place>>
    PROVE  units' \in Seq(Str) /\ merged' \in 0 .. Len(units') /\ UnitsOK' /\ MergeOK' /\ KeptOK'
<1> USE DEF IInv
<1>1. /\ units' \in Seq(Str) /\ Len(units') = Len(units) + 1
      /\ \A k \in 1 .. Len(units) : units'[k] = units[k]
      /\ units'[Len(units) + 1] = u
  BY TypeFacts, AppendProperties
<1>2. Len(units) \in Nat /\ merged = 0
  BY TypeFacts DEF MergeOK
<1>3. \A k \in 1 .. Len(units') : Len(units'[k]) <= chunk_size'
  <2> TAKE k \in 1 .. Len(units')
  <2>1. k # Len(units) + 1 => k \in 1 .. Len(units)
    BY <1>1, <1>2
  <2> QED
    BY <1>1, <2>1 DEF UnitsOK
<1>4. UnitsOK'
  BY <1>1, <1>3 DEF UnitsOK
<1>5. merged' = 0 /\ merged' \in 0 .. Len(units') /\ phase' = "split"
  BY <1>1, <1>2
<1>6. MergeOK'
  BY <1>5 DEF MergeOK
<1>7. KeptOK'
  BY <1>5 DEF KeptOK
<1> QED
  BY <1>1, <1>4, <1>5, <1>6, <1>7

LEMMA TakeSentenceKeeps == IInv /\ TakeSentence => IInv'
<1> SUFFICES ASSUME IInv, TakeSentence
             PROVE  IInv'
  OBVIOUS
<1>1. PICK h : h = Head(sentences)
  OBVIOUS
<1>2. /\ phase = "split" /\ sentences # <<>> /\ Len(h) <= chunk_size
      /\ units' = Append(units, h) /\ sentences' = Tail(sentences)
      /\ UNCHANGED <<text, chunk_size, overlap, phase, start, merged, current, chunks, place>>
  BY <1>1 DEF TakeSentence
<1>3. h \in Inked /\ sentences' \in Seq(Inked)
  BY <1>1, <1>2, HeadTailProperties DEF IInv, SplitOK
<1>4. h \in Str /\ EndsInk(h) /\ Len(h) \in Nat
  BY <1>3, StrFacts DEF Inked
<1>5. start = 0
  BY <1>1, <1>2, <1>4, TypeFacts DEF IInv, SplitOK
<1>6. units' \in Seq(Str) /\ merged' \in 0 .. Len(units') /\ UnitsOK' /\ MergeOK' /\ KeptOK'
  BY <1>2, <1>4, UnitAdded
<1>7. SplitOK'
  BY <1>2, <1>3, <1>5 DEF IInv, SplitOK
<1>8. TypeOK'
  <2>1. sentences' \in Seq(Seq(Char)) /\ units' \in Seq(Seq(Char))
    BY <1>3, <1>6, InkedInStr DEF Str
  <2> QED
    BY <1>2, <1>6, <2>1 DEF IInv, TypeOK
<1> QED
  BY <1>6, <1>7, <1>8 DEF IInv

LEMMA HardSplitKeeps == IInv /\ HardSplit => IInv'
<1> SUFFICES ASSUME IInv, HardSplit
             PROVE  IInv'
  OBVIOUS
<1>1. PICK h : h = Head(sentences)
  OBVIOUS
<1>2. PICK end : end = Min({start + chunk_size, Len(h)})
  OBVIOUS
<1>3. /\ phase = "split" /\ sentences # <<>> /\ Len(h) > chunk_size
      /\ units' = Append(units, SubSeq(h, start + 1, end))
      /\ UNCHANGED <<text, chunk_size, overlap, phase, merged, current, chunks, place>>
  BY <1>1, <1>2 DEF HardSplit
<1>4. /\ end = Len(h) => start' = 0 /\ sentences' = Tail(sentences)
      /\ end # Len(h) => start' = end - overlap /\ sentences' = sentences
  BY <1>1, <1>2 DEF HardSplit
<1>5. h \in Inked /\ Tail(sentences) \in Seq(Inked) /\ sentences \in Seq(Inked)
  BY <1>1, <1>3, HeadTailProperties DEF IInv, SplitOK
<1>6. h \in Str /\ Len(h) \in Nat
  BY <1>5, StrFacts DEF Inked
<1>7. /\ chunk_size \in Nat /\ chunk_size # 0 /\ overlap \in Nat /\ overlap < chunk_size
      /\ start \in Nat /\ start < Len(h)
  <2>1. chunk_size \in Nat /\ chunk_size # 0 /\ overlap \in Nat /\ start \in Nat
    BY TypeFacts DEF IInv
  <2>2. overlap < chunk_size /\ (start # 0 => start < Len(h))
    BY <1>1, <1>3 DEF IInv, SplitOK
  <2>3. start < Len(h)
    BY <1>3, <1>6, <2>1, <2>2
  <2> QED
    BY <2>1, <2>2, <2>3
<1>8. /\ end \in Nat /\ start < end /\ end <= Len(h) /\ end - start <= chunk_size
      /\ end # Len(h) => end = start + chunk_size
  <2>1. end = IF start + chunk_size <= Len(h) THEN start + chunk_size ELSE Len(h)
    <3>1. start + chunk_size \in Nat
      BY <1>7
    <3> QED
      BY <1>2, <1>6, <3>1, MinPair
  <2> QED
    BY <1>6, <1>7, <2>1
<1>9. PICK u \in Str : /\ u = SubSeq(h, start + 1, end)
                       /\ Len(u) = end - start
                       /\ end = Len(h) => EndsInk(u)
  BY <1>5, <1>7, <1>8, PieceOfSentence
<1>10. /\ start' \in Nat
       /\ start' = 0 => end = Len(h)
       /\ start' # 0 => sentences' = sentences /\ start' < Len(h)
  <2>1. CASE end = Len(h)
    BY <1>4, <2>1
  <2>2. CASE end # Len(h)
    <3>1. start' = start + chunk_size - overlap /\ sentences' = sentences
      <4>1. start' = end - overlap /\ sentences' = sentences
        BY <1>4, <2>2
      <4>2. end = start + chunk_size
        BY <1>8, <2>2
      <4> QED
        BY <1>7, <1>8, <4>1, <4>2
    <3>2. start' \in Nat /\ start' # 0 /\ start' < Len(h)
      BY <1>6, <1>7, <1>8, <2>2, <3>1
    <3> QED
      BY <3>1, <3>2
  <2> QED
    BY <2>1, <2>2
<1>11. units' \in Seq(Str) /\ merged' \in 0 .. Len(units') /\ UnitsOK' /\ MergeOK' /\ KeptOK'
  <2>1. Len(u) <= chunk_size /\ units' = Append(units, u)
    BY <1>3, <1>8, <1>9
  <2> QED
    BY <1>3, <1>9, <1>10, <2>1, UnitAdded
<1>12. sentences' \in Seq(Inked)
  BY <1>4, <1>5
<1>13. SplitOK'
  BY <1>1, <1>3, <1>7, <1>10, <1>12 DEF SplitOK
<1>14. TypeOK'
  <2>1. sentences' \in Seq(Seq(Char)) /\ units' \in Seq(Seq(Char))
    BY <1>11, <1>12, InkedInStr DEF Str
  <2> QED
    BY <1>3, <1>10, <1>11, <2>1 DEF IInv, TypeOK
<1> QED
  BY <1>11, <1>13, <1>14 DEF IInv

(* What is merged is left alone by a turn that only moves on.              *)
LEMMA NothingMerged ==
    ASSUME IInv, phase \in {"check", "split"}, phase' # "done",
           UNCHANGED <<text, chunk_size, overlap, sentences, start, units, merged, current,
                       chunks, place>>
    PROVE  UnitsOK' /\ MergeOK' /\ KeptOK'
<1>1. merged = 0
  BY DEF IInv, MergeOK
<1>2. UnitsOK'
  BY DEF IInv, UnitsOK
<1>3. MergeOK'
  BY <1>1 DEF IInv, MergeOK
<1>4. KeptOK'
  BY <1>1 DEF KeptOK
<1> QED
  BY <1>2, <1>3, <1>4

LEMMA CheckOverlapKeeps == IInv /\ CheckOverlap => IInv'
<1> SUFFICES ASSUME IInv, CheckOverlap
             PROVE  IInv'
  OBVIOUS
<1>1. /\ phase = "check" /\ phase' = (IF overlap >= chunk_size THEN "refused" ELSE "split")
      /\ UNCHANGED <<text, chunk_size, overlap, sentences, start, units, merged, current, chunks,
                     place>>
  BY DEF CheckOverlap
<1>2. phase' \in {"refused", "split"} /\ phase' # "done"
  BY <1>1
<1>3. UnitsOK' /\ MergeOK' /\ KeptOK'
  BY <1>1, <1>2, NothingMerged
<1>4. phase' = "split" => overlap < chunk_size
  <2>1. overlap \in Nat /\ chunk_size \in Nat
    BY TypeFacts DEF IInv
  <2>2. CASE overlap >= chunk_size
    BY <1>1, <2>2
  <2>3. CASE ~(overlap >= chunk_size)
    BY <2>1, <2>3
  <2> QED
    BY <2>2, <2>3
<1>5. start = 0
  BY <1>1 DEF IInv, SplitOK
<1>6. SplitOK'
  BY <1>1, <1>2, <1>4, <1>5 DEF IInv, SplitOK
<1>7. TypeOK'
  BY <1>1, <1>2 DEF IInv, TypeOK, Phases
<1> QED
  BY <1>3, <1>6, <1>7 DEF IInv

LEMMA SplitDoneKeeps == IInv /\ SplitDone => IInv'
<1> SUFFICES ASSUME IInv, SplitDone
             PROVE  IInv'
  OBVIOUS
<1>1. /\ phase = "split" /\ sentences = <<>> /\ phase' = "merge"
      /\ UNCHANGED <<text, chunk_size, overlap, sentences, start, units, merged, current, chunks,
                     place>>
  BY DEF SplitDone
<1>2. UnitsOK' /\ MergeOK' /\ KeptOK'
  BY <1>1, NothingMerged
<1>3. start = 0
  BY <1>1 DEF IInv, SplitOK
<1>4. SplitOK'
  BY <1>1, <1>3 DEF IInv, SplitOK
<1>5. TypeOK'
  BY <1>1 DEF IInv, TypeOK, Phases
<1> QED
  BY <1>2, <1>4, <1>5 DEF IInv

(* What stays in a chunk when the next unit is merged.                     *)
LEMMA MergeUnitKeeps == IInv /\ MergeUnit => IInv'
<1> SUFFICES ASSUME IInv, MergeUnit
             PROVE  IInv'
  OBVIOUS
<1>1. /\ phase = "merge" /\ merged < Len(units) /\ merged' = merged + 1
      /\ place' = Append(place, Len(chunks') + 1)
      /\ UNCHANGED <<text, chunk_size, overlap, phase, sentences, start, units>>
  BY DEF MergeUnit
<1>2. \/ Len(Candidate) <= chunk_size /\ current' = Candidate /\ chunks' = chunks
      \/ /\ ~(Len(Candidate) <= chunk_size)
         /\ chunks' = Append(chunks, current) /\ current' = NextCurrent
  BY DEF MergeUnit
<1>3. /\ chunk_size \in Nat /\ merged \in Nat /\ units \in Seq(Str) /\ Len(units) \in Nat
      /\ current \in Str /\ Len(current) \in Nat
      /\ chunks \in Seq(Str) /\ Len(chunks) \in Nat
      /\ place \in Seq(Nat) /\ Len(place) = merged
  BY TypeFacts DEF IInv, MergeOK
<1>4. /\ Unit \in Str /\ merged + 1 \in 1 .. Len(units) /\ Unit = units[merged + 1]
      /\ Candidate \in Str
      /\ \A w \in Str : Trim(w) /\ Within(w, current) => Within(w, Candidate)
      /\ Within(Strip(Unit), Candidate)
      /\ Ink(current) = {} => Len(Candidate) <= Len(Unit)
  BY <1>1, CandidateFacts DEF IInv, Unit
<1>5. Len(Unit) \in Nat /\ Len(Unit) <= chunk_size
  BY <1>4, StrFacts DEF IInv, UnitsOK
<1>6. /\ NextCurrent \in Str /\ Len(NextCurrent) <= chunk_size
      /\ Within(Strip(Unit), NextCurrent)
  BY <1>1, <1>5, NextCurrentFacts DEF IInv
<1>7. ASSUME ~(Len(Candidate) <= chunk_size)
      PROVE  Ink(current) # {} /\ merged # 0
  <2>1. Len(Candidate) \in Nat
    BY <1>4, StrFacts
  <2>2. Ink(current) # {}
    <3>1. ~(Len(Candidate) <= Len(Unit))
      BY <1>3, <1>5, <1>7, <2>1
    <3> QED
      BY <1>4, <3>1
  <2>3. current # <<>>
    <3>1. ASSUME current = <<>>
          PROVE  FALSE
      <4>1. Ink(current) = {}
        <5>1. DOMAIN current = 1 .. Len(current) /\ Len(current) = 0
          BY <1>3, <3>1, StrFacts
        <5>2. DOMAIN current = {}
          BY <5>1
        <5> QED
          BY <5>2 DEF Ink
      <4> QED
        BY <2>2, <4>1
    <3> QED
      BY <3>1
  <2> QED
    BY <2>2, <2>3 DEF IInv, MergeOK
<1>8. /\ current' \in Str /\ Len(current') <= chunk_size /\ Within(Strip(Unit), current')
  BY <1>2, <1>4, <1>6
<1>9. /\ chunks' \in Seq(Str) /\ Len(chunks') \in Nat /\ Len(chunks) <= Len(chunks')
      /\ \A k \in 1 .. Len(chunks) : chunks'[k] = chunks[k]
      /\ \/ chunks' = chunks /\ current' = Candidate
         \/ /\ Len(chunks') = Len(chunks) + 1 /\ chunks'[Len(chunks) + 1] = current
            /\ Ink(current) # {} /\ merged # 0
  <2>1. CASE Len(Candidate) <= chunk_size
    <3>1. current' = Candidate /\ chunks' = chunks
      BY <1>2, <2>1
    <3> QED
      BY <1>3, <3>1
  <2>2. CASE ~(Len(Candidate) <= chunk_size)
    <3>1. chunks' = Append(chunks, current)
      BY <1>2, <2>2
    <3>2. /\ chunks' \in Seq(Str) /\ Len(chunks') = Len(chunks) + 1
          /\ \A k \in 1 .. Len(chunks) : chunks'[k] = chunks[k]
          /\ chunks'[Len(chunks) + 1] = current
      BY <1>3, <3>1, AppendProperties
    <3>3. Len(chunks') \in Nat /\ Len(chunks) <= Len(chunks')
      BY <1>3, <3>2
    <3> QED
      BY <1>7, <2>2, <3>2, <3>3
  <2> QED
    BY <2>1, <2>2
<1>10. /\ place' \in Seq(Nat) /\ Len(place') = merged'
       /\ \A i \in 1 .. merged : place'[i] = place[i]
       /\ place'[merged'] = Len(chunks') + 1
  <2>1. PICK n \in Nat : n = Len(chunks') + 1
    BY <1>9
  <2>2. place' = Append(place, n)
    BY <1>1, <2>1
  <2> QED
    BY <1>1, <1>3, <2>1, <2>2, AppendProperties
<1>11. merged' \in Nat /\ merged' # 0 /\ merged' \in 0 .. Len(units)
  BY <1>1, <1>3
<1>12. TypeOK'
  <2>1. current' \in Seq(Char) /\ chunks' \in Seq(Seq(Char)) /\ merged' \in 0 .. Len(units')
    BY <1>1, <1>8, <1>9, <1>11 DEF Str
  <2> QED
    BY <1>1, <1>10, <2>1 DEF IInv, TypeOK
<1>13. SplitOK' /\ UnitsOK'
  <2>1. SplitOK'
    BY <1>1 DEF IInv, SplitOK
  <2>2. UnitsOK'
    BY <1>1 DEF IInv, UnitsOK
  <2> QED
    BY <2>1, <2>2
<1>14. MergeOK'
  <2>1. \A k \in 1 .. Len(chunks') : Len(chunks'[k]) <= chunk_size /\ Ink(chunks'[k]) # {}
    <3> TAKE k \in 1 .. Len(chunks')
    <3>1. CASE k \in 1 .. Len(chunks)
      BY <1>9, <3>1 DEF IInv, MergeOK
    <3>2. CASE k \notin 1 .. Len(chunks)
      <4>1. k = Len(chunks) + 1 /\ chunks'[k] = current /\ Ink(current) # {}
        <5>1. chunks' # chunks
          BY <3>2
        <5>2. Len(chunks') = Len(chunks) + 1
          BY <1>9, <5>1
        <5>3. k = Len(chunks) + 1
          BY <1>3, <3>2, <5>2
        <5> QED
          BY <1>9, <5>1, <5>3
      <4> QED
        BY <4>1 DEF IInv, MergeOK
    <3> QED
      BY <3>1, <3>2
  <2>2. phase' = "merge" /\ chunk_size' = chunk_size
    BY <1>1
  <2> QED
    BY <1>8, <1>10, <1>11, <2>1, <2>2 DEF MergeOK
<1>15. ASSUME NEW i \in 1 .. merged'
       PROVE  /\ place'[i] \in 1 .. Len(chunks') + 1
              /\ Within(Strip(units'[i]), ChunkAt(place[i])')
  <2>1. CASE i = merged'
    <3>1. place'[i] = Len(chunks') + 1 /\ units'[i] = Unit
      BY <1>1, <1>4, <1>10, <2>1
    <3>2. ~(place'[i] <= Len(chunks')) /\ place'[i] \in 1 .. Len(chunks') + 1
      BY <1>9, <3>1
    <3>3. ChunkAt(place[i])' = current'
      BY <3>2 DEF ChunkAt
    <3> QED
      BY <1>8, <3>1, <3>2, <3>3
  <2>2. CASE i # merged'
    <3>1. i \in 1 .. merged /\ i \in 1 .. Len(units)
      BY <1>1, <1>3, <2>2
    <3>2. place'[i] = place[i] /\ units'[i] = units[i]
      BY <1>1, <1>10, <3>1
    <3>3. place[i] \in 1 .. Len(chunks) + 1 /\ Within(Strip(units[i]), ChunkAt(place[i]))
      BY <3>1 DEF IInv, KeptOK
    <3>4. PICK w \in Str : w = Strip(units[i]) /\ Trim(w)
      <4>1. units[i] \in Str
        BY <1>3, <3>1, ElementOfSeq
      <4> QED
        BY <4>1, StripFacts
    <3>5. PICK p \in Nat : p = place[i]
      BY <1>3, <3>3
    <3>6. Within(w, ChunkAt(p)) /\ p \in 1 .. Len(chunks) + 1
      BY <3>3, <3>4, <3>5
    <3>7. p \in 1 .. Len(chunks') + 1
      BY <1>3, <1>9, <3>6
    <3>8. Within(w, ChunkAt(p)')
      <4>1. CASE p <= Len(chunks)
        <5>1. p \in 1 .. Len(chunks) /\ p <= Len(chunks')
          BY <1>3, <1>9, <3>6, <4>1
        <5>2. ChunkAt(p)' = chunks[p] /\ ChunkAt(p) = chunks[p]
          BY <1>9, <4>1, <5>1 DEF ChunkAt
        <5> QED
          BY <3>6, <5>2
      <4>2. CASE ~(p <= Len(chunks))
        <5>1. p = Len(chunks) + 1 /\ ChunkAt(p) = current
          BY <1>3, <3>6, <4>2 DEF ChunkAt
        <5>2. CASE chunks' = chunks /\ current' = Candidate
          <6>1. ChunkAt(p)' = Candidate
            BY <4>2, <5>2 DEF ChunkAt
          <6> QED
            BY <1>4, <3>4, <3>6, <5>1, <6>1
        <5>3. CASE Len(chunks') = Len(chunks) + 1 /\ chunks'[Len(chunks) + 1] = current
          <6>1. ChunkAt(p)' = current
            BY <5>1, <5>3, <1>3 DEF ChunkAt
          <6> QED
            BY <3>6, <5>1, <6>1
        <5> QED
          BY <1>9, <5>2, <5>3
      <4> QED
        BY <4>1, <4>2
    <3>9. ChunkAt(place[i])' = ChunkAt(p)'
      BY <3>2, <3>5 DEF ChunkAt
    <3> QED
      BY <3>2, <3>4, <3>5, <3>7, <3>8, <3>9
  <2> QED
    BY <2>1, <2>2
<1>16. KeptOK'
  <2>1. phase' # "done"
    BY <1>1
  <2> QED
    BY <1>10, <1>15, <2>1 DEF KeptOK
<1> QED
  BY <1>12, <1>13, <1>14, <1>16 DEF IInv

LEMMA FinishKeeps == IInv /\ Finish => IInv'
<1> SUFFICES ASSUME IInv, Finish
             PROVE  IInv'
  OBVIOUS
<1>1. /\ phase = "merge" /\ merged = Len(units) /\ phase' = "done"
      /\ chunks' = (IF current # <<>> THEN Append(chunks, current) ELSE chunks)
      /\ UNCHANGED <<text, chunk_size, overlap, sentences, start, units, merged, current, place>>
  BY DEF Finish
<1>2. /\ merged \in Nat /\ units \in Seq(Str) /\ current \in Str
      /\ chunks \in Seq(Str) /\ Len(chunks) \in Nat /\ Len(place) = merged
  BY TypeFacts DEF IInv, MergeOK
<1>3. merged # 0 => Ink(current) # {} /\ current # <<>>
  <2> HAVE merged # 0
  <2>1. merged \in 1 .. merged /\ merged \in 1 .. Len(units)
    BY <1>1, <1>2
  <2>2. PICK u \in Str : u = units[merged] /\ EndsInk(u)
    <3>1. start = 0 /\ units # <<>>
      <4>1. start = 0
        BY <1>1 DEF IInv, SplitOK
      <4>2. Len(units) # 0
        BY <1>1
      <4> QED
        BY <1>2, <4>1, <4>2
    <3> QED
      BY <1>1, <1>2, <2>1, <3>1, ElementOfSeq DEF IInv, UnitsOK
  <2>3. Strip(u) \in Str /\ Ink(Strip(u)) # {}
    BY <2>2, EndsInkHasInk, StripFacts
  <2>4. PICK p \in Nat : p = place[merged] /\ p = Len(chunks) + 1
    BY <1>1, <1>2 DEF IInv, KeptOK
  <2>5. Within(Strip(u), ChunkAt(p))
    BY <2>1, <2>2, <2>4 DEF IInv, KeptOK
  <2>6. ChunkAt(p) = current
    <3>1. ~(p <= Len(chunks))
      BY <1>2, <2>4
    <3> QED
      BY <3>1 DEF ChunkAt
  <2> QED
    BY <1>2, <2>3, <2>5, <2>6, InkWithin
<1>4. /\ chunks' \in Seq(Str) /\ Len(chunks') \in Nat /\ Len(chunks) <= Len(chunks')
      /\ \A k \in 1 .. Len(chunks) : chunks'[k] = chunks[k]
      /\ \/ chunks' = chunks /\ merged = 0
         \/ /\ Len(chunks') = Len(chunks) + 1 /\ chunks'[Len(chunks) + 1] = current
            /\ Ink(current) # {}
  <2>1. CASE current # <<>>
    <3>1. chunks' = Append(chunks, current)
      BY <1>1, <2>1
    <3>2. /\ chunks' \in Seq(Str) /\ Len(chunks') = Len(chunks) + 1
          /\ \A k \in 1 .. Len(chunks) : chunks'[k] = chunks[k]
          /\ chunks'[Len(chunks) + 1] = current
      BY <1>2, <3>1, AppendProperties
    <3>3. merged # 0
      BY <2>1 DEF IInv, MergeOK
    <3>4. Len(chunks') \in Nat /\ Len(chunks) <= Len(chunks')
      BY <1>2, <3>2
    <3> QED
      BY <1>3, <3>2, <3>3, <3>4
  <2>2. CASE current = <<>>
    <3>1. chunks' = chunks /\ merged = 0
      BY <1>1, <1>3, <2>2
    <3> QED
      BY <1>2, <3>1
  <2> QED
    BY <2>1, <2>2
<1>5. TypeOK'
  <2>1. chunks' \in Seq(Seq(Char))
    BY <1>4 DEF Str
  <2> QED
    BY <1>1, <2>1 DEF IInv, TypeOK, Phases
<1>6. SplitOK'
  <2>1. start = 0
    BY <1>1 DEF IInv, SplitOK
  <2> QED
    BY <1>1, <2>1 DEF IInv, SplitOK
<1>7. UnitsOK'
  BY <1>1 DEF IInv, UnitsOK
<1>8. MergeOK'
  <2>1. \A k \in 1 .. Len(chunks') : Len(chunks'[k]) <= chunk_size /\ Ink(chunks'[k]) # {}
    <3> TAKE k \in 1 .. Len(chunks')
    <3>1. CASE k \in 1 .. Len(chunks)
      BY <1>4, <3>1 DEF IInv, MergeOK
    <3>2. CASE k \notin 1 .. Len(chunks)
      <4>1. chunks' # chunks
        BY <3>2
      <4>2. Len(chunks') = Len(chunks) + 1
        BY <1>4, <4>1
      <4>3. k = Len(chunks) + 1
        BY <1>2, <3>2, <4>2
      <4> QED
        BY <1>4, <4>1, <4>3 DEF IInv, MergeOK
    <3> QED
      BY <3>1, <3>2
  <2>2. merged' = 0 => current' = <<>> /\ chunks' = <<>>
    <3> HAVE merged' = 0
    <3>1. merged = 0
      BY <1>1
    <3>2. current = <<>> /\ chunks = <<>>
      BY <3>1 DEF IInv, MergeOK
    <3> QED
      BY <1>1, <3>2
  <2> QED
    BY <1>1, <2>1, <2>2 DEF IInv, MergeOK
<1>9. ASSUME NEW i \in 1 .. merged
      PROVE  /\ place[i] \in 1 .. Len(chunks')
             /\ Within(Strip(units[i]), chunks'[place[i]])
  <2>1. PICK p : p = place[i] /\ p \in 1 .. Len(chunks) + 1 /\ Within(Strip(units[i]), ChunkAt(p))
    BY DEF IInv, KeptOK
  <2>2. /\ Len(chunks') = Len(chunks) + 1 /\ chunks'[Len(chunks) + 1] = current
    <3>1. merged # 0
      BY <1>2
    <3> QED
      BY <1>4, <3>1
  <2>3. p \in 1 .. Len(chunks')
    BY <2>1, <2>2
  <2>4. ChunkAt(p) = chunks'[p]
    <3>1. CASE p <= Len(chunks)
      <4>1. p \in 1 .. Len(chunks)
        BY <1>2, <2>1, <3>1
      <4> QED
        BY <1>4, <3>1, <4>1 DEF ChunkAt
    <3>2. CASE ~(p <= Len(chunks))
      <4>1. p = Len(chunks) + 1
        BY <1>2, <2>1, <3>2
      <4> QED
        BY <2>2, <3>2, <4>1 DEF ChunkAt
    <3> QED
      BY <3>1, <3>2
  <2> QED
    BY <2>1, <2>3, <2>4
<1>10. KeptOK'
  <2>1. \A i \in 1 .. merged : /\ place[i] \in 1 .. Len(chunks') + 1
                               /\ place[i] <= Len(chunks')
                               /\ ChunkAt(place[i])' = chunks'[place[i]]
    <3> TAKE i \in 1 .. merged
    <3>1. PICK p : p = place[i] /\ p \in 1 .. Len(chunks')
      BY <1>9
    <3>2. p \in 1 .. Len(chunks') + 1 /\ p <= Len(chunks')
      BY <1>4, <3>1
    <3>3. place'[i] = place[i]
      BY <1>1
    <3> QED
      BY <1>1, <3>1, <3>2, <3>3 DEF ChunkAt
  <2>2. phase' = "done" /\ merged' = merged /\ place' = place /\ units' = units
    BY <1>1
  <2> QED
    BY <1>9, <2>1, <2>2 DEF KeptOK
<1> QED
  BY <1>5, <1>6, <1>7, <1>8, <1>10 DEF IInv

LEMMA NextKeeps == IInv /\ [Next]_vars => IInv'
<1> SUFFICES ASSUME IInv, [Next]_vars
             PROVE  IInv'
  OBVIOUS
<1>1. CASE CheckOverlap
  BY <1>1, CheckOverlapKeeps
<1>2. CASE TakeSentence
  BY <1>2, TakeSentenceKeeps
<1>3. CASE HardSplit
  BY <1>3, HardSplitKeeps
<1>4. CASE SplitDone
  BY <1>4, SplitDoneKeeps
<1>5. CASE MergeUnit
  BY <1>5, MergeUnitKeeps
<1>6. CASE Finish
  BY <1>6, FinishKeeps
<1>7. CASE UNCHANGED vars
  <2>1. UNCHANGED <<text, chunk_size, overlap, phase, sentences, start, units, merged, current,
                    chunks, place>>
    BY <1>7 DEF vars
  <2>2. TypeOK'
    BY <2>1 DEF IInv, TypeOK
  <2>3. SplitOK' /\ UnitsOK'
    BY <2>1 DEF IInv, SplitOK, UnitsOK
  <2>4. MergeOK'
    BY <2>1 DEF IInv, MergeOK
  <2>5. KeptOK'
    BY <2>1 DEF IInv, KeptOK, ChunkAt
  <2> QED
    BY <2>2, <2>3, <2>4, <2>5 DEF IInv
<1> QED
  BY <1>1, <1>2, <1>3, <1>4, <1>5, <1>6, <1>7 DEF Next

(* The invariant of the loops of _split_into_units, _hard_split and        *)
(* chunk_text, for every text and every setting.                           *)
THEOREM Invariance == Spec => []IInv
<1>1. Init => IInv
  BY InitOK
<1>2. IInv /\ [Next]_vars => IInv'
  BY NextKeeps
<1> QED
  BY <1>1, <1>2, PTL DEF Spec

(* The types of what chunk_text holds, for every text and every setting.   *)
THEOREM ChunkingTypes == Spec => []TypeOK
<1>1. IInv => TypeOK
  BY DEF IInv
<1> QED
  BY <1>1, Invariance, PTL

(* No chunk is ever longer than chunk_size: overlap that would make it too *)
(* long is dropped, and no unit is too long itself (chunk_text).           *)
THEOREM ChunksAlwaysFit == Spec => []ChunksFit
<1>1. IInv => ChunksFit
  <2> HAVE IInv
  <2>1. DOMAIN chunks = 1 .. Len(chunks)
    BY TypeFacts, LenProperties DEF IInv
  <2> QED
    BY <2>1 DEF IInv, MergeOK, ChunksFit
<1> QED
  BY <1>1, Invariance, PTL

(* No chunk is ever blank: a chunk made of nothing but the blank piece of  *)
(* a long sentence has room for the unit that follows, and there always is *)
(* one, since a sentence ends in ink (chunk_text, _hard_split).            *)
THEOREM ChunksAreNeverBlank == Spec => []NoBlankChunk
<1>1. IInv => NoBlankChunk
  <2> HAVE IInv
  <2>1. DOMAIN chunks = 1 .. Len(chunks) /\ \A k \in 1 .. Len(chunks) : chunks[k] \in Str
    BY TypeFacts, LenProperties, ElementOfSeq DEF IInv
  <2>2. \A k \in 1 .. Len(chunks) : Ink(chunks[k]) # {}
    BY DEF IInv, MergeOK
  <2> QED
    BY <2>1, <2>2, StripFacts DEF NoBlankChunk
<1> QED
  BY <1>1, Invariance, PTL

(* No unit was put before an earlier one: the chunk that is filled is      *)
(* always the last.                                                        *)
PlacesInOrder == \A i, j \in 1 .. merged : i < j => place[i] <= place[j]

LEMMA OrderKept == IInv /\ PlacesInOrder /\ [Next]_vars => PlacesInOrder'
<1> SUFFICES ASSUME IInv, PlacesInOrder, [Next]_vars
             PROVE  PlacesInOrder'
  OBVIOUS
<1>1. CASE MergeUnit
  <2>1. /\ merged \in Nat /\ chunks \in Seq(Str) /\ Len(chunks) \in Nat
        /\ place \in Seq(Nat) /\ Len(place) = merged /\ current \in Str
    BY TypeFacts DEF IInv, MergeOK
  <2>2. merged' = merged + 1 /\ place' = Append(place, Len(chunks') + 1)
    BY <1>1 DEF MergeUnit
  <2>3. Len(chunks') \in Nat /\ Len(chunks) <= Len(chunks')
    BY <1>1, <2>1 DEF MergeUnit
  <2>4. /\ \A i \in 1 .. merged : place'[i] = place[i]
        /\ place'[merged + 1] = Len(chunks') + 1
    BY <2>1, <2>2, <2>3
  <2> SUFFICES ASSUME NEW i \in 1 .. merged + 1, NEW j \in 1 .. merged + 1, i < j
               PROVE  place'[i] <= place'[j]
    BY <2>2 DEF PlacesInOrder
  <2>5. i \in 1 .. merged
    BY <2>1
  <2>6. CASE j = merged + 1
    <3>1. place[i] \in 1 .. Len(chunks) + 1
      BY <2>5 DEF IInv, KeptOK
    <3> QED
      BY <2>1, <2>3, <2>4, <2>5, <2>6, <3>1
  <2>7. CASE j # merged + 1
    <3>1. j \in 1 .. merged
      BY <2>1, <2>7
    <3> QED
      BY <2>4, <2>5, <3>1 DEF PlacesInOrder
  <2> QED
    BY <2>6, <2>7
<1>2. CASE UNCHANGED <<merged, place>>
  BY <1>2 DEF PlacesInOrder
<1> QED
  BY <1>1, <1>2 DEF Next, CheckOverlap, TakeSentence, HardSplit, SplitDone, Finish, vars

(* When chunk_text returns, every unit is whole in the chunk it was put    *)
(* in, whatever was carried over or dropped on the way, and the chunks     *)
(* follow the order of the units (chunk_text).                             *)
THEOREM UnitsAreKept == Spec => []UnitsKept
<1>1. ASSUME IInv, phase = "done", NEW i \in DOMAIN units
      PROVE  place[i] \in DOMAIN chunks /\ Within(Strip(units[i]), chunks[place[i]])
  <2>1. /\ DOMAIN chunks = 1 .. Len(chunks) /\ DOMAIN units = 1 .. Len(units)
        /\ Len(chunks) \in Nat
    BY TypeFacts, LenProperties, <1>1 DEF IInv
  <2>2. i \in 1 .. merged
    BY <1>1, <2>1 DEF IInv, MergeOK
  <2>3. /\ place[i] \in 1 .. Len(chunks) + 1 /\ place[i] <= Len(chunks)
        /\ Within(Strip(units[i]), ChunkAt(place[i]))
    BY <1>1, <2>2 DEF IInv, KeptOK
  <2>4. place[i] \in 1 .. Len(chunks)
    BY <2>1, <2>3
  <2> QED
    BY <2>1, <2>3, <2>4 DEF ChunkAt
<1>2. IInv /\ PlacesInOrder => UnitsKept
  <2> SUFFICES ASSUME IInv, PlacesInOrder, phase = "done"
               PROVE  \A i, j \in DOMAIN units : i < j => place[i] <= place[j]
    BY <1>1 DEF UnitsKept
  <2>1. DOMAIN units = 1 .. merged
    BY TypeFacts, LenProperties DEF IInv, MergeOK
  <2> QED
    BY <2>1 DEF PlacesInOrder
<1>3. Init => PlacesInOrder
  BY DEF Init, PlacesInOrder
<1> QED
  BY <1>2, <1>3, OrderKept, Invariance, PTL DEF Spec

-----------------------------------------------------------------------------
(***************************************************************************)
(* The windows of _hard_split.                                             *)
(***************************************************************************)

LEMMA TimesMono ==
    ASSUME NEW a \in Int, NEW b \in Int, NEW s \in Nat, a <= b
    PROVE  a * s \in Int /\ b * s \in Int /\ a * s <= b * s
OBVIOUS

LEMMA TimesNext ==
    ASSUME NEW a \in Int, NEW s \in Nat
    PROVE  a * s \in Int /\ (a + 1) * s = a * s + s /\ (a - 1) * s = a * s - s
OBVIOUS

LEMMA DivFacts ==
    ASSUME NEW x \in Nat, NEW s \in Nat, s # 0
    PROVE  x \div s \in Nat /\ (x \div s) * s <= x /\ x < (x \div s) * s + s
OBVIOUS

(* Windows, as a function of its arguments.                                *)
WindowCount(len, size, step) == 1 + ((len - size) + step - 1) \div step

WindowsOf(s, size, step) ==
    [k \in 1 .. WindowCount(Len(s), size, step) |->
        SubSeq(s, (k - 1) * step + 1, Min({(k - 1) * step + size, Len(s)}))]

(* How far the j windows cut so far reach: the next one is no last but one *)
(* too many, and it is the last one when it reaches the end.               *)
LEMMA WindowArithmetic ==
    ASSUME NEW size \in Nat, NEW step \in Nat, NEW len \in Nat, NEW j \in Nat,
           NEW count, count = WindowCount(len, size, step),
           step # 0, size < len, j # 0 => (j - 1) * step + size < len
    PROVE  /\ count \in Nat
           /\ j + 1 \in 1 .. count
           /\ j * step \in Nat
           /\ (j + 1) * step = j * step + step
           /\ j * step + size >= len => count = j + 1
<1>1. PICK x \in Nat : x = (len - size) + step - 1
  OBVIOUS
<1>2. PICK c \in Nat : c = x \div step /\ c * step <= x /\ x < c * step + step
  BY DivFacts
<1>3. count = c + 1 /\ count \in Nat
  BY <1>1, <1>2 DEF WindowCount
<1>4. /\ j * step \in Int /\ c * step \in Int
      /\ (j + 1) * step = j * step + step /\ (j - 1) * step = j * step - step
  BY TimesNext
<1>5. j <= c
  <2>1. SUFFICES ASSUME c < j
                 PROVE  FALSE
    OBVIOUS
  <2>2. c <= j - 1 /\ j # 0 /\ j - 1 \in Int
    BY <2>1
  <2>3. c * step <= (j - 1) * step
    BY <2>2, TimesMono
  <2>4. j * step - step + size < len
    BY <1>4, <2>2
  <2> QED
    BY <1>1, <1>2, <1>4, <2>3, <2>4
<1>6. j * step \in Nat
  <2>1. 0 * step <= j * step /\ 0 * step = 0
    BY TimesMono
  <2> QED
    BY <1>4, <2>1
<1>7. ASSUME j * step + size >= len
      PROVE  c <= j
  <2>1. SUFFICES ASSUME j < c
                 PROVE  FALSE
    OBVIOUS
  <2>2. j + 1 <= c /\ j + 1 \in Int
    BY <2>1
  <2>3. (j + 1) * step <= c * step
    BY <2>2, TimesMono
  <2> QED
    BY <1>1, <1>2, <1>4, <1>6, <1>7, <2>3
<1>8. j + 1 \in 1 .. count
  BY <1>3, <1>5
<1>9. j * step + size >= len => count = j + 1
  BY <1>3, <1>5, <1>7
<1> QED
  BY <1>3, <1>4, <1>6, <1>8, <1>9

(* A window is a string.                                                   *)
LEMMA WindowsType ==
    ASSUME NEW s \in Str, NEW size \in Nat, NEW step \in Nat, step # 0, size < Len(s)
    PROVE  /\ WindowsOf(s, size, step) \in Seq(Str)
           /\ Len(WindowsOf(s, size, step)) = WindowCount(Len(s), size, step)
           /\ \A k \in 1 .. WindowCount(Len(s), size, step) :
                 WindowsOf(s, size, step)[k] =
                    SubSeq(s, (k - 1) * step + 1, Min({(k - 1) * step + size, Len(s)}))
<1>1. PICK len \in Nat : len = Len(s)
  BY StrFacts
<1>2. \A i \in 1 .. len : s[i] \in Char
  BY <1>1, StrFacts
<1>3. PICK count \in Nat : count = WindowCount(len, size, step)
  <2>1. PICK c : c = WindowCount(len, size, step)
    OBVIOUS
  <2>2. c \in Nat
    <3>1. PICK j \in Nat : j = 0
      OBVIOUS
    <3>2. j # 0 => (j - 1) * step + size < len
      BY <3>1
    <3>3. size < len
      BY <1>1
    <3> QED
      BY <2>1, <3>2, <3>3, WindowArithmetic
  <2> QED
    BY <2>1, <2>2
<1> DEFINE W(k) == SubSeq(s, (k - 1) * step + 1, Min({(k - 1) * step + size, Len(s)}))
<1>4. ASSUME NEW k \in 1 .. count
      PROVE  W(k) \in Str
  <2>1. PICK b \in Nat : b = (k - 1) * step
    <3>1. k - 1 \in Int /\ 0 <= k - 1
      BY <1>3
    <3>2. 0 * step <= (k - 1) * step /\ 0 * step = 0 /\ (k - 1) * step \in Int
      BY <3>1, TimesMono
    <3> QED
      BY <3>2
  <2>2. PICK end \in Nat : end = Min({b + size, len}) /\ end <= len
    <3>1. b + size \in Nat
      OBVIOUS
    <3> QED
      BY <3>1, MinPair
  <2>3. \A i \in (b + 1) .. end : s[i] \in Char
    BY <1>2, <2>2
  <2>4. SubSeq(s, b + 1, end) \in Seq(Char)
    BY <2>3, SubSeqProperties
  <2> QED
    BY <1>1, <2>1, <2>2, <2>4 DEF Str
<1>5. PICK f : f = [k \in 1 .. count |-> W(k)]
  OBVIOUS
<1>6. f \in [1 .. count -> Str] /\ \A k \in 1 .. count : f[k] = W(k)
  <2> HIDE DEF W
  <2> QED
    BY <1>4, <1>5
<1>7. f = WindowsOf(s, size, step)
  BY <1>1, <1>3, <1>5 DEF WindowsOf
<1>8. f \in Seq(Str) /\ Len(f) = count
  BY <1>6, FunctionSeq
<1> QED
  BY <1>1, <1>3, <1>6, <1>7, <1>8

(* The running concatenation of FlattenSeq.                                *)
Flattens(g, ss, X) ==
    /\ g \in [0 .. Len(ss) -> Seq(X)]
    /\ g[0] = <<>>
    /\ \A i \in 1 .. Len(ss) : g[i] = g[i - 1] \o ss[i]
    /\ FlattenSeq(ss) = g[Len(ss)]

LEMMA FlattensSome ==
    ASSUME NEW X, NEW ss \in Seq(Seq(X))
    PROVE  \E g : Flattens(g, ss, X)
<1>1. Len(ss) \in Nat /\ \A i \in 1 .. Len(ss) : ss[i] \in Seq(X)
  BY LenProperties, ElementOfSeq
<1>2. CASE ss = <<>>
  <2>1. Len(ss) = 0 /\ FlattenSeq(ss) = <<>> /\ <<>> \in Seq(X)
    BY <1>2 DEF FlattenSeq
  <2>2. PICK g : g = [i \in 0 .. 0 |-> <<>>]
    OBVIOUS
  <2>3. g \in [0 .. 0 -> Seq(X)] /\ g[0] = <<>>
    BY <2>1, <2>2
  <2> QED
    BY <2>1, <2>3 DEF Flattens
<1>3. CASE ss # <<>>
  <2>1. PICK f \in [1 .. Len(ss) -> Seq(X)] :
              /\ f[1] = ss[1]
              /\ \A i \in 2 .. Len(ss) : f[i] = f[i - 1] \o ss[i]
              /\ FlattenSeq(ss) = f[Len(ss)]
    BY <1>3, FlattenSteps, Zenon
  <2>2. Len(ss) # 0
    BY <1>3, EmptySeq
  <2>3. PICK g : g = [i \in 0 .. Len(ss) |-> IF i = 0 THEN <<>> ELSE f[i]]
    OBVIOUS
  <2>4. g[0] = <<>> /\ \A i \in 1 .. Len(ss) : g[i] = f[i]
    BY <1>1, <2>3
  <2>5. g \in [0 .. Len(ss) -> Seq(X)]
    <3>1. <<>> \in Seq(X)
      OBVIOUS
    <3> QED
      BY <1>1, <2>3, <3>1
  <2>6. ASSUME NEW i \in 1 .. Len(ss)
        PROVE  g[i] = g[i - 1] \o ss[i]
    <3>1. CASE i = 1
      <4>1. g[i - 1] = <<>> /\ g[i] = ss[i]
        BY <1>1, <2>1, <2>4, <3>1
      <4> QED
        BY <1>1, <4>1, ConcatEmptySeq
    <3>2. CASE i # 1
      <4>1. i \in 2 .. Len(ss) /\ i - 1 \in 1 .. Len(ss)
        BY <1>1, <3>2
      <4> QED
        BY <2>1, <2>4, <4>1
    <3> QED
      BY <3>1, <3>2
  <2>7. FlattenSeq(ss) = g[Len(ss)]
    <3>1. Len(ss) \in 1 .. Len(ss)
      BY <1>1, <2>2
    <3> QED
      BY <2>1, <2>4, <3>1
  <2> QED
    BY <2>4, <2>5, <2>6, <2>7 DEF Flattens
<1> QED
  BY <1>2, <1>3

-----------------------------------------------------------------------------
(***************************************************************************)
(* The units are the sentences, the long ones in windows.                  *)
(***************************************************************************)

(* The units a sentence becomes, and those of a whole text.                *)
UnitsOf(s, size, step) == IF Len(s) <= size THEN <<s>> ELSE WindowsOf(s, size, step)

PartsOf(t, size, step) ==
    [k \in DOMAIN AllSentences(t) |-> UnitsOf(AllSentences(t)[k], size, step)]

LEMMA PartsFacts ==
    ASSUME NEW t \in Str, NEW size \in Nat, NEW step \in Nat, step # 0
    PROVE  /\ AllSentences(t) \in Seq(Inked) /\ Len(AllSentences(t)) \in Nat
           /\ PartsOf(t, size, step) \in Seq(Seq(Str))
           /\ Len(PartsOf(t, size, step)) = Len(AllSentences(t))
           /\ \A k \in 1 .. Len(AllSentences(t)) :
                 PartsOf(t, size, step)[k] = UnitsOf(AllSentences(t)[k], size, step)
<1>1. PICK w \in Seq(Inked) : w = AllSentences(t)
  BY AllSentencesInked
<1>2. Len(w) \in Nat /\ DOMAIN w = 1 .. Len(w) /\ \A k \in 1 .. Len(w) : w[k] \in Inked
  BY LenProperties, ElementOfSeq
<1>3. ASSUME NEW s \in Inked
      PROVE  UnitsOf(s, size, step) \in Seq(Str)
  <2>1. s \in Str /\ Len(s) \in Nat
    BY StrFacts DEF Inked
  <2>2. CASE Len(s) <= size
    BY <2>1, <2>2, Singleton DEF UnitsOf
  <2>3. CASE ~(Len(s) <= size)
    <3>1. size < Len(s)
      BY <2>1, <2>3
    <3> QED
      BY <2>1, <2>3, <3>1, WindowsType DEF UnitsOf
  <2> QED
    BY <2>2, <2>3
<1>4. PICK f : f = [k \in 1 .. Len(w) |-> UnitsOf(w[k], size, step)]
  OBVIOUS
<1>5. f \in [1 .. Len(w) -> Seq(Str)]
      /\ \A k \in 1 .. Len(w) : f[k] = UnitsOf(w[k], size, step)
  BY <1>2, <1>3, <1>4
<1>6. f \in Seq(Seq(Str)) /\ Len(f) = Len(w)
  BY <1>2, <1>5, FunctionSeq
<1>7. f = PartsOf(t, size, step)
  BY <1>1, <1>2, <1>4 DEF PartsOf
<1> QED
  BY <1>1, <1>2, <1>5, <1>6, <1>7

(* Where _split_into_units is: g runs through the units of the text, and   *)
(* j windows of the sentence at hand are cut.                              *)
CutSoFar(g, j) ==
    /\ Flattens(g, PartsOf(text, chunk_size, chunk_size - overlap), Str)
    /\ j \in Nat
    /\ start = j * (chunk_size - overlap)
    /\ j # 0 => /\ sentences # <<>>
                /\ (j - 1) * (chunk_size - overlap) + chunk_size < Len(Head(sentences))
    /\ units = g[Len(AllSentences(text)) - Len(sentences)]
                 \o SubSeq(WindowsOf(Head(sentences), chunk_size, chunk_size - overlap), 1, j)

(* The sentences still to take are the last ones of the text, and the      *)
(* units are those of the ones before.                                     *)
ReferenceOK ==
    /\ Len(sentences) <= Len(AllSentences(text))
    /\ \A k \in 1 .. Len(sentences) :
          sentences[k] = AllSentences(text)[Len(AllSentences(text)) - Len(sentences) + k]
    /\ phase = "check" => start = 0 /\ units = <<>>
                          /\ Len(sentences) = Len(AllSentences(text))
    /\ phase \in {"merge", "done"} => sentences = <<>>
    /\ phase \in {"split", "merge", "done"} => \E g, j : CutSoFar(g, j)

LEMMA SettingFacts ==
    ASSUME IInv, phase \notin {"check", "refused"}
    PROVE  /\ text \in Str /\ chunk_size \in Nat /\ overlap \in Nat
           /\ chunk_size - overlap \in Nat /\ chunk_size - overlap # 0
<1>1. text \in Str /\ chunk_size \in Nat /\ overlap \in Nat
  BY TypeFacts DEF IInv
<1>2. overlap < chunk_size
  BY DEF IInv, SplitOK
<1> QED
  BY <1>1, <1>2

(* The sentence at hand, and what stays true when it is done.              *)
AtHead(g, j, n) ==
    /\ CutSoFar(g, j)
    /\ n \in Nat /\ n = Len(AllSentences(text)) - Len(sentences)
    /\ g[n] \in Seq(Str)
    /\ g[n + 1] = g[n] \o UnitsOf(Head(sentences), chunk_size, chunk_size - overlap)
    /\ Head(sentences) \in Inked
    /\ n + 1 = Len(AllSentences(text)) - Len(Tail(sentences))
    /\ Len(Tail(sentences)) <= Len(AllSentences(text))
    /\ \A k \in 1 .. Len(Tail(sentences)) :
          Tail(sentences)[k] =
              AllSentences(text)[Len(AllSentences(text)) - Len(Tail(sentences)) + k]

LEMMA HeadFacts ==
    ASSUME IInv, ReferenceOK, phase = "split", sentences # <<>>
    PROVE  \E g, j, n : AtHead(g, j, n)
<1>1. /\ text \in Str /\ chunk_size \in Nat /\ overlap \in Nat
      /\ chunk_size - overlap \in Nat /\ chunk_size - overlap # 0
  BY SettingFacts
<1>2. PICK all : all = AllSentences(text)
  OBVIOUS
<1>3. PICK parts : parts = PartsOf(text, chunk_size, chunk_size - overlap)
  OBVIOUS
<1>4. /\ Len(all) \in Nat /\ Len(parts) = Len(all)
      /\ \A k \in 1 .. Len(all) :
            parts[k] = UnitsOf(all[k], chunk_size, chunk_size - overlap)
  BY <1>1, <1>2, <1>3, PartsFacts
<1>5. PICK g, j : CutSoFar(g, j)
  BY DEF ReferenceOK
<1>6. /\ g \in [0 .. Len(all) -> Seq(Str)]
      /\ \A i \in 1 .. Len(all) : g[i] = g[i - 1] \o parts[i]
  BY <1>3, <1>4, <1>5 DEF CutSoFar, Flattens
<1>7. /\ Len(sentences) <= Len(all)
      /\ \A k \in 1 .. Len(sentences) : sentences[k] = all[Len(all) - Len(sentences) + k]
  BY <1>2 DEF ReferenceOK
<1>8. PICK rest : rest = Tail(sentences)
  OBVIOUS
<1>9. /\ sentences \in Seq(Inked) /\ Head(sentences) \in Inked
      /\ Len(sentences) \in Nat /\ Len(sentences) # 0
      /\ Len(rest) = Len(sentences) - 1
      /\ \A k \in 1 .. Len(rest) : rest[k] = sentences[k + 1]
  <2>1. sentences \in Seq(Inked)
    BY DEF IInv, SplitOK
  <2>2. Len(sentences) \in Nat \ {0}
    BY <2>1, EmptySeq
  <2> QED
    BY <1>8, <2>1, <2>2, HeadTailProperties
<1>10. PICK n \in Nat : n = Len(all) - Len(sentences)
  <2>1. Len(all) - Len(sentences) \in Nat
    BY <1>4, <1>7, <1>9
  <2> QED
    BY <2>1
<1>11. /\ n \in 0 .. Len(all) /\ n + 1 \in 1 .. Len(all) /\ (n + 1) - 1 = n
       /\ 1 \in 1 .. Len(sentences) /\ n + 1 = Len(all) - Len(rest) /\ Len(rest) <= Len(all)
  BY <1>4, <1>7, <1>9, <1>10
<1>12. Head(sentences) = all[n + 1]
  <2>1. Head(sentences) = sentences[1]
    OBVIOUS
  <2> QED
    BY <1>7, <1>10, <1>11, <2>1
<1>13. g[n] \in Seq(Str)
       /\ g[n + 1] = g[n] \o UnitsOf(Head(sentences), chunk_size, chunk_size - overlap)
  BY <1>4, <1>6, <1>11, <1>12
<1>14. \A k \in 1 .. Len(rest) : rest[k] = all[Len(all) - Len(rest) + k]
  <2> TAKE k \in 1 .. Len(rest)
  <2>1. k + 1 \in 1 .. Len(sentences)
        /\ Len(all) - Len(sentences) + (k + 1) = Len(all) - Len(rest) + k
    BY <1>4, <1>9
  <2> QED
    BY <1>7, <1>9, <2>1
<1> QED
  BY <1>2, <1>5, <1>8, <1>9, <1>10, <1>11, <1>13, <1>14 DEF AtHead

LEMMA InitReference == Init => ReferenceOK
<1> SUFFICES ASSUME Init
             PROVE  ReferenceOK
  OBVIOUS
<1>1. PICK all : all = AllSentences(text)
  OBVIOUS
<1>2. Len(all) \in Nat
  BY <1>1, AllSentencesInked, LenProperties, ChunkingAssumption DEF Init, Str
<1>3. sentences = all /\ phase = "check" /\ start = 0 /\ units = <<>>
  BY <1>1 DEF Init
<1>4. \A k \in 1 .. Len(all) : Len(all) - Len(all) + k = k
  BY <1>2
<1>5. Len(all) <= Len(all)
  BY <1>2
<1> QED
  BY <1>1, <1>3, <1>4, <1>5 DEF ReferenceOK

LEMMA CheckOverlapReference == IInv /\ ReferenceOK /\ CheckOverlap /\ IInv' => ReferenceOK'
<1> SUFFICES ASSUME IInv, ReferenceOK, CheckOverlap, IInv'
             PROVE  ReferenceOK'
  OBVIOUS
<1>1. /\ phase = "check" /\ phase' \in {"refused", "split"}
      /\ UNCHANGED <<text, chunk_size, overlap, sentences, start, units, merged, current, chunks,
                     place>>
  BY DEF CheckOverlap
<1>2. start = 0 /\ units = <<>> /\ Len(sentences) = Len(AllSentences(text))
  BY <1>1 DEF ReferenceOK
<1>3. ASSUME phase' = "split"
      PROVE  \E g, j : CutSoFar(g, j)'
  <2>1. /\ text \in Str /\ chunk_size \in Nat /\ overlap \in Nat /\ overlap < chunk_size
    <3>1. overlap' < chunk_size'
      BY <1>3 DEF IInv, SplitOK
    <3> QED
      BY <1>1, <3>1, TypeFacts DEF IInv
  <2>2. chunk_size - overlap \in Nat /\ chunk_size - overlap # 0
    BY <2>1
  <2>3. PICK parts \in Seq(Seq(Str)) : parts = PartsOf(text, chunk_size, chunk_size - overlap)
    BY <2>1, <2>2, PartsFacts
  <2>4. PICK g : Flattens(g, parts, Str)
    BY FlattensSome
  <2>5. PICK j \in Nat : j = 0
    OBVIOUS
  <2>6. PICK win : win = WindowsOf(Head(sentences), chunk_size, chunk_size - overlap)
    OBVIOUS
  <2>7. <<>> = g[Len(AllSentences(text)) - Len(sentences)] \o SubSeq(win, 1, j)
    <3>1. Len(AllSentences(text)) - Len(sentences) = 0
      <4>1. Len(AllSentences(text)) \in Nat
        BY <2>1, <2>2, PartsFacts
      <4> QED
        BY <1>2, <4>1
    <3>2. SubSeq(win, 1, j) = <<>>
      BY <2>5, SubSeqEmpty
    <3>3. g[0] = <<>>
      BY <2>4 DEF Flattens
    <3>4. <<>> \o <<>> = <<>>
      OBVIOUS
    <3> QED
      BY <3>1, <3>2, <3>3, <3>4
  <2>8. start = j * (chunk_size - overlap)
    BY <1>2, <2>2, <2>5
  <2>9. CutSoFar(g, j)
    BY <1>2, <2>3, <2>4, <2>5, <2>6, <2>7, <2>8 DEF CutSoFar
  <2>10. CutSoFar(g, j)'
    BY <1>1, <2>9 DEF CutSoFar
  <2> QED
    BY <2>10
<1>4. phase' \notin {"check", "merge", "done"} /\ (phase' \in {"split", "merge", "done"} => phase' = "split")
  BY <1>1
<1> QED
  BY <1>1, <1>3, <1>4 DEF ReferenceOK

LEMMA MovesOnReference ==
    ASSUME ReferenceOK, phase \in {"split", "merge"}, sentences = <<>>,
           phase' \in {"merge", "done"},
           UNCHANGED <<text, chunk_size, overlap, sentences, start, units>>
    PROVE  ReferenceOK'
<1>1. PICK g, j : CutSoFar(g, j)
  BY DEF ReferenceOK
<1>2. CutSoFar(g, j)'
  BY <1>1 DEF CutSoFar
<1>3. phase' # "check"
  OBVIOUS
<1> QED
  BY <1>2, <1>3 DEF ReferenceOK

LEMMA TakeSentenceReference == IInv /\ ReferenceOK /\ TakeSentence => ReferenceOK'
<1> SUFFICES ASSUME IInv, ReferenceOK, TakeSentence
             PROVE  ReferenceOK'
  OBVIOUS
<1>1. PICK h : h = Head(sentences)
  OBVIOUS
<1>2. /\ phase = "split" /\ phase' = "split" /\ sentences # <<>> /\ Len(h) <= chunk_size
      /\ units' = Append(units, h) /\ sentences' = Tail(sentences)
      /\ UNCHANGED <<text, chunk_size, overlap, start>>
  BY <1>1 DEF TakeSentence
<1>3. PICK g, j, n : AtHead(g, j, n)
  BY <1>2, HeadFacts
<1>4. /\ text \in Str /\ chunk_size \in Nat
      /\ chunk_size - overlap \in Nat /\ chunk_size - overlap # 0
  BY <1>2, SettingFacts
<1>5. h \in Str /\ Len(h) \in Nat
  BY <1>1, <1>3, StrFacts DEF AtHead, Inked
<1>6. j = 0
  <2>1. SUFFICES ASSUME j # 0
                 PROVE  FALSE
    OBVIOUS
  <2>2. j \in Nat /\ (j - 1) * (chunk_size - overlap) + chunk_size < Len(h)
    BY <1>1, <1>3, <2>1 DEF AtHead, CutSoFar
  <2>3. j - 1 \in Int /\ 0 <= j - 1
    BY <2>1, <2>2
  <2>4. /\ (j - 1) * (chunk_size - overlap) \in Int
        /\ 0 * (chunk_size - overlap) <= (j - 1) * (chunk_size - overlap)
        /\ 0 * (chunk_size - overlap) = 0
    BY <1>4, <2>3, TimesMono
  <2> QED
    BY <1>2, <1>4, <1>5, <2>2, <2>4
<1>7. units = g[n]
  <2>1. PICK win : win = WindowsOf(Head(sentences), chunk_size, chunk_size - overlap)
    OBVIOUS
  <2>2. units = g[n] \o SubSeq(win, 1, j) /\ g[n] \in Seq(Str)
    BY <1>3, <2>1 DEF AtHead, CutSoFar
  <2>3. SubSeq(win, 1, j) = <<>>
    BY <1>6, SubSeqEmpty
  <2> QED
    BY <2>2, <2>3, ConcatEmptySeq
<1>8. units' = g[n + 1]
  <2>1. g[n] \in Seq(Str) /\ g[n + 1] = g[n] \o <<h>>
    BY <1>1, <1>2, <1>3 DEF AtHead, UnitsOf
  <2> QED
    BY <1>2, <1>5, <1>7, <2>1, AppendIsConcat
<1>9. CutSoFar(g, j)'
  <2>1. PICK win : win = WindowsOf(Head(sentences'), chunk_size', chunk_size' - overlap')
    OBVIOUS
  <2>2. units' = units' \o SubSeq(win, 1, j)
    <3>1. SubSeq(win, 1, j) = <<>>
      BY <1>6, SubSeqEmpty
    <3>2. units' \in Seq(Str)
      BY <1>2, <1>5, TypeFacts, AppendProperties DEF IInv
    <3> QED
      BY <3>1, <3>2, ConcatEmptySeq
  <2>3. n + 1 = Len(AllSentences(text')) - Len(sentences')
    BY <1>2, <1>3 DEF AtHead
  <2>4. Flattens(g, PartsOf(text', chunk_size', chunk_size' - overlap'), Str) /\ j \in Nat
        /\ start' = j * (chunk_size' - overlap')
    BY <1>2, <1>3 DEF AtHead, CutSoFar
  <2> QED
    BY <1>6, <1>8, <2>1, <2>2, <2>3, <2>4 DEF CutSoFar
<1>10. /\ Len(sentences') <= Len(AllSentences(text'))
       /\ \A k \in 1 .. Len(sentences') :
             sentences'[k] = AllSentences(text')[Len(AllSentences(text')) - Len(sentences') + k]
  BY <1>2, <1>3 DEF AtHead
<1> QED
  BY <1>2, <1>9, <1>10 DEF ReferenceOK

LEMMA HardSplitReference == IInv /\ ReferenceOK /\ HardSplit => ReferenceOK'
<1> SUFFICES ASSUME IInv, ReferenceOK, HardSplit
             PROVE  ReferenceOK'
  OBVIOUS
<1>1. PICK h : h = Head(sentences)
  OBVIOUS
<1>2. PICK end : end = Min({start + chunk_size, Len(h)})
  OBVIOUS
<1>3. /\ phase = "split" /\ phase' = "split" /\ sentences # <<>> /\ Len(h) > chunk_size
      /\ units' = Append(units, SubSeq(h, start + 1, end))
      /\ UNCHANGED <<text, chunk_size, overlap>>
  BY <1>1, <1>2 DEF HardSplit
<1>4. /\ end = Len(h) => start' = 0 /\ sentences' = Tail(sentences)
      /\ end # Len(h) => start' = end - overlap /\ sentences' = sentences
  BY <1>1, <1>2 DEF HardSplit
<1>5. PICK g, j, n : AtHead(g, j, n)
  BY <1>3, HeadFacts
<1>6. PICK step \in Nat : step = chunk_size - overlap /\ step # 0
  BY <1>3, SettingFacts
<1>7. text \in Str /\ chunk_size \in Nat /\ overlap \in Nat
  BY <1>3, SettingFacts
<1>8. h \in Str /\ Len(h) \in Nat /\ chunk_size < Len(h)
  <2>1. h \in Str /\ Len(h) \in Nat
    BY <1>1, <1>5, StrFacts DEF AtHead, Inked
  <2> QED
    BY <1>3, <1>7, <2>1
<1>9. /\ j \in Nat /\ start = j * step
      /\ j # 0 => (j - 1) * step + chunk_size < Len(h)
  BY <1>1, <1>5, <1>6 DEF AtHead, CutSoFar
<1>10. PICK count : count = WindowCount(Len(h), chunk_size, step)
  OBVIOUS
<1>11. /\ count \in Nat /\ j + 1 \in 1 .. count /\ start \in Nat
       /\ (j + 1) * step = start + step
       /\ start + chunk_size >= Len(h) => count = j + 1
  BY <1>6, <1>7, <1>8, <1>9, <1>10, WindowArithmetic
<1>12. PICK win : win = WindowsOf(h, chunk_size, step)
  OBVIOUS
<1>13. /\ win \in Seq(Str) /\ Len(win) = count
       /\ \A k \in 1 .. count :
             win[k] = SubSeq(h, (k - 1) * step + 1, Min({(k - 1) * step + chunk_size, Len(h)}))
  BY <1>6, <1>7, <1>8, <1>10, <1>12, WindowsType
<1>14. units' = Append(units, win[j + 1])
  <2>1. (j + 1) - 1 = j
    BY <1>9
  <2>2. win[j + 1] = SubSeq(h, start + 1, end)
    BY <1>2, <1>9, <1>11, <1>13, <2>1
  <2> QED
    BY <1>3, <2>2
<1>15. /\ units = g[n] \o SubSeq(win, 1, j) /\ g[n] \in Seq(Str)
       /\ n = Len(AllSentences(text)) - Len(sentences)
  BY <1>1, <1>5, <1>6, <1>12 DEF AtHead, CutSoFar
<1>16. units' = g[n] \o SubSeq(win, 1, j + 1)
  <2>1. win[j + 1] \in Str /\ \A k \in 1 .. j : win[k] \in Str
    <3>1. \A k \in 1 .. j : k \in 1 .. count
      BY <1>9, <1>11
    <3> QED
      BY <1>11, <1>13, <3>1, ElementOfSeq
  <2>2. PICK first \in Seq(Str) : first = SubSeq(win, 1, j)
    <3>1. 1 \in Int /\ j \in Int
      BY <1>9
    <3>2. SubSeq(win, 1, j) \in Seq(Str)
      BY <2>1, <3>1, SubSeqProperties
    <3> QED
      BY <3>2
  <2>3. PICK last \in Seq(Str) : last = <<win[j + 1]>>
    BY <2>1, Singleton
  <2>4. SubSeq(win, 1, j + 1) = first \o <<win[j + 1]>>
    <3>1. 1 \in 1 .. Len(win) /\ j + 1 \in 1 .. Len(win) /\ (j + 1) - 1 = j
      BY <1>9, <1>11, <1>13
    <3> QED
      BY <1>13, <2>2, <3>1, SubSeqRecursiveSecond
  <2>5. units \in Seq(Str) /\ units = g[n] \o first
    BY <1>15, <2>2, TypeFacts DEF IInv
  <2>6. units' = (g[n] \o first) \o <<win[j + 1]>>
    BY <1>14, <2>1, <2>5, AppendIsConcat
  <2> QED
    <3>1. PICK before \in Seq(Str) : before = g[n]
      BY <1>15
    <3>2. (before \o first) \o last = before \o (first \o last)
      BY ConcatAssociative
    <3> QED
      BY <2>3, <2>4, <2>6, <3>1, <3>2
<1>17. end = IF start + chunk_size <= Len(h) THEN start + chunk_size ELSE Len(h)
  <2>1. start + chunk_size \in Nat
    BY <1>7, <1>11
  <2> QED
    BY <1>2, <1>8, <2>1, MinPair
<1>18. Flattens(g, PartsOf(text', chunk_size', chunk_size' - overlap'), Str)
       /\ chunk_size' - overlap' = step /\ chunk_size' = chunk_size
  BY <1>3, <1>5, <1>6 DEF AtHead, CutSoFar
<1>19. CASE end = Len(h)
  <2>1. start' = 0 /\ sentences' = Tail(sentences)
    BY <1>4, <1>19
  <2>2. count = j + 1
    BY <1>7, <1>8, <1>11, <1>17, <1>19
  <2>3. SubSeq(win, 1, j + 1) = win
    BY <1>13, <2>2, SubSeqFull
  <2>4. UnitsOf(h, chunk_size, step) = win
    <3>1. ~(Len(h) <= chunk_size)
      BY <1>7, <1>8
    <3> QED
      BY <1>12, <3>1 DEF UnitsOf
  <2>5. units' = g[n + 1]
    BY <1>1, <1>5, <1>6, <1>16, <2>3, <2>4 DEF AtHead
  <2>6. n + 1 = Len(AllSentences(text')) - Len(sentences')
    BY <1>3, <1>5, <2>1 DEF AtHead
  <2>7. PICK win2 : win2 = WindowsOf(Head(sentences'), chunk_size', chunk_size' - overlap')
    OBVIOUS
  <2>8. PICK z \in Nat : z = 0
    OBVIOUS
  <2>9. units' = units' \o SubSeq(win2, 1, z)
    <3>1. SubSeq(win2, 1, z) = <<>>
      BY <2>8, SubSeqEmpty
    <3>2. units' \in Seq(Str)
      BY <1>11, <1>13, <1>14, TypeFacts, ElementOfSeq, AppendProperties DEF IInv
    <3> QED
      BY <3>1, <3>2, ConcatEmptySeq
  <2>10. start' = z * (chunk_size' - overlap')
    BY <1>18, <2>1, <2>8
  <2>11. CutSoFar(g, z)'
    BY <1>18, <2>5, <2>6, <2>7, <2>8, <2>9, <2>10 DEF CutSoFar
  <2>12. /\ Len(sentences') <= Len(AllSentences(text'))
         /\ \A k \in 1 .. Len(sentences') :
               sentences'[k] = AllSentences(text')[Len(AllSentences(text')) - Len(sentences') + k]
    BY <1>3, <1>5, <2>1 DEF AtHead
  <2> QED
    BY <1>3, <2>11, <2>12 DEF ReferenceOK
<1>20. CASE end # Len(h)
  <2>1. start' = end - overlap /\ sentences' = sentences
    BY <1>4, <1>20
  <2>2. end = start + chunk_size /\ start + chunk_size < Len(h)
    BY <1>7, <1>8, <1>11, <1>17, <1>20
  <2>3. PICK i \in Nat : i = j + 1 /\ i # 0 /\ i - 1 = j
    BY <1>9
  <2>4. start' = i * (chunk_size' - overlap')
    <3>1. start' = start + step
      BY <1>6, <1>7, <1>11, <2>1, <2>2
    <3> QED
      BY <1>11, <1>18, <2>3, <3>1
  <2>5. sentences' # <<>> /\ (i - 1) * (chunk_size' - overlap') + chunk_size' < Len(Head(sentences'))
    BY <1>1, <1>3, <1>9, <1>18, <2>1, <2>2, <2>3
  <2>6. units' = g[Len(AllSentences(text')) - Len(sentences')]
                 \o SubSeq(WindowsOf(Head(sentences'), chunk_size', chunk_size' - overlap'), 1, i)
    BY <1>1, <1>3, <1>12, <1>15, <1>16, <1>18, <2>1, <2>3
  <2>7. CutSoFar(g, i)'
    BY <1>18, <2>4, <2>5, <2>6 DEF CutSoFar
  <2>8. /\ Len(sentences') <= Len(AllSentences(text'))
        /\ \A k \in 1 .. Len(sentences') :
              sentences'[k] = AllSentences(text')[Len(AllSentences(text')) - Len(sentences') + k]
    BY <1>3, <2>1 DEF ReferenceOK
  <2> QED
    BY <1>3, <2>7, <2>8 DEF ReferenceOK
<1> QED
  BY <1>19, <1>20

LEMMA NextReference == IInv /\ ReferenceOK /\ [Next]_vars /\ IInv' => ReferenceOK'
<1> SUFFICES ASSUME IInv, ReferenceOK, [Next]_vars, IInv'
             PROVE  ReferenceOK'
  OBVIOUS
<1>1. CASE CheckOverlap
  BY <1>1, CheckOverlapReference
<1>2. CASE TakeSentence
  BY <1>2, TakeSentenceReference
<1>3. CASE HardSplit
  BY <1>3, HardSplitReference
<1>4. CASE SplitDone
  <2>1. /\ phase = "split" /\ sentences = <<>> /\ phase' = "merge"
        /\ UNCHANGED <<text, chunk_size, overlap, sentences, start, units>>
    BY <1>4 DEF SplitDone
  <2> QED
    BY <2>1, MovesOnReference
<1>5. CASE MergeUnit
  <2>1. /\ phase = "merge" /\ phase' = "merge"
        /\ UNCHANGED <<text, chunk_size, overlap, sentences, start, units>>
    BY <1>5 DEF MergeUnit
  <2>2. sentences = <<>>
    BY <2>1 DEF ReferenceOK
  <2> QED
    BY <2>1, <2>2, MovesOnReference
<1>6. CASE Finish
  <2>1. /\ phase = "merge" /\ phase' = "done"
        /\ UNCHANGED <<text, chunk_size, overlap, sentences, start, units>>
    BY <1>6 DEF Finish
  <2>2. sentences = <<>>
    BY <2>1 DEF ReferenceOK
  <2> QED
    BY <2>1, <2>2, MovesOnReference
<1>7. CASE UNCHANGED vars
  <2>1. UNCHANGED <<text, chunk_size, overlap, phase, sentences, start, units>>
    BY <1>7 DEF vars
  <2>2. \A g, j : CutSoFar(g, j)' <=> CutSoFar(g, j)
    BY <2>1 DEF CutSoFar
  <2> QED
    BY <2>1, <2>2 DEF ReferenceOK
<1> QED
  BY <1>1, <1>2, <1>3, <1>4, <1>5, <1>6, <1>7 DEF Next

(* When chunk_text returns, its units are the sentences of the text in     *)
(* their order, the long ones in the windows of _hard_split: nothing is    *)
(* left out and nothing comes twice, whatever the lengths and the settings *)
(* (_split_into_units, _hard_split).                                       *)
THEOREM UnitsAlwaysMeetReference == Spec => []UnitsMeetReference
<1>1. Init => IInv /\ ReferenceOK
  BY InitOK, InitReference
<1>2. IInv /\ ReferenceOK /\ [Next]_vars => IInv' /\ ReferenceOK'
  BY NextKeeps, NextReference
<1>3. IInv /\ ReferenceOK => UnitsMeetReference
  <2> SUFFICES ASSUME IInv, ReferenceOK, phase = "done"
               PROVE  units = FlattenSeq(PartsOf(text, chunk_size, chunk_size - overlap))
    <3>1. PartsOf(text, chunk_size, chunk_size - overlap) =
            [k \in DOMAIN AllSentences(text) |->
                IF Len(AllSentences(text)[k]) <= chunk_size THEN <<AllSentences(text)[k]>>
                ELSE Windows(AllSentences(text)[k])]
      BY DEF PartsOf, UnitsOf, WindowsOf, WindowCount, Windows
    <3> QED
      BY <3>1 DEF UnitsMeetReference
  <2>1. PICK g, j : CutSoFar(g, j) /\ sentences = <<>>
    BY DEF ReferenceOK
  <2>2. /\ text \in Str /\ chunk_size \in Nat
        /\ chunk_size - overlap \in Nat /\ chunk_size - overlap # 0
    BY SettingFacts
  <2>3. PICK parts : parts = PartsOf(text, chunk_size, chunk_size - overlap)
    OBVIOUS
  <2>4. Len(parts) = Len(AllSentences(text)) /\ Len(parts) \in Nat
    BY <2>2, <2>3, PartsFacts
  <2>5. Flattens(g, parts, Str)
    BY <2>1, <2>3 DEF CutSoFar
  <2>6. j = 0
    BY <2>1 DEF CutSoFar
  <2>7. PICK win : win = WindowsOf(Head(sentences), chunk_size, chunk_size - overlap)
    OBVIOUS
  <2>8. units = g[Len(parts)] \o SubSeq(win, 1, j)
    <3>1. Len(AllSentences(text)) - Len(sentences) = Len(parts)
      <4>1. Len(sentences) = 0
        BY <2>1
      <4> QED
        BY <2>4, <4>1
    <3> QED
      BY <2>1, <2>7, <3>1 DEF CutSoFar
  <2>9. SubSeq(win, 1, j) = <<>>
    BY <2>6, SubSeqEmpty
  <2>10. g[Len(parts)] \in Seq(Str) /\ g[Len(parts)] = FlattenSeq(parts)
    <3>1. Len(parts) \in 0 .. Len(parts)
      BY <2>4
    <3> QED
      BY <2>5, <3>1 DEF Flattens
  <2> QED
    BY <2>3, <2>8, <2>9, <2>10, ConcatEmptySeq
<1> QED
  BY <1>1, <1>2, <1>3, PTL DEF Spec
=============================================================================
