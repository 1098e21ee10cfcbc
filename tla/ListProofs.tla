----------------------------- MODULE ListProofs -----------------------------
(***************************************************************************)
(* Lemmas about lists that the proofs about several components share: what *)
(* a sequence holds and whether once, counting and the functions that are  *)
(* defined by it, and the selection of items.                              *)
(***************************************************************************)
EXTENDS ItemSelection, SequencesExt, SequenceTheorems, FiniteSetTheorems,
        WellFoundedInduction, TLAPS

-----------------------------------------------------------------------------
(* Sequences: what they hold, and that no element is there twice.          *)

LEMMA EmptyHolds == /\ ToSet(<<>>) = {} /\ IsInjective(<<>>)
                    /\ \A S : <<>> \in Seq(S)
BY DEF ToSet, IsInjective

LEMMA HoldsAt ==
    ASSUME NEW S, NEW s \in Seq(S)
    PROVE  /\ \A x : x \in ToSet(s) <=> \E i \in 1..Len(s) : s[i] = x
           /\ ToSet(s) \subseteq S
           /\ IsInjective(s) <=> \A i, j \in 1..Len(s) : s[i] = s[j] => i = j
BY LenProperties, ElementOfSeq DEF ToSet, IsInjective

LEMMA HoldsUpTo ==
    ASSUME NEW s, NEW n, DOMAIN s = 1..n
    PROVE  /\ \A x : x \in ToSet(s) <=> \E i \in 1..n : s[i] = x
           /\ IsInjective(s) <=> \A i, j \in 1..n : s[i] = s[j] => i = j
BY DEF ToSet, IsInjective

(* The last element, and what is in front of it.                           *)
LEMMA FrontIs ==
    ASSUME NEW S, NEW s \in Seq(S), s # <<>>
    PROVE  /\ Front(s) \in Seq(S) /\ Len(Front(s)) = Len(s) - 1
           /\ \A i \in 1..(Len(s) - 1) : Front(s)[i] = s[i]
           /\ Last(s) = s[Len(s)] /\ Last(s) \in S
           /\ Front(s) = RemoveAt(s, Len(s))
<1>1. /\ Len(s) \in Nat \ {0} /\ Len(s) - 1 \in 0..Len(s)
  BY EmptySeq
<1>2. \A n \in 0..Len(s) : SubSeq(s, 1, n) = [i \in 1..n |-> s[i]]
  BY SMTT(30)
<1>3. Front(s) = [i \in 1..(Len(s) - 1) |-> s[i]]
  BY <1>1, <1>2 DEF Front
<1>4. /\ Front(s) \in Seq(S) /\ Len(Front(s)) = Len(s) - 1
      /\ \A i \in 1..(Len(s) - 1) : Front(s)[i] = s[i]
  BY <1>1, <1>3, ElementOfSeq
<1>5. SubSeq(s, Len(s) + 1, Len(s)) = <<>>
  BY <1>1, SubSeqEmpty
<1>6. RemoveAt(s, Len(s)) = Front(s) \o <<>>
  BY <1>5 DEF RemoveAt, Front
<1>7. QED
  BY <1>1, <1>4, <1>6, ConcatEmptySeq, ElementOfSeq DEF Last

LEMMA FrontHolds ==
    ASSUME NEW S, NEW s \in Seq(S), s # <<>>
    PROVE  /\ ToSet(s) = ToSet(Front(s)) \cup {Last(s)}
           /\ IsInjective(s) => IsInjective(Front(s)) /\ Last(s) \notin ToSet(Front(s))
<1>1. Len(s) \in Nat \ {0}
  BY EmptySeq
<1> DEFINE f == Front(s)
           n == Len(s) - 1
<1>2. /\ n \in Nat /\ Len(s) = n + 1 /\ f \in Seq(S) /\ n = Len(f)
      /\ \A i \in 1..n : f[i] = s[i]
      /\ Last(s) = s[n + 1]
  BY <1>1, FrontIs
<1> HIDE DEF f, n
<1>2a. DOMAIN s = 1..(n + 1) /\ DOMAIN f = 1..n
  BY <1>2, LenProperties
<1>3. /\ \A x : x \in ToSet(s) <=> \E i \in 1..(n + 1) : s[i] = x
      /\ \A x : x \in ToSet(f) <=> \E i \in 1..n : f[i] = x
      /\ IsInjective(s) <=> \A i, j \in 1..(n + 1) : s[i] = s[j] => i = j
      /\ IsInjective(f) <=> \A i, j \in 1..n : f[i] = f[j] => i = j
  BY <1>2a, HoldsUpTo
<1>4. ToSet(s) = ToSet(f) \cup {Last(s)}
  BY <1>2, <1>3
<1>5. IsInjective(s) => IsInjective(f) /\ Last(s) \notin ToSet(f)
  BY <1>2, <1>3
<1>6. QED
  BY <1>4, <1>5 DEF f

LEMMA TailHolds ==
    ASSUME NEW S, NEW s \in Seq(S), s # <<>>
    PROVE  /\ Head(s) \in S /\ Tail(s) \in Seq(S)
           /\ Len(s) = 1 <=> Tail(s) = <<>>
           /\ ToSet(s) = ToSet(Tail(s)) \cup {Head(s)}
           /\ IsInjective(s) => IsInjective(Tail(s)) /\ Head(s) \notin ToSet(Tail(s))
<1>1. Len(s) \in Nat \ {0}
  BY EmptySeq
<1>2. /\ Head(s) \in S /\ Head(s) = s[1] /\ Tail(s) \in Seq(S)
      /\ Len(Tail(s)) = Len(s) - 1
      /\ \A i \in 1..(Len(s) - 1) : Tail(s)[i] = s[i + 1]
  BY <1>1, HeadTailProperties
<1>2a. DOMAIN s = 1..Len(s) /\ DOMAIN Tail(s) = 1..(Len(s) - 1)
  BY <1>2, LenProperties
<1>3. ToSet(s) = ToSet(Tail(s)) \cup {Head(s)}
  <2>1. \A i \in 1..Len(s) : i = 1 \/ (i - 1 \in 1..(Len(s) - 1) /\ s[i] = Tail(s)[i - 1])
    BY <1>1, <1>2
  <2>2. \A i \in 1..(Len(s) - 1) : i + 1 \in 1..Len(s)
    BY <1>1
  <2>3. /\ \A x : x \in ToSet(s) <=> \E i \in 1..Len(s) : s[i] = x
        /\ \A x : x \in ToSet(Tail(s)) <=> \E i \in 1..(Len(s) - 1) : Tail(s)[i] = x
    BY <1>1, <1>2, <1>2a, HoldsUpTo, ZenonT(60)
  <2>4. ASSUME NEW x \in ToSet(s)
        PROVE  x \in ToSet(Tail(s)) \cup {Head(s)}
    BY <1>2, <2>1, <2>3
  <2>5. ToSet(Tail(s)) \subseteq ToSet(s)
    BY <1>2, <2>2, <2>3
  <2>6. Head(s) \in ToSet(s)
    BY <1>1, <1>2, <2>3
  <2>7. QED
    BY <2>4, <2>5, <2>6
<1>4. Len(s) = 1 <=> Tail(s) = <<>>
  <2>1. Tail(s) = <<>> <=> Len(Tail(s)) = 0
    BY <1>2, EmptySeq
  <2>2. QED
    BY <1>1, <1>2, <2>1
<1>5. ASSUME IsInjective(s)
      PROVE  IsInjective(Tail(s)) /\ Head(s) \notin ToSet(Tail(s))
  <2>1. \A i, j \in 1..Len(s) : s[i] = s[j] => i = j
    BY <1>5, HoldsAt
  <2>2. \A i, j \in 1..(Len(s) - 1) : s[i + 1] = s[j + 1] => i = j
    BY <1>1, <2>1
  <2>3. IsInjective(Tail(s)) <=>
            \A i, j \in 1..(Len(s) - 1) : Tail(s)[i] = Tail(s)[j] => i = j
    BY <1>2, HoldsAt
  <2>4. \A i \in 1..(Len(s) - 1) : s[i + 1] # s[1]
    BY <1>1, <2>1
  <2>5. \A x : x \in ToSet(Tail(s)) <=> \E i \in 1..(Len(s) - 1) : Tail(s)[i] = x
    BY <1>2a, HoldsUpTo
  <2>6. QED
    BY <1>2, <2>2, <2>3, <2>4, <2>5
<1>6. QED
  BY <1>2, <1>3, <1>4, <1>5

LEMMA ConcatHolds ==
    ASSUME NEW S, NEW s \in Seq(S), NEW t \in Seq(S)
    PROVE  /\ s \o t \in Seq(S)
           /\ ToSet(s \o t) = ToSet(s) \cup ToSet(t)
           /\ IsPrefix(s, s \o t)
           /\ IsInjective(s) /\ IsInjective(t) /\ ToSet(s) \cap ToSet(t) = {}
                  => IsInjective(s \o t)
<1>1. /\ s \o t \in Seq(S) /\ Len(s \o t) = Len(s) + Len(t)
      /\ Len(s) \in Nat /\ Len(t) \in Nat
      /\ \A i \in 1..(Len(s) + Len(t)) :
             (s \o t)[i] = IF i <= Len(s) THEN s[i] ELSE t[i - Len(s)]
  BY ConcatProperties, LenProperties
<1>2. ToSet(s \o t) = ToSet(s) \cup ToSet(t)
  <2>1. \A j \in 1..Len(t) : j + Len(s) \in 1..(Len(s) + Len(t))
                             /\ (s \o t)[j + Len(s)] = t[j]
    BY <1>1
  <2>2. \A i \in 1..(Len(s) + Len(t)) :
            \/ i \in 1..Len(s) /\ (s \o t)[i] = s[i]
            \/ i - Len(s) \in 1..Len(t) /\ (s \o t)[i] = t[i - Len(s)]
    BY <1>1
  <2>3. \A i \in 1..Len(s) : i \in 1..(Len(s) + Len(t)) /\ (s \o t)[i] = s[i]
    BY <1>1
  <2>4. /\ \A x : x \in ToSet(s \o t) <=> \E i \in 1..(Len(s) + Len(t)) : (s \o t)[i] = x
        /\ \A x : x \in ToSet(s) <=> \E i \in 1..Len(s) : s[i] = x
        /\ \A x : x \in ToSet(t) <=> \E i \in 1..Len(t) : t[i] = x
    <3>1. /\ DOMAIN (s \o t) = 1..(Len(s) + Len(t)) /\ DOMAIN s = 1..Len(s)
          /\ DOMAIN t = 1..Len(t)
      BY <1>1, LenProperties
    <3>2. QED
      BY <3>1, HoldsUpTo
  <2> HIDE <1>1
  <2>5. QED
    BY <2>1, <2>2, <2>3, <2>4, ZenonT(60)
<1>3. IsPrefix(s, s \o t)
  BY <1>1 DEF IsPrefix
<1>4. ASSUME IsInjective(s), IsInjective(t), ToSet(s) \cap ToSet(t) = {}
      PROVE  IsInjective(s \o t)
  <2> SUFFICES ASSUME NEW i \in 1..(Len(s) + Len(t)), NEW j \in 1..(Len(s) + Len(t)),
                      (s \o t)[i] = (s \o t)[j]
               PROVE  i = j
    BY <1>1, HoldsAt
  <2>0. \A m \in 1..Len(s) : \A n \in 1..Len(t) : s[m] # t[n]
    <3>1. /\ \A x : x \in ToSet(s) <=> \E m \in 1..Len(s) : s[m] = x
          /\ \A x : x \in ToSet(t) <=> \E n \in 1..Len(t) : t[n] = x
      BY HoldsAt
    <3>2. QED
      BY <1>4, <3>1
  <2>1. CASE i <= Len(s) /\ j <= Len(s)
    BY <1>1, <1>4, <2>1, HoldsAt
  <2>2. CASE i > Len(s) /\ j > Len(s)
    <3>1. i - Len(s) \in 1..Len(t) /\ j - Len(s) \in 1..Len(t)
      BY <1>1, <2>2
    <3>2. t[i - Len(s)] = t[j - Len(s)]
      BY <1>1, <2>2
    <3>3. i - Len(s) = j - Len(s)
      BY <1>4, <3>1, <3>2, HoldsAt
    <3>4. QED
      BY <1>1, <3>3
  <2>3. CASE i <= Len(s) /\ j > Len(s)
    <3>1. j - Len(s) \in 1..Len(t) /\ s[i] = t[j - Len(s)] /\ i \in 1..Len(s)
      BY <1>1, <2>3
    <3>2. QED
      BY <2>0, <3>1
  <2>4. CASE i > Len(s) /\ j <= Len(s)
    <3>1. i - Len(s) \in 1..Len(t) /\ s[j] = t[i - Len(s)] /\ j \in 1..Len(s)
      BY <1>1, <2>4
    <3>2. QED
      BY <2>0, <3>1
  <2>5. QED
    BY <1>1, <2>1, <2>2, <2>3, <2>4
<1>5. QED
  BY <1>1, <1>2, <1>3, <1>4

LEMMA AppendHolds ==
    ASSUME NEW S, NEW s \in Seq(S), NEW e \in S
    PROVE  /\ Append(s, e) \in Seq(S)
           /\ ToSet(Append(s, e)) = ToSet(s) \cup {e}
           /\ IsPrefix(s, Append(s, e))
           /\ IsInjective(s) /\ e \notin ToSet(s) => IsInjective(Append(s, e))
<1>1. <<e>> \in Seq(S) /\ ToSet(<<e>>) = {e} /\ IsInjective(<<e>>)
  BY DEF ToSet, IsInjective
<1>2. Append(s, e) = s \o <<e>>
  BY AppendIsConcat
<1> DEFINE u == <<e>>
<1> HIDE DEF u
<1>3. u \in Seq(S) /\ ToSet(u) = {e} /\ IsInjective(u) /\ Append(s, e) = s \o u
  BY <1>1, <1>2 DEF u
<1>4. QED
  BY <1>3, ConcatHolds

(* One element is taken out.                                               *)
LEMMA RemoveHolds ==
    ASSUME NEW S, NEW s \in Seq(S), NEW k \in 1..Len(s)
    PROVE  /\ RemoveAt(s, k) \in Seq(S)
           /\ ToSet(s) = ToSet(RemoveAt(s, k)) \cup {s[k]}
           /\ IsInjective(s) => /\ IsInjective(RemoveAt(s, k))
                                /\ s[k] \notin ToSet(RemoveAt(s, k))
<1> DEFINE n == Len(s)
           a == SubSeq(s, 1, k - 1)
           b == SubSeq(s, k + 1, n)
<1>1. n \in Nat /\ k \in 1..n /\ \A i \in 1..n : s[i] \in S
  BY LenProperties, ElementOfSeq
<1>2. a = [i \in 1..(k - 1) |-> s[i]]
  BY <1>1, SMTT(30)
<1>3. b = [i \in 1..(n - k) |-> s[k + i]]
  BY <1>1, SMTT(30)
<1>4. RemoveAt(s, k) = a \o b
  BY DEF RemoveAt
<1> HIDE DEF a, b
<1>5. /\ a \in Seq(S) /\ Len(a) = k - 1
      /\ b \in Seq(S) /\ Len(b) = n - k
  BY <1>1, <1>2, <1>3
<1>6. /\ a \o b \in Seq(S)
      /\ ToSet(a \o b) = ToSet(a) \cup ToSet(b)
      /\ IsInjective(a) /\ IsInjective(b) /\ ToSet(a) \cap ToSet(b) = {}
             => IsInjective(a \o b)
  BY <1>5, ConcatHolds
<1>7. /\ \A x : x \in ToSet(a) <=> \E i \in 1..(k - 1) : s[i] = x
      /\ \A x : x \in ToSet(b) <=> \E i \in 1..(n - k) : s[k + i] = x
  <2>1. /\ \A x : x \in ToSet(a) <=> \E i \in 1..(k - 1) : a[i] = x
        /\ \A x : x \in ToSet(b) <=> \E i \in 1..(n - k) : b[i] = x
    <3>1. DOMAIN a = 1..(k - 1) /\ DOMAIN b = 1..(n - k)
      BY <1>2, <1>3
    <3>2. QED
      BY <3>1, HoldsUpTo
  <2>2. /\ \A i \in 1..(k - 1) : a[i] = s[i]
        /\ \A i \in 1..(n - k) : b[i] = s[k + i]
    BY <1>2, <1>3
  <2>3. \A x : (\E i \in 1..(k - 1) : a[i] = x) <=> (\E i \in 1..(k - 1) : s[i] = x)
    BY <2>2
  <2>4. \A x : (\E i \in 1..(n - k) : b[i] = x) <=> (\E i \in 1..(n - k) : s[k + i] = x)
    BY <2>2
  <2>5. QED
    BY <2>1, <2>3, <2>4
<1>8. ToSet(s) = ToSet(a) \cup ToSet(b) \cup {s[k]}
  <2>1. \A i \in 1..n : i \in 1..(k - 1) \/ i = k \/ (i - k \in 1..(n - k) /\ k + (i - k) = i)
    BY <1>1
  <2>2. (\A i \in 1..(k - 1) : i \in 1..n) /\ (\A i \in 1..(n - k) : k + i \in 1..n)
    BY <1>1
  <2>3. \A x : x \in ToSet(s) <=> \E i \in 1..n : s[i] = x
    BY HoldsAt
  <2> HIDE DEF n
  <2>4. QED
    BY <1>7, <2>1, <2>2, <2>3, <1>1
<1>9. ASSUME IsInjective(s)
      PROVE  /\ IsInjective(a) /\ IsInjective(b) /\ ToSet(a) \cap ToSet(b) = {}
             /\ s[k] \notin ToSet(a) \cup ToSet(b)
  <2>1. \A i, j \in 1..n : s[i] = s[j] => i = j
    BY <1>9, HoldsAt
  <2>2. IsInjective(a)
    BY <1>1, <1>2, <2>1 DEF IsInjective
  <2>3. IsInjective(b)
    BY <1>1, <1>3, <2>1 DEF IsInjective
  <2>4. QED
    BY <1>1, <1>7, <2>1, <2>2, <2>3
<1>10. QED
  BY <1>4, <1>6, <1>8, <1>9

-----------------------------------------------------------------------------
(* Counting, and the functions defined by it.                              *)

(* The least of a set of numbers, because < is well founded.               *)
LEMMA NatMin ==
    ASSUME NEW T, T \subseteq Nat, T # {}
    PROVE  \E x \in T : \A y \in T : x <= y
<1> DEFINE R == OpToRel(<, Nat)
<1>1. IsWellFoundedOn(R, Nat)
  BY NatLessThanWellFounded
<1>2. \A x, y \in Nat : y < x => <<y, x>> \in R
  BY DEF OpToRel
<1> HIDE DEF R
<1>3. PICK x \in T : \A y \in T : ~ (<<y, x>> \in R)
  BY <1>1, WFMin
<1>4. ASSUME NEW y \in T PROVE ~(y < x)
  BY <1>2, <1>3
<1>5. \A y \in T : x <= y
  BY <1>4
<1>6. QED
  BY <1>5

(* Counting up to m meets only members of T, when T holds 0 and is closed   *)
(* under the next number: a minimal number that is no member contradicts.  *)
LEMMA CountingUp ==
    ASSUME NEW m \in Nat, NEW T, 0 \in T,
           \A n \in 0..m - 1 : n \in T => n + 1 \in T
    PROVE  0..m \subseteq T
<1> SUFFICES ASSUME (0..m) \ T # {} PROVE FALSE
  OBVIOUS
<1>0. (0..m) \ T \subseteq Nat
  OBVIOUS
<1>1. PICK x \in (0..m) \ T : \A y \in (0..m) \ T : x <= y
  BY <1>0, NatMin
<1>2. x # 0 /\ x - 1 \in 0..m - 1 /\ x - 1 \in 0..m /\ ~(x <= x - 1)
  BY <1>1
<1>3. x - 1 \in T
  BY <1>1, <1>2
<1>4. QED
  BY <1>1, <1>2, <1>3

(* A function by recursion on its argument: the m-th step from "base".      *)
Repeats(f, base, m, step) ==
    f[0] = base /\ \A n \in 1..m : f[n] = step[n][f[n - 1]]

(* Such a function exists for all steps within a set A.                    *)
LEMMA Iterates ==
    ASSUME NEW A, NEW base \in A, NEW m \in Nat, NEW step \in [1..m -> [A -> A]]
    PROVE  \E f \in [0..m -> A] : Repeats(f, base, m, step)
<1> DEFINE Runs(k, f) == f[0] = base /\ \A n \in 1..k : f[n] = step[n][f[n - 1]]
           T == {k \in 0..m : \E f \in [0..k -> A] : Runs(k, f)}
<1>1. 0 \in T
  <2>1. PICK f : f = [n \in 0..0 |-> base]
    OBVIOUS
  <2>2. f \in [0..0 -> A] /\ f[0] = base
    BY <2>1
  <2>3. QED
    BY <2>2
<1>2. ASSUME NEW k \in 0..m - 1, k \in T PROVE k + 1 \in T
  <2>1. PICK f \in [0..k -> A] : Runs(k, f)
    BY <1>2
  <2> HIDE DEF T
  <2>3. f[k] \in A /\ k + 1 \in 1..m /\ k \in Nat
    OBVIOUS
  <2>4. step[k + 1] \in [A -> A]
    BY <2>3
  <2>4a. step[k + 1][f[k]] \in A
    BY <2>3, <2>4
  <2>4b. PICK e \in A : e = step[k + 1][f[k]]
    BY <2>4a
  <2>2. PICK g : g = [n \in 0..k + 1 |-> IF n = k + 1 THEN e ELSE f[n]]
    OBVIOUS
  <2>5. \A n \in 0..k : f[n] \in A /\ g[n] = f[n]
    BY <2>2
  <2>5a. g[k + 1] = e
    BY <2>2, <2>3
  <2>6. g \in [0..k + 1 -> A]
    BY <2>2, <2>5
  <2>7. g[0] = base
    BY <2>1, <2>5, <2>3
  <2>8. ASSUME NEW n \in 1..k + 1 PROVE g[n] = step[n][g[n - 1]]
    <3>1. CASE n = k + 1
      <4>1. n - 1 = k /\ k \in 0..k
        BY <3>1, <2>3
      <4>2. QED
        BY <3>1, <4>1, <2>5, <2>5a, <2>4b
    <3>2. CASE n \in 1..k
      <4>1. n \in 0..k /\ n - 1 \in 0..k
        BY <3>2
      <4>2. f[n] = step[n][f[n - 1]]
        BY <3>2, <2>1
      <4>3. QED
        BY <4>1, <4>2, <2>5
    <3>3. QED
      BY <3>1, <3>2
  <2>9. k + 1 \in 0..m
    OBVIOUS
  <2>10. QED
    BY <2>6, <2>7, <2>8, <2>9 DEF T
<1>3. m \in T
  <2> HIDE DEF T
  <2>1. 0..m \subseteq T
    BY <1>1, <1>2, CountingUp
  <2>2. QED
    BY <2>1
<1>4. QED
  BY <1>3 DEF Repeats

(* What Picked computes, as a function from how many items were looked at. *)
Counts(g, s, places) ==
    /\ g[0] = <<>>
    /\ \A n \in 1..Len(s) :
           g[n] = IF n \in places THEN Append(g[n - 1], s[n]) ELSE g[n - 1]

LEMMA PickedCount ==
    ASSUME NEW S, NEW s \in Seq(S), NEW places
    PROVE  \E g \in [0..Len(s) -> Seq(S)] :
              Counts(g, s, places) /\ Picked(s, places) = g[Len(s)]
<1> DEFINE Next(t, n) == IF n \in places THEN Append(t, s[n]) ELSE t
           Nth(g, n) == IF n = 0 THEN <<>> ELSE Next(g[n - 1], n)
<1>1. PICK m \in Nat : m = Len(s)
  OBVIOUS
<1>2. PICK A : A = Seq(S)
  OBVIOUS
<1>3. <<>> \in A /\ \A n \in 1..m, t \in A : Next(t, n) \in A
  BY <1>1, <1>2, AppendProperties
<1>4. \A f : f = [n \in 0..m |-> Nth(f, n)]
                 => \E g : g = [n \in 0..m |-> Nth(g, n)] /\ Picked(s, places) = g[m]
  BY <1>1 DEF Picked
<1> HIDE DEF Next
<1>5. PICK step : step = [n \in 1..m |-> [t \in A |-> Next(t, n)]]
  OBVIOUS
<1>6. step \in [1..m -> [A -> A]] /\ \A n \in 1..m, t \in A : step[n][t] = Next(t, n)
  BY <1>3, <1>5
<1>7. PICK f \in [0..m -> A] : Repeats(f, <<>>, m, step)
  <2>1. <<>> \in A /\ step \in [1..m -> [A -> A]]
    BY <1>3, <1>6
  <2>2. QED
    BY <2>1, Iterates
<1>8. \A n \in 0..m : f[n] = Nth(f, n)
  <2>1. ASSUME NEW n \in 1..m PROVE f[n] = Next(f[n - 1], n)
    <3>1. f[n - 1] \in A
      OBVIOUS
    <3>2. QED
      BY <3>1, <1>6, <1>7 DEF Repeats
  <2>2. QED
    BY <2>1, <1>7 DEF Repeats
<1> HIDE DEF Nth
<1>9. f = [n \in 0..m |-> Nth(f, n)]
  <2>1. f = [n \in 0..m |-> f[n]]
    OBVIOUS
  <2>2. QED
    BY <2>1, <1>8
<1>10. PICK g : g = [n \in 0..m |-> Nth(g, n)] /\ Picked(s, places) = g[m]
  BY <1>4, <1>9
<1>11. \A n \in 0..m : g[n] = Nth(g, n)
  BY <1>10
<1>12. g[0] = <<>> /\ \A n \in 1..m : g[n] = Next(g[n - 1], n)
  BY <1>11 DEF Nth
<1>13. \A n \in 0..m : g[n] \in A
  <2> DEFINE T == {n \in 0..m : g[n] \in A}
  <2>1. 0 \in T
    BY <1>12, <1>3
  <2>2. ASSUME NEW n \in 0..m - 1, n \in T PROVE n + 1 \in T
    <3>1. n + 1 \in 1..m /\ (n + 1) - 1 = n /\ n + 1 \in 0..m
      OBVIOUS
    <3>2. QED
      BY <3>1, <1>12, <2>2, <1>3
  <2>3. 0..m \subseteq T
    <3> HIDE DEF T
    <3>1. QED
      BY <2>1, <2>2, CountingUp
  <2>4. QED
    BY <2>3
<1>14. g \in [0..m -> A]
  <2>1. DOMAIN g = 0..m /\ g = [n \in 0..m |-> g[n]]
    BY <1>10
  <2>2. QED
    BY <2>1, <1>13
<1>15. QED
  BY <1>1, <1>2, <1>10, <1>12, <1>14 DEF Next, Counts

(* p goes through the numbers of the set I in their order.                  *)
Enumerates(p, m, I) ==
    /\ m \in Nat /\ p \in [1..m -> I]
    /\ \A j, k \in 1..m : j < k => p[j] < p[k]
    /\ \A i \in I : \E k \in 1..m : p[k] = i

(* There is one way to do so.                                              *)
LEMMA EnumerationsAgree ==
    ASSUME NEW I, I \subseteq Nat, NEW p, NEW m, NEW q, NEW n,
           Enumerates(p, m, I), Enumerates(q, n, I)
    PROVE  m = n /\ p = q
<1> DEFINE D == {k \in 1..m : k \notin 1..n \/ p[k] # q[k]}
           E == {k \in 1..n : k \notin 1..m \/ p[k] # q[k]}
<1>1. /\ m \in Nat /\ n \in Nat /\ p \in [1..m -> I] /\ q \in [1..n -> I]
      /\ \A j, k \in 1..m : j < k => p[j] < p[k]
      /\ \A j, k \in 1..n : j < k => q[j] < q[k]
      /\ \A i \in I : \E k \in 1..m : p[k] = i
      /\ \A i \in I : \E k \in 1..n : q[k] = i
  BY DEF Enumerates
<1>2. \A k \in 1..m : p[k] \in Nat
  BY <1>1
<1>3. \A k \in 1..n : q[k] \in Nat
  BY <1>1
<1>4. D \cup E = {}
  <2>1. SUFFICES ASSUME D \cup E # {} PROVE FALSE
    OBVIOUS
  <2>2. D \cup E \subseteq Nat
    BY <1>1
  <2>3. PICK k \in D \cup E : \A j \in D \cup E : k <= j
    BY <2>1, <2>2, NatMin
  <2>4. \A j \in 1..(k - 1) : j \in 1..m /\ j \in 1..n /\ p[j] = q[j]
    <3>1. ASSUME NEW j \in 1..(k - 1) PROVE j \in 1..m /\ j \in 1..n /\ p[j] = q[j]
      <4>1. j \notin D \cup E
        <5>1. ~(k <= j)
          BY <2>2, <3>1
        <5>2. QED
          BY <2>3, <5>1
      <4>2. j \in 1..m \/ j \in 1..n
        BY <1>1, <2>2, <2>3
      <4>3. QED
        BY <4>1, <4>2
    <3>2. QED
      BY <3>1
  <2>5. ASSUME k \in 1..m PROVE FALSE
    <3>1. PICK l \in 1..n : q[l] = p[k]
      BY <1>1, <2>5
    <3>2. ~(l < k)
      <4>1. SUFFICES ASSUME l < k PROVE FALSE
        OBVIOUS
      <4>2. l \in 1..(k - 1)
        BY <1>1, <2>5, <4>1
      <4>3. l \in 1..m /\ p[l] = p[k]
        BY <2>4, <3>1, <4>2
      <4>4. p[l] < p[k]
        BY <1>1, <2>5, <4>1, <4>3
      <4>5. QED
        BY <1>2, <2>5, <4>3, <4>4
    <3>3. k \in 1..n
      BY <1>1, <2>5, <3>2
    <3>4. p[k] # q[k]
      BY <2>3, <2>5, <3>3
    <3>5. k < l
      BY <1>1, <3>1, <3>2, <3>3, <3>4
    <3>6. q[k] < p[k]
      BY <1>1, <3>1, <3>3, <3>5
    <3>7. PICK j \in 1..m : p[j] = q[k]
      BY <1>1, <3>3
    <3>8. ~(j < k)
      <4>1. SUFFICES ASSUME j < k PROVE FALSE
        OBVIOUS
      <4>2. j \in 1..(k - 1)
        BY <1>1, <2>5, <4>1
      <4>3. j \in 1..n /\ q[j] = q[k]
        BY <2>4, <3>7, <4>2
      <4>4. q[j] < q[k]
        BY <1>1, <3>3, <4>1, <4>3
      <4>5. QED
        BY <1>3, <3>3, <4>3, <4>4
    <3>9. j = k \/ p[k] < p[j]
      BY <1>1, <2>5, <3>8
    <3>10. QED
      BY <1>2, <1>3, <2>5, <3>3, <3>4, <3>6, <3>7, <3>9
  <2>6. k \in 1..n /\ k \notin 1..m
    BY <2>3, <2>5
  <2>7. PICK j \in 1..m : p[j] = q[k]
    BY <1>1, <2>6
  <2>8. j \in 1..(k - 1)
    BY <1>1, <2>6
  <2>9. j \in 1..n /\ q[j] = q[k] /\ q[j] < q[k]
    BY <1>1, <2>4, <2>6, <2>7, <2>8
  <2>10. QED
    BY <1>3, <2>6, <2>9
<1>5. m = n
  <2>1. m > n => m \in D
    BY <1>1
  <2>2. n > m => n \in E
    BY <1>1
  <2>3. QED
    BY <1>1, <1>4, <2>1, <2>2
<1>6. \A k \in 1..m : p[k] = q[k]
  BY <1>4
<1>7. QED
  BY <1>1, <1>5, <1>6

(* Picked goes through its places in their order.                          *)
LEMMA PickedAre ==
    ASSUME NEW S, NEW s \in Seq(S), NEW I \in SUBSET DOMAIN s
    PROVE  /\ Picked(s, I) \in Seq(S)
           /\ \E p : /\ Enumerates(p, Len(Picked(s, I)), I)
                     /\ Picked(s, I) = [k \in 1..Len(Picked(s, I)) |-> s[p[k]]]
<1>1. PICK g \in [0..Len(s) -> Seq(S)] : Counts(g, s, I) /\ Picked(s, I) = g[Len(s)]
  BY PickedCount
<1>2. PICK m \in Nat : m = Len(s)
  OBVIOUS
<1>3. I \subseteq 1..m
  BY <1>2
<1> DEFINE Upto(n) == {i \in I : i <= n}
           T == {n \in 0..m : \E p : /\ Enumerates(p, Len(g[n]), Upto(n))
                                     /\ g[n] = [k \in 1..Len(g[n]) |-> s[p[k]]]}
<1>4. 0 \in T
  <2>1. PICK p : p = [k \in 1..0 |-> 0]
    OBVIOUS
  <2>2. g[0] = <<>> /\ Len(g[0]) = 0 /\ Upto(0) = {}
    BY <1>1, <1>3 DEF Counts
  <2>3. Enumerates(p, 0, {})
    BY <2>1 DEF Enumerates
  <2>4. <<>> = [k \in 1..0 |-> s[p[k]]]
    OBVIOUS
  <2>5. Enumerates(p, Len(g[0]), Upto(0)) /\ g[0] = [k \in 1..Len(g[0]) |-> s[p[k]]]
    BY <2>2, <2>3, <2>4
  <2>6. 0 \in 0..m
    OBVIOUS
  <2> HIDE DEF Upto
  <2>7. QED
    BY <2>5, <2>6
<1>5. ASSUME NEW n \in 0..m - 1, n \in T PROVE n + 1 \in T
  <2>1. n + 1 \in 1..m /\ (n + 1) - 1 = n /\ n + 1 \in 0..m /\ n \in 0..m
    OBVIOUS
  <2>2. g[n + 1] = IF n + 1 \in I THEN Append(g[n], s[n + 1]) ELSE g[n]
    BY <1>1, <1>2, <2>1 DEF Counts
  <2>3. PICK p : /\ Enumerates(p, Len(g[n]), Upto(n))
                 /\ g[n] = [k \in 1..Len(g[n]) |-> s[p[k]]]
    BY <1>5
  <2>4. CASE n + 1 \notin I
    <3>1. Upto(n + 1) = Upto(n)
      BY <1>3, <2>4
    <3>2. QED
      BY <2>1, <2>2, <2>3, <2>4, <3>1
  <2>5. CASE n + 1 \in I
    <3>1. Upto(n + 1) = Upto(n) \cup {n + 1}
      BY <1>3, <2>5
    <3>2. PICK l \in Nat : l = Len(g[n])
      BY <1>1, <1>2, <2>1
    <3>3. PICK q : q = [k \in 1..(l + 1) |-> IF k = l + 1 THEN n + 1 ELSE p[k]]
      OBVIOUS
    <3>4. g[n] \in Seq(S) /\ s[n + 1] \in S
      BY <1>1, <1>2, <2>1
    <3>5. /\ g[n + 1] = Append(g[n], s[n + 1]) /\ Len(g[n + 1]) = l + 1
          /\ g[n + 1] = [k \in 1..(l + 1) |-> IF k = l + 1 THEN s[n + 1] ELSE g[n][k]]
      BY <2>2, <2>5, <3>2, <3>4
    <3>6. \A k \in 1..l : p[k] \in Upto(n) /\ p[k] < n + 1 /\ p[k] \in Nat
      <4>1. p \in [1..l -> Upto(n)]
        BY <2>3, <3>2 DEF Enumerates
      <4>2. \A i \in Upto(n) : i < n + 1 /\ i \in Nat
        BY <1>3
      <4>3. QED
        BY <4>1, <4>2
    <3>7. \A k \in 1..(l + 1) : k # l + 1 => k \in 1..l
      OBVIOUS
    <3>8. q \in [1..(l + 1) -> Upto(n + 1)]
      BY <3>1, <3>3, <3>6, <3>7
    <3>9. \A j, k \in 1..(l + 1) : j < k => q[j] < q[k]
      <4>1. SUFFICES ASSUME NEW j \in 1..(l + 1), NEW k \in 1..(l + 1), j < k
                     PROVE  q[j] < q[k]
        OBVIOUS
      <4>2. j \in 1..l /\ q[j] = p[j]
        BY <3>3, <4>1
      <4>3. CASE k = l + 1
        BY <3>3, <3>6, <4>2, <4>3
      <4>4. CASE k # l + 1
        <5>1. k \in 1..l /\ q[k] = p[k]
          BY <3>3, <4>4
        <5>2. p[j] < p[k]
          BY <2>3, <3>2, <4>1, <4>2, <5>1 DEF Enumerates
        <5>3. QED
          BY <4>2, <5>1, <5>2
      <4>5. QED
        BY <4>3, <4>4
    <3>10. \A i \in Upto(n + 1) : \E k \in 1..(l + 1) : q[k] = i
      <4>1. SUFFICES ASSUME NEW i \in Upto(n + 1) PROVE \E k \in 1..(l + 1) : q[k] = i
        OBVIOUS
      <4>2. CASE i = n + 1
        BY <3>3, <4>2
      <4>3. CASE i # n + 1
        <5>1. PICK k \in 1..l : p[k] = i
          BY <2>3, <3>1, <3>2, <4>1, <4>3 DEF Enumerates
        <5>2. k \in 1..(l + 1) /\ q[k] = p[k]
          BY <3>3
        <5>3. QED
          BY <5>1, <5>2
      <4>4. QED
        BY <4>2, <4>3
    <3> HIDE DEF Upto
    <3>11. Enumerates(q, l + 1, Upto(n + 1))
      BY <3>8, <3>9, <3>10 DEF Enumerates
    <3>12. g[n + 1] = [k \in 1..(l + 1) |-> s[q[k]]]
      <4>1. \A k \in 1..(l + 1) :
                (IF k = l + 1 THEN s[n + 1] ELSE g[n][k]) = s[q[k]]
        <5>1. \A k \in 1..l : g[n][k] = s[p[k]]
          BY <2>3, <3>2
        <5>2. QED
          BY <3>3, <3>7, <5>1
      <4>2. QED
        BY <3>5, <4>1
    <3>13. /\ Enumerates(q, Len(g[n + 1]), Upto(n + 1))
           /\ g[n + 1] = [k \in 1..Len(g[n + 1]) |-> s[q[k]]]
      BY <3>5, <3>11, <3>12
    <3>14. QED
      BY <2>1, <3>13
  <2>6. QED
    BY <2>4, <2>5
<1>6. m \in T
  <2> HIDE DEF T
  <2>1. 0..m \subseteq T
    BY <1>4, <1>5, CountingUp
  <2>2. QED
    BY <2>1
<1>7. Upto(m) = I
  BY <1>3
<1> HIDE DEF Upto
<1>8. QED
  BY <1>1, <1>2, <1>6, <1>7

LEMMA PickedBy ==
    ASSUME NEW S, NEW s \in Seq(S), NEW I \in SUBSET DOMAIN s
    PROVE  \E p, m : /\ Enumerates(p, m, I) /\ m = Len(Picked(s, I))
                     /\ Picked(s, I) = [k \in 1..m |-> s[p[k]]]
<1>1. PICK m : m = Len(Picked(s, I))
  OBVIOUS
<1>2. PICK p : /\ Enumerates(p, m, I)
               /\ Picked(s, I) = [k \in 1..m |-> s[p[k]]]
  BY <1>1, PickedAre
<1>3. QED
  BY <1>1, <1>2

(* Each place is picked once.                                              *)
LEMMA EnumerationCounts ==
    ASSUME NEW I, I \subseteq Nat, NEW p, NEW m, Enumerates(p, m, I)
    PROVE  IsFiniteSet(I) /\ Cardinality(I) = m
           /\ \A j, k \in 1..m : p[j] = p[k] => j = k
<1>1. /\ m \in Nat /\ p \in [1..m -> I]
      /\ \A j, k \in 1..m : j < k => p[j] < p[k]
      /\ \A i \in I : \E k \in 1..m : p[k] = i
  BY DEF Enumerates
<1>2. ASSUME NEW j \in 1..m, NEW k \in 1..m, p[j] = p[k] PROVE j = k
  <2>1. p[j] \in Nat /\ p[k] \in Nat
    BY <1>1
  <2>2. ~(j < k) /\ ~(k < j)
    BY <1>1, <1>2, <2>1
  <2>3. QED
    BY <1>1, <2>2
<1>3. p \in Bijection(1..m, I)
  BY <1>1, <1>2 DEF Bijection, Injection, Surjection, IsInjective
<1>4. IsFiniteSet(1..m) /\ Cardinality(1..m) = m
  BY <1>1, FS_Interval
<1>5. ExistsBijection(1..m, I)
  BY <1>3 DEF ExistsBijection
<1>6. QED
  BY <1>2, <1>4, <1>5, FS_Bijection

LEMMA PickedCounts ==
    ASSUME NEW S, NEW s \in Seq(S), NEW I \in SUBSET DOMAIN s
    PROVE  /\ Len(Picked(s, I)) = Cardinality(I)
           /\ ToSet(Picked(s, I)) = {s[i] : i \in I}
<1>1. PICK p : /\ Enumerates(p, Len(Picked(s, I)), I)
               /\ Picked(s, I) = [k \in 1..Len(Picked(s, I)) |-> s[p[k]]]
  BY PickedAre
<1>2. I \subseteq Nat
  BY LenProperties
<1>3. Len(Picked(s, I)) = Cardinality(I)
  BY <1>1, <1>2, EnumerationCounts
<1>4. ToSet(Picked(s, I)) = {s[i] : i \in I}
  <2>1. PICK m : m = Len(Picked(s, I))
    OBVIOUS
  <2>2. ToSet(Picked(s, I)) = {s[p[k]] : k \in 1..m}
    BY <1>1, <2>1 DEF ToSet
  <2>3. p \in [1..m -> I] /\ \A i \in I : \E k \in 1..m : p[k] = i
    BY <1>1, <2>1 DEF Enumerates
  <2>4. QED
    BY <2>2, <2>3
<1>5. QED
  BY <1>3, <1>4

(* All of a list.                                                          *)
LEMMA PickedAll == ASSUME NEW S, NEW s \in Seq(S) PROVE Picked(s, DOMAIN s) = s
<1> DEFINE all == [k \in 1..Len(s) |-> k]
<1>1. PICK p, m : /\ Enumerates(p, m, DOMAIN s)
                  /\ Picked(s, DOMAIN s) = [k \in 1..m |-> s[p[k]]]
  <2>1. PICK I \in SUBSET DOMAIN s : I = DOMAIN s
    OBVIOUS
  <2>2. \E p, m : /\ Enumerates(p, m, I) /\ m = Len(Picked(s, I))
                  /\ Picked(s, I) = [k \in 1..m |-> s[p[k]]]
    BY PickedBy
  <2>3. QED
    BY <2>1, <2>2
<1>2. DOMAIN s = 1..Len(s) /\ Len(s) \in Nat
  OBVIOUS
<1>3. Enumerates(all, Len(s), DOMAIN s)
  BY <1>2 DEF Enumerates
<1>4. m = Len(s) /\ p = all
  <2>1. DOMAIN s \subseteq Nat
    BY <1>2
  <2> HIDE DEF all
  <2>2. QED
    BY <1>1, <1>3, <2>1, EnumerationsAgree
<1>5. Picked(s, DOMAIN s) = [k \in 1..Len(s) |-> s[k]]
  BY <1>1, <1>4
<1>6. QED
  BY <1>2, <1>5

(* A list with something twice is longer than it has elements.             *)
LEMMA TwiceIs ==
    ASSUME NEW S, NEW s \in Seq(S)
    PROVE  Cardinality(ToSet(s)) < Len(s)
               <=> \E i, j \in 1..Len(s) : i < j /\ s[i] = s[j]
<1>1. DOMAIN s = 1..Len(s) /\ Len(s) \in Nat
  OBVIOUS
<1>2. s \in Surjection(1..Len(s), ToSet(s))
  BY <1>1, HoldsAt DEF Surjection, ToSet
<1>3. IsFiniteSet(1..Len(s)) /\ Cardinality(1..Len(s)) = Len(s)
  BY <1>1, FS_Interval, SMTT(30)
<1>4. /\ Cardinality(ToSet(s)) <= Len(s)
      /\ Cardinality(ToSet(s)) = Len(s) <=> s \in Injection(1..Len(s), ToSet(s))
      /\ Cardinality(ToSet(s)) \in Nat
  BY <1>2, <1>3, FS_Surjection, FS_CardinalityType
<1>5. s \in Injection(1..Len(s), ToSet(s))
          <=> \A i, j \in 1..Len(s) : s[i] = s[j] => i = j
  BY <1>2 DEF Injection, IsInjective, Surjection
<1>6. (\A i, j \in 1..Len(s) : s[i] = s[j] => i = j)
          <=> ~\E i, j \in 1..Len(s) : i < j /\ s[i] = s[j]
  BY <1>1
<1>7. QED
  BY <1>1, <1>4, <1>5, <1>6

(* Lists whose items pass the same tests at the same places.               *)
PickedAlike(s, t, I) ==
    \E p, m : /\ Enumerates(p, m, I)
              /\ Len(Picked(s, I)) = m /\ Len(Picked(t, I)) = m
              /\ \A k \in 1..m : Picked(s, I)[k] = s[p[k]] /\ Picked(t, I)[k] = t[p[k]]
LEMMA PickedAgree ==
    ASSUME NEW S, NEW s \in Seq(S), NEW R, NEW t \in Seq(R), NEW I \in SUBSET DOMAIN s,
           Len(s) = Len(t)
    PROVE  PickedAlike(s, t, I)
<1>1. PICK p : /\ Enumerates(p, Len(Picked(s, I)), I)
               /\ Picked(s, I) = [k \in 1..Len(Picked(s, I)) |-> s[p[k]]]
  BY PickedAre
<1>2. I \in SUBSET DOMAIN t /\ I \subseteq Nat
  BY LenProperties
<1>3. PICK q : /\ Enumerates(q, Len(Picked(t, I)), I)
               /\ Picked(t, I) = [k \in 1..Len(Picked(t, I)) |-> t[q[k]]]
  BY <1>2, PickedAre
<1>4. Len(Picked(s, I)) = Len(Picked(t, I)) /\ p = q
  BY <1>1, <1>2, <1>3, EnumerationsAgree, Zenon
<1>5. QED
  BY <1>1, <1>3, <1>4 DEF PickedAlike

(* Of two lists, one behind the other, the picked ones stay so.            *)
Behind(s, I, J) == I \cup {Len(s) + j : j \in J}
LEMMA PickedOfBoth ==
    ASSUME NEW S, NEW s \in Seq(S), NEW t \in Seq(S),
           NEW I \in SUBSET DOMAIN s, NEW J \in SUBSET DOMAIN t
    PROVE  Picked(s \o t, Behind(s, I, J)) = Picked(s, I) \o Picked(t, J)
<1> PICK K : K = I \cup {Len(s) + j : j \in J}
  OBVIOUS
<1>1. PICK a \in Nat : a = Len(s)
  OBVIOUS
<1>2. PICK b \in Nat : b = Len(t)
  OBVIOUS
<1>3. /\ DOMAIN s = 1..a /\ DOMAIN t = 1..b /\ s \o t \in Seq(S)
      /\ DOMAIN (s \o t) = 1..(a + b)
      /\ \A i \in 1..a : (s \o t)[i] = s[i]
      /\ \A j \in 1..b : (s \o t)[a + j] = t[j]
  BY <1>1, <1>2
<1>4. PICK p, m : Enumerates(p, m, I) /\ Picked(s, I) = [k \in 1..m |-> s[p[k]]]
  BY PickedBy
<1>5. PICK q, n : Enumerates(q, n, J) /\ Picked(t, J) = [k \in 1..n |-> t[q[k]]]
  <2>1. \E v, e : /\ Enumerates(v, e, J) /\ e = Len(Picked(t, J))
                  /\ Picked(t, J) = [k \in 1..e |-> t[v[k]]]
    BY PickedBy
  <2>2. QED
    BY <2>1
<1>6. K \in SUBSET DOMAIN (s \o t)
  BY <1>1, <1>2, <1>3
<1>7. PICK r, l : Enumerates(r, l, K) /\ Picked(s \o t, K) = [k \in 1..l |-> (s \o t)[r[k]]]
  <2>1. PICK u : u = s \o t
    OBVIOUS
  <2>2. u \in Seq(S) /\ K \in SUBSET DOMAIN u
    BY <1>3, <1>6, <2>1
  <2>3. \E v, e : /\ Enumerates(v, e, K) /\ e = Len(Picked(u, K))
                  /\ Picked(u, K) = [k \in 1..e |-> u[v[k]]]
    BY <2>2, PickedBy
  <2>4. QED
    BY <2>1, <2>3
<1>8. PICK u : u = [k \in 1..(m + n) |-> IF k <= m THEN p[k] ELSE a + q[k - m]]
  OBVIOUS
<1>9. /\ m \in Nat /\ p \in [1..m -> I] /\ n \in Nat /\ q \in [1..n -> J]
      /\ \A j, k \in 1..m : j < k => p[j] < p[k]
      /\ \A j, k \in 1..n : j < k => q[j] < q[k]
      /\ \A i \in I : \E k \in 1..m : p[k] = i
      /\ \A i \in J : \E k \in 1..n : q[k] = i
  BY <1>4, <1>5 DEF Enumerates
<1>10. \A k \in 1..(m + n) :
           \/ k \in 1..m /\ k <= m /\ u[k] = p[k] /\ p[k] \in I /\ p[k] \in 1..a
           \/ /\ ~(k <= m) /\ k - m \in 1..n /\ u[k] = a + q[k - m]
              /\ q[k - m] \in J /\ q[k - m] \in 1..b
  <2>1. SUFFICES ASSUME NEW k \in 1..(m + n)
                 PROVE  \/ k \in 1..m /\ k <= m /\ u[k] = p[k] /\ p[k] \in I /\ p[k] \in 1..a
                        \/ /\ ~(k <= m) /\ k - m \in 1..n /\ u[k] = a + q[k - m]
                           /\ q[k - m] \in J /\ q[k - m] \in 1..b
    OBVIOUS
  <2>2. CASE k <= m
    <3>1. k \in 1..m
      BY <1>9, <2>2
    <3>2. QED
      BY <1>3, <1>8, <1>9, <2>2, <3>1
  <2>3. CASE ~(k <= m)
    <3>1. k - m \in 1..n
      BY <1>9, <2>3
    <3>2. QED
      BY <1>3, <1>8, <1>9, <2>3, <3>1
  <2>4. QED
    BY <2>2, <2>3
<1>11. Enumerates(u, m + n, K)
  <2>1. u \in [1..(m + n) -> K]
    <3>1. \A k \in 1..(m + n) : u[k] \in K
      BY <1>1, <1>10
    <3>2. QED
      BY <1>8, <3>1
  <2>2. ASSUME NEW j \in 1..(m + n), NEW k \in 1..(m + n), j < k PROVE u[j] < u[k]
    <3>1. CASE k <= m
      <4>1. j \in 1..m /\ k \in 1..m /\ u[j] = p[j] /\ u[k] = p[k]
        BY <1>9, <1>10, <2>2, <3>1
      <4>2. QED
        BY <1>9, <2>2, <4>1
    <3>2. CASE ~(k <= m) /\ j <= m
      BY <1>10, <3>2, SMTT(30)
    <3>3. CASE ~(k <= m) /\ ~(j <= m)
      <4>1. /\ j - m \in 1..n /\ k - m \in 1..n /\ j - m < k - m
            /\ u[j] = a + q[j - m] /\ u[k] = a + q[k - m]
            /\ q[j - m] \in 1..b /\ q[k - m] \in 1..b
        <5>1. j - m < k - m
          BY <1>9, <2>2
        <5>2. QED
          BY <1>10, <3>3, <5>1
      <4>2. q[j - m] < q[k - m]
        BY <1>9, <4>1
      <4>3. QED
        BY <4>1, <4>2
    <3>4. QED
      BY <3>1, <3>2, <3>3
  <2>3. ASSUME NEW i \in K PROVE \E k \in 1..(m + n) : u[k] = i
    <3>1. CASE i \in I
      <4>1. PICK k \in 1..m : p[k] = i
        BY <1>9, <3>1
      <4>2. k \in 1..(m + n) /\ u[k] = p[k]
        BY <1>8, <1>9
      <4>3. QED
        BY <4>1, <4>2
    <3>2. CASE i \notin I
      <4>1. PICK j \in J : i = a + j
        BY <1>1, <2>3, <3>2
      <4>2. PICK k \in 1..n : q[k] = j
        BY <1>9
      <4>3. /\ m + k \in 1..(m + n) /\ ~(m + k <= m) /\ (m + k) - m = k
        BY <1>9
      <4>4. u[m + k] = a + q[k]
        BY <1>8, <4>3
      <4>5. QED
        BY <4>1, <4>2, <4>3, <4>4
    <3>3. QED
      BY <3>1, <3>2
  <2>4. QED
    BY <1>9, <2>1, <2>2, <2>3 DEF Enumerates
<1>12. K \subseteq Nat
  BY <1>3, <1>6
<1>13. l = m + n /\ r = u
  BY <1>7, <1>11, <1>12, EnumerationsAgree
<1>14. \A k \in 1..(m + n) :
           (s \o t)[u[k]] = (IF k <= m THEN s[p[k]] ELSE t[q[k - m]])
  BY <1>3, <1>10
<1>15. Picked(s \o t, K) = [k \in 1..(m + n) |-> IF k <= m THEN s[p[k]] ELSE t[q[k - m]]]
  BY <1>7, <1>13, <1>14
<1>16. Picked(s, I) \o Picked(t, J)
           = [k \in 1..(m + n) |-> IF k <= m THEN s[p[k]] ELSE t[q[k - m]]]
  <2>1. PICK x : x = Picked(s, I)
    OBVIOUS
  <2>2. PICK y : y = Picked(t, J)
    OBVIOUS
  <2>3. /\ x \in Seq(S) /\ Len(x) = m /\ x = [k \in 1..m |-> s[p[k]]]
        /\ y \in Seq(S) /\ Len(y) = n /\ y = [k \in 1..n |-> t[q[k]]]
    BY <1>4, <1>5, <1>9, <2>1, <2>2, PickedAre
  <2>4. x \o y = [k \in 1..(m + n) |-> IF k <= m THEN x[k] ELSE y[k - m]]
    <3>1. x \o y \in Seq(S) /\ Len(x \o y) = m + n
      BY <2>3, ConcatProperties, ZenonT(60)
    <3>2. \A k \in 1..(m + n) : (x \o y)[k] = IF k <= m THEN x[k] ELSE y[k - m]
      BY <2>3, <1>9, ConcatProperties
    <3>3. PICK z : z = x \o y
      OBVIOUS
    <3>4. z \in Seq(S) /\ Len(z) = m + n
      BY <3>1, <3>3
    <3>5. z = [k \in 1..(m + n) |-> z[k]]
      BY <3>4
    <3>6. QED
      BY <3>2, <3>3, <3>5
  <2>5. \A k \in 1..(m + n) : /\ k <= m => x[k] = s[p[k]]
                              /\ ~(k <= m) => y[k - m] = t[q[k - m]]
    BY <1>9, <2>3
  <2>6. QED
    BY <2>1, <2>2, <2>4, <2>5
<1>17. QED
  BY <1>15, <1>16 DEF Behind

ArePickedInTurn(s, t, I, J) ==
    Picked(s \o t, Behind(s, I, J)) = Picked(s, I) \o Picked(t, J)
LEMMA PickedOfTwo ==
    ASSUME NEW S, NEW s \in Seq(S), NEW t \in Seq(S),
           NEW I \in SUBSET DOMAIN s, NEW J \in SUBSET DOMAIN t
    PROVE  ArePickedInTurn(s, t, I, J)
BY PickedOfBoth DEF ArePickedInTurn

(* f says of a list what it says of its items, one after the other.        *)
Morphism(f, A, B) ==
    /\ f \in [Seq(A) -> Seq(B)] /\ f[<<>>] = <<>>
    /\ \A s, t \in Seq(A) : f[s \o t] = f[s] \o f[t]

(* What two such functions say alike of every item, they say of any list.  *)
AgreeOnItems(f, g, A) == \A a \in A : f[<<a>>] = g[<<a>>]
AgreeOn(f, g, s) == f[s] = g[s]
LEMMA MorphismsAgree ==
    ASSUME NEW A, NEW B, NEW f, NEW g, Morphism(f, A, B), Morphism(g, A, B),
           AgreeOnItems(f, g, A), NEW s \in Seq(A)
    PROVE  AgreeOn(f, g, s)
<1>1. PICK m \in Nat : m = Len(s)
  OBVIOUS
<1>2. PICK u : u = [n \in 0..m |-> SubSeq(s, 1, n)]
  OBVIOUS
<1>3. u[0] = <<>> /\ u[m] = s
  BY <1>1, <1>2
<1>4. \A n \in 0..m - 1 : /\ u[n] \in Seq(A) /\ s[n + 1] \in A /\ <<s[n + 1]>> \in Seq(A)
                          /\ u[n + 1] = u[n] \o <<s[n + 1]>>
  <2>1. SUFFICES ASSUME NEW n \in 0..m - 1
                 PROVE  /\ u[n] \in Seq(A) /\ s[n + 1] \in A /\ <<s[n + 1]>> \in Seq(A)
                        /\ u[n + 1] = u[n] \o <<s[n + 1]>>
    OBVIOUS
  <2>2. n + 1 \in 1..Len(s) /\ n \in Nat /\ n + 1 \in 0..m /\ n \in 0..m
    BY <1>1
  <2>3. SubSeq(s, 1, n) \in Seq(A) /\ s[n + 1] \in A
    BY <2>2
  <2>4. SubSeq(s, 1, n + 1) = SubSeq(s, 1, n) \o <<s[n + 1]>>
    BY <2>2, <2>3
  <2>5. u[n] = SubSeq(s, 1, n) /\ u[n + 1] = SubSeq(s, 1, n + 1)
    BY <1>2, <2>2
  <2>6. <<s[n + 1]>> \in Seq(A)
    BY <2>3
  <2>7. QED
    BY <2>3, <2>4, <2>5, <2>6
<1>5. /\ f[<<>>] = <<>> /\ \A v, w \in Seq(A) : f[v \o w] = f[v] \o f[w]
      /\ g[<<>>] = <<>> /\ \A v, w \in Seq(A) : g[v \o w] = g[v] \o g[w]
  BY DEF Morphism
<1> DEFINE T == {n \in 0..m : f[u[n]] = g[u[n]]}
<1>6. 0 \in T
  BY <1>3, <1>5
<1>7. ASSUME NEW n \in 0..m - 1, n \in T PROVE n + 1 \in T
  <2>1. PICK v : v = u[n]
    OBVIOUS
  <2>2. PICK w : w = <<s[n + 1]>>
    OBVIOUS
  <2>3. v \in Seq(A) /\ w \in Seq(A) /\ u[n + 1] = v \o w
    BY <1>4, <2>1, <2>2
  <2>4. f[v \o w] = f[v] \o f[w] /\ g[v \o w] = g[v] \o g[w]
    BY <1>5, <2>3
  <2>5. f[v] = g[v] /\ f[w] = g[w]
    BY <1>4, <1>7, <2>1, <2>2 DEF AgreeOnItems
  <2>6. n + 1 \in 0..m
    OBVIOUS
  <2>7. QED
    BY <2>3, <2>4, <2>5, <2>6
<1>8. m \in T
  <2> HIDE DEF T
  <2>1. 0..m \subseteq T
    BY <1>6, <1>7, CountingUp
  <2>2. QED
    BY <2>1
<1>9. QED
  BY <1>3, <1>8 DEF AgreeOn

(* A function of every item.                                               *)
Mapped(f, s) == [i \in DOMAIN s |-> f[s[i]]]
IsMap(f, A, B) == f \in [A -> B]
LEMMA MappedOfBoth ==
    ASSUME NEW A, NEW B, NEW f, IsMap(f, A, B), NEW s \in Seq(A), NEW t \in Seq(A)
    PROVE  Mapped(f, s) \in Seq(B) /\ Mapped(f, s \o t) = Mapped(f, s) \o Mapped(f, t)
<1>1. PICK a \in Nat : a = Len(s)
  OBVIOUS
<1>2. PICK b \in Nat : b = Len(t)
  OBVIOUS
<1>3. /\ DOMAIN s = 1..a /\ DOMAIN t = 1..b /\ s \o t \in Seq(A)
      /\ DOMAIN (s \o t) = 1..(a + b)
      /\ \A i \in 1..a : (s \o t)[i] = s[i] /\ s[i] \in A
      /\ \A j \in 1..b : (s \o t)[a + j] = t[j] /\ t[j] \in A
  BY <1>1, <1>2
<1>4. PICK x : x = [i \in 1..a |-> f[s[i]]]
  OBVIOUS
<1>5. PICK y : y = [i \in 1..b |-> f[t[i]]]
  OBVIOUS
<1>6. x \in Seq(B) /\ Len(x) = a /\ y \in Seq(B) /\ Len(y) = b
  <2>1. f \in [A -> B]
    BY DEF IsMap
  <2>2. x \in [1..a -> B]
    BY <1>3, <1>4, <2>1
  <2>3. y \in [1..b -> B]
    BY <1>3, <1>5, <2>1
  <2>4. QED
    BY <2>2, <2>3
<1>7. PICK z : z = x \o y
  OBVIOUS
<1>8. z \in Seq(B) /\ Len(z) = a + b
  BY <1>6, <1>7, ConcatProperties
<1>9. \A i \in 1..(a + b) : z[i] = f[(s \o t)[i]]
  <2>1. SUFFICES ASSUME NEW i \in 1..(a + b) PROVE z[i] = f[(s \o t)[i]]
    OBVIOUS
  <2>2. CASE i <= a
    <3>1. i \in 1..a
      BY <2>2
    <3>2. z[i] = x[i]
      BY <1>6, <1>7, <3>1, ConcatProperties
    <3>3. QED
      BY <1>3, <1>4, <3>1, <3>2
  <2>3. CASE ~(i <= a)
    <3>1. i - a \in 1..b /\ i = a + (i - a)
      BY <2>3
    <3>2. z[i] = y[i - a]
      BY <1>6, <1>7, <2>3, ConcatProperties
    <3>3. (s \o t)[i] = t[i - a]
      BY <1>3, <3>1
    <3>4. QED
      BY <1>5, <3>1, <3>2, <3>3
  <2>4. QED
    BY <2>2, <2>3
<1>10. z = [i \in 1..(a + b) |-> f[(s \o t)[i]]]
  <2>1. z = [i \in 1..(a + b) |-> z[i]]
    BY <1>8
  <2>2. QED
    BY <1>9, <2>1
<1>11. QED
  BY <1>3, <1>4, <1>5, <1>6, <1>7, <1>10 DEF Mapped

(* Lists of lists, one behind the other.                                   *)
Joins(g, s) == g[0] = <<>> /\ \A n \in 1..Len(s) : g[n] = g[n - 1] \o s[n]

LEMMA FlattenCounts ==
    ASSUME NEW S, NEW s \in Seq(Seq(S))
    PROVE  \E g \in [0..Len(s) -> Seq(S)] : Joins(g, s) /\ FlattenSeq(s) = g[Len(s)]
<1>1. PICK m \in Nat : m = Len(s)
  OBVIOUS
<1>2. PICK A : A = Seq(S)
  OBVIOUS
<1>3. <<>> \in A /\ \A n \in 1..m : s[n] \in A
  BY <1>1, <1>2
<1>4. \A t, u \in A : t \o u \in A
  BY <1>2
<1>5. \A u \in A : <<>> \o u = u
  BY <1>2
<1>6. CASE m = 0
  <2>0. s = <<>>
    <3>1. s \in Seq(A) /\ Len(s) = 0
      BY <1>1, <1>2, <1>6
    <3>2. QED
      BY <3>1, EmptySeq
  <2>1. s = <<>> /\ FlattenSeq(s) = <<>>
    BY <1>1, <1>6, <2>0 DEF FlattenSeq
  <2>2. PICK g : g = [n \in 0..0 |-> <<>>]
    OBVIOUS
  <2>3. g \in [0..Len(s) -> Seq(S)] /\ Joins(g, s) /\ FlattenSeq(s) = g[Len(s)]
    BY <1>1, <1>2, <1>3, <1>6, <2>1, <2>2 DEF Joins
  <2>4. QED
    BY <2>3
<1>7. CASE m # 0
  <2> DEFINE Nth(g, i) == IF i = 1 THEN s[i] ELSE g[i - 1] \o s[i]
  <2>1. \A f : f = [n \in 1..m |-> Nth(f, n)]
                  => \E g : g = [n \in 1..m |-> Nth(g, n)] /\ FlattenSeq(s) = g[m]
    BY <1>1, <1>7 DEF FlattenSeq
  <2>2. PICK step : step = [n \in 1..m |-> [t \in A |-> t \o s[n]]]
    OBVIOUS
  <2>3. step \in [1..m -> [A -> A]]
    BY <1>3, <1>4, <2>2
  <2>4. PICK f \in [0..m -> A] : Repeats(f, <<>>, m, step)
    BY <1>3, <2>3, Iterates
  <2>5. f[0] = <<>> /\ \A n \in 1..m : f[n] = f[n - 1] \o s[n]
    <3>1. ASSUME NEW n \in 1..m PROVE f[n] = f[n - 1] \o s[n]
      <4>1. f[n - 1] \in A /\ f[n] = step[n][f[n - 1]]
        BY <2>4 DEF Repeats
      <4>2. QED
        BY <2>2, <4>1
    <3>2. QED
      BY <2>4, <3>1 DEF Repeats
  <2>6. PICK e : e = [n \in 1..m |-> f[n]]
    OBVIOUS
  <2>7. ASSUME NEW n \in 1..m PROVE e[n] = Nth(e, n)
    <3>1. CASE n = 1
      <4>1. n - 1 = 0
        BY <3>1
      <4>2. e[n] = f[n] /\ f[n] = f[n - 1] \o s[n]
        BY <2>5, <2>6
      <4>3. <<>> \o s[n] = s[n]
        BY <1>3, <1>5
      <4>4. QED
        BY <2>5, <3>1, <4>1, <4>2, <4>3
    <3>2. CASE n # 1
      <4>1. n - 1 \in 1..m
        BY <3>2
      <4>2. QED
        BY <2>5, <2>6, <3>2, <4>1
    <3>3. QED
      BY <3>1, <3>2
  <2> HIDE DEF Nth
  <2>8. e = [n \in 1..m |-> Nth(e, n)]
    BY <2>6, <2>7
  <2>9. PICK g : g = [n \in 1..m |-> Nth(g, n)] /\ FlattenSeq(s) = g[m]
    BY <2>1, <2>8
  <2>10. PICK h : h = [n \in 0..m |-> IF n = 0 THEN <<>> ELSE g[n]]
    OBVIOUS
  <2>11. \A n \in 1..m : g[n] = Nth(g, n)
    BY <2>9
  <2> USE DEF Nth
  <2>12. /\ h[0] = <<>>
         /\ \A n \in 1..m : (n = 1 => h[n] = s[n]) /\ (n # 1 => h[n] = h[n - 1] \o s[n])
    <3>1. ASSUME NEW n \in 1..m
          PROVE  (n = 1 => h[n] = s[n]) /\ (n # 1 => h[n] = h[n - 1] \o s[n])
      <4>1. h[n] = g[n] /\ g[n] = Nth(g, n)
        BY <2>10, <2>11
      <4>2. n # 1 => n - 1 \in 0..m /\ n - 1 # 0
        OBVIOUS
      <4>3. n # 1 => h[n - 1] = g[n - 1]
        BY <2>10, <4>2
      <4>4. QED
        BY <4>1, <4>3
    <3> HIDE DEF Nth
    <3>2. h[0] = <<>>
      BY <2>10
    <3>3. QED
      BY <3>1, <3>2, Zenon
  <2> HIDE DEF Nth
  <2>13. \A n \in 1..m : h[n] = h[n - 1] \o s[n]
    <3>1. ASSUME NEW n \in 1..m PROVE h[n] = h[n - 1] \o s[n]
      <4>1. CASE n = 1
        <5>1. n - 1 = 0
          BY <4>1
        <5>2. h[n] = s[n]
          BY <2>12, <4>1
        <5>3. s[n] \in A
          BY <1>3
        <5>4. <<>> \o s[n] = s[n]
          BY <1>5, <5>3
        <5>5. QED
          BY <2>12, <5>1, <5>2, <5>4
      <4>2. CASE n # 1
        BY <2>12, <4>2
      <4>3. QED
        BY <4>1, <4>2
    <3>2. QED
      BY <3>1
  <2>14. h \in [0..m -> A]
    <3> DEFINE T == {n \in 0..m : h[n] \in A}
    <3>1. 0 \in T
      BY <1>3, <2>12
    <3>2. ASSUME NEW n \in 0..m - 1, n \in T PROVE n + 1 \in T
      <4>1. n + 1 \in 1..m /\ (n + 1) - 1 = n /\ n + 1 \in 0..m
        OBVIOUS
      <4>2. QED
        BY <1>3, <1>4, <2>13, <3>2, <4>1
    <3>3. 0..m \subseteq T
      <4> HIDE DEF T
      <4>1. QED
        BY <3>1, <3>2, CountingUp
    <3>4. QED
      BY <2>10, <3>3
  <2>15. FlattenSeq(s) = h[m]
    BY <1>7, <2>9, <2>10
  <2>16. QED
    BY <1>1, <1>2, <2>12, <2>13, <2>14, <2>15 DEF Joins
<1>8. QED
  BY <1>6, <1>7

AreBehind(S) == \A s, t, u \in Seq(S) : (s \o t) \o u = s \o (t \o u)
LEMMA BehindAndBehind == ASSUME NEW S PROVE AreBehind(S)
BY ConcatAssociative DEF AreBehind

LEMMA FlattenOfBoth ==
    ASSUME NEW S, NEW s \in Seq(Seq(S)), NEW t \in Seq(Seq(S))
    PROVE  /\ FlattenSeq(s) \in Seq(S)
           /\ FlattenSeq(s \o t) = FlattenSeq(s) \o FlattenSeq(t)
<1>1. PICK a \in Nat : a = Len(s)
  OBVIOUS
<1>2. PICK b \in Nat : b = Len(t)
  OBVIOUS
<1>3. /\ s \o t \in Seq(Seq(S)) /\ Len(s \o t) = a + b
      /\ \A i \in 1..a : (s \o t)[i] = s[i] /\ s[i] \in Seq(S)
      /\ \A j \in 1..b : (s \o t)[a + j] = t[j] /\ t[j] \in Seq(S)
  BY <1>1, <1>2
<1>4. PICK g \in [0..a -> Seq(S)] : Joins(g, s) /\ FlattenSeq(s) = g[a]
  BY <1>1, FlattenCounts
<1>5. PICK k \in [0..b -> Seq(S)] : Joins(k, t) /\ FlattenSeq(t) = k[b]
  BY <1>2, FlattenCounts
<1>6. PICK h \in [0..(a + b) -> Seq(S)] : Joins(h, s \o t) /\ FlattenSeq(s \o t) = h[a + b]
  <2>1. PICK u : u = s \o t
    OBVIOUS
  <2>2. u \in Seq(Seq(S)) /\ Len(u) = a + b
    BY <1>3, <2>1
  <2>3. PICK f \in [0..Len(u) -> Seq(S)] : Joins(f, u) /\ FlattenSeq(u) = f[Len(u)]
    BY <2>2, FlattenCounts
  <2>4. QED
    BY <2>1, <2>2, <2>3
<1>7. h[a] = g[a]
  <2> DEFINE T == {n \in 0..a : h[n] = g[n]}
  <2>1. 0 \in T
    BY <1>4, <1>6 DEF Joins
  <2>2. ASSUME NEW n \in 0..a - 1, n \in T PROVE n + 1 \in T
    <3>1. n + 1 \in 1..a /\ (n + 1) - 1 = n /\ n + 1 \in 0..a /\ n + 1 \in 1..(a + b)
      OBVIOUS
    <3>2. g[n + 1] = g[n] \o s[n + 1] /\ h[n + 1] = h[n] \o (s \o t)[n + 1]
      BY <1>1, <1>3, <1>4, <1>6, <3>1 DEF Joins
    <3>3. QED
      BY <1>3, <2>2, <3>1, <3>2
  <2> HIDE DEF T
  <2>3. 0..a \subseteq T
    BY <2>1, <2>2, CountingUp
  <2>4. a \in T
    BY <2>3
  <2>5. QED
    BY <2>4 DEF T
<1>8. h[a + b] = g[a] \o k[b]
  <2> DEFINE T == {n \in 0..b : h[a + n] = g[a] \o k[n]}
  <2>1. 0 \in T
    <3>1. k[0] = <<>> /\ a + 0 = a /\ 0 \in 0..b
      BY <1>5 DEF Joins
    <3>2. PICK x \in Seq(S) : x = g[a]
      BY <1>4
    <3>3. x \o <<>> = x
      OBVIOUS
    <3>4. QED
      BY <1>7, <3>1, <3>2, <3>3
  <2>2. ASSUME NEW n \in 0..b - 1, n \in T PROVE n + 1 \in T
    <3>1. /\ n + 1 \in 1..b /\ (n + 1) - 1 = n /\ n + 1 \in 0..b
          /\ a + (n + 1) \in 1..(a + b) /\ (a + (n + 1)) - 1 = a + n /\ n \in 0..b
      OBVIOUS
    <3>2. k[n + 1] = k[n] \o t[n + 1] /\ h[a + (n + 1)] = h[a + n] \o t[n + 1]
      <4>1. h[a + (n + 1)] = h[(a + (n + 1)) - 1] \o (s \o t)[a + (n + 1)]
        BY <1>3, <1>6, <3>1 DEF Joins
      <4>2. (s \o t)[a + (n + 1)] = t[n + 1]
        BY <1>3, <3>1
      <4>3. k[n + 1] = k[(n + 1) - 1] \o t[n + 1]
        BY <1>2, <1>5, <3>1 DEF Joins
      <4>4. QED
        BY <3>1, <4>1, <4>2, <4>3
    <3>3. PICK x : x = g[a]
      OBVIOUS
    <3>4. PICK y : y = k[n]
      OBVIOUS
    <3>5. PICK z : z = t[n + 1]
      OBVIOUS
    <3>6. x \in Seq(S) /\ y \in Seq(S) /\ z \in Seq(S)
      <4>1. a \in 0..a
        OBVIOUS
      <4>2. x \in Seq(S)
        BY <1>4, <3>3, <4>1
      <4>3. y \in Seq(S)
        BY <1>5, <3>1, <3>4
      <4>4. z \in Seq(S)
        BY <1>3, <3>1, <3>5
      <4>5. QED
        BY <4>2, <4>3, <4>4
    <3>7. (x \o y) \o z = x \o (y \o z)
      <4>1. AreBehind(S)
        BY BehindAndBehind, Zenon
      <4>2. QED
        BY <3>6, <4>1, Zenon DEF AreBehind
    <3>8. QED
      BY <2>2, <3>1, <3>2, <3>3, <3>4, <3>5, <3>7
  <2> HIDE DEF T
  <2>3. 0..b \subseteq T
    BY <2>1, <2>2, CountingUp
  <2>4. b \in T
    BY <2>3
  <2>5. QED
    BY <2>4 DEF T
<1>9. QED
  BY <1>4, <1>5, <1>6, <1>8

LEMMA FlattenOfOne ==
    ASSUME NEW S, NEW x \in Seq(S) PROVE FlattenSeq(<<x>>) = x
<1>1. PICK s : s = <<x>>
  OBVIOUS
<1>2. s \in Seq(Seq(S)) /\ Len(s) = 1 /\ s[1] = x
  BY <1>1
<1>3. PICK g \in [0..1 -> Seq(S)] : Joins(g, s) /\ FlattenSeq(s) = g[1]
  BY <1>2, FlattenCounts
<1>4. g[0] = <<>> /\ g[1] = g[1 - 1] \o s[1]
  BY <1>2, <1>3 DEF Joins
<1>5. <<>> \o x = x /\ 1 - 1 = 0
  OBVIOUS
<1>6. g[1] = <<>> \o x
  BY <1>1, <1>2, <1>4, <1>5
<1>7. QED
  BY <1>1, <1>3, <1>5, <1>6

(* It holds the items of s that are in W, each as often as s if only once. *)
LEMMA ThoseHold ==
    ASSUME NEW S, NEW s \in Seq(S), NEW W
    PROVE  /\ Those(s, W) \in Seq(S)
           /\ ToSet(Those(s, W)) = ToSet(s) \cap W
           /\ IsInjective(s) => IsInjective(Those(s, W))
<1> DEFINE I == {i \in DOMAIN s : s[i] \in W}
<1>1. Those(s, W) = Picked(s, I)
  BY DEF Those
<1>2. I \in SUBSET DOMAIN s
  OBVIOUS
<1>3. ToSet(s) \cap W = {s[i] : i \in I}
  BY DEF ToSet
<1>4. I \subseteq Nat /\ I \subseteq DOMAIN s
  BY LenProperties
<1> HIDE DEF I
<1>5. ToSet(Picked(s, I)) = {s[i] : i \in I} /\ Picked(s, I) \in Seq(S)
  BY <1>2, PickedAre, PickedCounts
<1>6. ASSUME IsInjective(s) PROVE IsInjective(Picked(s, I))
  <2>1. PICK p, m : Enumerates(p, m, I) /\ Picked(s, I) = [k \in 1..m |-> s[p[k]]]
    BY <1>2, PickedAre
  <2>2. \A j, k \in 1..m : p[j] = p[k] => j = k
    BY <1>4, <2>1, EnumerationCounts
  <2>3. p \in [1..m -> I]
    BY <2>1 DEF Enumerates
  <2>4. \A j, k \in 1..m : s[p[j]] = s[p[k]] => p[j] = p[k]
    BY <1>4, <1>6, <2>3 DEF IsInjective
  <2>5. QED
    BY <2>1, <2>2, <2>4 DEF IsInjective
<1>7. QED
  BY <1>1, <1>3, <1>5, <1>6

LEMMA HeldIsFinite == ASSUME NEW S, NEW s \in Seq(S) PROVE IsFiniteSet(ToSet(s))
<1>1. s \in Surjection(1..Len(s), ToSet(s))
  BY HoldsAt, LenProperties DEF Surjection, ToSet
<1>2. IsFiniteSet(1..Len(s))
  BY FS_Interval, LenProperties
<1>3. QED
  BY <1>1, <1>2, FS_Surjection

LEMMA PickedNone == ASSUME NEW S, NEW s \in Seq(S) PROVE Picked(s, {}) = <<>>
<1>1. PICK I \in SUBSET DOMAIN s : I = {}
  OBVIOUS
<1>2. Len(Picked(s, I)) = Cardinality(I) /\ Picked(s, I) \in Seq(S)
  BY PickedCounts, PickedAre
<1>3. Cardinality(I) = 0
  BY <1>1, FS_EmptySet
<1>4. QED
  BY <1>1, <1>2, <1>3

(* Keeping what is in a set goes item by item.                             *)
LEMMA ThoseAre ==
    ASSUME NEW S, NEW T
    PROVE  /\ \A s \in Seq(S) : Those(s, T) \in Seq(S)
           /\ \A s, t \in Seq(S) : Those(s \o t, T) = Those(s, T) \o Those(t, T)
           /\ Those(<<>>, T) = <<>>
           /\ \A x \in S : Those(<<x>>, T) = IF x \in T THEN <<x>> ELSE <<>>
<1> DEFINE At(s) == {i \in DOMAIN s : s[i] \in T}
<1>1. \A s \in Seq(S) : Those(s, T) \in Seq(S)
  BY PickedAre DEF Those
<1>2. ASSUME NEW s \in Seq(S), NEW t \in Seq(S)
      PROVE  Those(s \o t, T) = Those(s, T) \o Those(t, T)
  <2>1. ArePickedInTurn(s, t, At(s), At(t))
    <3>1. At(s) \in SUBSET DOMAIN s /\ At(t) \in SUBSET DOMAIN t
      OBVIOUS
    <3> HIDE DEF At
    <3>2. QED
      BY <1>2, <3>1, PickedOfTwo, Zenon
  <2>2. At(s \o t) = Behind(s, At(s), At(t))
    <3>1. PICK a \in Nat : a = Len(s)
      BY <1>2
    <3>2. PICK b \in Nat : b = Len(t)
      BY <1>2
    <3>3. /\ DOMAIN s = 1..a /\ DOMAIN t = 1..b /\ DOMAIN (s \o t) = 1..(a + b)
          /\ \A i \in 1..a : (s \o t)[i] = s[i]
          /\ \A j \in 1..b : (s \o t)[a + j] = t[j]
      BY <1>2, <3>1, <3>2
    <3>4. \A i \in 1..(a + b) : i \in 1..a \/ (i - a \in 1..b /\ i = a + (i - a))
      BY <3>1, <3>2
    <3>5. PICK u : u = s \o t
      OBVIOUS
    <3>6. /\ DOMAIN u = 1..(a + b) /\ \A i \in 1..a : u[i] = s[i]
          /\ \A j \in 1..b : u[a + j] = t[j]
      BY <3>3, <3>5
    <3>7. {i \in 1..(a + b) : u[i] \in T} = At(s) \cup {a + j : j \in At(t)}
      <4>1. \A i \in 1..(a + b) : u[i] \in T =>
                i \in At(s) \/ \E j \in At(t) : i = a + j
        BY <3>3, <3>4, <3>6, ZenonT(60)
      <4>2. \A i \in At(s) : i \in 1..(a + b) /\ u[i] \in T
        BY <3>1, <3>2, <3>3, <3>6
      <4>3. \A j \in At(t) : a + j \in 1..(a + b) /\ u[a + j] \in T
        <5>1. SUFFICES ASSUME NEW j \in At(t) PROVE a + j \in 1..(a + b) /\ u[a + j] \in T
          OBVIOUS
        <5>2. j \in 1..b /\ t[j] \in T
          BY <3>3, <5>1
        <5>3. QED
          BY <3>1, <3>2, <3>6, <5>2
      <4> HIDE DEF At
      <4>4. QED
        BY <4>1, <4>2, <4>3
    <3>8. QED
      BY <3>1, <3>5, <3>6, <3>7 DEF Behind
  <2>3. QED
    BY <2>1, <2>2 DEF Those, ArePickedInTurn
<1>3. Those(<<>>, T) = <<>>
  <2>1. At(<<>>) = {} /\ <<>> \in Seq(S)
    OBVIOUS
  <2>2. QED
    BY <2>1, PickedNone DEF Those
<1>4. ASSUME NEW x \in S PROVE Those(<<x>>, T) = IF x \in T THEN <<x>> ELSE <<>>
  <2>1. PICK s : s = <<x>>
    OBVIOUS
  <2>2. s \in Seq(S) /\ DOMAIN s = {1} /\ s[1] = x
    BY <1>4, <2>1
  <2>3. x \in T => At(s) = DOMAIN s
    BY <2>2
  <2>4. x \notin T => At(s) = {}
    BY <2>2
  <2>5. Picked(s, DOMAIN s) = s /\ Picked(s, {}) = <<>>
    BY <2>2, PickedAll, PickedNone
  <2>6. QED
    BY <2>1, <2>3, <2>4, <2>5 DEF Those
<1>5. QED
  BY <1>1, <1>2, <1>3, <1>4

(* So does saying something for each of them, one after the other.         *)
MapsEach(f, A, B) ==
    /\ \A s \in Seq(A) : Mapped(f, s) \in Seq(B)
    /\ \A s, t \in Seq(A) : Mapped(f, s \o t) = Mapped(f, s) \o Mapped(f, t)
    /\ Mapped(f, <<>>) = <<>>
    /\ \A x \in A : Mapped(f, <<x>>) = <<f[x]>>
LEMMA MappedAre ==
    ASSUME NEW A, NEW B, NEW f, IsMap(f, A, B) PROVE MapsEach(f, A, B)
<1>1. Mapped(f, <<>>) = <<>> /\ \A x \in A : Mapped(f, <<x>>) = <<f[x]>>
  BY DEF Mapped
<1>2. QED
  BY <1>1, MappedOfBoth DEF MapsEach

JoinsEach(f, A, B) ==
    /\ \A s \in Seq(A) : FlattenSeq(Mapped(f, s)) \in Seq(B)
    /\ \A s, t \in Seq(A) : FlattenSeq(Mapped(f, s \o t))
                               = FlattenSeq(Mapped(f, s)) \o FlattenSeq(Mapped(f, t))
    /\ FlattenSeq(Mapped(f, <<>>)) = <<>>
    /\ \A x \in A : FlattenSeq(Mapped(f, <<x>>)) = f[x]
LEMMA JoinedAre ==
    ASSUME NEW A, NEW B, NEW f, IsMap(f, A, Seq(B)) PROVE JoinsEach(f, A, B)
<1>1. /\ \A s \in Seq(A) : Mapped(f, s) \in Seq(Seq(B))
      /\ \A s, t \in Seq(A) : Mapped(f, s \o t) = Mapped(f, s) \o Mapped(f, t)
      /\ Mapped(f, <<>>) = <<>> /\ \A x \in A : Mapped(f, <<x>>) = <<f[x]>>
  <2>1. MapsEach(f, A, Seq(B))
    BY MappedAre, Zenon
  <2>2. QED
    BY <2>1, Zenon DEF MapsEach
<1>2. \A s \in Seq(A) : FlattenSeq(Mapped(f, s)) \in Seq(B)
  BY <1>1, FlattenOfBoth
<1>3. ASSUME NEW s \in Seq(A), NEW t \in Seq(A)
      PROVE  FlattenSeq(Mapped(f, s \o t)) = FlattenSeq(Mapped(f, s)) \o FlattenSeq(Mapped(f, t))
  BY <1>1, <1>3, FlattenOfBoth
<1>4. \A x \in A : FlattenSeq(<<f[x]>>) = f[x]
  <2>1. \A x \in A : f[x] \in Seq(B)
    BY DEF IsMap
  <2>2. QED
    BY <2>1, FlattenOfOne
<1>5. FlattenSeq(<<>>) = <<>>
  <2>1. <<>> \in Seq(Seq(B)) /\ <<>> \o <<>> = <<>>
    OBVIOUS
  <2>2. PICK e : e = FlattenSeq(<<>>)
    OBVIOUS
  <2>3. e \in Seq(B) /\ e = e \o e
    BY <2>1, <2>2, FlattenOfBoth
  <2>4. Len(e) = Len(e) + Len(e) /\ Len(e) \in Nat
    BY <2>3
  <2>5. QED
    BY <2>2, <2>3, <2>4
<1>6. QED
  BY <1>1, <1>2, <1>3, <1>4, <1>5 DEF JoinsEach
=============================================================================
