----------------------------- MODULE TreesProofs -----------------------------
(***************************************************************************)
(* Lemmas about the operators of Collector: paths, entries of trees, tree  *)
(* builders and the rebuilt directories.                                   *)
(*                                                                         *)
(* Paths, lists of updates and directories in one another have any length, *)
(* so that most of this is induction.  It goes by the least number without *)
(* the property in question, which WFMin says there is; stated of sets,    *)
(* not of operators, this is of first order.                               *)
(***************************************************************************)
EXTENDS Collector, SequenceTheorems, WellFoundedInduction, TLAPS

(* Of some numbers one is the least.                                       *)
LEMMA Least ==
  ASSUME NEW T, T \subseteq Nat, T # {}
  PROVE  \E m \in T : \A n \in T : ~ (n < m)
<1> DEFINE R == OpToRel(<, Nat)
<1>1. \A m, n \in Nat : <<n, m>> \in R <=> n < m
  BY DEF OpToRel
<1>2. IsWellFoundedOn(R, Nat)
  BY NatLessThanWellFounded, Zenon
<1> HIDE DEF R
<1>3. \E m \in T : \A n \in T : <<n, m>> \notin R
  BY <1>2, WFMin
<1> QED
  BY <1>1, <1>3

(* Induction: a set of numbers that 0 is in, and with a number the next,   *)
(* has all of them.                                                        *)
LEMMA Induction ==
  ASSUME NEW S, 0 \in S, \A n \in Nat : n \in S => n + 1 \in S
  PROVE  Nat \subseteq S
<1> DEFINE T == Nat \ S
<1> SUFFICES ASSUME T # {} PROVE FALSE
  OBVIOUS
<1>1. T \subseteq Nat
  OBVIOUS
<1>2. PICK m \in T : \A n \in T : ~ (n < m)
  <2> HIDE DEF T
  <2> QED
    BY <1>1, Least
<1>3. m \in Nat /\ m # 0 /\ m \notin S
  BY <1>2
<1>4. m - 1 \in Nat /\ m - 1 < m /\ (m - 1) + 1 = m
  BY <1>3
<1>5. m - 1 \in S
  BY <1>2, <1>4
<1> QED
  BY <1>3, <1>4, <1>5

-------------------------------------------------------------------------------
(* Paths. *)

Paths == Seq(Names)

(* The beginnings of a path.                                               *)
LEMMA PathTop ==
  ASSUME NEW p \in Paths, NEW n \in 0 .. Len(p)
  PROVE  /\ SubSeq(p, 1, n) \in Paths /\ Len(SubSeq(p, 1, n)) = n
         /\ \A i \in 1 .. n : SubSeq(p, 1, n)[i] = p[i]
<1>1. Len(p) \in Nat /\ 1 \in Int /\ n \in Int /\ \A i \in 1 .. n : p[i] \in Names
  BY DEF Paths
<1>2. /\ SubSeq(p, 1, n) \in Seq(Names)
      /\ Len(SubSeq(p, 1, n)) = IF 1 <= n THEN n - 1 + 1 ELSE 0
      /\ \A i \in 1 .. n - 1 + 1 : SubSeq(p, 1, n)[i] = p[1 + i - 1]
  BY <1>1, SubSeqProperties
<1>3. (IF 1 <= n THEN n - 1 + 1 ELSE 0) = n /\ n - 1 + 1 = n /\ \A i \in 1 .. n : 1 + i - 1 = i
  BY <1>1
<1> QED
  BY <1>2, <1>3 DEF Paths

(* A path that goes on by a name.                                          *)
LEMMA PathAppend ==
  ASSUME NEW p \in Paths, NEW n \in Names
  PROVE  /\ Append(p, n) \in Paths /\ Len(Append(p, n)) = Len(p) + 1 /\ Len(p) \in Nat
         /\ Append(p, n) # << >>
         /\ Front(Append(p, n)) = p /\ Last(Append(p, n)) = n
         /\ \A i \in 1 .. Len(p) : Append(p, n)[i] = p[i]
         /\ Append(p, n)[Len(p) + 1] = n
<1>1. /\ Append(p, n) \in Paths /\ Len(Append(p, n)) = Len(p) + 1 /\ Len(p) \in Nat
      /\ \A i \in 1 .. Len(p) : Append(p, n)[i] = p[i]
      /\ Append(p, n)[Len(p) + 1] = n
  BY DEF Paths
<1>2. Append(p, n) # << >>
  BY <1>1
<1>3. Front(Append(p, n)) = p /\ Last(Append(p, n)) = n
  <2> DEFINE q == Append(p, n)
  <2>1. Len(q) - 1 \in 0 .. Len(q) /\ Len(q) - 1 = Len(p) /\ q \in Paths
    BY <1>1
  <2>2. /\ Front(q) \in Paths /\ Len(Front(q)) = Len(p)
        /\ \A i \in 1 .. Len(p) : Front(q)[i] = q[i]
    BY <2>1, PathTop DEF Front
  <2>3. Front(q) = p
    BY <1>1, <2>2, SeqEqual DEF Paths
  <2> QED
    BY <1>1, <2>3 DEF Last
<1> QED
  BY <1>1, <1>2, <1>3

(* Every other path is one that goes on.                                   *)
LEMMA PathFront ==
  ASSUME NEW p \in Paths, p # << >>
  PROVE  /\ Front(p) \in Paths /\ Last(p) \in Names /\ p = Append(Front(p), Last(p))
         /\ Len(Front(p)) = Len(p) - 1 /\ Len(p) \in Nat /\ Len(p) # 0
<1>1. Len(p) \in Nat /\ Len(p) # 0 /\ Len(p) - 1 \in 0 .. Len(p) /\ Len(p) \in 1 .. Len(p)
  BY EmptySeq DEF Paths
<1>2. /\ Front(p) \in Paths /\ Len(Front(p)) = Len(p) - 1
      /\ \A i \in 1 .. Len(p) - 1 : Front(p)[i] = p[i]
  BY <1>1, PathTop DEF Front
<1>3. Last(p) \in Names
  BY <1>1 DEF Paths, Last
<1>4. p = Append(Front(p), Last(p))
  <2>1. /\ Append(Front(p), Last(p)) \in Paths
        /\ Len(Append(Front(p), Last(p))) = Len(p)
        /\ \A i \in 1 .. Len(p) - 1 : Append(Front(p), Last(p))[i] = p[i]
        /\ Append(Front(p), Last(p))[Len(p)] = Last(p)
    <3>1. (Len(p) - 1) + 1 = Len(p)
      BY <1>1
    <3> QED
      BY <1>2, <1>3, <3>1, PathAppend
  <2>2. \A i \in 1 .. Len(p) : p[i] = Append(Front(p), Last(p))[i]
    BY <1>1, <2>1 DEF Last
  <2> QED
    BY <1>1, <2>1, <2>2, SeqEqual DEF Paths
<1> QED
  BY <1>1, <1>2, <1>3, <1>4

(* A prefix is a beginning.                                                *)
LEMMA PrefixIs ==
  ASSUME NEW p \in Paths, NEW q \in Paths
  PROVE  /\ IsPrefix(p, q) <=> Len(p) =< Len(q) /\ \A i \in 1 .. Len(p) : p[i] = q[i]
         /\ IsPrefix(p, q) <=> Len(p) =< Len(q) /\ p = SubSeq(q, 1, Len(p))
<1>1. SubSeq(p, 1, Len(p)) = p /\ Len(p) \in Nat /\ Len(q) \in Nat
  BY SubSeqFull DEF Paths
<1>2. IsPrefix(p, q) <=> Len(p) =< Len(q) /\ p = SubSeq(q, 1, Len(p))
  BY <1>1 DEF IsPrefix
<1>3. ASSUME Len(p) =< Len(q)
      PROVE  p = SubSeq(q, 1, Len(p)) <=> \A i \in 1 .. Len(p) : p[i] = q[i]
  <2>1. Len(p) \in 0 .. Len(q)
    BY <1>1, <1>3
  <2>2. /\ SubSeq(q, 1, Len(p)) \in Paths /\ Len(SubSeq(q, 1, Len(p))) = Len(p)
        /\ \A i \in 1 .. Len(p) : SubSeq(q, 1, Len(p))[i] = q[i]
    BY <2>1, PathTop
  <2>3. ASSUME \A i \in 1 .. Len(p) : p[i] = q[i] PROVE p = SubSeq(q, 1, Len(p))
    BY <2>2, <2>3, SeqEqual DEF Paths
  <2> QED
    BY <2>2, <2>3
<1> QED
  BY <1>2, <1>3

(* The prefixes of paths are in order.                                     *)
LEMMA PrefixOrder ==
  ASSUME NEW p \in Paths, NEW q \in Paths
  PROVE  /\ IsPrefix(p, p) /\ IsPrefix(<< >>, p) /\ << >> \in Paths
         /\ IsPrefix(p, q) /\ IsPrefix(q, p) => p = q
         /\ \A s \in Paths : IsPrefix(p, q) /\ IsPrefix(q, s) => IsPrefix(p, s)
<1>1. Len(p) \in Nat /\ Len(q) \in Nat
  BY DEF Paths
<1>2. << >> \in Paths /\ Len(<< >>) = 0
  BY DEF Paths
<1>3. IsPrefix(p, p) /\ IsPrefix(<< >>, p)
  BY <1>1, <1>2, PrefixIs
<1>4. ASSUME IsPrefix(p, q), IsPrefix(q, p) PROVE p = q
  <2>1. Len(p) = Len(q) /\ \A i \in 1 .. Len(p) : p[i] = q[i]
    BY <1>1, <1>4, PrefixIs
  <2> QED
    BY <2>1, SeqEqual DEF Paths
<1>5. ASSUME NEW s \in Paths, IsPrefix(p, q), IsPrefix(q, s) PROVE IsPrefix(p, s)
  <2>1. Len(s) \in Nat
    BY DEF Paths
  <2>2. Len(p) =< Len(q) /\ \A i \in 1 .. Len(p) : p[i] = q[i]
    BY <1>5, PrefixIs
  <2>3. Len(q) =< Len(s) /\ \A i \in 1 .. Len(q) : q[i] = s[i]
    BY <1>5, PrefixIs
  <2>4. Len(p) =< Len(s) /\ \A i \in 1 .. Len(p) : p[i] = s[i]
    BY <1>1, <2>1, <2>2, <2>3
  <2> QED
    BY <2>4, PrefixIs
<1> QED
  BY <1>2, <1>3, <1>4, <1>5

(* The prefixes of a path that goes on.                                    *)
LEMMA PrefixAppend ==
  ASSUME NEW p \in Paths, NEW q \in Paths, NEW n \in Names
  PROVE  /\ IsPrefix(p, Append(q, n)) <=> IsPrefix(p, q) \/ p = Append(q, n)
         /\ IsPrefix(q, Append(q, n)) /\ ~IsPrefix(Append(q, n), q) /\ q # Append(q, n)
<1> DEFINE r == Append(q, n)
<1>1. /\ r \in Paths /\ Len(r) = Len(q) + 1 /\ Len(q) \in Nat /\ Len(p) \in Nat
      /\ \A i \in 1 .. Len(q) : r[i] = q[i]
  BY PathAppend DEF Paths
<1> HIDE DEF r
<1>2. IsPrefix(q, r) /\ ~IsPrefix(r, q)
  BY <1>1, PrefixIs
<1>3. ASSUME IsPrefix(p, q) PROVE IsPrefix(p, r)
  BY <1>1, <1>2, <1>3, PrefixOrder
<1>4. ASSUME IsPrefix(p, r), p # r PROVE IsPrefix(p, q)
  <2>1. Len(p) =< Len(r) /\ \A i \in 1 .. Len(p) : p[i] = r[i]
    BY <1>1, <1>4, PrefixIs
  <2>2. Len(p) # Len(r)
    BY <1>1, <1>4, <2>1, SeqEqual DEF Paths
  <2>3. Len(p) =< Len(q) /\ \A i \in 1 .. Len(p) : p[i] = q[i]
    BY <1>1, <2>1, <2>2
  <2> QED
    BY <2>3, PrefixIs
<1>5. IsPrefix(r, r) /\ IsPrefix(q, q)
  BY <1>1, PrefixOrder
<1> QED
  BY <1>2, <1>3, <1>4, <1>5 DEF r

(* A path below another one goes on from it by a name.                     *)
LEMMA PrefixStep ==
  ASSUME NEW p \in Paths, NEW q \in Paths, IsPrefix(p, q), p # q
  PROVE  \E n \in Names : IsPrefix(Append(p, n), q)
<1>1. Len(p) \in Nat /\ Len(q) \in Nat
  BY DEF Paths
<1>2. Len(p) =< Len(q) /\ \A i \in 1 .. Len(p) : p[i] = q[i]
  BY PrefixIs
<1>3. Len(p) # Len(q)
  BY <1>2, SeqEqual DEF Paths
<1> DEFINE n == q[Len(p) + 1]
           r == Append(p, n)
<1>4. n \in Names
  BY <1>1, <1>2, <1>3 DEF Paths
<1>5. /\ r \in Paths /\ Len(r) = Len(p) + 1
      /\ \A i \in 1 .. Len(p) : r[i] = p[i]
      /\ r[Len(p) + 1] = n
  BY <1>4, PathAppend
<1>6. Len(r) =< Len(q) /\ \A i \in 1 .. Len(r) : r[i] = q[i]
  <2> HIDE DEF r
  <2> QED
    BY <1>1, <1>2, <1>3, <1>5
<1>7. IsPrefix(r, q)
  BY <1>5, <1>6, PrefixIs
<1> QED
  BY <1>4, <1>7

(* The directories that are rebuilt are the prefixes of those that have    *)
(* updates.                                                                *)
LEMMA RebuiltIs ==
  ASSUME NEW us, DOMAIN us \subseteq Paths, NEW d
  PROVE  d \in Rebuilt(us) <=> d \in Paths /\ \E q \in DOMAIN us : IsPrefix(d, q)
<1>1. d \in Rebuilt(us) <=> \E q \in DOMAIN us : \E n \in 0 .. Len(q) : d = SubSeq(q, 1, n)
  BY DEF Rebuilt
<1>2. ASSUME NEW q \in DOMAIN us, NEW n \in 0 .. Len(q), d = SubSeq(q, 1, n)
      PROVE  d \in Paths /\ IsPrefix(d, q)
  <2>1. d \in Paths /\ Len(d) = n
    BY <1>2, PathTop
  <2>2. Len(d) =< Len(q) /\ Len(q) \in Nat
    BY <2>1 DEF Paths
  <2> QED
    BY <1>2, <2>1, <2>2, PrefixIs
<1>3. ASSUME d \in Paths, NEW q \in DOMAIN us, IsPrefix(d, q)
      PROVE  Len(d) \in 0 .. Len(q) /\ d = SubSeq(q, 1, Len(d))
  <2>1. Len(d) \in Nat /\ Len(q) \in Nat
    BY <1>3 DEF Paths
  <2> QED
    BY <1>3, <2>1, PrefixIs
<1> QED
  BY <1>1, <1>2, <1>3

(* With a directory the one above it is rebuilt.                           *)
LEMMA RebuiltAbove ==
  ASSUME NEW us, DOMAIN us \subseteq Paths
  PROVE  /\ Rebuilt(us) \subseteq Paths /\ DOMAIN us \subseteq Rebuilt(us)
         /\ \A d \in Rebuilt(us), p \in Paths : IsPrefix(p, d) => p \in Rebuilt(us)
         /\ DOMAIN us # {} => << >> \in Rebuilt(us)
<1>1. Rebuilt(us) \subseteq Paths /\ DOMAIN us \subseteq Rebuilt(us)
  BY RebuiltIs, PrefixOrder
<1>2. ASSUME NEW d \in Rebuilt(us), NEW p \in Paths, IsPrefix(p, d) PROVE p \in Rebuilt(us)
  <2>1. PICK q \in DOMAIN us : d \in Paths /\ IsPrefix(d, q)
    BY RebuiltIs
  <2>2. IsPrefix(p, q)
    BY <1>2, <2>1, PrefixOrder
  <2> QED
    BY <2>2, RebuiltIs
<1>3. ASSUME DOMAIN us # {} PROVE << >> \in Rebuilt(us)
  BY <1>3, RebuiltIs, PrefixOrder
<1> QED
  BY <1>1, <1>2, <1>3

-------------------------------------------------------------------------------
(* Entries. *)

(* The recursion of EntryAt has a solution.                                *)
LEMMA EntryAtRecursion ==
  ASSUME NEW e, NEW p \in Paths
  PROVE  \E at : /\ at = [n \in 0 .. Len(p) |-> IF n = 0 THEN e ELSE EntryIn(at[n - 1], p[n])]
                 /\ EntryAt(e, p) = at[Len(p)]
<1> DEFINE D(f, k) == f = [n \in 0 .. k |-> IF n = 0 THEN e ELSE EntryIn(f[n - 1], p[n])]
           S == { k \in Nat : \E f : D(f, k) }
<1>1. 0 \in S
  <2> DEFINE f == [n \in 0 .. 0 |-> e]
  <2>1. D(f, 0)
    OBVIOUS
  <2> QED
    BY <2>1
<1>2. ASSUME NEW k \in Nat, k \in S PROVE k + 1 \in S
  <2>1. PICK f : D(f, k)
    BY <1>2
  <2> DEFINE g == [n \in 0 .. k + 1 |-> IF n = k + 1 THEN EntryIn(f[k], p[k + 1]) ELSE f[n]]
  <2>2. \A n \in 0 .. k + 1 : g[n] = IF n = 0 THEN e ELSE EntryIn(g[n - 1], p[n])
    BY <2>1
  <2>3. D(g, k + 1)
    BY <2>2
  <2> HIDE DEF g, D
  <2>4. \E h : D(h, k + 1)
    BY <2>3
  <2> QED
    BY <2>4
<1>3. Len(p) \in Nat
  BY DEF Paths
<1>4. \E f : D(f, Len(p))
  <2>1. Nat \subseteq S
    <3> HIDE DEF S
    <3> QED
      BY <1>1, <1>2, Induction
  <2> QED
    BY <1>3, <2>1
<1> DEFINE at == CHOOSE f : D(f, Len(p))
<1>5. D(at, Len(p))
  BY <1>4
<1>6. EntryAt(e, p) = at[Len(p)]
  BY DEF EntryAt
<1> QED
  BY <1>5, <1>6

(* What is at a path is looked up in what is above it.                     *)
LEMMA EntryAtAppend ==
  ASSUME NEW e
  PROVE  /\ EntryAt(e, << >>) = e
         /\ \A p \in Paths, n \in Names : EntryAt(e, Append(p, n)) = EntryIn(EntryAt(e, p), n)
<1>1. EntryAt(e, << >>) = e
  <2>1. << >> \in Paths /\ Len(<< >>) = 0
    BY DEF Paths
  <2> DEFINE none == << >>
  <2> HIDE DEF none
  <2>2. none \in Paths /\ Len(none) = 0
    BY <2>1 DEF none
  <2>3. PICK at : /\ at = [n \in 0 .. Len(none) |->
                             IF n = 0 THEN e ELSE EntryIn(at[n - 1], none[n])]
                  /\ EntryAt(e, none) = at[Len(none)]
    BY <2>2, EntryAtRecursion
  <2>4. at[0] = e
    BY <2>2, <2>3
  <2> QED
    BY <2>2, <2>3, <2>4 DEF none
<1>2. ASSUME NEW p \in Paths, NEW a \in Names
      PROVE  EntryAt(e, Append(p, a)) = EntryIn(EntryAt(e, p), a)
  <2> DEFINE q == Append(p, a)
  <2>1. /\ q \in Paths /\ Len(q) = Len(p) + 1 /\ Len(p) \in Nat
        /\ \A i \in 1 .. Len(p) : q[i] = p[i]
        /\ q[Len(p) + 1] = a
    BY PathAppend
  <2> HIDE DEF q
  <2>2. PICK f : /\ f = [n \in 0 .. Len(p) |-> IF n = 0 THEN e ELSE EntryIn(f[n - 1], p[n])]
                 /\ EntryAt(e, p) = f[Len(p)]
    BY EntryAtRecursion
  <2>3. PICK g : /\ g = [n \in 0 .. Len(q) |-> IF n = 0 THEN e ELSE EntryIn(g[n - 1], q[n])]
                 /\ EntryAt(e, q) = g[Len(q)]
    BY <2>1, EntryAtRecursion
  <2>4. f[0] = e /\ \A n \in 1 .. Len(p) : f[n] = EntryIn(f[n - 1], p[n])
    BY <2>1, <2>2
  <2>5. g[0] = e /\ \A n \in 1 .. Len(p) + 1 : g[n] = EntryIn(g[n - 1], q[n])
    BY <2>1, <2>3
  <2> DEFINE S == { n \in Nat : n =< Len(p) => f[n] = g[n] }
  <2>6. 0 \in S
    BY <2>4, <2>5
  <2>7. ASSUME NEW n \in Nat, n \in S PROVE n + 1 \in S
    <3> SUFFICES ASSUME n + 1 =< Len(p) PROVE f[n + 1] = g[n + 1]
      OBVIOUS
    <3>1. n + 1 \in 1 .. Len(p) /\ n + 1 \in 1 .. Len(p) + 1 /\ (n + 1) - 1 = n /\ n =< Len(p)
      BY <2>1
    <3>2. f[n] = g[n]
      BY <2>7, <3>1
    <3> QED
      BY <2>1, <2>4, <2>5, <3>1, <3>2
  <2>8. f[Len(p)] = g[Len(p)]
    <3>1. Nat \subseteq S
      <4> HIDE DEF S
      <4> QED
        BY <2>6, <2>7, Induction
    <3> QED
      BY <2>1, <3>1
  <2>9. g[Len(p) + 1] = EntryIn(g[Len(p)], a)
    <3>1. Len(p) + 1 \in 1 .. Len(p) + 1 /\ (Len(p) + 1) - 1 = Len(p)
      BY <2>1
    <3> QED
      BY <2>1, <2>5, <3>1
  <2> QED
    BY <2>1, <2>2, <2>3, <2>8, <2>9 DEF q
<1> QED
  BY <1>1, <1>2

(* Induction along a path.                                                 *)
LEMMA PathInduction ==
  ASSUME NEW S, << >> \in S, \A p \in Paths, n \in Names : p \in S => Append(p, n) \in S
  PROVE  Paths \subseteq S
<1> DEFINE T == { k \in Nat : \A p \in Paths : Len(p) = k => p \in S }
<1>1. 0 \in T
  BY EmptySeq DEF Paths
<1>2. ASSUME NEW k \in Nat, k \in T PROVE k + 1 \in T
  <2> SUFFICES ASSUME NEW p \in Paths, Len(p) = k + 1 PROVE p \in S
    OBVIOUS
  <2>1. p # << >>
    BY DEF Paths
  <2>2. /\ Front(p) \in Paths /\ Last(p) \in Names /\ p = Append(Front(p), Last(p))
        /\ Len(Front(p)) = Len(p) - 1
    BY <2>1, PathFront
  <2>3. Front(p) \in S
    BY <1>2, <2>2
  <2> QED
    BY <2>2, <2>3
<1>3. Nat \subseteq T
  <2> HIDE DEF T
  <2> QED
    BY <1>1, <1>2, Induction
<1>4. \A p \in Paths : Len(p) \in Nat
  BY DEF Paths
<1> QED
  BY <1>3, <1>4

(* Trees with the same entry at a path have the same entries below it.     *)
LEMMA SameBelow ==
  ASSUME NEW d, NEW e, NEW p \in Paths, EntryAt(d, p) = EntryAt(e, p)
  PROVE  \A q \in Paths : IsPrefix(p, q) => EntryAt(d, q) = EntryAt(e, q)
<1> DEFINE S == { q \in Paths : IsPrefix(p, q) => EntryAt(d, q) = EntryAt(e, q) }
<1>1. << >> \in S
  <2>1. << >> \in Paths /\ IsPrefix(<< >>, p)
    BY PrefixOrder
  <2> QED
    BY <2>1, PrefixOrder
<1>2. ASSUME NEW q \in Paths, NEW n \in Names, q \in S PROVE Append(q, n) \in S
  <2>1. Append(q, n) \in Paths
    BY PathAppend
  <2>2. ASSUME IsPrefix(p, q) PROVE EntryAt(d, Append(q, n)) = EntryAt(e, Append(q, n))
    <3>1. EntryAt(d, q) = EntryAt(e, q)
      BY <1>2, <2>2
    <3>2. EntryAt(d, Append(q, n)) = EntryIn(EntryAt(d, q), n)
      BY EntryAtAppend
    <3>3. EntryAt(e, Append(q, n)) = EntryIn(EntryAt(e, q), n)
      BY EntryAtAppend
    <3> QED
      BY <3>1, <3>2, <3>3
  <2> QED
    BY <2>1, <2>2, PrefixAppend
<1>3. Paths \subseteq S
  <2> HIDE DEF S
  <2> QED
    BY <1>1, <1>2, PathInduction
<1> QED
  BY <1>3

(* There is nothing below what is no tree.                                 *)
LEMMA NothingBelow ==
  ASSUME NEW e, NEW p \in Paths, EntryAt(e, p).kind # "tree"
  PROVE  \A q \in Paths : IsPrefix(p, q) /\ p # q => EntryAt(e, q) = Nothing
<1> DEFINE S == { q \in Paths : IsPrefix(p, q) /\ p # q => EntryAt(e, q) = Nothing }
<1>1. << >> \in S
  <2>1. << >> \in Paths /\ IsPrefix(<< >>, p)
    BY PrefixOrder
  <2> QED
    BY <2>1, PrefixOrder
<1>2. ASSUME NEW q \in Paths, NEW n \in Names, q \in S PROVE Append(q, n) \in S
  <2>1. Append(q, n) \in Paths
    BY PathAppend
  <2>2. ASSUME IsPrefix(p, q) PROVE EntryAt(e, Append(q, n)) = Nothing
    <3>1. EntryAt(e, q).kind # "tree"
      BY <1>2, <2>2 DEF Nothing
    <3> QED
      BY <3>1, EntryAtAppend DEF EntryIn
  <2> QED
    BY <2>1, <2>2, PrefixAppend
<1>3. Paths \subseteq S
  <2> HIDE DEF S
  <2> QED
    BY <1>1, <1>2, PathInduction
<1> QED
  BY <1>3

(* An entry that is as it should be all the way down: it is in a set of    *)
(* such entries that has all that is in the trees of it.                   *)
Proper(e) ==
  \E X : /\ e \in X
         /\ \A x \in X : /\ IsEntry(x)
                         /\ x.kind = "tree" => \A n \in DOMAIN x.entries : x.entries[n] \in X

(* The kinds of entries exclude each other.                                *)
LEMMA Kinds ==
  /\ Nothing.kind = "none" /\ IsEntry(Nothing) /\ Failed.kind = "failed"
  /\ \A c : Blob(c).kind = "blob" /\ Blob(c).content = c
  /\ \A f : Tree(f).kind = "tree" /\ Tree(f).entries = f /\ Tree(f) # Failed
  /\ \A e : IsTree(e) => e.kind = "tree" /\ IsEntry(e) /\ e # Failed /\ e # Nothing
  /\ \A e : IsEntry(e) => /\ e.kind = "none" => e = Nothing
                          /\ e.kind = "tree" => IsTree(e)
                          /\ e.kind = "blob" => \E c \in Contents : e = Blob(c)
                          /\ e.kind \in {"none", "blob", "tree"}
                          /\ e # Nothing => e.kind \in {"blob", "tree"}
  BY DEF Nothing, Blob, Tree, Failed, IsTree, IsEntry

(* Without trees in it an entry is proper.                                 *)
LEMMA ProperLeaves ==
  /\ Proper(Nothing)
  /\ \A c \in Contents : Proper(Blob(c))
<1>1. Proper(Nothing)
  <2> DEFINE X == {Nothing}
  <2>1. Nothing \in X /\ \A x \in X : IsEntry(x) /\ x.kind # "tree"
    BY Kinds
  <2> HIDE DEF X
  <2> QED
    BY <2>1 DEF Proper
<1>2. ASSUME NEW c \in Contents PROVE Proper(Blob(c))
  <2> DEFINE X == {Blob(c)}
  <2>1. Blob(c) \in X /\ \A x \in X : IsEntry(x) /\ x.kind # "tree"
    BY Kinds DEF IsEntry
  <2> HIDE DEF X
  <2> QED
    BY <2>1 DEF Proper
<1> QED
  BY <1>1, <1>2

(* So is a tree of proper entries.                                         *)
LEMMA ProperTree ==
  ASSUME NEW f, \A n \in DOMAIN f : Proper(f[n]) /\ f[n] # Nothing
  PROVE  Proper(Tree(f)) /\ IsTree(Tree(f))
<1> DEFINE Good(X) == \A x \in X : /\ IsEntry(x)
                                   /\ x.kind = "tree" => \A n \in DOMAIN x.entries : x.entries[n] \in X
           Y(n) == CHOOSE X : f[n] \in X /\ Good(X)
           Z == {Tree(f)} \union UNION { Y(n) : n \in DOMAIN f }
<1>1. ASSUME NEW n \in DOMAIN f PROVE f[n] \in Y(n) /\ Good(Y(n))
  <2>1. \E X : f[n] \in X /\ Good(X)
    BY <1>1 DEF Proper
  <2> QED
    BY <2>1
<1> HIDE DEF Y
<1>2. \A n \in DOMAIN f : f[n].kind \in {"blob", "tree"}
  BY <1>1, Kinds
<1>3. IsTree(Tree(f))
  BY <1>2, Kinds DEF IsTree
<1>4. Tree(f) \in Z
  OBVIOUS
<1>5. ASSUME NEW x \in Z
      PROVE  IsEntry(x) /\ (x.kind = "tree" => \A n \in DOMAIN x.entries : x.entries[n] \in Z)
  <2>1. CASE x = Tree(f)
    BY <1>1, <1>3, <2>1, Kinds
  <2>2. CASE x # Tree(f)
    <3>1. PICK m \in DOMAIN f : x \in Y(m)
      BY <2>2
    <3>2. IsEntry(x) /\ (x.kind = "tree" => \A n \in DOMAIN x.entries : x.entries[n] \in Y(m))
      BY <1>1, <3>1
    <3> QED
      BY <3>2
  <2> QED
    BY <2>1, <2>2
<1> HIDE DEF Z
<1> QED
  BY <1>3, <1>4, <1>5 DEF Proper

(* What is in a proper entry is proper.                                    *)
LEMMA ProperBelow ==
  ASSUME NEW e, Proper(e)
  PROVE  /\ IsEntry(e) /\ \A n : Proper(EntryIn(e, n))
         /\ \A p \in Paths : Proper(EntryAt(e, p)) /\ IsEntry(EntryAt(e, p))
<1>1. ASSUME NEW d, Proper(d) PROVE IsEntry(d) /\ \A n : Proper(EntryIn(d, n))
  <2>1. PICK X : /\ d \in X
                 /\ \A x \in X : /\ IsEntry(x)
                                 /\ x.kind = "tree" => \A n \in DOMAIN x.entries : x.entries[n] \in X
    BY <1>1 DEF Proper
  <2>2. ASSUME NEW n PROVE Proper(EntryIn(d, n))
    <3>1. CASE d.kind = "tree" /\ n \in DOMAIN d.entries
      <4>1. EntryIn(d, n) \in X
        BY <2>1, <3>1 DEF EntryIn
      <4> QED
        BY <2>1, <4>1 DEF Proper
    <3>2. CASE ~(d.kind = "tree" /\ n \in DOMAIN d.entries)
      BY <3>2, ProperLeaves DEF EntryIn
    <3> QED
      BY <3>1, <3>2
  <2> QED
    BY <2>1, <2>2
<1> DEFINE S == { p \in Paths : Proper(EntryAt(e, p)) }
<1>2. << >> \in S
  <2>1. EntryAt(e, << >>) = e /\ << >> \in Paths
    BY EntryAtAppend DEF Paths
  <2> QED
    BY <2>1
<1>3. ASSUME NEW p \in Paths, NEW n \in Names, p \in S PROVE Append(p, n) \in S
  <2>1. EntryAt(e, Append(p, n)) = EntryIn(EntryAt(e, p), n) /\ Append(p, n) \in Paths
    BY EntryAtAppend, PathAppend
  <2>2. Proper(EntryAt(e, p))
    BY <1>3
  <2> QED
    BY <1>1, <2>1, <2>2
<1>4. Paths \subseteq S
  <2> HIDE DEF S
  <2> QED
    BY <1>2, <1>3, PathInduction
<1> QED
  BY <1>1, <1>4

-------------------------------------------------------------------------------
(* Tree builders. *)

(* A list of updates of one directory.                                     *)
IsList(us) ==
  /\ us \in Seq(ToSet(us))
  /\ \A i \in DOMAIN us : us[i].name \in Names /\ Proper(us[i].entry)

(* Where the first k updates of us last name n: empty if nowhere.          *)
Newest(us, k, n) ==
  { j \in 1 .. k : us[j].name = n /\ \A i \in j + 1 .. k : us[i].name # n }

(* What a builder that started as bld then has under that name.            *)
Holding(bld, us, k, n) ==
  LET J == Newest(us, k, n) IN
  IF J = {} THEN EntryIn(bld, n) ELSE us[CHOOSE j \in J : TRUE].entry

(* An update at which it would fail.                                       *)
FailsAt(bld, us, i) ==
  us[i].entry = Nothing /\ Holding(bld, us, i - 1, us[i].name) = Nothing

(* There is one such place at most, the last one.                          *)
LEMMA NewestIs ==
  ASSUME NEW us, NEW k \in Nat, NEW n
  PROVE  /\ Newest(us, 0, n) = {}
         /\ us[k + 1].name = n => Newest(us, k + 1, n) = {k + 1}
         /\ us[k + 1].name # n => Newest(us, k + 1, n) = Newest(us, k, n)
         /\ \A i, j \in Newest(us, k, n) : i = j
<1>1. Newest(us, 0, n) = {}
  BY DEF Newest
<1>2. ASSUME us[k + 1].name = n PROVE Newest(us, k + 1, n) = {k + 1}
  BY <1>2 DEF Newest
<1>3. ASSUME us[k + 1].name # n PROVE Newest(us, k + 1, n) = Newest(us, k, n)
  <2>1. ASSUME NEW j \in Newest(us, k + 1, n) PROVE j \in Newest(us, k, n)
    BY <1>3, <2>1 DEF Newest
  <2>2. ASSUME NEW j \in Newest(us, k, n) PROVE j \in Newest(us, k + 1, n)
    <3>1. \A i \in j + 1 .. k + 1 : i = k + 1 \/ i \in j + 1 .. k
      BY DEF Newest
    <3> QED
      BY <1>3, <2>2, <3>1 DEF Newest
  <2> QED
    BY <2>1, <2>2
<1>4. ASSUME NEW i \in Newest(us, k, n), NEW j \in Newest(us, k, n) PROVE i = j
  <2>1. i \in 1 .. k /\ j \in 1 .. k /\ ~(i \in j + 1 .. k) /\ ~(j \in i + 1 .. k)
    BY DEF Newest
  <2> QED
    BY <2>1
<1> QED
  BY <1>1, <1>2, <1>3, <1>4

(* What an update changes.                                                 *)
LEMMA HoldingStep ==
  ASSUME NEW bld, NEW us, NEW k \in Nat, NEW n
  PROVE  /\ Holding(bld, us, 0, n) = EntryIn(bld, n)
         /\ Holding(bld, us, k + 1, n) =
              IF us[k + 1].name = n THEN us[k + 1].entry ELSE Holding(bld, us, k, n)
<1>1. Holding(bld, us, 0, n) = EntryIn(bld, n)
  BY NewestIs DEF Holding
<1>2. ASSUME us[k + 1].name = n PROVE Holding(bld, us, k + 1, n) = us[k + 1].entry
  <2>1. Newest(us, k + 1, n) = {k + 1}
    BY <1>2, NewestIs
  <2>2. (CHOOSE j \in {k + 1} : TRUE) = k + 1
    OBVIOUS
  <2> QED
    BY <2>1, <2>2 DEF Holding
<1>3. ASSUME us[k + 1].name # n PROVE Holding(bld, us, k + 1, n) = Holding(bld, us, k, n)
  BY <1>3, NewestIs DEF Holding
<1> QED
  BY <1>1, <1>2, <1>3

(* One update of a builder.                                                *)
LEMMA GitItIs ==
  ASSUME NEW bld, IsTree(bld), NEW u, IsEntry(u.entry)
  PROVE  LET new == GitIt(bld, u) IN
         /\ new = Failed <=> u.entry = Nothing /\ EntryIn(bld, u.name) = Nothing
         /\ new # Failed =>
              /\ IsTree(new)
              /\ \A n : EntryIn(new, n) = IF n = u.name THEN u.entry ELSE EntryIn(bld, n)
<1> DEFINE new == GitIt(bld, u)
           f == [n \in DOMAIN bld.entries \union {u.name} |->
                   IF n \in {u.name} THEN u.entry ELSE bld.entries[n]]
           g == [n \in DOMAIN bld.entries \ {u.name} |-> bld.entries[n]]
<1>1. bld # Failed /\ bld.kind = "tree" /\ \A n \in DOMAIN bld.entries : bld.entries[n].kind \in {"blob", "tree"}
  BY Kinds DEF IsTree
<1>2. EntryIn(bld, u.name) = Nothing <=> u.name \notin DOMAIN bld.entries
  BY <1>1, Kinds DEF EntryIn
<1>3. CASE u.entry # Nothing
  <2>1. new = Tree(f)
    <3> DEFINE m == [n \in {u.name} |-> u.entry]
    <3>1. DOMAIN m = {u.name} /\ \A n \in {u.name} : m[n] = u.entry
      OBVIOUS
    <3>2. With(bld.entries, m) = f
      <4> HIDE DEF m
      <4> QED
        BY <3>1 DEF With
    <3> QED
      BY <1>1, <1>3, <3>2 DEF GitIt
  <2>2. u.entry.kind \in {"blob", "tree"}
    BY <1>3, Kinds
  <2>3. /\ DOMAIN f = DOMAIN bld.entries \union {u.name}
        /\ \A n \in DOMAIN f : f[n] = IF n = u.name THEN u.entry ELSE bld.entries[n]
    OBVIOUS
  <2> HIDE DEF f, new
  <2>4. new # Failed /\ IsTree(new) /\ new.kind = "tree" /\ new.entries = f
    BY <1>1, <2>1, <2>2, <2>3, Kinds DEF IsTree
  <2>5. ASSUME NEW n PROVE EntryIn(new, n) = IF n = u.name THEN u.entry ELSE EntryIn(bld, n)
    BY <1>1, <2>3, <2>4 DEF EntryIn
  <2> QED
    BY <1>3, <2>4, <2>5 DEF new
<1>4. CASE u.entry = Nothing /\ u.name \in DOMAIN bld.entries
  <2>1. new = Tree(g)
    BY <1>1, <1>4 DEF GitIt
  <2>2. DOMAIN g = DOMAIN bld.entries \ {u.name} /\ \A n \in DOMAIN g : g[n] = bld.entries[n]
    OBVIOUS
  <2> HIDE DEF g, new
  <2>3. new # Failed /\ IsTree(new) /\ new.kind = "tree" /\ new.entries = g
    BY <1>1, <2>1, <2>2, Kinds DEF IsTree
  <2>4. ASSUME NEW n PROVE EntryIn(new, n) = IF n = u.name THEN u.entry ELSE EntryIn(bld, n)
    BY <1>1, <1>4, <2>2, <2>3 DEF EntryIn
  <2> QED
    BY <1>2, <1>4, <2>3, <2>4 DEF new
<1>5. CASE u.entry = Nothing /\ u.name \notin DOMAIN bld.entries
  <2>1. new = Failed
    BY <1>1, <1>5 DEF GitIt
  <2> QED
    BY <1>2, <1>5, <2>1
<1> QED
  BY <1>3, <1>4, <1>5

(* The recursion of Build has a solution.                                  *)
LEMMA BuildRecursion ==
  ASSUME NEW bld, NEW us, Len(us) \in Nat
  PROVE  \E b : /\ b = [n \in 0 .. Len(us) |-> IF n = 0 THEN bld ELSE GitIt(b[n - 1], us[n])]
                /\ Build(bld, us) = b[Len(us)]
<1> DEFINE D(f, k) == f = [n \in 0 .. k |-> IF n = 0 THEN bld ELSE GitIt(f[n - 1], us[n])]
           S == { k \in Nat : \E f : D(f, k) }
<1>1. 0 \in S
  <2> DEFINE f == [n \in 0 .. 0 |-> bld]
  <2>1. D(f, 0)
    OBVIOUS
  <2> QED
    BY <2>1
<1>2. ASSUME NEW k \in Nat, k \in S PROVE k + 1 \in S
  <2>1. PICK f : D(f, k)
    BY <1>2
  <2> DEFINE g == [n \in 0 .. k + 1 |-> IF n = k + 1 THEN GitIt(f[k], us[k + 1]) ELSE f[n]]
  <2>2. \A n \in 0 .. k + 1 : g[n] = IF n = 0 THEN bld ELSE GitIt(g[n - 1], us[n])
    BY <2>1
  <2>3. D(g, k + 1)
    BY <2>2
  <2> HIDE DEF g, D
  <2>4. \E h : D(h, k + 1)
    BY <2>3
  <2> QED
    BY <2>4
<1>3. \E f : D(f, Len(us))
  <2>1. Nat \subseteq S
    <3> HIDE DEF S
    <3> QED
      BY <1>1, <1>2, Induction
  <2> QED
    BY <2>1
<1> DEFINE b == CHOOSE f : D(f, Len(us))
<1>4. D(b, Len(us))
  BY <1>3
<1>5. Build(bld, us) = b[Len(us)]
  BY DEF Build
<1> QED
  BY <1>4, <1>5

(* A builder fails at an update that takes out what it does not hold, and  *)
(* otherwise holds what the newest updates say; it stays a failure.        *)
LEMMA BuildIs ==
  ASSUME NEW bld, IsTree(bld), NEW us, IsList(us)
  PROVE  /\ Build(bld, us) = Failed <=> \E i \in DOMAIN us : FailsAt(bld, us, i)
         /\ Build(bld, us) # Failed =>
              /\ IsTree(Build(bld, us))
              /\ \A n : EntryIn(Build(bld, us), n) = Holding(bld, us, Len(us), n)
<1>1. Len(us) \in Nat /\ DOMAIN us = 1 .. Len(us) /\ \A i \in 1 .. Len(us) : IsEntry(us[i].entry)
  BY ProperBelow DEF IsList
<1>2. PICK b : /\ b = [n \in 0 .. Len(us) |-> IF n = 0 THEN bld ELSE GitIt(b[n - 1], us[n])]
               /\ Build(bld, us) = b[Len(us)]
  BY <1>1, BuildRecursion
<1>3. b[0] = bld /\ \A n \in 1 .. Len(us) : b[n] = GitIt(b[n - 1], us[n])
  BY <1>1, <1>2
<1> DEFINE Is(k) == /\ b[k] = Failed <=> \E i \in 1 .. k : FailsAt(bld, us, i)
                    /\ b[k] # Failed => /\ IsTree(b[k])
                                        /\ \A n : EntryIn(b[k], n) = Holding(bld, us, k, n)
           S == { k \in Nat : k =< Len(us) => Is(k) }
<1>4. 0 \in S
  <2>1. ~ \E i \in 1 .. 0 : FailsAt(bld, us, i)
    OBVIOUS
  <2>2. b[0] # Failed
    BY <1>3, Kinds
  <2>3. \A n : EntryIn(b[0], n) = Holding(bld, us, 0, n)
    BY <1>3, HoldingStep
  <2>4. Is(0)
    BY <1>3, <2>1, <2>2, <2>3
  <2> QED
    BY <2>4
<1>5. ASSUME NEW k \in Nat, k \in S PROVE k + 1 \in S
  <2> SUFFICES ASSUME k + 1 =< Len(us) PROVE Is(k + 1)
    OBVIOUS
  <2>1. k + 1 \in 1 .. Len(us) /\ (k + 1) - 1 = k /\ k =< Len(us)
    BY <1>1
  <2>2. b[k + 1] = GitIt(b[k], us[k + 1]) /\ IsEntry(us[k + 1].entry)
    BY <1>1, <1>3, <2>1
  <2>3. Is(k)
    BY <1>5, <2>1
  <2>4. \A i \in 1 .. k + 1 : i = k + 1 \/ i \in 1 .. k
    OBVIOUS
  <2>5. CASE b[k] = Failed
    <3>1. b[k + 1] = Failed
      BY <2>2, <2>5 DEF GitIt
    <3>2. \E i \in 1 .. k + 1 : FailsAt(bld, us, i)
      BY <2>3, <2>5
    <3> QED
      BY <3>1, <3>2
  <2>6. CASE b[k] # Failed
    <3>1. /\ IsTree(b[k]) /\ \A n : EntryIn(b[k], n) = Holding(bld, us, k, n)
          /\ ~ \E i \in 1 .. k : FailsAt(bld, us, i)
      BY <2>3, <2>6
    <3>2. /\ b[k + 1] = Failed <=>
               us[k + 1].entry = Nothing /\ EntryIn(b[k], us[k + 1].name) = Nothing
          /\ b[k + 1] # Failed =>
               /\ IsTree(b[k + 1])
               /\ \A n : EntryIn(b[k + 1], n) =
                           IF n = us[k + 1].name THEN us[k + 1].entry ELSE EntryIn(b[k], n)
      BY <2>2, <3>1, GitItIs
    <3>3. b[k + 1] = Failed <=> FailsAt(bld, us, k + 1)
      BY <2>1, <3>1, <3>2 DEF FailsAt
    <3>4. b[k + 1] = Failed <=> \E i \in 1 .. k + 1 : FailsAt(bld, us, i)
      BY <2>1, <2>4, <3>1, <3>3
    <3>5. ASSUME b[k + 1] # Failed, NEW n
          PROVE  EntryIn(b[k + 1], n) = Holding(bld, us, k + 1, n)
      BY <3>1, <3>2, <3>5, HoldingStep
    <3> QED
      BY <3>2, <3>4, <3>5
  <2> QED
    BY <2>5, <2>6
<1>6. Is(Len(us))
  <2>1. Nat \subseteq S
    <3> HIDE DEF S
    <3> QED
      BY <1>4, <1>5, Induction
  <2> QED
    BY <1>1, <2>1
<1> QED
  BY <1>1, <1>2, <1>6

(* No failure is made good.                                                *)
LEMMA BuildFailed ==
  ASSUME NEW us, IsList(us)
  PROVE  Build(Failed, us) = Failed
<1>1. Len(us) \in Nat
  BY DEF IsList
<1>2. PICK b : /\ b = [n \in 0 .. Len(us) |-> IF n = 0 THEN Failed ELSE GitIt(b[n - 1], us[n])]
               /\ Build(Failed, us) = b[Len(us)]
  BY <1>1, BuildRecursion
<1>3. b[0] = Failed /\ \A n \in 1 .. Len(us) : b[n] = GitIt(b[n - 1], us[n])
  BY <1>1, <1>2
<1> DEFINE S == { k \in Nat : k =< Len(us) => b[k] = Failed }
<1>4. 0 \in S
  BY <1>3
<1>5. ASSUME NEW k \in Nat, k \in S PROVE k + 1 \in S
  <2> SUFFICES ASSUME k + 1 =< Len(us) PROVE b[k + 1] = Failed
    OBVIOUS
  <2>1. k + 1 \in 1 .. Len(us) /\ (k + 1) - 1 = k /\ k =< Len(us)
    BY <1>1
  <2> QED
    BY <1>3, <1>5, <2>1 DEF GitIt
<1>6. Nat \subseteq S
  <2> HIDE DEF S
  <2> QED
    BY <1>4, <1>5, Induction
<1> QED
  BY <1>1, <1>2, <1>6

(* What a builder holds is proper if what it started from was.             *)
LEMMA HoldingProper ==
  ASSUME NEW bld, Proper(bld), NEW us, IsList(us), NEW n
  PROVE  Proper(Holding(bld, us, Len(us), n))
<1>1. Len(us) \in Nat /\ DOMAIN us = 1 .. Len(us)
  BY DEF IsList
<1> DEFINE J == Newest(us, Len(us), n)
<1>2. CASE J = {}
  BY <1>2, ProperBelow DEF Holding
<1>3. CASE J # {}
  <2>1. (CHOOSE j \in J : TRUE) \in DOMAIN us
    BY <1>1, <1>3 DEF Newest
  <2> QED
    BY <1>3, <2>1 DEF Holding, IsList
<1> QED
  BY <1>2, <1>3

-------------------------------------------------------------------------------
(* The rebuilt directories. *)

(* The updates of directories: of some, not of ever deeper ones.           *)
IsUpdates(us) ==
  /\ DOMAIN us \subseteq Paths
  /\ \A d \in DOMAIN us : IsList(us[d])
  /\ \E k \in Nat : \A d \in DOMAIN us : Len(d) =< k

(* What a directory has without what comes from its subdirectories.        *)
Own(r, us, d) == Build(Base(r, d), UpdatesIn(us, d))

Subdirs(us, d) == { n \in Names : Append(d, n) \in Rebuilt(us) }

(* A directory, given what becomes of all.                                 *)
BuiltOf(r, us, t, d) ==
  LET written == [n \in Subdirs(us, d) |-> t[Append(d, n)]]
  IN  IF Own(r, us, d) = Failed \/ \E n \in Subdirs(us, d) : written[n] = Failed
      THEN Failed
      ELSE Tree(With(Own(r, us, d).entries, written))

(* A builder starts from what is there.                                    *)
LEMMA BaseIs ==
  ASSUME NEW r, Proper(r), NEW d \in Paths
  PROVE  /\ Base(r, d) = Failed <=> EntryAt(r, d).kind = "blob"
         /\ Base(r, d) # Failed =>
              /\ IsTree(Base(r, d)) /\ Proper(Base(r, d))
              /\ \A n \in Names : EntryIn(Base(r, d), n) = EntryAt(r, Append(d, n))
<1> DEFINE e == EntryAt(r, d)
<1>1. Proper(e) /\ IsEntry(e)
  BY ProperBelow
<1>2. \A n \in Names : EntryAt(r, Append(d, n)) = EntryIn(e, n)
  BY EntryAtAppend
<1>3. Base(r, d) = CASE e.kind = "none" -> EmptyDirectory
                     [] e.kind = "tree" -> e
                     [] e.kind = "blob" -> Failed
  BY DEF Base
<1> HIDE DEF e
<1>4. CASE e.kind = "none"
  <2>1. Base(r, d) = EmptyDirectory
    BY <1>3, <1>4
  <2> DEFINE f == [n \in {} |-> Nothing]
  <2>2. DOMAIN f = {} /\ EmptyDirectory = Tree(f)
    BY DEF EmptyDirectory
  <2> HIDE DEF f
  <2>3. Proper(Tree(f)) /\ IsTree(Tree(f)) /\ Tree(f) # Failed
    BY <2>2, ProperTree, Kinds
  <2>4. \A n : EntryIn(Tree(f), n) = Nothing /\ EntryIn(e, n) = Nothing
    BY <1>4, <2>2, Kinds DEF EntryIn
  <2>5. \A n \in Names : EntryAt(r, Append(d, n)) = Nothing
    BY <1>2, <2>4
  <2>6. e.kind # "blob"
    BY <1>4
  <2>7. Base(r, d) = Tree(f)
    BY <2>1, <2>2
  <2> QED
    BY <2>3, <2>4, <2>5, <2>6, <2>7 DEF e
<1>5. CASE e.kind = "tree"
  <2>1. Base(r, d) = e
    BY <1>3, <1>5
  <2>2. IsTree(e) /\ e # Failed /\ e.kind # "blob"
    BY <1>1, <1>5, Kinds
  <2> QED
    BY <1>1, <1>2, <2>1, <2>2 DEF e
<1>6. CASE e.kind = "blob"
  <2>1. Base(r, d) = Failed
    BY <1>3, <1>6
  <2> QED
    BY <1>6, <2>1 DEF e
<1> QED
  BY <1>1, <1>4, <1>5, <1>6, Kinds

(* What a directory has of its own.                                        *)
LEMMA OwnIs ==
  ASSUME NEW r, Proper(r), NEW us, IsUpdates(us), NEW d \in Paths
  PROVE  LET own == UpdatesIn(us, d) IN
         /\ IsList(own)
         /\ Own(r, us, d) = Failed <=>
              \/ EntryAt(r, d).kind = "blob"
              \/ \E i \in DOMAIN own : FailsAt(Base(r, d), own, i)
         /\ Own(r, us, d) # Failed =>
              /\ IsTree(Own(r, us, d))
              /\ \A n : /\ EntryIn(Own(r, us, d), n) = Holding(Base(r, d), own, Len(own), n)
                        /\ Proper(EntryIn(Own(r, us, d), n))
<1> DEFINE own == UpdatesIn(us, d)
           base == Base(r, d)
<1>1. IsList(own)
  <2>1. CASE d \in DOMAIN us
    BY <2>1 DEF UpdatesIn, IsUpdates
  <2>2. CASE d \notin DOMAIN us
    <3>1. own = << >>
      BY <2>2 DEF UpdatesIn
    <3>2. << >> \in Seq(ToSet(<< >>)) /\ DOMAIN << >> = {}
      BY EmptySeq
    <3> QED
      BY <3>1, <3>2 DEF IsList
  <2> QED
    BY <2>1, <2>2
<1>2. Own(r, us, d) = Build(base, own)
  BY DEF Own
<1>3. /\ base = Failed <=> EntryAt(r, d).kind = "blob"
      /\ base # Failed => IsTree(base) /\ Proper(base)
  BY BaseIs
<1> HIDE DEF own, base
<1>4. CASE base = Failed
  <2>1. Own(r, us, d) = Failed
    BY <1>1, <1>2, <1>4, BuildFailed
  <2> QED
    BY <1>1, <1>3, <1>4, <2>1 DEF own, base
<1>5. CASE base # Failed
  <2>1. /\ Own(r, us, d) = Failed <=> \E i \in DOMAIN own : FailsAt(base, own, i)
        /\ Own(r, us, d) # Failed =>
             /\ IsTree(Own(r, us, d))
             /\ \A n : EntryIn(Own(r, us, d), n) = Holding(base, own, Len(own), n)
    BY <1>1, <1>2, <1>3, <1>5, BuildIs
  <2>2. \A n : Proper(Holding(base, own, Len(own), n))
    BY <1>1, <1>3, <1>5, HoldingProper
  <2> QED
    BY <1>1, <1>3, <1>5, <2>1, <2>2 DEF own, base
<1> QED
  BY <1>4, <1>5

(* The recursion of Built has a solution, from the deepest directories up. *)
LEMMA BuiltRecursion ==
  ASSUME NEW r, NEW us, IsUpdates(us)
  PROVE  LET t == Built(r, us) IN t = [d \in Rebuilt(us) |-> BuiltOf(r, us, t, d)]
<1> DEFINE Dirs == Rebuilt(us)
<1>1. Dirs \subseteq Paths /\ DOMAIN us \subseteq Paths
  BY RebuiltAbove DEF IsUpdates
<1>2. PICK K \in Nat : \A d \in DOMAIN us : Len(d) =< K
  BY DEF IsUpdates
<1>3. \A d \in Dirs : Len(d) \in Nat /\ Len(d) =< K
  <2> SUFFICES ASSUME NEW d \in Dirs PROVE Len(d) \in Nat /\ Len(d) =< K
    OBVIOUS
  <2>1. PICK q \in DOMAIN us : d \in Paths /\ IsPrefix(d, q)
    BY <1>1, RebuiltIs
  <2>2. q \in Paths /\ Len(d) \in Nat /\ Len(q) \in Nat
    BY <1>1, <2>1 DEF Paths
  <2>3. Len(d) =< Len(q)
    BY <2>1, <2>2, PrefixIs
  <2> QED
    BY <1>2, <2>2, <2>3
<1> DEFINE Deep(k) == { d \in Dirs : Len(d) + k >= K + 1 }
           D(t, k) == t = [d \in Deep(k) |-> BuiltOf(r, us, t, d)]
           S == { k \in Nat : \E t : D(t, k) }
<1>4. 0 \in S
  <2>1. Deep(0) = {}
    BY <1>3
  <2> DEFINE t == [d \in {} |-> Failed]
  <2>2. D(t, 0)
    <3> HIDE DEF Deep
    <3> QED
      BY <2>1
  <2> HIDE DEF D
  <2>3. \E s : D(s, 0)
    BY <2>2
  <2> QED
    BY <2>3
<1>5. ASSUME NEW k \in Nat, k \in S PROVE k + 1 \in S
  <2>1. PICK t : D(t, k)
    BY <1>5
  <2> DEFINE g == [d \in Deep(k + 1) |-> IF d \in Deep(k) THEN t[d] ELSE BuiltOf(r, us, t, d)]
  <2>2. Deep(k) \subseteq Deep(k + 1)
    BY <1>3
  <2>3. \A d \in Deep(k) : g[d] = t[d]
    <3> HIDE DEF Deep
    <3> QED
      BY <2>2
  <2>4. ASSUME NEW d \in Deep(k + 1)
        PROVE  g[d] = BuiltOf(r, us, t, d)
    <3> HIDE DEF Deep
    <3> QED
      BY <2>1, <2>4
  <2>5. ASSUME NEW d \in Deep(k + 1), NEW n \in Subdirs(us, d) PROVE g[Append(d, n)] = t[Append(d, n)]
    <3>1. Append(d, n) \in Dirs /\ n \in Names /\ d \in Paths
      BY <1>1, <2>5 DEF Subdirs
    <3>2. Len(Append(d, n)) = Len(d) + 1 /\ Len(d) \in Nat
      BY <3>1, PathAppend
    <3>3. Append(d, n) \in Deep(k)
      BY <1>3, <2>5, <3>1, <3>2
    <3> HIDE DEF g, Deep
    <3> QED
      BY <2>3, <3>3
  <2>6. ASSUME NEW d \in Deep(k + 1) PROVE g[d] = BuiltOf(r, us, g, d)
    <3> HIDE DEF g, Deep
    <3>1. [n \in Subdirs(us, d) |-> g[Append(d, n)]] = [n \in Subdirs(us, d) |-> t[Append(d, n)]]
      BY <2>5, <2>6
    <3>2. BuiltOf(r, us, g, d) = BuiltOf(r, us, t, d)
      BY <3>1 DEF BuiltOf
    <3> QED
      BY <2>4, <2>6, <3>2
  <2>7. D(g, k + 1)
    <3> DEFINE h == [d \in Deep(k + 1) |-> BuiltOf(r, us, g, d)]
    <3>1. g = [d \in Deep(k + 1) |-> g[d]]
      OBVIOUS
    <3> HIDE DEF g, Deep
    <3>2. g = h
      BY <2>6, <3>1
    <3> QED
      BY <3>2
  <2> HIDE DEF g, D
  <2>8. \E s : D(s, k + 1)
    BY <2>7
  <2> QED
    BY <2>8
<1>6. \E t : t = [d \in Dirs |-> BuiltOf(r, us, t, d)]
  <2>1. Nat \subseteq S
    <3> HIDE DEF S
    <3> QED
      BY <1>4, <1>5, Induction
  <2>2. Deep(K + 1) = Dirs
    BY <1>2, <1>3
  <2>3. PICK t : D(t, K + 1)
    <3>1. K + 1 \in S
      <4> HIDE DEF S
      <4> QED
        BY <2>1
    <3> HIDE DEF D
    <3> QED
      BY <3>1
  <2>4. t = [d \in Dirs |-> BuiltOf(r, us, t, d)]
    <3> HIDE DEF Deep, Dirs
    <3> QED
      BY <2>2, <2>3
  <2> QED
    BY <2>4
<1>7. Built(r, us) = CHOOSE t : t = [d \in Dirs |-> BuiltOf(r, us, t, d)]
  BY DEF Built, BuiltOf, Own, Subdirs
<1> DEFINE Fix(t) == t = [d \in Dirs |-> BuiltOf(r, us, t, d)]
<1>8. Built(r, us) = CHOOSE t : Fix(t)
  BY <1>7
<1>9. \E t : Fix(t)
  BY <1>6
<1>10. Fix(Built(r, us))
  <2> HIDE DEF Fix
  <2> QED
    BY <1>8, <1>9
<1> QED
  BY <1>10

(* A rebuilt directory has what its subdirectories become, and otherwise   *)
(* what it has of its own.                                                 *)
LEMMA BuiltStep ==
  ASSUME NEW r, Proper(r), NEW us, IsUpdates(us), NEW d \in Rebuilt(us)
  PROVE  LET t == Built(r, us) IN
         /\ d \in Paths
         /\ t[d] = Failed <=> \/ Own(r, us, d) = Failed
                              \/ \E n \in Names : Append(d, n) \in Rebuilt(us) /\ t[Append(d, n)] = Failed
         /\ t[d] # Failed =>
              /\ t[d].kind = "tree" /\ t[d] = Tree(t[d].entries)
              /\ \A n \in Names :
                   EntryIn(t[d], n) = IF Append(d, n) \in Rebuilt(us) THEN t[Append(d, n)]
                                      ELSE EntryIn(Own(r, us, d), n)
              /\ \A n \in DOMAIN t[d].entries :
                   /\ EntryIn(t[d], n) = t[d].entries[n]
                   /\ \/ EntryIn(t[d], n) = EntryIn(Own(r, us, d), n) /\ EntryIn(Own(r, us, d), n) # Nothing
                      \/ n \in Names /\ Append(d, n) \in Rebuilt(us) /\ EntryIn(t[d], n) = t[Append(d, n)]
<1> DEFINE t == Built(r, us)
           own == Own(r, us, d)
           written == [n \in Subdirs(us, d) |-> t[Append(d, n)]]
<1>1. d \in Paths
  BY RebuiltAbove DEF IsUpdates
<1>2. t[d] = BuiltOf(r, us, t, d)
  <2>1. t = [q \in Rebuilt(us) |-> BuiltOf(r, us, t, q)]
    BY BuiltRecursion
  <2> HIDE DEF t
  <2> QED
    BY <2>1
<1>3. t[d] = IF own = Failed \/ \E n \in Subdirs(us, d) : written[n] = Failed
             THEN Failed ELSE Tree(With(own.entries, written))
  BY <1>2 DEF BuiltOf
<1>4. /\ DOMAIN written = Subdirs(us, d)
      /\ \A n \in Subdirs(us, d) : written[n] = t[Append(d, n)]
      /\ \A n : n \in Subdirs(us, d) <=> n \in Names /\ Append(d, n) \in Rebuilt(us)
  BY DEF Subdirs
<1>5. own # Failed => IsTree(own)
  BY <1>1, OwnIs
<1> HIDE DEF t, own, written
<1>6. t[d] = Failed <=> \/ own = Failed
                        \/ \E n \in Names : Append(d, n) \in Rebuilt(us) /\ t[Append(d, n)] = Failed
  <2>1. Tree(With(own.entries, written)) # Failed
    BY Kinds
  <2> QED
    BY <1>3, <1>4, <2>1
<1>7. ASSUME t[d] # Failed
      PROVE  /\ t[d].kind = "tree" /\ t[d] = Tree(t[d].entries)
             /\ \A n \in Names :
                  EntryIn(t[d], n) = IF Append(d, n) \in Rebuilt(us) THEN t[Append(d, n)]
                                     ELSE EntryIn(own, n)
             /\ \A n \in DOMAIN t[d].entries :
                  /\ EntryIn(t[d], n) = t[d].entries[n]
                  /\ \/ EntryIn(t[d], n) = EntryIn(own, n) /\ EntryIn(own, n) # Nothing
                     \/ n \in Names /\ Append(d, n) \in Rebuilt(us) /\ EntryIn(t[d], n) = t[Append(d, n)]
  <2> DEFINE all == With(own.entries, written)
  <2>1. t[d] = Tree(all) /\ own # Failed
    BY <1>3, <1>7
  <2>2. /\ DOMAIN all = DOMAIN own.entries \union Subdirs(us, d)
        /\ \A n \in DOMAIN all : all[n] = IF n \in Subdirs(us, d) THEN t[Append(d, n)] ELSE own.entries[n]
    BY <1>4 DEF With
  <2> HIDE DEF all
  <2>3. t[d].kind = "tree" /\ t[d].entries = all /\ t[d] = Tree(t[d].entries)
    BY <2>1, Kinds
  <2>4. /\ own.kind = "tree"
        /\ \A n \in DOMAIN own.entries : own.entries[n] = EntryIn(own, n) /\ own.entries[n] # Nothing
        /\ \A n : n \notin DOMAIN own.entries => EntryIn(own, n) = Nothing
    BY <1>5, <2>1, Kinds DEF IsTree, EntryIn
  <2>5. \A n : EntryIn(t[d], n) = IF n \in DOMAIN all THEN all[n] ELSE Nothing
    BY <2>3 DEF EntryIn
  <2>6. ASSUME NEW n \in Names
        PROVE  EntryIn(t[d], n) = IF Append(d, n) \in Rebuilt(us) THEN t[Append(d, n)]
                                  ELSE EntryIn(own, n)
    BY <1>4, <2>2, <2>4, <2>5
  <2>7. ASSUME NEW n \in DOMAIN all
        PROVE  /\ EntryIn(t[d], n) = all[n]
               /\ \/ EntryIn(t[d], n) = EntryIn(own, n) /\ EntryIn(own, n) # Nothing
                  \/ n \in Names /\ Append(d, n) \in Rebuilt(us) /\ EntryIn(t[d], n) = t[Append(d, n)]
    BY <1>4, <2>2, <2>4, <2>5
  <2> QED
    BY <2>3, <2>6, <2>7
<1> QED
  BY <1>1, <1>6, <1>7 DEF t, own

(* A rebuilt directory is a proper tree if all have an own part; by the    *)
(* depth of the directory, from below.                                     *)
LEMMA BuiltFromBelow ==
  ASSUME NEW r, Proper(r), NEW us, IsUpdates(us),
         \A d \in Rebuilt(us) : Own(r, us, d) # Failed
  PROVE  \A d \in Rebuilt(us) : LET e == Built(r, us)[d] IN e # Failed /\ IsTree(e) /\ Proper(e)
<1> DEFINE t == Built(r, us)
           Dirs == Rebuilt(us)
<1>1. Dirs \subseteq Paths
  BY RebuiltAbove DEF IsUpdates
<1>2. PICK K \in Nat : \A d \in DOMAIN us : Len(d) =< K
  BY DEF IsUpdates
<1>3. \A d \in Dirs : Len(d) \in Nat /\ Len(d) =< K
  <2> SUFFICES ASSUME NEW d \in Dirs PROVE Len(d) \in Nat /\ Len(d) =< K
    OBVIOUS
  <2>1. PICK q \in DOMAIN us : d \in Paths /\ IsPrefix(d, q)
    BY RebuiltIs DEF IsUpdates
  <2>2. q \in Paths /\ Len(d) \in Nat /\ Len(q) \in Nat
    BY <2>1 DEF Paths, IsUpdates
  <2>3. Len(d) =< Len(q)
    BY <2>1, <2>2, PrefixIs
  <2> QED
    BY <1>2, <2>2, <2>3
<1> DEFINE Fine(e) == e # Failed /\ IsTree(e) /\ Proper(e)
           S == { k \in Nat : \A d \in Dirs : Len(d) + k >= K + 1 => Fine(t[d]) }
<1>4. 0 \in S
  BY <1>3
<1>5. ASSUME NEW k \in Nat, k \in S PROVE k + 1 \in S
  <2> SUFFICES ASSUME NEW d \in Dirs, Len(d) + (k + 1) >= K + 1 PROVE Fine(t[d])
    OBVIOUS
  <2>1. d \in Paths
    BY <1>1
  <2>2. ASSUME NEW n \in Names, Append(d, n) \in Dirs PROVE Fine(t[Append(d, n)])
    <3>1. Len(Append(d, n)) + k >= K + 1
      BY <2>1, PathAppend
    <3> QED
      BY <1>5, <2>2, <3>1
  <2>3. /\ t[d] = Failed <=> \/ Own(r, us, d) = Failed
                             \/ \E n \in Names : Append(d, n) \in Dirs /\ t[Append(d, n)] = Failed
        /\ t[d] # Failed =>
             /\ t[d].kind = "tree" /\ t[d] = Tree(t[d].entries)
             /\ \A n \in DOMAIN t[d].entries :
                  /\ EntryIn(t[d], n) = t[d].entries[n]
                  /\ \/ EntryIn(t[d], n) = EntryIn(Own(r, us, d), n) /\ EntryIn(Own(r, us, d), n) # Nothing
                     \/ n \in Names /\ Append(d, n) \in Dirs /\ EntryIn(t[d], n) = t[Append(d, n)]
    BY BuiltStep
  <2>4. t[d] # Failed
    BY <2>2, <2>3
  <2>5. \A n : Proper(EntryIn(Own(r, us, d), n))
    BY <2>1, OwnIs
  <2>6. ASSUME NEW n \in DOMAIN t[d].entries
        PROVE  Proper(t[d].entries[n]) /\ t[d].entries[n] # Nothing
    <3> HIDE DEF t, Dirs
    <3>1. CASE EntryIn(t[d], n) = EntryIn(Own(r, us, d), n) /\ EntryIn(Own(r, us, d), n) # Nothing
      <4>1. t[d].entries[n] = EntryIn(Own(r, us, d), n)
        BY <2>3, <2>4, <2>6, <3>1
      <4> QED
        BY <2>5, <3>1, <4>1
    <3>2. CASE n \in Names /\ Append(d, n) \in Dirs /\ EntryIn(t[d], n) = t[Append(d, n)]
      <4>1. t[d].entries[n] = t[Append(d, n)]
        BY <2>3, <2>4, <2>6, <3>2
      <4>2. Fine(t[Append(d, n)])
        BY <2>2, <3>2
      <4> QED
        BY <4>1, <4>2, Kinds
    <3> QED
      BY <2>3, <2>4, <2>6, <3>1, <3>2
  <2>7. Proper(Tree(t[d].entries)) /\ IsTree(Tree(t[d].entries))
    BY <2>6, ProperTree
  <2> HIDE DEF t
  <2> QED
    BY <2>3, <2>4, <2>7
<1>6. Nat \subseteq S
  <2> HIDE DEF S
  <2> QED
    BY <1>4, <1>5, Induction
<1>7. K + 1 \in S
  <2> HIDE DEF S
  <2> QED
    BY <1>2, <1>6
<1>8. \A d \in Dirs : Fine(t[d])
  <2> HIDE DEF Fine
  <2> QED
    BY <1>2, <1>3, <1>7
<1> QED
  BY <1>8

(* What apply() makes of updates.  It fails exactly if one of the          *)
(* directories does.  Otherwise every rebuilt directory is a tree, and     *)
(* everything else in it is what its own updates say of what was there.    *)
THEOREM ApplyIs ==
  ASSUME NEW r, Proper(r), NEW us, IsUpdates(us), DOMAIN us # {}
  PROVE  LET new == Apply(r, us) IN
         /\ new = Failed <=> \E d \in Rebuilt(us) : Own(r, us, d) = Failed
         /\ new # Failed =>
              /\ IsTree(new) /\ Proper(new)
              /\ \A d \in Rebuilt(us) :
                   /\ IsTree(EntryAt(new, d))
                   /\ \A n \in Names :
                        Append(d, n) \notin Rebuilt(us) =>
                          EntryAt(new, Append(d, n)) = EntryIn(Own(r, us, d), n)
<1> DEFINE t == Built(r, us)
           Dirs == Rebuilt(us)
           none == << >>
           new == t[none]
<1>1. Apply(r, us) = new
  BY DEF Apply
<1>2. /\ none \in Dirs /\ none \in Paths /\ Dirs \subseteq Paths
      /\ \A d \in Dirs, p \in Paths : IsPrefix(p, d) => p \in Dirs
  BY RebuiltAbove, PrefixOrder DEF IsUpdates
<1>3. ASSUME new # Failed PROVE \A d \in Dirs : t[d] # Failed /\ EntryAt(new, d) = t[d]
  <2> DEFINE S == { d \in Paths : d \in Dirs => t[d] # Failed /\ EntryAt(new, d) = t[d] }
  <2>1. << >> \in S
    <3>1. EntryAt(new, << >>) = new
      BY EntryAtAppend
    <3>2. none \in S
      BY <1>2, <1>3, <3>1
    <3> QED
      BY <3>2
  <2>2. ASSUME NEW d \in Paths, NEW n \in Names, d \in S PROVE Append(d, n) \in S
    <3>1. Append(d, n) \in Paths /\ IsPrefix(d, Append(d, n))
      BY PathAppend, PrefixAppend
    <3> SUFFICES ASSUME Append(d, n) \in Dirs
                 PROVE  t[Append(d, n)] # Failed /\ EntryAt(new, Append(d, n)) = t[Append(d, n)]
      BY <3>1
    <3>2. d \in Dirs
      BY <1>2, <3>1
    <3>3. t[d] # Failed /\ EntryAt(new, d) = t[d]
      BY <2>2, <3>2
    <3>4. /\ t[d] = Failed <=> \/ Own(r, us, d) = Failed
                               \/ \E m \in Names : Append(d, m) \in Dirs /\ t[Append(d, m)] = Failed
          /\ t[d] # Failed =>
               \A m \in Names :
                 EntryIn(t[d], m) = IF Append(d, m) \in Dirs THEN t[Append(d, m)]
                                    ELSE EntryIn(Own(r, us, d), m)
      BY <3>2, BuiltStep
    <3>5. EntryAt(new, Append(d, n)) = EntryIn(EntryAt(new, d), n)
      BY EntryAtAppend
    <3> HIDE DEF t, new, Dirs
    <3> QED
      BY <3>3, <3>4, <3>5
  <2>3. Paths \subseteq S
    <3> HIDE DEF S
    <3> QED
      BY <2>1, <2>2, PathInduction
  <2> HIDE DEF t, new, Dirs
  <2> QED
    BY <1>2, <2>3
<1>4. \A d \in Dirs :
        /\ t[d] = Failed <=> \/ Own(r, us, d) = Failed
                             \/ \E n \in Names : Append(d, n) \in Dirs /\ t[Append(d, n)] = Failed
        /\ t[d] # Failed =>
             \A n \in Names :
               EntryIn(t[d], n) = IF Append(d, n) \in Dirs THEN t[Append(d, n)]
                                  ELSE EntryIn(Own(r, us, d), n)
  BY BuiltStep
<1>5. ASSUME \A d \in Dirs : Own(r, us, d) # Failed
      PROVE  \A d \in Dirs : t[d] # Failed /\ IsTree(t[d]) /\ Proper(t[d])
  BY <1>5, BuiltFromBelow
<1> HIDE DEF t, Dirs, none
<1>6. new = Failed <=> \E d \in Dirs : Own(r, us, d) = Failed
  BY <1>2, <1>3, <1>4, <1>5
<1>7. ASSUME new # Failed
      PROVE  /\ IsTree(new) /\ Proper(new)
             /\ \A d \in Dirs :
                  /\ IsTree(EntryAt(new, d))
                  /\ \A n \in Names :
                       Append(d, n) \notin Dirs =>
                         EntryAt(new, Append(d, n)) = EntryIn(Own(r, us, d), n)
  <2>1. \A d \in Dirs : t[d] # Failed /\ IsTree(t[d]) /\ Proper(t[d]) /\ EntryAt(new, d) = t[d]
    BY <1>3, <1>5, <1>6, <1>7
  <2>2. ASSUME NEW d \in Dirs, NEW n \in Names, Append(d, n) \notin Dirs
        PROVE  EntryAt(new, Append(d, n)) = EntryIn(Own(r, us, d), n)
    <3>1. EntryAt(new, Append(d, n)) = EntryIn(EntryAt(new, d), n)
      BY <1>2, EntryAtAppend
    <3> QED
      BY <1>4, <2>1, <2>2, <3>1
  <2>3. IsTree(new) /\ Proper(new)
    BY <1>2, <2>1
  <2> QED
    BY <2>1, <2>2, <2>3
<1> QED
  BY <1>1, <1>6, <1>7 DEF t, Dirs, none
===============================================================================
