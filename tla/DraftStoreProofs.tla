-------------------------- MODULE DraftStoreProofs --------------------------
(***************************************************************************)
(* Proofs about DraftStore, for any number of drafts, pool threads and     *)
(* versions.                                                               *)
(*                                                                         *)
(* A sequence of drafts (the queue, a snapshot, the file) is reasoned      *)
(* about through its set of rows; the first section says what each         *)
(* operation on a sequence does to that set, and that it keeps the rows in *)
(* the order in which the drafts were created.                             *)
(*                                                                         *)
(* Each action is then summed up by what it does to the four places a      *)
(* draft can be in (StepEffect): the queue, the archive, the file and the  *)
(* snapshot in the writer's hands.  The invariants about versions and ids  *)
(* speak of these four only, and are proved once per effect.  The last     *)
(* section, on what a save owes the archive, also looks at who saves what. *)
(***************************************************************************)
EXTENDS DraftStore, FiniteSetTheorems, WellFoundedInduction, TLAPS

-----------------------------------------------------------------------------
(* Numbers. *)

\* A set of numbers that is not empty has a least member.
LEMMA LeastNumber ==
  ASSUME NEW I, I \subseteq Nat, I # {}
  PROVE  Min(I) \in I /\ \A k \in I : Min(I) <= k
<1> DEFINE R == { ss \in Nat \X Nat : ss[1] < ss[2] }
<1>1. IsWellFoundedOn(R, Nat)
  BY NatLessThanWellFounded DEF OpToRel
<1> HIDE DEF R
<1>2. PICK m \in I : \A k \in I : << k, m >> \notin R
  BY <1>1, WFMin
<1>3. \A k \in I : ~(k < m)
  BY <1>2 DEF R
<1>4. \A k \in I : m <= k
  BY <1>3
<1> QED BY <1>4 DEF Min

\* f lists the members of S in increasing order.
Lists(f, S) ==
  /\ f \in [1..Cardinality(S) -> S]
  /\ S = { f[k] : k \in 1..Cardinality(S) }
  /\ \A j, k \in 1..Cardinality(S) : j < k => f[j] < f[k]

\* By a smallest counterexample: without its least member it would be a smaller one.
LEMMA ListExists ==
  ASSUME NEW S, S \subseteq Nat, IsFiniteSet(S)
  PROVE  \E f : Lists(f, S)
<1> DEFINE Bad == { n \in Nat : \E T \in SUBSET Nat : /\ IsFiniteSet(T) /\ Cardinality(T) = n
                                                     /\ ~\E f : Lists(f, T) }
<1>1. SUFFICES ASSUME Bad # {} PROVE FALSE
  BY <1>1, FS_CardinalityType
<1>2. PICK n \in Bad : \A k \in Bad : n <= k
  BY <1>1, LeastNumber
<1>3. PICK T \in SUBSET Nat : IsFiniteSet(T) /\ Cardinality(T) = n /\ ~\E f : Lists(f, T)
  BY <1>2
<1>n. n \in Nat
  BY <1>2
<1>s. ASSUME NEW U \in SUBSET Nat, IsFiniteSet(U), Cardinality(U) \in Nat, Cardinality(U) < n
      PROVE  \E f : Lists(f, U)
  BY <1>2, <1>n, <1>s
<1> HIDE DEF Bad
<1>4. CASE T = {}
  <2> DEFINE f == [k \in 1..0 |-> 0]
  <2>1. Cardinality(T) = 0
    BY <1>4, FS_EmptySet
  <2>2. 1..0 = {}
    OBVIOUS
  <2>3. Lists(f, T)
    BY <1>4, <2>1, <2>2 DEF Lists
  <2> QED BY <1>3, <2>3
<1>5. CASE T # {}
  <2> DEFINE m == Min(T)
             U == T \ {m}
  <2>1. m \in T /\ \A k \in T : m <= k
    BY <1>3, <1>5, LeastNumber
  <2> HIDE DEF m
  <2>2. IsFiniteSet(U) /\ Cardinality(U) = n - 1 /\ n # 0
    BY <1>3, <1>5, <2>1, FS_RemoveElement, FS_EmptySet
  <2>3. n - 1 \in Nat /\ n - 1 < n /\ 1 \in 1..n
    BY <1>n, <2>2
  <2>4. PICK g : Lists(g, U)
    BY <1>s, <2>2, <2>3
  <2> HIDE DEF U
  <2>g. /\ g \in [1..(n - 1) -> U] /\ U = { g[k] : k \in 1..(n - 1) }
        /\ \A j, k \in 1..(n - 1) : j < k => g[j] < g[k]
    BY <2>2, <2>4 DEF Lists
  <2>u. U \subseteq T /\ m \notin U /\ T = U \union {m} /\ T \subseteq Nat
    BY <1>3, <2>1 DEF U
  <2> DEFINE f == [k \in 1..n |-> IF k = 1 THEN m ELSE g[k - 1]]
  <2>5. ASSUME NEW k \in 2..n
        PROVE  k \in 1..n /\ k - 1 \in 1..(n - 1) /\ f[k] = g[k - 1] /\ g[k - 1] \in U
    <3>1. k \in 1..n /\ k - 1 \in 1..(n - 1) /\ k # 1
      BY <1>n
    <3> QED BY <2>g, <3>1
  <2>6. f \in [1..n -> T] /\ f[1] = m
    <3>1. \A k \in 1..n : k = 1 \/ k \in 2..n
      BY <1>n
    <3> QED BY <2>1, <2>3, <2>5, <2>u, <3>1
  <2> HIDE DEF f
  <2>7. \A x \in T : \E k \in 1..n : f[k] = x
    <3> SUFFICES ASSUME NEW x \in T PROVE \E k \in 1..n : f[k] = x
      OBVIOUS
    <3>1. CASE x = m
      BY <1>n, <2>2, <2>6, <3>1
    <3>2. CASE x # m
      <4>1. PICK k \in 1..(n - 1) : g[k] = x
        BY <2>g, <2>u, <3>2
      <4>2. k + 1 \in 2..n /\ k + 1 \in 1..n /\ (k + 1) - 1 = k
        BY <1>n
      <4> QED BY <2>5, <4>1, <4>2
    <3> QED BY <3>1, <3>2
  <2>8. \A j, k \in 1..n : j < k => f[j] < f[k]
    <3> SUFFICES ASSUME NEW j \in 1..n, NEW k \in 1..n, j < k PROVE f[j] < f[k]
      OBVIOUS
    <3>1. k \in 2..n
      BY <1>n
    <3>2. CASE j = 1
      <4>1. f[k] \in T /\ f[k] # m /\ f[j] = m
        BY <2>5, <2>6, <2>u, <3>1, <3>2
      <4>2. m \in Nat /\ f[k] \in Nat /\ m <= f[k]
        BY <2>1, <2>u, <4>1
      <4> QED BY <4>1, <4>2
    <3>3. CASE j # 1
      <4>1. j \in 2..n /\ j - 1 < k - 1
        BY <1>n, <3>3
      <4> QED BY <2>5, <2>g, <3>1, <4>1
    <3> QED BY <3>2, <3>3
  <2>9. T = { f[k] : k \in 1..n }
    BY <2>6, <2>7
  <2>10. Lists(f, T)
    BY <1>3, <2>6, <2>8, <2>9 DEF Lists
  <2> QED BY <1>3, <2>10
<1> QED BY <1>4, <1>5

LEMMA AscendingLists ==
  ASSUME NEW S, S \subseteq Nat, IsFiniteSet(S)
  PROVE  Lists(Ascending(S), S) /\ Cardinality(S) \in Nat
<1>1. Cardinality(S) \in Nat
  BY FS_CardinalityType
<1>2. \E f \in [1..Cardinality(S) -> S] : Lists(f, S)
  BY ListExists DEF Lists
<1>3. Lists(Ascending(S), S)
  BY <1>2 DEF Lists, Ascending
<1> QED BY <1>1, <1>3
-----------------------------------------------------------------------------
(* Sequences of drafts. *)

\* Drafts in the order of their creation.
Ordered(s) ==
  /\ s \in Seq(Rec)
  /\ \A i, j \in 1..Len(s) : i < j => s[i].at < s[j].at

LEMMA RecFields ==
  ASSUME NEW r \in Rec
  PROVE  r.id \in Nat /\ r.at \in 1..MaxDrafts /\ r.ver \in 1..MaxVersion
BY DEF Rec

LEMMA RowsOf ==
  ASSUME NEW s \in Seq(Rec)
  PROVE  /\ Len(s) \in Nat /\ DOMAIN s = 1..Len(s)
         /\ \A r : r \in Rows(s) <=> \E i \in 1..Len(s) : s[i] = r
         /\ Rows(s) \subseteq Rec
BY DEF Rows, ToSet

LEMMA OrderedRows ==
  ASSUME NEW s, Ordered(s)
  PROVE  /\ Rows(s) \subseteq Rec
         /\ \A i \in 1..Len(s) : s[i] \in Rows(s)
         /\ \A q, r \in Rows(s) : q.at = r.at => q = r
<1>1. /\ s \in Seq(Rec) /\ Len(s) \in Nat /\ Rows(s) \subseteq Rec
      /\ \A r : r \in Rows(s) <=> \E i \in 1..Len(s) : s[i] = r
  BY RowsOf DEF Ordered
<1>2. ASSUME NEW q \in Rows(s), NEW r \in Rows(s), q.at = r.at PROVE q = r
  <2>1. PICK i \in 1..Len(s), j \in 1..Len(s) : s[i] = q /\ s[j] = r
    BY <1>1
  <2>2. ~(i < j) /\ ~(j < i)
    <3>1. q.at \in Nat /\ r.at \in Nat
      BY <1>1, RecFields
    <3> QED BY <1>2, <2>1, <3>1 DEF Ordered
  <2>3. i = j
    BY <1>1, <2>2
  <2> QED BY <2>1, <2>3
<1> QED BY <1>1, <1>2

LEMMA EmptyRows == Ordered(<< >>) /\ Rows(<< >>) = {}
BY DEF Ordered, Rows, ToSet

LEMMA AppendRows ==
  ASSUME NEW s, Ordered(s), NEW r \in Rec, \A q \in Rows(s) : q.at < r.at
  PROVE  /\ Ordered(Append(s, r)) /\ Rows(Append(s, r)) = Rows(s) \union {r}
         /\ Len(Append(s, r)) = Len(s) + 1
<1> DEFINE t == Append(s, r)
<1>1. /\ s \in Seq(Rec) /\ Len(s) \in Nat
      /\ \A q : q \in Rows(s) <=> \E i \in 1..Len(s) : s[i] = q
  BY RowsOf DEF Ordered
<1>2. /\ t \in Seq(Rec) /\ Len(t) = Len(s) + 1 /\ t[Len(s) + 1] = r
      /\ \A i \in 1..Len(s) : t[i] = s[i]
  BY <1>1
<1>3. /\ \A q : q \in Rows(t) <=> \E i \in 1..Len(t) : t[i] = q
  BY <1>2, RowsOf
<1> HIDE DEF t
<1>4. \A i : i \in 1..Len(t) <=> i \in 1..Len(s) \/ i = Len(s) + 1
  BY <1>1, <1>2
<1>5. Rows(t) = Rows(s) \union {r}
  <2>1. ASSUME NEW q \in Rows(t) PROVE q \in Rows(s) \union {r}
    BY <1>1, <1>2, <1>3, <1>4, <2>1
  <2>2. Rows(s) \subseteq Rows(t) /\ r \in Rows(t)
    BY <1>1, <1>2, <1>3, <1>4
  <2> QED BY <2>1, <2>2
<1>6. ASSUME NEW i \in 1..Len(t), NEW j \in 1..Len(t), i < j PROVE t[i].at < t[j].at
  <2>1. i \in 1..Len(s)
    BY <1>1, <1>4, <1>6
  <2>2. CASE j \in 1..Len(s)
    BY <1>2, <1>6, <2>1, <2>2 DEF Ordered
  <2>3. CASE j = Len(s) + 1
    BY <1>1, <1>2, <2>1, <2>3
  <2> QED BY <1>4, <2>2, <2>3
<1> QED BY <1>2, <1>5, <1>6 DEF Ordered, t

\* t has the rows of s at the positions f, which increase.
Selects(t, f, s) ==
  /\ t \in Seq(Rec)
  /\ f \in [1..Len(t) -> 1..Len(s)]
  /\ \A j, k \in 1..Len(t) : j < k => f[j] < f[k]
  /\ \A k \in 1..Len(t) : t[k] = s[f[k]]

LEMMA SelectedRows ==
  ASSUME NEW s, Ordered(s), NEW t, NEW f, Selects(t, f, s)
  PROVE  /\ Ordered(t) /\ Rows(t) \subseteq Rows(s)
         /\ \A q : q \in Rows(t) <=> \E k \in 1..Len(t) : s[f[k]] = q
<1>1. \A q : q \in Rows(s) <=> \E i \in 1..Len(s) : s[i] = q
  BY RowsOf DEF Ordered
<1>2. \A q : q \in Rows(t) <=> \E k \in 1..Len(t) : t[k] = q
  BY RowsOf DEF Selects
<1>3. \A q : q \in Rows(t) <=> \E k \in 1..Len(t) : s[f[k]] = q
  BY <1>2 DEF Selects
<1>4. Rows(t) \subseteq Rows(s)
  BY <1>1, <1>3 DEF Selects
<1>5. \A j, k \in 1..Len(t) : j < k => t[j].at < t[k].at
  BY DEF Ordered, Selects
<1> QED BY <1>3, <1>4, <1>5 DEF Ordered, Selects

LEMMA SliceOf ==
  ASSUME NEW s \in Seq(Rec), NEW m \in Int, NEW n \in Int, 1 <= m, n <= Len(s), m <= n + 1
  PROVE  /\ SubSeq(s, m, n) \in Seq(Rec) /\ Len(SubSeq(s, m, n)) = n - m + 1
         /\ \A k \in 1..(n - m + 1) : SubSeq(s, m, n)[k] = s[m + k - 1]
OBVIOUS

LEMMA JoinOf ==
  ASSUME NEW a \in Seq(Rec), NEW b \in Seq(Rec)
  PROVE  /\ a \o b \in Seq(Rec) /\ Len(a \o b) = Len(a) + Len(b)
         /\ \A k \in 1..Len(a) : (a \o b)[k] = a[k]
         /\ \A k \in (Len(a) + 1)..(Len(a) + Len(b)) : (a \o b)[k] = b[k - Len(a)]
OBVIOUS

LEMMA TrimRows ==
  ASSUME NEW s, Ordered(s)
  PROVE  /\ Ordered(Trim(s)) /\ Rows(Trim(s)) \subseteq Rows(s)
         /\ Len(s) <= Limit => Trim(s) = s
<1>1. Limit \in Nat /\ Limit # 0 /\ s \in Seq(Rec) /\ Len(s) \in Nat
  BY DraftStoreAssumption DEF Ordered
<1>2. CASE Len(s) <= Limit
  <2>1. Trim(s) = s
    BY <1>1, <1>2 DEF Trim
  <2> QED BY <2>1
<1>3. CASE Len(s) > Limit
  <2> DEFINE m == Len(s) - Limit
             f == [k \in 1..Limit |-> m + k]
             t == SubSeq(s, m + 1, Len(s))
  <2>1. /\ m \in Nat /\ m + 1 <= Len(s) + 1 /\ Len(s) - (m + 1) + 1 = Limit
        /\ f \in [1..Limit -> 1..Len(s)] /\ \A j, k \in 1..Limit : j < k => f[j] < f[k]
    BY <1>1, <1>3
  <2>2. Trim(s) = t
    BY <1>1, <1>3 DEF Trim
  <2>3. t \in Seq(Rec) /\ Len(t) = Limit /\ \A k \in 1..Limit : t[k] = s[m + 1 + k - 1]
    <3> HIDE DEF m, f
    <3> QED BY <1>1, <2>1, SliceOf
  <2>4. \A k \in 1..Limit : t[k] = s[f[k]]
    <3>1. \A k \in 1..Limit : m + 1 + k - 1 = f[k]
      BY <1>1
    <3> HIDE DEF m, f, t
    <3> QED BY <2>3, <3>1
  <2> HIDE DEF t, f, m
  <2>5. Selects(t, f, s)
    BY <2>1, <2>3, <2>4 DEF Selects
  <2>6. Ordered(t) /\ Rows(t) \subseteq Rows(s)
    BY <2>5, SelectedRows
  <2> QED BY <1>1, <1>3, <2>2, <2>6
<1> QED BY <1>1, <1>2, <1>3

LEMMA RemoveRows ==
  ASSUME NEW s, Ordered(s), NEW i \in 1..Len(s)
  PROVE  Ordered(RemoveAt(s, i)) /\ Rows(RemoveAt(s, i)) = Rows(s) \ {s[i]}
<1> DEFINE n == Len(s) - 1
           f == [k \in 1..n |-> IF k < i THEN k ELSE k + 1]
           before == SubSeq(s, 1, i - 1)
           after  == SubSeq(s, i + 1, Len(s))
           t == RemoveAt(s, i)
<1>1. s \in Seq(Rec) /\ Len(s) \in Nat /\ i \in Nat /\ 1 <= i /\ i <= Len(s) /\ n \in Nat
  BY RowsOf DEF Ordered
<1>2. f \in [1..n -> 1..Len(s)] /\ \A j, k \in 1..n : j < k => f[j] < f[k]
  BY <1>1
<1>3. /\ before \in Seq(Rec) /\ Len(before) = i - 1
      /\ \A k \in 1..(i - 1) : before[k] = s[k]
  BY <1>1
<1>4. /\ after \in Seq(Rec) /\ Len(after) = Len(s) - i
      /\ \A k \in 1..(Len(s) - i) : after[k] = s[i + k]
  BY <1>1
<1>5. t = before \o after
  BY DEF RemoveAt
<1> HIDE DEF before, after, t
<1>6. t \in Seq(Rec) /\ Len(t) = n
  <2>1. t \in Seq(Rec) /\ Len(t) = Len(before) + Len(after)
    BY <1>3, <1>4, <1>5, JoinOf
  <2> QED BY <1>1, <1>3, <1>4, <2>1
<1>7. ASSUME NEW k \in 1..n PROVE t[k] = s[f[k]]
  <2>1. CASE k < i
    <3>1. k \in 1..Len(before)
      BY <1>1, <1>3, <2>1
    <3>2. t[k] = before[k]
      BY <1>3, <1>4, <1>5, <3>1, JoinOf
    <3> QED BY <1>1, <1>3, <2>1, <3>2
  <2>2. CASE ~(k < i)
    <3>1. k - (i - 1) \in 1..(Len(s) - i) /\ k \in (Len(before) + 1)..(Len(before) + Len(after))
      BY <1>1, <1>3, <1>4, <2>2
    <3>2. t[k] = after[k - (i - 1)]
      BY <1>3, <1>4, <1>5, <3>1, JoinOf
    <3>3. f[k] = k + 1 /\ i + (k - (i - 1)) = k + 1
      BY <1>1, <2>2
    <3>4. after[k - (i - 1)] = s[i + (k - (i - 1))]
      BY <1>4, <3>1
    <3> HIDE DEF f
    <3> QED BY <3>2, <3>3, <3>4
  <2> QED BY <2>1, <2>2
<1> HIDE DEF n
<1>9. /\ Ordered(t) /\ Rows(t) \subseteq Rows(s)
      /\ \A q : q \in Rows(t) <=> \E k \in 1..n : s[f[k]] = q
  <2> HIDE DEF f
  <2>1. Selects(t, f, s)
    BY <1>2, <1>6, <1>7 DEF Selects
  <2> QED BY <1>6, <2>1, SelectedRows
<1>10. s[i] \notin Rows(t)
  <2> SUFFICES ASSUME NEW k \in 1..n, s[f[k]] = s[i] PROVE FALSE
    BY <1>9
  <2>1. f[k] \in 1..Len(s) /\ f[k] # i
    BY <1>1, <1>2 DEF n
  <2>2. s[i].at \in Nat /\ (s[f[k]].at < s[i].at \/ s[i].at < s[f[k]].at)
    <3>1. f[k] < i \/ i < f[k]
      BY <1>1, <2>1
    <3>2. s[i] \in Rec
      BY <1>1
    <3> QED BY <2>1, <3>1, <3>2, RecFields DEF Ordered
  <2> QED BY <2>2
<1>11. \A q \in Rows(s) : q = s[i] \/ q \in Rows(t)
  <2> SUFFICES ASSUME NEW j \in 1..Len(s), j # i PROVE \E k \in 1..n : s[f[k]] = s[j]
    BY <1>1, <1>9, RowsOf
  <2>1. CASE j < i
    <3>1. j \in 1..n /\ f[j] = j
      BY <1>1, <2>1 DEF n
    <3> QED BY <3>1
  <2>2. CASE ~(j < i)
    <3>1. j - 1 \in 1..n /\ f[j - 1] = j
      BY <1>1, <2>2 DEF n
    <3> QED BY <3>1
  <2> QED BY <2>1, <2>2
<1>12. Rows(t) = Rows(s) \ {s[i]}
  <2> HIDE DEF f
  <2> QED BY <1>9, <1>10, <1>11
<1> QED BY <1>9, <1>12 DEF t

Bumped(r) == [r EXCEPT !.ver = @ + 1]
BumpedAt(s, i) == [s EXCEPT ![i].ver = @ + 1]

LEMMA UpdateRows ==
  ASSUME NEW s, Ordered(s), NEW i \in 1..Len(s), s[i].ver < MaxVersion,
         NEW r, r = Bumped(s[i]), NEW t, t = BumpedAt(s, i)
  PROVE  /\ r \in Rec /\ r.id = s[i].id /\ r.at = s[i].at /\ r.ver = s[i].ver + 1
         /\ Ordered(t) /\ Len(t) = Len(s)
         /\ Rows(t) = (Rows(s) \ {s[i]}) \union {r}
<1>1. /\ s \in Seq(Rec) /\ Len(s) \in Nat /\ s[i] \in Rec
      /\ \A q : q \in Rows(s) <=> \E j \in 1..Len(s) : s[j] = q
  BY RowsOf DEF Ordered
<1>2. MaxVersion \in Nat
  BY DraftStoreAssumption
<1>3. r \in Rec /\ r.id = s[i].id /\ r.at = s[i].at /\ r.ver = s[i].ver + 1
  <2> DEFINE q == s[i]
  <2>1. q \in Rec /\ q.id \in Nat /\ q.at \in 1..MaxDrafts /\ q.ver \in 1..MaxVersion
        /\ q.ver < MaxVersion /\ r = [q EXCEPT !.ver = @ + 1]
    BY <1>1, RecFields DEF Bumped
  <2> HIDE DEF q
  <2>2. q.ver + 1 \in 1..MaxVersion
    BY <1>2, <2>1
  <2>3. r \in Rec /\ r.id = q.id /\ r.at = q.at /\ r.ver = q.ver + 1
    BY <2>1, <2>2 DEF Rec
  <2> QED BY <2>3 DEF q
<1>4. t = [s EXCEPT ![i] = r]
  BY DEF Bumped, BumpedAt
<1>5. /\ t \in Seq(Rec) /\ Len(t) = Len(s) /\ t[i] = r
      /\ \A j \in 1..Len(s) : j # i => t[j] = s[j]
  <2> SUFFICES ASSUME t = [s EXCEPT ![i] = r]
               PROVE  /\ t \in Seq(Rec) /\ Len(t) = Len(s) /\ t[i] = r
                      /\ \A j \in 1..Len(s) : j # i => t[j] = s[j]
    BY <1>4
  <2> QED BY <1>1, <1>3
<1>6. \A q : q \in Rows(t) <=> \E j \in 1..Len(t) : t[j] = q
  BY <1>5, RowsOf
<1>7. \A j \in 1..Len(s) : t[j].at = s[j].at
  BY <1>3, <1>5
<1>8. Ordered(t)
  BY <1>5, <1>7 DEF Ordered
<1>9. \A j \in 1..Len(s) : s[j] = s[i] => j = i
  <2> SUFFICES ASSUME NEW j \in 1..Len(s), s[j] = s[i], j # i PROVE FALSE
    OBVIOUS
  <2>1. j < i \/ i < j
    OBVIOUS
  <2>2. s[i].at \in Nat
    BY <1>1, RecFields
  <2> QED BY <2>1, <2>2 DEF Ordered
<1>10. ASSUME NEW q \in Rows(t) PROVE q \in (Rows(s) \ {s[i]}) \union {r}
  <2>1. PICK j \in 1..Len(s) : t[j] = q
    BY <1>5, <1>6, <1>10
  <2> QED BY <1>1, <1>5, <1>9, <2>1
<1>11. ASSUME NEW q \in (Rows(s) \ {s[i]}) \union {r} PROVE q \in Rows(t)
  <2>1. CASE q = r
    BY <1>5, <1>6, <2>1
  <2>2. CASE q \in Rows(s) \ {s[i]}
    <3>1. PICK j \in 1..Len(s) : s[j] = q /\ j # i
      BY <1>1, <2>2
    <3> QED BY <1>5, <1>6, <3>1
  <2> QED BY <1>11, <2>1, <2>2
<1> QED BY <1>3, <1>5, <1>8, <1>10, <1>11

\* The k-th draft of a sequence was at least the k-th to be created.
LEMMA CreatedBy ==
  ASSUME NEW s, Ordered(s), NEW k \in 1..Len(s)
  PROVE  k <= s[k].at
<1> DEFINE Bad == { n \in 1..Len(s) : ~(n <= s[n].at) }
<1>1. /\ s \in Seq(Rec) /\ Len(s) \in Nat /\ Bad \subseteq Nat
      /\ \A i \in 1..Len(s) : s[i].at \in 1..MaxDrafts
  BY RecFields DEF Ordered
<1>2. SUFFICES ASSUME Bad # {} PROVE FALSE
  BY <1>2
<1>3. PICK n \in Bad : \A i \in Bad : n <= i
  BY <1>1, <1>2, LeastNumber
<1>4. n \in 1..Len(s) /\ ~(n <= s[n].at) /\ n # 1
  BY <1>1, <1>3
<1>5. n - 1 \in 1..Len(s) /\ n - 1 \notin Bad
  BY <1>1, <1>3, <1>4
<1>6. n - 1 <= s[n - 1].at /\ s[n - 1].at < s[n].at
  BY <1>4, <1>5 DEF Ordered
<1> QED BY <1>1, <1>4, <1>5, <1>6

LEMMA LengthBound ==
  ASSUME NEW s, Ordered(s), NEW n \in Nat, \A r \in Rows(s) : r.at <= n
  PROVE  Len(s) \in Nat /\ Len(s) <= n
<1>1. Len(s) \in Nat
  BY DEF Ordered
<1>2. CASE Len(s) = 0
  BY <1>2
<1>3. CASE Len(s) # 0
  <2>1. Len(s) \in 1..Len(s)
    BY <1>1, <1>3
  <2>2. s[Len(s)] \in Rows(s) /\ s[Len(s)] \in Rec
    BY <2>1, OrderedRows
  <2>3. Len(s) <= s[Len(s)].at /\ s[Len(s)].at <= n /\ s[Len(s)].at \in Nat
    BY <2>1, <2>2, CreatedBy, RecFields
  <2> QED BY <1>1, <2>3
<1> QED BY <1>1, <1>2, <1>3

\* get_draft_by_id finds a draft with the id when there is one.
LEMMA FindRow ==
  ASSUME Ordered(queue), NEW id
  PROVE  \/ Find(id) = 0 /\ \A r \in Rows(queue) : r.id # id
         \/ Find(id) \in 1..Len(queue) /\ queue[Find(id)].id = id /\ Find(id) # 0
<1> DEFINE I == { i \in 1..Len(queue) : queue[i].id = id }
<1>1. Find(id) = IF I # {} THEN Min(I) ELSE 0
  BY DEF Find, SelectInSeq
<1>2. I \subseteq Nat /\ \A r : r \in Rows(queue) <=> \E i \in 1..Len(queue) : queue[i] = r
  BY RowsOf DEF Ordered
<1>3. CASE I = {}
  BY <1>1, <1>2, <1>3
<1>4. CASE I # {}
  <2>1. Find(id) \in I
    BY <1>1, <1>2, <1>4, LeastNumber
  <2> QED BY <2>1
<1> QED BY <1>3, <1>4

\* The file without a draft's rows.
LEMMA WithoutRows ==
  ASSUME json # None, Ordered(json), NEW id
  PROVE  /\ Ordered(Without(id))
         /\ Rows(Without(id)) = { r \in Rows(json) : r.id # id }
<1> DEFINE I == { i \in 1..Len(json) : json[i].id # id }
           f == Ascending(I)
           n == Cardinality(I)
           t == Without(id)
<1>1. /\ json \in Seq(Rec) /\ Len(json) \in Nat
      /\ \A q : q \in Rows(json) <=> \E i \in 1..Len(json) : json[i] = q
  BY RowsOf DEF Ordered
<1>2. I \subseteq Nat /\ IsFiniteSet(I)
  <2>1. I \subseteq 1..Len(json) /\ I \subseteq Nat
    BY <1>1
  <2>2. IsFiniteSet(1..Len(json))
    BY <1>1, FS_Interval
  <2> HIDE DEF I
  <2> QED BY <2>1, <2>2, FS_Subset
<1>3. Lists(f, I) /\ n \in Nat
  BY <1>2, AscendingLists
<1>4. t = [k \in DOMAIN f |-> json[f[k]]]
  BY DEF Without
<1>5. \A i : i \in I <=> i \in 1..Len(json) /\ json[i].id # id
  OBVIOUS
<1> HIDE DEF I, f, n, t
<1>6. DOMAIN f = 1..n /\ \A k \in 1..n : f[k] \in 1..Len(json)
  BY <1>3, <1>5 DEF Lists, n
<1>7. t \in Seq(Rec) /\ Len(t) = n /\ \A k \in 1..n : t[k] = json[f[k]]
  BY <1>1, <1>3, <1>4, <1>6
<1>8. Selects(t, f, json)
  BY <1>3, <1>5, <1>6, <1>7 DEF Selects, Lists, n
<1>9. Ordered(t) /\ \A q : q \in Rows(t) <=> \E k \in 1..n : json[f[k]] = q
  BY <1>7, <1>8, SelectedRows
<1>10. ASSUME NEW q PROVE q \in Rows(t) <=> q \in Rows(json) /\ q.id # id
  <2>1. q \in Rows(t) => q \in Rows(json) /\ q.id # id
    BY <1>1, <1>3, <1>5, <1>6, <1>9 DEF Lists, n
  <2>2. ASSUME q \in Rows(json), q.id # id PROVE q \in Rows(t)
    <3>1. PICK i \in 1..Len(json) : json[i] = q
      BY <1>1, <2>2
    <3>2. i \in I
      BY <1>5, <2>2, <3>1
    <3>3. PICK k \in 1..n : f[k] = i
      BY <1>3, <3>2 DEF Lists, n
    <3> QED BY <1>9, <3>1, <3>3
  <2> QED BY <2>1, <2>2
<1> QED BY <1>9, <1>10 DEF t

\* The drafts a restart loads from the archive, the newest one among them.
LEMMA RecentRows ==
  ASSUME archive \subseteq Rec
  PROVE  /\ Ordered(Recent) /\ Rows(Recent) \subseteq archive
         /\ \A r \in archive : /\ \A n \in archive : n.at <= r.at
                               /\ \A n \in archive : n.at = r.at => n = r
              => r \in Rows(Recent)
<1> DEFINE newest == { r \in archive : Cardinality({ n \in archive : n.at > r.at }) < Limit }
           A == Ats(newest)
           f == Ascending(A)
           n == Cardinality(A)
           t == Recent
<1>0. MaxDrafts \in Nat /\ Limit \in Nat /\ Limit # 0
  BY DraftStoreAssumption
<1>1. A \subseteq 1..MaxDrafts
  BY RecFields DEF Ats
<1>2. A \subseteq Nat /\ IsFiniteSet(A)
  <2>1. IsFiniteSet(1..MaxDrafts)
    BY <1>0, FS_Interval
  <2>2. A \subseteq Nat
    BY <1>0, <1>1
  <2> HIDE DEF A
  <2>3. IsFiniteSet(A)
    BY <1>1, <2>1, FS_Subset
  <2> QED BY <2>2, <2>3
<1>3. Lists(f, A) /\ n \in Nat
  BY <1>2, AscendingLists
<1>4. t = [k \in DOMAIN f |-> CHOOSE r \in newest : r.at = f[k]]
  BY DEF Recent
<1>5. newest \subseteq archive /\ \A a : a \in A <=> \E r \in newest : r.at = a
  BY DEF Ats
<1>6. ASSUME NEW r \in archive, \A m \in archive : m.at <= r.at PROVE r \in newest
  <2>1. { m \in archive : m.at > r.at } = {}
    <3>1. ASSUME NEW m \in archive PROVE ~(m.at > r.at)
      BY <1>6, RecFields
    <3> QED BY <3>1
  <2>2. Cardinality({ m \in archive : m.at > r.at }) = 0
    BY <2>1, FS_EmptySet
  <2> QED BY <1>0, <2>2
<1> HIDE DEF newest, A, f, n, t
<1>7. DOMAIN f = 1..n /\ \A k \in 1..n : f[k] \in A
  BY <1>3 DEF Lists, n
<1>8. ASSUME NEW k \in 1..n PROVE t[k] \in newest /\ t[k].at = f[k]
  <2>1. \E r \in newest : r.at = f[k]
    BY <1>5, <1>7
  <2>2. t[k] = CHOOSE r \in newest : r.at = f[k]
    BY <1>4, <1>7
  <2> QED BY <2>1, <2>2
<1>9. t \in Seq(Rec) /\ Len(t) = n
  <2>1. DOMAIN t = 1..n /\ \A k \in 1..n : t[k] \in Rec
    BY <1>4, <1>5, <1>7, <1>8
  <2>2. t \in [1..n -> Rec]
    BY <1>4, <2>1
  <2> QED BY <1>3, <2>2
<1>10. Ordered(t)
  BY <1>3, <1>8, <1>9 DEF Ordered, Lists, n
<1>11. \A q : q \in Rows(t) <=> \E k \in 1..n : t[k] = q
  BY <1>9, RowsOf
<1>12. Rows(t) \subseteq archive
  BY <1>5, <1>8, <1>11
<1>13. ASSUME NEW r \in archive, \A m \in archive : m.at <= r.at,
              \A m \in archive : m.at = r.at => m = r
       PROVE  r \in Rows(t)
  <2>1. r.at \in A
    BY <1>5, <1>6, <1>13
  <2>2. PICK k \in 1..n : f[k] = r.at
    BY <1>3, <2>1 DEF Lists, n
  <2>3. t[k] = r
    BY <1>5, <1>8, <1>13, <2>2
  <2> QED BY <1>11, <2>3
<1> QED BY <1>10, <1>12, <1>13 DEF t

\* One of the first n rows has the largest id of them.
LEMMA LargestId ==
  ASSUME NEW s, Ordered(s), NEW n \in 1..Len(s)
  PROVE  \E i \in 1..n : \A j \in 1..n : s[j].id <= s[i].id
<1> DEFINE Bad == { k \in 1..Len(s) : ~\E i \in 1..k : \A j \in 1..k : s[j].id <= s[i].id }
<1>1. /\ Len(s) \in Nat /\ Bad \subseteq Nat
      /\ \A i \in 1..Len(s) : s[i].id \in Nat
  BY RecFields DEF Ordered
<1>2. SUFFICES ASSUME Bad # {} PROVE FALSE
  OBVIOUS
<1>3. \E m \in Bad : \A k \in Bad : m <= k
  BY <1>1, <1>2, LeastNumber
<1>4. PICK m \in 1..Len(s) : /\ m \in Bad
                             /\ \A k \in 1..Len(s) : k < m => k \notin Bad
  <2>1. \A m \in Nat, k \in Nat : m <= k => ~(k < m)
    OBVIOUS
  <2>2. Bad \subseteq 1..Len(s)
    OBVIOUS
  <2> HIDE DEF Bad
  <2> QED BY <1>1, <1>3, <2>1, <2>2
<1>5. ~\E i \in 1..m : \A j \in 1..m : s[j].id <= s[i].id
  BY <1>4
<1>6. CASE m = 1
  <2>1. s[1].id \in Nat /\ \A j \in 1..1 : j = 1
    BY <1>1, <1>6
  <2>2. \A j \in 1..1 : s[j].id <= s[1].id
    BY <2>1
  <2> QED BY <1>5, <1>6, <2>2
<1>7. CASE m # 1
  <2>1. m - 1 \in 1..Len(s) /\ m - 1 < m
    BY <1>1, <1>7
  <2>2. \E i \in 1..(m - 1) : \A j \in 1..(m - 1) : s[j].id <= s[i].id
    BY <1>4, <2>1
  <2> HIDE DEF Bad
  <2>3. PICK i \in 1..(m - 1) : \A j \in 1..(m - 1) : s[j].id <= s[i].id
    BY <2>2
  <2>4. /\ i \in 1..m /\ m \in 1..m /\ s[i].id \in Nat /\ s[m].id \in Nat
        /\ \A j \in 1..m : j = m \/ j \in 1..(m - 1)
        /\ \A j \in 1..m : s[j].id \in Nat
    BY <1>1, <2>1
  <2>5. CASE s[m].id <= s[i].id
    BY <1>5, <2>3, <2>4, <2>5
  <2>6. CASE s[i].id <= s[m].id
    <3>1. \A x, y, z \in Nat : x <= y /\ y <= z => x <= z
      OBVIOUS
    <3>2. \A j \in 1..m : s[j].id <= s[m].id
      BY <2>3, <2>4, <2>6, <3>1
    <3> QED BY <1>5, <2>4, <3>2
  <2>7. s[m].id <= s[i].id \/ s[i].id <= s[m].id
    BY <2>4
  <2> QED BY <2>5, <2>6, <2>7
<1> QED BY <1>6, <1>7

\* The counter a restart starts from is larger than every id it loaded.
LEMMA NextIdAbove ==
  ASSUME NEW s, Ordered(s)
  PROVE  NextId(s) \in Nat /\ \A r \in Rows(s) : r.id < NextId(s)
<1> DEFINE I == { r.id : r \in Rows(s) }
<1>1. /\ s \in Seq(Rec) /\ Len(s) \in Nat
      /\ \A r : r \in Rows(s) <=> \E i \in 1..Len(s) : s[i] = r
      /\ \A i \in 1..Len(s) : s[i].id \in Nat
  BY RowsOf, RecFields DEF Ordered
<1>2. CASE s = << >>
  <2>1. Rows(s) = {}
    BY <1>2, EmptyRows
  <2> QED BY <1>2, <2>1 DEF NextId
<1>3. CASE s # << >>
  <2>2. Len(s) \in 1..Len(s)
    <3>1. Len(s) # 0
      BY <1>1, <1>3
    <3> QED BY <1>1, <3>1
  <2>3. PICK i \in 1..Len(s) : \A j \in 1..Len(s) : s[j].id <= s[i].id
    BY <2>2, LargestId
  <2>4. s[i].id \in I /\ \A x \in I : x \in Nat /\ s[i].id >= x
    BY <1>1, <2>3
  <2> HIDE DEF I
  <2>5. Max(I) \in I /\ \A x \in I : Max(I) >= x
    BY <2>4 DEF Max
  <2>6. NextId(s) = 1 + Max(I)
    BY <1>3 DEF NextId, I
  <2>7. \A r \in Rows(s) : r.id \in I
    BY DEF I
  <2> QED BY <2>4, <2>5, <2>6, <2>7
<1> QED BY <1>2, <1>3
-----------------------------------------------------------------------------
(* The type invariant. *)

ThreadRec ==
  [pc : Pcs, op : OpNames \union {"create", "none"}, id : Nat, at : 0..MaxDrafts,
   ver : 0..MaxVersion, rev : Nat, upto : Nat, all : BOOLEAN, owed : SUBSET Nat,
   snap : Seq(Rec), victims : SUBSET (1..MaxDrafts)]

\* The locals of a thread: what it carries at each point of its operation.
GoodThread ==
  { q \in ThreadRec :
      /\ Ordered(q.snap) /\ (q.pc \notin {"replace", "mirror"} => q.snap = << >>)
      /\ q.pc \in {"idle", "create", "copy"} => q = [Idle EXCEPT !.pc = q.pc]
      /\ q.pc = "sync" => q.op = "create"
      /\ q.pc = "archive" => q.op = "delete"
      /\ q.pc = "clearArchive" => q.op = "libclear"
      /\ q.pc \in {"wipeJson", "wipeDb"} => q.op = "wipe"
      /\ q.op \notin {"delete", "libclear", "wipe"} => q.victims = {} }

CountersGood ==
  /\ next \in Nat /\ sNext \in Nat
  /\ request \in Nat /\ written \in 0..request
  /\ full \in BOOLEAN /\ ids \subseteq Nat

ThreadsGood ==
  /\ thr \in [Threads -> GoodThread]
  /\ \A t \in Threads : /\ thr[t].rev <= request /\ thr[t].upto <= request
                        /\ thr[t].victims \subseteq doomed
                        /\ \A r \in Rows(thr[t].snap) : r.at <= born

LockGood ==
  /\ writer \in Threads \union {None}
  /\ \A t \in Threads : writer = t <=> thr[t].pc \in Writing

RowsGood ==
  /\ Ordered(queue) /\ (json = None \/ Ordered(json)) /\ archive \subseteq Rec
  /\ born \in 0..MaxDrafts
  /\ \A r \in Rows(queue) \union archive \union OnFile : r.at <= born

HistoryGood ==
  /\ acked \in [1..MaxDrafts -> 0..MaxVersion]
  /\ doomed \subseteq 1..MaxDrafts /\ gone \subseteq doomed

TypeInv == CountersGood /\ ThreadsGood /\ LockGood /\ RowsGood /\ HistoryGood

\* Only thread t has moved.
Moved(t) ==
  /\ thr' \in [Threads -> GoodThread]
  /\ \A w \in Threads : w # t => thr'[w] = thr[w]

LEMMA MovedTo ==
  ASSUME thr \in [Threads -> GoodThread], NEW t \in Threads, NEW q \in GoodThread,
         thr' = [thr EXCEPT ![t] = q]
  PROVE  Moved(t) /\ thr'[t] = q
BY DEF Moved

\* The same operation on the same draft.
SameWork(p, q) == p.op = q.op /\ p.id = q.id /\ p.at = q.at /\ p.ver = q.ver

LEMMA IdleGood ==
  \A pc \in {"idle", "create", "copy"} :
    /\ [Idle EXCEPT !.pc = pc] \in GoodThread
    /\ [Idle EXCEPT !.pc = pc].pc = pc /\ [Idle EXCEPT !.pc = pc].snap = << >>
    /\ [Idle EXCEPT !.pc = pc].rev = 0 /\ [Idle EXCEPT !.pc = pc].upto = 0
    /\ [Idle EXCEPT !.pc = pc].victims = {} /\ [Idle EXCEPT !.pc = pc].op = "none"
<1> SUFFICES ASSUME NEW pc \in {"idle", "create", "copy"}
             PROVE  /\ [Idle EXCEPT !.pc = pc] \in GoodThread
                    /\ [Idle EXCEPT !.pc = pc].pc = pc /\ [Idle EXCEPT !.pc = pc].snap = << >>
                    /\ [Idle EXCEPT !.pc = pc].rev = 0 /\ [Idle EXCEPT !.pc = pc].upto = 0
                    /\ [Idle EXCEPT !.pc = pc].victims = {} /\ [Idle EXCEPT !.pc = pc].op = "none"
  OBVIOUS
<1> DEFINE q == [Idle EXCEPT !.pc = pc]
<1>1. /\ q.pc = pc /\ q.snap = << >> /\ q.victims = {} /\ q.op = "none"
      /\ q.rev = 0 /\ q.upto = 0
  BY DEF Idle
<1>2. MaxDrafts \in Nat /\ MaxVersion \in Nat /\ << >> \in Seq(Rec)
  BY DraftStoreAssumption
<1>3. q \in ThreadRec
  <2>1. 0 \in 0..MaxDrafts /\ 0 \in 0..MaxVersion /\ 0 \in Nat
    BY <1>2
  <2>2. pc \in Pcs
    BY DEF Pcs
  <2> QED BY <1>2, <2>1, <2>2 DEF Idle, ThreadRec
<1>4. q = [Idle EXCEPT !.pc = q.pc]
  BY <1>1
<1> HIDE DEF q
<1>5. q \in GoodThread
  BY <1>1, <1>3, <1>4, EmptyRows DEF GoodThread
<1> QED BY <1>1, <1>5 DEF q

LEMMA IdleThread ==
  /\ Idle \in GoodThread /\ Idle.pc = "idle" /\ Idle.op = "none" /\ Idle.snap = << >>
  /\ Idle.rev = 0 /\ Idle.upto = 0 /\ Idle.victims = {}
<1>1. Idle = [Idle EXCEPT !.pc = "idle"]
  BY DEF Idle
<1> QED BY <1>1, IdleGood

SavingAt(op, id, at, ver, pc, V) == [Saving(op, id, at, ver) EXCEPT !.pc = pc, !.victims = V]
SavingWith(op, V) == [Saving(op, 0, 0, 0) EXCEPT !.victims = V]

\* A thread that starts to save.
LEMMA SavingGood ==
  ASSUME NEW op \in OpNames \union {"create"}, NEW id \in Nat, NEW at \in 0..MaxDrafts,
         NEW ver \in 0..MaxVersion, NEW V \in SUBSET (1..MaxDrafts),
         op \in {"delete", "libclear", "wipe"} \/ V = {},
         NEW pc, pc = "request" \/ (pc = "archive" /\ op = "delete"),
         NEW q, q = SavingAt(op, id, at, ver, pc, V)
  PROVE  /\ q \in GoodThread /\ q.pc = pc /\ q.op = op /\ q.id = id /\ q.at = at /\ q.ver = ver
         /\ q.rev = 0 /\ q.upto = 0 /\ q.snap = << >> /\ q.victims = V
<1>1. /\ q.pc = pc /\ q.op = op /\ q.id = id /\ q.at = at /\ q.ver = ver
      /\ q.rev = 0 /\ q.upto = 0 /\ q.snap = << >> /\ q.victims = V
  BY DEF SavingAt, Saving, Idle
<1>2. << >> \in Seq(Rec) /\ pc \in Pcs
  BY DEF Pcs
<1>3. q \in ThreadRec
  BY <1>2 DEF SavingAt, Saving, Idle, ThreadRec
<1> QED BY <1>1, <1>3, EmptyRows DEF GoodThread

LEMMA ThreadFields ==
  ASSUME NEW q \in GoodThread
  PROVE  /\ q.pc \in Pcs /\ q.op \in OpNames \union {"create", "none"} /\ q.id \in Nat
         /\ q.at \in 0..MaxDrafts /\ q.ver \in 0..MaxVersion /\ q.rev \in Nat /\ q.upto \in Nat
         /\ q.all \in BOOLEAN /\ q.owed \subseteq Nat /\ Ordered(q.snap) /\ q.snap \in Seq(Rec)
         /\ q.victims \subseteq 1..MaxDrafts
         /\ q.pc \notin {"replace", "mirror"} => q.snap = << >>
BY DEF GoodThread, ThreadRec

LEMMA RequestThread ==
  ASSUME TypeInv, NEW t \in Threads, Request(t)
  PROVE  /\ Moved(t) /\ SameWork(thr'[t], thr[t]) /\ thr'[t].pc = "enter"
         /\ thr'[t].rev = request + 1 /\ thr'[t].upto = thr[t].upto
         /\ thr'[t].snap = << >> /\ thr'[t].victims = thr[t].victims
<1> DEFINE q == [thr[t] EXCEPT !.pc = "enter", !.rev = request + 1]
<1>1. /\ thr \in [Threads -> GoodThread] /\ request \in Nat /\ thr[t].pc = "request"
      /\ thr[t] \in GoodThread /\ thr[t] \in ThreadRec
  BY DEF TypeInv, ThreadsGood, CountersGood, Request, GoodThread
<1>2. thr' = [thr EXCEPT ![t] = q]
  BY <1>1 DEF Request
<1>3. /\ q.pc = "enter" /\ q.rev = request + 1 /\ SameWork(q, thr[t]) /\ q.upto = thr[t].upto
      /\ q.snap = thr[t].snap /\ q.victims = thr[t].victims
  BY <1>1 DEF ThreadRec, SameWork
<1>r. q \in ThreadRec
  <2>1. request + 1 \in Nat /\ "enter" \in Pcs
    BY <1>1 DEF Pcs
  <2> QED BY <1>1, <2>1 DEF ThreadRec
<1>4. thr[t].snap = << >>
  BY <1>1, ThreadFields
<1> HIDE DEF q
<1>5. q \in GoodThread
  BY <1>1, <1>3, <1>4, <1>r DEF GoodThread, SameWork
<1> QED BY <1>1, <1>2, <1>3, <1>4, <1>5, MovedTo

LEMMA ClaimThread ==
  ASSUME TypeInv, NEW t \in Threads, Claim(t)
  PROVE  /\ Moved(t) /\ SameWork(thr'[t], thr[t]) /\ thr'[t].pc = "snapshot"
         /\ thr'[t].rev = thr[t].rev /\ thr'[t].upto = request
         /\ thr'[t].all = full /\ thr'[t].owed = (IF full THEN {} ELSE ids)
         /\ thr'[t].snap = << >> /\ thr'[t].victims = thr[t].victims
<1> DEFINE q == [thr[t] EXCEPT !.pc = "snapshot", !.upto = request, !.all = full,
                               !.owed = IF full THEN {} ELSE ids]
<1>1. /\ thr \in [Threads -> GoodThread] /\ request \in Nat /\ thr[t].pc = "enter"
      /\ thr[t] \in GoodThread /\ thr[t] \in ThreadRec /\ full \in BOOLEAN /\ ids \subseteq Nat
  BY DEF TypeInv, ThreadsGood, CountersGood, Claim, GoodThread
<1>2. thr' = [thr EXCEPT ![t] = q]
  BY <1>1 DEF Claim
<1>3. /\ q.pc = "snapshot" /\ q.rev = thr[t].rev /\ SameWork(q, thr[t]) /\ q.upto = request
      /\ q.all = full /\ q.owed = (IF full THEN {} ELSE ids)
      /\ q.snap = thr[t].snap /\ q.victims = thr[t].victims /\ q \in ThreadRec
  BY <1>1 DEF ThreadRec, SameWork, Pcs
<1>4. thr[t].snap = << >>
  BY <1>1, ThreadFields
<1> HIDE DEF q
<1>5. q \in GoodThread
  BY <1>1, <1>3, <1>4 DEF GoodThread, SameWork
<1> QED BY <1>1, <1>2, <1>3, <1>4, <1>5, MovedTo

LEMMA SnapshotThread ==
  ASSUME TypeInv, NEW t \in Threads, Snapshot(t)
  PROVE  /\ Moved(t) /\ SameWork(thr'[t], thr[t]) /\ thr'[t].pc = "replace"
         /\ thr'[t].rev = thr[t].rev /\ thr'[t].upto = thr[t].upto
         /\ thr'[t].all = thr[t].all /\ thr'[t].owed = thr[t].owed
         /\ thr'[t].snap = queue /\ thr'[t].victims = thr[t].victims
<1> DEFINE q == [thr[t] EXCEPT !.pc = "replace", !.snap = queue]
<1>1. /\ thr \in [Threads -> GoodThread] /\ thr[t].pc = "snapshot"
      /\ thr[t] \in GoodThread /\ thr[t] \in ThreadRec /\ Ordered(queue) /\ queue \in Seq(Rec)
  BY DEF TypeInv, ThreadsGood, RowsGood, Snapshot, GoodThread, Ordered
<1>2. thr' = [thr EXCEPT ![t] = q]
  BY <1>1 DEF Snapshot
<1>3. /\ q.pc = "replace" /\ q.rev = thr[t].rev /\ SameWork(q, thr[t]) /\ q.upto = thr[t].upto
      /\ q.all = thr[t].all /\ q.owed = thr[t].owed
      /\ q.snap = queue /\ q.victims = thr[t].victims /\ q \in ThreadRec
  BY <1>1 DEF ThreadRec, SameWork, Pcs
<1> HIDE DEF q
<1>5. q \in GoodThread
  BY <1>1, <1>3 DEF GoodThread, SameWork
<1> QED BY <1>1, <1>2, <1>3, <1>5, MovedTo

LEMMA ReplaceThread ==
  ASSUME TypeInv, NEW t \in Threads, Replace(t)
  PROVE  /\ Moved(t) /\ SameWork(thr'[t], thr[t]) /\ thr'[t].pc = "mirror"
         /\ thr'[t].rev = thr[t].rev /\ thr'[t].upto = thr[t].upto
         /\ thr'[t].all = thr[t].all /\ thr'[t].owed = thr[t].owed
         /\ thr'[t].snap = thr[t].snap /\ thr'[t].victims = thr[t].victims
<1> DEFINE q == [thr[t] EXCEPT !.pc = "mirror"]
<1>1. /\ thr \in [Threads -> GoodThread] /\ thr[t].pc = "replace"
      /\ thr[t] \in GoodThread /\ thr[t] \in ThreadRec
  BY DEF TypeInv, ThreadsGood, Replace, GoodThread
<1>2. thr' = [thr EXCEPT ![t] = q]
  BY <1>1 DEF Replace
<1>3. /\ q.pc = "mirror" /\ q.rev = thr[t].rev /\ SameWork(q, thr[t]) /\ q.upto = thr[t].upto
      /\ q.all = thr[t].all /\ q.owed = thr[t].owed
      /\ q.snap = thr[t].snap /\ q.victims = thr[t].victims /\ q \in ThreadRec
  BY <1>1 DEF ThreadRec, SameWork, Pcs
<1> HIDE DEF q
<1>5. q \in GoodThread
  BY <1>1, <1>3 DEF GoodThread, SameWork
<1> QED BY <1>1, <1>2, <1>3, <1>5, MovedTo

\* A save that returns: the operation is over, or goes on with what it removed.
LEMMA AfterSaveThread ==
  ASSUME TypeInv, NEW t \in Threads, thr[t].pc \in {"enter", "replace", "mirror"},
         NEW removed, removed = {} \/ removed = thr[t].victims, AfterSave(t, removed)
  PROVE  /\ Moved(t) /\ thr'[t].pc \in {"idle", "sync", "archive", "clearArchive", "wipeJson"}
         /\ thr'[t].rev = 0 /\ thr'[t].upto = 0 /\ thr'[t].snap = << >>
         /\ gone' = gone /\ (thr[t].op = "create" => thr'[t].pc = "sync")
         /\ \/ thr'[t] = Idle
            \/ SameWork(thr'[t], thr[t]) /\ thr'[t].pc # "idle" /\ thr'[t].victims = removed
<1> DEFINE pc == CASE thr[t].op = "create"   -> "sync"
                   [] thr[t].op = "delete"   -> "archive"
                   [] thr[t].op = "libclear" -> "clearArchive"
                   [] thr[t].op = "wipe"     -> "wipeJson"
                   [] OTHER                  -> "idle"
           q == [thr[t] EXCEPT !.pc = pc, !.snap = << >>, !.owed = {},
                               !.rev = 0, !.upto = 0, !.all = FALSE, !.victims = removed]
<1>1. /\ thr \in [Threads -> GoodThread] /\ thr[t] \in GoodThread /\ thr[t] \in ThreadRec
  BY DEF TypeInv, ThreadsGood, GoodThread
<1>2. /\ pc \in {"idle", "sync", "archive", "clearArchive", "wipeJson"}
      /\ pc = "sync" => thr[t].op = "create"
      /\ pc = "archive" => thr[t].op = "delete"
      /\ pc = "clearArchive" => thr[t].op = "libclear"
      /\ pc = "wipeJson" => thr[t].op = "wipe"
      /\ pc = "idle" => thr[t].op \notin {"create", "delete", "libclear", "wipe"}
      /\ thr[t].op = "create" => pc = "sync"
  OBVIOUS
<1>3. \/ pc = "idle" /\ thr' = [thr EXCEPT ![t] = Idle] /\ gone' = gone \union removed
      \/ pc # "idle" /\ thr' = [thr EXCEPT ![t] = q] /\ gone' = gone
  BY <1>1 DEF AfterSave
<1> HIDE DEF pc
<1>6. pc = "idle" => gone' = gone
  <2>1. pc = "idle" => thr[t].victims = {}
    BY <1>1, <1>2 DEF GoodThread
  <2> QED BY <1>3, <2>1
<1>4. CASE pc = "idle"
  <2>1. Moved(t) /\ thr'[t] = Idle
    BY <1>1, <1>3, <1>4, IdleThread, MovedTo
  <2> QED BY <1>2, <1>3, <1>4, <1>6, <2>1, IdleThread
<1>5. CASE pc # "idle"
  <2>1. /\ q.pc = pc /\ q.rev = 0 /\ SameWork(q, thr[t]) /\ q.upto = 0
        /\ q.snap = << >> /\ q.victims = removed
    BY <1>1 DEF ThreadRec, SameWork
  <2>2. << >> \in Seq(Rec) /\ pc \in Pcs /\ removed \in SUBSET (1..MaxDrafts)
    BY <1>1, <1>2, ThreadFields DEF Pcs
  <2>3. q \in ThreadRec
    BY <1>1, <2>2 DEF ThreadRec
  <2> HIDE DEF q
  <2>4. q \in GoodThread
    BY <1>1, <1>2, <1>5, <2>1, <2>3, EmptyRows DEF GoodThread, SameWork
  <2>5. Moved(t) /\ thr'[t] = q
    BY <1>1, <1>3, <1>5, <2>4, MovedTo
  <2> QED BY <1>2, <1>3, <1>5, <2>1, <2>5
<1> QED BY <1>4, <1>5

LEMMA WipeJsonThread ==
  ASSUME TypeInv, NEW t \in Threads, WipeJson(t)
  PROVE  /\ Moved(t) /\ SameWork(thr'[t], thr[t]) /\ thr'[t].pc = "wipeDb"
         /\ thr'[t].rev = thr[t].rev /\ thr'[t].upto = thr[t].upto
         /\ thr'[t].snap = << >> /\ thr'[t].victims = thr[t].victims
<1> DEFINE q == [thr[t] EXCEPT !.pc = "wipeDb"]
<1>1. /\ thr \in [Threads -> GoodThread] /\ thr[t].pc = "wipeJson"
      /\ thr[t] \in GoodThread /\ thr[t] \in ThreadRec
  BY DEF TypeInv, ThreadsGood, WipeJson, GoodThread
<1>2. thr' = [thr EXCEPT ![t] = q]
  BY <1>1 DEF WipeJson
<1>3. /\ q.pc = "wipeDb" /\ q.rev = thr[t].rev /\ SameWork(q, thr[t]) /\ q.upto = thr[t].upto
      /\ q.snap = thr[t].snap /\ q.victims = thr[t].victims /\ q \in ThreadRec
  BY <1>1 DEF ThreadRec, SameWork, Pcs
<1>4. thr[t].snap = << >>
  BY <1>1, ThreadFields
<1> HIDE DEF q
<1>5. q \in GoodThread
  BY <1>1, <1>3, <1>4 DEF GoodThread, SameWork
<1> QED BY <1>1, <1>2, <1>3, <1>4, <1>5, MovedTo

LEMMA SavingThread ==
  ASSUME NEW op \in OpNames \union {"create"}, NEW id \in Nat, NEW at \in 0..MaxDrafts,
         NEW ver \in 0..MaxVersion
  PROVE  /\ Saving(op, id, at, ver) \in GoodThread
         /\ Saving(op, id, at, ver).pc = "request" /\ Saving(op, id, at, ver).op = op
         /\ Saving(op, id, at, ver).id = id /\ Saving(op, id, at, ver).at = at
         /\ Saving(op, id, at, ver).ver = ver
         /\ Saving(op, id, at, ver).rev = 0 /\ Saving(op, id, at, ver).upto = 0
         /\ Saving(op, id, at, ver).snap = << >> /\ Saving(op, id, at, ver).victims = {}
<1> DEFINE q == Saving(op, id, at, ver)
<1>1. /\ q.pc = "request" /\ q.op = op /\ q.id = id /\ q.at = at /\ q.ver = ver
      /\ q.rev = 0 /\ q.upto = 0 /\ q.snap = << >> /\ q.victims = {}
  BY DEF Saving, Idle
<1>2. << >> \in Seq(Rec) /\ "request" \in Pcs
  BY DEF Pcs
<1>3. q \in ThreadRec
  BY <1>2 DEF Saving, Idle, ThreadRec
<1> HIDE DEF q
<1>4. q \in GoodThread
  BY <1>1, <1>3, EmptyRows DEF GoodThread
<1> QED BY <1>1, <1>4 DEF q

LEMMA EmptyingGood ==
  ASSUME NEW op \in {"clear", "libclear", "wipe"}, NEW V \in SUBSET (1..MaxDrafts),
         op # "clear" \/ V = {},
         NEW q, q = SavingWith(op, V)
  PROVE  /\ q \in GoodThread /\ q.pc = "request" /\ q.op = op /\ q.id = 0 /\ q.at = 0
         /\ q.rev = 0 /\ q.upto = 0 /\ q.snap = << >> /\ q.victims = V
<1>1. /\ q.pc = "request" /\ q.op = op /\ q.id = 0 /\ q.at = 0 /\ q.ver = 0
      /\ q.rev = 0 /\ q.upto = 0 /\ q.snap = << >> /\ q.victims = V
  BY DEF SavingWith, Saving, Idle
<1>2. << >> \in Seq(Rec) /\ "request" \in Pcs /\ op \in OpNames /\ 0 \in Nat
      /\ 0 \in 0..MaxDrafts /\ 0 \in 0..MaxVersion
  BY DraftStoreAssumption DEF Pcs, OpNames
<1>3. q \in ThreadRec
  BY <1>2 DEF SavingWith, Saving, Idle, ThreadRec
<1> QED BY <1>1, <1>3, EmptyRows DEF GoodThread

LEMMA IdleIs ==
  ASSUME TypeInv, NEW t \in Threads, thr[t].pc \in {"idle", "create", "copy"}
  PROVE  /\ thr[t] = [Idle EXCEPT !.pc = thr[t].pc] /\ thr[t].victims = {}
         /\ thr[t].pc = "idle" => thr[t] = Idle
<1>1. thr[t] = [Idle EXCEPT !.pc = thr[t].pc]
  BY DEF TypeInv, ThreadsGood, GoodThread
<1>2. Idle = [Idle EXCEPT !.pc = "idle"]
  BY DEF Idle
<1> QED BY <1>1, <1>2, IdleGood

\* The first half of a create or of a library copy.
LEMMA BeginThread ==
  ASSUME TypeInv, NEW t \in Threads, NEW pc \in {"create", "copy"}, thr[t].pc = "idle",
         thr' = [thr EXCEPT ![t].pc = pc]
  PROVE  /\ Moved(t) /\ thr'[t].pc = pc /\ thr'[t].op = "none" /\ thr'[t].rev = 0 /\ thr'[t].upto = 0
         /\ thr'[t].snap = << >> /\ thr'[t].victims = {}
<1> DEFINE q == [Idle EXCEPT !.pc = pc]
<1>1. thr \in [Threads -> GoodThread] /\ thr[t] = Idle
  BY IdleIs DEF TypeInv, ThreadsGood
<1>2. thr' = [thr EXCEPT ![t] = q]
  BY <1>1
<1>3. /\ q \in GoodThread /\ q.pc = pc /\ q.snap = << >> /\ q.rev = 0 /\ q.upto = 0
      /\ q.victims = {} /\ q.op = "none"
  BY IdleGood
<1> HIDE DEF q
<1> QED BY <1>1, <1>2, <1>3, MovedTo

\* Creating a draft: it joins the queue, which may drop its oldest ones.
LEMMA EnqueueRows ==
  ASSUME TypeInv, NEW t \in Threads, NEW op \in {"create", "library"}, born < MaxDrafts, Enqueue(t, op)
  PROVE  LET rec == [id |-> next, at |-> born + 1, ver |-> 1]
         IN  /\ rec \in Rec /\ Ordered(queue') /\ Rows(queue') \subseteq Rows(queue) \union {rec}
             /\ Len(queue) + 1 <= Limit => Rows(queue') = Rows(queue) \union {rec}
             /\ born' = born + 1 /\ born + 1 \in 0..MaxDrafts /\ born \in Nat
             /\ \A r \in Rows(queue) : r.at < born + 1
             /\ Moved(t) /\ thr'[t].pc = "request" /\ thr'[t].op = op /\ thr'[t].id = next
             /\ thr'[t].at = born + 1 /\ thr'[t].ver = 1 /\ thr'[t].rev = 0 /\ thr'[t].upto = 0
             /\ thr'[t].snap = << >> /\ thr'[t].victims = {}
<1> DEFINE rec == [id |-> next, at |-> born + 1, ver |-> 1]
           q == Saving(op, next, born + 1, 1)
<1>1. /\ thr \in [Threads -> GoodThread] /\ next \in Nat /\ born \in 0..MaxDrafts
      /\ Ordered(queue) /\ \A r \in Rows(queue) : r.at <= born
      /\ MaxDrafts \in Nat /\ MaxVersion \in Nat /\ MaxVersion # 0 /\ Limit \in Nat
  BY DraftStoreAssumption DEF TypeInv, ThreadsGood, RowsGood, CountersGood
<1>2. born + 1 \in 1..MaxDrafts /\ 1 \in 1..MaxVersion
  BY <1>1
<1>3. rec \in Rec /\ rec.id = next /\ rec.at = born + 1 /\ rec.ver = 1
  BY <1>1, <1>2 DEF Rec
<1>4. /\ queue' = Trim(Append(queue, rec)) /\ born' = born + 1
      /\ thr' = [thr EXCEPT ![t] = q]
  BY <1>3 DEF Enqueue
<1>5. /\ q \in GoodThread /\ q.pc = "request" /\ q.op = op /\ q.id = next /\ q.at = born + 1
      /\ q.ver = 1 /\ q.rev = 0 /\ q.upto = 0 /\ q.snap = << >> /\ q.victims = {}
  <2>1. op \in OpNames \union {"create"} /\ born + 1 \in 0..MaxDrafts /\ 1 \in 0..MaxVersion
    BY <1>1, <1>2 DEF OpNames
  <2> QED BY <1>1, <2>1, SavingThread
<1> HIDE DEF rec, q
<1>6. \A r \in Rows(queue) : r.at < rec.at
  <2>1. \A r \in Rows(queue) : r.at \in Nat
    BY <1>1, OrderedRows, RecFields
  <2> QED BY <1>1, <1>3, <2>1
<1>7. /\ Ordered(Append(queue, rec)) /\ Rows(Append(queue, rec)) = Rows(queue) \union {rec}
      /\ Len(Append(queue, rec)) = Len(queue) + 1
  BY <1>1, <1>3, <1>6, AppendRows
<1>8. /\ Ordered(queue') /\ Rows(queue') \subseteq Rows(queue) \union {rec}
      /\ Len(queue) + 1 <= Limit => Rows(queue') = Rows(queue) \union {rec}
  <2> DEFINE long == Append(queue, rec)
  <2>1. /\ Ordered(long) /\ Rows(long) = Rows(queue) \union {rec} /\ Len(long) = Len(queue) + 1
        /\ queue' = Trim(long)
    BY <1>4, <1>7
  <2> HIDE DEF long
  <2>2. /\ Ordered(queue') /\ Rows(queue') \subseteq Rows(long)
        /\ Len(long) <= Limit => queue' = long
    BY <2>1, TrimRows
  <2> QED BY <2>1, <2>2
<1>9. Moved(t) /\ thr'[t] = q
  BY <1>1, <1>4, <1>5, MovedTo
<1>10. born + 1 \in 0..MaxDrafts /\ born \in Nat
  BY <1>1, <1>2
<1> QED BY <1>3, <1>4, <1>5, <1>6, <1>8, <1>9, <1>10 DEF rec

LEMMA UpdateStep ==
  ASSUME TypeInv, NEW t \in Threads, NEW i \in 1..Len(queue), Update(t, i)
  PROVE  \E r \in Rec :
             /\ queue[i] \in Rows(queue) /\ r.id = queue[i].id /\ r.at = queue[i].at
             /\ r.ver = queue[i].ver + 1
             /\ Ordered(queue') /\ Rows(queue') = (Rows(queue) \ {queue[i]}) \union {r}
             /\ Len(queue') = Len(queue)
             /\ Moved(t) /\ thr'[t].pc = "request" /\ thr'[t].op = "update" /\ thr'[t].id = r.id
             /\ thr'[t].at = r.at /\ thr'[t].ver = r.ver /\ thr'[t].rev = 0 /\ thr'[t].upto = 0
             /\ thr'[t].snap = << >> /\ thr'[t].victims = {}
<1> DEFINE r == [queue[i] EXCEPT !.ver = @ + 1]
           q == Saving("update", queue[i].id, queue[i].at, queue[i].ver + 1)
<1>1. /\ thr \in [Threads -> GoodThread] /\ Ordered(queue) /\ queue[i] \in Rows(queue)
      /\ queue[i] \in Rec /\ MaxDrafts \in Nat /\ MaxVersion \in Nat
  BY DraftStoreAssumption, OrderedRows DEF TypeInv, ThreadsGood, RowsGood
<1>2. /\ queue[i].ver < MaxVersion /\ queue' = [queue EXCEPT ![i].ver = @ + 1]
      /\ thr' = [thr EXCEPT ![t] = q]
  BY DEF Update
<1>3. /\ r \in Rec /\ r.id = queue[i].id /\ r.at = queue[i].at /\ r.ver = queue[i].ver + 1
      /\ Ordered(queue') /\ Len(queue') = Len(queue)
      /\ Rows(queue') = (Rows(queue) \ {queue[i]}) \union {r}
  <2>1. r = Bumped(queue[i]) /\ queue' = BumpedAt(queue, i)
    BY <1>2 DEF Bumped, BumpedAt
  <2>2. Ordered(queue) /\ queue[i].ver < MaxVersion
    BY <1>1, <1>2
  <2> HIDE DEF r
  <2> QED BY <2>1, <2>2, UpdateRows
<1>4. /\ q \in GoodThread /\ q.pc = "request" /\ q.op = "update" /\ q.id = queue[i].id
      /\ q.at = queue[i].at /\ q.ver = queue[i].ver + 1 /\ q.rev = 0 /\ q.upto = 0
      /\ q.snap = << >> /\ q.victims = {}
  <2>1. r.id \in Nat /\ r.at \in 1..MaxDrafts /\ r.ver \in 1..MaxVersion
    BY <1>3, RecFields
  <2>2. /\ queue[i].id \in Nat /\ queue[i].at \in 0..MaxDrafts /\ queue[i].ver + 1 \in 0..MaxVersion
    BY <1>1, <1>3, <2>1
  <2>3. "update" \in OpNames
    BY DEF OpNames
  <2> QED BY <2>2, <2>3, SavingThread
<1> HIDE DEF r, q
<1>5. Moved(t) /\ thr'[t] = q
  BY <1>1, <1>2, <1>4, MovedTo
<1> QED BY <1>1, <1>3, <1>4, <1>5

\* The file loses the rows of one id.
LEMMA WithoutFile ==
  ASSUME TypeInv, NEW id, json' = Without(id)
  PROVE  /\ json' = None \/ Ordered(json')
         /\ OnFile' \subseteq { r \in OnFile : r.id # id }
<1>1. CASE json = None
  <2>1. json' = None
    BY <1>1 DEF Without
  <2> QED BY <2>1 DEF OnFile
<1>2. CASE json # None
  <2>1. Ordered(json)
    BY <1>2 DEF TypeInv, RowsGood
  <2>2. Ordered(json') /\ Rows(json') = { r \in Rows(json) : r.id # id }
    BY <1>2, <2>1, WithoutRows
  <2> QED BY <1>2, <2>2 DEF OnFile
<1> QED BY <1>1, <1>2

\* Deleting a draft: the queue and the file lose it before the save.
LEMMA DeleteStep ==
  ASSUME TypeInv, NEW t \in Threads, NEW id \in 1..MaxDrafts, DeleteQueued(t, id)
  PROVE  LET named == thr'[t].victims \union (doomed' \ doomed) IN
         /\ json' = None \/ Ordered(json')
         /\ OnFile' \subseteq { r \in OnFile : r.id # id }
         /\ Ordered(queue') /\ Rows(queue') \subseteq Rows(queue)
         /\ \A r \in Rows(queue) : r \in Rows(queue') \/ (r.id = id /\ r.at \in doomed')
         /\ Moved(t) /\ thr'[t].op = "delete" /\ thr'[t].id = id /\ thr'[t].at = 0 /\ thr'[t].ver = 0
         /\ \/ thr'[t].pc = "request"
            \/ thr'[t].pc = "archive" /\ \A r \in Rows(queue') : r.id # id
         /\ thr'[t].rev = 0 /\ thr'[t].upto = 0 /\ thr'[t].snap = << >>
         /\ thr'[t].victims \subseteq doomed' /\ doomed \subseteq doomed' /\ doomed' \subseteq 1..MaxDrafts
         /\ \A a \in thr'[t].victims : /\ \A r \in Rows(queue') : r.at # a
                                       /\ \E r \in archive \union Rows(queue) : r.at = a /\ r.id = id
         /\ \A r \in archive : r.id = id => r.at \in doomed'
         /\ \A a \in doomed' : a \in doomed \/ \E r \in archive \union Rows(queue) : r.at = a
<1> DEFINE i == Find(id)
           named == Ats({ r \in archive : r.id = id }) \union (IF i = 0 THEN {} ELSE {queue[i].at})
           V == named \ Ats(Rows(queue'))
           pc == IF i = 0 THEN "archive" ELSE "request"
           q == [Saving("delete", id, 0, 0) EXCEPT !.pc = pc, !.victims = V]
<1>1. /\ thr \in [Threads -> GoodThread] /\ Ordered(queue) /\ archive \subseteq Rec
      /\ doomed \subseteq 1..MaxDrafts /\ MaxDrafts \in Nat
  BY DraftStoreAssumption DEF TypeInv, ThreadsGood, RowsGood, HistoryGood
<1>2. /\ json' = Without(id) /\ queue' = (IF i = 0 THEN queue ELSE RemoveAt(queue, i))
      /\ thr' = [thr EXCEPT ![t] = q] /\ doomed' = doomed \union named
  BY DEF DeleteQueued
<1>3. \/ i = 0 /\ \A r \in Rows(queue) : r.id # id
      \/ i \in 1..Len(queue) /\ queue[i].id = id /\ i # 0
  BY <1>1, FindRow
<1> HIDE DEF i
<1>4. /\ Ordered(queue') /\ Rows(queue') \subseteq Rows(queue)
      /\ \A r \in Rows(queue) : r \in Rows(queue') \/ (i # 0 /\ r = queue[i])
      /\ i = 0 => queue' = queue
  <2>1. CASE i = 0
    BY <1>1, <1>2, <2>1
  <2>2. CASE i # 0
    <3>1. Ordered(queue') /\ Rows(queue') = Rows(queue) \ {queue[i]}
      BY <1>1, <1>2, <1>3, <2>2, RemoveRows
    <3> QED BY <2>2, <3>1
  <2> QED BY <2>1, <2>2
<1>5. i # 0 => queue[i] \in Rows(queue) /\ queue[i] \in Rec
  BY <1>1, <1>3, OrderedRows
<1>6. \A a : a \in named <=> \/ \E r \in archive : r.at = a /\ r.id = id
                             \/ i # 0 /\ a = queue[i].at
  BY DEF Ats
<1>7. \A a \in Ats(Rows(queue')) : \E r \in Rows(queue') : r.at = a
  BY DEF Ats
<1>8. \A r \in Rows(queue') : r.at \in Ats(Rows(queue'))
  BY DEF Ats
<1> HIDE DEF named
<1>9. named \subseteq 1..MaxDrafts
  <2> SUFFICES ASSUME NEW a \in named PROVE a \in 1..MaxDrafts
    OBVIOUS
  <2>1. CASE \E r \in archive : r.at = a /\ r.id = id
    BY <1>1, <2>1, RecFields
  <2>2. CASE i # 0 /\ a = queue[i].at
    BY <1>5, <2>2, RecFields
  <2> QED BY <1>6, <2>1, <2>2
<1>10. V \subseteq named /\ \A a \in V : \A r \in Rows(queue') : r.at # a
  BY <1>8
<1> HIDE DEF V
<1>11. /\ q \in GoodThread /\ q.pc = pc /\ q.op = "delete" /\ q.id = id /\ q.at = 0 /\ q.ver = 0
       /\ q.rev = 0 /\ q.upto = 0 /\ q.snap = << >> /\ q.victims = V
  <2>1. "delete" \in OpNames \union {"create"} /\ id \in Nat /\ 0 \in 0..MaxDrafts /\ 0 \in 0..MaxVersion
    BY <1>1, DraftStoreAssumption DEF OpNames
  <2>2. V \in SUBSET (1..MaxDrafts) /\ (pc = "request" \/ pc = "archive")
    BY <1>9, <1>10
  <2>3. q = SavingAt("delete", id, 0, 0, pc, V)
    BY DEF SavingAt
  <2> HIDE DEF pc, q
  <2>4. pc = "request" \/ (pc = "archive" /\ "delete" = "delete")
    BY <2>2
  <2>5. "delete" \in {"delete", "libclear", "wipe"} \/ V = {}
    OBVIOUS
  <2> QED BY <2>1, <2>2, <2>3, <2>4, <2>5, SavingGood
<1> HIDE DEF q
<1>12. Moved(t) /\ thr'[t] = q
  BY <1>1, <1>2, <1>11, MovedTo
<1>13. /\ json' = None \/ Ordered(json')
       /\ OnFile' \subseteq { r \in OnFile : r.id # id }
  BY <1>2, WithoutFile
<1>14. \A a \in V : \E r \in archive \union Rows(queue) : r.at = a /\ r.id = id
  BY <1>3, <1>5, <1>6, <1>10
<1>15. \A r \in archive : r.id = id => r.at \in doomed'
  BY <1>2, <1>6
<1>16. \A r \in Rows(queue) : r \in Rows(queue') \/ (r.id = id /\ r.at \in doomed')
  BY <1>2, <1>3, <1>4, <1>6
<1>17. \/ thr'[t].pc = "request"
       \/ thr'[t].pc = "archive" /\ \A r \in Rows(queue') : r.id # id
  BY <1>3, <1>4, <1>11, <1>12
<1>19. \A a \in doomed' : a \in doomed \/ \E r \in archive \union Rows(queue) : r.at = a
  BY <1>2, <1>5, <1>6
<1>18. V \subseteq doomed' /\ doomed \subseteq doomed' /\ doomed' \subseteq 1..MaxDrafts
  BY <1>1, <1>2, <1>9, <1>10
<1> QED BY <1>4, <1>10, <1>11, <1>12, <1>13, <1>14, <1>15, <1>16, <1>17, <1>18, <1>19

\* Emptying the queue.
LEMMA EmptyStep ==
  ASSUME TypeInv, NEW t \in Threads, NEW op \in {"clear", "libclear", "wipe"}, Empty(t, op)
  PROVE  /\ queue' = << >> /\ Rows(queue') = {} /\ Ordered(queue')
         /\ Moved(t) /\ thr'[t].pc = "request" /\ thr'[t].op = op /\ thr'[t].id = 0 /\ thr'[t].at = 0
         /\ thr'[t].rev = 0 /\ thr'[t].upto = 0 /\ thr'[t].snap = << >>
         /\ thr'[t].victims \subseteq doomed' /\ doomed \subseteq doomed' /\ doomed' \subseteq 1..MaxDrafts
         /\ \A r \in Rows(queue) : r.at \in doomed'
         /\ op # "clear" => \A r \in archive \union OnFile : r.at \in doomed'
         /\ \A a \in doomed' : a \in doomed \/ \E r \in archive \union Rows(queue) \union OnFile : r.at = a
<1> DEFINE taken == Ats(Rows(queue)) \union (IF op = "clear" THEN {} ELSE Ats(archive \union OnFile))
           V == IF op = "clear" THEN {} ELSE taken
           q == [Saving(op, 0, 0, 0) EXCEPT !.victims = V]
<1>1. /\ thr \in [Threads -> GoodThread] /\ Ordered(queue) /\ archive \subseteq Rec
      /\ doomed \subseteq 1..MaxDrafts /\ (json = None \/ Ordered(json))
  BY DEF TypeInv, ThreadsGood, RowsGood, HistoryGood
<1>2. /\ queue' = << >> /\ doomed' = doomed \union taken
      /\ thr' = [thr EXCEPT ![t] = q]
  BY DEF Empty
<1>3. Rows(queue) \subseteq Rec /\ OnFile \subseteq Rec
  BY <1>1, OrderedRows DEF OnFile
<1>4. taken \subseteq 1..MaxDrafts
  BY <1>1, <1>3, RecFields DEF Ats
<1>5. /\ \A r \in Rows(queue) : r.at \in taken
      /\ op # "clear" => \A r \in archive \union OnFile : r.at \in taken
      /\ \A a \in taken : \E r \in archive \union Rows(queue) \union OnFile : r.at = a
  BY DEF Ats
<1> HIDE DEF taken
<1>6. V \subseteq taken /\ V \in SUBSET (1..MaxDrafts) /\ (op # "clear" \/ V = {})
  BY <1>4
<1> HIDE DEF V
<1>7. /\ q \in GoodThread /\ q.pc = "request" /\ q.op = op /\ q.id = 0 /\ q.at = 0
      /\ q.rev = 0 /\ q.upto = 0 /\ q.snap = << >> /\ q.victims = V
  <2>1. q = SavingWith(op, V)
    BY DEF SavingWith
  <2> HIDE DEF q
  <2> QED BY <1>6, <2>1, EmptyingGood
<1> HIDE DEF q
<1>8. Moved(t) /\ thr'[t] = q
  BY <1>1, <1>2, <1>7, MovedTo
<1> QED BY <1>1, <1>2, <1>4, <1>5, <1>6, <1>7, <1>8, EmptyRows

LEMMA IdleAfter ==
  ASSUME TypeInv, NEW t \in Threads, thr' = [thr EXCEPT ![t] = Idle]
  PROVE  /\ Moved(t) /\ thr'[t] = Idle /\ thr'[t].pc = "idle" /\ thr'[t].rev = 0
         /\ thr'[t].upto = 0 /\ thr'[t].snap = << >> /\ thr'[t].victims = {} /\ thr'[t].op = "none"
<1>1. thr \in [Threads -> GoodThread]
  BY DEF TypeInv, ThreadsGood
<1>2. Moved(t) /\ thr'[t] = Idle
  BY <1>1, IdleThread, MovedTo
<1> QED BY <1>2, IdleThread

LEMMA LastRowsIn ==
  ASSUME NEW s \in Seq(Rec)
  PROVE  LastRows(s) \subseteq Rows(s)
BY RowsOf DEF LastRows

\* What a restart loads.
LEMMA LoadedRows ==
  ASSUME TypeInv
  PROVE  /\ Ordered(Loaded) /\ Rows(Loaded) \subseteq archive \union OnFile
         /\ LoadsJson => Loaded = json /\ Ordered(json) /\ Rows(json) = OnFile /\ archive = {}
         /\ ~LoadsJson => Rows(Loaded) \subseteq archive
<1>1. archive \subseteq Rec /\ (json = None \/ Ordered(json))
  BY DEF TypeInv, RowsGood
<1>2. CASE LoadsJson
  <2>1. Loaded = json /\ Ordered(json) /\ Rows(json) = OnFile /\ archive = {}
    BY <1>1, <1>2 DEF LoadsJson, Loaded, OnFile
  <2> QED BY <1>2, <2>1
<1>3. CASE ~LoadsJson
  <2>1. Loaded = Recent
    BY <1>3 DEF Loaded
  <2> QED BY <1>1, <1>3, <2>1, RecentRows
<1> QED BY <1>2, <1>3

LEMMA ThreadsKept ==
  ASSUME TypeInv, NEW t \in Threads, Moved(t),
         request \in Nat, request' \in Nat, request <= request',
         thr'[t].rev <= request', thr'[t].upto <= request',
         thr'[t].victims \subseteq doomed', doomed \subseteq doomed',
         born \in Nat, born' \in Nat, born <= born',
         \A r \in Rows(thr'[t].snap) : r.at <= born'
  PROVE  ThreadsGood'
<1>1. thr \in [Threads -> GoodThread] /\ thr' \in [Threads -> GoodThread]
  BY DEF TypeInv, ThreadsGood, Moved
<1>2. ASSUME NEW w \in Threads
      PROVE  /\ thr'[w].rev <= request' /\ thr'[w].upto <= request'
             /\ thr'[w].victims \subseteq doomed' /\ \A r \in Rows(thr'[w].snap) : r.at <= born'
  <2>1. CASE w = t
    BY <2>1
  <2>2. CASE w # t
    <3>1. /\ thr'[w] = thr[w] /\ thr[w].rev <= request /\ thr[w].upto <= request
          /\ thr[w].victims \subseteq doomed /\ \A r \in Rows(thr[w].snap) : r.at <= born
      BY <2>2 DEF TypeInv, ThreadsGood, Moved
    <3>2. /\ thr[w].rev \in Nat /\ thr[w].upto \in Nat /\ Ordered(thr[w].snap)
      BY <1>1, ThreadFields
    <3>3. \A r \in Rows(thr[w].snap) : r.at \in Nat
      BY <3>2, OrderedRows, RecFields
    <3>4. \A r \in Rows(thr[w].snap) : r.at <= born'
      BY <3>1, <3>3
    <3> QED BY <3>1, <3>2, <3>4
  <2> QED BY <2>1, <2>2
<1> QED BY <1>1, <1>2 DEF ThreadsGood

LEMMA LockKept ==
  ASSUME TypeInv, NEW t \in Threads, Moved(t),
         \/ writer' = writer /\ (thr'[t].pc \in Writing <=> thr[t].pc \in Writing)
         \/ writer = None /\ writer' = t /\ thr'[t].pc \in Writing
         \/ thr[t].pc \in Writing /\ writer' = None /\ thr'[t].pc \notin Writing
  PROVE  LockGood'
<1>1. /\ writer \in Threads \union {None} /\ None \notin Threads
      /\ \A w \in Threads : writer = w <=> thr[w].pc \in Writing
      /\ \A w \in Threads : w # t => thr'[w] = thr[w]
  BY DraftStoreAssumption DEF TypeInv, LockGood, Moved
<1>2. writer' \in Threads \union {None}
  BY <1>1
<1>3. ASSUME NEW w \in Threads PROVE writer' = w <=> thr'[w].pc \in Writing
  <2>1. CASE w = t
    BY <1>1, <2>1
  <2>2. CASE w # t
    <3>1. thr'[w] = thr[w]
      BY <1>1, <2>2
    <3> QED BY <1>1, <2>2, <3>1
  <2> QED BY <2>1, <2>2
<1> QED BY <1>2, <1>3 DEF LockGood

\* The parts a step leaves as they are.
LEMMA PartsKept ==
  ASSUME TypeInv
  PROVE  /\ UNCHANGED << next, sNext, request, written, full, ids >> => CountersGood'
         /\ UNCHANGED << queue, json, archive, born >> => RowsGood'
         /\ UNCHANGED << acked, doomed, gone >> => HistoryGood'
<1>1. ASSUME UNCHANGED << next, sNext, request, written, full, ids >> PROVE CountersGood'
  BY <1>1 DEF TypeInv, CountersGood
<1>2. ASSUME UNCHANGED << queue, json, archive, born >> PROVE RowsGood'
  BY <1>2 DEF TypeInv, RowsGood, OnFile
<1>3. ASSUME UNCHANGED << acked, doomed, gone >> PROVE HistoryGood'
  BY <1>3 DEF TypeInv, HistoryGood
<1> QED BY <1>1, <1>2, <1>3

LEMMA TypeFacts ==
  ASSUME TypeInv
  PROVE  /\ request \in Nat /\ written \in 0..request /\ written \in Nat /\ request <= request
         /\ next \in Nat /\ sNext \in Nat /\ ids \subseteq Nat /\ full \in BOOLEAN
         /\ born \in Nat /\ born <= born /\ born \in 0..MaxDrafts
         /\ MaxDrafts \in Nat /\ MaxVersion \in Nat /\ Limit \in Nat
         /\ doomed \subseteq 1..MaxDrafts /\ gone \subseteq doomed
         /\ acked \in [1..MaxDrafts -> 0..MaxVersion]
         /\ Ordered(queue) /\ archive \subseteq Rec /\ OnFile \subseteq Rec /\ Rows(queue) \subseteq Rec
         /\ (json = None \/ Ordered(json))
         /\ \A r \in Rows(queue) \union archive \union OnFile : r.at <= born
         /\ \A t \in Threads : /\ thr[t] \in GoodThread /\ thr[t].rev \in Nat /\ thr[t].upto \in Nat
                               /\ thr[t].rev <= request /\ thr[t].upto <= request
                               /\ thr[t].victims \subseteq doomed
                               /\ \A r \in Rows(thr[t].snap) : r.at <= born
                               /\ Ordered(thr[t].snap) /\ Rows(thr[t].snap) \subseteq Rec
                               /\ thr[t].pc \notin {"replace", "mirror"} => thr[t].snap = << >>
<1>1. /\ request \in Nat /\ written \in 0..request /\ next \in Nat /\ sNext \in Nat
      /\ ids \subseteq Nat /\ full \in BOOLEAN
  BY DEF TypeInv, CountersGood
<1>2. /\ Ordered(queue) /\ archive \subseteq Rec /\ (json = None \/ Ordered(json))
      /\ born \in 0..MaxDrafts /\ \A r \in Rows(queue) \union archive \union OnFile : r.at <= born
  BY DEF TypeInv, RowsGood
<1>3. MaxDrafts \in Nat /\ MaxVersion \in Nat /\ Limit \in Nat
  BY DraftStoreAssumption
<1>4. OnFile \subseteq Rec /\ Rows(queue) \subseteq Rec
  BY <1>2, OrderedRows DEF OnFile
<1>5. /\ doomed \subseteq 1..MaxDrafts /\ gone \subseteq doomed /\ acked \in [1..MaxDrafts -> 0..MaxVersion]
  BY DEF TypeInv, HistoryGood
<1>6. ASSUME NEW t \in Threads
      PROVE  /\ thr[t] \in GoodThread /\ thr[t].rev \in Nat /\ thr[t].upto \in Nat
             /\ thr[t].rev <= request /\ thr[t].upto <= request
             /\ thr[t].victims \subseteq doomed
             /\ \A r \in Rows(thr[t].snap) : r.at <= born
             /\ Ordered(thr[t].snap) /\ Rows(thr[t].snap) \subseteq Rec
             /\ thr[t].pc \notin {"replace", "mirror"} => thr[t].snap = << >>
  <2>1. /\ thr[t] \in GoodThread /\ thr[t].rev <= request /\ thr[t].upto <= request
        /\ thr[t].victims \subseteq doomed /\ \A r \in Rows(thr[t].snap) : r.at <= born
    BY DEF TypeInv, ThreadsGood
  <2>2. /\ thr[t].rev \in Nat /\ thr[t].upto \in Nat /\ Ordered(thr[t].snap)
        /\ thr[t].pc \notin {"replace", "mirror"} => thr[t].snap = << >>
    BY <2>1, ThreadFields
  <2> QED BY <2>1, <2>2, OrderedRows
<1>7. request <= request /\ written \in Nat /\ born \in Nat /\ born <= born
  BY <1>1, <1>2, <1>3
<1> QED BY <1>1, <1>2, <1>3, <1>4, <1>5, <1>6, <1>7

LEMMA EmptySnapshot == \A n : \A r \in Rows(<< >>) : r.at <= n
BY EmptyRows

LEMMA RequestTyped ==
  ASSUME TypeInv, NEW t \in Threads, Request(t)
  PROVE  TypeInv'
<1>1. /\ Moved(t) /\ thr'[t].pc = "enter" /\ thr'[t].rev = request + 1 /\ thr'[t].snap = << >>
      /\ thr'[t].upto = thr[t].upto /\ thr'[t].victims = thr[t].victims
  BY RequestThread
<1>2. /\ thr[t].pc = "request" /\ request' = request + 1 /\ thr[t].id \in Nat
      /\ UNCHANGED << memVs, written, writer, diskVs, born, ghosts >>
      /\ \/ full' = TRUE /\ UNCHANGED ids
         \/ ids' = ids \union {thr[t].id} /\ UNCHANGED full
  BY TypeFacts, ThreadFields DEF Request
<1>3. request + 1 \in Nat /\ request <= request + 1 /\ thr[t].upto <= request + 1 /\ request + 1 <= request + 1
      /\ written \in 0..(request + 1)
  BY TypeFacts
<1>4. ThreadsGood'
  BY <1>1, <1>2, <1>3, EmptySnapshot, TypeFacts, ThreadsKept DEF ghosts
<1>5. LockGood'
  BY <1>1, <1>2, LockKept DEF Writing
<1>6. CountersGood'
  BY <1>2, <1>3, TypeFacts DEF CountersGood, memVs
<1>7. RowsGood' /\ HistoryGood'
  BY <1>2, PartsKept DEF memVs, diskVs, ghosts
<1> QED BY <1>4, <1>5, <1>6, <1>7 DEF TypeInv

LEMMA AcknowledgeTyped ==
  ASSUME TypeInv, NEW t \in Threads, Acknowledge(t)
  PROVE  acked' \in [1..MaxDrafts -> 0..MaxVersion]
<1>1. thr[t].at \in 0..MaxDrafts /\ thr[t].ver \in 0..MaxVersion /\ MaxDrafts \in Nat
      /\ acked \in [1..MaxDrafts -> 0..MaxVersion]
  BY TypeFacts, ThreadFields
<1>2. thr[t].at # 0 => thr[t].at \in 1..MaxDrafts
  BY <1>1
<1> QED BY <1>1, <1>2 DEF Acknowledge

\* The end of a save: the thread lets go of the write lock, if it has it.
LEMMA SavedTyped ==
  ASSUME TypeInv, NEW t \in Threads, thr[t].pc \in {"enter", "replace", "mirror"},
         NEW removed, removed = {} \/ removed = thr[t].victims, AfterSave(t, removed),
         IF thr[t].pc = "enter" THEN writer' = writer ELSE writer' = None,
         request' = request, born' = born, doomed' = doomed
  PROVE  ThreadsGood' /\ LockGood' /\ gone \subseteq gone' /\ gone' \subseteq doomed
<1>1. /\ Moved(t) /\ thr'[t].pc \in {"idle", "sync", "archive", "clearArchive", "wipeJson"}
      /\ thr'[t].rev = 0 /\ thr'[t].upto = 0 /\ thr'[t].snap = << >>
      /\ gone' = gone /\ (thr'[t] = Idle \/ thr'[t].victims = removed)
  BY AfterSaveThread
<1>2. 0 \in Nat /\ 0 <= request /\ removed \subseteq doomed /\ gone \subseteq doomed
  BY TypeFacts
<1>3. thr'[t].victims \subseteq doomed /\ gone \subseteq gone' /\ gone' \subseteq doomed
  BY <1>1, <1>2, IdleThread
<1>4. ThreadsGood'
  BY <1>1, <1>2, <1>3, EmptySnapshot, TypeFacts, ThreadsKept
<1>5. LockGood'
  BY <1>1, LockKept DEF Writing
<1> QED BY <1>3, <1>4, <1>5

LEMMA CoalesceTyped ==
  ASSUME TypeInv, NEW t \in Threads, Coalesce(t)
  PROVE  TypeInv'
<1>1. /\ thr[t].pc = "enter" /\ AfterSave(t, thr[t].victims) /\ Acknowledge(t)
      /\ UNCHANGED << memVs, saveVs, writer, diskVs, born, doomed >>
  BY DEF Coalesce
<1>2. ThreadsGood' /\ LockGood' /\ gone' \subseteq doomed
  BY <1>1, SavedTyped DEF saveVs
<1>3. CountersGood' /\ RowsGood'
  BY <1>1, PartsKept DEF memVs, saveVs, diskVs
<1>4. HistoryGood'
  BY <1>1, <1>2, AcknowledgeTyped, TypeFacts DEF HistoryGood
<1> QED BY <1>2, <1>3, <1>4 DEF TypeInv

LEMMA ClaimTyped ==
  ASSUME TypeInv, NEW t \in Threads, Claim(t)
  PROVE  TypeInv'
<1>1. /\ Moved(t) /\ thr'[t].pc = "snapshot" /\ thr'[t].rev = thr[t].rev /\ thr'[t].snap = << >>
      /\ thr'[t].upto = request /\ thr'[t].victims = thr[t].victims
  BY ClaimThread
<1>2. /\ writer = None /\ writer' = t /\ full' = FALSE /\ ids' = {}
      /\ UNCHANGED << memVs, request, written, diskVs, born, ghosts >>
  BY DEF Claim
<1>3. ThreadsGood'
  BY <1>1, <1>2, EmptySnapshot, TypeFacts, ThreadsKept DEF ghosts
<1>4. LockGood'
  BY <1>1, <1>2, LockKept DEF Writing
<1>5. CountersGood'
  BY <1>2, TypeFacts DEF CountersGood, memVs
<1>6. RowsGood' /\ HistoryGood'
  BY <1>2, PartsKept DEF memVs, diskVs, ghosts
<1> QED BY <1>3, <1>4, <1>5, <1>6 DEF TypeInv

LEMMA SnapshotTyped ==
  ASSUME TypeInv, NEW t \in Threads, Snapshot(t)
  PROVE  TypeInv'
<1>1. /\ Moved(t) /\ thr'[t].pc = "replace" /\ thr'[t].rev = thr[t].rev /\ thr'[t].snap = queue
      /\ thr'[t].upto = thr[t].upto /\ thr'[t].victims = thr[t].victims
  BY SnapshotThread
<1>2. /\ thr[t].pc = "snapshot" /\ UNCHANGED << memVs, saveVs, writer, diskVs, born, ghosts >>
  BY DEF Snapshot
<1>3. ThreadsGood'
  BY <1>1, <1>2, TypeFacts, ThreadsKept DEF ghosts, saveVs
<1>4. LockGood'
  BY <1>1, <1>2, LockKept DEF Writing
<1>5. CountersGood' /\ RowsGood' /\ HistoryGood'
  BY <1>2, PartsKept DEF memVs, saveVs, diskVs, ghosts
<1> QED BY <1>3, <1>4, <1>5 DEF TypeInv

\* The file is the snapshot a thread has carried.
LEMMA ReplaceRows ==
  ASSUME TypeInv, NEW t \in Threads, Replace(t)
  PROVE  /\ json' = None \/ Ordered(json')
         /\ OnFile' \subseteq Rows(thr[t].snap)
BY TypeFacts DEF Replace, OnFile

LEMMA ReplaceTyped ==
  ASSUME TypeInv, NEW t \in Threads, Replace(t)
  PROVE  TypeInv'
<1>1. /\ Moved(t) /\ thr'[t].pc = "mirror" /\ thr'[t].rev = thr[t].rev /\ thr'[t].snap = thr[t].snap
      /\ thr'[t].upto = thr[t].upto /\ thr'[t].victims = thr[t].victims
  BY ReplaceThread
<1>2. /\ thr[t].pc = "replace"
      /\ UNCHANGED << memVs, request, full, ids, writer, archive, born, ghosts >>
      /\ written' = written \/ written' = thr[t].upto
  BY DEF Replace
<1>3. ThreadsGood'
  BY <1>1, <1>2, TypeFacts, ThreadsKept DEF ghosts
<1>4. LockGood'
  BY <1>1, <1>2, LockKept DEF Writing
<1>5. CountersGood'
  <2>1. thr[t].upto \in 0..request
    BY TypeFacts
  <2> QED BY <1>2, <2>1, TypeFacts DEF CountersGood, memVs
<1>6. RowsGood'
  BY <1>2, ReplaceRows, TypeFacts DEF RowsGood, memVs
<1>7. HistoryGood'
  BY <1>2, PartsKept DEF ghosts
<1> QED BY <1>3, <1>4, <1>5, <1>6, <1>7 DEF TypeInv

LEMMA ReplaceFailsTyped ==
  ASSUME TypeInv, NEW t \in Threads, ReplaceFails(t)
  PROVE  TypeInv'
<1>1. /\ thr[t].pc = "replace" /\ AfterSave(t, {}) /\ writer' = None /\ Rearm(t)
      /\ UNCHANGED << memVs, request, written, diskVs, born, acked, doomed >>
  BY DEF ReplaceFails
<1>2. ThreadsGood' /\ LockGood' /\ gone' \subseteq doomed
  BY <1>1, SavedTyped
<1>3. CountersGood'
  <2>1. thr[t].owed \subseteq Nat
    BY TypeFacts, ThreadFields
  <2>2. full' \in BOOLEAN /\ ids' \subseteq Nat
    BY <1>1, <2>1, TypeFacts DEF Rearm
  <2> QED BY <1>1, <2>2, TypeFacts DEF CountersGood, memVs
<1>4. RowsGood'
  BY <1>1, PartsKept DEF memVs, diskVs
<1>5. HistoryGood'
  BY <1>1, <1>2, TypeFacts DEF HistoryGood
<1> QED BY <1>2, <1>3, <1>4, <1>5 DEF TypeInv

\* The archive takes rows of the snapshot.
LEMMA MirrorRows ==
  ASSUME TypeInv, NEW t \in Threads, Mirror(t)
  PROVE  /\ Mirrored(t) \subseteq Rows(thr[t].snap)
         /\ archive' \subseteq archive \union Mirrored(t) /\ archive' \subseteq Rec
<1>1. LastRows(thr[t].snap) \subseteq Rows(thr[t].snap) /\ Rows(thr[t].snap) \subseteq Rec
      /\ archive \subseteq Rec
  BY TypeFacts, LastRowsIn DEF Ordered
<1>2. Mirrored(t) \subseteq Rows(thr[t].snap)
  BY <1>1 DEF Mirrored
<1>3. archive' \subseteq archive \union Mirrored(t)
  BY DEF Mirror, Upsert
<1> QED BY <1>1, <1>2, <1>3

LEMMA MirrorTyped ==
  ASSUME TypeInv, NEW t \in Threads, Mirror(t)
  PROVE  TypeInv'
<1>1. /\ thr[t].pc = "mirror" /\ AfterSave(t, thr[t].victims) /\ writer' = None /\ Acknowledge(t)
      /\ UNCHANGED << memVs, saveVs, json, born, doomed >>
  BY DEF Mirror
<1>2. ThreadsGood' /\ LockGood' /\ gone' \subseteq doomed
  BY <1>1, SavedTyped DEF saveVs
<1>3. CountersGood'
  BY <1>1, PartsKept DEF memVs, saveVs
<1>4. RowsGood'
  <2>1. OnFile' = OnFile
    BY <1>1 DEF OnFile
  <2> QED BY <1>1, <2>1, MirrorRows, TypeFacts DEF RowsGood, memVs
<1>5. HistoryGood'
  BY <1>1, <1>2, AcknowledgeTyped, TypeFacts DEF HistoryGood
<1> QED BY <1>2, <1>3, <1>4, <1>5 DEF TypeInv

LEMMA SaveTyped ==
  ASSUME TypeInv, NEW t \in Threads, SaveStep(t)
  PROVE  TypeInv'
BY RequestTyped, CoalesceTyped, ClaimTyped, SnapshotTyped, ReplaceTyped, ReplaceFailsTyped,
   MirrorTyped DEF SaveStep

\* A step of a thread that neither saves nor holds the lock.
LEMMA OperationThreads ==
  ASSUME TypeInv, NEW t \in Threads, Moved(t), thr[t].pc \notin Writing, thr'[t].pc \notin Writing,
         writer' = writer, request' = request, thr'[t].rev \in {0, thr[t].rev},
         thr'[t].upto \in {0, thr[t].upto}, thr'[t].snap = << >>,
         thr'[t].victims \subseteq doomed', doomed \subseteq doomed',
         born' \in Nat, born <= born'
  PROVE  ThreadsGood' /\ LockGood'
<1>1. thr'[t].rev <= request /\ thr'[t].upto <= request
  BY TypeFacts
<1>2. ThreadsGood'
  BY <1>1, EmptySnapshot, TypeFacts, ThreadsKept
<1>3. LockGood'
  BY LockKept
<1> QED BY <1>2, <1>3

LEMMA CreatorThread == Creator \in Threads /\ Pool \subseteq Threads
BY DEF Threads

LEMMA BeginTyped ==
  ASSUME TypeInv, NEW t \in Threads, NEW pc \in {"create", "copy"}, thr[t].pc = "idle",
         thr' = [thr EXCEPT ![t].pc = pc], next' \in Nat,
         UNCHANGED << queue, sNext, saveVs, writer, diskVs, born, ghosts >>
  PROVE  TypeInv'
<1>1. /\ Moved(t) /\ thr'[t].pc = pc /\ thr'[t].rev = 0 /\ thr'[t].upto = 0
      /\ thr'[t].snap = << >> /\ thr'[t].victims = {}
  BY BeginThread
<1>2. ThreadsGood' /\ LockGood'
  BY <1>1, OperationThreads, TypeFacts DEF Writing, saveVs, ghosts
<1>3. CountersGood' /\ RowsGood' /\ HistoryGood'
  BY PartsKept, TypeFacts DEF CountersGood, saveVs, diskVs, ghosts
<1> QED BY <1>2, <1>3 DEF TypeInv

LEMMA EnqueueTyped ==
  ASSUME TypeInv, NEW t \in Threads, NEW op \in {"create", "library"}, born < MaxDrafts,
         thr[t].pc \in {"create", "copy"}, Enqueue(t, op), next' = next + 1,
         UNCHANGED << sNext, saveVs, writer, diskVs, ghosts >>
  PROVE  TypeInv'
<1> DEFINE rec == [id |-> next, at |-> born + 1, ver |-> 1]
<1>1. /\ rec \in Rec /\ Ordered(queue') /\ Rows(queue') \subseteq Rows(queue) \union {rec}
      /\ born' = born + 1 /\ born + 1 \in 0..MaxDrafts /\ rec.at = born + 1
      /\ Moved(t) /\ thr'[t].pc = "request" /\ thr'[t].rev = 0 /\ thr'[t].upto = 0
      /\ thr'[t].snap = << >> /\ thr'[t].victims = {}
  BY EnqueueRows
<1> HIDE DEF rec
<1>2. born + 1 \in Nat /\ born <= born + 1
  BY TypeFacts
<1>3. ThreadsGood' /\ LockGood'
  BY <1>1, <1>2, OperationThreads, TypeFacts DEF Writing, saveVs, ghosts
<1>4. \A r \in Rows(queue) \union archive \union OnFile : r.at <= born + 1
  <2>1. \A r \in Rows(queue) \union archive \union OnFile : r.at \in Nat /\ r.at <= born
    BY TypeFacts, RecFields
  <2> QED BY <1>2, <2>1, TypeFacts
<1>5. RowsGood'
  <2>1. OnFile' = OnFile /\ json' = json /\ archive' = archive
    BY DEF OnFile, diskVs
  <2>2. \A r \in Rows(queue') \union archive' \union OnFile' : r.at <= born'
    BY <1>1, <1>2, <1>4, <2>1
  <2> QED BY <1>1, <2>1, <2>2, TypeFacts DEF RowsGood
<1>6. CountersGood' /\ HistoryGood'
  BY PartsKept, TypeFacts DEF CountersGood, saveVs, ghosts
<1> QED BY <1>3, <1>5, <1>6 DEF TypeInv

LEMMA CreateSyncTyped ==
  ASSUME TypeInv, CreateSync
  PROVE  TypeInv'
<1>1. /\ thr[Creator].pc = "sync" /\ sNext' = next /\ thr' = [thr EXCEPT ![Creator] = Idle]
      /\ UNCHANGED << queue, next, saveVs, writer, diskVs, born, ghosts >>
  BY DEF CreateSync
<1>2. ThreadsGood' /\ LockGood'
  <2>1. /\ Moved(Creator) /\ thr'[Creator].pc = "idle" /\ thr'[Creator].rev = 0
        /\ thr'[Creator].upto = 0 /\ thr'[Creator].snap = << >> /\ thr'[Creator].victims = {}
    BY <1>1, CreatorThread, IdleAfter
  <2> QED BY <1>1, <2>1, CreatorThread, OperationThreads, TypeFacts DEF Writing, saveVs, ghosts
<1>3. CountersGood' /\ RowsGood' /\ HistoryGood'
  BY <1>1, PartsKept, TypeFacts DEF CountersGood, saveVs, diskVs, ghosts
<1> QED BY <1>2, <1>3 DEF TypeInv

LEMMA CreateTyped ==
  ASSUME TypeInv, CreateBegin \/ CreateQueued \/ CreateSync
  PROVE  TypeInv'
<1>1. CASE CreateBegin
  <2>1. /\ thr[Creator].pc = "idle" /\ next' \in Nat
        /\ thr' = [thr EXCEPT ![Creator].pc = "create"]
        /\ UNCHANGED << queue, sNext, saveVs, writer, diskVs, born, ghosts >>
    BY <1>1, TypeFacts DEF CreateBegin
  <2> QED BY <2>1, BeginTyped, CreatorThread
<1>2. CASE CreateQueued
  BY <1>2, EnqueueTyped, CreatorThread DEF CreateQueued, CounterBumped
<1>3. CASE CreateSync
  BY <1>3, CreateSyncTyped
<1> QED BY <1>1, <1>2, <1>3

LEMMA LibraryTyped ==
  ASSUME TypeInv, NEW t \in Threads, LibraryRead(t) \/ LibraryCreate(t)
  PROVE  TypeInv'
<1>1. CASE LibraryRead(t)
  <2>1. /\ thr[t].pc = "idle" /\ next' \in Nat /\ thr' = [thr EXCEPT ![t].pc = "copy"]
        /\ UNCHANGED << queue, sNext, saveVs, writer, diskVs, born, ghosts >>
    BY <1>1, TypeFacts DEF LibraryRead, memVs
  <2> QED BY <2>1, BeginTyped
<1>2. CASE LibraryCreate(t)
  BY <1>2, EnqueueTyped DEF LibraryCreate
<1> QED BY <1>1, <1>2

LEMMA UpdateTyped ==
  ASSUME TypeInv, NEW t \in Threads, NEW i \in 1..Len(queue), Update(t, i)
  PROVE  TypeInv'
<1>1. /\ thr[t].pc = "idle"
      /\ UNCHANGED << next, sNext, saveVs, writer, diskVs, born, ghosts >>
  BY DEF Update
<1>2. PICK r \in Rec :
         /\ queue[i] \in Rows(queue) /\ r.at = queue[i].at
         /\ Ordered(queue') /\ Rows(queue') = (Rows(queue) \ {queue[i]}) \union {r}
         /\ Moved(t) /\ thr'[t].pc = "request" /\ thr'[t].rev = 0 /\ thr'[t].upto = 0
         /\ thr'[t].snap = << >> /\ thr'[t].victims = {}
  BY UpdateStep
<1>3. ThreadsGood' /\ LockGood'
  BY <1>1, <1>2, OperationThreads, TypeFacts DEF Writing, saveVs, ghosts
<1>4. RowsGood'
  <2>1. OnFile' = OnFile /\ json' = json /\ archive' = archive
    BY <1>1 DEF OnFile, diskVs
  <2>2. \A q \in Rows(queue') : q.at <= born
    BY <1>2, TypeFacts
  <2> QED BY <1>1, <1>2, <2>1, <2>2, TypeFacts DEF RowsGood
<1>5. CountersGood' /\ HistoryGood'
  BY <1>1, PartsKept DEF saveVs, ghosts
<1> QED BY <1>3, <1>4, <1>5 DEF TypeInv

LEMMA DeleteTyped ==
  ASSUME TypeInv, NEW t \in Threads, NEW id \in 1..MaxDrafts, DeleteQueued(t, id)
  PROVE  TypeInv'
<1>1. /\ thr[t].pc = "idle"
      /\ UNCHANGED << next, sNext, saveVs, writer, archive, born, acked, gone >>
  BY DEF DeleteQueued
<1>2. /\ json' = None \/ Ordered(json')
      /\ OnFile' \subseteq { r \in OnFile : r.id # id }
      /\ Ordered(queue') /\ Rows(queue') \subseteq Rows(queue)
      /\ Moved(t) /\ (thr'[t].pc = "request" \/ thr'[t].pc = "archive")
      /\ thr'[t].rev = 0 /\ thr'[t].upto = 0 /\ thr'[t].snap = << >>
      /\ thr'[t].victims \subseteq doomed' /\ doomed \subseteq doomed' /\ doomed' \subseteq 1..MaxDrafts
  BY DeleteStep
<1>3. ThreadsGood' /\ LockGood'
  BY <1>1, <1>2, OperationThreads, TypeFacts DEF Writing, saveVs
<1>4. RowsGood'
  BY <1>1, <1>2, TypeFacts DEF RowsGood
<1>5. CountersGood' /\ HistoryGood'
  BY <1>1, <1>2, PartsKept, TypeFacts DEF saveVs, HistoryGood
<1> QED BY <1>3, <1>4, <1>5 DEF TypeInv

LEMMA EmptyTyped ==
  ASSUME TypeInv, NEW t \in Threads, NEW op \in {"clear", "libclear", "wipe"}, Empty(t, op)
  PROVE  TypeInv'
<1>1. /\ thr[t].pc = "idle"
      /\ UNCHANGED << next, sNext, saveVs, writer, diskVs, born, acked, gone >>
  BY DEF Empty
<1>2. /\ Ordered(queue') /\ Rows(queue') = {}
      /\ Moved(t) /\ thr'[t].pc = "request"
      /\ thr'[t].rev = 0 /\ thr'[t].upto = 0 /\ thr'[t].snap = << >>
      /\ thr'[t].victims \subseteq doomed' /\ doomed \subseteq doomed' /\ doomed' \subseteq 1..MaxDrafts
  BY EmptyStep
<1>3. ThreadsGood' /\ LockGood'
  BY <1>1, <1>2, OperationThreads, TypeFacts DEF Writing, saveVs
<1>4. RowsGood'
  <2>1. OnFile' = OnFile /\ json' = json /\ archive' = archive
    BY <1>1 DEF OnFile, diskVs
  <2> QED BY <1>1, <1>2, <2>1, TypeFacts DEF RowsGood
<1>5. CountersGood' /\ HistoryGood'
  BY <1>1, <1>2, PartsKept, TypeFacts DEF saveVs, HistoryGood
<1> QED BY <1>3, <1>4, <1>5 DEF TypeInv

\* The steps that end an operation: its victims are gone for good.
LEMMA FinishTyped ==
  ASSUME TypeInv, NEW t \in Threads, thr[t].pc \notin Writing, thr' = [thr EXCEPT ![t] = Idle],
         gone' = gone \union thr[t].victims, doomed \subseteq doomed', doomed' \subseteq 1..MaxDrafts,
         json' = None \/ Ordered(json'), OnFile' \subseteq OnFile, archive' \subseteq archive,
         UNCHANGED << memVs, saveVs, writer, born, acked >>
  PROVE  TypeInv'
<1>1. /\ Moved(t) /\ thr'[t].pc = "idle" /\ thr'[t].rev = 0 /\ thr'[t].upto = 0
      /\ thr'[t].snap = << >> /\ thr'[t].victims = {}
  BY IdleAfter
<1>2. ThreadsGood' /\ LockGood'
  BY <1>1, OperationThreads, TypeFacts DEF Writing, saveVs
<1>3. RowsGood'
  BY TypeFacts DEF RowsGood, memVs
<1>4. CountersGood' /\ HistoryGood'
  BY PartsKept, TypeFacts DEF saveVs, memVs, HistoryGood
<1> QED BY <1>2, <1>3, <1>4 DEF TypeInv

LEMMA DeleteArchivedTyped ==
  ASSUME TypeInv, NEW t \in Threads, DeleteArchived(t)
  PROVE  TypeInv'
<1>1. /\ thr[t].pc = "archive" /\ thr' = [thr EXCEPT ![t] = Idle] /\ json' = Without(thr[t].id)
      /\ gone' = gone \union thr[t].victims /\ archive' \subseteq archive /\ doomed' = doomed
      /\ UNCHANGED << memVs, saveVs, writer, born, acked >>
  BY DEF DeleteArchived
<1>2. (json' = None \/ Ordered(json')) /\ OnFile' \subseteq OnFile
  BY <1>1, WithoutFile
<1> QED BY <1>1, <1>2, FinishTyped, TypeFacts DEF Writing

LEMMA ClearArchiveTyped ==
  ASSUME TypeInv, NEW t \in Threads, ClearArchive(t)
  PROVE  TypeInv'
<1>1. /\ thr[t].pc = "clearArchive" /\ thr' = [thr EXCEPT ![t] = Idle] /\ json' = json
      /\ gone' = gone \union thr[t].victims /\ archive' = {} /\ doomed' = doomed \union Ats(archive)
      /\ UNCHANGED << memVs, saveVs, writer, born, acked >>
  BY DEF ClearArchive
<1>2. OnFile' = OnFile /\ archive' \subseteq archive
  BY <1>1 DEF OnFile
<1>3. doomed \subseteq doomed' /\ doomed' \subseteq 1..MaxDrafts
  <2>1. Ats(archive) \subseteq 1..MaxDrafts
    BY TypeFacts, RecFields DEF Ats
  <2> QED BY <1>1, <2>1, TypeFacts
<1> QED BY <1>1, <1>2, <1>3, FinishTyped, TypeFacts DEF Writing

LEMMA WipeTyped ==
  ASSUME TypeInv, NEW t \in Threads, WipeJson(t) \/ WipeDb(t)
  PROVE  TypeInv'
<1>1. CASE WipeJson(t)
  <2>1. /\ Moved(t) /\ thr'[t].pc = "wipeDb" /\ thr'[t].rev = thr[t].rev
        /\ thr'[t].upto = thr[t].upto /\ thr'[t].snap = << >> /\ thr'[t].victims = thr[t].victims
    BY <1>1, WipeJsonThread
  <2>2. /\ thr[t].pc = "wipeJson" /\ json' = None
        /\ UNCHANGED << memVs, saveVs, writer, archive, born, ghosts >>
    BY <1>1 DEF WipeJson
  <2>3. ThreadsGood' /\ LockGood'
    BY <2>1, <2>2, OperationThreads, TypeFacts DEF Writing, saveVs, ghosts
  <2>4. RowsGood'
    <3>1. OnFile' = {}
      BY <2>2 DEF OnFile
    <3> QED BY <2>2, <3>1, TypeFacts DEF RowsGood, memVs
  <2>5. CountersGood' /\ HistoryGood'
    BY <2>2, PartsKept DEF memVs, saveVs, ghosts
  <2> QED BY <2>3, <2>4, <2>5 DEF TypeInv
<1>2. CASE WipeDb(t)
  <2>1. /\ thr[t].pc = "wipeDb" /\ thr' = [thr EXCEPT ![t] = Idle] /\ json' = json
        /\ gone' = gone \union thr[t].victims /\ archive' \subseteq archive /\ doomed' = doomed
        /\ UNCHANGED << memVs, saveVs, writer, born, acked >>
    BY <1>2 DEF WipeDb
  <2>2. OnFile' = OnFile
    BY <2>1 DEF OnFile
  <2> QED BY <2>1, <2>2, FinishTyped, TypeFacts DEF Writing
<1> QED BY <1>1, <1>2

\* A restart leaves a queue, a file and an archive it found on the disk.
LEMMA CrashRows ==
  ASSUME TypeInv, CrashAndRestart
  PROVE  /\ Ordered(queue')
         /\ json' = None \/ Ordered(json')
         /\ OnFile' \subseteq OnFile
         /\ \/ Rows(queue') \subseteq archive /\ archive' \subseteq archive
            \/ archive = {} /\ Rows(queue') \subseteq OnFile /\ archive' \subseteq OnFile
<1>1. /\ queue' = Loaded /\ json' = (IF LoadsJson THEN None ELSE json)
      /\ archive' = (IF LoadsJson THEN Upsert(archive, LastRows(json)) ELSE archive)
  BY DEF CrashAndRestart
<1>2. OnFile' \subseteq OnFile
  BY <1>1 DEF OnFile
<1>3. \/ Rows(queue') \subseteq archive /\ archive' \subseteq archive
      \/ archive = {} /\ Rows(queue') \subseteq OnFile /\ archive' \subseteq OnFile
  <2>1. CASE LoadsJson
    <3>1. Ordered(json) /\ Rows(json) = OnFile /\ archive = {} /\ Loaded = json
      BY <2>1, LoadedRows
    <3>2. LastRows(json) \subseteq OnFile
      BY <3>1, LastRowsIn DEF Ordered
    <3> QED BY <1>1, <2>1, <3>1, <3>2 DEF Upsert
  <2>2. CASE ~LoadsJson
    BY <1>1, <2>2, LoadedRows
  <2> QED BY <2>1, <2>2
<1> QED BY <1>1, <1>2, <1>3, LoadedRows, TypeFacts

LEMMA CrashTyped ==
  ASSUME TypeInv, CrashAndRestart
  PROVE  TypeInv'
<1>1. /\ queue' = Loaded /\ next' = NextId(Loaded) /\ sNext' = NextId(Loaded)
      /\ request' = 0 /\ written' = 0 /\ full' = FALSE /\ ids' = {} /\ writer' = None
      /\ thr' = [t \in Threads |-> Idle] /\ UNCHANGED << born, ghosts >>
  BY DEF CrashAndRestart
<1>2. CountersGood'
  <2>1. NextId(Loaded) \in Nat
    BY LoadedRows, NextIdAbove
  <2>2. 0 \in Nat /\ 0 \in 0..0 /\ {} \subseteq Nat /\ FALSE \in BOOLEAN
    OBVIOUS
  <2>3. request' \in Nat /\ written' \in 0..request'
    BY <1>1, <2>2
  <2> QED BY <1>1, <2>1, <2>2, <2>3 DEF CountersGood
<1>3. ThreadsGood'
  <2>1. \A t \in Threads : thr'[t] = Idle
    BY <1>1
  <2>2. \A r \in Rows(Idle.snap) : r.at <= born'
    BY IdleThread, EmptySnapshot
  <2> QED BY <1>1, <2>1, <2>2, IdleThread DEF ThreadsGood
<1>4. LockGood'
  BY <1>1, IdleThread, DraftStoreAssumption DEF LockGood, Writing
<1>5. RowsGood'
  BY <1>1, CrashRows, TypeFacts DEF RowsGood
<1>6. HistoryGood'
  BY <1>1, PartsKept DEF ghosts
<1> QED BY <1>2, <1>3, <1>4, <1>5, <1>6 DEF TypeInv

LEMMA InitTyped == Init => TypeInv
<1> SUFFICES ASSUME Init PROVE TypeInv
  OBVIOUS
<1>1. /\ queue = << >> /\ json = None /\ archive = {} /\ writer = None
      /\ thr = [t \in Threads |-> Idle] /\ born = 0 /\ doomed = {} /\ gone = {}
      /\ request = 0 /\ acked = [a \in 1..MaxDrafts |-> 0]
  BY DEF Init
<1>2. CountersGood
  <2>1. /\ next = 1 /\ sNext = 1 /\ request = 0 /\ written = 0 /\ full = FALSE /\ ids = {}
    BY DEF Init
  <2>2. 0 \in Nat /\ 1 \in Nat /\ 0 \in 0..0 /\ {} \subseteq Nat /\ FALSE \in BOOLEAN
    OBVIOUS
  <2>3. request \in Nat /\ written \in 0..request
    BY <2>1, <2>2
  <2> QED BY <2>1, <2>2, <2>3 DEF CountersGood
<1>3. ThreadsGood
  <2>1. \A t \in Threads : thr[t] = Idle
    BY <1>1
  <2>2. \A r \in Rows(Idle.snap) : r.at <= born
    BY IdleThread, EmptySnapshot
  <2> QED BY <1>1, <2>1, <2>2, IdleThread DEF ThreadsGood
<1>4. LockGood
  BY <1>1, IdleThread, DraftStoreAssumption DEF LockGood, Writing
<1>5. RowsGood
  <2>1. OnFile = {} /\ Rows(queue) = {} /\ Ordered(queue)
    BY <1>1, EmptyRows DEF OnFile
  <2>2. 0 \in 0..MaxDrafts
    BY DraftStoreAssumption
  <2> QED BY <1>1, <2>1, <2>2 DEF RowsGood
<1>6. HistoryGood
  <2>1. 0 \in 0..MaxVersion
    BY DraftStoreAssumption
  <2> QED BY <1>1, <2>1 DEF HistoryGood
<1> QED BY <1>2, <1>3, <1>4, <1>5, <1>6 DEF TypeInv

LEMMA StutterTyped ==
  ASSUME TypeInv, UNCHANGED vars
  PROVE  TypeInv'
<1>1. /\ UNCHANGED << memVs, saveVs, writer, diskVs, thr, born, ghosts >>
  BY DEF vars
<1>2. CountersGood' /\ RowsGood' /\ HistoryGood'
  BY <1>1, PartsKept DEF memVs, saveVs, diskVs, ghosts
<1>3. ThreadsGood' /\ LockGood'
  BY <1>1 DEF TypeInv, ThreadsGood, LockGood, saveVs, ghosts
<1> QED BY <1>2, <1>3 DEF TypeInv

LEMMA StepTyped ==
  ASSUME TypeInv, [Next]_vars
  PROVE  TypeInv'
<1>1. CASE CreateBegin \/ CreateQueued \/ CreateSync
  BY <1>1, CreateTyped
<1>2. ASSUME NEW t \in Threads, SaveStep(t) PROVE TypeInv'
  BY <1>2, SaveTyped
<1>3. ASSUME NEW t \in Pool, OpStep(t) PROVE TypeInv'
  <2>1. t \in Threads
    BY CreatorThread
  <2>2. CASE LibraryRead(t) \/ LibraryCreate(t)
    BY <2>1, <2>2, LibraryTyped
  <2>3. ASSUME NEW i \in 1..Len(queue), Update(t, i) PROVE TypeInv'
    BY <2>1, <2>3, UpdateTyped
  <2>4. ASSUME NEW id \in 1..MaxDrafts, DeleteQueued(t, id) PROVE TypeInv'
    BY <2>1, <2>4, DeleteTyped
  <2>5. ASSUME NEW op \in {"clear", "libclear", "wipe"}, Empty(t, op) PROVE TypeInv'
    BY <2>1, <2>5, EmptyTyped
  <2>6. CASE DeleteArchived(t)
    BY <2>1, <2>6, DeleteArchivedTyped
  <2>7. CASE ClearArchive(t)
    BY <2>1, <2>7, ClearArchiveTyped
  <2>8. CASE WipeJson(t) \/ WipeDb(t)
    BY <2>1, <2>8, WipeTyped
  <2> QED BY <1>3, <2>2, <2>3, <2>4, <2>5, <2>6, <2>7, <2>8 DEF OpStep
<1>4. CASE CrashAndRestart
  BY <1>4, CrashTyped
<1>5. CASE UNCHANGED vars
  BY <1>5, StutterTyped
<1> QED BY <1>1, <1>2, <1>3, <1>4, <1>5 DEF Next

LEMMA TypeInvariant == Spec => []TypeInv
<1>1. TypeInv /\ [Next]_vars => TypeInv'
  BY StepTyped
<1> QED BY <1>1, InitTyped, PTL DEF Spec

\* The store's variables have their types: the queue, the file and the archive
\* hold drafts, at most one thread holds the write lock and it is the one that
\* writes, and what is gone was set out to be removed.
THEOREM TypeOK_Safety == Spec => []TypeOK
<1>1. TypeInv => TypeOK
  <2> SUFFICES ASSUME TypeInv PROVE TypeOK
    OBVIOUS
  <2>1. queue \in Seq(Rec) /\ (json = None \/ json \in Seq(Rec)) /\ archive \subseteq Rec
    BY TypeFacts DEF Ordered
  <2>2. \A t \in Threads : thr[t].pc \in Pcs /\ thr[t].snap \in Seq(Rec)
    BY TypeFacts, ThreadFields
  <2>3. /\ writer \in Threads \union {None}
        /\ \A t \in Threads : writer = t <=> thr[t].pc \in Writing
    BY DEF TypeInv, LockGood
  <2> QED BY <2>1, <2>2, <2>3, TypeFacts DEF TypeOK
<1> QED BY <1>1, TypeInvariant, PTL
-----------------------------------------------------------------------------
(* What a step does to the rows of the queue, the archive, the file and the *)
(* snapshot that is being written.                                          *)

\* The snapshot the holder of the write lock carries, and the revision it covers.
Held == IF writer = None THEN {} ELSE Rows(thr[writer].snap)
Upto == IF writer = None THEN 0 ELSE thr[writer].upto

Shrinks ==
  /\ Rows(queue') \subseteq Rows(queue) /\ archive' \subseteq archive /\ OnFile' \subseteq OnFile
  /\ Held' = {} \/ (Held' = Held /\ Upto' = Upto)
  /\ written' = written /\ born' = born

Elsewhere == archive' = archive /\ OnFile' = OnFile /\ Held' = Held /\ Upto' = Upto /\ written' = written

NewDraft == [id |-> next, at |-> born + 1, ver |-> 1]
Enqueues ==
  /\ NewDraft \in Rec /\ Rows(queue') \subseteq Rows(queue) \union {NewDraft}
  /\ NewDraft.at = born + 1 /\ NewDraft.id = next /\ NewDraft.ver = 1
  /\ born' = born + 1 /\ Elsewhere

Updates ==
  /\ \E q \in Rows(queue), r \in Rec :
       /\ r.id = q.id /\ r.at = q.at /\ r.ver = q.ver + 1
       /\ Rows(queue') = (Rows(queue) \ {q}) \union {r}
  /\ born' = born /\ Elsewhere

Captures ==
  /\ Rows(queue') = Rows(queue) /\ archive' = archive /\ OnFile' = OnFile /\ Held' = Rows(queue)
  /\ written' = written /\ born' = born

Writes ==
  /\ Rows(queue') = Rows(queue) /\ archive' = archive /\ Held' = Held /\ Upto' = Upto
  /\ OnFile' \subseteq Held /\ born' = born /\ writer # None
  /\ written' = IF Upto > written THEN Upto ELSE written

Mirrors ==
  /\ Rows(queue') = Rows(queue) /\ OnFile' = OnFile /\ Held' = {}
  /\ \E M \in SUBSET Held : archive' = Upsert(archive, M)
  /\ written' = written /\ born' = born

\* A restart loads from the archive, or from the file when the archive is empty.
Source == IF archive = {} THEN OnFile ELSE archive
Restarts ==
  /\ MayCrash /\ Rows(queue') \subseteq Source /\ archive' \subseteq Source
  /\ OnFile' \subseteq OnFile /\ Held' = {} /\ born' = born

LEMMA HeldFacts ==
  ASSUME TypeInv
  PROVE  /\ Held \subseteq Rec
         /\ \A q, r \in Held : q.at = r.at => q = r
         /\ \A r \in Held : r.at <= born
         /\ \A t \in Threads : thr[t].pc \in Writing => Held = Rows(thr[t].snap) /\ Upto = thr[t].upto
         /\ Upto \in Nat /\ Upto <= request
<1>1. writer = None \/ writer \in Threads
  BY DEF TypeInv, LockGood
<1>2. CASE writer = None
  <2>1. Held = {} /\ Upto = 0
    BY <1>2 DEF Held, Upto
  <2>2. \A t \in Threads : thr[t].pc \notin Writing
    BY <1>2, DraftStoreAssumption DEF TypeInv, LockGood
  <2>3. 0 <= request
    BY TypeFacts
  <2> QED BY <2>1, <2>2, <2>3
<1>3. CASE writer \in Threads
  <2>1. Held = Rows(thr[writer].snap) /\ Upto = thr[writer].upto
    BY <1>3, DraftStoreAssumption DEF Held, Upto
  <2>2. \A t \in Threads : thr[t].pc \in Writing => t = writer
    BY DEF TypeInv, LockGood
  <2> QED BY <1>3, <2>1, <2>2, TypeFacts, OrderedRows
<1> QED BY <1>1, <1>2, <1>3

\* A step of a thread without the lock leaves the snapshot that is being written.
LEMMA HeldKept ==
  ASSUME TypeInv, NEW t \in Threads, Moved(t), thr[t].pc \notin Writing, writer' = writer
  PROVE  Held' = Held /\ Upto' = Upto
<1>1. writer = None \/ (writer \in Threads /\ writer # None)
  BY DEF TypeInv, LockGood
<1>2. CASE writer = None
  BY <1>2 DEF Held, Upto
<1>3. CASE writer \in Threads /\ writer # None
  <2>1. writer # t
    BY DEF TypeInv, LockGood
  <2>2. thr'[writer] = thr[writer]
    BY <1>3, <2>1 DEF Moved
  <2> QED BY <1>3, <2>2 DEF Held, Upto
<1> QED BY <1>1, <1>2, <1>3

LEMMA HeldDropped ==
  ASSUME writer' = None
  PROVE  Held' = {}
BY DEF Held

LEMMA HeldBy ==
  ASSUME NEW t \in Threads, writer' = t
  PROVE  Held' = Rows(thr'[t].snap) /\ Upto' = thr'[t].upto
BY DraftStoreAssumption DEF Held, Upto

LEMMA RequestEffect ==
  ASSUME TypeInv, NEW t \in Threads, Request(t)
  PROVE  Shrinks
<1>1. /\ thr[t].pc = "request" /\ UNCHANGED << memVs, written, writer, diskVs, born >> /\ Moved(t)
  BY RequestThread DEF Request
<1>2. Held' = Held /\ Upto' = Upto
  BY <1>1, HeldKept DEF Writing
<1> QED BY <1>1, <1>2 DEF Shrinks, memVs, diskVs, OnFile

LEMMA CoalesceEffect ==
  ASSUME TypeInv, NEW t \in Threads, Coalesce(t)
  PROVE  Shrinks /\ Held' = {}
<1>1. /\ writer = None /\ UNCHANGED << memVs, saveVs, writer, diskVs, born >>
  BY DEF Coalesce
<1>2. Held' = {}
  BY <1>1, HeldDropped
<1> QED BY <1>1, <1>2 DEF Shrinks, memVs, saveVs, diskVs, OnFile

LEMMA ClaimEffect ==
  ASSUME TypeInv, NEW t \in Threads, Claim(t)
  PROVE  Shrinks /\ Held' = {} /\ Upto' = request
<1>1. /\ writer' = t /\ UNCHANGED << memVs, written, diskVs, born >>
      /\ thr'[t].snap = << >> /\ thr'[t].upto = request
  BY ClaimThread DEF Claim
<1>2. Held' = {} /\ Upto' = request
  BY <1>1, HeldBy, EmptyRows
<1> QED BY <1>1, <1>2 DEF Shrinks, memVs, diskVs, OnFile

LEMMA SnapshotEffect ==
  ASSUME TypeInv, NEW t \in Threads, Snapshot(t)
  PROVE  Captures /\ Upto' = Upto
<1>1. /\ thr[t].pc = "snapshot" /\ UNCHANGED << memVs, saveVs, writer, diskVs, born >>
      /\ thr'[t].snap = queue /\ thr'[t].upto = thr[t].upto
  BY SnapshotThread DEF Snapshot
<1>2. writer = t
  BY <1>1 DEF TypeInv, LockGood, Writing
<1>3. Held' = Rows(queue) /\ Upto' = Upto
  BY <1>1, <1>2, HeldBy, HeldFacts DEF Writing
<1> QED BY <1>1, <1>3 DEF Captures, memVs, saveVs, diskVs, OnFile

LEMMA ReplaceEffect ==
  ASSUME TypeInv, NEW t \in Threads, Replace(t)
  PROVE  Writes
<1>1. /\ thr[t].pc = "replace" /\ UNCHANGED << memVs, writer, archive, born >>
      /\ thr'[t].snap = thr[t].snap /\ thr'[t].upto = thr[t].upto
      /\ written' = IF thr[t].upto > written THEN thr[t].upto ELSE written
  BY ReplaceThread DEF Replace
<1>2. writer = t
  BY <1>1 DEF TypeInv, LockGood, Writing
<1>3. Held = Rows(thr[t].snap) /\ Upto = thr[t].upto /\ writer # None
  BY <1>1, <1>2, HeldFacts, DraftStoreAssumption DEF Writing
<1>4. Held' = Rows(thr[t].snap) /\ Upto' = thr[t].upto
  BY <1>1, <1>2, HeldBy
<1> QED BY <1>1, <1>3, <1>4, ReplaceRows DEF Writes, memVs

LEMMA ReplaceFailsEffect ==
  ASSUME TypeInv, NEW t \in Threads, ReplaceFails(t)
  PROVE  Shrinks /\ Held' = {}
<1>1. /\ writer' = None /\ UNCHANGED << memVs, written, diskVs, born >>
  BY DEF ReplaceFails
<1>2. Held' = {}
  BY <1>1, HeldDropped
<1> QED BY <1>1, <1>2 DEF Shrinks, memVs, diskVs, OnFile

LEMMA MirrorEffect ==
  ASSUME TypeInv, NEW t \in Threads, Mirror(t)
  PROVE  Mirrors
<1>1. /\ thr[t].pc = "mirror" /\ writer' = None /\ UNCHANGED << memVs, saveVs, json, born >>
      /\ archive' = Upsert(archive, Mirrored(t)) \/ archive' = archive
  BY DEF Mirror
<1>2. Held' = {} /\ Held = Rows(thr[t].snap)
  BY <1>1, HeldDropped, HeldFacts DEF Writing
<1>3. Mirrored(t) \in SUBSET Held /\ {} \in SUBSET Held
  BY <1>2, MirrorRows
<1>4. archive = Upsert(archive, {})
  BY DEF Upsert
<1>5. \E M \in SUBSET Held : archive' = Upsert(archive, M)
  BY <1>1, <1>3, <1>4
<1> QED BY <1>1, <1>2, <1>5 DEF Mirrors, memVs, saveVs, OnFile

LEMMA SaveEffect ==
  ASSUME TypeInv, NEW t \in Threads, SaveStep(t)
  PROVE  Shrinks \/ Captures \/ Writes \/ Mirrors
BY RequestEffect, CoalesceEffect, ClaimEffect, SnapshotEffect, ReplaceEffect, ReplaceFailsEffect,
   MirrorEffect DEF SaveStep

LEMMA EnqueueEffect ==
  ASSUME TypeInv, NEW t \in Threads, NEW op \in {"create", "library"}, born < MaxDrafts,
         thr[t].pc \in {"create", "copy"}, Enqueue(t, op),
         UNCHANGED << saveVs, writer, diskVs >>
  PROVE  Enqueues
<1>1. /\ NewDraft \in Rec /\ Rows(queue') \subseteq Rows(queue) \union {NewDraft}
      /\ born' = born + 1 /\ Moved(t)
  BY EnqueueRows DEF NewDraft
<1>2. Held' = Held /\ Upto' = Upto
  BY <1>1, HeldKept DEF Writing
<1>3. NewDraft.at = born + 1 /\ NewDraft.id = next /\ NewDraft.ver = 1
  BY DEF NewDraft
<1>4. archive' = archive /\ OnFile' = OnFile /\ written' = written
  BY DEF saveVs, diskVs, OnFile
<1> QED BY <1>1, <1>2, <1>3, <1>4 DEF Enqueues, Elsewhere

LEMMA UpdateEffect ==
  ASSUME TypeInv, NEW t \in Threads, NEW i \in 1..Len(queue), Update(t, i)
  PROVE  Updates
<1>1. /\ thr[t].pc = "idle" /\ UNCHANGED << saveVs, writer, diskVs, born >>
  BY DEF Update
<1>2. /\ \E r \in Rec : /\ queue[i] \in Rows(queue) /\ r.id = queue[i].id /\ r.at = queue[i].at
                        /\ r.ver = queue[i].ver + 1
                        /\ Rows(queue') = (Rows(queue) \ {queue[i]}) \union {r}
      /\ Moved(t)
  BY UpdateStep
<1>3. Held' = Held /\ Upto' = Upto
  BY <1>1, <1>2, HeldKept DEF Writing
<1>4. archive' = archive /\ OnFile' = OnFile /\ written' = written
  BY <1>1 DEF saveVs, diskVs, OnFile
<1> QED BY <1>1, <1>2, <1>3, <1>4 DEF Updates, Elsewhere

\* Steps of a thread without the lock that only take drafts away.
LEMMA TakeEffect ==
  ASSUME TypeInv, NEW t \in Threads, Moved(t), thr[t].pc \notin Writing, writer' = writer,
         Rows(queue') \subseteq Rows(queue), archive' \subseteq archive, OnFile' \subseteq OnFile,
         written' = written, born' = born
  PROVE  Shrinks /\ Held' = Held /\ Upto' = Upto
BY HeldKept DEF Shrinks

LEMMA DeleteEffect ==
  ASSUME TypeInv, NEW t \in Threads, NEW id \in 1..MaxDrafts, DeleteQueued(t, id)
  PROVE  Shrinks /\ Held' = {}
<1>1. /\ thr[t].pc = "idle" /\ writer = None
      /\ UNCHANGED << saveVs, writer, archive, born >>
  BY DEF DeleteQueued
<1>2. Moved(t) /\ Rows(queue') \subseteq Rows(queue) /\ OnFile' \subseteq OnFile
  BY DeleteStep
<1> QED BY <1>1, <1>2, TakeEffect, HeldDropped DEF Writing, saveVs

LEMMA EmptyEffect ==
  ASSUME TypeInv, NEW t \in Threads, NEW op \in {"clear", "libclear", "wipe"}, Empty(t, op)
  PROVE  Shrinks
<1>1. /\ thr[t].pc = "idle" /\ UNCHANGED << saveVs, writer, diskVs, born >>
  BY DEF Empty
<1>2. Moved(t) /\ Rows(queue') = {} /\ OnFile' = OnFile /\ archive' = archive
  BY <1>1, EmptyStep DEF diskVs, OnFile
<1> QED BY <1>1, <1>2, TakeEffect DEF Writing, saveVs

LEMMA BeginEffect ==
  ASSUME TypeInv, NEW t \in Threads, NEW pc \in {"create", "copy"}, thr[t].pc = "idle",
         thr' = [thr EXCEPT ![t].pc = pc], UNCHANGED << queue, saveVs, writer, diskVs, born >>
  PROVE  Shrinks
<1>1. Moved(t) /\ OnFile' = OnFile /\ archive' = archive
  BY BeginThread DEF diskVs, OnFile
<1> QED BY <1>1, TakeEffect DEF Writing, saveVs

\* The steps in which a thread ends its operation, or a wipe removes the file.
LEMMA FinishEffect ==
  ASSUME TypeInv, NEW t \in Threads,
         (CreateSync /\ t = Creator) \/ DeleteArchived(t) \/ ClearArchive(t) \/ WipeJson(t) \/ WipeDb(t)
  PROVE  Shrinks
<1>1. /\ Moved(t) /\ thr[t].pc \notin Writing /\ UNCHANGED << queue, saveVs, writer, born >>
      /\ archive' \subseteq archive /\ OnFile' \subseteq OnFile
  <2>1. CASE CreateSync /\ t = Creator
    BY <2>1, IdleAfter DEF CreateSync, Writing, diskVs, OnFile
  <2>2. CASE DeleteArchived(t)
    <3>1. /\ thr[t].pc = "archive" /\ json' = Without(thr[t].id)
          /\ archive' \subseteq archive /\ thr' = [thr EXCEPT ![t] = Idle]
          /\ UNCHANGED << queue, saveVs, writer, born >>
      BY <2>2 DEF DeleteArchived, memVs
    <3>2. OnFile' \subseteq OnFile
      BY <3>1, WithoutFile
    <3> QED BY <3>1, <3>2, IdleAfter DEF Writing
  <2>3. CASE ClearArchive(t)
    BY <2>3, IdleAfter DEF ClearArchive, Writing, memVs, OnFile
  <2>4. CASE WipeJson(t)
    BY <2>4, WipeJsonThread DEF WipeJson, Writing, memVs, OnFile
  <2>5. CASE WipeDb(t)
    BY <2>5, IdleAfter DEF WipeDb, Writing, memVs, OnFile
  <2> QED BY <2>1, <2>2, <2>3, <2>4, <2>5
<1> QED BY <1>1, TakeEffect DEF saveVs

LEMMA CrashEffect ==
  ASSUME TypeInv, CrashAndRestart
  PROVE  Restarts
BY CrashRows, HeldDropped DEF CrashAndRestart, Restarts, Source

LEMMA StepEffect ==
  ASSUME TypeInv, [Next]_vars
  PROVE  Shrinks \/ Enqueues \/ Updates \/ Captures \/ Writes \/ Mirrors \/ Restarts
<1>1. CASE CreateBegin
  BY <1>1, BeginEffect, CreatorThread DEF CreateBegin
<1>2. CASE CreateQueued
  BY <1>2, EnqueueEffect, CreatorThread DEF CreateQueued
<1>3. CASE CreateSync
  BY <1>3, FinishEffect, CreatorThread
<1>4. ASSUME NEW t \in Threads, SaveStep(t) PROVE Shrinks \/ Captures \/ Writes \/ Mirrors
  BY <1>4, SaveEffect
<1>5. ASSUME NEW t \in Pool, OpStep(t) PROVE Shrinks \/ Enqueues \/ Updates
  <2>1. t \in Threads
    BY CreatorThread
  <2>2. CASE LibraryRead(t)
    BY <2>1, <2>2, BeginEffect DEF LibraryRead, memVs
  <2>3. CASE LibraryCreate(t)
    BY <2>1, <2>3, EnqueueEffect DEF LibraryCreate
  <2>4. ASSUME NEW i \in 1..Len(queue), Update(t, i) PROVE Updates
    BY <2>1, <2>4, UpdateEffect
  <2>5. ASSUME NEW id \in 1..MaxDrafts, DeleteQueued(t, id) PROVE Shrinks
    BY <2>1, <2>5, DeleteEffect
  <2>6. ASSUME NEW op \in {"clear", "libclear", "wipe"}, Empty(t, op) PROVE Shrinks
    BY <2>1, <2>6, EmptyEffect
  <2>7. CASE DeleteArchived(t) \/ ClearArchive(t) \/ WipeJson(t) \/ WipeDb(t)
    BY <2>1, <2>7, FinishEffect
  <2> QED BY <1>5, <2>2, <2>3, <2>4, <2>5, <2>6, <2>7 DEF OpStep
<1>6. CASE CrashAndRestart
  BY <1>6, CrashEffect
<1>7. CASE UNCHANGED vars
  <2>1. UNCHANGED << memVs, saveVs, writer, diskVs, thr, born >>
    BY <1>7 DEF vars
  <2> QED BY <2>1 DEF Shrinks, memVs, saveVs, diskVs, OnFile, Held, Upto
<1> QED BY <1>1, <1>2, <1>3, <1>4, <1>5, <1>6, <1>7 DEF Next
-----------------------------------------------------------------------------
(* One draft, one id; and no file goes back to an older version. *)

Everywhere == Rows(queue) \union archive \union Held \union OnFile

\* Copies of one draft have one id.
OneId == \A q, r \in Everywhere : q.at = r.at => q.id = r.id

LEMMA EverywhereFacts ==
  ASSUME TypeInv
  PROVE  /\ Everywhere \subseteq Rec /\ \A r \in Everywhere : r.at \in Nat /\ r.at <= born /\ r.ver \in Nat
         /\ \A q, r \in Rows(queue) : q.at = r.at => q = r
         /\ \A q, r \in Held : q.at = r.at => q = r
         /\ \A q, r \in OnFile : q.at = r.at => q = r
<1>1. Everywhere \subseteq Rec /\ \A r \in Everywhere : r.at <= born
  BY TypeFacts, HeldFacts DEF Everywhere
<1>2. \A r \in Everywhere : r.at \in Nat /\ r.ver \in Nat
  BY <1>1, RecFields
<1>3. \A q, r \in OnFile : q.at = r.at => q = r
  BY TypeFacts, OrderedRows DEF OnFile
<1> QED BY <1>1, <1>2, <1>3, TypeFacts, OrderedRows, HeldFacts

\* Where the rows after a step come from.
LEMMA Origins ==
  ASSUME TypeInv, [Next]_vars, NEW r \in Everywhere'
  PROVE  \/ r \in Everywhere
         \/ Enqueues /\ r = NewDraft
         \/ Updates /\ \E q \in Everywhere : q.at = r.at /\ q.id = r.id
<1>1. CASE Shrinks
  BY <1>1 DEF Shrinks, Everywhere
<1>2. CASE Enqueues
  BY <1>2 DEF Enqueues, Elsewhere, Everywhere
<1>3. CASE Updates
  BY <1>3 DEF Updates, Elsewhere, Everywhere
<1>4. CASE Captures
  BY <1>4 DEF Captures, Everywhere
<1>5. CASE Writes
  BY <1>5 DEF Writes, Everywhere
<1>6. CASE Mirrors
  BY <1>6 DEF Mirrors, Upsert, Everywhere
<1>7. CASE Restarts
  BY <1>7 DEF Restarts, Source, Everywhere
<1> QED BY <1>1, <1>2, <1>3, <1>4, <1>5, <1>6, <1>7, StepEffect

LEMMA NewIsAlone ==
  ASSUME TypeInv, Enqueues
  PROVE  \A r \in Everywhere : r.at # NewDraft.at
<1>1. NewDraft.at = born + 1 /\ born \in Nat
  BY TypeFacts DEF Enqueues
<1>2. \A a \in Nat : a <= born => a # born + 1
  BY <1>1
<1> QED BY <1>1, <1>2, EverywhereFacts

LEMMA OneIdStep ==
  ASSUME TypeInv, OneId, [Next]_vars
  PROVE  OneId'
<1>1. CASE Enqueues
  <2>1. \A r \in Everywhere' : r \in Everywhere \/ r = NewDraft
    BY <1>1 DEF Enqueues, Elsewhere, Everywhere
  <2>2. \A r \in Everywhere : r.at # NewDraft.at
    BY <1>1, NewIsAlone
  <2> QED BY <2>1, <2>2 DEF OneId
<1>2. CASE ~Enqueues
  <2>1. \A r \in Everywhere' : \E q \in Everywhere : q.at = r.at /\ q.id = r.id
    BY <1>2, Origins
  <2> SUFFICES ASSUME NEW a \in Everywhere', NEW b \in Everywhere', a.at = b.at PROVE a.id = b.id
    BY DEF OneId
  <2>2. PICK p \in Everywhere : p.at = a.at /\ p.id = a.id
    BY <2>1
  <2>3. PICK q \in Everywhere : q.at = b.at /\ q.id = b.id
    BY <2>1
  <2>4. p.at = q.at
    BY <2>2, <2>3
  <2>5. p.id = q.id
    BY <2>4 DEF OneId
  <2> QED BY <2>2, <2>3, <2>5
<1> QED BY <1>1, <1>2

LEMMA InitRows ==
  ASSUME Init
  PROVE  Everywhere = {} /\ Held = {} /\ Rows(queue) = {} /\ archive = {} /\ OnFile = {}
BY EmptyRows DEF Init, Everywhere, Held, OnFile

\* The archive has one row for a draft.
OneRow == \A q, r \in archive : q.at = r.at => q = r

\* The queue has the newest version of its drafts; the snapshot being written has
\* none that the archive is ahead of.
AheadOfArchive ==
  /\ \A q \in Rows(queue), r \in archive \union Held : q.at = r.at => r.ver <= q.ver
  /\ \A q \in Held, r \in archive : q.at = r.at => r.ver <= q.ver

\* Nor has the file a version the queue or that snapshot is behind.
FileBehind == \A q \in Rows(queue) \union Held, r \in OnFile : q.at = r.at => r.ver <= q.ver

LEMMA OneRowStep ==
  ASSUME TypeInv, OneId, OneRow, [Next]_vars
  PROVE  OneRow'
<1>1. CASE archive' \subseteq archive
  BY <1>1 DEF OneRow
<1>2. CASE Mirrors
  <2>1. PICK M \in SUBSET Held : archive' = Upsert(archive, M)
    BY <1>2 DEF Mirrors
  <2>2. \A r \in archive' : r \in M \/ (r \in archive /\ \A n \in M : n.id # r.id)
    BY <2>1 DEF Upsert
  <2> SUFFICES ASSUME NEW q \in archive', NEW r \in archive', q.at = r.at PROVE q = r
    BY DEF OneRow
  <2>3. CASE q \in M /\ r \in M
    BY <2>3, HeldFacts
  <2>4. CASE q \in archive /\ r \in archive
    BY <2>4 DEF OneRow
  <2>5. CASE q \in M /\ r \in archive /\ r \notin M
    BY <2>2, <2>5 DEF OneId, Everywhere
  <2>6. CASE r \in M /\ q \in archive /\ q \notin M
    BY <2>2, <2>6 DEF OneId, Everywhere
  <2> QED BY <2>2, <2>3, <2>4, <2>5, <2>6
<1>3. CASE Restarts
  <2>1. archive' \subseteq archive \/ archive' \subseteq OnFile
    BY <1>3 DEF Restarts, Source
  <2> QED BY <2>1, EverywhereFacts DEF OneRow
<1> QED BY <1>1, <1>2, <1>3, StepEffect DEF Shrinks, Enqueues, Updates, Captures, Writes, Elsewhere

\* What the rows of one listing say of a draft is one version.
LEMMA OneVersion ==
  ASSUME TypeInv, OneRow
  PROVE  /\ \A q, r \in Rows(queue) : q.at = r.at => r.ver <= q.ver
         /\ \A q, r \in Held : q.at = r.at => r.ver <= q.ver
         /\ \A q, r \in archive : q.at = r.at => r.ver <= q.ver
         /\ \A q, r \in OnFile : q.at = r.at => r.ver <= q.ver
<1>1. \A r \in Everywhere : r.ver \in Nat /\ r.ver <= r.ver
  BY EverywhereFacts
<1> QED BY <1>1, EverywhereFacts DEF OneRow, Everywhere

\* The version an edit leaves is ahead of what the old one was ahead of.
LEMMA UpdateAhead ==
  ASSUME TypeInv, NEW q \in Rows(queue), NEW r \in Rec, r.at = q.at, r.ver = q.ver + 1,
         NEW R, R \subseteq Everywhere, \A n \in R : q.at = n.at => n.ver <= q.ver
  PROVE  \A n \in R : r.at = n.at => n.ver <= r.ver
<1> SUFFICES ASSUME NEW n \in R, r.at = n.at PROVE n.ver <= r.ver
  OBVIOUS
<1>1. n.ver \in Nat /\ q.ver \in Nat /\ n.ver <= q.ver
  BY EverywhereFacts DEF Everywhere
<1> QED BY <1>1

LEMMA AheadOfArchiveStep ==
  ASSUME TypeInv, OneRow, AheadOfArchive, [Next]_vars
  PROVE  AheadOfArchive'
<1>1. CASE Shrinks
  BY <1>1 DEF Shrinks, AheadOfArchive
<1>2. CASE Enqueues
  <2>1. /\ Rows(queue') \subseteq Rows(queue) \union {NewDraft} /\ archive' = archive /\ Held' = Held
        /\ \A r \in archive \union Held : r.at # NewDraft.at
    BY <1>2, NewIsAlone DEF Enqueues, Elsewhere, Everywhere
  <2> QED BY <2>1 DEF AheadOfArchive
<1>3. CASE Updates
  <2>1. PICK q \in Rows(queue), r \in Rec :
          /\ r.at = q.at /\ r.ver = q.ver + 1
          /\ Rows(queue') = (Rows(queue) \ {q}) \union {r}
    BY <1>3 DEF Updates
  <2>2. archive' = archive /\ Held' = Held
    BY <1>3 DEF Updates, Elsewhere
  <2>3. \A n \in archive \union Held : r.at = n.at => n.ver <= r.ver
    <3>1. archive \union Held \subseteq Everywhere
      BY DEF Everywhere
    <3>2. \A n \in archive \union Held : q.at = n.at => n.ver <= q.ver
      BY DEF AheadOfArchive
    <3> QED BY <2>1, <3>1, <3>2, UpdateAhead
  <2> QED BY <2>1, <2>2, <2>3 DEF AheadOfArchive
<1>4. CASE Captures
  BY <1>4, OneVersion DEF Captures, AheadOfArchive
<1>5. CASE Writes
  BY <1>5 DEF Writes, AheadOfArchive
<1>6. CASE Mirrors
  <2>1. Rows(queue') = Rows(queue) /\ Held' = {} /\ archive' \subseteq archive \union Held
    BY <1>6 DEF Mirrors, Upsert
  <2> QED BY <2>1 DEF AheadOfArchive
<1>7. CASE Restarts
  BY <1>7, OneVersion DEF Restarts, Source, AheadOfArchive
<1> QED BY <1>1, <1>2, <1>3, <1>4, <1>5, <1>6, <1>7, StepEffect

LEMMA FileBehindStep ==
  ASSUME ~MayCrash, TypeInv, OneRow, AheadOfArchive, FileBehind, [Next]_vars
  PROVE  FileBehind'
<1>1. CASE Shrinks
  BY <1>1 DEF Shrinks, FileBehind
<1>2. CASE Enqueues
  <2>1. /\ Rows(queue') \subseteq Rows(queue) \union {NewDraft} /\ OnFile' = OnFile /\ Held' = Held
        /\ \A r \in OnFile : r.at # NewDraft.at
    BY <1>2, NewIsAlone DEF Enqueues, Elsewhere, Everywhere
  <2> QED BY <2>1 DEF FileBehind
<1>3. CASE Updates
  <2>1. PICK q \in Rows(queue), r \in Rec :
          /\ r.at = q.at /\ r.ver = q.ver + 1
          /\ Rows(queue') = (Rows(queue) \ {q}) \union {r}
    BY <1>3 DEF Updates
  <2>2. OnFile' = OnFile /\ Held' = Held
    BY <1>3 DEF Updates, Elsewhere
  <2>3. \A n \in OnFile : r.at = n.at => n.ver <= r.ver
    <3>1. OnFile \subseteq Everywhere
      BY DEF Everywhere
    <3>2. \A n \in OnFile : q.at = n.at => n.ver <= q.ver
      BY DEF FileBehind
    <3> QED BY <2>1, <3>1, <3>2, UpdateAhead
  <2> QED BY <2>1, <2>2, <2>3 DEF FileBehind
<1>4. CASE Captures
  BY <1>4 DEF Captures, FileBehind
<1>5. CASE Writes
  BY <1>5, OneVersion DEF Writes, AheadOfArchive, FileBehind
<1>6. CASE Mirrors
  BY <1>6 DEF Mirrors, FileBehind
<1>7. CASE Restarts
  BY <1>7 DEF Restarts
<1> QED BY <1>1, <1>2, <1>3, <1>4, <1>5, <1>6, <1>7, StepEffect

\* As long as the process lives, neither file goes back to an older version of a
\* draft, however the saves of several threads interleave and coalesce.  (After
\* a restart the queue itself may start from an archive the file was ahead of.)
THEOREM NoRegress_Safety ==
  ASSUME ~MayCrash
  PROVE  Spec => NoRegress
<1> DEFINE Inv == TypeInv /\ OneId /\ OneRow /\ AheadOfArchive /\ FileBehind
           Forward == /\ \A r \in archive, n \in archive' : r.at = n.at => n.ver >= r.ver
                      /\ \A r \in OnFile, n \in OnFile' : r.at = n.at => n.ver >= r.ver
<1>1. Init => Inv
  BY InitTyped, InitRows DEF OneId, OneRow, AheadOfArchive, FileBehind
<1>2. Inv /\ [Next]_vars => Inv'
  BY StepTyped, OneIdStep, OneRowStep, AheadOfArchiveStep, FileBehindStep
<1>3. Inv /\ [Next]_vars => [Forward]_vars
  <2> SUFFICES ASSUME TypeInv, OneRow, AheadOfArchive, FileBehind, [Next]_vars PROVE Forward
    OBVIOUS
  <2>1. archive' \subseteq archive \/ archive' \subseteq archive \union Held
    BY StepEffect DEF Shrinks, Enqueues, Updates, Captures, Writes, Mirrors, Upsert, Restarts, Elsewhere
  <2>2. \A r \in archive, n \in archive' : r.at = n.at => r.ver <= n.ver
    BY <2>1, OneVersion DEF AheadOfArchive
  <2>3. OnFile' \subseteq OnFile \/ OnFile' \subseteq Held
    BY StepEffect DEF Shrinks, Enqueues, Updates, Captures, Writes, Mirrors, Restarts, Elsewhere
  <2>4. \A r \in OnFile, n \in OnFile' : r.at = n.at => r.ver <= n.ver
    BY <2>3, OneVersion DEF FileBehind
  <2> QED BY <2>2, <2>4
<1> QED BY <1>1, <1>2, <1>3, PTL DEF Spec, NoRegress
-----------------------------------------------------------------------------
(* What a delete, a clear or a wipe has removed does not come back. *)

\* The victims of a removal under way: they have left the queue; a snapshot that
\* still has them was taken by a save the removal's own save will not be covered
\* by, and the file has them at most until the removal's save has written it.
Fading(t) ==
  /\ \A r \in Rows(queue) : r.at \notin thr[t].victims
  /\ thr[t].op = "delete" => \A r \in Everywhere : r.at \in thr[t].victims => r.id = thr[t].id
  /\ \A r \in Held : r.at \in thr[t].victims =>
       /\ thr[t].op # "delete"
       /\ thr[t].pc = "request" \/ (thr[t].pc = "enter" /\ Upto < thr[t].rev)
  /\ \A r \in OnFile : r.at \in thr[t].victims =>
       /\ thr[t].op # "delete"
       /\ \/ thr[t].pc \in {"request", "snapshot", "replace"}
          \/ thr[t].pc = "enter" /\ written < thr[t].rev

WriterAhead == \A t \in Threads : thr[t].pc \in Writing => written <= thr[t].upto

GoneInv ==
  /\ \A a \in doomed : a <= born
  /\ \A r \in Everywhere : r.at \notin gone
  /\ WriterAhead
  /\ \A t \in Threads : Fading(t)

\* A new draft is not among those that are gone or going.
LEMMA NewIsFresh ==
  ASSUME TypeInv, GoneInv, Enqueues
  PROVE  NewDraft.at \notin doomed /\ NewDraft.at \notin gone
         /\ \A t \in Threads : NewDraft.at \notin thr[t].victims
<1>1. NewDraft.at = born + 1 /\ born \in Nat
  BY TypeFacts DEF Enqueues
<1>2. NewDraft.at \notin doomed
  <2>1. \A a \in Nat : a <= born => a # born + 1
    BY <1>1
  <2>2. \A a \in doomed : a \in Nat
    BY TypeFacts
  <2> QED BY <1>1, <2>1, <2>2 DEF GoneInv
<1> QED BY <1>2, TypeFacts

LEMMA RowsOfGone ==
  ASSUME TypeInv, GoneInv, [Next]_vars
  PROVE  \A r \in Everywhere' : r.at \notin gone
<1> SUFFICES ASSUME NEW r \in Everywhere' PROVE r.at \notin gone
  OBVIOUS
<1> QED BY Origins, NewIsFresh DEF GoneInv

\* The removals of the threads that do not take the step.
LEMMA OthersFade ==
  ASSUME TypeInv, OneId, GoneInv, [Next]_vars,
         Shrinks \/ Enqueues \/ Updates \/ Captures \/ Writes \/ Mirrors,
         NEW w \in Threads, thr'[w] = thr[w]
  PROVE  Fading(w)'
<1>0. Fading(w)
  BY DEF GoneInv
<1>1. CASE Shrinks
  <2>1. /\ Rows(queue') \subseteq Rows(queue) /\ OnFile' \subseteq OnFile /\ written' = written
        /\ Held' = {} \/ (Held' = Held /\ Upto' = Upto)
        /\ Everywhere' \subseteq Everywhere
    BY <1>1 DEF Shrinks, Everywhere
  <2> QED BY <1>0, <2>1 DEF Fading
<1>2. CASE Enqueues
  <2>1. /\ Rows(queue') \subseteq Rows(queue) \union {NewDraft}
        /\ OnFile' = OnFile /\ Held' = Held /\ Upto' = Upto /\ written' = written
        /\ Everywhere' \subseteq Everywhere \union {NewDraft}
    BY <1>2 DEF Enqueues, Elsewhere, Everywhere
  <2>2. NewDraft.at \notin thr[w].victims
    BY <1>2, NewIsFresh
  <2> QED BY <1>0, <2>1, <2>2 DEF Fading
<1>3. CASE Updates
  <2>1. PICK q \in Rows(queue), r \in Rec :
          r.id = q.id /\ r.at = q.at /\ Rows(queue') = (Rows(queue) \ {q}) \union {r}
    BY <1>3 DEF Updates
  <2>2. /\ OnFile' = OnFile /\ Held' = Held /\ Upto' = Upto /\ written' = written
        /\ Everywhere' \subseteq Everywhere \union {r} /\ q \in Everywhere
    BY <1>3, <2>1 DEF Updates, Elsewhere, Everywhere
  <2> QED BY <1>0, <2>1, <2>2 DEF Fading
<1>4. CASE Captures
  <2>1. /\ Rows(queue') = Rows(queue) /\ OnFile' = OnFile /\ Held' = Rows(queue) /\ written' = written
        /\ Everywhere' \subseteq Everywhere
    BY <1>4 DEF Captures, Everywhere
  <2> QED BY <1>0, <2>1 DEF Fading
<1>5. CASE Writes
  <2>1. /\ Rows(queue') = Rows(queue) /\ Held' = Held /\ Upto' = Upto /\ OnFile' \subseteq Held
        /\ Everywhere' \subseteq Everywhere
        /\ written' = (IF Upto > written THEN Upto ELSE written) /\ writer # None
    BY <1>5 DEF Writes, Everywhere
  <2>2. written <= Upto
    <3>1. writer \in Threads /\ thr[writer].pc \in Writing
      BY <2>1 DEF TypeInv, LockGood
    <3> QED BY <3>1, HeldFacts DEF GoneInv, WriterAhead
  <2>3. written' = Upto
    BY <2>1, <2>2, TypeFacts, HeldFacts
  <2> QED BY <1>0, <2>1, <2>3 DEF Fading
<1>6. CASE Mirrors
  <2>1. /\ Rows(queue') = Rows(queue) /\ OnFile' = OnFile /\ Held' = {} /\ written' = written
        /\ Everywhere' \subseteq Everywhere
    BY <1>6 DEF Mirrors, Upsert, Everywhere
  <2> QED BY <1>0, <2>1 DEF Fading
<1> QED BY <1>1, <1>2, <1>3, <1>4, <1>5, <1>6

\* A step of thread t.
LEMMA ThreadGone ==
  ASSUME TypeInv, OneId, GoneInv, [Next]_vars, NEW t \in Threads, Moved(t),
         Shrinks \/ Enqueues \/ Updates \/ Captures \/ Writes \/ Mirrors,
         Fading(t)', WriterAhead', born <= born', born' \in Nat,
         \A a \in doomed' : a \in doomed \/ \E r \in archive \union Rows(queue) \union OnFile : r.at = a,
         \A r \in Everywhere' : r.at \in gone' => r.at \in gone
  PROVE  GoneInv'
<1>1. \A a \in doomed' : a <= born'
  <2> SUFFICES ASSUME NEW a \in doomed' PROVE a <= born'
    OBVIOUS
  <2>1. a \in Nat /\ a <= born
    BY TypeFacts, RecFields DEF GoneInv
  <2> QED BY <2>1, TypeFacts
<1>2. \A r \in Everywhere' : r.at \notin gone'
  BY RowsOfGone
<1>3. ASSUME NEW w \in Threads PROVE Fading(w)'
  <2>1. CASE w = t
    BY <2>1
  <2>2. CASE w # t
    <3>1. thr'[w] = thr[w]
      BY <2>2 DEF Moved
    <3> QED BY <3>1, OthersFade
  <2> QED BY <2>1, <2>2
<1> QED BY <1>1, <1>2, <1>3 DEF GoneInv

LEMMA NoVictims ==
  ASSUME NEW t \in Threads, thr'[t].victims = {}
  PROVE  Fading(t)'
BY DEF Fading

LEMMA AheadKept ==
  ASSUME GoneInv, NEW t \in Threads, Moved(t), written' = written,
         thr'[t].pc \in Writing => \/ (thr[t].pc \in Writing /\ thr'[t].upto = thr[t].upto)
                                   \/ written <= thr'[t].upto
  PROVE  WriterAhead'
BY DEF GoneInv, WriterAhead, Moved

LEMMA RequestGone ==
  ASSUME TypeInv, OneId, GoneInv, [Next]_vars, NEW t \in Threads, Request(t)
  PROVE  GoneInv'
<1>1. /\ Moved(t) /\ SameWork(thr'[t], thr[t]) /\ thr'[t].pc = "enter"
      /\ thr'[t].rev = request + 1 /\ thr'[t].victims = thr[t].victims
  BY RequestThread
<1>2. /\ thr[t].pc = "request" /\ UNCHANGED << memVs, written, writer, diskVs, born, ghosts >>
  BY DEF Request
<1>3. Held' = Held /\ Upto' = Upto /\ Shrinks /\ Everywhere' \subseteq Everywhere
  BY <1>1, <1>2, HeldKept, RequestEffect DEF Writing, Shrinks, Everywhere
<1>4. Upto < request + 1 /\ written < request + 1
  BY HeldFacts, TypeFacts
<1>5. Fading(t)'
  <2>1. Fading(t) /\ queue' = queue /\ OnFile' = OnFile /\ written' = written
    BY <1>2 DEF GoneInv, memVs, diskVs, OnFile
  <2> QED BY <1>1, <1>2, <1>3, <1>4, <2>1 DEF Fading, SameWork
<1>6. WriterAhead'
  BY <1>1, <1>2, AheadKept DEF Writing
<1> QED BY <1>1, <1>2, <1>3, <1>5, <1>6, ThreadGone, TypeFacts DEF ghosts

LEMMA ClaimGone ==
  ASSUME TypeInv, OneId, GoneInv, [Next]_vars, NEW t \in Threads, Claim(t)
  PROVE  GoneInv'
<1>1. /\ Moved(t) /\ SameWork(thr'[t], thr[t]) /\ thr'[t].pc = "snapshot"
      /\ thr'[t].upto = request /\ thr'[t].victims = thr[t].victims
  BY ClaimThread
<1>2. /\ thr[t].pc = "enter" /\ UNCHANGED << memVs, written, diskVs, born, ghosts >>
  BY DEF Claim
<1>3. Held' = {} /\ Shrinks /\ Everywhere' \subseteq Everywhere
  BY ClaimEffect DEF Shrinks, Everywhere
<1>5. Fading(t)'
  <2>1. Fading(t) /\ queue' = queue /\ OnFile' = OnFile
    BY <1>2 DEF GoneInv, memVs, diskVs, OnFile
  <2> QED BY <1>1, <1>2, <1>3, <2>1 DEF Fading, SameWork
<1>6. WriterAhead'
  <2>1. written <= request
    BY TypeFacts
  <2> QED BY <1>1, <1>2, <2>1, AheadKept
<1> QED BY <1>1, <1>2, <1>3, <1>5, <1>6, ThreadGone, TypeFacts DEF ghosts

LEMMA SnapshotGone ==
  ASSUME TypeInv, OneId, GoneInv, [Next]_vars, NEW t \in Threads, Snapshot(t)
  PROVE  GoneInv'
<1>1. /\ Moved(t) /\ SameWork(thr'[t], thr[t]) /\ thr'[t].pc = "replace"
      /\ thr'[t].upto = thr[t].upto /\ thr'[t].victims = thr[t].victims
  BY SnapshotThread
<1>2. /\ thr[t].pc = "snapshot" /\ UNCHANGED << memVs, saveVs, diskVs, born, ghosts >>
  BY DEF Snapshot
<1>3. /\ Held' = Rows(queue) /\ Captures /\ Everywhere' \subseteq Everywhere
  BY SnapshotEffect DEF Captures, Everywhere
<1>5. Fading(t)'
  <2>1. Fading(t) /\ queue' = queue /\ OnFile' = OnFile
    BY <1>2 DEF GoneInv, memVs, diskVs, OnFile
  <2> QED BY <1>1, <1>2, <1>3, <2>1 DEF Fading, SameWork
<1>6. WriterAhead'
  BY <1>1, <1>2, AheadKept DEF Writing, saveVs
<1> QED BY <1>1, <1>2, <1>3, <1>5, <1>6, ThreadGone, TypeFacts DEF ghosts

LEMMA ReplaceGone ==
  ASSUME TypeInv, OneId, GoneInv, [Next]_vars, NEW t \in Threads, Replace(t)
  PROVE  GoneInv'
<1>1. /\ Moved(t) /\ SameWork(thr'[t], thr[t]) /\ thr'[t].pc = "mirror"
      /\ thr'[t].upto = thr[t].upto /\ thr'[t].victims = thr[t].victims
  BY ReplaceThread
<1>2. /\ thr[t].pc = "replace" /\ UNCHANGED << memVs, writer, born, ghosts >>
      /\ written' = IF thr[t].upto > written THEN thr[t].upto ELSE written
  BY DEF Replace
<1>3. /\ Held' = Held /\ OnFile' \subseteq Held /\ Writes /\ Everywhere' \subseteq Everywhere
  BY ReplaceEffect DEF Writes, Everywhere
<1>4. written <= thr[t].upto /\ written' = thr[t].upto /\ thr[t].upto \in Nat
  <2>1. written <= thr[t].upto
    BY <1>2 DEF GoneInv, WriterAhead, Writing
  <2> QED BY <1>2, <2>1, TypeFacts
<1>5. Fading(t)'
  <2>1. Fading(t) /\ queue' = queue
    BY <1>2 DEF GoneInv, memVs
  <2>2. \A r \in Held : r.at \notin thr[t].victims
    BY <1>2, <2>1 DEF Fading
  <2> QED BY <1>1, <1>2, <1>3, <2>1, <2>2 DEF Fading, SameWork
<1>6. WriterAhead'
  <2> SUFFICES ASSUME NEW w \in Threads, thr'[w].pc \in Writing PROVE written' <= thr'[w].upto
    BY DEF WriterAhead
  <2>1. w = t
    <3>1. writer = t /\ writer' = t
      BY <1>2 DEF TypeInv, LockGood, Writing
    <3>2. LockGood'
      BY StepTyped DEF TypeInv
    <3> QED BY <3>1, <3>2 DEF LockGood
  <2> QED BY <1>1, <1>4, <2>1
<1> QED BY <1>1, <1>2, <1>3, <1>5, <1>6, ThreadGone, TypeFacts DEF ghosts

\* A save that returns: the victims have left the file.
LEMMA SavedGone ==
  ASSUME TypeInv, OneId, GoneInv, [Next]_vars, NEW t \in Threads,
         thr[t].pc \in {"enter", "replace", "mirror"}, thr[t].pc = "enter" => Covered(t),
         NEW removed, removed = {} \/ removed = thr[t].victims,
         thr[t].pc = "replace" => removed = {}, AfterSave(t, removed),
         Shrinks \/ Mirrors, Held' = {}, written' = written, born' = born, doomed' = doomed
  PROVE  GoneInv'
<1>1. /\ Moved(t) /\ thr'[t].pc \in {"idle", "sync", "archive", "clearArchive", "wipeJson"}
      /\ gone' = gone
      /\ \/ thr'[t] = Idle
         \/ SameWork(thr'[t], thr[t]) /\ thr'[t].pc # "idle" /\ thr'[t].victims = removed
  BY AfterSaveThread
<1>2. Fading(t)'
  <2>1. CASE removed = {}
    BY <1>1, <2>1, IdleThread, NoVictims
  <2>2. CASE thr'[t] = Idle
    BY <2>2, IdleThread, NoVictims
  <2>3. CASE /\ removed = thr[t].victims /\ thr[t].pc # "replace"
             /\ SameWork(thr'[t], thr[t]) /\ thr'[t].victims = removed
    <3>1. Fading(t)
      BY DEF GoneInv
    <3>2. /\ Rows(queue') \subseteq Rows(queue) /\ OnFile' \subseteq OnFile
          /\ Everywhere' \subseteq Everywhere
      BY DEF Shrinks, Mirrors, Upsert, Everywhere
    <3>3. \A r \in OnFile : r.at \notin thr[t].victims
      <4>1. thr[t].pc = "enter" => ~(written < thr[t].rev)
        BY TypeFacts DEF Covered
      <4> QED BY <2>3, <3>1, <4>1 DEF Fading
    <3> QED BY <2>3, <3>1, <3>2, <3>3 DEF Fading, SameWork
  <2> QED BY <1>1, <2>1, <2>2, <2>3
<1>3. WriterAhead'
  BY <1>1, AheadKept DEF Writing
<1> QED BY <1>1, <1>2, <1>3, ThreadGone, TypeFacts

LEMMA SaveGone ==
  ASSUME TypeInv, OneId, GoneInv, [Next]_vars, NEW t \in Threads, SaveStep(t)
  PROVE  GoneInv'
<1>1. CASE Coalesce(t)
  <2>1. /\ thr[t].pc = "enter" /\ Covered(t) /\ AfterSave(t, thr[t].victims)
        /\ UNCHANGED << saveVs, born, doomed >>
    BY <1>1 DEF Coalesce
  <2> QED BY <1>1, <2>1, CoalesceEffect, SavedGone DEF saveVs
<1>2. CASE ReplaceFails(t)
  <2>1. /\ thr[t].pc = "replace" /\ AfterSave(t, {}) /\ UNCHANGED << written, born, doomed >>
    BY <1>2 DEF ReplaceFails
  <2> QED BY <1>2, <2>1, ReplaceFailsEffect, SavedGone
<1>3. CASE Mirror(t)
  <2>1. /\ thr[t].pc = "mirror" /\ AfterSave(t, thr[t].victims) /\ UNCHANGED << saveVs, born, doomed >>
    BY <1>3 DEF Mirror
  <2>2. Mirrors /\ Held' = {}
    BY <1>3, MirrorEffect DEF Mirrors
  <2> QED BY <2>1, <2>2, SavedGone DEF saveVs
<1> QED BY <1>1, <1>2, <1>3, RequestGone, ClaimGone, SnapshotGone, ReplaceGone DEF SaveStep

\* The operations that remove nothing.
LEMMA HarmlessGone ==
  ASSUME TypeInv, OneId, GoneInv, [Next]_vars, NEW t \in Threads, Moved(t),
         Shrinks \/ Enqueues \/ Updates, thr'[t].victims = {}, thr'[t].pc \notin Writing,
         doomed' = doomed, gone' = gone
  PROVE  GoneInv'
<1>1. Fading(t)'
  BY NoVictims
<1>2. written' = written /\ born <= born' /\ born' \in Nat
  BY TypeFacts DEF Shrinks, Enqueues, Updates, Elsewhere
<1>3. WriterAhead'
  BY <1>2, AheadKept
<1> QED BY <1>1, <1>2, <1>3, ThreadGone

LEMMA CreateGone ==
  ASSUME TypeInv, OneId, GoneInv, [Next]_vars, CreateBegin \/ CreateQueued \/ CreateSync
  PROVE  GoneInv'
<1>1. CASE CreateBegin
  <2>1. /\ thr[Creator].pc = "idle" /\ thr' = [thr EXCEPT ![Creator].pc = "create"]
        /\ UNCHANGED << queue, saveVs, writer, diskVs, born, ghosts >>
    BY <1>1 DEF CreateBegin
  <2>2. Moved(Creator) /\ thr'[Creator].pc = "create" /\ thr'[Creator].victims = {} /\ Shrinks
    BY <2>1, CreatorThread, BeginThread, BeginEffect
  <2> QED BY <2>1, <2>2, CreatorThread, HarmlessGone DEF Writing, ghosts
<1>2. CASE CreateQueued
  <2>1. /\ thr[Creator].pc = "create" /\ born < MaxDrafts /\ Enqueue(Creator, "create")
        /\ UNCHANGED << saveVs, writer, diskVs, ghosts >>
    BY <1>2 DEF CreateQueued
  <2>2. Moved(Creator) /\ thr'[Creator].pc = "request" /\ thr'[Creator].victims = {} /\ Enqueues
    BY <2>1, CreatorThread, EnqueueRows, EnqueueEffect
  <2> QED BY <2>1, <2>2, CreatorThread, HarmlessGone DEF Writing, ghosts
<1>3. CASE CreateSync
  <2>1. /\ thr' = [thr EXCEPT ![Creator] = Idle] /\ UNCHANGED ghosts
    BY <1>3 DEF CreateSync
  <2>2. Moved(Creator) /\ thr'[Creator].pc = "idle" /\ thr'[Creator].victims = {} /\ Shrinks
    BY <1>3, <2>1, CreatorThread, IdleAfter, FinishEffect
  <2> QED BY <2>1, <2>2, CreatorThread, HarmlessGone DEF Writing, ghosts
<1> QED BY <1>1, <1>2, <1>3

LEMMA LibraryGone ==
  ASSUME TypeInv, OneId, GoneInv, [Next]_vars, NEW t \in Threads, LibraryRead(t) \/ LibraryCreate(t)
  PROVE  GoneInv'
<1>1. CASE LibraryRead(t)
  <2>1. /\ thr[t].pc = "idle" /\ thr' = [thr EXCEPT ![t].pc = "copy"]
        /\ UNCHANGED << queue, saveVs, writer, diskVs, born, ghosts >>
    BY <1>1 DEF LibraryRead, memVs
  <2>2. Moved(t) /\ thr'[t].pc = "copy" /\ thr'[t].victims = {} /\ Shrinks
    BY <2>1, BeginThread, BeginEffect
  <2> QED BY <2>1, <2>2, HarmlessGone DEF Writing, ghosts
<1>2. CASE LibraryCreate(t)
  <2>1. /\ thr[t].pc = "copy" /\ born < MaxDrafts /\ Enqueue(t, "library")
        /\ UNCHANGED << saveVs, writer, diskVs, ghosts >>
    BY <1>2 DEF LibraryCreate
  <2>2. Moved(t) /\ thr'[t].pc = "request" /\ thr'[t].victims = {} /\ Enqueues
    BY <2>1, EnqueueRows, EnqueueEffect
  <2> QED BY <2>1, <2>2, HarmlessGone DEF Writing, ghosts
<1> QED BY <1>1, <1>2

LEMMA UpdateGone ==
  ASSUME TypeInv, OneId, GoneInv, [Next]_vars, NEW t \in Threads, NEW i \in 1..Len(queue), Update(t, i)
  PROVE  GoneInv'
<1>1. UNCHANGED ghosts
  BY DEF Update
<1>2. Moved(t) /\ thr'[t].pc = "request" /\ thr'[t].victims = {} /\ Updates
  BY UpdateStep, UpdateEffect
<1> QED BY <1>1, <1>2, HarmlessGone DEF Writing, ghosts

\* A delete sets out: its draft has left the queue, and its id the file.
LEMMA DeleteGone ==
  ASSUME TypeInv, OneId, GoneInv, [Next]_vars, NEW t \in Threads, NEW id \in 1..MaxDrafts,
         DeleteQueued(t, id)
  PROVE  GoneInv'
<1>1. /\ OnFile' \subseteq { r \in OnFile : r.id # id }
      /\ Moved(t) /\ thr'[t].op = "delete" /\ thr'[t].id = id
      /\ thr'[t].pc = "request" \/ thr'[t].pc = "archive"
      /\ \A a \in thr'[t].victims : /\ \A r \in Rows(queue') : r.at # a
                                    /\ \E r \in archive \union Rows(queue) : r.at = a /\ r.id = id
      /\ \A a \in doomed' : a \in doomed \/ \E r \in archive \union Rows(queue) : r.at = a
  BY DeleteStep
<1>2. Shrinks /\ Held' = {} /\ Everywhere' \subseteq Everywhere /\ gone' = gone
  BY DeleteEffect DEF Shrinks, Everywhere, DeleteQueued
<1>3. \A r \in Everywhere : r.at \in thr'[t].victims => r.id = id
  BY <1>1 DEF OneId, Everywhere
<1>4. Fading(t)'
  <2>1. \A r \in Rows(queue') : r.at \notin thr'[t].victims
    BY <1>1
  <2>2. \A r \in OnFile' : r.at \notin thr'[t].victims
    BY <1>1, <1>3 DEF Everywhere
  <2> QED BY <1>1, <1>2, <1>3, <2>1, <2>2 DEF Fading
<1>5. WriterAhead'
  BY <1>1, <1>2, AheadKept DEF Writing, Shrinks
<1> QED BY <1>1, <1>2, <1>4, <1>5, ThreadGone, TypeFacts DEF Shrinks

\* A clear or a wipe sets out.
LEMMA EmptyGone ==
  ASSUME TypeInv, OneId, GoneInv, [Next]_vars, NEW t \in Threads,
         NEW op \in {"clear", "libclear", "wipe"}, Empty(t, op)
  PROVE  GoneInv'
<1>1. /\ Rows(queue') = {} /\ Moved(t) /\ thr'[t].op = op /\ thr'[t].pc = "request"
      /\ \A a \in doomed' : a \in doomed \/ \E r \in archive \union Rows(queue) \union OnFile : r.at = a
  BY EmptyStep
<1>2. Shrinks /\ gone' = gone
  BY EmptyEffect DEF Empty
<1>3. Fading(t)'
  BY <1>1 DEF Fading
<1>4. WriterAhead'
  BY <1>1, <1>2, AheadKept DEF Writing, Shrinks
<1> QED BY <1>1, <1>2, <1>3, <1>4, ThreadGone, TypeFacts DEF Shrinks

\* A removal that ends has removed its victims everywhere.
LEMMA FinishGone ==
  ASSUME TypeInv, OneId, GoneInv, [Next]_vars, NEW t \in Threads,
         DeleteArchived(t) \/ ClearArchive(t) \/ WipeDb(t)
  PROVE  GoneInv'
<1>1. /\ thr[t].pc \in {"archive", "clearArchive", "wipeDb"} /\ gone' = gone \union thr[t].victims
      /\ doomed' = doomed \/ doomed' = doomed \union Ats(archive)
      /\ thr' = [thr EXCEPT ![t] = Idle] /\ queue' = queue
  BY DEF DeleteArchived, ClearArchive, WipeDb, memVs
<1>2. Moved(t) /\ thr'[t].victims = {} /\ thr'[t].pc = "idle" /\ Shrinks
  BY <1>1, IdleAfter, FinishEffect
<1>3. Fading(t)
  BY DEF GoneInv
<1>4. \A r \in Everywhere' : r.at \notin thr[t].victims
  <2>1. Rows(queue') \subseteq Rows(queue) /\ Held' \subseteq Held /\ OnFile' \subseteq OnFile
    BY <1>2 DEF Shrinks
  <2>2. \A r \in Rows(queue) \union Held \union OnFile : r.at \notin thr[t].victims
    BY <1>1, <1>3 DEF Fading
  <2>3. \A r \in archive' : r.at \notin thr[t].victims
    <3>1. CASE DeleteArchived(t)
      <4>1. thr[t].op = "delete" /\ archive' = { r \in archive : r.id # thr[t].id }
        BY <3>1, TypeFacts DEF DeleteArchived, GoodThread
      <4> QED BY <1>3, <4>1 DEF Fading, Everywhere
    <3>2. CASE ClearArchive(t) \/ WipeDb(t)
      BY <3>2 DEF ClearArchive, WipeDb
    <3> QED BY <3>1, <3>2
  <2> QED BY <2>1, <2>2, <2>3 DEF Everywhere
<1>5. Fading(t)' /\ WriterAhead'
  BY <1>2, NoVictims, AheadKept DEF Writing, Shrinks
<1>6. \A a \in doomed' : a \in doomed \/ \E r \in archive \union Rows(queue) \union OnFile : r.at = a
  BY <1>1 DEF Ats
<1> QED BY <1>1, <1>2, <1>4, <1>5, <1>6, ThreadGone, TypeFacts DEF Shrinks

LEMMA WipeJsonGone ==
  ASSUME TypeInv, OneId, GoneInv, [Next]_vars, NEW t \in Threads, WipeJson(t)
  PROVE  GoneInv'
<1>1. /\ Moved(t) /\ SameWork(thr'[t], thr[t]) /\ thr'[t].pc = "wipeDb" /\ thr'[t].victims = thr[t].victims
  BY WipeJsonThread
<1>2. /\ thr[t].pc = "wipeJson" /\ json' = None /\ UNCHANGED << memVs, ghosts >>
  BY DEF WipeJson
<1>3. Shrinks /\ OnFile' = {} /\ Everywhere' \subseteq Everywhere
  BY <1>2, FinishEffect DEF Shrinks, Everywhere, OnFile
<1>4. Fading(t)'
  <2>1. Fading(t) /\ \A r \in Held : r.at \notin thr[t].victims
    BY <1>2 DEF GoneInv, Fading
  <2>2. Held' \subseteq Held /\ queue' = queue
    BY <1>2, <1>3 DEF Shrinks, memVs
  <2> QED BY <1>1, <1>3, <2>1, <2>2 DEF Fading, SameWork
<1>5. WriterAhead'
  BY <1>1, <1>3, AheadKept DEF Writing, Shrinks
<1> QED BY <1>1, <1>2, <1>3, <1>4, <1>5, ThreadGone, TypeFacts DEF Shrinks, ghosts

LEMMA CrashGone ==
  ASSUME TypeInv, GoneInv, [Next]_vars, CrashAndRestart
  PROVE  GoneInv'
<1>1. /\ thr' = [t \in Threads |-> Idle] /\ UNCHANGED << born, ghosts >>
  BY DEF CrashAndRestart
<1>2. \A r \in Everywhere' : r.at \notin gone'
  BY <1>1, RowsOfGone DEF ghosts
<1>3. \A t \in Threads : thr'[t].victims = {} /\ thr'[t].pc = "idle"
  BY <1>1, IdleThread
<1>4. WriterAhead' /\ \A t \in Threads : Fading(t)'
  BY <1>3, NoVictims DEF WriterAhead, Writing
<1> QED BY <1>1, <1>2, <1>4 DEF GoneInv, ghosts

LEMMA StutterGone ==
  ASSUME GoneInv, UNCHANGED vars
  PROVE  GoneInv'
BY DEF GoneInv, WriterAhead, Fading, Everywhere, Held, Upto, OnFile, vars, memVs, saveVs, diskVs, ghosts

LEMMA GoneStep ==
  ASSUME TypeInv, OneId, GoneInv, [Next]_vars
  PROVE  GoneInv'
<1>1. CASE CreateBegin \/ CreateQueued \/ CreateSync
  BY <1>1, CreateGone
<1>2. ASSUME NEW t \in Threads, SaveStep(t) PROVE GoneInv'
  BY <1>2, SaveGone
<1>3. ASSUME NEW t \in Pool, OpStep(t) PROVE GoneInv'
  <2>1. t \in Threads
    BY CreatorThread
  <2>2. CASE LibraryRead(t) \/ LibraryCreate(t)
    BY <2>1, <2>2, LibraryGone
  <2>3. ASSUME NEW i \in 1..Len(queue), Update(t, i) PROVE GoneInv'
    BY <2>1, <2>3, UpdateGone
  <2>4. ASSUME NEW id \in 1..MaxDrafts, DeleteQueued(t, id) PROVE GoneInv'
    BY <2>1, <2>4, DeleteGone
  <2>5. ASSUME NEW op \in {"clear", "libclear", "wipe"}, Empty(t, op) PROVE GoneInv'
    BY <2>1, <2>5, EmptyGone
  <2>6. CASE DeleteArchived(t) \/ ClearArchive(t) \/ WipeDb(t)
    BY <2>1, <2>6, FinishGone
  <2>7. CASE WipeJson(t)
    BY <2>1, <2>7, WipeJsonGone
  <2> QED BY <1>3, <2>2, <2>3, <2>4, <2>5, <2>6, <2>7 DEF OpStep
<1>4. CASE CrashAndRestart
  BY <1>4, CrashGone
<1>5. CASE UNCHANGED vars
  BY <1>5, StutterGone
<1> QED BY <1>1, <1>2, <1>3, <1>4, <1>5 DEF Next

\* A draft whose delete, clear or wipe has returned is neither in the queue nor
\* anywhere a restart could load it from, although the saves of other threads may
\* have had it in a snapshot when it was removed.
THEOREM GoneStaysGone_Safety == Spec => []GoneStaysGone
<1>1. Init => TypeInv /\ OneId /\ GoneInv
  <2> SUFFICES ASSUME Init PROVE TypeInv /\ OneId /\ GoneInv
    OBVIOUS
  <2>1. TypeInv /\ OneId
    BY InitTyped, InitRows DEF OneId
  <2>2. \A t \in Threads : thr[t].victims = {} /\ thr[t].pc = "idle"
    BY IdleThread DEF Init
  <2>3. doomed = {}
    BY DEF Init
  <2> QED BY <2>1, <2>2, <2>3, InitRows DEF GoneInv, WriterAhead, Writing, Fading
<1>2. TypeInv /\ OneId /\ GoneInv /\ [Next]_vars => (TypeInv /\ OneId /\ GoneInv)'
  BY StepTyped, OneIdStep, GoneStep
<1>3. GoneInv => GoneStaysGone
  BY DEF GoneInv, GoneStaysGone, Ats, Everywhere
<1> QED BY <1>1, <1>2, <1>3, PTL DEF Spec
-----------------------------------------------------------------------------
(* Without the Library's copies, no two drafts share an id. *)

\* The drafts a new one is numbered against.  The file is not one of them: a
\* restart that finds the archive does not look at it.
Live == Rows(queue) \union archive \union Held

Grows(R) == \A q, r \in R : q.at < r.at => q.id < r.id

\* Only the thread under the dictation gate creates drafts.
OneCreator ==
  /\ \A t \in Threads : thr[t].pc # "copy"
  /\ thr[Creator].pc \notin {"idle", "create"} => thr[Creator].op = "create"

IdsGrow ==
  /\ Grows(Live) /\ Grows(OnFile)
  /\ \A r \in Live : r.id < next
  /\ thr[Creator].pc \in {"idle", "create"} => \A r \in Live : r.id < sNext

\* A set of drafts has a newest one.
LEMMA NewestOf ==
  ASSUME NEW R, R \subseteq Rec, R # {}
  PROVE  \E r \in R : \A q \in R : q.at <= r.at
<1> DEFINE D == { MaxDrafts - r.at : r \in R }
<1>1. MaxDrafts \in Nat /\ \A r \in R : r.at \in 1..MaxDrafts
  BY DraftStoreAssumption, RecFields
<1>2. D \subseteq Nat /\ D # {}
  BY <1>1
<1>3. PICK d \in D : \A k \in D : d <= k
  BY <1>2, LeastNumber
<1>4. PICK r \in R : d = MaxDrafts - r.at
  BY <1>3
<1>5. ASSUME NEW q \in R PROVE q.at <= r.at
  <2>1. MaxDrafts - q.at \in D
    OBVIOUS
  <2>2. MaxDrafts - r.at <= MaxDrafts - q.at
    BY <1>3, <1>4, <2>1
  <2> QED BY <1>1, <2>2
<1> QED BY <1>5

\* A restart numbers on from more than every id of what it found.
LEMMA RestartCounts ==
  ASSUME TypeInv, OneRow, Grows(archive), Grows(OnFile), CrashAndRestart
  PROVE  /\ \A r \in Live' : r.id < next' /\ r.id < sNext'
         /\ Live' \subseteq archive \/ Live' \subseteq OnFile
<1>1. /\ queue' = Loaded /\ next' = NextId(Loaded) /\ sNext' = NextId(Loaded) /\ Held' = {}
      /\ archive' = (IF LoadsJson THEN Upsert(archive, LastRows(json)) ELSE archive)
  BY HeldDropped DEF CrashAndRestart
<1>2. /\ NextId(Loaded) \in Nat /\ \A r \in Rows(Loaded) : r.id < NextId(Loaded)
  BY LoadedRows, NextIdAbove
<1>3. Live' = Rows(Loaded) \union archive'
  BY <1>1 DEF Live
<1>4. CASE LoadsJson
  <2>1. Ordered(json) /\ Rows(json) = OnFile /\ archive = {} /\ Loaded = json
    BY <1>4, LoadedRows
  <2>2. archive' \subseteq OnFile
    BY <1>1, <1>4, <2>1, LastRowsIn DEF Upsert, Ordered
  <2> QED BY <1>1, <1>2, <1>3, <2>1, <2>2
<1>5. CASE ~LoadsJson
  <2>1. archive' = archive /\ Rows(Loaded) \subseteq archive /\ Loaded = Recent /\ archive \subseteq Rec
    BY <1>1, <1>5, LoadedRows, TypeFacts DEF Loaded
  <2>2. ASSUME NEW r \in archive PROVE r.id < NextId(Loaded)
    <3>1. PICK top \in archive : \A q \in archive : q.at <= top.at
      BY <2>1, NewestOf
    <3>2. top \in Rows(Recent)
      BY <2>1, <3>1, RecentRows DEF OneRow
    <3>3. top.id \in Nat /\ r.id \in Nat /\ top.at \in Nat /\ r.at \in Nat
      BY <2>1, RecFields
    <3>4. CASE r.at < top.at
      BY <1>2, <2>1, <3>2, <3>3, <3>4 DEF Grows
    <3>5. CASE r.at = top.at
      BY <1>2, <2>1, <3>2, <3>5 DEF OneRow
    <3> QED BY <3>1, <3>3, <3>4, <3>5
  <2> QED BY <1>1, <1>3, <2>1, <2>2
<1> QED BY <1>4, <1>5

LEMMA GrowsPart ==
  ASSUME NEW R, NEW T, R \subseteq T, Grows(T)
  PROVE  Grows(R)
BY DEF Grows

\* A step that creates no draft and is no restart.
LEMMA IdsKept ==
  ASSUME TypeInv, OneId, IdsGrow, Shrinks \/ Updates \/ Captures \/ Writes \/ Mirrors
  PROVE  /\ Grows(Live') /\ Grows(OnFile')
         /\ \A r \in Live' : \E q \in Live : q.id = r.id
<1>1. CASE Updates
  <2>1. PICK q \in Rows(queue), r \in Rec :
          r.id = q.id /\ r.at = q.at /\ Rows(queue') = (Rows(queue) \ {q}) \union {r}
    BY <1>1 DEF Updates
  <2>2. OnFile' = OnFile /\ Live' \subseteq Live \union {r} /\ q \in Live
    BY <1>1, <2>1 DEF Updates, Elsewhere, Live
  <2>3. \A n \in Live' : \E m \in Live : m.at = n.at /\ m.id = n.id
    BY <2>1, <2>2
  <2>4. Grows(Live')
    <3> SUFFICES ASSUME NEW a \in Live', NEW b \in Live', a.at < b.at PROVE a.id < b.id
      BY DEF Grows
    <3>1. PICK p \in Live : p.at = a.at /\ p.id = a.id
      BY <2>3
    <3>2. PICK s \in Live : s.at = b.at /\ s.id = b.id
      BY <2>3
    <3>3. p.at < s.at
      BY <3>1, <3>2
    <3>4. p.id < s.id
      BY <3>3 DEF IdsGrow, Grows
    <3> QED BY <3>1, <3>2, <3>4
  <2> QED BY <2>2, <2>3, <2>4 DEF IdsGrow
<1>2. CASE Shrinks \/ Captures \/ Writes \/ Mirrors
  <2>1. Live' \subseteq Live
    BY <1>2 DEF Shrinks, Captures, Writes, Mirrors, Upsert, Live
  <2>2. OnFile' \subseteq OnFile \/ OnFile' \subseteq Live
    BY <1>2 DEF Shrinks, Captures, Writes, Mirrors, Live
  <2> QED BY <2>1, <2>2, GrowsPart DEF IdsGrow
<1> QED BY <1>1, <1>2

\* A new draft is numbered above the ones there are.
LEMMA IdsAbove ==
  ASSUME TypeInv, IdsGrow, Enqueues
  PROVE  /\ Grows(Live') /\ Grows(OnFile')
         /\ \A r \in Live' : r \in Live \/ r.id = next
<1>1. Live' \subseteq Live \union {NewDraft} /\ OnFile' = OnFile
  BY DEF Enqueues, Elsewhere, Live
<1>2. NewDraft.at = born + 1 /\ NewDraft.id = next /\ born \in Nat
  BY TypeFacts DEF Enqueues
<1>3. \A r \in Live : r.at \in Nat /\ r.at <= born /\ r.id < next
  BY EverywhereFacts DEF IdsGrow, Live, Everywhere
<1>4. \A r \in Live : ~(NewDraft.at < r.at)
  BY <1>2, <1>3
<1>5. ~(NewDraft.at < NewDraft.at)
  BY <1>2
<1>6. Grows(Live')
  BY <1>1, <1>2, <1>3, <1>4, <1>5 DEF IdsGrow, Grows
<1> QED BY <1>1, <1>2, <1>6 DEF IdsGrow

\* What a step does to the counters.
Numbering ==
  \/ /\ next' = next /\ sNext' = sNext
     /\ thr'[Creator].pc \in {"idle", "create"} => thr[Creator].pc \in {"idle", "create"}
     /\ thr[Creator].pc = "idle" => thr'[Creator].pc = "idle"
     /\ Shrinks \/ Updates \/ Captures \/ Writes \/ Mirrors
  \/ /\ next' = sNext /\ sNext' = sNext /\ thr[Creator].pc = "idle" /\ Shrinks
     /\ \A t \in Pool : thr[t].op # "wipe"
  \/ /\ next' = next + 1 /\ sNext' = sNext /\ thr[Creator].pc = "create"
     /\ thr'[Creator].pc = "request" /\ Enqueues
  \/ /\ next' = next /\ sNext' = next /\ thr[Creator].pc = "sync" /\ Shrinks
  \/ CrashAndRestart

\* A step of a thread of the pool, or of the creating one once it is saving.
LEMMA OtherNumbering ==
  ASSUME TypeInv, OneCreator, NEW t \in Threads, Moved(t), next' = next, sNext' = sNext,
         Shrinks \/ Updates \/ Captures \/ Writes \/ Mirrors,
         thr'[t].pc # "copy",
         t = Creator => /\ thr[t].pc # "idle"
                        /\ thr'[t].pc \notin {"idle", "create"} /\ thr'[t].op = "create"
  PROVE  Numbering /\ OneCreator'
<1>1. thr'[Creator].pc \in {"idle", "create"} => thr[Creator].pc \in {"idle", "create"}
  BY CreatorThread DEF Moved
<1>3. thr[Creator].pc = "idle" => thr'[Creator].pc = "idle"
  BY CreatorThread DEF Moved
<1>2. OneCreator'
  BY CreatorThread DEF Moved, OneCreator
<1> QED BY <1>1, <1>2, <1>3 DEF Numbering

LEMMA SaveNumbering ==
  ASSUME TypeInv, OneCreator, NEW t \in Threads, SaveStep(t)
  PROVE  Numbering /\ OneCreator'
<1>1. next' = next /\ sNext' = sNext
  BY DEF SaveStep, Request, Coalesce, Claim, Snapshot, Replace, ReplaceFails, Mirror, memVs
<1>2. Shrinks \/ Captures \/ Writes \/ Mirrors
  BY SaveEffect
<1>3. t = Creator => thr[t].op = "create" /\ thr[t].pc # "idle"
  <2>1. thr[t].pc \notin {"idle", "create"}
    BY DEF SaveStep, Request, Coalesce, Claim, Snapshot, Replace, ReplaceFails, Mirror
  <2> QED BY <2>1 DEF OneCreator
<1>4. CASE Request(t) \/ Claim(t) \/ Snapshot(t) \/ Replace(t)
  <2>1. /\ Moved(t) /\ SameWork(thr'[t], thr[t])
        /\ thr'[t].pc \in {"enter", "snapshot", "replace", "mirror"}
    BY <1>4, RequestThread, ClaimThread, SnapshotThread, ReplaceThread
  <2> QED BY <1>1, <1>2, <1>3, <2>1, OtherNumbering DEF SameWork
<1>5. CASE Coalesce(t) \/ ReplaceFails(t) \/ Mirror(t)
  <2>1. PICK removed : /\ removed = {} \/ removed = thr[t].victims
                       /\ AfterSave(t, removed) /\ thr[t].pc \in {"enter", "replace", "mirror"}
    BY <1>5 DEF Coalesce, ReplaceFails, Mirror
  <2>2. /\ Moved(t) /\ thr'[t].pc \in {"idle", "sync", "archive", "clearArchive", "wipeJson"}
        /\ thr[t].op = "create" => thr'[t].pc = "sync"
        /\ \/ thr'[t] = Idle
           \/ SameWork(thr'[t], thr[t]) /\ thr'[t].pc # "idle" /\ thr'[t].victims = removed
    BY <2>1, AfterSaveThread
  <2>3. t = Creator => thr'[t].pc = "sync" /\ thr'[t].op = "create"
    BY <1>3, <2>2, IdleThread DEF SameWork
  <2> QED BY <1>1, <1>2, <1>3, <2>2, <2>3, OtherNumbering
<1> QED BY <1>4, <1>5 DEF SaveStep

LEMMA StepNumbering ==
  ASSUME "library" \notin Ops, TypeInv, OneCreator, [Next]_vars
  PROVE  Numbering /\ OneCreator'
<1>1. CASE CreateBegin
  <2>1. /\ next' = sNext /\ sNext' = sNext /\ thr[Creator].pc = "idle"
        /\ \A t \in Pool : thr[t].op # "wipe"
        /\ thr' = [thr EXCEPT ![Creator].pc = "create"]
        /\ UNCHANGED << queue, saveVs, writer, diskVs, born >>
    BY <1>1 DEF CreateBegin
  <2>2. Moved(Creator) /\ thr'[Creator].pc = "create" /\ Shrinks
    BY <2>1, CreatorThread, BeginThread, BeginEffect
  <2> QED BY <2>1, <2>2 DEF Numbering, OneCreator, Moved
<1>2. CASE CreateQueued
  <2>1. /\ next' = next + 1 /\ sNext' = sNext /\ thr[Creator].pc = "create" /\ born < MaxDrafts
        /\ Enqueue(Creator, "create") /\ UNCHANGED << saveVs, writer, diskVs >>
    BY <1>2 DEF CreateQueued, CounterBumped
  <2>2. Moved(Creator) /\ thr'[Creator].pc = "request" /\ thr'[Creator].op = "create" /\ Enqueues
    BY <2>1, CreatorThread, EnqueueRows, EnqueueEffect
  <2> QED BY <2>1, <2>2 DEF Numbering, OneCreator, Moved
<1>3. CASE CreateSync
  <2>1. /\ next' = next /\ sNext' = next /\ thr' = [thr EXCEPT ![Creator] = Idle]
        /\ thr[Creator].pc = "sync"
    BY <1>3 DEF CreateSync
  <2>2. Moved(Creator) /\ thr'[Creator].pc = "idle" /\ Shrinks
    BY <1>3, <2>1, CreatorThread, IdleAfter, FinishEffect
  <2> QED BY <2>1, <2>2 DEF Numbering, OneCreator, Moved
<1>4. ASSUME NEW t \in Threads, SaveStep(t) PROVE Numbering /\ OneCreator'
  BY <1>4, SaveNumbering
<1>5. ASSUME NEW t \in Pool, OpStep(t) PROVE Numbering /\ OneCreator'
  <2>1. t \in Threads /\ t # Creator
    BY CreatorThread, DraftStoreAssumption
  <2>2. ~LibraryRead(t) /\ ~LibraryCreate(t)
    BY <2>1 DEF LibraryRead, LibraryCreate, OneCreator
  <2>3. ASSUME NEW i \in 1..Len(queue), Update(t, i)
        PROVE  Moved(t) /\ next' = next /\ sNext' = sNext /\ Updates /\ thr'[t].pc # "copy"
    BY <2>1, <2>3, UpdateStep, UpdateEffect DEF Update
  <2>4. ASSUME NEW id \in 1..MaxDrafts, DeleteQueued(t, id)
        PROVE  Moved(t) /\ next' = next /\ sNext' = sNext /\ Shrinks /\ thr'[t].pc # "copy"
    BY <2>1, <2>4, DeleteStep, DeleteEffect DEF DeleteQueued
  <2>5. ASSUME NEW op \in {"clear", "libclear", "wipe"}, Empty(t, op)
        PROVE  Moved(t) /\ next' = next /\ sNext' = sNext /\ Shrinks /\ thr'[t].pc # "copy"
    BY <2>1, <2>5, EmptyStep, EmptyEffect DEF Empty
  <2>6. CASE DeleteArchived(t) \/ ClearArchive(t) \/ WipeDb(t)
    <3>1. /\ thr' = [thr EXCEPT ![t] = Idle] /\ next' = next /\ sNext' = sNext
      BY <2>6 DEF DeleteArchived, ClearArchive, WipeDb, memVs
    <3>2. Moved(t) /\ thr'[t].pc = "idle" /\ Shrinks
      BY <2>1, <2>6, <3>1, IdleAfter, FinishEffect
    <3> QED BY <2>1, <3>1, <3>2, OtherNumbering
  <2>7. CASE WipeJson(t)
    <3>1. Moved(t) /\ thr'[t].pc = "wipeDb" /\ next' = next /\ sNext' = sNext /\ Shrinks
      BY <2>1, <2>7, WipeJsonThread, FinishEffect DEF WipeJson, memVs
    <3> QED BY <2>1, <3>1, OtherNumbering
  <2> QED BY <1>5, <2>1, <2>2, <2>3, <2>4, <2>5, <2>6, <2>7, OtherNumbering DEF OpStep
<1>6. CASE CrashAndRestart
  <2>1. thr'[Creator].pc = "idle" /\ \A t \in Threads : thr'[t].pc = "idle"
    BY <1>6, IdleThread, CreatorThread DEF CrashAndRestart
  <2> QED BY <1>6, <2>1 DEF Numbering, OneCreator
<1>7. CASE UNCHANGED vars
  <2>1. UNCHANGED << memVs, saveVs, writer, diskVs, thr, born >>
    BY <1>7 DEF vars
  <2>2. Shrinks
    BY <2>1 DEF Shrinks, memVs, saveVs, diskVs, OnFile, Held, Upto
  <2> QED BY <2>1, <2>2 DEF Numbering, OneCreator, memVs
<1> QED BY <1>1, <1>2, <1>3, <1>4, <1>5, <1>6, <1>7 DEF Next

LEMMA IdsGrowStep ==
  ASSUME "library" \notin Ops, TypeInv, OneId, OneRow, OneCreator, IdsGrow, [Next]_vars
  PROVE  IdsGrow'
<1>1. \A r \in Live : r.id \in Nat
  BY EverywhereFacts, RecFields DEF Live, Everywhere
<1>2. next \in Nat /\ sNext \in Nat
  BY TypeFacts
<1>3. CASE Shrinks \/ Updates \/ Captures \/ Writes \/ Mirrors
  <2>1. /\ Grows(Live') /\ Grows(OnFile')
        /\ \A r \in Live' : \E q \in Live : q.id = r.id
    BY <1>3, IdsKept
  <2>2. CASE /\ next' = next /\ sNext' = sNext
             /\ thr'[Creator].pc \in {"idle", "create"} => thr[Creator].pc \in {"idle", "create"}
    BY <2>1, <2>2 DEF IdsGrow
  <2>3. CASE next' = sNext /\ sNext' = sNext /\ thr[Creator].pc = "idle"
    BY <2>1, <2>3 DEF IdsGrow
  <2>4. CASE next' = next /\ sNext' = next
    BY <2>1, <2>4 DEF IdsGrow
  <2>5. CASE Enqueues /\ next' = next + 1 /\ sNext' = sNext /\ thr'[Creator].pc = "request"
    <3>1. \A r \in Live' : r \in Live \/ r.id = next
      BY <2>5, IdsAbove
    <3>2. \A r \in Live' : r.id < next + 1
      BY <1>1, <1>2, <3>1 DEF IdsGrow
    <3> QED BY <2>1, <2>5, <3>2 DEF IdsGrow
  <2>6. CASE CrashAndRestart
    <3>1. Grows(archive)
      <4>1. archive \subseteq Live
        BY DEF Live
      <4> QED BY <4>1, GrowsPart DEF IdsGrow
    <3>2. \A r \in Live' : r.id < next' /\ r.id < sNext'
      BY <2>6, <3>1, RestartCounts DEF IdsGrow
    <3> QED BY <2>1, <3>2 DEF IdsGrow
  <2> QED BY <2>2, <2>3, <2>4, <2>5, <2>6, StepNumbering DEF Numbering
<1>4. CASE Enqueues /\ next' = next + 1 /\ sNext' = sNext /\ thr'[Creator].pc = "request"
  <2>1. /\ Grows(Live') /\ Grows(OnFile')
        /\ \A r \in Live' : r \in Live \/ r.id = next
    BY <1>4, IdsAbove
  <2>2. \A r \in Live' : r.id < next + 1
    BY <1>1, <1>2, <2>1 DEF IdsGrow
  <2> QED BY <1>4, <2>1, <2>2 DEF IdsGrow
<1>5. CASE CrashAndRestart
  <2>1. Grows(archive) /\ Grows(OnFile)
    <3>1. archive \subseteq Live
      BY DEF Live
    <3> QED BY <3>1, GrowsPart DEF IdsGrow
  <2>2. /\ \A r \in Live' : r.id < next' /\ r.id < sNext'
        /\ Live' \subseteq archive \/ Live' \subseteq OnFile
    BY <1>5, <2>1, OneRowStep, RestartCounts
  <2>3. Grows(Live') /\ Grows(OnFile')
    <3>1. OnFile' \subseteq OnFile
      BY <1>5, CrashRows
    <3> QED BY <2>1, <2>2, <3>1, GrowsPart
  <2> QED BY <2>2, <2>3 DEF IdsGrow
<1> QED BY <1>3, <1>4, <1>5, StepNumbering DEF Numbering

\* Without the Library's copies, which take their ids from a counter server.py
\* sets back, no two drafts of the queue share an id and none has the id of
\* another draft's archive row: whatever is deleted or cleared, whichever saves
\* fail, and through restarts, which number on from the newest row they load.
THEOREM UniqueIds_Safety ==
  ASSUME "library" \notin Ops
  PROVE  Spec => []UniqueIds
<1> DEFINE Inv == TypeInv /\ OneId /\ OneRow /\ OneCreator /\ IdsGrow
<1>1. Init => Inv
  <2> SUFFICES ASSUME Init PROVE Inv
    OBVIOUS
  <2>1. TypeInv /\ OneId /\ OneRow
    BY InitTyped, InitRows DEF OneId, OneRow
  <2>2. \A t \in Threads : thr[t].pc = "idle"
    BY IdleThread DEF Init
  <2>3. OneCreator
    BY <2>2, CreatorThread DEF OneCreator
  <2>4. IdsGrow
    BY InitRows DEF IdsGrow, Grows, Live
  <2> QED BY <2>1, <2>3, <2>4
<1>2. Inv /\ [Next]_vars => Inv'
  BY StepTyped, OneIdStep, OneRowStep, StepNumbering, IdsGrowStep
<1>3. Inv => UniqueIds
  <2> SUFFICES ASSUME TypeInv, OneId, IdsGrow PROVE UniqueIds
    OBVIOUS
  <2>1. Ordered(queue) /\ queue \in Seq(Rec) /\ Len(queue) \in Nat
    BY TypeFacts DEF Ordered
  <2>2. \A i \in 1..Len(queue) : queue[i] \in Rows(queue)
    BY <2>1, OrderedRows
  <2>3. \A r \in Live : r.id \in Nat /\ r.at \in Nat
    BY EverywhereFacts, RecFields DEF Live, Everywhere
  <2>4. ASSUME NEW i \in 1..Len(queue), NEW j \in 1..Len(queue), queue[i].id = queue[j].id
        PROVE  i = j
    <3>1. ~(i < j) /\ ~(j < i)
      BY <2>1, <2>2, <2>3, <2>4 DEF Ordered, IdsGrow, Grows, Live
    <3> QED BY <2>1, <3>1
  <2>5. ASSUME NEW i \in 1..Len(queue), NEW r \in archive, r.id = queue[i].id
        PROVE  r.at = queue[i].at
    <3>1. r \in Live /\ queue[i] \in Live
      BY <2>2 DEF Live
    <3>2. ~(r.at < queue[i].at) /\ ~(queue[i].at < r.at)
      BY <2>3, <2>5, <3>1 DEF IdsGrow, Grows
    <3> QED BY <2>3, <3>1, <3>2
  <2> QED BY <2>4, <2>5 DEF UniqueIds
<1> QED BY <1>1, <1>2, <1>3, PTL DEF Spec
-----------------------------------------------------------------------------
(* What was saved survives: without the Library's copies and clears, if the  *)
(* mirror does not fail and the queue never reaches its limit.               *)

NoLibrary == Ops \intersect {"library", "libclear"} = {}

\* A snapshot has no draft that a removal did not take from the queue since.
HeldQueued == \A r \in Held : r.at \in doomed \/ \E q \in Rows(queue) : q.at = r.at

\* While a delete is under way its id is nobody's but the draft's it removes, and no
\* later draft gets it.
Deleting(t) ==
  /\ thr[t].id < next
  /\ thr[Creator].pc \in {"idle", "create"} => thr[t].id < sNext
  /\ \A r \in Rows(queue) : r.id # thr[t].id
  /\ \A r \in Live : r.id = thr[t].id => r.at \in doomed

\* While a wipe is under way there is no draft that it does not remove.
Wiping ==
  /\ Rows(queue) = {} /\ thr[Creator].pc = "idle"
  /\ \A r \in Live : r.at \in doomed

RemovalInv ==
  /\ HeldQueued
  /\ \A t \in Pool : thr[t].op = "delete" => Deleting(t)
  /\ \A t \in Pool : thr[t].op = "wipe" => Wiping
  /\ \A t \in Threads : thr[t].op \notin {"library", "libclear"}

Numbered == TypeInv /\ OneId /\ OneRow /\ AheadOfArchive /\ OneCreator /\ IdsGrow

LEMMA NoLibraryOps ==
  ASSUME NoLibrary
  PROVE  "library" \notin Ops /\ "libclear" \notin Ops
BY DEF NoLibrary

\* In memory and in the archive an id is one draft's.
LEMMA LiveIds ==
  ASSUME TypeInv, IdsGrow, NEW q \in Live, NEW r \in Live, q.id = r.id
  PROVE  q.at = r.at
<1>1. q.id \in Nat /\ q.at \in Nat /\ r.at \in Nat
  BY EverywhereFacts, RecFields DEF Live, Everywhere
<1>2. ~ (q.at < r.at) /\ ~ (r.at < q.at)
  BY <1>1 DEF IdsGrow, Grows
<1> QED BY <1>1, <1>2

LEMMA IdleWork ==
  \A pc \in {"idle", "create", "copy"} :
    [Idle EXCEPT !.pc = pc].op = "none" /\ [Idle EXCEPT !.pc = pc].at = 0
BY DEF Idle

\* What thread t works on after a step: what it worked on before, nothing, or what
\* it has just begun.
WorksOn(t) ==
  \/ thr'[t].op = "none" /\ thr'[t].at = 0
  \/ SameWork(thr'[t], thr[t])
  \/ t = Creator /\ CreateQueued
  \/ t \in Pool /\ \/ \E i \in 1..Len(queue) : Update(t, i)
                   \/ \E id \in 1..MaxDrafts : DeleteQueued(t, id)
                   \/ \E op \in {"clear", "libclear", "wipe"} : Empty(t, op)

\* A step of thread t.
LEMMA MoverWorks ==
  ASSUME TypeInv, TypeInv', NEW t \in Threads, Moved(t),
         \/ thr'[t].pc \in {"idle", "create", "copy"} \/ WorksOn(t)
  PROVE  \A w \in Threads : WorksOn(w)
<1>1. thr'[t].pc \in {"idle", "create", "copy"} => thr'[t].op = "none" /\ thr'[t].at = 0
  <2>1. ASSUME thr'[t].pc \in {"idle", "create", "copy"} PROVE thr'[t] = [Idle EXCEPT !.pc = thr'[t].pc]
    <3>1. thr'[t] \in GoodThread
      BY DEF Moved
    <3> QED BY <2>1, <3>1 DEF GoodThread
  <2> QED BY <2>1, IdleWork
<1>2. \A w \in Threads : w # t => SameWork(thr'[w], thr[w])
  BY DEF Moved, SameWork
<1> QED BY <1>1, <1>2 DEF WorksOn

LEMMA StepWorks ==
  ASSUME NoLibrary, TypeInv, TypeInv', OneCreator, [Next]_vars
  PROVE  \A w \in Threads : WorksOn(w)
<1>1. CASE CreateBegin
  <2>1. Moved(Creator) /\ thr'[Creator].pc = "create"
    BY <1>1, CreatorThread, BeginThread DEF CreateBegin
  <2> QED BY <2>1, CreatorThread, MoverWorks
<1>2. CASE CreateQueued
  <2>1. Moved(Creator)
    BY <1>2, CreatorThread, EnqueueRows DEF CreateQueued
  <2> QED BY <1>2, <2>1, CreatorThread, MoverWorks DEF WorksOn
<1>3. CASE CreateSync
  <2>1. Moved(Creator) /\ thr'[Creator].pc = "idle"
    BY <1>3, CreatorThread, IdleAfter DEF CreateSync
  <2> QED BY <2>1, CreatorThread, MoverWorks
<1>4. ASSUME NEW t \in Threads, SaveStep(t) PROVE \A w \in Threads : WorksOn(w)
  <2>1. CASE Request(t) \/ Claim(t) \/ Snapshot(t) \/ Replace(t)
    <3>1. Moved(t) /\ SameWork(thr'[t], thr[t])
      BY <2>1, RequestThread, ClaimThread, SnapshotThread, ReplaceThread
    <3> QED BY <3>1, MoverWorks DEF WorksOn
  <2>2. CASE Coalesce(t) \/ ReplaceFails(t) \/ Mirror(t)
    <3>1. PICK removed : /\ removed = {} \/ removed = thr[t].victims
                         /\ AfterSave(t, removed) /\ thr[t].pc \in {"enter", "replace", "mirror"}
      BY <2>2 DEF Coalesce, ReplaceFails, Mirror
    <3>2. Moved(t) /\ (thr'[t] = Idle \/ SameWork(thr'[t], thr[t]))
      BY <3>1, AfterSaveThread
    <3>3. thr'[t].pc = "idle" \/ SameWork(thr'[t], thr[t])
      BY <3>2, IdleThread
    <3> QED BY <3>2, <3>3, MoverWorks DEF WorksOn
  <2> QED BY <1>4, <2>1, <2>2 DEF SaveStep
<1>5. ASSUME NEW t \in Pool, OpStep(t) PROVE \A w \in Threads : WorksOn(w)
  <2>1. t \in Threads
    BY CreatorThread
  <2>2. ~LibraryRead(t) /\ ~LibraryCreate(t)
    BY <2>1, NoLibraryOps DEF LibraryRead, LibraryCreate, OneCreator
  <2>3. ASSUME NEW i \in 1..Len(queue), Update(t, i) PROVE \A w \in Threads : WorksOn(w)
    <3>1. Moved(t)
      BY <2>1, <2>3, UpdateStep
    <3> QED BY <2>1, <2>3, <3>1, MoverWorks DEF WorksOn
  <2>4. ASSUME NEW id \in 1..MaxDrafts, DeleteQueued(t, id) PROVE \A w \in Threads : WorksOn(w)
    <3>1. Moved(t)
      BY <2>1, <2>4, DeleteStep
    <3> QED BY <2>1, <2>4, <3>1, MoverWorks DEF WorksOn
  <2>5. ASSUME NEW op \in {"clear", "libclear", "wipe"}, Empty(t, op) PROVE \A w \in Threads : WorksOn(w)
    <3>1. Moved(t)
      BY <2>1, <2>5, EmptyStep
    <3> QED BY <2>1, <2>5, <3>1, MoverWorks DEF WorksOn
  <2>6. CASE DeleteArchived(t) \/ ClearArchive(t) \/ WipeDb(t)
    <3>1. thr' = [thr EXCEPT ![t] = Idle]
      BY <2>6 DEF DeleteArchived, ClearArchive, WipeDb
    <3>2. Moved(t) /\ thr'[t].pc = "idle"
      BY <2>1, <3>1, IdleAfter
    <3> QED BY <2>1, <3>2, MoverWorks
  <2>7. CASE WipeJson(t)
    <3>1. Moved(t) /\ SameWork(thr'[t], thr[t])
      BY <2>1, <2>7, WipeJsonThread
    <3> QED BY <2>1, <3>1, MoverWorks DEF WorksOn
  <2> QED BY <1>5, <2>2, <2>3, <2>4, <2>5, <2>6, <2>7 DEF OpStep
<1>6. CASE CrashAndRestart
  <2>1. \A w \in Threads : thr'[w] = Idle
    BY <1>6 DEF CrashAndRestart
  <2>2. Idle.op = "none" /\ Idle.at = 0
    BY DEF Idle
  <2> QED BY <2>1, <2>2 DEF WorksOn
<1>7. CASE UNCHANGED vars
  BY <1>7 DEF vars, WorksOn, SameWork
<1> QED BY <1>1, <1>2, <1>3, <1>4, <1>5, <1>6, <1>7 DEF Next

\* No draft leaves the queue but those a removal takes, and none goes back.
Keeps ==
  /\ doomed \subseteq doomed'
  /\ \A q \in Rows(queue) :
       q.at \in doomed' \/ \E r \in Rows(queue') : r.at = q.at /\ r.id = q.id /\ q.ver <= r.ver

LEMMA SameQueueKeeps ==
  ASSUME TypeInv, Rows(queue') = Rows(queue), doomed \subseteq doomed'
  PROVE  Keeps
<1>1. \A q \in Rows(queue) : q.ver <= q.ver
  BY TypeFacts, RecFields
<1> QED BY <1>1 DEF Keeps

\* A queue that holds all the drafts there may be is never trimmed.
LEMMA CreateKeeps ==
  ASSUME MaxDrafts <= Limit, TypeInv, CreateQueued
  PROVE  Keeps /\ Rows(queue') = Rows(queue) \union {NewDraft}
<1>1. /\ born < MaxDrafts /\ Enqueue(Creator, "create") /\ doomed' = doomed
  BY DEF CreateQueued, ghosts
<1>2. Len(queue) + 1 <= Limit
  <2>1. Len(queue) \in Nat /\ Len(queue) <= born /\ born \in Nat
    BY LengthBound, TypeFacts
  <2> QED BY <1>1, <2>1, DraftStoreAssumption
<1>3. Rows(queue') = Rows(queue) \union {NewDraft}
  BY <1>1, <1>2, CreatorThread, EnqueueRows DEF NewDraft
<1>4. \A q \in Rows(queue) : q.ver <= q.ver
  BY TypeFacts, RecFields
<1> QED BY <1>1, <1>3, <1>4 DEF Keeps

LEMMA UpdateKeeps ==
  ASSUME TypeInv, NEW t \in Threads, NEW i \in 1..Len(queue), Update(t, i)
  PROVE  Keeps
<1>1. PICK r \in Rec : /\ queue[i] \in Rows(queue) /\ r.id = queue[i].id /\ r.at = queue[i].at
                       /\ r.ver = queue[i].ver + 1
                       /\ Rows(queue') = (Rows(queue) \ {queue[i]}) \union {r}
  BY UpdateStep
<1>2. doomed' = doomed
  BY DEF Update, ghosts
<1>3. \A q \in Rows(queue) : q.ver \in Nat /\ q.ver <= q.ver /\ q.ver <= q.ver + 1
  BY TypeFacts, RecFields
<1> QED BY <1>1, <1>2, <1>3 DEF Keeps

LEMMA StepKeeps ==
  ASSUME NoLibrary, MaxDrafts <= Limit, TypeInv, OneCreator, [Next]_vars, ~CrashAndRestart
  PROVE  Keeps
<1>1. CASE CreateBegin \/ CreateSync
  BY <1>1, SameQueueKeeps DEF CreateBegin, CreateSync, ghosts
<1>2. CASE CreateQueued
  BY <1>2, CreateKeeps
<1>3. ASSUME NEW t \in Threads, SaveStep(t) PROVE Keeps
  <2>1. queue' = queue /\ doomed' = doomed
    BY <1>3 DEF SaveStep, Request, Coalesce, Claim, Snapshot, Replace, ReplaceFails, Mirror, memVs, ghosts
  <2> QED BY <2>1, SameQueueKeeps
<1>4. ASSUME NEW t \in Pool, OpStep(t) PROVE Keeps
  <2>1. t \in Threads /\ ~LibraryRead(t) /\ ~LibraryCreate(t)
    BY CreatorThread, NoLibraryOps DEF LibraryRead, LibraryCreate, OneCreator
  <2>2. ASSUME NEW i \in 1..Len(queue), Update(t, i) PROVE Keeps
    BY <2>1, <2>2, UpdateKeeps
  <2>3. ASSUME NEW id \in 1..MaxDrafts, DeleteQueued(t, id) PROVE Keeps
    <3>1. /\ \A r \in Rows(queue) : r \in Rows(queue') \/ r.at \in doomed'
          /\ doomed \subseteq doomed'
      BY <2>1, <2>3, DeleteStep
    <3>2. \A q \in Rows(queue) : q.ver <= q.ver
      BY TypeFacts, RecFields
    <3> QED BY <3>1, <3>2 DEF Keeps
  <2>4. ASSUME NEW op \in {"clear", "libclear", "wipe"}, Empty(t, op) PROVE Keeps
    BY <2>1, <2>4, EmptyStep DEF Keeps
  <2>5. CASE DeleteArchived(t) \/ ClearArchive(t) \/ WipeJson(t) \/ WipeDb(t)
    BY <2>5, SameQueueKeeps DEF DeleteArchived, ClearArchive, WipeJson, WipeDb, memVs, ghosts
  <2> QED BY <1>4, <2>1, <2>2, <2>3, <2>4, <2>5 DEF OpStep
<1>5. CASE UNCHANGED vars
  BY <1>5, SameQueueKeeps DEF vars, memVs, ghosts
<1> QED BY <1>1, <1>2, <1>3, <1>4, <1>5 DEF Next

LEMMA HeldQueuedStep ==
  ASSUME NoLibrary, MaxDrafts <= Limit, Numbered, HeldQueued, [Next]_vars
  PROVE  HeldQueued'
<1>1. CASE CrashAndRestart
  <2>1. Held' = {}
    BY <1>1, HeldDropped DEF CrashAndRestart
  <2> QED BY <2>1 DEF HeldQueued
<1>2. CASE ~CrashAndRestart
  <2>1. Keeps
    BY <1>2, StepKeeps DEF Numbered
  <2>2. \A r \in Held' : r.at \in doomed \/ \E q \in Rows(queue) : q.at = r.at
    <3>1. CASE Held' \subseteq Held
      BY <3>1 DEF HeldQueued
    <3>2. CASE Captures
      BY <3>2 DEF Captures
    <3>3. CASE Restarts
      BY <3>3 DEF Restarts
    <3> QED BY <3>1, <3>2, <3>3, StepEffect DEF Numbered, Shrinks, Enqueues, Updates, Writes, Mirrors, Elsewhere
  <2> QED BY <2>1, <2>2 DEF Keeps, HeldQueued
<1> QED BY <1>1, <1>2

\* Where the drafts in memory and in the archive come from.
LEMMA LiveOrigins ==
  ASSUME TypeInv, [Next]_vars, ~CrashAndRestart, OneCreator, NoLibrary
  PROVE  \/ /\ Enqueues /\ next' = next + 1 /\ sNext' = sNext /\ thr[Creator].pc = "create"
            /\ thr'[Creator].pc = "request"
            /\ Rows(queue') \subseteq Rows(queue) \union {NewDraft} /\ Live' \subseteq Live \union {NewDraft}
         \/ /\ \A r \in Rows(queue') : \E q \in Rows(queue) : q.at = r.at /\ q.id = r.id
            /\ \A r \in Live' : \E q \in Live : q.at = r.at /\ q.id = r.id
            /\ thr[Creator].pc = "idle" =>
                 thr'[Creator].pc = "idle" \/ \A t \in Pool : thr[t].op # "wipe"
            /\ \/ /\ next' = next /\ sNext' = sNext
                  /\ thr'[Creator].pc \in {"idle", "create"} => thr[Creator].pc \in {"idle", "create"}
               \/ next' = sNext /\ sNext' = sNext /\ thr[Creator].pc = "idle"
               \/ next' = next /\ sNext' = next
<1>1. Numbering
  BY StepNumbering, NoLibraryOps
<1>2. ASSUME Shrinks \/ Updates \/ Captures \/ Writes \/ Mirrors
      PROVE  /\ \A r \in Rows(queue') : \E q \in Rows(queue) : q.at = r.at /\ q.id = r.id
             /\ \A r \in Live' : \E q \in Live : q.at = r.at /\ q.id = r.id
  <2>1. CASE Shrinks
    BY <2>1 DEF Shrinks, Live
  <2>2. CASE Updates
    <3>1. PICK q \in Rows(queue), r \in Rec :
            r.id = q.id /\ r.at = q.at /\ Rows(queue') = (Rows(queue) \ {q}) \union {r}
      BY <2>2 DEF Updates
    <3>2. archive' = archive /\ Held' = Held
      BY <2>2 DEF Updates, Elsewhere
    <3> QED BY <3>1, <3>2 DEF Live
  <2>3. CASE Captures
    BY <2>3 DEF Captures, Live
  <2>4. CASE Writes
    BY <2>4 DEF Writes, Live
  <2>5. CASE Mirrors
    <3>1. Rows(queue') = Rows(queue) /\ Live' \subseteq Live
      BY <2>5 DEF Mirrors, Upsert, Live
    <3> QED BY <3>1
  <2> QED BY <1>2, <2>1, <2>2, <2>3, <2>4, <2>5
<1>3. Enqueues => /\ Rows(queue') \subseteq Rows(queue) \union {NewDraft}
                  /\ Live' \subseteq Live \union {NewDraft}
  BY DEF Enqueues, Elsewhere, Live
<1> QED BY <1>1, <1>2, <1>3 DEF Numbering

LEMMA DeletingKept ==
  ASSUME NoLibrary, MaxDrafts <= Limit, Numbered, [Next]_vars, ~CrashAndRestart,
         NEW t \in Pool, Deleting(t), thr'[t].id = thr[t].id
  PROVE  Deleting(t)'
<1>1. TypeInv /\ OneCreator /\ doomed \subseteq doomed'
  BY StepKeeps DEF Numbered, Keeps
<1>2. next \in Nat /\ sNext \in Nat /\ thr[t].id \in Nat
  BY <1>1, TypeFacts, CreatorThread, ThreadFields
<1>3. CASE /\ Enqueues /\ next' = next + 1 /\ sNext' = sNext /\ thr'[Creator].pc = "request"
           /\ Rows(queue') \subseteq Rows(queue) \union {NewDraft} /\ Live' \subseteq Live \union {NewDraft}
  <2>1. NewDraft.id = next /\ next # thr[t].id /\ thr[t].id < next + 1
    BY <1>2, <1>3 DEF Enqueues, Deleting
  <2> QED BY <1>1, <1>3, <2>1 DEF Deleting
<1>4. CASE /\ \A r \in Rows(queue') : \E q \in Rows(queue) : q.at = r.at /\ q.id = r.id
           /\ \A r \in Live' : \E q \in Live : q.at = r.at /\ q.id = r.id
           /\ \/ /\ next' = next /\ sNext' = sNext
                 /\ thr'[Creator].pc \in {"idle", "create"} => thr[Creator].pc \in {"idle", "create"}
              \/ next' = sNext /\ sNext' = sNext /\ thr[Creator].pc = "idle"
              \/ next' = next /\ sNext' = next
  BY <1>1, <1>4 DEF Deleting
<1> QED BY <1>1, <1>3, <1>4, LiveOrigins

LEMMA WipingKept ==
  ASSUME NoLibrary, MaxDrafts <= Limit, Numbered, [Next]_vars, ~CrashAndRestart,
         NEW t \in Pool, thr[t].op = "wipe", Wiping
  PROVE  Wiping'
<1>1. TypeInv /\ OneCreator /\ doomed \subseteq doomed'
  BY StepKeeps DEF Numbered, Keeps
<1>2. /\ \A r \in Rows(queue') : \E q \in Rows(queue) : q.at = r.at /\ q.id = r.id
      /\ \A r \in Live' : \E q \in Live : q.at = r.at /\ q.id = r.id
      /\ thr'[Creator].pc = "idle"
  BY <1>1, LiveOrigins DEF Wiping
<1> QED BY <1>1, <1>2 DEF Wiping

\* Where a removal begins.
LEMMA DeleteBegins ==
  ASSUME Numbered, HeldQueued, NEW t \in Pool, NEW id \in 1..MaxDrafts, DeleteQueued(t, id)
  PROVE  Deleting(t)'
<1>1. /\ TypeInv /\ IdsGrow /\ t \in Threads /\ writer = None /\ thr[t].pc = "idle"
      /\ t # Creator /\ next' = next /\ sNext' = sNext /\ archive' = archive
  BY CreatorThread, DraftStoreAssumption DEF Numbered, DeleteQueued
<1>2. /\ Rows(queue') \subseteq Rows(queue) /\ Moved(t) /\ thr'[t].id = id
      /\ \A r \in Rows(queue) : r \in Rows(queue') \/ (r.id = id /\ r.at \in doomed')
      /\ \A r \in archive : r.id = id => r.at \in doomed'
      /\ doomed \subseteq doomed'
  BY <1>1, DeleteStep
<1>3. Held' = {} /\ Live' \subseteq Live
  BY <1>1, <1>2, DeleteEffect DEF Live
<1>4. \E r \in Live : r.id = id
  <2>1. \/ \E r \in archive : r.id = id
        \/ Find(id) # 0
    BY DEF DeleteQueued, Ats
  <2>2. Find(id) # 0 => \E r \in Rows(queue) : r.id = id
    <3>1. Ordered(queue)
      BY <1>1, TypeFacts
    <3> QED BY <3>1, FindRow, OrderedRows
  <2> QED BY <2>1, <2>2 DEF Live
<1>5. id < next /\ (thr[Creator].pc \in {"idle", "create"} => id < sNext)
  BY <1>1, <1>4 DEF IdsGrow
<1>6. \A r \in Rows(queue') : r.id # id
  <2>1. Ordered(queue)
    BY <1>1, TypeFacts
  <2>2. CASE Find(id) = 0
    <3>1. queue' = queue
      BY <2>2 DEF DeleteQueued
    <3> QED BY <2>1, <2>2, <3>1, FindRow
  <2>3. CASE Find(id) # 0
    <3> DEFINE i == Find(id)
    <3>1. i \in 1..Len(queue) /\ queue[i].id = id /\ queue' = RemoveAt(queue, i)
      BY <2>1, <2>3, FindRow DEF DeleteQueued
    <3> HIDE DEF i
    <3>2. Rows(queue') = Rows(queue) \ {queue[i]} /\ queue[i] \in Rows(queue)
      BY <2>1, <3>1, RemoveRows, OrderedRows
    <3>3. ASSUME NEW r \in Rows(queue), r.id = id PROVE r = queue[i]
      <4>1. r.at = queue[i].at
        BY <1>1, <3>1, <3>2, <3>3, LiveIds DEF Live
      <4> QED BY <2>1, <3>2, <4>1, OrderedRows
    <3> QED BY <3>2, <3>3
  <2> QED BY <2>2, <2>3
<1>7. \A r \in Live' : r.id = id => r.at \in doomed'
  BY <1>1, <1>2, <1>3, <1>6 DEF Live
<1>8. thr'[Creator] = thr[Creator]
  BY <1>1, <1>2, CreatorThread DEF Moved
<1> QED BY <1>1, <1>2, <1>5, <1>6, <1>7, <1>8 DEF Deleting

LEMMA WipeBegins ==
  ASSUME Numbered, HeldQueued, NEW t \in Pool, Empty(t, "wipe")
  PROVE  Wiping'
<1>1. /\ TypeInv /\ t \in Threads /\ thr[Creator].pc = "idle" /\ t # Creator
      /\ archive' = archive
  BY CreatorThread, DraftStoreAssumption DEF Numbered, Empty, diskVs
<1>2. /\ Rows(queue') = {} /\ Moved(t) /\ doomed \subseteq doomed'
      /\ \A r \in Rows(queue) \union archive : r.at \in doomed'
  BY <1>1, EmptyStep
<1>3. Held' \subseteq Held
  BY <1>1, EmptyEffect DEF Shrinks
<1>4. thr'[Creator] = thr[Creator]
  BY <1>1, <1>2, CreatorThread DEF Moved
<1>5. \A r \in Held : r.at \in doomed'
  BY <1>2 DEF HeldQueued
<1> QED BY <1>1, <1>2, <1>3, <1>4, <1>5 DEF Wiping, Live

LEMMA RemovalStep ==
  ASSUME NoLibrary, MaxDrafts <= Limit, Numbered, TypeInv', RemovalInv, [Next]_vars
  PROVE  RemovalInv'
<1>1. \A w \in Threads : WorksOn(w)
  BY StepWorks DEF Numbered
<1>2. TypeInv /\ \A t \in Pool : t \in Threads /\ t # Creator
  BY CreatorThread, DraftStoreAssumption DEF Numbered
<1>c. CrashAndRestart => \A t \in Threads : thr'[t].op = "none"
  BY IdleThread DEF CrashAndRestart
<1>3. \A t \in Threads, i \in 1..Len(queue) : Update(t, i) => thr'[t].op = "update"
  BY <1>2, UpdateStep
<1>4. \A t \in Threads, id \in 1..MaxDrafts : DeleteQueued(t, id) => thr'[t].op = "delete"
  BY <1>2, DeleteStep
<1>5. \A t \in Threads, op \in {"clear", "libclear", "wipe"} :
        Empty(t, op) => thr'[t].op = op /\ op # "libclear"
  BY <1>2, EmptyStep, NoLibraryOps DEF Empty
<1>6. CreateQueued => thr'[Creator].op = "create"
  BY <1>2, CreatorThread, EnqueueRows DEF CreateQueued
<1>7. HeldQueued'
  BY HeldQueuedStep DEF RemovalInv
<1>8. ASSUME NEW t \in Pool, thr'[t].op = "delete" PROVE Deleting(t)'
  <2>1. \/ SameWork(thr'[t], thr[t])
        \/ \E id \in 1..MaxDrafts : DeleteQueued(t, id)
    BY <1>1, <1>2, <1>3, <1>5, <1>8 DEF WorksOn
  <2>2. CASE SameWork(thr'[t], thr[t])
    BY <1>2, <1>8, <1>c, <2>2, DeletingKept DEF SameWork, RemovalInv
  <2>3. CASE \E id \in 1..MaxDrafts : DeleteQueued(t, id)
    BY <2>3, DeleteBegins DEF RemovalInv
  <2> QED BY <2>1, <2>2, <2>3
<1>9. ASSUME NEW t \in Pool, thr'[t].op = "wipe" PROVE Wiping'
  <2>1. SameWork(thr'[t], thr[t]) \/ Empty(t, "wipe")
    BY <1>1, <1>2, <1>3, <1>4, <1>5, <1>9 DEF WorksOn
  <2>2. CASE SameWork(thr'[t], thr[t])
    BY <1>2, <1>9, <1>c, <2>2, WipingKept DEF SameWork, RemovalInv
  <2>3. CASE Empty(t, "wipe")
    BY <2>3, WipeBegins DEF RemovalInv
  <2> QED BY <2>1, <2>2, <2>3
<1>10. \A t \in Threads : thr'[t].op \notin {"library", "libclear"}
  BY <1>1, <1>2, <1>3, <1>4, <1>5, <1>6 DEF WorksOn, SameWork, RemovalInv
<1> QED BY <1>7, <1>8, <1>9, <1>10 DEF RemovalInv
-----------------------------------------------------------------------------
(* What the archive does not have yet is owed to it. *)

Owes(id)       == full \/ id \in ids
Carries(w, id) == thr[w].pc \in Writing /\ (thr[w].all \/ id \in thr[w].owed)
Has(R, a, v)   == \E r \in R : r.at = a /\ v <= r.ver

\* A queue row is archived, or its id is pending, or about to be, or with the writer,
\* whose snapshot has the row or is still to be taken.
Debt(q) ==
  \/ q \in archive
  \/ Owes(q.id)
  \/ \E t \in Threads : thr[t].pc = "request" /\ thr[t].id \in {0, q.id}
  \/ \E w \in Threads : Carries(w, q.id) /\ (thr[w].pc = "snapshot" \/ q \in Rows(thr[w].snap))

\* Of a save: no flush has taken up its draft yet, and the one under way is of
\* earlier requests; or the writer has it, and the revision it saves is not stamped
\* as written unless the snapshot has the version.
Waiting(t) ==
  /\ Owes(thr[t].id) /\ written < thr[t].rev
  /\ \A w \in Threads : thr[w].pc \in Writing => thr[w].upto < thr[t].rev
Carried(t) ==
  \E w \in Threads :
    /\ Carries(w, thr[t].id)
    /\ thr[w].pc # "mirror" => written < thr[t].rev
    /\ thr[w].pc = "snapshot" \/ Has(Rows(thr[w].snap), thr[t].at, thr[t].ver)
Archived(t) == Has(archive, thr[t].at, thr[t].ver)

\* A save of a draft that nobody removes.
Saves(t) ==
  thr[t].at # 0 /\ thr[t].at \notin doomed /\ thr[t].pc \in {"request", "enter"} \union Writing
Queued(t) == \E q \in Rows(queue) : q.at = thr[t].at /\ q.id = thr[t].id /\ thr[t].ver <= q.ver
SaveSound(t) ==
  /\ Queued(t)
  /\ thr[t].pc = "enter" => Archived(t) \/ Carried(t) \/ Waiting(t)
  /\ thr[t].pc \in Writing => Archived(t) \/ Carried(t)

DebtInv  == \A q \in Rows(queue) : Debt(q)
SaverInv == \A t \in Threads : Saves(t) => SaveSound(t)

\* A step beside the writer: rows it adds to the queue it saves; of the archive it
\* takes what is doomed and no longer queued.
Aside(u) ==
  /\ Moved(u) /\ thr[u].pc \notin Writing \union {"request", "enter"}
  /\ thr'[u].pc \notin Writing \union {"enter"}
  /\ UNCHANGED << saveVs, acked >> /\ Keeps
  /\ thr'[u].pc = "request" /\ thr'[u].at # 0 => Queued(u)'
  /\ \A q \in Rows(queue') : q \in Rows(queue) \/ (thr'[u].pc = "request" /\ thr'[u].id = q.id)
  /\ \A r \in archive : r \in archive' \/ (r.at \in doomed' /\ r \notin Rows(queue'))

LEMMA AsideDebt ==
  ASSUME TypeInv, DebtInv, NEW u \in Threads, Aside(u)
  PROVE  DebtInv'
<1> SUFFICES ASSUME NEW q \in Rows(queue') PROVE Debt(q)'
  BY DEF DebtInv
<1>1. full' = full /\ ids' = ids /\ \A w \in Threads : w # u => thr'[w] = thr[w]
  BY DEF Aside, Moved, saveVs
<1>2. CASE thr'[u].pc = "request" /\ thr'[u].id = q.id
  BY <1>2 DEF Debt
<1>3. CASE q \in Rows(queue)
  <2>1. Debt(q) /\ (q \in archive => q \in archive')
    BY <1>3 DEF DebtInv, Aside
  <2>2. \A t \in Threads : thr[t].pc = "request" \/ thr[t].pc \in Writing => thr'[t] = thr[t]
    BY <1>1 DEF Aside
  <2> QED BY <1>1, <2>1, <2>2 DEF Debt, Owes, Carries
<1> QED BY <1>2, <1>3 DEF Aside

LEMMA AsideSaver ==
  ASSUME TypeInv, TypeInv', SaverInv, NEW u \in Threads, Aside(u)
  PROVE  SaverInv'
<1> SUFFICES ASSUME NEW t \in Threads, Saves(t)' PROVE SaveSound(t)'
  BY DEF SaverInv
<1>1. /\ full' = full /\ ids' = ids /\ written' = written
      /\ \A w \in Threads : w # u => thr'[w] = thr[w]
      /\ doomed \subseteq doomed'
  BY DEF Aside, Moved, saveVs, Keeps
<1>2. CASE t = u
  BY <1>2 DEF Aside, Saves, SaveSound, Writing
<1>3. CASE t # u
  <2>1. thr'[t] = thr[t] /\ Saves(t) /\ SaveSound(t) /\ thr[t].at \notin doomed'
    BY <1>1, <1>3 DEF Saves, SaverInv
  <2>2. Queued(t)'
    <3>1. PICK q \in Rows(queue) : q.at = thr[t].at /\ q.id = thr[t].id /\ thr[t].ver <= q.ver
      BY <2>1 DEF SaveSound, Queued
    <3>2. PICK r \in Rows(queue') : r.at = q.at /\ r.id = q.id /\ q.ver <= r.ver
      BY <2>1, <3>1 DEF Aside, Keeps
    <3>3. thr[t].ver \in Nat /\ q.ver \in Nat /\ r.ver \in Nat
      <4>1. q \in Rec /\ r \in Rec
        <5>1. Ordered(queue')
          BY DEF TypeInv, RowsGood
        <5> QED BY <5>1, TypeFacts, OrderedRows
      <4> QED BY <4>1, TypeFacts, RecFields, ThreadFields
    <3>4. thr[t].ver <= r.ver
      BY <3>1, <3>2, <3>3
    <3> QED BY <2>1, <3>1, <3>2, <3>4 DEF Queued
  <2>3. Archived(t) => Archived(t)'
    BY <2>1 DEF Archived, Has, Aside
  <2>4. \A w \in Threads : thr[w].pc \in Writing => thr'[w] = thr[w]
    BY <1>1 DEF Aside
  <2>5. Carried(t) => Carried(t)'
    BY <1>1, <2>1, <2>4 DEF Carried, Carries, Has
  <2>6. \A w \in Threads : thr'[w].pc \in Writing => thr'[w] = thr[w]
    BY <1>1 DEF Aside
  <2>7. Waiting(t) => Waiting(t)'
    BY <1>1, <2>1, <2>6 DEF Waiting, Owes
  <2> QED BY <2>1, <2>2, <2>3, <2>5, <2>7 DEF SaveSound
<1> QED BY <1>2, <1>3

LEMMA AsideAcked ==
  ASSUME TypeInv, AckedIsArchived, NEW u \in Threads, Aside(u)
  PROVE  AckedIsArchived'
<1> SUFFICES ASSUME NEW a \in 1..MaxDrafts \ doomed', acked'[a] > 0
             PROVE  \E r \in archive' : r.at = a /\ r.ver >= acked'[a]
  BY DEF AckedIsArchived
<1>1. acked' = acked /\ a \notin doomed
  BY DEF Aside, Keeps
<1>2. PICK r \in archive : r.at = a /\ r.ver >= acked[a]
  BY <1>1 DEF AckedIsArchived
<1> QED BY <1>1, <1>2 DEF Aside

Operating == CreateBegin \/ CreateQueued \/ CreateSync \/ \E t \in Pool : OpStep(t)

LEMMA OperatingAside ==
  ASSUME NoLibrary, MaxDrafts <= Limit, Numbered, RemovalInv, [Next]_vars, ~CrashAndRestart, Operating
  PROVE  \E u \in Threads : Aside(u)
<1>0. TypeInv /\ OneCreator /\ Keeps
  BY StepKeeps DEF Numbered
<1>1. CASE CreateBegin
  <2>1. /\ Moved(Creator) /\ thr'[Creator].pc = "create" /\ thr[Creator].pc = "idle"
        /\ UNCHANGED << queue, saveVs, acked, archive >>
    BY <1>0, <1>1, CreatorThread, BeginThread DEF CreateBegin, ghosts, diskVs
  <2> QED BY <1>0, <2>1, CreatorThread DEF Aside, Writing
<1>2. CASE CreateQueued
  <2>1. /\ born < MaxDrafts /\ Enqueue(Creator, "create") /\ thr[Creator].pc = "create"
        /\ UNCHANGED << saveVs, acked, archive >>
    BY <1>2 DEF CreateQueued, ghosts, diskVs
  <2>2. /\ Moved(Creator) /\ thr'[Creator].pc = "request" /\ thr'[Creator].id = next
        /\ thr'[Creator].at = born + 1 /\ thr'[Creator].ver = 1
    BY <1>0, <2>1, CreatorThread, EnqueueRows
  <2>3. /\ Rows(queue') = Rows(queue) \union {NewDraft}
        /\ NewDraft.at = born + 1 /\ NewDraft.id = next /\ NewDraft.ver = 1
    BY <1>0, <1>2, CreateKeeps DEF NewDraft
  <2>4. Queued(Creator)'
    BY <2>2, <2>3 DEF Queued
  <2> QED BY <1>0, <2>1, <2>2, <2>3, <2>4, CreatorThread DEF Aside, Writing
<1>3. CASE CreateSync
  <2>1. /\ Moved(Creator) /\ thr'[Creator].pc = "idle" /\ thr[Creator].pc = "sync"
        /\ UNCHANGED << queue, saveVs, acked, archive >>
    BY <1>0, <1>3, CreatorThread, IdleAfter DEF CreateSync, ghosts, diskVs
  <2> QED BY <1>0, <2>1, CreatorThread DEF Aside, Writing
<1>4. ASSUME NEW t \in Pool, OpStep(t) PROVE Aside(t)
  <2>1. t \in Threads /\ ~LibraryRead(t) /\ ~LibraryCreate(t)
    BY <1>0, CreatorThread, NoLibraryOps DEF LibraryRead, LibraryCreate, OneCreator
  <2>2. ASSUME NEW i \in 1..Len(queue), Update(t, i) PROVE Aside(t)
    <3>1. PICK r \in Rec :
             /\ Rows(queue') = (Rows(queue) \ {queue[i]}) \union {r}
             /\ Moved(t) /\ thr'[t].pc = "request" /\ thr'[t].id = r.id
             /\ thr'[t].at = r.at /\ thr'[t].ver = r.ver
      BY <1>0, <2>1, <2>2, UpdateStep
    <3>2. thr[t].pc = "idle" /\ UNCHANGED << saveVs, acked, archive >>
      BY <2>2 DEF Update, ghosts, diskVs
    <3>3. r.ver <= r.ver
      BY RecFields
    <3>4. Queued(t)'
      BY <3>1, <3>3 DEF Queued
    <3> QED BY <1>0, <3>1, <3>2, <3>4 DEF Aside, Writing
  <2>3. ASSUME NEW id \in 1..MaxDrafts, DeleteQueued(t, id) PROVE Aside(t)
    <3>1. /\ Rows(queue') \subseteq Rows(queue) /\ Moved(t) /\ thr'[t].at = 0
          /\ thr'[t].pc \in {"request", "archive"}
      BY <1>0, <2>1, <2>3, DeleteStep
    <3>2. thr[t].pc = "idle" /\ UNCHANGED << saveVs, acked, archive >>
      BY <2>3 DEF DeleteQueued
    <3> QED BY <1>0, <3>1, <3>2 DEF Aside, Writing
  <2>4. ASSUME NEW op \in {"clear", "libclear", "wipe"}, Empty(t, op) PROVE Aside(t)
    <3>1. Rows(queue') = {} /\ Moved(t) /\ thr'[t].at = 0 /\ thr'[t].pc = "request"
      BY <1>0, <2>1, <2>4, EmptyStep
    <3>2. thr[t].pc = "idle" /\ UNCHANGED << saveVs, acked, archive >>
      BY <2>4 DEF Empty, diskVs
    <3> QED BY <1>0, <3>1, <3>2 DEF Aside, Writing
  <2>5. CASE DeleteArchived(t)
    <3>1. /\ thr[t].pc = "archive" /\ Moved(t) /\ thr'[t].pc = "idle"
          /\ archive' = { r \in archive : r.id # thr[t].id } /\ UNCHANGED << queue, saveVs, acked >>
          /\ doomed' = doomed
      BY <1>0, <2>1, <2>5, IdleAfter DEF DeleteArchived, memVs
    <3>2. thr[t].op = "delete"
      BY <1>0, <2>1, <3>1, TypeFacts DEF GoodThread
    <3>3. Deleting(t)
      BY <3>2 DEF RemovalInv
    <3>4. \A r \in archive : r \in archive' \/ (r.at \in doomed' /\ r \notin Rows(queue'))
      BY <3>1, <3>3 DEF Deleting, Live
    <3> QED BY <1>0, <3>1, <3>4 DEF Aside, Writing
  <2>6. CASE ClearArchive(t)
    <3>1. thr[t].op = "libclear"
      BY <1>0, <2>1, <2>6, TypeFacts DEF ClearArchive, GoodThread
    <3> QED BY <2>1, <3>1 DEF RemovalInv
  <2>7. CASE WipeJson(t)
    <3>1. /\ thr[t].pc = "wipeJson" /\ Moved(t) /\ thr'[t].pc = "wipeDb"
          /\ UNCHANGED << queue, saveVs, acked, archive >>
      BY <1>0, <2>1, <2>7, WipeJsonThread DEF WipeJson, memVs, ghosts
    <3> QED BY <1>0, <3>1 DEF Aside, Writing
  <2>8. CASE WipeDb(t)
    <3>1. /\ thr[t].pc = "wipeDb" /\ Moved(t) /\ thr'[t].pc = "idle"
          /\ UNCHANGED << queue, saveVs, acked, doomed >>
      BY <1>0, <2>1, <2>8, IdleAfter DEF WipeDb, memVs
    <3>2. thr[t].op = "wipe"
      BY <1>0, <2>1, <3>1, TypeFacts DEF GoodThread
    <3>3. Wiping
      BY <3>2 DEF RemovalInv
    <3>4. \A r \in archive : r.at \in doomed' /\ r \notin Rows(queue')
      BY <3>1, <3>3 DEF Wiping, Live
    <3> QED BY <1>0, <3>1, <3>4 DEF Aside, Writing
  <2> QED BY <1>4, <2>1, <2>2, <2>3, <2>4, <2>5, <2>6, <2>7, <2>8 DEF OpStep
<1> QED BY <1>1, <1>2, <1>3, <1>4, CreatorThread DEF Operating

\* A step of the save of thread t, which leaves the queue and the drafts to remove.
LEMMA SaveLeaves ==
  ASSUME NEW t \in Threads, SaveStep(t)
  PROVE  Rows(queue') = Rows(queue) /\ doomed' = doomed
BY DEF SaveStep, Request, Coalesce, Claim, Snapshot, Replace, ReplaceFails, Mirror, memVs, ghosts

\* Of the saves of the other threads only what is owed, carried and archived matters.
LEMMA OtherSaver ==
  ASSUME SaverInv, NEW t \in Threads, thr'[t] = thr[t],
         Rows(queue') = Rows(queue), doomed' = doomed,
         Saves(t) => /\ Archived(t) => Archived(t)'
                     /\ thr[t].pc = "enter" /\ Carried(t) => Archived(t)' \/ Carried(t)' \/ Waiting(t)'
                     /\ thr[t].pc = "enter" /\ Waiting(t) => Archived(t)' \/ Carried(t)' \/ Waiting(t)'
                     /\ thr[t].pc \in Writing /\ Carried(t) => Archived(t)' \/ Carried(t)'
  PROVE  Saves(t)' => SaveSound(t)'
<1> SUFFICES ASSUME Saves(t)' PROVE SaveSound(t)'
  OBVIOUS
<1>1. Saves(t) /\ SaveSound(t)
  BY DEF Saves, SaverInv
<1>2. Queued(t)'
  BY <1>1 DEF SaveSound, Queued
<1> QED BY <1>1, <1>2 DEF SaveSound

LEMMA SameArchived ==
  ASSUME NEW t \in Threads, SameWork(thr'[t], thr[t]), archive' = archive, Archived(t)
  PROVE  Archived(t)'
BY DEF Archived, SameWork

\* A save that goes on: its draft stays queued.
LEMMA StillQueued ==
  ASSUME SaverInv, NEW t \in Threads, SameWork(thr'[t], thr[t]), Saves(t)', doomed' = doomed,
         Rows(queue') = Rows(queue), thr[t].pc \in {"request", "enter"} \union Writing
  PROVE  Saves(t) /\ SaveSound(t) /\ Queued(t)'
<1>1. Saves(t) /\ SaveSound(t)
  BY DEF Saves, SaverInv, SameWork
<1> QED BY <1>1 DEF SaveSound, Queued, SameWork

SaveKept == DebtInv' /\ SaverInv'

LEMMA RequestSaves ==
  ASSUME TypeInv, DebtInv, SaverInv, NEW t \in Threads, Request(t)
  PROVE  SaveKept
<1>1. /\ Moved(t) /\ SameWork(thr'[t], thr[t]) /\ thr'[t].pc = "enter" /\ thr'[t].rev = request + 1
  BY RequestThread
<1>2. /\ thr[t].pc = "request" /\ Rows(queue') = Rows(queue) /\ doomed' = doomed
      /\ archive' = archive /\ written' = written
      /\ \/ thr[t].id = 0 /\ full' = TRUE /\ ids' = ids
         \/ thr[t].id # 0 /\ full' = full /\ ids' = ids \union {thr[t].id}
  BY DEF Request, memVs, diskVs, ghosts
<1>3. /\ \A w \in Threads : w # t => thr'[w] = thr[w]
      /\ \A w \in Threads : thr[w].pc \in Writing => thr'[w] = thr[w]
      /\ \A w \in Threads : thr'[w].pc \in Writing => thr'[w] = thr[w]
  BY <1>1, <1>2 DEF Moved, Writing
<1>4. \A id : (Owes(id) => Owes(id)') /\ (thr[t].id \in {0, id} => Owes(id)')
  BY <1>2 DEF Owes
<1>5. DebtInv'
  <2> SUFFICES ASSUME NEW q \in Rows(queue') PROVE Debt(q)'
    BY DEF DebtInv
  <2>1. Debt(q)
    BY <1>2 DEF DebtInv
  <2>2. ASSUME NEW w \in Threads, Carries(w, q.id), thr[w].pc = "snapshot" \/ q \in Rows(thr[w].snap)
        PROVE  Debt(q)'
    BY <1>3, <2>2 DEF Debt, Carries
  <2>3. ASSUME NEW w \in Threads, thr[w].pc = "request", thr[w].id \in {0, q.id} PROVE Debt(q)'
    BY <1>3, <1>4, <2>3 DEF Debt
  <2> QED BY <1>2, <1>4, <2>1, <2>2, <2>3 DEF Debt
<1>6. ASSUME NEW s \in Threads PROVE Saves(s)' => SaveSound(s)'
  <2>1. CASE s # t
    <3>1. thr'[s] = thr[s]
      BY <1>3, <2>1
    <3>2. Archived(s) => Archived(s)'
      BY <1>2, <3>1 DEF Archived
    <3>3. Carried(s) => Carried(s)'
      BY <1>2, <1>3, <3>1 DEF Carried, Carries, Has
    <3>4. Waiting(s) => Waiting(s)'
      BY <1>2, <1>3, <1>4, <3>1 DEF Waiting
    <3> QED BY <1>2, <3>1, <3>2, <3>3, <3>4, OtherSaver
  <2>2. CASE s = t
    <3> SUFFICES ASSUME Saves(t)' PROVE SaveSound(t)'
      BY <2>2
    <3>1. Queued(t)'
      BY <1>1, <1>2, StillQueued
    <3>2. written < request + 1 /\ \A w \in Threads : thr[w].upto < request + 1
      BY TypeFacts
    <3>3. Waiting(t)'
      BY <1>1, <1>2, <1>3, <1>4, <3>2 DEF Waiting, SameWork
    <3> QED BY <1>1, <3>1, <3>3 DEF SaveSound, Writing
  <2> QED BY <2>1, <2>2
<1> QED BY <1>5, <1>6 DEF SaveKept, SaverInv

\* Nobody writes while the lock is free.
LEMMA NobodyWrites ==
  ASSUME TypeInv, writer = None
  PROVE  \A w \in Threads : thr[w].pc \notin Writing
BY DraftStoreAssumption DEF TypeInv, LockGood

LEMMA ClaimSaves ==
  ASSUME TypeInv, DebtInv, SaverInv, NEW t \in Threads, Claim(t)
  PROVE  SaveKept
<1>1. /\ Moved(t) /\ SameWork(thr'[t], thr[t]) /\ thr'[t].pc = "snapshot"
      /\ thr'[t].rev = thr[t].rev /\ thr'[t].all = full
      /\ thr'[t].owed = (IF full THEN {} ELSE ids)
  BY ClaimThread
<1>2. /\ thr[t].pc = "enter" /\ Rows(queue') = Rows(queue) /\ doomed' = doomed
      /\ archive' = archive /\ written' = written
      /\ \A w \in Threads : thr[w].pc \notin Writing
  BY NobodyWrites DEF Claim, memVs, diskVs, ghosts
<1>3. \A w \in Threads : w # t => thr'[w] = thr[w]
  BY <1>1 DEF Moved
<1>4. \A id : Owes(id) => Carries(t, id)'
  BY <1>1 DEF Owes, Carries, Writing
<1>5. DebtInv'
  <2> SUFFICES ASSUME NEW q \in Rows(queue') PROVE Debt(q)'
    BY DEF DebtInv
  <2>1. q \in archive \/ Owes(q.id) \/ \E w \in Threads : thr[w].pc = "request" /\ thr[w].id \in {0, q.id}
    BY <1>2 DEF DebtInv, Debt, Carries
  <2>2. ASSUME NEW w \in Threads, thr[w].pc = "request", thr[w].id \in {0, q.id} PROVE Debt(q)'
    BY <1>2, <1>3, <2>2 DEF Debt
  <2> QED BY <1>1, <1>2, <1>4, <2>1, <2>2 DEF Debt
<1>w. \A s \in Threads : ~ Carried(s)
  BY <1>2 DEF Carried, Carries
<1>6. ASSUME NEW s \in Threads, thr'[s].id = thr[s].id, thr'[s].rev = thr[s].rev, Waiting(s)
      PROVE  Carried(s)'
  BY <1>1, <1>2, <1>4, <1>6 DEF Waiting, Carried
<1>7. ASSUME NEW s \in Threads PROVE Saves(s)' => SaveSound(s)'
  <2>1. CASE s # t
    <3>1. thr'[s] = thr[s]
      BY <1>3, <2>1
    <3>2. Archived(s) => Archived(s)'
      BY <1>2, <3>1 DEF Archived
    <3> QED BY <1>2, <1>6, <1>w, <3>1, <3>2, OtherSaver
  <2>2. CASE s = t
    <3> SUFFICES ASSUME Saves(t)' PROVE SaveSound(t)'
      BY <2>2
    <3>1. SaveSound(t) /\ Queued(t)'
      BY <1>1, <1>2, StillQueued
    <3>2. Archived(t)' \/ Carried(t)'
      BY <1>1, <1>2, <1>6, <1>w, <3>1, SameArchived DEF SaveSound, SameWork
    <3> QED BY <1>1, <3>1, <3>2 DEF SaveSound
  <2> QED BY <2>1, <2>2
<1> QED BY <1>5, <1>7 DEF SaveKept, SaverInv

LEMMA OneWriter ==
  ASSUME TypeInv, NEW t \in Threads, thr[t].pc \in Writing
  PROVE  \A w \in Threads : thr[w].pc \in Writing => w = t
BY DEF TypeInv, LockGood

\* The writer goes on, with the debt it took.
LEMMA WriterGoesOn ==
  ASSUME TypeInv, DebtInv, SaverInv, NEW t \in Threads, Moved(t), SameWork(thr'[t], thr[t]),
         thr[t].pc \in Writing, thr'[t].pc \in {"replace", "mirror"},
         thr'[t].rev = thr[t].rev, thr'[t].upto = thr[t].upto,
         thr'[t].all = thr[t].all, thr'[t].owed = thr[t].owed,
         Rows(queue') = Rows(queue), doomed' = doomed, archive' = archive,
         full' = full, ids' = ids,
         \A q \in Rows(queue) :
           thr[t].pc = "snapshot" \/ q \in Rows(thr[t].snap) => q \in Rows(thr'[t].snap),
         \A s \in Threads :
           /\ Queued(s) /\ (thr[t].pc = "snapshot" \/ Has(Rows(thr[t].snap), thr[s].at, thr[s].ver))
                => Has(Rows(thr'[t].snap), thr[s].at, thr[s].ver)
           /\ written < thr[s].rev /\ thr[t].upto < thr[s].rev => written' < thr[s].rev,
         thr'[t].pc = "mirror" => thr[t].pc # "snapshot",
         thr'[t].pc # "mirror" => thr[t].pc # "mirror" /\ written' = written
  PROVE  SaveKept
<1>1. /\ \A w \in Threads : w # t => thr'[w] = thr[w]
      /\ \A w \in Threads : thr[w].pc \in Writing => w = t
      /\ \A w \in Threads : thr'[w].pc \in Writing => w = t
      /\ thr'[t].pc \in Writing
  BY OneWriter DEF Moved, Writing
<1>2. \A id : Carries(t, id) => Carries(t, id)'
  BY <1>1 DEF Carries
<1>3. DebtInv'
  <2> SUFFICES ASSUME NEW q \in Rows(queue') PROVE Debt(q)'
    BY DEF DebtInv
  <2>1. Debt(q)
    BY DEF DebtInv
  <2>2. ASSUME NEW w \in Threads, thr[w].pc = "request", thr[w].id \in {0, q.id} PROVE Debt(q)'
    BY <1>1, <2>2 DEF Debt, Writing
  <2>3. ASSUME NEW w \in Threads, Carries(w, q.id), thr[w].pc = "snapshot" \/ q \in Rows(thr[w].snap)
        PROVE  Debt(q)'
    <3>1. w = t
      BY <1>1, <2>3 DEF Carries
    <3> QED BY <1>2, <2>3, <3>1 DEF Debt
  <2> QED BY <2>1, <2>2, <2>3 DEF Debt, Owes
<1>4. \A s \in Threads : SameWork(thr'[s], thr[s]) /\ thr'[s].rev = thr[s].rev
  BY <1>1 DEF SameWork
<1>5. ASSUME NEW s \in Threads, Queued(s), Carried(s) PROVE Carried(s)'
  <2>1. /\ Carries(t, thr[s].id)
        /\ thr[t].pc # "mirror" => written < thr[s].rev
        /\ thr[t].pc = "snapshot" \/ Has(Rows(thr[t].snap), thr[s].at, thr[s].ver)
    BY <1>1, <1>5 DEF Carried, Carries
  <2>2. Carries(t, thr[s].id)' /\ (thr'[t].pc # "mirror" => written' < thr'[s].rev)
    <3>1. thr'[s].id = thr[s].id /\ thr'[s].rev = thr[s].rev
      BY <1>4 DEF SameWork
    <3> QED BY <1>1, <2>1, <3>1 DEF Carries
  <2>3. Has(Rows(thr'[t].snap), thr'[s].at, thr'[s].ver)
    BY <1>4, <1>5, <2>1 DEF SameWork
  <2> QED BY <2>2, <2>3 DEF Carried
<1>6. ASSUME NEW s \in Threads, Waiting(s) PROVE Waiting(s)'
  <2>1. thr'[s].id = thr[s].id /\ thr'[s].rev = thr[s].rev
    BY <1>4 DEF SameWork
  <2>2. written < thr[s].rev /\ thr[t].upto < thr[s].rev
    BY <1>6 DEF Waiting
  <2> QED BY <1>1, <1>6, <2>1, <2>2 DEF Waiting, Owes
<1>7. ASSUME NEW s \in Threads PROVE Saves(s)' => SaveSound(s)'
  <2> SUFFICES ASSUME Saves(s)' PROVE SaveSound(s)'
    OBVIOUS
  <2>1. thr[s].pc \in {"request", "enter"} \union Writing
    BY <1>1 DEF Saves
  <2>2. Saves(s) /\ SaveSound(s) /\ Queued(s)'
    BY <1>4, <2>1, StillQueued
  <2>3. Queued(s)
    BY <2>2 DEF SaveSound
  <2>4. thr'[s].pc \in Writing <=> thr[s].pc \in Writing
    BY <1>1
  <2>5. thr'[s].pc = "enter" => thr[s].pc = "enter"
    BY <1>1 DEF Writing
  <2> QED BY <1>4, <1>5, <1>6, <2>2, <2>3, <2>4, <2>5, SameArchived DEF SaveSound
<1> QED BY <1>3, <1>7 DEF SaveKept, SaverInv

LEMMA SnapshotSaves ==
  ASSUME TypeInv, DebtInv, SaverInv, NEW t \in Threads, Snapshot(t)
  PROVE  SaveKept
<1>1. /\ Moved(t) /\ SameWork(thr'[t], thr[t]) /\ thr'[t].pc = "replace"
      /\ thr'[t].rev = thr[t].rev /\ thr'[t].upto = thr[t].upto
      /\ thr'[t].all = thr[t].all /\ thr'[t].owed = thr[t].owed
      /\ thr'[t].snap = queue
  BY SnapshotThread
<1>2. /\ thr[t].pc = "snapshot" /\ queue' = queue /\ doomed' = doomed /\ archive' = archive
      /\ full' = full /\ ids' = ids /\ written' = written
  BY DEF Snapshot, memVs, saveVs, diskVs, ghosts
<1>3. \A s \in Threads : Queued(s) => Has(Rows(thr'[t].snap), thr[s].at, thr[s].ver)
  BY <1>1 DEF Queued, Has
<1>4. thr[t].pc \in Writing /\ thr'[t].pc \in {"replace", "mirror"} /\ Rows(queue') = Rows(queue)
  BY <1>1, <1>2 DEF Writing
<1> QED BY <1>1, <1>2, <1>3, <1>4, WriterGoesOn

LEMMA ReplaceSaves ==
  ASSUME TypeInv, DebtInv, SaverInv, NEW t \in Threads, Replace(t)
  PROVE  SaveKept
<1>1. /\ Moved(t) /\ SameWork(thr'[t], thr[t]) /\ thr'[t].pc = "mirror"
      /\ thr'[t].rev = thr[t].rev /\ thr'[t].upto = thr[t].upto
      /\ thr'[t].all = thr[t].all /\ thr'[t].owed = thr[t].owed
      /\ thr'[t].snap = thr[t].snap
  BY ReplaceThread
<1>2. /\ thr[t].pc = "replace" /\ queue' = queue /\ doomed' = doomed /\ archive' = archive
      /\ full' = full /\ ids' = ids
      /\ written' = written \/ written' = thr[t].upto
  BY DEF Replace, memVs, ghosts
<1>4. thr[t].pc \in Writing /\ thr'[t].pc \in {"replace", "mirror"} /\ Rows(queue') = Rows(queue)
  BY <1>1, <1>2 DEF Writing
<1> QED BY <1>1, <1>2, <1>4, WriterGoesOn

\* A save that returns has nothing more to write.
LEMMA SaveReturns ==
  ASSUME TypeInv, NEW t \in Threads, thr[t].pc \in {"enter", "replace", "mirror"},
         NEW removed, removed = {} \/ removed = thr[t].victims, AfterSave(t, removed)
  PROVE  /\ thr'[t].pc \notin {"request", "enter"} \union Writing /\ ~Saves(t)'
         /\ \A w \in Threads : w # t => thr'[w] = thr[w]
<1>1. Moved(t) /\ thr'[t].pc \in {"idle", "sync", "archive", "clearArchive", "wipeJson"}
  BY AfterSaveThread
<1> QED BY <1>1 DEF Moved, Saves, Writing

\* The writer that fails gives back the debt it took.
LEMMA ReplaceFailsSaves ==
  ASSUME TypeInv, DebtInv, SaverInv, NEW t \in Threads, ReplaceFails(t)
  PROVE  SaveKept
<1>1. /\ thr[t].pc = "replace" /\ Rearm(t) /\ AfterSave(t, {}) /\ Rows(queue') = Rows(queue)
      /\ doomed' = doomed /\ archive' = archive /\ written' = written
  BY DEF ReplaceFails, memVs, diskVs
<1>2. /\ thr'[t].pc \notin {"request", "enter"} \union Writing /\ ~Saves(t)'
      /\ \A w \in Threads : w # t => thr'[w] = thr[w]
  BY <1>1, SaveReturns
<1>3. /\ \A w \in Threads : thr[w].pc \in Writing => w = t
      /\ \A w \in Threads : thr'[w].pc \notin Writing
  <2>1. \A w \in Threads : thr[w].pc \in Writing => w = t
    BY <1>1, OneWriter DEF Writing
  <2> QED BY <1>2, <2>1
<1>4. \A id : (Owes(id) => Owes(id)') /\ (Carries(t, id) => Owes(id)')
  BY <1>1 DEF Owes, Carries, Rearm
<1>5. DebtInv'
  <2> SUFFICES ASSUME NEW q \in Rows(queue') PROVE Debt(q)'
    BY DEF DebtInv
  <2>1. Debt(q)
    BY <1>1 DEF DebtInv
  <2>2. ASSUME NEW w \in Threads, thr[w].pc = "request", thr[w].id \in {0, q.id} PROVE Debt(q)'
    BY <1>1, <1>2, <2>2 DEF Debt
  <2>3. \A w \in Threads : Carries(w, q.id) => Owes(q.id)'
    BY <1>3, <1>4 DEF Carries
  <2> QED BY <1>1, <1>4, <2>1, <2>2, <2>3 DEF Debt
<1>6. ASSUME NEW s \in Threads PROVE Saves(s)' => SaveSound(s)'
  <2>1. CASE s # t
    <3>1. thr'[s] = thr[s] /\ thr[s].pc \notin Writing
      BY <1>2, <1>3, <2>1
    <3>2. Archived(s) => Archived(s)'
      BY <1>1, <3>1 DEF Archived
    <3>3. Carried(s) => Waiting(s)'
      BY <1>1, <1>3, <1>4, <3>1 DEF Carried, Carries, Waiting
    <3>4. Waiting(s) => Waiting(s)'
      BY <1>1, <1>3, <1>4, <3>1 DEF Waiting
    <3> QED BY <1>1, <3>1, <3>2, <3>3, <3>4, OtherSaver
  <2> QED BY <1>2, <2>1
<1> QED BY <1>5, <1>6 DEF SaveKept, SaverInv

\* A save that returns without an error is told of what the archive has.
LEMMA AckedKept ==
  ASSUME TypeInv, TypeInv', AckedIsArchived, NEW t \in Threads, Acknowledge(t), doomed' = doomed,
         thr[t].at # 0 /\ thr[t].at \notin doomed => Has(archive', thr[t].at, thr[t].ver),
         \A r \in archive : \E n \in archive' : n.at = r.at /\ r.ver <= n.ver
  PROVE  AckedIsArchived'
<1> SUFFICES ASSUME NEW a \in 1..MaxDrafts \ doomed', acked'[a] > 0
             PROVE  \E r \in archive' : r.at = a /\ r.ver >= acked'[a]
  BY DEF AckedIsArchived
<1>1. archive \subseteq Rec /\ archive' \subseteq Rec /\ acked \in [1..MaxDrafts -> 0..MaxVersion]
  BY TypeFacts DEF TypeInv, RowsGood
<1>2. CASE acked'[a] = acked[a]
  <2>1. PICK r \in archive : r.at = a /\ r.ver >= acked[a]
    BY <1>2 DEF AckedIsArchived
  <2>2. PICK n \in archive' : n.at = r.at /\ r.ver <= n.ver
    OBVIOUS
  <2>3. r.ver \in Nat /\ n.ver \in Nat /\ acked[a] \in Nat
    BY <1>1, RecFields, DraftStoreAssumption
  <2>4. n.ver >= acked[a]
    BY <2>1, <2>2, <2>3
  <2> QED BY <1>2, <2>1, <2>2, <2>4
<1>3. CASE thr[t].at # 0 /\ thr[t].at = a /\ acked'[a] = thr[t].ver
  <2>1. PICK r \in archive' : r.at = a /\ thr[t].ver <= r.ver
    BY <1>3 DEF Has
  <2> QED BY <1>3, <2>1
<1>4. acked'[a] = acked[a] \/ (thr[t].at # 0 /\ thr[t].at = a /\ acked'[a] = thr[t].ver)
  BY <1>1 DEF Acknowledge
<1> QED BY <1>2, <1>3, <1>4

\* A save that a newer flush covered finds its draft archived.
LEMMA CoalesceSaves ==
  ASSUME TypeInv, TypeInv', DebtInv, SaverInv, AckedIsArchived, NEW t \in Threads, Coalesce(t)
  PROVE  SaveKept /\ AckedIsArchived'
<1>1. /\ thr[t].pc = "enter" /\ Covered(t) /\ AfterSave(t, thr[t].victims) /\ Acknowledge(t)
      /\ writer = None /\ queue' = queue /\ doomed' = doomed /\ archive' = archive
      /\ full' = full /\ ids' = ids /\ written' = written
  BY DEF Coalesce, memVs, saveVs, diskVs
<1>2. /\ thr'[t].pc \notin {"request", "enter"} \union Writing /\ ~Saves(t)'
      /\ \A w \in Threads : w # t => thr'[w] = thr[w]
  BY <1>1, SaveReturns
<1>3. /\ \A w \in Threads : thr[w].pc \notin Writing
      /\ \A w \in Threads : thr'[w].pc \notin Writing
  <2>1. \A w \in Threads : thr[w].pc \notin Writing
    BY <1>1, NobodyWrites
  <2> QED BY <1>2, <2>1
<1>4. \A s \in Threads : ~Carried(s)
  BY <1>3 DEF Carried, Carries
<1>5. DebtInv'
  <2> SUFFICES ASSUME NEW q \in Rows(queue') PROVE Debt(q)'
    BY DEF DebtInv
  <2>1. q \in archive \/ Owes(q.id) \/ \E w \in Threads : thr[w].pc = "request" /\ thr[w].id \in {0, q.id}
    BY <1>1, <1>3 DEF DebtInv, Debt, Carries
  <2>2. ASSUME NEW w \in Threads, thr[w].pc = "request", thr[w].id \in {0, q.id} PROVE Debt(q)'
    BY <1>1, <1>2, <2>2 DEF Debt
  <2> QED BY <1>1, <2>1, <2>2 DEF Debt, Owes
<1>6. ASSUME NEW s \in Threads PROVE Saves(s)' => SaveSound(s)'
  <2>1. CASE s # t
    <3>1. thr'[s] = thr[s]
      BY <1>2, <2>1
    <3>2. Archived(s) => Archived(s)'
      BY <1>1, <3>1 DEF Archived
    <3>4. Waiting(s) => Waiting(s)'
      BY <1>1, <1>3, <3>1 DEF Waiting, Owes
    <3> QED BY <1>1, <1>4, <3>1, <3>2, <3>4, OtherSaver
  <2> QED BY <1>2, <2>1
<1>7. thr[t].at # 0 /\ thr[t].at \notin doomed => Has(archive', thr[t].at, thr[t].ver)
  <2> SUFFICES ASSUME thr[t].at # 0, thr[t].at \notin doomed PROVE Has(archive', thr[t].at, thr[t].ver)
    OBVIOUS
  <2>1. SaveSound(t)
    BY <1>1 DEF SaverInv, Saves
  <2>2. ~Waiting(t)
    <3>1. written >= thr[t].rev /\ written \in Nat /\ thr[t].rev \in Nat
      BY <1>1, TypeFacts DEF Covered
    <3>2. ~(written < thr[t].rev)
      BY <3>1
    <3> QED BY <3>2 DEF Waiting
  <2> QED BY <1>1, <1>4, <2>1, <2>2 DEF SaveSound, Archived
<1>8. \A r \in archive : \E n \in archive' : n.at = r.at /\ r.ver <= n.ver
  <2>1. \A r \in archive : r.ver <= r.ver
    BY TypeFacts, RecFields
  <2> QED BY <1>1, <2>1
<1> QED BY <1>1, <1>5, <1>6, <1>7, <1>8, AckedKept DEF SaveKept, SaverInv

\* Where no id occurs twice every row is the last with its id.
LEMMA LastRowsAll ==
  ASSUME NEW s, Ordered(s), Grows(Rows(s))
  PROVE  LastRows(s) = Rows(s)
<1>1. /\ s \in Seq(Rec) /\ Len(s) \in Nat
      /\ \A r : r \in Rows(s) <=> \E i \in 1..Len(s) : s[i] = r
  BY RowsOf DEF Ordered
<1>2. LastRows(s) \subseteq Rows(s)
  BY <1>1, LastRowsIn
<1>3. ASSUME NEW j \in 1..Len(s), NEW k \in (j + 1)..Len(s) PROVE s[k].id # s[j].id
  <2>1. k \in 1..Len(s) /\ j < k
    BY <1>1
  <2>2. s[j] \in Rows(s) /\ s[k] \in Rows(s) /\ s[j].at < s[k].at
    BY <1>1, <2>1 DEF Ordered
  <2>3. s[j].id < s[k].id
    BY <2>2 DEF Grows
  <2>4. s[j].id \in Nat /\ s[k].id \in Nat
    BY <2>2, RowsOf, RecFields DEF Ordered
  <2> QED BY <2>3, <2>4
<1>4. Rows(s) \subseteq LastRows(s)
  BY <1>1, <1>3 DEF LastRows
<1> QED BY <1>2, <1>4

\* The mirror takes no version back, leaves the queue's rows where they are archived,
\* and archives what its writer carries.
LEMMA MirrorKeeps ==
  ASSUME ~MirrorMayFail, Numbered, NEW t \in Threads, Mirror(t)
  PROVE  /\ \A r \in archive : \E n \in archive' : n.at = r.at /\ r.ver <= n.ver
         /\ \A r \in Rows(thr[t].snap) : thr[t].all \/ r.id \in thr[t].owed => r \in archive'
         /\ \A r \in Rows(queue) : r \in archive => r \in archive'
<1>1. /\ TypeInv /\ OneId /\ AheadOfArchive /\ IdsGrow
      /\ thr[t].pc = "mirror" /\ archive' = Upsert(archive, Mirrored(t))
  BY DEF Numbered, Mirror
<1>2. Held = Rows(thr[t].snap) /\ Ordered(thr[t].snap) /\ Grows(Held)
  <2>1. Held = Rows(thr[t].snap) /\ Ordered(thr[t].snap)
    BY <1>1, HeldFacts, TypeFacts DEF Writing
  <2>2. Held \subseteq Live
    BY DEF Live
  <2> QED BY <1>1, <2>1, <2>2, GrowsPart DEF IdsGrow
<1>3. Mirrored(t) = { r \in Held : thr[t].all \/ r.id \in thr[t].owed }
  BY <1>2, LastRowsAll DEF Mirrored
<1>4. archive' = { r \in archive : \A n \in Mirrored(t) : n.id # r.id } \union Mirrored(t)
  BY <1>1 DEF Upsert
<1>5. ASSUME NEW r \in archive, NEW n \in Mirrored(t), n.id = r.id
      PROVE  n \in Held /\ n.at = r.at /\ r.ver <= n.ver
  <2>1. n \in Held /\ n \in Live /\ r \in Live
    BY <1>3 DEF Live
  <2>2. n.at = r.at
    BY <1>1, <1>5, <2>1, LiveIds
  <2> QED BY <1>1, <2>1, <2>2 DEF AheadOfArchive
<1>6. \A r \in archive : r.ver <= r.ver
  BY <1>1, TypeFacts, RecFields
<1>7. ASSUME NEW r \in archive PROVE \E n \in archive' : n.at = r.at /\ r.ver <= n.ver
  BY <1>4, <1>5, <1>6
<1>8. \A r \in Rows(thr[t].snap) : thr[t].all \/ r.id \in thr[t].owed => r \in archive'
  BY <1>2, <1>3, <1>4
<1>9. ASSUME NEW r \in Rows(queue), r \in archive PROVE r \in archive'
  <2>1. ASSUME NEW n \in Mirrored(t), n.id = r.id PROVE n = r
    <3>1. n \in Held /\ n.at = r.at /\ r.ver <= n.ver
      BY <1>5, <1>9, <2>1
    <3>2. n.ver <= r.ver
      BY <1>1, <3>1 DEF AheadOfArchive
    <3>3. n \in Rec /\ r \in Rec
      BY <1>1, <3>1, HeldFacts, TypeFacts
    <3>4. n.ver = r.ver
      BY <3>1, <3>2, <3>3, RecFields
    <3> QED BY <2>1, <3>1, <3>3, <3>4 DEF Rec
  <2> QED BY <1>4, <1>9, <2>1
<1> QED BY <1>7, <1>8, <1>9

LEMMA MirrorSaves ==
  ASSUME ~MirrorMayFail, Numbered, TypeInv', DebtInv, SaverInv, AckedIsArchived,
         NEW t \in Threads, Mirror(t)
  PROVE  SaveKept /\ AckedIsArchived'
<1>1. /\ thr[t].pc = "mirror" /\ AfterSave(t, thr[t].victims) /\ Acknowledge(t)
      /\ queue' = queue /\ doomed' = doomed /\ full' = full /\ ids' = ids /\ written' = written
  BY DEF Mirror, memVs, saveVs
<1>0. TypeInv /\ OneId
  BY DEF Numbered
<1>2. /\ thr'[t].pc \notin {"request", "enter"} \union Writing /\ ~Saves(t)'
      /\ \A w \in Threads : w # t => thr'[w] = thr[w]
  BY <1>0, <1>1, SaveReturns
<1>3. /\ \A w \in Threads : thr[w].pc \in Writing => w = t
      /\ \A w \in Threads : thr'[w].pc \notin Writing
  <2>1. \A w \in Threads : thr[w].pc \in Writing => w = t
    BY <1>0, <1>1, OneWriter DEF Writing
  <2> QED BY <1>2, <2>1
<1>4. /\ \A r \in archive : \E n \in archive' : n.at = r.at /\ r.ver <= n.ver
      /\ \A r \in Rows(thr[t].snap) : thr[t].all \/ r.id \in thr[t].owed => r \in archive'
      /\ \A r \in Rows(queue) : r \in archive => r \in archive'
  BY MirrorKeeps
<1>5. DebtInv'
  <2> SUFFICES ASSUME NEW q \in Rows(queue') PROVE Debt(q)'
    BY DEF DebtInv
  <2>1. Debt(q) /\ q \in Rows(queue)
    BY <1>1 DEF DebtInv
  <2>2. ASSUME NEW w \in Threads, thr[w].pc = "request", thr[w].id \in {0, q.id} PROVE Debt(q)'
    BY <1>1, <1>2, <2>2 DEF Debt
  <2>3. ASSUME NEW w \in Threads, Carries(w, q.id), thr[w].pc = "snapshot" \/ q \in Rows(thr[w].snap)
        PROVE  Debt(q)'
    <3>1. w = t
      BY <1>3, <2>3 DEF Carries
    <3>2. q \in archive'
      BY <1>1, <1>4, <2>3, <3>1 DEF Carries
    <3> QED BY <3>2 DEF Debt
  <2> QED BY <1>1, <1>4, <2>1, <2>2, <2>3 DEF Debt, Owes
<1>6. ASSUME NEW s \in Threads, Archived(s) PROVE Has(archive', thr[s].at, thr[s].ver)
  <2>1. PICK r \in archive : r.at = thr[s].at /\ thr[s].ver <= r.ver
    BY <1>6 DEF Archived, Has
  <2>2. PICK n \in archive' : n.at = r.at /\ r.ver <= n.ver
    BY <1>4
  <2>3. thr[s].ver \in Nat /\ r.ver \in Nat /\ n.ver \in Nat
    <3>1. r \in Rec /\ n \in Rec
      BY <1>0, TypeFacts DEF TypeInv, RowsGood
    <3> QED BY <1>0, <3>1, TypeFacts, RecFields, ThreadFields
  <2>4. thr[s].ver <= n.ver
    BY <2>1, <2>2, <2>3
  <2> QED BY <2>1, <2>2, <2>4 DEF Has
<1>7. ASSUME NEW s \in Threads, Queued(s), Carried(s) PROVE Has(archive', thr[s].at, thr[s].ver)
  <2>1. Carries(t, thr[s].id) /\ Has(Rows(thr[t].snap), thr[s].at, thr[s].ver)
    BY <1>1, <1>3, <1>7 DEF Carried, Carries
  <2>2. PICK r \in Rows(thr[t].snap) : r.at = thr[s].at /\ thr[s].ver <= r.ver
    BY <2>1 DEF Has
  <2>3. PICK q \in Rows(queue) : q.at = thr[s].at /\ q.id = thr[s].id
    BY <1>7 DEF Queued
  <2>4. q \in Everywhere /\ r \in Everywhere
    <3>1. Held = Rows(thr[t].snap)
      BY <1>0, <1>1, HeldFacts DEF Writing
    <3> QED BY <3>1 DEF Everywhere
  <2>5. r.id = thr[s].id
    BY <1>0, <2>2, <2>3, <2>4 DEF OneId
  <2>6. r \in archive'
    BY <1>4, <2>1, <2>5 DEF Carries
  <2> QED BY <2>2, <2>6 DEF Has
<1>8. ASSUME NEW s \in Threads PROVE Saves(s)' => SaveSound(s)'
  <2>1. CASE s # t
    <3>1. thr'[s] = thr[s] /\ thr[s].pc \notin Writing
      BY <1>2, <1>3, <2>1
    <3>2. Archived(s) => Archived(s)'
      BY <1>6, <3>1 DEF Archived
    <3>3. Saves(s) /\ Carried(s) => Archived(s)'
      BY <1>7, <3>1 DEF Archived, SaverInv, SaveSound
    <3>4. Waiting(s) => Waiting(s)'
      BY <1>1, <1>3, <3>1 DEF Waiting, Owes
    <3> QED BY <1>1, <3>1, <3>2, <3>3, <3>4, OtherSaver
  <2> QED BY <1>2, <2>1
<1>9. thr[t].at # 0 /\ thr[t].at \notin doomed => Has(archive', thr[t].at, thr[t].ver)
  <2> SUFFICES ASSUME thr[t].at # 0, thr[t].at \notin doomed PROVE Has(archive', thr[t].at, thr[t].ver)
    OBVIOUS
  <2>1. SaveSound(t) /\ thr[t].pc \in Writing
    BY <1>1 DEF SaverInv, Saves, Writing
  <2> QED BY <1>6, <1>7, <2>1 DEF SaveSound
<1> QED BY <1>0, <1>1, <1>4, <1>5, <1>8, <1>9, AckedKept DEF SaveKept, SaverInv

\* A restart forgets what was owed: it loads the archive, or the file into it.
LEMMA CrashSaves ==
  ASSUME TypeInv, IdsGrow, AckedIsArchived, CrashAndRestart
  PROVE  SaveKept /\ AckedIsArchived'
<1>1. /\ queue' = Loaded /\ acked' = acked /\ doomed' = doomed
      /\ archive' = (IF LoadsJson THEN Upsert(archive, LastRows(json)) ELSE archive)
      /\ \A w \in Threads : thr'[w] = Idle
  BY DEF CrashAndRestart, ghosts
<1>2. SaverInv'
  BY <1>1, IdleThread DEF SaverInv, Saves, Writing
<1>3. CASE LoadsJson
  <2>1. Loaded = json /\ Ordered(json) /\ Rows(json) = OnFile /\ archive = {}
    BY <1>3, LoadedRows
  <2>2. LastRows(json) = Rows(json)
    BY <2>1, LastRowsAll DEF IdsGrow
  <2>3. Rows(queue') = archive'
    BY <1>1, <1>3, <2>1, <2>2 DEF Upsert
  <2>4. DebtInv'
    BY <2>3 DEF DebtInv, Debt
  <2>5. AckedIsArchived'
    BY <1>1, <2>1 DEF AckedIsArchived
  <2> QED BY <1>2, <2>4, <2>5 DEF SaveKept
<1>4. CASE ~LoadsJson
  <2>1. archive' = archive /\ Rows(queue') \subseteq archive
    BY <1>1, <1>4, LoadedRows
  <2>2. DebtInv'
    BY <2>1 DEF DebtInv, Debt
  <2>3. AckedIsArchived'
    BY <1>1, <2>1 DEF AckedIsArchived
  <2> QED BY <1>2, <2>2, <2>3 DEF SaveKept
<1> QED BY <1>3, <1>4

LEMMA SurvivalStep ==
  ASSUME NoLibrary, ~MirrorMayFail, MaxDrafts <= Limit, Numbered, TypeInv', RemovalInv,
         DebtInv, SaverInv, AckedIsArchived, [Next]_vars
  PROVE  SaveKept /\ AckedIsArchived'
<1>0. TypeInv /\ IdsGrow
  BY DEF Numbered
<1>1. CASE ~CrashAndRestart /\ Operating
  <2>1. PICK u \in Threads : Aside(u)
    BY <1>1, OperatingAside
  <2> QED BY <1>0, <2>1, AsideDebt, AsideSaver, AsideAcked DEF SaveKept
<1>2. ASSUME NEW t \in Threads, SaveStep(t) PROVE SaveKept /\ AckedIsArchived'
  <2>1. CASE Coalesce(t) \/ Mirror(t)
    BY <1>0, <2>1, CoalesceSaves, MirrorSaves
  <2>2. CASE Request(t) \/ Claim(t) \/ Snapshot(t) \/ Replace(t) \/ ReplaceFails(t)
    <3>1. SaveKept
      BY <1>0, <2>2, RequestSaves, ClaimSaves, SnapshotSaves, ReplaceSaves, ReplaceFailsSaves
    <3>2. acked' = acked /\ doomed' = doomed /\ archive' = archive
      BY <2>2 DEF Request, Claim, Snapshot, Replace, ReplaceFails, diskVs, ghosts
    <3>3. AckedIsArchived'
      BY <3>2 DEF AckedIsArchived
    <3> QED BY <3>1, <3>3
  <2> QED BY <1>2, <2>1, <2>2 DEF SaveStep
<1>3. CASE CrashAndRestart
  BY <1>0, <1>3, CrashSaves
<1>4. CASE UNCHANGED vars
  <2>1. UNCHANGED << memVs, saveVs, diskVs, thr, ghosts >>
    BY <1>4 DEF vars
  <2>2. DebtInv'
    BY <2>1 DEF DebtInv, Debt, Owes, Carries, memVs, saveVs, diskVs
  <2>3. SaverInv'
    BY <2>1 DEF SaverInv, Saves, SaveSound, Queued, Archived, Carried, Carries, Waiting, Owes, Has,
                memVs, saveVs, diskVs, ghosts
  <2>4. AckedIsArchived'
    BY <2>1 DEF AckedIsArchived, diskVs, ghosts
  <2> QED BY <2>2, <2>3, <2>4 DEF SaveKept
<1> QED BY <1>1, <1>2, <1>3, <1>4 DEF Next, Operating

LEMMA DebtIsKept ==
  ASSUME TypeInv, DebtInv
  PROVE  MirrorDebtKept
<1> SUFFICES ASSUME NEW i \in 1..Len(queue)
             PROVE  \/ queue[i] \in archive
                    \/ full \/ queue[i].id \in ids
                    \/ \E t \in Threads : thr[t].pc \in {"request", "enter"} /\ thr[t].id \in {0, queue[i].id}
                    \/ \E t \in Threads : thr[t].pc \in Writing
  BY DEF MirrorDebtKept
<1>1. queue[i] \in Rows(queue)
  BY TypeFacts, OrderedRows
<1>2. Debt(queue[i])
  BY <1>1 DEF DebtInv
<1> QED BY <1>2 DEF Debt, Owes, Carries

\* Whoever writes it, no update that was saved is lost: it is in the archive by the
\* time its save returns, whether that save wrote or found its revision covered,
\* and what the archive does not match yet is owed to it.  The hypotheses leave out
\* the Library's copies (which take another draft's id) and its clear (which takes
\* rows of drafts born meanwhile), an SQLite error that the mirror swallows, and a
\* queue at its limit (which drops drafts before they are mirrored).
THEOREM SavedSurvives_Safety ==
  ASSUME Ops \intersect {"library", "libclear"} = {}, ~MirrorMayFail, MaxDrafts <= Limit
  PROVE  Spec => []SavedSurvives
<1> DEFINE Inv == Numbered /\ RemovalInv /\ DebtInv /\ SaverInv /\ AckedIsArchived
<1>1. NoLibrary
  BY DEF NoLibrary
<1>2. Init => Inv
  <2> SUFFICES ASSUME Init PROVE Inv
    OBVIOUS
  <2>1. TypeInv /\ OneId /\ OneRow /\ AheadOfArchive
    BY InitTyped, InitRows DEF OneId, OneRow, AheadOfArchive
  <2>2. \A t \in Threads : thr[t].pc = "idle" /\ thr[t].op = "none"
    BY IdleThread DEF Init
  <2>3. OneCreator
    BY <2>2, CreatorThread DEF OneCreator
  <2>4. IdsGrow
    BY InitRows DEF IdsGrow, Grows, Live
  <2>5. RemovalInv
    BY <2>2, CreatorThread, InitRows DEF RemovalInv, HeldQueued
  <2>6. DebtInv /\ SaverInv
    BY <2>2, InitRows DEF DebtInv, SaverInv, Saves, Writing
  <2>7. AckedIsArchived
    <3>1. \A a \in 1..MaxDrafts : acked[a] = 0
      BY DEF Init
    <3>2. ~(0 > 0)
      OBVIOUS
    <3> QED BY <3>1, <3>2 DEF AckedIsArchived
  <2> QED BY <2>1, <2>3, <2>4, <2>5, <2>6, <2>7 DEF Numbered
<1>3. Inv /\ [Next]_vars => Inv'
  <2> SUFFICES ASSUME Inv, [Next]_vars PROVE Inv'
    OBVIOUS
  <2>1. TypeInv /\ OneId /\ OneRow /\ AheadOfArchive /\ OneCreator /\ IdsGrow
    BY DEF Numbered
  <2>2. TypeInv' /\ OneId' /\ OneRow' /\ AheadOfArchive'
    BY <2>1, StepTyped, OneIdStep, OneRowStep, AheadOfArchiveStep
  <2>3. OneCreator' /\ IdsGrow'
    BY <1>1, <2>1, NoLibraryOps, StepNumbering, IdsGrowStep
  <2>4. RemovalInv'
    BY <1>1, <2>2, RemovalStep
  <2>5. SaveKept /\ AckedIsArchived'
    BY <1>1, <2>2, SurvivalStep
  <2> QED BY <2>2, <2>3, <2>4, <2>5 DEF Numbered, SaveKept
<1>4. Inv => SavedSurvives
  BY DebtIsKept DEF Numbered, SavedSurvives
<1> QED BY <1>2, <1>3, <1>4, PTL DEF Spec
=============================================================================
