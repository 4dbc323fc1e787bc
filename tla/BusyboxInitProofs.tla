-------------------------- MODULE BusyboxInitProofs --------------------------
(***************************************************************************)
(* What holds of BusyBox init for every inittab, any number of processes,  *)
(* signals and reloads.                                                    *)
(***************************************************************************)
EXTENDS BusyboxInit, SequenceTheorems, WellFoundedInduction, TLAPS

Lines == [cmd : Commands, type : Types]

-----------------------------------------------------------------------------
(* The least number of a set, and functions defined by recursion.          *)

LEMMA LeastNumber ==
    ASSUME NEW S, S \subseteq Nat, S # {}
    PROVE  \E d \in S : \A e \in S : d <= e
<1>1. PICK d \in S : \A e \in S : <<e, d>> \notin OpToRel(<, Nat)
  BY NatLessThanWellFounded, WFMin
<1>2. ASSUME NEW e \in S PROVE d <= e
  <2>1. <<e, d>> \in Nat \X Nat /\ <<e, d>>[1] = e /\ <<e, d>>[2] = d
    OBVIOUS
  <2>2. ~(e < d)
    BY <1>1, <2>1 DEF OpToRel
  <2> QED
    BY <2>2
<1> QED
  BY <1>2

LEMMA MinIsLeast ==
    ASSUME NEW S, S \subseteq Nat, S # {}
    PROVE  Min(S) \in S /\ \A e \in S : Min(S) <= e
BY LeastNumber DEF Min

(* f iterates the functions of step, starting from base.                   *)
Iterates(f, base, step, n) ==
    f = [i \in 0 .. n |-> IF i = 0 THEN base ELSE step[i][f[i - 1]]]

LEMMA IterationExists ==
    ASSUME NEW D, NEW base \in D, NEW N \in Nat, NEW step \in [1 .. N -> [D -> D]]
    PROVE  \E f \in [0 .. N -> D] : Iterates(f, base, step, N)
<1> DEFINE Bad == { n \in 0 .. N : ~\E f \in [0 .. n -> D] : Iterates(f, base, step, n) }
<1> SUFFICES ASSUME Bad # {} PROVE FALSE
  OBVIOUS
<1>1. PICK n \in Bad : \A m \in Bad : n <= m
  <2>1. Bad \subseteq Nat
    OBVIOUS
  <2> HIDE DEF Bad
  <2> QED
    BY <2>1, LeastNumber
<1>2. n \in 0 .. N /\ ~\E f \in [0 .. n -> D] : Iterates(f, base, step, n)
  BY <1>1
<1>3. CASE n = 0
  <2> DEFINE f == [i \in 0 .. 0 |-> base]
  <2>1. f \in [0 .. n -> D] /\ Iterates(f, base, step, n)
    BY <1>3 DEF Iterates
  <2> QED
    BY <1>2, <2>1
<1>4. CASE n # 0
  <2>1. n - 1 \in 0 .. N /\ n - 1 \notin Bad /\ n \in 1 .. N
    BY <1>1, <1>2, <1>4
  <2>2. PICK g \in [0 .. n - 1 -> D] : Iterates(g, base, step, n - 1)
    BY <2>1
  <2> DEFINE f == [i \in 0 .. n |-> IF i = n THEN step[n][g[n - 1]] ELSE g[i]]
  <2>3. g[n - 1] \in D /\ step[n] \in [D -> D] /\ step[n][g[n - 1]] \in D
    BY <2>1
  <2>4. f \in [0 .. n -> D]
    BY <2>3
  <2>5. \A i \in 0 .. n - 1 : g[i] = IF i = 0 THEN base ELSE step[i][g[i - 1]]
    BY <2>2 DEF Iterates
  <2>6. \A i \in 0 .. n : f[i] = IF i = 0 THEN base ELSE step[i][f[i - 1]]
    BY <1>2, <1>4, <2>5
  <2>7. Iterates(f, base, step, n)
    BY <2>6 DEF Iterates
  <2> QED
    BY <1>2, <2>4, <2>7
<1> QED
  BY <1>3, <1>4

-----------------------------------------------------------------------------
(* new_init_action.                                                        *)

Distinct(l) == \A i, j \in DOMAIN l : l[i].cmd = l[j].cmd => i = j

LEMMA RemoveAtIs ==
    ASSUME NEW A, NEW l \in Seq(A), NEW i \in DOMAIN l
    PROVE  /\ RemoveAt(l, i) \in Seq(A)
           /\ Len(RemoveAt(l, i)) = Len(l) - 1
           /\ \A j \in 1 .. Len(l) - 1 :
                 RemoveAt(l, i)[j] = IF j < i THEN l[j] ELSE l[j + 1]
<1> DEFINE a == SubSeq(l, 1, i - 1)
           b == SubSeq(l, i + 1, Len(l))
<1>0. i \in 1 .. Len(l) /\ Len(l) \in Nat
  BY LenProperties
<1>1. a \in Seq(A) /\ Len(a) = i - 1 /\ \A j \in 1 .. i - 1 : a[j] = l[j]
  BY <1>0, SubSeqProperties
<1>2. b \in Seq(A) /\ Len(b) = Len(l) - i /\ \A j \in 1 .. Len(l) - i : b[j] = l[i + j]
  <2>1. CASE i = Len(l)
    <3>1. b = <<>>
      BY <1>0, <2>1, SubSeqProperties
    <3> QED
      BY <3>1, <1>0, <2>1
  <2>2. CASE i < Len(l)
    BY <1>0, <2>2, SubSeqProperties
  <2> QED
    BY <1>0, <2>1, <2>2
<1>3. RemoveAt(l, i) = a \o b
  BY DEF RemoveAt
<1> HIDE DEF a, b
<1>4. /\ a \o b \in Seq(A) /\ Len(a \o b) = Len(a) + Len(b)
      /\ \A j \in 1 .. Len(a) + Len(b) : (a \o b)[j] = IF j <= Len(a) THEN a[j] ELSE b[j - Len(a)]
  BY <1>1, <1>2, ConcatProperties
<1>5. ASSUME NEW j \in 1 .. Len(l) - 1
      PROVE  (a \o b)[j] = IF j < i THEN l[j] ELSE l[j + 1]
  <2>1. CASE j < i
    BY <1>0, <1>1, <1>2, <1>4, <2>1, SMTT(30)
  <2>2. CASE ~(j < i)
    <3>1. j - Len(a) \in 1 .. Len(l) - i /\ i + (j - Len(a)) = j + 1
      BY <1>0, <1>1, <2>2
    <3>2. (a \o b)[j] = b[j - Len(a)]
      <4>1. j \in 1 .. Len(a) + Len(b) /\ ~(j <= Len(a))
        BY <1>0, <1>1, <1>2, <2>2
      <4> QED
        BY <1>4, <4>1
    <3>3. b[j - Len(a)] = l[i + (j - Len(a))]
      BY <1>2, <3>1
    <3> QED
      BY <2>2, <3>1, <3>2, <3>3
  <2> QED
    BY <2>1, <2>2
<1>6. Len(a \o b) = Len(l) - 1
  BY <1>0, <1>1, <1>2, <1>4
<1> QED
  BY <1>3, <1>4, <1>5, <1>6

(* What new_init_action returns: the other entries in their order, then    *)
(* the entry of the line with the process it had.                          *)
IsAdded(l, e, r, h) ==
    /\ h \in [1 .. Len(r) - 1 -> DOMAIN l]
    /\ \A j, k \in 1 .. Len(r) - 1 : j < k => h[j] < h[k]
    /\ \A j \in 1 .. Len(r) - 1 : r[j] = l[h[j]] /\ r[j].cmd # e.cmd
    /\ \A i \in DOMAIN l : l[i].cmd # e.cmd => \E j \in 1 .. Len(r) - 1 : h[j] = i
    /\ r[Len(r)].cmd = e.cmd /\ r[Len(r)].type = e.type
    /\ \/ r[Len(r)].pid = NoPid /\ \A i \in DOMAIN l : l[i].cmd # e.cmd
       \/ \E i \in DOMAIN l : l[i].cmd = e.cmd /\ l[i].pid = r[Len(r)].pid

LEMMA Added ==
    ASSUME NEW l \in Seq(Actions), Distinct(l), NEW e \in Lines
    PROVE  /\ new_init_action(l, e) \in Seq(Actions)
           /\ Len(new_init_action(l, e)) \in Nat \ {0}
           /\ \E h : IsAdded(l, e, new_init_action(l, e), h)
<1> DEFINE found == Matching(l, e.cmd)
           r == new_init_action(l, e)
<1>0. /\ Len(l) \in Nat /\ DOMAIN l = 1 .. Len(l) /\ \A i \in DOMAIN l : l[i] \in Actions
      /\ found \subseteq Nat /\ found = { i \in DOMAIN l : l[i].cmd = e.cmd }
      /\ e.cmd \in Commands /\ e.type \in Types \cup {"removed"}
  BY LenProperties, ElementOfSeq DEF Matching, Lines
<1>1. CASE found = {}
  <2> DEFINE new == Entry(e.cmd, e.type, NoPid)
             h == [j \in 1 .. Len(l) |-> j]
  <2>1. new \in Actions /\ new.cmd = e.cmd /\ new.type = e.type /\ new.pid = NoPid
    BY <1>0 DEF Entry, Actions
  <2>2. r = Append(l, new)
    BY <1>1 DEF new_init_action
  <2> HIDE DEF new, r
  <2>3. /\ r \in Seq(Actions) /\ Len(r) = Len(l) + 1 /\ r[Len(l) + 1] = new
        /\ \A j \in 1 .. Len(l) : r[j] = l[j]
    BY <2>1, <2>2, AppendProperties
  <2>4. IsAdded(l, e, r, h)
    BY <1>0, <1>1, <2>1, <2>3 DEF IsAdded
  <2> QED
    BY <1>0, <2>3, <2>4 DEF r
<1>2. CASE found # {}
  <2> DEFINE i == Min(found)
             new == Entry(e.cmd, e.type, l[i].pid)
             s == RemoveAt(l, i)
             h == [j \in 1 .. Len(l) - 1 |-> IF j < i THEN j ELSE j + 1]
  <2>1. i \in DOMAIN l /\ l[i].cmd = e.cmd
    BY <1>0, <1>2, MinIsLeast
  <2>2. new \in Actions /\ new.cmd = e.cmd /\ new.type = e.type /\ new.pid = l[i].pid
    BY <1>0, <2>1 DEF Entry, Actions
  <2>3. r = Append(s, new)
    BY <1>2 DEF new_init_action
  <2>4. /\ s \in Seq(Actions) /\ Len(s) = Len(l) - 1
        /\ \A j \in 1 .. Len(l) - 1 : s[j] = IF j < i THEN l[j] ELSE l[j + 1]
    BY <2>1, RemoveAtIs
  <2> HIDE DEF i, new, r, s
  <2>5. /\ r \in Seq(Actions) /\ Len(r) = Len(l) /\ r[Len(l)] = new
        /\ \A j \in 1 .. Len(l) - 1 : r[j] = s[j]
    <3>1. /\ Append(s, new) \in Seq(Actions) /\ Len(Append(s, new)) = Len(s) + 1
          /\ \A j \in 1 .. Len(s) : Append(s, new)[j] = s[j]
          /\ Append(s, new)[Len(s) + 1] = new
      BY <2>2, <2>4, AppendProperties
    <3> QED
      BY <1>0, <2>3, <2>4, <3>1
  <2>6. \A j \in 1 .. Len(l) - 1 : h[j] \in DOMAIN l /\ h[j] # i /\ r[j] = l[h[j]]
    <3> SUFFICES ASSUME NEW j \in 1 .. Len(l) - 1
                 PROVE  h[j] \in DOMAIN l /\ h[j] # i /\ r[j] = l[h[j]]
      OBVIOUS
    <3>1. h[j] = IF j < i THEN j ELSE j + 1
      OBVIOUS
    <3>2. r[j] = IF j < i THEN l[j] ELSE l[j + 1]
      BY <2>4, <2>5
    <3>3. h[j] \in DOMAIN l /\ h[j] # i
      BY <1>0, <2>1, <3>1
    <3> QED
      BY <3>1, <3>2, <3>3
  <2>7. \A k \in DOMAIN l : l[k].cmd # e.cmd => \E j \in 1 .. Len(l) - 1 : h[j] = k
    <3> SUFFICES ASSUME NEW k \in DOMAIN l, l[k].cmd # e.cmd
                 PROVE  \E j \in 1 .. Len(l) - 1 : h[j] = k
      OBVIOUS
    <3>1. k # i
      BY <2>1
    <3>2. CASE k < i
      BY <1>0, <2>1, <3>2
    <3>3. CASE k > i
      <4>1. k - 1 \in 1 .. Len(l) - 1 /\ h[k - 1] = k
        BY <1>0, <2>1, <3>3
      <4> QED
        BY <4>1
    <3> QED
      BY <1>0, <2>1, <3>1, <3>2, <3>3
  <2>8. \A j \in 1 .. Len(l) - 1 : r[j].cmd # e.cmd
    BY <2>1, <2>6 DEF Distinct
  <2>9. \A j, k \in 1 .. Len(l) - 1 : j < k => h[j] < h[k]
    BY <1>0, <2>1
  <2>10. h \in [1 .. Len(l) - 1 -> DOMAIN l]
    BY <2>6
  <2> HIDE DEF h
  <2>11. IsAdded(l, e, r, h)
    BY <2>1, <2>2, <2>5, <2>6, <2>7, <2>8, <2>9, <2>10 DEF IsAdded
  <2> QED
    BY <1>0, <2>1, <2>5, <2>11 DEF r
<1> QED
  BY <1>1, <1>2

LEMMA AddedDistinct ==
    ASSUME NEW q \in Seq(Actions), Distinct(q), NEW e \in Lines
    PROVE  new_init_action(q, e) \in Seq(Actions) /\ Distinct(new_init_action(q, e))
<1> DEFINE r == new_init_action(q, e)
<1>1. r \in Seq(Actions) /\ Len(r) \in Nat \ {0} /\ \E h : IsAdded(q, e, r, h)
  BY Added
<1> HIDE DEF r
<1>2. PICK h : IsAdded(q, e, r, h)
  BY <1>1
<1>3. DOMAIN r = 1 .. Len(r) /\ DOMAIN q = 1 .. Len(q) /\ Len(q) \in Nat
  BY <1>1, LenProperties
<1>4. /\ \A j \in 1 .. Len(r) - 1 : h[j] \in DOMAIN q /\ r[j] = q[h[j]] /\ r[j].cmd # e.cmd
      /\ r[Len(r)].cmd = e.cmd
  BY <1>2 DEF IsAdded
<1>5. Distinct(r)
  <2> SUFFICES ASSUME NEW i \in DOMAIN r, NEW j \in DOMAIN r, r[i].cmd = r[j].cmd, i < j
               PROVE  FALSE
    BY <1>3 DEF Distinct
  <2>1. i \in 1 .. Len(r) - 1 /\ (j \in 1 .. Len(r) - 1 \/ j = Len(r))
    BY <1>1, <1>3
  <2>2. CASE j = Len(r)
    BY <1>4, <2>1, <2>2
  <2>3. CASE j \in 1 .. Len(r) - 1
    <3>1. h[i] < h[j]
      BY <1>2, <2>1, <2>3 DEF IsAdded
    <3>2. /\ h[i] \in DOMAIN q /\ r[i] = q[h[i]]
          /\ h[j] \in DOMAIN q /\ r[j] = q[h[j]]
      BY <1>4, <2>1, <2>3
    <3>3. h[i] = h[j]
      BY <3>2 DEF Distinct
    <3> QED
      BY <1>3, <3>1, <3>2, <3>3
  <2> QED
    BY <2>1, <2>2, <2>3
<1> QED
  BY <1>1, <1>5 DEF r

-----------------------------------------------------------------------------
(* parse_inittab.                                                          *)

(* Line k is the last of the first n lines of tab with the command of a,   *)
(* and gives it its type.                                                  *)
IsLine(tab, n, k, a) ==
    /\ k \in 1 .. n /\ tab[k].cmd = a.cmd /\ tab[k].type = a.type
    /\ \A j \in 1 .. n : j > k => tab[j].cmd # a.cmd

(* The entries of r in the order of the first n lines of tab.              *)
OrderedAs(r, tab, n) ==
    \A i, j \in DOMAIN r : \A k, m \in 1 .. n :
        i < j /\ IsLine(tab, n, k, r[i]) /\ IsLine(tab, n, m, r[j]) => k < m

(* r is the list of actions after the first n lines of tab, l the one      *)
(* before them: processes stay with their commands, and the entries of the *)
(* lines are in order.                                                     *)
Keeps(l, r) ==
    /\ \A j \in DOMAIN r : \/ r[j].pid = NoPid
                           \/ \E i \in DOMAIN l : l[i].cmd = r[j].cmd /\ l[i].pid = r[j].pid
    /\ \A i \in DOMAIN l : \E j \in DOMAIN r : r[j].cmd = l[i].cmd /\ r[j].pid = l[i].pid

Follows(r, tab, n) ==
    /\ \A j \in DOMAIN r : \/ r[j].type = "removed" /\ \A k \in 1 .. n : tab[k].cmd # r[j].cmd
                           \/ \E k \in 1 .. n : IsLine(tab, n, k, r[j])
    /\ \A k \in 1 .. n : \E j \in DOMAIN r : r[j].cmd = tab[k].cmd

Parsed(l, tab, n, r) ==
    /\ r \in Seq(Actions) /\ Distinct(r)
    /\ Keeps(l, r)
    /\ Follows(r, tab, n)
    /\ OrderedAs(r, tab, n)

LEMMA ParseBegin ==
    ASSUME NEW l \in Seq(Actions), Distinct(l), \A i \in DOMAIN l : l[i].type = "removed",
           NEW tab
    PROVE  Parsed(l, tab, 0, l)
BY DEF Parsed, Keeps, Follows, OrderedAs

LEMMA ParseStep ==
    ASSUME NEW l, NEW tab \in Seq(Lines), NEW n \in 1 .. Len(tab), NEW q, Parsed(l, tab, n - 1, q)
    PROVE  Parsed(l, tab, n, new_init_action(q, tab[n]))
<1> DEFINE e == tab[n]
           r == new_init_action(q, e)
<1>0. n \in Nat \ {0} /\ tab[n] \in Lines
  BY LenProperties, ElementOfSeq
<1>1. q \in Seq(Actions) /\ Distinct(q)
  BY DEF Parsed
<1>2. r \in Seq(Actions) /\ Len(r) \in Nat \ {0} /\ \E h : IsAdded(q, e, r, h)
  BY <1>0, <1>1, Added
<1> HIDE DEF r
<1>3. PICK h : IsAdded(q, e, r, h)
  BY <1>2
<1>4. DOMAIN r = 1 .. Len(r) /\ DOMAIN q = 1 .. Len(q) /\ Len(q) \in Nat
  BY <1>1, <1>2, LenProperties
<1>5. /\ \A j \in 1 .. Len(r) - 1 : h[j] \in DOMAIN q /\ r[j] = q[h[j]] /\ r[j].cmd # e.cmd
      /\ r[Len(r)].cmd = e.cmd /\ r[Len(r)].type = e.type
  BY <1>3 DEF IsAdded
<1>6. \A j \in DOMAIN r : j \in 1 .. Len(r) - 1 \/ j = Len(r)
  BY <1>2, <1>4
<1>7. Distinct(r)
  BY <1>0, <1>1, AddedDistinct DEF r
<1>8. Keeps(l, r)
  <2>1. ASSUME NEW j \in DOMAIN r
        PROVE  r[j].pid = NoPid \/ \E i \in DOMAIN q : q[i].cmd = r[j].cmd /\ q[i].pid = r[j].pid
    <3>1. CASE j = Len(r)
      BY <1>3, <1>5, <3>1 DEF IsAdded
    <3>2. CASE j \in 1 .. Len(r) - 1
      BY <1>5, <3>2
    <3> QED
      BY <1>6, <3>1, <3>2
  <2>2. ASSUME NEW i \in DOMAIN q
        PROVE  \E j \in DOMAIN r : r[j].cmd = q[i].cmd /\ r[j].pid = q[i].pid
    <3>1. CASE q[i].cmd = e.cmd
      <4>1. PICK k \in DOMAIN q : q[k].cmd = e.cmd /\ q[k].pid = r[Len(r)].pid
        BY <1>3, <3>1 DEF IsAdded
      <4>2. k = i
        BY <1>1, <3>1, <4>1 DEF Distinct
      <4>3. Len(r) \in DOMAIN r
        BY <1>2, <1>4
      <4> QED
        BY <1>5, <3>1, <4>1, <4>2, <4>3
    <3>2. CASE q[i].cmd # e.cmd
      <4>1. PICK j \in 1 .. Len(r) - 1 : h[j] = i
        BY <1>3, <3>2 DEF IsAdded
      <4>2. j \in DOMAIN r /\ r[j] = q[i]
        BY <1>2, <1>4, <1>5, <4>1, SMTT(30)
      <4> QED
        BY <4>2
    <3> QED
      BY <3>1, <3>2
  <2>3. Keeps(l, q)
    BY DEF Parsed
  <2> QED
    BY <2>1, <2>2, <2>3 DEF Keeps
<1>9. ASSUME NEW j \in 1 .. Len(r) - 1, NEW k
      PROVE  IsLine(tab, n, k, r[j]) <=> IsLine(tab, n - 1, k, q[h[j]])
  <2>1. r[j] = q[h[j]] /\ r[j].cmd # tab[n].cmd
    BY <1>5
  <2> QED
    BY <1>0, <2>1 DEF IsLine
<1>10. \A k : IsLine(tab, n, k, r[Len(r)]) <=> k = n
  <2>1. n \in 1 .. n /\ \A j \in 1 .. n : ~(j > n)
    BY <1>0
  <2>2. IsLine(tab, n, n, r[Len(r)])
    BY <1>5, <2>1 DEF IsLine
  <2>3. ASSUME NEW k, IsLine(tab, n, k, r[Len(r)]) PROVE k = n
    BY <1>0, <1>5, <2>1, <2>3 DEF IsLine
  <2> QED
    BY <2>2, <2>3
<1>11. Follows(q, tab, n - 1)
  BY DEF Parsed
<1>12. Follows(r, tab, n)
  <2>1. ASSUME NEW j \in DOMAIN r
        PROVE  \/ r[j].type = "removed" /\ \A k \in 1 .. n : tab[k].cmd # r[j].cmd
               \/ \E k \in 1 .. n : IsLine(tab, n, k, r[j])
    <3>1. CASE j = Len(r)
      <4>1. n \in 1 .. n
        BY <1>0
      <4> QED
        BY <1>10, <3>1, <4>1
    <3>2. CASE j \in 1 .. Len(r) - 1
      <4>1. h[j] \in DOMAIN q /\ r[j] = q[h[j]] /\ r[j].cmd # tab[n].cmd
        BY <1>5, <3>2
      <4>2. CASE q[h[j]].type = "removed" /\ \A k \in 1 .. n - 1 : tab[k].cmd # q[h[j]].cmd
        BY <1>0, <4>1, <4>2
      <4>3. CASE \E k \in 1 .. n - 1 : IsLine(tab, n - 1, k, q[h[j]])
        <5>1. PICK k \in 1 .. n - 1 : IsLine(tab, n - 1, k, q[h[j]])
          BY <4>3
        <5>2. k \in 1 .. n
          BY <1>0
        <5>3. IsLine(tab, n, k, r[j])
          BY <1>9, <3>2, <5>1
        <5> QED
          BY <5>2, <5>3
      <4> QED
        BY <1>11, <4>1, <4>2, <4>3 DEF Follows
    <3> QED
      BY <1>6, <3>1, <3>2
  <2>2. ASSUME NEW k \in 1 .. n PROVE \E j \in DOMAIN r : r[j].cmd = tab[k].cmd
    <3>1. CASE tab[k].cmd = e.cmd
      <4>1. Len(r) \in DOMAIN r
        BY <1>2, <1>4
      <4> QED
        BY <1>5, <3>1, <4>1
    <3>2. CASE tab[k].cmd # e.cmd
      <4>1. k \in 1 .. n - 1
        BY <1>0, <3>2
      <4>2. PICK i \in DOMAIN q : q[i].cmd = tab[k].cmd
        BY <1>11, <4>1 DEF Follows
      <4>3. PICK j \in 1 .. Len(r) - 1 : h[j] = i
        BY <1>3, <3>2, <4>2 DEF IsAdded
      <4>4. j \in DOMAIN r
        BY <1>2, <1>4
      <4>5. r[j] = q[i]
        BY <1>5, <4>3
      <4> QED
        BY <4>2, <4>4, <4>5
    <3> QED
      BY <3>1, <3>2
  <2> QED
    BY <2>1, <2>2 DEF Follows
<1>13. OrderedAs(r, tab, n)
  <2> SUFFICES ASSUME NEW i \in DOMAIN r, NEW j \in DOMAIN r, NEW k \in 1 .. n, NEW m \in 1 .. n,
                      i < j, IsLine(tab, n, k, r[i]), IsLine(tab, n, m, r[j])
               PROVE  k < m
    BY DEF OrderedAs
  <2>1. i \in 1 .. Len(r) - 1
    BY <1>2, <1>4
  <2>2. IsLine(tab, n - 1, k, q[h[i]]) /\ k \in 1 .. n - 1
    BY <1>9, <2>1, SMTT(30) DEF IsLine
  <2>3. CASE j = Len(r)
    <3>1. m = n
      BY <1>10, <2>3
    <3> QED
      BY <1>0, <2>2, <3>1
  <2>4. CASE j \in 1 .. Len(r) - 1
    <3>1. IsLine(tab, n - 1, m, q[h[j]]) /\ m \in 1 .. n - 1
      BY <1>9, <2>4, SMTT(30) DEF IsLine
    <3>2. h[i] \in DOMAIN q /\ h[j] \in DOMAIN q /\ h[i] < h[j]
      BY <1>3, <1>5, <2>1, <2>4 DEF IsAdded
    <3>3. OrderedAs(q, tab, n - 1)
      BY DEF Parsed
    <3> QED
      BY <2>2, <3>1, <3>2, <3>3 DEF OrderedAs
  <2> QED
    BY <1>6, <2>3, <2>4
<1> QED
  BY <1>2, <1>7, <1>8, <1>12, <1>13 DEF Parsed, r

Adds(tab) == [n \in DOMAIN tab |-> [a \in Seq(Actions) |-> new_init_action(a, tab[n])]]

LEMMA ParseInittab ==
    ASSUME NEW l \in Seq(Actions), Distinct(l), \A i \in DOMAIN l : l[i].type = "removed",
           NEW tab \in Seq(Lines)
    PROVE  Parsed(l, tab, Len(tab), parse_inittab(l, tab))
<1> DEFINE D == { a \in Seq(Actions) : Distinct(a) }
           step == [n \in 1 .. Len(tab) |-> [a \in D |-> new_init_action(a, tab[n])]]
           f == CHOOSE g : Iterates(g, l, Adds(tab), Len(tab))
<1>0. /\ Len(tab) \in Nat /\ DOMAIN tab = 1 .. Len(tab)
      /\ \A n \in 1 .. Len(tab) : tab[n] \in Lines
  BY LenProperties, ElementOfSeq
<1>1. parse_inittab(l, tab) = f[Len(tab)]
  BY DEF parse_inittab, Iterates, Adds
<1>2. Iterates(f, l, Adds(tab), Len(tab))
  <2>1. ASSUME NEW n \in 1 .. Len(tab), NEW a \in D
        PROVE  new_init_action(a, tab[n]) \in D
    BY <1>0, <2>1, AddedDistinct
  <2>2. step \in [1 .. Len(tab) -> [D -> D]] /\ l \in D
    BY <2>1
  <2>3. PICK g \in [0 .. Len(tab) -> D] : Iterates(g, l, step, Len(tab))
    <3> HIDE DEF step, D
    <3> QED
      BY <1>0, <2>2, IterationExists
  <2>4. \A i \in 0 .. Len(tab) : g[i] = IF i = 0 THEN l ELSE step[i][g[i - 1]]
    BY <2>3 DEF Iterates
  <2>5. ASSUME NEW i \in 1 .. Len(tab) PROVE step[i][g[i - 1]] = Adds(tab)[i][g[i - 1]]
    <3>1. i - 1 \in 0 .. Len(tab)
      BY <1>0
    <3>2. g[i - 1] \in D /\ g[i - 1] \in Seq(Actions)
      BY <2>3, <3>1
    <3> QED
      BY <1>0, <3>2 DEF Adds
  <2> HIDE DEF step
  <2>6. \A i \in 0 .. Len(tab) : g[i] = IF i = 0 THEN l ELSE Adds(tab)[i][g[i - 1]]
    BY <1>0, <2>4, <2>5
  <2>7. Iterates(g, l, Adds(tab), Len(tab))
    BY <2>6 DEF Iterates
  <2> QED
    BY <2>7
<1> HIDE DEF f
<1>3. \A n \in 0 .. Len(tab) : f[n] = IF n = 0 THEN l ELSE Adds(tab)[n][f[n - 1]]
  BY <1>2 DEF Iterates
<1> DEFINE Bad == { n \in 0 .. Len(tab) : ~Parsed(l, tab, n, f[n]) }
<1>4. ASSUME Bad # {} PROVE FALSE
  <2>1. PICK n \in Bad : \A m \in Bad : n <= m
    <3>1. Bad \subseteq Nat
      OBVIOUS
    <3> HIDE DEF Bad
    <3> QED
      BY <1>4, <3>1, LeastNumber
  <2>2. n \in 0 .. Len(tab) /\ ~Parsed(l, tab, n, f[n])
    BY <2>1
  <2>3. n # 0
    <3>1. f[0] = l
      BY <1>0, <1>3
    <3> QED
      BY <2>2, <3>1, ParseBegin
  <2>4. n \in 1 .. Len(tab) /\ n - 1 \in 0 .. Len(tab) /\ n - 1 \notin Bad
    BY <1>0, <2>1, <2>2, <2>3
  <2>5. Parsed(l, tab, n - 1, f[n - 1])
    BY <2>4
  <2>6. f[n] = new_init_action(f[n - 1], tab[n])
    <3>1. f[n - 1] \in Seq(Actions)
      BY <2>5 DEF Parsed
    <3>2. f[n] = Adds(tab)[n][f[n - 1]]
      BY <1>3, <2>3, <2>4
    <3> QED
      BY <1>0, <2>4, <3>1, <3>2 DEF Adds
  <2> QED
    BY <2>2, <2>4, <2>5, <2>6, ParseStep
<1>5. Len(tab) \in 0 .. Len(tab)
  BY <1>0
<1> QED
  BY <1>1, <1>4, <1>5

-----------------------------------------------------------------------------
(* RemoveStale and reload_inittab.                                         *)

(* r holds the entries among the first n of l that are not stale, in their *)
(* order.                                                                  *)
IsKept(l, n, r, h) ==
    /\ h \in [1 .. Len(r) -> 1 .. n]
    /\ \A j, k \in 1 .. Len(r) : j < k => h[j] < h[k]
    /\ \A j \in 1 .. Len(r) : r[j] = l[h[j]] /\ ~Stale(r[j])
    /\ \A i \in 1 .. n : ~Stale(l[i]) => \E j \in 1 .. Len(r) : h[j] = i

Filtered(l, n, r) == r \in Seq(Actions) /\ \E h : IsKept(l, n, r, h)

Filters(l) ==
    [n \in DOMAIN l |-> [a \in Seq(Actions) |-> IF Stale(l[n]) THEN a ELSE Append(a, l[n])]]

LEMMA FilterStep ==
    ASSUME NEW l \in Seq(Actions), NEW n \in 1 .. Len(l), NEW q, Filtered(l, n - 1, q)
    PROVE  Filtered(l, n, IF Stale(l[n]) THEN q ELSE Append(q, l[n]))
<1>0. n \in Nat \ {0} /\ l[n] \in Actions
  BY LenProperties, ElementOfSeq
<1>1. q \in Seq(Actions) /\ Len(q) \in Nat
  BY LenProperties DEF Filtered
<1>2. PICK h : IsKept(l, n - 1, q, h)
  BY DEF Filtered
<1>3. CASE Stale(l[n])
  <2>1. h \in [1 .. Len(q) -> 1 .. n]
    BY <1>0, <1>2 DEF IsKept
  <2>2. \A i \in 1 .. n : ~Stale(l[i]) => i \in 1 .. n - 1
    BY <1>0, <1>3
  <2>3. IsKept(l, n, q, h)
    BY <1>2, <2>1, <2>2 DEF IsKept
  <2> QED
    BY <1>1, <1>3, <2>3 DEF Filtered
<1>4. CASE ~Stale(l[n])
  <2> DEFINE r == Append(q, l[n])
             m == Len(q) + 1
             g == [j \in 1 .. m |-> IF j = m THEN n ELSE h[j]]
  <2>1. /\ r \in Seq(Actions) /\ Len(r) = m /\ r[m] = l[n]
        /\ \A j \in 1 .. Len(q) : r[j] = q[j]
    BY <1>0, <1>1, AppendProperties
  <2> HIDE DEF r
  <2>2. \A j \in 1 .. m : j = m \/ j \in 1 .. Len(q)
    BY <1>1
  <2>3. \A j \in 1 .. Len(q) : /\ h[j] \in 1 .. n - 1 /\ q[j] = l[h[j]] /\ ~Stale(q[j])
                               /\ g[j] = h[j] /\ j \in 1 .. m
    BY <1>1, <1>2 DEF IsKept
  <2>4. g[m] = n /\ m \in 1 .. m
    BY <1>1
  <2>5. g \in [1 .. m -> 1 .. n]
    <3>1. ASSUME NEW j \in 1 .. m PROVE g[j] \in 1 .. n
      <4>1. CASE j = m
        BY <1>0, <2>4, <4>1
      <4>2. CASE j \in 1 .. Len(q)
        <5> HIDE DEF g, m
        <5>1. g[j] \in 1 .. n - 1
          BY <2>3, <4>2
        <5> QED
          BY <1>0, <5>1
      <4> QED
        BY <2>2, <4>1, <4>2
    <3> QED
      BY <3>1
  <2> HIDE DEF g
  <2>6. ASSUME NEW j \in 1 .. m, NEW k \in 1 .. m, j < k PROVE g[j] < g[k]
    <3>1. j \in 1 .. Len(q)
      BY <1>1, <2>6
    <3>2. CASE k = m
      BY <1>0, <2>3, <2>4, <3>1, <3>2
    <3>3. CASE k \in 1 .. Len(q)
      <4>1. h[j] < h[k]
        BY <1>2, <2>6, <3>1, <3>3 DEF IsKept
      <4> QED
        BY <2>3, <3>1, <3>3, <4>1
    <3> QED
      BY <2>2, <3>2, <3>3
  <2>7. ASSUME NEW j \in 1 .. m PROVE r[j] = l[g[j]] /\ ~Stale(r[j])
    <3>1. CASE j = m
      BY <1>4, <2>1, <2>4, <3>1
    <3>2. CASE j \in 1 .. Len(q)
      BY <2>1, <2>3, <3>2
    <3> QED
      BY <2>2, <3>1, <3>2
  <2>8. ASSUME NEW i \in 1 .. n, ~Stale(l[i]) PROVE \E j \in 1 .. m : g[j] = i
    <3>1. CASE i = n
      BY <2>4, <3>1
    <3>2. CASE i \in 1 .. n - 1
      <4>1. PICK j \in 1 .. Len(q) : h[j] = i
        BY <1>2, <2>8, <3>2 DEF IsKept
      <4> QED
        BY <2>3, <4>1
    <3> QED
      BY <1>0, <3>1, <3>2
  <2> HIDE DEF m
  <2>9. IsKept(l, n, r, g)
    BY <2>1, <2>5, <2>6, <2>7, <2>8 DEF IsKept
  <2> QED
    BY <1>4, <2>1, <2>9 DEF Filtered, r
<1> QED
  BY <1>3, <1>4

LEMMA RemovesStale ==
    ASSUME NEW l \in Seq(Actions)
    PROVE  Filtered(l, Len(l), RemoveStale(l))
<1> DEFINE f == CHOOSE g : g = [n \in 0 .. Len(l) |->
                    IF n = 0 THEN <<>>
                    ELSE IF Stale(l[n]) THEN g[n - 1] ELSE Append(g[n - 1], l[n])]
<1>0. /\ Len(l) \in Nat /\ DOMAIN l = 1 .. Len(l)
      /\ \A n \in 1 .. Len(l) : l[n] \in Actions
  BY LenProperties, ElementOfSeq
<1>1. RemoveStale(l) = f[Len(l)]
  BY DEF RemoveStale
<1>2. f = [n \in 0 .. Len(l) |->
             IF n = 0 THEN <<>>
             ELSE IF Stale(l[n]) THEN f[n - 1] ELSE Append(f[n - 1], l[n])]
  <2>1. ASSUME NEW n \in 1 .. Len(l), NEW a \in Seq(Actions)
        PROVE  (IF Stale(l[n]) THEN a ELSE Append(a, l[n])) \in Seq(Actions)
    BY <1>0, AppendProperties
  <2>2. Filters(l) \in [1 .. Len(l) -> [Seq(Actions) -> Seq(Actions)]] /\ <<>> \in Seq(Actions)
    BY <1>0, <2>1 DEF Filters
  <2>3. PICK g \in [0 .. Len(l) -> Seq(Actions)] : Iterates(g, <<>>, Filters(l), Len(l))
    BY <1>0, <2>2, IterationExists
  <2>4. \A i \in 0 .. Len(l) : g[i] = IF i = 0 THEN <<>> ELSE Filters(l)[i][g[i - 1]]
    BY <2>3 DEF Iterates
  <2>5. ASSUME NEW i \in 1 .. Len(l)
        PROVE  Filters(l)[i][g[i - 1]] = IF Stale(l[i]) THEN g[i - 1] ELSE Append(g[i - 1], l[i])
    <3>1. i - 1 \in 0 .. Len(l)
      BY <1>0
    <3>2. g[i - 1] \in Seq(Actions)
      BY <2>3, <3>1
    <3> QED
      BY <1>0, <3>2 DEF Filters
  <2>6. ASSUME NEW i \in 0 .. Len(l)
        PROVE  g[i] = IF i = 0 THEN <<>>
                      ELSE IF Stale(l[i]) THEN g[i - 1] ELSE Append(g[i - 1], l[i])
    <3>1. CASE i = 0
      BY <2>4, <3>1
    <3>2. CASE i # 0
      <4>1. i \in 1 .. Len(l) /\ g[i] = Filters(l)[i][g[i - 1]]
        BY <1>0, <2>4, <3>2
      <4> QED
        BY <2>5, <3>2, <4>1
    <3> QED
      BY <3>1, <3>2
  <2>7. g = [n \in 0 .. Len(l) |->
               IF n = 0 THEN <<>>
               ELSE IF Stale(l[n]) THEN g[n - 1] ELSE Append(g[n - 1], l[n])]
    BY <2>6
  <2> QED
    BY <2>7
<1> HIDE DEF f
<1>3. \A n \in 0 .. Len(l) :
         f[n] = IF n = 0 THEN <<>>
                ELSE IF Stale(l[n]) THEN f[n - 1] ELSE Append(f[n - 1], l[n])
  BY <1>2
<1> DEFINE Bad == { n \in 0 .. Len(l) : ~Filtered(l, n, f[n]) }
<1>4. ASSUME Bad # {} PROVE FALSE
  <2>1. PICK n \in Bad : \A m \in Bad : n <= m
    <3>1. Bad \subseteq Nat
      OBVIOUS
    <3> HIDE DEF Bad
    <3> QED
      BY <1>4, <3>1, LeastNumber
  <2>2. n \in 0 .. Len(l) /\ ~Filtered(l, n, f[n])
    BY <2>1
  <2>3. n # 0
    <3>1. f[0] = <<>>
      BY <1>0, <1>3
    <3> DEFINE h == [j \in 1 .. 0 |-> j]
    <3>2. IsKept(l, 0, <<>>, h) /\ <<>> \in Seq(Actions)
      BY DEF IsKept
    <3>3. Filtered(l, 0, f[0])
      BY <3>1, <3>2 DEF Filtered
    <3> QED
      BY <2>2, <3>3
  <2>4. n \in 1 .. Len(l) /\ n - 1 \in 0 .. Len(l) /\ n - 1 \notin Bad
    BY <1>0, <2>1, <2>2, <2>3
  <2>5. Filtered(l, n - 1, f[n - 1])
    BY <2>4
  <2>6. f[n] = IF Stale(l[n]) THEN f[n - 1] ELSE Append(f[n - 1], l[n])
    BY <1>3, <2>3, <2>4
  <2> QED
    BY <2>2, <2>4, <2>5, <2>6, FilterStep
<1>5. Len(l) \in 0 .. Len(l)
  BY <1>0
<1> QED
  BY <1>1, <1>4, <1>5

(* The list of actions is that of the inittab tab: what is not disabled    *)
(* has a line there, entries are in the order of the lines, and no         *)
(* shutdown line is missing.                                               *)
InStep(r, tab) ==
    /\ \A j \in DOMAIN r : r[j].type # "removed" => \E k \in 1 .. Len(tab) : IsLine(tab, Len(tab), k, r[j])
    /\ OrderedAs(r, tab, Len(tab))
    /\ \A k \in LinesOf(tab, "shutdown") :
          \E j \in DOMAIN r : r[j].cmd = tab[k].cmd /\ r[j].type = "shutdown"

LEMMA ParsedInStep ==
    ASSUME NEW l, NEW tab \in Seq(Lines), NEW r, Parsed(l, tab, Len(tab), r)
    PROVE  InStep(r, tab)
<1> DEFINE n == Len(tab)
<1>0. n \in Nat /\ DOMAIN tab = 1 .. n
  BY LenProperties
<1>1. Follows(r, tab, n) /\ OrderedAs(r, tab, n)
  BY DEF Parsed
<1>2. ASSUME NEW k \in LinesOf(tab, "shutdown")
      PROVE  \E j \in DOMAIN r : r[j].cmd = tab[k].cmd /\ r[j].type = "shutdown"
  <2>1. /\ k \in 1 .. n /\ tab[k].type = "shutdown"
        /\ \A j \in 1 .. n : j > k => tab[j].cmd # tab[k].cmd
    BY <1>0 DEF LinesOf
  <2>2. PICK j \in DOMAIN r : r[j].cmd = tab[k].cmd
    BY <1>1, <2>1 DEF Follows
  <2>3. PICK m \in 1 .. n : IsLine(tab, n, m, r[j])
    BY <1>1, <2>1, <2>2 DEF Follows
  <2>4. tab[m].cmd = tab[k].cmd /\ tab[m].type = r[j].type /\ ~(k > m) /\ ~(m > k)
    BY <2>1, <2>2, <2>3 DEF IsLine
  <2>5. m = k
    BY <1>0, <2>1, <2>4
  <2> QED
    BY <2>1, <2>2, <2>4, <2>5
<1>3. \A j \in DOMAIN r : r[j].type # "removed" => \E k \in 1 .. n : IsLine(tab, n, k, r[j])
  BY <1>1 DEF Follows
<1> QED
  BY <1>1, <1>2, <1>3 DEF InStep

(* The list init starts with.                                              *)
LEMMA InitialList ==
    ASSUME NEW tab \in Seq(Lines)
    PROVE  /\ parse_inittab(<<>>, tab) \in Seq(Actions)
           /\ Distinct(parse_inittab(<<>>, tab))
           /\ \A j \in DOMAIN parse_inittab(<<>>, tab) : parse_inittab(<<>>, tab)[j].pid = NoPid
           /\ InStep(parse_inittab(<<>>, tab), tab)
<1>1. /\ <<>> \in Seq(Actions) /\ Distinct(<<>>)
      /\ \A i \in DOMAIN <<>> : <<>>[i].type = "removed"
  BY DEF Distinct
<1>2. Parsed(<<>>, tab, Len(tab), parse_inittab(<<>>, tab))
  BY <1>1, ParseInittab
<1> QED
  BY <1>2, ParsedInStep DEF Parsed, Keeps

LEMMA DisabledList ==
    ASSUME NEW l \in Seq(Actions), Distinct(l)
    PROVE  /\ Disabled(l) \in Seq(Actions) /\ Distinct(Disabled(l))
           /\ DOMAIN Disabled(l) = DOMAIN l
           /\ \A i \in DOMAIN l : /\ Disabled(l)[i].cmd = l[i].cmd /\ Disabled(l)[i].pid = l[i].pid
                                  /\ Disabled(l)[i].type = "removed"
<1>0. Len(l) \in Nat /\ DOMAIN l = 1 .. Len(l) /\ \A i \in DOMAIN l : l[i] \in Actions
  BY LenProperties, ElementOfSeq
<1>1. \A i \in DOMAIN l : [l[i] EXCEPT !.type = "removed"] \in Actions
  BY <1>0 DEF Actions
<1>2. \A i \in DOMAIN l : /\ Disabled(l)[i].cmd = l[i].cmd /\ Disabled(l)[i].pid = l[i].pid
                          /\ Disabled(l)[i].type = "removed"
  BY <1>0 DEF Disabled, Actions
<1>3. Disabled(l) \in [1 .. Len(l) -> Actions]
  BY <1>0, <1>1 DEF Disabled
<1>4. Disabled(l) \in Seq(Actions)
  BY <1>0, <1>3
<1>5. DOMAIN Disabled(l) = DOMAIN l
  BY DEF Disabled
<1> QED
  BY <1>2, <1>4, <1>5 DEF Distinct

(* The list after a reload: no process changes its entry, no entry with a  *)
(* process goes, and the list is that of the new file.                     *)
AfterReload(l, tab, r) ==
    /\ r \in Seq(Actions) /\ Distinct(r)
    /\ \A j \in DOMAIN r : \/ r[j].pid = NoPid
                           \/ \E i \in DOMAIN l : l[i].cmd = r[j].cmd /\ l[i].pid = r[j].pid
    /\ \A i \in DOMAIN l : l[i].pid # NoPid =>
          \E j \in DOMAIN r : r[j].cmd = l[i].cmd /\ r[j].pid = l[i].pid
    /\ InStep(r, tab)

LEMMA Reloaded ==
    ASSUME NEW l \in Seq(Actions), Distinct(l), NEW tab \in Seq(Lines),
           NEW r, r = reload_inittab(l, tab)
    PROVE  AfterReload(l, tab, r)
<1> DEFINE d == Disabled(l)
           P == parse_inittab(d, tab)
<1>1. /\ d \in Seq(Actions) /\ Distinct(d) /\ DOMAIN d = DOMAIN l
      /\ \A i \in DOMAIN l : d[i].cmd = l[i].cmd /\ d[i].pid = l[i].pid /\ d[i].type = "removed"
  BY DisabledList
<1>2. Parsed(d, tab, Len(tab), P)
  <2> HIDE DEF d
  <2> QED
    BY <1>1, ParseInittab
<1>3. P \in Seq(Actions) /\ Distinct(P) /\ Keeps(d, P) /\ InStep(P, tab)
  BY <1>2, ParsedInStep DEF Parsed
<1>4. r = RemoveStale(P)
  BY DEF reload_inittab
<1> HIDE DEF d, P
<1>5. Filtered(P, Len(P), r)
  BY <1>3, <1>4, RemovesStale
<1>6. r \in Seq(Actions) /\ \E h : IsKept(P, Len(P), r, h)
  BY <1>5 DEF Filtered
<1>7. PICK h : IsKept(P, Len(P), r, h)
  BY <1>6
<1>8. /\ DOMAIN r = 1 .. Len(r) /\ DOMAIN P = 1 .. Len(P) /\ Len(r) \in Nat /\ Len(P) \in Nat
      /\ Len(tab) \in Nat /\ DOMAIN tab = 1 .. Len(tab)
  BY <1>3, <1>6, LenProperties
<1>9. /\ \A j \in DOMAIN r : h[j] \in DOMAIN P /\ r[j] = P[h[j]]
      /\ \A j, k \in DOMAIN r : j < k => h[j] < h[k]
      /\ \A i \in DOMAIN P : ~Stale(P[i]) => \E j \in DOMAIN r : h[j] = i /\ r[j] = P[i]
  <2>1. \A j \in DOMAIN r : h[j] \in DOMAIN P /\ r[j] = P[h[j]]
    BY <1>7, <1>8 DEF IsKept
  <2>2. \A j, k \in DOMAIN r : j < k => h[j] < h[k]
    BY <1>7, <1>8 DEF IsKept
  <2>3. \A i \in DOMAIN P : ~Stale(P[i]) => \E j \in DOMAIN r : h[j] = i
    BY <1>7, <1>8 DEF IsKept
  <2> QED
    BY <2>1, <2>2, <2>3
<1>10. Distinct(r)
  <2> SUFFICES ASSUME NEW i \in DOMAIN r, NEW j \in DOMAIN r, r[i].cmd = r[j].cmd, i < j
               PROVE  FALSE
    BY <1>8 DEF Distinct
  <2>1. h[i] < h[j] /\ h[i] \in Nat
    BY <1>8, <1>9
  <2>2. h[i] = h[j]
    BY <1>3, <1>9 DEF Distinct
  <2> QED
    BY <2>1, <2>2
<1>11. ASSUME NEW j \in DOMAIN r
       PROVE  \/ r[j].pid = NoPid
              \/ \E i \in DOMAIN l : l[i].cmd = r[j].cmd /\ l[i].pid = r[j].pid
  <2>1. h[j] \in DOMAIN P /\ r[j] = P[h[j]]
    BY <1>9
  <2>2. P[h[j]].pid = NoPid \/ \E i \in DOMAIN d : d[i].cmd = P[h[j]].cmd /\ d[i].pid = P[h[j]].pid
    BY <1>3, <2>1 DEF Keeps
  <2> QED
    BY <1>1, <2>1, <2>2
<1>12. ASSUME NEW i \in DOMAIN l, l[i].pid # NoPid
       PROVE  \E j \in DOMAIN r : r[j].cmd = l[i].cmd /\ r[j].pid = l[i].pid
  <2>1. PICK k \in DOMAIN P : P[k].cmd = d[i].cmd /\ P[k].pid = d[i].pid
    BY <1>1, <1>3 DEF Keeps
  <2>2. ~Stale(P[k]) /\ P[k].cmd = l[i].cmd /\ P[k].pid = l[i].pid
    BY <1>1, <1>12, <2>1 DEF Stale
  <2>3. PICK j \in DOMAIN r : r[j] = P[k]
    BY <1>9, <2>2
  <2> QED
    BY <2>2, <2>3
<1>13. InStep(r, tab)
  <2>1. \A j \in DOMAIN r : r[j].type # "removed" => \E k \in 1 .. Len(tab) : IsLine(tab, Len(tab), k, r[j])
    BY <1>3, <1>9 DEF InStep
  <2>2. OrderedAs(r, tab, Len(tab))
    <3> SUFFICES ASSUME NEW i \in DOMAIN r, NEW j \in DOMAIN r,
                        NEW k \in 1 .. Len(tab), NEW m \in 1 .. Len(tab),
                        i < j, IsLine(tab, Len(tab), k, r[i]), IsLine(tab, Len(tab), m, r[j])
                 PROVE  k < m
      BY DEF OrderedAs
    <3>1. /\ h[i] \in DOMAIN P /\ r[i] = P[h[i]]
          /\ h[j] \in DOMAIN P /\ r[j] = P[h[j]]
          /\ h[i] < h[j]
      BY <1>9
    <3>2. OrderedAs(P, tab, Len(tab))
      BY <1>3 DEF InStep
    <3> QED
      BY <3>1, <3>2 DEF OrderedAs
  <2>3. ASSUME NEW k \in LinesOf(tab, "shutdown")
        PROVE  \E j \in DOMAIN r : r[j].cmd = tab[k].cmd /\ r[j].type = "shutdown"
    <3>1. PICK i \in DOMAIN P : P[i].cmd = tab[k].cmd /\ P[i].type = "shutdown"
      BY <1>3 DEF InStep
    <3>2. ~Stale(P[i])
      BY <3>1 DEF Stale
    <3>3. PICK j \in DOMAIN r : r[j] = P[i]
      BY <1>9, <3>2
    <3> QED
      BY <3>1, <3>3
  <2> QED
    BY <2>1, <2>2, <2>3 DEF InStep
<1> QED
  BY <1>6, <1>10, <1>11, <1>12, <1>13 DEF AfterReload

LEMMA Marked ==
    ASSUME NEW l \in Seq(Actions), NEW p, p # NoPid
    PROVE  /\ mark_terminated(l, p) \in Seq(Actions)
           /\ DOMAIN mark_terminated(l, p) = DOMAIN l
           /\ \A i \in DOMAIN l :
                 /\ mark_terminated(l, p)[i].cmd = l[i].cmd
                 /\ mark_terminated(l, p)[i].type = l[i].type
                 /\ \/ mark_terminated(l, p)[i] = l[i]
                    \/ mark_terminated(l, p)[i].pid = NoPid /\ l[i].pid = p
                 /\ l[i].pid = p /\ (\A j \in DOMAIN l : l[j].pid = p => i = j)
                        => mark_terminated(l, p)[i].pid = NoPid
<1>0. Len(l) \in Nat /\ DOMAIN l = 1 .. Len(l) /\ \A i \in DOMAIN l : l[i] \in Actions
  BY LenProperties, ElementOfSeq
<1> DEFINE first(i) == l[i].pid = p /\ (\A j \in DOMAIN l : l[j].pid = p => i <= j)
           m == mark_terminated(l, p)
<1>1. /\ DOMAIN m = DOMAIN l
      /\ \A i \in DOMAIN l : m[i] = IF first(i) THEN [l[i] EXCEPT !.pid = NoPid] ELSE l[i]
  BY DEF mark_terminated
<1>2. \A i \in DOMAIN l : /\ [l[i] EXCEPT !.pid = NoPid] \in Actions
                          /\ [l[i] EXCEPT !.pid = NoPid].pid = NoPid
                          /\ [l[i] EXCEPT !.pid = NoPid].cmd = l[i].cmd
                          /\ [l[i] EXCEPT !.pid = NoPid].type = l[i].type
  BY <1>0 DEF Actions
<1>3. \A i \in DOMAIN l : l[i].pid = p /\ (\A j \in DOMAIN l : l[j].pid = p => i = j) => first(i)
  BY <1>0
<1>4. \A i \in DOMAIN l : first(i) => l[i].pid = p
  OBVIOUS
<1> HIDE DEF first
<1>5. m \in [1 .. Len(l) -> Actions]
  BY <1>0, <1>1, <1>2 DEF mark_terminated
<1> HIDE DEF m
<1>6. m \in Seq(Actions)
  BY <1>0, <1>5
<1>7. \A i \in DOMAIN l :
         /\ m[i].cmd = l[i].cmd /\ m[i].type = l[i].type
         /\ m[i] = l[i] \/ (m[i].pid = NoPid /\ l[i].pid = p)
         /\ l[i].pid = p /\ (\A j \in DOMAIN l : l[j].pid = p => i = j) => m[i].pid = NoPid
  BY <1>1, <1>2, <1>3, <1>4
<1> QED
  BY <1>1, <1>6, <1>7 DEF m

-----------------------------------------------------------------------------
(* The control state of init.                                              *)

LEMMA NoProcess == NoPid \notin Pids /\ ForkError \notin Pids /\ NoPid # ForkError
BY InitAssumption DEF NoPid, ForkError

LEMMA AfterIs ==
    /\ stage = "sysinit" => After = "poll1"
    /\ stage = "wait" => After = "poll2"
    /\ stage = "once" => After = "respawn"
    /\ stage = "respawn" => After = "sigwait"
    /\ stage = "ctrlaltdel" => After = back
    /\ stage = "shutdown" => After = "term"
BY DEF After

LEMMA ThenIs ==
    /\ stage = "poll1" => Then = "wait"
    /\ stage = "poll2" => Then = "once"
    /\ stage = "sigwait" => Then = "reap"
BY DEF Then

(* Before the respawn entries are started for the first time.              *)
Early ==
    \/ stage \in {"sysinit", "poll1", "wait", "poll2", "once"}
    \/ stage = "ctrlaltdel" /\ back # "reap"

Control ==
    /\ stopped => stage \in StopsIn
    /\ stage = "ctrlaltdel" => back \in {"wait", "once", "reap"}
    /\ stage \notin RunStages => at = 1
    /\ forked # NoPid => stage = "respawn"
    /\ waited # NoPid => stage \in WaitStages
    /\ stage \in Stages

(* A shutdown command that is waited for is a child: nobody else reaps it. *)
Awaited ==
    stage = "shutdown" /\ waited # NoPid =>
        proc[waited] # "free" /\ job[waited].cmd \in Commands

LEMMA ControlStep ==
    ASSUME Control, [Next]_vars
    PROVE  Control'
<1> USE InitAssumption DEF Control, Stages, RunStages, WaitStages, PollStages, control, processes, world
<1>1. ASSUME NEW p \in Pids, RunEntry(p)
      PROVE  Control'
  BY <1>1 DEF RunEntry, Reap, InRunActions, Fork
<1>2. ASSUME NEW p \in Pids, ReapOne(p)
      PROVE  Control'
  BY <1>2 DEF ReapOne, Reap, InRunActions, Fork
<1>3. ASSUME NEW wpid \in Pids \cup {NoPid}, waitfor(wpid)
      PROVE  Control'
  BY <1>3 DEF waitfor, Reap, InRunActions, Fork
<1>4. CASE StorePid
  BY <1>4 DEF StorePid, Reap, InRunActions, Fork
<1>5. CASE RunFails
  BY <1>5 DEF RunFails, Reap, InRunActions, Fork
<1>6. CASE EndActions
  BY <1>6, AfterIs DEF EndActions, InRunActions
<1>7. CASE PollNothing
  BY <1>7, ThenIs DEF PollNothing, TakeSignal, PollStages
<1>8. CASE TakeWakeup
  BY <1>8, ThenIs DEF TakeWakeup, TakeSignal, PollStages
<1>9. CASE TakeReload
  BY <1>9, ThenIs DEF TakeReload, TakeSignal, PollStages
<1>10. CASE TakeCtrlAltDel
  BY <1>10, ThenIs DEF TakeCtrlAltDel, TakeSignal, PollStages
<1>11. CASE TakeShutdown
  BY <1>11, ThenIs DEF TakeShutdown, TakeSignal, PollStages
<1>12. CASE ReapDone
  BY <1>12 DEF ReapDone, Reap, InRunActions, Fork
<1>13. CASE KillAll
  BY <1>13 DEF KillAll, Reap, InRunActions, Fork
<1>14. CASE Stop
  BY <1>14 DEF Stop, Reap, InRunActions, Fork
<1>15. CASE Continue
  BY <1>15 DEF Continue, Reap, InRunActions, Fork
<1>16. ASSUME NEW p \in Pids, StopReap(p)
      PROVE  Control'
  BY <1>16 DEF StopReap, Reap, InRunActions, Fork
<1>17. ASSUME NEW p \in Pids, Exit(p)
      PROVE  Control'
  BY <1>17 DEF Exit, Reap, InRunActions, Fork
<1>18. ASSUME NEW p \in Pids, NEW q \in Pids, SpawnDaemon(p, q)
      PROVE  Control'
  BY <1>18 DEF SpawnDaemon, Reap, InRunActions, Fork
<1>19. ASSUME NEW s \in Signals, SendSignal(s)
      PROVE  Control'
  BY <1>19 DEF SendSignal, Reap, InRunActions, Fork
<1>20. CASE EditInittab
  BY <1>20 DEF EditInittab, Reap, InRunActions, Fork
<1>21. CASE UNCHANGED vars
  BY <1>21 DEF vars, Reap, InRunActions, Fork
<1> QED
  BY <1>1, <1>2, <1>3, <1>4, <1>5, <1>6, <1>7, <1>8, <1>9, <1>10, <1>11, <1>12, <1>13, <1>14, <1>15, <1>16, <1>17, <1>18, <1>19, <1>20, <1>21 DEF Next, InitSteps, Stopping, World

-----------------------------------------------------------------------------
(* The list of actions.                                                    *)

ListInv == Distinct(list) /\ InStep(list, loaded)

LEMMA SamePositions ==
    ASSUME NEW l, NEW m, NEW tab, DOMAIN m = DOMAIN l,
           \A i \in DOMAIN l : m[i].cmd = l[i].cmd /\ m[i].type = l[i].type,
           Distinct(l), InStep(l, tab)
    PROVE  Distinct(m) /\ InStep(m, tab)
<1>1. \A i \in DOMAIN l : \A k : IsLine(tab, Len(tab), k, m[i]) <=> IsLine(tab, Len(tab), k, l[i])
  BY DEF IsLine
<1>2. Distinct(m)
  BY DEF Distinct
<1>3. OrderedAs(m, tab, Len(tab))
  BY <1>1 DEF InStep, OrderedAs
<1>4. \A j \in DOMAIN m : m[j].type # "removed" => \E k \in 1 .. Len(tab) : IsLine(tab, Len(tab), k, m[j])
  BY <1>1 DEF InStep
<1>5. \A k \in LinesOf(tab, "shutdown") :
          \E j \in DOMAIN m : m[j].cmd = tab[k].cmd /\ m[j].type = "shutdown"
  BY DEF InStep
<1> QED
  BY <1>2, <1>3, <1>4, <1>5 DEF InStep

LEMMA PidStored ==
    ASSUME NEW l \in Seq(Actions), NEW i, NEW p \in Pids \cup {NoPid, ForkError},
           NEW m, m = [l EXCEPT ![i].pid = p]
    PROVE  /\ m \in Seq(Actions) /\ DOMAIN m = DOMAIN l
           /\ \A j \in DOMAIN l : /\ m[j].cmd = l[j].cmd /\ m[j].type = l[j].type
                                  /\ m[j].pid = IF j = i THEN p ELSE l[j].pid
<1>0. Len(l) \in Nat /\ DOMAIN l = 1 .. Len(l) /\ \A j \in DOMAIN l : l[j] \in Actions
  BY LenProperties, ElementOfSeq
<1>1. DOMAIN m = DOMAIN l /\ \A j \in DOMAIN l : m[j] = IF j = i THEN [l[j] EXCEPT !.pid = p] ELSE l[j]
  OBVIOUS
<1>2. \A j \in DOMAIN l : /\ [l[j] EXCEPT !.pid = p] \in Actions
                          /\ [l[j] EXCEPT !.pid = p].pid = p
                          /\ [l[j] EXCEPT !.pid = p].cmd = l[j].cmd
                          /\ [l[j] EXCEPT !.pid = p].type = l[j].type
  BY <1>0 DEF Actions
<1>3. \A j \in DOMAIN l : m[j] \in Actions
  BY <1>0, <1>1, <1>2
<1>4. m \in [1 .. Len(l) -> Actions]
  BY <1>0, <1>1, <1>3
<1>5. m \in Seq(Actions)
  BY <1>0, <1>4
<1> QED
  BY <1>1, <1>2, <1>5

LEMMA FirstRemaining ==
    ASSUME TypeOK, Remaining # {}
    PROVE  /\ Min(Remaining) \in DOMAIN list /\ Min(Remaining) >= at
           /\ Runs(list[Min(Remaining)])
           /\ \A i \in DOMAIN list : at <= i /\ i < Min(Remaining) => ~Runs(list[i])
<1>1. at \in Nat \ {0} /\ list \in Seq(Actions) /\ Len(list) \in Nat /\ DOMAIN list = 1 .. Len(list)
  BY LenProperties DEF TypeOK
<1>2. Remaining \subseteq Nat
  BY <1>1 DEF Remaining
<1>3. Min(Remaining) \in Remaining /\ \A i \in Remaining : Min(Remaining) <= i
  BY <1>2, MinIsLeast
<1>4. Min(Remaining) \in at .. Len(list) /\ Runs(list[Min(Remaining)])
  BY <1>3 DEF Remaining
<1>5. \A i \in DOMAIN list : at <= i /\ Runs(list[i]) => i \in Remaining
  BY <1>1 DEF Remaining
<1>6. \A i \in DOMAIN list : at <= i /\ i < Min(Remaining) => ~Runs(list[i])
  <2> SUFFICES ASSUME NEW i \in DOMAIN list, at <= i, i < Min(Remaining), Runs(list[i])
               PROVE  FALSE
    OBVIOUS
  <2>1. Min(Remaining) <= i
    BY <1>3, <1>5
  <2> QED
    BY <1>1, <1>4, <2>1
<1> QED
  BY <1>1, <1>4, <1>6

LEMMA TabsAreLines == \A t \in Inittabs : t \in Seq(Lines)
BY InitAssumption DEF Lines

LEMMA ReloadedList ==
    ASSUME TypeOK, ListInv, TakeReload
    PROVE  AfterReload(list, inittab, list') /\ loaded' = inittab
<1>1. /\ list \in Seq(Actions) /\ inittab \in Seq(Lines) /\ Distinct(list)
      /\ list' = reload_inittab(list, inittab) /\ loaded' = inittab
  BY TabsAreLines DEF TakeReload, TypeOK, ListInv
<1> QED
  BY <1>1, Reloaded

(* The list after a child was reaped.                                      *)
LEMMA Reaped ==
    ASSUME TypeOK, NEW p \in Pids, Reap(p)
    PROVE  /\ proc[p] = "zombie" /\ proc' = [proc EXCEPT ![p] = "free"]
           /\ job' = [job EXCEPT ![p] = NoJob]
           /\ list' \in Seq(Actions) /\ DOMAIN list' = DOMAIN list
           /\ \A i \in DOMAIN list :
                 /\ list'[i].cmd = list[i].cmd /\ list'[i].type = list[i].type
                 /\ list'[i] = list[i] \/ (list'[i].pid = NoPid /\ list[i].pid = p)
                 /\ list[i].pid = p /\ (\A j \in DOMAIN list : list[j].pid = p => i = j)
                        => list'[i].pid = NoPid
<1>1. p # NoPid
  BY NoProcess
<1>2. list \in Seq(Actions)
  BY DEF TypeOK
<1> QED
  BY <1>1, <1>2, Marked DEF Reap

(* Commands stay distinct and in the order of the file that was loaded.    *)
LEMMA ListStep ==
    ASSUME TypeOK, ListInv, [Next]_vars
    PROVE  ListInv'
<1>1. ASSUME NEW p \in Pids, RunEntry(p)
      PROVE  ListInv'
  BY <1>1 DEF RunEntry, ListInv
<1>2. ASSUME NEW p \in Pids, ReapOne(p)
      PROVE  ListInv'
  <2>1. Reap(p) /\ loaded' = loaded
    BY <1>2 DEF ReapOne
  <2> QED
    BY <2>1, Reaped, SamePositions DEF ListInv
<1>3. ASSUME NEW wpid \in Pids \cup {NoPid}, waitfor(wpid)
      PROVE  ListInv'
  <2>1. CASE wpid = NoPid
    BY <1>3, <2>1 DEF waitfor, WaitAny, ListInv
  <2>2. CASE wpid \in Pids
    <3>1. Reap(wpid) /\ loaded' = loaded
      BY <1>3, <2>2, NoProcess DEF waitfor, WaitAny
    <3> QED
      BY <2>2, <3>1, Reaped, SamePositions DEF ListInv
  <2> QED
    BY <2>1, <2>2
<1>4. CASE StorePid
  <2>1. /\ list \in Seq(Actions) /\ forked \in Pids \cup {NoPid, ForkError}
        /\ list' = [list EXCEPT ![at].pid = forked] /\ loaded' = loaded
    BY <1>4 DEF StorePid, TypeOK
  <2>2. /\ DOMAIN list' = DOMAIN list
        /\ \A i \in DOMAIN list : list'[i].cmd = list[i].cmd /\ list'[i].type = list[i].type
    BY <2>1, PidStored
  <2> QED
    BY <2>1, <2>2, SamePositions DEF ListInv
<1>5. CASE RunFails
  <2>1. list \in Seq(Actions) /\ loaded' = loaded
    BY <1>5 DEF RunFails, TypeOK
  <2>2. list' = list \/ list' = [list EXCEPT ![Min(Remaining)].pid = ForkError]
    BY <1>5 DEF RunFails
  <2>3. /\ DOMAIN list' = DOMAIN list
        /\ \A i \in DOMAIN list : list'[i].cmd = list[i].cmd /\ list'[i].type = list[i].type
    <3>1. ASSUME NEW i, list' = [list EXCEPT ![i].pid = ForkError]
          PROVE  /\ DOMAIN list' = DOMAIN list
                 /\ \A j \in DOMAIN list : list'[j].cmd = list[j].cmd /\ list'[j].type = list[j].type
      BY <2>1, <3>1, PidStored
    <3> QED
      BY <2>2, <3>1
  <2> QED
    BY <2>1, <2>3, SamePositions DEF ListInv
<1>6. CASE EndActions
  BY <1>6 DEF EndActions, ListInv
<1>7. CASE PollNothing
  BY <1>7 DEF PollNothing, ListInv
<1>8. CASE TakeWakeup
  BY <1>8 DEF TakeWakeup, ListInv
<1>9. CASE TakeReload
  BY <1>9, ReloadedList DEF AfterReload, ListInv
<1>10. CASE TakeCtrlAltDel
  BY <1>10 DEF TakeCtrlAltDel, ListInv
<1>11. CASE TakeShutdown
  BY <1>11 DEF TakeShutdown, ListInv
<1>12. CASE ReapDone
  BY <1>12 DEF ReapDone, ListInv
<1>13. CASE KillAll
  BY <1>13 DEF KillAll, ListInv
<1>14. CASE Stop
  BY <1>14 DEF Stop, ListInv
<1>15. CASE Continue
  BY <1>15 DEF Continue, ListInv
<1>16. ASSUME NEW p \in Pids, StopReap(p)
      PROVE  ListInv'
  <2>1. Reap(p) /\ loaded' = loaded
    BY <1>16 DEF StopReap
  <2> QED
    BY <2>1, Reaped, SamePositions DEF ListInv
<1>17. ASSUME NEW p \in Pids, Exit(p)
      PROVE  ListInv'
  BY <1>17 DEF Exit, ListInv
<1>18. ASSUME NEW p \in Pids, NEW q \in Pids, SpawnDaemon(p, q)
      PROVE  ListInv'
  BY <1>18 DEF SpawnDaemon, ListInv
<1>19. ASSUME NEW s \in Signals, SendSignal(s)
      PROVE  ListInv'
  BY <1>19 DEF SendSignal, ListInv
<1>20. CASE EditInittab
  BY <1>20 DEF EditInittab, ListInv
<1>21. CASE UNCHANGED vars
  BY <1>21 DEF vars, ListInv
<1> QED
  BY <1>1, <1>2, <1>3, <1>4, <1>5, <1>6, <1>7, <1>8, <1>9, <1>10, <1>11, <1>12, <1>13, <1>14, <1>15, <1>16, <1>17, <1>18, <1>19, <1>20, <1>21 DEF Next, InitSteps, Stopping, World

-----------------------------------------------------------------------------
(* Type correctness.                                                       *)

LEMMA TypeStep ==
    ASSUME TypeOK, Control, ListInv, Awaited, [Next]_vars
    PROVE  TypeOK'
<1> USE InitAssumption DEF TypeOK, Stages, RunStages, WaitStages, PollStages, DelayedSignals
<1>1. ASSUME NEW p \in Pids, RunEntry(p)
      PROVE  TypeOK'
  <2>1. /\ Min(Remaining) \in DOMAIN list /\ Min(Remaining) >= at
        /\ list[Min(Remaining)].cmd \in Commands /\ Min(Remaining) \in Nat \ {0}
    <3>1. Min(Remaining) \in DOMAIN list /\ Min(Remaining) >= at
      BY <1>1, FirstRemaining DEF RunEntry
    <3>2. list \in Seq(Actions) /\ DOMAIN list = 1 .. Len(list) /\ Len(list) \in Nat
      BY LenProperties
    <3>3. list[Min(Remaining)] \in Actions
      BY <3>1, <3>2, ElementOfSeq
    <3> QED
      BY <3>1, <3>2, <3>3 DEF Actions
  <2>2. at' \in Nat \ {0}
    BY <1>1, <2>1 DEF RunEntry
  <2>3. stage \in RunStages
    BY <1>1 DEF RunEntry, InRunActions
  <2>4. job' \in [Pids -> [cmd : Commands \cup {"none", "daemon"}, how : RunStages \cup {"none"}]]
    BY <1>1, <2>1, <2>3 DEF RunEntry, Fork
  <2>5. proc' \in [Pids -> {"free", "running", "zombie"}]
    BY <1>1 DEF RunEntry, Fork
  <2>6. forked' \in Pids \cup {NoPid} /\ waited' \in Pids \cup {NoPid}
    BY <1>1 DEF RunEntry
  <2> QED
    BY <1>1, <2>2, <2>4, <2>5, <2>6 DEF RunEntry, world
<1>2. ASSUME NEW p \in Pids, ReapOne(p)
      PROVE  TypeOK'
  <2>1. Reap(p)
    BY <1>2 DEF ReapOne
  <2>2. /\ list' \in Seq(Actions) /\ proc' = [proc EXCEPT ![p] = "free"]
        /\ job' = [job EXCEPT ![p] = NoJob]
    BY <2>1, Reaped
  <2> QED
    BY <1>2, <2>2 DEF ReapOne, NoJob, world, control
<1>3. ASSUME NEW wpid \in Pids \cup {NoPid}, waitfor(wpid)
      PROVE  TypeOK'
  <2>1. ended' \in Seq(Commands)
    <3>1. CASE proc'[waited] = "free" /\ stage = "shutdown"
      <4>1. job[waited].cmd \in Commands /\ ended \in Seq(Commands)
        BY <1>3, <3>1 DEF waitfor, Awaited
      <4>2. Append(ended, job[waited].cmd) \in Seq(Commands)
        BY <4>1, AppendProperties
      <4> QED
        BY <1>3, <3>1, <4>2 DEF waitfor
    <3>2. CASE ~(proc'[waited] = "free" /\ stage = "shutdown")
      BY <1>3, <3>2 DEF waitfor
    <3> QED
      BY <3>1, <3>2
  <2>2. waited' \in Pids \cup {NoPid}
    BY <1>3 DEF waitfor
  <2>3. CASE wpid = NoPid
    BY <1>3, <2>1, <2>2, <2>3 DEF waitfor, WaitAny, processes, world
  <2>4. CASE wpid \in Pids
    <3>1. Reap(wpid)
      BY <1>3, <2>4, NoProcess DEF waitfor, WaitAny
    <3>2. /\ list' \in Seq(Actions) /\ proc' = [proc EXCEPT ![wpid] = "free"]
          /\ job' = [job EXCEPT ![wpid] = NoJob]
      BY <2>4, <3>1, Reaped
    <3> QED
      BY <1>3, <2>1, <2>2, <3>2, ZenonT(30) DEF waitfor, NoJob, world
  <2> QED
    BY <2>3, <2>4
<1>4. CASE StorePid
  <2>1. forked \in Pids \cup {NoPid, ForkError} /\ list' = [list EXCEPT ![at].pid = forked]
    BY <1>4 DEF StorePid
  <2>2. list' \in Seq(Actions)
    BY <2>1, PidStored
  <2>3. at' \in Nat \ {0}
    BY <1>4 DEF StorePid
  <2> QED
    BY <1>4, <2>2, <2>3 DEF StorePid, processes, world
<1>5. CASE RunFails
  <2>1. Min(Remaining) \in Nat \ {0}
    <3>1. Min(Remaining) \in DOMAIN list
      BY <1>5, FirstRemaining DEF RunFails
    <3> QED
      BY <3>1, LenProperties
  <2>2. at' \in Nat \ {0}
    BY <1>5, <2>1 DEF RunFails
  <2>3. list' \in Seq(Actions)
    <3>1. ASSUME NEW i, list' = [list EXCEPT ![i].pid = ForkError] PROVE list' \in Seq(Actions)
      BY <3>1, PidStored
    <3> QED
      BY <1>5, <3>1 DEF RunFails
  <2> QED
    BY <1>5, <2>2, <2>3 DEF RunFails, processes, world
<1>6. CASE EndActions
  BY <1>6, AfterIs DEF EndActions, InRunActions, Control, processes, world
<1>7. CASE PollNothing
  BY <1>7, ThenIs DEF PollNothing, TakeSignal, processes, world
<1>8. CASE TakeWakeup
  BY <1>8, ThenIs DEF TakeWakeup, TakeSignal, processes, world
<1>9. CASE TakeReload
  <2>1. list' \in Seq(Actions)
    BY <1>9, ReloadedList DEF AfterReload
  <2> QED
    BY <1>9, <2>1, ThenIs DEF TakeReload, TakeSignal, processes, world
<1>10. CASE TakeCtrlAltDel
  BY <1>10, ThenIs DEF TakeCtrlAltDel, TakeSignal, processes, world
<1>11. CASE TakeShutdown
  BY <1>11, ThenIs DEF TakeShutdown, TakeSignal, processes, world
<1>12. CASE ReapDone
  BY <1>12 DEF ReapDone, processes, world, control
<1>13. CASE KillAll
  BY <1>13 DEF KillAll, processes, world, control
<1>14. CASE Stop
  BY <1>14 DEF Stop, processes, world, control
<1>15. CASE Continue
  BY <1>15 DEF Continue, processes, world, control
<1>16. ASSUME NEW p \in Pids, StopReap(p)
      PROVE  TypeOK'
  <2>1. Reap(p)
    BY <1>16 DEF StopReap
  <2>2. /\ list' \in Seq(Actions) /\ proc' = [proc EXCEPT ![p] = "free"]
        /\ job' = [job EXCEPT ![p] = NoJob]
    BY <2>1, Reaped
  <2> QED
    BY <1>16, <2>2 DEF StopReap, NoJob, world, control
<1>17. ASSUME NEW p \in Pids, Exit(p)
      PROVE  TypeOK'
  BY <1>17 DEF Exit, processes, world, control
<1>18. ASSUME NEW p \in Pids, NEW q \in Pids, SpawnDaemon(p, q)
      PROVE  TypeOK'
  <2>1. job' \in [Pids -> [cmd : Commands \cup {"none", "daemon"}, how : RunStages \cup {"none"}]]
    BY <1>18 DEF SpawnDaemon, Fork, Daemon
  <2> QED
    BY <1>18, <2>1 DEF SpawnDaemon, Fork, control
<1>19. ASSUME NEW s \in Signals, SendSignal(s)
      PROVE  TypeOK'
  BY <1>19 DEF SendSignal, processes, world, control
<1>20. CASE EditInittab
  BY <1>20 DEF EditInittab, processes, world, control
<1>21. CASE UNCHANGED vars
  BY <1>21 DEF vars, processes, world, control
<1> QED
  BY <1>1, <1>2, <1>3, <1>4, <1>5, <1>6, <1>7, <1>8, <1>9, <1>10, <1>11, <1>12, <1>13, <1>14, <1>15, <1>16, <1>17, <1>18, <1>19, <1>20, <1>21 DEF Next, InitSteps, Stopping, World

LEMMA AwaitedStep ==
    ASSUME TypeOK, Control, Awaited, [Next]_vars
    PROVE  Awaited'
<1> USE DEF Awaited
<1>1. ASSUME NEW p \in Pids, RunEntry(p)
      PROVE  Awaited'
  <2> SUFFICES ASSUME stage = "shutdown" PROVE proc'[p] # "free" /\ job'[p].cmd \in Commands
    BY <1>1 DEF RunEntry, InRunActions
  <2>1. list[Min(Remaining)] \in Actions
    <3>1. Min(Remaining) \in DOMAIN list
      BY <1>1, FirstRemaining DEF RunEntry
    <3> QED
      BY <3>1, LenProperties, ElementOfSeq DEF TypeOK
  <2> QED
    BY <1>1, <2>1 DEF RunEntry, Fork, TypeOK, Actions
<1>2. ASSUME NEW p \in Pids, ReapOne(p)
      PROVE  Awaited'
  BY <1>2 DEF ReapOne, processes, control
<1>3. ASSUME NEW wpid \in Pids \cup {NoPid}, waitfor(wpid)
      PROVE  Awaited'
  <2> SUFFICES ASSUME stage = "shutdown", waited' # NoPid
               PROVE  proc'[waited] # "free" /\ job'[waited].cmd \in Commands
    BY <1>3 DEF waitfor
  <2>1. waited # NoPid /\ proc'[waited] # "free"
    BY <1>3 DEF waitfor
  <2>2. CASE wpid = NoPid
    BY <1>3, <2>1, <2>2 DEF waitfor, WaitAny, processes
  <2>3. CASE wpid \in Pids
    <3>1. Reap(wpid)
      BY <1>3, <2>3, NoProcess DEF waitfor, WaitAny
    <3>2. wpid # waited
      BY <2>1, <3>1 DEF Reap, TypeOK
    <3> QED
      BY <2>1, <3>1, <3>2 DEF Reap, TypeOK
  <2> QED
    BY <2>2, <2>3
<1>4. CASE StorePid
  BY <1>4 DEF StorePid, processes, control
<1>5. CASE RunFails
  BY <1>5 DEF RunFails, processes, control
<1>6. CASE EndActions
  BY <1>6, AfterIs DEF EndActions, InRunActions, Control, RunStages, WaitStages, processes
<1>7. CASE PollNothing
  BY <1>7, ThenIs DEF PollNothing, TakeSignal, Control, WaitStages, PollStages, processes
<1>8. CASE TakeWakeup
  BY <1>8, ThenIs DEF TakeWakeup, TakeSignal, Control, WaitStages, PollStages, processes
<1>9. CASE TakeReload
  BY <1>9, ThenIs DEF TakeReload, TakeSignal, Control, WaitStages, PollStages, processes
<1>10. CASE TakeCtrlAltDel
  BY <1>10, ThenIs DEF TakeCtrlAltDel, TakeSignal, Control, WaitStages, PollStages, processes
<1>11. CASE TakeShutdown
  BY <1>11, ThenIs DEF TakeShutdown, TakeSignal, Control, WaitStages, PollStages, processes
<1>12. CASE ReapDone
  BY <1>12 DEF ReapDone, processes, control
<1>13. CASE KillAll
  BY <1>13 DEF KillAll, processes, control
<1>14. CASE Stop
  BY <1>14 DEF Stop, processes, control
<1>15. CASE Continue
  BY <1>15 DEF Continue, processes, control
<1>16. ASSUME NEW p \in Pids, StopReap(p)
      PROVE  Awaited'
  BY <1>16, InitAssumption DEF StopReap, Control, control
<1>17. ASSUME NEW p \in Pids, Exit(p)
      PROVE  Awaited'
  BY <1>17 DEF Exit, TypeOK, control
<1>18. ASSUME NEW p \in Pids, NEW q \in Pids, SpawnDaemon(p, q)
      PROVE  Awaited'
  BY <1>18 DEF SpawnDaemon, Fork, TypeOK, control
<1>19. ASSUME NEW s \in Signals, SendSignal(s)
      PROVE  Awaited'
  BY <1>19 DEF SendSignal, processes, control
<1>20. CASE EditInittab
  BY <1>20 DEF EditInittab, processes, control
<1>21. CASE UNCHANGED vars
  BY <1>21 DEF vars, processes, control
<1> QED
  BY <1>1, <1>2, <1>3, <1>4, <1>5, <1>6, <1>7, <1>8, <1>9, <1>10, <1>11, <1>12, <1>13, <1>14, <1>15, <1>16, <1>17, <1>18, <1>19, <1>20, <1>21 DEF Next, InitSteps, Stopping, World

-----------------------------------------------------------------------------
(* Entries and processes.                                                  *)

(* The entry whose process was forked last waits for its pid.              *)
ForkedEntry == forked # NoPid => at \in DOMAIN list /\ list[at].pid = NoPid

(* Nothing is respawned before the boot stages are over.                   *)
NotYet ==
    Early => /\ \A i \in DOMAIN list : list[i].pid = NoPid
             /\ \A p \in Pids : job[p].how # "respawn"

Holds(p) ==
    \/ \E i \in DOMAIN list : list[i].pid = p /\ list[i].cmd = job[p].cmd
    \/ forked = p /\ list[at].cmd = job[p].cmd

(* Every respawned process that is not yet reaped has its entry.           *)
Kept == \A p \in Pids : proc[p] # "free" /\ job[p].how = "respawn" => Holds(p)

Listed(p) == forked = p \/ \E i \in DOMAIN list : list[i].pid = p

(* While init starts processes or sleeps, the death of a listed process is *)
(* announced by a pending SIGCHLD.                                         *)
Watched ==
    stage \in {"respawn", "sigwait"} =>
        \A p \in Pids : proc[p] = "zombie" /\ Listed(p) => "CHLD" \in pending

(* What reaping leaves of the pids in the list.                            *)
LEMMA ReapedPids ==
    ASSUME TypeOK, NEW p \in Pids, Reap(p)
    PROVE  /\ \A q \in Pids : (\E i \in DOMAIN list' : list'[i].pid = q)
                                 => \E i \in DOMAIN list : list[i].pid = q
           /\ \A q \in Pids : \A i \in DOMAIN list : q # p /\ list[i].pid = q => list'[i].pid = q
           /\ DOMAIN list' = DOMAIN list
           /\ \A i \in DOMAIN list : list'[i].cmd = list[i].cmd
           /\ \A i \in DOMAIN list : list[i].pid = NoPid => list'[i].pid = NoPid
BY Reaped, NoProcess

LEMMA WaitAnyIs ==
    ASSUME NEW wpid \in Pids \cup {NoPid}, WaitAny(wpid)
    PROVE  \/ list' = list /\ proc' = proc /\ job' = job
           \/ wpid \in Pids /\ Reap(wpid)
BY NoProcess DEF WaitAny, processes

LEMMA ForkedEntryStep ==
    ASSUME TypeOK, Control, ForkedEntry, [Next]_vars
    PROVE  ForkedEntry'
<1> USE DEF ForkedEntry
<1>1. ASSUME NEW p \in Pids, RunEntry(p)
      PROVE  ForkedEntry'
  <2>1. Min(Remaining) \in DOMAIN list /\ Runs(list[Min(Remaining)])
    BY <1>1, FirstRemaining DEF RunEntry
  <2> QED
    BY <1>1, <2>1, NoProcess DEF RunEntry, Runs
<1>2. ASSUME NEW p \in Pids, ReapOne(p)
      PROVE  ForkedEntry'
  <2>1. Reap(p) /\ UNCHANGED <<at, forked>>
    BY <1>2 DEF ReapOne, control
  <2> QED
    BY <2>1, ReapedPids
<1>3. ASSUME NEW wpid \in Pids \cup {NoPid}, waitfor(wpid)
      PROVE  ForkedEntry'
  <2>1. WaitAny(wpid) /\ UNCHANGED <<at, forked>>
    BY <1>3 DEF waitfor
  <2> QED
    BY <2>1, WaitAnyIs, ReapedPids
<1>4. CASE StorePid
  BY <1>4 DEF StorePid, InRunActions, control
<1>5. CASE RunFails
  BY <1>5 DEF RunFails, InRunActions, control
<1>6. CASE EndActions
  BY <1>6 DEF EndActions, InRunActions, control
<1>7. CASE PollNothing
  BY <1>7 DEF PollNothing, TakeSignal, Control, PollStages
<1>8. CASE TakeWakeup
  BY <1>8 DEF TakeWakeup, TakeSignal, Control, PollStages
<1>9. CASE TakeReload
  BY <1>9 DEF TakeReload, TakeSignal, Control, PollStages
<1>10. CASE TakeCtrlAltDel
  BY <1>10 DEF TakeCtrlAltDel, TakeSignal, Control, PollStages
<1>11. CASE TakeShutdown
  BY <1>11 DEF TakeShutdown, TakeSignal, Control, PollStages
<1>12. CASE ReapDone
  BY <1>12 DEF ReapDone, InRunActions, control
<1>13. CASE KillAll
  BY <1>13 DEF KillAll, InRunActions, control
<1>14. CASE Stop
  BY <1>14 DEF Stop, InRunActions, control
<1>15. CASE Continue
  BY <1>15 DEF Continue, InRunActions, control
<1>16. ASSUME NEW p \in Pids, StopReap(p)
      PROVE  ForkedEntry'
  <2>1. Reap(p) /\ UNCHANGED <<at, forked>>
    BY <1>16 DEF StopReap, control
  <2> QED
    BY <2>1, ReapedPids
<1>17. ASSUME NEW p \in Pids, Exit(p)
      PROVE  ForkedEntry'
  BY <1>17 DEF Exit, InRunActions, control
<1>18. ASSUME NEW p \in Pids, NEW q \in Pids, SpawnDaemon(p, q)
      PROVE  ForkedEntry'
  BY <1>18 DEF SpawnDaemon, InRunActions, control
<1>19. ASSUME NEW s \in Signals, SendSignal(s)
      PROVE  ForkedEntry'
  BY <1>19 DEF SendSignal, InRunActions, control
<1>20. CASE EditInittab
  BY <1>20 DEF EditInittab, InRunActions, control
<1>21. CASE UNCHANGED vars
  BY <1>21 DEF vars, InRunActions, control
<1> QED
  BY <1>1, <1>2, <1>3, <1>4, <1>5, <1>6, <1>7, <1>8, <1>9, <1>10, <1>11, <1>12, <1>13, <1>14, <1>15, <1>16, <1>17, <1>18, <1>19, <1>20, <1>21 DEF Next, InitSteps, Stopping, World

LEMMA NotYetStep ==
    ASSUME TypeOK, Control, ListInv, NotYet, [Next]_vars
    PROVE  NotYet'
<1> USE DEF NotYet
<1>1. ASSUME NEW p \in Pids, RunEntry(p)
      PROVE  NotYet'
  <2>1. Early' => Early /\ stage # "respawn"
    BY <1>1 DEF RunEntry, Early
  <2> QED
    BY <1>1, <2>1 DEF RunEntry, Fork, TypeOK
<1>2. ASSUME NEW p \in Pids, ReapOne(p)
      PROVE  NotYet'
  <2>1. Reap(p) /\ UNCHANGED <<stage, back>>
    BY <1>2 DEF ReapOne, control
  <2>2. \A q \in Pids : job'[q] = job[q] \/ job'[q].how = "none"
    BY <2>1 DEF Reap, NoJob, TypeOK
  <2> QED
    BY <2>1, <2>2, ReapedPids DEF Early
<1>3. ASSUME NEW wpid \in Pids \cup {NoPid}, waitfor(wpid)
      PROVE  NotYet'
  <2>1. WaitAny(wpid) /\ UNCHANGED <<stage, back>>
    BY <1>3 DEF waitfor
  <2>2. CASE list' = list /\ proc' = proc /\ job' = job
    BY <2>1, <2>2 DEF Early
  <2>3. CASE wpid \in Pids /\ Reap(wpid)
    <3>1. \A q \in Pids : job'[q] = job[q] \/ job'[q].how = "none"
      BY <2>3 DEF Reap, NoJob, TypeOK
    <3> QED
      BY <2>1, <2>3, <3>1, ReapedPids DEF Early
  <2> QED
    BY <2>1, <2>2, <2>3, WaitAnyIs
<1>4. CASE StorePid
  BY <1>4 DEF StorePid, Early, Control
<1>5. CASE RunFails
  BY <1>5 DEF RunFails, Early, processes
<1>6. CASE EndActions
  BY <1>6, AfterIs DEF EndActions, InRunActions, Early, Control, RunStages, WaitStages, processes
<1>7. CASE PollNothing
  BY <1>7, ThenIs DEF PollNothing, TakeSignal, Early, PollStages, processes
<1>8. CASE TakeWakeup
  BY <1>8, ThenIs DEF TakeWakeup, TakeSignal, Early, PollStages, processes
<1>9. CASE TakeReload
  <2>1. Early' => Early
    BY <1>9, ThenIs DEF TakeReload, TakeSignal, Early, PollStages
  <2>2. job' = job
    BY <1>9 DEF TakeReload, processes
  <2>3. \A j \in DOMAIN list' : \/ list'[j].pid = NoPid
                                 \/ \E i \in DOMAIN list : list[i].pid = list'[j].pid
    BY <1>9, ReloadedList DEF AfterReload
  <2> QED
    BY <2>1, <2>2, <2>3
<1>10. CASE TakeCtrlAltDel
  BY <1>10, ThenIs DEF TakeCtrlAltDel, TakeSignal, Early, PollStages, processes
<1>11. CASE TakeShutdown
  BY <1>11, ThenIs DEF TakeShutdown, TakeSignal, Early, PollStages, processes
<1>12. CASE ReapDone
  BY <1>12 DEF ReapDone, Early, processes, control
<1>13. CASE KillAll
  BY <1>13 DEF KillAll, Early, processes, control
<1>14. CASE Stop
  BY <1>14 DEF Stop, Early, processes, control
<1>15. CASE Continue
  BY <1>15 DEF Continue, Early, processes, control
<1>16. ASSUME NEW p \in Pids, StopReap(p)
      PROVE  NotYet'
  <2>1. Reap(p) /\ UNCHANGED <<stage, back>>
    BY <1>16 DEF StopReap, control
  <2>2. \A q \in Pids : job'[q] = job[q] \/ job'[q].how = "none"
    BY <2>1 DEF Reap, NoJob, TypeOK
  <2> QED
    BY <2>1, <2>2, ReapedPids DEF Early
<1>17. ASSUME NEW p \in Pids, Exit(p)
      PROVE  NotYet'
  BY <1>17 DEF Exit, Early, processes, control
<1>18. ASSUME NEW p \in Pids, NEW q \in Pids, SpawnDaemon(p, q)
      PROVE  NotYet'
  BY <1>18 DEF SpawnDaemon, Fork, Daemon, TypeOK, Early, control
<1>19. ASSUME NEW s \in Signals, SendSignal(s)
      PROVE  NotYet'
  BY <1>19 DEF SendSignal, Early, processes, control
<1>20. CASE EditInittab
  BY <1>20 DEF EditInittab, Early, processes, control
<1>21. CASE UNCHANGED vars
  BY <1>21 DEF vars, Early, processes, control
<1> QED
  BY <1>1, <1>2, <1>3, <1>4, <1>5, <1>6, <1>7, <1>8, <1>9, <1>10, <1>11, <1>12, <1>13, <1>14, <1>15, <1>16, <1>17, <1>18, <1>19, <1>20, <1>21 DEF Next, InitSteps, Stopping, World

LEMMA KeptWhenReaped ==
    ASSUME TypeOK, Kept, NEW p \in Pids, Reap(p), UNCHANGED <<at, forked>>, ForkedEntry
    PROVE  Kept'
<1>1. ASSUME NEW q \in Pids, proc'[q] # "free", job'[q].how = "respawn" PROVE Holds(q)'
  <2>1. q # p /\ proc[q] # "free" /\ job'[q] = job[q]
    BY <1>1 DEF Reap, TypeOK
  <2>2. Holds(q)
    BY <1>1, <2>1 DEF Kept
  <2> QED
    BY <2>1, <2>2, ReapedPids, NoProcess DEF Holds, ForkedEntry
<1> QED
  BY <1>1 DEF Kept

(* A reload moves entries with their processes; removed ones stay while    *)
(* their process does.                                                     *)
LEMMA KeptStep ==
    ASSUME TypeOK, Control, ListInv, ForkedEntry, Kept, [Next]_vars
    PROVE  Kept'
<1> USE DEF Kept
<1>1. ASSUME NEW p \in Pids, RunEntry(p)
      PROVE  Kept'
  <2>1. forked = NoPid /\ list' = list
    BY <1>1 DEF RunEntry, InRunActions
  <2>2. ASSUME NEW q \in Pids, q # p, proc'[q] # "free", job'[q].how = "respawn" PROVE Holds(q)'
    <3>1. proc[q] # "free" /\ job'[q] = job[q] /\ job[q].how = "respawn"
      BY <1>1, <2>2 DEF RunEntry, Fork, TypeOK
    <3> QED
      BY <2>1, <3>1, NoProcess DEF Holds
  <2>3. ASSUME job'[p].how = "respawn" PROVE Holds(p)'
    <3>1. job'[p] = [cmd |-> list[Min(Remaining)].cmd, how |-> stage]
      BY <1>1 DEF RunEntry, Fork, TypeOK
    <3>2. stage = "respawn" /\ at' = Min(Remaining) /\ forked' = p
      BY <1>1, <2>3, <3>1 DEF RunEntry
    <3> QED
      BY <2>1, <3>1, <3>2 DEF Holds
  <2> QED
    BY <2>2, <2>3
<1>2. ASSUME NEW p \in Pids, ReapOne(p)
      PROVE  Kept'
  <2>1. Reap(p) /\ UNCHANGED <<at, forked>>
    BY <1>2 DEF ReapOne, control
  <2> QED
    BY <2>1, KeptWhenReaped
<1>3. ASSUME NEW wpid \in Pids \cup {NoPid}, waitfor(wpid)
      PROVE  Kept'
  <2>1. WaitAny(wpid) /\ UNCHANGED <<at, forked>>
    BY <1>3 DEF waitfor
  <2>2. CASE list' = list /\ proc' = proc /\ job' = job
    BY <2>1, <2>2 DEF Holds
  <2>3. CASE wpid \in Pids /\ Reap(wpid)
    BY <2>1, <2>3, KeptWhenReaped
  <2> QED
    BY <2>1, <2>2, <2>3, WaitAnyIs
<1>4. CASE StorePid
  <2>1. /\ list \in Seq(Actions) /\ forked \in Pids \cup {NoPid, ForkError}
        /\ list' = [list EXCEPT ![at].pid = forked] /\ forked' = NoPid
        /\ proc' = proc /\ job' = job
    BY <1>4 DEF StorePid, TypeOK, processes
  <2>2. at \in DOMAIN list /\ list[at].pid = NoPid
    BY <1>4 DEF StorePid, ForkedEntry
  <2>3. /\ DOMAIN list' = DOMAIN list
        /\ \A j \in DOMAIN list : /\ list'[j].cmd = list[j].cmd
                                   /\ list'[j].pid = IF j = at THEN forked ELSE list[j].pid
    BY <2>1, PidStored
  <2> SUFFICES ASSUME NEW q \in Pids, proc[q] # "free", job[q].how = "respawn" PROVE Holds(q)'
    BY <2>1
  <2>4. Holds(q)
    OBVIOUS
  <2>5. CASE forked = q /\ list[at].cmd = job[q].cmd
    BY <2>1, <2>2, <2>3, <2>5 DEF Holds
  <2>6. CASE \E i \in DOMAIN list : list[i].pid = q /\ list[i].cmd = job[q].cmd
    <3>1. PICK i \in DOMAIN list : list[i].pid = q /\ list[i].cmd = job[q].cmd
      BY <2>6
    <3>2. i # at
      BY <2>2, <3>1, NoProcess
    <3> QED
      BY <2>1, <2>3, <3>1, <3>2 DEF Holds
  <2> QED
    BY <2>4, <2>5, <2>6 DEF Holds
<1>5. CASE RunFails
  <2>1. /\ list \in Seq(Actions) /\ forked = NoPid /\ forked' = NoPid
        /\ proc' = proc /\ job' = job
    BY <1>5 DEF RunFails, InRunActions, TypeOK, processes
  <2>2. CASE list' = list
    BY <2>1, <2>2, NoProcess DEF Holds
  <2>3. CASE list' # list
    <3> DEFINE i == Min(Remaining)
    <3>1. stage = "respawn" /\ list' = [list EXCEPT ![i].pid = ForkError]
      BY <1>5, <2>3 DEF RunFails
    <3>2. Runs(list[i])
      BY <1>5, FirstRemaining DEF RunFails
    <3>3. list[i].pid = NoPid
      BY <3>1, <3>2 DEF Runs
    <3> HIDE DEF i
    <3>4. /\ DOMAIN list' = DOMAIN list
          /\ \A j \in DOMAIN list : /\ list'[j].cmd = list[j].cmd
                                     /\ list'[j].pid = IF j = i THEN ForkError ELSE list[j].pid
      BY <2>1, <3>1, PidStored
    <3> QED
      BY <2>1, <3>3, <3>4, NoProcess DEF Holds
  <2> QED
    BY <2>2, <2>3
<1>6. CASE EndActions
  BY <1>6, NoProcess DEF EndActions, InRunActions, Holds, processes
<1>7. CASE PollNothing
  BY <1>7, NoProcess DEF PollNothing, TakeSignal, Control, Holds, PollStages, processes
<1>8. CASE TakeWakeup
  BY <1>8, NoProcess DEF TakeWakeup, TakeSignal, Control, Holds, PollStages, processes
<1>9. CASE TakeReload
  <2>1. proc' = proc /\ job' = job /\ forked = NoPid
    BY <1>9 DEF TakeReload, TakeSignal, processes, Control, PollStages
  <2>2. \A i \in DOMAIN list : list[i].pid # NoPid =>
           \E j \in DOMAIN list' : list'[j].cmd = list[i].cmd /\ list'[j].pid = list[i].pid
    BY <1>9, ReloadedList DEF AfterReload
  <2> QED
    BY <2>1, <2>2, NoProcess DEF Holds
<1>10. CASE TakeCtrlAltDel
  BY <1>10, NoProcess DEF TakeCtrlAltDel, TakeSignal, Control, Holds, PollStages, processes
<1>11. CASE TakeShutdown
  BY <1>11, NoProcess DEF TakeShutdown, TakeSignal, Control, Holds, PollStages, processes
<1>12. CASE ReapDone
  BY <1>12 DEF ReapDone, Holds, processes, control
<1>13. CASE KillAll
  <2>1. \A q \in Pids : proc'[q] # "free" => proc[q] # "free"
    BY <1>13 DEF KillAll, TypeOK
  <2> QED
    BY <1>13, <2>1 DEF KillAll, Holds
<1>14. CASE Stop
  BY <1>14 DEF Stop, Holds, processes, control
<1>15. CASE Continue
  BY <1>15 DEF Continue, Holds, processes, control
<1>16. ASSUME NEW p \in Pids, StopReap(p)
      PROVE  Kept'
  <2>1. Reap(p) /\ UNCHANGED <<at, forked>>
    BY <1>16 DEF StopReap, control
  <2> QED
    BY <2>1, KeptWhenReaped
<1>17. ASSUME NEW p \in Pids, Exit(p)
      PROVE  Kept'
  <2>1. \A q \in Pids : proc'[q] # "free" => proc[q] # "free"
    BY <1>17 DEF Exit, TypeOK
  <2> QED
    BY <1>17, <2>1 DEF Exit, Holds, control
<1>18. ASSUME NEW p \in Pids, NEW q \in Pids, SpawnDaemon(p, q)
      PROVE  Kept'
  <2>1. \A r \in Pids : \/ job'[r] = job[r] /\ proc'[r] = proc[r]
                        \/ job'[r].how = "none"
    BY <1>18 DEF SpawnDaemon, Fork, Daemon, TypeOK
  <2> QED
    BY <1>18, <2>1 DEF SpawnDaemon, Holds, control
<1>19. ASSUME NEW s \in Signals, SendSignal(s)
      PROVE  Kept'
  BY <1>19 DEF SendSignal, Holds, processes, control
<1>20. CASE EditInittab
  BY <1>20 DEF EditInittab, Holds, processes, control
<1>21. CASE UNCHANGED vars
  BY <1>21 DEF vars, Holds, processes, control
<1> QED
  BY <1>1, <1>2, <1>3, <1>4, <1>5, <1>6, <1>7, <1>8, <1>9, <1>10, <1>11, <1>12, <1>13, <1>14, <1>15, <1>16, <1>17, <1>18, <1>19, <1>20, <1>21 DEF Next, InitSteps, Stopping, World

LEMMA WatchedStep ==
    ASSUME TypeOK, Control, NotYet, Watched, [Next]_vars
    PROVE  Watched'
<1> USE DEF Watched
<1>1. ASSUME NEW p \in Pids, RunEntry(p)
      PROVE  Watched'
  <2>1. stage' = stage /\ list' = list /\ pending' = pending /\ proc'[p] = "running"
    BY <1>1 DEF RunEntry, Fork, TypeOK
  <2>2. \A q \in Pids : q # p => proc'[q] = proc[q]
    BY <1>1 DEF RunEntry, Fork, TypeOK
  <2>3. forked' = p \/ forked' = NoPid
    BY <1>1 DEF RunEntry
  <2> QED
    BY <2>1, <2>2, <2>3, NoProcess DEF Listed
<1>2. ASSUME NEW p \in Pids, ReapOne(p)
      PROVE  Watched'
  <2>1. Reap(p) /\ UNCHANGED <<stage, forked, pending>>
    BY <1>2 DEF ReapOne, control
  <2>2. \A q \in Pids : proc'[q] = "zombie" => proc[q] = "zombie"
    BY <2>1 DEF Reap, TypeOK
  <2>3. \A q \in Pids : Listed(q)' => Listed(q)
    BY <2>1, ReapedPids DEF Listed
  <2> QED
    BY <2>1, <2>2, <2>3
<1>3. ASSUME NEW wpid \in Pids \cup {NoPid}, waitfor(wpid)
      PROVE  Watched'
  BY <1>3 DEF waitfor, Control, WaitStages
<1>4. CASE StorePid
  <2>1. /\ list \in Seq(Actions) /\ forked \in Pids \cup {NoPid, ForkError}
        /\ list' = [list EXCEPT ![at].pid = forked] /\ forked' = NoPid
        /\ proc' = proc /\ stage' = stage /\ pending' = pending
    BY <1>4 DEF StorePid, TypeOK, processes
  <2>2. /\ DOMAIN list' = DOMAIN list
        /\ \A j \in DOMAIN list : list'[j].pid = IF j = at THEN forked ELSE list[j].pid
    BY <2>1, PidStored
  <2>3. \A q \in Pids : Listed(q)' => Listed(q)
    BY <2>1, <2>2, NoProcess DEF Listed
  <2> QED
    BY <2>1, <2>3
<1>5. CASE RunFails
  <2>1. /\ list \in Seq(Actions) /\ forked' = forked
        /\ proc' = proc /\ stage' = stage /\ pending' = pending
    BY <1>5 DEF RunFails, TypeOK, processes
  <2>2. ASSUME NEW i, list' = [list EXCEPT ![i].pid = ForkError]
        PROVE  \A q \in Pids : Listed(q)' => Listed(q)
    <3>1. /\ DOMAIN list' = DOMAIN list
          /\ \A j \in DOMAIN list : list'[j].pid = IF j = i THEN ForkError ELSE list[j].pid
      BY <2>1, <2>2, PidStored
    <3> QED
      BY <2>1, <3>1, NoProcess DEF Listed
  <2>3. ASSUME list' = list PROVE \A q \in Pids : Listed(q)' => Listed(q)
    BY <2>1, <2>3 DEF Listed
  <2>4. \A q \in Pids : Listed(q)' => Listed(q)
    BY <1>5, <2>2, <2>3 DEF RunFails
  <2> QED
    BY <2>1, <2>4
<1>6. CASE EndActions
  <2>1. /\ stage \in RunStages /\ forked = NoPid /\ stage' = After
        /\ UNCHANGED <<list, proc, forked, pending>>
    BY <1>6 DEF EndActions, InRunActions, processes
  <2>2. CASE stage = "once"
    BY <2>1, <2>2, NoProcess DEF NotYet, Early, Listed
  <2>3. CASE stage # "once"
    <3>1. stage' \in {"respawn", "sigwait"} => stage = "respawn"
      BY <2>1, <2>3, AfterIs DEF RunStages, WaitStages, Control
    <3> QED
      BY <2>1, <3>1 DEF Listed
  <2> QED
    BY <2>2, <2>3
<1>7. CASE PollNothing
  BY <1>7, ThenIs DEF PollNothing, TakeSignal, PollStages
<1>8. CASE TakeWakeup
  BY <1>8, ThenIs DEF TakeWakeup, TakeSignal, PollStages
<1>9. CASE TakeReload
  BY <1>9, ThenIs DEF TakeReload, TakeSignal, PollStages
<1>10. CASE TakeCtrlAltDel
  BY <1>10, ThenIs DEF TakeCtrlAltDel, TakeSignal, PollStages
<1>11. CASE TakeShutdown
  BY <1>11, ThenIs DEF TakeShutdown, TakeSignal, PollStages
<1>12. CASE ReapDone
  BY <1>12 DEF ReapDone, processes
<1>13. CASE KillAll
  BY <1>13 DEF KillAll, Listed, processes, control
<1>14. CASE Stop
  BY <1>14 DEF Stop, Listed, processes, control
<1>15. CASE Continue
  BY <1>15 DEF Continue, Listed, processes, control
<1>16. ASSUME NEW p \in Pids, StopReap(p)
      PROVE  Watched'
  <2>1. Reap(p) /\ UNCHANGED <<stage, forked, pending>>
    BY <1>16 DEF StopReap, control
  <2>2. \A q \in Pids : proc'[q] = "zombie" => proc[q] = "zombie"
    BY <2>1 DEF Reap, TypeOK
  <2>3. \A q \in Pids : Listed(q)' => Listed(q)
    BY <2>1, ReapedPids DEF Listed
  <2> QED
    BY <2>1, <2>2, <2>3
<1>17. ASSUME NEW p \in Pids, Exit(p)
      PROVE  Watched'
  <2>1. CASE Up
    BY <1>17, <2>1 DEF Exit
  <2>2. CASE ~Up
    BY <1>17, <2>2 DEF Exit, Up, control
  <2> QED
    BY <2>1, <2>2
<1>18. ASSUME NEW p \in Pids, NEW q \in Pids, SpawnDaemon(p, q)
      PROVE  Watched'
  <2>1. \A r \in Pids : proc'[r] = "zombie" => proc[r] = "zombie"
    BY <1>18 DEF SpawnDaemon, Fork, TypeOK
  <2> QED
    BY <1>18, <2>1 DEF SpawnDaemon, Listed, control
<1>19. ASSUME NEW s \in Signals, SendSignal(s)
      PROVE  Watched'
  BY <1>19 DEF SendSignal, Listed, processes, control
<1>20. CASE EditInittab
  BY <1>20 DEF EditInittab, Listed, processes, control
<1>21. CASE UNCHANGED vars
  BY <1>21 DEF vars, Listed, processes, control
<1> QED
  BY <1>1, <1>2, <1>3, <1>4, <1>5, <1>6, <1>7, <1>8, <1>9, <1>10, <1>11, <1>12, <1>13, <1>14, <1>15, <1>16, <1>17, <1>18, <1>19, <1>20, <1>21 DEF Next, InitSteps, Stopping, World

-----------------------------------------------------------------------------
(* The inductive invariant.                                                *)

InitInv ==
    /\ TypeOK
    /\ Control
    /\ ListInv
    /\ Awaited
    /\ ForkedEntry
    /\ NotYet
    /\ Kept
    /\ Watched

LEMMA InitBegin == Init => InitInv
<1> SUFFICES ASSUME Init PROVE InitInv
  OBVIOUS
<1>1. inittab \in Seq(Lines) /\ list = parse_inittab(<<>>, inittab) /\ loaded = inittab
  BY TabsAreLines DEF Init
<1>2. /\ list \in Seq(Actions) /\ Distinct(list) /\ InStep(list, loaded)
      /\ \A j \in DOMAIN list : list[j].pid = NoPid
  BY <1>1, InitialList
<1>3. TypeOK
  <2>1. /\ job \in [Pids -> [cmd : Commands \cup {"none", "daemon"}, how : RunStages \cup {"none"}]]
        /\ proc \in [Pids -> {"free", "running", "zombie"}]
    BY DEF Init, NoJob
  <2>2. ended \in Seq(Commands) /\ pending \in SUBSET DelayedSignals
    BY DEF Init
  <2>3. sent \in 0 .. MaxSignals /\ daemons \in 0 .. MaxDaemons /\ at \in Nat \ {0}
    BY InitAssumption DEF Init
  <2> QED
    BY <1>2, <2>1, <2>2, <2>3 DEF Init, TypeOK, Stages, RunStages, WaitStages
<1>4. Control
  BY DEF Init, Control, Stages, RunStages, WaitStages
<1>5. NotYet /\ Kept
  BY <1>2 DEF Init, NotYet, Kept, NoJob
<1>6. Awaited /\ ForkedEntry /\ Watched
  BY DEF Init, Awaited, ForkedEntry, Watched
<1> QED
  BY <1>2, <1>3, <1>4, <1>5, <1>6 DEF InitInv, ListInv

LEMMA InitStep == InitInv /\ [Next]_vars => InitInv'
<1> SUFFICES ASSUME InitInv, [Next]_vars PROVE InitInv'
  OBVIOUS
<1>0. /\ TypeOK /\ Control /\ ListInv /\ Awaited
      /\ ForkedEntry /\ NotYet /\ Kept /\ Watched
  BY DEF InitInv
<1>1. Control'
  BY <1>0, ControlStep
<1>2. TypeOK'
  BY <1>0, TypeStep
<1>3. ListInv'
  BY <1>0, ListStep
<1>4. Awaited'
  BY <1>0, AwaitedStep
<1>5. ForkedEntry'
  BY <1>0, ForkedEntryStep
<1>6. NotYet'
  BY <1>0, NotYetStep
<1>7. Kept'
  BY <1>0, KeptStep
<1>8. Watched'
  BY <1>0, WatchedStep
<1> QED
  BY <1>1, <1>2, <1>3, <1>4, <1>5, <1>6, <1>7, <1>8 DEF InitInv

(* Type correctness of init, and in every state: what is waited for, which *)
(* entry the last forked process belongs to, and that commands are listed  *)
(* once, in the order of the inittab loaded last.                          *)
THEOREM InitInvariant == Spec => []InitInv
BY InitBegin, InitStep, PTL DEF Spec

(* The variables of init have their types in every reachable state.        *)
THEOREM InitTypeOK == Spec => []TypeOK
<1>1. InitInv => TypeOK
  BY DEF InitInv
<1> QED
  BY <1>1, InitInvariant, PTL

(* No respawn or askfirst command runs twice, whatever is edited, reloaded *)
(* or stopped and wherever forks fail: run_actions starts an entry only    *)
(* without a pid, and reload_inittab lets no entry go that has one.        *)
THEOREM InitOneInstance == Spec => []OneInstance
<1>1. InitInv => OneInstance
  <2> SUFFICES ASSUME InitInv, NEW c \in Commands,
                      NEW p \in Respawned(c), NEW q \in Respawned(c)
               PROVE  p = q
    BY DEF OneInstance
  <2>1. /\ p \in Pids /\ proc[p] # "free" /\ job[p].cmd = c /\ job[p].how = "respawn"
        /\ q \in Pids /\ proc[q] # "free" /\ job[q].cmd = c /\ job[q].how = "respawn"
    BY DEF Respawned
  <2>2. Holds(p) /\ Holds(q)
    BY <2>1 DEF InitInv, Kept
  <2>3. ASSUME NEW i \in DOMAIN list, NEW j \in DOMAIN list,
               list[i].cmd = c, list[j].cmd = c
        PROVE  i = j
    BY <2>3 DEF InitInv, ListInv, Distinct
  <2>4. ASSUME NEW r \in Pids, forked = r
        PROVE  at \in DOMAIN list /\ list[at].pid = NoPid
    BY <2>4, NoProcess DEF InitInv, ForkedEntry
  <2> QED
    BY <2>1, <2>2, <2>3, <2>4, NoProcess DEF Holds
<1> QED
  BY <1>1, InitInvariant, PTL

(* init never goes to sleep on the death of a process it has to restart.   *)
THEOREM InitNoLostWakeup == Spec => []NoLostWakeup
<1>1. InitInv => NoLostWakeup
  BY DEF InitInv, Watched, Listed, NoLostWakeup
<1> QED
  BY <1>1, InitInvariant, PTL

-----------------------------------------------------------------------------
(* Entries name living processes, if init is not stopped and no fork fails *)
(* while respawn entries are started.                                      *)

Alive ==
    /\ EntryPidRuns
    /\ forked # NoPid => proc[forked] # "free" /\ job[forked].cmd = list[at].cmd

LEMMA AliveWhenReaped ==
    ASSUME InitInv, Alive, NEW p \in Pids, Reap(p), forked = NoPid, forked' = NoPid
    PROVE  Alive'
<1>1. ASSUME NEW i \in DOMAIN list', list'[i].pid # NoPid
      PROVE  LET q == list'[i].pid IN q \in Pids /\ proc'[q] # "free" /\ job'[q].cmd = list'[i].cmd
  <2> DEFINE q == list[i].pid
  <2>0. TypeOK
    BY DEF InitInv
  <2>1. /\ i \in DOMAIN list /\ list'[i] = list[i]
        /\ ~(list[i].pid = p /\ (\A j \in DOMAIN list : list[j].pid = p => i = j))
    BY <1>1, <2>0, Reaped
  <2>2. q \in Pids /\ proc[q] # "free" /\ job[q].cmd = list[i].cmd
    BY <1>1, <2>1 DEF Alive, EntryPidRuns
  <2>3. q # p
    <3> SUFFICES ASSUME q = p PROVE \A j \in DOMAIN list : list[j].pid = p => i = j
      BY <2>1
    <3>1. \A j \in DOMAIN list : list[j].pid = p => job[p].cmd = list[j].cmd
      BY NoProcess DEF Alive, EntryPidRuns
    <3> QED
      BY <2>1, <2>2, <3>1 DEF InitInv, ListInv, Distinct
  <2>4. proc'[q] = proc[q] /\ job'[q] = job[q]
    BY <2>0, <2>2, <2>3 DEF Reap, TypeOK
  <2> QED
    BY <2>1, <2>2, <2>4
<1> QED
  BY <1>1 DEF Alive, EntryPidRuns

LEMMA AliveStep ==
    ASSUME "respawn" \notin ForkFailsIn, "respawn" \notin StopsIn, InitInv, Alive, [Next]_vars
    PROVE  Alive'
<1>1. ASSUME NEW p \in Pids, RunEntry(p)
      PROVE  Alive'
  <2>1. list' = list /\ forked = NoPid
    BY <1>1 DEF RunEntry, InRunActions
  <2>2. \A q \in Pids : proc[q] # "free" => proc'[q] = proc[q] /\ job'[q] = job[q]
    BY <1>1 DEF RunEntry, Fork, InitInv, TypeOK
  <2>3. EntryPidRuns'
    BY <2>1, <2>2 DEF Alive, EntryPidRuns
  <2>4. ASSUME forked' # NoPid PROVE proc'[forked'] # "free" /\ job'[forked'].cmd = list'[at'].cmd
    <3>1. stage = "respawn" /\ forked' = p /\ at' = Min(Remaining)
      BY <1>1, <2>4 DEF RunEntry
    <3>2. proc'[p] = "running" /\ job'[p].cmd = list[Min(Remaining)].cmd
      BY <1>1 DEF RunEntry, Fork, InitInv, TypeOK
    <3> QED
      BY <2>1, <3>1, <3>2
  <2> QED
    BY <2>3, <2>4 DEF Alive
<1>2. ASSUME NEW p \in Pids, ReapOne(p)
      PROVE  Alive'
  <2>1. Reap(p) /\ forked = NoPid /\ forked' = NoPid
    BY <1>2 DEF ReapOne, control, InitInv, Control
  <2> QED
    BY <2>1, AliveWhenReaped
<1>3. ASSUME NEW wpid \in Pids \cup {NoPid}, waitfor(wpid)
      PROVE  Alive'
  <2>1. WaitAny(wpid) /\ forked = NoPid /\ forked' = NoPid
    BY <1>3 DEF waitfor, InitInv, Control, WaitStages
  <2>2. CASE list' = list /\ proc' = proc /\ job' = job
    BY <2>1, <2>2 DEF Alive, EntryPidRuns
  <2>3. CASE wpid \in Pids /\ Reap(wpid)
    BY <2>1, <2>3, AliveWhenReaped
  <2> QED
    BY <2>1, <2>2, <2>3, WaitAnyIs
<1>4. CASE StorePid
  <2>1. /\ list \in Seq(Actions) /\ forked \in Pids
        /\ list' = [list EXCEPT ![at].pid = forked] /\ forked' = NoPid
        /\ proc' = proc /\ job' = job
    BY <1>4 DEF StorePid, InitInv, TypeOK, processes
  <2>2. /\ DOMAIN list' = DOMAIN list
        /\ \A j \in DOMAIN list : /\ list'[j].cmd = list[j].cmd
                                   /\ list'[j].pid = IF j = at THEN forked ELSE list[j].pid
    BY <2>1, PidStored
  <2>3. proc[forked] # "free" /\ job[forked].cmd = list[at].cmd
    BY <1>4 DEF StorePid, Alive
  <2> QED
    BY <2>1, <2>2, <2>3 DEF Alive, EntryPidRuns
<1>5. CASE RunFails
  <2>1. list' = list /\ forked = NoPid /\ forked' = NoPid /\ proc' = proc /\ job' = job
    BY <1>5 DEF RunFails, InRunActions, processes
  <2> QED
    BY <2>1 DEF Alive, EntryPidRuns
<1>6. CASE EndActions
  <2>1. list' = list /\ forked = NoPid /\ forked' = NoPid /\ proc' = proc /\ job' = job
    BY <1>6 DEF EndActions, InRunActions, processes
  <2> QED
    BY <2>1 DEF Alive, EntryPidRuns
<1>7. CASE PollNothing
  BY <1>7 DEF PollNothing, Alive, EntryPidRuns, processes, control
<1>8. CASE TakeWakeup
  BY <1>8 DEF TakeWakeup, Alive, EntryPidRuns, processes, control
<1>9. CASE TakeReload
  <2>1. forked = NoPid /\ forked' = NoPid /\ proc' = proc /\ job' = job
    BY <1>9 DEF TakeReload, TakeSignal, processes, InitInv, Control, PollStages
  <2>2. \A j \in DOMAIN list' :
           \/ list'[j].pid = NoPid
           \/ \E i \in DOMAIN list : list[i].cmd = list'[j].cmd /\ list[i].pid = list'[j].pid
    BY <1>9, ReloadedList DEF AfterReload, InitInv
  <2> QED
    BY <2>1, <2>2 DEF Alive, EntryPidRuns
<1>10. CASE TakeCtrlAltDel
  BY <1>10 DEF TakeCtrlAltDel, Alive, EntryPidRuns, processes, control
<1>11. CASE TakeShutdown
  BY <1>11 DEF TakeShutdown, Alive, EntryPidRuns, processes, control
<1>12. CASE ReapDone
  BY <1>12 DEF ReapDone, Alive, EntryPidRuns, processes, control
<1>13. CASE KillAll
  <2>1. \A q \in Pids : proc[q] # "free" => proc'[q] # "free"
    BY <1>13 DEF KillAll, InitInv, TypeOK
  <2>2. UNCHANGED <<list, job, forked, at>> /\ forked \in Pids \cup {NoPid}
    BY <1>13 DEF KillAll, control, InitInv, TypeOK
  <2> QED
    BY <2>1, <2>2 DEF Alive, EntryPidRuns
<1>14. CASE Stop
  BY <1>14 DEF Stop, Alive, EntryPidRuns, processes, control
<1>15. CASE Continue
  BY <1>15 DEF Continue, Alive, EntryPidRuns, processes, control
<1>16. ASSUME NEW p \in Pids, StopReap(p)
      PROVE  Alive'
  <2>1. Reap(p) /\ forked = NoPid /\ forked' = NoPid
    BY <1>16 DEF StopReap, control, InitInv, Control
  <2> QED
    BY <2>1, AliveWhenReaped
<1>17. ASSUME NEW p \in Pids, Exit(p)
      PROVE  Alive'
  <2>1. \A q \in Pids : proc[q] # "free" => proc'[q] # "free"
    BY <1>17 DEF Exit, InitInv, TypeOK
  <2>2. UNCHANGED <<list, job, forked, at>> /\ forked \in Pids \cup {NoPid}
    BY <1>17 DEF Exit, control, InitInv, TypeOK
  <2> QED
    BY <2>1, <2>2 DEF Alive, EntryPidRuns
<1>18. ASSUME NEW p \in Pids, NEW q \in Pids, SpawnDaemon(p, q)
      PROVE  Alive'
  <2>1. \A r \in Pids : proc[r] # "free" => proc'[r] = proc[r] /\ job'[r] = job[r]
    BY <1>18 DEF SpawnDaemon, Fork, InitInv, TypeOK
  <2>2. UNCHANGED <<list, forked, at>> /\ forked \in Pids \cup {NoPid}
    BY <1>18 DEF SpawnDaemon, control, InitInv, TypeOK
  <2> QED
    BY <2>1, <2>2 DEF Alive, EntryPidRuns
<1>19. ASSUME NEW s \in Signals, SendSignal(s)
      PROVE  Alive'
  BY <1>19 DEF SendSignal, Alive, EntryPidRuns, processes, control
<1>20. CASE EditInittab
  BY <1>20 DEF EditInittab, Alive, EntryPidRuns, processes, control
<1>21. CASE UNCHANGED vars
  BY <1>21 DEF vars, Alive, EntryPidRuns, processes, control
<1> QED
  BY <1>1, <1>2, <1>3, <1>4, <1>5, <1>6, <1>7, <1>8, <1>9, <1>10, <1>11, <1>12, <1>13, <1>14, <1>15, <1>16, <1>17, <1>18, <1>19, <1>20, <1>21 DEF Next, InitSteps, Stopping, World

(* An entry that holds a pid has a child with that pid, running the        *)
(* entry's command or not yet reaped, if init is not stopped and no fork   *)
(* fails while it starts respawn entries.  Without the condition it is     *)
(* false: a failed fork leaves -1 as the pid, and a child reaped by        *)
(* stop_handler before its pid is stored leaves a dead one.                *)
THEOREM InitEntryPidRuns ==
    ASSUME "respawn" \notin ForkFailsIn, "respawn" \notin StopsIn
    PROVE  Spec => []EntryPidRuns
<1>1. Init => Alive
  <2> SUFFICES ASSUME Init PROVE Alive
    OBVIOUS
  <2>1. \A j \in DOMAIN list : list[j].pid = NoPid
    BY TabsAreLines, InitialList DEF Init
  <2> QED
    BY <2>1 DEF Init, Alive, EntryPidRuns
<1>2. InitInv /\ Alive /\ [Next]_vars => Alive'
  BY AliveStep
<1>3. Alive => EntryPidRuns
  BY DEF Alive
<1> QED
  BY <1>1, <1>2, <1>3, InitInvariant, PTL DEF Spec

-----------------------------------------------------------------------------
(* The shutdown entries run in the order of the file, if no fork fails     *)
(* among them.                                                             *)

(* The shutdown entries before position n.                                 *)
Shut(l, n) == { i \in DOMAIN l : i < n /\ l[i].type = "shutdown" }

(* h leads from the commands of s to the shutdown entries before n, in     *)
(* their order.                                                            *)
Enumerates(s, h, l, n) ==
    /\ h \in [DOMAIN s -> Shut(l, n)]
    /\ \A j, k \in DOMAIN s : j < k => h[j] < h[k]
    /\ \A i \in Shut(l, n) : \E j \in DOMAIN s : h[j] = i
    /\ \A j \in DOMAIN s : s[j] = l[h[j]].cmd

(* The shutdown commands that have been started.                           *)
Started == IF waited = NoPid THEN ended ELSE Append(ended, job[waited].cmd)

ShutdownInv ==
    /\ Up => ended = <<>>
    /\ stage = "shutdown" => \E h : Enumerates(Started, h, list, at)
    /\ ShutdownInOrder

LEMMA EnumeratesSame ==
    ASSUME NEW s, NEW h, NEW l, NEW m, NEW n, DOMAIN m = DOMAIN l,
           \A i \in DOMAIN l : m[i].cmd = l[i].cmd /\ m[i].type = l[i].type,
           Enumerates(s, h, l, n)
    PROVE  Enumerates(s, h, m, n)
<1>1. Shut(m, n) = Shut(l, n)
  BY DEF Shut
<1>2. \A j \in DOMAIN s : h[j] \in DOMAIN l
  BY DEF Enumerates, Shut
<1> QED
  BY <1>1, <1>2 DEF Enumerates

(* One more entry is started.                                              *)
LEMMA EnumeratesMore ==
    ASSUME NEW s \in Seq(Commands), NEW h, NEW l \in Seq(Actions), NEW n \in Nat,
           Enumerates(s, h, l, n),
           NEW i \in DOMAIN l, n <= i, l[i].type = "shutdown",
           \A j \in DOMAIN l : n <= j /\ j < i => l[j].type # "shutdown"
    PROVE  \E g : Enumerates(Append(s, l[i].cmd), g, l, i + 1)
<1>0. /\ Len(l) \in Nat /\ DOMAIN l = 1 .. Len(l) /\ Len(s) \in Nat /\ DOMAIN s = 1 .. Len(s)
      /\ l[i] \in Actions
  BY LenProperties, ElementOfSeq
<1>1. Shut(l, i + 1) = Shut(l, n) \cup {i}
  BY <1>0 DEF Shut
<1> DEFINE r == Append(s, l[i].cmd)
           m == Len(s) + 1
           g == [j \in 1 .. m |-> IF j = m THEN i ELSE h[j]]
<1>2. /\ r \in Seq(Commands) /\ DOMAIN r = 1 .. m /\ r[m] = l[i].cmd
      /\ \A j \in 1 .. Len(s) : r[j] = s[j]
  <2>1. l[i].cmd \in Commands
    BY <1>0 DEF Actions
  <2> QED
    BY <1>0, <2>1, AppendProperties, LenProperties
<1> HIDE DEF r
<1>3. \A j \in 1 .. m : j = m \/ j \in 1 .. Len(s)
  BY <1>0
<1>4. g[m] = i /\ m \in 1 .. m
  BY <1>0
<1>5. \A j \in 1 .. Len(s) : g[j] = h[j] /\ j \in 1 .. m
  BY <1>0
<1>6. \A j \in 1 .. Len(s) : h[j] \in Shut(l, n) /\ s[j] = l[h[j]].cmd
  BY <1>0 DEF Enumerates
<1>7. DOMAIN g = 1 .. m /\ g = [j \in 1 .. m |-> g[j]]
  OBVIOUS
<1> HIDE DEF g, m
<1>8. g \in [1 .. m -> Shut(l, i + 1)]
  <2>1. ASSUME NEW j \in 1 .. m PROVE g[j] \in Shut(l, i + 1)
    <3>1. CASE j = m
      BY <1>1, <1>4, <3>1
    <3>2. CASE j \in 1 .. Len(s)
      BY <1>1, <1>5, <1>6, <3>2
    <3> QED
      BY <1>3, <3>1, <3>2
  <2> QED
    BY <1>7, <2>1
<1>9. ASSUME NEW j \in 1 .. m, NEW k \in 1 .. m, j < k PROVE g[j] < g[k]
  <2>1. j \in 1 .. Len(s)
    BY <1>0, <1>9 DEF m
  <2>2. CASE k = m
    <3>1. h[j] < n /\ h[j] \in Nat
      BY <1>0, <1>6, <2>1 DEF Shut
    <3>2. h[j] < i
      BY <1>0, <3>1
    <3> QED
      BY <1>4, <1>5, <2>1, <2>2, <3>2
  <2>3. CASE k \in 1 .. Len(s)
    <3>1. h[j] < h[k]
      BY <1>0, <1>9, <2>1, <2>3 DEF Enumerates
    <3> QED
      BY <1>5, <2>1, <2>3, <3>1
  <2> QED
    BY <1>3, <2>2, <2>3
<1>10. ASSUME NEW k \in Shut(l, i + 1) PROVE \E j \in 1 .. m : g[j] = k
  <2>1. CASE k = i
    BY <1>4, <2>1
  <2>2. CASE k \in Shut(l, n)
    <3>1. PICK j \in 1 .. Len(s) : h[j] = k
      BY <1>0, <2>2 DEF Enumerates
    <3> QED
      BY <1>5, <3>1
  <2> QED
    BY <1>1, <2>1, <2>2
<1>11. ASSUME NEW j \in 1 .. m PROVE r[j] = l[g[j]].cmd
  <2>1. CASE j = m
    BY <1>2, <1>4, <2>1
  <2>2. CASE j \in 1 .. Len(s)
    BY <1>2, <1>5, <1>6, <2>2
  <2> QED
    BY <1>3, <2>1, <2>2
<1>12. Enumerates(r, g, l, i + 1)
  BY <1>2, <1>8, <1>9, <1>10, <1>11 DEF Enumerates
<1> QED
  BY <1>12 DEF r

(* With all entries run, what has ended is in the order of the file.       *)
LEMMA EnumeratesAll ==
    ASSUME NEW s \in Seq(Commands), NEW h, NEW l \in Seq(Actions), NEW n, NEW tab \in Seq(Lines),
           Enumerates(s, h, l, n), \A i \in DOMAIN l : l[i].type = "shutdown" => i < n,
           InStep(l, tab)
    PROVE  InFileOrder(s, tab, "shutdown")
<1> DEFINE N == Len(tab)
           line == [j \in DOMAIN s |-> CHOOSE k \in 1 .. N : IsLine(tab, N, k, l[h[j]])]
<1>0. N \in Nat /\ DOMAIN tab = 1 .. N /\ DOMAIN s = 1 .. Len(s) /\ Len(s) \in Nat
  BY LenProperties
<1>1. ASSUME NEW j \in DOMAIN s
      PROVE  /\ h[j] \in DOMAIN l /\ l[h[j]].type = "shutdown" /\ s[j] = l[h[j]].cmd
             /\ line[j] \in 1 .. N /\ IsLine(tab, N, line[j], l[h[j]])
  <2>1. h[j] \in DOMAIN l /\ l[h[j]].type = "shutdown" /\ s[j] = l[h[j]].cmd
    BY DEF Enumerates, Shut
  <2>2. \E k \in 1 .. N : IsLine(tab, N, k, l[h[j]])
    BY <2>1 DEF InStep
  <2>3. line[j] \in 1 .. N /\ IsLine(tab, N, line[j], l[h[j]])
    BY <2>2
  <2> QED
    BY <2>1, <2>3
<1>2. line = [j \in DOMAIN s |-> line[j]]
  OBVIOUS
<1> HIDE DEF line
<1>3. ASSUME NEW j \in DOMAIN s
      PROVE  line[j] \in LinesOf(tab, "shutdown") /\ s[j] = tab[line[j]].cmd
  BY <1>0, <1>1 DEF IsLine, LinesOf
<1>4. line \in [DOMAIN s -> LinesOf(tab, "shutdown")]
  BY <1>2, <1>3
<1>5. ASSUME NEW j \in DOMAIN s, NEW k \in DOMAIN s, j < k PROVE line[j] < line[k]
  <2>1. h[j] < h[k]
    BY <1>5 DEF Enumerates
  <2>2. OrderedAs(l, tab, N)
    BY DEF InStep
  <2> QED
    BY <1>1, <2>1, <2>2 DEF OrderedAs
<1>6. ASSUME NEW k \in LinesOf(tab, "shutdown") PROVE \E j \in DOMAIN s : line[j] = k
  <2>1. /\ k \in 1 .. N /\ tab[k].type = "shutdown"
        /\ \A j \in 1 .. N : j > k => tab[j].cmd # tab[k].cmd
    BY <1>0 DEF LinesOf
  <2>2. PICK i \in DOMAIN l : l[i].cmd = tab[k].cmd /\ l[i].type = "shutdown"
    BY DEF InStep
  <2>3. PICK j \in DOMAIN s : h[j] = i
    BY <2>2 DEF Enumerates, Shut
  <2>4. IsLine(tab, N, line[j], l[i]) /\ line[j] \in 1 .. N
    BY <1>1, <2>3
  <2>5. ~(line[j] > k) /\ ~(k > line[j])
    BY <2>1, <2>2, <2>4 DEF IsLine
  <2> QED
    BY <1>0, <2>1, <2>4, <2>5
<1> QED
  BY <1>3, <1>4, <1>5, <1>6 DEF InFileOrder

LEMMA ShutdownStep ==
    ASSUME "shutdown" \notin ForkFailsIn, InitInv, ShutdownInv, [Next]_vars
    PROVE  ShutdownInv'
<1> USE DEF InitInv
<1>1. ASSUME NEW p \in Pids, RunEntry(p)
      PROVE  ShutdownInv'
  <2>1. /\ stage' = stage /\ UNCHANGED <<list, loaded, ended>> /\ waited = NoPid
        /\ stage \in RunStages
    BY <1>1 DEF RunEntry, InRunActions
  <2>2. CASE stage # "shutdown"
    BY <2>1, <2>2 DEF Up, ShutdownInv, ShutdownInOrder, RunStages, WaitStages
  <2>3. CASE stage = "shutdown"
    <3> DEFINE i == Min(Remaining)
    <3>1. /\ i \in DOMAIN list /\ i >= at /\ Runs(list[i])
          /\ \A j \in DOMAIN list : at <= j /\ j < i => ~Runs(list[j])
      BY <1>1, FirstRemaining DEF RunEntry
    <3>2. /\ at' = i + 1 /\ waited' = p /\ p # NoPid
          /\ job'[p].cmd = list[i].cmd
      BY <1>1, <2>3, NoProcess DEF RunEntry, Fork, WaitStages, TypeOK
    <3> HIDE DEF i
    <3>3. /\ list[i].type = "shutdown"
          /\ \A j \in DOMAIN list : at <= j /\ j < i => list[j].type # "shutdown"
      BY <2>3, <3>1 DEF Runs, Wanted
    <3>4. PICK h : Enumerates(ended, h, list, at)
      BY <2>1, <2>3 DEF ShutdownInv, Started
    <3>5. /\ ended \in Seq(Commands) /\ list \in Seq(Actions) /\ at \in Nat /\ at <= i
      BY <3>1 DEF TypeOK
    <3>6. \E g : Enumerates(Append(ended, list[i].cmd), g, list, i + 1)
      BY <3>1, <3>3, <3>4, <3>5, EnumeratesMore
    <3>7. Started' = Append(ended, list[i].cmd)
      BY <2>1, <3>2 DEF Started
    <3> QED
      BY <2>1, <2>3, <3>2, <3>6, <3>7 DEF Up, ShutdownInv, ShutdownInOrder
  <2> QED
    BY <2>2, <2>3
<1>2. ASSUME NEW p \in Pids, ReapOne(p)
      PROVE  ShutdownInv'
  BY <1>2 DEF ReapOne, Up, ShutdownInv, ShutdownInOrder, control
<1>3. ASSUME NEW wpid \in Pids \cup {NoPid}, waitfor(wpid)
      PROVE  ShutdownInv'
  <2>1. /\ stage' = stage /\ at' = at /\ loaded' = loaded /\ waited # NoPid /\ WaitAny(wpid)
        /\ stage \in WaitStages
    BY <1>3 DEF waitfor, Control
  <2>2. CASE stage # "shutdown"
    <3>1. ended' = ended
      BY <1>3, <2>2 DEF waitfor
    <3> QED
      BY <2>1, <2>2, <3>1 DEF Up, ShutdownInv, ShutdownInOrder, WaitStages
  <2>3. CASE stage = "shutdown"
    <3>1. Started' = Started
      <4>1. CASE proc'[waited] = "free"
        BY <1>3, <2>1, <2>3, <4>1 DEF waitfor, Started
      <4>2. CASE proc'[waited] # "free"
        <5>1. waited' = waited /\ ended' = ended
          BY <1>3, <4>2 DEF waitfor
        <5>2. job'[waited] = job[waited]
          BY <2>1, <4>2, WaitAnyIs DEF Reap, TypeOK
        <5> QED
          BY <5>1, <5>2 DEF Started
      <4> QED
        BY <4>1, <4>2
    <3>2. /\ DOMAIN list' = DOMAIN list
          /\ \A i \in DOMAIN list : list'[i].cmd = list[i].cmd /\ list'[i].type = list[i].type
      BY <2>1, WaitAnyIs, Reaped
    <3>3. PICK h : Enumerates(Started, h, list, at)
      BY <2>3 DEF ShutdownInv
    <3>4. Enumerates(Started, h, list', at)
      BY <3>2, <3>3, EnumeratesSame
    <3>5. Enumerates(Started', h, list', at')
      BY <2>1, <3>1, <3>4
    <3> QED
      BY <2>1, <2>3, <3>5 DEF Up, ShutdownInv, ShutdownInOrder
  <2> QED
    BY <2>2, <2>3
<1>4. CASE StorePid
  BY <1>4 DEF StorePid, Control, Up, ShutdownInv, ShutdownInOrder
<1>5. CASE RunFails
  BY <1>5 DEF RunFails, InRunActions, RunStages, WaitStages, Up, ShutdownInv, ShutdownInOrder
<1>6. CASE EndActions
  <2>1. /\ stage \in RunStages /\ waited = NoPid /\ UNCHANGED <<list, loaded, ended>>
        /\ stage' = After /\ Remaining = {}
    BY <1>6 DEF EndActions, InRunActions
  <2>2. CASE stage # "shutdown"
    BY <2>1, <2>2, AfterIs DEF Up, ShutdownInv, ShutdownInOrder, RunStages, WaitStages, Control
  <2>3. CASE stage = "shutdown"
    <3>1. PICK h : Enumerates(ended, h, list, at)
      BY <2>1, <2>3 DEF ShutdownInv, Started
    <3>2. \A i \in DOMAIN list : list[i].type = "shutdown" => i < at
      <4> SUFFICES ASSUME NEW i \in DOMAIN list, list[i].type = "shutdown", ~(i < at) PROVE FALSE
        OBVIOUS
      <4>1. Runs(list[i])
        BY <2>3 DEF Runs, Wanted
      <4>2. DOMAIN list = 1 .. Len(list) /\ Len(list) \in Nat /\ at \in Nat
        BY LenProperties DEF TypeOK
      <4>3. i \in at .. Len(list)
        BY <4>2
      <4> QED
        BY <2>1, <4>1, <4>3 DEF Remaining
    <3>3. ended \in Seq(Commands) /\ list \in Seq(Actions) /\ loaded \in Seq(Lines)
      BY TabsAreLines DEF TypeOK
    <3>4. InStep(list, loaded)
      BY DEF ListInv
    <3>5. InFileOrder(ended, loaded, "shutdown")
      BY <3>1, <3>2, <3>3, <3>4, EnumeratesAll
    <3>6. stage' = "term"
      BY <2>1, <2>3, AfterIs
    <3> QED
      BY <2>1, <3>5, <3>6 DEF Up, ShutdownInv, ShutdownInOrder
  <2> QED
    BY <2>2, <2>3
<1>7. CASE PollNothing
  BY <1>7, ThenIs DEF PollNothing, TakeSignal, PollStages, Up, ShutdownInv, ShutdownInOrder
<1>8. CASE TakeWakeup
  BY <1>8, ThenIs DEF TakeWakeup, TakeSignal, PollStages, Up, ShutdownInv, ShutdownInOrder
<1>9. CASE TakeReload
  BY <1>9, ThenIs DEF TakeReload, TakeSignal, PollStages, Up, ShutdownInv, ShutdownInOrder
<1>10. CASE TakeCtrlAltDel
  BY <1>10, ThenIs DEF TakeCtrlAltDel, TakeSignal, PollStages, Up, ShutdownInv, ShutdownInOrder
<1>11. CASE TakeShutdown
  <2>1. /\ stage \in PollStages /\ stage' = "shutdown" /\ UNCHANGED <<list, at, waited, ended>>
    BY <1>11 DEF TakeShutdown, TakeSignal
  <2>2. at = 1 /\ waited = NoPid /\ ended = <<>>
    BY <2>1 DEF PollStages, RunStages, WaitStages, Control, ShutdownInv, Up
  <2>3. Started' = <<>> /\ list' = list /\ at' = 1
    BY <2>1, <2>2 DEF Started
  <2>4. Shut(list, 1) = {}
    <3>1. DOMAIN list = 1 .. Len(list) /\ Len(list) \in Nat
      BY LenProperties DEF TypeOK
    <3> QED
      BY <3>1 DEF Shut
  <2> DEFINE h == [j \in DOMAIN <<>> |-> j]
  <2>5. Enumerates(<<>>, h, list, 1)
    BY <2>4 DEF Enumerates
  <2> HIDE DEF h
  <2> QED
    BY <2>1, <2>3, <2>5 DEF Up, ShutdownInv, ShutdownInOrder
<1>12. CASE ReapDone
  BY <1>12 DEF ReapDone, Up, ShutdownInv, ShutdownInOrder, Started, processes, control
<1>13. CASE KillAll
  BY <1>13 DEF KillAll, Up, ShutdownInv, ShutdownInOrder, Started, processes, control
<1>14. CASE Stop
  BY <1>14, InitAssumption DEF Stop, Control, Up, ShutdownInv, ShutdownInOrder, Started, processes, control
<1>15. CASE Continue
  BY <1>15, InitAssumption DEF Continue, Control, Up, ShutdownInv, ShutdownInOrder, Started, processes, control
<1>16. ASSUME NEW p \in Pids, StopReap(p)
      PROVE  ShutdownInv'
  BY <1>16, InitAssumption DEF StopReap, Control, Up, ShutdownInv, ShutdownInOrder, control
<1>17. ASSUME NEW p \in Pids, Exit(p)
      PROVE  ShutdownInv'
  <2>1. UNCHANGED <<stage, list, loaded, ended, at, waited, job>>
    BY <1>17 DEF Exit, control
  <2> QED
    BY <2>1 DEF Up, ShutdownInv, ShutdownInOrder, Started
<1>18. ASSUME NEW p \in Pids, NEW q \in Pids, SpawnDaemon(p, q)
      PROVE  ShutdownInv'
  <2>1. UNCHANGED <<stage, list, loaded, ended, at, waited>>
    BY <1>18 DEF SpawnDaemon, control
  <2>2. stage = "shutdown" => Started' = Started
    <3> SUFFICES ASSUME stage = "shutdown", waited # NoPid PROVE job'[waited] = job[waited]
      BY <2>1 DEF Started
    <3>1. waited \in Pids /\ proc[waited] # "free"
      BY DEF Awaited, TypeOK
    <3> QED
      BY <1>18, <3>1 DEF SpawnDaemon, Fork, TypeOK
  <2> QED
    BY <2>1, <2>2 DEF Up, ShutdownInv, ShutdownInOrder
<1>19. ASSUME NEW s \in Signals, SendSignal(s)
      PROVE  ShutdownInv'
  BY <1>19, InitAssumption DEF SendSignal, Control, Up, ShutdownInv, ShutdownInOrder, Started, processes, control
<1>20. CASE EditInittab
  BY <1>20, InitAssumption DEF EditInittab, Control, Up, ShutdownInv, ShutdownInOrder, Started, processes, control
<1>21. CASE UNCHANGED vars
  BY <1>21 DEF vars, Up, ShutdownInv, ShutdownInOrder, Started, processes, control
<1> QED
  BY <1>1, <1>2, <1>3, <1>4, <1>5, <1>6, <1>7, <1>8, <1>9, <1>10, <1>11, <1>12, <1>13, <1>14, <1>15, <1>16, <1>17, <1>18, <1>19, <1>20, <1>21 DEF Next, InitSteps, Stopping, World

(* When the processes are killed, every shutdown entry of the inittab      *)
(* loaded last has run to its end, in the order of the file, after any     *)
(* number of reloads, if no fork fails among them: new_init_action moves   *)
(* an entry it finds to the end, and run_actions waits for each.           *)
THEOREM InitShutdownInOrder ==
    ASSUME "shutdown" \notin ForkFailsIn
    PROVE  Spec => []ShutdownInOrder
<1>1. Init => ShutdownInv
  BY DEF Init, ShutdownInv, ShutdownInOrder, Up
<1>2. InitInv /\ ShutdownInv /\ [Next]_vars => ShutdownInv'
  BY ShutdownStep
<1>3. ShutdownInv => ShutdownInOrder
  BY DEF ShutdownInv
<1> QED
  BY <1>1, <1>2, <1>3, InitInvariant, PTL DEF Spec
=============================================================================
