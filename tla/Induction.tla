----------------------------- MODULE Induction ------------------------------
(***************************************************************************)
(* Induction by the least counterexample, on numbers and on sequences, and *)
(* what it says of sequences that are built element by element.            *)
(***************************************************************************)
EXTENDS Naturals, SequenceTheorems, WellFoundedInduction, TLAPS

Ext == INSTANCE SequencesExt

\* Every set of natural numbers that is not empty has a least element.
LEMMA Least ==
  ASSUME NEW S \in SUBSET Nat, S # {}
  PROVE  \E m \in S : \A x \in S : m <= x
  <1> DEFINE R == {p \in Nat \X Nat : p[1] < p[2]}
  <1>1. IsWellFoundedOn(R, Nat)
    BY NatLessThanWellFounded, Zenon DEF OpToRel
  <1>2. \E y \in S : \A z \in S : ~(<<z, y>> \in R)
    BY <1>1, WFMin
  <1>3. \A z, y \in Nat : <<z, y>> \in R <=> z < y
    OBVIOUS
  <1> HIDE DEF R
  <1>4. PICK m \in S : \A z \in S : ~(<<z, m>> \in R)
    BY <1>2
  <1>5. \A z \in S : ~(z < m)
    BY <1>3, <1>4
  <1>6. \A z \in S : m <= z
    <2> SUFFICES ASSUME NEW z \in S PROVE m <= z
      OBVIOUS
    <2>1. m \in Nat /\ z \in Nat /\ ~(z < m)
      BY <1>5
    <2> QED
      BY <2>1
  <1> QED
    BY <1>6

\* What holds of the empty sequence, and of a sequence with one element more,
\* holds of all.
LEMMA SeqInduction ==
  ASSUME NEW X, NEW S, <<>> \in S,
         \A s \in Seq(X) : \A x \in X : s \in S => Append(s, x) \in S
  PROVE  \A s \in Seq(X) : s \in S
  <1> SUFFICES ASSUME NEW t \in Seq(X), t \notin S
               PROVE  FALSE
    OBVIOUS
  <1> DEFINE Bad(n) == \E s \in Seq(X) : Len(s) = n /\ s \notin S
             L == {n \in Nat : Bad(n)}
  <1>1. L \in SUBSET Nat /\ Len(t) \in L
    OBVIOUS
  <1>2. PICK m \in L : \A n \in L : m <= n
    <2> HIDE DEF L
    <2> QED
      BY <1>1, Least
  <1>3. PICK s \in Seq(X) : Len(s) = m /\ s \notin S
    BY <1>2
  <1>4. s # <<>>
    BY <1>3
  <1>5. PICK front \in Seq(X), x \in X : s = Append(front, x) /\ Len(front) = Len(s) - 1
    <2>1. /\ [i \in 1 .. Len(s) - 1 |-> s[i]] \in Seq(X) /\ s[Len(s)] \in X
          /\ Len([i \in 1 .. Len(s) - 1 |-> s[i]]) = Len(s) - 1
          /\ Append([i \in 1 .. Len(s) - 1 |-> s[i]], s[Len(s)]) = s
      BY <1>3, <1>4, AppendProperties
    <2> QED
      BY <2>1
  <1>6. front \notin S
    BY <1>3, <1>5
  <1>7. Len(front) \in L /\ Len(front) < m /\ m \in Nat
    BY <1>2, <1>3, <1>4, <1>5, <1>6
  <1> HIDE DEF L
  <1> QED
    BY <1>2, <1>7

-----------------------------------------------------------------------------
(* Short sequences, and one sequence behind another *)

\* A sequence of one element,
LEMMA OneElement ==
  ASSUME NEW X, NEW x \in X
  PROVE  <<x>> \in Seq(X) /\ Len(<<x>>) = 1 /\ <<x>>[1] = x
  OBVIOUS

\* of two,
LEMMA TwoElements ==
  ASSUME NEW X, NEW x \in X, NEW y \in X
  PROVE  <<x, y>> \in Seq(X) /\ Len(<<x, y>>) = 2 /\ <<x, y>>[1] = x /\ <<x, y>>[2] = y
  OBVIOUS

\* of three,
LEMMA ThreeElements ==
  ASSUME NEW X, NEW x \in X, NEW y \in X, NEW z \in X
  PROVE  /\ <<x, y, z>> \in Seq(X) /\ Len(<<x, y, z>>) = 3
         /\ <<x, y, z>>[1] = x /\ <<x, y, z>>[2] = y /\ <<x, y, z>>[3] = z
  OBVIOUS

\* and of four.
LEMMA FourElements ==
  ASSUME NEW X, NEW x \in X, NEW y \in X, NEW z \in X, NEW w \in X
  PROVE  /\ <<x, y, z, w>> \in Seq(X) /\ Len(<<x, y, z, w>>) = 4
         /\ <<x, y, z, w>>[1] = x /\ <<x, y, z, w>>[2] = y
         /\ <<x, y, z, w>>[3] = z /\ <<x, y, z, w>>[4] = w
  OBVIOUS

\* A sequence with the elements of s and t is the two, one behind the other.
LEMMA Joined ==
  ASSUME NEW X, NEW s \in Seq(X), NEW t \in Seq(X), NEW u \in Seq(X),
         Len(u) = Len(s) + Len(t), \A i \in 1 .. Len(s) : u[i] = s[i],
         \A i \in 1 .. Len(t) : u[Len(s) + i] = t[i]
  PROVE  s \o t = u
  <1>1. PICK v \in Seq(X) : v = s \o t
    BY ConcatProperties
  <1>2. /\ Len(v) = Len(s) + Len(t) /\ Len(s) \in Nat /\ Len(t) \in Nat
        /\ \A i \in 1 .. Len(v) : v[i] = IF i <= Len(s) THEN s[i] ELSE t[i - Len(s)]
    BY <1>1, ConcatProperties
  <1>3. ASSUME NEW i \in 1 .. Len(v) PROVE v[i] = u[i]
    <2>1. CASE i <= Len(s)
      BY <1>2, <2>1
    <2>2. CASE ~(i <= Len(s))
      <3>1. PICK k \in 1 .. Len(t) : k = i - Len(s) /\ Len(s) + k = i
        BY <1>2, <2>2
      <3> QED
        BY <1>2, <2>2, <3>1
    <2> QED
      BY <2>1, <2>2
  <1> QED
    BY <1>1, <1>2, <1>3, SeqEqual

\* One element behind one,
LEMMA OneAndOne ==
  ASSUME NEW X, NEW x \in X, NEW y \in X
  PROVE  <<x>> \o <<y>> = <<x, y>>
  <1>1. PICK s \in Seq(X) : s = <<x>> /\ Len(s) = 1 /\ s[1] = x
    <2>1. PICK r : r = <<x>>
      OBVIOUS
    <2>2. r \in Seq(X) /\ Len(r) = 1 /\ r[1] = x
      BY <2>1
    <2> QED
      BY <2>1, <2>2
  <1>2. PICK t \in Seq(X) : t = <<y>> /\ Len(t) = 1 /\ t[1] = y
    <2>1. PICK r : r = <<y>>
      OBVIOUS
    <2>2. r \in Seq(X) /\ Len(r) = 1 /\ r[1] = y
      BY <2>1
    <2> QED
      BY <2>1, <2>2
  <1>3. PICK u \in Seq(X) : u = <<x, y>> /\ Len(u) = 2 /\ u[1] = x /\ u[2] = y
    <2>1. PICK r : r = <<x, y>>
      OBVIOUS
    <2>2. r \in Seq(X) /\ Len(r) = 2 /\ r[1] = x /\ r[2] = y
      BY <2>1
    <2> QED
      BY <2>1, <2>2
  <1>4. /\ Len(u) = Len(s) + Len(t) /\ \A i \in 1 .. Len(s) : u[i] = s[i]
        /\ \A i \in 1 .. Len(t) : u[Len(s) + i] = t[i]
    <2>1. ASSUME NEW i \in 1 .. Len(s) PROVE u[i] = s[i]
      BY <1>1, <1>2, <1>3
    <2>2. ASSUME NEW i \in 1 .. Len(t) PROVE u[Len(s) + i] = t[i]
      BY <1>1, <1>2, <1>3
    <2>3. Len(u) = Len(s) + Len(t)
      BY <1>1, <1>2, <1>3
    <2> QED
      BY <2>1, <2>2, <2>3
  <1>5. s \o t = u
    BY <1>4, Joined
  <1> QED
    BY <1>1, <1>2, <1>3, <1>5

\* two behind one,
LEMMA OneAndTwo ==
  ASSUME NEW X, NEW x \in X, NEW y \in X, NEW z \in X
  PROVE  <<x>> \o <<y, z>> = <<x, y, z>>
  <1>1. PICK s \in Seq(X) : s = <<x>> /\ Len(s) = 1 /\ s[1] = x
    <2>1. PICK r : r = <<x>>
      OBVIOUS
    <2>2. r \in Seq(X) /\ Len(r) = 1 /\ r[1] = x
      BY <2>1
    <2> QED
      BY <2>1, <2>2
  <1>2. PICK t \in Seq(X) : t = <<y, z>> /\ Len(t) = 2 /\ t[1] = y /\ t[2] = z
    <2>1. PICK r : r = <<y, z>>
      OBVIOUS
    <2>2. r \in Seq(X) /\ Len(r) = 2 /\ r[1] = y /\ r[2] = z
      BY <2>1
    <2> QED
      BY <2>1, <2>2
  <1>3. PICK u \in Seq(X) : u = <<x, y, z>> /\ Len(u) = 3 /\ u[1] = x /\ u[2] = y /\ u[3] = z
    <2>1. PICK r : r = <<x, y, z>>
      OBVIOUS
    <2>2. r \in Seq(X) /\ Len(r) = 3 /\ r[1] = x /\ r[2] = y /\ r[3] = z
      BY <2>1
    <2> QED
      BY <2>1, <2>2
  <1>4. /\ Len(u) = Len(s) + Len(t) /\ \A i \in 1 .. Len(s) : u[i] = s[i]
        /\ \A i \in 1 .. Len(t) : u[Len(s) + i] = t[i]
    <2>1. ASSUME NEW i \in 1 .. Len(s) PROVE u[i] = s[i]
      BY <1>1, <1>2, <1>3
    <2>2. ASSUME NEW i \in 1 .. Len(t) PROVE u[Len(s) + i] = t[i]
      BY <1>1, <1>2, <1>3
    <2>3. Len(u) = Len(s) + Len(t)
      BY <1>1, <1>2, <1>3
    <2> QED
      BY <2>1, <2>2, <2>3
  <1>5. s \o t = u
    BY <1>4, Joined
  <1> QED
    BY <1>1, <1>2, <1>3, <1>5

\* and two behind two.
LEMMA TwoAndTwo ==
  ASSUME NEW X, NEW x \in X, NEW y \in X, NEW z \in X, NEW w \in X
  PROVE  <<x, y>> \o <<z, w>> = <<x, y, z, w>>
  <1>1. PICK s \in Seq(X) : s = <<x, y>> /\ Len(s) = 2 /\ s[1] = x /\ s[2] = y
    <2>1. PICK r : r = <<x, y>>
      OBVIOUS
    <2>2. r \in Seq(X) /\ Len(r) = 2 /\ r[1] = x /\ r[2] = y
      BY <2>1
    <2> QED
      BY <2>1, <2>2
  <1>2. PICK t \in Seq(X) : t = <<z, w>> /\ Len(t) = 2 /\ t[1] = z /\ t[2] = w
    <2>1. PICK r : r = <<z, w>>
      OBVIOUS
    <2>2. r \in Seq(X) /\ Len(r) = 2 /\ r[1] = z /\ r[2] = w
      BY <2>1
    <2> QED
      BY <2>1, <2>2
  <1>3. PICK u \in Seq(X) : u = <<x, y, z, w>> /\ Len(u) = 4 /\ u[1] = x /\ u[2] = y /\ u[3] = z /\ u[4] = w
    <2>1. PICK r : r = <<x, y, z, w>>
      OBVIOUS
    <2>2. r \in Seq(X) /\ Len(r) = 4 /\ r[1] = x /\ r[2] = y /\ r[3] = z /\ r[4] = w
      BY <2>1
    <2> QED
      BY <2>1, <2>2
  <1>4. /\ Len(u) = Len(s) + Len(t) /\ \A i \in 1 .. Len(s) : u[i] = s[i]
        /\ \A i \in 1 .. Len(t) : u[Len(s) + i] = t[i]
    <2>1. ASSUME NEW i \in 1 .. Len(s) PROVE u[i] = s[i]
      BY <1>1, <1>2, <1>3
    <2>2. ASSUME NEW i \in 1 .. Len(t) PROVE u[Len(s) + i] = t[i]
      BY <1>1, <1>2, <1>3
    <2>3. Len(u) = Len(s) + Len(t)
      BY <1>1, <1>2, <1>3
    <2> QED
      BY <2>1, <2>2, <2>3
  <1>5. s \o t = u
    BY <1>4, Joined
  <1> QED
    BY <1>1, <1>2, <1>3, <1>5

-----------------------------------------------------------------------------
(* A sequence with a function applied to each element *)

\* A sequence, letter by letter.
Mapped(F, w) == [i \in DOMAIN w |-> F[w[i]]]

\* It is as long as before, and has the function of each element.
LEMMA MappedType ==
  ASSUME NEW X, NEW Y, NEW F \in [X -> Y], NEW w \in Seq(X)
  PROVE  /\ Mapped(F, w) \in Seq(Y) /\ Len(Mapped(F, w)) = Len(w) /\ Len(w) \in Nat
         /\ \A i \in 1 .. Len(w) : Mapped(F, w)[i] = F[w[i]]
  BY DEF Mapped

\* Nothing becomes of nothing.
LEMMA MappedEmpty ==
  ASSUME NEW F
  PROVE  Mapped(F, <<>>) = <<>>
  BY DEF Mapped

\* One element more has one image more.
LEMMA MappedAppend ==
  ASSUME NEW X, NEW Y, NEW F \in [X -> Y], NEW v \in Seq(X), NEW l \in X
  PROVE  Mapped(F, Append(v, l)) = Append(Mapped(F, v), F[l])
  <1>1. PICK w \in Seq(X) : w = Append(v, l)
    BY AppendProperties
  <1>2. /\ Len(w) = Len(v) + 1 /\ Len(v) \in Nat /\ \A i \in 1 .. Len(v) : w[i] = v[i]
        /\ w[Len(v) + 1] = l
    BY <1>1, AppendProperties
  <1>3. PICK mv \in Seq(Y) : mv = Mapped(F, v)
    BY MappedType
  <1>4. PICK mw \in Seq(Y) : mw = Mapped(F, w)
    BY MappedType
  <1>5. /\ Len(mv) = Len(v) /\ \A i \in 1 .. Len(v) : mv[i] = F[v[i]]
        /\ Len(mw) = Len(w) /\ \A i \in 1 .. Len(w) : mw[i] = F[w[i]]
    BY <1>3, <1>4, MappedType
  <1>6. F[l] \in Y
    OBVIOUS
  <1>7. PICK m \in Seq(Y) : m = Append(mv, F[l])
    BY <1>6, AppendProperties
  <1>8. /\ Len(m) = Len(v) + 1 /\ \A i \in 1 .. Len(v) : m[i] = mv[i]
        /\ m[Len(v) + 1] = F[l]
    BY <1>5, <1>6, <1>7, AppendProperties
  <1>9. ASSUME NEW i \in 1 .. Len(mw) PROVE mw[i] = m[i]
    <2>1. CASE i = Len(v) + 1
      BY <1>2, <1>5, <1>8, <2>1
    <2>2. CASE i \in 1 .. Len(v)
      <3>1. mw[i] = F[w[i]] /\ w[i] = v[i] /\ m[i] = F[v[i]]
        BY <1>2, <1>5, <1>8, <2>2
      <3> QED
        BY <3>1
    <2> QED
      BY <1>2, <1>5, <2>1, <2>2
  <1>10. mw = m
    <2>1. Len(mw) = Len(m)
      BY <1>2, <1>5, <1>8
    <2> QED
      BY <1>9, <2>1, SeqEqual
  <1> QED
    BY <1>1, <1>3, <1>4, <1>7, <1>10

-----------------------------------------------------------------------------
(* Many sequences, one behind the other *)

\* How FlattenSeq puts the parts of a sequence behind each other.
Joins(s, f) ==
    f = [i \in 1 .. Len(s) |-> IF i = 1 THEN s[i] ELSE f[i - 1] \o s[i]]

\* The first i parts of s, joined.
LEMMA JoinsAt ==
  ASSUME NEW s, NEW f, Joins(s, f), NEW i \in 1 .. Len(s)
  PROVE  f[i] = IF i = 1 THEN s[i] ELSE f[i - 1] \o s[i]
  BY DEF Joins

\* By induction along s: there is a function that joins it.
LEMMA JoinsExists ==
  ASSUME NEW X
  PROVE  \A s \in Seq(X) : \E f : Joins(s, f)
  <1> DEFINE S == {s \in Seq(X) : \E f : Joins(s, f)}
  <1>1. <<>> \in S
    <2>1. Joins(<<>>, [i \in 1 .. 0 |-> 0])
      BY DEF Joins
    <2> QED
      BY <2>1
  <1>2. ASSUME NEW s \in Seq(X), NEW x \in X, s \in S PROVE Append(s, x) \in S
    <2>1. PICK f : Joins(s, f)
      BY <1>2
    <2>2. PICK t \in Seq(X) : t = Append(s, x)
      BY AppendProperties
    <2>3. /\ Len(t) = Len(s) + 1 /\ Len(s) \in Nat /\ \A i \in 1 .. Len(s) : t[i] = s[i]
      BY <2>2, AppendProperties
    <2>4. PICK g : g = [i \in 1 .. Len(t) |-> IF i = 1 THEN t[i]
                                             ELSE IF i <= Len(s) THEN f[i] ELSE f[i - 1] \o t[i]]
      OBVIOUS
    <2>5. ASSUME NEW i \in 1 .. Len(s) PROVE g[i] = f[i]
      <3>1. f[i] = IF i = 1 THEN s[i] ELSE f[i - 1] \o s[i]
        BY <2>1 DEF Joins
      <3>2. i \in 1 .. Len(t) /\ i <= Len(s)
        BY <2>3
      <3> QED
        BY <2>3, <2>4, <3>1, <3>2
    <2>6. ASSUME NEW i \in 1 .. Len(t)
          PROVE  g[i] = IF i = 1 THEN t[i] ELSE g[i - 1] \o t[i]
      <3>1. CASE i = 1
        BY <2>4, <3>1
      <3>2. CASE i # 1 /\ i <= Len(s)
        <4>1. i \in 1 .. Len(s) /\ i - 1 \in 1 .. Len(s)
          BY <2>3, <3>2
        <4>2. f[i] = f[i - 1] \o s[i]
          BY <2>1, <3>2, <4>1 DEF Joins
        <4> QED
          BY <2>3, <2>5, <3>2, <4>1, <4>2
      <3>3. CASE i # 1 /\ ~(i <= Len(s))
        <4>1. i - 1 \in 1 .. Len(s)
          BY <2>3, <3>3
        <4> QED
          BY <2>4, <2>5, <3>3, <4>1
      <3> QED
        BY <3>1, <3>2, <3>3
    <2>7. Joins(t, g)
      <3>1. g = [i \in 1 .. Len(t) |-> g[i]]
        BY <2>4
      <3> QED
        BY <2>6, <3>1 DEF Joins
    <2> QED
      BY <2>2, <2>7
  <1> HIDE DEF S
  <1>3. \A s \in Seq(X) : s \in S
    BY <1>1, <1>2, SeqInduction
  <1> QED
    BY <1>3 DEF S

\* s is what t begins with.
Starts(s, t) ==
    /\ Len(s) \in Nat /\ Len(t) \in Nat /\ Len(s) <= Len(t)
    /\ \A i \in 1 .. Len(s) : s[i] = t[i]

\* What joins a sequence agrees with what joins a longer one.
LEMMA JoinsAgree ==
  ASSUME NEW s, NEW t, Starts(s, t), NEW f, Joins(s, f), NEW g, Joins(t, g)
  PROVE  \A i \in 1 .. Len(s) : f[i] = g[i]
  <1> DEFINE L == {i \in 1 .. Len(s) : f[i] # g[i]}
  <1> SUFFICES ASSUME L # {} PROVE FALSE
    OBVIOUS
  <1>1. L \in SUBSET Nat
    OBVIOUS
  <1>2. PICK m \in L : \A n \in L : m <= n
    <2> HIDE DEF L
    <2> QED
      BY <1>1, Least
  <1>3. /\ m \in 1 .. Len(s) /\ m \in 1 .. Len(t) /\ f[m] # g[m]
        /\ f[m] = IF m = 1 THEN s[m] ELSE f[m - 1] \o s[m]
        /\ g[m] = IF m = 1 THEN t[m] ELSE g[m - 1] \o t[m]
    <2>1. m \in 1 .. Len(s) /\ m \in 1 .. Len(t) /\ f[m] # g[m]
      BY DEF Starts
    <2> QED
      BY <2>1, JoinsAt
  <1>4. m # 1 /\ f[m - 1] # g[m - 1]
    BY <1>3 DEF Starts
  <1>5. m - 1 \in L /\ ~(m <= m - 1)
    BY <1>3, <1>4
  <1> HIDE DEF L
  <1> QED
    BY <1>2, <1>5

\* Sequences join to a sequence.
LEMMA JoinsType ==
  ASSUME NEW X, NEW s \in Seq(Seq(X)), NEW f, Joins(s, f)
  PROVE  \A i \in 1 .. Len(s) : f[i] \in Seq(X)
  <1> DEFINE L == {i \in 1 .. Len(s) : f[i] \notin Seq(X)}
  <1> SUFFICES ASSUME L # {} PROVE FALSE
    OBVIOUS
  <1>1. L \in SUBSET Nat
    OBVIOUS
  <1>2. PICK m \in L : \A n \in L : m <= n
    <2> HIDE DEF L
    <2> QED
      BY <1>1, Least
  <1>3. /\ m \in 1 .. Len(s) /\ f[m] \notin Seq(X) /\ s[m] \in Seq(X)
        /\ f[m] = IF m = 1 THEN s[m] ELSE f[m - 1] \o s[m]
    <2>1. m \in 1 .. Len(s) /\ f[m] \notin Seq(X) /\ s[m] \in Seq(X)
      OBVIOUS
    <2> QED
      BY <2>1, JoinsAt
  <1>4. m # 1 /\ f[m - 1] \notin Seq(X)
    BY <1>3
  <1>5. m - 1 \in L /\ ~(m <= m - 1)
    BY <1>3, <1>4
  <1> HIDE DEF L
  <1> QED
    BY <1>2, <1>5

\* FlattenSeq of no text, and of one text more.
LEMMA FlattenEmpty == Ext!FlattenSeq(<<>>) = <<>>
  BY DEF Ext!FlattenSeq

\* FlattenSeq ends where the joining ends.
LEMMA FlattenJoins ==
  ASSUME NEW X, NEW s \in Seq(X), s # <<>>
  PROVE  \E f : Joins(s, f) /\ Ext!FlattenSeq(s) = f[Len(s)]
  <1>1. PICK g : Joins(s, g)
    BY JoinsExists
  <1>2. PICK f : f = CHOOSE h : h = [i \in 1 .. Len(s) |-> IF i = 1 THEN s[i] ELSE h[i - 1] \o s[i]]
    OBVIOUS
  <1>3. f = [i \in 1 .. Len(s) |-> IF i = 1 THEN s[i] ELSE f[i - 1] \o s[i]]
    BY <1>1, <1>2, Zenon DEF Joins
  <1>4. Len(s) # 0
    BY EmptySeq
  <1>5. Ext!FlattenSeq(s) = f[Len(s)]
    BY <1>2, <1>4 DEF Ext!FlattenSeq
  <1> QED
    BY <1>3, <1>5 DEF Joins

\* FlattenSeq of sequences is a sequence,
LEMMA FlattenType ==
  ASSUME NEW X, NEW s \in Seq(Seq(X))
  PROVE  Ext!FlattenSeq(s) \in Seq(X)
  <1>1. CASE s = <<>>
    <2>1. <<>> \in Seq(X)
      OBVIOUS
    <2> QED
      BY <1>1, <2>1, FlattenEmpty, Zenon
  <1>2. CASE s # <<>>
    <2>1. PICK f : Joins(s, f) /\ Ext!FlattenSeq(s) = f[Len(s)]
      BY <1>2, FlattenJoins
    <2>2. Len(s) \in 1 .. Len(s)
      BY <1>2
    <2> QED
      BY <2>1, <2>2, JoinsType
  <1> QED
    BY <1>1, <1>2

\* and of one sequence more it has that behind.
LEMMA FlattenAppend ==
  ASSUME NEW X, NEW s \in Seq(Seq(X)), NEW x \in Seq(X)
  PROVE  Ext!FlattenSeq(Append(s, x)) = Ext!FlattenSeq(s) \o x
  <1>1. PICK t \in Seq(Seq(X)) : t = Append(s, x)
    BY AppendProperties
  <1>2. /\ Len(t) = Len(s) + 1 /\ Len(s) \in Nat /\ \A i \in 1 .. Len(s) : t[i] = s[i]
        /\ t[Len(t)] = x /\ t # <<>>
    BY <1>1, AppendProperties
  <1>3. PICK g : Joins(t, g) /\ Ext!FlattenSeq(t) = g[Len(t)]
    BY <1>2, FlattenJoins
  <1>4. g[Len(t)] = IF Len(t) = 1 THEN x ELSE g[Len(t) - 1] \o x
    <2>1. Len(t) \in 1 .. Len(t)
      BY <1>2
    <2>2. g[Len(t)] = IF Len(t) = 1 THEN t[Len(t)] ELSE g[Len(t) - 1] \o t[Len(t)]
      BY <1>3, <2>1, JoinsAt, Zenon
    <2> QED
      BY <1>2, <2>2
  <1>5. CASE s = <<>>
    <2>1. Len(t) = 1
      BY <1>2, <1>5
    <2>2. <<>> \o x = x
      BY ConcatEmptySeq
    <2> QED
      BY <1>1, <1>3, <1>4, <1>5, <2>1, <2>2, FlattenEmpty
  <1>6. CASE s # <<>>
    <2>1. PICK f : Joins(s, f) /\ Ext!FlattenSeq(s) = f[Len(s)]
      BY <1>6, FlattenJoins
    <2>2. Len(s) \in 1 .. Len(s) /\ Len(t) - 1 = Len(s) /\ Len(t) # 1
      BY <1>2, <1>6
    <2>3. \A i \in 1 .. Len(s) : f[i] = g[i]
      <3>1. Starts(s, t)
        BY <1>2 DEF Starts
      <3>2. Joins(s, f) /\ Joins(t, g)
        BY <1>3, <2>1
      <3> QED
        BY <3>1, <3>2, JoinsAgree
    <2>4. f[Len(s)] = g[Len(s)]
      BY <2>2, <2>3
    <2> QED
      BY <1>1, <1>3, <1>4, <2>1, <2>2, <2>4
  <1> QED
    BY <1>5, <1>6

=============================================================================
