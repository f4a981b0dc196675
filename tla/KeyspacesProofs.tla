-------------------------- MODULE KeyspacesProofs ---------------------------
(***************************************************************************)
(* Proofs about Keyspaces, for any words without a slash, any number of    *)
(* reports, rows, clusters and callers.                                    *)
(***************************************************************************)
EXTENDS Keyspaces, Induction, SequenceTheorems, FiniteSetTheorems, TLAPS

-----------------------------------------------------------------------------
(* Text *)

\* The letters of keys, and texts made of them.
GvkSigns == {Etcd!Gvk(k)[i] : k \in Etcd!Kinds, i \in 1 .. 3}
Signs == Alphabet \cup {"/", Kind} \cup GvkSigns
Texts == Seq(Signs)

\* A slash is a text of one character.
LEMMA SlashFacts == <<"/">> \in Texts /\ Len(<<"/">>) = 1 /\ <<"/">>[1] = "/"
  <1>1. "/" \in Signs
    BY DEF Signs
  <1> QED
    BY <1>1 DEF Texts

\* A word is a text that is not empty and has no slash.
LEMMA WordFacts ==
  ASSUME NEW n \in Nat, NEW w \in Words(n)
  PROVE  /\ w \in Texts /\ Len(w) \in Nat \ {0} /\ w # <<>>
         /\ \A i \in 1 .. Len(w) : w[i] # "/"
  <1>1. PICK m \in 1 .. n : w \in [1 .. m -> Alphabet]
    BY DEF Words
  <1>2. w \in Seq(Alphabet) /\ Len(w) = m /\ m \in Nat \ {0}
    BY <1>1
  <1>3. w \in Texts
    BY <1>1, <1>2 DEF Texts, Signs
  <1>4. w # <<>>
    BY <1>2
  <1>5. ASSUME NEW i \in 1 .. Len(w) PROVE w[i] # "/"
    <2>1. w[i] \in Alphabet
      BY <1>1, <1>2
    <2> QED
      BY <2>1, KeyspacesAssumption
  <1> QED
    BY <1>2, <1>3, <1>4, <1>5

\* The parts of two texts, one behind the other.
LEMMA JoinedTexts ==
  ASSUME NEW s \in Texts, NEW t \in Texts
  PROVE  /\ s \o t \in Texts /\ Len(s \o t) = Len(s) + Len(t)
         /\ Len(s) \in Nat /\ Len(t) \in Nat
         /\ \A i \in 1 .. Len(s) + Len(t) :
              (s \o t)[i] = IF i <= Len(s) THEN s[i] ELSE t[i - Len(s)]
  BY ConcatProperties DEF Texts

\* Two texts, one behind the other.
LEMMA JoinedParts ==
  ASSUME NEW s \in Texts, NEW t \in Texts
  PROVE  \E u \in Texts :
           /\ u = s \o t /\ Len(u) = Len(s) + Len(t)
           /\ \A i \in 1 .. Len(s) : u[i] = s[i]
           /\ \A i \in 1 .. Len(t) : u[Len(s) + i] = t[i]
  <1>0. PICK u : u = s \o t
    OBVIOUS
  <1>1. /\ u \in Texts /\ Len(u) = Len(s) + Len(t) /\ Len(s) \in Nat /\ Len(t) \in Nat
        /\ \A i \in 1 .. Len(s) + Len(t) : u[i] = IF i <= Len(s) THEN s[i] ELSE t[i - Len(s)]
    BY <1>0, JoinedTexts
  <1>3. \A i \in 1 .. Len(s) : u[i] = s[i]
    BY <1>1
  <1>4. ASSUME NEW i \in 1 .. Len(t) PROVE u[Len(s) + i] = t[i]
    <2>1. PICK j \in 1 .. Len(s) + Len(t) : j = Len(s) + i /\ ~(j <= Len(s)) /\ j - Len(s) = i
      BY <1>1
    <2>2. u[j] = t[j - Len(s)]
      BY <1>1, <2>1
    <2> QED
      BY <2>1, <2>2
  <1> QED
    BY <1>0, <1>1, <1>3, <1>4

\* A text t begins with s.
Begins(t, s) == Len(s) <= Len(t) /\ \A i \in 1 .. Len(s) : t[i] = s[i]

\* etcd's range by prefix, in terms of characters.
LEMMA PrefixMeans ==
  ASSUME NEW s \in Texts, NEW t \in Texts
  PROVE  Etcd!IsPrefix(s, t) <=> Begins(t, s)
  <1>0. Len(s) \in Nat /\ Len(t) \in Nat
    BY DEF Texts
  <1>1. ASSUME Len(s) <= Len(t)
        PROVE  (SubSeq(s, 1, Len(s)) = SubSeq(t, 1, Len(s))) <=> \A i \in 1 .. Len(s) : t[i] = s[i]
    <2>1. PICK u : u = SubSeq(s, 1, Len(s))
      OBVIOUS
    <2>2. PICK v : v = SubSeq(t, 1, Len(s))
      OBVIOUS
    <2>3. u = [i \in 1 .. Len(s) |-> s[i]]
      BY <1>0, <2>1 DEF Texts
    <2>4. v = [i \in 1 .. Len(s) |-> t[i]]
      BY <1>0, <1>1, <2>2 DEF Texts
    <2>5. (u = v) <=> \A i \in 1 .. Len(s) : t[i] = s[i]
      BY <2>3, <2>4
    <2> QED
      BY <2>1, <2>2, <2>5
  <1> QED
    BY <1>1 DEF Begins, Etcd!IsPrefix

\* What follows the same beginning is the same.
LEMMA SameEnd ==
  ASSUME NEW p \in Texts, NEW s \in Texts, NEW t \in Texts, p \o s = p \o t
  PROVE  s = t
  BY ConcatSimplifications DEF Texts

\* What a namespace may be, with the empty one.
Spaces == Words(MaxWord) \cup {<<>>}

\* A folder p, or the folder of a namespace in it; what a key and the prefix of
\* a list begin with.
Path(p, ns) == p \o ns \o <<"/">>
Folder(p, ns) == IF ns = <<>> THEN p ELSE Path(p, ns)
Place(p, ns, name) == Folder(p, ns) \o name

\* The letters of a path.
LEMMA PathParts ==
  ASSUME NEW p \in Texts, NEW ns \in Texts
  PROVE  \E r \in Texts :
           /\ r = Path(p, ns) /\ Len(r) = Len(p) + Len(ns) + 1
           /\ \A i \in 1 .. Len(p) : r[i] = p[i]
           /\ \A i \in 1 .. Len(ns) : r[Len(p) + i] = ns[i]
           /\ r[Len(r)] = "/"
  <1>0. PICK n \in Nat, m \in Nat : n = Len(p) /\ m = Len(ns)
    BY DEF Texts
  <1>1. PICK slash \in Texts : slash = <<"/">> /\ Len(slash) = 1 /\ slash[1] = "/"
    BY SlashFacts
  <1>2. PICK q \in Texts :
          /\ q = p \o ns /\ Len(q) = Len(p) + Len(ns)
          /\ \A i \in 1 .. Len(p) : q[i] = p[i]
          /\ \A i \in 1 .. Len(ns) : q[Len(p) + i] = ns[i]
    BY JoinedParts
  <1>3. PICK l \in Nat : l = n + m /\ Len(q) = l
    BY <1>0, <1>2
  <1>4. /\ \A i \in 1 .. n : q[i] = p[i] /\ i \in 1 .. l
        /\ \A i \in 1 .. m : q[n + i] = ns[i] /\ n + i \in 1 .. l
    BY <1>0, <1>2, <1>3
  <1>5. PICK r \in Texts :
          /\ r = q \o slash /\ Len(r) = Len(q) + Len(slash)
          /\ \A i \in 1 .. Len(q) : r[i] = q[i]
          /\ \A i \in 1 .. Len(slash) : r[Len(q) + i] = slash[i]
    BY JoinedParts
  <1>6. /\ Len(r) = l + 1
        /\ \A i \in 1 .. l : r[i] = q[i]
        /\ \A i \in 1 .. 1 : r[l + i] = slash[i]
    BY <1>1, <1>3, <1>5
  <1>7. r = Path(p, ns)
    BY <1>1, <1>2, <1>5 DEF Path
  <1>8. r[l + 1] = "/"
    BY <1>1, <1>6
  <1>9. /\ \A i \in 1 .. n : r[i] = p[i]
        /\ \A i \in 1 .. m : r[n + i] = ns[i]
    BY <1>4, <1>6
  <1> QED
    BY <1>0, <1>3, <1>6, <1>7, <1>8, <1>9

\* The folder of a namespace begins with what it is in.
LEMMA FolderText ==
  ASSUME NEW p \in Texts, NEW ns \in Spaces
  PROVE  Folder(p, ns) \in Texts /\ Begins(Folder(p, ns), p)
  <1>1. PICK n \in Nat : n = Len(p)
    BY DEF Texts
  <1>2. CASE ns = <<>>
    <2>1. Begins(p, p)
      BY <1>1 DEF Begins
    <2> QED
      BY <1>2, <2>1 DEF Folder
  <1>3. CASE ns # <<>>
    <2>1. ns \in Texts /\ Len(ns) \in Nat
      BY <1>3, WordFacts, KeyspacesAssumption DEF Spaces
    <2>2. PICK m \in Nat : m = Len(ns)
      BY <2>1
    <2>3. PICK r \in Texts : /\ r = Path(p, ns) /\ Len(r) = Len(p) + Len(ns) + 1
                             /\ \A i \in 1 .. Len(p) : r[i] = p[i]
      BY <2>1, PathParts
    <2>4. n <= Len(r)
      BY <1>1, <2>2, <2>3
    <2>5. Begins(r, p)
      BY <1>1, <2>3, <2>4 DEF Begins
    <2> QED
      BY <1>3, <2>3, <2>5 DEF Folder
  <1> QED
    BY <1>2, <1>3

\* A text begins with the paths of two namespaces of a folder: as neither has
\* a slash in it, they are one.
LEMMA SamePath ==
  ASSUME NEW p \in Texts, NEW v \in Words(MaxWord), NEW w \in Words(MaxWord), NEW key,
         Begins(key, Path(p, v)), Begins(key, Path(p, w))
  PROVE  v = w
  <1>1. /\ v \in Texts /\ w \in Texts /\ Len(v) \in Nat /\ Len(w) \in Nat
        /\ \A i \in 1 .. Len(v) : v[i] # "/"
        /\ \A i \in 1 .. Len(w) : w[i] # "/"
    BY WordFacts, KeyspacesAssumption
  <1>2. PICK n \in Nat : n = Len(p)
    BY DEF Texts
  <1>3. ASSUME NEW u \in Words(MaxWord), u \in Texts, NEW m \in Nat, m = Len(u), Begins(key, Path(p, u))
        PROVE  /\ \A i \in 1 .. m : key[n + i] = u[i]
               /\ key[n + m + 1] = "/"
    <2>1. PICK r \in Texts : /\ r = Path(p, u) /\ Len(r) = n + m + 1
                             /\ \A i \in 1 .. m : r[n + i] = u[i]
                             /\ r[n + m + 1] = "/"
      <3>1. PICK r \in Texts : /\ r = Path(p, u) /\ Len(r) = Len(p) + Len(u) + 1
                               /\ \A i \in 1 .. Len(u) : r[Len(p) + i] = u[i]
                               /\ r[Len(r)] = "/"
        BY <1>3, PathParts
      <3>2. Len(r) = n + m + 1 /\ \A i \in 1 .. m : r[n + i] = u[i]
        BY <1>2, <1>3, <3>1
      <3> QED
        BY <3>1, <3>2
    <2>2. PICK l \in Nat : l = n + m + 1 /\ r[l] = "/" /\ Len(r) = l
      BY <2>1
    <2>3. \A i \in 1 .. l : key[i] = r[i]
      BY <1>3, <2>1, <2>2 DEF Begins
    <2>4. \A i \in 1 .. m : n + i \in 1 .. l
      BY <2>2
    <2>5. l \in 1 .. l
      BY <2>2
    <2>6. \A i \in 1 .. m : key[n + i] = u[i]
      BY <2>1, <2>3, <2>4
    <2>7. key[l] = "/"
      BY <2>2, <2>3, <2>5
    <2> QED
      BY <2>2, <2>6, <2>7
  <1>4. PICK k \in Nat, m \in Nat : k = Len(v) /\ m = Len(w)
    BY <1>1
  <1>5. /\ \A i \in 1 .. k : key[n + i] = v[i] /\ v[i] # "/"
        /\ key[n + k + 1] = "/"
        /\ \A i \in 1 .. m : key[n + i] = w[i] /\ w[i] # "/"
        /\ key[n + m + 1] = "/"
    BY <1>1, <1>3, <1>4
  <1>6. ~(k < m)
    <2> SUFFICES ASSUME k < m PROVE FALSE
      OBVIOUS
    <2>1. PICK i \in 1 .. m : i = k + 1 /\ n + i = n + k + 1
      OBVIOUS
    <2> QED
      BY <1>5, <2>1
  <1>7. ~(m < k)
    <2> SUFFICES ASSUME m < k PROVE FALSE
      OBVIOUS
    <2>1. PICK i \in 1 .. k : i = m + 1 /\ n + i = n + m + 1
      OBVIOUS
    <2> QED
      BY <1>5, <2>1
  <1>8. k = m
    BY <1>6, <1>7
  <1>9. \A i \in 1 .. Len(v) : v[i] = w[i]
    BY <1>4, <1>5, <1>8
  <1> QED
    BY <1>1, <1>4, <1>8, <1>9, SeqEqual DEF Texts

\* What lies in the folder of a namespace begins with the outer folder, with
\* this folder, and with that of no other namespace.
LEMMA FolderFits ==
  ASSUME NEW p \in Texts, NEW own \in Spaces,
         NEW ns \in Spaces, own = <<>> => ns = <<>>,
         NEW name \in Texts, NEW key, key = Place(p, own, name)
  PROVE  /\ key \in Texts /\ Begins(key, p)
         /\ Begins(key, Folder(p, ns)) <=> ns = <<>> \/ own = ns
  <1>1. PICK f \in Texts : f = Folder(p, own) /\ Begins(f, p)
    BY FolderText
  <1>2. PICK u \in Texts : /\ u = f \o name /\ Len(u) = Len(f) + Len(name)
                           /\ \A i \in 1 .. Len(f) : u[i] = f[i]
    BY JoinedParts
  <1>3. u = key
    BY <1>1, <1>2 DEF Place
  <1>4. Len(p) \in Nat /\ Len(f) \in Nat /\ Len(name) \in Nat
    BY DEF Texts
  <1>5. Len(p) <= Len(f) /\ \A i \in 1 .. Len(p) : f[i] = p[i]
    BY <1>1 DEF Begins
  <1>6. Len(p) <= Len(u) /\ Len(f) <= Len(u)
    BY <1>2, <1>4, <1>5
  <1>7. \A i \in 1 .. Len(p) : i \in 1 .. Len(f)
    BY <1>4, <1>5
  <1>8. \A i \in 1 .. Len(p) : u[i] = p[i]
    BY <1>2, <1>5, <1>7
  <1>9. Begins(u, p) /\ Begins(u, f)
    BY <1>2, <1>6, <1>8 DEF Begins
  <1>10. ASSUME ns = <<>> \/ own = ns PROVE Begins(key, Folder(p, ns))
    <2>1. CASE ns = <<>>
      BY <1>3, <1>9, <2>1 DEF Folder
    <2>2. CASE own = ns
      BY <1>1, <1>3, <1>9, <2>2
    <2> QED
      BY <1>10, <2>1, <2>2
  <1>11. ASSUME Begins(key, Folder(p, ns)), ns # <<>> PROVE own = ns
    <2>1. own \in Words(MaxWord) /\ ns \in Words(MaxWord) /\ own # <<>>
      BY <1>11 DEF Spaces
    <2>2. Begins(key, Path(p, ns)) /\ Begins(key, Path(p, own))
      BY <1>1, <1>3, <1>9, <1>11, <2>1 DEF Folder
    <2> QED
      BY <2>1, <2>2, SamePath
  <1> QED
    BY <1>3, <1>9, <1>10, <1>11

\* A folder, a namespace and a name give one key only.
LEMMA SamePlace ==
  ASSUME NEW p \in Texts, NEW v \in Spaces, NEW w \in Spaces,
         v = <<>> <=> w = <<>>, NEW s \in Texts, NEW t \in Texts,
         Place(p, v, s) = Place(p, w, t)
  PROVE  v = w /\ s = t
  <1>1. PICK key : key = Place(p, v, s) /\ key = Place(p, w, t)
    OBVIOUS
  <1>2. Begins(key, Folder(p, v)) <=> v = <<>> \/ v = v
    BY <1>1, FolderFits
  <1>3. Begins(key, Folder(p, v)) <=> v = <<>> \/ w = v
    BY <1>1, FolderFits
  <1>4. v = w
    BY <1>2, <1>3
  <1>5. PICK f \in Texts : f = Folder(p, v)
    BY FolderText
  <1> QED
    BY <1>4, <1>5, SameEnd DEF Place

-----------------------------------------------------------------------------
(* Keys in etcd *)

\* What a report is called in etcd.
LEMMA IdFacts ==
  ASSUME NEW id \in Etcd!Ids
  PROVE  /\ id.kind \in Etcd!Kinds /\ id.name \in Texts
         /\ id.kind \in Etcd!Namespaced => id.ns \in Words(MaxWord)
         /\ id.kind \notin Etcd!Namespaced => id.ns = <<>>
         /\ id = [kind |-> id.kind, ns |-> id.ns, name |-> id.name]
  <1>1. \A w \in Words(MaxWord) : w \in Texts
    BY WordFacts, KeyspacesAssumption
  <1> QED
    BY <1>1 DEF Etcd!Ids, Etcd!Kinds, Etcd!Namespaced

\* The part of a key that tells the kinds apart.
LEMMA KindFacts ==
  ASSUME NEW kind \in Etcd!Kinds
  PROVE  /\ Etcd!KindPrefix(kind) \in Texts /\ Len(Etcd!KindPrefix(kind)) = 6
         /\ \A other \in Etcd!Kinds :
              /\ Etcd!KindPrefix(kind)[1] = Etcd!KindPrefix(other)[1]
              /\ Etcd!KindPrefix(kind)[5] = Etcd!KindPrefix(other)[5]
              => kind = other
  <1>2. ASSUME NEW k \in Etcd!Kinds
        PROVE  /\ Etcd!KindPrefix(k) \in Texts /\ Len(Etcd!KindPrefix(k)) = 6
               /\ Etcd!KindPrefix(k)[1] = Etcd!Gvk(k)[1]
               /\ Etcd!KindPrefix(k)[5] = Etcd!Gvk(k)[3]
    <2>1. PICK a, b, c : a = Etcd!Gvk(k)[1] /\ b = Etcd!Gvk(k)[2] /\ c = Etcd!Gvk(k)[3]
      OBVIOUS
    <2>2. Etcd!KindPrefix(k) = <<a, "/", b, "/", c, "/">>
      BY <2>1 DEF Etcd!KindPrefix
    <2>3. a \in Signs /\ b \in Signs /\ c \in Signs /\ "/" \in Signs
      BY <2>1 DEF Signs, GvkSigns
    <2>4. <<a, "/", b, "/", c, "/">> \in Texts
      BY <2>3 DEF Texts
    <2> QED
      BY <2>1, <2>2, <2>4
  <1>3. ASSUME NEW other \in Etcd!Kinds, Etcd!Gvk(kind)[1] = Etcd!Gvk(other)[1],
               Etcd!Gvk(kind)[3] = Etcd!Gvk(other)[3]
        PROVE  kind = other
    BY <1>3 DEF Etcd!Gvk, Etcd!Kinds, Etcd!Namespaced
  <1> QED
    BY <1>2, <1>3

\* Prefixes and keys are folders, and what lies in them.
LEMMA EtcdPlaces ==
  /\ \A kind, ns : Etcd!getPrefix(kind, ns) = Folder(Etcd!KindPrefix(kind), ns)
  /\ \A id : Etcd!getKey(id) = Place(Etcd!KindPrefix(id.kind), id.ns, id.name)
  BY DEF Etcd!getPrefix, Etcd!getKey, Place, Folder, Path

\* A key begins with a prefix exactly if the prefix is that of its kind, and of
\* all namespaces or its own.
LEMMA PrefixFits ==
  ASSUME NEW kind \in Etcd!Kinds, NEW ns \in Spaces,
         ns = <<>> \/ kind \in Etcd!Namespaced, NEW id \in Etcd!Ids
  PROVE  Etcd!IsPrefix(Etcd!getPrefix(kind, ns), Etcd!getKey(id))
           <=> id.kind = kind /\ (ns = <<>> \/ id.ns = ns)
  <1>0. /\ id.kind \in Etcd!Kinds /\ id.name \in Texts /\ id.ns \in Spaces
        /\ id.kind \in Etcd!Namespaced => id.ns # <<>>
    BY IdFacts, WordFacts, KeyspacesAssumption DEF Spaces
  <1>1. PICK p \in Texts : p = Etcd!KindPrefix(kind) /\ Len(p) = 6
    BY KindFacts
  <1>2. PICK q \in Texts : q = Etcd!KindPrefix(id.kind) /\ Len(q) = 6
    BY <1>0, KindFacts
  <1>3. PICK r \in Texts : r = Etcd!getPrefix(kind, ns) /\ r = Folder(p, ns) /\ Begins(r, p)
    BY <1>1, EtcdPlaces, FolderText
  <1>4. PICK own, name, key :
          /\ own \in Spaces /\ own = id.ns /\ name \in Texts /\ name = id.name
          /\ key = Etcd!getKey(id) /\ key = Place(q, own, name)
    BY <1>0, <1>2, EtcdPlaces
  <1>5. key \in Texts /\ Begins(key, q)
    <2>1. PICK all \in Spaces : all = <<>>
      BY DEF Spaces
    <2>2. own = <<>> => all = <<>>
      BY <2>1
    <2> QED
      <3>1. key = Place(q, own, name)
        BY <1>4
      <3> QED
        BY <1>4, <2>2, <3>1, FolderFits
  <1>6. Etcd!IsPrefix(Etcd!getPrefix(kind, ns), Etcd!getKey(id)) <=> Begins(key, r)
    BY <1>3, <1>4, <1>5, PrefixMeans
  <1>7. Begins(key, r) => kind = id.kind
    <2> SUFFICES ASSUME Begins(key, r) PROVE kind = id.kind
      OBVIOUS
    <2>1. 1 \in 1 .. 6 /\ 5 \in 1 .. 6
      OBVIOUS
    <2>2. 6 <= Len(r) /\ Len(r) \in Nat /\ r[1] = p[1] /\ r[5] = p[5]
      BY <1>1, <1>3, <2>1 DEF Begins, Texts
    <2>3. key[1] = r[1] /\ key[5] = r[5]
      BY <2>2 DEF Begins
    <2>4. key[1] = q[1] /\ key[5] = q[5]
      BY <1>2, <1>5, <2>1 DEF Begins
    <2> QED
      BY <1>0, <1>1, <1>2, <2>2, <2>3, <2>4, KindFacts
  <1>8. ASSUME kind = id.kind PROVE Begins(key, r) <=> ns = <<>> \/ id.ns = ns
    <2>1. p = q /\ (own = <<>> => ns = <<>>)
      BY <1>0, <1>1, <1>2, <1>4, <1>8
    <2>2. key = Place(p, own, name)
      BY <1>4, <2>1
    <2>3. Begins(key, Folder(p, ns)) <=> ns = <<>> \/ own = ns
      BY <1>4, <2>1, <2>2, FolderFits
    <2> QED
      BY <1>3, <1>4, <2>3
  <1> QED
    BY <1>6, <1>7, <1>8

\* No two reports share a key.
LEMMA KeysDiffer ==
  ASSUME NEW id \in Etcd!Ids, NEW other \in Etcd!Ids, Etcd!getKey(id) = Etcd!getKey(other)
  PROVE  id = other
  <1>0. /\ id.kind \in Etcd!Kinds /\ id.ns \in Spaces
        /\ other.kind \in Etcd!Kinds /\ other.ns \in Spaces
        /\ id.name \in Texts /\ other.name \in Texts
        /\ id = [kind |-> id.kind, ns |-> id.ns, name |-> id.name]
        /\ other = [kind |-> other.kind, ns |-> other.ns, name |-> other.name]
        /\ id.ns = <<>> <=> id.kind \notin Etcd!Namespaced
        /\ other.ns = <<>> <=> other.kind \notin Etcd!Namespaced
    BY IdFacts, WordFacts, KeyspacesAssumption DEF Spaces
  <1>1. id.ns = <<>> \/ id.kind \in Etcd!Namespaced
    BY <1>0
  <1>2. Etcd!IsPrefix(Etcd!getPrefix(id.kind, id.ns), Etcd!getKey(other))
    BY <1>0, <1>1, PrefixFits
  <1>3. other.kind = id.kind
    BY <1>0, <1>1, <1>2, PrefixFits
  <1>4. PICK p \in Texts : p = Etcd!KindPrefix(id.kind)
    BY <1>0, KindFacts
  <1>5. Place(p, id.ns, id.name) = Place(p, other.ns, other.name)
    BY <1>3, <1>4, EtcdPlaces
  <1>6. id.ns = other.ns /\ id.name = other.name
    <2>1. id.ns = <<>> <=> other.ns = <<>>
      BY <1>0, <1>3
    <2> QED
      <3>1. PICK v \in Spaces, w \in Spaces, s \in Texts, t \in Texts :
              v = id.ns /\ w = other.ns /\ s = id.name /\ t = other.name
        BY <1>0
      <3>2. (v = <<>> <=> w = <<>>) /\ Place(p, v, s) = Place(p, w, t)
        BY <1>5, <2>1, <3>1
      <3>3. v = w /\ s = t
        BY <3>2, SamePlace
      <3> QED
        BY <3>1, <3>3
  <1> QED
    BY <1>0, <1>3, <1>6

\* A key is there if its report is.
LEMMA KeyThere ==
  ASSUME Etcd!KeysInv, NEW id \in Etcd!Ids
  PROVE  Etcd!getKey(id) \in DOMAIN etcd <=> written[id] # NoContent
  <1>1. DOMAIN etcd = {Etcd!getKey(i) : i \in {j \in Etcd!Ids : written[j] # NoContent}}
    BY DEF Etcd!KeysInv
  <1>2. ASSUME Etcd!getKey(id) \in DOMAIN etcd PROVE written[id] # NoContent
    <2>1. PICK i \in Etcd!Ids : written[i] # NoContent /\ Etcd!getKey(id) = Etcd!getKey(i)
      BY <1>1, <1>2
    <2> QED
      BY <2>1, KeysDiffer
  <1> QED
    BY <1>1, <1>2

\* Create and Update: the report, under its key and no other.
LEMMA PutStep ==
  ASSUME Etcd!KeysInv, NEW id \in Etcd!Ids, NEW content \in Contents, Etcd!Put(id, content)
  PROVE  Etcd!KeysInv'
  <1>0. /\ written \in [Etcd!Ids -> Contents \cup {NoContent}]
        /\ content # NoContent
        /\ written' = [written EXCEPT ![id] = content]
        /\ etcd' = [key \in DOMAIN etcd \cup {Etcd!getKey(id)} |->
                      IF key = Etcd!getKey(id) THEN [id |-> id, content |-> content] ELSE etcd[key]]
    BY KeyspacesAssumption DEF Etcd!KeysInv, Etcd!Put
  <1>1. written' \in [Etcd!Ids -> Contents \cup {NoContent}]
    BY <1>0
  <1>2. \A i \in Etcd!Ids : written'[i] = IF i = id THEN content ELSE written[i]
    BY <1>0
  <1>3. DOMAIN etcd' = DOMAIN etcd \cup {Etcd!getKey(id)}
    BY <1>0
  <1>4. ASSUME NEW key PROVE key \in DOMAIN etcd' <=> \E i \in Etcd!Ids : written'[i] # NoContent /\ key = Etcd!getKey(i)
    <2>1. key \in DOMAIN etcd <=> \E i \in Etcd!Ids : written[i] # NoContent /\ key = Etcd!getKey(i)
      BY DEF Etcd!KeysInv
    <2> QED
      BY <1>0, <1>2, <1>3, <2>1
  <1>5. DOMAIN etcd' = {Etcd!getKey(i) : i \in {j \in Etcd!Ids : written'[j] # NoContent}}
    BY <1>4
  <1>6. ASSUME NEW i \in Etcd!Ids, written'[i] # NoContent
        PROVE  etcd'[Etcd!getKey(i)] = [id |-> i, content |-> written'[i]]
    <2>1. CASE i = id
      BY <1>0, <1>2, <2>1
    <2>2. CASE i # id
      <3>1. Etcd!getKey(i) # Etcd!getKey(id) /\ written'[i] = written[i]
        BY <1>2, <2>2, KeysDiffer
      <3>2. Etcd!getKey(i) \in DOMAIN etcd
        BY <1>6, <3>1, KeyThere
      <3>3. etcd'[Etcd!getKey(i)] = etcd[Etcd!getKey(i)]
        BY <1>0, <3>1, <3>2
      <3> QED
        BY <1>6, <3>1, <3>3 DEF Etcd!KeysInv
    <2> QED
      BY <2>1, <2>2
  <1> QED
    BY <1>1, <1>5, <1>6 DEF Etcd!KeysInv

\* Delete: its key, and no other, is gone.
LEMMA DeleteStep ==
  ASSUME Etcd!KeysInv, NEW id \in Etcd!Ids, Etcd!Delete(id)
  PROVE  Etcd!KeysInv'
  <1>0. /\ written \in [Etcd!Ids -> Contents \cup {NoContent}]
        /\ written' = [written EXCEPT ![id] = NoContent]
        /\ etcd' = [key \in DOMAIN etcd \ {Etcd!getKey(id)} |-> etcd[key]]
    BY DEF Etcd!KeysInv, Etcd!Delete
  <1>1. written' \in [Etcd!Ids -> Contents \cup {NoContent}]
    BY <1>0
  <1>2. \A i \in Etcd!Ids : written'[i] = IF i = id THEN NoContent ELSE written[i]
    BY <1>0
  <1>3. DOMAIN etcd' = DOMAIN etcd \ {Etcd!getKey(id)}
    BY <1>0
  <1>4. ASSUME NEW key PROVE key \in DOMAIN etcd' <=> \E i \in Etcd!Ids : written'[i] # NoContent /\ key = Etcd!getKey(i)
    <2>1. key \in DOMAIN etcd <=> \E i \in Etcd!Ids : written[i] # NoContent /\ key = Etcd!getKey(i)
      BY DEF Etcd!KeysInv
    <2> QED
      BY <1>2, <1>3, <2>1, KeysDiffer
  <1>5. DOMAIN etcd' = {Etcd!getKey(i) : i \in {j \in Etcd!Ids : written'[j] # NoContent}}
    BY <1>4
  <1>6. ASSUME NEW i \in Etcd!Ids, written'[i] # NoContent
        PROVE  etcd'[Etcd!getKey(i)] = [id |-> i, content |-> written'[i]]
    <2>1. i # id /\ written'[i] = written[i]
      BY <1>2, <1>6
    <2>2. Etcd!getKey(i) # Etcd!getKey(id)
      BY <2>1, KeysDiffer
    <2>3. Etcd!getKey(i) \in DOMAIN etcd
      BY <1>6, <2>1, KeyThere
    <2>4. etcd'[Etcd!getKey(i)] = etcd[Etcd!getKey(i)]
      BY <1>0, <2>2, <2>3
    <2> QED
      BY <1>6, <2>1, <2>4 DEF Etcd!KeysInv
  <1> QED
    BY <1>1, <1>5, <1>6 DEF Etcd!KeysInv

\* Every step of etcd's keys.
LEMMA EtcdStep == Etcd!KeysInv /\ Etcd!Next => Etcd!KeysInv'
  BY PutStep, DeleteStep DEF Etcd!Next, Etcd!Create, Etcd!Update

\* etcd is empty at first.
LEMMA EtcdInit == Etcd!Init => Etcd!KeysInv
  <1> SUFFICES ASSUME Etcd!Init PROVE Etcd!KeysInv
    OBVIOUS
  <1>1. written \in [Etcd!Ids -> Contents \cup {NoContent}] /\ \A i \in Etcd!Ids : written[i] = NoContent
    BY DEF Etcd!Init
  <1>2. DOMAIN etcd = {}
    BY DEF Etcd!Init
  <1>3. {j \in Etcd!Ids : written[j] # NoContent} = {}
    BY <1>1
  <1> QED
    BY <1>1, <1>2, <1>3 DEF Etcd!KeysInv

\* What etcd holds gives a Get its own report,
LEMMA EtcdGets == Etcd!KeysInv => Etcd!GetsOwn
  <1> SUFFICES ASSUME Etcd!KeysInv, NEW id \in Etcd!Ids PROVE Etcd!Get(id) = written[id]
    BY DEF Etcd!GetsOwn
  <1>1. CASE written[id] = NoContent
    BY <1>1, KeyThere DEF Etcd!Get
  <1>2. CASE written[id] # NoContent
    <2>1. etcd[Etcd!getKey(id)] = [id |-> id, content |-> written[id]]
      BY <1>2 DEF Etcd!KeysInv
    <2> QED
      BY <1>2, <2>1, KeyThere DEF Etcd!Get
  <1> QED
    BY <1>1, <1>2

\* and a List its own reports.
LEMMA EtcdLists == Etcd!KeysInv => Etcd!ListsOwn
  <1> SUFFICES ASSUME Etcd!KeysInv, NEW kind \in Etcd!Kinds, NEW ns \in Words(MaxWord) \cup {<<>>},
                      ns = <<>> \/ kind \in Etcd!Namespaced
               PROVE  Etcd!List(kind, ns) =
                        {[id |-> id, content |-> written[id]] :
                           id \in {i \in Etcd!Ids : /\ i.kind = kind /\ written[i] # NoContent
                                                    /\ ns = <<>> \/ i.ns = ns}}
    BY DEF Etcd!ListsOwn
  <1>1. \A key : key \in DOMAIN etcd <=> \E i \in Etcd!Ids : written[i] # NoContent /\ key = Etcd!getKey(i)
    BY DEF Etcd!KeysInv
  <1>2. \A i \in Etcd!Ids : written[i] # NoContent =>
          etcd[Etcd!getKey(i)] = [id |-> i, content |-> written[i]]
    BY DEF Etcd!KeysInv
  <1>3. \A i \in Etcd!Ids : Etcd!IsPrefix(Etcd!getPrefix(kind, ns), Etcd!getKey(i))
                              <=> i.kind = kind /\ (ns = <<>> \/ i.ns = ns)
    BY PrefixFits DEF Spaces
  <1>4. ASSUME NEW v
        PROVE  v \in Etcd!List(kind, ns) <=>
                 \E i \in Etcd!Ids : /\ i.kind = kind /\ written[i] # NoContent
                                     /\ ns = <<>> \/ i.ns = ns
                                     /\ v = [id |-> i, content |-> written[i]]
    <2>1. v \in Etcd!List(kind, ns) <=>
            \E key \in DOMAIN etcd : Etcd!IsPrefix(Etcd!getPrefix(kind, ns), key) /\ v = etcd[key]
      BY DEF Etcd!List
    <2>2. ASSUME NEW key \in DOMAIN etcd, Etcd!IsPrefix(Etcd!getPrefix(kind, ns), key), v = etcd[key]
          PROVE  \E i \in Etcd!Ids : /\ i.kind = kind /\ written[i] # NoContent
                                     /\ ns = <<>> \/ i.ns = ns
                                     /\ v = [id |-> i, content |-> written[i]]
      <3>1. PICK i \in Etcd!Ids : written[i] # NoContent /\ key = Etcd!getKey(i)
        BY <1>1
      <3> QED
        BY <1>2, <1>3, <2>2, <3>1
    <2>3. ASSUME NEW i \in Etcd!Ids, i.kind = kind, written[i] # NoContent,
                 ns = <<>> \/ i.ns = ns, v = [id |-> i, content |-> written[i]]
          PROVE  v \in Etcd!List(kind, ns)
      <3>1. PICK key : key = Etcd!getKey(i)
        OBVIOUS
      <3>2. key \in DOMAIN etcd /\ Etcd!IsPrefix(Etcd!getPrefix(kind, ns), key) /\ v = etcd[key]
        BY <1>1, <1>2, <1>3, <2>3, <3>1
      <3> QED
        BY <2>1, <3>2
    <2> QED
      BY <2>1, <2>2, <2>3, Zenon
  <1> QED
    BY <1>4

-----------------------------------------------------------------------------
(* Tables in Postgres *)

\* What the WHERE clause of a statement for one report, and the primary key,
\* say of a row.
Matches(r, cl, id) ==
    /\ r.name = id.name /\ r.clusterId = cl
    /\ id.kind \in Postgres!Namespaced => r.namespace = id.ns

MaybeContents == Contents \cup {NoContent}
Written == [Clusters -> [Postgres!Ids -> MaybeContents]]

\* What is written before and after a call for one report.
Changed(w, v, cl, id, content) ==
    \A d \in Clusters, i \in Postgres!Ids :
      v[d][i] = IF d = cl /\ i = id THEN content ELSE w[d][i]

\* What a report is called in Postgres.
LEMMA RowIdFacts ==
  ASSUME NEW id \in Postgres!Ids
  PROVE  /\ id.kind \in Postgres!Kinds
         /\ id.kind \notin Postgres!Namespaced => id.ns = <<>>
         /\ id = [kind |-> id.kind, ns |-> id.ns, name |-> id.name]
  BY DEF Postgres!Ids, Postgres!Kinds, Postgres!Namespaced

\* What the columns of a row say.
LEMMA RowFacts ==
  ASSUME NEW cl, NEW id, NEW content, NEW r, r = Postgres!Row(cl, id, content)
  PROVE  /\ r.name = id.name /\ r.clusterId = cl
         /\ r.report = [id |-> id, content |-> content]
         /\ id.kind \in Postgres!Namespaced => r.namespace = id.ns
         /\ \A other : [r EXCEPT !.report = [id |-> id, content |-> other]] = Postgres!Row(cl, id, other)
  <1>1. CASE id.kind \in Postgres!Namespaced
    BY <1>1 DEF Postgres!Row, Postgres!NamespacedRow
  <1>2. CASE id.kind \notin Postgres!Namespaced
    BY <1>2 DEF Postgres!Row, Postgres!ClusterRow
  <1> QED
    BY <1>1, <1>2

\* A row matches one report of its kind only.
LEMMA RowMatches ==
  ASSUME NEW cl, NEW d, NEW id \in Postgres!Ids, NEW i \in Postgres!Ids, id.kind = i.kind,
         NEW content, NEW r, r = Postgres!Row(d, i, content)
  PROVE  Matches(r, cl, id) <=> d = cl /\ i = id
  <1>1. /\ r.name = i.name /\ r.clusterId = d
        /\ i.kind \in Postgres!Namespaced => r.namespace = i.ns
    <2>1. CASE i.kind \in Postgres!Namespaced
      BY <2>1 DEF Postgres!Row, Postgres!NamespacedRow
    <2>2. CASE i.kind \notin Postgres!Namespaced
      BY <2>2 DEF Postgres!Row, Postgres!ClusterRow
    <2> QED
      BY <2>1, <2>2
  <1>2. /\ id = [kind |-> id.kind, ns |-> id.ns, name |-> id.name]
        /\ i = [kind |-> i.kind, ns |-> i.ns, name |-> i.name]
        /\ id.kind \notin Postgres!Namespaced => id.ns = <<>> /\ i.ns = <<>>
    BY RowIdFacts
  <1>3. ASSUME Matches(r, cl, id) PROVE d = cl /\ i = id
    <2>1. d = cl /\ i.name = id.name /\ i.ns = id.ns
      BY <1>1, <1>2, <1>3 DEF Matches
    <2> QED
      BY <1>2, <2>1
  <1>4. ASSUME d = cl, i = id PROVE Matches(r, cl, id)
    BY <1>1, <1>4 DEF Matches
  <1> QED
    BY <1>3, <1>4

\* The rows that a statement for one report finds.
LEMMA Matched ==
  ASSUME NEW T, NEW kind, NEW w, Postgres!Holds(T, kind, w),
         NEW cl \in Clusters, NEW id \in Postgres!Ids, id.kind = kind, NEW r
  PROVE  r \in T /\ Matches(r, cl, id)
           <=> w[cl][id] # NoContent /\ r = Postgres!Row(cl, id, w[cl][id])
  <1>1. ASSUME r \in T, Matches(r, cl, id)
        PROVE  w[cl][id] # NoContent /\ r = Postgres!Row(cl, id, w[cl][id])
    <2>1. PICK d \in Clusters, i \in Postgres!Ids :
            i.kind = kind /\ w[d][i] # NoContent /\ r = Postgres!Row(d, i, w[d][i])
      BY <1>1 DEF Postgres!Holds
    <2>2. d = cl /\ i = id
      BY <1>1, <2>1, RowMatches
    <2> QED
      BY <2>1, <2>2
  <1>2. ASSUME w[cl][id] # NoContent, r = Postgres!Row(cl, id, w[cl][id])
        PROVE  r \in T /\ Matches(r, cl, id)
    <2>1. r \in T
      BY <1>2 DEF Postgres!Holds
    <2>2. Matches(r, cl, id)
      BY <1>2, RowMatches
    <2> QED
      BY <2>1, <2>2
  <1> QED
    BY <1>1, <1>2

\* INSERT, where the primary key allows it.
LEMMA AddRow ==
  ASSUME NEW T, NEW kind, NEW w, NEW v, Postgres!Holds(T, kind, w),
         NEW cl \in Clusters, NEW id \in Postgres!Ids, id.kind = kind,
         ~\E r \in T : Matches(r, cl, id),
         NEW content \in Contents, Changed(w, v, cl, id, content)
  PROVE  Postgres!Holds(T \cup {Postgres!Row(cl, id, content)}, kind, v)
  <1>1. w[cl][id] = NoContent /\ content # NoContent
    BY Matched, KeyspacesAssumption
  <1>2. PICK U : U = T \cup {Postgres!Row(cl, id, content)}
    OBVIOUS
  <1>3. ASSUME NEW r \in U
        PROVE  \E d \in Clusters, i \in Postgres!Ids :
                 i.kind = kind /\ v[d][i] # NoContent /\ r = Postgres!Row(d, i, v[d][i])
    <2>1. CASE r \in T
      <3>1. PICK d \in Clusters, i \in Postgres!Ids :
              i.kind = kind /\ w[d][i] # NoContent /\ r = Postgres!Row(d, i, w[d][i])
        BY <2>1 DEF Postgres!Holds
      <3>2. v[d][i] = w[d][i]
        BY <1>1, <3>1 DEF Changed
      <3> QED
        BY <3>1, <3>2
    <2>2. CASE r = Postgres!Row(cl, id, content)
      BY <1>1, <2>2 DEF Changed
    <2> QED
      BY <1>2, <2>1, <2>2
  <1>4. ASSUME NEW d \in Clusters, NEW i \in Postgres!Ids, i.kind = kind, v[d][i] # NoContent
        PROVE  Postgres!Row(d, i, v[d][i]) \in U
    <2>1. CASE d = cl /\ i = id
      BY <1>2, <2>1 DEF Changed
    <2>2. CASE ~(d = cl /\ i = id)
      <3>1. v[d][i] = w[d][i]
        BY <2>2 DEF Changed
      <3> QED
        BY <1>2, <1>4, <3>1 DEF Postgres!Holds
    <2> QED
      BY <2>1, <2>2
  <1>5. Postgres!Holds(U, kind, v)
    BY <1>3, <1>4 DEF Postgres!Holds
  <1> QED
    BY <1>2, <1>5

\* DELETE
LEMMA DropRow ==
  ASSUME NEW T, NEW kind, NEW w, NEW v, Postgres!Holds(T, kind, w),
         NEW cl \in Clusters, NEW id \in Postgres!Ids, id.kind = kind,
         Changed(w, v, cl, id, NoContent),
         NEW U, \A r : r \in U <=> r \in T /\ ~Matches(r, cl, id)
  PROVE  Postgres!Holds(U, kind, v)
  <1>1. ASSUME NEW r \in U
        PROVE  \E d \in Clusters, i \in Postgres!Ids :
                 i.kind = kind /\ v[d][i] # NoContent /\ r = Postgres!Row(d, i, v[d][i])
    <2>1. PICK d \in Clusters, i \in Postgres!Ids :
            i.kind = kind /\ w[d][i] # NoContent /\ r = Postgres!Row(d, i, w[d][i])
      BY DEF Postgres!Holds
    <2>2. ~(d = cl /\ i = id)
      BY <2>1, RowMatches
    <2>3. v[d][i] = w[d][i]
      BY <2>2 DEF Changed
    <2> QED
      BY <2>1, <2>3
  <1>2. ASSUME NEW d \in Clusters, NEW i \in Postgres!Ids, i.kind = kind, v[d][i] # NoContent
        PROVE  Postgres!Row(d, i, v[d][i]) \in U
    <2>1. ~(d = cl /\ i = id) /\ v[d][i] = w[d][i]
      BY <1>2 DEF Changed
    <2>2. PICK r : r = Postgres!Row(d, i, w[d][i])
      OBVIOUS
    <2>3. r \in T
      BY <1>2, <2>1, <2>2 DEF Postgres!Holds
    <2>4. ~Matches(r, cl, id)
      BY <1>2, <2>1, <2>2, RowMatches
    <2> QED
      BY <2>1, <2>2, <2>3, <2>4
  <1> QED
    BY <1>1, <1>2 DEF Postgres!Holds

\* UPDATE, which changes nothing where there is no row.
LEMMA SetRow ==
  ASSUME NEW T, NEW kind, NEW w, NEW v, Postgres!Holds(T, kind, w),
         NEW cl \in Clusters, NEW id \in Postgres!Ids, id.kind = kind,
         NEW content \in Contents,
         Changed(w, v, cl, id, IF w[cl][id] = NoContent THEN NoContent ELSE content),
         NEW M, \A r : r \in M <=> r \in T /\ Matches(r, cl, id),
         NEW U, U = Postgres!Set(T, M, [id |-> id, content |-> content])
  PROVE  Postgres!Holds(U, kind, v)
  <1>1. content # NoContent
    BY KeyspacesAssumption
  <1>2. \A q : q \in U <=> \E r \in T :
          q = IF r \in M THEN [r EXCEPT !.report = [id |-> id, content |-> content]] ELSE r
    BY DEF Postgres!Set
  <1>3. ASSUME NEW q \in U
        PROVE  \E d \in Clusters, i \in Postgres!Ids :
                 i.kind = kind /\ v[d][i] # NoContent /\ q = Postgres!Row(d, i, v[d][i])
    <2>1. PICK r \in T :
            q = IF r \in M THEN [r EXCEPT !.report = [id |-> id, content |-> content]] ELSE r
      BY <1>2
    <2>2. PICK d \in Clusters, i \in Postgres!Ids :
            i.kind = kind /\ w[d][i] # NoContent /\ r = Postgres!Row(d, i, w[d][i])
      BY DEF Postgres!Holds
    <2>3. r \in M <=> d = cl /\ i = id
      BY <2>2, RowMatches
    <2>4. CASE r \in M
      <3>1. q = Postgres!Row(cl, id, content)
        BY <2>1, <2>2, <2>3, <2>4, RowFacts
      <3>2. v[cl][id] = content
        BY <2>2, <2>3, <2>4 DEF Changed
      <3> QED
        BY <1>1, <3>1, <3>2
    <2>5. CASE r \notin M
      <3>1. v[d][i] = w[d][i]
        BY <2>3, <2>5 DEF Changed
      <3> QED
        BY <2>1, <2>2, <2>5, <3>1
    <2> QED
      BY <2>4, <2>5
  <1>4. ASSUME NEW d \in Clusters, NEW i \in Postgres!Ids, i.kind = kind, v[d][i] # NoContent
        PROVE  Postgres!Row(d, i, v[d][i]) \in U
    <2>1. w[d][i] # NoContent
      BY <1>4 DEF Changed
    <2>2. PICK r : r = Postgres!Row(d, i, w[d][i])
      OBVIOUS
    <2>3. r \in T
      BY <1>4, <2>1, <2>2 DEF Postgres!Holds
    <2>4. r \in M <=> d = cl /\ i = id
      BY <1>4, <2>2, <2>3, RowMatches
    <2>5. CASE r \in M
      <3>1. v[d][i] = content
        BY <2>1, <2>4, <2>5 DEF Changed
      <3>2. [r EXCEPT !.report = [id |-> id, content |-> content]] = Postgres!Row(d, i, v[d][i])
        BY <2>2, <2>4, <2>5, <3>1, RowFacts
      <3> QED
        BY <1>2, <2>3, <2>5, <3>2
    <2>6. CASE r \notin M
      <3>1. v[d][i] = w[d][i]
        BY <2>4, <2>6 DEF Changed
      <3> QED
        BY <1>2, <2>2, <2>3, <2>6, <3>1
    <2> QED
      BY <2>5, <2>6
  <1> QED
    BY <1>3, <1>4 DEF Postgres!Holds

\* A call for a report of another kind.
LEMMA OtherRows ==
  ASSUME NEW T, NEW kind, NEW w, NEW v, Postgres!Holds(T, kind, w),
         NEW cl, NEW id, id.kind # kind, NEW content, Changed(w, v, cl, id, content)
  PROVE  Postgres!Holds(T, kind, v)
  <1>1. \A d \in Clusters, i \in Postgres!Ids : i.kind = kind => v[d][i] = w[d][i]
    BY DEF Changed
  <1> QED
    BY <1>1 DEF Postgres!Holds

\* What is written after a call.
LEMMA WrittenAfter ==
  ASSUME NEW w \in Written, NEW cl \in Clusters, NEW id \in Postgres!Ids,
         NEW content \in MaybeContents, NEW v, v = [w EXCEPT ![cl][id] = content]
  PROVE  v \in Written /\ Changed(w, v, cl, id, content)
  BY DEF Written, Changed

\* The table of the report's kind is as it should be, and the others are left
\* alone.
LEMMA OneTable ==
  ASSUME Postgres!TablesInv, NEW cl \in Clusters, NEW id \in Postgres!Ids, NEW content,
         rowsWritten' \in Written, Changed(rowsWritten, rowsWritten', cl, id, content),
         IF id.kind = "polr" THEN Postgres!Holds(policyreports', "polr", rowsWritten')
         ELSE UNCHANGED policyreports,
         IF id.kind = "cpolr" THEN Postgres!Holds(clusterpolicyreports', "cpolr", rowsWritten')
         ELSE UNCHANGED clusterpolicyreports,
         IF id.kind = "ephr" THEN Postgres!Holds(ephemeralreports', "ephr", rowsWritten')
         ELSE UNCHANGED ephemeralreports,
         IF id.kind = "cephr" THEN Postgres!Holds(clusterephemeralreports', "cephr", rowsWritten')
         ELSE UNCHANGED clusterephemeralreports
  PROVE  Postgres!TablesInv'
  <1>0. PICK v : v = rowsWritten'
    OBVIOUS
  <1>1. Postgres!Holds(policyreports', "polr", v)
    <2>1. CASE id.kind = "polr"
      BY <1>0, <2>1
    <2>2. CASE id.kind # "polr"
      <3>1. Postgres!Holds(policyreports, "polr", rowsWritten) /\ policyreports' = policyreports
        BY <2>2 DEF Postgres!TablesInv
      <3> QED
        BY <1>0, <2>2, <3>1, OtherRows
    <2> QED
      BY <2>1, <2>2
  <1>2. Postgres!Holds(clusterpolicyreports', "cpolr", v)
    <2>1. CASE id.kind = "cpolr"
      BY <1>0, <2>1
    <2>2. CASE id.kind # "cpolr"
      <3>1. Postgres!Holds(clusterpolicyreports, "cpolr", rowsWritten) /\ clusterpolicyreports' = clusterpolicyreports
        BY <2>2 DEF Postgres!TablesInv
      <3> QED
        BY <1>0, <2>2, <3>1, OtherRows
    <2> QED
      BY <2>1, <2>2
  <1>3. Postgres!Holds(ephemeralreports', "ephr", v)
    <2>1. CASE id.kind = "ephr"
      BY <1>0, <2>1
    <2>2. CASE id.kind # "ephr"
      <3>1. Postgres!Holds(ephemeralreports, "ephr", rowsWritten) /\ ephemeralreports' = ephemeralreports
        BY <2>2 DEF Postgres!TablesInv
      <3> QED
        BY <1>0, <2>2, <3>1, OtherRows
    <2> QED
      BY <2>1, <2>2
  <1>4. Postgres!Holds(clusterephemeralreports', "cephr", v)
    <2>1. CASE id.kind = "cephr"
      BY <1>0, <2>1
    <2>2. CASE id.kind # "cephr"
      <3>1. Postgres!Holds(clusterephemeralreports, "cephr", rowsWritten) /\ clusterephemeralreports' = clusterephemeralreports
        BY <2>2 DEF Postgres!TablesInv
      <3> QED
        BY <1>0, <2>2, <3>1, OtherRows
    <2> QED
      BY <2>1, <2>2
  <1>5. Postgres!Holds(policyreports, "polr", rowsWritten)'
    BY <1>0, <1>1 DEF Postgres!Holds
  <1>6. Postgres!Holds(clusterpolicyreports, "cpolr", rowsWritten)'
    BY <1>0, <1>2 DEF Postgres!Holds
  <1>7. Postgres!Holds(ephemeralreports, "ephr", rowsWritten)'
    BY <1>0, <1>3 DEF Postgres!Holds
  <1>8. Postgres!Holds(clusterephemeralreports, "cephr", rowsWritten)'
    BY <1>0, <1>4 DEF Postgres!Holds
  <1> QED
    BY <1>5, <1>6, <1>7, <1>8 DEF Postgres!TablesInv, Written, MaybeContents

\* INSERT preserves the invariant of the tables,
LEMMA CreateRows ==
  ASSUME Postgres!TablesInv, NEW cl \in Clusters, NEW id \in Postgres!Ids, NEW content \in Contents,
         Postgres!Create(cl, id, content)
  PROVE  Postgres!TablesInv'
  <1>0. rowsWritten \in Written
    BY DEF Postgres!TablesInv, Written, MaybeContents
  <1>1. PICK new \in MaybeContents : new = content
    BY <1>0 DEF MaybeContents
  <1>2. PICK v : v = rowsWritten' /\ v = [rowsWritten EXCEPT ![cl][id] = new]
    BY <1>0, <1>1 DEF Postgres!Create, Written
  <1>3. v \in Written /\ Changed(rowsWritten, v, cl, id, new)
    BY <1>0, <1>2, WrittenAfter
  <1>4. CASE id.kind = "polr"
    <2>1. Postgres!PolrCreate(cl, id, content) /\ Postgres!Holds(policyreports, "polr", rowsWritten)
      BY <1>4 DEF Postgres!Create, Postgres!TablesInv
    <2>2. UNCHANGED <<clusterpolicyreports, ephemeralreports, clusterephemeralreports>>
      BY <2>1 DEF Postgres!PolrCreate
    <2>3. id.kind \in Postgres!Namespaced
      BY <1>4 DEF Postgres!Namespaced
    <2>4. ~\E r \in policyreports : Matches(r, cl, id)
      BY <2>1, <2>3 DEF Matches, Postgres!PolrCreate
    <2>5. policyreports' = policyreports \cup {Postgres!Row(cl, id, content)}
      BY <2>1, <2>3 DEF Postgres!PolrCreate, Postgres!Row
    <2>6. Postgres!Holds(policyreports', "polr", v)
      BY <1>1, <1>3, <1>4, <2>1, <2>4, <2>5, AddRow
    <2> QED
      BY <1>2, <1>3, <1>4, <2>2, <2>6, OneTable
  <1>5. CASE id.kind = "cpolr"
    <2>1. Postgres!CpolrCreate(cl, id, content) /\ Postgres!Holds(clusterpolicyreports, "cpolr", rowsWritten)
      BY <1>5 DEF Postgres!Create, Postgres!TablesInv
    <2>2. UNCHANGED <<policyreports, ephemeralreports, clusterephemeralreports>>
      BY <2>1 DEF Postgres!CpolrCreate
    <2>3. id.kind \notin Postgres!Namespaced
      BY <1>5 DEF Postgres!Namespaced
    <2>4. ~\E r \in clusterpolicyreports : Matches(r, cl, id)
      BY <2>1, <2>3 DEF Matches, Postgres!CpolrCreate
    <2>5. clusterpolicyreports' = clusterpolicyreports \cup {Postgres!Row(cl, id, content)}
      BY <2>1, <2>3 DEF Postgres!CpolrCreate, Postgres!Row
    <2>6. Postgres!Holds(clusterpolicyreports', "cpolr", v)
      BY <1>1, <1>3, <1>5, <2>1, <2>4, <2>5, AddRow
    <2> QED
      BY <1>2, <1>3, <1>5, <2>2, <2>6, OneTable
  <1>6. CASE id.kind = "ephr"
    <2>1. Postgres!EphrCreate(cl, id, content) /\ Postgres!Holds(ephemeralreports, "ephr", rowsWritten)
      BY <1>6 DEF Postgres!Create, Postgres!TablesInv
    <2>2. UNCHANGED <<policyreports, clusterpolicyreports, clusterephemeralreports>>
      BY <2>1 DEF Postgres!EphrCreate
    <2>3. id.kind \in Postgres!Namespaced
      BY <1>6 DEF Postgres!Namespaced
    <2>4. ~\E r \in ephemeralreports : Matches(r, cl, id)
      BY <2>1, <2>3 DEF Matches, Postgres!EphrCreate
    <2>5. ephemeralreports' = ephemeralreports \cup {Postgres!Row(cl, id, content)}
      BY <2>1, <2>3 DEF Postgres!EphrCreate, Postgres!Row
    <2>6. Postgres!Holds(ephemeralreports', "ephr", v)
      BY <1>1, <1>3, <1>6, <2>1, <2>4, <2>5, AddRow
    <2> QED
      BY <1>2, <1>3, <1>6, <2>2, <2>6, OneTable
  <1>7. CASE id.kind = "cephr"
    <2>1. Postgres!CephrCreate(cl, id, content) /\ Postgres!Holds(clusterephemeralreports, "cephr", rowsWritten)
      BY <1>7 DEF Postgres!Create, Postgres!TablesInv
    <2>2. UNCHANGED <<policyreports, clusterpolicyreports, ephemeralreports>>
      BY <2>1 DEF Postgres!CephrCreate
    <2>3. id.kind \notin Postgres!Namespaced
      BY <1>7 DEF Postgres!Namespaced
    <2>4. ~\E r \in clusterephemeralreports : Matches(r, cl, id)
      BY <2>1, <2>3 DEF Matches, Postgres!CephrCreate
    <2>5. clusterephemeralreports' = clusterephemeralreports \cup {Postgres!Row(cl, id, content)}
      BY <2>1, <2>3 DEF Postgres!CephrCreate, Postgres!Row
    <2>6. Postgres!Holds(clusterephemeralreports', "cephr", v)
      BY <1>1, <1>3, <1>7, <2>1, <2>4, <2>5, AddRow
    <2> QED
      BY <1>2, <1>3, <1>7, <2>2, <2>6, OneTable
  <1> QED
    BY <1>4, <1>5, <1>6, <1>7, RowIdFacts DEF Postgres!Kinds

\* so does UPDATE,
LEMMA UpdateRows ==
  ASSUME Postgres!TablesInv, NEW cl \in Clusters, NEW id \in Postgres!Ids, NEW content \in Contents,
         Postgres!Update(cl, id, content)
  PROVE  Postgres!TablesInv'
  <1>0. rowsWritten \in Written
    BY DEF Postgres!TablesInv, Written, MaybeContents
  <1>1. PICK new \in MaybeContents : new = (IF rowsWritten[cl][id] = NoContent THEN NoContent ELSE content)
    BY <1>0 DEF MaybeContents
  <1>2. PICK v : v = rowsWritten' /\ v = [rowsWritten EXCEPT ![cl][id] = new]
    BY <1>0, <1>1 DEF Postgres!Update, Written
  <1>3. v \in Written /\ Changed(rowsWritten, v, cl, id, new)
    BY <1>0, <1>2, WrittenAfter
  <1>4. CASE id.kind = "polr"
    <2>1. Postgres!PolrUpdate(cl, id, content) /\ Postgres!Holds(policyreports, "polr", rowsWritten)
      BY <1>4 DEF Postgres!Update, Postgres!TablesInv
    <2>2. UNCHANGED <<clusterpolicyreports, ephemeralreports, clusterephemeralreports>>
      BY <2>1 DEF Postgres!PolrUpdate
    <2>3. id.kind \in Postgres!Namespaced
      BY <1>4 DEF Postgres!Namespaced
    <2>4. PICK M : /\ \A r : r \in M <=> r \in policyreports /\ Matches(r, cl, id)
                   /\ policyreports' = Postgres!Set(policyreports, M, [id |-> id, content |-> content])
      BY <2>1, <2>3 DEF Matches, Postgres!PolrUpdate
    <2>5. Changed(rowsWritten, v, cl, id, IF rowsWritten[cl][id] = NoContent THEN NoContent ELSE content)
      BY <1>1, <1>3
    <2>6. Postgres!Holds(policyreports', "polr", v)
      BY <1>4, <2>1, <2>4, <2>5, SetRow
    <2> QED
      BY <1>2, <1>3, <1>4, <2>2, <2>6, OneTable
  <1>5. CASE id.kind = "cpolr"
    <2>1. Postgres!CpolrUpdate(cl, id, content) /\ Postgres!Holds(clusterpolicyreports, "cpolr", rowsWritten)
      BY <1>5 DEF Postgres!Update, Postgres!TablesInv
    <2>2. UNCHANGED <<policyreports, ephemeralreports, clusterephemeralreports>>
      BY <2>1 DEF Postgres!CpolrUpdate
    <2>3. id.kind \notin Postgres!Namespaced
      BY <1>5 DEF Postgres!Namespaced
    <2>4. PICK M : /\ \A r : r \in M <=> r \in clusterpolicyreports /\ Matches(r, cl, id)
                   /\ clusterpolicyreports' = Postgres!Set(clusterpolicyreports, M, [id |-> id, content |-> content])
      BY <2>1, <2>3 DEF Matches, Postgres!CpolrUpdate
    <2>5. Changed(rowsWritten, v, cl, id, IF rowsWritten[cl][id] = NoContent THEN NoContent ELSE content)
      BY <1>1, <1>3
    <2>6. Postgres!Holds(clusterpolicyreports', "cpolr", v)
      BY <1>5, <2>1, <2>4, <2>5, SetRow
    <2> QED
      BY <1>2, <1>3, <1>5, <2>2, <2>6, OneTable
  <1>6. CASE id.kind = "ephr"
    <2>1. Postgres!EphrUpdate(cl, id, content) /\ Postgres!Holds(ephemeralreports, "ephr", rowsWritten)
      BY <1>6 DEF Postgres!Update, Postgres!TablesInv
    <2>2. UNCHANGED <<policyreports, clusterpolicyreports, clusterephemeralreports>>
      BY <2>1 DEF Postgres!EphrUpdate
    <2>3. id.kind \in Postgres!Namespaced
      BY <1>6 DEF Postgres!Namespaced
    <2>4. PICK M : /\ \A r : r \in M <=> r \in ephemeralreports /\ Matches(r, cl, id)
                   /\ ephemeralreports' = Postgres!Set(ephemeralreports, M, [id |-> id, content |-> content])
      BY <2>1, <2>3 DEF Matches, Postgres!EphrUpdate
    <2>5. Changed(rowsWritten, v, cl, id, IF rowsWritten[cl][id] = NoContent THEN NoContent ELSE content)
      BY <1>1, <1>3
    <2>6. Postgres!Holds(ephemeralreports', "ephr", v)
      BY <1>6, <2>1, <2>4, <2>5, SetRow
    <2> QED
      BY <1>2, <1>3, <1>6, <2>2, <2>6, OneTable
  <1>7. CASE id.kind = "cephr"
    <2>1. Postgres!CephrUpdate(cl, id, content) /\ Postgres!Holds(clusterephemeralreports, "cephr", rowsWritten)
      BY <1>7 DEF Postgres!Update, Postgres!TablesInv
    <2>2. UNCHANGED <<policyreports, clusterpolicyreports, ephemeralreports>>
      BY <2>1 DEF Postgres!CephrUpdate
    <2>3. id.kind \notin Postgres!Namespaced
      BY <1>7 DEF Postgres!Namespaced
    <2>4. PICK M : /\ \A r : r \in M <=> r \in clusterephemeralreports /\ Matches(r, cl, id)
                   /\ clusterephemeralreports' = Postgres!Set(clusterephemeralreports, M, [id |-> id, content |-> content])
      BY <2>1, <2>3 DEF Matches, Postgres!CephrUpdate
    <2>5. Changed(rowsWritten, v, cl, id, IF rowsWritten[cl][id] = NoContent THEN NoContent ELSE content)
      BY <1>1, <1>3
    <2>6. Postgres!Holds(clusterephemeralreports', "cephr", v)
      BY <1>7, <2>1, <2>4, <2>5, SetRow
    <2> QED
      BY <1>2, <1>3, <1>7, <2>2, <2>6, OneTable
  <1> QED
    BY <1>4, <1>5, <1>6, <1>7, RowIdFacts DEF Postgres!Kinds

\* and so does DELETE.
LEMMA DeleteRows ==
  ASSUME Postgres!TablesInv, NEW cl \in Clusters, NEW id \in Postgres!Ids,
         Postgres!Delete(cl, id)
  PROVE  Postgres!TablesInv'
  <1>0. rowsWritten \in Written
    BY DEF Postgres!TablesInv, Written, MaybeContents
  <1>1. PICK new \in MaybeContents : new = NoContent
    BY <1>0 DEF MaybeContents
  <1>2. PICK v : v = rowsWritten' /\ v = [rowsWritten EXCEPT ![cl][id] = new]
    BY <1>0, <1>1 DEF Postgres!Delete, Written
  <1>3. v \in Written /\ Changed(rowsWritten, v, cl, id, new)
    BY <1>0, <1>2, WrittenAfter
  <1>4. CASE id.kind = "polr"
    <2>1. Postgres!PolrDelete(cl, id) /\ Postgres!Holds(policyreports, "polr", rowsWritten)
      BY <1>4 DEF Postgres!Delete, Postgres!TablesInv
    <2>2. UNCHANGED <<clusterpolicyreports, ephemeralreports, clusterephemeralreports>>
      BY <2>1 DEF Postgres!PolrDelete
    <2>3. id.kind \in Postgres!Namespaced
      BY <1>4 DEF Postgres!Namespaced
    <2>4. \A r : r \in policyreports' <=> r \in policyreports /\ ~Matches(r, cl, id)
      BY <2>1, <2>3 DEF Matches, Postgres!PolrDelete
    <2>5. Changed(rowsWritten, v, cl, id, NoContent)
      BY <1>1, <1>3
    <2>6. Postgres!Holds(policyreports', "polr", v)
      BY <1>4, <2>1, <2>4, <2>5, DropRow
    <2> QED
      BY <1>2, <1>3, <1>4, <2>2, <2>6, OneTable
  <1>5. CASE id.kind = "cpolr"
    <2>1. Postgres!CpolrDelete(cl, id) /\ Postgres!Holds(clusterpolicyreports, "cpolr", rowsWritten)
      BY <1>5 DEF Postgres!Delete, Postgres!TablesInv
    <2>2. UNCHANGED <<policyreports, ephemeralreports, clusterephemeralreports>>
      BY <2>1 DEF Postgres!CpolrDelete
    <2>3. id.kind \notin Postgres!Namespaced
      BY <1>5 DEF Postgres!Namespaced
    <2>4. \A r : r \in clusterpolicyreports' <=> r \in clusterpolicyreports /\ ~Matches(r, cl, id)
      BY <2>1, <2>3 DEF Matches, Postgres!CpolrDelete
    <2>5. Changed(rowsWritten, v, cl, id, NoContent)
      BY <1>1, <1>3
    <2>6. Postgres!Holds(clusterpolicyreports', "cpolr", v)
      BY <1>5, <2>1, <2>4, <2>5, DropRow
    <2> QED
      BY <1>2, <1>3, <1>5, <2>2, <2>6, OneTable
  <1>6. CASE id.kind = "ephr"
    <2>1. Postgres!EphrDelete(cl, id) /\ Postgres!Holds(ephemeralreports, "ephr", rowsWritten)
      BY <1>6 DEF Postgres!Delete, Postgres!TablesInv
    <2>2. UNCHANGED <<policyreports, clusterpolicyreports, clusterephemeralreports>>
      BY <2>1 DEF Postgres!EphrDelete
    <2>3. id.kind \in Postgres!Namespaced
      BY <1>6 DEF Postgres!Namespaced
    <2>4. \A r : r \in ephemeralreports' <=> r \in ephemeralreports /\ ~Matches(r, cl, id)
      BY <2>1, <2>3 DEF Matches, Postgres!EphrDelete
    <2>5. Changed(rowsWritten, v, cl, id, NoContent)
      BY <1>1, <1>3
    <2>6. Postgres!Holds(ephemeralreports', "ephr", v)
      BY <1>6, <2>1, <2>4, <2>5, DropRow
    <2> QED
      BY <1>2, <1>3, <1>6, <2>2, <2>6, OneTable
  <1>7. CASE id.kind = "cephr"
    <2>1. Postgres!CephrDelete(cl, id) /\ Postgres!Holds(clusterephemeralreports, "cephr", rowsWritten)
      BY <1>7 DEF Postgres!Delete, Postgres!TablesInv
    <2>2. UNCHANGED <<policyreports, clusterpolicyreports, ephemeralreports>>
      BY <2>1 DEF Postgres!CephrDelete
    <2>3. id.kind \notin Postgres!Namespaced
      BY <1>7 DEF Postgres!Namespaced
    <2>4. \A r : r \in clusterephemeralreports' <=> r \in clusterephemeralreports /\ ~Matches(r, cl, id)
      BY <2>1, <2>3 DEF Matches, Postgres!CephrDelete
    <2>5. Changed(rowsWritten, v, cl, id, NoContent)
      BY <1>1, <1>3
    <2>6. Postgres!Holds(clusterephemeralreports', "cephr", v)
      BY <1>7, <2>1, <2>4, <2>5, DropRow
    <2> QED
      BY <1>2, <1>3, <1>7, <2>2, <2>6, OneTable
  <1> QED
    BY <1>4, <1>5, <1>6, <1>7, RowIdFacts DEF Postgres!Kinds

\* Every step of the tables.
LEMMA PostgresStep == Postgres!TablesInv /\ Postgres!Next => Postgres!TablesInv'
  BY CreateRows, UpdateRows, DeleteRows DEF Postgres!Next

\* The tables are empty at first.
LEMMA PostgresInit == Postgres!Init => Postgres!TablesInv
  <1> SUFFICES ASSUME Postgres!Init PROVE Postgres!TablesInv
    OBVIOUS
  <1>1. /\ rowsWritten \in [Clusters -> [Postgres!Ids -> Contents \cup {NoContent}]]
        /\ \A cl \in Clusters, id \in Postgres!Ids : rowsWritten[cl][id] = NoContent
    BY DEF Postgres!Init
  <1> QED
    BY <1>1 DEF Postgres!Init, Postgres!TablesInv, Postgres!Holds

\* What Get of a report returns, of its table.
LEMMA GetRow ==
  ASSUME NEW T, NEW kind, NEW w, Postgres!Holds(T, kind, w),
         NEW cl \in Clusters, NEW id \in Postgres!Ids, id.kind = kind,
         NEW M, \A r : r \in M <=> r \in T /\ Matches(r, cl, id)
  PROVE  Postgres!Reported(M) = IF w[cl][id] = NoContent THEN {}
                                ELSE {[id |-> id, content |-> w[cl][id]]}
  <1>1. PICK row : row = Postgres!Row(cl, id, w[cl][id])
    OBVIOUS
  <1>2. \A r : r \in M <=> w[cl][id] # NoContent /\ r = row
    BY <1>1, Matched
  <1>3. row.report = [id |-> id, content |-> w[cl][id]]
    BY <1>1, RowFacts
  <1>4. CASE w[cl][id] = NoContent
    <2>1. M = {}
      BY <1>2, <1>4
    <2> QED
      BY <1>4, <2>1 DEF Postgres!Reported
  <1>5. CASE w[cl][id] # NoContent
    <2>1. M = {row}
      BY <1>2, <1>5
    <2> QED
      BY <1>3, <1>5, <2>1 DEF Postgres!Reported
  <1> QED
    BY <1>4, <1>5

\* What List of a kind returns, of its table.
LEMMA ListRows ==
  ASSUME NEW T, NEW kind, NEW w, Postgres!Holds(T, kind, w), NEW cl \in Clusters,
         NEW ns, ns = <<>> \/ kind \in Postgres!Namespaced,
         NEW M, \A r : r \in M <=> r \in T /\ r.clusterId = cl /\ (ns # <<>> => r.namespace = ns)
  PROVE  Postgres!Reported(M) =
           {[id |-> id, content |-> w[cl][id]] :
              id \in {i \in Postgres!Ids : /\ i.kind = kind /\ w[cl][i] # NoContent
                                           /\ ns = <<>> \/ i.ns = ns}}
  <1>1. ASSUME NEW x \in Postgres!Reported(M)
        PROVE  \E i \in Postgres!Ids : /\ i.kind = kind /\ w[cl][i] # NoContent
                                       /\ ns = <<>> \/ i.ns = ns
                                       /\ x = [id |-> i, content |-> w[cl][i]]
    <2>1. PICK r \in M : x = r.report
      BY DEF Postgres!Reported
    <2>2. PICK d \in Clusters, i \in Postgres!Ids :
            i.kind = kind /\ w[d][i] # NoContent /\ r = Postgres!Row(d, i, w[d][i])
      BY DEF Postgres!Holds
    <2>3. /\ r.clusterId = d /\ r.report = [id |-> i, content |-> w[d][i]]
          /\ i.kind \in Postgres!Namespaced => r.namespace = i.ns
      BY <2>2, RowFacts
    <2> QED
      BY <2>1, <2>2, <2>3
  <1>2. ASSUME NEW i \in Postgres!Ids, i.kind = kind, w[cl][i] # NoContent, ns = <<>> \/ i.ns = ns
        PROVE  [id |-> i, content |-> w[cl][i]] \in Postgres!Reported(M)
    <2>1. PICK r : r = Postgres!Row(cl, i, w[cl][i])
      OBVIOUS
    <2>2. r \in T
      BY <1>2, <2>1 DEF Postgres!Holds
    <2>3. /\ r.clusterId = cl /\ r.report = [id |-> i, content |-> w[cl][i]]
          /\ i.kind \in Postgres!Namespaced => r.namespace = i.ns
      BY <2>1, RowFacts
    <2>4. r \in M
      BY <1>2, <2>2, <2>3
    <2> QED
      BY <2>3, <2>4 DEF Postgres!Reported
  <1> QED
    BY <1>1, <1>2

\* What the tables hold gives a Get its own report,
LEMMA PostgresGets == Postgres!TablesInv => Postgres!GetsOwn
  <1> SUFFICES ASSUME Postgres!TablesInv, NEW cl \in Clusters, NEW id \in Postgres!Ids
               PROVE  Postgres!Get(cl, id) = IF rowsWritten[cl][id] = NoContent THEN {}
                                             ELSE {[id |-> id, content |-> rowsWritten[cl][id]]}
    BY DEF Postgres!GetsOwn
  <1>1. CASE id.kind = "polr"
    <2>1. id.kind \in Postgres!Namespaced /\ Postgres!Holds(policyreports, "polr", rowsWritten)
      BY <1>1 DEF Postgres!Namespaced, Postgres!TablesInv
    <2>2. \A r : r \in Postgres!PolrGet(cl, id) <=> r \in policyreports /\ Matches(r, cl, id)
      BY <2>1 DEF Matches, Postgres!PolrGet
    <2>3. Postgres!Get(cl, id) = Postgres!Reported(Postgres!PolrGet(cl, id))
      BY <1>1 DEF Postgres!Get
    <2> QED
      BY <1>1, <2>1, <2>2, <2>3, GetRow
  <1>2. CASE id.kind = "cpolr"
    <2>1. id.kind \notin Postgres!Namespaced /\ Postgres!Holds(clusterpolicyreports, "cpolr", rowsWritten)
      BY <1>2 DEF Postgres!Namespaced, Postgres!TablesInv
    <2>2. \A r : r \in Postgres!CpolrGet(cl, id) <=> r \in clusterpolicyreports /\ Matches(r, cl, id)
      BY <2>1 DEF Matches, Postgres!CpolrGet
    <2>3. Postgres!Get(cl, id) = Postgres!Reported(Postgres!CpolrGet(cl, id))
      BY <1>2 DEF Postgres!Get
    <2> QED
      BY <1>2, <2>1, <2>2, <2>3, GetRow
  <1>3. CASE id.kind = "ephr"
    <2>1. id.kind \in Postgres!Namespaced /\ Postgres!Holds(ephemeralreports, "ephr", rowsWritten)
      BY <1>3 DEF Postgres!Namespaced, Postgres!TablesInv
    <2>2. \A r : r \in Postgres!EphrGet(cl, id) <=> r \in ephemeralreports /\ Matches(r, cl, id)
      BY <2>1 DEF Matches, Postgres!EphrGet
    <2>3. Postgres!Get(cl, id) = Postgres!Reported(Postgres!EphrGet(cl, id))
      BY <1>3 DEF Postgres!Get
    <2> QED
      BY <1>3, <2>1, <2>2, <2>3, GetRow
  <1>4. CASE id.kind = "cephr"
    <2>1. id.kind \notin Postgres!Namespaced /\ Postgres!Holds(clusterephemeralreports, "cephr", rowsWritten)
      BY <1>4 DEF Postgres!Namespaced, Postgres!TablesInv
    <2>2. \A r : r \in Postgres!CephrGet(cl, id) <=> r \in clusterephemeralreports /\ Matches(r, cl, id)
      BY <2>1 DEF Matches, Postgres!CephrGet
    <2>3. Postgres!Get(cl, id) = Postgres!Reported(Postgres!CephrGet(cl, id))
      BY <1>4 DEF Postgres!Get
    <2> QED
      BY <1>4, <2>1, <2>2, <2>3, GetRow
  <1> QED
    BY <1>1, <1>2, <1>3, <1>4, RowIdFacts DEF Postgres!Kinds

\* and a List its own reports.
LEMMA PostgresLists == Postgres!TablesInv => Postgres!ListsOwn
  <1> SUFFICES ASSUME Postgres!TablesInv, NEW cl \in Clusters, NEW kind \in Postgres!Kinds,
                      NEW ns \in Words(MaxWord) \cup {<<>>},
                      ns = <<>> \/ kind \in Postgres!Namespaced
               PROVE  Postgres!List(cl, kind, ns) =
                        {[id |-> id, content |-> rowsWritten[cl][id]] :
                           id \in {i \in Postgres!Ids : /\ i.kind = kind /\ rowsWritten[cl][i] # NoContent
                                                        /\ ns = <<>> \/ i.ns = ns}}
    BY DEF Postgres!ListsOwn
  <1>1. CASE kind = "polr"
    <2>1. Postgres!Holds(policyreports, kind, rowsWritten)
      BY <1>1 DEF Postgres!TablesInv
    <2>2. \A r : r \in Postgres!PolrList(cl, ns) <=>
                  r \in policyreports /\ r.clusterId = cl /\ (ns # <<>> => r.namespace = ns)
      BY <1>1 DEF Postgres!PolrList, Postgres!Namespaced
    <2>3. Postgres!List(cl, kind, ns) = Postgres!Reported(Postgres!PolrList(cl, ns))
      BY <1>1 DEF Postgres!List
    <2> QED
      BY <2>1, <2>2, <2>3, ListRows
  <1>2. CASE kind = "cpolr"
    <2>1. Postgres!Holds(clusterpolicyreports, kind, rowsWritten)
      BY <1>2 DEF Postgres!TablesInv
    <2>2. \A r : r \in Postgres!CpolrList(cl) <=>
                  r \in clusterpolicyreports /\ r.clusterId = cl /\ (ns # <<>> => r.namespace = ns)
      BY <1>2 DEF Postgres!CpolrList, Postgres!Namespaced
    <2>3. Postgres!List(cl, kind, ns) = Postgres!Reported(Postgres!CpolrList(cl))
      BY <1>2 DEF Postgres!List
    <2> QED
      BY <2>1, <2>2, <2>3, ListRows
  <1>3. CASE kind = "ephr"
    <2>1. Postgres!Holds(ephemeralreports, kind, rowsWritten)
      BY <1>3 DEF Postgres!TablesInv
    <2>2. \A r : r \in Postgres!EphrList(cl, ns) <=>
                  r \in ephemeralreports /\ r.clusterId = cl /\ (ns # <<>> => r.namespace = ns)
      BY <1>3 DEF Postgres!EphrList, Postgres!Namespaced
    <2>3. Postgres!List(cl, kind, ns) = Postgres!Reported(Postgres!EphrList(cl, ns))
      BY <1>3 DEF Postgres!List
    <2> QED
      BY <2>1, <2>2, <2>3, ListRows
  <1>4. CASE kind = "cephr"
    <2>1. Postgres!Holds(clusterephemeralreports, kind, rowsWritten)
      BY <1>4 DEF Postgres!TablesInv
    <2>2. \A r : r \in Postgres!CephrList(cl) <=>
                  r \in clusterephemeralreports /\ r.clusterId = cl /\ (ns # <<>> => r.namespace = ns)
      BY <1>4 DEF Postgres!CephrList, Postgres!Namespaced
    <2>3. Postgres!List(cl, kind, ns) = Postgres!Reported(Postgres!CephrList(cl))
      BY <1>4 DEF Postgres!List
    <2> QED
      BY <2>1, <2>2, <2>3, ListRows
  <1> QED
    BY <1>1, <1>2, <1>3, <1>4 DEF Postgres!Kinds

-----------------------------------------------------------------------------
(* Entries of the map in memory *)

\* The keys of the in-memory map are built as those of etcd are.
LEMMA EntryPlaces ==
  /\ \A k : Memory!key(k) = Place(<<Kind, "/">>, k.ns, k.name)
  /\ \A ns : <<Kind, "/">> \o ns \o <<"/">> = Path(<<Kind, "/">>, ns)
  BY DEF Memory!key, Place, Folder, Path

\* The folder of the kind.
LEMMA KindFolder == <<Kind, "/">> \in Texts
  BY DEF Texts, Signs

\* What a report is called in the in-memory map.
LEMMA MemoryKeyFacts ==
  ASSUME NEW k \in MemoryKeys
  PROVE  /\ k.ns \in Spaces /\ k.name \in Texts
         /\ k = [ns |-> k.ns, name |-> k.name]
         /\ (k.ns = <<>>) <=> Kind \notin {"polr", "ephr"}
  <1>1. \A w \in Words(MaxWord) : w # <<>>
    BY WordFacts, KeyspacesAssumption
  <1>2. \A w \in Words(MaxName) : w \in Texts
    BY WordFacts, KeyspacesAssumption
  <1> QED
    BY <1>1, <1>2 DEF MemoryKeys, Spaces

\* There is a report to begin with.
LEMMA SomeMemoryKey == Memory!Abstract!SomeKey \in MemoryKeys
  <1>1. ASSUME NEW n \in Nat \ {0} PROVE \E w : w \in Words(n)
    <2>1. PICK l \in Alphabet : TRUE
      BY KeyspacesAssumption
    <2>2. [i \in 1 .. 1 |-> l] \in Words(n)
      BY DEF Words
    <2> QED
      BY <2>2
  <1>2. PICK v, w : v \in Words(MaxWord) /\ w \in Words(MaxName)
    BY <1>1, KeyspacesAssumption
  <1>3. \E k : k \in MemoryKeys
    <2>1. CASE Kind \in {"polr", "ephr"}
      <3>1. [ns |-> v, name |-> w] \in MemoryKeys
        BY <1>2, <2>1 DEF MemoryKeys
      <3> QED
        BY <3>1
    <2>2. CASE Kind \notin {"polr", "ephr"}
      <3>1. [ns |-> <<>>, name |-> w] \in MemoryKeys
        BY <1>2, <2>2 DEF MemoryKeys
      <3> QED
        BY <3>1
    <2> QED
      BY <2>1, <2>2
  <1> QED
    BY <1>3 DEF Memory!Abstract!SomeKey

\* No two reports share an entry.
LEMMA EntriesDiffer ==
  ASSUME NEW k \in MemoryKeys, NEW m \in MemoryKeys, Memory!key(k) = Memory!key(m)
  PROVE  k = m
  <1>1. PICK p \in Texts : p = <<Kind, "/">>
    BY KindFolder
  <1>2. Place(p, k.ns, k.name) = Place(p, m.ns, m.name)
    BY <1>1, EntryPlaces
  <1>3. k.ns = m.ns /\ k.name = m.name
    BY <1>2, SamePlace, MemoryKeyFacts
  <1> QED
    BY <1>3, MemoryKeyFacts

\* List takes the entries of all namespaces, or of the one it names.
LEMMA EntryListed ==
  ASSUME NEW k \in MemoryKeys, NEW ns \in Memory!Abstract!Namespaces
  PROVE  Memory!key(k) \in Memory!Listed(ns)
           <=> Memory!key(k) \in DOMAIN storage /\ (ns = <<>> \/ k.ns = ns)
  <1>1. PICK p \in Texts : p = <<Kind, "/">>
    BY KindFolder
  <1>2. PICK own, name, key :
          /\ own \in Spaces /\ own = k.ns /\ name \in Texts /\ name = k.name
          /\ key = Memory!key(k) /\ key = Place(p, own, name)
    BY <1>1, EntryPlaces, MemoryKeyFacts
  <1>3. ASSUME ns # <<>>
        PROVE  Memory!IsPrefix(<<Kind, "/">> \o ns \o <<"/">>, key) <=> own = ns
    <2>1. PICK m \in MemoryKeys : ns = m.ns
      BY <1>3 DEF Memory!Abstract!Namespaces
    <2>2. ns \in Spaces /\ (own = <<>> => ns = <<>>)
      BY <1>2, <2>1, MemoryKeyFacts
    <2>3. key = Place(p, own, name)
      BY <1>2
    <2>4. key \in Texts /\ (Begins(key, Folder(p, ns)) <=> ns = <<>> \/ own = ns)
      BY <1>2, <2>2, <2>3, FolderFits
    <2>5. PICK f \in Texts : f = Folder(p, ns)
      BY <2>2, FolderText
    <2>6. f = <<Kind, "/">> \o ns \o <<"/">>
      BY <1>1, <1>3, <2>5, EntryPlaces DEF Folder
    <2>7. Memory!IsPrefix(f, key) <=> Etcd!IsPrefix(f, key)
      BY DEF Memory!IsPrefix, Etcd!IsPrefix
    <2>8. Etcd!IsPrefix(f, key) <=> Begins(key, f)
      BY <2>4, PrefixMeans
    <2> QED
      BY <1>3, <2>4, <2>5, <2>6, <2>7, <2>8
  <1>4. key \in Memory!Listed(ns) <=> 
          /\ key \in DOMAIN storage
          /\ ns = <<>> \/ Memory!IsPrefix(<<Kind, "/">> \o ns \o <<"/">>, key)
    BY DEF Memory!Listed
  <1> QED
    BY <1>2, <1>3, <1>4

-----------------------------------------------------------------------------
(* The methods of the map in memory, one caller at a time *)

\* What the arguments of a call look like.
LEMMA MemoryArgs ==
  ASSUME NEW a \in Memory!Abstract!Args
  PROVE  /\ a.op \in {"Create", "Update", "Get", "Delete", "List"}
         /\ a.op \in {"Create", "Update"} => a.obj \in Contents
         /\ a.op # "List" => a.key \in MemoryKeys
         /\ a.op = "List" => a.ns \in Memory!Abstract!Namespaces
  BY DEF Memory!Abstract!Args

\* The results of the in-memory store are results of the interface.
LEMMA MemoryResults ==
  ASSUME NEW err \in {"none", "NotFound", "AlreadyExists"},
         NEW found \in [MemoryKeys -> Contents \cup {NoContent}]
  PROVE  /\ Memory!Abstract!Fails(err) \in Memory!Abstract!Results
         /\ [err |-> "none", found |-> found] \in Memory!Abstract!Results
  BY DEF Memory!Abstract!Fails, Memory!Abstract!Nothing, Memory!Abstract!Results,
         Memory!Abstract!Errors, Memory!Abstract!MaybeReports

\* A caller is outside of every method at first.
LEMMA NoMemoryThread == Memory!NoThread \in Memory!Threads /\ Memory!NoThread.pc = "idle"
  <1>1. Memory!Abstract!NoArgs \in Memory!Abstract!Args
    BY SomeMemoryKey DEF Memory!Abstract!NoArgs, Memory!Abstract!Args
  <1>2. [k \in MemoryKeys |-> NoContent] \in [MemoryKeys -> Contents \cup {NoContent}]
    OBVIOUS
  <1>3. Memory!Abstract!Fails("none") \in Memory!Abstract!Results
    BY <1>2, MemoryResults
  <1> QED
    BY <1>1, <1>3 DEF Memory!NoThread, Memory!Threads

\* What an entry holds.
LEMMA LookupFacts ==
  ASSUME Memory!StoreInv, NEW entry
  PROVE  /\ Memory!Lookup(entry) \in Contents \cup {NoContent}
         /\ Memory!Lookup(entry) = NoContent <=> entry \notin DOMAIN storage
  BY KeyspacesAssumption DEF Memory!StoreInv, Memory!Lookup, Memory!decompressData

\* A caller inside a method goes on in it: as no other caller is, what others
\* saw of their entries is not disturbed.
LEMMA MemoryInside ==
  ASSUME Memory!StoreInv, NEW c \in Callers, NEW t \in Memory!Threads,
         thread[c].pc \in {"look", "store"},
         thread' = [thread EXCEPT ![c] = t],
         \/ t.pc = "unlock"
         \/ /\ t.pc = "store" /\ t.args.op \in {"Create", "Update", "Delete"}
            /\ t.args.op = "Create" <=> Memory!Lookup(Memory!key(t.args.key)) = NoContent
            /\ storage' = storage,
         \A entry \in DOMAIN storage' : storage'[entry] \in [lzw : Contents],
         mutex' = mutex
  PROVE  Memory!StoreInv'
  <1>1. thread' \in [Callers -> Memory!Threads] /\ thread'[c] = t
        /\ \A d \in Callers : d # c => thread'[d] = thread[d]
    BY DEF Memory!StoreInv
  <1>2. mutex = c /\ \A d \in Callers : d # c => thread[d].pc \notin {"look", "store", "unlock"}
    BY DEF Memory!StoreInv
  <1>3. ASSUME NEW d \in Callers, thread'[d].pc \in {"look", "store", "unlock"} PROVE mutex' = d
    BY <1>1, <1>2, <1>3
  <1>4. ASSUME NEW d \in Callers, thread'[d].pc = "store"
        PROVE  /\ thread'[d].args.op \in {"Create", "Update", "Delete"}
               /\ thread'[d].args.op = "Create"
                    <=> Memory!Lookup(Memory!key(thread[d].args.key))' = NoContent
    <2>1. d = c /\ thread'[d] = t /\ t.pc = "store"
      BY <1>1, <1>2, <1>4
    <2>2. Memory!Lookup(Memory!key(thread[d].args.key))' = Memory!Lookup(Memory!key(t.args.key))
      BY <2>1 DEF Memory!Lookup, Memory!key
    <2> QED
      BY <2>1, <2>2
  <1> QED
    BY <1>1, <1>3, <1>4 DEF Memory!StoreInv

\* Leaving a method that has decided preserves the invariant.
LEMMA MemoryDoneStep ==
  ASSUME Memory!StoreInv, NEW c \in Callers, thread[c].pc \in {"look", "store"},
         NEW result \in Memory!Abstract!Results, Memory!Done(c, result),
         \A entry \in DOMAIN storage' : storage'[entry] \in [lzw : Contents],
         mutex' = mutex
  PROVE  Memory!StoreInv'
  <1>1. PICK t : t = [pc |-> "unlock", args |-> thread[c].args, res |-> result]
    OBVIOUS
  <1>2. t \in Memory!Threads /\ t.pc = "unlock"
    BY <1>1 DEF Memory!StoreInv, Memory!Threads
  <1>3. thread' = [thread EXCEPT ![c] = t]
    BY <1>1 DEF Memory!Done
  <1> QED
    BY <1>2, <1>3, MemoryInside

\* What a method returns is well typed.
LEMMA MemoryFinds ==
  ASSUME Memory!StoreInv, NEW S
  PROVE  [err |-> "none",
          found |-> [k \in MemoryKeys |-> IF k \in S THEN Memory!Lookup(Memory!key(k))
                                          ELSE NoContent]]
           \in Memory!Abstract!Results
  <1>1. \A k \in MemoryKeys : Memory!Lookup(Memory!key(k)) \in Contents \cup {NoContent}
    BY LookupFacts
  <1>2. [k \in MemoryKeys |-> IF k \in S THEN Memory!Lookup(Memory!key(k)) ELSE NoContent]
          \in [MemoryKeys -> Contents \cup {NoContent}]
    BY <1>1
  <1> QED
    BY <1>2, MemoryResults

-----------------------------------------------------------------------------
(* The map in memory keeps the promise of the interface *)

\* The reports in the map and the calls, as the abstract store has them.
Db == [k \in MemoryKeys |-> Memory!Lookup(Memory!key(k))]
Calls == [c \in Callers |-> Memory!Promise(thread[c])]

\* What the abstract store does with each kind of call.
LEMMA MemoryCalls ==
  ASSUME NEW d, NEW a \in Memory!Abstract!Args
  PROVE  /\ a.op = "Get" => /\ Memory!Abstract!Succeeds(d, a) = (d[a.key] # NoContent)
                            /\ Memory!Abstract!After(d, a) = d
                            /\ Memory!Abstract!Selected(a) = {a.key}
         /\ a.op = "List" => /\ Memory!Abstract!Succeeds(d, a)
                             /\ Memory!Abstract!After(d, a) = d
                             /\ \A k : k \in Memory!Abstract!Selected(a)
                                         <=> k \in MemoryKeys /\ (a.ns = <<>> \/ k.ns = a.ns)
         /\ a.op = "Create" => /\ Memory!Abstract!Succeeds(d, a) = (d[a.key] = NoContent)
                               /\ Memory!Abstract!After(d, a) = [d EXCEPT ![a.key] = a.obj]
                               /\ Memory!Abstract!Selected(a) = {}
         /\ a.op = "Update" => /\ Memory!Abstract!Succeeds(d, a) = (d[a.key] # NoContent)
                               /\ d[a.key] # NoContent =>
                                    Memory!Abstract!After(d, a) = [d EXCEPT ![a.key] = a.obj]
                               /\ Memory!Abstract!Selected(a) = {}
         /\ a.op = "Delete" => /\ Memory!Abstract!Succeeds(d, a) = (d[a.key] # NoContent)
                               /\ Memory!Abstract!After(d, a) = [d EXCEPT ![a.key] = NoContent]
                               /\ Memory!Abstract!Selected(a) = {}
         /\ Memory!Abstract!Refusal(a) = IF a.op = "Create" THEN "AlreadyExists" ELSE "NotFound"
  <1>1. CASE a.op = "Get"
    BY <1>1 DEF Memory!Abstract!Succeeds, Memory!Abstract!After, Memory!Abstract!Selected,
                Memory!Abstract!Refusal
  <1>2. CASE a.op = "List"
    <2>1. \A k : k \in Memory!Abstract!Selected(a)
                   <=> k \in MemoryKeys /\ a.ns \in {<<>>, [m \in MemoryKeys |-> m.ns][k]}
      BY <1>2 DEF Memory!Abstract!Selected
    <2>2. \A k : k \in Memory!Abstract!Selected(a)
                   <=> k \in MemoryKeys /\ (a.ns = <<>> \/ k.ns = a.ns)
      BY <2>1
    <2> QED
      BY <1>2, <2>2 DEF Memory!Abstract!Succeeds, Memory!Abstract!After, Memory!Abstract!Refusal
  <1>3. CASE a.op = "Create"
    BY <1>3 DEF Memory!Abstract!Succeeds, Memory!Abstract!After, Memory!Abstract!Selected,
                Memory!Abstract!Refusal
  <1>4. CASE a.op = "Update"
    BY <1>4 DEF Memory!Abstract!Succeeds, Memory!Abstract!After, Memory!Abstract!Selected,
                Memory!Abstract!Refusal
  <1>5. CASE a.op = "Delete"
    BY <1>5 DEF Memory!Abstract!Succeeds, Memory!Abstract!After, Memory!Abstract!Selected,
                Memory!Abstract!Refusal
  <1> QED
    BY <1>1, <1>2, <1>3, <1>4, <1>5, MemoryArgs

\* A call that selects no key finds nothing.
LEMMA MemoryFindsNothing ==
  ASSUME NEW d, NEW a, Memory!Abstract!Selected(a) = {}
  PROVE  [err |-> "none", found |-> Memory!Abstract!Found(d, a)] = Memory!Abstract!Fails("none")
  BY DEF Memory!Abstract!Found, Memory!Abstract!Fails, Memory!Abstract!Nothing

\* The step of a method that fixes its result: it does what was asked, or
\* refuses.
Decides(c, a) ==
  /\ thread[c].pc \in {"look", "store"} /\ a = thread[c].args
  /\ \/ /\ Memory!Abstract!Succeeds(Db, a)
        /\ Db' = Memory!Abstract!After(Db, a)
        /\ Memory!Done(c, [err |-> "none", found |-> Memory!Abstract!Found(Db, a)])
     \/ /\ ~Memory!Abstract!Succeeds(Db, a)
        /\ Db' = Db
        /\ Memory!Done(c, Memory!Abstract!Fails(Memory!Abstract!Refusal(a)))
  /\ \A entry \in DOMAIN storage' : storage'[entry] \in [lzw : Contents]
  /\ mutex' = mutex

\* A step that decides a call preserves the invariant,
LEMMA DecidesKeeps ==
  ASSUME Memory!StoreInv, NEW c \in Callers, NEW a, Decides(c, a)
  PROVE  Memory!StoreInv'
  <1>0. a = thread[c].args /\ a \in Memory!Abstract!Args
    BY DEF Decides, Memory!StoreInv, Memory!Threads
  <1>1. [err |-> "none", found |-> Memory!Abstract!Found(Db, a)] \in Memory!Abstract!Results
    <2>1. PICK S : S = Memory!Abstract!Selected(a)
      OBVIOUS
    <2>2. Memory!Abstract!Found(Db, a) = [k \in MemoryKeys |->
             IF k \in S THEN Memory!Lookup(Memory!key(k)) ELSE NoContent]
      BY <2>1 DEF Memory!Abstract!Found, Db
    <2> QED
      BY <2>2, MemoryFinds
  <1>2. Memory!Abstract!Refusal(a) \in {"none", "NotFound", "AlreadyExists"}
    BY DEF Memory!Abstract!Refusal
  <1>3. Memory!Abstract!Fails(Memory!Abstract!Refusal(a)) \in Memory!Abstract!Results
    <2>1. [k \in MemoryKeys |-> NoContent] \in [MemoryKeys -> Contents \cup {NoContent}]
      OBVIOUS
    <2> QED
      BY <1>2, <2>1, MemoryResults
  <1> QED
    BY <1>1, <1>3, MemoryDoneStep DEF Decides

\* A step that changes one caller's place, in the abstract store's terms.
LEMMA CallsStep ==
  ASSUME Memory!StoreInv, NEW c \in Callers, NEW t, thread' = [thread EXCEPT ![c] = t]
  PROVE  Calls' = [Calls EXCEPT ![c] = Memory!Promise(t)]
  BY DEF Calls, Memory!StoreInv, Memory!Promise

\* and is the one at which the call takes effect.
LEMMA DecidesPerforms ==
  ASSUME Memory!StoreInv, NEW c \in Callers, NEW a, Decides(c, a)
  PROVE  Memory!Abstract!Perform(c)
  <1>0. a = thread[c].args /\ thread[c].pc \in {"look", "store"}
    BY DEF Decides
  <1>1. Calls[c].st = "called" /\ Calls[c].args = a
    BY <1>0 DEF Calls, Memory!Promise
  <1>2. ASSUME NEW result, Memory!Done(c, result) PROVE Memory!Abstract!Finish(c, result)
    <2>1. PICK t : t = [pc |-> "unlock", args |-> a, res |-> result]
      OBVIOUS
    <2>2. thread' = [thread EXCEPT ![c] = t]
      BY <1>0, <1>2, <2>1 DEF Memory!Done
    <2>3. Memory!Promise(t) = [st |-> "done", args |-> a, res |-> result]
      BY <2>1 DEF Memory!Promise
    <2>4. Calls' = [Calls EXCEPT ![c] = [st |-> "done", args |-> Calls[c].args, res |-> result]]
      BY <1>1, <2>2, <2>3, CallsStep
    <2> QED
      BY <2>4 DEF Memory!Abstract!Finish, Calls
  <1>3. CASE /\ Memory!Abstract!Succeeds(Db, a)
             /\ Db' = Memory!Abstract!After(Db, a)
             /\ Memory!Done(c, [err |-> "none", found |-> Memory!Abstract!Found(Db, a)])
    BY <1>1, <1>2, <1>3 DEF Memory!Abstract!Perform, Db, Calls
  <1>4. CASE /\ ~Memory!Abstract!Succeeds(Db, a)
             /\ Db' = Db
             /\ Memory!Done(c, Memory!Abstract!Fails(Memory!Abstract!Refusal(a)))
    BY <1>1, <1>2, <1>4 DEF Memory!Abstract!Perform, Db, Calls
  <1> QED
    BY <1>3, <1>4 DEF Decides

\* Nothing of the map changes.
LEMMA SameDb ==
  ASSUME storage' = storage
  PROVE  Db' = Db
  BY DEF Db, Memory!Lookup, Memory!key

\* A call that leaves the map alone leaves its entries well formed.
LEMMA SameStorage ==
  ASSUME Memory!StoreInv, storage' = storage
  PROVE  \A entry \in DOMAIN storage' : storage'[entry] \in [lzw : Contents]
  BY DEF Memory!StoreInv

\* Get and List decide at their one look at the map.
LEMMA GetDecides ==
  ASSUME Memory!StoreInv, NEW c \in Callers, Memory!Get(c)
  PROVE  Decides(c, thread[c].args)
  <1>1. PICK a \in Memory!Abstract!Args : a = thread[c].args /\ a.op = "Get"
    BY DEF Memory!StoreInv, Memory!Threads, Memory!Get
  <1>2. a.key \in MemoryKeys
    BY <1>1, MemoryArgs
  <1>3. PICK found : found = Memory!Lookup(Memory!key(a.key)) /\ found = Db[a.key]
    BY <1>2 DEF Db
  <1>4. /\ Memory!Abstract!Succeeds(Db, a) = (found # NoContent)
        /\ Memory!Abstract!After(Db, a) = Db
        /\ Memory!Abstract!Selected(a) = {a.key}
        /\ Memory!Abstract!Refusal(a) = "NotFound"
    BY <1>1, <1>3, MemoryCalls
  <1>5. Memory!Abstract!Found(Db, a) = [k \in MemoryKeys |-> IF k = a.key THEN found ELSE NoContent]
    <2>1. Memory!Abstract!Found(Db, a) =
             [k \in MemoryKeys |-> IF k \in {a.key} THEN Db[k] ELSE NoContent]
      BY <1>4 DEF Memory!Abstract!Found
    <2> QED
      BY <1>3, <2>1
  <1>6. IF found # NoContent
        THEN Memory!Done(c, [err |-> "none", found |-> Memory!Abstract!Found(Db, a)])
        ELSE Memory!Done(c, Memory!Abstract!Fails("NotFound"))
    BY <1>1, <1>3, <1>5 DEF Memory!Get
  <1>7. storage' = storage /\ mutex' = mutex /\ thread[c].pc = "look"
    BY DEF Memory!Get
  <1>8. Db' = Db /\ \A entry \in DOMAIN storage' : storage'[entry] \in [lzw : Contents]
    BY <1>7, SameDb, SameStorage
  <1> QED
    BY <1>1, <1>4, <1>6, <1>7, <1>8 DEF Decides

\* List decides where it looks at the map.
LEMMA ListDecides ==
  ASSUME Memory!StoreInv, NEW c \in Callers, Memory!List(c)
  PROVE  Decides(c, thread[c].args)
  <1>1. PICK a \in Memory!Abstract!Args : a = thread[c].args /\ a.op = "List"
    BY DEF Memory!StoreInv, Memory!Threads, Memory!List
  <1>2. PICK ns \in Memory!Abstract!Namespaces : ns = a.ns
    BY <1>1, MemoryArgs
  <1>3. /\ Memory!Abstract!Succeeds(Db, a)
        /\ Memory!Abstract!After(Db, a) = Db
        /\ \A k : k \in Memory!Abstract!Selected(a)
                    <=> k \in MemoryKeys /\ (ns = <<>> \/ k.ns = ns)
    BY <1>1, <1>2, MemoryCalls
  <1>4. ASSUME NEW k \in MemoryKeys
        PROVE  (IF k \in Memory!Abstract!Selected(a) THEN Db[k] ELSE NoContent)
                 = (IF Memory!key(k) \in Memory!Listed(ns)
                    THEN Memory!Lookup(Memory!key(k)) ELSE NoContent)
    <2>1. Memory!key(k) \in Memory!Listed(ns)
            <=> Memory!key(k) \in DOMAIN storage /\ (ns = <<>> \/ k.ns = ns)
      BY EntryListed
    <2>2. Memory!Lookup(Memory!key(k)) = NoContent <=> Memory!key(k) \notin DOMAIN storage
      BY LookupFacts
    <2>3. Db[k] = Memory!Lookup(Memory!key(k))
      BY DEF Db
    <2> QED
      BY <1>3, <2>1, <2>2, <2>3
  <1>5. Memory!Abstract!Found(Db, a) =
          [k \in MemoryKeys |-> IF Memory!key(k) \in Memory!Listed(ns)
                                THEN Memory!Lookup(Memory!key(k)) ELSE NoContent]
    BY <1>4 DEF Memory!Abstract!Found
  <1>6. Memory!Done(c, [err |-> "none", found |-> Memory!Abstract!Found(Db, a)])
    BY <1>1, <1>2, <1>5 DEF Memory!List
  <1>7. storage' = storage /\ mutex' = mutex /\ thread[c].pc = "look"
    BY DEF Memory!List
  <1>8. Db' = Db /\ \A entry \in DOMAIN storage' : storage'[entry] \in [lzw : Contents]
    BY <1>7, SameDb, SameStorage
  <1> QED
    BY <1>1, <1>3, <1>6, <1>7, <1>8 DEF Decides

\* Create, Update and Delete refuse when they look, or go on.
LEMMA LookDecides ==
  ASSUME Memory!StoreInv, NEW c \in Callers, Memory!Look(c)
  PROVE  \/ Decides(c, thread[c].args)
         \/ /\ thread[c].pc = "look" /\ thread' = [thread EXCEPT ![c].pc = "store"]
            /\ thread[c].args.op \in {"Create", "Update", "Delete"}
            /\ thread[c].args.op = "Create"
                 <=> Memory!Lookup(Memory!key(thread[c].args.key)) = NoContent
            /\ storage' = storage /\ mutex' = mutex
  <1>1. PICK a \in Memory!Abstract!Args :
          a = thread[c].args /\ a.op \in {"Create", "Update", "Delete"}
    BY DEF Memory!StoreInv, Memory!Threads, Memory!Look
  <1>2. a.key \in MemoryKeys
    BY <1>1, MemoryArgs
  <1>3. PICK found : found = Memory!Lookup(Memory!key(a.key)) /\ found = Db[a.key]
    BY <1>2 DEF Db
  <1>4. storage' = storage /\ mutex' = mutex /\ thread[c].pc = "look"
    BY DEF Memory!Look
  <1>5. Db' = Db /\ \A entry \in DOMAIN storage' : storage'[entry] \in [lzw : Contents]
    BY <1>4, SameDb, SameStorage
  <1>6. CASE a.op = "Create" /\ found # NoContent
             /\ Memory!Done(c, Memory!Abstract!Fails("AlreadyExists"))
    <2>1. /\ Memory!Abstract!Succeeds(Db, a) = (Db[a.key] = NoContent)
          /\ Memory!Abstract!Refusal(a) = "AlreadyExists"
      BY <1>6, MemoryCalls
    <2> QED
      BY <1>1, <1>3, <1>4, <1>5, <1>6, <2>1 DEF Decides
  <1>7. CASE a.op # "Create" /\ found = NoContent
             /\ Memory!Done(c, Memory!Abstract!Fails("NotFound"))
    <2>1. /\ Memory!Abstract!Succeeds(Db, a) = (Db[a.key] # NoContent)
          /\ Memory!Abstract!Refusal(a) = "NotFound"
      <3>1. CASE a.op = "Update"
        BY <3>1, MemoryCalls
      <3>2. CASE a.op = "Delete"
        BY <3>2, MemoryCalls
      <3> QED
        BY <1>1, <1>7, <3>1, <3>2
    <2> QED
      BY <1>1, <1>3, <1>4, <1>5, <1>7, <2>1 DEF Decides
  <1>8. CASE (a.op = "Create" <=> found = NoContent) /\ thread' = [thread EXCEPT ![c].pc = "store"]
    BY <1>1, <1>3, <1>4, <1>8
  <1> QED
    BY <1>1, <1>3, <1>6, <1>7, <1>8 DEF Memory!Look

\* They decide when they change the map; only their own entry changes, and it
\* is no other report's.
LEMMA StoreDecides ==
  ASSUME Memory!StoreInv, NEW c \in Callers, Memory!Store(c)
  PROVE  Decides(c, thread[c].args)
  <1>1. PICK a \in Memory!Abstract!Args : a = thread[c].args /\ a.op \in {"Create", "Update"}
    BY DEF Memory!StoreInv, Memory!Threads, Memory!Store
  <1>2. a.key \in MemoryKeys /\ a.obj \in Contents
    BY <1>1, MemoryArgs
  <1>3. PICK entry : entry = Memory!key(a.key)
    OBVIOUS
  <1>4. Memory!Lookup(entry) = Db[a.key] /\ (a.op = "Create" <=> Db[a.key] = NoContent)
    BY <1>1, <1>2, <1>3 DEF Memory!StoreInv, Memory!Store, Db
  <1>5. /\ storage' = [e \in DOMAIN storage \cup {entry} |->
                         IF e = entry THEN Memory!compressData(a.obj) ELSE storage[e]]
        /\ Memory!Done(c, Memory!Abstract!Fails("none")) /\ mutex' = mutex
        /\ thread[c].pc = "store"
    BY <1>1, <1>3 DEF Memory!Store
  <1>6. \A e \in DOMAIN storage' : storage'[e] \in [lzw : Contents]
    BY <1>2, <1>5 DEF Memory!StoreInv, Memory!compressData
  <1>7. ASSUME NEW k \in MemoryKeys
        PROVE  Memory!Lookup(Memory!key(k))' = IF k = a.key THEN a.obj ELSE Db[k]
    <2>1. PICK e : e = Memory!key(k)
      OBVIOUS
    <2>2. k # a.key => e # entry
      BY <1>2, <1>3, <2>1, EntriesDiffer
    <2>3. Memory!Lookup(Memory!key(k))' =
            IF e \in DOMAIN storage' THEN storage'[e].lzw ELSE NoContent
      BY <2>1 DEF Memory!Lookup, Memory!decompressData, Memory!key
    <2>4. Db[k] = IF e \in DOMAIN storage THEN storage[e].lzw ELSE NoContent
      BY <2>1 DEF Memory!Lookup, Memory!decompressData, Db
    <2>5. CASE k = a.key
      BY <1>3, <1>5, <2>1, <2>3, <2>5 DEF Memory!compressData
    <2>6. CASE k # a.key
      BY <1>5, <2>2, <2>3, <2>4, <2>6
    <2> QED
      BY <2>5, <2>6
  <1>8. Db' = [Db EXCEPT ![a.key] = a.obj]
    BY <1>7 DEF Db
  <1>9. /\ Memory!Abstract!Succeeds(Db, a)
        /\ Memory!Abstract!After(Db, a) = [Db EXCEPT ![a.key] = a.obj]
        /\ Memory!Abstract!Selected(a) = {}
    <2>1. CASE a.op = "Create"
      <3>1. Memory!Abstract!Succeeds(Db, a) = (Db[a.key] = NoContent)
        BY <2>1, MemoryCalls
      <3> QED
        BY <1>4, <2>1, <3>1, MemoryCalls
    <2>2. CASE a.op = "Update"
      <3>1. Memory!Abstract!Succeeds(Db, a) = (Db[a.key] # NoContent)
        BY <2>2, MemoryCalls
      <3> QED
        BY <1>4, <2>2, <3>1, MemoryCalls
    <2> QED
      BY <1>1, <2>1, <2>2
  <1>10. Memory!Done(c, [err |-> "none", found |-> Memory!Abstract!Found(Db, a)])
    BY <1>5, <1>9, MemoryFindsNothing
  <1> QED
    BY <1>1, <1>5, <1>6, <1>8, <1>9, <1>10 DEF Decides

\* So does Delete where it refuses or removes the entry.
LEMMA DeleteDecides ==
  ASSUME Memory!StoreInv, NEW c \in Callers, Memory!Delete(c)
  PROVE  Decides(c, thread[c].args)
  <1>1. PICK a \in Memory!Abstract!Args : a = thread[c].args /\ a.op = "Delete"
    BY DEF Memory!StoreInv, Memory!Threads, Memory!Delete
  <1>2. a.key \in MemoryKeys
    BY <1>1, MemoryArgs
  <1>3. PICK entry : entry = Memory!key(a.key)
    OBVIOUS
  <1>4. Memory!Lookup(entry) = Db[a.key] /\ Db[a.key] # NoContent
    BY <1>1, <1>2, <1>3 DEF Memory!StoreInv, Memory!Delete, Db
  <1>5. /\ storage' = [e \in DOMAIN storage \ {entry} |-> storage[e]]
        /\ Memory!Done(c, Memory!Abstract!Fails("none")) /\ mutex' = mutex
        /\ thread[c].pc = "store"
    BY <1>1, <1>3 DEF Memory!Delete
  <1>6. \A e \in DOMAIN storage' : storage'[e] \in [lzw : Contents]
    BY <1>5 DEF Memory!StoreInv
  <1>7. ASSUME NEW k \in MemoryKeys
        PROVE  Memory!Lookup(Memory!key(k))' = IF k = a.key THEN NoContent ELSE Db[k]
    <2>1. PICK e : e = Memory!key(k)
      OBVIOUS
    <2>2. k # a.key => e # entry
      BY <1>2, <1>3, <2>1, EntriesDiffer
    <2>3. Memory!Lookup(Memory!key(k))' =
            IF e \in DOMAIN storage' THEN storage'[e].lzw ELSE NoContent
      BY <2>1 DEF Memory!Lookup, Memory!decompressData, Memory!key
    <2>4. Db[k] = IF e \in DOMAIN storage THEN storage[e].lzw ELSE NoContent
      BY <2>1 DEF Memory!Lookup, Memory!decompressData, Db
    <2>5. CASE k = a.key
      BY <1>3, <1>5, <2>1, <2>3, <2>5
    <2>6. CASE k # a.key
      BY <1>5, <2>2, <2>3, <2>4, <2>6
    <2> QED
      BY <2>5, <2>6
  <1>8. Db' = [Db EXCEPT ![a.key] = NoContent]
    BY <1>7 DEF Db
  <1>9. /\ Memory!Abstract!Succeeds(Db, a)
        /\ Memory!Abstract!After(Db, a) = [Db EXCEPT ![a.key] = NoContent]
        /\ Memory!Abstract!Selected(a) = {}
    <2>1. Memory!Abstract!Succeeds(Db, a) = (Db[a.key] # NoContent)
      BY <1>1, MemoryCalls
    <2>2. /\ Memory!Abstract!After(Db, a) = [Db EXCEPT ![a.key] = NoContent]
          /\ Memory!Abstract!Selected(a) = {}
      BY <1>1, MemoryCalls
    <2> QED
      BY <1>4, <2>1, <2>2
  <1>10. Memory!Done(c, [err |-> "none", found |-> Memory!Abstract!Found(Db, a)])
    BY <1>5, <1>9, MemoryFindsNothing
  <1> QED
    BY <1>1, <1>5, <1>6, <1>8, <1>9, <1>10 DEF Decides

\* Every other step leaves the map alone: the call, the mutex, the return.
LEMMA OutsideKeeps ==
  ASSUME Memory!StoreInv, NEW c \in Callers, NEW t \in Memory!Threads,
         thread' = [thread EXCEPT ![c] = t], storage' = storage,
         \/ thread[c].pc = "idle" /\ t.pc = "lock" /\ mutex' = mutex
         \/ thread[c].pc = "lock" /\ t.pc = "look" /\ mutex = Nobody /\ mutex' = c
         \/ thread[c].pc = "unlock" /\ t.pc = "idle" /\ mutex' = Nobody
  PROVE  Memory!StoreInv'
  <1>1. thread' \in [Callers -> Memory!Threads] /\ thread'[c] = t
        /\ \A d \in Callers : d # c => thread'[d] = thread[d]
    BY DEF Memory!StoreInv
  <1>2. ASSUME NEW d \in Callers, thread'[d].pc \in {"look", "store", "unlock"} PROVE mutex' = d
    <2>1. \A e \in Callers : thread[e].pc \in {"look", "store", "unlock"} => mutex = e
      BY DEF Memory!StoreInv
    <2> QED
      BY <1>1, <1>2, <2>1, KeyspacesAssumption
  <1>3. ASSUME NEW d \in Callers, thread'[d].pc = "store"
        PROVE  /\ thread'[d].args.op \in {"Create", "Update", "Delete"}
               /\ thread'[d].args.op = "Create"
                    <=> Memory!Lookup(Memory!key(thread[d].args.key))' = NoContent
    <2>1. thread'[d] = thread[d]
      BY <1>1, <1>3
    <2>2. Memory!Lookup(Memory!key(thread[d].args.key))'
            = Memory!Lookup(Memory!key(thread[d].args.key))
      BY <2>1 DEF Memory!Lookup, Memory!key
    <2> QED
      BY <1>3, <2>1, <2>2 DEF Memory!StoreInv
  <1>4. \A entry \in DOMAIN storage' : storage'[entry] \in [lzw : Contents]
    BY SameStorage
  <1> QED
    BY <1>1, <1>2, <1>3, <1>4 DEF Memory!StoreInv

\* What the steps of a caller are in the abstract store, and that each keeps
\* the invariant.
LEMMA MemoryCall ==
  ASSUME Memory!StoreInv, NEW c \in Callers, NEW a \in Memory!Abstract!Args, Memory!Call(c, a)
  PROVE  Memory!StoreInv' /\ Memory!Abstract!Invoke(c, a)
  <1>1. PICK t : t = [pc |-> "lock", args |-> a, res |-> Memory!Abstract!Fails("none")]
    OBVIOUS
  <1>2. Memory!Abstract!Fails("none") \in Memory!Abstract!Results
    BY NoMemoryThread DEF Memory!NoThread, Memory!Threads
  <1>3. t \in Memory!Threads /\ t.pc = "lock"
    BY <1>1, <1>2 DEF Memory!Threads
  <1>4. /\ thread[c].pc = "idle" /\ thread' = [thread EXCEPT ![c] = t]
        /\ storage' = storage /\ mutex' = mutex
    BY <1>1 DEF Memory!Call
  <1>5. Memory!StoreInv'
    BY <1>3, <1>4, OutsideKeeps
  <1>6. Calls[c].st = "idle"
    BY <1>4 DEF Calls, Memory!Promise
  <1>7. Memory!Promise(t) = [st |-> "called", args |-> a, res |-> Memory!Abstract!Fails("none")]
    BY <1>1 DEF Memory!Promise
  <1>8. Calls' = [Calls EXCEPT ![c] =
                    [st |-> "called", args |-> a, res |-> Memory!Abstract!Fails("none")]]
    BY <1>4, <1>7, CallsStep
  <1>9. Db' = Db
    BY <1>4, SameDb
  <1> QED
    BY <1>5, <1>6, <1>8, <1>9 DEF Memory!Abstract!Invoke, Calls, Db

\* Going on to the next place of a method is not visible in the abstract store.
LEMMA MemoryStutter ==
  ASSUME Memory!StoreInv, NEW c \in Callers, NEW pc \in {"look", "store"},
         thread[c].pc \in {"lock", "look"},
         thread' = [thread EXCEPT ![c].pc = pc], storage' = storage
  PROVE  \E t \in Memory!Threads :
           /\ t.pc = pc /\ t.args = thread[c].args
           /\ thread' = [thread EXCEPT ![c] = t]
           /\ UNCHANGED Memory!Abstract!vars
  <1>1. PICK t : t = [thread[c] EXCEPT !.pc = pc]
    OBVIOUS
  <1>2. t \in Memory!Threads /\ t.pc = pc /\ t.args = thread[c].args /\ t.res = thread[c].res
    BY <1>1 DEF Memory!StoreInv, Memory!Threads
  <1>3. thread' = [thread EXCEPT ![c] = t]
    BY <1>1 DEF Memory!StoreInv
  <1>4. Memory!Promise(t) = Memory!Promise(thread[c])
    BY <1>2 DEF Memory!Promise
  <1>5. Calls' = [Calls EXCEPT ![c] = Memory!Promise(t)]
    BY <1>3, CallsStep
  <1>6. Calls' = Calls
    BY <1>4, <1>5 DEF Calls
  <1>7. Db' = Db
    BY SameDb
  <1>8. UNCHANGED Memory!Abstract!vars
    BY <1>6, <1>7 DEF Memory!Abstract!vars, Calls, Db
  <1> QED
    BY <1>2, <1>3, <1>8

\* Lock is invisible from outside, and preserves the invariant.
LEMMA MemoryLock ==
  ASSUME Memory!StoreInv, NEW c \in Callers, Memory!Lock(c)
  PROVE  Memory!StoreInv' /\ UNCHANGED Memory!Abstract!vars
  <1>1. /\ thread[c].pc = "lock" /\ thread' = [thread EXCEPT ![c].pc = "look"]
        /\ storage' = storage /\ mutex = Nobody /\ mutex' = c
    BY DEF Memory!Lock
  <1>2. PICK t \in Memory!Threads : /\ t.pc = "look" /\ thread' = [thread EXCEPT ![c] = t]
                                    /\ UNCHANGED Memory!Abstract!vars
    BY <1>1, MemoryStutter
  <1>3. Memory!StoreInv'
    BY <1>1, <1>2, OutsideKeeps
  <1> QED
    BY <1>2, <1>3

\* A look at the map decides the call, or is invisible when the method goes on.
LEMMA MemoryLook ==
  ASSUME Memory!StoreInv, NEW c \in Callers, Memory!Look(c)
  PROVE  Memory!StoreInv' /\ (Memory!Abstract!Perform(c) \/ UNCHANGED Memory!Abstract!vars)
  <1>1. CASE Decides(c, thread[c].args)
    BY <1>1, DecidesKeeps, DecidesPerforms
  <1>2. CASE /\ thread[c].pc = "look" /\ thread' = [thread EXCEPT ![c].pc = "store"]
             /\ thread[c].args.op \in {"Create", "Update", "Delete"}
             /\ thread[c].args.op = "Create"
                  <=> Memory!Lookup(Memory!key(thread[c].args.key)) = NoContent
             /\ storage' = storage /\ mutex' = mutex
    <2>1. PICK t \in Memory!Threads : /\ t.pc = "store" /\ t.args = thread[c].args
                                      /\ thread' = [thread EXCEPT ![c] = t]
                                      /\ UNCHANGED Memory!Abstract!vars
      BY <1>2, MemoryStutter
    <2>2. \A entry \in DOMAIN storage' : storage'[entry] \in [lzw : Contents]
      BY <1>2, SameStorage
    <2>3. Memory!StoreInv'
      BY <1>2, <2>1, <2>2, MemoryInside
    <2> QED
      BY <2>1, <2>3
  <1> QED
    BY <1>1, <1>2, LookDecides

\* Unlock is the reply.
LEMMA MemoryUnlock ==
  ASSUME Memory!StoreInv, NEW c \in Callers, Memory!Unlock(c)
  PROVE  Memory!StoreInv' /\ Memory!Abstract!Reply(c)
  <1>1. PICK t \in Memory!Threads : t = Memory!NoThread /\ t.pc = "idle"
    BY NoMemoryThread
  <1>2. /\ thread[c].pc = "unlock" /\ thread' = [thread EXCEPT ![c] = t]
        /\ storage' = storage /\ mutex' = Nobody
    BY <1>1 DEF Memory!Unlock
  <1>3. Memory!StoreInv'
    BY <1>1, <1>2, OutsideKeeps
  <1>4. Calls[c].st = "done"
    BY <1>2 DEF Calls, Memory!Promise
  <1>5. Memory!Promise(t) = Memory!Abstract!NoCall
    BY <1>1 DEF Memory!Promise, Memory!NoThread, Memory!Abstract!NoCall
  <1>6. Calls' = [Calls EXCEPT ![c] = Memory!Abstract!NoCall]
    BY <1>2, <1>5, CallsStep
  <1>7. Db' = Db
    BY <1>2, SameDb
  <1> QED
    BY <1>3, <1>4, <1>6, <1>7 DEF Memory!Abstract!Reply, Calls, Db

\* Every step of the in-memory store.
LEMMA MemoryStep ==
  ASSUME Memory!StoreInv, Memory!Next
  PROVE  Memory!StoreInv' /\ (Memory!Abstract!Next \/ UNCHANGED Memory!Abstract!vars)
  <1>1. PICK c \in Callers :
          \/ \E a \in Memory!Abstract!Args : Memory!Call(c, a)
          \/ Memory!Lock(c) \/ Memory!List(c) \/ Memory!Get(c) \/ Memory!Look(c)
          \/ Memory!Store(c) \/ Memory!Delete(c) \/ Memory!Unlock(c)
    BY DEF Memory!Next
  <1>2. CASE \E a \in Memory!Abstract!Args : Memory!Call(c, a)
    BY <1>2, MemoryCall DEF Memory!Abstract!Next
  <1>3. CASE Memory!Lock(c)
    BY <1>3, MemoryLock
  <1>4. CASE Memory!List(c) \/ Memory!Get(c) \/ Memory!Store(c) \/ Memory!Delete(c)
    <2>1. Decides(c, thread[c].args)
      BY <1>4, ListDecides, GetDecides, StoreDecides, DeleteDecides
    <2> QED
      BY <2>1, DecidesKeeps, DecidesPerforms DEF Memory!Abstract!Next
  <1>5. CASE Memory!Look(c)
    BY <1>5, MemoryLook DEF Memory!Abstract!Next
  <1>6. CASE Memory!Unlock(c)
    BY <1>6, MemoryUnlock DEF Memory!Abstract!Next
  <1> QED
    BY <1>1, <1>2, <1>3, <1>4, <1>5, <1>6

\* The map starts empty, with nobody in a method.
LEMMA MemoryInit ==
  ASSUME Memory!Init
  PROVE  Memory!StoreInv /\ Memory!Abstract!Init
  <1>1. thread = [c \in Callers |-> Memory!NoThread] /\ DOMAIN storage = {}
    BY DEF Memory!Init
  <1>2. Memory!StoreInv
    BY <1>1, NoMemoryThread DEF Memory!StoreInv
  <1>3. Db \in [MemoryKeys -> Memory!Abstract!MaybeReports]
    BY <1>2, LookupFacts DEF Db, Memory!Abstract!MaybeReports
  <1>4. Memory!Promise(Memory!NoThread) = Memory!Abstract!NoCall
    BY DEF Memory!Promise, Memory!NoThread, Memory!Abstract!NoCall
  <1>5. Calls = [c \in Callers |-> Memory!Abstract!NoCall]
    BY <1>1, <1>4 DEF Calls
  <1> QED
    BY <1>2, <1>3, <1>5 DEF Memory!Abstract!Init, Db, Calls

-----------------------------------------------------------------------------
(* The URL of a database *)
\* FlattenSeq, as the lemmas about it call it.
LEMMA SameFlattenSeq ==
  ASSUME NEW s
  PROVE  Url!FlattenSeq(s) = Ext!FlattenSeq(s)
  BY Zenon DEF Url!FlattenSeq, Ext!FlattenSeq

\* What a URL is made of.
Scheme == "postgres://"
Database == "dbname?sslmode=disable"
Tokens == Letters \cup Url!Digits \cup HostNames \cup Ports
          \cup {"%", "+", ":", "@", "/", ",", Scheme, Database}
UrlTexts == Seq(Tokens)

\* All of it is part of a URL.
LEMMA TokenFacts ==
  /\ Letters \subseteq Tokens /\ Url!Digits \subseteq Tokens
  /\ HostNames \subseteq Tokens /\ Ports \subseteq Tokens
  /\ "%" \in Tokens /\ "+" \in Tokens /\ ":" \in Tokens /\ "@" \in Tokens /\ "/" \in Tokens
  /\ "," \in Tokens /\ Scheme \in Tokens /\ Database \in Tokens
  BY Zenon DEF Tokens

\* Each letter that is escaped has digits of its own, which are no letter.
LEMMA HexFacts ==
  /\ DOMAIN Url!Hex = {"@", ":", "/", "%", "+"}
  /\ \A l \in DOMAIN Url!Hex : Url!Hex[l] \in Url!Digits
  /\ \A l, m \in DOMAIN Url!Hex : Url!Hex[l] = Url!Hex[m] => l = m
  /\ \A h \in Url!Digits : h \notin {"@", ":", "/", "%", "+"}
  <1>1. DOMAIN Url!Hex = {"@", ":", "/", "%", "+"}
    BY DEF Url!Hex
  <1>2. \A l \in DOMAIN Url!Hex : Url!Hex[l] \in Url!Digits
    BY DEF Url!Digits
  <1>3. /\ Url!Hex["@"] = "40" /\ Url!Hex[":"] = "3A" /\ Url!Hex["/"] = "2F"
        /\ Url!Hex["%"] = "25" /\ Url!Hex["+"] = "2B"
    BY DEF Url!Hex
  <1>4. \A l, m \in DOMAIN Url!Hex : Url!Hex[l] = Url!Hex[m] => l = m
    BY <1>1, <1>3
  <1>5. \A h \in Url!Digits : h \in {"40", "3A", "2F", "25", "2B"}
    BY <1>1, <1>3 DEF Url!Digits
  <1>6. \A h \in Url!Digits : h \notin {"@", ":", "/", "%", "+"}
    BY <1>5
  <1> QED
    BY <1>1, <1>2, <1>4, <1>6

\* What a letter is written as, and what the driver reads for it.
Code(l) ==
    IF l = " " THEN <<"+">>
    ELSE IF l \in DOMAIN Url!Hex THEN <<"%", Url!Hex[l]>> ELSE <<l>>
Arrival(l) == IF l = " " THEN "+" ELSE l

\* The three things that can become of a letter.
LEMMA CodeCases ==
  ASSUME NEW l \in Letters
  PROVE  \/ Code(l) = <<"+">> /\ Arrival(l) = "+"
         \/ /\ l \in DOMAIN Url!Hex /\ Url!Hex[l] \in Url!Digits
            /\ Code(l) = <<"%", Url!Hex[l]>> /\ Arrival(l) = l
         \/ /\ l \notin {"@", ":", "/", "%", "+"} /\ l \notin Url!Digits
            /\ Code(l) = <<l>> /\ Arrival(l) = l
  <1>1. l \notin Url!Digits
    BY SettingsAssumption, Zenon
  <1> QED
    BY <1>1, HexFacts, Zenon DEF Code, Arrival

\* What a letter becomes is part of a URL.
LEMMA CodeType ==
  ASSUME NEW l \in Letters
  PROVE  Code(l) \in UrlTexts /\ Arrival(l) \in Tokens
  <1>1. CASE Code(l) = <<"+">> /\ Arrival(l) = "+"
    BY <1>1, TokenFacts, OneElement, Zenon DEF UrlTexts
  <1>2. CASE /\ l \in DOMAIN Url!Hex /\ Url!Hex[l] \in Url!Digits
             /\ Code(l) = <<"%", Url!Hex[l]>> /\ Arrival(l) = l
    <2>1. Url!Hex[l] \in Tokens /\ "%" \in Tokens /\ l \in Tokens
      BY <1>2, TokenFacts, Zenon
    <2>2. PICK h \in Tokens : h = Url!Hex[l]
      BY <2>1
    <2>3. <<"%", h>> \in UrlTexts
      BY <2>1, TwoElements DEF UrlTexts
    <2> QED
      BY <1>2, <2>1, <2>2, <2>3
  <1>3. CASE Code(l) = <<l>> /\ Arrival(l) = l
    BY <1>3, TokenFacts, OneElement, Zenon DEF UrlTexts
  <1> QED
    BY <1>1, <1>2, <1>3, CodeCases, Zenon

\* The word that arrives: a space comes out as a plus sign.
Arrives(word) == [i \in DOMAIN word |-> Arrival(word[i])]

\* The escaped text of a word, and the word that arrives.
Codes == [l \in Letters |-> Code(l)]
Arrivals == [l \in Letters |-> Arrival(l)]

\* The same, of all letters.
LEMMA CodesType == Codes \in [Letters -> UrlTexts] /\ Arrivals \in [Letters -> Tokens]
  BY CodeType DEF Codes, Arrivals

\* QueryEscape escapes letter by letter,
LEMMA EscapeIsCodes ==
  ASSUME NEW w \in Seq(Letters)
  PROVE  Url!QueryEscape(w) = Url!FlattenSeq(Mapped(Codes, w))
  <1>1. Url!QueryEscape(w) = Url!FlattenSeq([i \in DOMAIN w |-> Code(w[i])])
    BY Zenon DEF Url!QueryEscape, Code
  <1>2. [i \in DOMAIN w |-> Code(w[i])] = Mapped(Codes, w)
    BY DEF Mapped, Codes
  <1> QED
    BY <1>1, <1>2, Zenon

\* and a word arrives letter by letter.
LEMMA ArrivesIsArrivals ==
  ASSUME NEW w \in Seq(Letters)
  PROVE  Arrives(w) = Mapped(Arrivals, w)
  BY DEF Arrives, Mapped, Arrivals

\* A word is the function of its letters.
LEMMA WordIsLetters ==
  ASSUME NEW S, NEW w \in Seq(S)
  PROVE  w = [i \in DOMAIN w |-> w[i]]
  <1>1. DOMAIN w = 1 .. Len(w) /\ w \in [1 .. Len(w) -> S]
    OBVIOUS
  <1>2. w = [i \in 1 .. Len(w) |-> w[i]]
    BY <1>1
  <1> QED
    BY <1>1, <1>2

\* A word without a space arrives as it is.
LEMMA WithoutSpace ==
  ASSUME NEW w \in Seq(Letters), Url!Places(" ", w) = {}
  PROVE  Arrives(w) = w
  <1>1. ASSUME NEW i \in DOMAIN w PROVE Arrival(w[i]) = w[i]
    <2>1. w[i] # " "
      BY <1>1, Zenon DEF Url!Places
    <2> QED
      BY <2>1, Zenon DEF Arrival
  <1>2. Arrives(w) = [i \in DOMAIN w |-> w[i]]
    BY <1>1 DEF Arrives
  <1>3. w = [i \in DOMAIN w |-> w[i]]
    <2>1. PICK S : S = Letters
      OBVIOUS
    <2>2. w \in Seq(S)
      BY <2>1
    <2> QED
      BY <2>2, WordIsLetters, Zenon
  <1> QED
    BY <1>2, <1>3, Zenon

\* What one letter more adds.
LEMMA EscapeAppend ==
  ASSUME NEW v \in Seq(Letters), NEW l \in Letters
  PROVE  /\ Url!QueryEscape(v) \in UrlTexts
         /\ Url!QueryEscape(Append(v, l)) = Url!QueryEscape(v) \o Code(l)
         /\ Arrives(v) \in UrlTexts
         /\ Arrives(Append(v, l)) = Append(Arrives(v), Arrival(l))
  <1>1. PICK w \in Seq(Letters) : w = Append(v, l)
    BY AppendProperties
  <1>2. /\ Mapped(Codes, v) \in Seq(UrlTexts) /\ Mapped(Arrivals, v) \in UrlTexts
        /\ Codes[l] = Code(l) /\ Arrivals[l] = Arrival(l)
    BY CodesType, MappedType DEF Codes, Arrivals, UrlTexts
  <1>3. Mapped(Codes, w) = Append(Mapped(Codes, v), Code(l))
    <2>1. PICK F : F = Codes
      OBVIOUS
    <2>2. F \in [Letters -> UrlTexts]
      BY <2>1, CodesType
    <2>3. Mapped(F, Append(v, l)) = Append(Mapped(F, v), F[l])
      BY <2>2, MappedAppend
    <2> QED
      BY <1>1, <1>2, <2>1, <2>3
  <1>4. Mapped(Arrivals, w) = Append(Mapped(Arrivals, v), Arrival(l))
    <2>1. PICK F : F = Arrivals
      OBVIOUS
    <2>2. F \in [Letters -> Tokens]
      BY <2>1, CodesType
    <2>3. Mapped(F, Append(v, l)) = Append(Mapped(F, v), F[l])
      BY <2>2, MappedAppend
    <2> QED
      BY <1>1, <1>2, <2>1, <2>3
  <1>5. Url!FlattenSeq(Append(Mapped(Codes, v), Code(l)))
          = Url!FlattenSeq(Mapped(Codes, v)) \o Code(l)
    BY <1>2, CodeType, FlattenAppend, SameFlattenSeq DEF UrlTexts
  <1>6. Url!FlattenSeq(Mapped(Codes, v)) \in UrlTexts
    BY <1>2, FlattenType, SameFlattenSeq DEF UrlTexts
  <1> QED
    BY <1>1, <1>2, <1>3, <1>4, <1>5, <1>6, EscapeIsCodes, ArrivesIsArrivals

\* What the driver reads for the i-th letter of an escaped text.
Letter(h) == CHOOSE l \in DOMAIN Url!Hex : Url!Hex[l] = h
Decode(e, i) ==
    IF e[i] = "%" THEN <<Letter(e[i + 1])>>
    ELSE IF e[i] \in Url!Digits THEN <<>> ELSE <<e[i]>>
Decoded(e) == [i \in DOMAIN e |-> Decode(e, i)]

\* The driver decodes place by place.
LEMMA UnescapeIsDecoded ==
  ASSUME NEW e
  PROVE  Url!Unescape(e) = Url!FlattenSeq(Decoded(e))
  BY Zenon DEF Url!Unescape, Decoded, Decode, Letter

\* In an escaped text digits follow every percent sign.
LEMMA EscapedAt ==
  ASSUME NEW e \in UrlTexts
  PROVE  Url!Escaped(e) <=>
           \A i \in 1 .. Len(e) : e[i] = "%" => i < Len(e) /\ e[i + 1] \in Url!Digits
  <1>1. DOMAIN e = 1 .. Len(e)
    BY DEF UrlTexts
  <1>2. \A i : i \in Url!Places("%", e) <=> i \in 1 .. Len(e) /\ e[i] = "%"
    BY <1>1 DEF Url!Places
  <1> QED
    BY <1>2, Zenon DEF Url!Escaped

\* Digits decode to the letter that was escaped.
LEMMA DecodeHex ==
  ASSUME NEW l \in DOMAIN Url!Hex
  PROVE  Letter(Url!Hex[l]) = l
  BY HexFacts DEF Letter

\* What the places of an escaped text decode to.
LEMMA DecodedType ==
  ASSUME NEW e \in UrlTexts, Url!Escaped(e)
  PROVE  /\ Decoded(e) \in Seq(UrlTexts) /\ Len(Decoded(e)) = Len(e)
         /\ \A i \in 1 .. Len(e) : Decoded(e)[i] = Decode(e, i)
  <1>1. ASSUME NEW i \in 1 .. Len(e) PROVE Decode(e, i) \in UrlTexts
    <2>1. CASE e[i] = "%"
      <3>1. e[i + 1] \in Url!Digits
        BY <2>1, EscapedAt
      <3>2. PICK l \in DOMAIN Url!Hex : e[i + 1] = Url!Hex[l]
        BY <3>1 DEF Url!Digits
      <3>3. Decode(e, i) = <<l>>
        BY <2>1, <3>2, DecodeHex DEF Decode
      <3>4. l \in Tokens
        BY <3>2, HexFacts, TokenFacts
      <3> QED
        BY <3>3, <3>4, OneElement DEF UrlTexts
    <2>2. CASE e[i] # "%" /\ e[i] \in Url!Digits
      <3>1. Decode(e, i) = <<>>
        BY <2>2 DEF Decode
      <3>2. <<>> \in UrlTexts
        BY DEF UrlTexts
      <3> QED
        BY <3>1, <3>2
    <2>3. CASE e[i] # "%" /\ e[i] \notin Url!Digits
      <3>1. Decode(e, i) = <<e[i]>>
        BY <2>3 DEF Decode
      <3>2. e[i] \in Tokens
        BY DEF UrlTexts
      <3> QED
        BY <3>1, <3>2, OneElement DEF UrlTexts
    <2> QED
      BY <2>1, <2>2, <2>3
  <1>2. DOMAIN e = 1 .. Len(e) /\ Len(e) \in Nat
    BY DEF UrlTexts
  <1> QED
    BY <1>1, <1>2 DEF Decoded

\* What comes behind an escaped text does not change how it decodes.
LEMMA DecodeKeeps ==
  ASSUME NEW e \in UrlTexts, Url!Escaped(e), NEW t, Starts(e, t), NEW i \in 1 .. Len(e)
  PROVE  Decode(t, i) = Decode(e, i)
  <1>1. t[i] = e[i]
    BY DEF Starts
  <1>2. e[i] = "%" => t[i + 1] = e[i + 1]
    <2> SUFFICES ASSUME e[i] = "%" PROVE t[i + 1] = e[i + 1]
      OBVIOUS
    <2>1. i < Len(e) /\ Len(e) \in Nat
      BY EscapedAt DEF Starts
    <2>2. i + 1 \in 1 .. Len(e)
      BY <2>1
    <2> QED
      BY <2>2 DEF Starts
  <1> QED
    BY <1>1, <1>2 DEF Decode

\* Two parts of a URL, one behind the other.
LEMMA UrlJoined ==
  ASSUME NEW s \in UrlTexts, NEW t \in UrlTexts
  PROVE  /\ s \o t \in UrlTexts /\ Len(s \o t) = Len(s) + Len(t)
         /\ Len(s) \in Nat /\ Len(t) \in Nat
         /\ \A i \in 1 .. Len(s) + Len(t) :
              (s \o t)[i] = IF i <= Len(s) THEN s[i] ELSE t[i - Len(s)]
  BY ConcatProperties DEF UrlTexts

\* One letter more that is not escaped.
LEMMA UnescapeOne ==
  ASSUME NEW e \in UrlTexts, Url!Escaped(e),
         NEW x \in Tokens, x # "%", x \notin Url!Digits
  PROVE  /\ Url!Escaped(e \o <<x>>)
         /\ Url!Unescape(e \o <<x>>) = Append(Url!Unescape(e), x)
  <1>1. PICK c \in UrlTexts : c = <<x>> /\ Len(c) = 1 /\ c[1] = x
    BY OneElement DEF UrlTexts
  <1>2. PICK t \in UrlTexts : t = e \o c
    BY UrlJoined
  <1>3. /\ Len(t) = Len(e) + 1 /\ Len(e) \in Nat
        /\ \A i \in 1 .. Len(e) : t[i] = e[i]
        /\ t[Len(e) + 1] = x
    <2>1. /\ Len(t) = Len(e) + Len(c) /\ Len(e) \in Nat
          /\ \A i \in 1 .. Len(e) + Len(c) : t[i] = IF i <= Len(e) THEN e[i] ELSE c[i - Len(e)]
      BY <1>2, UrlJoined
    <2> QED
      BY <1>1, <2>1
  <1>4. Starts(e, t)
    BY <1>3 DEF Starts
  <1>5. Url!Escaped(t)
    <2>1. ASSUME NEW i \in 1 .. Len(t), t[i] = "%"
          PROVE  i < Len(t) /\ t[i + 1] \in Url!Digits
      <3>1. i \in 1 .. Len(e) /\ e[i] = "%"
        BY <1>3, <2>1
      <3>2. i < Len(e) /\ e[i + 1] \in Url!Digits
        BY <3>1, EscapedAt
      <3>3. i + 1 \in 1 .. Len(e)
        BY <1>3, <3>1, <3>2
      <3> QED
        BY <1>3, <3>2, <3>3
    <2> QED
      BY <2>1, EscapedAt
  <1>6. PICK d \in Seq(UrlTexts) : d = Decoded(e)
    BY DecodedType
  <1>7. PICK dt \in Seq(UrlTexts) : dt = Decoded(t)
    BY <1>5, DecodedType
  <1>8. /\ Len(d) = Len(e) /\ \A i \in 1 .. Len(e) : d[i] = Decode(e, i)
        /\ Len(dt) = Len(t) /\ \A i \in 1 .. Len(t) : dt[i] = Decode(t, i)
    BY <1>5, <1>6, <1>7, DecodedType
  <1>9. PICK a \in Seq(UrlTexts) : a = Append(d, c)
    BY AppendProperties
  <1>10. /\ Len(a) = Len(d) + 1 /\ \A i \in 1 .. Len(d) : a[i] = d[i]
         /\ a[Len(d) + 1] = c
    BY <1>9, AppendProperties
  <1>11. Decode(t, Len(e) + 1) = c
    BY <1>1, <1>3 DEF Decode
  <1>12. ASSUME NEW i \in 1 .. Len(dt) PROVE dt[i] = a[i]
    <2>1. CASE i \in 1 .. Len(e)
      BY <1>3, <1>4, <1>8, <1>10, <2>1, DecodeKeeps
    <2>2. CASE i = Len(e) + 1
      BY <1>3, <1>8, <1>10, <1>11, <2>2
    <2> QED
      BY <1>3, <1>8, <2>1, <2>2
  <1>13. dt = a
    <2>1. Len(dt) = Len(a)
      BY <1>3, <1>8, <1>10
    <2> QED
      BY <1>12, <2>1, SeqEqual
  <1>14. Url!Unescape(t) = Url!Unescape(e) \o c
    BY <1>6, <1>7, <1>9, <1>13, UnescapeIsDecoded, FlattenAppend, SameFlattenSeq DEF UrlTexts
  <1>15. Url!Unescape(e) \in UrlTexts
    BY <1>6, UnescapeIsDecoded, FlattenType, SameFlattenSeq DEF UrlTexts
  <1>16. Url!Unescape(e) \o <<x>> = Append(Url!Unescape(e), x)
    BY <1>15 DEF UrlTexts
  <1> QED
    BY <1>1, <1>2, <1>5, <1>14, <1>16

\* One letter more that is escaped.
LEMMA UnescapeTwo ==
  ASSUME NEW e \in UrlTexts, Url!Escaped(e), NEW l \in DOMAIN Url!Hex
  PROVE  /\ Url!Escaped(e \o <<"%", Url!Hex[l]>>)
         /\ Url!Unescape(e \o <<"%", Url!Hex[l]>>) = Append(Url!Unescape(e), l)
  <1>0. /\ Url!Hex[l] \in Url!Digits /\ Url!Hex[l] \in Tokens /\ l \in Tokens
        /\ Url!Hex[l] # "%" /\ "%" \in Tokens
    BY HexFacts, TokenFacts
  <1>1. PICK c \in UrlTexts : /\ c = <<"%", Url!Hex[l]>> /\ Len(c) = 2
                              /\ c[1] = "%" /\ c[2] = Url!Hex[l]
    <2>1. PICK h \in Tokens : h = Url!Hex[l]
      BY <1>0
    <2>2. <<"%", h>> \in UrlTexts /\ Len(<<"%", h>>) = 2 /\ <<"%", h>>[1] = "%" /\ <<"%", h>>[2] = h
      BY <1>0, TwoElements DEF UrlTexts
    <2> QED
      BY <2>1, <2>2
  <1>2. PICK t \in UrlTexts : t = e \o c
    BY UrlJoined
  <1>3. /\ Len(t) = Len(e) + 2 /\ Len(e) \in Nat
        /\ \A i \in 1 .. Len(e) : t[i] = e[i]
        /\ t[Len(e) + 1] = "%" /\ t[Len(e) + 2] = Url!Hex[l]
    <2>1. /\ Len(t) = Len(e) + Len(c) /\ Len(e) \in Nat
          /\ \A i \in 1 .. Len(e) + Len(c) : t[i] = IF i <= Len(e) THEN e[i] ELSE c[i - Len(e)]
      BY <1>2, UrlJoined
    <2> QED
      BY <1>1, <2>1
  <1>4. Starts(e, t)
    BY <1>3 DEF Starts
  <1>5. Url!Escaped(t)
    <2>1. ASSUME NEW i \in 1 .. Len(t), t[i] = "%"
          PROVE  i < Len(t) /\ t[i + 1] \in Url!Digits
      <3>1. CASE i \in 1 .. Len(e)
        <4>1. i < Len(e) /\ e[i + 1] \in Url!Digits
          BY <1>3, <2>1, <3>1, EscapedAt
        <4>2. i + 1 \in 1 .. Len(e)
          BY <1>3, <3>1, <4>1
        <4> QED
          BY <1>3, <4>1, <4>2
      <3>2. CASE i = Len(e) + 1
        BY <1>0, <1>3, <3>2
      <3>3. CASE i = Len(e) + 2
        BY <1>0, <1>3, <2>1, <3>3
      <3> QED
        BY <1>3, <3>1, <3>2, <3>3
    <2> QED
      BY <2>1, EscapedAt
  <1>6. PICK d \in Seq(UrlTexts) : d = Decoded(e)
    BY DecodedType
  <1>7. PICK dt \in Seq(UrlTexts) : dt = Decoded(t)
    BY <1>5, DecodedType
  <1>8. /\ Len(d) = Len(e) /\ \A i \in 1 .. Len(e) : d[i] = Decode(e, i)
        /\ Len(dt) = Len(t) /\ \A i \in 1 .. Len(t) : dt[i] = Decode(t, i)
    BY <1>5, <1>6, <1>7, DecodedType
  <1>9. PICK one \in UrlTexts : one = <<l>>
    BY <1>0, OneElement DEF UrlTexts
  <1>10. PICK none \in UrlTexts : none = <<>>
    <2>1. <<>> \in UrlTexts
      BY DEF UrlTexts
    <2> QED
      BY <2>1, Zenon
  <1>11. PICK a \in Seq(UrlTexts) : a = Append(d, one)
    BY AppendProperties
  <1>12. PICK b \in Seq(UrlTexts) : b = Append(a, none)
    BY AppendProperties
  <1>13. /\ Len(a) = Len(d) + 1 /\ \A i \in 1 .. Len(d) : a[i] = d[i]
         /\ a[Len(d) + 1] = one
         /\ Len(b) = Len(a) + 1 /\ \A i \in 1 .. Len(a) : b[i] = a[i]
         /\ b[Len(a) + 1] = none
    BY <1>11, <1>12, AppendProperties
  <1>14. Decode(t, Len(e) + 1) = one
    <2>1. t[Len(e) + 1 + 1] = Url!Hex[l]
      BY <1>3
    <2> QED
      BY <1>3, <1>9, <2>1, DecodeHex DEF Decode
  <1>15. Decode(t, Len(e) + 2) = none
    BY <1>0, <1>3, <1>10 DEF Decode
  <1>16. ASSUME NEW i \in 1 .. Len(dt) PROVE dt[i] = b[i]
    <2>1. CASE i \in 1 .. Len(e)
      <3>1. dt[i] = Decode(e, i)
        BY <1>3, <1>4, <1>8, <2>1, DecodeKeeps
      <3>2. b[i] = d[i]
        BY <1>3, <1>8, <1>13, <2>1
      <3> QED
        BY <1>8, <2>1, <3>1, <3>2
    <2>2. CASE i = Len(e) + 1
      <3>1. b[i] = one
        BY <1>3, <1>8, <1>13, <2>2
      <3> QED
        BY <1>8, <1>14, <2>2, <3>1
    <2>3. CASE i = Len(e) + 2
      <3>1. b[i] = none
        BY <1>3, <1>8, <1>13, <2>3
      <3> QED
        BY <1>8, <1>15, <2>3, <3>1
    <2> QED
      BY <1>3, <1>8, <2>1, <2>2, <2>3
  <1>17. dt = b
    <2>1. Len(dt) = Len(b)
      BY <1>3, <1>8, <1>13
    <2> QED
      BY <1>16, <2>1, SeqEqual
  <1>18. Url!Unescape(t) = Url!FlattenSeq(a) \o none
    BY <1>7, <1>12, <1>17, UnescapeIsDecoded, FlattenAppend, SameFlattenSeq DEF UrlTexts
  <1>19. Url!FlattenSeq(a) = Url!Unescape(e) \o one
    BY <1>6, <1>11, UnescapeIsDecoded, FlattenAppend, SameFlattenSeq DEF UrlTexts
  <1>20. Url!Unescape(e) \in UrlTexts /\ Url!FlattenSeq(a) \in UrlTexts
    BY <1>6, UnescapeIsDecoded, FlattenType, SameFlattenSeq DEF UrlTexts
  <1>21. Url!FlattenSeq(a) \o none = Url!FlattenSeq(a)
    BY <1>10, <1>20, ConcatEmptySeq DEF UrlTexts
  <1>22. Url!Unescape(e) \o <<l>> = Append(Url!Unescape(e), l)
    BY <1>20 DEF UrlTexts
  <1> QED
    BY <1>1, <1>2, <1>5, <1>9, <1>18, <1>19, <1>21, <1>22

\* The text of an escaped word: no letter in it has a meaning in a URL, and the
\* word is read from it.
Holds(t, l) == \E i \in 1 .. Len(t) : t[i] = l
Survives(w) ==
    LET e == Url!QueryEscape(w)
    IN /\ e \in UrlTexts /\ Url!Escaped(e)
       /\ ~Holds(e, "/") /\ ~Holds(e, "@") /\ ~Holds(e, ":")
       /\ Url!Unescape(e) = Arrives(w)

\* Two parts hold what one of them holds.
LEMMA HoldsJoined ==
  ASSUME NEW s \in UrlTexts, NEW t \in UrlTexts, NEW l
  PROVE  Holds(s \o t, l) <=> Holds(s, l) \/ Holds(t, l)
  <1>1. PICK u \in UrlTexts : u = s \o t
    BY UrlJoined
  <1>2. /\ Len(u) = Len(s) + Len(t) /\ Len(s) \in Nat /\ Len(t) \in Nat
        /\ \A i \in 1 .. Len(u) : u[i] = IF i <= Len(s) THEN s[i] ELSE t[i - Len(s)]
    BY <1>1, UrlJoined
  <1>3. ASSUME NEW i \in 1 .. Len(u), u[i] = l PROVE Holds(s, l) \/ Holds(t, l)
    <2>1. CASE i <= Len(s)
      <3>1. i \in 1 .. Len(s) /\ s[i] = l
        BY <1>2, <1>3, <2>1
      <3> QED
        BY <3>1 DEF Holds
    <2>2. CASE ~(i <= Len(s))
      <3>1. i - Len(s) \in 1 .. Len(t) /\ t[i - Len(s)] = l
        BY <1>2, <1>3, <2>2
      <3> QED
        BY <3>1 DEF Holds
    <2> QED
      BY <2>1, <2>2
  <1>4. ASSUME NEW i \in 1 .. Len(s), s[i] = l PROVE Holds(u, l)
    <2>1. i \in 1 .. Len(u) /\ u[i] = l
      BY <1>2, <1>4
    <2> QED
      BY <2>1 DEF Holds
  <1>5. ASSUME NEW i \in 1 .. Len(t), t[i] = l PROVE Holds(u, l)
    <2>1. Len(s) + i \in 1 .. Len(u) /\ ~(Len(s) + i <= Len(s)) /\ Len(s) + i - Len(s) = i
      BY <1>2
    <2>2. u[Len(s) + i] = l
      BY <1>2, <1>5, <2>1
    <2> QED
      BY <2>1, <2>2 DEF Holds
  <1> QED
    BY <1>1, <1>3, <1>4, <1>5 DEF Holds

\* What a part of one character holds,
LEMMA HoldsOne ==
  ASSUME NEW x, NEW l
  PROVE  Holds(<<x>>, l) <=> x = l
  BY DEF Holds

\* and one of two.
LEMMA HoldsTwo ==
  ASSUME NEW x, NEW y, NEW l
  PROVE  Holds(<<x, y>>, l) <=> x = l \/ y = l
  <1>1. 1 .. Len(<<x, y>>) = {1, 2}
    OBVIOUS
  <1> QED
    BY <1>1 DEF Holds

\* By induction along the word: the driver decodes what was escaped, and the
\* escaped word holds no character at which it splits.
LEMMA WordsSurvive ==
  \A w \in Seq(Letters) : Survives(w)
  <1> DEFINE S == {w \in Seq(Letters) : Survives(w)}
  <1>1. <<>> \in S
    <2>1. Mapped(Codes, <<>>) = <<>> /\ Mapped(Arrivals, <<>>) = <<>> /\ <<>> \in Seq(Letters)
      BY MappedEmpty
    <2>2. Url!QueryEscape(<<>>) = <<>> /\ Arrives(<<>>) = <<>>
      BY <2>1, EscapeIsCodes, ArrivesIsArrivals, FlattenEmpty, SameFlattenSeq
    <2>3. <<>> \in UrlTexts
      BY DEF UrlTexts
    <2>4. Url!Escaped(<<>>)
      BY <2>3, EscapedAt
    <2>5. ~Holds(<<>>, "/") /\ ~Holds(<<>>, "@") /\ ~Holds(<<>>, ":")
      BY DEF Holds
    <2>6. Url!Unescape(<<>>) = <<>>
      <3>1. Decoded(<<>>) = <<>>
        BY DEF Decoded
      <3> QED
        BY <3>1, UnescapeIsDecoded, FlattenEmpty, SameFlattenSeq
    <2>7. Survives(<<>>)
      BY <2>2, <2>3, <2>4, <2>5, <2>6, Zenon DEF Survives
    <2> QED
      BY <2>1, <2>7
  <1>2. ASSUME NEW v \in Seq(Letters), NEW l \in Letters, v \in S
        PROVE  Append(v, l) \in S
    <2>1. PICK w \in Seq(Letters) : w = Append(v, l)
      BY AppendProperties
    <2>2. PICK e \in UrlTexts : /\ e = Url!QueryEscape(v) /\ Url!Escaped(e)
                                /\ ~Holds(e, "/") /\ ~Holds(e, "@") /\ ~Holds(e, ":")
                                /\ Url!Unescape(e) = Arrives(v)
      BY <1>2 DEF Survives
    <2>3. PICK t \in UrlTexts : t = e \o Code(l)
      BY CodeType, UrlJoined
    <2>4. Url!QueryEscape(w) = t /\ Arrives(w) = Append(Arrives(v), Arrival(l))
      BY <2>1, <2>2, <2>3, EscapeAppend
    <2>5. \A x : Holds(t, x) <=> Holds(e, x) \/ Holds(Code(l), x)
      BY <2>3, CodeType, HoldsJoined
    <2>6. /\ Url!Escaped(t) /\ Url!Unescape(t) = Arrives(w)
          /\ ~Holds(Code(l), "/") /\ ~Holds(Code(l), "@") /\ ~Holds(Code(l), ":")
      <3>1. CASE Code(l) = <<"+">> /\ Arrival(l) = "+"
        <4>1. "+" \in Tokens /\ "+" # "%" /\ "+" \notin Url!Digits
          BY TokenFacts, HexFacts
        <4>2. Url!Escaped(t) /\ Url!Unescape(t) = Append(Url!Unescape(e), "+")
          BY <2>2, <2>3, <3>1, <4>1, UnescapeOne
        <4>3. ~Holds(Code(l), "/") /\ ~Holds(Code(l), "@") /\ ~Holds(Code(l), ":")
          BY <3>1, HoldsOne
        <4> QED
          BY <2>2, <2>4, <3>1, <4>2, <4>3
      <3>2. CASE /\ l \in DOMAIN Url!Hex /\ Url!Hex[l] \in Url!Digits
                 /\ Code(l) = <<"%", Url!Hex[l]>> /\ Arrival(l) = l
        <4>1. Url!Escaped(t) /\ Url!Unescape(t) = Append(Url!Unescape(e), l)
          BY <2>2, <2>3, <3>2, UnescapeTwo
        <4>2. ~Holds(Code(l), "/") /\ ~Holds(Code(l), "@") /\ ~Holds(Code(l), ":")
          BY <3>2, HoldsTwo, HexFacts
        <4> QED
          BY <2>2, <2>4, <3>2, <4>1, <4>2
      <3>3. CASE /\ l \notin {"@", ":", "/", "%", "+"} /\ l \notin Url!Digits
                 /\ Code(l) = <<l>> /\ Arrival(l) = l
        <4>1. l \in Tokens /\ l # "%"
          BY <3>3, TokenFacts
        <4>2. Url!Escaped(t) /\ Url!Unescape(t) = Append(Url!Unescape(e), l)
          BY <2>2, <2>3, <3>3, <4>1, UnescapeOne
        <4>3. ~Holds(Code(l), "/") /\ ~Holds(Code(l), "@") /\ ~Holds(Code(l), ":")
          BY <3>3, HoldsOne
        <4> QED
          BY <2>2, <2>4, <3>3, <4>2, <4>3
      <3> QED
        BY <3>1, <3>2, <3>3, CodeCases, Zenon
    <2>7. Survives(w)
      BY <2>2, <2>4, <2>5, <2>6, Zenon DEF Survives
    <2> QED
      BY <2>1, <2>7
  <1> HIDE DEF S
  <1>3. \A w \in Seq(Letters) : w \in S
    BY <1>1, <1>2, SeqInduction
  <1> QED
    BY <1>3 DEF S

\* Cardinality is the same by both ways to it.
LEMMA SameCardinality ==
  ASSUME NEW S
  PROVE  Url!Cardinality(S) = Cardinality(S)
  BY Zenon DEF Url!Cardinality, Cardinality

\* A text t with the letter l in it, taken apart at that letter into a and b.
Divides(t, a, l, b) ==
    /\ t = a \o (<<l>> \o b) /\ t[Len(a) + 1] = l
    /\ Len(t) = Len(a) + 1 + Len(b) /\ Len(a) \in Nat /\ Len(b) \in Nat
    /\ \A i \in 1 .. Len(a) : t[i] = a[i]
    /\ \A i \in 1 .. Len(b) : t[Len(a) + 1 + i] = b[i]
    /\ Url!Before(t, Len(a) + 1) = a /\ Url!After(t, Len(a) + 1) = b

\* Two texts with a character between them are a text that it divides.
LEMMA Parts ==
  ASSUME NEW a \in UrlTexts, NEW l \in Tokens, NEW b \in UrlTexts
  PROVE  \E t \in UrlTexts : Divides(t, a, l, b)
  <1>1. PICK c \in UrlTexts : c = <<l>> /\ Len(c) = 1 /\ c[1] = l
    BY OneElement DEF UrlTexts
  <1>2. PICK d \in UrlTexts : d = c \o b
    BY UrlJoined
  <1>3. PICK t \in UrlTexts : t = a \o d
    BY UrlJoined
  <1>4. /\ Len(d) = Len(c) + Len(b) /\ Len(b) \in Nat
        /\ \A i \in 1 .. Len(c) + Len(b) : d[i] = IF i <= Len(c) THEN c[i] ELSE b[i - Len(c)]
    BY <1>2, UrlJoined
  <1>5. /\ Len(t) = Len(a) + Len(d) /\ Len(a) \in Nat
        /\ \A i \in 1 .. Len(a) + Len(d) : t[i] = IF i <= Len(a) THEN a[i] ELSE d[i - Len(a)]
    BY <1>3, UrlJoined
  <1>6. Len(d) = 1 + Len(b) /\ d[1] = l
    BY <1>1, <1>4
  <1>7. ASSUME NEW i \in 1 .. Len(b) PROVE d[i + 1] = b[i]
    <2>1. i + 1 \in 1 .. Len(c) + Len(b) /\ ~(i + 1 <= Len(c)) /\ i + 1 - Len(c) = i
      BY <1>1, <1>4
    <2> QED
      BY <1>4, <2>1
  <1>8. Len(t) = Len(a) + 1 + Len(b)
    <2>1. PICK na, nb \in Nat : na = Len(a) /\ nb = Len(b)
      BY <1>4, <1>5
    <2>2. Len(t) = na + (1 + nb)
      BY <1>5, <1>6, <2>1
    <2>3. na + (1 + nb) = na + 1 + nb
      BY <2>1
    <2> QED
      BY <2>1, <2>2, <2>3
  <1>9. t[Len(a) + 1] = l
    <2>1. Len(a) + 1 \in 1 .. Len(a) + Len(d) /\ ~(Len(a) + 1 <= Len(a)) /\ Len(a) + 1 - Len(a) = 1
      BY <1>4, <1>5, <1>6
    <2> QED
      BY <1>5, <1>6, <2>1
  <1>10. \A i \in 1 .. Len(a) : t[i] = a[i]
    BY <1>4, <1>5, <1>6
  <1>11. ASSUME NEW i \in 1 .. Len(b) PROVE t[Len(a) + 1 + i] = b[i]
    <2>1. /\ Len(a) + 1 + i \in 1 .. Len(a) + Len(d) /\ ~(Len(a) + 1 + i <= Len(a))
          /\ Len(a) + 1 + i - Len(a) = i + 1
      BY <1>4, <1>5, <1>6
    <2>2. t[Len(a) + 1 + i] = d[i + 1]
      BY <1>5, <2>1
    <2> QED
      BY <1>7, <2>2
  <1>12. Url!Before(t, Len(a) + 1) = a
    <2>1. Len(a) \in 0 .. Len(t)
      BY <1>4, <1>5, <1>8
    <2>2. PICK s : s = SubSeq(t, 1, Len(a))
      OBVIOUS
    <2>3. /\ s \in UrlTexts /\ Len(s) = Len(a)
          /\ \A i \in 1 .. Len(a) : s[i] = t[i]
      BY <1>5, <2>1, <2>2 DEF UrlTexts
    <2>4. s = a
      BY <1>10, <2>3, SeqEqual DEF UrlTexts
    <2>5. Len(a) + 1 - 1 = Len(a)
      BY <1>5
    <2> QED
      BY <2>2, <2>4, <2>5 DEF Url!Before
  <1>13. Url!After(t, Len(a) + 1) = b
    <2>1. PICK n \in Nat : n = Len(a) + 1
      BY <1>5
    <2>2. PICK s : s = SubSeq(t, n + 1, Len(t))
      OBVIOUS
    <2>3. Len(t) = n + Len(b)
      BY <1>8, <2>1
    <2>4. /\ s \in UrlTexts /\ Len(s) = Len(b)
          /\ \A i \in 1 .. Len(b) : s[i] = t[n + i]
      BY <1>4, <2>1, <2>2, <2>3 DEF UrlTexts
    <2>5. s = b
      BY <1>11, <2>1, <2>4, SeqEqual DEF UrlTexts
    <2> QED
      BY <2>1, <2>2, <2>5 DEF Url!After
  <1> QED
    BY <1>1, <1>2, <1>3, <1>4, <1>5, <1>8, <1>9, <1>10, <1>11, <1>12, <1>13 DEF Divides

\* The places of a character in a text.
LEMMA PlacesHeld ==
  ASSUME NEW t \in UrlTexts, NEW l
  PROVE  \A i : i \in Url!Places(l, t) <=> i \in 1 .. Len(t) /\ t[i] = l
  <1>1. DOMAIN t = 1 .. Len(t)
    BY DEF UrlTexts
  <1> QED
    BY <1>1 DEF Url!Places

\* ... is cut there, when the letter is not in the first part,
LEMMA CutThere ==
  ASSUME NEW a \in UrlTexts, NEW l \in Tokens, NEW b \in UrlTexts, ~Holds(a, l)
  PROVE  Url!Cut(a \o (<<l>> \o b), l) = [before |-> a, after |-> b]
  <1>0. PICK t \in UrlTexts : Divides(t, a, l, b)
    BY Parts
  <1>1. /\ t = a \o (<<l>> \o b) /\ t[Len(a) + 1] = l
        /\ Len(t) = Len(a) + 1 + Len(b) /\ Len(a) \in Nat /\ Len(b) \in Nat
        /\ \A i \in 1 .. Len(a) : t[i] = a[i]
        /\ Url!Before(t, Len(a) + 1) = a /\ Url!After(t, Len(a) + 1) = b
    BY <1>0 DEF Divides
  <1>2. PICK P : P = Url!Places(l, t)
    OBVIOUS
  <1>3. Len(a) + 1 \in P
    <2>1. Len(a) + 1 \in 1 .. Len(t)
      BY <1>1
    <2> QED
      BY <1>1, <1>2, <2>1, PlacesHeld
  <1>4. ASSUME NEW i \in P PROVE i \in Nat /\ Len(a) + 1 <= i
    <2>1. i \in 1 .. Len(t) /\ t[i] = l
      BY <1>2, PlacesHeld
    <2>2. ~(i \in 1 .. Len(a))
      BY <1>1, <2>1 DEF Holds
    <2> QED
      BY <1>1, <2>1, <2>2
  <1>5. Url!Min(P) = Len(a) + 1
    <2>1. Url!Min(P) = CHOOSE x \in P : \A y \in P : x =< y
      BY DEF Url!Min
    <2>2. PICK x \in P : x = Url!Min(P) /\ \A y \in P : x =< y
      BY <1>3, <1>4, <2>1
    <2>3. x <= Len(a) + 1 /\ Len(a) + 1 <= x /\ x \in Nat
      BY <1>3, <1>4, <2>2
    <2> QED
      BY <1>1, <2>2, <2>3
  <1>6. P # {}
    BY <1>3
  <1>7. Url!Cut(t, l) = [before |-> Url!Before(t, Url!Min(P)), after |-> Url!After(t, Url!Min(P))]
    BY <1>2, <1>6 DEF Url!Cut
  <1> QED
    BY <1>1, <1>5, <1>7

\* ... and has its last such letter there, when it is not in the second.
LEMMA LastThere ==
  ASSUME NEW a \in UrlTexts, NEW l \in Tokens, NEW b \in UrlTexts, ~Holds(b, l)
  PROVE  LET t == a \o (<<l>> \o b)
             i == Url!Max(Url!Places(l, t))
         IN Url!Places(l, t) # {} /\ Url!Before(t, i) = a /\ Url!After(t, i) = b
  <1>0. PICK t \in UrlTexts : Divides(t, a, l, b)
    BY Parts
  <1>1. /\ t = a \o (<<l>> \o b) /\ t[Len(a) + 1] = l
        /\ Len(t) = Len(a) + 1 + Len(b) /\ Len(a) \in Nat /\ Len(b) \in Nat
        /\ \A i \in 1 .. Len(b) : t[Len(a) + 1 + i] = b[i]
        /\ Url!Before(t, Len(a) + 1) = a /\ Url!After(t, Len(a) + 1) = b
    BY <1>0 DEF Divides
  <1>2. PICK P : P = Url!Places(l, t)
    OBVIOUS
  <1>3. Len(a) + 1 \in P
    <2>1. Len(a) + 1 \in 1 .. Len(t)
      BY <1>1
    <2> QED
      BY <1>1, <1>2, <2>1, PlacesHeld
  <1>4. ASSUME NEW i \in P PROVE i \in Nat /\ Len(a) + 1 >= i
    <2>1. i \in 1 .. Len(t) /\ t[i] = l
      BY <1>2, PlacesHeld
    <2>2. PICK j : j = i - (Len(a) + 1)
      OBVIOUS
    <2>3. j \in 1 .. Len(b) => t[i] = b[j]
      <3>1. i = Len(a) + 1 + j
        BY <1>1, <2>1, <2>2
      <3> QED
        BY <1>1, <3>1
    <2>4. ~(j \in 1 .. Len(b))
      BY <2>1, <2>3 DEF Holds
    <2> QED
      BY <1>1, <2>1, <2>2, <2>4
  <1>5. Url!Max(P) = Len(a) + 1
    <2>1. Url!Max(P) = CHOOSE x \in P : \A y \in P : x >= y
      BY DEF Url!Max
    <2>2. PICK x \in P : x = Url!Max(P) /\ \A y \in P : x >= y
      BY <1>3, <1>4, <2>1
    <2>3. x >= Len(a) + 1 /\ Len(a) + 1 >= x /\ x \in Nat
      BY <1>3, <1>4, <2>2
    <2> QED
      BY <1>1, <2>2, <2>3
  <1>6. P # {}
    BY <1>3
  <1> QED
    BY <1>1, <1>2, <1>5, <1>6
\* What stands between two hosts, and between a host and its port.
Comma == ","
Colon == ":"

\* A comma and a colon are no other separator and no part of a host or port.
LEMMA CommaFacts ==
  /\ Comma \in Tokens /\ Colon \in Tokens
  /\ Comma # "/" /\ Comma # "@" /\ Comma # Colon /\ Colon # "/" /\ Colon # "@"
  /\ \A x \in HostNames \cup Ports : x \in Tokens /\ x # "/" /\ x # "@" /\ x # Comma
  <1>1. Comma \in Tokens /\ Colon \in Tokens
    BY TokenFacts, Zenon DEF Comma, Colon
  <1>2. /\ Comma # "/" /\ Comma # "@" /\ Comma # Colon /\ Colon # "/" /\ Colon # "@"
    BY Zenon DEF Comma, Colon
  <1>3. ASSUME NEW x \in HostNames \cup Ports
        PROVE  x \in Tokens /\ x # "/" /\ x # "@" /\ x # Comma
    BY <1>3, TokenFacts, SettingsAssumption, Zenon DEF Comma
  <1> QED
    BY <1>1, <1>2, <1>3

\* What the i-th host and its port are written as.
Piece(i, h, port) ==
    (IF i = 1 THEN <<>> ELSE <<Comma>>) \o <<h>> \o (IF port = "0" THEN <<>> ELSE <<Colon, port>>)

\* The host h with its port, at the j-th place of a text.
HostAt(t, j, h, port) == j + 2 <= Len(t) /\ t[j] = h /\ t[j + 1] = Colon /\ t[j + 2] = port

\* How many places a comma is before the host.
Commas(i) == IF i = 1 THEN 0 ELSE 1

\* The four forms of what is written for a host.
LEMMA PieceLetters ==
  ASSUME NEW i, NEW h \in Tokens, NEW port \in Tokens
  PROVE  \/ i = 1 /\ port = "0" /\ Piece(i, h, port) = <<h>>
         \/ i = 1 /\ port # "0" /\ Piece(i, h, port) = <<h, Colon, port>>
         \/ i # 1 /\ port = "0" /\ Piece(i, h, port) = <<Comma, h>>
         \/ i # 1 /\ port # "0" /\ Piece(i, h, port) = <<Comma, h, Colon, port>>
  <1>0. Comma \in Tokens /\ Colon \in Tokens
    BY CommaFacts
  <1>1. CASE i = 1 /\ port = "0"
    <2>1. Piece(i, h, port) = <<>> \o <<h>> \o <<>>
      BY <1>1, Zenon DEF Piece
    <2>2. <<h>> \in UrlTexts
      BY OneElement DEF UrlTexts
    <2>3. <<>> \o <<h>> = <<h>> /\ <<h>> \o <<>> = <<h>>
      BY <2>2, ConcatEmptySeq DEF UrlTexts
    <2> QED
      BY <1>1, <2>1, <2>3, Zenon
  <1>2. CASE i = 1 /\ port # "0"
    <2>1. Piece(i, h, port) = <<>> \o <<h>> \o <<Colon, port>>
      BY <1>2, Zenon DEF Piece
    <2>2. <<h>> \in UrlTexts
      BY OneElement DEF UrlTexts
    <2>3. <<>> \o <<h>> = <<h>>
      BY <2>2, ConcatEmptySeq DEF UrlTexts
    <2>4. <<h>> \o <<Colon, port>> = <<h, Colon, port>>
      BY <1>0, OneAndTwo
    <2> QED
      BY <1>2, <2>1, <2>3, <2>4, Zenon
  <1>3. CASE i # 1 /\ port = "0"
    <2>1. Piece(i, h, port) = <<Comma>> \o <<h>> \o <<>>
      BY <1>3, Zenon DEF Piece
    <2>2. <<Comma>> \o <<h>> = <<Comma, h>>
      BY <1>0, OneAndOne
    <2>3. <<Comma, h>> \in UrlTexts
      BY <1>0, TwoElements DEF UrlTexts
    <2>4. <<Comma, h>> \o <<>> = <<Comma, h>>
      BY <2>3, ConcatEmptySeq DEF UrlTexts
    <2> QED
      BY <1>3, <2>1, <2>2, <2>4, Zenon
  <1>4. CASE i # 1 /\ port # "0"
    <2>1. Piece(i, h, port) = <<Comma>> \o <<h>> \o <<Colon, port>>
      BY <1>4, Zenon DEF Piece
    <2>2. <<Comma>> \o <<h>> = <<Comma, h>>
      BY <1>0, OneAndOne
    <2>3. <<Comma, h>> \o <<Colon, port>> = <<Comma, h, Colon, port>>
      BY <1>0, TwoAndTwo
    <2> QED
      BY <1>4, <2>1, <2>2, <2>3, Zenon
  <1> QED
    BY <1>1, <1>2, <1>3, <1>4, Zenon

\* What there is to know of a piece: c[k] is a comma only in front, ...
IsPiece(c, i, h, port) ==
    /\ c \in UrlTexts /\ Len(c) \in Nat
    /\ \A k \in 1 .. Len(c) : c[k] # "/" /\ c[k] # "@" /\ (c[k] = Comma => k = 1 /\ i # 1)
    /\ i # 1 => Len(c) >= 1 /\ c[1] = Comma
    /\ port # "0" => HostAt(c, Commas(i) + 1, h, port)

\* What is written for a host, place by place.
LEMMA PieceFacts ==
  ASSUME NEW i, NEW h \in HostNames, NEW port \in Ports
  PROVE  IsPiece(Piece(i, h, port), i, h, port)
  <1>0. /\ h \in Tokens /\ port \in Tokens /\ Comma \in Tokens /\ Colon \in Tokens
        /\ h # "/" /\ h # "@" /\ h # Comma /\ port # "/" /\ port # "@" /\ port # Comma
        /\ Comma # "/" /\ Comma # "@" /\ Comma # Colon /\ Colon # "/" /\ Colon # "@"
    BY CommaFacts
  <1>1. PICK c : c = Piece(i, h, port)
    OBVIOUS
  <1>2. CASE i = 1 /\ port = "0" /\ c = <<h>>
    <2>1. c \in UrlTexts
      BY <1>0, <1>2, OneElement DEF UrlTexts
    <2>2. Len(c) = 1 /\ c[1] = h
      BY <1>2
    <2>3. ASSUME NEW k \in 1 .. Len(c)
          PROVE  c[k] # "/" /\ c[k] # "@" /\ (c[k] = Comma => k = 1 /\ i # 1)
      <3>1. k \in {1}
        BY <2>2
      <3> QED
        BY <1>0, <1>2, <2>2, <3>1
    <2> QED
      BY <1>1, <1>2, <2>1, <2>2, <2>3 DEF IsPiece
  <1>3. CASE i = 1 /\ port # "0" /\ c = <<h, Colon, port>>
    <2>1. c \in UrlTexts
      BY <1>0, <1>3, ThreeElements DEF UrlTexts
    <2>2. Len(c) = 3 /\ c[1] = h /\ c[2] = Colon /\ c[3] = port
      BY <1>3
    <2>3. ASSUME NEW k \in 1 .. Len(c)
          PROVE  c[k] # "/" /\ c[k] # "@" /\ (c[k] = Comma => k = 1 /\ i # 1)
      <3>1. k \in {1, 2, 3}
        BY <2>2
      <3> QED
        BY <1>0, <1>3, <2>2, <3>1
    <2>4. HostAt(c, Commas(i) + 1, h, port)
      <3>1. Commas(i) + 1 = 1
        BY <1>3 DEF Commas
      <3>2. 1 + 2 <= Len(c) /\ c[1] = h /\ c[1 + 1] = Colon /\ c[1 + 2] = port
        BY <2>2
      <3> QED
        BY <3>1, <3>2 DEF HostAt
    <2> QED
      BY <1>1, <1>3, <2>1, <2>2, <2>3, <2>4 DEF IsPiece
  <1>4. CASE i # 1 /\ port = "0" /\ c = <<Comma, h>>
    <2>1. c \in UrlTexts
      BY <1>0, <1>4, TwoElements DEF UrlTexts
    <2>2. Len(c) = 2 /\ c[1] = Comma /\ c[2] = h
      BY <1>4
    <2>3. ASSUME NEW k \in 1 .. Len(c)
          PROVE  c[k] # "/" /\ c[k] # "@" /\ (c[k] = Comma => k = 1 /\ i # 1)
      <3>1. k \in {1, 2}
        BY <2>2
      <3> QED
        BY <1>0, <1>4, <2>2, <3>1
    <2> QED
      BY <1>1, <1>4, <2>1, <2>2, <2>3 DEF IsPiece
  <1>5. CASE i # 1 /\ port # "0" /\ c = <<Comma, h, Colon, port>>
    <2>1. c \in UrlTexts
      BY <1>0, <1>5, FourElements DEF UrlTexts
    <2>2. Len(c) = 4 /\ c[1] = Comma /\ c[2] = h /\ c[3] = Colon /\ c[4] = port
      BY <1>5
    <2>3. ASSUME NEW k \in 1 .. Len(c)
          PROVE  c[k] # "/" /\ c[k] # "@" /\ (c[k] = Comma => k = 1 /\ i # 1)
      <3>1. k \in {1, 2, 3, 4}
        BY <2>2
      <3> QED
        BY <1>0, <1>5, <2>2, <3>1
    <2>4. HostAt(c, Commas(i) + 1, h, port)
      <3>1. Commas(i) + 1 = 2
        BY <1>5 DEF Commas
      <3>2. 2 + 2 <= Len(c) /\ c[2] = h /\ c[2 + 1] = Colon /\ c[2 + 2] = port
        BY <2>2
      <3> QED
        BY <3>1, <3>2 DEF HostAt
    <2> QED
      BY <1>1, <1>5, <2>1, <2>2, <2>3, <2>4 DEF IsPiece
  <1> QED
    BY <1>0, <1>1, <1>2, <1>3, <1>4, <1>5, PieceLetters, Zenon
\* The pieces, as FlattenSeq takes them.
Pieces(hosts, port) == [i \in DOMAIN hosts |-> Piece(i, hosts[i], port)]

\* The hosts in the URL are the pieces, one behind the other.
LEMMA HostPartIsPieces ==
  ASSUME NEW hosts, NEW port
  PROVE  Url!HostPart(hosts, port) = Url!FlattenSeq(Pieces(hosts, port))
  BY Zenon DEF Url!HostPart, Pieces, Piece, Comma, Colon

\* Each piece is that of its host.
LEMMA PiecesType ==
  ASSUME NEW hosts \in Seq(HostNames), NEW port \in Ports
  PROVE  /\ Pieces(hosts, port) \in Seq(UrlTexts) /\ Len(Pieces(hosts, port)) = Len(hosts)
         /\ Len(hosts) \in Nat
         /\ \A i \in 1 .. Len(hosts) : Pieces(hosts, port)[i] = Piece(i, hosts[i], port)
  <1>1. \A i \in 1 .. Len(hosts) : Piece(i, hosts[i], port) \in UrlTexts
    <2> SUFFICES ASSUME NEW i \in 1 .. Len(hosts) PROVE Piece(i, hosts[i], port) \in UrlTexts
      OBVIOUS
    <2>1. hosts[i] \in HostNames
      OBVIOUS
    <2>2. IsPiece(Piece(i, hosts[i], port), i, hosts[i], port)
      BY <2>1, PieceFacts
    <2> QED
      BY <2>2 DEF IsPiece
  <1> QED
    BY <1>1 DEF Pieces

\* One host more adds its piece at the end.
LEMMA HostPartAppend ==
  ASSUME NEW v \in Seq(HostNames), NEW x \in HostNames, NEW port \in Ports
  PROVE  /\ Url!HostPart(v, port) \in UrlTexts
         /\ Url!HostPart(Append(v, x), port) = Url!HostPart(v, port) \o Piece(Len(v) + 1, x, port)
  <1>1. PICK w \in Seq(HostNames) : w = Append(v, x)
    BY AppendProperties
  <1>2. /\ Len(w) = Len(v) + 1 /\ Len(v) \in Nat /\ \A i \in 1 .. Len(v) : w[i] = v[i]
        /\ w[Len(v) + 1] = x
    BY <1>1, AppendProperties
  <1>3. PICK c \in UrlTexts : c = Piece(Len(v) + 1, x, port)
    <2>1. IsPiece(Piece(Len(v) + 1, x, port), Len(v) + 1, x, port)
      BY PieceFacts
    <2> QED
      BY <2>1 DEF IsPiece
  <1>4. PICK pv \in Seq(UrlTexts) : pv = Pieces(v, port)
    BY PiecesType
  <1>5. PICK pw \in Seq(UrlTexts) : pw = Pieces(w, port)
    BY PiecesType
  <1>6. /\ Len(pv) = Len(v) /\ \A i \in 1 .. Len(v) : pv[i] = Piece(i, v[i], port)
        /\ Len(pw) = Len(w) /\ \A i \in 1 .. Len(w) : pw[i] = Piece(i, w[i], port)
    BY <1>4, <1>5, PiecesType
  <1>7. PICK a \in Seq(UrlTexts) : a = Append(pv, c)
    BY AppendProperties
  <1>8. /\ Len(a) = Len(pv) + 1 /\ \A i \in 1 .. Len(pv) : a[i] = pv[i]
        /\ a[Len(pv) + 1] = c
    BY <1>7, AppendProperties
  <1>9. ASSUME NEW i \in 1 .. Len(pw) PROVE pw[i] = a[i]
    <2>1. CASE i \in 1 .. Len(v)
      <3>1. pw[i] = Piece(i, w[i], port) /\ w[i] = v[i] /\ pv[i] = Piece(i, v[i], port) /\ a[i] = pv[i]
        BY <1>2, <1>6, <1>8, <2>1
      <3> QED
        BY <3>1
    <2>2. CASE i = Len(v) + 1
      <3>1. pw[i] = Piece(i, w[i], port) /\ w[i] = x /\ a[i] = c
        BY <1>2, <1>6, <1>8, <2>2
      <3> QED
        BY <1>3, <2>2, <3>1
    <2> QED
      BY <1>2, <1>6, <2>1, <2>2
  <1>10. pw = a
    <2>1. Len(pw) = Len(a)
      BY <1>2, <1>6, <1>8
    <2> QED
      BY <1>9, <2>1, SeqEqual
  <1>11. Url!FlattenSeq(a) = Url!FlattenSeq(pv) \o c
    BY <1>7, FlattenAppend, SameFlattenSeq DEF UrlTexts
  <1>12. Url!FlattenSeq(pv) \in UrlTexts
    BY FlattenType, SameFlattenSeq DEF UrlTexts
  <1> QED
    BY <1>1, <1>3, <1>4, <1>5, <1>10, <1>11, <1>12, HostPartIsPieces

\* The hosts v as they stand in the text p.
Listed(v, p, port) ==
    /\ p \in UrlTexts /\ ~Holds(p, "/") /\ ~Holds(p, "@")
    /\ IsFiniteSet(Url!Places(Comma, p))
    /\ Cardinality(Url!Places(Comma, p)) = IF Len(v) = 0 THEN 0 ELSE Len(v) - 1
    /\ port # "0" =>
         \A i \in 1 .. Len(v) : \E j \in Nat \ {0} : HostAt(p, j, v[i], port)

\* One host more: its comma is the only new one,
LEMMA CommasAppend ==
  ASSUME NEW p \in UrlTexts, NEW i \in Nat \ {0}, NEW h, NEW port,
         NEW c, IsPiece(c, i, h, port), IsFiniteSet(Url!Places(Comma, p))
  PROVE  /\ IsFiniteSet(Url!Places(Comma, p \o c))
         /\ Cardinality(Url!Places(Comma, p \o c))
              = Cardinality(Url!Places(Comma, p)) + (IF i = 1 THEN 0 ELSE 1)
  <1>1. /\ c \in UrlTexts /\ \A k \in 1 .. Len(c) : c[k] = Comma => k = 1 /\ i # 1
        /\ i # 1 => Len(c) >= 1 /\ c[1] = Comma
    BY DEF IsPiece
  <1>2. PICK t \in UrlTexts : t = p \o c
    BY <1>1, UrlJoined
  <1>3. /\ Len(t) = Len(p) + Len(c) /\ Len(p) \in Nat /\ Len(c) \in Nat
        /\ \A k \in 1 .. Len(t) : t[k] = IF k <= Len(p) THEN p[k] ELSE c[k - Len(p)]
    BY <1>1, <1>2, UrlJoined
  <1>4. PICK P : P = Url!Places(Comma, p)
    OBVIOUS
  <1>5. PICK Q : Q = Url!Places(Comma, t)
    OBVIOUS
  <1>6. \A k : k \in P <=> k \in 1 .. Len(p) /\ p[k] = Comma
    BY <1>4, PlacesHeld
  <1>7. \A k : k \in Q <=> k \in 1 .. Len(t) /\ t[k] = Comma
    BY <1>5, PlacesHeld
  <1>8. ASSUME NEW k PROVE k \in Q <=> k \in P \/ (i # 1 /\ k = Len(p) + 1)
    <2>1. CASE k \in 1 .. Len(p)
      <3>1. k \in 1 .. Len(t) /\ t[k] = p[k] /\ k # Len(p) + 1
        BY <1>3, <2>1
      <3> QED
        BY <1>6, <1>7, <2>1, <3>1
    <2>2. CASE k \in 1 .. Len(t) /\ ~(k \in 1 .. Len(p))
      <3>1. k - Len(p) \in 1 .. Len(c) /\ t[k] = c[k - Len(p)]
        BY <1>3, <2>2
      <3>2. k \in Q <=> c[k - Len(p)] = Comma
        BY <1>7, <2>2, <3>1
      <3>3. c[k - Len(p)] = Comma <=> i # 1 /\ k - Len(p) = 1
        BY <1>1, <3>1
      <3>4. k - Len(p) = 1 <=> k = Len(p) + 1
        BY <1>3, <2>2
      <3> QED
        BY <1>6, <2>2, <3>2, <3>3, <3>4
    <2>3. CASE ~(k \in 1 .. Len(t))
      <3>1. ~(k \in 1 .. Len(p))
        BY <1>3, <2>3
      <3>2. ~(i # 1 /\ k = Len(p) + 1)
        BY <1>1, <1>3, <2>3
      <3> QED
        BY <1>6, <1>7, <2>3, <3>1, <3>2
    <2> QED
      BY <2>1, <2>2, <2>3
  <1>9. CASE i = 1
    <2>1. Q = P
      BY <1>8, <1>9
    <2>2. Cardinality(P) \in Nat
      BY <1>4, FS_CardinalityType
    <2> QED
      BY <1>2, <1>4, <1>5, <1>9, <2>1, <2>2
  <1>10. CASE i # 1
    <2>1. Q = P \cup {Len(p) + 1}
      BY <1>8, <1>10
    <2>2. Len(p) + 1 \notin P
      BY <1>3, <1>6
    <2>3. IsFiniteSet(Q) /\ Cardinality(Q) = Cardinality(P) + 1
      BY <1>4, <2>1, <2>2, FS_AddElement
    <2> QED
      BY <1>2, <1>4, <1>5, <1>10, <2>3
  <1> QED
    BY <1>9, <1>10

\* the hosts before it stay where they are, and it comes behind them.
LEMMA HostsAppend ==
  ASSUME NEW p \in UrlTexts, NEW i, NEW h, NEW port, NEW c, IsPiece(c, i, h, port)
  PROVE  /\ \A other : \A j \in Nat \ {0} :
              HostAt(p, j, other, port) => HostAt(p \o c, j, other, port)
         /\ port # "0" => \E j \in Nat \ {0} : HostAt(p \o c, j, h, port)
  <1>1. /\ c \in UrlTexts
        /\ port # "0" => HostAt(c, Commas(i) + 1, h, port)
    BY DEF IsPiece
  <1>2. PICK t \in UrlTexts : t = p \o c
    BY <1>1, UrlJoined
  <1>3. /\ Len(t) = Len(p) + Len(c) /\ Len(p) \in Nat /\ Len(c) \in Nat
        /\ \A k \in 1 .. Len(t) : t[k] = IF k <= Len(p) THEN p[k] ELSE c[k - Len(p)]
    BY <1>1, <1>2, UrlJoined
  <1>4. ASSUME NEW j \in Nat \ {0}, NEW other, HostAt(p, j, other, port)
        PROVE  HostAt(t, j, other, port)
    <2>1. j + 2 <= Len(p) /\ p[j] = other /\ p[j + 1] = Colon /\ p[j + 2] = port
      BY <1>4 DEF HostAt
    <2>2. \A k \in 1 .. Len(p) : t[k] = p[k]
      BY <1>3
    <2>3. j \in 1 .. Len(p) /\ j + 1 \in 1 .. Len(p) /\ j + 2 \in 1 .. Len(p) /\ j + 2 <= Len(t)
      BY <1>3, <2>1
    <2> QED
      BY <2>1, <2>2, <2>3 DEF HostAt
  <1>5. ASSUME port # "0" PROVE \E j \in Nat \ {0} : HostAt(t, j, h, port)
    <2>1. PICK j \in Nat \ {0} : j = Commas(i) + 1
      BY DEF Commas
    <2>2. j + 2 <= Len(c) /\ c[j] = h /\ c[j + 1] = Colon /\ c[j + 2] = port
      BY <1>1, <1>5, <2>1 DEF HostAt
    <2>3. \A k \in 1 .. Len(c) : t[Len(p) + k] = c[k]
      <3> SUFFICES ASSUME NEW k \in 1 .. Len(c) PROVE t[Len(p) + k] = c[k]
        OBVIOUS
      <3>1. Len(p) + k \in 1 .. Len(t) /\ ~(Len(p) + k <= Len(p)) /\ Len(p) + k - Len(p) = k
        BY <1>3
      <3> QED
        BY <1>3, <3>1
    <2>4. PICK m \in Nat \ {0} : m = Len(p) + j
      BY <1>3
    <2>5. /\ t[Len(p) + j] = c[j] /\ t[Len(p) + (j + 1)] = c[j + 1]
          /\ t[Len(p) + (j + 2)] = c[j + 2]
      <3>1. j \in 1 .. Len(c) /\ j + 1 \in 1 .. Len(c) /\ j + 2 \in 1 .. Len(c)
        BY <1>3, <2>2
      <3> QED
        BY <2>3, <3>1
    <2>6. m + 2 <= Len(t) /\ m + 1 = Len(p) + (j + 1) /\ m + 2 = Len(p) + (j + 2)
      BY <1>3, <2>2, <2>4
    <2>7. HostAt(t, m, h, port)
      BY <2>2, <2>4, <2>5, <2>6 DEF HostAt
    <2> QED
      BY <2>7
  <1> QED
    BY <1>2, <1>4, <1>5

\* By induction along the list: every host stands in it with its port, and there
\* is a comma between two of them.
LEMMA HostsWritten ==
  ASSUME NEW port \in Ports
  PROVE  \A v \in Seq(HostNames) : Listed(v, Url!HostPart(v, port), port)
  <1> DEFINE S == {v \in Seq(HostNames) : Listed(v, Url!HostPart(v, port), port)}
  <1>1. <<>> \in S
    <2>1. Pieces(<<>>, port) = <<>> /\ <<>> \in Seq(HostNames) /\ <<>> \in UrlTexts /\ Len(<<>>) = 0
      BY DEF Pieces, UrlTexts
    <2>2. Url!HostPart(<<>>, port) = <<>>
      BY <2>1, HostPartIsPieces, FlattenEmpty, SameFlattenSeq
    <2>3. ~Holds(<<>>, "/") /\ ~Holds(<<>>, "@")
      BY DEF Holds
    <2>4. Url!Places(Comma, <<>>) = {}
      BY DEF Url!Places
    <2>5. IsFiniteSet(Url!Places(Comma, <<>>)) /\ Cardinality(Url!Places(Comma, <<>>)) = 0
      BY <2>4, FS_EmptySet
    <2>6. 1 .. 0 = {}
      OBVIOUS
    <2>7. Listed(<<>>, <<>>, port)
      BY <2>1, <2>3, <2>5, <2>6 DEF Listed
    <2> QED
      BY <2>1, <2>2, <2>7
  <1>2. ASSUME NEW v \in Seq(HostNames), NEW x \in HostNames, v \in S
        PROVE  Append(v, x) \in S
    <2>1. PICK w \in Seq(HostNames) : w = Append(v, x)
      BY AppendProperties
    <2>2. /\ Len(w) = Len(v) + 1 /\ Len(v) \in Nat /\ \A i \in 1 .. Len(v) : w[i] = v[i]
          /\ w[Len(v) + 1] = x
      BY <2>1, AppendProperties
    <2>3. PICK p \in UrlTexts : p = Url!HostPart(v, port)
      BY HostPartAppend
    <2>4. Listed(v, p, port)
      BY <1>2, <2>3
    <2>5. PICK i \in Nat \ {0} : i = Len(v) + 1
      BY <2>2
    <2>6. PICK c \in UrlTexts : c = Piece(i, x, port) /\ IsPiece(c, i, x, port)
      BY PieceFacts DEF IsPiece
    <2>7. PICK t \in UrlTexts : t = p \o c
      BY UrlJoined
    <2>8. Url!HostPart(w, port) = t
      BY <2>1, <2>3, <2>5, <2>6, <2>7, HostPartAppend
    <2>9. ~Holds(t, "/") /\ ~Holds(t, "@")
      <3>1. ~Holds(c, "/") /\ ~Holds(c, "@")
        BY <2>6 DEF IsPiece, Holds
      <3>2. ~Holds(p, "/") /\ ~Holds(p, "@")
        BY <2>4 DEF Listed
      <3> QED
        BY <2>7, <3>1, <3>2, HoldsJoined
    <2>10. /\ IsFiniteSet(Url!Places(Comma, t))
           /\ Cardinality(Url!Places(Comma, t)) = IF Len(w) = 0 THEN 0 ELSE Len(w) - 1
      <3>1. /\ IsFiniteSet(Url!Places(Comma, p))
            /\ Cardinality(Url!Places(Comma, p)) = IF Len(v) = 0 THEN 0 ELSE Len(v) - 1
        BY <2>4 DEF Listed
      <3>2. /\ IsFiniteSet(Url!Places(Comma, t))
            /\ Cardinality(Url!Places(Comma, t))
                 = Cardinality(Url!Places(Comma, p)) + (IF i = 1 THEN 0 ELSE 1)
        <4>1. IsFiniteSet(Url!Places(Comma, p)) /\ IsPiece(c, i, x, port)
          BY <2>6, <3>1
        <4>2. /\ IsFiniteSet(Url!Places(Comma, p \o c))
              /\ Cardinality(Url!Places(Comma, p \o c))
                   = Cardinality(Url!Places(Comma, p)) + (IF i = 1 THEN 0 ELSE 1)
          BY <4>1, CommasAppend
        <4> QED
          BY <2>7, <4>2
      <3>3. PICK n, m : n = Cardinality(Url!Places(Comma, p)) /\ m = Cardinality(Url!Places(Comma, t))
        OBVIOUS
      <3>4. m = IF Len(w) = 0 THEN 0 ELSE Len(w) - 1
        <4>1. n = IF Len(v) = 0 THEN 0 ELSE Len(v) - 1
          BY <3>1, <3>3
        <4>2. m = n + (IF i = 1 THEN 0 ELSE 1)
          BY <3>2, <3>3
        <4>3. PICK k \in Nat : k = Len(v) /\ Len(w) = k + 1
          BY <2>2
        <4>4. CASE k = 0
          BY <2>5, <4>1, <4>2, <4>3, <4>4
        <4>5. CASE k # 0
          <5>1. n = k - 1 /\ i # 1
            BY <2>5, <4>1, <4>3, <4>5
          <5> QED
            BY <4>2, <4>3, <5>1
        <4> QED
          BY <4>4, <4>5
      <3> QED
        BY <3>2, <3>3, <3>4
    <2>11. ASSUME port # "0", NEW k \in 1 .. Len(w)
           PROVE  \E j \in Nat \ {0} : HostAt(t, j, w[k], port)
      <3>1. CASE k \in 1 .. Len(v)
        <4>1. PICK j \in Nat \ {0} : HostAt(p, j, v[k], port)
          BY <2>4, <2>11, <3>1 DEF Listed
        <4>2. HostAt(t, j, v[k], port)
          BY <2>6, <2>7, <4>1, HostsAppend
        <4>3. v[k] = w[k]
          BY <2>2, <3>1
        <4> QED
          BY <4>2, <4>3
      <3>2. CASE k = Len(v) + 1
        <4>1. w[k] = x
          BY <2>2, <3>2
        <4>2. \E j \in Nat \ {0} : HostAt(t, j, x, port)
          BY <2>6, <2>7, <2>11, HostsAppend
        <4> QED
          BY <4>1, <4>2
      <3> QED
        BY <2>2, <3>1, <3>2
    <2>12. Listed(w, t, port)
      BY <2>9, <2>10, <2>11 DEF Listed
    <2> QED
      BY <2>1, <2>8, <2>12
  <1> HIDE DEF S
  <1>3. \A v \in Seq(HostNames) : v \in S
    BY <1>1, <1>2, SeqInduction
  <1> QED
    BY <1>3 DEF S

\* The URL, with the text of its hosts: the scheme, and the rest in parts.
LEMMA UrlShape ==
  ASSUME NEW c
  PROVE  Url!String(c) = <<Scheme>> \o Url!QueryEscape(c.user) \o <<Colon>>
                           \o Url!QueryEscape(c.password) \o <<"@">>
                           \o Url!HostPart(c.host, c.port) \o <<"/", Database>>
  BY Zenon DEF Url!String, Scheme, Database, Colon

\* The parts of a URL one behind the other, and as Parse takes them apart.
Row(u, p, h) == <<Scheme>> \o u \o <<Colon>> \o p \o <<"@">> \o h \o (<<"/">> \o <<Database>>)
Nested(u, p, h) == <<Scheme>> \o (((u \o (<<Colon>> \o p)) \o (<<"@">> \o h)) \o (<<"/">> \o <<Database>>))

\* How the parts of the URL are put together does not matter.
LEMMA Regrouped ==
  ASSUME NEW u \in UrlTexts, NEW p \in UrlTexts, NEW h \in UrlTexts
  PROVE  Row(u, p, h) = Nested(u, p, h)
  <1> DEFINE J(x, y) == x \o y
  <1>1. \A x, y \in UrlTexts : J(x, y) \in UrlTexts
    BY ConcatProperties DEF UrlTexts
  <1>2. \A x, y, z \in UrlTexts : J(J(x, y), z) = J(x, J(y, z))
    <2> SUFFICES ASSUME NEW x \in UrlTexts, NEW y \in UrlTexts, NEW z \in UrlTexts
                 PROVE  (x \o y) \o z = x \o (y \o z)
      BY DEF J
    <2>1. x \in Seq(Tokens) /\ y \in Seq(Tokens) /\ z \in Seq(Tokens)
      BY DEF UrlTexts
    <2> QED
      BY <2>1, ConcatAssociative
  <1> HIDE DEF J
  <1>0. PICK S, C, A, B, D :
          S = <<Scheme>> /\ C = <<Colon>> /\ A = <<"@">> /\ B = <<"/">> /\ D = <<Database>>
    OBVIOUS
  <1>10. S \in UrlTexts /\ C \in UrlTexts /\ A \in UrlTexts /\ B \in UrlTexts /\ D \in UrlTexts
    BY <1>0, TokenFacts, CommaFacts, OneElement, Zenon DEF UrlTexts
  <1>11. J(B, D) \in UrlTexts
    BY <1>1, <1>10
  <1>3. J(J(S, u), C) = J(S, J(u, C)) /\ J(u, C) \in UrlTexts
    BY <1>1, <1>2, <1>10
  <1>4. J(J(J(S, u), C), p) = J(S, J(u, J(C, p))) /\ J(u, J(C, p)) \in UrlTexts
    BY <1>1, <1>2, <1>3, <1>10
  <1>5. PICK w \in UrlTexts : w = J(u, J(C, p))
    BY <1>4
  <1>6. J(J(S, w), A) = J(S, J(w, A)) /\ J(w, A) \in UrlTexts
    BY <1>1, <1>2, <1>10
  <1>7. J(J(J(S, w), A), h) = J(S, J(w, J(A, h))) /\ J(w, J(A, h)) \in UrlTexts
    BY <1>1, <1>2, <1>6, <1>10
  <1>8. J(J(S, J(w, J(A, h))), J(B, D)) = J(S, J(J(w, J(A, h)), J(B, D)))
    BY <1>2, <1>7, <1>10, <1>11
  <1>9. J(J(J(J(J(J(S, u), C), p), A), h), J(B, D)) = J(S, J(J(J(u, J(C, p)), J(A, h)), J(B, D)))
    BY <1>4, <1>5, <1>7, <1>8
  <1> QED
    BY <1>0, <1>9, Zenon DEF J, Row, Nested

\* The tail of a text behind one character is the text.
LEMMA TailIsRest ==
  ASSUME NEW x \in Tokens, NEW t \in UrlTexts
  PROVE  Tail(<<x>> \o t) = t
  <1>1. PICK s \in UrlTexts : s = <<x>> /\ Len(s) = 1
    BY OneElement DEF UrlTexts
  <1>2. PICK w \in UrlTexts : w = s \o t
    BY UrlJoined
  <1>3. /\ Len(w) = 1 + Len(t) /\ Len(t) \in Nat
        /\ \A i \in 1 .. 1 + Len(t) : w[i] = IF i <= 1 THEN s[i] ELSE t[i - 1]
    BY <1>1, <1>2, UrlJoined
  <1>4. PICK v : v = Tail(w)
    OBVIOUS
  <1>5. v \in UrlTexts /\ Len(v) = Len(t) /\ \A i \in 1 .. Len(t) : v[i] = w[i + 1]
    BY <1>3, <1>4 DEF UrlTexts
  <1>6. ASSUME NEW i \in 1 .. Len(t) PROVE v[i] = t[i]
    <2>1. i + 1 \in 1 .. 1 + Len(t) /\ ~(i + 1 <= 1) /\ i + 1 - 1 = i
      BY <1>3
    <2> QED
      BY <1>3, <1>5, <2>1
  <1> QED
    BY <1>1, <1>2, <1>4, <1>5, <1>6, SeqEqual DEF UrlTexts

\* What the driver reads: the user and the password as they were, and the hosts
\* as they were written.
LEMMA UrlRead ==
  ASSUME NEW c \in Url!Configs,
         c.user \in Seq(Letters), c.password \in Seq(Letters),
         Url!HostPart(c.host, c.port) \in UrlTexts,
         ~Holds(Url!HostPart(c.host, c.port), "/"), ~Holds(Url!HostPart(c.host, c.port), "@")
  PROVE  LET r == Url!Parse(Url!String(c))
         IN /\ r.user = Arrives(c.user) /\ r.password = Arrives(c.password)
            /\ r.hosts = Url!HostPart(c.host, c.port)
  <1>1. PICK u, p, h : /\ u = Url!QueryEscape(c.user) /\ p = Url!QueryEscape(c.password)
                       /\ h = Url!HostPart(c.host, c.port)
    OBVIOUS
  <1>2. /\ u \in UrlTexts /\ Url!Escaped(u) /\ Url!Unescape(u) = Arrives(c.user)
        /\ ~Holds(u, "/") /\ ~Holds(u, "@") /\ ~Holds(u, Colon)
    BY <1>1, WordsSurvive, Zenon DEF Survives, Colon
  <1>3. /\ p \in UrlTexts /\ Url!Escaped(p) /\ Url!Unescape(p) = Arrives(c.password)
        /\ ~Holds(p, "/") /\ ~Holds(p, "@")
    BY <1>1, WordsSurvive, Zenon DEF Survives
  <1>4. h \in UrlTexts /\ ~Holds(h, "/") /\ ~Holds(h, "@")
    BY <1>1
  <1>5. /\ Scheme \in Tokens /\ "@" \in Tokens /\ "/" \in Tokens /\ Database \in Tokens
        /\ Colon \in Tokens /\ Colon # "/" /\ Colon # "@"
    BY TokenFacts, CommaFacts
  <1>6. /\ <<Scheme>> \in UrlTexts /\ <<Colon>> \in UrlTexts /\ <<"@">> \in UrlTexts
        /\ <<"/">> \in UrlTexts /\ <<Database>> \in UrlTexts
    BY <1>5, OneElement DEF UrlTexts
  <1>7. <<"/", Database>> = <<"/">> \o <<Database>>
    BY <1>5, OneAndOne
  <1>8. PICK login : login = u \o (<<Colon>> \o p)
    OBVIOUS
  <1>9. PICK authority : authority = login \o (<<"@">> \o h)
    OBVIOUS
  <1>10. PICK rest : rest = authority \o (<<"/">> \o <<Database>>)
    OBVIOUS
  <1>11. login \in UrlTexts /\ authority \in UrlTexts /\ rest \in UrlTexts
    <2>1. <<Colon>> \o p \in UrlTexts /\ <<"@">> \o h \in UrlTexts /\ <<"/">> \o <<Database>> \in UrlTexts
      BY <1>3, <1>4, <1>6, UrlJoined
    <2>2. login \in UrlTexts
      BY <1>2, <1>8, <2>1, UrlJoined
    <2>3. authority \in UrlTexts
      BY <1>9, <2>1, <2>2, UrlJoined
    <2> QED
      BY <1>10, <2>1, <2>2, <2>3, UrlJoined
  <1>12. Url!String(c) = <<Scheme>> \o rest
    <2>1. Url!String(c) = <<Scheme>> \o u \o <<Colon>> \o p \o <<"@">> \o h \o (<<"/">> \o <<Database>>)
      BY <1>1, <1>7, UrlShape, Zenon
    <2>2. <<Scheme>> \o u \o <<Colon>> \o p \o <<"@">> \o h \o (<<"/">> \o <<Database>>)
            = <<Scheme>> \o (((u \o (<<Colon>> \o p)) \o (<<"@">> \o h)) \o (<<"/">> \o <<Database>>))
      <3>1. Row(u, p, h) = Nested(u, p, h)
        BY <1>2, <1>3, <1>4, Regrouped
      <3> QED
        BY <3>1, Zenon DEF Row, Nested
    <2> QED
      BY <1>8, <1>9, <1>10, <2>1, <2>2, Zenon
  <1>13. Tail(<<Scheme>> \o rest) = rest
    BY <1>5, <1>11, TailIsRest
  <1>14. ~Holds(authority, "/") /\ ~Holds(login, "@") /\ ~Holds(login, "/")
    <2>1. ~Holds(<<Colon>>, "/") /\ ~Holds(<<Colon>>, "@") /\ ~Holds(<<"@">>, "/")
      BY <1>5, HoldsOne
    <2>2. /\ <<Colon>> \o p \in UrlTexts /\ <<"@">> \o h \in UrlTexts
          /\ ~Holds(<<Colon>> \o p, "/") /\ ~Holds(<<Colon>> \o p, "@") /\ ~Holds(<<"@">> \o h, "/")
      BY <1>3, <1>4, <1>6, <2>1, HoldsJoined, UrlJoined
    <2>3. ~Holds(login, "@") /\ ~Holds(login, "/")
      BY <1>2, <1>8, <2>2, HoldsJoined
    <2> QED
      BY <1>9, <1>11, <2>2, <2>3, HoldsJoined
  <1>15. Url!Cut(rest, "/") = [before |-> authority, after |-> <<Database>>]
    BY <1>5, <1>6, <1>10, <1>11, <1>14, CutThere
  <1>16. PICK at : at = Url!Places("@", authority)
    OBVIOUS
  <1>17. at # {} /\ Url!Before(authority, Url!Max(at)) = login /\ Url!After(authority, Url!Max(at)) = h
    BY <1>4, <1>5, <1>9, <1>11, <1>16, LastThere
  <1>18. Url!Cut(login, Colon) = [before |-> u, after |-> p]
    BY <1>2, <1>3, <1>5, <1>8, CutThere
  <1>19. Url!Parse(<<Scheme>> \o rest) =
           [user |-> Url!Unescape(u), password |-> Url!Unescape(p), hosts |-> h]
    <2>1. Url!Cut(Tail(<<Scheme>> \o rest), "/").before = authority
      <3>1. PICK t : t = Tail(<<Scheme>> \o rest)
        OBVIOUS
      <3>2. t = rest
        BY <1>13, <3>1
      <3>3. Url!Cut(t, "/").before = authority
        BY <1>15, <3>2
      <3> QED
        BY <3>1, <3>3
    <2>2. Url!Cut(login, Colon).before = u /\ Url!Cut(login, Colon).after = p
      BY <1>18
    <2>3. /\ Url!Cut(Url!Before(authority, Url!Max(at)), ":").before = u
          /\ Url!Cut(Url!Before(authority, Url!Max(at)), ":").after = p
      BY <1>17, <2>2, Zenon DEF Colon
    <2> QED
      BY <1>2, <1>3, <1>16, <1>17, <2>1, <2>2, <2>3, Zenon DEF Url!Parse
  <1> QED
    BY <1>1, <1>2, <1>3, <1>12, <1>19

\* The configurations have words and hosts in them.
LEMMA ConfigFacts ==
  ASSUME NEW c \in Url!Configs
  PROVE  /\ c.user \in Seq(Letters) /\ c.password \in Seq(Letters)
         /\ c.host \in Seq(HostNames) /\ c.host # <<>> /\ c.port \in Ports
  <1>1. /\ c.user \in Url!Words(1) /\ c.password \in Url!Words(MaxPassword) /\ c.port \in Ports
        /\ c.host \in UNION {[1 .. m -> HostNames] : m \in 1 .. MaxHosts}
    BY DEF Url!Configs
  <1>2. ASSUME NEW n \in Nat, NEW w \in Url!Words(n) PROVE w \in Seq(Letters)
    <2>1. PICK m \in 0 .. n : w \in [1 .. m -> Letters]
      BY DEF Url!Words
    <2> QED
      BY <2>1
  <1>3. PICK m \in 1 .. MaxHosts : c.host \in [1 .. m -> HostNames]
    BY <1>1
  <1>4. c.host \in Seq(HostNames) /\ c.host # <<>>
    <2>1. PICK h : h = c.host
      OBVIOUS
    <2>2. m \in Nat /\ m >= 1
      <3>1. MaxHosts \in Nat
        BY SettingsAssumption, Zenon
      <3> QED
        BY <1>3, <3>1
    <2>3. h \in [1 .. m -> HostNames]
      BY <1>3, <2>1
    <2>4. h \in Seq(HostNames) /\ Len(h) = m
      BY <2>2, <2>3
    <2> QED
      BY <2>1, <2>2, <2>4
  <1>5. MaxPassword \in Nat
    BY SettingsAssumption, Zenon
  <1> QED
    BY <1>1, <1>2, <1>4, <1>5

\* A host with its port is found at its place.
LEMMA HostFound ==
  ASSUME NEW p \in UrlTexts, NEW j \in Nat \ {0}, NEW h, NEW port, HostAt(p, j, h, port)
  PROVE  j \in 1 .. Len(p) - 2 /\ SubSeq(p, j, j + 2) = <<h, ":", port>>
  <1>1. /\ j + 2 <= Len(p) /\ p[j] = h /\ p[j + 1] = Colon /\ p[j + 2] = port
        /\ Len(p) \in Nat
    BY DEF HostAt, UrlTexts
  <1>2. PICK s : s = SubSeq(p, j, j + 2)
    OBVIOUS
  <1>3. /\ s \in UrlTexts /\ Len(s) = 3
        /\ \A i \in 1 .. 3 : s[i] = p[j + i - 1]
    BY <1>1, <1>2 DEF UrlTexts
  <1>4. s[1] = h /\ s[2] = Colon /\ s[3] = port
    <2>1. j + 1 - 1 = j /\ j + 2 - 1 = j + 1 /\ j + 3 - 1 = j + 2
      OBVIOUS
    <2>2. 1 \in 1 .. 3 /\ 2 \in 1 .. 3 /\ 3 \in 1 .. 3
      OBVIOUS
    <2> QED
      BY <1>1, <1>3, <2>1, <2>2
  <1>5. PICK t : t = <<h, Colon, port>>
    OBVIOUS
  <1>6. s = t
    <2>1. s = [i \in 1 .. 3 |-> s[i]]
      BY <1>3 DEF UrlTexts
    <2>2. t = [i \in 1 .. 3 |-> t[i]] /\ t[1] = h /\ t[2] = Colon /\ t[3] = port
      BY <1>5
    <2>3. ASSUME NEW i \in 1 .. 3 PROVE s[i] = t[i]
      <3>1. i = 1 \/ i = 2 \/ i = 3
        OBVIOUS
      <3> QED
        BY <1>4, <2>2, <3>1
    <2> QED
      BY <2>1, <2>2, <2>3
  <1>7. j \in 1 .. Len(p) - 2
    BY <1>1
  <1> QED
    BY <1>2, <1>5, <1>6, <1>7, Zenon DEF Colon

\* What is read is what is configured.
LEMMA SettingsRead == Url!SettingsInv => Url!SettingsSurvive
  <1> SUFFICES ASSUME Url!SettingsInv, text # <<>>
               PROVE  /\ \A field \in {"user", "password"} :
                           Url!Places(" ", config[field]) = {} => read[field] = config[field]
                      /\ Url!Cardinality(Url!Places(",", read.hosts)) = Len(config.host) - 1
                      /\ config.port # "0" =>
                           \A i \in DOMAIN config.host :
                             \E j \in 1 .. Len(read.hosts) - 2 :
                               SubSeq(read.hosts, j, j + 2) = <<config.host[i], ":", config.port>>
    BY Zenon DEF Url!SettingsSurvive
  <1>1. config \in Url!Configs /\ read = Url!Parse(Url!String(config))
    BY DEF Url!SettingsInv
  <1>2. /\ config.user \in Seq(Letters) /\ config.password \in Seq(Letters)
        /\ config.host \in Seq(HostNames) /\ config.host # <<>> /\ config.port \in Ports
    BY <1>1, ConfigFacts
  <1>3. PICK p : p = Url!HostPart(config.host, config.port)
    OBVIOUS
  <1>4. Listed(config.host, p, config.port)
    BY <1>2, <1>3, HostsWritten
  <1>5. p \in UrlTexts /\ ~Holds(p, "/") /\ ~Holds(p, "@")
    BY <1>4 DEF Listed
  <1>6. /\ read.user = Arrives(config.user)
        /\ read.password = Arrives(config.password)
        /\ read.hosts = p
    <2>1. PICK c \in Url!Configs : c = config
      BY <1>1
    <2>2. /\ c.user \in Seq(Letters) /\ c.password \in Seq(Letters)
          /\ Url!HostPart(c.host, c.port) = p
      BY <1>2, <1>3, <2>1
    <2>3. LET r == Url!Parse(Url!String(c))
          IN r.user = Arrives(c.user) /\ r.password = Arrives(c.password) /\ r.hosts = p
      BY <1>5, <2>2, UrlRead
    <2> QED
      BY <1>1, <2>1, <2>3
  <1>7. Url!Cardinality(Url!Places(",", read.hosts)) = Len(config.host) - 1
    <2>1. Len(config.host) # 0
      BY <1>2
    <2>2. Cardinality(Url!Places(Comma, p)) = Len(config.host) - 1
      BY <1>4, <2>1 DEF Listed
    <2> QED
      BY <1>6, <2>2, SameCardinality, Zenon DEF Comma
  <1>8. ASSUME config.port # "0", NEW i \in DOMAIN config.host
        PROVE  \E j \in 1 .. Len(read.hosts) - 2 :
                 SubSeq(read.hosts, j, j + 2) = <<config.host[i], ":", config.port>>
    <2>1. i \in 1 .. Len(config.host)
      BY <1>2, <1>8
    <2>2. PICK j \in Nat \ {0} : HostAt(p, j, config.host[i], config.port)
      BY <1>4, <1>8, <2>1 DEF Listed
    <2>3. j \in 1 .. Len(p) - 2 /\ SubSeq(p, j, j + 2) = <<config.host[i], ":", config.port>>
      BY <1>5, <2>2, HostFound
    <2> QED
      BY <1>6, <2>3
  <1>9. ASSUME NEW field \in {"user", "password"}, Url!Places(" ", config[field]) = {}
        PROVE  read[field] = config[field]
    <2>1. config[field] \in Seq(Letters) /\ read[field] = Arrives(config[field])
      BY <1>2, <1>6
    <2>2. PICK w \in Seq(Letters) : w = config[field]
      BY <2>1
    <2>3. Arrives(w) = w
      BY <1>9, <2>2, WithoutSpace, Zenon
    <2> QED
      BY <2>1, <2>2, <2>3
  <1> QED
    BY <1>7, <1>8, <1>9, Zenon

\* Opening the connection reads the URL of this configuration;
LEMMA SettingsStep == Url!SettingsInv /\ Url!Open => Url!SettingsInv'
  BY DEF Url!SettingsInv, Url!Open

\* nothing has been read at first.
LEMMA SettingsInit == Url!Init => Url!SettingsInv
  BY DEF Url!Init, Url!SettingsInv

-----------------------------------------------------------------------------
(* The composition *)

\* All parts together, at first
LEMMA InitKeeps == Init => KeyspacesInv
  BY EtcdInit, PostgresInit, MemoryInit, SettingsInit DEF Init, KeyspacesInv

\* and at every step.
LEMMA StepKeeps ==
  ASSUME KeyspacesInv, [Next]_vars
  PROVE  KeyspacesInv'
  <1>0. /\ Etcd!KeysInv /\ Postgres!TablesInv /\ Memory!StoreInv
        /\ part = "url" => Url!SettingsInv
    BY DEF KeyspacesInv
  <1>1. ASSUME UNCHANGED etcdVars PROVE Etcd!KeysInv'
    BY <1>0, <1>1 DEF etcdVars, Etcd!KeysInv
  <1>2. ASSUME UNCHANGED postgresVars PROVE Postgres!TablesInv'
    BY <1>0, <1>2 DEF postgresVars, Postgres!TablesInv, Postgres!Holds
  <1>3. ASSUME UNCHANGED memoryVars PROVE Memory!StoreInv'
    BY <1>0, <1>3 DEF memoryVars, Memory!StoreInv, Memory!Lookup, Memory!key
  <1>4. Etcd!KeysInv' /\ Postgres!TablesInv' /\ Memory!StoreInv'
    BY <1>0, <1>1, <1>2, <1>3, EtcdStep, PostgresStep, MemoryStep DEF Next, vars
  <1>5. ASSUME UNCHANGED urlVars, Url!SettingsInv PROVE Url!SettingsInv'
    BY <1>5 DEF urlVars, Url!SettingsInv
  <1>6. part' = "url" => Url!SettingsInv'
    <2>1. part' = part
      BY DEF Next, vars
    <2>2. part = "url" => Url!Open \/ UNCHANGED urlVars
      BY DEF Next, vars
    <2> QED
      BY <1>0, <1>5, <2>1, <2>2, SettingsStep
  <1> QED
    BY <1>4, <1>6 DEF KeyspacesInv

\* The inductive invariant of the four parts.
LEMMA Invariance == Spec => []KeyspacesInv
  <1>1. KeyspacesInv /\ [Next]_vars => KeyspacesInv'
    BY StepKeeps
  <1> QED
    BY <1>1, InitKeeps, PTL DEF Spec

\* A Get returns what was written for this very report and this very cluster,
\* whatever else is written, of any kind and by any cluster: for any words as
\* namespaces and names, as long as none has a slash in it, and any number of
\* reports, rows and clusters.
THEOREM GetsItsOwn == Spec => []GetsOwn
  <1>1. KeyspacesInv => GetsOwn
    BY EtcdGets, PostgresGets DEF KeyspacesInv, GetsOwn
  <1> QED
    BY <1>1, Invariance, PTL

\* A List returns exactly the reports of its kind, of the namespace it names
\* and of the cluster it is for.
THEOREM ListsItsOwn == Spec => []ListsOwn
  <1>1. KeyspacesInv => ListsOwn
    BY EtcdLists, PostgresLists DEF KeyspacesInv, ListsOwn
  <1> QED
    BY <1>1, Invariance, PTL

\* The driver logs in with the configured user and the configured password, each
\* unless it has a space in it, and finds every host with its port: for words of
\* any length and otherwise any characters, and for any number of hosts.
THEOREM SettingsArrive == Spec => []SettingsSurvive
  <1>1. KeyspacesInv => SettingsSurvive
    BY SettingsRead DEF KeyspacesInv, SettingsSurvive
  <1> QED
    BY <1>1, Invariance, PTL

\* A step of the in-memory store is one of the interface, or none.
LEMMA MemoryRefines ==
  ASSUME KeyspacesInv, [Next]_vars
  PROVE  [Memory!Abstract!Next]_(Memory!Abstract!vars)
  <1>0. Memory!StoreInv
    BY DEF KeyspacesInv
  <1>1. ASSUME UNCHANGED memoryVars PROVE UNCHANGED Memory!Abstract!vars
    <2>1. storage' = storage /\ thread' = thread
      BY <1>1 DEF memoryVars
    <2>2. Db' = Db
      BY <2>1, SameDb
    <2>3. Calls' = Calls
      BY <2>1 DEF Calls, Memory!Promise
    <2> QED
      BY <2>2, <2>3 DEF Memory!Abstract!vars, Calls, Db
  <1>2. CASE Memory!Next
    BY <1>0, <1>2, MemoryStep
  <1>3. CASE UNCHANGED memoryVars
    BY <1>1, <1>3
  <1> QED
    BY <1>2, <1>3 DEF Next, vars

\* The in-memory backend, with its one mutex and its text keys, implements the
\* storage interface: for any callers and any words as namespaces and names,
\* each method behaves as if it happened at one moment.
THEOREM MemoryImplements == Spec => MemoryKeepsPromise
  <1>1. KeyspacesInv /\ [Next]_vars => [Memory!Abstract!Next]_(Memory!Abstract!vars)
    BY MemoryRefines
  <1>2. Init => Memory!Abstract!Init
    BY MemoryInit DEF Init
  <1>3. Spec => Memory!Abstract!Spec
    BY <1>1, <1>2, Invariance, PTL DEF Spec, Memory!Abstract!Spec
  <1> QED
    BY <1>3 DEF MemoryKeepsPromise, Memory!KeepsPromise

=============================================================================
