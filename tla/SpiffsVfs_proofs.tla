-------------------------- MODULE SpiffsVfs_proofs --------------------------
(***************************************************************************)
(* Theorems about SpiffsVfs, for any number of files, descriptors and cache*)
(* pages: what a write page says of the file and the descriptors around it.*)
(* Clients do not remove or truncate a file others have open or have bytes *)
(* buffered of; without that the theorems are false.                       *)
(***************************************************************************)
EXTENDS SpiffsVfs, NatFacts, FiniteSetTheorems

-----------------------------------------------------------------------------
(* Bytes laid over bytes *)

\* The larger of two numbers is one of them.
LEMMA LargerNat ==
  ASSUME NEW a \in Int, NEW b \in Int
  PROVE  Larger(a, b) \in Int /\ Larger(a, b) >= a /\ Larger(a, b) >= b
         /\ Larger(a, b) \in {a, b}
BY DEF Larger

\* A function of the numbers up to n is a sequence of length n.
LEMMA IsSequence ==
  ASSUME NEW V, NEW n \in Nat, NEW f \in [1..n -> V]
  PROVE  f \in Seq(V) /\ Len(f) = n
OBVIOUS

\* Sequences of the same length with the same elements are the same.
LEMMA SameSequence ==
  ASSUME NEW V, NEW s \in Seq(V), NEW t \in Seq(V), Len(s) = Len(t),
         \A i \in 1..Len(s) : s[i] = t[i]
  PROVE  s = t
OBVIOUS

\* y is old with new laid over it at the position at.
IsSplice(y, old, at, new) ==
  /\ Len(y) = Larger(Len(old), at + Len(new))
  /\ \A i \in 1..Len(y) :
       y[i] = IF i \in (at + 1)..(at + Len(new)) THEN new[i - at] ELSE old[i]

\* Bytes laid over a sequence give a sequence, byte by byte the new one where they lie
\* and the old one elsewhere.
LEMMA SplicedIs ==
  ASSUME NEW V, NEW old \in Seq(V), NEW new \in Seq(V), NEW at \in 0..Len(old)
  PROVE  /\ Spliced(old, at, new) \in Seq(V)
         /\ IsSplice(Spliced(old, at, new), old, at, new)
<1> DEFINE n == Larger(Len(old), at + Len(new))
           f == [i \in 1..n |->
                   IF i \in (at + 1)..(at + Len(new)) THEN new[i - at] ELSE old[i]]
<1>1. n \in Nat /\ (n = Len(old) \/ n = at + Len(new))
  BY DEF Larger
<1>2. ASSUME NEW i \in 1..n
      PROVE  (IF i \in (at + 1)..(at + Len(new)) THEN new[i - at] ELSE old[i]) \in V
  <2>1. CASE i \in (at + 1)..(at + Len(new))
    <3>1. i - at \in 1..Len(new)
      BY <2>1
    <3> QED
      BY <2>1, <3>1
  <2>2. CASE i \notin (at + 1)..(at + Len(new))
    <3>1. i \in 1..Len(old)
      BY <1>1, <2>2
    <3> QED
      BY <2>2, <3>1
  <2> QED
    BY <2>1, <2>2
<1>3. f \in [1..n -> V]
  BY <1>2
<1>4. f = Spliced(old, at, new)
  BY DEF Spliced
<1>5. \A i \in 1..n : f[i] = IF i \in (at + 1)..(at + Len(new)) THEN new[i - at] ELSE old[i]
  OBVIOUS
<1> HIDE DEF f, n
<1>6. f \in Seq(V) /\ Len(f) = n
  BY <1>1, <1>3, IsSequence
<1> QED
  BY <1>4, <1>5, <1>6 DEF n, IsSplice

\* Writing into buffered bytes and laying them over the stored ones is laying
\* both over them, one after the other.
LEMMA SplicedInto ==
  ASSUME NEW V, NEW old \in Seq(V), NEW b \in Seq(V), NEW new \in Seq(V),
         NEW p \in 0..Len(old), NEW at \in p..(p + Len(b))
  PROVE  Spliced(old, p, Spliced(b, at - p, new)) = Spliced(Spliced(old, p, b), at, new)
<1> DEFINE m == Spliced(b, at - p, new)
           l == Spliced(old, p, b)
           x == Spliced(old, p, m)
           y == Spliced(l, at, new)
<1>1. at - p \in 0..Len(b)
  OBVIOUS
<1>2. m \in Seq(V) /\ IsSplice(m, b, at - p, new)
  BY <1>1, SplicedIs, Zenon
<1>3. l \in Seq(V) /\ IsSplice(l, old, p, b)
  BY SplicedIs
<1> HIDE DEF m, l
<1>4. at \in 0..Len(l)
  BY <1>3 DEF Larger, IsSplice
<1>5. x \in Seq(V) /\ IsSplice(x, old, p, m)
  BY <1>2, SplicedIs
<1>6. y \in Seq(V) /\ IsSplice(y, l, at, new)
  BY <1>3, <1>4, SplicedIs, Zenon
<1> HIDE DEF x, y
<1>7. Len(x) = Len(y)
  BY <1>2, <1>3, <1>5, <1>6 DEF Larger, IsSplice
<1>8. ASSUME NEW i \in 1..Len(x) PROVE x[i] = y[i]
  <2>1. CASE i \in (at + 1)..(at + Len(new))
    <3> Len(m) \in Nat /\ Len(m) >= at - p + Len(new)
      BY <1>2, LargerNat DEF IsSplice
    <3>1. i - p \in 1..Len(m) /\ i \in (p + 1)..(p + Len(m))
      BY <2>1
    <3>2. i - p \in (at - p + 1)..(at - p + Len(new)) /\ (i - p) - (at - p) = i - at
      BY <2>1
    <3>3. m[i - p] = new[i - at]
      BY <1>2, <3>1, <3>2 DEF IsSplice
    <3>4. x[i] = m[i - p]
      BY <1>5, <3>1 DEF IsSplice
    <3>5. y[i] = new[i - at]
      BY <1>6, <1>7, <2>1 DEF IsSplice
    <3> QED
      BY <3>3, <3>4, <3>5
  <2>2. CASE i \notin (at + 1)..(at + Len(new)) /\ i \in (p + 1)..(p + Len(b))
    <3> Len(m) \in Nat /\ Len(m) >= Len(b) /\ Len(l) \in Nat /\ Len(l) >= p + Len(b)
      BY <1>2, <1>3, LargerNat DEF IsSplice
    <3>1. i - p \in 1..Len(m) /\ i \in (p + 1)..(p + Len(m)) /\ i \in 1..Len(l)
      BY <2>2
    <3>2. m[i - p] = b[i - p]
      <4>1. i - p \notin (at - p + 1)..(at - p + Len(new))
        BY <2>2
      <4> QED
        BY <1>2, <3>1, <4>1 DEF IsSplice
    <3>3. l[i] = b[i - p]
      BY <1>3, <2>2, <3>1 DEF IsSplice
    <3>4. x[i] = m[i - p]
      BY <1>5, <3>1 DEF IsSplice
    <3>5. y[i] = l[i]
      BY <1>6, <1>7, <2>2 DEF IsSplice
    <3> QED
      BY <3>2, <3>3, <3>4, <3>5
  <2>3. CASE i \notin (at + 1)..(at + Len(new)) /\ i \notin (p + 1)..(p + Len(b))
    <3>1. i \notin (p + 1)..(p + Len(m))
      BY <1>2, <2>3 DEF Larger, IsSplice
    <3>2. x[i] = old[i]
      BY <1>5, <3>1 DEF IsSplice
    <3>3. i \in 1..Len(l)
      BY <1>2, <1>3, <1>5, <3>1 DEF Larger, IsSplice
    <3>4. l[i] = old[i]
      BY <1>3, <2>3, <3>3 DEF IsSplice
    <3>5. y[i] = l[i]
      BY <1>6, <1>7, <2>3 DEF IsSplice
    <3> QED
      BY <3>2, <3>4, <3>5
  <2> QED
    BY <2>1, <2>2, <2>3
<1>9. x = y
  BY <1>5, <1>6, <1>7, <1>8, SameSequence DEF IsSplice
<1> QED
  BY <1>9 DEF x, y, m, l

\* Writing the same bytes at the same place again changes nothing.
LEMMA SplicedTwice ==
  ASSUME NEW V, NEW old \in Seq(V), NEW new \in Seq(V), NEW at \in 0..Len(old)
  PROVE  Spliced(Spliced(old, at, new), at, new) = Spliced(old, at, new)
<1> DEFINE l == Spliced(old, at, new)
           y == Spliced(l, at, new)
<1>1. l \in Seq(V) /\ IsSplice(l, old, at, new)
  BY SplicedIs
<1> HIDE DEF l
<1>2. at \in 0..Len(l)
  BY <1>1 DEF Larger, IsSplice
<1>3. y \in Seq(V) /\ IsSplice(y, l, at, new)
  BY <1>1, <1>2, SplicedIs, Zenon
<1> HIDE DEF y
<1>4. Len(y) = Len(l)
  BY <1>1, <1>2, <1>3 DEF Larger, IsSplice
<1>5. \A i \in 1..Len(y) : y[i] = l[i]
  BY <1>1, <1>3, <1>4 DEF IsSplice
<1>6. y = l
  BY <1>1, <1>3, <1>4, <1>5, SameSequence DEF IsSplice
<1> QED
  BY <1>6 DEF y, l

-----------------------------------------------------------------------------
(* The invariant, of a state [objs, fds, c] as the object layer sees it *)

\* A descriptor of an empty file has the size undefined_length; one that holds no cache
\* page refers to 0.
Sizes == Nat \cup {UndefinedLen}
Refers == Cache \cup {0}
Desc == [used : BOOLEAN, obj : Nat, append : BOOLEAN, size : Sizes,
         fdoffset : Nat, cursor : Int, cache_page : Refers]
Page == [type : {"write"}, obj : Objects, offset : Nat, data : Seq(Values)]
States == [objs : [Objects -> Seq(Values)], fds : [Fds -> Desc],
           c : [Cache -> {Other} \cup Page]]

\* The page holds bytes a client wrote, which flash has not.
Written(c, i) == c[i].type = "write"

\* Seen, of a state: the stored bytes with the buffered ones laid over them.
Vis(s, o) ==
  LET i == PageOf(s.c, o)
  IN IF i = 0 THEN s.objs[o] ELSE Spliced(s.objs[o], s.c[i].offset, s.c[i].data)

\* References lead to pages of the descriptor's object; a descriptor given back
\* holds none.
Refs(s) ==
  \A f \in Fds :
    /\ ~s.fds[f].used => s.fds[f].cache_page = 0
    /\ s.fds[f].used /\ s.fds[f].cache_page # 0 =>
         /\ Written(s.c, s.fds[f].cache_page)
         /\ s.c[s.fds[f].cache_page].obj = s.fds[f].obj

\* A page of written bytes joins on to the stored ones, is the only one of its
\* object, and some descriptor in use refers to it.
Joined(s) ==
  \A i \in Cache : Written(s.c, i) => s.c[i].offset <= Len(s.objs[s.c[i].obj])
\* An object has one page at most.
Single(s) ==
  \A i, j \in Cache :
    Written(s.c, i) /\ Written(s.c, j) /\ s.c[i].obj = s.c[j].obj => i = j
\* A page of written bytes is of use to some descriptor: the last one to close has
\* written it back.
Held(s) ==
  \A i \in Cache : Written(s.c, i) =>
    \E f \in Fds : s.fds[f].used /\ s.fds[f].cache_page = i

\* Descriptors know the size of the stored file, and are within what is seen of it.
Sized(s) ==
  \A f \in Fds : s.fds[f].used =>
    s.fds[f].obj \in Objects /\ Larger(s.fds[f].size, 0) = Len(s.objs[s.fds[f].obj])
\* No offset lies beyond what a reader sees.
Inside(s) ==
  \A f \in Fds : s.fds[f].used => s.fds[f].fdoffset <= Len(Vis(s, s.fds[f].obj))

\* What holds of a state between two calls, and after each part of one.
Good(s) ==
  /\ s \in States
  /\ Refs(s) /\ Joined(s) /\ Single(s) /\ Held(s) /\ Sized(s) /\ Inside(s)

-----------------------------------------------------------------------------
(* Facts about the parts of a state *)

\* 0 is no descriptor, no cache page and no object.
LEMMA Positive == Fds \subseteq Nat \ {0} /\ Cache \subseteq Nat \ {0} /\ Objects \subseteq Nat \ {0}
BY FS_CardinalityType, VfsAssumption DEF Fds, Cache, Objects

\* The least of a set that is not empty belongs to it.
LEMMA LowestIs ==
  ASSUME NEW S \in SUBSET Nat, S # {}
  PROVE  Lowest(S) \in S
BY Least, Zenon DEF Lowest

\* The fields of a state have their types.
LEMMA Parts ==
  ASSUME NEW s \in States
  PROVE  /\ s.objs \in [Objects -> Seq(Values)]
         /\ s.fds \in [Fds -> Desc]
         /\ s.c \in [Cache -> {Other} \cup Page]
         /\ s = [objs |-> s.objs, fds |-> s.fds, c |-> s.c]
BY DEF States

\* A page is of the one kind or the other.
LEMMA Pages ==
  ASSUME NEW c \in [Cache -> {Other} \cup Page], NEW i \in Cache
  PROVE  /\ Written(c, i) => c[i] \in Page /\ c[i].obj \in Objects
                             /\ c[i].offset \in Nat /\ c[i].data \in Seq(Values)
         /\ ~Written(c, i) => c[i] = Other
         /\ Written(c, i) <=> i \notin Others(c)
<1>1. c[i] = Other \/ c[i] \in Page
  OBVIOUS
<1>2. c[i] = Other => c[i].type = "other"
  BY DEF Other
<1>3. c[i] \in Page => c[i].type = "write" /\ c[i].obj \in Objects
                       /\ c[i].offset \in Nat /\ c[i].data \in Seq(Values)
  BY DEF Page
<1>4. "write" # "other"
  OBVIOUS
<1> QED
  BY <1>1, <1>2, <1>3, <1>4, Zenon DEF Written, Others

\* The page looked up for an object is one of its pages, if there is one.
LEMMA PageOfIs ==
  ASSUME NEW c, NEW o
  PROVE  /\ PageOf(c, o) \in Cache \cup {0}
         /\ PageOf(c, o) # 0 => Written(c, PageOf(c, o)) /\ c[PageOf(c, o)].obj = o
         /\ PageOf(c, o) = 0 => \A i \in Cache : ~(Written(c, i) /\ c[i].obj = o)
<1> DEFINE S == {i \in Cache : c[i].type = "write" /\ c[i].obj = o}
<1>1. S \in SUBSET Nat /\ 0 \notin S
  BY Positive
<1>2. S # {} => Lowest(S) \in S
  BY <1>1, LowestIs, Zenon
<1>3. PageOf(c, o) = IF S = {} THEN 0 ELSE Lowest(S)
  BY Zenon DEF PageOf
<1> QED
  BY <1>1, <1>2, <1>3 DEF Written

\* An object that has a single page is given that one.
LEMMA PageOfSingle ==
  ASSUME NEW s, Single(s), NEW i \in Cache, Written(s.c, i)
  PROVE  PageOf(s.c, s.c[i].obj) = i
<1>1. PageOf(s.c, s.c[i].obj) \in Cache \cup {0}
  BY PageOfIs
<1>2. PageOf(s.c, s.c[i].obj) # 0
  BY PageOfIs
<1>3. Written(s.c, PageOf(s.c, s.c[i].obj)) /\ s.c[PageOf(s.c, s.c[i].obj)].obj = s.c[i].obj
  BY <1>2, PageOfIs
<1> QED
  BY <1>1, <1>2, <1>3, Zenon DEF Single

\* Whether an object has a page, and which, depends on its pages alone.
SamePages(c, d, o) ==
  \A i \in Cache : (Written(c, i) /\ c[i].obj = o) <=> (Written(d, i) /\ d[i].obj = o)

\* The search for a page looks at the pages of that object only.
LEMMA PageOfSame ==
  ASSUME NEW c, NEW d, NEW o, SamePages(c, d, o)
  PROVE  PageOf(c, o) = PageOf(d, o)
<1> DEFINE S(e) == {i \in Cache : e[i].type = "write" /\ e[i].obj = o}
<1>1. S(c) = S(d)
  BY DEF Written, SamePages
<1>2. \A e : PageOf(e, o) = IF S(e) = {} THEN 0 ELSE Lowest(S(e))
  BY Zenon DEF PageOf
<1> QED
  BY <1>1, <1>2, Zenon

\* What is seen of an object is its stored bytes, or those with the bytes of its page
\* over them, and never less than what is stored.
LEMMA VisType ==
  ASSUME NEW s \in States, Joined(s), NEW o \in Objects
  PROVE  /\ Vis(s, o) \in Seq(Values)
         /\ PageOf(s.c, o) = 0 => Vis(s, o) = s.objs[o]
         /\ PageOf(s.c, o) # 0 =>
              /\ PageOf(s.c, o) \in Cache
              /\ s.c[PageOf(s.c, o)].offset \in 0..Len(s.objs[o])
              /\ s.c[PageOf(s.c, o)].data \in Seq(Values)
              /\ Vis(s, o) = Spliced(s.objs[o], s.c[PageOf(s.c, o)].offset,
                                     s.c[PageOf(s.c, o)].data)
         /\ Len(Vis(s, o)) >= Len(s.objs[o])
<1> DEFINE i == PageOf(s.c, o)
<1>1. s.objs[o] \in Seq(Values)
  BY Parts
<1>2. CASE i = 0
  BY <1>1, <1>2 DEF Vis
<1>3. CASE i # 0
  <2>1. i \in Cache /\ Written(s.c, i) /\ s.c[i].obj = o
    BY <1>3, PageOfIs
  <2>2. s.c[i].offset \in Nat /\ s.c[i].data \in Seq(Values)
    BY <2>1, Parts, Pages
  <2>3. s.c[i].offset <= Len(s.objs[o])
    BY <2>1 DEF Joined
  <2>4. s.c[i].offset \in 0..Len(s.objs[o])
    BY <1>1, <2>2, <2>3
  <2>5. Vis(s, o) = Spliced(s.objs[o], s.c[i].offset, s.c[i].data)
    BY <1>3, Zenon DEF Vis
  <2> HIDE DEF i
  <2>6. Vis(s, o) \in Seq(Values) /\ IsSplice(Vis(s, o), s.objs[o], s.c[i].offset, s.c[i].data)
    BY <1>1, <2>2, <2>4, <2>5, SplicedIs
  <2>7. Len(Vis(s, o)) >= Len(s.objs[o])
    <3>1. Len(s.objs[o]) \in Nat /\ Len(s.c[i].data) \in Nat /\ s.c[i].offset \in Nat
      BY <1>1, <2>2
    <3>2. Len(Vis(s, o)) = Larger(Len(s.objs[o]), s.c[i].offset + Len(s.c[i].data))
      BY <2>6 DEF IsSplice
    <3> QED
      BY <3>1, <3>2 DEF Larger
  <2> QED
    BY <1>3, <2>1, <2>2, <2>4, <2>5, <2>6, <2>7 DEF i
<1> QED
  BY <1>2, <1>3

-----------------------------------------------------------------------------
(* What the operations on a state do to its parts *)

\* The two descriptors are the same to a client.
Alike(d, e) ==
  /\ e.used = d.used /\ e.obj = d.obj /\ e.append = d.append
  /\ e.fdoffset = d.fdoffset

\* Every offset lies in some span.
LEMMA SpanInt == \A n \in Int : SpanAt(n) \in Int
<1>1. ASSUME NEW k \in Int PROVE IxSpan(k) \in Int
  BY VfsAssumption DEF IxSpan
<1>2. ASSUME NEW n \in Int PROVE n \div DataPageSize \in Int
  BY VfsAssumption
<1> QED
  BY <1>1, <1>2 DEF SpanAt

\* The fields of a descriptor have their types.
LEMMA DescFields ==
  ASSUME NEW d \in Desc
  PROVE  /\ d.used \in BOOLEAN /\ d.obj \in Nat /\ d.append \in BOOLEAN
         /\ d.size \in Sizes /\ d.fdoffset \in Nat /\ d.cursor \in Int
         /\ d.cache_page \in Refers
BY DEF Desc

\* A new cursor leaves the rest of a descriptor alone.
LEMMA DescCursor ==
  ASSUME NEW d \in Desc, NEW n \in Int
  PROVE  LET e == [d EXCEPT !.cursor = n]
         IN e \in Desc /\ Alike(d, e) /\ e.size = d.size /\ e.cache_page = d.cache_page
BY DEF Desc, Alike

\* So does a new size,
LEMMA DescSize ==
  ASSUME NEW d \in Desc, NEW n \in Sizes
  PROVE  LET e == [d EXCEPT !.size = n]
         IN e \in Desc /\ Alike(d, e) /\ e.size = n /\ e.cache_page = d.cache_page
BY DEF Desc, Alike

\* and another cache page,
LEMMA DescRefers ==
  ASSUME NEW d \in Desc, NEW i \in Refers
  PROVE  LET e == [d EXCEPT !.cache_page = i]
         IN e \in Desc /\ Alike(d, e) /\ e.size = d.size /\ e.cache_page = i
BY DEF Desc, Alike

\* and another offset.
LEMMA DescOffset ==
  ASSUME NEW d \in Desc, NEW n \in Nat
  PROVE  LET e == [d EXCEPT !.fdoffset = n]
         IN /\ e \in Desc /\ e.used = d.used /\ e.obj = d.obj /\ e.append = d.append
            /\ e.fdoffset = n /\ e.size = d.size /\ e.cache_page = d.cache_page
BY DEF Desc

\* The descriptors e are those of d, the ones in use without the page i.
Forgets(d, e, i) ==
  /\ e \in [Fds -> Desc]
  /\ \A g \in Fds :
       /\ Alike(d[g], e[g]) /\ e[g].size = d[g].size
       /\ e[g].cache_page =
            IF d[g].used /\ d[g].cache_page = i THEN 0 ELSE d[g].cache_page

\* When a cache page is given back no descriptor refers to it any more, and nothing else
\* changes.
LEMMA ForgetIs ==
  ASSUME NEW d \in [Fds -> Desc], NEW i \in Cache
  PROVE  Forgets(d, Forget(d, i), i)
<1>1. 0 \in Refers
  BY DEF Refers
<1>2. ASSUME NEW g \in Fds
      PROVE  /\ Forget(d, i)[g] \in Desc
             /\ Alike(d[g], Forget(d, i)[g]) /\ Forget(d, i)[g].size = d[g].size
             /\ Forget(d, i)[g].cache_page =
                   IF d[g].used /\ d[g].cache_page = i THEN 0 ELSE d[g].cache_page
  <2>1. d[g] \in Desc
    OBVIOUS
  <2>2. Forget(d, i)[g] = IF d[g].used /\ d[g].cache_page = i
                          THEN [d[g] EXCEPT !.cache_page = 0] ELSE d[g]
    BY Zenon DEF Forget
  <2>3. CASE d[g].used /\ d[g].cache_page = i
    BY <1>1, <2>1, <2>2, <2>3, DescRefers
  <2>4. CASE ~(d[g].used /\ d[g].cache_page = i)
    BY <2>1, <2>2, <2>4 DEF Alike
  <2> QED
    BY <2>3, <2>4
<1>3. Forget(d, i) \in [Fds -> Desc]
  BY <1>2, Zenon DEF Forget
<1> QED
  BY <1>2, <1>3 DEF Forgets

\* Descriptors of an object that grew learn its new size, the others keep theirs.
LEMMA GrownIs ==
  ASSUME NEW d \in [Fds -> Desc], NEW f, NEW o, NEW n \in Sizes
  PROVE  /\ Grown(d, f, o, n) \in [Fds -> Desc]
         /\ \A g \in Fds :
              /\ Alike(d[g], Grown(d, f, o, n)[g])
              /\ Grown(d, f, o, n)[g].cache_page = d[g].cache_page
              /\ Grown(d, f, o, n)[g].size =
                   IF d[g].used /\ d[g].obj = o THEN n ELSE d[g].size
<1>2. ASSUME NEW g \in Fds
      PROVE  /\ Grown(d, f, o, n)[g] \in Desc
             /\ Alike(d[g], Grown(d, f, o, n)[g])
             /\ Grown(d, f, o, n)[g].cache_page = d[g].cache_page
             /\ Grown(d, f, o, n)[g].size =
                   IF d[g].used /\ d[g].obj = o THEN n ELSE d[g].size
  <2>1. d[g] \in Desc
    OBVIOUS
  <2>2. Grown(d, f, o, n)[g] = IF d[g].used /\ d[g].obj = o
                               THEN [d[g] EXCEPT !.size = n] ELSE d[g]
    BY Zenon DEF Grown
  <2>3. CASE d[g].used /\ d[g].obj = o
    BY <2>1, <2>2, <2>3, DescSize
  <2>4. CASE ~(d[g].used /\ d[g].obj = o)
    BY <2>1, <2>2, <2>4 DEF Alike
  <2> QED
    BY <2>3, <2>4
<1>3. Grown(d, f, o, n) \in [Fds -> Desc]
  BY <1>2, Zenon DEF Grown
<1> QED
  BY <1>2, <1>3

\* In t the descriptor f is d; nothing else differs.
Replaced(s, t, f, d) ==
  /\ t.objs = s.objs /\ t.c = s.c
  /\ t.fds[f] = d /\ \A g \in Fds \ {f} : t.fds[g] = s.fds[g]

\* Putting a descriptor in its place changes no other.
LEMMA WithIs ==
  ASSUME NEW s \in States, NEW f \in Fds, NEW d \in Desc
  PROVE  With(s, f, d) \in States /\ Replaced(s, With(s, f, d), f, d)
<1>1. With(s, f, d) = [s EXCEPT !.fds = [s.fds EXCEPT ![f] = d]]
  BY DEF With
<1>2. s.fds \in [Fds -> Desc]
  BY Parts
<1> DEFINE x == [s.fds EXCEPT ![f] = d]
<1>3. x \in [Fds -> Desc] /\ x[f] = d /\ \A g \in Fds \ {f} : x[g] = s.fds[g]
  BY <1>2
<1> HIDE DEF x
<1>4. /\ [s EXCEPT !.fds = x] \in States
      /\ [s EXCEPT !.fds = x].objs = s.objs /\ [s EXCEPT !.fds = x].c = s.c
      /\ [s EXCEPT !.fds = x].fds = x
  BY <1>3 DEF States
<1> QED
  BY <1>1, <1>3, <1>4 DEF x, Replaced

\* Bytes are stored where the caller says, and every descriptor of the object
\* knows the size then.
Stores(s, t, o, new) ==
  /\ t \in States /\ Sized(t) /\ t.c = s.c
  /\ t.objs = [s.objs EXCEPT ![o] = new]
  /\ \A g \in Fds : /\ Alike(s.fds[g], t.fds[g])
                    /\ t.fds[g].cache_page = s.fds[g].cache_page

\* A write through the object layer puts the bytes into the stored file, tells every
\* descriptor of it, and touches no page of the cache.
LEMMA StoredIs ==
  ASSUME NEW s \in States, Sized(s), NEW f \in Fds, s.fds[f].used,
         NEW data \in Seq(Values), NEW at \in 0..Len(s.objs[s.fds[f].obj])
  PROVE  Stores(s, Stored(s, f, at, data), s.fds[f].obj,
                Spliced(s.objs[s.fds[f].obj], at, data))
<1> DEFINE o == s.fds[f].obj
           size == s.fds[f].size
           from == IF size # UndefinedLen /\ at > size THEN size ELSE at
           old == s.objs[o]
           new == Spliced(s.objs[o], from, data)
           grew == Len(new) > Len(old)
           d == IF grew THEN Grown(s.fds, f, o, Len(new)) ELSE s.fds
           cur == SpanAt(from + Len(data) - 1)
           e == [d EXCEPT ![f] = [@ EXCEPT !.cursor = cur]]
           t == Stored(s, f, at, data)
<1>1. t = [s EXCEPT !.objs = [@ EXCEPT ![o] = new], !.fds = e]
  BY DEF Stored
<1>2. s.objs \in [Objects -> Seq(Values)] /\ s.fds \in [Fds -> Desc]
  BY Parts
<1>3. s.fds[f] \in Desc /\ size \in Sizes
  BY <1>2, DescFields
<1>4. o \in Objects /\ Larger(size, 0) = Len(old) /\ old \in Seq(Values)
  BY <1>2 DEF Sized
<1>5. from = at
  BY <1>3, <1>4 DEF Larger, Sizes, UndefinedLen
<1>6. new \in Seq(Values) /\ IsSplice(new, old, at, data)
  BY <1>4, <1>5, SplicedIs
<1>7. Len(new) \in Nat /\ Len(old) \in Nat /\ Len(new) >= Len(old)
  BY <1>4, <1>6 DEF IsSplice, Larger
<1>8. cur \in Int
  <2>1. from + Len(data) - 1 \in Int
    BY <1>5
  <2> QED
    BY <2>1, SpanInt
<1> HIDE DEF from, cur, new
<1>9. /\ d \in [Fds -> Desc]
      /\ \A g \in Fds :
           /\ Alike(s.fds[g], d[g]) /\ d[g].cache_page = s.fds[g].cache_page
           /\ d[g].size = IF grew /\ s.fds[g].used /\ s.fds[g].obj = o
                          THEN Len(new) ELSE s.fds[g].size
  <2>1. Len(new) \in Sizes
    BY <1>7 DEF Sizes
  <2>2. CASE grew
    BY <1>2, <2>1, <2>2, GrownIs
  <2>3. CASE ~grew
    BY <1>2, <2>3 DEF Alike
  <2> QED
    BY <2>2, <2>3
<1> HIDE DEF d
<1>10. /\ e \in [Fds -> Desc]
       /\ \A g \in Fds :
            /\ Alike(d[g], e[g]) /\ e[g].cache_page = d[g].cache_page
            /\ e[g].size = d[g].size
  <2> DEFINE x == [d[f] EXCEPT !.cursor = cur]
  <2>1. x \in Desc /\ Alike(d[f], x) /\ x.size = d[f].size /\ x.cache_page = d[f].cache_page
    BY <1>8, <1>9, DescCursor
  <2>2. e = [d EXCEPT ![f] = x]
    OBVIOUS
  <2> HIDE DEF x, e
  <2>3. e \in [Fds -> Desc] /\ e[f] = x /\ \A g \in Fds \ {f} : e[g] = d[g]
    BY <1>9, <2>1, <2>2
  <2> QED
    BY <2>1, <2>3 DEF Alike
<1> HIDE DEF e
<1>11. /\ t \in States /\ t.c = s.c /\ t.fds = e
       /\ t.objs = [s.objs EXCEPT ![o] = new]
  <2> DEFINE x == [s.objs EXCEPT ![o] = new]
  <2>1. x \in [Objects -> Seq(Values)]
    BY <1>2, <1>6
  <2>2. t = [s EXCEPT !.objs = x, !.fds = e]
    BY <1>1
  <2> HIDE DEF x, t
  <2>3. t \in States /\ t.c = s.c /\ t.fds = e /\ t.objs = x
    BY <1>10, <2>1, <2>2 DEF States
  <2> QED
    BY <2>3 DEF x
<1>12. \A g \in Fds : Alike(s.fds[g], e[g]) /\ e[g].cache_page = s.fds[g].cache_page
  BY <1>9, <1>10 DEF Alike
<1>13. Sized(t)
  <2> SUFFICES ASSUME NEW g \in Fds, e[g].used
               PROVE  e[g].obj \in Objects /\ Larger(e[g].size, 0) = Len(t.objs[e[g].obj])
    BY <1>11 DEF Sized
  <2>1. s.fds[g].used /\ e[g].obj = s.fds[g].obj
    BY <1>12 DEF Alike
  <2>2. e[g].obj \in Objects /\ Larger(s.fds[g].size, 0) = Len(s.objs[e[g].obj])
    BY <2>1 DEF Sized
  <2>3. CASE e[g].obj = o
    <3>1. t.objs[o] = new
      BY <1>2, <1>4, <1>11
    <3>2. CASE grew
      <4>1. e[g].size = Len(new)
        BY <1>9, <1>10, <2>1, <2>3, <3>2
      <4> QED
        BY <1>7, <2>2, <2>3, <3>1, <4>1 DEF Larger
    <3>3. CASE ~grew
      <4>1. Len(new) = Len(old)
        BY <1>7, <3>3
      <4>2. e[g].size = s.fds[g].size
        BY <1>9, <1>10, <3>3
      <4> QED
        BY <2>2, <2>3, <3>1, <4>1, <4>2
    <3> QED
      BY <3>2, <3>3
  <2>4. CASE e[g].obj # o
    <3>1. t.objs[e[g].obj] = s.objs[e[g].obj]
      BY <1>2, <1>11, <2>2, <2>4
    <3>2. e[g].size = s.fds[g].size
      BY <1>9, <1>10, <2>1, <2>4
    <3> QED
      BY <2>2, <3>1, <3>2
  <2> QED
    BY <2>3, <2>4
<1>14. new = Spliced(s.objs[o], at, data)
  BY <1>5 DEF new
<1> QED
  BY <1>11, <1>12, <1>13, <1>14 DEF Stores

-----------------------------------------------------------------------------
(* Storing what is buffered *)

\* From s to t nothing changes for a client but what survives a power cut.
SameHandles(s, t) == \A f \in Fds : Alike(s.fds[f], t.fds[f])
\* The flash has got bytes of some objects that were seen of them already: what readers
\* see, and what descriptors are, is the same.
Settles(s, t) ==
  /\ Good(t) /\ SameHandles(s, t)
  /\ \A o \in Objects : Vis(t, o) = Vis(s, o) /\ t.objs[o] \in {s.objs[o], Vis(s, o)}

\* The page a descriptor refers to is the one of its object.
LEMMA RefersTo ==
  ASSUME NEW s, Good(s), NEW f \in Fds, s.fds[f].used, s.fds[f].cache_page # 0
  PROVE  LET i == s.fds[f].cache_page  o == s.fds[f].obj
         IN /\ i \in Cache /\ o \in Objects /\ s.fds[f] \in Desc
            /\ Written(s.c, i) /\ s.c[i].obj = o /\ s.c[i] \in Page
            /\ PageOf(s.c, o) = i
            /\ s.c[i].offset \in 0..Len(s.objs[o]) /\ s.c[i].data \in Seq(Values)
            /\ Vis(s, o) = Spliced(s.objs[o], s.c[i].offset, s.c[i].data)
<1> DEFINE i == s.fds[f].cache_page
           o == s.fds[f].obj
<1>1. s \in States /\ s.fds[f] \in Desc /\ o \in Objects
  BY Parts DEF Good, Sized
<1>2. i \in Cache
  BY <1>1, DescFields DEF Refers
<1>3. Written(s.c, i) /\ s.c[i].obj = o
  BY DEF Good, Refs
<1>4. PageOf(s.c, o) = i
  <2>1. Single(s)
    BY DEF Good
  <2> QED
    BY <1>2, <1>3, <2>1, PageOfSingle
<1>5. s.c[i] \in Page
  BY <1>1, <1>2, <1>3, Parts, Pages
<1>6. i # 0
  OBVIOUS
<1>7. Joined(s)
  BY DEF Good
<1> HIDE DEF i, o
<1>8. /\ s.c[i].offset \in 0..Len(s.objs[o]) /\ s.c[i].data \in Seq(Values)
      /\ Vis(s, o) = Spliced(s.objs[o], s.c[i].offset, s.c[i].data)
  BY <1>1, <1>4, <1>6, <1>7, VisType
<1> QED
  BY <1>1, <1>2, <1>3, <1>4, <1>5, <1>8 DEF i, o

\* Writing a page back stores what was seen of the object, and gives the page back.
LEMMA WriteBackIs ==
  ASSUME NEW s, Good(s), NEW f \in Fds, s.fds[f].used, s.fds[f].cache_page # 0
  PROVE  LET o == s.fds[f].obj
             t == WriteBack(s, f)
         IN /\ Settles(s, t) /\ t.objs = [s.objs EXCEPT ![o] = Vis(s, o)]
            /\ t.objs[o] = Vis(s, o) /\ PageOf(t.c, o) = 0 /\ t.fds[f].cache_page = 0
<1> DEFINE i == s.fds[f].cache_page
           o == s.fds[f].obj
           r == Stored(s, f, s.c[i].offset, s.c[i].data)
           d == Forget(r.fds, i)
           c == [s.c EXCEPT ![i] = Other]
           t == WriteBack(s, f)
<1>1. /\ i \in Cache /\ o \in Objects /\ Written(s.c, i) /\ s.c[i].obj = o
      /\ PageOf(s.c, o) = i
      /\ s.c[i].offset \in 0..Len(s.objs[o]) /\ s.c[i].data \in Seq(Values)
      /\ Vis(s, o) = Spliced(s.objs[o], s.c[i].offset, s.c[i].data)
  BY RefersTo
<1>2. s \in States /\ Refs(s) /\ Joined(s) /\ Single(s) /\ Held(s) /\ Sized(s) /\ Inside(s)
  BY DEF Good
<1>3. /\ r \in States /\ Sized(r) /\ r.c = s.c
      /\ r.objs = [s.objs EXCEPT ![o] = Vis(s, o)]
      /\ \A g \in Fds : /\ Alike(s.fds[g], r.fds[g])
                        /\ r.fds[g].cache_page = s.fds[g].cache_page
  <2>1. Stores(s, r, o, Vis(s, o))
    BY <1>1, <1>2, StoredIs, Zenon
  <2> QED
    BY <2>1, Zenon DEF Stores
<1>4. t = [r EXCEPT !.fds = d, !.c = [@ EXCEPT ![i] = Other]]
  BY DEF WriteBack
<1> HIDE DEF r
<1>5. /\ s.c \in [Cache -> {Other} \cup Page] /\ s.objs \in [Objects -> Seq(Values)]
      /\ r.fds \in [Fds -> Desc] /\ s.fds \in [Fds -> Desc]
  BY <1>2, <1>3, Parts
<1>6. Forgets(r.fds, d, i)
  BY <1>1, <1>5, ForgetIs, Zenon
<1>7. /\ c \in [Cache -> {Other} \cup Page] /\ ~Written(c, i)
      /\ \A j \in Cache \ {i} : c[j] = s.c[j] /\ (Written(c, j) <=> Written(s.c, j))
  BY <1>1, <1>5 DEF Written, Other
<1> HIDE DEF d, t, c
<1>8. t \in States /\ t.fds = d /\ t.c = c /\ t.objs = r.objs
  <2>1. t = [r EXCEPT !.fds = d, !.c = c]
    BY <1>3, <1>4 DEF c
  <2> QED
    BY <1>3, <1>6, <1>7, <2>1 DEF States, Forgets
<1>9. \A g \in Fds : /\ Alike(s.fds[g], d[g])
                     /\ d[g].cache_page = IF s.fds[g].used /\ s.fds[g].cache_page = i
                                          THEN 0 ELSE s.fds[g].cache_page
  BY <1>3, <1>6 DEF Alike, Forgets
<1>10. \A j \in Cache : Written(c, j) =>
         j # i /\ Written(s.c, j) /\ c[j] = s.c[j] /\ c[j].obj # o
  <2> SUFFICES ASSUME NEW j \in Cache, Written(c, j)
               PROVE  j # i /\ Written(s.c, j) /\ c[j] = s.c[j] /\ c[j].obj # o
    OBVIOUS
  <2>1. j # i
    BY <1>7
  <2>2. Written(s.c, j) /\ c[j] = s.c[j]
    BY <1>7, <2>1
  <2>3. c[j].obj # o
    BY <1>1, <1>2, <2>1, <2>2, Zenon DEF Single
  <2> QED
    BY <2>1, <2>2, <2>3
<1>11. PageOf(c, o) = 0
  BY <1>10, PageOfIs
<1>12. ASSUME NEW x \in Objects
       PROVE  /\ x # o => t.objs[x] = s.objs[x]
              /\ x = o => t.objs[x] = Vis(s, x)
  BY <1>3, <1>5, <1>8
<1>13. ASSUME NEW x \in Objects PROVE Vis(t, x) = Vis(s, x)
  <2>1. CASE x = o
    BY <1>8, <1>11, <1>12, <2>1, Zenon DEF Vis
  <2>2. CASE x # o
    <3>1. SamePages(c, s.c, x)
      <4> SUFFICES ASSUME NEW j \in Cache
                   PROVE  (Written(c, j) /\ c[j].obj = x) <=> (Written(s.c, j) /\ s.c[j].obj = x)
        BY DEF SamePages
      <4>1. CASE j = i
        <5>1. s.c[j].obj # x /\ ~Written(c, j)
          BY <1>1, <1>7, <2>2, <4>1
        <5> QED
          BY <5>1, Zenon
      <4>2. CASE j # i
        <5>1. c[j] = s.c[j] /\ (Written(c, j) <=> Written(s.c, j))
          BY <1>7, <4>2
        <5> QED
          BY <5>1, Zenon
      <4> QED
        BY <4>1, <4>2
    <3>2. PageOf(c, x) = PageOf(s.c, x)
      BY <3>1, PageOfSame, Zenon
    <3>3. CASE PageOf(c, x) = 0
      BY <1>8, <1>12, <2>2, <3>2, <3>3, Zenon DEF Vis
    <3>4. CASE PageOf(c, x) # 0
      <4>1. PageOf(c, x) \in Cache /\ Written(c, PageOf(c, x))
        BY <3>4, PageOfIs
      <4>2. c[PageOf(c, x)] = s.c[PageOf(c, x)]
        BY <1>10, <4>1
      <4> QED
        BY <1>8, <1>12, <2>2, <3>2, <3>4, <4>2, Zenon DEF Vis
    <3> QED
      BY <3>3, <3>4
  <2> QED
    BY <2>1, <2>2
<1>14. Refs(t)
  <2> SUFFICES ASSUME NEW g \in Fds
               PROVE  /\ ~d[g].used => d[g].cache_page = 0
                      /\ d[g].used /\ d[g].cache_page # 0 =>
                           Written(c, d[g].cache_page) /\ c[d[g].cache_page].obj = d[g].obj
    BY <1>8 DEF Refs
  <2>1. /\ d[g].used = s.fds[g].used /\ d[g].obj = s.fds[g].obj
        /\ d[g].cache_page = IF s.fds[g].used /\ s.fds[g].cache_page = i
                             THEN 0 ELSE s.fds[g].cache_page
    BY <1>9 DEF Alike
  <2>2. /\ ~s.fds[g].used => s.fds[g].cache_page = 0
        /\ s.fds[g].used /\ s.fds[g].cache_page # 0 =>
             /\ Written(s.c, s.fds[g].cache_page)
             /\ s.c[s.fds[g].cache_page].obj = s.fds[g].obj
    BY <1>2 DEF Refs
  <2>3. CASE ~s.fds[g].used \/ s.fds[g].cache_page = i
    BY <2>1, <2>2, <2>3
  <2>4. CASE s.fds[g].used /\ s.fds[g].cache_page # i
    <3>1. d[g].cache_page = s.fds[g].cache_page
      BY <2>1, <2>4
    <3>2. s.fds[g].cache_page \in Cache \cup {0}
      BY <1>5, DescFields DEF Refers
    <3>3. s.fds[g].cache_page # 0 =>
            /\ c[s.fds[g].cache_page] = s.c[s.fds[g].cache_page]
            /\ Written(c, s.fds[g].cache_page) <=> Written(s.c, s.fds[g].cache_page)
      BY <1>7, <2>4, <3>2
    <3> QED
      BY <2>1, <2>2, <2>4, <3>1, <3>3, Zenon
  <2> QED
    BY <2>3, <2>4
<1>15. Joined(t)
  <2> SUFFICES ASSUME NEW j \in Cache, Written(c, j)
               PROVE  c[j].offset <= Len(t.objs[c[j].obj])
    BY <1>8 DEF Joined
  <2>1. Written(s.c, j) /\ c[j] = s.c[j] /\ c[j].obj # o
    BY <1>10
  <2>2. c[j].obj \in Objects
    BY <1>7, Pages
  <2> QED
    BY <1>2, <1>12, <2>1, <2>2 DEF Joined
<1>16. Single(t)
  BY <1>2, <1>8, <1>10, Zenon DEF Single
<1>17. Held(t)
  <2> SUFFICES ASSUME NEW j \in Cache, Written(c, j)
               PROVE  \E g \in Fds : d[g].used /\ d[g].cache_page = j
    BY <1>8 DEF Held
  <2>1. PICK g \in Fds : s.fds[g].used /\ s.fds[g].cache_page = j
    BY <1>2, <1>10 DEF Held
  <2>2. j # i
    BY <1>10
  <2> QED
    BY <1>9, <2>1, <2>2 DEF Alike
<1>18. Sized(t)
  BY <1>3, <1>6, <1>8 DEF Sized, Alike, Forgets
<1>19. Inside(t)
  <2> SUFFICES ASSUME NEW g \in Fds, d[g].used PROVE d[g].fdoffset <= Len(Vis(t, d[g].obj))
    BY <1>8 DEF Inside
  <2>1. s.fds[g].used /\ d[g].fdoffset = s.fds[g].fdoffset /\ d[g].obj = s.fds[g].obj
    BY <1>9 DEF Alike
  <2>2. s.fds[g].obj \in Objects
    BY <1>2, <2>1 DEF Sized
  <2> QED
    BY <1>2, <1>13, <2>1, <2>2 DEF Inside
<1>20. SameHandles(s, t)
  BY <1>8, <1>9 DEF SameHandles
<1>21. \A x \in Objects : t.objs[x] \in {s.objs[x], Vis(s, x)}
  BY <1>12
<1>22. t.fds[f].cache_page = 0
  BY <1>8, <1>9
<1>23. Good(t)
  BY <1>8, <1>14, <1>15, <1>16, <1>17, <1>18, <1>19 DEF Good
<1> QED
  BY <1>1, <1>3, <1>8, <1>11, <1>12, <1>13, <1>20, <1>21, <1>22, <1>23 DEF Settles, t, o

\* What the invariant says of one descriptor, d, in a state s.
Fits(s, d) ==
  /\ ~d.used => d.cache_page = 0
  /\ d.used => /\ d.obj \in Objects
               /\ Larger(d.size, 0) = Len(s.objs[d.obj])
               /\ d.fdoffset <= Len(Vis(s, d.obj))
               /\ d.cache_page # 0 => /\ Written(s.c, d.cache_page)
                                      /\ s.c[d.cache_page].obj = d.obj

\* In a good state every descriptor fits it.
LEMMA GoodFits ==
  ASSUME NEW s, Good(s), NEW f \in Fds
  PROVE  Fits(s, s.fds[f])
<1>1. Refs(s) /\ Sized(s) /\ Inside(s)
  BY DEF Good
<1> QED
  BY <1>1, Zenon DEF Fits, Refs, Sized, Inside

\* Readers see the same of every object.
SameSeen(s, t) == \A o \in Objects : Vis(t, o) = Vis(s, o)

\* What is seen depends on the flash and the cache only.
LEMMA SameVis ==
  ASSUME NEW s, NEW t, t.objs = s.objs, t.c = s.c
  PROVE  SameSeen(s, t)
BY Zenon DEF Vis, SameSeen

\* A descriptor that fits may take the place of another, if it refers to the page
\* the other referred to.
LEMMA WithGood ==
  ASSUME NEW s, Good(s), NEW f \in Fds, NEW d \in Desc, Fits(s, d),
         s.fds[f].cache_page = 0 \/ (d.used /\ d.cache_page = s.fds[f].cache_page)
  PROVE  LET t == With(s, f, d)
         IN Good(t) /\ Replaced(s, t, f, d) /\ SameSeen(s, t)
<1> DEFINE t == With(s, f, d)
<1>1. s \in States /\ Joined(s) /\ Single(s) /\ Held(s)
  BY DEF Good
<1>2. t \in States /\ Replaced(s, t, f, d)
  BY <1>1, WithIs, Zenon
<1> HIDE DEF t
<1>3. SameSeen(s, t)
  BY <1>2, SameVis, Zenon DEF Replaced
<1>4. ASSUME NEW g \in Fds PROVE Fits(s, t.fds[g])
  BY <1>2, GoodFits DEF Replaced
<1>5. ASSUME NEW g \in Fds PROVE Fits(t, t.fds[g])
  BY <1>2, <1>3, <1>4, Zenon DEF Fits, SameSeen, Replaced
<1>6. Refs(t) /\ Sized(t) /\ Inside(t)
  BY <1>5, Zenon DEF Fits, Refs, Sized, Inside
<1>7. Joined(t) /\ Single(t)
  BY <1>1, <1>2, Zenon DEF Joined, Single, Replaced
<1>8. Held(t)
  <2> SUFFICES ASSUME NEW i \in Cache, Written(s.c, i)
               PROVE  \E g \in Fds : t.fds[g].used /\ t.fds[g].cache_page = i
    BY <1>2 DEF Held, Replaced
  <2>1. PICK g \in Fds : s.fds[g].used /\ s.fds[g].cache_page = i
    BY <1>1 DEF Held
  <2>2. i # 0
    BY Positive
  <2>3. CASE g = f
    BY <1>2, <2>1, <2>2, <2>3 DEF Replaced
  <2>4. CASE g # f
    BY <1>2, <2>1, <2>4 DEF Replaced
  <2> QED
    BY <2>3, <2>4
<1> QED
  BY <1>2, <1>3, <1>6, <1>7, <1>8 DEF Good, t

\* Settling twice is settling.
LEMMA SettlesTrans ==
  ASSUME NEW s, NEW t, NEW u, Settles(s, t), Settles(t, u)
  PROVE  Settles(s, u)
<1>1. SameHandles(s, u)
  BY DEF Settles, SameHandles, Alike
<1>2. \A o \in Objects : Vis(u, o) = Vis(s, o) /\ u.objs[o] \in {s.objs[o], Vis(s, o)}
  BY DEF Settles
<1> QED
  BY <1>1, <1>2 DEF Settles

\* A descriptor that has looked for the page of its object refers to it.
LEMMA ReferredIs ==
  ASSUME NEW s, Good(s), NEW f \in Fds, s.fds[f].used
  PROVE  LET t == Referred(s, f)
         IN /\ Settles(s, t)
            /\ t.fds[f].used /\ t.fds[f].obj = s.fds[f].obj
            /\ t.fds[f].size = s.fds[f].size
            /\ t.objs = s.objs /\ t.c = s.c
            /\ t.fds[f].cache_page = PageOf(s.c, s.fds[f].obj)
<1> DEFINE t == Referred(s, f)
           o == s.fds[f].obj
           i == PageOf(s.c, o)
           d == [s.fds[f] EXCEPT !.cache_page = i]
<1>1. s \in States /\ s.fds[f] \in Desc /\ o \in Objects
  BY Parts DEF Good, Sized
<1>2. CASE s.fds[f].cache_page # 0
  <2>1. t = s
    BY <1>2, Zenon DEF Referred
  <2>2. i = s.fds[f].cache_page
    BY <1>2, RefersTo
  <2>3. Settles(s, s)
    BY DEF Settles, SameHandles, Alike
  <2> QED
    BY <2>1, <2>2, <2>3
<1>3. CASE s.fds[f].cache_page = 0
  <2>1. t = With(s, f, d)
    BY <1>3, Zenon DEF Referred
  <2>2. i \in Refers
    BY PageOfIs DEF Refers
  <2> HIDE DEF i
  <2>3. d \in Desc /\ Alike(s.fds[f], d) /\ d.size = s.fds[f].size /\ d.cache_page = i
    BY <1>1, <2>2, DescRefers
  <2>4. i # 0 => Written(s.c, i) /\ s.c[i].obj = o
    BY PageOfIs DEF i
  <2> HIDE DEF d
  <2>5. Fits(s, s.fds[f])
    BY GoodFits
  <2>6. Fits(s, d)
    BY <2>3, <2>4, <2>5 DEF Fits, Alike
  <2>7. Good(t) /\ Replaced(s, t, f, d) /\ SameSeen(s, t)
    BY <1>3, <2>1, <2>3, <2>6, WithGood, Zenon
  <2> HIDE DEF t
  <2>8. SameHandles(s, t)
    BY <2>3, <2>7 DEF SameHandles, Alike, Replaced
  <2>9. Settles(s, t)
    BY <2>7, <2>8, Zenon DEF Settles, SameSeen, Replaced
  <2> QED
    BY <2>3, <2>7, <2>9 DEF Alike, i, t, Replaced
<1> QED
  BY <1>2, <1>3

\* spiffs_fflush_cache stores the bytes buffered for the descriptor's object and
\* leaves what a client sees.
LEMMA FlushedIs ==
  ASSUME NEW s, Good(s), NEW f \in Fds, s.fds[f].used
  PROVE  LET o == s.fds[f].obj
             t == Flushed(s, f)
         IN /\ Settles(s, t)
            /\ o \in Objects /\ t.objs[o] = Vis(s, o)
            /\ t.objs = [s.objs EXCEPT ![o] = Vis(s, o)]
            /\ PageOf(t.c, o) = 0 /\ t.fds[f].cache_page = 0
<1> DEFINE r == Referred(s, f)
           o == s.fds[f].obj
           t == Flushed(s, f)
<1>1. /\ Settles(s, r) /\ r.fds[f].used /\ r.fds[f].obj = o
      /\ r.objs = s.objs /\ r.c = s.c /\ r.fds[f].cache_page = PageOf(s.c, o)
  BY ReferredIs
<1>2. t = IF r.fds[f].cache_page = 0 THEN r ELSE WriteBack(r, f)
  BY Zenon DEF Flushed
<1>3. s \in States /\ Joined(s) /\ o \in Objects
  BY DEF Good, Sized
<1> HIDE DEF r, t
<1>4. CASE r.fds[f].cache_page = 0
  <2>1. t = r /\ PageOf(s.c, o) = 0
    BY <1>1, <1>2, <1>4
  <2>2. Vis(s, o) = s.objs[o]
    BY <1>3, <2>1, VisType
  <2>3. s.objs = [s.objs EXCEPT ![o] = Vis(s, o)]
    BY <1>3, <2>2, Parts
  <2> QED
    BY <1>1, <1>3, <1>4, <2>1, <2>2, <2>3 DEF t
<1>5. CASE r.fds[f].cache_page # 0
  <2>1. Good(r)
    BY <1>1 DEF Settles
  <2>2. /\ Settles(r, t) /\ t.objs[o] = Vis(r, o)
        /\ t.objs = [r.objs EXCEPT ![o] = Vis(r, o)]
        /\ PageOf(t.c, o) = 0 /\ t.fds[f].cache_page = 0
    BY <1>1, <1>2, <1>5, <2>1, WriteBackIs
  <2>3. Vis(r, o) = Vis(s, o)
    BY <1>1, <1>3 DEF Settles
  <2>4. Settles(s, t)
    BY <1>1, <2>2, SettlesTrans
  <2> QED
    BY <1>1, <1>3, <2>2, <2>3, <2>4 DEF t
<1> QED
  BY <1>4, <1>5 DEF t

-----------------------------------------------------------------------------
(* Writing *)

\* From s to t the object o becomes new to a client, and nothing else changes for
\* it; what survives a power cut was seen before, or is seen now.
Puts(s, t, o, new) ==
  /\ Good(t) /\ SameHandles(s, t) /\ Vis(t, o) = new
  /\ \A x \in Objects :
       /\ x # o => Vis(t, x) = Vis(s, x)
       /\ t.objs[x] \in {s.objs[x], Vis(s, x), Vis(t, x)}

\* Settling before a call that changes one object is part of that change.
LEMMA SettlesPuts ==
  ASSUME NEW s, NEW t, NEW u, NEW o \in Objects, NEW new, Settles(s, t), Puts(t, u, o, new)
  PROVE  Puts(s, u, o, new)
<1>1. SameHandles(s, u)
  BY DEF Settles, Puts, SameHandles, Alike
<1>2. \A x \in Objects : /\ x # o => Vis(u, x) = Vis(s, x)
                         /\ u.objs[x] \in {s.objs[x], Vis(s, x), Vis(u, x)}
  BY DEF Settles, Puts
<1> QED
  BY <1>1, <1>2 DEF Puts

\* A page that an object does not have is no page of another's either.
LEMMA NoPage ==
  ASSUME NEW c, NEW o, PageOf(c, o) = 0, NEW i \in Cache, Written(c, i)
  PROVE  c[i].obj # o
BY PageOfIs

\* A write never shortens a file.
LEMMA Grows ==
  ASSUME NEW V, NEW old \in Seq(V), NEW new \in Seq(V), NEW at \in 0..Len(old)
  PROVE  /\ Spliced(old, at, new) \in Seq(V)
         /\ Len(Spliced(old, at, new)) >= Len(old)
         /\ Len(Spliced(old, at, new)) >= at + Len(new)
<1>1. Spliced(old, at, new) \in Seq(V) /\ IsSplice(Spliced(old, at, new), old, at, new)
  BY SplicedIs
<1>2. Len(old) \in Nat /\ Len(new) \in Nat /\ at \in Nat
  OBVIOUS
<1> QED
  BY <1>1, <1>2 DEF IsSplice, Larger

\* Bytes stored in an object of which none are buffered.
LEMMA StoredPuts ==
  ASSUME NEW s, Good(s), NEW f \in Fds, s.fds[f].used, PageOf(s.c, s.fds[f].obj) = 0,
         NEW data \in Seq(Values), NEW at \in 0..Len(s.objs[s.fds[f].obj])
  PROVE  LET o == s.fds[f].obj
             new == Spliced(s.objs[o], at, data)
             t == Stored(s, f, at, data)
         IN /\ Puts(s, t, o, new) /\ t.objs[o] = new /\ PageOf(t.c, o) = 0
            /\ t.fds[f].used /\ t.fds[f].obj = o
<1> DEFINE o == s.fds[f].obj
           new == Spliced(s.objs[o], at, data)
           t == Stored(s, f, at, data)
<1>1. /\ s \in States /\ Refs(s) /\ Joined(s) /\ Single(s) /\ Held(s) /\ Sized(s) /\ Inside(s)
      /\ o \in Objects
  BY DEF Good, Sized
<1>2. Stores(s, t, o, new)
  BY <1>1, StoredIs, Zenon
<1>3. s.objs \in [Objects -> Seq(Values)] /\ s.objs[o] \in Seq(Values)
  BY <1>1, Parts
<1>4. new \in Seq(Values) /\ Len(new) >= Len(s.objs[o])
  BY <1>3, Grows
<1> HIDE DEF t, new
<1>5. /\ t \in States /\ Sized(t) /\ t.c = s.c
      /\ \A g \in Fds : /\ Alike(s.fds[g], t.fds[g])
                        /\ t.fds[g].cache_page = s.fds[g].cache_page
  BY <1>2 DEF Stores
<1>6. t.objs[o] = new /\ \A x \in Objects : x # o => t.objs[x] = s.objs[x]
  BY <1>1, <1>2, <1>3 DEF Stores
<1>7. Vis(t, o) = new /\ Vis(s, o) = s.objs[o]
  BY <1>5, <1>6, Zenon DEF Vis
<1>8. \A x \in Objects : x # o => Vis(t, x) = Vis(s, x)
  BY <1>5, <1>6, Zenon DEF Vis
<1>9. Refs(t)
  BY <1>1, <1>5, Zenon DEF Refs, Alike
<1>10. Joined(t)
  <2> SUFFICES ASSUME NEW i \in Cache, Written(s.c, i)
               PROVE  s.c[i].offset <= Len(t.objs[s.c[i].obj])
    BY <1>5 DEF Joined
  <2>1. s.c[i].obj # o
    BY NoPage
  <2>2. s.c[i].obj \in Objects
    BY <1>1, Parts, Pages
  <2> QED
    BY <1>1, <1>6, <2>1, <2>2 DEF Joined
<1>11. Single(t)
  BY <1>1, <1>5, Zenon DEF Single
<1>12. Held(t)
  BY <1>1, <1>5 DEF Held, Alike
<1>13. Inside(t)
  <2> SUFFICES ASSUME NEW g \in Fds, t.fds[g].used
               PROVE  t.fds[g].fdoffset <= Len(Vis(t, t.fds[g].obj))
    BY DEF Inside
  <2>1. /\ s.fds[g].used /\ t.fds[g].obj = s.fds[g].obj
        /\ t.fds[g].fdoffset = s.fds[g].fdoffset
    BY <1>5 DEF Alike
  <2>2. s.fds[g].obj \in Objects /\ s.fds[g].fdoffset <= Len(Vis(s, s.fds[g].obj))
    BY <1>1, <2>1 DEF Sized, Inside
  <2>3. s.fds[g].fdoffset \in Nat
    BY <1>1, Parts, DescFields
  <2>4. CASE s.fds[g].obj = o
    <3>1. s.fds[g].fdoffset <= Len(s.objs[o])
      BY <1>7, <2>2, <2>4
    <3>2. Len(s.objs[o]) \in Nat /\ Len(new) \in Nat
      BY <1>3, <1>4
    <3> QED
      BY <1>4, <1>7, <2>1, <2>3, <2>4, <3>1, <3>2
  <2>5. CASE s.fds[g].obj # o
    BY <1>8, <2>1, <2>2, <2>5
  <2> QED
    BY <2>4, <2>5
<1>14. Good(t)
  BY <1>5, <1>9, <1>10, <1>11, <1>12, <1>13 DEF Good
<1>15. SameHandles(s, t)
  BY <1>5 DEF SameHandles
<1>16. ASSUME NEW x \in Objects PROVE t.objs[x] \in {s.objs[x], Vis(s, x), Vis(t, x)}
  <2>1. x = o => t.objs[x] = Vis(t, x)
    BY <1>6, <1>7
  <2>2. x # o => t.objs[x] = s.objs[x]
    BY <1>6
  <2> QED
    BY <2>1, <2>2
<1>17. Puts(s, t, o, new)
  BY <1>7, <1>8, <1>14, <1>15, <1>16 DEF Puts
<1>18. PageOf(t.c, o) = 0 /\ t.fds[f].used /\ t.fds[f].obj = o
  BY <1>5 DEF Alike
<1> QED
  BY <1>6, <1>17, <1>18 DEF t, new

\* In t the page i holds bytes of o, as a page of o or no page did before; some
\* descriptors of o may have come to refer to it.
Repaged(s, t, i, o) ==
  /\ t \in States /\ t.objs = s.objs /\ Written(t.c, i) /\ t.c[i].obj = o
  /\ t.c[i].offset <= Len(s.objs[o])
  /\ Written(s.c, i) => s.c[i].obj = o
  /\ \A j \in Cache \ {i} :
       t.c[j] = s.c[j] /\ (Written(s.c, j) => s.c[j].obj # o)
  /\ \A g \in Fds :
       /\ Alike(s.fds[g], t.fds[g]) /\ t.fds[g].size = s.fds[g].size
       /\ \/ t.fds[g].cache_page = s.fds[g].cache_page
          \/ /\ t.fds[g].used /\ t.fds[g].obj = o
             /\ t.fds[g].cache_page = i /\ s.fds[g].cache_page = 0
  /\ \E g \in Fds : t.fds[g].used /\ t.fds[g].cache_page = i

\* Bytes put into the page of an object change what is seen of that object alone.
LEMMA RepagedPuts ==
  ASSUME NEW s, Good(s), NEW t, NEW i \in Cache, NEW o \in Objects, Repaged(s, t, i, o),
         Len(Vis(t, o)) >= Len(Vis(s, o))
  PROVE  /\ Puts(s, t, o, Vis(t, o)) /\ PageOf(t.c, o) = i
         /\ Vis(t, o) = Spliced(s.objs[o], t.c[i].offset, t.c[i].data)
<1>1. s \in States /\ Refs(s) /\ Joined(s) /\ Single(s) /\ Held(s) /\ Sized(s) /\ Inside(s)
  BY DEF Good
<1>2. t \in States /\ t.objs = s.objs /\ Written(t.c, i) /\ t.c[i].obj = o
  BY DEF Repaged
<1>3. /\ t.c[i].offset <= Len(s.objs[o])
      /\ Written(s.c, i) => s.c[i].obj = o
  BY DEF Repaged
<1>4. \A j \in Cache \ {i} : /\ t.c[j] = s.c[j] /\ (Written(t.c, j) <=> Written(s.c, j))
                             /\ Written(s.c, j) => s.c[j].obj # o
  BY Zenon DEF Repaged, Written
<1>5. \A g \in Fds :
        /\ Alike(s.fds[g], t.fds[g]) /\ t.fds[g].size = s.fds[g].size
        /\ \/ t.fds[g].cache_page = s.fds[g].cache_page
           \/ /\ t.fds[g].used /\ t.fds[g].obj = o
              /\ t.fds[g].cache_page = i /\ s.fds[g].cache_page = 0
  BY Zenon DEF Repaged
<1>6. /\ s.objs \in [Objects -> Seq(Values)]
      /\ s.c \in [Cache -> {Other} \cup Page] /\ t.c \in [Cache -> {Other} \cup Page]
      /\ s.fds \in [Fds -> Desc] /\ t.fds \in [Fds -> Desc]
  BY <1>1, <1>2, Parts
<1>7. Single(t)
  <2> SUFFICES ASSUME NEW j \in Cache, NEW k \in Cache, Written(t.c, j), Written(t.c, k),
                      t.c[j].obj = t.c[k].obj
               PROVE  j = k
    BY Zenon DEF Single
  <2>1. CASE j = i \/ k = i
    BY <1>2, <1>4, <2>1
  <2>2. CASE j # i /\ k # i
    <3>1. Written(s.c, j) /\ Written(s.c, k) /\ s.c[j].obj = s.c[k].obj
      BY <1>4, <2>2
    <3> QED
      BY <1>1, <3>1, Zenon DEF Single
  <2> QED
    BY <2>1, <2>2
<1>8. PageOf(t.c, o) = i
  BY <1>2, <1>7, PageOfSingle
<1>9. ASSUME NEW x \in Objects, x # o PROVE Vis(t, x) = Vis(s, x)
  <2>1. SamePages(t.c, s.c, x)
    <3> SUFFICES ASSUME NEW j \in Cache
                 PROVE  (Written(t.c, j) /\ t.c[j].obj = x) <=> (Written(s.c, j) /\ s.c[j].obj = x)
      BY DEF SamePages
    <3>1. CASE j = i
      <4>1. t.c[j].obj # x
        BY <1>2, <1>9, <3>1
      <4>2. Written(s.c, j) => s.c[j].obj # x
        BY <1>3, <1>9, <3>1
      <4> QED
        BY <4>1, <4>2, Zenon
    <3>2. CASE j # i
      <4>1. t.c[j] = s.c[j] /\ (Written(t.c, j) <=> Written(s.c, j))
        BY <1>4, <3>2
      <4> QED
        BY <4>1, Zenon
    <3> QED
      BY <3>1, <3>2
  <2>2. PageOf(t.c, x) = PageOf(s.c, x)
    BY <2>1, PageOfSame, Zenon
  <2>3. CASE PageOf(t.c, x) = 0
    BY <1>2, <2>2, <2>3, Zenon DEF Vis
  <2>4. CASE PageOf(t.c, x) # 0
    <3>1. PageOf(t.c, x) \in Cache /\ t.c[PageOf(t.c, x)].obj = x
      BY <2>4, PageOfIs
    <3>2. t.c[PageOf(t.c, x)] = s.c[PageOf(t.c, x)]
      BY <1>2, <1>4, <1>9, <3>1
    <3> QED
      BY <1>2, <2>2, <2>4, <3>2, Zenon DEF Vis
  <2> QED
    BY <2>3, <2>4
<1>10. Refs(t)
  <2> SUFFICES ASSUME NEW g \in Fds
               PROVE  /\ ~t.fds[g].used => t.fds[g].cache_page = 0
                      /\ t.fds[g].used /\ t.fds[g].cache_page # 0 =>
                           /\ Written(t.c, t.fds[g].cache_page)
                           /\ t.c[t.fds[g].cache_page].obj = t.fds[g].obj
    BY DEF Refs
  <2>1. t.fds[g].used = s.fds[g].used /\ t.fds[g].obj = s.fds[g].obj
    BY <1>5 DEF Alike
  <2>2. /\ ~s.fds[g].used => s.fds[g].cache_page = 0
        /\ s.fds[g].used /\ s.fds[g].cache_page # 0 =>
             /\ Written(s.c, s.fds[g].cache_page)
             /\ s.c[s.fds[g].cache_page].obj = s.fds[g].obj
    BY <1>1 DEF Refs
  <2>3. CASE t.fds[g].used /\ t.fds[g].obj = o /\ t.fds[g].cache_page = i
    BY <1>2, <2>3
  <2>4. CASE t.fds[g].cache_page = s.fds[g].cache_page
    <3>1. s.fds[g].cache_page \in Cache \cup {0}
      BY <1>6, DescFields DEF Refers
    <3>2. CASE s.fds[g].cache_page = 0 \/ ~s.fds[g].used
      BY <2>1, <2>2, <2>4, <3>2
    <3>3. CASE s.fds[g].cache_page = i /\ s.fds[g].used
      <4>1. i # 0
        BY Positive
      <4>2. Written(s.c, i) /\ s.c[i].obj = s.fds[g].obj
        BY <2>2, <3>3, <4>1
      <4> QED
        BY <1>2, <1>3, <2>1, <2>4, <3>3, <4>2
    <3>4. CASE s.fds[g].cache_page \in Cache \ {i} /\ s.fds[g].used
      <4>1. Written(s.c, s.fds[g].cache_page) /\ s.c[s.fds[g].cache_page].obj = s.fds[g].obj
        BY <2>2, <3>4, Positive
      <4>2. t.c[s.fds[g].cache_page] = s.c[s.fds[g].cache_page]
            /\ Written(t.c, s.fds[g].cache_page)
        BY <1>4, <3>4, <4>1
      <4> QED
        BY <2>1, <2>4, <3>4, <4>1, <4>2
    <3> QED
      BY <3>1, <3>2, <3>3, <3>4
  <2> QED
    BY <1>5, <2>3, <2>4
<1>11. Joined(t)
  <2> SUFFICES ASSUME NEW j \in Cache, Written(t.c, j)
               PROVE  t.c[j].offset <= Len(s.objs[t.c[j].obj])
    BY <1>2 DEF Joined
  <2>1. CASE j = i
    BY <1>2, <1>3, <2>1
  <2>2. CASE j # i
    BY <1>1, <1>4, <2>2 DEF Joined
  <2> QED
    BY <2>1, <2>2
<1>12. Held(t)
  <2> SUFFICES ASSUME NEW j \in Cache, Written(t.c, j)
               PROVE  \E g \in Fds : t.fds[g].used /\ t.fds[g].cache_page = j
    BY DEF Held
  <2>1. CASE j = i
    BY <2>1 DEF Repaged
  <2>2. CASE j # i
    <3>1. PICK g \in Fds : s.fds[g].used /\ s.fds[g].cache_page = j
      BY <1>1, <1>4, <2>2 DEF Held
    <3>2. j # 0
      BY Positive
    <3>3. t.fds[g].cache_page = j /\ t.fds[g].used
      BY <1>5, <3>1, <3>2 DEF Alike
    <3> QED
      BY <3>3
  <2> QED
    BY <2>1, <2>2
<1>13. Sized(t)
  BY <1>1, <1>2, <1>5 DEF Sized, Alike
<1>14. Inside(t)
  <2> SUFFICES ASSUME NEW g \in Fds, t.fds[g].used
               PROVE  t.fds[g].fdoffset <= Len(Vis(t, t.fds[g].obj))
    BY DEF Inside
  <2>1. /\ s.fds[g].used /\ t.fds[g].obj = s.fds[g].obj
        /\ t.fds[g].fdoffset = s.fds[g].fdoffset
    BY <1>5 DEF Alike
  <2>2. s.fds[g].obj \in Objects /\ s.fds[g].fdoffset <= Len(Vis(s, s.fds[g].obj))
    BY <1>1, <2>1 DEF Sized, Inside
  <2>3. s.fds[g].fdoffset \in Nat
    BY <1>6, DescFields
  <2>4. CASE s.fds[g].obj = o
    <3>1. Vis(s, o) \in Seq(Values) /\ Vis(t, o) \in Seq(Values)
      BY <1>1, <1>2, <1>11, VisType
    <3>2. Len(Vis(s, o)) \in Nat /\ Len(Vis(t, o)) \in Nat
      BY <3>1
    <3> QED
      BY <2>1, <2>2, <2>3, <2>4, <3>2
  <2>5. CASE s.fds[g].obj # o
    BY <1>9, <2>1, <2>2, <2>5
  <2> QED
    BY <2>4, <2>5
<1>15. Good(t)
  BY <1>2, <1>7, <1>10, <1>11, <1>12, <1>13, <1>14 DEF Good
<1>16. SameHandles(s, t)
  BY <1>5 DEF SameHandles
<1>17. Puts(s, t, o, Vis(t, o))
  BY <1>2, <1>9, <1>15, <1>16 DEF Puts
<1>18. Vis(t, o) = Spliced(s.objs[o], t.c[i].offset, t.c[i].data)
  <2>1. i # 0
    BY Positive
  <2> QED
    BY <1>2, <1>8, <2>1, Zenon DEF Vis
<1> QED
  BY <1>8, <1>17, <1>18

\* Bytes written into the page the object has.
LEMMA KeptPuts ==
  ASSUME NEW s, Good(s), NEW f \in Fds, s.fds[f].used, s.fds[f].cache_page # 0,
         NEW data \in Seq(Values), NEW at \in Int,
         Within(s.c[s.fds[f].cache_page], at, Len(data))
  PROVE  LET o == s.fds[f].obj
             i == s.fds[f].cache_page
             page == s.c[i]
             t == [s EXCEPT !.c = [@ EXCEPT ![i] =
                     WritePage(page.obj, page.offset,
                               Spliced(page.data, at - page.offset, data))]]
         IN Puts(s, t, o, Spliced(Vis(s, o), at, data))
<1> DEFINE o == s.fds[f].obj
           i == s.fds[f].cache_page
           off == s.c[i].offset
           bytes == s.c[i].data
           merged == Spliced(bytes, at - off, data)
           new == WritePage(s.c[i].obj, off, merged)
           c == [s.c EXCEPT ![i] = new]
           t == [s EXCEPT !.c = [@ EXCEPT ![i] = new]]
<1>1. /\ i \in Cache /\ o \in Objects /\ Written(s.c, i) /\ s.c[i].obj = o
      /\ off \in 0..Len(s.objs[o]) /\ bytes \in Seq(Values)
      /\ Vis(s, o) = Spliced(s.objs[o], off, bytes)
  BY RefersTo
<1>2. s \in States /\ Refs(s) /\ Single(s) /\ Held(s) /\ Joined(s)
  BY DEF Good
<1>3. s.objs[o] \in Seq(Values) /\ s.c \in [Cache -> {Other} \cup Page]
  BY <1>1, <1>2, Parts
<1>4. at \in off..(off + Len(bytes))
  <2>1. at >= off /\ at <= off + Len(bytes)
    BY Zenon DEF Within
  <2>2. off \in Nat /\ Len(bytes) \in Nat
    BY <1>1, <1>3
  <2> HIDE DEF off, bytes
  <2> QED
    BY <2>1, <2>2
<1> HIDE DEF i, o, off, bytes
<1>5. at - off \in 0..Len(bytes) /\ off \in Nat
  BY <1>1, <1>3, <1>4
<1>6. merged \in Seq(Values)
  <2>1. bytes \in Seq(Values) /\ data \in Seq(Values) /\ at - off \in 0..Len(bytes)
    BY <1>1, <1>5
  <2> QED
    BY <2>1, SplicedIs, Zenon
<1>7. Spliced(s.objs[o], off, merged) = Spliced(Spliced(s.objs[o], off, bytes), at, data)
  <2>1. /\ s.objs[o] \in Seq(Values) /\ bytes \in Seq(Values) /\ data \in Seq(Values)
        /\ off \in 0..Len(s.objs[o])
    BY <1>1, <1>3
  <2> QED
    BY <1>4, <2>1, SplicedInto
<1> HIDE DEF merged
<1>8. /\ new \in Page /\ new.type = "write" /\ new.obj = o
      /\ new.offset = off /\ new.data = merged
  BY <1>1, <1>5, <1>6 DEF WritePage, Page
<1> HIDE DEF new
<1>9. /\ c \in [Cache -> {Other} \cup Page] /\ c[i] = new
      /\ \A j \in Cache \ {i} : c[j] = s.c[j]
  BY <1>1, <1>3, <1>8
<1>10. t = [s EXCEPT !.c = c]
  BY <1>2 DEF States
<1> HIDE DEF c, t
<1>11. t \in States /\ t.objs = s.objs /\ t.fds = s.fds /\ t.c = c
  BY <1>2, <1>9, <1>10 DEF States
<1>12. Repaged(s, t, i, o)
  <2>1. Written(t.c, i) /\ t.c[i].obj = o /\ t.c[i].offset <= Len(s.objs[o])
    BY <1>1, <1>3, <1>8, <1>9, <1>11 DEF Written
  <2>2. \A j \in Cache \ {i} : t.c[j] = s.c[j] /\ (Written(s.c, j) => s.c[j].obj # o)
    BY <1>1, <1>2, <1>9, <1>11, Zenon DEF Single
  <2>3. \A g \in Fds : Alike(s.fds[g], t.fds[g]) /\ t.fds[g] = s.fds[g]
    BY <1>11 DEF Alike
  <2>4. \E g \in Fds : t.fds[g].used /\ t.fds[g].cache_page = i
    BY <1>11 DEF i
  <2> QED
    BY <1>1, <1>11, <2>1, <2>2, <2>3, <2>4, Zenon DEF Repaged
<1>13. PageOf(t.c, o) = i
  <2>1. SamePages(t.c, s.c, o)
    BY <1>1, <1>8, <1>9, <1>11 DEF SamePages, Written
  <2>2. PageOf(s.c, o) = i
    BY <1>1, <1>2, PageOfSingle
  <2> QED
    BY <2>1, <2>2, PageOfSame
<1>14. Vis(t, o) = Spliced(Vis(s, o), at, data)
  <2>1. i # 0
    BY DEF i
  <2>2. Vis(t, o) = Spliced(s.objs[o], t.c[i].offset, t.c[i].data)
    BY <1>11, <1>13, <2>1, Zenon DEF Vis
  <2>3. t.c[i].offset = off /\ t.c[i].data = merged
    BY <1>8, <1>9, <1>11
  <2> QED
    BY <1>1, <1>7, <2>2, <2>3 DEF merged
<1>15. Len(Vis(t, o)) >= Len(Vis(s, o))
  <2>1. Vis(s, o) \in Seq(Values)
    BY <1>1, <1>3, Grows
  <2>2. at \in 0..Len(Vis(s, o))
    <3>1. Len(Vis(s, o)) >= off + Len(bytes)
      BY <1>1, <1>3, Grows
    <3> QED
      BY <1>1, <1>3, <1>4, <2>1, <3>1
  <2> QED
    BY <1>14, <2>1, <2>2, Grows
<1>16. Puts(s, t, o, Vis(t, o))
  BY <1>1, <1>12, <1>15, RepagedPuts
<1> QED
  BY <1>14, <1>16 DEF t, new, merged, off, bytes, o, i

\* Bytes written into a page of their own.
LEMMA NewPuts ==
  ASSUME NEW s, Good(s), NEW f \in Fds, s.fds[f].used, PageOf(s.c, s.fds[f].obj) = 0,
         NEW j \in Cache, ~Written(s.c, j),
         NEW data \in Seq(Values), NEW at \in 0..Len(s.objs[s.fds[f].obj])
  PROVE  LET o == s.fds[f].obj
             t == With([s EXCEPT !.c = [@ EXCEPT ![j] = WritePage(o, at, data)]],
                       f, [s.fds[f] EXCEPT !.cache_page = j])
         IN Puts(s, t, o, Spliced(s.objs[o], at, data))
<1> DEFINE o == s.fds[f].obj
           new == WritePage(o, at, data)
           c == [s.c EXCEPT ![j] = new]
           r == [s EXCEPT !.c = [@ EXCEPT ![j] = new]]
           d == [s.fds[f] EXCEPT !.cache_page = j]
           t == With(r, f, d)
<1>1. s \in States /\ Refs(s) /\ o \in Objects
  BY DEF Good, Sized
<1>2. /\ s.objs \in [Objects -> Seq(Values)] /\ s.objs[o] \in Seq(Values)
      /\ s.c \in [Cache -> {Other} \cup Page] /\ s.fds[f] \in Desc
  BY <1>1, Parts
<1>3. s.fds[f].cache_page = 0
  BY RefersTo, Positive
<1>4. at \in Nat /\ at <= Len(s.objs[o])
  BY <1>2
<1>5. d \in Desc /\ Alike(s.fds[f], d) /\ d.size = s.fds[f].size /\ d.cache_page = j
  <2>1. j \in Refers
    BY DEF Refers
  <2> QED
    BY <1>2, <2>1, DescRefers
<1> HIDE DEF d
<1>6. /\ new \in Page /\ new.type = "write" /\ new.obj = o
      /\ new.offset = at /\ new.data = data
  BY <1>1, <1>4 DEF WritePage, Page
<1> HIDE DEF new
<1>7. /\ c \in [Cache -> {Other} \cup Page] /\ c[j] = new
      /\ \A k \in Cache \ {j} : c[k] = s.c[k]
  BY <1>2, <1>6
<1>8. r = [s EXCEPT !.c = c]
  BY <1>1 DEF States
<1> HIDE DEF c, r
<1>9. r \in States /\ r.objs = s.objs /\ r.fds = s.fds /\ r.c = c
  BY <1>1, <1>7, <1>8 DEF States
<1>10. t \in States /\ Replaced(r, t, f, d)
  BY <1>5, <1>9, WithIs
<1> HIDE DEF t
<1>11. /\ t.objs = s.objs /\ t.c = c /\ t.fds[f] = d
       /\ \A g \in Fds \ {f} : t.fds[g] = s.fds[g]
  BY <1>9, <1>10 DEF Replaced
<1>12. Repaged(s, t, j, o)
  <2>1. Written(t.c, j) /\ t.c[j].obj = o /\ t.c[j].offset <= Len(s.objs[o])
    BY <1>4, <1>6, <1>7, <1>11 DEF Written
  <2>2. \A k \in Cache \ {j} : t.c[k] = s.c[k] /\ (Written(s.c, k) => s.c[k].obj # o)
    BY <1>7, <1>11, NoPage
  <2>3. \A g \in Fds :
          /\ Alike(s.fds[g], t.fds[g]) /\ t.fds[g].size = s.fds[g].size
          /\ \/ t.fds[g].cache_page = s.fds[g].cache_page
             \/ /\ t.fds[g].used /\ t.fds[g].obj = o
                /\ t.fds[g].cache_page = j /\ s.fds[g].cache_page = 0
    BY <1>3, <1>5, <1>11 DEF Alike
  <2>4. t.fds[f].used /\ t.fds[f].cache_page = j
    BY <1>5, <1>11 DEF Alike
  <2> QED
    BY <1>10, <1>11, <2>1, <2>2, <2>3, <2>4, Zenon DEF Repaged
<1>13. PageOf(t.c, o) = j
  <2>1. Written(t.c, j) /\ t.c[j].obj = o
    BY <1>6, <1>7, <1>11 DEF Written
  <2>2. PageOf(t.c, o) # 0
    BY <2>1, PageOfIs
  <2>3. /\ PageOf(t.c, o) \in Cache /\ Written(t.c, PageOf(t.c, o))
        /\ t.c[PageOf(t.c, o)].obj = o
    BY <2>2, PageOfIs
  <2>4. CASE PageOf(t.c, o) # j
    <3>1. t.c[PageOf(t.c, o)] = s.c[PageOf(t.c, o)]
      BY <1>7, <1>11, <2>3, <2>4
    <3>2. Written(s.c, PageOf(t.c, o)) /\ s.c[PageOf(t.c, o)].obj = o
      BY <2>3, <3>1 DEF Written
    <3> QED
      BY <2>3, <3>2, NoPage
  <2> QED
    BY <2>4
<1>14. Vis(t, o) = Spliced(s.objs[o], at, data)
  <2>1. j # 0
    BY Positive
  <2>2. t.c[j].offset = at /\ t.c[j].data = data
    BY <1>6, <1>7, <1>11
  <2> QED
    BY <1>11, <1>13, <2>1, <2>2, Zenon DEF Vis
<1>15. Len(Vis(t, o)) >= Len(Vis(s, o))
  <2>1. Vis(s, o) = s.objs[o]
    BY Zenon DEF Vis
  <2> QED
    BY <1>2, <1>14, <2>1, Grows
<1>16. Puts(s, t, o, Vis(t, o))
  BY <1>1, <1>12, <1>15, RepagedPuts
<1> QED
  BY <1>14, <1>16 DEF t, r, d, new

\* A page to take is one without written bytes.
LEMMA SlotsFree ==
  ASSUME NEW c, NEW j \in Slots(c)
  PROVE  j = 0 \/ (j \in Cache /\ ~Written(c, j))
<1>1. Others(c) \in SUBSET Nat
  BY Positive DEF Others
<1>2. j # 0 => Others(c) # {} /\ j = Lowest(Others(c))
  BY DEF Slots
<1>3. j # 0 => j \in Others(c)
  BY <1>1, <1>2, LowestIs
<1> QED
  BY <1>3 DEF Others, Written

\* A small write: into the page of the object, into a new one, or to flash.
LEMMA BufferPuts ==
  ASSUME NEW s, Good(s), NEW f \in Fds, s.fds[f].used,
         s.fds[f].cache_page = PageOf(s.c, s.fds[f].obj),
         NEW data \in Seq(Values), NEW at \in 0..Len(Vis(s, s.fds[f].obj)),
         NEW t \in Buffer(s, f, at, data)
  PROVE  LET o == s.fds[f].obj
         IN Puts(s, t, o, Spliced(Vis(s, o), at, data))
<1> DEFINE o == s.fds[f].obj
           i == s.fds[f].cache_page
           page == s.c[i]
           fits == i # 0 /\ Within(page, at, Len(data))
           kept == [s EXCEPT !.c = [@ EXCEPT ![i] =
                      WritePage(page.obj, page.offset,
                                Spliced(page.data, at - page.offset, data))]]
           r == IF i = 0 THEN s ELSE WriteBack(s, f)
<1>1. s \in States /\ o \in Objects /\ Joined(s)
  BY DEF Good, Sized
<1>2. Vis(s, o) \in Seq(Values)
  BY <1>1, VisType
<1>3. at \in Int
  OBVIOUS
<1>4. CASE fits
  <2>1. t = kept
    BY <1>4, Zenon DEF Buffer
  <2>2. Puts(s, kept, o, Spliced(Vis(s, o), at, data))
    BY <1>3, <1>4, KeptPuts
  <2> QED
    BY <2>1, <2>2
<1>5. CASE ~fits
  <2>1. PICK j \in Slots(r.c) :
          t = IF j = 0 THEN Stored(r, f, at, data)
              ELSE With([r EXCEPT !.c = [@ EXCEPT ![j] = WritePage(r.fds[f].obj, at, data)]],
                        f, [r.fds[f] EXCEPT !.cache_page = j])
    BY <1>5, Zenon DEF Buffer
  <2>2. /\ Settles(s, r) /\ PageOf(r.c, o) = 0 /\ r.objs[o] = Vis(s, o)
    <3>1. CASE i = 0
      <4>1. Settles(s, s)
        BY DEF Settles, SameHandles, Alike
      <4>2. Vis(s, o) = s.objs[o]
        BY <1>1, <3>1, VisType
      <4> QED
        BY <3>1, <4>1, <4>2
    <3>2. CASE i # 0
      BY <3>2, WriteBackIs
    <3> QED
      BY <3>1, <3>2
  <2> HIDE DEF r
  <2>3. Good(r) /\ r.fds[f].used /\ r.fds[f].obj = o
    BY <2>2 DEF Settles, SameHandles, Alike
  <2>4. at \in 0..Len(r.objs[o])
    BY <2>2
  <2>5. Puts(r, t, o, Spliced(r.objs[o], at, data))
    <3>1. CASE j = 0
      <4>1. t = Stored(r, f, at, data)
        BY <2>1, <3>1
      <4> QED
        BY <2>2, <2>3, <2>4, <4>1, StoredPuts
    <3>2. CASE j # 0
      <4>1. j \in Cache /\ ~Written(r.c, j)
        BY <3>2, SlotsFree
      <4>2. t = With([r EXCEPT !.c = [@ EXCEPT ![j] = WritePage(r.fds[f].obj, at, data)]],
                     f, [r.fds[f] EXCEPT !.cache_page = j])
        BY <2>1, <3>2
      <4> HIDE DEF o
      <4> QED
        BY <2>2, <2>3, <2>4, <4>1, <4>2, NewPuts
    <3> QED
      BY <3>1, <3>2
  <2>6. Puts(r, t, o, Spliced(Vis(s, o), at, data))
    BY <2>2, <2>5
  <2> QED
    BY <1>1, <2>2, <2>6, SettlesPuts
<1> QED
  BY <1>4, <1>5

\* A big write: to flash, once or twice.
LEMMA ThroughPuts ==
  ASSUME NEW s, Good(s), NEW f \in Fds, s.fds[f].used,
         s.fds[f].cache_page = PageOf(s.c, s.fds[f].obj),
         NEW data \in Seq(Values), NEW at \in 0..Len(Vis(s, s.fds[f].obj))
  PROVE  LET o == s.fds[f].obj
         IN Puts(s, Through(s, f, at, data), o, Spliced(Vis(s, o), at, data))
<1> DEFINE o == s.fds[f].obj
           new == Spliced(Vis(s, o), at, data)
           t == Through(s, f, at, data)
<1>1. s \in States /\ o \in Objects /\ Joined(s)
  BY DEF Good, Sized
<1>2. Vis(s, o) \in Seq(Values)
  BY <1>1, VisType
<1>3. CASE s.fds[f].cache_page = 0
  <2>1. Vis(s, o) = s.objs[o] /\ t = Stored(s, f, at, data)
    BY <1>1, <1>3, VisType DEF Through
  <2>2. PageOf(s.c, o) = 0 /\ at \in 0..Len(s.objs[o])
    BY <1>3, <2>1
  <2>3. Puts(s, Stored(s, f, at, data), o, Spliced(s.objs[o], at, data))
    BY <2>2, StoredPuts
  <2> QED
    BY <2>1, <2>3
<1>4. CASE s.fds[f].cache_page # 0
  <2> DEFINE r == WriteBack(s, f)
             u == Stored(r, f, at, data)
  <2>1. t = Stored(u, f, at, data)
    BY <1>4, Zenon DEF Through
  <2>2. Settles(s, r) /\ r.objs[o] = Vis(s, o) /\ PageOf(r.c, o) = 0
    BY <1>4, WriteBackIs
  <2> HIDE DEF r
  <2>3. Good(r) /\ r.fds[f].used /\ r.fds[f].obj = o
    BY <2>2 DEF Settles, SameHandles, Alike
  <2>4. at \in 0..Len(r.objs[o])
    BY <2>2
  <2>5. /\ Puts(r, u, o, new) /\ u.objs[o] = new /\ PageOf(u.c, o) = 0
        /\ u.fds[f].used /\ u.fds[f].obj = o
    BY <2>2, <2>3, <2>4, StoredPuts
  <2>6. at \in 0..Len(new) /\ Spliced(new, at, data) = new
    <3>1. Spliced(new, at, data) = new
      BY <1>2, SplicedTwice
    <3>2. new \in Seq(Values) /\ Len(new) >= Len(Vis(s, o))
      BY <1>2, Grows
    <3> QED
      BY <1>2, <3>1, <3>2
  <2> HIDE DEF u, new
  <2>7. Puts(u, t, o, new)
    <3>1. Good(u)
      BY <2>5 DEF Puts
    <3> HIDE DEF t
    <3> QED
      BY <2>1, <2>5, <2>6, <3>1, StoredPuts
  <2>8. Puts(s, u, o, new)
    BY <1>1, <2>2, <2>5, SettlesPuts
  <2>9. SameHandles(s, t)
    BY <2>7, <2>8 DEF Puts, SameHandles, Alike
  <2>10. ASSUME NEW x \in Objects
         PROVE  /\ x # o => Vis(t, x) = Vis(s, x)
                /\ t.objs[x] \in {s.objs[x], Vis(s, x), Vis(t, x)}
    <3>1. CASE x = o
      BY <2>5, <2>7, <3>1 DEF Puts
    <3>2. CASE x # o
      BY <2>7, <2>8, <3>2 DEF Puts
    <3> QED
      BY <3>1, <3>2
  <2>11. Good(t) /\ Vis(t, o) = new
    BY <2>7 DEF Puts
  <2> QED
    BY <2>9, <2>10, <2>11 DEF Puts, new
<1> QED
  BY <1>3, <1>4

-----------------------------------------------------------------------------
(* Moving, closing, removing, opening *)

\* Between d and e the offset changed, to n, and perhaps the cursor.
Moved(d, e, n) ==
  /\ e \in Desc /\ e.used = d.used /\ e.obj = d.obj /\ e.append = d.append
  /\ e.fdoffset = n /\ e.size = d.size /\ e.cache_page = d.cache_page

\* A descriptor whose offset moves, with its cursor or without, is the same otherwise.
LEMMA MovedIs ==
  ASSUME NEW d \in Desc, NEW n \in Nat, NEW j \in Int
  PROVE  /\ Moved(d, [d EXCEPT !.fdoffset = n], n)
         /\ Moved(d, [d EXCEPT !.fdoffset = n, !.cursor = j], n)
<1>1. Moved(d, [d EXCEPT !.fdoffset = n], n)
  BY DescOffset DEF Moved
<1>2. Moved(d, [d EXCEPT !.fdoffset = n, !.cursor = j], n)
  <2> DEFINE e == [d EXCEPT !.fdoffset = n, !.cursor = j]
  <2>1. /\ e \in Desc /\ e.used = d.used /\ e.obj = d.obj /\ e.append = d.append
        /\ e.fdoffset = n /\ e.size = d.size /\ e.cache_page = d.cache_page
    BY DEF Desc
  <2> HIDE DEF e
  <2>2. Moved(d, e, n)
    BY <2>1 DEF Moved
  <2> QED
    BY <2>2 DEF e
<1> QED
  BY <1>1, <1>2

\* An offset within what is seen of the file.
LEMMA MovedGood ==
  ASSUME NEW s, Good(s), NEW f \in Fds, s.fds[f].used,
         NEW n \in 0..Len(Vis(s, s.fds[f].obj)), NEW d, Moved(s.fds[f], d, n)
  PROVE  LET t == With(s, f, d)
         IN Good(t) /\ Replaced(s, t, f, d) /\ SameSeen(s, t)
<1>1. /\ d \in Desc /\ d.used = s.fds[f].used /\ d.obj = s.fds[f].obj
      /\ d.fdoffset = n /\ d.size = s.fds[f].size /\ d.cache_page = s.fds[f].cache_page
  BY DEF Moved
<1>2. Fits(s, s.fds[f])
  BY GoodFits
<1>3. Fits(s, d)
  BY <1>1, <1>2 DEF Fits
<1> QED
  BY <1>1, <1>3, WithGood, Zenon

\* A descriptor that refers to no page is given back.
LEMMA ClosedGood ==
  ASSUME NEW s, Good(s), NEW f \in Fds, s.fds[f].cache_page = 0
  PROVE  LET d == GivenBack(s.fds[f])
             t == With(s, f, d)
         IN Good(t) /\ Replaced(s, t, f, d) /\ SameSeen(s, t) /\ ~d.used
<1> DEFINE d == GivenBack(s.fds[f])
<1>1. d \in Desc /\ ~d.used /\ d.cache_page = 0
  <2>1. d = NoDesc
    BY DEF GivenBack, NoDesc
  <2>2. NoDesc \in Desc
    BY DEF NoDesc, Desc, Sizes, Refers
  <2> QED
    BY <2>1, <2>2 DEF NoDesc
<1> HIDE DEF d
<1>2. Fits(s, d)
  BY <1>1 DEF Fits
<1>3. Good(With(s, f, d)) /\ Replaced(s, With(s, f, d), f, d) /\ SameSeen(s, With(s, f, d))
  BY <1>1, <1>2, WithGood, Zenon
<1> QED
  BY <1>1, <1>3 DEF d

\* In t the object o is empty, has no page and no descriptor; nothing else differs.
Erased(s, t, o) ==
  /\ t \in States /\ t.objs = [s.objs EXCEPT ![o] = <<>>]
  /\ \A j \in Cache :
       /\ Written(t.c, j) <=> Written(s.c, j) /\ s.c[j].obj # o
       /\ Written(t.c, j) => t.c[j] = s.c[j]
  /\ \A g \in Fds :
       /\ t.fds[g].used <=> s.fds[g].used /\ s.fds[g].obj # o
       /\ t.fds[g].used => t.fds[g] = s.fds[g]
       /\ ~t.fds[g].used => t.fds[g].cache_page = 0

\* A file that is emptied with its page and its descriptors leaves the others as they
\* were.
LEMMA ErasedGood ==
  ASSUME NEW s, Good(s), NEW t, NEW o \in Objects, Erased(s, t, o)
  PROVE  /\ Good(t) /\ Vis(t, o) = <<>> /\ t.objs[o] = <<>> /\ PageOf(t.c, o) = 0
         /\ \A x \in Objects : x # o => Vis(t, x) = Vis(s, x) /\ t.objs[x] = s.objs[x]
<1>1. s \in States /\ Refs(s) /\ Joined(s) /\ Single(s) /\ Held(s) /\ Sized(s) /\ Inside(s)
  BY DEF Good
<1>2. s.objs \in [Objects -> Seq(Values)] /\ s.c \in [Cache -> {Other} \cup Page]
  BY <1>1, Parts
<1>3. \A j \in Cache : /\ Written(t.c, j) <=> Written(s.c, j) /\ s.c[j].obj # o
                       /\ Written(t.c, j) => t.c[j] = s.c[j]
  BY DEF Erased
<1>4. \A g \in Fds : /\ t.fds[g].used <=> s.fds[g].used /\ s.fds[g].obj # o
                     /\ t.fds[g].used => t.fds[g] = s.fds[g]
                     /\ ~t.fds[g].used => t.fds[g].cache_page = 0
  BY DEF Erased
<1>5. t \in States /\ t.objs[o] = <<>> /\ \A x \in Objects : x # o => t.objs[x] = s.objs[x]
  BY <1>2 DEF Erased
<1>6. PageOf(t.c, o) = 0
  <2>1. \A j \in Cache : ~(Written(t.c, j) /\ t.c[j].obj = o)
    BY <1>3
  <2> QED
    BY <2>1, PageOfIs
<1>7. Vis(t, o) = <<>>
  BY <1>5, <1>6, Zenon DEF Vis
<1>8. ASSUME NEW x \in Objects, x # o PROVE Vis(t, x) = Vis(s, x)
  <2>1. SamePages(t.c, s.c, x)
    BY <1>3, <1>8 DEF SamePages
  <2>2. PageOf(t.c, x) = PageOf(s.c, x)
    BY <2>1, PageOfSame, Zenon
  <2>3. CASE PageOf(t.c, x) = 0
    BY <1>5, <1>8, <2>2, <2>3, Zenon DEF Vis
  <2>4. CASE PageOf(t.c, x) # 0
    <3>1. PageOf(t.c, x) \in Cache /\ Written(t.c, PageOf(t.c, x))
      BY <2>4, PageOfIs
    <3>2. t.c[PageOf(t.c, x)] = s.c[PageOf(t.c, x)]
      BY <1>3, <3>1
    <3> QED
      BY <1>5, <1>8, <2>2, <2>4, <3>2, Zenon DEF Vis
  <2> QED
    BY <2>3, <2>4
<1>9. Refs(t)
  <2> SUFFICES ASSUME NEW g \in Fds
               PROVE  /\ ~t.fds[g].used => t.fds[g].cache_page = 0
                      /\ t.fds[g].used /\ t.fds[g].cache_page # 0 =>
                           /\ Written(t.c, t.fds[g].cache_page)
                           /\ t.c[t.fds[g].cache_page].obj = t.fds[g].obj
    BY DEF Refs
  <2>1. CASE ~t.fds[g].used
    BY <1>4, <2>1
  <2>2. CASE t.fds[g].used /\ t.fds[g].cache_page # 0
    <3>1. t.fds[g] = s.fds[g] /\ s.fds[g].used /\ s.fds[g].obj # o
      BY <1>4, <2>2
    <3>2. /\ Written(s.c, t.fds[g].cache_page)
          /\ s.c[t.fds[g].cache_page].obj = t.fds[g].obj
      BY <1>1, <2>2, <3>1 DEF Refs
    <3>3. t.fds[g].cache_page \in Cache
      BY <1>5, <2>2, Parts, DescFields DEF Refers
    <3> QED
      BY <1>3, <3>1, <3>2, <3>3
  <2> QED
    BY <2>1, <2>2
<1>10. Joined(t)
  <2> SUFFICES ASSUME NEW j \in Cache, Written(t.c, j)
               PROVE  t.c[j].offset <= Len(t.objs[t.c[j].obj])
    BY DEF Joined
  <2>1. Written(s.c, j) /\ s.c[j].obj # o /\ t.c[j] = s.c[j]
    BY <1>3
  <2>2. s.c[j].obj \in Objects
    BY <1>2, <2>1, Pages
  <2> QED
    BY <1>1, <1>5, <2>1, <2>2 DEF Joined
<1>11. Single(t)
  BY <1>1, <1>3, Zenon DEF Single
<1>12. Held(t)
  <2> SUFFICES ASSUME NEW j \in Cache, Written(t.c, j)
               PROVE  \E g \in Fds : t.fds[g].used /\ t.fds[g].cache_page = j
    BY DEF Held
  <2>1. Written(s.c, j) /\ s.c[j].obj # o
    BY <1>3
  <2>2. PICK g \in Fds : s.fds[g].used /\ s.fds[g].cache_page = j
    BY <1>1, <2>1 DEF Held
  <2>3. s.fds[g].obj # o
    BY <1>1, <2>1, <2>2, Positive DEF Refs
  <2> QED
    BY <1>4, <2>2, <2>3
<1>13. Sized(t)
  <2> SUFFICES ASSUME NEW g \in Fds, t.fds[g].used
               PROVE  /\ t.fds[g].obj \in Objects
                      /\ Larger(t.fds[g].size, 0) = Len(t.objs[t.fds[g].obj])
    BY DEF Sized
  <2>1. t.fds[g] = s.fds[g] /\ s.fds[g].used /\ s.fds[g].obj # o
    BY <1>4
  <2> QED
    BY <1>1, <1>5, <2>1 DEF Sized
<1>14. Inside(t)
  <2> SUFFICES ASSUME NEW g \in Fds, t.fds[g].used
               PROVE  t.fds[g].fdoffset <= Len(Vis(t, t.fds[g].obj))
    BY DEF Inside
  <2>1. t.fds[g] = s.fds[g] /\ s.fds[g].used /\ s.fds[g].obj # o /\ s.fds[g].obj \in Objects
    BY <1>1, <1>4 DEF Sized
  <2> QED
    BY <1>1, <1>8, <2>1 DEF Inside
<1>15. Good(t)
  BY <1>5, <1>9, <1>10, <1>11, <1>12, <1>13, <1>14 DEF Good
<1> QED
  BY <1>5, <1>6, <1>7, <1>8, <1>15

\* In r the page of o is dropped and no descriptor refers to it.
Dropped(s, r, o) ==
  /\ r \in States /\ r.objs = s.objs
  /\ \A j \in Cache :
       /\ Written(r.c, j) <=> Written(s.c, j) /\ s.c[j].obj # o
       /\ Written(r.c, j) => r.c[j] = s.c[j]
  /\ \A g \in Fds :
       /\ Alike(s.fds[g], r.fds[g])
       /\ IF s.fds[g].used /\ s.fds[g].obj = o THEN r.fds[g].cache_page = 0
          ELSE r.fds[g] = s.fds[g]

\* The object layer, told of a removal, empties the file for every descriptor.
LEMMA RemovedErases ==
  ASSUME NEW s, Good(s), NEW r, NEW o \in Objects, Dropped(s, r, o)
  PROVE  Erased(s, Removed(r, o), o)
<1> DEFINE d == [f \in Fds |-> IF r.fds[f].used /\ r.fds[f].obj = o
                               THEN GivenBack(r.fds[f]) ELSE r.fds[f]]
           x == [r.objs EXCEPT ![o] = <<>>]
           t == Removed(r, o)
<1>1. /\ r \in States /\ r.objs = s.objs
      /\ \A g \in Fds :
           /\ Alike(s.fds[g], r.fds[g])
           /\ IF s.fds[g].used /\ s.fds[g].obj = o THEN r.fds[g].cache_page = 0
              ELSE r.fds[g] = s.fds[g]
  BY Zenon DEF Dropped
<1>2. r.objs \in [Objects -> Seq(Values)] /\ r.fds \in [Fds -> Desc]
  BY <1>1, Parts
<1>3. NoDesc \in Desc /\ ~NoDesc.used /\ NoDesc.cache_page = 0
  BY DEF NoDesc, Desc, Sizes, Refers
<1>4. x \in [Objects -> Seq(Values)]
  <2>1. <<>> \in Seq(Values)
    OBVIOUS
  <2> QED
    BY <1>2, <2>1
<1>5. ASSUME NEW g \in Fds
      PROVE  /\ d[g] \in Desc
             /\ s.fds[g].used /\ s.fds[g].obj = o => d[g] = NoDesc
             /\ ~(s.fds[g].used /\ s.fds[g].obj = o) => d[g] = s.fds[g]
  <2>1. d[g] = IF r.fds[g].used /\ r.fds[g].obj = o THEN GivenBack(r.fds[g]) ELSE r.fds[g]
    BY Zenon
  <2>2. r.fds[g].used = s.fds[g].used /\ r.fds[g].obj = s.fds[g].obj
    BY <1>1 DEF Alike
  <2>3. r.fds[g].cache_page = 0 => GivenBack(r.fds[g]) = NoDesc
    BY DEF GivenBack, NoDesc
  <2>4. r.fds[g] \in Desc
    BY <1>2
  <2> HIDE DEF d
  <2>5. CASE s.fds[g].used /\ s.fds[g].obj = o
    <3>1. r.fds[g].cache_page = 0
      BY <1>1, <2>5
    <3> QED
      BY <1>3, <2>1, <2>2, <2>3, <2>5, <3>1
  <2>6. CASE ~(s.fds[g].used /\ s.fds[g].obj = o)
    <3>1. r.fds[g] = s.fds[g]
      BY <1>1, <2>6
    <3> QED
      BY <2>1, <2>2, <2>4, <2>6, <3>1
  <2> QED
    BY <2>5, <2>6
<1>6. d \in [Fds -> Desc]
  BY <1>5, Zenon
<1>7. t = [r EXCEPT !.objs = [@ EXCEPT ![o] = <<>>], !.fds = d]
  BY DEF Removed
<1>8. t = [r EXCEPT !.objs = x, !.fds = d]
  BY <1>7
<1> HIDE DEF d, x, t
<1>9. t \in States /\ t.objs = x /\ t.fds = d /\ t.c = r.c
  BY <1>1, <1>4, <1>6, <1>8 DEF States
<1>10. ASSUME NEW g \in Fds
       PROVE  /\ d[g].used <=> s.fds[g].used /\ s.fds[g].obj # o
              /\ d[g].used => d[g] = s.fds[g]
              /\ ~d[g].used => d[g].cache_page = 0
  <2>1. Refs(s)
    BY DEF Good
  <2>2. ~s.fds[g].used => s.fds[g].cache_page = 0
    BY <2>1 DEF Refs
  <2> QED
    BY <1>3, <1>5, <2>2
<1>11. \A j \in Cache :
         /\ Written(r.c, j) <=> Written(s.c, j) /\ s.c[j].obj # o
         /\ Written(r.c, j) => r.c[j] = s.c[j]
  BY Zenon DEF Dropped
<1>12. t.objs = [s.objs EXCEPT ![o] = <<>>]
  BY <1>1, <1>9 DEF x
<1>13. /\ \A j \in Cache :
            /\ Written(t.c, j) <=> Written(s.c, j) /\ s.c[j].obj # o
            /\ Written(t.c, j) => t.c[j] = s.c[j]
       /\ \A g \in Fds :
            /\ t.fds[g].used <=> s.fds[g].used /\ s.fds[g].obj # o
            /\ t.fds[g].used => t.fds[g] = s.fds[g]
            /\ ~t.fds[g].used => t.fds[g].cache_page = 0
  BY <1>9, <1>10, <1>11
<1> QED
  BY <1>9, <1>12, <1>13, Zenon DEF Erased, t

\* An object without a page has nothing to drop.
LEMMA NothingDropped ==
  ASSUME NEW s, Good(s), NEW o \in Objects, PageOf(s.c, o) = 0
  PROVE  Dropped(s, s, o)
<1>1. s \in States /\ Refs(s)
  BY DEF Good
<1>2. \A j \in Cache : Written(s.c, j) => s.c[j].obj # o
  BY NoPage
<1>3. ASSUME NEW g \in Fds, s.fds[g].used, s.fds[g].obj = o
      PROVE  s.fds[g].cache_page = 0
  BY <1>3, RefersTo, Positive
<1>4. \A g \in Fds : Alike(s.fds[g], s.fds[g])
  BY DEF Alike
<1> QED
  BY <1>1, <1>2, <1>3, <1>4, Zenon DEF Dropped

\* The page of the descriptor is dropped, and forgotten by all.
LEMMA PageDropped ==
  ASSUME NEW s, Good(s), NEW f \in Fds, s.fds[f].used, s.fds[f].cache_page # 0
  PROVE  LET i == s.fds[f].cache_page
         IN Dropped(s, [s EXCEPT !.fds = Forget(@, i), !.c = [@ EXCEPT ![i] = Other]],
                    s.fds[f].obj)
<1> DEFINE i == s.fds[f].cache_page
           o == s.fds[f].obj
           d == Forget(s.fds, i)
           c == [s.c EXCEPT ![i] = Other]
           r == [s EXCEPT !.fds = Forget(@, i), !.c = [@ EXCEPT ![i] = Other]]
<1>1. /\ i \in Cache /\ o \in Objects /\ Written(s.c, i) /\ s.c[i].obj = o
      /\ PageOf(s.c, o) = i
  BY RefersTo
<1>2. s \in States /\ Refs(s) /\ Single(s)
  BY DEF Good
<1>3. s.c \in [Cache -> {Other} \cup Page] /\ s.fds \in [Fds -> Desc]
  BY <1>2, Parts
<1>4. Forgets(s.fds, d, i)
  BY <1>1, <1>3, ForgetIs, Zenon
<1>5. \A g \in Fds : d[g] = IF s.fds[g].used /\ s.fds[g].cache_page = i
                            THEN [s.fds[g] EXCEPT !.cache_page = 0] ELSE s.fds[g]
  BY Zenon DEF Forget
<1>6. /\ c \in [Cache -> {Other} \cup Page] /\ ~Written(c, i)
      /\ \A j \in Cache \ {i} : c[j] = s.c[j] /\ (Written(c, j) <=> Written(s.c, j))
  BY <1>1, <1>3 DEF Written, Other
<1>7. r = [s EXCEPT !.fds = d, !.c = c]
  BY <1>2 DEF States
<1> HIDE DEF c, d, r, i, o
<1>8. r \in States /\ r.fds = d /\ r.c = c /\ r.objs = s.objs
  BY <1>2, <1>4, <1>6, <1>7 DEF States, Forgets
<1>9. ASSUME NEW j \in Cache
      PROVE  /\ Written(c, j) <=> Written(s.c, j) /\ s.c[j].obj # o
             /\ Written(c, j) => c[j] = s.c[j]
  <2>1. CASE j = i
    BY <1>1, <1>6, <2>1
  <2>2. CASE j # i
    <3>1. Written(s.c, j) => s.c[j].obj # o
      BY <1>1, <1>2, <2>2, Zenon DEF Single
    <3>2. c[j] = s.c[j] /\ (Written(c, j) <=> Written(s.c, j))
      BY <1>6, <2>2
    <3> QED
      BY <3>1, <3>2
  <2> QED
    BY <2>1, <2>2
<1>10. ASSUME NEW g \in Fds
       PROVE  /\ Alike(s.fds[g], d[g])
              /\ IF s.fds[g].used /\ s.fds[g].obj = o THEN d[g].cache_page = 0
                 ELSE d[g] = s.fds[g]
  <2>1. Alike(s.fds[g], d[g])
    BY <1>4 DEF Forgets
  <2>2. CASE s.fds[g].used /\ s.fds[g].obj = o
    <3>1. s.fds[g].cache_page # 0 => s.fds[g].cache_page = i
      BY <1>1, <2>2, RefersTo
    <3>2. d[g].cache_page = IF s.fds[g].used /\ s.fds[g].cache_page = i
                            THEN 0 ELSE s.fds[g].cache_page
      BY <1>4 DEF Forgets
    <3> QED
      BY <2>1, <2>2, <3>1, <3>2
  <2>3. CASE ~(s.fds[g].used /\ s.fds[g].obj = o)
    <3>1. ~(s.fds[g].used /\ s.fds[g].cache_page = i)
      <4>1. SUFFICES ASSUME s.fds[g].used, s.fds[g].cache_page = i PROVE FALSE
        OBVIOUS
      <4>2. i # 0
        BY <1>1, Positive
      <4> QED
        BY <1>1, <1>2, <2>3, <4>1, <4>2 DEF Refs
    <3>2. d[g] = s.fds[g]
      BY <1>5, <3>1
    <3> QED
      BY <2>1, <2>3, <3>2
  <2> QED
    BY <2>2, <2>3
<1>11. Dropped(s, r, o)
  BY <1>8, <1>9, <1>10, Zenon DEF Dropped
<1> QED
  BY <1>11 DEF r, d, c, i, o

\* The descriptor a call opens.
OpenedDesc(s, f, o, flags) ==
  [s.fds[f] EXCEPT !.used = TRUE, !.obj = o,
                   !.size = IF s.objs[o] = <<>> THEN UndefinedLen ELSE Len(s.objs[o]),
                   !.append = "append" \in flags,
                   !.fdoffset = 0, !.cursor = 0]

\* The descriptor a file is opened with is at its beginning, and knows its size.
LEMMA OpenedIs ==
  ASSUME NEW s \in States, NEW f \in Fds, NEW o \in Objects, NEW flags
  PROVE  LET d == OpenedDesc(s, f, o, flags)
         IN /\ d \in Desc /\ d.used /\ d.obj = o /\ d.fdoffset = 0
            /\ d.cache_page = s.fds[f].cache_page
            /\ Larger(d.size, 0) = Len(s.objs[o])
            /\ d.append \in BOOLEAN
<1> DEFINE b == s.fds[f]
           size == IF s.objs[o] = <<>> THEN UndefinedLen ELSE Len(s.objs[o])
           app == "append" \in flags
           d == OpenedDesc(s, f, o, flags)
<1>1. b \in Desc /\ s.objs[o] \in Seq(Values)
  BY Parts
<1>2. size \in Sizes /\ Larger(size, 0) = Len(s.objs[o])
  <2>1. Len(s.objs[o]) \in Nat /\ (s.objs[o] = <<>> => Len(s.objs[o]) = 0)
    BY <1>1
  <2> QED
    BY <2>1 DEF Sizes, Larger, UndefinedLen
<1>3. app \in BOOLEAN /\ TRUE \in BOOLEAN /\ o \in Nat /\ 0 \in Nat /\ 0 \in Int
  BY Positive
<1>4. d = [b EXCEPT !.used = TRUE, !.obj = o, !.size = size, !.append = app,
                    !.fdoffset = 0, !.cursor = 0]
  BY Zenon DEF OpenedDesc
<1>5. PICK a \in BOOLEAN : a = app
  BY <1>3
<1> HIDE DEF b, size, app, d
<1> DEFINE w == [b EXCEPT !.used = TRUE, !.obj = o, !.size = size]
<1>6. /\ w \in Desc /\ w.used = TRUE /\ w.obj = o /\ w.size = size
      /\ w.cache_page = b.cache_page
  BY <1>1, <1>2, <1>3 DEF Desc
<1>7. d = [w EXCEPT !.append = a, !.fdoffset = 0, !.cursor = 0]
  BY <1>1, <1>4, <1>5 DEF Desc
<1> HIDE DEF w
<1>8. /\ d \in Desc /\ d.used = w.used /\ d.obj = w.obj /\ d.size = w.size
      /\ d.cache_page = w.cache_page /\ d.fdoffset = 0 /\ d.append = a
  BY <1>3, <1>6, <1>7 DEF Desc
<1> QED
  BY <1>2, <1>6, <1>8 DEF b, size, d

\* Opening a file others may have open, without truncating it.
LEMMA OpenedGood ==
  ASSUME NEW s, Good(s), NEW f \in Fds, ~s.fds[f].used, NEW o \in Objects, NEW flags
  PROVE  LET d == OpenedDesc(s, f, o, flags)
             t == With(s, f, d)
         IN Good(t) /\ Replaced(s, t, f, d) /\ SameSeen(s, t)
<1> DEFINE d == OpenedDesc(s, f, o, flags)
<1>1. s \in States /\ Joined(s) /\ Refs(s)
  BY DEF Good
<1>2. /\ d \in Desc /\ d.used /\ d.obj = o /\ d.fdoffset = 0
      /\ d.cache_page = s.fds[f].cache_page
      /\ Larger(d.size, 0) = Len(s.objs[o])
  BY <1>1, OpenedIs
<1>3. s.fds[f].cache_page = 0
  BY <1>1 DEF Refs
<1>4. Len(Vis(s, o)) \in Nat
  BY <1>1, VisType
<1> HIDE DEF d
<1>5. Fits(s, d)
  BY <1>2, <1>3, <1>4 DEF Fits
<1>6. Good(With(s, f, d)) /\ Replaced(s, With(s, f, d), f, d) /\ SameSeen(s, With(s, f, d))
  BY <1>2, <1>3, <1>5, WithGood, Zenon
<1> QED
  BY <1>6 DEF d

\* A file that no descriptor has open has no bytes buffered.
LEMMA AloneNoPage ==
  ASSUME NEW s, Good(s), NEW o \in Objects, \A g \in Fds : s.fds[g].used => s.fds[g].obj # o
  PROVE  PageOf(s.c, o) = 0
<1>1. Refs(s) /\ Held(s)
  BY DEF Good
<1>2. ASSUME NEW j \in Cache, Written(s.c, j), s.c[j].obj = o PROVE FALSE
  <2>1. PICK g \in Fds : s.fds[g].used /\ s.fds[g].cache_page = j
    BY <1>1, <1>2 DEF Held
  <2>2. s.fds[g].obj = o
    BY <1>1, <1>2, <2>1, Positive DEF Refs
  <2> QED
    BY <2>1, <2>2
<1> QED
  BY <1>2, PageOfIs

\* Opening a file that no other descriptor has open and truncating it.
LEMMA TruncatedGood ==
  ASSUME NEW s, Good(s), NEW f \in Fds, ~s.fds[f].used, NEW o \in Objects, NEW flags,
         \A g \in Fds : s.fds[g].used => s.fds[g].obj # o
  PROVE  LET d == OpenedDesc(s, f, o, flags)
             t == Truncated(With(s, f, d), f)
         IN /\ Good(t) /\ Vis(t, o) = <<>> /\ t.objs[o] = <<>>
            /\ \A x \in Objects : x # o => Vis(t, x) = Vis(s, x) /\ t.objs[x] = s.objs[x]
            /\ Alike(d, t.fds[f])
            /\ \A g \in Fds \ {f} : t.fds[g] = s.fds[g]
<1> DEFINE d == OpenedDesc(s, f, o, flags)
           r == With(s, f, d)
           t == Truncated(r, f)
<1>1. s \in States /\ Joined(s) /\ Refs(s)
  BY DEF Good
<1>2. /\ s.objs \in [Objects -> Seq(Values)] /\ s.fds \in [Fds -> Desc]
      /\ s.c \in [Cache -> {Other} \cup Page]
  BY <1>1, Parts
<1>3. /\ d \in Desc /\ d.used /\ d.obj = o /\ d.fdoffset = 0
      /\ d.cache_page = s.fds[f].cache_page
      /\ Larger(d.size, 0) = Len(s.objs[o])
  BY <1>1, OpenedIs
<1>4. Good(r) /\ Replaced(s, r, f, d) /\ SameSeen(s, r)
  BY OpenedGood, Zenon
<1>5. PageOf(s.c, o) = 0
  BY AloneNoPage
<1>6. s.fds[f].cache_page = 0
  BY <1>1 DEF Refs
<1> HIDE DEF d, r
<1>7. r.fds[f] = d /\ r.objs = s.objs /\ r.c = s.c /\ \A g \in Fds \ {f} : r.fds[g] = s.fds[g]
  BY <1>4 DEF Replaced
<1>8. CASE d.size \in {UndefinedLen, 0}
  <2>1. t = r
    BY <1>7, <1>8 DEF Truncated
  <2>2. s.objs[o] = <<>>
    <3>1. Len(s.objs[o]) = 0
      BY <1>3, <1>8 DEF Larger, UndefinedLen
    <3> QED
      BY <1>2, <3>1
  <2>3. Vis(s, o) = s.objs[o]
    BY <1>1, <1>5, VisType
  <2>4. Alike(d, t.fds[f])
    BY <1>7, <2>1 DEF Alike
  <2>5. Good(t) /\ Vis(t, o) = <<>> /\ t.objs[o] = <<>>
    BY <1>4, <1>7, <2>1, <2>2, <2>3 DEF SameSeen
  <2>6. \A x \in Objects : x # o => Vis(t, x) = Vis(s, x) /\ t.objs[x] = s.objs[x]
    BY <1>4, <1>7, <2>1 DEF SameSeen
  <2>7. \A g \in Fds \ {f} : t.fds[g] = s.fds[g]
    BY <1>7, <2>1
  <2> QED
    BY <2>4, <2>5, <2>6, <2>7 DEF t, r, d
<1>9. CASE d.size \notin {UndefinedLen, 0}
  <2> DEFINE x == [s.objs EXCEPT ![o] = <<>>]
             e == [s EXCEPT !.objs = x]
             w == [[d EXCEPT !.size = UndefinedLen] EXCEPT !.size = 0, !.cursor = 0]
             h == Grown(r.fds, f, o, UndefinedLen)
             k == [h EXCEPT ![f] = [@ EXCEPT !.size = 0, !.cursor = 0]]
  <2>1. x \in [Objects -> Seq(Values)] /\ x[o] = <<>>
    BY <1>2
  <2> HIDE DEF x
  <2>2. e \in States /\ e.objs = x /\ e.fds = s.fds /\ e.c = s.c
    BY <1>1, <2>1 DEF States
  <2> HIDE DEF e
  <2>3. Erased(s, e, o)
    <3>1. \A j \in Cache : Written(s.c, j) => s.c[j].obj # o
      BY <1>5, NoPage
    <3>2. \A g \in Fds : ~s.fds[g].used => s.fds[g].cache_page = 0
      BY <1>1 DEF Refs
    <3>3. e.objs = [s.objs EXCEPT ![o] = <<>>]
      BY <2>2 DEF x
    <3> QED
      BY <2>2, <3>1, <3>2, <3>3, Zenon DEF Erased
  <2>4. /\ Good(e) /\ Vis(e, o) = <<>> /\ e.objs[o] = <<>>
        /\ \A y \in Objects : y # o => Vis(e, y) = Vis(s, y) /\ e.objs[y] = s.objs[y]
    BY <2>3, ErasedGood, Zenon
  <2>5. /\ w \in Desc /\ Alike(d, w) /\ w.size = 0 /\ w.cache_page = d.cache_page
    <3> DEFINE v == [d EXCEPT !.size = UndefinedLen]
    <3>1. v \in Desc /\ Alike(d, v) /\ v.cache_page = d.cache_page
      <4>1. UndefinedLen \in Sizes
        BY DEF Sizes
      <4> QED
        BY <1>3, <4>1, DescSize
    <3> HIDE DEF v
    <3>2. [v EXCEPT !.size = 0, !.cursor = 0] \in Desc
      <4>1. 0 \in Sizes /\ 0 \in Int
        BY DEF Sizes
      <4> QED
        BY <3>1, <4>1 DEF Desc
    <3>3. LET z == [v EXCEPT !.size = 0, !.cursor = 0]
          IN z.used = v.used /\ z.obj = v.obj /\ z.append = v.append
             /\ z.fdoffset = v.fdoffset /\ z.size = 0 /\ z.cache_page = v.cache_page
      BY <3>1 DEF Desc
    <3> QED
      BY <3>1, <3>2, <3>3 DEF Alike, v
  <2> HIDE DEF w
  <2>6. Fits(e, w)
    <3>1. w.used /\ w.obj = o /\ w.fdoffset = 0 /\ w.cache_page = 0
      BY <1>3, <1>6, <2>5 DEF Alike
    <3>2. Len(e.objs[o]) = 0 /\ Len(Vis(e, o)) = 0
      BY <2>4
    <3> QED
      BY <2>5, <3>1, <3>2 DEF Fits, Larger
  <2>7. Good(With(e, f, w)) /\ Replaced(e, With(e, f, w), f, w) /\ SameSeen(e, With(e, f, w))
    BY <1>6, <2>2, <2>4, <2>5, <2>6, WithGood, Zenon
  <2> DEFINE u == With(e, f, w)
  <2> HIDE DEF u
  <2>8. u.objs = x /\ u.c = s.c /\ u.fds[f] = w /\ \A g \in Fds \ {f} : u.fds[g] = s.fds[g]
    BY <2>2, <2>7 DEF Replaced, u
  <2>9. t = [r EXCEPT !.objs = x, !.fds = k]
    BY <1>3, <1>7, <1>9 DEF Truncated, x
  <2>10. r \in States /\ r.fds \in [Fds -> Desc]
    BY <1>4, Parts DEF Good
  <2>11. \A g \in Fds : h[g] = IF r.fds[g].used /\ r.fds[g].obj = o
                               THEN [r.fds[g] EXCEPT !.size = UndefinedLen] ELSE r.fds[g]
    BY Zenon DEF Grown
  <2>12. h = [g \in Fds |-> h[g]]
    BY DEF Grown
  <2>13. h[f] = [d EXCEPT !.size = UndefinedLen]
    BY <1>3, <1>7, <2>11
  <2>14. \A g \in Fds \ {f} : h[g] = s.fds[g]
    BY <1>7, <2>11
  <2> HIDE DEF h
  <2>15. k[f] = w
    BY <2>12, <2>13 DEF w
  <2>16. \A g \in Fds \ {f} : k[g] = s.fds[g]
    BY <2>12, <2>14
  <2>17. k = [g \in Fds |-> k[g]]
    BY <2>12
  <2> HIDE DEF k
  <2>18. k \in [Fds -> Desc]
    BY <1>2, <2>5, <2>15, <2>16, <2>17
  <2>19. k = u.fds
    <3>1. u.fds \in [Fds -> Desc]
      BY <2>7, Parts DEF Good, u
    <3> QED
      BY <2>8, <2>15, <2>16, <2>18, <3>1
  <2> HIDE DEF t
  <2>20. t \in States /\ t.objs = x /\ t.fds = k /\ t.c = s.c
    BY <1>7, <2>1, <2>9, <2>10, <2>18 DEF States
  <2>21. t = u
    <3>1. u \in States
      BY <2>7 DEF Good, u
    <3>2. t = [objs |-> t.objs, fds |-> t.fds, c |-> t.c]
      BY <2>20, Parts, Zenon
    <3>3. u = [objs |-> u.objs, fds |-> u.fds, c |-> u.c]
      BY <3>1, Parts, Zenon
    <3> QED
      BY <2>8, <2>19, <2>20, <3>2, <3>3
  <2>22. Good(t) /\ SameSeen(e, t)
    BY <2>7, <2>21 DEF u
  <2>23. Vis(t, o) = <<>> /\ \A y \in Objects : y # o => Vis(t, y) = Vis(s, y)
    BY <2>4, <2>22 DEF SameSeen
  <2>24. t.objs[o] = <<>> /\ \A y \in Objects : y # o => t.objs[y] = s.objs[y]
    BY <2>2, <2>4, <2>20
  <2>25. Alike(d, t.fds[f]) /\ \A g \in Fds \ {f} : t.fds[g] = s.fds[g]
    BY <2>5, <2>8, <2>21
  <2> QED
    BY <2>22, <2>23, <2>24, <2>25 DEF t, r, d
<1> QED
  BY <1>8, <1>9

-----------------------------------------------------------------------------
(* Unmounting: one descriptor after the other *)

\* What the descriptor f makes of the state the ones before it left.
After(s, f) == IF s.fds[f].used THEN Flushed(s, f) ELSE s

\* Flushing the descriptors one by one has a result.
LEMMA FlushingExists ==
  \E u : u = [f \in 0..Descs |-> IF f = 0 THEN Now
                                 ELSE IF u[f - 1].fds[f].used THEN Flushed(u[f - 1], f)
                                 ELSE u[f - 1]]
<1> DEFINE Upto(m, u) == /\ u = [f \in 0..m |-> u[f]]
                         /\ u[0] = Now
                         /\ \A f \in 1..m : u[f] = After(u[f - 1], f)
           S == {m \in Nat : \E u : Upto(m, u)}
<1>1. 0 \in S
  <2> DEFINE u == [f \in 0..0 |-> Now]
  <2>1. u[0] = Now /\ u = [f \in 0..0 |-> u[f]]
    OBVIOUS
  <2> HIDE DEF u
  <2>2. Upto(0, u)
    BY <2>1
  <2> QED
    BY <2>2
<1>2. ASSUME NEW m \in Nat, m \in S PROVE m + 1 \in S
  <2>1. PICK u : Upto(m, u)
    BY <1>2
  <2> DEFINE next == After(u[m], m + 1)
             v == [f \in 0..(m + 1) |-> IF f = m + 1 THEN next ELSE u[f]]
  <2> HIDE DEF next
  <2>2. v[0] = Now /\ v = [f \in 0..(m + 1) |-> v[f]]
    BY <2>1
  <2>3. ASSUME NEW f \in 1..(m + 1) PROVE v[f] = After(v[f - 1], f)
    <3>1. v[f - 1] = u[f - 1]
      OBVIOUS
    <3>2. CASE f = m + 1
      BY <3>1, <3>2 DEF next
    <3>3. CASE f # m + 1
      <4>1. f \in 1..m /\ v[f] = u[f]
        BY <3>3
      <4>2. u[f] = After(u[f - 1], f)
        BY <2>1, <4>1
      <4> QED
        BY <3>1, <4>1, <4>2
    <3> QED
      BY <3>2, <3>3
  <2> HIDE DEF v
  <2>4. Upto(m + 1, v)
    BY <2>2, <2>3
  <2> HIDE DEF Upto
  <2> QED
    BY <2>4
<1>3. PICK u : Upto(Descs, u)
  <2>1. Descs \in S
    <3> HIDE DEF S
    <3> QED
      BY <1>1, <1>2, VfsAssumption, Induction
  <2> QED
    BY <2>1
<1> DEFINE w == [f \in 0..Descs |-> IF f = 0 THEN Now
                                    ELSE IF u[f - 1].fds[f].used THEN Flushed(u[f - 1], f)
                                    ELSE u[f - 1]]
<1>4. ASSUME NEW f \in 0..Descs PROVE u[f] = w[f]
  <2>1. CASE f = 0
    BY <1>3, <2>1
  <2>2. CASE f # 0
    <3>1. f \in 1..Descs
      BY <2>2
    <3> QED
      BY <1>3, <2>2, <3>1 DEF After
  <2> QED
    BY <2>1, <2>2
<1>5. w = [f \in 0..Descs |-> w[f]]
  OBVIOUS
<1>6. u = [f \in 0..Descs |-> u[f]]
  BY <1>3
<1>7. u = w
  <2> HIDE DEF w, Upto
  <2> QED
    BY <1>4, <1>5, <1>6
<1> QED
  BY <1>7, Zenon

\* After it everything written is stored.
LEMMA AllFlushedIs ==
  ASSUME Good(Now)
  PROVE  /\ Good(AllFlushed)
         /\ \A o \in Objects : AllFlushed.objs[o] = Vis(Now, o)
<1> DEFINE Runs(u) == u = [f \in 0..Descs |->
                             IF f = 0 THEN Now
                             ELSE IF u[f - 1].fds[f].used THEN Flushed(u[f - 1], f)
                             ELSE u[f - 1]]
           u == CHOOSE x : Runs(x)
<1>1. Runs(u)
  <2>1. \E x : Runs(x)
    BY FlushingExists
  <2> HIDE DEF Runs
  <2> QED
    BY <2>1, Zenon
<1>2. AllFlushed = u[Descs]
  BY DEF AllFlushed
<1> HIDE DEF u
<1>3. /\ u[0] = Now
      /\ \A f \in 1..Descs : u[f] = After(u[f - 1], f)
  BY <1>1, VfsAssumption DEF After
<1> HIDE DEF Runs
<1> DEFINE StoredUpto(t, k) == \A g \in 1..k : Now.fds[g].used =>
                              t.objs[Now.fds[g].obj] = Vis(Now, Now.fds[g].obj)
           S == {k \in Nat : k <= Descs => Settles(Now, u[k]) /\ StoredUpto(u[k], k)}
<1>4. 0 \in S
  <2>1. Settles(Now, Now)
    BY DEF Settles, SameHandles, Alike
  <2> QED
    BY <1>3, <2>1
<1>5. ASSUME NEW k \in Nat, k \in S PROVE k + 1 \in S
  <2> SUFFICES ASSUME k + 1 <= Descs
               PROVE  Settles(Now, u[k + 1]) /\ StoredUpto(u[k + 1], k + 1)
    OBVIOUS
  <2> DEFINE s == u[k]
             t == u[k + 1]
             f == k + 1
  <2>1. Settles(Now, s) /\ StoredUpto(s, k)
    <3>1. k <= Descs
      BY VfsAssumption
    <3> HIDE DEF StoredUpto
    <3> QED
      BY <1>5, <3>1
  <2>2. t = After(s, f)
    BY <1>3
  <2>3. f \in Fds
    BY DEF Fds
  <2> HIDE DEF s, t, f
  <2>4. Good(s) /\ SameHandles(Now, s)
    BY <2>1 DEF Settles
  <2>5. s.fds[f].used = Now.fds[f].used /\ s.fds[f].obj = Now.fds[f].obj
    BY <2>3, <2>4 DEF SameHandles, Alike
  <2>6. CASE s.fds[f].used
    <3> DEFINE o == s.fds[f].obj
    <3>1. t = Flushed(s, f)
      BY <2>2, <2>6 DEF After
    <3>2. Settles(s, t) /\ o \in Objects /\ t.objs[o] = Vis(s, o)
      BY <2>3, <2>4, <2>6, <3>1, FlushedIs
    <3>3. Settles(Now, t)
      BY <2>1, <3>2, SettlesTrans
    <3>4. ASSUME NEW g \in 1..(k + 1), Now.fds[g].used
          PROVE  t.objs[Now.fds[g].obj] = Vis(Now, Now.fds[g].obj)
      <4>1. g \in Fds
        BY <3>4, VfsAssumption DEF Fds
      <4>2. Now.fds[g].obj \in Objects
        <5>1. Sized(Now)
          BY DEF Good
        <5> QED
          BY <3>4, <4>1, <5>1 DEF Sized
      <4>3. CASE g = f
        BY <2>1, <2>5, <3>2, <4>2, <4>3 DEF Settles
      <4>4. CASE g # f
        <5>1. g \in 1..k
          BY <4>4 DEF f
        <5>2. s.objs[Now.fds[g].obj] = Vis(Now, Now.fds[g].obj)
          BY <2>1, <3>4, <5>1
        <5> QED
          BY <2>1, <3>2, <4>2, <5>2 DEF Settles
      <4> QED
        BY <4>3, <4>4
    <3>5. StoredUpto(t, k + 1)
      BY <3>4
    <3> QED
      BY <3>3, <3>5 DEF t
  <2>7. CASE ~s.fds[f].used
    <3>1. t = s
      BY <2>2, <2>7 DEF After
    <3>2. ASSUME NEW g \in 1..(k + 1), Now.fds[g].used
          PROVE  s.objs[Now.fds[g].obj] = Vis(Now, Now.fds[g].obj)
      <4>1. g # f
        BY <2>5, <2>7, <3>2
      <4>2. g \in 1..k
        BY <4>1 DEF f
      <4> QED
        BY <2>1, <3>2, <4>2
    <3>3. StoredUpto(s, k + 1)
      BY <3>2
    <3> QED
      BY <2>1, <3>1, <3>3 DEF t
  <2> QED
    BY <2>6, <2>7
<1>6. Settles(Now, AllFlushed) /\ StoredUpto(AllFlushed, Descs)
  <2>1. Descs \in S
    <3> HIDE DEF S
    <3> QED
      BY <1>4, <1>5, VfsAssumption, Induction
  <2>2. Descs \in Nat
    BY VfsAssumption
  <2> HIDE DEF StoredUpto
  <2> QED
    BY <1>2, <2>1, <2>2
<1> HIDE DEF S
<1>7. ASSUME NEW o \in Objects PROVE AllFlushed.objs[o] = Vis(Now, o)
  <2>1. CASE \E g \in Fds : Now.fds[g].used /\ Now.fds[g].obj = o
    BY <1>6, <2>1 DEF Fds
  <2>2. CASE \A g \in Fds : Now.fds[g].used => Now.fds[g].obj # o
    <3>1. PageOf(Now.c, o) = 0
      BY <2>2, AloneNoPage
    <3>2. Vis(Now, o) = Now.objs[o]
      BY <3>1, VisType DEF Good
    <3> QED
      BY <1>6, <3>2 DEF Settles
  <2> QED
    BY <2>1, <2>2
<1> QED
  BY <1>6, <1>7 DEF Settles

-----------------------------------------------------------------------------
(* The state of the calls: names, and what FileApi sees *)

\* Open files have a name, and what has no name is empty.
Named(s, d) ==
  /\ d \in [Names -> Objects \cup {NoFile}]
  /\ \A f \in Fds : s.fds[f].used => \E n \in Names : d[n] = s.fds[f].obj
  /\ \A o \in Objects : (\A n \in Names : d[n] # o) => s.objs[o] = <<>>

\* The inductive invariant.
VInv == Good(Now) /\ Named(Now, dir)

\* What FileApi sees of a state.
View(d) == IF d.used THEN [open |-> TRUE, file |-> d.obj,
                           off |-> d.fdoffset, append |-> d.append]
           ELSE [open |-> FALSE]
\* What the abstract state is, of a state.
Shown(s) == [o \in Objects |-> Vis(s, o)]
HandlesOf(s) == [f \in Fds |-> View(s.fds[f])]

\* It is that of the state the variables make up.
LEMMA ViewIs ==
  /\ Contents = Shown(Now) /\ Handles = HandlesOf(Now)
  /\ Now.objs = objs /\ Now.fds = fds /\ Now.c = cache
<1>1. \A o \in Objects : Seen(o) = Vis(Now, o)
  BY DEF Seen, Vis, Now
<1>2. \A f \in Fds : HandleOf(f) = View(Now.fds[f])
  BY DEF HandleOf, View, Now
<1> QED
  BY <1>1, <1>2 DEF Contents, Handles, Shown, HandlesOf, Now

\* The same of the next state.
LEMMA ViewNextIs ==
  ASSUME NEW t, Now' = t
  PROVE  /\ Contents' = Shown(t) /\ Handles' = HandlesOf(t)
         /\ objs' = t.objs /\ fds' = t.fds /\ cache' = t.c
<1>1. \A o \in Objects : Seen(o)' = Vis(t, o)
  BY DEF Seen, Vis, Now
<1>2. \A f \in Fds : HandleOf(f)' = View(t.fds[f])
  BY DEF HandleOf, View, Now
<1> QED
  BY <1>1, <1>2 DEF Contents, Handles, Shown, HandlesOf, Now

\* The variables become the state given.
LEMMA BecomesIs ==
  ASSUME NEW t \in States, Becomes(t)
  PROVE  Now' = t
<1>1. t = [objs |-> t.objs, fds |-> t.fds, c |-> t.c]
  BY Parts
<1> QED
  BY <1>1 DEF Becomes, Now

\* What has no name has no buffered bytes either.
LEMMA UnnamedEmpty ==
  ASSUME NEW s, NEW d, Good(s), Named(s, d), NEW o \in Objects, \A n \in Names : d[n] # o
  PROVE  s.objs[o] = <<>> /\ Vis(s, o) = <<>>
<1>1. PageOf(s.c, o) = 0
  <2>1. \A g \in Fds : s.fds[g].used => s.fds[g].obj # o
    BY DEF Named
  <2> QED
    BY <2>1, AloneNoPage
<1>2. s.objs[o] = <<>>
  BY DEF Named
<1> QED
  BY <1>1, <1>2, Zenon DEF Vis

-----------------------------------------------------------------------------
(* Calls on a descriptor *)

\* From s to t the descriptor f moves or is given back and only its own file
\* becomes another; what survives a power cut was seen before, or is seen now.
Acts(s, t, f) ==
  /\ Good(t)
  /\ \A g \in Fds \ {f} : Alike(s.fds[g], t.fds[g])
  /\ t.fds[f].used => t.fds[f].obj = s.fds[f].obj
  /\ \A x \in Objects :
       /\ x # s.fds[f].obj => Vis(t, x) = Vis(s, x)
       /\ t.objs[x] \in {s.objs[x], Vis(s, x), Vis(t, x)}

\* Size, cursor and cache page of a descriptor are not visible.
LEMMA AlikeViews ==
  ASSUME NEW d, NEW e, Alike(d, e)
  PROVE  View(e) = View(d)
BY Zenon DEF Alike, View

\* A call that leaves the directory alone keeps its files named.
LEMMA NamedKept ==
  ASSUME NEW s, NEW t, NEW f \in Fds, NEW d, Good(s), Named(s, d), s.fds[f].used, Acts(s, t, f)
  PROVE  Named(t, d)
<1>1. ASSUME NEW g \in Fds, t.fds[g].used PROVE \E n \in Names : d[n] = t.fds[g].obj
  <2>1. s.fds[g].used /\ t.fds[g].obj = s.fds[g].obj
    BY <1>1 DEF Acts, Alike
  <2> QED
    BY <2>1 DEF Named
<1>2. ASSUME NEW o \in Objects, \A n \in Names : d[n] # o PROVE t.objs[o] = <<>>
  <2>1. o # s.fds[f].obj
    BY <1>2 DEF Named
  <2>2. s.objs[o] = <<>> /\ Vis(s, o) = <<>>
    BY <1>2, UnnamedEmpty
  <2> QED
    BY <2>1, <2>2 DEF Acts
<1> QED
  BY <1>1, <1>2 DEF Named

\* A call on one descriptor that leaves a good state changes the abstract one in what is
\* seen of its object, and in its handle; bytes that reach flash have been seen.
LEMMA ActsStep ==
  ASSUME VInv, NEW f \in Fds, fds[f].used, NEW t, Acts(Now, t, f), Now' = t, dir' = dir
  PROVE  /\ VInv'
         /\ Contents' = [Contents EXCEPT ![fds[f].obj] = Vis(t, fds[f].obj)]
         /\ Handles' = [Handles EXCEPT ![f] = View(t.fds[f])]
         /\ Api!Stores
<1>1. /\ Contents = Shown(Now) /\ Handles = HandlesOf(Now)
      /\ Now.objs = objs /\ Now.fds = fds
  BY ViewIs
<1>2. /\ Contents' = Shown(t) /\ Handles' = HandlesOf(t)
      /\ objs' = t.objs
  BY ViewNextIs
<1>3. Good(Now) /\ Named(Now, dir)
  BY DEF VInv
<1>4. VInv'
  <2>1. Named(t, dir)
    BY <1>1, <1>3, NamedKept
  <2>2. Good(t)
    BY DEF Acts
  <2> QED
    BY <2>1, <2>2 DEF VInv
<1>5. Contents' = [Contents EXCEPT ![fds[f].obj] = Vis(t, fds[f].obj)]
  BY <1>1, <1>2 DEF Acts, Shown
<1>6. Handles' = [Handles EXCEPT ![f] = View(t.fds[f])]
  <2>1. \A g \in Fds \ {f} : View(t.fds[g]) = View(Now.fds[g])
    BY AlikeViews DEF Acts
  <2> QED
    BY <1>1, <1>2, <2>1 DEF HandlesOf
<1>7. Api!Stores
  <2> SUFFICES ASSUME NEW x \in Objects
               PROVE  objs'[x] \in {objs[x], Contents[x], Contents'[x]}
    BY DEF Api!Stores
  <2>1. Contents[x] = Vis(Now, x) /\ Contents'[x] = Vis(t, x)
    BY <1>1, <1>2 DEF Shown
  <2> QED
    BY <1>1, <1>2, <2>1 DEF Acts
<1> QED
  BY <1>4, <1>5, <1>6, <1>7

\* What FileApi knows of a descriptor in use.
LEMMA HandleIs ==
  ASSUME VInv, NEW f \in Fds, fds[f].used
  PROVE  LET o == fds[f].obj
         IN /\ Api!Is(f)
            /\ Handles[f] = View(fds[f]) /\ Handles[f].file = o
            /\ Handles[f].off = fds[f].fdoffset /\ Handles[f].append = fds[f].append
            /\ o \in Objects /\ fds[f] \in Desc
            /\ Contents[o] = Vis(Now, o) /\ Contents[o] \in Seq(Values)
            /\ objs[o] \in Seq(Values)
            /\ Larger(fds[f].size, 0) = Len(objs[o])
            /\ fds[f].fdoffset \in 0..Len(Contents[o])
            /\ Contents \in [Objects -> Seq(Values)] /\ Handles = [g \in Fds |-> Handles[g]]
<1>1. Contents = Shown(Now) /\ Handles = HandlesOf(Now) /\ Now.objs = objs /\ Now.fds = fds
  BY ViewIs
<1>2. Good(Now) /\ Now \in States /\ Joined(Now) /\ Sized(Now) /\ Inside(Now)
  BY DEF VInv, Good
<1>3. Handles = [g \in Fds |-> Handles[g]] /\ Handles[f] = View(fds[f])
  BY <1>1 DEF HandlesOf
<1>4. View(fds[f]) = [open |-> TRUE, file |-> fds[f].obj,
                      off |-> fds[f].fdoffset, append |-> fds[f].append]
  BY DEF View
<1>5. Api!Is(f)
  BY <1>3, <1>4 DEF Api!Is
<1>6. fds[f].obj \in Objects /\ Larger(fds[f].size, 0) = Len(objs[fds[f].obj])
  BY <1>1, <1>2 DEF Sized
<1>7. fds[f] \in Desc
  BY <1>1, <1>2, Parts
<1>8. \A o \in Objects : Contents[o] = Vis(Now, o) /\ Vis(Now, o) \in Seq(Values)
  BY <1>1, <1>2, VisType DEF Shown
<1>9. objs[fds[f].obj] \in Seq(Values)
  BY <1>1, <1>2, <1>6, Parts
<1>10. fds[f].fdoffset \in 0..Len(Contents[fds[f].obj])
  <2>1. fds[f].fdoffset \in Nat /\ fds[f].fdoffset <= Len(Vis(Now, fds[f].obj))
    BY <1>1, <1>2, <1>7, DescFields DEF Inside
  <2> QED
    BY <1>6, <1>8, <2>1
<1>11. Contents \in [Objects -> Seq(Values)]
  BY <1>1, <1>8 DEF Shown
<1> QED
  BY <1>3, <1>4, <1>5, <1>6, <1>7, <1>8, <1>9, <1>10, <1>11

\* The bytes buffered for the file of the descriptor f are stored, and nothing else
\* has changed.
Drained(t, f) ==
  LET o == fds[f].obj
  IN /\ Good(t) /\ Acts(Now, t, f) /\ SameSeen(Now, t) /\ SameHandles(Now, t)
     /\ t.objs = [objs EXCEPT ![o] = Contents[o]]
     /\ t.objs[o] = Contents[o]
     /\ t.fds[f] \in Desc /\ t.fds[f].used /\ t.fds[f].obj = o
     /\ View(t.fds[f]) = View(fds[f]) /\ t.fds[f].append = fds[f].append
     /\ t.fds[f].fdoffset = fds[f].fdoffset
     /\ t.fds[f].cache_page = 0
     /\ Larger(t.fds[f].size, 0) = Len(Contents[o])

\* After a flush the file is stored as it is seen.
LEMMA FlushedDrained ==
  ASSUME VInv, NEW f \in Fds, fds[f].used
  PROVE  Drained(Flushed(Now, f), f)
<1> DEFINE o == fds[f].obj
           t == Flushed(Now, f)
<1>1. Contents = Shown(Now) /\ Now.objs = objs /\ Now.fds = fds
  BY ViewIs
<1>2. Good(Now)
  BY DEF VInv
<1>3. /\ Settles(Now, t) /\ o \in Objects /\ t.objs[o] = Vis(Now, o)
      /\ t.objs = [objs EXCEPT ![o] = Vis(Now, o)]
      /\ t.fds[f].cache_page = 0
  BY <1>1, <1>2, FlushedIs
<1> HIDE DEF t
<1>4. Good(t) /\ SameHandles(Now, t) /\ SameSeen(Now, t)
  BY <1>3 DEF Settles, SameSeen
<1>5. Alike(fds[f], t.fds[f])
  BY <1>1, <1>4 DEF SameHandles
<1>6. Acts(Now, t, f)
  BY <1>1, <1>3, <1>4, <1>5 DEF Acts, Settles, SameHandles, Alike
<1>7. Contents[o] = Vis(Now, o)
  BY <1>1, <1>3 DEF Shown
<1>8. Larger(t.fds[f].size, 0) = Len(Contents[o])
  <2>1. t.fds[f].used /\ t.fds[f].obj = o
    BY <1>5 DEF Alike, o
  <2>2. Sized(t)
    BY <1>4 DEF Good
  <2>3. Larger(t.fds[f].size, 0) = Len(t.objs[o])
    BY <2>1, <2>2 DEF Sized
  <2> QED
    BY <1>3, <1>7, <2>3
<1>9. t.fds[f] \in Desc
  BY <1>4, Parts DEF Good
<1>10. View(t.fds[f]) = View(fds[f])
  BY <1>5, AlikeViews
<1> QED
  BY <1>3, <1>4, <1>5, <1>6, <1>7, <1>8, <1>9, <1>10 DEF Drained, Alike, t, o

\* A call that does no more than that.
LEMMA DrainedStep ==
  ASSUME VInv, NEW f \in Fds, fds[f].used, NEW t, Drained(t, f), Now' = t, dir' = dir
  PROVE  VInv' /\ Contents' = Contents /\ Handles' = Handles /\ Api!Stores
         /\ objs' = [objs EXCEPT ![fds[f].obj] = Contents[fds[f].obj]]
<1>1. /\ VInv'
      /\ Contents' = [Contents EXCEPT ![fds[f].obj] = Vis(t, fds[f].obj)]
      /\ Handles' = [Handles EXCEPT ![f] = View(t.fds[f])]
      /\ Api!Stores
  BY ActsStep DEF Drained
<1>2. /\ fds[f].obj \in Objects /\ Contents[fds[f].obj] = Vis(Now, fds[f].obj)
      /\ Handles[f] = View(fds[f])
      /\ Contents \in [Objects -> Seq(Values)] /\ Handles = [g \in Fds |-> Handles[g]]
  BY HandleIs
<1>3. Vis(t, fds[f].obj) = Contents[fds[f].obj] /\ View(t.fds[f]) = Handles[f]
  BY <1>2 DEF Drained, SameSeen
<1>4. Contents' = Contents
  BY <1>1, <1>2, <1>3
<1>5. Handles' = Handles
  BY <1>1, <1>2, <1>3
<1>6. objs' = [objs EXCEPT ![fds[f].obj] = Contents[fds[f].obj]]
  BY ViewNextIs DEF Drained
<1> QED
  BY <1>1, <1>4, <1>5, <1>6

\* The same of the variables.
LEMMA DrainedNext ==
  ASSUME NEW t, NEW f \in Fds, Drained(t, f), Becomes(t)
  PROVE  Now' = t
<1>1. t \in States
  BY DEF Drained, Good
<1> QED
  BY <1>1, BecomesIs

\* SPIFFS_eof answers what the interface promises.
LEMMA EofImplements ==
  ASSUME VInv, NEW f \in Fds, Eof(f)
  PROVE  VInv' /\ Api!Eof(f)
<1> DEFINE t == Flushed(Now, f)
<1>1. fds[f].used /\ Becomes(t) /\ dir' = dir
  BY Zenon DEF Eof
<1>2. Drained(t, f)
  BY <1>1, FlushedDrained
<1>3. reply' = Answer("eof", "ok", IF t.fds[f].fdoffset >= Larger(t.fds[f].size, 0)
                                   THEN 1 ELSE 0, <<>>)
  BY Zenon DEF Eof, Answered
<1> HIDE DEF t
<1>4. VInv' /\ Contents' = Contents /\ Handles' = Handles /\ Api!Stores
  BY <1>1, <1>2, DrainedNext, DrainedStep
<1>5. /\ Api!Is(f) /\ Handles[f].file = fds[f].obj /\ Handles[f].off = fds[f].fdoffset
  BY <1>1, HandleIs
<1>6. t.fds[f].fdoffset = Handles[f].off
      /\ Larger(t.fds[f].size, 0) = Len(Contents[Handles[f].file])
  BY <1>2, <1>5 DEF Drained
<1>7. reply' = Api!Answer("eof", "ok", IF Handles[f].off >= Len(Contents[Handles[f].file])
                                       THEN 1 ELSE 0, <<>>)
  BY <1>3, <1>6, Zenon DEF Answer, Api!Answer
<1>8. reply'.op = "eof"
  BY <1>7 DEF Api!Answer
<1> QED
  BY <1>1, <1>4, <1>5, <1>7, <1>8, Zenon DEF Api!Eof

\* SPIFFS_tell.
LEMMA TellImplements ==
  ASSUME VInv, NEW f \in Fds, Tell(f)
  PROVE  VInv' /\ Api!Tell(f)
<1> DEFINE t == Flushed(Now, f)
<1>1. fds[f].used /\ Becomes(t) /\ dir' = dir
  BY Zenon DEF Tell
<1>2. Drained(t, f)
  BY <1>1, FlushedDrained
<1> HIDE DEF t
<1>3. VInv' /\ Contents' = Contents /\ Handles' = Handles /\ Api!Stores
  BY <1>1, <1>2, DrainedNext, DrainedStep
<1>4. /\ Api!Is(f) /\ Handles[f].off = fds[f].fdoffset
  BY <1>1, HandleIs
<1>5. reply' = Api!Answer("tell", "ok", Handles[f].off, <<>>)
  BY <1>4, Zenon DEF Tell, Answered, Answer, Api!Answer
<1>6. reply'.op = "tell"
  BY DEF Tell, Answered, Answer
<1> QED
  BY <1>1, <1>3, <1>4, <1>5, <1>6, Zenon DEF Api!Tell

\* SPIFFS_fflush stores everything that is seen.
LEMMA FflushImplements ==
  ASSUME VInv, NEW f \in Fds, Fflush(f)
  PROVE  VInv' /\ Api!Flush(f)
<1> DEFINE t == Flushed(Now, f)
<1>1. fds[f].used /\ Becomes(t) /\ dir' = dir
  BY Zenon DEF Fflush
<1>2. Drained(t, f)
  BY <1>1, FlushedDrained
<1> HIDE DEF t
<1>3. VInv' /\ Contents' = Contents /\ Handles' = Handles
      /\ objs' = [objs EXCEPT ![fds[f].obj] = Contents[fds[f].obj]]
  BY <1>1, <1>2, DrainedNext, DrainedStep
<1>4. Api!Is(f) /\ Handles[f].file = fds[f].obj
  BY <1>1, HandleIs
<1>5. reply' = Api!Answer("fflush", "ok", 0, <<>>)
  BY Zenon DEF Fflush, Answered, Answer, Api!Answer
<1>6. reply'.op \in {"fflush", "fstat", "close"}
  BY DEF Fflush, Answered, Answer
<1> QED
  BY <1>1, <1>3, <1>4, <1>5, <1>6, Zenon DEF Api!Flush

\* So does SPIFFS_fstat,
LEMMA FstatImplements ==
  ASSUME VInv, NEW f \in Fds, Fstat(f)
  PROVE  VInv' /\ Api!Flush(f)
<1> DEFINE t == Flushed(Now, f)
<1>1. fds[f].used /\ Becomes(t) /\ dir' = dir
  BY Zenon DEF Fstat
<1>2. Drained(t, f)
  BY <1>1, FlushedDrained
<1>3. Now' = t
  BY <1>1, <1>2, DrainedNext
<1> HIDE DEF t
<1>4. VInv' /\ Contents' = Contents /\ Handles' = Handles
      /\ objs' = [objs EXCEPT ![fds[f].obj] = Contents[fds[f].obj]]
  BY <1>1, <1>2, <1>3, DrainedStep
<1>5. Api!Is(f) /\ Handles[f].file = fds[f].obj
  BY <1>1, HandleIs
<1>6. objs'[fds[f].obj] = Contents[fds[f].obj]
  BY <1>2, <1>3, ViewNextIs DEF Drained
<1>7. reply' = Answer("fstat", "ok", Len(objs'[fds[f].obj]), <<>>)
  BY Zenon DEF Fstat, Answered
<1>8. reply' = Api!Answer("fstat", "ok", Len(Contents[Handles[f].file]), <<>>)
  BY <1>5, <1>6, <1>7, Zenon DEF Answer, Api!Answer
<1>9. reply'.op \in {"fflush", "fstat", "close"}
  BY <1>7 DEF Answer
<1> QED
  BY <1>1, <1>4, <1>5, <1>8, <1>9, Zenon DEF Api!Flush

\* and SPIFFS_close, which gives the handle back as well.
LEMMA CloseImplements ==
  ASSUME VInv, NEW f \in Fds, Close(f)
  PROVE  VInv' /\ Api!Flush(f)
<1> DEFINE t == Flushed(Now, f)
           d == GivenBack(t.fds[f])
           u == With(t, f, d)
           o == fds[f].obj
<1>1. fds[f].used /\ Becomes(u) /\ dir' = dir
  BY Zenon DEF Close
<1>2. Drained(t, f)
  BY <1>1, FlushedDrained
<1>3. Good(t) /\ Acts(Now, t, f) /\ t.fds[f].cache_page = 0 /\ t.objs = [objs EXCEPT ![o] = Contents[o]]
      /\ SameSeen(Now, t)
  BY <1>2 DEF Drained
<1> HIDE DEF t
<1>4. Good(u) /\ Replaced(t, u, f, d) /\ SameSeen(t, u) /\ ~d.used
  BY <1>3, ClosedGood
<1> HIDE DEF d, u
<1>5. Now' = u
  BY <1>1, <1>4, BecomesIs DEF Good
<1>6. Acts(Now, u, f)
  <2>1. \A x \in Objects : Vis(u, x) = Vis(t, x) /\ u.objs[x] = t.objs[x]
    BY <1>4 DEF SameSeen, Replaced
  <2>2. \A g \in Fds \ {f} : u.fds[g] = t.fds[g]
    BY <1>4 DEF Replaced
  <2>3. ~u.fds[f].used
    BY <1>4 DEF Replaced
  <2> QED
    BY <1>3, <1>4, <2>1, <2>2, <2>3 DEF Acts
<1>7. /\ VInv' /\ Contents' = [Contents EXCEPT ![o] = Vis(u, o)]
      /\ Handles' = [Handles EXCEPT ![f] = View(u.fds[f])]
  BY <1>1, <1>5, <1>6, ActsStep
<1>8. /\ Api!Is(f) /\ Handles[f].file = o /\ Contents[o] = Vis(Now, o) /\ o \in Objects
      /\ Contents \in [Objects -> Seq(Values)]
  BY <1>1, HandleIs
<1>9. Vis(u, o) = Contents[o]
  BY <1>3, <1>4, <1>8 DEF SameSeen
<1>10. Contents' = Contents
  BY <1>7, <1>8, <1>9
<1>11. View(u.fds[f]) = Api!Closed
  BY <1>4 DEF View, Api!Closed, Replaced
<1>12. objs' = [objs EXCEPT ![o] = Contents[o]]
  BY <1>3, <1>4, <1>5, ViewNextIs DEF Replaced
<1>13. reply' = Api!Answer("close", "ok", 0, <<>>)
  BY Zenon DEF Close, Answered, Answer, Api!Answer
<1>14. Handles' = [Handles EXCEPT ![f] = Api!Closed]
  BY <1>7, <1>11
<1>15. reply'.op \in {"fflush", "fstat", "close"}
  BY <1>13 DEF Api!Answer
<1> QED
  BY <1>1, <1>7, <1>8, <1>10, <1>12, <1>13, <1>14, <1>15, Zenon DEF Api!Flush, o

\* A handle h that moves to n.
LEMMA OffsetOnly ==
  ASSUME NEW h, NEW o \in Objects, NEW m \in Int, NEW a \in BOOLEAN, NEW n \in Int,
         h = [open |-> TRUE, file |-> o, off |-> m, append |-> a]
  PROVE  [h EXCEPT !.off = n] = [open |-> TRUE, file |-> o, off |-> n, append |-> a]
<1>1. PICK p \in BOOLEAN : p = TRUE
  OBVIOUS
<1>2. [[open |-> p, file |-> o, off |-> m, append |-> a] EXCEPT !.off = n]
      = [open |-> p, file |-> o, off |-> n, append |-> a]
  OBVIOUS
<1> QED
  BY <1>1, <1>2, Zenon

\* A call that stores the buffered bytes and moves the offset.
LEMMA MovedStep ==
  ASSUME VInv, NEW f \in Fds, fds[f].used, NEW t, Drained(t, f), dir' = dir,
         NEW n \in 0..Len(Contents[fds[f].obj]), NEW j \in Int,
         Becomes(With(t, f, [t.fds[f] EXCEPT !.fdoffset = n, !.cursor = j]))
  PROVE  VInv' /\ Contents' = Contents /\ Api!Stores
         /\ Handles' = [Handles EXCEPT ![f] = [@ EXCEPT !.off = n]]
<1> DEFINE d == [t.fds[f] EXCEPT !.fdoffset = n, !.cursor = j]
           u == With(t, f, d)
           o == fds[f].obj
<1>1. Good(t) /\ Acts(Now, t, f) /\ SameSeen(Now, t) /\ t.fds[f].used /\ t.fds[f].obj = o
      /\ t.fds[f].append = fds[f].append
  BY DEF Drained
<1>2. /\ Contents[o] = Vis(Now, o) /\ o \in Objects /\ Handles[f] = View(fds[f])
      /\ Contents \in [Objects -> Seq(Values)] /\ fds[f] \in Desc
  BY HandleIs
<1>3. n \in 0..Len(Vis(t, t.fds[f].obj))
  BY <1>1, <1>2 DEF SameSeen
<1>4. Moved(t.fds[f], d, n)
  <2>1. t.fds[f] \in Desc /\ n \in Nat
    BY DEF Drained
  <2> QED
    BY <2>1, MovedIs
<1>5. Becomes(u)
  OBVIOUS
<1> HIDE DEF d
<1>6. /\ Good(u) /\ Replaced(t, u, f, d) /\ SameSeen(t, u)
      /\ d.used /\ d.obj = t.fds[f].obj /\ d.append = t.fds[f].append /\ d.fdoffset = n
  <2>1. Good(u) /\ Replaced(t, u, f, d) /\ SameSeen(t, u)
    BY <1>1, <1>3, <1>4, MovedGood, Zenon
  <2> QED
    BY <1>1, <1>4, <2>1 DEF Moved
<1> HIDE DEF u
<1>7. Now' = u
  BY <1>5, <1>6, BecomesIs DEF Good
<1>8. Acts(Now, u, f)
  <2>1. \A x \in Objects : Vis(u, x) = Vis(t, x) /\ u.objs[x] = t.objs[x]
    BY <1>6 DEF SameSeen, Replaced
  <2>2. \A g \in Fds \ {f} : u.fds[g] = t.fds[g]
    BY <1>6 DEF Replaced
  <2>3. u.fds[f].obj = t.fds[f].obj
    BY <1>6 DEF Replaced
  <2> QED
    BY <1>1, <1>6, <2>1, <2>2, <2>3 DEF Acts
<1>9. /\ VInv' /\ Contents' = [Contents EXCEPT ![o] = Vis(u, o)]
      /\ Handles' = [Handles EXCEPT ![f] = View(u.fds[f])] /\ Api!Stores
  BY <1>7, <1>8, ActsStep
<1>10. Contents' = Contents
  <2>1. Vis(u, o) = Contents[o]
    BY <1>1, <1>2, <1>6 DEF SameSeen
  <2> QED
    BY <1>2, <1>9, <2>1
<1>11. View(u.fds[f]) = [Handles[f] EXCEPT !.off = n]
  <2>1. u.fds[f] = d
    BY <1>6 DEF Replaced
  <2>2. View(d) = [open |-> TRUE, file |-> o, off |-> n, append |-> fds[f].append]
    BY <1>1, <1>6, Zenon DEF View
  <2>3. Handles[f] = [open |-> TRUE, file |-> o, off |-> fds[f].fdoffset,
                      append |-> fds[f].append]
    BY <1>2 DEF View
  <2> QED
    <3>1. fds[f].fdoffset \in Int /\ n \in Int /\ fds[f].append \in BOOLEAN
      BY <1>2, DescFields
    <3>2. [Handles[f] EXCEPT !.off = n]
          = [open |-> TRUE, file |-> o, off |-> n, append |-> fds[f].append]
      BY <1>2, <2>3, <3>1, OffsetOnly
    <3> QED
      BY <2>1, <2>2, <3>2, Zenon
<1> QED
  BY <1>9, <1>10, <1>11

\* A read or an end of file.
LEMMA ReadImplements ==
  ASSUME VInv, NEW f \in Fds, NEW len \in 1..2, Read(f, len)
  PROVE  VInv' /\ Api!Read(f)
<1> DEFINE t == Flushed(Now, f)
           o == fds[f].obj
           all == Contents[o]
           off == t.fds[f].fdoffset
           n == Smaller(len, t.fds[f].size - off)
           d == [t.fds[f] EXCEPT !.fdoffset = off + n, !.cursor = SpanAt(off + n - 1)]
           End == reply' = Answer("read", "end", 0, <<>>)
<1>1. fds[f].used /\ dir' = dir
  BY Zenon DEF Read
<1>2. \/ fds[f].size = UndefinedLen /\ End /\ UNCHANGED <<objs, fds, cache>>
      \/ n <= 0 /\ Becomes(t) /\ End
      \/ /\ ~(n <= 0) /\ Becomes(With(t, f, d))
         /\ reply' = Answer("read", "ok", n, ObjectRead(t, f, off, n))
  BY Zenon DEF Read
<1>3. Drained(t, f)
  BY <1>1, FlushedDrained
<1> HIDE DEF t
<1>4. /\ Api!Is(f) /\ Handles[f].file = o /\ Handles[f].off = fds[f].fdoffset
      /\ o \in Objects /\ all \in Seq(Values) /\ objs[o] \in Seq(Values)
      /\ fds[f].fdoffset \in 0..Len(all) /\ Larger(fds[f].size, 0) = Len(objs[o])
  BY <1>1, HandleIs
<1>5. /\ off = fds[f].fdoffset /\ t.fds[f].size \in Int
      /\ Larger(t.fds[f].size, 0) = Len(all)
      /\ t.objs[o] = all /\ t.fds[f].obj = o
  BY <1>3, DescFields DEF Drained, Sizes, UndefinedLen
<1>6. CASE fds[f].size = UndefinedLen /\ End /\ UNCHANGED <<objs, fds, cache>>
  <2>1. Now' = Now
    BY <1>6 DEF Now
  <2>2. VInv' /\ Contents' = Contents /\ Handles' = Handles
    BY <1>1, <2>1, ViewIs, ViewNextIs DEF VInv
  <2>3. objs[o] = <<>>
    BY <1>4, <1>6 DEF Larger, UndefinedLen
  <2>4. Api!Stores
    BY <1>6, Zenon DEF Api!Stores
  <2>5. reply' = Api!Answer("read", "end", 0, <<>>)
    BY <1>6, Zenon DEF Answer, Api!Answer
  <2>6. reply'.op = "read"
    BY <2>5 DEF Api!Answer
  <2> QED
    BY <1>1, <1>4, <2>2, <2>3, <2>4, <2>5, <2>6, Zenon DEF Api!Read
<1>7. CASE n <= 0 /\ Becomes(t) /\ End
  <2>1. VInv' /\ Contents' = Contents /\ Handles' = Handles /\ Api!Stores
    BY <1>1, <1>3, <1>7, DrainedNext, DrainedStep
  <2>2. off >= Len(all)
    BY <1>4, <1>5, <1>7 DEF Larger, Smaller
  <2>3. reply' = Api!Answer("read", "end", 0, <<>>)
    BY <1>7, Zenon DEF Answer, Api!Answer
  <2>4. reply'.op = "read"
    BY <2>3 DEF Api!Answer
  <2> QED
    BY <1>1, <1>4, <1>5, <2>1, <2>2, <2>3, <2>4, Zenon DEF Api!Read
<1>8. CASE /\ ~(n <= 0) /\ Becomes(With(t, f, d))
           /\ reply' = Answer("read", "ok", n, ObjectRead(t, f, off, n))
  <2>1. n \in 1..(Len(all) - off) /\ off \in Nat /\ Len(all) \in Nat
    BY <1>4, <1>5, <1>8 DEF Larger, Smaller
  <2>2. off + n \in 0..Len(all)
    BY <2>1
  <2>3. SpanAt(off + n - 1) \in Int
    <3>1. off + n - 1 \in Int
      BY <2>1
    <3> QED
      BY <3>1, SpanInt
  <2>4. /\ VInv' /\ Contents' = Contents /\ Api!Stores
        /\ Handles' = [Handles EXCEPT ![f] = [@ EXCEPT !.off = off + n]]
    <3> HIDE DEF off, n
    <3> QED
      BY <1>1, <1>3, <1>8, <2>2, <2>3, MovedStep
  <2>5. reply' = Api!Answer("read", "ok", n, SubSeq(all, off + 1, off + n))
    BY <1>5, <1>8, Zenon DEF Answer, Api!Answer, ObjectRead
  <2>6. reply'.op = "read"
    BY <2>5 DEF Api!Answer
  <2> HIDE DEF n
  <2>7. \E k \in 1..(Len(Contents[Handles[f].file]) - Handles[f].off) :
          /\ reply' = Api!Answer("read", "ok", k,
                                 SubSeq(Contents[Handles[f].file], Handles[f].off + 1,
                                        Handles[f].off + k))
          /\ Handles' = [Handles EXCEPT ![f] = [@ EXCEPT !.off = Handles[f].off + k]]
    BY <1>4, <1>5, <2>1, <2>4, <2>5
  <2> QED
    BY <1>1, <1>4, <2>4, <2>6, <2>7, Zenon DEF Api!Read
<1> QED
  BY <1>2, <1>6, <1>7, <1>8

\* A seek within the file, or one that is refused.
LEMMA LseekImplements ==
  ASSUME VInv, NEW f \in Fds, NEW whence \in {"set", "cur", "end"}, NEW offs \in Int,
         Lseek(f, whence, offs)
  PROVE  VInv' /\ Api!Lseek(f)
<1> DEFINE t == Flushed(Now, f)
           d == t.fds[f]
           to == CASE whence = "set" -> offs
                   [] whence = "cur" -> d.fdoffset + offs
                   [] whence = "end" -> Larger(d.size, 0) + offs
           j == SpanAt(to)
           past == to > d.size /\ d.size # UndefinedLen
           o == fds[f].obj
<1>1. fds[f].used /\ dir' = dir
  BY Zenon DEF Lseek
<1>2. /\ to >= 0
      /\ d.size \in {UndefinedLen, 0} => to = 0
      /\ \/ /\ ~past
            /\ Becomes(With(t, f, [d EXCEPT !.fdoffset = to, !.cursor = j]))
            /\ Answered("lseek", to)
         \/ /\ Becomes(t)
            /\ reply' = Answer("lseek", "err", 0, <<>>)
  BY Zenon DEF Lseek
<1>3. Drained(t, f)
  BY <1>1, FlushedDrained
<1> HIDE DEF t
<1>4. /\ Api!Is(f) /\ Handles[f].file = o /\ o \in Objects
      /\ Contents[o] \in Seq(Values) /\ Len(Contents[o]) \in Nat
  BY <1>1, HandleIs
<1>5. /\ d.size \in Int /\ d.size >= UndefinedLen /\ d.fdoffset \in Nat
      /\ Larger(d.size, 0) = Len(Contents[o])
  <2>1. d \in Desc /\ Larger(d.size, 0) = Len(Contents[o])
    BY <1>3 DEF Drained
  <2> QED
    BY <2>1, DescFields DEF Sizes, UndefinedLen
<1>6. to \in Int
  BY <1>4, <1>5
<1> HIDE DEF to
<1>7. CASE /\ ~past
           /\ Becomes(With(t, f, [d EXCEPT !.fdoffset = to, !.cursor = j]))
           /\ Answered("lseek", to)
  <2>1. to \in 0..Len(Contents[o])
    BY <1>2, <1>5, <1>6, <1>7 DEF Larger, UndefinedLen
  <2>2. j \in Int
    BY <1>6, SpanInt
  <2>3. /\ VInv' /\ Contents' = Contents /\ Api!Stores
        /\ Handles' = [Handles EXCEPT ![f] = [@ EXCEPT !.off = to]]
    <3> HIDE DEF j
    <3> QED
      BY <1>1, <1>3, <1>7, <2>1, <2>2, MovedStep
  <2>4. reply' = Api!Answer("lseek", "ok", to, <<>>)
    BY <1>7, Zenon DEF Answered, Answer, Api!Answer
  <2>5. reply'.op = "lseek"
    BY <2>4 DEF Api!Answer
  <2> QED
    BY <1>1, <1>4, <2>1, <2>3, <2>4, <2>5, Zenon DEF Api!Lseek
<1>8. CASE Becomes(t) /\ reply' = Answer("lseek", "err", 0, <<>>)
  <2>1. VInv' /\ Contents' = Contents /\ Handles' = Handles /\ Api!Stores
    BY <1>1, <1>3, <1>8, DrainedNext, DrainedStep
  <2>2. reply' = Api!Answer("lseek", "err", 0, <<>>)
    BY <1>8, Zenon DEF Answer, Api!Answer
  <2>3. reply'.op = "lseek"
    BY <2>2 DEF Api!Answer
  <2> QED
    BY <1>1, <1>4, <2>1, <2>2, <2>3, Zenon DEF Api!Lseek
<1> QED
  BY <1>2, <1>7, <1>8

\* Where the bytes of a write go.
LEMMA OffsetIs ==
  ASSUME VInv, NEW f \in Fds, fds[f].used
  PROVE  LET s == Referred(Now, f)
             o == fds[f].obj
         IN /\ Offset(s, f) = IF fds[f].append THEN Len(Contents[o]) ELSE fds[f].fdoffset
            /\ Offset(s, f) \in 0..Len(Contents[o])
            /\ Vis(s, o) = Contents[o]
<1> DEFINE s == Referred(Now, f)
           o == fds[f].obj
           i == s.fds[f].cache_page
<1>1. Contents = Shown(Now) /\ Now.objs = objs /\ Now.fds = fds /\ Now.c = cache
  BY ViewIs
<1>2. Good(Now)
  BY DEF VInv
<1>3. /\ Settles(Now, s) /\ s.fds[f].used /\ s.fds[f].obj = o /\ s.fds[f].size = fds[f].size
      /\ s.objs = objs /\ s.c = cache /\ i = PageOf(cache, o)
  BY <1>1, <1>2, ReferredIs
<1> HIDE DEF s
<1>4. /\ o \in Objects /\ fds[f] \in Desc
      /\ Contents[o] = Vis(Now, o) /\ Contents[o] \in Seq(Values) /\ objs[o] \in Seq(Values)
      /\ Larger(fds[f].size, 0) = Len(objs[o])
      /\ fds[f].fdoffset \in 0..Len(Contents[o])
  BY HandleIs
<1>5. Good(s) /\ Vis(s, o) = Contents[o]
  BY <1>3, <1>4 DEF Settles
<1>6. s.fds[f].append = fds[f].append /\ s.fds[f].fdoffset = fds[f].fdoffset
  BY <1>1, <1>3 DEF Settles, SameHandles, Alike
<1>7. CASE ~fds[f].append
  BY <1>4, <1>5, <1>6, <1>7, Zenon DEF Offset, s
<1>8. CASE fds[f].append /\ i = 0
  <2>1. Vis(s, o) = objs[o]
    BY <1>3, <1>8, Zenon DEF Vis
  <2>2. Offset(s, f) = Larger(fds[f].size, 0)
    BY <1>3, <1>6, <1>8, Zenon DEF Offset
  <2>3. Offset(s, f) = Len(Contents[o])
    BY <1>4, <1>5, <2>1, <2>2
  <2> QED
    BY <1>4, <1>5, <1>8, <2>3 DEF s
<1>9. CASE fds[f].append /\ i # 0
  <2>1. /\ s.c[i].offset \in 0..Len(objs[o]) /\ s.c[i].data \in Seq(Values)
        /\ Vis(s, o) = Spliced(objs[o], s.c[i].offset, s.c[i].data)
    BY <1>3, <1>5, <1>9, RefersTo
  <2>2. Offset(s, f) = Larger(Larger(fds[f].size, 0), s.c[i].offset + Len(s.c[i].data))
    BY <1>3, <1>6, <1>9, Zenon DEF Offset
  <2>3. IsSplice(Vis(s, o), objs[o], s.c[i].offset, s.c[i].data)
    BY <1>4, <2>1, SplicedIs
  <2>4. Offset(s, f) = Len(Contents[o])
    BY <1>4, <1>5, <2>2, <2>3 DEF IsSplice
  <2> QED
    BY <1>4, <1>5, <1>9, <2>4 DEF s
<1> QED
  BY <1>7, <1>8, <1>9

\* Interface and code lay bytes over a file in the same way.
LEMMA SplicedSame ==
  ASSUME NEW V, NEW old \in Seq(V), NEW new \in Seq(V), NEW at \in Nat
  PROVE  Api!Spliced(old, at, new) = Spliced(old, at, new)
<1>1. (IF at + Len(new) > Len(old) THEN at + Len(new) ELSE Len(old))
      = Larger(Len(old), at + Len(new))
  BY DEF Larger
<1> QED
  BY <1>1, Zenon DEF Spliced, Api!Spliced

\* The bytes a client writes.
LEMMA WritesAre ==
  ASSUME NEW data \in Writes
  PROVE  /\ Len(data) \in 1..MaxWrite /\ data \in [1..Len(data) -> Values]
         /\ data \in Seq(Values)
<1>1. PICK k \in 1..MaxWrite, v \in Values : data = [i \in 1..k |-> v]
  BY DEF Writes
<1>2. k \in Nat /\ data \in [1..k -> Values]
  BY <1>1, VfsAssumption
<1>3. data \in Seq(Values) /\ Len(data) = k
  BY <1>2, IsSequence
<1> QED
  BY <1>1, <1>2, <1>3

\* A step that makes new of the file of f, for every reader, and moves f to n.
Wrote(f, new, n) ==
  /\ VInv' /\ Contents' = [Contents EXCEPT ![fds[f].obj] = new] /\ Api!Stores
  /\ Handles' = [Handles EXCEPT ![f] = [@ EXCEPT !.off = n]]

\* A write that leaves a good state is one of the interface, whether its bytes are stored
\* or buffered.
LEMMA WrittenStep ==
  ASSUME VInv, NEW f \in Fds, fds[f].used, dir' = dir, NEW new, NEW t,
         Puts(Now, t, fds[f].obj, new), NEW n \in 0..Len(new),
         NEW d, Moved(t.fds[f], d, n), Becomes(With(t, f, d))
  PROVE  Wrote(f, new, n)
<1> DEFINE u == With(t, f, d)
           o == fds[f].obj
<1>1. /\ o \in Objects /\ fds[f] \in Desc /\ Handles[f] = View(fds[f])
      /\ Now.fds = fds
  BY HandleIs, ViewIs
<1>2. /\ Good(t) /\ SameHandles(Now, t) /\ Vis(t, o) = new
      /\ \A x \in Objects : /\ x # o => Vis(t, x) = Vis(Now, x)
                            /\ t.objs[x] \in {Now.objs[x], Vis(Now, x), Vis(t, x)}
  BY Zenon DEF Puts
<1>3. Alike(fds[f], t.fds[f])
  BY <1>1, <1>2 DEF SameHandles
<1>4. t.fds[f].used /\ t.fds[f].obj = o /\ t.fds[f].append = fds[f].append
      /\ t.fds[f] \in Desc
  BY <1>2, <1>3, Parts DEF Alike, Good
<1>5. new \in Seq(Values)
  BY <1>1, <1>2, VisType DEF Good
<1>6. n \in 0..Len(Vis(t, t.fds[f].obj)) /\ n \in Nat
  BY <1>2, <1>4, <1>5
<1>7. Moved(t.fds[f], d, n)
  OBVIOUS
<1>8. Becomes(u)
  OBVIOUS
<1>9. Good(u) /\ Replaced(t, u, f, d) /\ SameSeen(t, u)
  BY <1>2, <1>4, <1>6, <1>7, MovedGood, Zenon
<1> HIDE DEF u
<1>10. Now' = u
  BY <1>8, <1>9, BecomesIs DEF Good
<1>11. Acts(Now, u, f)
  <2>1. \A x \in Objects : Vis(u, x) = Vis(t, x) /\ u.objs[x] = t.objs[x]
    BY <1>9 DEF SameSeen, Replaced
  <2>2. \A g \in Fds \ {f} : u.fds[g] = t.fds[g] /\ Alike(Now.fds[g], t.fds[g])
    BY <1>2, <1>9 DEF Replaced, SameHandles
  <2>3. u.fds[f].obj = o
    BY <1>4, <1>7, <1>9 DEF Replaced, Moved
  <2> QED
    BY <1>1, <1>2, <1>9, <2>1, <2>2, <2>3 DEF Acts
<1>12. /\ VInv' /\ Contents' = [Contents EXCEPT ![o] = Vis(u, o)]
       /\ Handles' = [Handles EXCEPT ![f] = View(u.fds[f])] /\ Api!Stores
  BY <1>10, <1>11, ActsStep
<1>13. Vis(u, o) = new
  BY <1>1, <1>2, <1>9 DEF SameSeen
<1>14. View(u.fds[f]) = [Handles[f] EXCEPT !.off = n]
  <2>1. u.fds[f] = d
    BY <1>9 DEF Replaced
  <2>2. d.used /\ d.obj = o /\ d.fdoffset = n /\ d.append = fds[f].append
    BY <1>4, <1>7 DEF Moved
  <2>3. View(d) = [open |-> TRUE, file |-> o, off |-> n, append |-> fds[f].append]
    BY <2>2, Zenon DEF View
  <2>4. Handles[f] = [open |-> TRUE, file |-> o, off |-> fds[f].fdoffset,
                      append |-> fds[f].append]
    BY <1>1 DEF View
  <2>5. fds[f].fdoffset \in Int /\ n \in Int /\ fds[f].append \in BOOLEAN
    BY <1>1, <1>6, DescFields
  <2>6. [Handles[f] EXCEPT !.off = n]
        = [open |-> TRUE, file |-> o, off |-> n, append |-> fds[f].append]
    BY <1>1, <2>4, <2>5, OffsetOnly
  <2> QED
    BY <2>1, <2>3, <2>6, Zenon
<1> QED
  BY <1>12, <1>13, <1>14 DEF o, Wrote

\* SPIFFS_write: a big write, one that extends the page, or one that begins a new page.
LEMMA WriteImplements ==
  ASSUME VInv, NEW f \in Fds, NEW data \in Writes, Write(f, data)
  PROVE  VInv' /\ Api!Write(f)
<1> DEFINE s == Referred(Now, f)
           at == Offset(s, f)
           o == fds[f].obj
           start == IF fds[f].append THEN SizeOr0(f) ELSE fds[f].fdoffset
           new == Spliced(Contents[o], at, data)
           n == start + Len(data)
<1>1. fds[f].used /\ dir' = dir /\ reply' = Answer("write", "ok", Len(data), <<>>)
  BY Zenon DEF Write, Answered
<1>2. PICK t \in IF Len(data) < PageSize THEN Buffer(s, f, at, data)
                  ELSE {Through(s, f, at, data)} :
        Becomes(With(t, f, [t.fds[f] EXCEPT !.fdoffset = n]))
  BY Zenon DEF Write
<1>3. Len(data) \in 1..MaxWrite /\ data \in [1..Len(data) -> Values] /\ data \in Seq(Values)
  BY WritesAre
<1>4. /\ Api!Is(f) /\ Handles[f].file = o /\ Handles[f].off = fds[f].fdoffset
      /\ Handles[f].append = fds[f].append
      /\ o \in Objects /\ Contents[o] \in Seq(Values) /\ objs[o] \in Seq(Values)
      /\ Larger(fds[f].size, 0) = Len(objs[o])
      /\ fds[f].fdoffset \in 0..Len(Contents[o])
      /\ Contents[o] = Vis(Now, o) /\ Contents \in [Objects -> Seq(Values)]
  BY <1>1, HandleIs
<1>5. /\ at = IF fds[f].append THEN Len(Contents[o]) ELSE fds[f].fdoffset
      /\ at \in 0..Len(Contents[o]) /\ Vis(s, o) = Contents[o]
  BY <1>1, OffsetIs
<1>6. Good(Now) /\ Now.fds = fds /\ Now.objs = objs
  BY ViewIs DEF VInv
<1>7. /\ Settles(Now, s) /\ Good(s) /\ s.fds[f].used /\ s.fds[f].obj = o
      /\ s.fds[f].cache_page = PageOf(s.c, s.fds[f].obj)
  BY <1>1, <1>6, ReferredIs DEF Settles
<1> HIDE DEF s, at
<1>8. Puts(s, t, o, new)
  <2>1. at \in 0..Len(Vis(s, s.fds[f].obj))
    BY <1>5, <1>7
  <2>2. CASE Len(data) < PageSize
    <3>1. t \in Buffer(s, f, at, data)
      BY <1>2, <2>2
    <3>2. Puts(s, t, s.fds[f].obj, Spliced(Vis(s, s.fds[f].obj), at, data))
      BY <1>3, <1>7, <2>1, <3>1, BufferPuts
    <3> QED
      BY <1>5, <1>7, <3>2
  <2>3. CASE ~(Len(data) < PageSize)
    <3>1. t = Through(s, f, at, data)
      BY <1>2, <2>3
    <3>2. Puts(s, t, s.fds[f].obj, Spliced(Vis(s, s.fds[f].obj), at, data))
      BY <1>3, <1>7, <2>1, <3>1, ThroughPuts
    <3> QED
      BY <1>5, <1>7, <3>2
  <2> QED
    BY <2>2, <2>3
<1>9. Puts(Now, t, o, new)
  BY <1>4, <1>7, <1>8, SettlesPuts, Zenon
<1>10. /\ new \in Seq(Values) /\ Len(new) \in Nat /\ Len(new) >= Len(Contents[o])
       /\ Len(new) >= at + Len(data)
  BY <1>3, <1>4, <1>5, Grows
<1>11. Len(Contents[o]) \in Nat /\ Len(data) \in Nat /\ Len(objs[o]) <= Len(Contents[o])
  <2>1. Len(objs[o]) <= Len(Contents[o])
    <3>1. Now \in States /\ Joined(Now)
      BY <1>6 DEF Good
    <3> QED
      BY <1>4, <1>6, <3>1, VisType
  <2> QED
    BY <1>3, <1>4, <2>1
<1>12. start \in Nat /\ start <= at /\ (fds[f].append \/ start = at)
  BY <1>4, <1>5, <1>11 DEF SizeOr0
<1>13. n \in 0..Len(new) /\ (fds[f].append \/ n = at + Len(data))
  BY <1>5, <1>10, <1>11, <1>12
<1> HIDE DEF new, n
<1>14. /\ VInv' /\ Contents' = [Contents EXCEPT ![o] = new] /\ Api!Stores
       /\ Handles' = [Handles EXCEPT ![f] = [@ EXCEPT !.off = n]]
  <2> DEFINE d == [t.fds[f] EXCEPT !.fdoffset = n]
  <2>1. Becomes(With(t, f, d))
    BY <1>2
  <2>2. n \in 0..Len(new)
    BY <1>13
  <2>3. Moved(t.fds[f], d, n)
    <3>1. t.fds[f] \in Desc
      BY <1>9, Parts DEF Puts, Good
    <3>2. n \in Nat /\ 0 \in Int
      BY <1>10, <2>2
    <3> QED
      BY <3>1, <3>2, MovedIs, Zenon
  <2> HIDE DEF d
  <2>4. Wrote(f, new, n)
    BY <1>1, <1>9, <2>1, <2>2, <2>3, WrittenStep, Zenon
  <2> QED
    BY <2>4 DEF Wrote
<1>15. reply' = Api!Answer("write", "ok", Len(data), <<>>)
  BY <1>1, Zenon DEF Answer, Api!Answer
<1>16. at = IF Handles[f].append THEN Len(Contents[Handles[f].file]) ELSE Handles[f].off
  BY <1>4, <1>5
<1>17. new = Api!Spliced(Contents[o], at, data)
  BY <1>3, <1>4, <1>5, SplicedSame DEF new
<1>18. /\ Contents' = [Contents EXCEPT ![Handles[f].file] = Api!Spliced(@, at, data)]
       /\ Contents'[Handles[f].file] = new
  BY <1>4, <1>14, <1>17
<1>19. /\ n \in 0..Len(Contents'[Handles[f].file])
       /\ Handles[f].append \/ n = at + Len(data)
  BY <1>4, <1>13, <1>18
<1> DEFINE Where == IF Handles[f].append THEN Len(Contents[Handles[f].file]) ELSE Handles[f].off
<1>20. /\ Contents' = [Contents EXCEPT ![Handles[f].file] = Api!Spliced(@, Where, data)]
       /\ \E m \in 0..Len(Contents'[Handles[f].file]) :
            /\ Handles[f].append \/ m = Where + Len(data)
            /\ Handles' = [Handles EXCEPT ![f] = [@ EXCEPT !.off = m]]
  <2>1. Where = at
    BY <1>16
  <2>2. Contents' = [Contents EXCEPT ![Handles[f].file] = Api!Spliced(@, Where, data)]
    BY <1>18, <2>1, Zenon
  <2>3. n \in 0..Len(Contents'[Handles[f].file]) /\ (Handles[f].append \/ n = Where + Len(data))
    BY <1>19, <2>1
  <2>4. Handles' = [Handles EXCEPT ![f] = [@ EXCEPT !.off = n]]
    BY <1>14
  <2> HIDE DEF Where
  <2> QED
    BY <2>2, <2>3, <2>4, Zenon
<1>21. \E k \in 1..MaxWrite :
         /\ reply' = Api!Answer("write", "ok", k, <<>>)
         /\ \E b \in [1..k -> Values] :
              /\ Contents' = [Contents EXCEPT ![Handles[f].file] = Api!Spliced(@, Where, b)]
              /\ \E m \in 0..Len(Contents'[Handles[f].file]) :
                   /\ Handles[f].append \/ m = Where + k
                   /\ Handles' = [Handles EXCEPT ![f] = [@ EXCEPT !.off = m]]
  <2> HIDE DEF Where
  <2> USE <1>3
  <2> WITNESS Len(data) \in 1..MaxWrite
  <2>1. reply' = Api!Answer("write", "ok", Len(data), <<>>)
    BY <1>15
  <2>2. \E b \in [1..Len(data) -> Values] :
          /\ Contents' = [Contents EXCEPT ![Handles[f].file] = Api!Spliced(@, Where, b)]
          /\ \E m \in 0..Len(Contents'[Handles[f].file]) :
               /\ Handles[f].append \/ m = Where + Len(data)
               /\ Handles' = [Handles EXCEPT ![f] = [@ EXCEPT !.off = m]]
    BY <1>3, <1>20, Zenon
  <2> QED
    BY <2>1, <2>2, Zenon
<1>22. reply'.op = "write"
  BY <1>15 DEF Api!Answer
<1> QED
  BY <1>1, <1>4, <1>14, <1>21, <1>22, Zenon DEF Api!Write

-----------------------------------------------------------------------------
(* Calls on a name *)

\* A call that leaves files and descriptors as they are.
LEMMA SameStep ==
  ASSUME VInv, UNCHANGED <<objs, fds, cache>>, Named(Now, dir')
  PROVE  VInv' /\ Contents' = Contents /\ Handles' = Handles /\ objs' = objs
<1>1. Now' = Now
  BY DEF Now
<1>2. Contents' = Contents /\ Handles' = Handles
  BY <1>1, ViewIs, ViewNextIs
<1> QED
  BY <1>1, <1>2 DEF VInv

\* A call refused changes nothing.
LEMMA RefuseImplements ==
  ASSUME VInv, NEW op, Refuse(op)
  PROVE  VInv' /\ Api!Refused(op)
<1>1. dir' = dir /\ UNCHANGED <<objs, fds, cache>> /\ reply' = Answer(op, "err", 0, <<>>)
  BY DEF Refuse
<1>2. Named(Now, dir')
  BY <1>1 DEF VInv
<1>3. VInv' /\ Contents' = Contents /\ Handles' = Handles /\ objs' = objs
  BY <1>1, <1>2, SameStep
<1>4. reply' = Api!Answer(op, "err", 0, <<>>)
  BY <1>1, Zenon DEF Answer, Api!Answer
<1> QED
  BY <1>1, <1>3, <1>4, Zenon DEF Api!Refused

\* A name that is not there can have an object: there are as many as names.
LEMMA FreeIdExists ==
  ASSUME Named(Now, dir), NEW n \in Names, dir[n] = NoFile
  PROVE  Lowest(FreeIds) \in FreeIds /\ Lowest(FreeIds) \in Objects
<1>1. FreeIds # {}
  <2> SUFFICES ASSUME FreeIds = {} PROVE FALSE
    OBVIOUS
  <2> DEFINE T == Names \ {n}
             g == [o \in Objects |-> CHOOSE m \in T : dir[m] = o]
  <2>1. ASSUME NEW o \in Objects PROVE \E m \in T : dir[m] = o
    <3>1. PICK m \in Names : dir[m] = o
      BY DEF FreeIds
    <3>2. m # n
      BY <3>1, VfsAssumption DEF Objects
    <3> QED
      BY <3>1, <3>2
  <2>2. \A o \in Objects : g[o] \in T /\ dir[g[o]] = o
    BY <2>1
  <2>3. g \in [Objects -> T]
    BY <2>2
  <2> HIDE DEF g
  <2>4. IsFiniteSet(T) /\ Cardinality(T) = Cardinality(Names) - 1
    BY VfsAssumption, FS_RemoveElement
  <2>5. Cardinality(Names) \in Nat
    BY VfsAssumption, FS_CardinalityType
  <2>6. IsFiniteSet(Objects) /\ Cardinality(Objects) = Cardinality(Names)
    BY <2>5, FS_Interval DEF Objects
  <2> HIDE DEF T
  <2>7. PICK x, y \in Objects : x # y /\ g[x] = g[y]
    BY <2>3, <2>4, <2>5, <2>6, FS_PigeonHole
  <2> QED
    BY <2>2, <2>7
<1>2. FreeIds \in SUBSET Nat /\ FreeIds \subseteq Objects
  BY Positive DEF FreeIds
<1> QED
  BY <1>1, <1>2, LowestIs

\* A name is given to an object.
LEMMA NamedNew ==
  ASSUME NEW s, NEW d, Named(s, d), Sized(s), NEW n \in Names, d[n] = NoFile,
         NEW o \in Objects
  PROVE  Named(s, [d EXCEPT ![n] = o])
<1> DEFINE e == [d EXCEPT ![n] = o]
<1>1. /\ d \in [Names -> Objects \cup {NoFile}] /\ NoFile \notin Objects
  BY VfsAssumption DEF Named, Objects
<1>2. /\ e \in [Names -> Objects \cup {NoFile}] /\ e[n] = o
      /\ \A m \in Names \ {n} : e[m] = d[m]
  BY <1>1
<1> HIDE DEF e
<1>3. ASSUME NEW f \in Fds, s.fds[f].used PROVE \E m \in Names : e[m] = s.fds[f].obj
  <2>1. PICK m \in Names : d[m] = s.fds[f].obj
    BY <1>3 DEF Named
  <2>2. s.fds[f].obj \in Objects
    BY <1>3 DEF Sized
  <2>3. m # n
    BY <1>1, <2>1, <2>2
  <2> QED
    BY <1>2, <2>1, <2>3
<1>4. ASSUME NEW x \in Objects, \A m \in Names : e[m] # x PROVE s.objs[x] = <<>>
  <2>1. \A m \in Names : d[m] # x
    BY <1>1, <1>2, <1>4
  <2> QED
    BY <2>1 DEF Named
<1> QED
  BY <1>2, <1>3, <1>4 DEF Named, e

\* SPIFFS_creat enters an empty file.
LEMMA CreatImplements ==
  ASSUME VInv, NEW n \in Names, Creat(n)
  PROVE  VInv' /\ Api!Create(n)
<1> DEFINE o == Lowest(FreeIds)
<1>1. CASE dir[n] # NoFile /\ Refuse("creat")
  BY <1>1, RefuseImplements DEF Api!Create
<1>2. CASE dir[n] = NoFile /\ dir' = [dir EXCEPT ![n] = o] /\ Answered("creat", 0)
           /\ UNCHANGED <<objs, fds, cache>>
  <2>1. Named(Now, dir) /\ Good(Now) /\ Sized(Now) /\ Now.objs = objs
    BY ViewIs DEF VInv, Good
  <2>2. o \in FreeIds /\ o \in Objects
    BY <1>2, <2>1, FreeIdExists
  <2>3. \A m \in Names : dir[m] # o
    BY <2>2 DEF FreeIds
  <2> HIDE DEF o
  <2>4. Named(Now, dir')
    BY <1>2, <2>1, <2>2, NamedNew
  <2>5. VInv' /\ Contents' = Contents /\ Handles' = Handles /\ objs' = objs
    BY <1>2, <2>4, SameStep
  <2>6. objs[o] = <<>> /\ Contents[o] = <<>>
    BY <2>1, <2>2, <2>3, UnnamedEmpty, ViewIs DEF Shown
  <2>7. Contents = [x \in Objects |-> Contents[x]] /\ objs \in [Objects -> Seq(Values)]
    BY <2>1, Parts DEF Good, Contents
  <2>8. Api!Empty(o)
    BY <2>2, <2>5, <2>6, <2>7 DEF Api!Empty
  <2>9. reply' = Api!Answer("creat", "ok", 0, <<>>)
    BY <1>2, Zenon DEF Answered, Answer, Api!Answer
  <2>10. Api!Absent(o)
    BY <2>3 DEF Api!Absent
  <2> QED
    BY <1>2, <2>2, <2>5, <2>8, <2>9, <2>10, Zenon DEF Api!Create
<1> QED
  BY <1>1, <1>2 DEF Creat

\* SPIFFS_stat tells the stored size, which the interface allows.
LEMMA StatImplements ==
  ASSUME VInv, NEW n \in Names, Stat(n)
  PROVE  VInv' /\ Api!Stat(n)
<1>1. dir' = dir /\ UNCHANGED <<objs, fds, cache>>
  BY DEF Stat
<1>2. Named(Now, dir')
  BY <1>1 DEF VInv
<1>3. VInv' /\ Contents' = Contents /\ Handles' = Handles /\ objs' = objs
  BY <1>1, <1>2, SameStep
<1>4. IF dir[n] = NoFile THEN reply' = Api!Answer("stat", "err", 0, <<>>)
      ELSE reply' = Api!Answer("stat", "ok", Len(objs[dir[n]]), <<>>)
  BY Zenon DEF Stat, Answered, Answer, Api!Answer
<1> QED
  BY <1>1, <1>3, <1>4, Zenon DEF Api!Stat

\* SPIFFS_rename changes the directory alone.
LEMMA RenameImplements ==
  ASSUME VInv, NEW n \in Names, NEW m \in Names \ {n}, Rename(n, m)
  PROVE  VInv' /\ Api!Rename(n, m)
<1>1. CASE Refuse("rename")
  BY <1>1, RefuseImplements DEF Api!Rename
<1>2. CASE /\ dir[n] # NoFile /\ dir[m] = NoFile
           /\ dir' = [dir EXCEPT ![m] = dir[n], ![n] = NoFile]
           /\ Answered("rename", 0)
           /\ UNCHANGED <<objs, fds, cache>>
  <2>1. Named(Now, dir) /\ Sized(Now) /\ NoFile \notin Objects
    BY VfsAssumption DEF VInv, Good, Objects
  <2>2. dir \in [Names -> Objects \cup {NoFile}]
    BY <2>1 DEF Named
  <2>3. /\ dir' \in [Names -> Objects \cup {NoFile}]
        /\ dir'[m] = dir[n] /\ dir'[n] = NoFile
        /\ \A k \in Names \ {m, n} : dir'[k] = dir[k]
    BY <1>2, <2>2
  <2>4. \A x \in Objects : (\E k \in Names : dir'[k] = x) <=> (\E k \in Names : dir[k] = x)
    BY <1>2, <2>1, <2>3
  <2>5. Named(Now, dir')
    <3>1. ASSUME NEW f \in Fds, Now.fds[f].used
          PROVE  \E k \in Names : dir'[k] = Now.fds[f].obj
      <4>1. Now.fds[f].obj \in Objects
        BY <2>1, <3>1 DEF Sized
      <4>2. \E k \in Names : dir[k] = Now.fds[f].obj
        BY <2>1, <3>1 DEF Named
      <4> QED
        BY <2>4, <4>1, <4>2
    <3>2. ASSUME NEW x \in Objects, \A k \in Names : dir'[k] # x PROVE Now.objs[x] = <<>>
      <4>1. \A k \in Names : dir[k] # x
        BY <2>4, <3>2
      <4> QED
        BY <2>1, <4>1 DEF Named
    <3> QED
      BY <2>3, <3>1, <3>2 DEF Named
  <2>6. VInv' /\ Contents' = Contents /\ Handles' = Handles /\ objs' = objs
    BY <1>2, <2>5, SameStep
  <2>7. reply' = Api!Answer("rename", "ok", 0, <<>>)
    BY <1>2, Zenon DEF Answered, Answer, Api!Answer
  <2> QED
    BY <1>2, <2>6, <2>7, Zenon DEF Api!Rename
<1> QED
  BY <1>1, <1>2 DEF Rename

\* A handle is closed exactly when its descriptor is not in use.
LEMMA HandleOpen ==
  ASSUME NEW f \in Fds
  PROVE  /\ Api!Is(f) <=> fds[f].used
         /\ fds[f].used => Handles[f].file = fds[f].obj
         /\ ~fds[f].used => Handles[f] = Api!Closed
<1>1. Handles[f] = View(fds[f])
  BY ViewIs DEF HandlesOf
<1>2. CASE fds[f].used
  <2>1. Handles[f] = [open |-> TRUE, file |-> fds[f].obj,
                      off |-> fds[f].fdoffset, append |-> fds[f].append]
    BY <1>1, <1>2 DEF View
  <2>2. Api!Is(f)
    BY <2>1 DEF Api!Is
  <2>3. Handles[f].file = fds[f].obj
    BY <2>1
  <2> QED
    BY <1>2, <2>2, <2>3
<1>3. CASE ~fds[f].used
  <2>1. Handles[f] = [open |-> FALSE]
    BY <1>1, <1>3 DEF View
  <2>2. ~Api!Is(f)
    BY <2>1 DEF Api!Is
  <2> QED
    BY <1>3, <2>1, <2>2 DEF Api!Closed
<1> QED
  BY <1>2, <1>3

\* A file is removed under one of its names.
LEMMA ErasedStep ==
  ASSUME VInv, NEW n \in Names, NEW o \in Objects, dir[n] = o, NEW t, Erased(Now, t, o),
         Becomes(t), Unlinked(n), Answered("remove", 0)
  PROVE  VInv' /\ Api!Remove(n)
<1>1. Contents = Shown(Now) /\ Handles = HandlesOf(Now) /\ Now.objs = objs /\ Now.fds = fds
  BY ViewIs
<1>2. Good(Now) /\ Named(Now, dir)
  BY DEF VInv
<1>3. /\ Good(t) /\ Vis(t, o) = <<>> /\ t.objs[o] = <<>>
      /\ \A x \in Objects : x # o => Vis(t, x) = Vis(Now, x) /\ t.objs[x] = Now.objs[x]
  BY <1>2, ErasedGood
<1>4. Now' = t
  BY <1>3, BecomesIs DEF Good
<1>5. Contents' = Shown(t) /\ Handles' = HandlesOf(t) /\ objs' = t.objs
  BY <1>4, ViewNextIs
<1>6. /\ t.objs = [objs EXCEPT ![o] = <<>>]
      /\ \A g \in Fds : /\ t.fds[g].used <=> fds[g].used /\ fds[g].obj # o
                        /\ t.fds[g].used => t.fds[g] = fds[g]
  BY <1>1 DEF Erased
<1>7. NoFile \notin Objects /\ dir \in [Names -> Objects \cup {NoFile}]
  BY <1>2, VfsAssumption DEF Objects, Named
<1>8. /\ dir' = [dir EXCEPT ![n] = NoFile] /\ dir'[n] = NoFile
      /\ dir' \in [Names -> Objects \cup {NoFile}]
      /\ \A m \in Names \ {n} : dir'[m] = dir[m]
  BY <1>7 DEF Unlinked
<1>9. Named(t, dir')
  <2>1. ASSUME NEW g \in Fds, t.fds[g].used PROVE \E m \in Names : dir'[m] = t.fds[g].obj
    <3>1. fds[g].used /\ fds[g].obj # o /\ t.fds[g] = fds[g]
      BY <1>6, <2>1
    <3>2. PICK m \in Names : dir[m] = fds[g].obj
      BY <1>1, <1>2, <3>1 DEF Named
    <3> QED
      BY <1>8, <3>1, <3>2
  <2>2. ASSUME NEW x \in Objects, \A m \in Names : dir'[m] # x PROVE t.objs[x] = <<>>
    <3>1. CASE x = o
      BY <1>3, <3>1
    <3>2. CASE x # o
      <4>1. \A m \in Names : dir[m] # x
        BY <1>8, <2>2, <3>2
      <4> QED
        BY <1>2, <1>3, <3>2, <4>1 DEF Named
    <3> QED
      BY <3>1, <3>2
  <2> QED
    BY <1>8, <2>1, <2>2 DEF Named
<1>10. VInv'
  BY <1>3, <1>4, <1>9 DEF VInv
<1>11. Api!Empty(o)
  <2>1. Contents' = [Contents EXCEPT ![o] = <<>>]
    BY <1>1, <1>3, <1>5 DEF Shown
  <2> QED
    BY <1>5, <1>6, <2>1 DEF Api!Empty
<1>12. Handles' = [g \in Fds |-> IF Api!Is(g) /\ Handles[g].file = o THEN Api!Closed
                                ELSE Handles[g]]
  <2>1. ASSUME NEW g \in Fds
        PROVE  View(t.fds[g]) = IF Api!Is(g) /\ Handles[g].file = o THEN Api!Closed
                                ELSE Handles[g]
    <3>1. Handles[g] = View(fds[g])
      BY <1>1 DEF HandlesOf
    <3>2. /\ Api!Is(g) <=> fds[g].used
          /\ fds[g].used => Handles[g].file = fds[g].obj
          /\ ~fds[g].used => Handles[g] = Api!Closed
      BY HandleOpen
    <3>3. CASE t.fds[g].used
      BY <1>6, <3>1, <3>2, <3>3
    <3>4. CASE ~t.fds[g].used
      <4>1. View(t.fds[g]) = Api!Closed
        BY <3>4 DEF View, Api!Closed
      <4> QED
        BY <1>6, <3>2, <3>4, <4>1
    <3> QED
      BY <3>3, <3>4
  <2> QED
    BY <1>5, <2>1 DEF HandlesOf
<1>13. reply' = Api!Answer("remove", "ok", 0, <<>>)
  BY Zenon DEF Answered, Answer, Api!Answer
<1>14. dir[n] # NoFile
  BY <1>7
<1> QED
  BY <1>8, <1>10, <1>11, <1>12, <1>13, <1>14, Zenon DEF Api!Remove

\* SPIFFS_remove, of a file whose buffered bytes nobody else owns.
LEMMA RemoveImplements ==
  ASSUME Careless = FALSE, VInv, NEW n \in Names, Remove(n)
  PROVE  VInv' /\ Api!Remove(n)
<1>1. CASE Refuse("remove")
  BY <1>1, RefuseImplements DEF Api!Remove
<1>2. CASE /\ dir[n] # NoFile /\ PageOf(cache, dir[n]) = 0
           /\ Becomes(Removed(Now, dir[n]))
           /\ Unlinked(n) /\ Answered("remove", 0)
  <2>1. Good(Now) /\ dir[n] \in Objects /\ Now.c = cache
    BY <1>2, ViewIs DEF VInv, Named
  <2>2. Dropped(Now, Now, dir[n])
    BY <1>2, <2>1, NothingDropped
  <2>3. Erased(Now, Removed(Now, dir[n]), dir[n])
    BY <2>1, <2>2, RemovedErases
  <2> QED
    BY <1>2, <2>1, <2>3, ErasedStep
<1> QED
  BY <1>1, <1>2, Zenon DEF Remove

\* SPIFFS_fremove, which closes the descriptor as well.
LEMMA FremoveImplements ==
  ASSUME Careless = FALSE, VInv, NEW f \in Fds, Fremove(f)
  PROVE  VInv' /\ \E n \in Names : Api!Remove(n)
<1> DEFINE o == fds[f].obj
           i == fds[f].cache_page
           s == IF i = 0 THEN Now
                ELSE [Now EXCEPT !.fds = Forget(@, i), !.c = [@ EXCEPT ![i] = Other]]
<1>1. /\ fds[f].used /\ PageOf(cache, o) \in {0, i}
      /\ Becomes(Removed(s, o)) /\ Answered("remove", 0)
  BY Zenon DEF Fremove
<1>2. PICK n \in Names : dir[n] = o /\ Unlinked(n)
  BY Zenon DEF Fremove
<1>3. Good(Now) /\ Now.fds = fds /\ Now.c = cache
  BY ViewIs DEF VInv
<1>4. o \in Objects
  BY <1>1, <1>3 DEF Good, Sized
<1>5. Dropped(Now, s, o)
  <2>1. CASE i = 0
    <3>1. PageOf(Now.c, o) = 0 /\ s = Now
      BY <1>1, <1>3, <2>1
    <3> HIDE DEF s
    <3> QED
      BY <1>3, <1>4, <3>1, NothingDropped
  <2>2. CASE i # 0
    <3>1. s = [Now EXCEPT !.fds = Forget(@, Now.fds[f].cache_page),
                          !.c = [@ EXCEPT ![Now.fds[f].cache_page] = Other]]
      BY <1>3, <2>2
    <3> HIDE DEF s
    <3>2. Now.fds[f].used /\ Now.fds[f].cache_page # 0 /\ Now.fds[f].obj = o
      BY <1>1, <1>3, <2>2
    <3> QED
      BY <1>3, <3>1, <3>2, PageDropped
  <2> QED
    BY <2>1, <2>2
<1> HIDE DEF s
<1>6. Erased(Now, Removed(s, o), o)
  BY <1>3, <1>4, <1>5, RemovedErases
<1> QED
  BY <1>1, <1>2, <1>4, <1>6, ErasedStep

\* The state a call that opens a file starts from.
LEMMA OpenedWith ==
  ASSUME Now \in States, NEW f \in Fds, NEW o \in Objects, NEW flags
  PROVE  [Now EXCEPT !.fds = Opened(f, o, flags)] = With(Now, f, OpenedDesc(Now, f, o, flags))
<1>1. Now.objs = objs /\ Now.fds = fds
  BY ViewIs
<1> DEFINE d == OpenedDesc(Now, f, o, flags)
<1>2. Opened(f, o, flags) = [fds EXCEPT ![f] = d]
  <2> DEFINE e == [fds[f] EXCEPT !.used = TRUE, !.obj = o, !.size = StoredSize(o),
                                 !.append = "append" \in flags,
                                 !.fdoffset = 0, !.cursor = 0]
  <2>1. Opened(f, o, flags) = [fds EXCEPT ![f] = e]
    BY DEF Opened
  <2>2. d = e
    BY <1>1, Zenon DEF OpenedDesc, StoredSize
  <2> HIDE DEF d, e
  <2> QED
    BY <2>1, <2>2
<1> HIDE DEF d
<1>3. [Now EXCEPT !.fds = Opened(f, o, flags)] = [Now EXCEPT !.fds = [fds EXCEPT ![f] = d]]
  BY <1>2
<1> QED
  BY <1>1, <1>3, Zenon DEF With, d

\* A descriptor comes into use for an object that has a name then.
LEMMA NamedOpened ==
  ASSUME NEW s, NEW t, NEW d, Named(s, d), NEW f \in Fds, NEW o \in Objects,
         \E n \in Names : d[n] = o,
         t.fds[f].obj = o, \A g \in Fds \ {f} : t.fds[g] = s.fds[g],
         \A x \in Objects : x # o => t.objs[x] = s.objs[x]
  PROVE  Named(t, d)
<1>1. ASSUME NEW g \in Fds, t.fds[g].used PROVE \E n \in Names : d[n] = t.fds[g].obj
  BY <1>1 DEF Named
<1>2. ASSUME NEW x \in Objects, \A n \in Names : d[n] # x PROVE t.objs[x] = <<>>
  BY <1>2 DEF Named
<1> QED
  BY <1>1, <1>2 DEF Named

\* The handle of a descriptor just opened.
LEMMA OpenedView ==
  ASSUME NEW s \in States, NEW f \in Fds, NEW o \in Objects, NEW flags, NEW e,
         Alike(OpenedDesc(s, f, o, flags), e)
  PROVE  \E a \in BOOLEAN : View(e) = Api!Handle(o, 0, a)
<1> DEFINE d == OpenedDesc(s, f, o, flags)
<1>1. d.used /\ d.obj = o /\ d.fdoffset = 0 /\ d.append \in BOOLEAN
  BY OpenedIs
<1>2. View(e) = View(d)
  BY AlikeViews, Zenon
<1> HIDE DEF d
<1>3. View(d) = Api!Handle(o, 0, d.append)
  BY <1>1, Zenon DEF View, Api!Handle
<1> QED
  BY <1>1, <1>2, <1>3, Zenon

\* SPIFFS_open with every flag: it creates, truncates or finds a file.
LEMMA OpenImplements ==
  ASSUME Careless = FALSE, VInv, NEW n \in Names, NEW flags, Open(n, flags)
  PROVE  VInv' /\ Api!Open(n)
<1> DEFINE f == Lowest(FreeFds)
           o == IF dir[n] = NoFile THEN Lowest(FreeIds) ELSE dir[n]
           s == [Now EXCEPT !.fds = Opened(f, o, flags)]
           d == OpenedDesc(Now, f, o, flags)
<1>1. CASE Refuse("open")
  BY <1>1, RefuseImplements DEF Api!Open
<1>2. CASE /\ FreeFds # {} /\ dir' = [dir EXCEPT ![n] = o]
           /\ IF "trunc" \in flags /\ dir[n] # NoFile
              THEN Alone(o) /\ Becomes(Truncated(s, f)) ELSE Becomes(s)
           /\ Answered("open", f)
  <2>1. Contents = Shown(Now) /\ Handles = HandlesOf(Now) /\ Now.objs = objs /\ Now.fds = fds
    BY ViewIs
  <2>2. Good(Now) /\ Now \in States /\ Sized(Now) /\ Named(Now, dir) /\ NoFile \notin Objects
    BY VfsAssumption DEF VInv, Good, Objects
  <2>3. f \in Fds /\ ~fds[f].used
    <3>1. FreeFds \in SUBSET Nat
      BY Positive DEF FreeFds
    <3>2. f \in FreeFds
      BY <1>2, <3>1, LowestIs
    <3> QED
      BY <3>2 DEF FreeFds
  <2>4. dir \in [Names -> Objects \cup {NoFile}]
    BY <2>2 DEF Named
  <2>5. /\ o \in Objects
        /\ dir[n] = NoFile => \A m \in Names : dir[m] # o
        /\ dir[n] # NoFile => dir[n] = o
    <3>1. CASE dir[n] = NoFile
      <4>1. o \in FreeIds /\ o \in Objects
        BY <2>2, <3>1, FreeIdExists
      <4> QED
        BY <3>1, <4>1 DEF FreeIds
    <3>2. CASE dir[n] # NoFile
      BY <2>4, <3>2
    <3> QED
      BY <3>1, <3>2
  <2> HIDE DEF o
  <2>6. s = With(Now, f, d)
    <3> HIDE DEF f
    <3> QED
      BY <2>2, <2>3, <2>5, OpenedWith
  <2> HIDE DEF f, s
  <2>7. dir' \in [Names -> Objects \cup {NoFile}] /\ dir'[n] = o
    BY <1>2, <2>4, <2>5
  <2>8. Named(Now, dir')
    <3>1. CASE dir[n] = NoFile
      BY <1>2, <2>2, <2>5, <3>1, NamedNew
    <3>2. CASE dir[n] # NoFile
      <4>1. dir' = dir
        BY <1>2, <2>4, <2>5, <3>2
      <4> QED
        BY <2>2, <4>1
    <3> QED
      BY <3>1, <3>2
  <2>9. ~Api!Is(f)
    BY <2>3, HandleOpen
  <2>10. reply' = Api!Answer("open", "ok", f, <<>>)
    BY <1>2, Zenon DEF Answered, Answer, Api!Answer
  <2>11. CASE "trunc" \in flags /\ dir[n] # NoFile
    <3> DEFINE t == Truncated(With(Now, f, d), f)
    <3>1. Alone(o) /\ Becomes(t)
      BY <1>2, <2>6, <2>11
    <3>2. \A g \in Fds : Now.fds[g].used => Now.fds[g].obj # o
      BY <2>1, <3>1 DEF Alone
    <3>3. /\ Good(t) /\ Vis(t, o) = <<>> /\ t.objs[o] = <<>>
          /\ \A x \in Objects : x # o => Vis(t, x) = Vis(Now, x) /\ t.objs[x] = Now.objs[x]
          /\ Alike(d, t.fds[f])
          /\ \A g \in Fds \ {f} : t.fds[g] = Now.fds[g]
      BY <2>1, <2>2, <2>3, <2>5, <3>2, TruncatedGood
    <3> HIDE DEF t
    <3>4. Now' = t
      BY <3>1, <3>3, BecomesIs DEF Good
    <3>5. Contents' = Shown(t) /\ Handles' = HandlesOf(t) /\ objs' = t.objs
      BY <3>4, ViewNextIs
    <3>6. t.fds[f].obj = o
      BY <2>2, <2>3, <2>5, <3>3, OpenedIs DEF Alike
    <3>7. Named(t, dir')
      <4>1. \E m \in Names : dir'[m] = o
        BY <2>7
      <4>2. \A g \in Fds \ {f} : t.fds[g] = Now.fds[g]
        BY <3>3
      <4>3. \A x \in Objects : x # o => t.objs[x] = Now.objs[x]
        BY <3>3
      <4> QED
        BY <2>3, <2>5, <2>8, <3>6, <4>1, <4>2, <4>3, NamedOpened
    <3>8. VInv'
      BY <3>3, <3>4, <3>7 DEF VInv
    <3>9. PICK a \in BOOLEAN : View(t.fds[f]) = Api!Handle(o, 0, a)
      BY <2>2, <2>3, <2>5, <3>3, OpenedView
    <3>10. Handles' = [Handles EXCEPT ![f] = Api!Handle(o, 0, a)]
      BY <2>1, <3>3, <3>5, <3>9 DEF HandlesOf
    <3>11. Api!Empty(o)
      <4>1. Contents' = [Contents EXCEPT ![o] = <<>>]
        BY <2>1, <3>3, <3>5 DEF Shown
      <4>2. objs' = [objs EXCEPT ![o] = <<>>]
        <5>1. t.objs \in [Objects -> Seq(Values)] /\ objs \in [Objects -> Seq(Values)]
          BY <2>1, <2>2, <3>3, Parts DEF Good
        <5> QED
          BY <2>1, <3>3, <3>5, <5>1
      <4> QED
        BY <4>1, <4>2 DEF Api!Empty
    <3>12. dir' = dir /\ dir[n] = o
      BY <1>2, <2>4, <2>5, <2>11
    <3>13. Api!OpenFile(n, f)
      BY <2>5, <2>9, <2>10, <3>9, <3>10, <3>11, <3>12, Zenon DEF Api!OpenFile
    <3> QED
      BY <2>3, <3>8, <3>13, Zenon DEF Api!Open
  <2>12. CASE ~("trunc" \in flags /\ dir[n] # NoFile)
    <3> DEFINE t == With(Now, f, d)
    <3>1. Becomes(t)
      BY <1>2, <2>6, <2>12
    <3>2. Good(t) /\ Replaced(Now, t, f, d) /\ SameSeen(Now, t)
      BY <2>1, <2>2, <2>3, <2>5, OpenedGood
    <3> HIDE DEF t
    <3>3. /\ t.objs = Now.objs /\ t.fds[f] = d /\ \A g \in Fds \ {f} : t.fds[g] = Now.fds[g]
          /\ \A x \in Objects : Vis(t, x) = Vis(Now, x)
      BY <3>2 DEF Replaced, SameSeen
    <3>4. Now' = t
      BY <3>1, <3>2, BecomesIs DEF Good
    <3>5. Contents' = Shown(t) /\ Handles' = HandlesOf(t) /\ objs' = t.objs
      BY <3>4, ViewNextIs
    <3>6. t.fds[f].obj = o
      BY <2>2, <2>3, <2>5, <3>3, OpenedIs
    <3>7. Named(t, dir')
      <4>1. \E m \in Names : dir'[m] = o
        BY <2>7
      <4>2. \A g \in Fds \ {f} : t.fds[g] = Now.fds[g]
        BY <3>3
      <4>3. \A x \in Objects : x # o => t.objs[x] = Now.objs[x]
        BY <3>3
      <4> QED
        BY <2>3, <2>5, <2>8, <3>6, <4>1, <4>2, <4>3, NamedOpened
    <3>8. VInv'
      BY <3>2, <3>4, <3>7 DEF VInv
    <3>9. PICK a \in BOOLEAN : View(t.fds[f]) = Api!Handle(o, 0, a)
      <4>1. Alike(d, t.fds[f])
        BY <3>3 DEF Alike
      <4> QED
        BY <2>2, <2>3, <2>5, <4>1, OpenedView
    <3>10. Handles' = [Handles EXCEPT ![f] = Api!Handle(o, 0, a)]
      BY <2>1, <3>3, <3>5, <3>9 DEF HandlesOf
    <3>11. Contents' = Contents /\ objs' = objs
      BY <2>1, <3>3, <3>5 DEF Shown
    <3>12. CASE dir[n] # NoFile
      <4>1. dir' = dir /\ dir[n] = o
        BY <1>2, <2>4, <2>5, <3>12
      <4>2. Api!OpenFile(n, f)
        BY <2>5, <2>9, <2>10, <3>9, <3>10, <3>11, <4>1, Zenon DEF Api!OpenFile
      <4> QED
        BY <2>3, <3>8, <4>2, Zenon DEF Api!Open
    <3>13. CASE dir[n] = NoFile
      <4>1. \A m \in Names : dir[m] # o
        BY <2>5, <3>13
      <4>2. objs[o] = <<>> /\ Contents[o] = <<>>
        BY <2>1, <2>2, <2>5, <4>1, UnnamedEmpty DEF Shown
      <4>3. Contents = [x \in Objects |-> Contents[x]] /\ objs \in [Objects -> Seq(Values)]
        BY <2>1, <2>2, Parts DEF Contents
      <4>4. Api!Empty(o)
        BY <2>5, <3>11, <4>2, <4>3 DEF Api!Empty
      <4>5. Api!Absent(o)
        BY <4>1 DEF Api!Absent
      <4>6. Api!OpenFile(n, f)
        BY <1>2, <2>5, <2>9, <2>10, <3>9, <3>10, <3>13, <4>4, <4>5, Zenon DEF Api!OpenFile
      <4> QED
        BY <2>3, <3>8, <4>6, Zenon DEF Api!Open
    <3> QED
      BY <3>12, <3>13
  <2> QED
    BY <2>11, <2>12
<1> QED
  BY <1>1, <1>2, Zenon DEF Open

-----------------------------------------------------------------------------
(* Mounting *)

\* The state after a mount that finds the bytes b.
Mounted(b) == [objs |-> b, fds |-> [f \in Fds |-> NoDesc], c |-> [i \in Cache |-> Other]]

\* After a mount the files are what was stored, and every handle is closed.
LEMMA MountedIs ==
  ASSUME NEW b \in [Objects -> Seq(Values)]
  PROVE  /\ Good(Mounted(b)) /\ Shown(Mounted(b)) = b
         /\ HandlesOf(Mounted(b)) = [f \in Fds |-> Api!Closed]
<1> DEFINE t == Mounted(b)
<1>1. /\ t.objs = b /\ \A f \in Fds : t.fds[f] = NoDesc
      /\ \A i \in Cache : t.c[i] = Other
  BY DEF Mounted
<1>2. t \in States
  <2>1. NoDesc \in Desc
    <3>1. 0 \in Sizes /\ 0 \in Refers /\ 0 \in Nat /\ 0 \in Int
      BY DEF Sizes, Refers
    <3> QED
      BY <3>1, Zenon DEF NoDesc, Desc
  <2>2. [f \in Fds |-> NoDesc] \in [Fds -> Desc]
    BY <2>1
  <2>3. [i \in Cache |-> Other] \in [Cache -> {Other} \cup Page]
    OBVIOUS
  <2> QED
    BY <2>2, <2>3, Zenon DEF Mounted, States
<1> HIDE DEF t
<1>3. \A i \in Cache : ~Written(t.c, i)
  BY <1>1 DEF Written, Other
<1>4. \A f \in Fds : ~t.fds[f].used /\ t.fds[f].cache_page = 0
  BY <1>1 DEF NoDesc
<1>5. Good(t)
  BY <1>2, <1>3, <1>4 DEF Good, Refs, Joined, Single, Held, Sized, Inside
<1>6. ASSUME NEW o \in Objects PROVE Vis(t, o) = b[o]
  <2>1. PageOf(t.c, o) = 0
    BY <1>3, PageOfIs
  <2> QED
    BY <1>1, <2>1, Zenon DEF Vis
<1>7. \A f \in Fds : View(t.fds[f]) = Api!Closed
  BY <1>4 DEF View, Api!Closed
<1> QED
  BY <1>5, <1>6, <1>7 DEF Shown, HandlesOf, t

\* A call that mounts the file system.
LEMMA MountStep ==
  ASSUME VInv, NEW b \in [Objects -> Seq(Values)], objs' = b, Cleared,
         \A o \in Objects : (\A n \in Names : dir[n] # o) => b[o] = <<>>
  PROVE  VInv' /\ Contents' = b /\ Handles' = [f \in Fds |-> Api!Closed] /\ dir' = dir
<1>1. Now' = Mounted(b) /\ dir' = dir
  BY DEF Now, Mounted, Cleared
<1>2. /\ Good(Mounted(b)) /\ Shown(Mounted(b)) = b
      /\ HandlesOf(Mounted(b)) = [f \in Fds |-> Api!Closed]
  BY MountedIs
<1>3. Contents' = b /\ Handles' = [f \in Fds |-> Api!Closed]
  BY <1>1, <1>2, ViewNextIs
<1>4. Named(Mounted(b), dir)
  BY DEF Named, VInv, Mounted, NoDesc
<1> QED
  BY <1>1, <1>2, <1>3, <1>4 DEF VInv

\* An orderly unmount loses nothing that was flushed.
LEMMA RemountImplements ==
  ASSUME VInv, Remount
  PROVE  VInv' /\ Api!Unmount
<1> DEFINE b == AllFlushed.objs
<1>1. Good(Now) /\ Named(Now, dir) /\ Contents = Shown(Now)
  BY ViewIs DEF VInv
<1>2. /\ Good(AllFlushed)
      /\ \A o \in Objects : b[o] = Vis(Now, o)
  BY <1>1, AllFlushedIs
<1>3. b \in [Objects -> Seq(Values)]
  BY <1>2, Parts DEF Good
<1>4. objs' = b /\ Cleared /\ reply' = Answer("unmount", "ok", 0, <<>>)
  BY DEF Remount, Answered
<1> HIDE DEF b
<1>5. b = Contents
  BY <1>1, <1>2, <1>3 DEF Shown
<1>6. ASSUME NEW o \in Objects, \A n \in Names : dir[n] # o PROVE b[o] = <<>>
  BY <1>1, <1>2, <1>6, UnnamedEmpty
<1>7. PICK e \in [Objects -> Seq(Values)] : e = b
  BY <1>3
<1>8. VInv' /\ Contents' = e /\ Handles' = [f \in Fds |-> Api!Closed] /\ dir' = dir
  BY <1>4, <1>6, <1>7, MountStep
<1>9. reply' = Api!Answer("unmount", "ok", 0, <<>>)
  BY <1>4, Zenon DEF Answer, Api!Answer
<1> QED
  BY <1>4, <1>5, <1>7, <1>8, <1>9, Zenon DEF Api!Unmount

\* A power cut leaves what was stored.
LEMMA PowerCutImplements ==
  ASSUME VInv, PowerCut
  PROVE  VInv' /\ Api!PowerCut
<1>1. objs' = objs /\ Cleared /\ reply' = Answer("none", "ok", 0, <<>>)
  BY DEF PowerCut, Answered
<1>2. Now \in States /\ Named(Now, dir) /\ Now.objs = objs
  BY ViewIs DEF VInv, Good
<1>3. PICK e \in [Objects -> Seq(Values)] : e = objs
  BY <1>2, Parts
<1>4. \A o \in Objects : (\A n \in Names : dir[n] # o) => e[o] = <<>>
  BY <1>2, <1>3 DEF Named
<1>5. VInv' /\ Contents' = e /\ Handles' = [f \in Fds |-> Api!Closed] /\ dir' = dir
  BY <1>1, <1>3, <1>4, MountStep
<1>6. reply' = Api!Answer("none", "ok", 0, <<>>)
  BY <1>1, Zenon DEF Answer, Api!Answer
<1> QED
  BY <1>1, <1>3, <1>5, <1>6, Zenon DEF Api!PowerCut

-----------------------------------------------------------------------------
(* The theorems *)

\* The state after formatting.
LEMMA Initially ==
  ASSUME VfsInit
  PROVE  VInv /\ Api!ApiInit
<1> DEFINE b == [o \in Objects |-> <<>>]
<1>1. b \in [Objects -> Seq(Values)]
  OBVIOUS
<1>2. Now = Mounted(b)
  BY DEF VfsInit, Now, Mounted
<1>3. /\ Good(Mounted(b)) /\ Shown(Mounted(b)) = b
      /\ HandlesOf(Mounted(b)) = [f \in Fds |-> Api!Closed]
  BY <1>1, MountedIs
<1>4. Named(Now, dir)
  BY <1>2 DEF VfsInit, Named, Mounted, NoDesc
<1>5. Contents = b /\ Handles = [f \in Fds |-> Api!Closed] /\ objs = b
  BY <1>2, <1>3, ViewIs DEF VfsInit
<1>6. reply = Api!Answer("none", "ok", 0, <<>>)
  BY Zenon DEF VfsInit, Answer, Api!Answer
<1>7. dir = [n \in Names |-> NoFile]
  BY DEF VfsInit
<1> QED
  BY <1>2, <1>3, <1>4, <1>5, <1>6, <1>7, Zenon DEF VInv, Api!ApiInit

\* Every call keeps the invariant and does what FileApi promises of it.
LEMMA Steps ==
  ASSUME Careless = FALSE, VInv, [VfsNext]_vfsVars
  PROVE  VInv' /\ [Api!ApiNext]_(Api!apiVars)
<1>1. ASSUME NEW n \in Names, Creat(n) PROVE VInv' /\ Api!ApiNext
  BY <1>1, CreatImplements DEF Api!ApiNext
<1>2. ASSUME NEW n \in Names, Stat(n) PROVE VInv' /\ Api!ApiNext
  BY <1>2, StatImplements DEF Api!ApiNext
<1>3. ASSUME NEW n \in Names, Remove(n) PROVE VInv' /\ Api!ApiNext
  BY <1>3, RemoveImplements DEF Api!ApiNext
<1>4. ASSUME NEW n \in Names, NEW flags, Open(n, flags) PROVE VInv' /\ Api!ApiNext
  BY <1>4, OpenImplements DEF Api!ApiNext
<1>5. ASSUME NEW n \in Names, NEW m \in Names \ {n}, Rename(n, m) PROVE VInv' /\ Api!ApiNext
  BY <1>5, RenameImplements DEF Api!ApiNext
<1>6. ASSUME NEW f \in Fds, NEW data \in Writes, Write(f, data) PROVE VInv' /\ Api!ApiNext
  BY <1>6, WriteImplements DEF Api!ApiNext
<1>7. ASSUME NEW f \in Fds, NEW len \in 1..2, Read(f, len) PROVE VInv' /\ Api!ApiNext
  BY <1>7, ReadImplements DEF Api!ApiNext
<1>8. ASSUME NEW f \in Fds, NEW p \in Seeks, Lseek(f, p[1], p[2]) PROVE VInv' /\ Api!ApiNext
  <2>1. p[1] \in {"set", "cur", "end"} /\ p[2] \in Int
    BY VfsAssumption
  <2> QED
    BY <1>8, <2>1, LseekImplements DEF Api!ApiNext
<1>9. ASSUME NEW f \in Fds, Eof(f) \/ Tell(f) \/ Fflush(f) \/ Fstat(f) \/ Close(f)
      PROVE  VInv' /\ Api!ApiNext
  BY <1>9, EofImplements, TellImplements, FflushImplements, FstatImplements,
     CloseImplements DEF Api!ApiNext
<1>10. ASSUME NEW f \in Fds, Fremove(f) PROVE VInv' /\ Api!ApiNext
  BY <1>10, FremoveImplements DEF Api!ApiNext
<1>11. ASSUME Remount \/ PowerCut PROVE VInv' /\ Api!ApiNext
  BY <1>11, RemountImplements, PowerCutImplements DEF Api!ApiNext
<1>12. CASE UNCHANGED vfsVars
  <2>1. UNCHANGED <<objs, fds, cache>> /\ dir' = dir /\ reply' = reply
    BY <1>12 DEF vfsVars
  <2>2. Named(Now, dir')
    BY <2>1 DEF VInv
  <2>3. VInv' /\ Contents' = Contents /\ Handles' = Handles /\ objs' = objs
    BY <2>1, <2>2, SameStep
  <2> QED
    BY <2>1, <2>3 DEF Api!apiVars
<1>13. CASE VfsNext
  BY <1>1, <1>2, <1>3, <1>4, <1>5, <1>6, <1>7, <1>8, <1>9, <1>10, <1>11, <1>13, Zenon
  DEF VfsNext
<1> QED
  BY <1>12, <1>13

\* Clients that remove and truncate only what nobody has open find every file call
\* to do what FileApi promises: with any number of descriptors, pages and files, and
\* whichever pages the cache gives away, a reader sees what was written, and what a
\* power cut leaves was seen once.
THEOREM FilesImplemented ==
  ASSUME Careless = FALSE
  PROVE  VfsSpec => ImplementsFileApi
<1>1. VfsInit => VInv /\ Api!ApiInit
  BY Initially
<1>2. VInv /\ [VfsNext]_vfsVars => VInv' /\ [Api!ApiNext]_(Api!apiVars)
  BY Steps
<1> QED
  BY <1>1, <1>2, PTL DEF VfsSpec, ImplementsFileApi, Api!ApiSpec

\* The invariant behind it.
LEMMA Invariance ==
  ASSUME Careless = FALSE
  PROVE  VfsSpec => []VInv
<1>1. VfsInit => VInv
  BY Initially
<1>2. VInv /\ [VfsNext]_vfsVars => VInv'
  BY Steps
<1> QED
  BY <1>1, <1>2, PTL DEF VfsSpec

\* No descriptor in use refers to a page of another file, or to a page of flash.
THEOREM ReferencesHold ==
  ASSUME Careless = FALSE
  PROVE  VfsSpec => []PageRefersFd
<1>1. VInv => PageRefersFd
  BY ViewIs DEF VInv, Good, Refs, Written, PageRefersFd
<1> QED
  BY <1>1, Invariance, PTL

\* An object has at most one page of buffered bytes, joined on to the stored ones.
THEOREM BuffersSingle ==
  ASSUME Careless = FALSE
  PROVE  VfsSpec => []OneBuffer
<1>1. VInv => OneBuffer
  <2> SUFFICES ASSUME VInv, NEW i \in Cache \ Others(cache), NEW j \in Cache \ Others(cache)
               PROVE  /\ cache[i].obj = cache[j].obj => i = j
                      /\ cache[i].offset <= Len(objs[cache[i].obj])
    BY DEF OneBuffer
  <2>1. Now.c = cache /\ Now.objs = objs /\ Good(Now)
    BY ViewIs DEF VInv
  <2>2. cache \in [Cache -> {Other} \cup Page]
    BY <2>1, Parts DEF Good
  <2>3. Written(cache, i) /\ Written(cache, j)
    BY <2>2, Pages
  <2> QED
    BY <2>1, <2>3 DEF Good, Single, Joined
<1> QED
  BY <1>1, Invariance, PTL

\* The size a descriptor caches is the size of the stored file, whoever changed it.
THEOREM SizesKept ==
  ASSUME Careless = FALSE
  PROVE  VfsSpec => []SizesAgree
<1>1. VInv => SizesAgree
  BY ViewIs DEF VInv, Good, Sized, SizesAgree, SizeOr0
<1> QED
  BY <1>1, Invariance, PTL

\* With fewer descriptors than cache pages a read of flash finds a page: every page of
\* written bytes is held by a descriptor of its own.
THEOREM CacheAlwaysServes ==
  ASSUME Careless = FALSE
  PROVE  VfsSpec => []CacheServes
<1>1. VInv => CacheServes
  <2> SUFFICES ASSUME VInv, Descs < CachePages, Others(cache) = {} PROVE FALSE
    BY DEF CacheServes
  <2>1. Now.c = cache /\ Now.fds = fds /\ Good(Now)
    BY ViewIs DEF VInv
  <2>2. \A i \in Cache : Written(cache, i)
    <3>1. cache \in [Cache -> {Other} \cup Page]
      BY <2>1, Parts DEF Good
    <3> QED
      BY <3>1, Pages
  <2>3. \A i \in Cache : \E f \in Fds : fds[f].cache_page = i
    BY <2>1, <2>2 DEF Good, Held
  <2> DEFINE g == [i \in Cache |-> CHOOSE f \in Fds : fds[f].cache_page = i]
  <2>4. \A i \in Cache : g[i] \in Fds /\ fds[g[i]].cache_page = i
    BY <2>3
  <2>5. g \in [Cache -> Fds]
    BY <2>4
  <2> HIDE DEF g
  <2>6. /\ IsFiniteSet(Cache) /\ Cardinality(Cache) = CachePages
        /\ IsFiniteSet(Fds) /\ Cardinality(Fds) = Descs
    BY VfsAssumption, FS_Interval DEF Cache, Fds
  <2>7. PICK i, j \in Cache : i # j /\ g[i] = g[j]
    BY <2>5, <2>6, FS_PigeonHole
  <2> QED
    BY <2>4, <2>7
<1> QED
  BY <1>1, Invariance, PTL

=============================================================================
