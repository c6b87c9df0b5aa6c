----------------------- MODULE SpiffsObjects_proofs -----------------------
(***************************************************************************)
(* What the pages of an object have to do with each other, and how the     *)
(* steps of SpiffsGc and SpiffsStore change it, for every object, page and *)
(* geometry.  A flash is given by two functions: l, the id each live page  *)
(* carries, and e, what it holds.                                          *)
(***************************************************************************)
EXTENDS SpiffsGc, Sequences, NatFacts

-----------------------------------------------------------------------------
(* Spans and index spans. *)

\* The span a byte lies in.
LEMMA SpanOf ==
  ASSUME NEW n \in Nat
  PROVE  /\ n \div DataPageSize \in Nat
         /\ (n \div DataPageSize) * DataPageSize <= n
         /\ n < (n \div DataPageSize) * DataPageSize + DataPageSize
         /\ n % DataPageSize \in 0..(DataPageSize - 1)
         /\ n = (n \div DataPageSize) * DataPageSize + (n % DataPageSize)
<1> DEFINE D == DataPageSize  q == n \div D  m == n % D
<1>1. D \in Nat \ {0}
  BY StoreAssumption
<1>2. q \in Nat /\ m \in 0..(D - 1) /\ n = D * q + m
  BY <1>1, DivMod
<1> HIDE DEF D, q, m
<1>3. D * q = q * D
  BY <1>1, <1>2
<1> QED
  BY <1>1, <1>2, <1>3 DEF D, q, m

\* A byte lies in no other span.
LEMMA SpanOnly ==
  ASSUME NEW k \in Nat, NEW n \in Nat, k * DataPageSize <= n, n < k * DataPageSize + DataPageSize
  PROVE  n \div DataPageSize = k /\ n % DataPageSize = n - k * DataPageSize
<1> DEFINE D == DataPageSize  q == n \div D  m == n % D
<1>1. D \in Nat \ {0}
  BY StoreAssumption
<1>2. q \in Nat /\ m \in 0..(D - 1) /\ n = D * q + m
  BY <1>1, DivMod
<1>3. k * D <= n /\ n < k * D + D
  OBVIOUS
<1> HIDE DEF D, q, m
<1>4. n - D * k \in 0..(D - 1) /\ D * q + m = D * k + (n - D * k) /\ D * k = k * D
  BY <1>1, <1>2, <1>3
<1>5. q = k /\ m = n - D * k
  BY <1>1, <1>2, <1>4, DivModUnique
<1> QED
  BY <1>4, <1>5 DEF D, q, m

\* A later span begins behind the end of an earlier one.
LEMMA SpansApart ==
  ASSUME NEW j \in Nat, NEW k \in Nat, j < k
  PROVE  j * DataPageSize + DataPageSize <= k * DataPageSize
<1> DEFINE D == DataPageSize
<1>1. D \in Nat
  BY StoreAssumption
<1> HIDE DEF D
<1>2. PICK d \in Nat : k = j + 1 + d
  <2>1. k - j - 1 \in Nat /\ k = j + 1 + (k - j - 1)
    OBVIOUS
  <2> QED
    BY <2>1
<1>3. k * D = j * D + D + d * D /\ d * D >= 0
  BY <1>1, <1>2
<1>4. j * D + D <= k * D
  BY <1>1, <1>3
<1> QED
  BY <1>4 DEF D

\* Later spans have their slots in the same index page or a later one.
LEMMA IxSpanUp ==
  ASSUME NEW j \in Nat, NEW k \in Nat, j <= k
  PROVE  IxSpan(j) \in Nat /\ IxSpan(k) \in Nat /\ IxSpan(j) <= IxSpan(k) /\ IxSpan(0) = 0
<1> DEFINE I == IxSlots  a == j - HdrSlots  b == k - HdrSlots
<1>1. I \in Nat \ {0} /\ HdrSlots \in Nat \ {0}
  BY StoreAssumption
<1>2. ASSUME NEW c \in Nat PROVE c \div I \in Nat /\ c = I * (c \div I) + (c % I) /\ c % I \in 0..(I - 1)
  BY <1>1, DivMod
<1>3. IxSpan(0) = 0
  BY <1>1 DEF IxSpan
<1>4. CASE j < HdrSlots
  <2>1. k >= HdrSlots => b \in Nat /\ b \div I \in Nat
    BY <1>1, <1>2
  <2> QED
    BY <1>1, <1>3, <1>4, <2>1 DEF IxSpan
<1>5. CASE j >= HdrSlots
  <2>1. a \in Nat /\ b \in Nat /\ a <= b
    BY <1>1, <1>5
  <2>2. a \div I \in Nat /\ b \div I \in Nat
    BY <1>2, <2>1
  <2>3. a \div I <= b \div I
    <3> DEFINE p == a \div I  q == b \div I
    <3>1. a = I * p + (a % I) /\ b = I * q + (b % I) /\ a % I \in 0..(I - 1) /\ b % I \in 0..(I - 1)
      BY <1>2, <2>1
    <3>2. p \in Nat /\ q \in Nat
      BY <2>2
    <3> HIDE DEF p, q
    <3> SUFFICES ASSUME q + 1 <= p PROVE FALSE
      BY <3>2 DEF p, q
    <3>3. PICK d \in Nat : p = q + 1 + d
      <4>1. p - q - 1 \in Nat /\ p = q + 1 + (p - q - 1)
        BY <3>2
      <4> QED
        BY <4>1
    <3>4. I * p = I * q + I + I * d /\ I * d >= 0
      BY <1>1, <3>2, <3>3
    <3> HIDE DEF I
    <3> QED
      BY <1>1, <2>1, <3>1, <3>2, <3>4
  <2> QED
    BY <1>1, <1>3, <1>5, <2>2, <2>3 DEF IxSpan
<1> QED
  BY <1>1, <1>4, <1>5

-----------------------------------------------------------------------------
(* Objects. *)

\* The ids of an object's index pages and data pages.
Ix(o) == <<o, "index">>
Da(o) == <<o, "data">>

\* What pages hold.
Cells == Bytes \cup {Unset, Torn}
Refs == Page \cup {Unset, Torn}
Sizes == Nat \cup {Unset}
DataBody == [kind : {"data"}, span : Span, bytes : [0..(DataPageSize - 1) -> Cells]]
IndexBody(x) ==
  /\ x = [kind |-> "index", span |-> x.span, size |-> x.size, ixdele |-> x.ixdele,
          refs |-> x.refs]
  /\ x.span \in Nat /\ x.size \in Sizes /\ x.ixdele \in BOOLEAN
  /\ x.refs \in [SlotsOf(x.span) -> Refs]

\* Dead pages hold nothing, and live ones what their id says.
Flash(l, e) == l \in [Page -> LuIds \cup {DELETED}] /\ DOMAIN e = Page
TypedPage(i, c) ==
  /\ i = DELETED => c = Blank
  /\ \A o \in ObjIds : (i = Da(o) => c \in DataBody) /\ (i = Ix(o) => IndexBody(c))
Typed(l, e) == Flash(l, e) /\ \A p \in Page : TypedPage(l[p], e[p])

\* An object has one index page of a span.
Unique(l, e) ==
  \A o \in ObjIds : \A p, q \in Page :
     l[p] = Ix(o) /\ l[q] = Ix(o) /\ e[p].span = e[q].span => p = q

\* The slot of span k of an object holds r; it has an index page of span j; its header
\* has size z and is marked d.
Slot(l, e, o, k, r) ==
  \E p \in Page : l[p] = Ix(o) /\ e[p].span = IxSpan(k) /\ e[p].refs[k] = r
HasIx(l, e, o, j) == \E p \in Page : l[p] = Ix(o) /\ e[p].span = j
HeadIs(l, e, o, z, d) ==
  \E p \in Page : l[p] = Ix(o) /\ e[p].span = 0 /\ e[p].size = z /\ e[p].ixdele = d

\* Page r has the bytes of span k of what the object is wanted to hold.
Leads(l, e, o, k, r, want) ==
  /\ r \in Page /\ l[r] = Da(o) /\ e[r].span = k
  /\ \A i \in 0..(DataPageSize - 1) : e[r].bytes[i] = want[k * DataPageSize + i]

\* An object of n bytes: each span of it has a slot that leads to its bytes; the slots
\* behind it are empty; each data page, but for x, is in the slot of its span; and each
\* index page, but for the one of span hs, has the slot of a span of it.  In an object
\* that is being cut the slots behind it are not emptied.
Linked(l, e, o, n, want) ==
  \A k \in Span : k * DataPageSize < n =>
    \E r \in Page : Slot(l, e, o, k, r) /\ Leads(l, e, o, k, r, want)
Ended(l, e, o, n) ==
  \A k \in Span, r \in Refs : Slot(l, e, o, k, r) /\ k * DataPageSize >= n => r = Unset
Owned(l, e, o, n, x) ==
  \A r \in Page : l[r] = Da(o) /\ r # x =>
    e[r].span * DataPageSize < n /\ Slot(l, e, o, e[r].span, r)
Spanned(l, e, o, n, hs) ==
  \A p \in Page : l[p] = Ix(o) /\ e[p].span # 0 /\ e[p].span # hs =>
     \E k \in Span : IxSpan(k) = e[p].span /\ k * DataPageSize < n
Shape(l, e, o, n, want, hs, x, cut) ==
  /\ Linked(l, e, o, n, want) /\ Owned(l, e, o, n, x) /\ Spanned(l, e, o, n, hs)
  /\ cut \/ Ended(l, e, o, n)

\* No page has the object's id.
NoPages(l, o) == \A p \in Page : l[p] # Ix(o) /\ l[p] # Da(o)

-----------------------------------------------------------------------------
(* What does not change an object. *)

\* The pages of the object are the same.
Untouched(l, e, m, f, o) ==
  \A p \in Page : l[p] \in {Ix(o), Da(o)} \/ m[p] \in {Ix(o), Da(o)} =>
                    m[p] = l[p] /\ f[p] = e[p]

\* The object has the same slots, index pages and data pages, wherever its index pages are.
SameView(l, e, m, f, o) ==
  /\ \A k \in Span, r \in Refs : Slot(l, e, o, k, r) <=> Slot(m, f, o, k, r)
  /\ \A j \in Nat : HasIx(l, e, o, j) <=> HasIx(m, f, o, j)
  /\ \A p \in Page : l[p] = Da(o) <=> m[p] = Da(o)
  /\ \A p \in Page : l[p] = Da(o) => f[p] = e[p]

\* Ids of different objects, and of dead pages, are different.
LEMMA IdsApart ==
  ASSUME NEW o \in ObjIds
  PROVE  /\ Ix(o) \in LuIds /\ Da(o) \in LuIds /\ Ix(o) # Da(o)
         /\ Ix(o) # DELETED /\ Da(o) # DELETED
         /\ \A q \in ObjIds : q # o => /\ Ix(q) # Ix(o) /\ Da(q) # Da(o)
                                       /\ Ix(q) # Da(o) /\ Da(q) # Ix(o)
BY StoreAssumption, MarkerAssumption DEF Ix, Da

\* Spans and references.
LEMMA Referred ==
  /\ \A k \in Span : k \in Nat /\ k < MaxSpans /\ k \in SlotsOf(IxSpan(k))
  /\ \A j, k : k \in SlotsOf(j) => k \in Span /\ IxSpan(k) = j
  /\ Unset \in Refs /\ \A p \in Page : p \in Refs /\ p # Unset
BY StoreAssumption DEF Span, SlotsOf, Refs

\* Pages that are the same make the same object, and the same header.
LEMMA UntouchedView ==
  ASSUME NEW l, NEW e, NEW m, NEW f, NEW o, Untouched(l, e, m, f, o)
  PROVE  /\ SameView(l, e, m, f, o)
         /\ \A z, d : HeadIs(l, e, o, z, d) <=> HeadIs(m, f, o, z, d)
         /\ NoPages(l, o) => NoPages(m, o)
<1>1. \A p \in Page : l[p] = Ix(o) \/ m[p] = Ix(o) => m[p] = l[p] /\ f[p] = e[p]
  BY DEF Untouched
<1>2. \A p \in Page : l[p] = Da(o) \/ m[p] = Da(o) => m[p] = l[p] /\ f[p] = e[p]
  BY DEF Untouched
<1>3. \A k, r : Slot(l, e, o, k, r) <=> Slot(m, f, o, k, r)
  BY <1>1, Zenon DEF Slot
<1>4. \A j : HasIx(l, e, o, j) <=> HasIx(m, f, o, j)
  BY <1>1, Zenon DEF HasIx
<1>5. \A z, d : HeadIs(l, e, o, z, d) <=> HeadIs(m, f, o, z, d)
  BY <1>1, Zenon DEF HeadIs
<1>6. NoPages(l, o) => NoPages(m, o)
  BY <1>1, <1>2, Zenon DEF NoPages
<1>7. /\ \A p \in Page : l[p] = Da(o) <=> m[p] = Da(o)
      /\ \A p \in Page : l[p] = Da(o) => f[p] = e[p]
  BY <1>2, Zenon
<1> QED
  BY <1>3, <1>4, <1>5, <1>6, <1>7, Zenon DEF SameView

\* An object that looks the same is of the same shape.
LEMMA ShapeKept ==
  ASSUME NEW l, NEW e, NEW m, NEW f, NEW o \in ObjIds, Typed(m, f), SameView(l, e, m, f, o),
         NEW n, NEW want, NEW hs, NEW x, NEW cut, Shape(l, e, o, n, want, hs, x, cut)
  PROVE  Shape(m, f, o, n, want, hs, x, cut)
<1>1. /\ \A k \in Span, r \in Refs : Slot(l, e, o, k, r) <=> Slot(m, f, o, k, r)
      /\ \A j \in Nat : HasIx(l, e, o, j) <=> HasIx(m, f, o, j)
      /\ \A p \in Page : l[p] = Da(o) <=> m[p] = Da(o)
      /\ \A p \in Page : l[p] = Da(o) => f[p] = e[p]
  BY Zenon DEF SameView
<1>2. Linked(m, f, o, n, want)
  <2> SUFFICES ASSUME NEW k \in Span, k * DataPageSize < n
               PROVE  \E r \in Page : Slot(m, f, o, k, r) /\ Leads(m, f, o, k, r, want)
    BY Zenon DEF Linked
  <2>1. PICK r \in Page : Slot(l, e, o, k, r) /\ Leads(l, e, o, k, r, want)
    BY Zenon DEF Shape, Linked
  <2>2. Slot(m, f, o, k, r)
    BY <1>1, <2>1, Referred, Zenon
  <2>3. Leads(m, f, o, k, r, want)
    BY <1>1, <2>1, Zenon DEF Leads
  <2> QED
    BY <2>2, <2>3, Zenon
<1>3. Owned(m, f, o, n, x)
  <2> SUFFICES ASSUME NEW r \in Page, m[r] = Da(o), r # x
               PROVE  f[r].span * DataPageSize < n /\ Slot(m, f, o, f[r].span, r)
    BY Zenon DEF Owned
  <2>1. l[r] = Da(o) /\ f[r] = e[r]
    BY <1>1, Zenon
  <2>2. e[r].span * DataPageSize < n /\ Slot(l, e, o, e[r].span, r)
    BY <2>1, Zenon DEF Shape, Owned
  <2>3. f[r].span \in Span
    BY DEF Typed, TypedPage, DataBody
  <2> QED
    BY <1>1, <2>1, <2>2, <2>3, Referred, Zenon
<1>4. Spanned(m, f, o, n, hs)
  <2> SUFFICES ASSUME NEW p \in Page, m[p] = Ix(o), f[p].span # 0, f[p].span # hs
               PROVE  \E k \in Span : IxSpan(k) = f[p].span /\ k * DataPageSize < n
    BY Zenon DEF Spanned
  <2>1. f[p].span \in Nat
    BY DEF Typed, TypedPage, IndexBody
  <2>2. HasIx(m, f, o, f[p].span)
    BY Zenon DEF HasIx
  <2>3. HasIx(l, e, o, f[p].span)
    BY <1>1, <2>1, <2>2, Zenon
  <2>4. PICK q \in Page : l[q] = Ix(o) /\ e[q].span = f[p].span
    BY <2>3, Zenon DEF HasIx
  <2> QED
    BY <2>4, Zenon DEF Shape, Spanned
<1>5. cut \/ Ended(m, f, o, n)
  BY <1>1, Zenon DEF Shape, Ended
<1> QED
  BY <1>2, <1>3, <1>4, <1>5, Zenon DEF Shape


-----------------------------------------------------------------------------
(* Changes of one object: its pages, and dead ones, become its pages or dead. *)

\* The pages outside S are the same.
Elsewhere(l, e, m, f, S) == \A p \in Page : p \notin S => m[p] = l[p] /\ f[p] = e[p]

\* Index page x is rewritten, in place or at t, with contents c.
Relocated(l, e, m, f, o, x, t, c) ==
  /\ l[x] = Ix(o) /\ (t = x \/ l[t] = DELETED)
  /\ m[t] = Ix(o) /\ f[t] = c
  /\ t # x => m[x] = DELETED /\ f[x] = Blank
  /\ Elsewhere(l, e, m, f, {x, t})

\* Data page t with contents b is added, and noted in index page x as that of span k.
Adds(l, e, m, f, o, x, k, t, b) ==
  /\ l[x] = Ix(o) /\ e[x].span = IxSpan(k) /\ l[t] = DELETED
  /\ m[x] = Ix(o) /\ f[x] = [e[x] EXCEPT !.refs = [@ EXCEPT ![k] = t]]
  /\ m[t] = Da(o) /\ f[t] = b
  /\ Elsewhere(l, e, m, f, {x, t})

\* Page r is deleted.
Drops(l, e, m, f, o, r) ==
  /\ l[r] = Ix(o) \/ l[r] = Da(o)
  /\ m[r] = DELETED /\ f[r] = Blank
  /\ Elsewhere(l, e, m, f, {r})

\* Data page r gets contents b.
Programs(l, e, m, f, o, r, b) ==
  /\ l[r] = Da(o) /\ m[r] = Da(o) /\ f[r] = b /\ b.span = e[r].span
  /\ Elsewhere(l, e, m, f, {r})

\* Index page t is added for the slots of index span j.
Opens(l, e, m, f, o, t, j) ==
  /\ l[t] = DELETED /\ m[t] = Ix(o) /\ f[t] = IndexPage(j)
  /\ ~HasIx(l, e, o, j)
  /\ Elsewhere(l, e, m, f, {t})

\* Pages elsewhere keep their types.
LEMMA TypedChange ==
  ASSUME NEW l, NEW e, NEW m, NEW f, NEW x \in Page, NEW t \in Page,
         Typed(l, e), Flash(m, f), Elsewhere(l, e, m, f, {x, t}),
         TypedPage(m[x], f[x]), TypedPage(m[t], f[t])
  PROVE  Typed(m, f)
<1>1. ASSUME NEW p \in Page PROVE TypedPage(m[p], f[p])
  <2>1. CASE p = x \/ p = t
    BY <2>1
  <2>2. CASE p \notin {x, t}
    <3>1. m[p] = l[p] /\ f[p] = e[p]
      BY <2>2 DEF Elsewhere
    <3> QED
      BY <3>1 DEF Typed
  <2> QED
    BY <2>1, <2>2
<1> QED
  BY <1>1 DEF Typed

\* The pages of other objects are not touched.
LEMMA OthersUntouched ==
  ASSUME NEW l, NEW e, NEW m, NEW f, NEW x, NEW t, NEW o \in ObjIds, NEW q \in ObjIds, q # o,
         Elsewhere(l, e, m, f, {x, t}),
         l[x] \in {Ix(o), Da(o), DELETED}, m[x] \in {Ix(o), Da(o), DELETED},
         l[t] \in {Ix(o), Da(o), DELETED}, m[t] \in {Ix(o), Da(o), DELETED}
  PROVE  Untouched(l, e, m, f, q)
<1>1. \A i \in {Ix(o), Da(o), DELETED} : i # Ix(q) /\ i # Da(q)
  BY IdsApart
<1>2. ASSUME NEW p \in Page, l[p] \in {Ix(q), Da(q)} \/ m[p] \in {Ix(q), Da(q)}
      PROVE  m[p] = l[p] /\ f[p] = e[p]
  <2>1. p \notin {x, t}
    BY <1>1, <1>2
  <2> QED
    BY <2>1 DEF Elsewhere
<1> QED
  BY <1>2 DEF Untouched

\* Contents by their types.
LEMMA TypedAs ==
  ASSUME NEW o \in ObjIds
  PROVE  /\ TypedPage(DELETED, Blank)
         /\ \A c : IndexBody(c) => TypedPage(Ix(o), c)
         /\ \A b \in DataBody : TypedPage(Da(o), b)
<1>1. TypedPage(DELETED, Blank)
  BY IdsApart, Zenon DEF TypedPage
<1>2. ASSUME NEW c, IndexBody(c) PROVE TypedPage(Ix(o), c)
  <2>1. \A q \in ObjIds : Ix(o) # Da(q)
    BY IdsApart
  <2> QED
    BY <1>2, <2>1, IdsApart, Zenon DEF TypedPage
<1>3. ASSUME NEW b \in DataBody PROVE TypedPage(Da(o), b)
  <2>1. \A q \in ObjIds : Da(o) # Ix(q)
    BY IdsApart
  <2> QED
    BY <1>3, <2>1, IdsApart, Zenon DEF TypedPage
<1> QED
  BY <1>1, <1>2, <1>3, Zenon

\* Of the index pages of an object only t is new, and no other has its span.
OnlyNew(l, e, m, f, o, t) ==
  \A p \in Page : m[p] = Ix(o) /\ p # t =>
     l[p] = Ix(o) /\ f[p].span = e[p].span /\ f[p].span # f[t].span
OthersKept(l, e, m, f, o) == \A q \in ObjIds : q # o => Untouched(l, e, m, f, q)

\* Then index pages stay unique.
LEMMA UniqueChange ==
  ASSUME NEW l, NEW e, NEW m, NEW f, NEW t, NEW o \in ObjIds,
         Unique(l, e),
         OthersKept(l, e, m, f, o), OnlyNew(l, e, m, f, o, t)
  PROVE  Unique(m, f)
<1> SUFFICES ASSUME NEW q \in ObjIds, NEW p \in Page, NEW r \in Page,
                    m[p] = Ix(q), m[r] = Ix(q), f[p].span = f[r].span
             PROVE  p = r
  BY Zenon DEF Unique
<1>1. CASE q # o
  <2>1. l[p] = Ix(q) /\ f[p] = e[p] /\ l[r] = Ix(q) /\ f[r] = e[r]
    BY <1>1 DEF OthersKept, Untouched
  <2> QED
    BY <2>1, Zenon DEF Unique
<1>2. CASE q = o
  <2>1. CASE p = t \/ r = t
    BY <1>2, <2>1 DEF OnlyNew
  <2>2. CASE p # t /\ r # t
    <3>1. /\ l[p] = Ix(o) /\ f[p].span = e[p].span
          /\ l[r] = Ix(o) /\ f[r].span = e[r].span
      BY <1>2, <2>2 DEF OnlyNew
    <3> QED
      BY <3>1, Zenon DEF Unique
  <2> QED
    BY <2>1, <2>2
<1> QED
  BY <1>1, <1>2

\* Rewriting an index page changes no other object, and with the same references not how
\* the object looks; the header's fields are those written.
LEMMA Relocation ==
  ASSUME NEW l, NEW e, NEW m, NEW f, NEW o \in ObjIds, NEW x \in Page, NEW t \in Page, NEW c,
         Typed(l, e), Unique(l, e), Flash(m, f), IndexBody(c), c.span = e[x].span,
         Relocated(l, e, m, f, o, x, t, c)
  PROVE  /\ Typed(m, f) /\ Unique(m, f)
         /\ OthersKept(l, e, m, f, o)
         /\ c.refs = e[x].refs => SameView(l, e, m, f, o)
         /\ c.span # 0 => \A z, d : HeadIs(l, e, o, z, d) => HeadIs(m, f, o, z, d)
         /\ c.span = 0 => HeadIs(m, f, o, c.size, c.ixdele)
<1>1. /\ l[x] = Ix(o) /\ (t = x \/ l[t] = DELETED) /\ m[t] = Ix(o) /\ f[t] = c
      /\ Elsewhere(l, e, m, f, {x, t})
      /\ t # x => m[x] = DELETED /\ f[x] = Blank
  BY DEF Relocated
<1>2. ASSUME NEW p \in Page, m[p] \in {Ix(o), Da(o)}, p # t
      PROVE  p # x /\ p # t /\ l[p] = m[p] /\ f[p] = e[p]
  <2>1. p # x
    BY <1>1, <1>2, IdsApart
  <2> QED
    BY <1>1, <1>2, <2>1 DEF Elsewhere
<1>3. ASSUME NEW p \in Page, l[p] \in {Ix(o), Da(o)}, p # x
      PROVE  p # t /\ m[p] = l[p] /\ f[p] = e[p]
  <2>1. p # t
    BY <1>1, <1>3, IdsApart
  <2> QED
    BY <1>1, <1>3, <2>1 DEF Elsewhere
<1>4. Typed(m, f)
  <2>1. TypedPage(m[t], f[t])
    BY <1>1, TypedAs
  <2>2. TypedPage(m[x], f[x])
    BY <1>1, <2>1, TypedAs
  <2> QED
    BY <1>1, <2>1, <2>2, TypedChange, Zenon
<1>5. ASSUME NEW q \in ObjIds, q # o PROVE Untouched(l, e, m, f, q)
  <2>1. /\ l[x] \in {Ix(o), Da(o), DELETED} /\ m[x] \in {Ix(o), Da(o), DELETED}
        /\ l[t] \in {Ix(o), Da(o), DELETED} /\ m[t] \in {Ix(o), Da(o), DELETED}
    BY <1>1
  <2> QED
    BY <1>1, <1>5, <2>1, OthersUntouched, Zenon
<1>6. Unique(m, f)
  <2>1. ASSUME NEW p \in Page, m[p] = Ix(o), p # t
        PROVE  l[p] = Ix(o) /\ f[p].span = e[p].span /\ p # x /\ f[p].span # f[t].span
    <3>1. p # x /\ l[p] = Ix(o) /\ f[p] = e[p]
      BY <1>2, <2>1
    <3>2. e[p].span # e[x].span
      BY <1>1, <3>1, Zenon DEF Unique
    <3> QED
      BY <1>1, <3>1, <3>2
  <2>2. OthersKept(l, e, m, f, o) /\ OnlyNew(l, e, m, f, o, t)
    BY <1>5, <2>1, Zenon DEF OthersKept, OnlyNew
  <2> QED
    BY <2>2, UniqueChange
<1>7. ASSUME c.refs = e[x].refs PROVE SameView(l, e, m, f, o)
  <2>1. ASSUME NEW k \in Span, NEW r \in Refs PROVE Slot(l, e, o, k, r) <=> Slot(m, f, o, k, r)
    <3>1. ASSUME Slot(l, e, o, k, r) PROVE Slot(m, f, o, k, r)
      <4>1. PICK p \in Page : l[p] = Ix(o) /\ e[p].span = IxSpan(k) /\ e[p].refs[k] = r
        BY <3>1, Zenon DEF Slot
      <4>2. CASE p = x
        BY <1>1, <1>7, <4>1, <4>2 DEF Slot
      <4>3. CASE p # x
        BY <1>3, <4>1, <4>3 DEF Slot
      <4> QED
        BY <4>2, <4>3
    <3>2. ASSUME Slot(m, f, o, k, r) PROVE Slot(l, e, o, k, r)
      <4>1. PICK p \in Page : m[p] = Ix(o) /\ f[p].span = IxSpan(k) /\ f[p].refs[k] = r
        BY <3>2, Zenon DEF Slot
      <4>2. CASE p = t
        BY <1>1, <1>7, <4>1, <4>2 DEF Slot
      <4>3. CASE p # t
        BY <1>2, <4>1, <4>3 DEF Slot
      <4> QED
        BY <4>2, <4>3
    <3> QED
      BY <3>1, <3>2
  <2>2. ASSUME NEW j \in Nat PROVE HasIx(l, e, o, j) <=> HasIx(m, f, o, j)
    <3>1. ASSUME NEW p \in Page, l[p] = Ix(o), e[p].span = j PROVE HasIx(m, f, o, j)
      BY <1>1, <1>3, <3>1 DEF HasIx
    <3>2. ASSUME NEW p \in Page, m[p] = Ix(o), f[p].span = j PROVE HasIx(l, e, o, j)
      BY <1>1, <1>2, <3>2 DEF HasIx
    <3> QED
      BY <3>1, <3>2 DEF HasIx
  <2>3. ASSUME NEW p \in Page
        PROVE  (l[p] = Da(o) <=> m[p] = Da(o)) /\ (l[p] = Da(o) => f[p] = e[p])
    <3>1. CASE p = x \/ p = t
      BY <1>1, <3>1, IdsApart
    <3>2. CASE p # x /\ p # t
      BY <1>1, <3>2 DEF Elsewhere
    <3> QED
      BY <3>1, <3>2
  <2> QED
    BY <2>1, <2>2, <2>3 DEF SameView
<1>8. ASSUME c.span # 0, NEW z, NEW d, HeadIs(l, e, o, z, d) PROVE HeadIs(m, f, o, z, d)
  <2>1. PICK p \in Page : l[p] = Ix(o) /\ e[p].span = 0 /\ e[p].size = z /\ e[p].ixdele = d
    BY <1>8, Zenon DEF HeadIs
  <2>2. p # x
    BY <1>8, <2>1
  <2> QED
    BY <1>3, <2>1, <2>2 DEF HeadIs
<1>9. ASSUME c.span = 0 PROVE HeadIs(m, f, o, c.size, c.ixdele)
  BY <1>1, <1>9 DEF HeadIs
<1> QED
  BY <1>4, <1>5, <1>6, <1>7, <1>8, <1>9 DEF OthersKept

\* What that makes of how the object looks.
AddsView(l, e, m, f, o, k, t) ==
  /\ \A z, d : HeadIs(l, e, o, z, d) => HeadIs(m, f, o, z, d)
  /\ \A j \in Nat : HasIx(l, e, o, j) <=> HasIx(m, f, o, j)
  /\ \A j \in Span, r \in Refs : j # k => (Slot(m, f, o, j, r) <=> Slot(l, e, o, j, r))
  /\ \A r : Slot(m, f, o, k, r) <=> r = t
  /\ \A p \in Page : m[p] = Da(o) <=> (l[p] = Da(o) \/ p = t)
  /\ \A p \in Page : l[p] = Da(o) => p # t /\ f[p] = e[p]

\* Adding a data page changes no other object and not the header, and of the slots that
\* of its span.
LEMMA Adding ==
  ASSUME NEW l, NEW e, NEW m, NEW f, NEW o \in ObjIds, NEW x \in Page, NEW k \in Span,
         NEW t \in Page, NEW b \in DataBody,
         Typed(l, e), Unique(l, e), Flash(m, f),
         Adds(l, e, m, f, o, x, k, t, b)
  PROVE  /\ Typed(m, f) /\ Unique(m, f)
         /\ OthersKept(l, e, m, f, o)
         /\ AddsView(l, e, m, f, o, k, t)
<1>1. /\ l[x] = Ix(o) /\ e[x].span = IxSpan(k) /\ l[t] = DELETED
      /\ m[x] = Ix(o) /\ f[x] = [e[x] EXCEPT !.refs = [@ EXCEPT ![k] = t]]
      /\ m[t] = Da(o) /\ f[t] = b
      /\ Elsewhere(l, e, m, f, {x, t})
      /\ x # t
  BY IdsApart DEF Adds
<1>2. IndexBody(e[x])
  BY <1>1 DEF Typed, TypedPage
<1>3. /\ f[x].span = e[x].span /\ f[x].size = e[x].size /\ f[x].ixdele = e[x].ixdele
      /\ f[x].refs = [e[x].refs EXCEPT ![k] = t]
      /\ IndexBody(f[x])
      /\ \A j \in SlotsOf(e[x].span) : f[x].refs[j] = IF j = k THEN t ELSE e[x].refs[j]
  <2> DEFINE g == [e[x].refs EXCEPT ![k] = t]
  <2>1. g \in [SlotsOf(e[x].span) -> Refs]
    BY <1>2, Referred DEF IndexBody
  <2>2. \A j \in SlotsOf(e[x].span) : g[j] = IF j = k THEN t ELSE e[x].refs[j]
    BY <1>2 DEF IndexBody
  <2>3. f[x] = [e[x] EXCEPT !.refs = g]
    BY <1>1
  <2> HIDE DEF g
  <2>4. f[x] = [kind |-> "index", span |-> e[x].span, size |-> e[x].size,
                ixdele |-> e[x].ixdele, refs |-> g]
    BY <1>2, <2>3 DEF IndexBody
  <2>5. IndexBody(f[x])
    BY <1>2, <2>1, <2>4 DEF IndexBody
  <2> QED
    BY <2>2, <2>4, <2>5 DEF g
<1>4. ASSUME NEW p \in Page, p # x, l[p] = Ix(o) \/ m[p] = Ix(o)
      PROVE  p # t /\ m[p] = l[p] /\ f[p] = e[p]
  BY <1>1, <1>4, IdsApart DEF Elsewhere
<1>5. Typed(m, f)
  <2>1. TypedPage(m[t], f[t]) /\ TypedPage(m[x], f[x])
    BY <1>1, <1>3, TypedAs
  <2> QED
    BY <1>1, <2>1, TypedChange, Zenon
<1>6. ASSUME NEW q \in ObjIds, q # o PROVE Untouched(l, e, m, f, q)
  <2>1. /\ l[x] \in {Ix(o), Da(o), DELETED} /\ m[x] \in {Ix(o), Da(o), DELETED}
        /\ l[t] \in {Ix(o), Da(o), DELETED} /\ m[t] \in {Ix(o), Da(o), DELETED}
    BY <1>1
  <2> QED
    BY <1>1, <1>6, <2>1, OthersUntouched, Zenon
<1>7. Unique(m, f)
  <2>1. ASSUME NEW p \in Page, m[p] = Ix(o), p # x
        PROVE  l[p] = Ix(o) /\ f[p].span = e[p].span /\ p # x /\ f[p].span # f[x].span
    <3>1. l[p] = Ix(o) /\ f[p] = e[p]
      BY <1>4, <2>1
    <3>2. e[p].span # e[x].span
      BY <1>1, <2>1, <3>1, Zenon DEF Unique
    <3> QED
      BY <1>3, <2>1, <3>1, <3>2
  <2>2. OthersKept(l, e, m, f, o) /\ OnlyNew(l, e, m, f, o, x)
    BY <1>6, <2>1, Zenon DEF OthersKept, OnlyNew
  <2> QED
    BY <2>2, UniqueChange
<1>8. ASSUME NEW z, NEW d, HeadIs(l, e, o, z, d) PROVE HeadIs(m, f, o, z, d)
  <2>1. PICK p \in Page : l[p] = Ix(o) /\ e[p].span = 0 /\ e[p].size = z /\ e[p].ixdele = d
    BY <1>8, Zenon DEF HeadIs
  <2>2. m[p] = Ix(o) /\ f[p].span = 0 /\ f[p].size = z /\ f[p].ixdele = d
    BY <1>1, <1>3, <1>4, <2>1
  <2> QED
    BY <2>2 DEF HeadIs
<1>9. ASSUME NEW j \in Nat PROVE HasIx(l, e, o, j) <=> HasIx(m, f, o, j)
  <2>1. ASSUME NEW p \in Page
        PROVE  (l[p] = Ix(o) /\ e[p].span = j) <=> (m[p] = Ix(o) /\ f[p].span = j)
    BY <1>1, <1>3, <1>4
  <2> QED
    BY <2>1, Zenon DEF HasIx
<1>10. ASSUME NEW j \in Span, NEW r \in Refs, j # k
       PROVE  Slot(m, f, o, j, r) <=> Slot(l, e, o, j, r)
  <2>1. ASSUME NEW p \in Page
        PROVE  (l[p] = Ix(o) /\ e[p].span = IxSpan(j) /\ e[p].refs[j] = r)
               <=> (m[p] = Ix(o) /\ f[p].span = IxSpan(j) /\ f[p].refs[j] = r)
    <3>1. CASE p = x
      <4>1. e[x].span = IxSpan(j) => j \in SlotsOf(e[x].span)
        BY Referred
      <4> QED
        BY <1>1, <1>3, <1>10, <3>1, <4>1
    <3>2. CASE p # x
      BY <1>4, <3>2
    <3> QED
      BY <3>1, <3>2
  <2> QED
    BY <2>1, Zenon DEF Slot
<1>11. ASSUME NEW r PROVE Slot(m, f, o, k, r) <=> r = t
  <2>1. k \in SlotsOf(e[x].span)
    BY <1>1, Referred
  <2>2. f[x].refs[k] = t /\ f[x].span = IxSpan(k)
    BY <1>1, <1>3, <2>1
  <2>3. ASSUME NEW p \in Page, m[p] = Ix(o), f[p].span = IxSpan(k) PROVE p = x
    BY <1>1, <1>7, <2>2, <2>3, Zenon DEF Unique
  <2> QED
    BY <1>1, <2>2, <2>3 DEF Slot
<1>12. ASSUME NEW p \in Page
       PROVE  /\ m[p] = Da(o) <=> (l[p] = Da(o) \/ p = t)
              /\ l[p] = Da(o) => p # t /\ f[p] = e[p]
  <2>1. CASE p = x \/ p = t
    BY <1>1, <2>1, IdsApart
  <2>2. CASE p # x /\ p # t
    BY <1>1, <2>2 DEF Elsewhere
  <2> QED
    BY <2>1, <2>2
<1> QED
  BY <1>5, <1>6, <1>7, <1>8, <1>9, <1>10, <1>11, <1>12 DEF OthersKept, AddsView

\* What a deletion makes of how the object looks.
DropsView(l, e, m, f, o, r) ==
  /\ \A p \in Page : m[p] \in {Ix(o), Da(o)} =>
        p # r /\ l[p] = m[p] /\ f[p] = e[p]
  /\ \A p \in Page : l[p] \in {Ix(o), Da(o)} /\ p # r =>
        m[p] = l[p] /\ f[p] = e[p]
  /\ l[r] = Da(o) =>
       /\ \A k, s : Slot(m, f, o, k, s) <=> Slot(l, e, o, k, s)
       /\ \A z, d : HeadIs(m, f, o, z, d) <=> HeadIs(l, e, o, z, d)

\* Deleting a page of an object changes no other object; deleting a data page changes no
\* slot and not the header.
LEMMA Dropping ==
  ASSUME NEW l, NEW e, NEW m, NEW f, NEW o \in ObjIds, NEW r \in Page,
         Typed(l, e), Unique(l, e), Flash(m, f), Drops(l, e, m, f, o, r)
  PROVE  /\ Typed(m, f) /\ Unique(m, f) /\ OthersKept(l, e, m, f, o)
         /\ DropsView(l, e, m, f, o, r)
<1>1. /\ l[r] = Ix(o) \/ l[r] = Da(o)
      /\ m[r] = DELETED /\ f[r] = Blank
      /\ Elsewhere(l, e, m, f, {r})
  BY DEF Drops
<1>2. ASSUME NEW p \in Page, m[p] \in {Ix(o), Da(o)}
      PROVE  p # r /\ l[p] = m[p] /\ f[p] = e[p]
  <2>1. p # r
    BY <1>1, <1>2, IdsApart
  <2> QED
    BY <1>1, <2>1 DEF Elsewhere
<1>3. ASSUME NEW p \in Page, p # r PROVE m[p] = l[p] /\ f[p] = e[p]
  BY <1>1, <1>3 DEF Elsewhere
<1>4. Typed(m, f)
  <2>1. TypedPage(m[r], f[r]) /\ Elsewhere(l, e, m, f, {r, r})
    BY <1>1, TypedAs DEF Elsewhere
  <2> QED
    BY <2>1, TypedChange, Zenon
<1>5. OthersKept(l, e, m, f, o)
  <2>1. /\ l[r] \in {Ix(o), Da(o), DELETED} /\ m[r] \in {Ix(o), Da(o), DELETED}
        /\ Elsewhere(l, e, m, f, {r, r})
    BY <1>1 DEF Elsewhere
  <2>2. ASSUME NEW q \in ObjIds, q # o PROVE Untouched(l, e, m, f, q)
    BY <2>1, <2>2, OthersUntouched, Zenon
  <2> QED
    BY <2>2 DEF OthersKept
<1>6. Unique(m, f)
  <2> SUFFICES ASSUME NEW q \in ObjIds, NEW p \in Page, NEW s \in Page,
                      m[p] = Ix(q), m[s] = Ix(q), f[p].span = f[s].span
               PROVE  p = s
    BY Zenon DEF Unique
  <2>1. p # r /\ s # r
    BY <1>1, IdsApart
  <2>2. l[p] = Ix(q) /\ f[p] = e[p] /\ l[s] = Ix(q) /\ f[s] = e[s]
    BY <1>3, <2>1
  <2> QED
    BY <2>2, Zenon DEF Unique
<1>7. ASSUME l[r] = Da(o) PROVE /\ \A k, s : Slot(m, f, o, k, s) <=> Slot(l, e, o, k, s)
                                /\ \A z, d : HeadIs(m, f, o, z, d) <=> HeadIs(l, e, o, z, d)
  <2>1. ASSUME NEW p \in Page PROVE /\ m[p] = Ix(o) <=> l[p] = Ix(o)
                                    /\ m[p] = Ix(o) => f[p] = e[p]
    BY <1>1, <1>3, <1>7, IdsApart
  <2> QED
    BY <2>1, Zenon DEF Slot, HeadIs
<1> QED
  BY <1>2, <1>3, <1>4, <1>5, <1>6, <1>7 DEF DropsView

\* What programming makes of how the object looks.
ProgramsView(l, e, m, f, o, r) ==
  /\ \A k, s : Slot(m, f, o, k, s) <=> Slot(l, e, o, k, s)
  /\ \A z, d : HeadIs(m, f, o, z, d) <=> HeadIs(l, e, o, z, d)
  /\ \A p \in Page : /\ m[p] = l[p] /\ (p # r => f[p] = e[p])
                     /\ m[p] \in {Ix(o), Da(o)} => f[p].span = e[p].span

\* Programming a data page changes no other object, no slot and not the header.
LEMMA Programming ==
  ASSUME NEW l, NEW e, NEW m, NEW f, NEW o \in ObjIds, NEW r \in Page, NEW b \in DataBody,
         Typed(l, e), Unique(l, e), Flash(m, f), Programs(l, e, m, f, o, r, b)
  PROVE  /\ Typed(m, f) /\ Unique(m, f) /\ OthersKept(l, e, m, f, o)
         /\ ProgramsView(l, e, m, f, o, r)
<1>1. /\ l[r] = Da(o) /\ m[r] = Da(o) /\ f[r] = b /\ b.span = e[r].span
      /\ Elsewhere(l, e, m, f, {r})
  BY DEF Programs
<1>2. ASSUME NEW p \in Page
      PROVE  m[p] = l[p] /\ f[p].span = e[p].span /\ (p # r => f[p] = e[p])
  BY <1>1 DEF Elsewhere
<1>3. ASSUME NEW p \in Page, NEW q \in ObjIds, m[p] = Ix(q) PROVE f[p] = e[p]
  <2>1. p # r
    BY <1>1, <1>3, IdsApart DEF Ix, Da
  <2> QED
    BY <1>2, <2>1
<1>4. Typed(m, f)
  <2>1. TypedPage(m[r], f[r]) /\ Elsewhere(l, e, m, f, {r, r})
    BY <1>1, TypedAs DEF Elsewhere
  <2> QED
    BY <2>1, TypedChange, Zenon
<1>5. OthersKept(l, e, m, f, o)
  <2>1. /\ l[r] \in {Ix(o), Da(o), DELETED} /\ m[r] \in {Ix(o), Da(o), DELETED}
        /\ Elsewhere(l, e, m, f, {r, r})
    BY <1>1 DEF Elsewhere
  <2>2. ASSUME NEW q \in ObjIds, q # o PROVE Untouched(l, e, m, f, q)
    BY <2>1, <2>2, OthersUntouched, Zenon
  <2> QED
    BY <2>2 DEF OthersKept
<1>6. Unique(m, f)
  BY <1>2, Zenon DEF Unique
<1>7. /\ \A k, s : Slot(m, f, o, k, s) <=> Slot(l, e, o, k, s)
      /\ \A z, d : HeadIs(m, f, o, z, d) <=> HeadIs(l, e, o, z, d)
  <2>1. ASSUME NEW p \in Page PROVE (m[p] = Ix(o) <=> l[p] = Ix(o)) /\ (m[p] = Ix(o) => f[p] = e[p])
    BY <1>2, <1>3
  <2> QED
    BY <2>1, Zenon DEF Slot, HeadIs
<1> QED
  BY <1>2, <1>4, <1>5, <1>6, <1>7 DEF ProgramsView

\* What a new index page makes of how the object looks.
OpensView(l, e, m, f, o, t, j) ==
  /\ \A k \in Span : IxSpan(k) # j =>
       \A s : Slot(m, f, o, k, s) <=> Slot(l, e, o, k, s)
  /\ \A k \in Span : IxSpan(k) = j => \A s : Slot(m, f, o, k, s) <=> s = Unset
  /\ j # 0 => \A z, d : HeadIs(m, f, o, z, d) <=> HeadIs(l, e, o, z, d)
  /\ j = 0 => HeadIs(m, f, o, Unset, FALSE)
  /\ \A p \in Page : l[p] = Ix(o) => p # t /\ m[p] = Ix(o) /\ f[p] = e[p]
  /\ \A p \in Page : m[p] = Ix(o) => p = t \/ (l[p] = Ix(o) /\ f[p] = e[p])
  /\ \A p \in Page : (m[p] = Da(o) <=> l[p] = Da(o)) /\ (l[p] = Da(o) => f[p] = e[p])

\* A new index page changes no other object; its slots are empty.
LEMMA Opening ==
  ASSUME NEW l, NEW e, NEW m, NEW f, NEW o \in ObjIds, NEW t \in Page, NEW j \in Nat,
         Typed(l, e), Unique(l, e), Flash(m, f), Opens(l, e, m, f, o, t, j)
  PROVE  /\ Typed(m, f) /\ Unique(m, f) /\ OthersKept(l, e, m, f, o)
         /\ OpensView(l, e, m, f, o, t, j)
<1>1. /\ l[t] = DELETED /\ m[t] = Ix(o) /\ f[t] = IndexPage(j)
      /\ ~HasIx(l, e, o, j)
      /\ Elsewhere(l, e, m, f, {t})
  BY DEF Opens
<1>2. ASSUME NEW p \in Page, p # t PROVE m[p] = l[p] /\ f[p] = e[p]
  BY <1>1, <1>2 DEF Elsewhere
<1>3. /\ IndexBody(f[t]) /\ f[t].span = j /\ f[t].size = Unset /\ f[t].ixdele = FALSE
      /\ \A k \in SlotsOf(j) : f[t].refs[k] = Unset
  <2>1. FALSE \in BOOLEAN /\ Unset \in Sizes /\ Unset \in Refs
    BY DEF Sizes, Refs
  <2>2. [k \in SlotsOf(j) |-> Unset] \in [SlotsOf(j) -> Refs]
    BY <2>1
  <2> QED
    BY <1>1, <2>1, <2>2 DEF IndexBody, IndexPage
<1>4. ASSUME NEW p \in Page, m[p] = Ix(o), p # t
      PROVE  l[p] = Ix(o) /\ f[p] = e[p] /\ f[p].span # j
  BY <1>1, <1>2, <1>4 DEF HasIx
<1>5. ASSUME NEW p \in Page, l[p] = Ix(o) PROVE p # t /\ m[p] = Ix(o) /\ f[p] = e[p]
  <2>1. p # t
    BY <1>1, <1>5, IdsApart
  <2> QED
    BY <1>2, <1>5, <2>1
<1>6. Typed(m, f)
  <2>1. TypedPage(m[t], f[t]) /\ Elsewhere(l, e, m, f, {t, t})
    BY <1>1, <1>3, TypedAs DEF Elsewhere
  <2> QED
    BY <2>1, TypedChange, Zenon
<1>7. OthersKept(l, e, m, f, o)
  <2>1. /\ l[t] \in {Ix(o), Da(o), DELETED} /\ m[t] \in {Ix(o), Da(o), DELETED}
        /\ Elsewhere(l, e, m, f, {t, t})
    BY <1>1 DEF Elsewhere
  <2>2. ASSUME NEW q \in ObjIds, q # o PROVE Untouched(l, e, m, f, q)
    BY <2>1, <2>2, OthersUntouched, Zenon
  <2> QED
    BY <2>2 DEF OthersKept
<1>8. Unique(m, f)
  <2>1. OnlyNew(l, e, m, f, o, t)
    BY <1>3, <1>4, Zenon DEF OnlyNew
  <2> QED
    BY <1>7, <2>1, UniqueChange
<1>9. ASSUME NEW k \in Span, IxSpan(k) # j, NEW s PROVE Slot(m, f, o, k, s) <=> Slot(l, e, o, k, s)
  <2>1. ASSUME NEW p \in Page
        PROVE  (l[p] = Ix(o) /\ e[p].span = IxSpan(k) /\ e[p].refs[k] = s)
               <=> (m[p] = Ix(o) /\ f[p].span = IxSpan(k) /\ f[p].refs[k] = s)
    BY <1>1, <1>3, <1>4, <1>5, <1>9
  <2> QED
    BY <2>1, Zenon DEF Slot
<1>10. ASSUME NEW k \in Span, IxSpan(k) = j, NEW s PROVE Slot(m, f, o, k, s) <=> s = Unset
  <2>1. k \in SlotsOf(j)
    BY <1>10, Referred
  <2> QED
    BY <1>1, <1>3, <1>4, <1>10, <2>1 DEF Slot
<1>11. ASSUME j # 0, NEW z, NEW d PROVE HeadIs(m, f, o, z, d) <=> HeadIs(l, e, o, z, d)
  <2>1. ASSUME NEW p \in Page
        PROVE  (l[p] = Ix(o) /\ e[p].span = 0 /\ e[p].size = z /\ e[p].ixdele = d)
               <=> (m[p] = Ix(o) /\ f[p].span = 0 /\ f[p].size = z /\ f[p].ixdele = d)
    BY <1>3, <1>4, <1>5, <1>11
  <2> QED
    BY <2>1, Zenon DEF HeadIs
<1>12. ASSUME j = 0 PROVE HeadIs(m, f, o, Unset, FALSE)
  BY <1>1, <1>3, <1>12 DEF HeadIs
<1>13. ASSUME NEW p \in Page
       PROVE  (m[p] = Da(o) <=> l[p] = Da(o)) /\ (l[p] = Da(o) => f[p] = e[p])
  BY <1>1, <1>2, IdsApart
<1> QED
  BY <1>4, <1>5, <1>6, <1>7, <1>8, <1>9, <1>10, <1>11, <1>12, <1>13 DEF OpensView

-----------------------------------------------------------------------------
(* What the changes make of the shape of an object. *)

\* Two wishes agree outside span k; contents b are those wished for in span k.
Agree(want, wish, k) ==
  \A j \in Span : j # k =>
    \A i \in 0..(DataPageSize - 1) : wish[j * DataPageSize + i] = want[j * DataPageSize + i]
Holds(b, wish, k) ==
  \A i \in 0..(DataPageSize - 1) : b.bytes[i] = wish[k * DataPageSize + i]

\* A slot holds one reference.
LEMMA SlotSingle ==
  ASSUME NEW l, NEW e, NEW o \in ObjIds, Unique(l, e), NEW k, NEW r, NEW s,
         Slot(l, e, o, k, r), Slot(l, e, o, k, s)
  PROVE  r = s
<1>1. PICK p \in Page : l[p] = Ix(o) /\ e[p].span = IxSpan(k) /\ e[p].refs[k] = r
  BY Zenon DEF Slot
<1>2. PICK q \in Page : l[q] = Ix(o) /\ e[q].span = IxSpan(k) /\ e[q].refs[k] = s
  BY Zenon DEF Slot
<1>3. p = q
  BY <1>1, <1>2 DEF Unique
<1> QED
  BY <1>1, <1>2, <1>3

\* Spans and offsets as the prover needs them.
LEMMA SpanStart ==
  /\ DataPageSize \in Nat /\ DataPageSize > 0
  /\ \A k \in Span : k * DataPageSize \in Nat
  /\ \A j, k \in Span : j < k => j * DataPageSize + DataPageSize <= k * DataPageSize
<1>1. DataPageSize \in Nat /\ DataPageSize > 0
  BY StoreAssumption
<1>2. \A k \in Nat : k * DataPageSize \in Nat
  BY <1>1
<1>3. \A j, k \in Span : j < k => j * DataPageSize + DataPageSize <= k * DataPageSize
  BY Referred, SpansApart
<1> QED
  BY <1>1, <1>2, <1>3, Referred

\* A page for span k, written anew while the one before, if there is one, is doomed.
LEMMA ShapeAdd ==
  ASSUME NEW l, NEW e, NEW m, NEW f, NEW o \in ObjIds, NEW x \in Page, NEW k \in Span,
         NEW t \in Page, NEW b \in DataBody,
         Typed(l, e), Unique(l, e), Flash(m, f), Adds(l, e, m, f, o, x, k, t, b),
         NEW n \in Nat, NEW len \in Nat, NEW want, NEW wish, NEW hs, NEW hold, NEW doom,
         Shape(l, e, o, n, want, hs, Unset, FALSE),
         hs = hold \/ hs = -1,
         b.span = k, Agree(want, wish, k), Holds(b, wish, k),
         n <= len, k * DataPageSize < len,
         \A j \in Span : j # k /\ j * DataPageSize < len => j * DataPageSize < n,
         k * DataPageSize < n => Slot(l, e, o, k, doom)
  PROVE  Shape(m, f, o, len, wish, hold, doom, FALSE)
<1>a. Typed(m, f) /\ Unique(m, f) /\ AddsView(l, e, m, f, o, k, t)
  BY Adding, Zenon
<1>1. /\ Typed(m, f) /\ Unique(m, f)
      /\ \A j \in Nat : HasIx(l, e, o, j) <=> HasIx(m, f, o, j)
      /\ \A j \in Span, r \in Refs : j # k => (Slot(m, f, o, j, r) <=> Slot(l, e, o, j, r))
      /\ \A r : Slot(m, f, o, k, r) <=> r = t
      /\ \A p \in Page : m[p] = Da(o) <=> (l[p] = Da(o) \/ p = t)
      /\ \A p \in Page : l[p] = Da(o) => p # t /\ f[p] = e[p]
  BY <1>a, Zenon DEF AddsView
<1>2. /\ Linked(l, e, o, n, want) /\ Owned(l, e, o, n, Unset) /\ Spanned(l, e, o, n, hs)
      /\ Ended(l, e, o, n)
  BY DEF Shape
<1>3. f[t] = b /\ m[t] = Da(o)
  BY DEF Adds
<1>4. Linked(m, f, o, len, wish)
  <2> SUFFICES ASSUME NEW j \in Span, j * DataPageSize < len
               PROVE  \E r \in Page : Slot(m, f, o, j, r) /\ Leads(m, f, o, j, r, wish)
    BY Zenon DEF Linked
  <2>1. CASE j = k
    <3>1. Leads(m, f, o, k, t, wish)
      BY <1>3 DEF Leads, Holds
    <3> QED
      BY <1>1, <2>1, <3>1
  <2>2. CASE j # k
    <3>1. j * DataPageSize < n
      BY <2>2
    <3>2. PICK r \in Page : Slot(l, e, o, j, r) /\ Leads(l, e, o, j, r, want)
      BY <1>2, <3>1, Zenon DEF Linked
    <3>3. Slot(m, f, o, j, r)
      BY <1>1, <2>2, <3>2, Referred
    <3>4. l[r] = Da(o) /\ e[r].span = j /\ \A i \in 0..(DataPageSize - 1) : e[r].bytes[i] = want[j * DataPageSize + i]
      BY <3>2 DEF Leads
    <3>5. m[r] = Da(o) /\ f[r] = e[r]
      BY <1>1, <3>4
    <3>6. \A i \in 0..(DataPageSize - 1) : f[r].bytes[i] = wish[j * DataPageSize + i]
      BY <2>2, <3>4, <3>5 DEF Agree
    <3>7. Leads(m, f, o, j, r, wish)
      BY <3>4, <3>5, <3>6 DEF Leads
    <3> QED
      BY <3>3, <3>7
  <2> QED
    BY <2>1, <2>2
<1>5. Owned(m, f, o, len, doom)
  <2> SUFFICES ASSUME NEW r \in Page, m[r] = Da(o), r # doom
               PROVE  f[r].span * DataPageSize < len /\ Slot(m, f, o, f[r].span, r)
    BY Zenon DEF Owned
  <2>1. CASE r = t
    BY <1>1, <1>3, <2>1
  <2>2. CASE r # t
    <3>1. l[r] = Da(o) /\ f[r] = e[r]
      BY <1>1, <2>2
    <3>2. e[r].span * DataPageSize < n /\ Slot(l, e, o, e[r].span, r)
      BY <1>2, <3>1, Referred DEF Owned
    <3>3. e[r].span \in Span
      BY <3>1 DEF Typed, TypedPage, DataBody
    <3>4. e[r].span # k
      BY <3>2, SlotSingle
    <3>5. Slot(m, f, o, e[r].span, r)
      BY <1>1, <3>2, <3>3, <3>4, Referred
    <3>6. e[r].span * DataPageSize \in Nat
      BY <3>3, SpanStart
    <3> QED
      BY <3>1, <3>2, <3>5, <3>6
  <2> QED
    BY <2>1, <2>2
<1>6. Spanned(m, f, o, len, hold)
  <2> SUFFICES ASSUME NEW p \in Page, m[p] = Ix(o), f[p].span # 0, f[p].span # hold
               PROVE  \E j \in Span : IxSpan(j) = f[p].span /\ j * DataPageSize < len
    BY Zenon DEF Spanned
  <2>1. f[p].span \in Nat
    BY <1>1 DEF Typed, TypedPage, IndexBody
  <2>2. HasIx(l, e, o, f[p].span)
    BY <1>1, <2>1 DEF HasIx
  <2>3. PICK q \in Page : l[q] = Ix(o) /\ e[q].span = f[p].span
    BY <2>2, Zenon DEF HasIx
  <2>4. e[q].span # hs
    BY <2>1, <2>3
  <2>5. PICK j \in Span : IxSpan(j) = e[q].span /\ j * DataPageSize < n
    BY <1>2, <2>3, <2>4, Zenon DEF Spanned
  <2>6. j * DataPageSize \in Nat
    BY SpanStart
  <2> QED
    BY <2>3, <2>5, <2>6
<1>7. Ended(m, f, o, len)
  <2> SUFFICES ASSUME NEW j \in Span, NEW r \in Refs, Slot(m, f, o, j, r), j * DataPageSize >= len
               PROVE  r = Unset
    BY Zenon DEF Ended
  <2>1. j * DataPageSize \in Nat /\ k * DataPageSize \in Nat
    BY SpanStart
  <2>2. j # k /\ j * DataPageSize >= n
    BY <2>1
  <2>3. Slot(l, e, o, j, r)
    BY <1>1, <2>2
  <2> QED
    BY <1>2, <2>2, <2>3 DEF Ended
<1> QED
  BY <1>4, <1>5, <1>6, <1>7 DEF Shape

\* The doomed page is deleted.
LEMMA ShapeDrop ==
  ASSUME NEW l, NEW e, NEW m, NEW f, NEW o \in ObjIds, NEW r \in Page,
         Typed(l, e), Unique(l, e), Flash(m, f), Drops(l, e, m, f, o, r), l[r] = Da(o),
         NEW s, Slot(l, e, o, e[r].span, s), s # r,
         NEW n \in Nat, NEW want, NEW hs, NEW cut, Shape(l, e, o, n, want, hs, r, cut)
  PROVE  Shape(m, f, o, n, want, hs, Unset, cut)
<1>a. Typed(m, f) /\ DropsView(l, e, m, f, o, r)
  BY Dropping, Zenon
<1>1. /\ Typed(m, f)
      /\ \A p \in Page : m[p] \in {Ix(o), Da(o)} =>
            p # r /\ l[p] = m[p] /\ f[p] = e[p]
      /\ \A p \in Page : l[p] \in {Ix(o), Da(o)} /\ p # r =>
            m[p] = l[p] /\ f[p] = e[p]
      /\ \A k, i : Slot(m, f, o, k, i) <=> Slot(l, e, o, k, i)
  BY <1>a, Zenon DEF DropsView
<1>2. Linked(m, f, o, n, want)
  <2> SUFFICES ASSUME NEW j \in Span, j * DataPageSize < n
               PROVE  \E q \in Page : Slot(m, f, o, j, q) /\ Leads(m, f, o, j, q, want)
    BY Zenon DEF Linked
  <2>1. PICK q \in Page : Slot(l, e, o, j, q) /\ Leads(l, e, o, j, q, want)
    BY Zenon DEF Shape, Linked
  <2>2. q # r
    <3> SUFFICES ASSUME q = r PROVE FALSE
      OBVIOUS
    <3>1. Slot(l, e, o, e[r].span, r)
      BY <2>1 DEF Leads
    <3> QED
      BY <3>1, SlotSingle
  <2>3. Leads(m, f, o, j, q, want)
    BY <1>1, <2>1, <2>2 DEF Leads
  <2> QED
    BY <1>1, <2>1, <2>3
<1>3. Owned(m, f, o, n, Unset)
  <2> SUFFICES ASSUME NEW q \in Page, m[q] = Da(o)
               PROVE  f[q].span * DataPageSize < n /\ Slot(m, f, o, f[q].span, q)
    BY Zenon DEF Owned
  <2>1. q # r /\ l[q] = Da(o) /\ f[q] = e[q]
    BY <1>1
  <2>2. e[q].span * DataPageSize < n /\ Slot(l, e, o, e[q].span, q)
    BY <2>1 DEF Shape, Owned
  <2> QED
    BY <1>1, <2>1, <2>2
<1>4. Spanned(m, f, o, n, hs)
  BY <1>1, Zenon DEF Shape, Spanned
<1>5. cut \/ Ended(m, f, o, n)
  BY <1>1, Zenon DEF Shape, Ended
<1> QED
  BY <1>2, <1>3, <1>4, <1>5, Zenon DEF Shape

\* The last data page of an object that is cut is deleted: the object ends before it.
LEMMA ShapeCut ==
  ASSUME NEW l, NEW e, NEW m, NEW f, NEW o \in ObjIds, NEW r \in Page, NEW k \in Span,
         Typed(l, e), Unique(l, e), Flash(m, f), Drops(l, e, m, f, o, r), l[r] = Da(o),
         e[r].span = k, Slot(l, e, o, k, r),
         NEW n \in Nat, NEW want, NEW hs, Shape(l, e, o, n, want, hs, Unset, TRUE),
         k * DataPageSize < n, n <= k * DataPageSize + DataPageSize
  PROVE  Shape(m, f, o, k * DataPageSize, want, IxSpan(k), Unset, TRUE)
         \/ (hs # IxSpan(k) /\ hs # -1)
<1> SUFFICES ASSUME hs = IxSpan(k) \/ hs = -1
             PROVE  Shape(m, f, o, k * DataPageSize, want, IxSpan(k), Unset, TRUE)
  OBVIOUS
<1>a. Typed(m, f) /\ DropsView(l, e, m, f, o, r)
  BY Dropping, Zenon
<1>1. /\ Typed(m, f)
      /\ \A p \in Page : m[p] \in {Ix(o), Da(o)} =>
            p # r /\ l[p] = m[p] /\ f[p] = e[p]
      /\ \A p \in Page : l[p] \in {Ix(o), Da(o)} /\ p # r =>
            m[p] = l[p] /\ f[p] = e[p]
      /\ \A j, i : Slot(m, f, o, j, i) <=> Slot(l, e, o, j, i)
  BY <1>a, Zenon DEF DropsView
<1>2. /\ Linked(l, e, o, n, want) /\ Owned(l, e, o, n, Unset) /\ Spanned(l, e, o, n, hs)
  BY DEF Shape
<1>3. ASSUME NEW j \in Span
      PROVE  /\ j * DataPageSize < n /\ j # k => j * DataPageSize < k * DataPageSize
             /\ j * DataPageSize < k * DataPageSize => j * DataPageSize < n /\ j # k
  <2>1. j * DataPageSize \in Nat /\ k * DataPageSize \in Nat /\ j \in Nat /\ k \in Nat
    BY SpanStart, Referred
  <2>2. j < k => j * DataPageSize + DataPageSize <= k * DataPageSize
    BY SpanStart
  <2>3. k < j => k * DataPageSize + DataPageSize <= j * DataPageSize
    BY SpanStart
  <2> DEFINE u == j * DataPageSize  v == k * DataPageSize
  <2>4. u \in Nat /\ v \in Nat /\ v < n /\ n <= v + DataPageSize /\ DataPageSize \in Nat
        /\ DataPageSize > 0
        /\ (j < k => u + DataPageSize <= v) /\ (k < j => v + DataPageSize <= u)
        /\ (j = k => u = v)
    BY <2>1, <2>2, <2>3, SpanStart
  <2> HIDE DEF u, v
  <2>5. (u < n /\ j # k => u < v) /\ (u < v => u < n /\ j # k)
    BY <2>1, <2>4
  <2> QED
    BY <2>5 DEF u, v
<1>4. Linked(m, f, o, k * DataPageSize, want)
  <2> SUFFICES ASSUME NEW j \in Span, j * DataPageSize < k * DataPageSize
               PROVE  \E q \in Page : Slot(m, f, o, j, q) /\ Leads(m, f, o, j, q, want)
    BY Zenon DEF Linked
  <2>0. j * DataPageSize < n /\ j # k
    BY <1>3
  <2>1. PICK q \in Page : Slot(l, e, o, j, q) /\ Leads(l, e, o, j, q, want)
    BY <1>2, <2>0, Zenon DEF Linked
  <2>2. q # r
    BY <2>0, <2>1 DEF Leads
  <2>3. Leads(m, f, o, j, q, want)
    BY <1>1, <2>1, <2>2 DEF Leads
  <2> QED
    BY <1>1, <2>1, <2>3
<1>5. Owned(m, f, o, k * DataPageSize, Unset)
  <2> SUFFICES ASSUME NEW q \in Page, m[q] = Da(o)
               PROVE  f[q].span * DataPageSize < k * DataPageSize /\ Slot(m, f, o, f[q].span, q)
    BY Zenon DEF Owned
  <2>1. q # r /\ l[q] = Da(o) /\ f[q] = e[q]
    BY <1>1
  <2>2. e[q].span * DataPageSize < n /\ Slot(l, e, o, e[q].span, q)
    BY <1>2, <2>1, Referred DEF Owned
  <2>3. e[q].span \in Span
    BY <2>1 DEF Typed, TypedPage, DataBody
  <2>4. e[q].span # k
    BY <2>1, <2>2, SlotSingle
  <2> QED
    BY <1>1, <1>3, <2>1, <2>2, <2>3, <2>4
<1>6. Spanned(m, f, o, k * DataPageSize, IxSpan(k))
  <2> SUFFICES ASSUME NEW p \in Page, m[p] = Ix(o), f[p].span # 0, f[p].span # IxSpan(k)
               PROVE  \E j \in Span : IxSpan(j) = f[p].span /\ j * DataPageSize < k * DataPageSize
    BY Zenon DEF Spanned
  <2>1. l[p] = Ix(o) /\ f[p] = e[p]
    BY <1>1
  <2>2. e[p].span \in Nat
    BY <2>1 DEF Typed, TypedPage, IndexBody
  <2>3. e[p].span # hs
    BY <2>1, <2>2
  <2>4. PICK j \in Span : IxSpan(j) = e[p].span /\ j * DataPageSize < n
    BY <1>2, <2>1, <2>3 DEF Spanned
  <2>5. j # k
    BY <2>1, <2>4
  <2> QED
    BY <1>3, <2>1, <2>4, <2>5
<1> QED
  BY <1>4, <1>5, <1>6 DEF Shape

\* The last data page is programmed further.
LEMMA ShapeProgram ==
  ASSUME NEW l, NEW e, NEW m, NEW f, NEW o \in ObjIds, NEW r \in Page, NEW k \in Span,
         NEW b \in DataBody,
         Typed(l, e), Unique(l, e), Flash(m, f), Programs(l, e, m, f, o, r, b),
         e[r].span = k,
         NEW n \in Nat, NEW len \in Nat, NEW want, NEW wish, NEW hs, NEW hold,
         Shape(l, e, o, n, want, hs, Unset, FALSE),
         hs = hold \/ hs = -1,
         Agree(want, wish, k), Holds(b, wish, k),
         n <= len, \A j \in Span : j * DataPageSize < len => j * DataPageSize < n
  PROVE  Shape(m, f, o, len, wish, hold, Unset, FALSE)
<1>a. Typed(m, f) /\ ProgramsView(l, e, m, f, o, r)
  BY Programming, Zenon
<1>1. /\ \A j, s : Slot(m, f, o, j, s) <=> Slot(l, e, o, j, s)
      /\ \A p \in Page : m[p] = l[p]
      /\ \A p \in Page : p # r => f[p] = e[p]
      /\ \A p \in Page : f[p].span = e[p].span \/ m[p] \notin {Ix(o), Da(o)}
  BY <1>a, Zenon DEF ProgramsView
<1>2. /\ Linked(l, e, o, n, want) /\ Owned(l, e, o, n, Unset) /\ Spanned(l, e, o, n, hs)
      /\ Ended(l, e, o, n)
  BY DEF Shape
<1>3. l[r] = Da(o) /\ f[r] = b
  BY DEF Programs
<1>4. Linked(m, f, o, len, wish)
  <2> SUFFICES ASSUME NEW j \in Span, j * DataPageSize < len
               PROVE  \E q \in Page : Slot(m, f, o, j, q) /\ Leads(m, f, o, j, q, wish)
    BY Zenon DEF Linked
  <2>1. CASE j = k
    <3>1. Slot(l, e, o, k, r)
      BY <1>2, <1>3, Referred DEF Owned
    <3>2. m[r] = Da(o) /\ f[r].span = k
      BY <1>1, <1>3
    <3>3. Leads(m, f, o, k, r, wish)
      BY <1>3, <3>2 DEF Leads, Holds
    <3> QED
      BY <1>1, <2>1, <3>1, <3>3
  <2>2. CASE j # k
    <3>1. PICK q \in Page : Slot(l, e, o, j, q) /\ Leads(l, e, o, j, q, want)
      BY <1>2, Zenon DEF Linked
    <3>2. l[q] = Da(o) /\ e[q].span = j /\ \A i \in 0..(DataPageSize - 1) : e[q].bytes[i] = want[j * DataPageSize + i]
      BY <3>1 DEF Leads
    <3>3. m[q] = Da(o) /\ f[q] = e[q]
      BY <1>1, <2>2, <3>2
    <3>4. \A i \in 0..(DataPageSize - 1) : f[q].bytes[i] = wish[j * DataPageSize + i]
      BY <2>2, <3>2, <3>3 DEF Agree
    <3>5. Leads(m, f, o, j, q, wish)
      BY <3>2, <3>3, <3>4 DEF Leads
    <3> QED
      BY <1>1, <3>1, <3>5
  <2> QED
    BY <2>1, <2>2
<1>5. Owned(m, f, o, len, Unset)
  <2> SUFFICES ASSUME NEW q \in Page, m[q] = Da(o)
               PROVE  f[q].span * DataPageSize < len /\ Slot(m, f, o, f[q].span, q)
    BY Zenon DEF Owned
  <2>1. l[q] = Da(o) /\ f[q].span = e[q].span
    BY <1>1
  <2>2. e[q].span * DataPageSize < n /\ Slot(l, e, o, e[q].span, q)
    BY <1>2, <2>1, Referred DEF Owned
  <2>3. e[q].span * DataPageSize \in Nat
    BY <2>1, SpanStart DEF Typed, TypedPage, DataBody
  <2> QED
    BY <1>1, <2>1, <2>2, <2>3
<1>6. Spanned(m, f, o, len, hold)
  <2> SUFFICES ASSUME NEW p \in Page, m[p] = Ix(o), f[p].span # 0, f[p].span # hold
               PROVE  \E j \in Span : IxSpan(j) = f[p].span /\ j * DataPageSize < len
    BY Zenon DEF Spanned
  <2>1. l[p] = Ix(o) /\ f[p].span = e[p].span
    BY <1>1
  <2>2. e[p].span \in Nat
    BY <2>1 DEF Typed, TypedPage, IndexBody
  <2>3. e[p].span # hs
    BY <2>1, <2>2
  <2>4. PICK j \in Span : IxSpan(j) = e[p].span /\ j * DataPageSize < n
    BY <1>2, <2>1, <2>3 DEF Spanned
  <2>5. j * DataPageSize \in Nat
    BY SpanStart
  <2> QED
    BY <2>1, <2>4, <2>5
<1>7. Ended(m, f, o, len)
  <2> SUFFICES ASSUME NEW j \in Span, NEW s \in Refs, Slot(m, f, o, j, s), j * DataPageSize >= len
               PROVE  s = Unset
    BY Zenon DEF Ended
  <2>1. j * DataPageSize \in Nat
    BY SpanStart
  <2> QED
    BY <1>1, <1>2, <2>1 DEF Ended
<1> QED
  BY <1>4, <1>5, <1>6, <1>7 DEF Shape

\* A new index page is held in RAM before it has a slot of the object.
LEMMA ShapeOpen ==
  ASSUME NEW l, NEW e, NEW m, NEW f, NEW o \in ObjIds, NEW t \in Page, NEW j \in Nat,
         Typed(l, e), Unique(l, e), Flash(m, f), Opens(l, e, m, f, o, t, j),
         NEW n \in Nat, NEW want, Shape(l, e, o, n, want, -1, Unset, FALSE)
  PROVE  Shape(m, f, o, n, want, j, Unset, FALSE)
<1>a. Typed(m, f) /\ OpensView(l, e, m, f, o, t, j)
  BY Opening, Zenon
<1>1. /\ \A k \in Span : IxSpan(k) # j =>
           \A s : Slot(m, f, o, k, s) <=> Slot(l, e, o, k, s)
      /\ \A k \in Span : IxSpan(k) = j => \A s : Slot(m, f, o, k, s) <=> s = Unset
      /\ \A p \in Page : m[p] = Ix(o) => p = t \/ (l[p] = Ix(o) /\ f[p] = e[p])
      /\ \A p \in Page : m[p] = Da(o) <=> l[p] = Da(o)
      /\ \A p \in Page : l[p] = Da(o) => f[p] = e[p]
  BY <1>a, Zenon DEF OpensView
<1>2. /\ Linked(l, e, o, n, want) /\ Owned(l, e, o, n, Unset) /\ Spanned(l, e, o, n, -1)
      /\ Ended(l, e, o, n)
  BY DEF Shape
<1>3. ASSUME NEW k \in Span, NEW s, Slot(l, e, o, k, s)
      PROVE  IxSpan(k) # j /\ Slot(m, f, o, k, s)
  <2>1. IxSpan(k) # j
    BY <1>3 DEF Opens, HasIx, Slot
  <2> QED
    BY <1>1, <1>3, <2>1
<1>4. Linked(m, f, o, n, want)
  <2> SUFFICES ASSUME NEW k \in Span, k * DataPageSize < n
               PROVE  \E q \in Page : Slot(m, f, o, k, q) /\ Leads(m, f, o, k, q, want)
    BY Zenon DEF Linked
  <2>1. PICK q \in Page : Slot(l, e, o, k, q) /\ Leads(l, e, o, k, q, want)
    BY <1>2, Zenon DEF Linked
  <2>2. Leads(m, f, o, k, q, want)
    BY <1>1, <2>1 DEF Leads
  <2> QED
    BY <1>3, <2>1, <2>2
<1>5. Owned(m, f, o, n, Unset)
  <2> SUFFICES ASSUME NEW q \in Page, m[q] = Da(o)
               PROVE  f[q].span * DataPageSize < n /\ Slot(m, f, o, f[q].span, q)
    BY Zenon DEF Owned
  <2>1. l[q] = Da(o) /\ f[q] = e[q]
    BY <1>1
  <2>2. e[q].span * DataPageSize < n /\ Slot(l, e, o, e[q].span, q)
    BY <1>2, <2>1, Referred DEF Owned
  <2>3. e[q].span \in Span
    BY <2>1 DEF Typed, TypedPage, DataBody
  <2> QED
    BY <1>3, <2>1, <2>2, <2>3
<1>6. Spanned(m, f, o, n, j)
  <2> SUFFICES ASSUME NEW p \in Page, m[p] = Ix(o), f[p].span # 0, f[p].span # j
               PROVE  \E k \in Span : IxSpan(k) = f[p].span /\ k * DataPageSize < n
    BY Zenon DEF Spanned
  <2>1. p # t
    BY DEF Opens, IndexPage
  <2>2. l[p] = Ix(o) /\ f[p] = e[p]
    BY <1>1, <2>1
  <2>a. e[p].span \in Nat
    BY <2>2 DEF Typed, TypedPage, IndexBody
  <2>3. e[p].span # -1
    BY <2>a
  <2> QED
    BY <1>2, <2>2, <2>3, Zenon DEF Spanned
<1>7. Ended(m, f, o, n)
  <2> SUFFICES ASSUME NEW k \in Span, NEW s \in Refs, Slot(m, f, o, k, s), k * DataPageSize >= n
               PROVE  s = Unset
    BY Zenon DEF Ended
  <2>1. CASE IxSpan(k) = j
    BY <1>1, <2>1
  <2>2. CASE IxSpan(k) # j
    BY <1>1, <1>2, <2>2 DEF Ended
  <2> QED
    BY <2>1, <2>2
<1> QED
  BY <1>4, <1>5, <1>6, <1>7 DEF Shape

\* An index page none of whose slots the object uses is deleted.
LEMMA ShapeClose ==
  ASSUME NEW l, NEW e, NEW m, NEW f, NEW o \in ObjIds, NEW r \in Page,
         Typed(l, e), Unique(l, e), Flash(m, f), Drops(l, e, m, f, o, r), l[r] = Ix(o),
         NEW n \in Nat, NEW want, Shape(l, e, o, n, want, e[r].span, Unset, TRUE),
         \A k \in Span : k * DataPageSize < n => IxSpan(k) # e[r].span
  PROVE  Shape(m, f, o, n, want, -1, Unset, TRUE)
<1>a. Typed(m, f) /\ DropsView(l, e, m, f, o, r)
  BY Dropping, Zenon
<1>1. /\ \A p \in Page : m[p] \in {Ix(o), Da(o)} =>
            p # r /\ l[p] = m[p] /\ f[p] = e[p]
      /\ \A p \in Page : l[p] \in {Ix(o), Da(o)} /\ p # r =>
            m[p] = l[p] /\ f[p] = e[p]
  BY <1>a, Zenon DEF DropsView
<1>2. /\ Linked(l, e, o, n, want) /\ Owned(l, e, o, n, Unset)
      /\ Spanned(l, e, o, n, e[r].span)
  BY DEF Shape
<1>3. ASSUME NEW k \in Span, NEW s, k * DataPageSize < n, Slot(l, e, o, k, s)
      PROVE  Slot(m, f, o, k, s)
  <2>1. PICK p \in Page : l[p] = Ix(o) /\ e[p].span = IxSpan(k) /\ e[p].refs[k] = s
    BY <1>3, Zenon DEF Slot
  <2>2. p # r
    BY <1>3, <2>1
  <2> QED
    BY <1>1, <2>1, <2>2 DEF Slot
<1>4. Linked(m, f, o, n, want)
  <2> SUFFICES ASSUME NEW k \in Span, k * DataPageSize < n
               PROVE  \E q \in Page : Slot(m, f, o, k, q) /\ Leads(m, f, o, k, q, want)
    BY Zenon DEF Linked
  <2>1. PICK q \in Page : Slot(l, e, o, k, q) /\ Leads(l, e, o, k, q, want)
    BY <1>2, Zenon DEF Linked
  <2>2. q # r
    BY <2>1, IdsApart DEF Leads
  <2>3. Leads(m, f, o, k, q, want)
    BY <1>1, <2>1, <2>2 DEF Leads
  <2> QED
    BY <1>3, <2>1, <2>3
<1>5. Owned(m, f, o, n, Unset)
  <2> SUFFICES ASSUME NEW q \in Page, m[q] = Da(o)
               PROVE  f[q].span * DataPageSize < n /\ Slot(m, f, o, f[q].span, q)
    BY Zenon DEF Owned
  <2>1. l[q] = Da(o) /\ f[q] = e[q]
    BY <1>1
  <2>2. e[q].span * DataPageSize < n /\ Slot(l, e, o, e[q].span, q)
    BY <1>2, <2>1, Referred DEF Owned
  <2>3. e[q].span \in Span
    BY <2>1 DEF Typed, TypedPage, DataBody
  <2> QED
    BY <1>3, <2>1, <2>2, <2>3
<1>6. Spanned(m, f, o, n, -1)
  <2> SUFFICES ASSUME NEW p \in Page, m[p] = Ix(o), f[p].span # 0
               PROVE  \E k \in Span : IxSpan(k) = f[p].span /\ k * DataPageSize < n
    BY Zenon DEF Spanned
  <2>1. p # r /\ l[p] = Ix(o) /\ f[p] = e[p]
    BY <1>1
  <2>2. e[p].span # e[r].span
    BY <2>1, Zenon DEF Unique
  <2> QED
    BY <1>2, <2>1, <2>2, Zenon DEF Spanned
<1> QED
  BY <1>4, <1>5, <1>6 DEF Shape

\* An index page held in RAM that has the slot of a span of the object is like the others.
LEMMA ShapeHeld ==
  ASSUME NEW l, NEW e, NEW o, NEW n, NEW want, NEW hs, NEW x, NEW cut,
         Shape(l, e, o, n, want, hs, x, cut),
         NEW k \in Span, IxSpan(k) = hs, k * DataPageSize < n
  PROVE  Shape(l, e, o, n, want, -1, x, cut)
<1>1. Spanned(l, e, o, n, -1)
  <2> SUFFICES ASSUME NEW p \in Page, l[p] = Ix(o), e[p].span # 0
               PROVE  \E j \in Span : IxSpan(j) = e[p].span /\ j * DataPageSize < n
    BY Zenon DEF Spanned
  <2>1. CASE e[p].span = hs
    BY <2>1
  <2>2. CASE e[p].span # hs
    BY <2>2, Zenon DEF Shape, Spanned
  <2> QED
    BY <2>1, <2>2
<1> QED
  BY <1>1, Zenon DEF Shape

\* Nor is the header more than the others.
LEMMA ShapeHeader ==
  ASSUME NEW l, NEW e, NEW o, NEW n, NEW want, NEW x, NEW cut
  PROVE  Shape(l, e, o, n, want, 0, x, cut) => Shape(l, e, o, n, want, -1, x, cut)
<1>1. Spanned(l, e, o, n, 0) => Spanned(l, e, o, n, -1)
  BY Zenon DEF Spanned
<1> QED
  BY <1>1, Zenon DEF Shape

\* To hold any index page apart is to ask less; so is to have the slots not emptied.
LEMMA ShapeWeaker ==
  ASSUME NEW l, NEW e, NEW o \in ObjIds, NEW n, NEW want, NEW hs, NEW x, NEW cut, Typed(l, e),
         Shape(l, e, o, n, want, -1, x, cut)
  PROVE  Shape(l, e, o, n, want, hs, x, cut) /\ Shape(l, e, o, n, want, hs, x, TRUE)
<1>1. \A p \in Page : l[p] = Ix(o) => e[p].span \in Nat
  BY DEF Typed, TypedPage, IndexBody
<1>2. \A i \in Nat : i # -1
  OBVIOUS
<1>3. Spanned(l, e, o, n, hs)
  BY <1>1, <1>2, Zenon DEF Shape, Spanned
<1> QED
  BY <1>3, Zenon DEF Shape

\* A new header is an empty object.
LEMMA ShapeCreate ==
  ASSUME NEW l, NEW e, NEW m, NEW f, NEW o \in ObjIds, NEW t \in Page, NoPages(l, o),
         Typed(l, e), Unique(l, e), Flash(m, f), l[t] = DELETED, m[t] = Ix(o),
         f[t] = IndexPage(0), Elsewhere(l, e, m, f, {t}), NEW want
  PROVE  /\ Opens(l, e, m, f, o, t, 0)
         /\ Shape(m, f, o, 0, want, -1, Unset, FALSE) /\ HeadIs(m, f, o, Unset, FALSE)
<1>1. Opens(l, e, m, f, o, t, 0)
  BY DEF Opens, HasIx, NoPages
<1>a. OpensView(l, e, m, f, o, t, 0)
  BY <1>1, Opening, Zenon
<1>2. /\ \A k \in Span : IxSpan(k) # 0 =>
           \A s : Slot(m, f, o, k, s) <=> Slot(l, e, o, k, s)
      /\ \A k \in Span : IxSpan(k) = 0 => \A s : Slot(m, f, o, k, s) <=> s = Unset
      /\ \A p \in Page : m[p] = Ix(o) => p = t \/ (l[p] = Ix(o) /\ f[p] = e[p])
      /\ \A p \in Page : m[p] = Da(o) <=> l[p] = Da(o)
      /\ HeadIs(m, f, o, Unset, FALSE)
  BY <1>a, Zenon DEF OpensView
<1>3. \A k \in Span : \A s : Slot(m, f, o, k, s) => s = Unset
  <2>1. \A k, s : ~Slot(l, e, o, k, s)
    BY DEF Slot, NoPages
  <2> QED
    BY <1>2, <2>1, Zenon
<1>4. Linked(m, f, o, 0, want)
  <2>1. \A k \in Span : ~(k * DataPageSize < 0)
    BY SpanStart
  <2> QED
    BY <2>1, Zenon DEF Linked
<1>5. Owned(m, f, o, 0, Unset)
  BY <1>2 DEF Owned, NoPages
<1>6. Spanned(m, f, o, 0, -1)
  BY <1>2 DEF Spanned, NoPages, IndexPage
<1>7. Ended(m, f, o, 0)
  BY <1>3, Zenon DEF Ended
<1> QED
  BY <1>1, <1>2, <1>4, <1>5, <1>6, <1>7 DEF Shape

\* Without its header an empty object has no page.
LEMMA ShapeGone ==
  ASSUME NEW l, NEW e, NEW m, NEW f, NEW o \in ObjIds, NEW r \in Page,
         Typed(l, e), Unique(l, e), Flash(m, f), Drops(l, e, m, f, o, r),
         l[r] = Ix(o), e[r].span = 0,
         NEW want, NEW cut, Shape(l, e, o, 0, want, -1, Unset, cut)
  PROVE  NoPages(m, o)
<1>a. DropsView(l, e, m, f, o, r)
  BY Dropping, Zenon
<1>1. \A p \in Page : m[p] \in {Ix(o), Da(o)} => p # r /\ l[p] = m[p] /\ f[p] = e[p]
  BY <1>a, Zenon DEF DropsView
<1>2. /\ Owned(l, e, o, 0, Unset) /\ Spanned(l, e, o, 0, -1)
  BY DEF Shape
<1>3. \A k \in Span : ~(k * DataPageSize < 0)
  BY SpanStart
<1>4. ASSUME NEW p \in Page, m[p] = Da(o) PROVE FALSE
  <2>1. l[p] = Da(o) /\ e[p].span \in Span
    BY <1>1, <1>4 DEF Typed, TypedPage, DataBody
  <2>2. e[p].span * DataPageSize < 0
    BY <1>2, <2>1, Referred DEF Owned
  <2> QED
    BY <1>3, <2>1, <2>2
<1>5. ASSUME NEW p \in Page, m[p] = Ix(o) PROVE FALSE
  <2>1. p # r /\ l[p] = Ix(o)
    BY <1>1, <1>5
  <2>2. e[p].span # 0
    BY <2>1, Zenon DEF Unique
  <2>3. e[p].span \in Nat
    BY <2>1 DEF Typed, TypedPage, IndexBody
  <2>4. e[p].span # -1
    BY <2>3
  <2> QED
    BY <1>2, <1>3, <2>1, <2>2, <2>4, Zenon DEF Spanned
<1> QED
  BY <1>4, <1>5 DEF NoPages

\* With an empty header in the place of its header it is an empty object.
LEMMA ShapeEmptied ==
  ASSUME NEW l, NEW e, NEW m, NEW f, NEW o \in ObjIds, NEW x \in Page, NEW t \in Page,
         Typed(l, e), Unique(l, e), Flash(m, f), Relocated(l, e, m, f, o, x, t, IndexPage(0)),
         e[x].span = 0,
         NEW want, NEW cut, Shape(l, e, o, 0, want, -1, Unset, cut)
  PROVE  /\ Shape(m, f, o, 0, want, -1, Unset, FALSE)
         /\ HeadIs(m, f, o, Unset, FALSE)
<1>1. /\ l[x] = Ix(o) /\ (t = x \/ l[t] = DELETED) /\ m[t] = Ix(o) /\ f[t] = IndexPage(0)
      /\ Elsewhere(l, e, m, f, {x, t})
      /\ t # x => m[x] = DELETED /\ f[x] = Blank
  BY DEF Relocated
<1>2. ASSUME NEW p \in Page, m[p] \in {Ix(o), Da(o)}, p # t
      PROVE  p # x /\ p # t /\ l[p] = m[p] /\ f[p] = e[p]
  <2>1. p # x
    BY <1>1, <1>2, IdsApart
  <2> QED
    BY <1>1, <1>2, <2>1 DEF Elsewhere
<1>3. /\ Owned(l, e, o, 0, Unset) /\ Spanned(l, e, o, 0, -1)
  BY DEF Shape
<1>4. \A k \in Span : ~(k * DataPageSize < 0)
  BY SpanStart
<1>5. ASSUME NEW p \in Page, m[p] = Da(o) PROVE FALSE
  <2>0. p # t
    BY <1>1, <1>5, IdsApart
  <2>1. l[p] = Da(o) /\ e[p].span \in Span
    BY <1>2, <1>5, <2>0 DEF Typed, TypedPage, DataBody
  <2>2. e[p].span * DataPageSize < 0
    BY <1>3, <2>1, Referred DEF Owned
  <2> QED
    BY <1>4, <2>1, <2>2
<1>6. ASSUME NEW p \in Page, m[p] = Ix(o), p # t PROVE FALSE
  <2>1. p # x /\ l[p] = Ix(o)
    BY <1>2, <1>6
  <2>2. e[p].span # 0
    BY <1>1, <2>1, Zenon DEF Unique
  <2>3. e[p].span \in Nat
    BY <2>1 DEF Typed, TypedPage, IndexBody
  <2>4. e[p].span # -1
    BY <2>3
  <2> QED
    BY <1>3, <1>4, <2>1, <2>2, <2>4, Zenon DEF Spanned
<1>7. Linked(m, f, o, 0, want)
  BY <1>4, Zenon DEF Linked
<1>8. Owned(m, f, o, 0, Unset)
  BY <1>5 DEF Owned
<1>9. /\ f[t].span = 0 /\ f[t].size = Unset /\ f[t].ixdele = FALSE
      /\ f[t].refs = [k \in SlotsOf(0) |-> Unset]
  BY <1>1 DEF IndexPage
<1>10. Spanned(m, f, o, 0, -1)
  BY <1>6, <1>9 DEF Spanned
<1>11. Ended(m, f, o, 0)
  <2> SUFFICES ASSUME NEW k \in Span, NEW s \in Refs, Slot(m, f, o, k, s) PROVE s = Unset
    BY Zenon DEF Ended
  <2>1. PICK p \in Page : m[p] = Ix(o) /\ f[p].span = IxSpan(k) /\ f[p].refs[k] = s
    BY Zenon DEF Slot
  <2>2. p = t /\ k \in SlotsOf(0)
    BY <1>6, <1>9, <2>1, Referred
  <2> QED
    BY <1>9, <2>1, <2>2
<1>12. HeadIs(m, f, o, Unset, FALSE)
  BY <1>1, <1>9 DEF HeadIs
<1> QED
  BY <1>7, <1>8, <1>10, <1>11, <1>12 DEF Shape
=============================================================================
