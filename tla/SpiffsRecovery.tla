--------------------------- MODULE SpiffsRecovery ---------------------------
(***************************************************************************)
(* A call of SPIFFS cut off between two of its flash writes, and the       *)
(* consistency check that mends what it left (spiffs_check.c).             *)
(*                                                                         *)
(* One file, all of whose data pages are entered in its header page.  The  *)
(* lookup entries of all blocks are taken as one sequence.  A call is the  *)
(* sequence of flash writes it makes, in the order of the code; the power  *)
(* may go between any two of them, in the check as well.  A flash write    *)
(* only clears bits: flags are the set of the cleared ones.  The           *)
(* application runs SPIFFS_check after it mounted a file system that was   *)
(* cut off.                                                                *)
(***************************************************************************)
EXTENDS Integers, Sequences, FiniteSets, SequencesExt

CONSTANTS NumPages,  \* pages of the flash that are not lookup pages
          MaxSpans,  \* data pages of the file
          PageSize,  \* bytes of a data page
          MaxEvents  \* bound: calls that change the file, and power cuts

Page == 1 .. NumPages
Span == 0 .. MaxSpans - 1
None == 0            \* an erased reference, and no page found

VARIABLES flash,     \* page -> its lookup entry, header and contents
          todo,      \* writes the running call or check has still to make
          stage,     \* "idle", "off", or the running phase of the check
          at,        \* the page the phase visits next
          marks,     \* fs->work: pages found used, referenced, index
          cursor,    \* fs->cursor_*: where the last search ended
          calls, cuts,
          call,      \* ghost: the last call, and the size it leaves the file
          kept,
          rounds     \* whole checks since the last call or power cut
vars == <<flash, todo, stage, at, marks, cursor, calls, cuts, call, kept, rounds>>

NoRefs == [s \in Span |-> None]
Erased == [lu |-> "free", id |-> "none", flags |-> {}, span |-> 0, refs |-> NoRefs,
           size |-> 0, fill |-> 0, mixed |-> FALSE]
NoMarks == [used |-> {}, refd |-> {}, index |-> {}]

(***************************************************************************)
(* Flash writes.                                                           *)
(***************************************************************************)
Put(p, fields) == [page |-> p, put |-> fields]
Lookup(p, entry) == Put(p, [lu |-> entry])
Flags(p, flags) == Put(p, [flags |-> flags])

\* A reference written over another one: what is left is neither.
Overwritten(old, put) ==
    "refs" \in DOMAIN put /\ \E s \in Span : /\ None \notin {old.refs[s], put.refs[s]}
                                            /\ old.refs[s] # put.refs[s]

\* What a page holds after a write: bits are only cleared.  The id of an index
\* page is that of the data pages with one bit more, and a span is 0 or 1.
Burned(old, put) ==
    [k \in DOMAIN old |->
        CASE k = "mixed" ->
                old.mixed \/ ("id" \in DOMAIN put /\ old.id # "none") \/ Overwritten(old, put)
          [] k # "mixed" /\ k \notin DOMAIN put -> old[k]
          [] k = "flags" /\ k \in DOMAIN put -> old.flags \cup put.flags
          [] k = "id" /\ k \in DOMAIN put ->
                IF old.id = "data" THEN "data" ELSE put.id
          [] k = "span" /\ k \in DOMAIN put ->
                IF old.id # "none" /\ old.span < put.span THEN old.span ELSE put.span
          [] k \notin {"mixed", "flags", "id", "span"} /\ k \in DOMAIN put -> put[k]]

\* spiffs_page_delete: the lookup entry first, then the page.
Deletion(p) == << Lookup(p, "deleted"), Flags(p, {"delet", "used"}) >>

\* spiffs_page_allocate_data of a data page, with the copy that follows it.
DataPage(p, span, fill, flags) ==
    << Lookup(p, "data"),
       Put(p, [id |-> "data", flags |-> {"used"} \cup flags, span |-> span]),
       Put(p, [fill |-> fill]) >>
Finalisation(p) == << Flags(p, {"final"}) >>

\* spiffs_page_move of the header page: the copy is entered in the lookup,
\* made final, and the source deleted.
HeaderMoved(src, dst, refs, size) ==
    << Put(dst, [id |-> "index", flags |-> {"used", "index"}, refs |-> refs, size |-> size]),
       Lookup(dst, "index") >> \o Finalisation(dst) \o Deletion(src)

\* spiffs_page_move of a data page in a collection: copied as it is.
DataMoved(src, dst) ==
    << Put(dst, [id |-> "data", flags |-> flash[src].flags, span |-> flash[src].span,
                 fill |-> flash[src].fill]),
       Lookup(dst, "data") >> \o Deletion(src)

(***************************************************************************)
(* Searches of the lookup.                                                 *)
(***************************************************************************)
FreePages == {p \in Page : flash[p].lu = "free"}
\* The nth free entry: spiffs_obj_lu_find_free called n times.
Free(n) == CHOOSE p \in FreePages :
               Cardinality({q \in FreePages : q <= p}) = n

IsIndex(p) == "index" \in flash[p].flags
\* Pages spiffs_obj_lu_find_id_and_span_v accepts, by the id of their header.
Accepted(p) == /\ {"used", "final"} \subseteq flash[p].flags
               /\ "delet" \notin flash[p].flags
               /\ ~ (flash[p].id = "index" /\ "ixdele" \in flash[p].flags)
ByHeader == {p \in Page : flash[p].id = "index" /\ Accepted(p)}
Headers == {p \in ByHeader : flash[p].lu = "index"}
DataOf(s) == {p \in Page : /\ flash[p].lu = "data" /\ flash[p].id = "data"
                           /\ Accepted(p) /\ flash[p].span = s}

\* spiffs_obj_lu_find_id_and_span: the first match from where the last search
\* ended, around the end; a search that would start at the last entry starts
\* at the first.  What is found is where the next one starts.
FindFrom(c, S) ==
    LET start == IF c >= NumPages THEN 1 ELSE c
        distance(p) == (p - start + NumPages) % NumPages
    IN  IF S = {} THEN None
        ELSE CHOOSE p \in S : \A q \in S : distance(p) <= distance(q)
Find(S) == FindFrom(cursor, S)
After(p, c) == IF p = None THEN c ELSE p
Found(p) == cursor' = After(p, cursor)

(***************************************************************************)
(* The calls.                                                              *)
(***************************************************************************)
Header == CHOOSE p \in Headers : TRUE
File == flash[Header]
LastSpan(size) == (size - 1) \div PageSize

\* A file of a size whose pages were written in order, or none.
Stored(size) ==
    [p \in Page |->
        IF p = 1 /\ size >= 0 THEN
           [Erased EXCEPT !.lu = "index", !.id = "index", !.size = size,
                          !.flags = {"used", "index", "final"},
                          !.refs = [s \in Span |-> IF s * PageSize < size THEN s + 2 ELSE None]]
        ELSE IF p - 2 \in Span /\ (p - 2) * PageSize < size THEN
           [Erased EXCEPT !.lu = "data", !.id = "data", !.flags = {"used", "final"},
                          !.span = p - 2,
                          !.fill = IF (p - 1) * PageSize <= size THEN PageSize ELSE size % PageSize]
        ELSE Erased]
Init ==
    /\ \E size \in {-1, 0, MaxSpans * PageSize - 1, MaxSpans * PageSize} : flash = Stored(size)
    /\ todo = << >> /\ stage = "idle" /\ at = 1 /\ marks = NoMarks
    /\ cursor = 1 /\ calls = 0 /\ cuts = 0 /\ call = "none"
    /\ kept = MaxSpans * PageSize /\ rounds = 1

\* A call runs when nothing else does and the collector found it room.
Calls(name, room, keep, writes) ==
    /\ stage = "idle" /\ todo = << >> /\ calls + cuts < MaxEvents
    /\ Cardinality(FreePages) >= room + 4
    /\ todo' = writes /\ calls' = calls + 1 /\ call' = name /\ rounds' = 0
    /\ kept' = keep
    /\ UNCHANGED <<flash, stage, at, marks, cursor, cuts>>

Creat ==
    /\ Headers = {}
    /\ Calls("creat", 1, 0,
         << Lookup(Free(1), "index"),
            Put(Free(1), [id |-> "index", flags |-> {"used", "index", "final"}]) >>)

Rename ==
    /\ Headers # {}
    /\ Calls("rename", 1, File.size, HeaderMoved(Header, Free(1), File.refs, File.size))

\* spiffs_object_append of bytes that end in the page they start in.
AppendTo(len) ==
    LET size == File.size
        s    == size \div PageSize
        offs == size % PageSize
        dst  == IF offs = 0 THEN Free(1) ELSE File.refs[s]
        hdr  == IF offs = 0 THEN Free(2) ELSE Free(1)
        refs == [File.refs EXCEPT ![s] = dst]
    IN
    /\ Headers # {} /\ s \in Span /\ offs + len <= PageSize
    /\ Calls("append", 2, size + len,
         (IF offs = 0 THEN DataPage(dst, s, len, {"final"})
                      ELSE << Put(dst, [fill |-> offs + len]) >>)
         \o IF size = 0 THEN << Put(Header, [refs |-> refs, size |-> len]) >>
            ELSE HeaderMoved(Header, hdr, refs, size + len))

\* spiffs_object_modify of the pages first..last.
Modify(first, last) ==
    LET new == [s \in first .. last |-> Free(s - first + 1)]
        page(s) == DataPage(new[s], s, flash[File.refs[s]].fill, {})
                   \o Finalisation(new[s]) \o Deletion(File.refs[s])
    IN
    /\ Headers # {} /\ first <= last /\ File.size > 0 /\ last <= LastSpan(File.size)
    /\ Calls("modify", last - first + 2, File.size,
         FlattenSeq([i \in 1 .. last - first + 1 |-> page(first + i - 1)])
         \o HeaderMoved(Header, Free(last - first + 2),
                        [s \in Span |-> IF s \in first .. last THEN new[s] ELSE File.refs[s]],
                        File.size))

\* spiffs_object_truncate: whole pages from the end, then the part of a page,
\* whose copy is made final after the page was deleted.
EndOf(s) == IF s = LastSpan(File.size) THEN File.size ELSE (s + 1) * PageSize
Whole(size) == {s \in 0 .. LastSpan(File.size) :
                   size = 0 \/ EndOf(s) - size >= PageSize}
WholeDeleted(size) ==
    FlattenSeq([i \in 1 .. Cardinality(Whole(size)) |->
                   Deletion(File.refs[LastSpan(File.size) - i + 1])])
Truncate(size) ==
    LET left == [s \in Span |-> IF s \in Whole(size) THEN None ELSE File.refs[s]]
        cut  == LastSpan(File.size) - Cardinality(Whole(size))
    IN
    /\ Headers # {} /\ size < File.size
    /\ Calls("truncate", 2, size,
         WholeDeleted(size) \o
         IF size > 0 /\ EndOf(cut) > size
         THEN DataPage(Free(1), cut, size % PageSize, {})
              \o Deletion(File.refs[cut]) \o Finalisation(Free(1))
              \o HeaderMoved(Header, Free(2), [left EXCEPT ![cut] = Free(1)], size)
         ELSE HeaderMoved(Header, Free(1), left, size))

RemoveFile ==
    /\ Headers # {}
    /\ Calls("remove", 0, 0,
         << Flags(Header, {"used", "index", "final", "ixdele"}) >>
         \o (IF File.size = 0 THEN << >> ELSE WholeDeleted(0)) \o Deletion(Header))

\* spiffs_gc_clean of a block that holds one data page of the file.
Collect(s) ==
    /\ Headers # {} /\ File.size > 0 /\ s <= LastSpan(File.size)
    /\ Calls("gc", 2, File.size,
         DataMoved(File.refs[s], Free(1))
         \o HeaderMoved(Header, Free(2), [File.refs EXCEPT ![s] = Free(1)], File.size))

\* The next write of the running call or check reaches the flash.
Write ==
    /\ todo # << >>
    /\ LET w == Head(todo)
       IN  flash' = [flash EXCEPT ![w.page] = Burned(@, w.put)]
    /\ todo' = Tail(todo)
    /\ UNCHANGED <<stage, at, marks, cursor, calls, cuts, call, kept, rounds>>

PowerCut ==
    /\ calls + cuts < MaxEvents /\ stage # "off" /\ ~ (stage = "idle" /\ todo = << >>)
    /\ stage' = "off" /\ todo' = << >> /\ cuts' = cuts + 1
    /\ at' = 1 /\ marks' = NoMarks /\ cursor' = 1 /\ rounds' = 0
    /\ UNCHANGED <<flash, calls, call, kept>>

\* SPIFFS_mount and the beginning of SPIFFS_check.
Check ==
    /\ stage = "off" \/ (stage = "idle" /\ rounds = 1 /\ cuts > 0)
    /\ stage' = "lookup"
    /\ UNCHANGED <<flash, todo, at, marks, cursor, calls, cuts, call, kept, rounds>>

(***************************************************************************)
(* The check, one visited page a step.                                     *)
(***************************************************************************)
\* spiffs_rewrite_page: a copy under the header of the page.
Copied(p, new) ==
    << Lookup(new, flash[p].id),
       Put(new, [id |-> flash[p].id, flags |-> flash[p].flags, span |-> flash[p].span]),
       Put(new, [refs |-> flash[p].refs, size |-> flash[p].size, fill |-> flash[p].fill]) >>

\* spiffs_rewrite_index: the header copied with another reference.
Redirected(ix, s, p, new) ==
    << Put(new, [id |-> "index", flags |-> flash[ix].flags, size |-> flash[ix].size,
                 refs |-> [flash[ix].refs EXCEPT ![s] = p]]),
       Lookup(new, "index") >> \o Deletion(ix)

\* spiffs_delete_obj_lazy of a header the search found.
LazyDeletion(ix) == IF ix = None THEN << >> ELSE << Flags(ix, {"ixdele"}) >>

Visits(phase) == /\ stage = phase /\ todo = << >> /\ at \in Page
                 /\ UNCHANGED <<flash, calls, cuts, call, kept, rounds>>
Onward == stage' = stage /\ at' = at + 1
Kept == Onward /\ todo' = << >> /\ UNCHANGED cursor

\* Mutant: a free entry is taken for a free page.
StrayDeleted(p) == flash[p].lu = "deleted" /\ "delet" \notin flash[p].flags
\* The page is free or deleted in the lookup and in use by its header.
Stray(p) == \/ flash[p].lu = "deleted" /\ "delet" \notin flash[p].flags
            \/ flash[p].lu = "free" /\ "used" \in flash[p].flags

StrayData ==
    LET ix == Find(Headers)
    IN
    /\ Visits("lookup") /\ Stray(at) /\ ~ IsIndex(at)
    /\ todo' = (IF ix # None /\ flash[ix].refs[flash[at].span] = at
                THEN Copied(at, Free(1)) \o Redirected(ix, flash[at].span, Free(1), Free(2))
                ELSE << >>) \o Deletion(at)
    /\ Found(ix) /\ Onward /\ UNCHANGED marks

StrayIndex ==
    LET other == Find(Headers \ {at})
        twin  == IF other = None THEN Find(ByHeader) ELSE None
    IN
    /\ Visits("lookup") /\ Stray(at) /\ IsIndex(at)
    /\ todo' = (IF twin # None THEN Copied(at, Free(1)) ELSE << >>) \o Deletion(at)
    /\ Found(IF twin # None THEN twin ELSE other) /\ Onward /\ UNCHANGED marks

Busy(p) == flash[p].lu \in {"data", "index"}
Mismarked(p) == (flash[p].lu = "index") # IsIndex(p)
\* Entered in the lookup, and its header never written.
Unwritten ==
    /\ Visits("lookup") /\ Busy(at) /\ flash[at].id = "none"
    /\ todo' = Deletion(at) /\ Onward /\ UNCHANGED <<marks, cursor>>

\* Index in the lookup and data by the flags, or the reverse: made what the
\* file has no other of.
Remade(p, new, kind) ==
    << Lookup(new, kind),
       Put(new, [id |-> kind, span |-> flash[p].span,
                 flags |-> {"used", "final"} \cup (IF kind = "index" THEN {"index"} ELSE {})]),
       Put(new, [refs |-> flash[p].refs, size |-> flash[p].size, fill |-> flash[p].fill]) >>
MismarkedPage ==
    LET data  == Find(DataOf(flash[at].span) \ {at})
        other == FindFrom(After(data, cursor),
                          IF flash[at].span = 0 THEN Headers \ {at} ELSE {})
    IN
    /\ Visits("lookup") /\ Busy(at) /\ flash[at].id # "none" /\ Mismarked(at)
    /\ todo' = (CASE data # None /\ other = None -> Remade(at, Free(1), "index")
                  [] data = None /\ other # None -> Remade(at, Free(1), "data")
                  [] OTHER -> << >>) \o Deletion(at)
    /\ cursor' = After(other, After(data, cursor)) /\ Onward /\ UNCHANGED marks

\* Entered in the lookup, and never made final: kept if the file refers to it.
Unfinal ==
    LET ix == Find(Headers)
    IN
    /\ Visits("lookup") /\ Busy(at) /\ flash[at].id # "none" /\ ~ Mismarked(at)
    /\ "final" \notin flash[at].flags
    /\ todo' = IF ix # None /\ flash[ix].refs[flash[at].span] = at
               THEN Finalisation(at) ELSE Deletion(at)
    /\ Found(ix) /\ Onward /\ UNCHANGED marks

LookupFine ==
    /\ Visits("lookup") /\ ~ Stray(at)
    /\ Busy(at) => ~ Mismarked(at) /\ "final" \in flash[at].flags
    /\ Kept /\ UNCHANGED marks

\* spiffs_object_index_consistency_check: a header left half removed.
HalfRemoved(p) == /\ flash[p].lu = "index" /\ "delet" \notin flash[p].flags
                  /\ {"index", "final", "ixdele"} \subseteq flash[p].flags
IndexVisit ==
    /\ Visits("index") /\ Onward /\ UNCHANGED <<marks, cursor>>
    /\ todo' = IF HalfRemoved(at) THEN Deletion(at) ELSE << >>

(***************************************************************************)
(* The page check: the headers are read and what they refer to is marked;  *)
(* a wrong reference is mended and the marking starts again.               *)
(***************************************************************************)
InUse(p) == "used" \in flash[p].flags /\ "delet" \notin flash[p].flags
LiveIndex(p) == InUse(p) /\ IsIndex(p) /\ "ixdele" \notin flash[p].flags
\* Mutant: the deleted flag of the page referred to is not read.
WrongSpan(p, s) == ~ ("used" \in flash[p].flags /\ ~ IsIndex(p) /\ flash[p].span = s)
Wrong(p, s) == ~ (InUse(p) /\ ~ IsIndex(p) /\ flash[p].span = s)

Restart == stage' = "pages" /\ at' = 1 /\ marks' = NoMarks

\* Entries are read in order up to the first that needs mending.
Refs == {s \in Span : flash[at].refs[s] # None}
ToMend == {s \in Refs : Wrong(flash[at].refs[s], s) \/ flash[at].refs[s] \in marks.refd}
FirstToMend == CHOOSE s \in ToMend : \A t \in ToMend : s <= t
Marked(upTo) ==
    [used  |-> marks.used \cup (IF InUse(at) THEN {at} ELSE {}),
     index |-> marks.index \cup (IF LiveIndex(at) THEN {at} ELSE {}),
     refd  |-> marks.refd \cup
               (IF LiveIndex(at) THEN {flash[at].refs[s] : s \in {t \in Refs : t < upTo}} ELSE {})]

PageFine ==
    /\ Visits("pages") /\ ~ (LiveIndex(at) /\ ToMend # {})
    /\ marks' = Marked(MaxSpans) /\ Kept

\* A reference to the wrong page: redirected to the right one if there is one,
\* else the file is given up, and the marking goes on behind this header.
WrongRef ==
    LET s     == FirstToMend
        right == Find(DataOf(s) \ {flash[at].refs[s]})
        ix    == Find(Headers)
    IN
    /\ Visits("pages") /\ LiveIndex(at) /\ ToMend # {} /\ Wrong(flash[at].refs[s], s)
    /\ IF right # None
       THEN Restart /\ todo' = Redirected(at, s, right, Free(1)) /\ Found(right)
       ELSE Onward /\ marks' = Marked(s) /\ todo' = LazyDeletion(ix) /\ Found(ix)

\* A page two headers refer to.
TwiceReferred ==
    LET ix == Find(Headers)
    IN
    /\ Visits("pages") /\ LiveIndex(at) /\ ToMend # {}
    /\ ~ Wrong(flash[at].refs[FirstToMend], FirstToMend)
    /\ Restart /\ todo' = LazyDeletion(ix) \o Deletion(at) /\ Found(ix)

\* The marks are read: a page in use that nothing refers to.
Lone(p) == p \in marks.used /\ p \notin marks.refd \cup marks.index
MarksFine == Visits("marks") /\ ~ Lone(at) /\ Kept /\ UNCHANGED marks
LonePage ==
    LET ix  == Find(Headers)
        ref == flash[ix].refs[flash[at].span]
        good == InUse(ref) /\ ~ IsIndex(ref) /\ "final" \in flash[ref].flags
    IN
    /\ Visits("marks") /\ Lone(at) /\ Found(ix)
    /\ IF ix = None \/ (ref # None /\ good)
       THEN todo' = Deletion(at) /\ Onward /\ UNCHANGED marks
       ELSE IF ref = at THEN todo' = << >> /\ Onward /\ UNCHANGED marks
       ELSE todo' = Redirected(ix, flash[at].span, at, Free(1)) /\ Restart

\* Mutant: the page range is not advanced behind the marks.
NextPhaseStuck ==
    /\ stage \in {"lookup", "index", "pages", "marks"} /\ at > NumPages /\ todo = << >>
    /\ stage' = CASE stage = "lookup" -> "index" [] stage = "index" -> "pages"
                  [] stage = "pages" -> "marks" [] stage = "marks" -> "pages"
    /\ at' = 1 /\ marks' = IF stage = "pages" THEN marks ELSE NoMarks
    /\ rounds' = rounds
    /\ UNCHANGED <<flash, todo, cursor, calls, cuts, call, kept>>
\* A phase has visited every page.
NextPhase ==
    /\ stage \in {"lookup", "index", "pages", "marks"} /\ at > NumPages /\ todo = << >>
    /\ stage' = CASE stage = "lookup" -> "index" [] stage = "index" -> "pages"
                  [] stage = "pages" -> "marks" [] stage = "marks" -> "idle"
    /\ at' = 1 /\ marks' = IF stage = "index" THEN NoMarks ELSE marks
    /\ rounds' = IF stage = "marks" THEN rounds + 1 ELSE rounds
    /\ UNCHANGED <<flash, todo, cursor, calls, cuts, call, kept>>

UserCall ==
    \/ Creat \/ Rename \/ RemoveFile
    \/ \E len \in 1 .. PageSize : AppendTo(len)
    \/ \E first, last \in Span : Modify(first, last)
    \/ \E size \in 0 .. MaxSpans * PageSize : Truncate(size)
    \/ \E s \in Span : Collect(s)
Mending ==
    \/ StrayData \/ StrayIndex \/ Unwritten \/ MismarkedPage \/ Unfinal
     \/ LookupFine \/ IndexVisit
    \/ PageFine \/ WrongRef \/ TwiceReferred \/ MarksFine \/ LonePage \/ NextPhase
Next == UserCall \/ Write \/ PowerCut \/ Check \/ Mending

RecoverySpec == Init /\ [][Next]_vars /\ WF_vars(Write \/ Check \/ Mending)

(***************************************************************************)
(* Properties.                                                             *)
(***************************************************************************)
\* n whole checks ran since the last call or power cut.
Done(n) == rounds >= n /\ todo = << >> /\ stage = "idle"

\* Two checks in a row leave no trace of the interrupted call, wherever it and
\* an earlier check were cut: every page in use is entered in the lookup as
\* what it is and is final, at most one header has data pages, and the data
\* pages in use are the ones it refers to.  (One check is not enough: a file
\* it gives up keeps a half removed header, spiffs_delete_obj_lazy, until the
\* index check of the next one.)
Clean ==
    Done(2) =>
      /\ \A p \in Page : InUse(p) \/ Busy(p) =>
            /\ InUse(p) /\ "final" \in flash[p].flags
            /\ flash[p].lu = IF IsIndex(p) THEN "index" ELSE "data"
      /\ Cardinality({p \in Headers : flash[p].refs # NoRefs}) <= 1
      /\ {p \in Page : InUse(p) /\ ~ IsIndex(p)} =
           UNION {{flash[p].refs[s] : s \in Span} : p \in Headers} \ {None}

\* After one check the file is gone or whole: every byte below its size that
\* the interrupted call was not to cut off is in a live data page of the right
\* span, in which it was written.
WholeOrGone ==
    Done(1) => \A h \in Headers : \A b \in 0 .. flash[h].size - 1 :
                  b < kept => LET p == flash[h].refs[b \div PageSize]
                              IN  /\ p \in DataOf(b \div PageSize) /\ ~ flash[p].mixed
                                  /\ flash[p].fill > b % PageSize

\* One power loss and the check after it lose no file that was there and was
\* not being removed.
KeepsFile == Done(1) /\ cuts <= 1 /\ call \in {"rename", "append", "modify", "truncate", "gc"}
               => Headers # {}

\* After a power loss a check comes to its end, however often it starts the
\* marking again.
Ends == stage = "off" ~> Done(1)
=============================================================================
