----------------------------- MODULE SpiffsStore -----------------------------
(***************************************************************************)
(* The calls of the SPIFFS API that change the flash, step by step:        *)
(* SPIFFS_creat, SPIFFS_write (modify, then append), SPIFFS_open with      *)
(* SPIFFS_TRUNC, SPIFFS_remove, SPIFFS_rename, SPIFFS_gc, SPIFFS_gc_quick, *)
(* and an unmount followed by a mount.                                     *)
(*                                                                         *)
(* SPIFFS_LOCK makes the calls atomic to each other, so one call is under  *)
(* way at a time; its local variables are the record `call`.  Every call   *)
(* opens the file it works on.  `files` is what the calls that returned    *)
(* have promised, and is read by the properties only.                      *)
(***************************************************************************)
EXTENDS SpiffsGc, Sequences

CONSTANTS
  Calls,     \* the calls clients make
  MaxLen,    \* bound: bytes written by one call
  GcSizes,   \* the sizes given to SPIFFS_gc
  Retry,     \* whether clients write again to a file a failed call left empty
  NoFile,    \* files[o]: there is no such file
  Unknown    \* files[o]: a call on the file failed half-way

ASSUME CallAssumption ==
  /\ Calls \subseteq {"creat", "write", "trunc", "remove", "rename",
                      "gc", "gc_quick", "mount"}
  /\ MaxLen \in Nat /\ GcSizes \subseteq Nat /\ Retry \in BOOLEAN
  /\ {NoFile, Unknown} \cap Seq(Bytes) = {} /\ NoFile # Unknown

VARIABLES
  call,   \* the call under way
  files   \* history: what the completed calls promise about each file

storeVars == <<fs, aborted, body, gc, call, files>>

NoCall == [op |-> "none"]

\* fd->objix_hdr_pix: every move of the header updates the open descriptors.
Header(o) ==
  CHOOSE p \in Page : fs.obj_lu[p] = <<o, "index">> /\ body[p].span = 0
Exists(o) == IndexPages(o, 0) # {}
SizeOf(o) == body[Header(o)].size
Length(o) == IF SizeOf(o) = Unset THEN 0 ELSE SizeOf(o)

SpanAt(n) == n \div DataPageSize
InPage(k, i, from, to) ==
  LET n == k * DataPageSize + i IN from <= n /\ n < to

\* Programming flash only clears bits: an erased cell takes the new value, any
\* other keeps it only if it is the same.
Program(old, new) == IF old = Unset \/ old = new THEN new ELSE Torn

\* spiffs_page_data_check looks at the page header only: that the page is in
\* use, holds data and has the span index -- not whose it is.
DataCheck(p, k) ==
  IF p = Unset THEN "ref_free"
  ELSE IF p = Torn THEN "bad"
  ELSE IF fs.obj_lu[p] = DELETED THEN "deleted"
  ELSE IF IsData(p) /\ body[p].span = k THEN "ok"
  ELSE "bad"

\* The index page in fs->work for the span at n: the one already there, or one
\* of those a search may return (the header is known from the descriptor).
WorkFor(n) ==
  LET j == IxSpan(SpanAt(n))
  IN IF call.work # NoWork THEN {call.work}
     ELSE IF j = 0 THEN {InWork(Header(call.obj))}
     ELSE {InWork(p) : p \in IndexPages(call.obj, j)}
Switches(n) == call.work # NoWork /\ call.work.ix.span # IxSpan(SpanAt(n))

\* A call returns: with success, promising content c; or with an error after
\* which nothing is promised.
Return(o, c) == call' = NoCall /\ files' = [files EXCEPT ![o] = c]
Break(o) == Return(o, Unknown)

\* The stage of the call under way, once gc_check has returned.
At(op, pc) == gc.pc = "off" /\ call.op = op /\ call.pc = pc

-----------------------------------------------------------------------------
(* Entry of the calls. *)

Idle == call = NoCall

\* Clients leave a file alone after a call on it has failed half-way: the repair
\* is SPIFFS_check, which is not modelled.  They may write to it again if it was
\* left empty, when there is nothing to repair.
Empty(o) ==
  /\ Exists(o) /\ Length(o) = 0
  /\ \A p \in Used(fs) : fs.obj_lu[p][1] = o =>
       p = Header(o) /\ \A k \in DOMAIN body[p].refs : body[p].refs[k] = Unset
May(op, o) == Idle /\ op \in Calls /\ files[o] # Unknown
MayRetry(o) == Retry /\ Idle /\ "write" \in Calls /\ files[o] = Unknown /\ Empty(o)

StartCreat(o) ==
  /\ May("creat", o)
  \* spiffs_obj_lu_find_free_obj_id: no entry, data or index, carries the id
  /\ \A p \in Used(fs) : fs.obj_lu[p][1] # o
  /\ call' = [op |-> "creat", obj |-> o, pc |-> "hdr"]
  /\ gc' = GcCheck(DataPageSize)
  /\ UNCHANGED <<fs, aborted, body, files>>

Part(o, pc, from, to, rest, v) ==
  [op |-> "write", obj |-> o, pc |-> pc, base |-> from, pos |-> from,
   end |-> to, rest |-> rest, val |-> v, full |-> FALSE, work |-> NoWork]

\* spiffs_hydro_write: what lies before the end of the file is modified first.
\* The offsets are those up to the end of the file.
StartWrite(o, off, len, v) ==
  /\ \/ May("write", o) /\ UNCHANGED files
     \/ MayRetry(o) /\ files' = [files EXCEPT ![o] = <<>>]
  /\ Exists(o) /\ off <= Length(o) /\ off + len <= MaxSpans * DataPageSize
  /\ LET cut == IF off + len < Length(o) THEN off + len ELSE Length(o)
     IN IF off < Length(o)
        THEN /\ call' = Part(o, "modify", off, cut, off + len - cut, v)
             /\ gc' = GcCheck(cut - off + DataPageSize)
        ELSE /\ call' = Part(o, "append", off, off + len, 0, v)
             /\ gc' = GcCheck(len + DataPageSize)
  /\ UNCHANGED <<fs, aborted, body>>

StartTruncate(o) ==
  /\ May("trunc", o)
  /\ Exists(o) /\ Length(o) > 0
  /\ call' = [op |-> "trunc", obj |-> o, pc |-> "cut", size |-> SizeOf(o),
              work |-> NoWork]
  /\ gc' = GcCheck(2 * DataPageSize)
  /\ UNCHANGED <<fs, aborted, body, files>>

\* Mutant: the last byte is taken for the end.
StartRemoveShort(o) ==
  /\ May("remove", o)
  /\ Exists(o)
  /\ call' = [op |-> "remove", obj |-> o, pc |-> "mark",
              size |-> IF Length(o) > 0 THEN Length(o) - 1 ELSE 0, work |-> NoWork]
  /\ gc' = GcCheck(0)
  /\ UNCHANGED <<fs, aborted, body, files>>

StartRemove(o) ==
  /\ May("remove", o)
  /\ Exists(o)
  /\ call' = [op |-> "remove", obj |-> o, pc |-> "mark", size |-> Length(o),
              work |-> NoWork]
  /\ gc' = GcCheck(0)
  /\ UNCHANGED <<fs, aborted, body, files>>

StartGc(len) ==
  /\ Idle /\ "gc" \in Calls
  /\ call' = [op |-> "gc"]
  /\ gc' = GcCheck(len)
  /\ UNCHANGED <<fs, aborted, body, files>>

\* SPIFFS_rename rewrites the header without a gc_check.
Rename(o) ==
  /\ May("rename", o)
  /\ Exists(o)
  /\ \/ MovePage(Header(o), body[Header(o)])
     \/ Refuse /\ UNCHANGED body
  /\ UNCHANGED <<gc, call, files>>

Quick(max_free) ==
  /\ Idle /\ "gc_quick" \in Calls
  /\ QuickCollect(max_free)
  /\ body' = [p \in Page |-> IF fs'.obj_lu[p] = FREE THEN Blank ELSE body[p]]
  /\ UNCHANGED <<gc, call, files>>

Mount ==
  /\ Idle /\ "mount" \in Calls
  /\ Remount
  /\ UNCHANGED <<body, gc, call, files>>

ClientStep ==
  \/ \E o \in ObjIds :
       \/ StartCreat(o) \/ StartTruncate(o) \/ StartRemove(o) \/ Rename(o)
       \/ \E off \in 0..(MaxSpans * DataPageSize), len \in 1..MaxLen, v \in Bytes :
            StartWrite(o, off, len, v)
  \/ \E len \in GcSizes : StartGc(len)
  \/ \E m \in 0..MaxFreePages : Quick(m)
  \/ Mount

\* gc_check has returned; an error ends the call before it changed anything.
GcReturned ==
  /\ gc.pc = "done"
  /\ gc' = NoGc
  /\ call' = IF gc.ok /\ call.op # "gc" THEN call ELSE NoCall
  /\ UNCHANGED <<fs, aborted, body, files>>

-----------------------------------------------------------------------------
(* spiffs_object_create *)

CreateHeader ==
  /\ At("creat", "hdr")
  /\ \/ /\ AllocatePage(<<call.obj, "index">>, IndexPage(0))
        /\ Return(call.obj, <<>>)
     \/ /\ Refuse
        /\ call' = NoCall
        /\ UNCHANGED <<body, files>>
  /\ UNCHANGED gc

-----------------------------------------------------------------------------
(* spiffs_object_modify *)

\* Mutant: one byte too many.
FilledBeyond(old) ==
  [i \in DOMAIN old |->
     IF InPage(SpanAt(call.pos), i, call.pos, call.end + 1) THEN call.val ELSE old[i]]
Filled(old) ==
  [i \in DOMAIN old |->
     IF InPage(SpanAt(call.pos), i, call.pos, call.end) THEN call.val ELSE old[i]]
NextPos ==
  LET n == (SpanAt(call.pos) + 1) * DataPageSize IN IF n < call.end THEN n ELSE call.end
WholePage == call.pos % DataPageSize = 0 /\ NextPos - call.pos = DataPageSize

\* What a file holds once the part of the write under way is done.
Written ==
  LET old == files[call.obj]
  IN IF old = Unknown THEN Unknown
     ELSE [i \in 1..(IF Len(old) > call.end THEN Len(old) ELSE call.end) |->
             IF call.base < i /\ i <= call.end THEN call.val ELSE old[i]]

\* On a switch to another index page the previous one is stored.
ModifyStore ==
  /\ At("write", "modify")
  /\ call.pos < call.end /\ ~call.full /\ Switches(call.pos)
  /\ \/ /\ MovePage(call.work.page, call.work.ix)
        /\ call' = [call EXCEPT !.work = NoWork]
        /\ UNCHANGED files
     \/ Refuse /\ Break(call.obj) /\ UNCHANGED body
  /\ UNCHANGED gc

\* A new data page is written; a partial one also copies from the original,
\* which is checked first.
ModifyData ==
  /\ At("write", "modify")
  /\ call.pos < call.end /\ ~call.full /\ ~Switches(call.pos)
  /\ \/ \E w \in WorkFor(call.pos) :
          LET k == SpanAt(call.pos)
              orig == w.ix.refs[k]
              old == IF WholePage THEN [i \in 0..(DataPageSize - 1) |-> Unset]
                     ELSE body[orig].bytes
          IN IF WholePage \/ DataCheck(orig, k) = "ok"
             THEN \/ /\ AllocatePage(<<call.obj, "data">>, DataPage(k, Filled(old)))
                     /\ call' = [call EXCEPT !.pc = "replace",
                                             !.work = Noted(w, k, Taken)]
                     /\ UNCHANGED files
                  \/ /\ Refuse
                     /\ call' = [call EXCEPT !.full = TRUE, !.work = w]
                     /\ UNCHANGED <<body, files>>
             ELSE Break(call.obj) /\ UNCHANGED <<fs, aborted, body>>
     \/ /\ WorkFor(call.pos) = {}
        /\ Break(call.obj) /\ UNCHANGED <<fs, aborted, body>>
  /\ UNCHANGED gc

\* The original page is deleted; its place is still in the stored index page.
ModifyReplace ==
  /\ At("write", "replace")
  /\ DeletePage(body[call.work.page].refs[SpanAt(call.pos)])
  /\ call' = [call EXCEPT !.pc = "modify", !.pos = NextPos]
  /\ UNCHANGED <<gc, files>>

\* The last index page is stored, also after a failed allocation; then the rest
\* of the write is appended.
ModifyFinish ==
  /\ At("write", "modify")
  /\ call.pos = call.end \/ call.full
  /\ \/ /\ MovePage(call.work.page, call.work.ix)
        /\ IF call.full THEN Break(call.obj) /\ UNCHANGED gc
           ELSE /\ files' = [files EXCEPT ![call.obj] = Written]
                /\ IF call.rest = 0 THEN call' = NoCall /\ UNCHANGED gc
                   ELSE /\ call' = Part(call.obj, "append", call.end,
                                        call.end + call.rest, 0, call.val)
                        /\ gc' = GcCheck(call.rest + DataPageSize)
     \/ Refuse /\ Break(call.obj) /\ UNCHANGED <<body, gc>>

-----------------------------------------------------------------------------
(* spiffs_object_append *)

\* An index page programmed in place with the copy in RAM.
Programmed(w, size) ==
  LET old == body[w.page]
  IN [old EXCEPT !.refs = [k \in DOMAIN old.refs |-> Program(old.refs[k], w.ix.refs[k])],
                 !.size = size]

\* Storing the index page in RAM with the new size: a header of a file that was
\* empty is programmed in place and any other header is moved; an index page
\* after the header is programmed in place and the header moved.
InPlace == call.work.ix.span = 0 /\ call.base = 0
AppendStored(size) ==
  LET w == call.work  h == Header(call.obj)
      page == IF w.ix.span = 0 THEN w.ix ELSE Programmed(w, Unset)
      hdr == IF w.ix.span = 0 THEN [w.ix EXCEPT !.size = size]
             ELSE [body[h] EXCEPT !.size = size]
  IN \/ /\ InPlace
        /\ body' = [body EXCEPT ![w.page] =
                      Programmed(w, IF body[h].size = Unset THEN size ELSE 0)]
        /\ UNCHANGED <<fs, aborted>>
     \/ /\ ~InPlace /\ Move(h)
        /\ body' = [body EXCEPT ![w.page] = page, ![Taken] = hdr, ![h] = Blank]
AppendNotStored ==
  /\ ~InPlace /\ Refuse
  /\ body' = IF call.work.ix.span = 0 THEN body
             ELSE [body EXCEPT ![call.work.page] = Programmed(call.work, Unset)]

AppendStore ==
  /\ At("write", "append")
  /\ call.pos < call.end /\ ~call.full /\ Switches(call.pos)
  /\ \/ /\ AppendStored(call.pos)
        /\ call' = [call EXCEPT !.work = NoWork]
        /\ UNCHANGED files
     \/ AppendNotStored /\ Break(call.obj)
  /\ UNCHANGED gc

\* Mutant: also when the last index page has the slot.
NewIndexAgain ==
  LET j == IxSpan(SpanAt(call.pos))
  IN /\ call.work = NoWork /\ j # 0
     /\ call.pos > call.base \/ j >= IxSpan(SpanAt(Length(call.obj) - 1))

\* A new index page is needed after a switch, or when the first span to write
\* has its slot beyond the index page of the last byte.
NewIndex ==
  LET j == IxSpan(SpanAt(call.pos))
  IN /\ call.work = NoWork /\ j # 0
     /\ call.pos > call.base \/ j > IxSpan(SpanAt(Length(call.obj) - 1))

AppendIndex ==
  /\ At("write", "append")
  /\ call.pos < call.end /\ ~call.full /\ NewIndex
  /\ LET j == IxSpan(SpanAt(call.pos))
     IN \/ /\ AllocatePage(<<call.obj, "index">>, IndexPage(j))
           /\ call' = [call EXCEPT !.work =
                         [page |-> Taken, obj |-> call.obj, ix |-> IndexPage(j)]]
           /\ UNCHANGED files
        \/ Refuse /\ Break(call.obj) /\ UNCHANGED body
  /\ UNCHANGED gc

\* At the start of a page a new one is written, otherwise the existing one is
\* programmed further.  A failed allocation ends the loop.
AppendData ==
  /\ At("write", "append")
  /\ call.pos < call.end /\ ~call.full /\ ~Switches(call.pos) /\ ~NewIndex
  /\ \/ \E w \in WorkFor(call.pos) :
          LET k == SpanAt(call.pos)
              fresh == [i \in 0..(DataPageSize - 1) |-> Unset]
              tail == w.ix.refs[k]
          IN \/ /\ call.pos % DataPageSize = 0
                /\ AllocatePage(<<call.obj, "data">>, DataPage(k, Filled(fresh)))
                /\ call' = [call EXCEPT !.pos = NextPos,
                                        !.work = Noted(w, k, Taken)]
                /\ UNCHANGED files
             \/ /\ call.pos % DataPageSize = 0
                /\ Refuse
                /\ call' = [call EXCEPT !.full = TRUE, !.work = w]
                /\ UNCHANGED <<body, files>>
             \/ /\ call.pos % DataPageSize # 0 /\ DataCheck(tail, k) = "ok"
                /\ LET new == Filled(body[tail].bytes)
                       bytes == [i \in DOMAIN new |-> Program(body[tail].bytes[i], new[i])]
                   IN body' = [body EXCEPT ![tail] = [@ EXCEPT !.bytes = bytes]]
                /\ call' = [call EXCEPT !.pos = NextPos, !.work = w]
                /\ UNCHANGED <<fs, aborted, files>>
             \/ /\ call.pos % DataPageSize # 0 /\ DataCheck(tail, k) # "ok"
                /\ Break(call.obj) /\ UNCHANGED <<fs, aborted, body>>
     \/ /\ WorkFor(call.pos) = {}
        /\ Break(call.obj) /\ UNCHANGED <<fs, aborted, body>>
  /\ UNCHANGED gc

AppendFinish ==
  /\ At("write", "append")
  /\ call.pos = call.end \/ call.full
  /\ \/ /\ AppendStored(call.pos)
        /\ IF call.full THEN Break(call.obj) ELSE Return(call.obj, Written)
     \/ AppendNotStored /\ Break(call.obj)
  /\ UNCHANGED gc

-----------------------------------------------------------------------------
(* spiffs_object_truncate to size 0, with and without removal *)

Cutting == At("trunc", "cut") \/ At("remove", "cut")

\* A removal is announced in the header first.
MarkRemoved ==
  /\ At("remove", "mark")
  /\ body' = [body EXCEPT ![Header(call.obj)] = [@ EXCEPT !.ixdele = TRUE]]
  /\ call' = [call EXCEPT !.pc = "cut"]
  /\ UNCHANGED <<fs, aborted, gc, files>>

\* Data pages are deleted from the end.  A reference to a page that is deleted
\* already, or to none, is passed over; any other bad reference, after which the
\* code stores the index as it stands, occurs in damaged files only and is not
\* modelled: a call that met one would stop here.
CutData ==
  /\ Cutting /\ call.size > 0 /\ ~Switches(call.size - 1)
  /\ LET k == SpanAt(call.size - 1)
     IN \/ \E w \in WorkFor(call.size - 1) :
             /\ \/ DataCheck(w.ix.refs[k], k) = "ok" /\ DeletePage(w.ix.refs[k])
                \/ /\ DataCheck(w.ix.refs[k], k) \in {"deleted", "ref_free"}
                   /\ UNCHANGED <<fs, aborted, body>>
             /\ call' = [call EXCEPT !.size = k * DataPageSize, !.work = w]
             /\ UNCHANGED files
        \/ /\ WorkFor(call.size - 1) = {}
           /\ Break(call.obj) /\ UNCHANGED <<fs, aborted, body>>
  /\ UNCHANGED gc

\* Mutant: the index page left behind stays.
CutIndexLeft ==
  /\ Cutting /\ call.size > 0 /\ Switches(call.size - 1)
  /\ call' = [call EXCEPT !.pc = "shrink", !.work = NoWork]
  /\ UNCHANGED <<fs, aborted, body, gc, files>>

\* An index page left behind is deleted, and the header moved with the new size.
CutIndex ==
  /\ Cutting /\ call.size > 0 /\ Switches(call.size - 1)
  /\ DeletePage(call.work.page)
  /\ call' = [call EXCEPT !.pc = "shrink", !.work = NoWork]
  /\ UNCHANGED <<gc, files>>

CutHeader ==
  /\ At("trunc", "shrink") \/ At("remove", "shrink")
  /\ \/ /\ MovePage(Header(call.obj), [body[Header(call.obj)] EXCEPT !.size = call.size])
        /\ call' = [call EXCEPT !.pc = "cut"]
        /\ UNCHANGED files
     \/ Refuse /\ Break(call.obj) /\ UNCHANGED body
  /\ UNCHANGED gc

\* Finally the header is deleted, or moved with no size and no references.
CutFinish ==
  /\ Cutting /\ call.size = 0
  /\ LET h == Header(call.obj)
     IN \/ /\ call.op = "remove"
           /\ DeletePage(h)
           /\ Return(call.obj, NoFile)
        \/ /\ call.op = "trunc"
           /\ MovePage(h, IndexPage(0))
           /\ Return(call.obj, <<>>)
        \/ /\ call.op = "trunc"
           /\ Refuse /\ Break(call.obj) /\ UNCHANGED body
  /\ UNCHANGED gc

-----------------------------------------------------------------------------

Still == UNCHANGED <<call, files>>

GcStep ==
  \/ GcEnough /\ Still
  \/ GcRefuse /\ Still
  \/ GcBegin /\ Still
  \/ GcNoCandidate /\ Still
  \/ \E b \in Block : GcPick(b) /\ Still
  \/ GcFindData /\ Still
  \/ GcMoveData /\ Still
  \/ GcStoreIndex /\ Still
  \/ GcMoveIndex /\ Still
  \/ GcErase /\ Still

CallStep ==
  \/ GcReturned
  \/ CreateHeader
  \/ ModifyStore \/ ModifyData \/ ModifyReplace \/ ModifyFinish
  \/ AppendStore \/ AppendIndex \/ AppendData \/ AppendFinish
  \/ MarkRemoved \/ CutData \/ CutIndex \/ CutHeader \/ CutFinish

StoreInit ==
  /\ Init
  /\ body = [p \in Page |-> Blank]
  /\ gc = NoGc /\ call = NoCall
  /\ files = [o \in ObjIds |-> NoFile]

StoreNext == GcStep \/ CallStep \/ ClientStep

\* A call runs to its end: the C code has no point at which it waits.
StoreSpec ==
  /\ StoreInit /\ [][StoreNext]_storeVars
  /\ WF_storeVars(GcStep \/ CallStep)

-----------------------------------------------------------------------------
(* Properties. *)

\* What a read of the whole file returns (spiffs_object_read): the size, and for
\* every byte the page a valid reference leads to.
Reads(o, c) ==
  /\ Exists(o) /\ Length(o) = Len(c)
  /\ \A i \in 1..Len(c) :
       LET k == SpanAt(i - 1)
       IN /\ IndexPages(o, IxSpan(k)) # {}
          /\ \A x \in IndexPages(o, IxSpan(k)) :
               LET p == body[x].refs[k]
               IN DataCheck(p, k) = "ok" /\ body[p].bytes[(i - 1) % DataPageSize] = c[i]

\* A file of which every call succeeded reads back what was written to it,
\* whatever happened to other files and however the collector moved its pages.
FilesIntact ==
  Idle => \A o \in ObjIds :
             files[o] \notin {NoFile, Unknown} => Reads(o, files[o])

\* Between calls every reference of a live index page leads to a data page of
\* that object and span: nothing the collector moved is left behind.
IndexSound ==
  Idle => \A x \in {p \in Page : IsIndex(p)} :
             \A k \in DOMAIN body[x].refs :
                LET p == body[x].refs[k]
                IN p # Unset => /\ p # Torn /\ fs.obj_lu[p] = <<fs.obj_lu[x][1], "data">>
                                /\ body[p].span = k

\* Between calls every live data page is referred to, and a removed file has
\* left no page: nothing leaks.
NoOrphans ==
  Idle => \A p \in Used(fs) :
             /\ files[fs.obj_lu[p][1]] # NoFile
             /\ IsData(p) => \E x \in IndexPages(fs.obj_lu[p][1], IxSpan(body[p].span)) :
                               body[x].refs[body[p].span] = p

\* An object has one index page of a span: the search finds the right one.
UniqueIndex ==
  \A p, q \in Page :
     IsIndex(p) /\ IsIndex(q) /\ fs.obj_lu[p] = fs.obj_lu[q] /\ body[p].span = body[q].span
       => p = q

\* No live page is ever erased: the collector has emptied a block before it
\* erases it.
LivePagesKept == [][\A p \in Used(fs) : fs'.obj_lu[p] # FREE]_storeVars

\* Every allocation, move, deletion and erasure is a step of SpiffsPages, in
\* particular only live pages are deleted and only empty blocks erased.
ImplementsPages == Spec

\* Once spiffs_gc_check has agreed, no step of the call is refused a page: the
\* data it was asked about and "an extra page of data worth for meta" fit.
ReserveSuffices ==
  [][gc.pc = "off" /\ call # NoCall /\ call' = NoCall
       => /\ files'[call.obj] # Unknown
          /\ call.op = "creat" => files'[call.obj] = <<>>]_storeVars

\* No clean run is given up: there is a free page for every page it moves and an
\* index page for every data page.
CleanSucceeds == ~aborted

\* Every call returns.
CallsReturn == ~Idle ~> Idle
=============================================================================
