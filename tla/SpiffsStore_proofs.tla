------------------------- MODULE SpiffsStore_proofs -------------------------
(***************************************************************************)
(* Proofs that the calls and the collector of SPIFFS keep every file whose *)
(* calls succeeded: it reads back what was written, whatever was collected *)
(* in between, for every geometry.                                         *)
(***************************************************************************)
EXTENDS SpiffsStore, SpiffsObjects_proofs, SpiffsPages_proofs

-----------------------------------------------------------------------------
(* The pages that are in use. *)

\* The id each live page carries.
Live(lu) == [p \in Page |-> IF lu[p] \in LuIds THEN lu[p] ELSE DELETED]
ids == Live(fs.obj_lu)

\* A page is in use when it carries an id, and carries the one its entry holds.
LEMMA LiveAt ==
  ASSUME NEW lu, NEW p \in Page
  PROVE  /\ Live(lu)[p] = IF lu[p] \in LuIds THEN lu[p] ELSE DELETED
         /\ Live(lu)[p] \in LuIds \cup {DELETED}
         /\ lu[p] \in LuIds <=> Live(lu)[p] # DELETED
         /\ \A o \in ObjIds : /\ Live(lu)[p] = Ix(o) <=> lu[p] = Ix(o)
                              /\ Live(lu)[p] = Da(o) <=> lu[p] = Da(o)
<1>1. Live(lu)[p] = IF lu[p] \in LuIds THEN lu[p] ELSE DELETED
  BY DEF Live
<1>2. DELETED \notin LuIds
  BY MarkerAssumption
<1>3. \A o \in ObjIds : Ix(o) \in LuIds /\ Da(o) \in LuIds
  BY IdsApart
<1> QED
  BY <1>1, <1>2, <1>3

\* Pages in use, by what they hold.
LEMMA LiveKinds ==
  ASSUME NEW p \in Page
  PROVE  /\ p \in Used(fs) <=> ids[p] # DELETED
         /\ IsData(p) <=> \E o \in ObjIds : ids[p] = Da(o)
         /\ IsIndex(p) <=> \E o \in ObjIds : ids[p] = Ix(o)
         /\ IsIndex(p) \/ IsData(p) => fs.obj_lu[p] = ids[p]
<1>1. fs.obj_lu[p] \in LuIds <=> ids[p] # DELETED
  BY LiveAt DEF ids
<1>2. fs.obj_lu[p] \in LuIds => ids[p] = fs.obj_lu[p]
  BY LiveAt DEF ids
<1>3. p \in Used(fs) <=> fs.obj_lu[p] \in LuIds
  BY DEF Used
<1>4. IsData(p) <=> \E o \in ObjIds : ids[p] = Da(o)
  <2>1. ASSUME IsData(p) PROVE \E o \in ObjIds : ids[p] = Da(o)
    <3>1. fs.obj_lu[p] \in LuIds /\ fs.obj_lu[p][2] = "data"
      BY <2>1 DEF IsData, Used
    <3> QED
      BY <1>2, <3>1, StoreAssumption DEF Da
  <2>2. ASSUME NEW o \in ObjIds, ids[p] = Da(o) PROVE IsData(p)
    <3>1. fs.obj_lu[p] = Da(o)
      BY <2>2, LiveAt DEF ids
    <3> QED
      BY <1>3, <3>1, IdsApart DEF IsData, Da
  <2> QED
    BY <2>1, <2>2
<1>5. IsIndex(p) <=> \E o \in ObjIds : ids[p] = Ix(o)
  <2>1. ASSUME IsIndex(p) PROVE \E o \in ObjIds : ids[p] = Ix(o)
    <3>1. fs.obj_lu[p] \in LuIds /\ fs.obj_lu[p][2] = "index"
      BY <2>1 DEF IsIndex, Used
    <3> QED
      BY <1>2, <3>1, StoreAssumption DEF Ix
  <2>2. ASSUME NEW o \in ObjIds, ids[p] = Ix(o) PROVE IsIndex(p)
    <3>1. fs.obj_lu[p] = Ix(o)
      BY <2>2, LiveAt DEF ids
    <3> QED
      BY <1>3, <3>1, IdsApart DEF IsIndex, Ix
  <2> QED
    BY <2>1, <2>2
<1>6. IsIndex(p) \/ IsData(p) => fs.obj_lu[p] = ids[p]
  BY <1>2 DEF IsIndex, IsData, Used
<1> QED
  BY <1>1, <1>3, <1>4, <1>5, <1>6

\* Equal pages in use.
LEMMA LiveSame ==
  ASSUME NEW lu, NEW nu, \A p \in Page : nu[p] = lu[p] \/ (nu[p] \notin LuIds /\ lu[p] \notin LuIds)
  PROVE  Live(nu) = Live(lu)
<1>1. \A p \in Page : (IF nu[p] \in LuIds THEN nu[p] ELSE DELETED) = (IF lu[p] \in LuIds THEN lu[p] ELSE DELETED)
  OBVIOUS
<1> QED
  BY <1>1 DEF Live

\* The gate and the quick collection change no page in use.
LEMMA QuickLive ==
  ASSUME NEW s \in FsState
  PROVE  /\ Live(GcQuick(s, 0).obj_lu) = Live(s.obj_lu)
         /\ Live(Gate(s).obj_lu) = Live(s.obj_lu)
<1>1. Live(GcQuick(s, 0).obj_lu) = Live(s.obj_lu)
  <2>1. CASE QuickVictims(s, 0) = {}
    BY <2>1 DEF GcQuick
  <2>2. CASE QuickVictims(s, 0) # {}
    <3> DEFINE b == CHOOSE x \in QuickVictims(s, 0) : \A y \in QuickVictims(s, 0) : x <= y
               d == s.stats_p_deleted - Cardinality(Dirty(s) \cap PagesOf(b))
    <3>1. b \in QuickVictims(s, 0)
      <4>1. QuickVictims(s, 0) \in SUBSET Nat
        BY GeometryAssumption DEF QuickVictims, Block
      <4> QED
        BY <4>1, <2>2, Least
    <3>2. GcQuick(s, 0) = EraseBlock([s EXCEPT !.stats_p_deleted = d], b)
      BY <2>2, Zenon DEF GcQuick
    <3> HIDE DEF b
    <3>3. b \in Block /\ Used(s) \cap PagesOf(b) = {}
      BY <3>1 DEF QuickVictims
    <3> HIDE DEF d
    <3>4. GcQuick(s, 0).obj_lu = [p \in Page |-> IF p[1] = b THEN FREE ELSE s.obj_lu[p]]
      <4> DEFINE u == [s EXCEPT !.stats_p_deleted = d]
      <4>1. u.obj_lu = s.obj_lu /\ u = [u EXCEPT !.obj_lu = s.obj_lu]
            /\ DOMAIN u = DOMAIN s
        BY DEF FsState
      <4>2. GcQuick(s, 0) = [u EXCEPT !.obj_lu = [p \in Page |-> IF p[1] = b THEN FREE ELSE u.obj_lu[p]],
                                      !.free_blocks = @ + 1]
        BY <3>2, Zenon DEF EraseBlock
      <4>3. "obj_lu" \in DOMAIN u
        BY <4>1 DEF FsState
      <4> HIDE DEF u
      <4> QED
        BY <4>1, <4>2, <4>3
    <3>5. ASSUME NEW p \in Page, p[1] = b PROVE s.obj_lu[p] \notin LuIds
      BY <3>3, <3>5 DEF Used, PagesOf, Page
    <3> HIDE DEF QuickVictims, GcQuick
    <3>6. \A p \in Page : \/ GcQuick(s, 0).obj_lu[p] = s.obj_lu[p]
                          \/ GcQuick(s, 0).obj_lu[p] \notin LuIds /\ s.obj_lu[p] \notin LuIds
      BY <3>4, <3>5, MarkerAssumption
    <3> QED
      BY <3>6, LiveSame, Zenon
  <2> QED
    BY <2>1, <2>2
<1> QED
  BY <1>1 DEF Gate

\* What the steps of SpiffsPages make of the pages in use: a page that was not in use
\* carries id, and page p is not in use any more.
Taking(t, id) ==
  /\ t \in Page /\ ids[t] = DELETED
  /\ \A q \in Page : ids'[q] = IF q = t THEN id ELSE ids[q]
Moving(p, t) ==
  /\ t \in Page /\ ids[t] = DELETED /\ t # p
  /\ \A q \in Page : ids'[q] = IF q = p THEN DELETED ELSE IF q = t THEN ids[p] ELSE ids[q]
Losing(p) == \A q \in Page : ids'[q] = IF q = p THEN DELETED ELSE ids[q]

\* The page the search for a free one finds.
LEMMA FoundFree ==
  ASSUME NEW s \in FsState, NEW q \in FirstFree(Gate(s)), Gate(s) \in FsState
  PROVE  q \in Page /\ q = <<q[1], q[2]>> /\ Live(s.obj_lu)[q] = DELETED
<1>1. q \in Page /\ Gate(s).obj_lu[q] = FREE
  BY DEF FirstFree, FreePages
<1>2. q = <<q[1], q[2]>>
  BY <1>1 DEF Page
<1>3. Live(Gate(s).obj_lu)[q] = DELETED
  BY <1>1, LiveAt, MarkerAssumption
<1> QED
  BY <1>1, <1>2, <1>3, QuickLive

\* An allocation takes the page where the cursor stands then.
LEMMA AllocLive ==
  ASSUME IInv, NEW id \in LuIds, Allocate(id)
  PROVE  Taking(Taken, id)
<1>1. SoundState(fs) /\ fs \in FsState /\ SoundState(Gate(fs)) /\ Gate(fs) \in FsState
  BY GateSound DEF IInv, SoundState
<1>2. PICK q \in FirstFree(Gate(fs)) : fs' = Occupy(Gate(fs), q, id)
  BY DEF Allocate
<1>3. /\ fs'.free_cursor_block_ix = q[1] /\ fs'.free_cursor_obj_lu_entry = q[2]
      /\ fs'.obj_lu = [Gate(fs).obj_lu EXCEPT ![q] = id]
  BY <1>1, <1>2, OccupySound
<1>4. q \in Page /\ q = <<q[1], q[2]>> /\ ids[q] = DELETED
  BY <1>1, FoundFree DEF ids
<1>5. Taken = q
  BY <1>3, <1>4 DEF Taken
<1>6. \A p \in Page : fs'.obj_lu[p] = IF p = q THEN id ELSE Gate(fs).obj_lu[p]
  BY <1>1, <1>3 DEF FsState
<1>7. Live(Gate(fs).obj_lu) = ids
  BY <1>1, QuickLive DEF ids
<1>8. ASSUME NEW p \in Page PROVE ids'[p] = IF p = q THEN id ELSE ids[p]
  <2>1. ids'[p] = IF fs'.obj_lu[p] \in LuIds THEN fs'.obj_lu[p] ELSE DELETED
    BY LiveAt DEF ids
  <2>2. ids[p] = IF Gate(fs).obj_lu[p] \in LuIds THEN Gate(fs).obj_lu[p] ELSE DELETED
    BY <1>7, LiveAt
  <2> QED
    BY <1>6, <2>1, <2>2
<1> QED
  BY <1>4, <1>5, <1>8 DEF Taking

\* So does a move, and the page moved is not in use any more.
LEMMA MoveLive ==
  ASSUME IInv, NEW p \in Used(fs), Move(p)
  PROVE  /\ Moving(p, Taken) /\ fs'.cleaning = fs.cleaning
         /\ fs.cleaning # NoBlock =>
              /\ fs.obj_lu[Taken] = FREE
              /\ \A q \in Page : fs'.obj_lu[q] = IF q = p THEN DELETED
                                                ELSE IF q = Taken THEN fs.obj_lu[p] ELSE fs.obj_lu[q]
<1>1. SoundState(fs) /\ fs \in FsState /\ SoundState(Gate(fs)) /\ Gate(fs) \in FsState
      /\ Gate(fs).cleaning = fs.cleaning
  BY GateSound DEF IInv, SoundState
<1> DEFINE id == fs.obj_lu[p]
<1>2. PICK q \in FirstFree(Gate(fs)) : fs' = Discard(Occupy(Gate(fs), q, id), p)
  BY DEF Move
<1>3. id \in LuIds /\ p \in Page /\ ids[p] = id
  BY LiveAt DEF Used, ids
<1> HIDE DEF id
<1> DEFINE u == Occupy(Gate(fs), q, id)
<1>4. /\ u.free_cursor_block_ix = q[1] /\ u.free_cursor_obj_lu_entry = q[2]
      /\ u.obj_lu = [Gate(fs).obj_lu EXCEPT ![q] = id]
      /\ u \in FsState /\ u.cleaning = fs.cleaning
  BY <1>1, <1>2, <1>3, OccupySound DEF SoundState
<1>5. q \in Page /\ q = <<q[1], q[2]>> /\ ids[q] = DELETED
  BY <1>1, FoundFree DEF ids
<1>6. fs' = [u EXCEPT !.obj_lu = [u.obj_lu EXCEPT ![p] = DELETED], !.stats_p_deleted = @ + 1,
                      !.stats_p_allocated = @ - 1]
  BY <1>2, Zenon DEF Discard
<1> HIDE DEF u
<1>7. /\ fs'.free_cursor_block_ix = q[1] /\ fs'.free_cursor_obj_lu_entry = q[2]
      /\ fs'.obj_lu = [u.obj_lu EXCEPT ![p] = DELETED] /\ fs'.cleaning = fs.cleaning
  BY <1>4, <1>6 DEF FsState
<1>8. Taken = q
  BY <1>5, <1>7 DEF Taken
<1>9. q # p
  BY <1>3, <1>5, MarkerAssumption
<1>10. \A i \in Page : fs'.obj_lu[i] = IF i = p THEN DELETED ELSE IF i = q THEN id ELSE Gate(fs).obj_lu[i]
  BY <1>1, <1>4, <1>7 DEF FsState
<1>11. Live(Gate(fs).obj_lu) = ids
  BY <1>1, QuickLive DEF ids
<1>12. ASSUME NEW i \in Page PROVE ids'[i] = IF i = p THEN DELETED ELSE IF i = q THEN ids[p] ELSE ids[i]
  <2>1. ids'[i] = IF fs'.obj_lu[i] \in LuIds THEN fs'.obj_lu[i] ELSE DELETED
    BY LiveAt DEF ids
  <2>2. ids[i] = IF Gate(fs).obj_lu[i] \in LuIds THEN Gate(fs).obj_lu[i] ELSE DELETED
    BY <1>11, LiveAt
  <2> QED
    BY <1>3, <1>10, <2>1, <2>2, MarkerAssumption
<1>13. fs.cleaning # NoBlock => Gate(fs) = fs
  BY DEF Gate
<1>14. Gate(fs).obj_lu[q] = FREE
  BY <1>2 DEF FirstFree, FreePages
<1> QED
  BY <1>5, <1>7, <1>8, <1>9, <1>10, <1>12, <1>13, <1>14 DEF Moving, id

\* A deletion takes nothing.
LEMMA DeleteLive ==
  ASSUME IInv, NEW p \in Used(fs), Delete(p)
  PROVE  Losing(p)
<1>1. fs \in FsState /\ p \in Page
  BY DEF IInv, SoundState, Used
<1>2. fs' = [fs EXCEPT !.obj_lu = [fs.obj_lu EXCEPT ![p] = DELETED], !.stats_p_deleted = @ + 1,
                      !.stats_p_allocated = @ - 1]
  BY Zenon DEF Delete, Discard
<1>3. fs'.obj_lu = [fs.obj_lu EXCEPT ![p] = DELETED]
  BY <1>1, <1>2 DEF FsState
<1>4. \A q \in Page : fs'.obj_lu[q] = IF q = p THEN DELETED ELSE fs.obj_lu[q]
  BY <1>1, <1>3 DEF FsState
<1>5. ASSUME NEW q \in Page PROVE ids'[q] = IF q = p THEN DELETED ELSE ids[q]
  <2>1. /\ ids'[q] = IF fs'.obj_lu[q] \in LuIds THEN fs'.obj_lu[q] ELSE DELETED
        /\ ids[q] = IF fs.obj_lu[q] \in LuIds THEN fs.obj_lu[q] ELSE DELETED
    BY LiveAt DEF ids
  <2> QED
    BY <1>4, <2>1, MarkerAssumption
<1> QED
  BY <1>5 DEF Losing

\* The other steps change no page in use.
LEMMA OtherLive ==
  ASSUME IInv
  PROVE  /\ Refuse => ids' = ids
         /\ QuickCollect(0) => ids' = ids
         /\ \A b \in Block : CleanStart(b) => ids' = ids
         /\ CleanFinish => ids' = ids
         /\ CleanAbort => ids' = ids
         /\ Remount => ids' = ids
<1>1. fs \in FsState
  BY DEF IInv, SoundState
<1>2. Refuse => ids' = ids
  BY <1>1, QuickLive DEF Refuse, ids
<1>3. QuickCollect(0) => ids' = ids
  BY <1>1, QuickLive DEF QuickCollect, ids
<1>4. ASSUME NEW b \in Block, CleanStart(b) PROVE ids' = ids
  <2>1. CleanEntry(fs, b).obj_lu = fs.obj_lu
    BY <1>1 DEF CleanEntry, FsState
  <2>2. fs'.obj_lu = fs.obj_lu
    BY <1>4, <2>1 DEF CleanStart
  <2> QED
    BY <2>2 DEF ids
<1>5. ASSUME CleanFinish PROVE ids' = ids
  <2> DEFINE b == fs.cleaning
  <2>1. /\ b \in Block /\ PagesOf(b) \cap Used(fs) = {}
        /\ fs' = EraseCleaned(fs, b)
    BY <1>1, <1>5 DEF CleanFinish, FsState
  <2>2. fs'.obj_lu = [p \in Page |-> IF p[1] = b THEN FREE ELSE fs.obj_lu[p]]
    <3> DEFINE u == [fs EXCEPT !.cleaning = NoBlock,
                       !.stats_p_deleted   = @ - Cardinality(Dirty(fs) \cap PagesOf(b)),
                       !.stats_p_allocated = @ - Cardinality(Used(fs) \cap PagesOf(b))]
    <3>1. u.obj_lu = fs.obj_lu /\ "obj_lu" \in DOMAIN u
      BY <1>1 DEF FsState
    <3>2. fs' = EraseBlock(u, b)
      BY <2>1, Zenon DEF EraseCleaned
    <3> HIDE DEF u
    <3> QED
      BY <3>1, <3>2 DEF EraseBlock
  <2>3. ASSUME NEW p \in Page, p[1] = b PROVE fs.obj_lu[p] \notin LuIds
    BY <2>1, <2>3 DEF Used, PagesOf, Page
  <2>4. \A p \in Page : \/ fs'.obj_lu[p] = fs.obj_lu[p]
                        \/ fs'.obj_lu[p] \notin LuIds /\ fs.obj_lu[p] \notin LuIds
    BY <2>2, <2>3, MarkerAssumption
  <2> QED
    BY <2>4, LiveSame DEF ids
<1>6. Remount => ids' = ids
  BY DEF Remount, Mounted, ids
<1>7. CleanAbort => ids' = ids
  BY <1>1 DEF CleanAbort, FsState, ids
<1> QED
  BY <1>2, <1>3, <1>4, <1>5, <1>6, <1>7

-----------------------------------------------------------------------------
(* The inductive invariant. *)

\* The index page held in RAM, and what the flash will hold once it is stored.
Working == {"write", "trunc", "remove"}
Copy == IF gc.pc = "move" THEN gc.work
        ELSE IF gc.pc = "off" /\ call.op \in Working THEN call.work ELSE NoWork
Latest(b, w) == IF w = NoWork THEN b ELSE [b EXCEPT ![w.page] = w.ix]
ixs == Latest(body, Copy)

\* The size in the header of a file with contents c; what is wanted when c is overwritten
\* with v between two offsets; and the contents the model's bounds allow.
Top == MaxSpans * DataPageSize
SizeField(c) == IF c = <<>> THEN Unset ELSE Len(c)
Wanted(c, from, to, v) ==
  [n \in 0..Top |-> IF from <= n /\ n < to THEN v ELSE IF n < Len(c) THEN c[n + 1] ELSE Unset]
HeldSpan(w) == IF w = NoWork THEN -1 ELSE w.ix.span
ContentOk(c) == c \in Seq(Bytes) /\ Len(c) <= Top

\* A file no call works on has the contents promised.
Resting(o) ==
  /\ Shape(ids, ixs, o, Len(files[o]), Wanted(files[o], 0, 0, Unset), -1, Unset, FALSE)
  /\ HeadIs(ids, ixs, o, SizeField(files[o]), FALSE)
Busy(o) == gc.pc = "off" /\ call.op \in Working /\ call.obj = o
ObjectOk(o) ==
  \/ files[o] = NoFile /\ NoPages(ids, o)
  \/ files[o] = Unknown
  \/ ContentOk(files[o]) /\ (Busy(o) \/ Resting(o))

\* An index page held in RAM differs from the one stored in its references only.
WorkOk(w) ==
  /\ w = [page |-> w.page, obj |-> w.obj, ix |-> w.ix]
  /\ w.page \in Page /\ w.obj \in ObjIds /\ ids[w.page] = Ix(w.obj)
  /\ IndexBody(w.ix) /\ IndexBody(body[w.page]) /\ w.ix.span = body[w.page].span
  /\ w.ix.size = body[w.page].size /\ w.ix.ixdele = body[w.page].ixdele
HoldOk == call.work = NoWork \/ (WorkOk(call.work) /\ call.work.obj = call.obj)

\* The collector's run.  In the block it empties, no data page is left before the entry it
\* has reached but those whose index page it holds.
RunOk ==
  \/ gc = NoGc
  \/ gc.pc = "check" /\ gc = [pc |-> "check", len |-> gc.len]
  \/ gc.pc = "pick" /\ gc = [pc |-> "pick", len |-> gc.len, tries |-> gc.tries]
  \/ /\ gc.pc = "find"
     /\ gc = [pc |-> "find", len |-> gc.len, tries |-> gc.tries, prev |-> gc.prev,
              entry |-> gc.entry]
  \/ /\ gc.pc = "move"
     /\ gc = [pc |-> "move", len |-> gc.len, tries |-> gc.tries, prev |-> gc.prev,
              entry |-> gc.entry, work |-> gc.work]
     /\ WorkOk(gc.work)
  \/ gc.pc = "done" /\ gc = [pc |-> "done", ok |-> gc.ok] /\ gc.ok \in BOOLEAN
Passed ==
  /\ gc.entry \in Nat
  /\ \A p \in PagesOf(fs.cleaning) : p[2] < gc.entry =>
        fs.obj_lu[p] # FREE /\ (IsData(p) => gc.pc = "move" /\ p \in DataHere)
GcOk ==
  /\ (fs.cleaning # NoBlock) <=> gc.pc \in {"find", "move"}
  /\ RunOk
  /\ gc.pc \in {"find", "move"} => Passed

\* The records of the calls.
WriteRec ==
  /\ call = [op |-> "write", obj |-> call.obj, pc |-> call.pc, base |-> call.base,
             pos |-> call.pos, end |-> call.end, rest |-> call.rest, val |-> call.val,
             full |-> call.full, work |-> call.work]
  /\ call.obj \in ObjIds /\ ContentOk(files[call.obj]) /\ call.val \in Bytes
  /\ call.full \in BOOLEAN
  /\ call.base \in Nat /\ call.pos \in Nat /\ call.end \in Nat /\ call.rest \in Nat
  /\ call.base < call.end /\ call.base <= call.pos /\ call.pos <= call.end
  /\ call.end + call.rest <= Top
Modifies ==
  /\ call.pc \in {"modify", "replace"} /\ call.end <= Len(files[call.obj])
  /\ call.rest > 0 => call.end = Len(files[call.obj])
Appends ==
  call.pc = "append" /\ call.rest = 0 /\ call.base = Len(files[call.obj])
CutRec ==
  /\ call = [op |-> call.op, obj |-> call.obj, pc |-> call.pc, size |-> call.size,
             work |-> call.work]
  /\ call.obj \in ObjIds /\ ContentOk(files[call.obj]) /\ call.size \in Nat /\ call.size <= Top
CreateOk ==
  /\ call.op = "creat" /\ call = [op |-> "creat", obj |-> call.obj, pc |-> "hdr"]
  /\ call.obj \in ObjIds /\ files[call.obj] = NoFile

\* While the collector runs, the call has not begun.
EntryWrite ==
  /\ call.op = "write" /\ WriteRec /\ (Modifies \/ Appends) /\ call.pc # "replace"
  /\ call.pos = call.base /\ ~call.full /\ call.work = NoWork
EntryCut ==
  /\ call.op \in {"trunc", "remove"} /\ CutRec /\ call.work = NoWork
  /\ call.size = Len(files[call.obj])
  /\ \/ call.op = "trunc" /\ call.pc = "cut"
     \/ call.op = "remove" /\ call.pc = "mark"
EntryOk == call = [op |-> "gc"] \/ CreateOk \/ EntryWrite \/ EntryCut

\* spiffs_object_modify: what lies before the position is overwritten; the references from
\* there on are those stored.
SameRefs(n) ==
  \A k \in SlotsOf(call.work.ix.span) :
     k >= n => body[call.work.page].refs[k] = call.work.ix.refs[k]
Held == call.work # NoWork
ModifyOk ==
  LET o == call.obj  c == files[o]
  IN /\ call.op = "write" /\ WriteRec /\ Modifies /\ call.pc = "modify" /\ HoldOk
     /\ Shape(ids, ixs, o, Len(c), Wanted(c, call.base, call.pos, call.val), -1, Unset, FALSE)
     /\ HeadIs(ids, ixs, o, SizeField(c), FALSE)
     /\ Held /\ call.pos < call.end /\ ~call.full => SameRefs(SpanAt(call.pos))
     /\ call.pos = call.end \/ call.full => Held

\* Between a new data page and the deletion of the old one.
Old == body[call.work.page].refs[SpanAt(call.pos)]
ReplaceOk ==
  LET o == call.obj  c == files[o]
  IN /\ call.op = "write" /\ WriteRec /\ Modifies /\ call.pc = "replace" /\ HoldOk
     /\ call.pos < call.end /\ ~call.full /\ Held
     /\ call.work.ix.span = IxSpan(SpanAt(call.pos))
     /\ Old \in Page /\ ids[Old] = Da(o) /\ ixs[Old].span = SpanAt(call.pos)
     /\ Old # call.work.ix.refs[SpanAt(call.pos)]
     /\ Shape(ids, ixs, o, Len(c), Wanted(c, call.base, NextPos, call.val), -1, Old, FALSE)
     /\ HeadIs(ids, ixs, o, SizeField(c), FALSE)
     /\ SameRefs(SpanAt(call.pos) + 1)

\* spiffs_object_append: the object is as long as what is written.
HeadFor ==
  \E z \in {Unset} \cup 0..Top :
     /\ HeadIs(ids, ixs, call.obj, z, FALSE)
     /\ call.pos = call.base => z = SizeField(files[call.obj])
     /\ call.base = 0 /\ Held /\ call.work.ix.span = 0 => z = Unset
AppendWork ==
  /\ Held =>
       /\ \/ call.pos > call.base /\ call.work.ix.span = IxSpan(SpanAt(call.pos - 1))
          \/ (call.pos < call.end \/ call.full) /\ call.work.ix.span = IxSpan(SpanAt(call.pos))
       /\ \A k \in SlotsOf(call.work.ix.span) :
            body[call.work.page].refs[k] \in {Unset, call.work.ix.refs[k]}
  /\ ~Held /\ call.pos > call.base => IxSpan(SpanAt(call.pos - 1)) # IxSpan(SpanAt(call.pos))
  /\ call.pos = call.end \/ call.full => Held
AppendOk ==
  LET o == call.obj  c == files[o]
  IN /\ call.op = "write" /\ WriteRec /\ Appends /\ HoldOk
     /\ Shape(ids, ixs, o, call.pos, Wanted(c, call.base, call.pos, call.val),
              HeldSpan(call.work), Unset, FALSE)
     /\ HeadFor /\ AppendWork

\* spiffs_object_truncate: the object is as long as what is left.
CutAt ==
  \/ /\ call.pc = "cut"
     /\ Held => \E k \in Span : IxSpan(k) = call.work.ix.span /\ k * DataPageSize = call.size
  \/ call.pc = "shrink" /\ ~Held /\ call.size > 0
  \/ call.op = "remove" /\ call.pc = "mark" /\ ~Held
CutOk ==
  LET o == call.obj  c == files[o]
  IN /\ call.op \in {"trunc", "remove"} /\ CutRec /\ HoldOk
     /\ Shape(ids, ixs, o, call.size, Wanted(c, 0, 0, Unset), HeldSpan(call.work), Unset, TRUE)
     /\ \E z \in {Unset} \cup 0..Top :
          HeadIs(ids, ixs, o, z, call.op = "remove" /\ call.pc # "mark")
     /\ CutAt

CallOk ==
  IF gc.pc # "off" THEN EntryOk
  ELSE call = NoCall \/ CreateOk \/ ModifyOk \/ ReplaceOk \/ AppendOk \/ CutOk

Whole == body = [p \in Page |-> body[p]]
Sound ==
  /\ IInv /\ GcOk /\ CallOk /\ Whole
  /\ Typed(ids, ixs) /\ Unique(ids, ixs)
  /\ DOMAIN files = ObjIds /\ \A o \in ObjIds : ObjectOk(o)

\* Until a clean run fails.
SInv == aborted \in BOOLEAN /\ (aborted \/ Sound)

-----------------------------------------------------------------------------
(* The index page in RAM. *)

\* A copy is not mistaken for none.
LEMMA WorkHeld ==
  /\ \A w : WorkOk(w) => w # NoWork
  /\ \A x \in Page : InWork(x) # NoWork
<1>1. \A p \in Page : p # Unset
  BY StoreAssumption
<1>2. ASSUME NEW w, WorkOk(w) PROVE w # NoWork
  BY <1>1, <1>2 DEF WorkOk, NoWork
<1>3. ASSUME NEW x \in Page PROVE InWork(x) # NoWork
  <2>1. InWork(x).page = x
    BY DEF InWork
  <2>2. NoWork.page = Unset
    BY DEF NoWork
  <2> QED
    BY <1>1, <2>1, <2>2
<1> QED
  BY <1>2, <1>3

\* Where the flash and the copy differ.
LEMMA LatestAt ==
  ASSUME NEW b, DOMAIN b = Page, NEW w
  PROVE  /\ w = NoWork => Latest(b, w) = b
         /\ DOMAIN Latest(b, w) = Page
         /\ w # NoWork => \A p \in Page : Latest(b, w)[p] = IF p = w.page THEN w.ix ELSE b[p]
         /\ b = [p \in Page |-> b[p]] /\ w.ix = b[w.page] => Latest(b, w) = b
<1>1. CASE w = NoWork
  BY <1>1 DEF Latest
<1>2. CASE w # NoWork
  <2>1. Latest(b, w) = [b EXCEPT ![w.page] = w.ix]
    BY <1>2 DEF Latest
  <2>2. DOMAIN Latest(b, w) = Page /\ \A p \in Page : Latest(b, w)[p] = IF p = w.page THEN w.ix ELSE b[p]
    BY <2>1
  <2>3. ASSUME b = [p \in Page |-> b[p]], w.ix = b[w.page] PROVE Latest(b, w) = b
    <3>1. \A p \in Page : Latest(b, w)[p] = b[p]
      BY <2>2, <2>3
    <3>2. Latest(b, w) = [p \in Page |-> Latest(b, w)[p]]
      BY <2>1
    <3> QED
      BY <2>3, <3>1, <3>2, Zenon
  <2> QED
    BY <1>2, <2>2, <2>3
<1> QED
  BY <1>1, <1>2

\* The copy is none or a good one.
LEMMA CopyIs ==
  ASSUME GcOk, CallOk
  PROVE  Copy = NoWork \/ WorkOk(Copy)
<1>1. CASE gc.pc = "move"
  <2>1. WorkOk(gc.work)
    BY <1>1 DEF GcOk, RunOk, NoGc
  <2> QED
    BY <1>1, <2>1 DEF Copy
<1>2. CASE gc.pc = "off" /\ call.op \in Working
  <2>1. CallOk <=> call = NoCall \/ CreateOk \/ ModifyOk \/ ReplaceOk \/ AppendOk \/ CutOk
    BY <1>2 DEF CallOk
  <2>2. call # NoCall /\ ~CreateOk
    BY <1>2 DEF NoCall, CreateOk, Working
  <2>3. HoldOk
    BY <2>1, <2>2 DEF ModifyOk, ReplaceOk, AppendOk, CutOk
  <2> QED
    BY <1>2, <2>3 DEF Copy, HoldOk
<1>3. CASE gc.pc # "move" /\ ~(gc.pc = "off" /\ call.op \in Working)
  BY <1>3 DEF Copy
<1> QED
  BY <1>1, <1>2, <1>3

\* The pages on flash, from those with the copy stored.
LEMMA BodyIs ==
  ASSUME Sound
  PROVE  /\ DOMAIN body = Page /\ DOMAIN ixs = Page
         /\ \A p \in Page : (Copy = NoWork \/ p # Copy.page) => ixs[p] = body[p]
         /\ Copy # NoWork => /\ WorkOk(Copy) /\ ixs[Copy.page] = Copy.ix
         /\ \A p \in Page : ids[p] = DELETED => body[p] = Blank /\ ixs[p] = Blank
         /\ \A p \in Page, o \in ObjIds : ids[p] = Da(o) => body[p] \in DataBody /\ ixs[p] = body[p]
         /\ \A p \in Page, o \in ObjIds : ids[p] = Ix(o) =>
              /\ IndexBody(body[p]) /\ IndexBody(ixs[p])
              /\ ixs[p].span = body[p].span /\ ixs[p].size = body[p].size
              /\ ixs[p].ixdele = body[p].ixdele
<1>1. Copy = NoWork \/ WorkOk(Copy)
  BY CopyIs DEF Sound
<1>2. Typed(ids, ixs) /\ ixs = Latest(body, Copy)
  BY DEF Sound, ixs
<1>3. DOMAIN ixs = Page
  BY <1>2 DEF Typed, Flash
<1>4. DOMAIN body = Page
  <2>1. CASE Copy = NoWork
    BY <1>2, <1>3, <2>1 DEF Latest
  <2>2. CASE Copy # NoWork
    <3>1. ixs = [body EXCEPT ![Copy.page] = Copy.ix]
      BY <1>2, <2>2 DEF Latest
    <3> QED
      BY <1>3, <3>1
  <2> QED
    BY <2>1, <2>2
<1>5. /\ \A p \in Page : (Copy = NoWork \/ p # Copy.page) => ixs[p] = body[p]
      /\ Copy # NoWork => WorkOk(Copy) /\ ixs[Copy.page] = Copy.ix
  <2>1. CASE Copy = NoWork
    BY <1>2, <2>1 DEF Latest
  <2>2. CASE Copy # NoWork
    <3>1. \A p \in Page : ixs[p] = IF p = Copy.page THEN Copy.ix ELSE body[p]
      BY <1>2, <1>4, <2>2, LatestAt
    <3>2. Copy.page \in Page /\ WorkOk(Copy)
      BY <1>1, <2>2 DEF WorkOk
    <3> QED
      BY <2>2, <3>1, <3>2
  <2> QED
    BY <2>1, <2>2
<1>6. ASSUME NEW p \in Page PROVE TypedPage(ids[p], ixs[p])
  BY <1>2 DEF Typed
<1>7. Copy # NoWork =>
        /\ Copy.page \in Page /\ Copy.obj \in ObjIds /\ ids[Copy.page] = Ix(Copy.obj)
        /\ IndexBody(Copy.ix) /\ IndexBody(body[Copy.page])
        /\ Copy.ix.span = body[Copy.page].span
        /\ Copy.ix.size = body[Copy.page].size /\ Copy.ix.ixdele = body[Copy.page].ixdele
  BY <1>1 DEF WorkOk
<1>8. ASSUME NEW p \in Page, ids[p] = DELETED PROVE body[p] = Blank /\ ixs[p] = Blank
  <2>1. ixs[p] = Blank
    BY <1>6, <1>8 DEF TypedPage
  <2>2. Copy = NoWork \/ p # Copy.page
    BY <1>7, <1>8, IdsApart
  <2> QED
    BY <1>5, <2>1, <2>2
<1>9. ASSUME NEW p \in Page, NEW o \in ObjIds, ids[p] = Da(o) PROVE body[p] \in DataBody /\ ixs[p] = body[p]
  <2>1. ixs[p] \in DataBody
    BY <1>6, <1>9 DEF TypedPage
  <2>2. Copy = NoWork \/ p # Copy.page
    BY <1>7, <1>9, IdsApart DEF Ix, Da
  <2> QED
    BY <1>5, <2>1, <2>2
<1>10. ASSUME NEW p \in Page, NEW o \in ObjIds, ids[p] = Ix(o)
       PROVE  /\ IndexBody(body[p]) /\ IndexBody(ixs[p])
              /\ ixs[p].span = body[p].span /\ ixs[p].size = body[p].size
              /\ ixs[p].ixdele = body[p].ixdele
  <2>1. IndexBody(ixs[p])
    BY <1>6, <1>10 DEF TypedPage
  <2> QED
    BY <1>5, <1>7, <2>1
<1> QED
  BY <1>3, <1>4, <1>5, <1>8, <1>9, <1>10

-----------------------------------------------------------------------------
(* What a step has to keep. *)

\* A step that changes no page in use and nothing promised.
LEMMA Quiet ==
  ASSUME Sound, IInv', GcOk', CallOk', Whole', ids' = ids, ixs' = ixs, files' = files,
         \A o \in ObjIds : Busy(o) => Busy(o)'
  PROVE  Sound'
<1>1. ASSUME NEW o \in ObjIds PROVE ObjectOk(o)'
  <2>1. ObjectOk(o)
    BY DEF Sound
  <2>2. Resting(o) => Resting(o)'
    BY DEF Resting
  <2>3. Busy(o) => Busy(o)'
    OBVIOUS
  <2> QED
    BY <2>1, <2>2, <2>3 DEF ObjectOk
<1>2. Typed(ids, ixs)' /\ Unique(ids, ixs)'
  BY DEF Sound
<1>3. (DOMAIN files = ObjIds)'
  BY DEF Sound
<1> QED
  BY <1>1, <1>2, <1>3 DEF Sound

\* A step on one object: the others are not touched.
LEMMA Close ==
  ASSUME Sound, NEW o \in ObjIds, IInv', GcOk', CallOk', Whole',
         Typed(ids', ixs'), Unique(ids', ixs'), OthersKept(ids, ixs, ids', ixs', o),
         DOMAIN files' = ObjIds,
         \A q \in ObjIds : q # o => files'[q] = files[q],
         \A q \in ObjIds : q # o => ~Busy(q),
         ObjectOk(o)'
  PROVE  Sound'
<1>1. ASSUME NEW q \in ObjIds, q # o PROVE ObjectOk(q)'
  <2>1. ObjectOk(q) /\ ~Busy(q) /\ files'[q] = files[q]
    BY <1>1 DEF Sound
  <2>2. Untouched(ids, ixs, ids', ixs', q)
    BY <1>1, Zenon DEF OthersKept
  <2>3. NoPages(ids, q) => NoPages(ids', q)
    BY <2>2, UntouchedView, Zenon
  <2>4. Resting(q) => Resting(q)'
    <3> SUFFICES ASSUME Resting(q) PROVE Resting(q)'
      OBVIOUS
    <3>1. SameView(ids, ixs, ids', ixs', q)
      BY <2>2, UntouchedView, Zenon
    <3>2. HeadIs(ids', ixs', q, SizeField(files[q]), FALSE)
      BY <2>2, UntouchedView, Zenon DEF Resting
    <3>3. Shape(ids, ixs, q, Len(files[q]), Wanted(files[q], 0, 0, Unset), -1, Unset, FALSE)
      BY DEF Resting
    <3>4. Shape(ids', ixs', q, Len(files[q]), Wanted(files[q], 0, 0, Unset), -1, Unset, FALSE)
      <4>1. \A n, w : Shape(ids, ixs, q, n, w, -1, Unset, FALSE)
                       => Shape(ids', ixs', q, n, w, -1, Unset, FALSE)
        BY <3>1, ShapeKept, Zenon
      <4> QED
        BY <3>3, <4>1, Zenon
    <3>5. Wanted(files[q], 0, 0, Unset)' = Wanted(files'[q], 0, 0, Unset)
      BY Zenon DEF Wanted
    <3> QED
      BY <2>1, <3>2, <3>4 DEF Resting, Wanted, SizeField
  <2> QED
    BY <2>1, <2>3, <2>4 DEF ObjectOk, ContentOk
<1>2. Typed(ids, ixs)' /\ Unique(ids, ixs)'
  OBVIOUS
<1>3. ObjectOk(o)'
  OBVIOUS
<1>4. \A q \in ObjIds : ObjectOk(q)'
  BY <1>1, <1>3
<1> QED
  BY <1>2, <1>4 DEF Sound

-----------------------------------------------------------------------------
(* Steps while the collector runs. *)

\* A clean run is given up while it holds an index page in RAM.
GivenUpHalfway == gc.pc = "move" /\ gc'.pc = "done"

\* What a step is shown to do.
Fine == [Next]_vars /\ ((GivenUpHalfway /\ aborted') \/ Sound')

\* The pages are accounted for, and only a failed clean run counts as aborted.
LEMMA PagesStep ==
  ASSUME QuickIsFull, Sound
  PROVE  /\ [Next]_vars => IInv'
         /\ \A id \in LuIds : Allocate(id) => Next /\ fs'.cleaning = fs.cleaning /\ aborted' = aborted
         /\ \A p \in Used(fs) : Move(p) => Next /\ fs'.cleaning = fs.cleaning /\ aborted' = aborted
         /\ \A p \in Used(fs) : Delete(p) => Next /\ fs'.cleaning = fs.cleaning /\ aborted' = aborted
         /\ Refuse => Next /\ fs'.cleaning = fs.cleaning /\ aborted' = aborted
         /\ UNCHANGED <<fs, aborted>> => [Next]_vars /\ fs'.cleaning = fs.cleaning
<1>1. IInv /\ SoundState(fs) /\ fs \in FsState /\ SoundState(Gate(fs)) /\ Gate(fs).cleaning = fs.cleaning
      /\ Gate(fs) \in FsState
  BY GateSound DEF Sound, IInv, SoundState
<1>2. [Next]_vars => IInv'
  BY <1>1, NextSound
<1>3. ASSUME NEW id \in LuIds, Allocate(id) PROVE Next /\ fs'.cleaning = fs.cleaning /\ aborted' = aborted
  <2>1. PICK q \in FirstFree(Gate(fs)) : fs' = Occupy(Gate(fs), q, id)
    BY <1>3 DEF Allocate
  <2>2. fs'.cleaning = fs.cleaning
    BY <1>1, <2>1, OccupySound
  <2> QED
    BY <1>3, <2>2 DEF Next, Allocate
<1>4. ASSUME NEW p \in Used(fs), Move(p) PROVE Next /\ fs'.cleaning = fs.cleaning /\ aborted' = aborted
  <2>1. fs'.cleaning = fs.cleaning
    BY <1>1, <1>4, MoveLive
  <2> QED
    BY <1>4, <2>1 DEF Next, Move
<1>5. ASSUME NEW p \in Used(fs), Delete(p) PROVE Next /\ fs'.cleaning = fs.cleaning /\ aborted' = aborted
  <2>1. fs'.cleaning = fs.cleaning
    BY <1>1, <1>5 DEF Delete, Discard, FsState
  <2> QED
    BY <1>5, <2>1 DEF Next, Delete
<1>6. ASSUME Refuse PROVE Next /\ fs'.cleaning = fs.cleaning /\ aborted' = aborted
  BY <1>1, <1>6 DEF Refuse, Next
<1>7. ASSUME UNCHANGED <<fs, aborted>> PROVE [Next]_vars /\ fs'.cleaning = fs.cleaning
  BY <1>7 DEF vars
<1> QED
  BY <1>2, <1>3, <1>4, <1>5, <1>6, <1>7

\* The call waits.
LEMMA EntryKept ==
  ASSUME EntryOk, UNCHANGED <<call, files>>
  PROVE  EntryOk'
<1>1. ContentOk(files[call.obj])' <=> ContentOk(files[call.obj])
  BY DEF ContentOk
<1>2. WriteRec' <=> WriteRec
  BY <1>1 DEF WriteRec
<1>3. CutRec' <=> CutRec
  BY <1>1 DEF CutRec
<1>4. EntryWrite' <=> EntryWrite
  BY <1>2 DEF EntryWrite, Modifies, Appends
<1>5. EntryCut' <=> EntryCut
  BY <1>3 DEF EntryCut
<1>6. CreateOk' <=> CreateOk
  BY DEF CreateOk
<1> QED
  BY <1>4, <1>5, <1>6 DEF EntryOk

\* The copy of the collector.
LEMMA GcCopy ==
  /\ gc.pc \notin {"move", "off"} => Copy = NoWork /\ ixs = body
  /\ gc.pc = "move" => Copy = gc.work
  /\ gc.pc # "off" => \A o : ~Busy(o)
<1>1. gc.pc \notin {"move", "off"} => Copy = NoWork
  BY DEF Copy
<1> QED
  BY <1>1 DEF Copy, ixs, Latest, Busy

\* A step of the collector that moves nothing.
LEMMA GcQuiet ==
  ASSUME Sound, IInv', gc.pc # "off", gc'.pc # "off", ids' = ids, ixs' = ixs,
         UNCHANGED <<body, call, files>>, GcOk'
  PROVE  Sound'
<1>1. CallOk'
  BY EntryKept DEF Sound, CallOk
<1>2. \A o \in ObjIds : ~Busy(o)
  BY GcCopy
<1>3. Whole'
  BY DEF Sound, Whole
<1> QED
  BY <1>1, <1>2, <1>3, Quiet

\* Nothing begun or nothing found.
LEMMA GcChecks ==
  ASSUME QuickIsFull, Sound, Still, GcEnough \/ GcRefuse \/ GcBegin \/ GcNoCandidate
  PROVE  Fine
<1>1. /\ gc.pc \in {"check", "pick"} /\ gc'.pc \in {"pick", "done"}
      /\ UNCHANGED <<fs, aborted, body, call, files>>
  BY DEF GcEnough, GcRefuse, GcBegin, GcNoCandidate, GcReturn, Still
<1>2. [Next]_vars /\ IInv'
  BY <1>1, PagesStep
<1>3. ids' = ids /\ ixs' = ixs
  <2>1. (ixs = body)'
    <3>1. Copy' = NoWork
      BY <1>1 DEF Copy
    <3> QED
      BY <3>1 DEF ixs, Latest
  <2> QED
    BY <1>1, <2>1, GcCopy DEF ids
<1>4. GcOk'
  <2>1. RunOk'
    <3>1. \/ gc' = [pc |-> "done", ok |-> TRUE] \/ gc' = [pc |-> "done", ok |-> FALSE]
          \/ gc' = [pc |-> "pick", len |-> gc.len, tries |-> 0]
          \/ gc' = [pc |-> "done", ok |-> (NeededPages(gc.len) < GcBudget(fs))]
      BY DEF GcEnough, GcRefuse, GcBegin, GcNoCandidate, GcReturn
    <3>2. \A b \in BOOLEAN : gc' = [pc |-> "done", ok |-> b] => RunOk'
      BY DEF RunOk
    <3>3. \A t : gc' = [pc |-> "pick", len |-> gc.len, tries |-> t] => RunOk'
      BY DEF RunOk
    <3>4. (NeededPages(gc.len) < GcBudget(fs)) \in BOOLEAN
      OBVIOUS
    <3> QED
      BY <3>1, <3>2, <3>3, <3>4, Zenon
  <2> QED
    BY <1>1, <2>1 DEF GcOk, Sound
<1> QED
  BY <1>1, <1>2, <1>3, <1>4, GcQuiet DEF Fine

\* A run given up with no index page in RAM leaves the pages as they are.
LEMMA GcGivesUp ==
  ASSUME QuickIsFull, Sound, gc.pc = "find", GcFail, UNCHANGED <<call, files>>
  PROVE  Fine
<1>1. /\ CleanAbort /\ gc' = [pc |-> "done", ok |-> FALSE] /\ body' = body
  BY DEF GcFail, GcReturn
<1>2. [Next]_vars /\ IInv' /\ ids' = ids /\ fs \in FsState
  BY <1>1, PagesStep, OtherLive DEF Next, Sound, IInv, SoundState
<1>3. fs'.cleaning = NoBlock
  BY <1>1, <1>2 DEF CleanAbort, FsState
<1>4. ixs' = ixs
  <2>1. (ixs = body)'
    <3>1. Copy' = NoWork
      BY <1>1 DEF Copy
    <3> QED
      BY <3>1 DEF ixs, Latest
  <2> QED
    BY <1>1, <2>1, GcCopy
<1>5. GcOk'
  <2>1. RunOk'
    BY <1>1 DEF RunOk
  <2> QED
    BY <1>1, <1>3, <2>1 DEF GcOk
<1> QED
  BY <1>1, <1>2, <1>4, <1>5, GcQuiet DEF Fine

\* A candidate is picked.
LEMMA GcPicks ==
  ASSUME QuickIsFull, Sound, Still, NEW b \in Block, GcPick(b)
  PROVE  Fine
<1>1. /\ gc.pc = "pick" /\ gc'.pc = "find" /\ CleanStart(b)
      /\ gc' = [pc |-> "find", len |-> gc.len, tries |-> gc.tries, prev |-> GcBudget(fs), entry |-> 0]
      /\ UNCHANGED <<body, call, files>>
  BY DEF GcPick, Still
<1>2. [Next]_vars /\ IInv' /\ fs \in FsState /\ ids' = ids
  BY <1>1, PagesStep, OtherLive DEF Next, Sound, IInv, SoundState
<1>3. fs'.cleaning = b
  BY <1>1, <1>2 DEF CleanStart, CleanEntry, FsState
<1>4. ixs' = ixs
  <2>1. (ixs = body)'
    <3>1. Copy' = NoWork
      BY <1>1 DEF Copy
    <3> QED
      BY <3>1 DEF ixs, Latest
  <2> QED
    BY <1>1, <2>1, GcCopy
<1>5. GcOk'
  <2>1. RunOk'
    BY <1>1 DEF RunOk
  <2>2. Passed'
    <3>1. gc'.entry = 0
      BY <1>1
    <3>2. \A p \in PagesOf(b) : p[2] \in Nat
      BY GeometryAssumption DEF PagesOf, Entry
    <3>3. \A p \in PagesOf(b) : ~(p[2] < 0)
      BY <3>2
    <3> QED
      BY <1>3, <3>1, <3>3 DEF Passed
  <2>3. b # NoBlock
    BY MarkerAssumption DEF Block
  <2> QED
    BY <1>1, <1>3, <2>1, <2>2, <2>3 DEF GcOk
<1> QED
  BY <1>1, <1>2, <1>4, <1>5, GcQuiet DEF Fine

\* The pages of the block that is emptied.
LEMMA CleanedBlock ==
  ASSUME Sound, gc.pc \in {"find", "move"}
  PROVE  /\ fs.cleaning \in Block /\ fs.cleaning # NoBlock /\ Passed /\ gc.entry \in Nat
         /\ PagesOf(fs.cleaning) \in SUBSET Page
         /\ \A p \in PagesOf(fs.cleaning) : p[1] = fs.cleaning /\ p[2] \in Nat /\ p = <<p[1], p[2]>>
         /\ \A p, q \in PagesOf(fs.cleaning) : p[2] = q[2] => p = q
         /\ \A p, q \in PagesOf(fs.cleaning) : p[2] < q[2] /\ fs.obj_lu[p] = FREE => fs.obj_lu[q] = FREE
<1>1. fs.cleaning # NoBlock /\ Passed /\ gc.entry \in Nat
  BY DEF Sound, GcOk, Passed
<1>2. fs.cleaning \in Block
  BY <1>1 DEF Sound, IInv, SoundState, FsState
<1>3. PagesOf(fs.cleaning) \in SUBSET Page
  BY <1>2 DEF PagesOf, Page
<1>4. \A p \in PagesOf(fs.cleaning) : p[1] = fs.cleaning /\ p[2] \in Entry /\ p = <<p[1], p[2]>>
  BY DEF PagesOf
<1>5. \A d, e \in Entry :
         d < e /\ fs.obj_lu[<<fs.cleaning, d>>] = FREE => fs.obj_lu[<<fs.cleaning, e>>] = FREE
  BY <1>2 DEF Sound, IInv, SoundState, FreeSuffixOf
<1>6. \A e \in Entry : e \in Nat
  BY GeometryAssumption DEF Entry
<1>7. \A p, q \in PagesOf(fs.cleaning) : p[2] = q[2] => p = q
  BY <1>4
<1>8. ASSUME NEW p \in PagesOf(fs.cleaning), NEW q \in PagesOf(fs.cleaning),
             p[2] < q[2], fs.obj_lu[p] = FREE
      PROVE  fs.obj_lu[q] = FREE
  <2>1. p = <<fs.cleaning, p[2]>> /\ q = <<fs.cleaning, q[2]>> /\ p[2] \in Entry /\ q[2] \in Entry
    BY <1>4
  <2> QED
    BY <1>5, <1>8, <2>1
<1> QED
  BY <1>1, <1>2, <1>3, <1>4, <1>6, <1>7, <1>8

\* The next data page, and the index page that refers to it.
LEMMA GcFinds ==
  ASSUME QuickIsFull, Sound, Still, GcFindData
  PROVE  Fine
<1>1. PICK p \in First(DataLeft) :
         LET found == IndexPages(fs.obj_lu[p][1], IxSpan(body[p].span))
         IN \/ found = {} /\ GcFail
            \/ /\ \E x \in found :
                    gc' = [pc |-> "move", len |-> gc.len, tries |-> gc.tries,
                           prev |-> gc.prev, entry |-> p[2] + 1, work |-> InWork(x)]
               /\ UNCHANGED <<fs, aborted, body>>
  BY DEF GcFindData
<1>2. gc.pc = "find" /\ UNCHANGED <<call, files>>
  BY DEF GcFindData, Still
<1>3. CASE GcFail
  BY <1>2, <1>3, GcGivesUp
<1>4. CASE ~GcFail
  <2> DEFINE o == fs.obj_lu[p][1]  j == IxSpan(body[p].span)
  <2>1. UNCHANGED <<fs, aborted, body>>
    BY <1>1, <1>4
  <2>2. PICK x \in IndexPages(o, j) :
           gc' = [pc |-> "move", len |-> gc.len, tries |-> gc.tries,
                  prev |-> gc.prev, entry |-> p[2] + 1, work |-> InWork(x)]
    BY <1>1, <1>4
  <2>3. [Next]_vars /\ IInv' /\ ids' = ids
    BY <2>1, PagesStep DEF ids
  <2>4. /\ p \in PagesOf(fs.cleaning) /\ IsData(p) /\ p[2] >= gc.entry
        /\ \A q \in PagesOf(fs.cleaning) : IsData(q) /\ q[2] >= gc.entry => p[2] <= q[2]
    BY DEF First, DataLeft
  <2>5. /\ PagesOf(fs.cleaning) \in SUBSET Page /\ p[2] \in Nat
        /\ fs.cleaning # NoBlock /\ Passed
    BY <1>2, <2>4, CleanedBlock
  <2>6. PICK q \in ObjIds : ids[p] = Da(q)
    BY <2>4, <2>5, LiveKinds
  <2>7. fs.obj_lu[p] = Da(q) /\ o = q
    BY <2>4, <2>5, <2>6, LiveKinds DEF Da
  <2>8. x \in Page /\ ids[x] = Ix(q) /\ body[x].span = j /\ fs.obj_lu[x] = Ix(q)
    <3>1. x \in Page /\ fs.obj_lu[x] = Ix(o) /\ body[x].span = j
      BY <2>2 DEF IndexPages, Ix
    <3> QED
      BY <2>7, <3>1, LiveAt DEF ids
  <2>9. Copy = NoWork /\ ixs = body
    BY <1>2, GcCopy
  <2>10. IndexBody(body[x])
    BY <2>8, BodyIs
  <2> DEFINE w == InWork(x)
  <2>11. /\ w = [page |-> w.page, obj |-> w.obj, ix |-> w.ix]
         /\ w.page = x /\ w.obj = q /\ w.ix = body[x]
    BY <2>8 DEF InWork, Ix
  <2>12. gc'.work = w /\ gc'.pc = "move" /\ gc'.entry = p[2] + 1
    BY <2>2
  <2> HIDE DEF w
  <2>14. WorkOk(gc.work)'
    BY <2>1, <2>3, <2>8, <2>10, <2>11, <2>12 DEF WorkOk
  <2>15. ixs' = ixs
    <3>1. Copy' = w
      BY <2>12 DEF Copy
    <3>2. ixs' = Latest(body, w)
      BY <2>1, <3>1 DEF ixs, Latest
    <3>3. DOMAIN body = Page /\ body = [i \in Page |-> body[i]]
      BY BodyIs DEF Sound, Whole
    <3> QED
      BY <2>9, <2>11, <3>2, <3>3, LatestAt
  <2>16. GcOk'
    <3>1. RunOk'
      BY <2>2, <2>14 DEF RunOk
    <3>2. Passed'
      <4>1. ASSUME NEW i \in PagesOf(fs.cleaning), i[2] < p[2] + 1
            PROVE  fs.obj_lu[i] # FREE /\ (IsData(i) => i = p)
        <5>1. i[2] \in Nat /\ gc.entry \in Nat
          BY <1>2, <4>1, CleanedBlock
        <5>2. CASE i[2] < gc.entry
          BY <1>2, <5>2, <2>5 DEF Passed
        <5>3. CASE i[2] >= gc.entry
          <6>1. IsData(i) => p[2] <= i[2]
            BY <2>4, <5>3
          <6>2. IsData(i) => p[2] = i[2]
            BY <2>5, <4>1, <5>1, <6>1
          <6>3. IsData(i) => i = p
            BY <1>2, <2>4, <6>2, CleanedBlock
          <6>4. fs.obj_lu[p] # FREE
            BY <2>7, IdsApart, MarkerAssumption
          <6>5. i[2] < p[2] \/ i[2] = p[2]
            BY <2>5, <4>1, <5>1
          <6>6. fs.obj_lu[i] # FREE
            BY <1>2, <2>4, <6>4, <6>5, CleanedBlock
          <6> QED
            BY <6>3, <6>6
        <5> QED
          BY <5>1, <5>2, <5>3
      <4>2. p \in DataHere'
        BY <2>1, <2>4, <2>7, <2>8, <2>11, <2>12 DEF DataHere, Da
      <4>3. \A i : IsData(i)' <=> IsData(i)
        BY <2>1 DEF IsData, Used
      <4>4. gc'.entry \in Nat
        BY <2>5, <2>12
      <4> QED
        BY <2>1, <2>12, <4>1, <4>2, <4>3, <4>4 DEF Passed
    <3> QED
      BY <2>1, <2>5, <2>12, <3>1, <3>2 DEF GcOk
  <2> QED
    BY <1>2, <2>1, <2>3, <2>12, <2>15, <2>16, GcQuiet DEF Fine
<1> QED
  BY <1>3, <1>4

\* An empty block is erased.
LEMMA GcErases ==
  ASSUME QuickIsFull, Sound, Still, GcErase
  PROVE  Fine
<1>1. /\ gc.pc = "find" /\ DataLeft = {} /\ IndexLeft = {} /\ aborted' = aborted
      /\ fs' = EraseCleaned(fs, fs.cleaning)
      /\ body' = [p \in Page |-> IF p[1] = fs.cleaning THEN Blank ELSE body[p]]
      /\ UNCHANGED <<call, files>>
  BY DEF GcErase, Still
<1>2. fs.cleaning \in Block /\ fs.cleaning # NoBlock /\ Passed /\ PagesOf(fs.cleaning) \in SUBSET Page
  BY <1>1, CleanedBlock
<1>3. ASSUME NEW p \in PagesOf(fs.cleaning) PROVE p \in Page /\ p \notin Used(fs)
  <2>1. p \in Page /\ p[2] \in Nat /\ gc.entry \in Nat
    BY <1>1, <1>2, CleanedBlock
  <2>2. ~IsData(p)
    <3>1. p[2] < gc.entry => ~IsData(p)
      BY <1>1, <1>2 DEF Passed
    <3>2. p[2] >= gc.entry => ~IsData(p)
      BY <1>1 DEF DataLeft
    <3> QED
      BY <2>1, <3>1, <3>2
  <2>3. ~IsIndex(p)
    BY <1>1 DEF IndexLeft
  <2>4. ASSUME p \in Used(fs) PROVE FALSE
    <3>1. fs.obj_lu[p] \in LuIds
      BY <2>4 DEF Used
    <3>2. fs.obj_lu[p][2] = "data" \/ fs.obj_lu[p][2] = "index"
      BY <3>1, StoreAssumption
    <3> QED
      BY <2>2, <2>3, <2>4, <3>2 DEF IsData, IsIndex
  <2> QED
    BY <2>1, <2>4
<1>4. CleanFinish
  BY <1>1, <1>2, <1>3 DEF CleanFinish
<1>5. [Next]_vars /\ IInv' /\ ids' = ids
  BY <1>4, PagesStep, OtherLive DEF Next, Sound
<1>6. fs'.cleaning = NoBlock
  BY <1>1, <1>2 DEF EraseCleaned, EraseBlock, Sound, IInv, SoundState, FsState
<1>7. body' = body
  <2>1. ASSUME NEW p \in Page PROVE body'[p] = body[p]
    <3>1. CASE p[1] = fs.cleaning
      <4>1. p \in PagesOf(fs.cleaning)
        BY <3>1 DEF Page, PagesOf
      <4>2. p \notin Used(fs)
        BY <1>3, <4>1
      <4>3. body[p] = Blank
        BY <4>2, LiveKinds, BodyIs
      <4> QED
        BY <1>1, <3>1, <4>3
    <3>2. CASE p[1] # fs.cleaning
      BY <1>1, <3>2
    <3> QED
      BY <3>1, <3>2
  <2>2. body = [p \in Page |-> body[p]]
    BY DEF Sound, Whole
  <2>3. body' = [p \in Page |-> body'[p]]
    BY <1>1
  <2>4. [p \in Page |-> body'[p]] = [p \in Page |-> body[p]]
    BY <2>1
  <2> QED
    BY <2>2, <2>3, <2>4, Zenon
<1>8. \/ gc' = [pc |-> "pick", len |-> gc.len, tries |-> gc.tries + 1]
      \/ gc' = [pc |-> "done", ok |-> ~Short(fs')]
  BY DEF GcErase, NextRun, GcReturn
<1>9. ixs' = ixs
  <2>1. (ixs = body)'
    <3>1. Copy' = NoWork
      BY <1>8 DEF Copy
    <3> QED
      BY <3>1 DEF ixs, Latest
  <2> QED
    BY <1>1, <1>7, <2>1, GcCopy
<1>10. GcOk'
  <2>1. RunOk'
    <3>1. (~Short(fs')) \in BOOLEAN
      BY DEF Short
    <3>2. \A b \in BOOLEAN : gc' = [pc |-> "done", ok |-> b] => RunOk'
      BY DEF RunOk
    <3>3. \A t : gc' = [pc |-> "pick", len |-> gc.len, tries |-> t] => RunOk'
      BY DEF RunOk
    <3> QED
      BY <1>8, <3>1, <3>2, <3>3, Zenon
  <2>2. gc'.pc \in {"pick", "done"}
    BY <1>8
  <2> QED
    BY <1>6, <2>1, <2>2 DEF GcOk
<1> QED
  BY <1>1, <1>5, <1>7, <1>8, <1>9, <1>10, GcQuiet DEF Fine

-----------------------------------------------------------------------------
(* Pages that are moved. *)

\* The flash after a step.
LEMMA FlashNext ==
  ASSUME DOMAIN body' = Page, Copy' = NoWork \/ Copy'.page \in Page
  PROVE  Flash(ids', ixs') /\ DOMAIN ixs' = Page
<1>1. DOMAIN Latest(body', Copy') = Page
  BY LatestAt
<1>2. ixs' = Latest(body', Copy')
  BY DEF ixs, Latest
<1>3. ids' \in [Page -> LuIds \cup {DELETED}]
  <2>1. \A p \in Page : (IF fs'.obj_lu[p] \in LuIds THEN fs'.obj_lu[p] ELSE DELETED) \in LuIds \cup {DELETED}
    OBVIOUS
  <2> QED
    BY <2>1 DEF ids, Live
<1> QED
  BY <1>1, <1>2, <1>3 DEF Flash

\* A page that carries an id is in use.
LEMMA InUse ==
  ASSUME NEW p \in Page, NEW o \in ObjIds, ids[p] = Ix(o) \/ ids[p] = Da(o)
  PROVE  p \in Used(fs) /\ fs.obj_lu[p] = ids[p]
<1>1. ids[p] # DELETED
  BY IdsApart
<1>2. p \in Used(fs)
  BY <1>1, LiveKinds
<1>3. fs.obj_lu[p] = ids[p]
  BY <1>1, LiveAt DEF ids
<1> QED
  BY <1>2, <1>3

\* What moving a page does to the flash, the pages' owners and the accounting.
MovedView(p, c) ==
  /\ Next /\ IInv' /\ aborted' = aborted /\ fs'.cleaning = fs.cleaning /\ Whole'
  /\ Moving(p, Taken) /\ DOMAIN body' = Page
  /\ body'[Taken] = c /\ body'[p] = Blank
  /\ \A q \in Page : q # p /\ q # Taken => body'[q] = body[q]

\* What a move of a live page does to the ids and the contents.
LEMMA Moves ==
  ASSUME QuickIsFull, Sound, NEW p \in Used(fs), NEW c, MovePage(p, c)
  PROVE  MovedView(p, c)
<1>1. Move(p) /\ body' = [body EXCEPT ![Taken] = c, ![p] = Blank]
  BY DEF MovePage
<1>2. Next /\ IInv' /\ aborted' = aborted /\ fs'.cleaning = fs.cleaning
  BY <1>1, PagesStep
<1>3. Moving(p, Taken)
  BY <1>1, MoveLive DEF Sound
<1>4. Taken \in Page /\ Taken # p /\ p \in Page /\ DOMAIN body = Page
  BY <1>3, BodyIs DEF Moving, Used
<1> DEFINE t == Taken
<1> HIDE DEF t
<1>5. body' = [body EXCEPT ![t] = c, ![p] = Blank]
  BY <1>1 DEF t
<1>6. Whole'
  <2>1. body' = [q \in Page |-> body'[q]]
    BY <1>4, <1>5
  <2> QED
    BY <2>1 DEF Whole
<1>7. DOMAIN body' = Page /\ body'[t] = c /\ body'[p] = Blank
      /\ \A q \in Page : q # p /\ q # t => body'[q] = body[q]
  BY <1>4, <1>5 DEF t
<1> QED
  BY <1>2, <1>3, <1>6, <1>7 DEF MovedView, t

\* An index page is moved, and what is in RAM of it is stored.
LEMMA MovedIndex ==
  ASSUME QuickIsFull, Sound, NEW o \in ObjIds, NEW x \in Page, ids[x] = Ix(o), NEW c,
         MovePage(x, c), Copy = NoWork \/ Copy.page = x, Copy' = NoWork
  PROVE  /\ MovedView(x, c) /\ Taken \in Page /\ Flash(ids', ixs')
         /\ Relocated(ids, ixs, ids', ixs', o, x, Taken, c)
<1>1. x \in Used(fs)
  BY InUse
<1>2. MovedView(x, c)
  BY <1>1, Moves
<1>3. ixs' = body'
  BY DEF ixs, Latest
<1>4. \A q \in Page : q # x => ixs[q] = body[q]
  BY BodyIs
<1> DEFINE t == Taken
<1>5. Flash(ids', ixs')
  BY <1>2, FlashNext DEF MovedView
<1>6. t \in Page /\ ids[t] = DELETED /\ t # x
      /\ \A q \in Page : ids'[q] = IF q = x THEN DELETED ELSE IF q = t THEN ids[x] ELSE ids[q]
  BY <1>2 DEF MovedView, Moving
<1>7. body'[t] = c /\ body'[x] = Blank /\ \A q \in Page : q # x /\ q # t => body'[q] = body[q]
  BY <1>2 DEF MovedView
<1> HIDE DEF t
<1>8. Elsewhere(ids, ixs, ids', ixs', {x, t})
  BY <1>3, <1>4, <1>6, <1>7 DEF Elsewhere
<1>9. Relocated(ids, ixs, ids', ixs', o, x, t, c)
  BY <1>3, <1>6, <1>7, <1>8 DEF Relocated
<1> QED
  BY <1>2, <1>5, <1>6, <1>9 DEF t

\* An index page that is moved as it is.
LEMMA Copied ==
  ASSUME NEW l, NEW e, NEW m, NEW f, NEW o \in ObjIds, NEW x \in Page, NEW t \in Page,
         Typed(l, e), Unique(l, e), Flash(m, f), Relocated(l, e, m, f, o, x, t, e[x])
  PROVE  /\ Typed(m, f) /\ Unique(m, f) /\ OthersKept(l, e, m, f, o)
         /\ SameView(l, e, m, f, o)
         /\ \A z, d : HeadIs(l, e, o, z, d) => HeadIs(m, f, o, z, d)
<1>1. l[x] = Ix(o)
  BY DEF Relocated
<1>2. IndexBody(e[x])
  BY <1>1 DEF Typed, TypedPage
<1> DEFINE c == e[x]
<1>3. IndexBody(c) /\ c.span = e[x].span /\ c.refs = e[x].refs /\ Relocated(l, e, m, f, o, x, t, c)
  BY <1>2
<1> HIDE DEF c
<1>4. /\ Typed(m, f) /\ Unique(m, f) /\ OthersKept(l, e, m, f, o)
      /\ SameView(l, e, m, f, o)
      /\ c.span # 0 => \A z, d : HeadIs(l, e, o, z, d) => HeadIs(m, f, o, z, d)
      /\ c.span = 0 => HeadIs(m, f, o, c.size, c.ixdele)
  BY <1>3, Relocation
<1>5. ASSUME c.span = 0, NEW z, NEW d, HeadIs(l, e, o, z, d) PROVE HeadIs(m, f, o, z, d)
  <2>1. PICK p \in Page : l[p] = Ix(o) /\ e[p].span = 0 /\ e[p].size = z /\ e[p].ixdele = d
    BY <1>5 DEF HeadIs
  <2>2. p = x
    BY <1>1, <1>3, <1>5, <2>1 DEF Unique
  <2>3. z = c.size /\ d = c.ixdele
    BY <2>1, <2>2 DEF c
  <2> QED
    BY <1>4, <1>5, <2>3
<1> QED
  BY <1>4, <1>5

\* A step of the collector that keeps every object as it is.
LEMMA GcKeeps ==
  ASSUME Sound, gc.pc # "off", gc'.pc # "off", NEW o \in ObjIds, ~NoPages(ids, o),
         IInv', GcOk', Whole', UNCHANGED <<call, files>>,
         Typed(ids', ixs'), Unique(ids', ixs'), OthersKept(ids, ixs, ids', ixs', o),
         \A n \in Nat : \A w : Shape(ids, ixs, o, n, w, -1, Unset, FALSE)
                                 => Shape(ids', ixs', o, n, w, -1, Unset, FALSE),
         \A z, d : HeadIs(ids, ixs, o, z, d) => HeadIs(ids', ixs', o, z, d)
  PROVE  Sound'
<1>1. CallOk'
  BY EntryKept DEF Sound, CallOk
<1>2. \A q \in ObjIds : ~Busy(q)
  BY GcCopy
<1>3. DOMAIN files' = ObjIds
  BY DEF Sound
<1>4. ObjectOk(o)'
  <2>1. ObjectOk(o)
    BY DEF Sound
  <2>2. ASSUME Resting(o), ContentOk(files[o]) PROVE Resting(o)'
    <3> DEFINE W == Wanted(files[o], 0, 0, Unset)  n == Len(files[o])  z == SizeField(files[o])
    <3>1. Shape(ids, ixs, o, n, W, -1, Unset, FALSE) /\ HeadIs(ids, ixs, o, z, FALSE)
      BY <2>2 DEF Resting
    <3>3. n \in Nat
      BY <2>2 DEF ContentOk
    <3> HIDE DEF W, n, z
    <3>2. Shape(ids', ixs', o, n, W, -1, Unset, FALSE) /\ HeadIs(ids', ixs', o, z, FALSE)
      BY <3>1, <3>3, Zenon
    <3> QED
      BY <3>2 DEF Resting, W, n, z, Wanted, SizeField
  <2> QED
    BY <1>2, <2>1, <2>2 DEF ObjectOk, ContentOk
<1> QED
  BY <1>1, <1>2, <1>3, <1>4, Close

\* The same when the object's view is the same.
LEMMA GcKeepsView ==
  ASSUME Sound, gc.pc # "off", gc'.pc # "off", NEW o \in ObjIds, ~NoPages(ids, o),
         IInv', GcOk', Whole', UNCHANGED <<call, files>>,
         Typed(ids', ixs'), Unique(ids', ixs'), OthersKept(ids, ixs, ids', ixs', o),
         SameView(ids, ixs, ids', ixs', o),
         \A z, d : HeadIs(ids, ixs, o, z, d) => HeadIs(ids', ixs', o, z, d)
  PROVE  Sound'
<1>1. \A n \in Nat : \A w : Shape(ids, ixs, o, n, w, -1, Unset, FALSE)
                                => Shape(ids', ixs', o, n, w, -1, Unset, FALSE)
  BY ShapeKept, Zenon
<1> QED
  BY <1>1, GcKeeps

\* A move within a run: the entries passed stay passed.
LEMMA PassedOn ==
  ASSUME QuickIsFull, Sound, gc.pc \in {"find", "move"}, NEW p \in Used(fs), NEW c, MovePage(p, c),
         gc'.entry = gc.entry,
         \A q \in PagesOf(fs.cleaning) :
            q # p /\ q # Taken /\ q[2] < gc.entry /\ IsData(q) => gc'.pc = "move" /\ q \in DataHere'
  PROVE  Passed' /\ fs'.cleaning = fs.cleaning /\ fs'.cleaning # NoBlock
<1>1. /\ fs.cleaning # NoBlock /\ Passed /\ gc.entry \in Nat
      /\ PagesOf(fs.cleaning) \in SUBSET Page
      /\ \A q \in PagesOf(fs.cleaning) : q[2] \in Nat
  BY CleanedBlock
<1>2. MovedView(p, c) /\ Move(p)
  BY Moves DEF MovePage
<1>3. /\ fs.obj_lu[Taken] = FREE
      /\ \A q \in Page : fs'.obj_lu[q] = IF q = p THEN DELETED
                                         ELSE IF q = Taken THEN fs.obj_lu[p] ELSE fs.obj_lu[q]
  BY <1>1, <1>2, MoveLive DEF Sound
<1>4. fs'.cleaning = fs.cleaning
  BY <1>2 DEF MovedView
<1> DEFINE t == Taken
<1> HIDE DEF t
<1>5. ASSUME NEW q \in PagesOf(fs.cleaning), q[2] < gc.entry
      PROVE  fs'.obj_lu[q] # FREE /\ (IsData(q)' => gc'.pc = "move" /\ q \in DataHere')
  <2>1. fs.obj_lu[q] # FREE /\ q \in Page
    BY <1>1, <1>5 DEF Passed
  <2>2. q # t
    BY <1>3, <2>1 DEF t
  <2>3. CASE q = p
    <3>1. fs'.obj_lu[q] = DELETED
      BY <1>3, <2>1, <2>3
    <3> QED
      BY <3>1, MarkerAssumption DEF IsData, Used
  <2>4. CASE q # p
    <3>1. fs'.obj_lu[q] = fs.obj_lu[q]
      BY <1>3, <2>1, <2>2, <2>4 DEF t
    <3>2. IsData(q)' => IsData(q)
      BY <3>1 DEF IsData, Used
    <3> QED
      BY <1>5, <2>1, <2>2, <2>4, <3>1, <3>2 DEF t
  <2> QED
    BY <2>3, <2>4
<1> QED
  BY <1>1, <1>4, <1>5 DEF Passed

\* No data page is left that the copy refers to: it is stored.
LEMMA GcStores ==
  ASSUME QuickIsFull, Sound, Still, GcStoreIndex
  PROVE  Fine
<1>1. gc.pc = "move" /\ DataHere = {} /\ UNCHANGED <<call, files>>
  BY DEF GcStoreIndex, Still
<1>2. CASE GcFail
  BY <1>1, <1>2 DEF GcFail, GcReturn, CleanAbort, GivenUpHalfway, Fine, Next
<1>3. CASE ~GcFail
  <2> DEFINE w == gc.work  x == w.page
  <2>1. /\ MovePage(w.page, w.ix)
        /\ gc' = [pc |-> "find", len |-> gc.len, tries |-> gc.tries, prev |-> gc.prev, entry |-> gc.entry]
    BY <1>3 DEF GcStoreIndex
  <2>2. Copy = w
    BY <1>1, GcCopy
  <2>3. WorkOk(w)
    BY <1>1 DEF Sound, GcOk, RunOk, NoGc
  <2>4. w # NoWork
    BY <2>3, WorkHeld
  <2> DEFINE o == w.obj
  <2>5. x \in Page /\ o \in ObjIds /\ ids[x] = Ix(o) /\ ixs[x] = w.ix
    BY <2>2, <2>3, <2>4, BodyIs DEF WorkOk
  <2>6. Copy' = NoWork
    BY <2>1 DEF Copy
  <2>7. Copy.page = x
    BY <2>2
  <2>8. MovePage(x, ixs[x])
    BY <2>1, <2>5
  <2> HIDE DEF w, x, o
  <2>9. /\ MovedView(x, ixs[x]) /\ Taken \in Page /\ Flash(ids', ixs')
        /\ Relocated(ids, ixs, ids', ixs', o, x, Taken, ixs[x])
    BY <2>5, <2>6, <2>7, <2>8, MovedIndex
  <2>10. /\ Typed(ids', ixs') /\ Unique(ids', ixs') /\ OthersKept(ids, ixs, ids', ixs', o)
         /\ SameView(ids, ixs, ids', ixs', o)
         /\ \A z, d : HeadIs(ids, ixs, o, z, d) => HeadIs(ids', ixs', o, z, d)
    BY <2>5, <2>9, Copied DEF Sound
  <2>11. x \in Used(fs)
    BY <2>5, InUse
  <2>12. GcOk'
    <3>1. Passed' /\ fs'.cleaning = fs.cleaning /\ fs'.cleaning # NoBlock
      <4>1. gc'.entry = gc.entry
        BY <2>1
      <4>2. ASSUME NEW q \in PagesOf(fs.cleaning), q[2] < gc.entry PROVE ~IsData(q)
        BY <1>1, <4>2, CleanedBlock DEF Passed
      <4> QED
        BY <1>1, <2>8, <2>11, <4>1, <4>2, PassedOn
    <3>2. RunOk'
      BY <2>1 DEF RunOk
    <3> QED
      BY <2>1, <3>1, <3>2 DEF GcOk
  <2>13. ~NoPages(ids, o)
    BY <2>5 DEF NoPages
  <2>14. IInv' /\ Whole' /\ Next
    BY <2>9 DEF MovedView
  <2>15. gc.pc # "off" /\ gc'.pc # "off"
    BY <1>1, <2>1
  <2>16. Sound'
    BY <1>1, <2>5, <2>10, <2>12, <2>13, <2>14, <2>15, GcKeepsView
  <2> QED
    BY <2>14, <2>16 DEF Fine
<1> QED
  BY <1>2, <1>3

\* The index pages of the block are moved.
LEMMA GcMovesIndex ==
  ASSUME QuickIsFull, Sound, Still, GcMoveIndex
  PROVE  Fine
<1>1. gc.pc = "find" /\ UNCHANGED <<call, files>>
  BY DEF GcMoveIndex, Still
<1>2. CASE GcFail
  BY <1>1, <1>2, GcGivesUp
<1>3. CASE ~GcFail
  <2>1. PICK x \in First(IndexLeft) : MovePage(x, body[x]) /\ gc' = gc
    BY <1>3 DEF GcMoveIndex
  <2>2. x \in PagesOf(fs.cleaning) /\ IsIndex(x)
    BY DEF First, IndexLeft
  <2>3. x \in Page
    BY <1>1, <2>2, CleanedBlock
  <2>4. PICK o \in ObjIds : ids[x] = Ix(o)
    BY <2>2, <2>3, LiveKinds
  <2>5. Copy = NoWork /\ ixs = body
    BY <1>1, GcCopy
  <2>6. Copy' = NoWork
    BY <1>1, <2>1 DEF Copy
  <2>7. MovePage(x, ixs[x])
    BY <2>1, <2>5
  <2>8. /\ MovedView(x, ixs[x]) /\ Taken \in Page /\ Flash(ids', ixs')
        /\ Relocated(ids, ixs, ids', ixs', o, x, Taken, ixs[x])
    BY <2>3, <2>4, <2>5, <2>6, <2>7, MovedIndex
  <2>9. /\ Typed(ids', ixs') /\ Unique(ids', ixs') /\ OthersKept(ids, ixs, ids', ixs', o)
        /\ SameView(ids, ixs, ids', ixs', o)
        /\ \A z, d : HeadIs(ids, ixs, o, z, d) => HeadIs(ids', ixs', o, z, d)
    BY <2>3, <2>8, Copied DEF Sound
  <2>10. x \in Used(fs)
    BY <2>3, <2>4, InUse
  <2>11. GcOk'
    <3>1. Passed' /\ fs'.cleaning = fs.cleaning /\ fs'.cleaning # NoBlock
      <4>1. ASSUME NEW q \in PagesOf(fs.cleaning), q[2] < gc.entry PROVE ~IsData(q)
        BY <1>1, <4>1, CleanedBlock DEF Passed
      <4> QED
        BY <1>1, <2>1, <2>7, <2>10, <4>1, PassedOn
    <3>2. RunOk'
      <4>1. gc = [pc |-> "find", len |-> gc.len, tries |-> gc.tries, prev |-> gc.prev,
                  entry |-> gc.entry]
        BY <1>1 DEF Sound, GcOk, RunOk, NoGc
      <4> QED
        BY <1>1, <2>1, <4>1 DEF RunOk
    <3> QED
      BY <1>1, <2>1, <3>1, <3>2 DEF GcOk
  <2>12. ~NoPages(ids, o)
    BY <2>3, <2>4 DEF NoPages
  <2>13. IInv' /\ Whole' /\ Next
    BY <2>8 DEF MovedView
  <2>14. Sound'
    BY <1>1, <2>1, <2>9, <2>11, <2>12, <2>13, GcKeepsView
  <2> QED
    BY <2>13, <2>14 DEF Fine
<1> QED
  BY <1>2, <1>3

\* The copy with a slot set.
NotedView(w, k, r, v) ==
  /\ v = [page |-> v.page, obj |-> v.obj, ix |-> v.ix]
  /\ v.page = w.page /\ v.obj = w.obj
  /\ v.ix = [w.ix EXCEPT !.refs = [@ EXCEPT ![k] = r]]
  /\ IndexBody(v.ix) /\ v.ix.span = w.ix.span /\ v.ix.size = w.ix.size
  /\ v.ix.ixdele = w.ix.ixdele /\ v.ix.refs[k] = r
  /\ \A j \in SlotsOf(w.ix.span) : j # k => v.ix.refs[j] = w.ix.refs[j]

\* Noting a slot in the copy of an index page changes that slot only.
LEMMA NotedIs ==
  ASSUME NEW w, w = [page |-> w.page, obj |-> w.obj, ix |-> w.ix], IndexBody(w.ix),
         NEW k \in SlotsOf(w.ix.span), NEW r \in Refs, NEW v, v = Noted(w, k, r)
  PROVE  NotedView(w, k, r, v)
<1> DEFINE i == w.ix  f == [i.refs EXCEPT ![k] = r]  u == [i EXCEPT !.refs = f]
<1>1. f \in [SlotsOf(i.span) -> Refs]
  BY DEF IndexBody
<1>2. f[k] = r /\ \A j \in SlotsOf(i.span) : j # k => f[j] = i.refs[j]
  BY DEF IndexBody
<1>3. v = [w EXCEPT !.ix = u]
  BY DEF Noted
<1>4. u = [i EXCEPT !.refs = [@ EXCEPT ![k] = r]]
  BY Zenon
<1> HIDE DEF f
<1>5. /\ i = [kind |-> "index", span |-> i.span, size |-> i.size, ixdele |-> i.ixdele, refs |-> i.refs]
      /\ i.span \in Nat /\ i.size \in Sizes /\ i.ixdele \in BOOLEAN
  BY DEF IndexBody
<1>6. u = [kind |-> "index", span |-> i.span, size |-> i.size, ixdele |-> i.ixdele, refs |-> f]
  BY <1>5
<1>7. u.span = i.span /\ u.size = i.size /\ u.ixdele = i.ixdele /\ u.refs = f
  BY <1>6
<1>8. IndexBody(u)
  BY <1>1, <1>5, <1>6, <1>7 DEF IndexBody
<1> HIDE DEF u
<1>9. v = [page |-> w.page, obj |-> w.obj, ix |-> u]
  BY <1>3
<1>10. v.page = w.page /\ v.obj = w.obj /\ v.ix = u
  BY <1>9
<1>11. v = [page |-> v.page, obj |-> v.obj, ix |-> v.ix]
  BY <1>9, <1>10
<1>12. v.ix = [w.ix EXCEPT !.refs = [@ EXCEPT ![k] = r]]
  BY <1>4, <1>10, Zenon
<1>13. /\ v.ix.refs[k] = r
       /\ \A j \in SlotsOf(w.ix.span) : j # k => v.ix.refs[j] = w.ix.refs[j]
  BY <1>2, <1>7, <1>10
<1>14. /\ v.page = w.page /\ v.obj = w.obj /\ IndexBody(v.ix)
       /\ v.ix.span = w.ix.span /\ v.ix.size = w.ix.size /\ v.ix.ixdele = w.ix.ixdele
  BY <1>7, <1>8, <1>10
<1> QED
  BY <1>11, <1>12, <1>13, <1>14, Zenon DEF NotedView

\* A data page is moved and its new place noted: added, then dropped.
LEMMA GcMovesData ==
  ASSUME QuickIsFull, Sound, Still, GcMoveData
  PROVE  Fine
<1>1. gc.pc = "move" /\ UNCHANGED <<call, files>>
  BY DEF GcMoveData, Still
<1>2. CASE GcFail
  BY <1>1, <1>2 DEF GcFail, GcReturn, CleanAbort, GivenUpHalfway, Fine, Next
<1>3. CASE ~GcFail
  <2>1. PICK p \in First(DataHere) :
           MovePage(p, body[p]) /\ gc' = [gc EXCEPT !.work = Noted(@, body[p].span, Taken)]
    BY <1>3 DEF GcMoveData
  <2> DEFINE w == gc.work  x == w.page  o == w.obj  k == body[p].span  t == Taken  v == Noted(w, k, t)
             b == body[p]
  <2>2. p \in PagesOf(fs.cleaning) /\ fs.obj_lu[p] = <<o, "data">> /\ IxSpan(k) = w.ix.span
    BY DEF First, DataHere
  <2>3. WorkOk(w)
    BY <1>1 DEF Sound, GcOk, RunOk, NoGc
  <2>4. /\ w = [page |-> w.page, obj |-> w.obj, ix |-> w.ix]
        /\ x \in Page /\ o \in ObjIds /\ ids[x] = Ix(o) /\ IndexBody(w.ix)
        /\ IndexBody(body[x]) /\ w.ix.span = body[x].span
        /\ w.ix.size = body[x].size /\ w.ix.ixdele = body[x].ixdele
    BY <2>3 DEF WorkOk
  <2>5. Copy = w /\ w # NoWork
    BY <1>1, <2>3, GcCopy, WorkHeld
  <2>6. ixs[x] = w.ix /\ \A q \in Page : q # x => ixs[q] = body[q]
    BY <2>4, <2>5, BodyIs
  <2>7. p \in Page /\ ids[p] = Da(o) /\ fs.obj_lu[p] = Da(o)
    <3>1. p \in Page
      BY <1>1, <2>2, CleanedBlock
    <3> QED
      BY <2>2, <2>4, <3>1, LiveAt DEF Da, ids
  <2>8. b \in DataBody /\ k \in Span /\ ixs[p] = b
    <3>1. b \in DataBody /\ ixs[p] = b
      BY <2>4, <2>7, BodyIs
    <3> QED
      BY <3>1 DEF DataBody
  <2>9. k \in SlotsOf(w.ix.span)
    BY <2>2, <2>8 DEF SlotsOf
  <2>10. p \in Used(fs)
    BY <2>4, <2>7, InUse
  <2>11. MovedView(p, b)
    BY <2>1, <2>10, Moves
  <2>12. /\ t \in Page /\ ids[t] = DELETED /\ t # p
         /\ \A q \in Page : ids'[q] = IF q = p THEN DELETED ELSE IF q = t THEN Da(o) ELSE ids[q]
    BY <2>7, <2>11 DEF MovedView, Moving
  <2>13. /\ body'[t] = b /\ body'[p] = Blank /\ DOMAIN body' = Page
         /\ \A q \in Page : q # p /\ q # t => body'[q] = body[q]
    BY <2>11 DEF MovedView
  <2>14. p # x /\ t # x
    BY <2>4, <2>7, <2>12, IdsApart
  <2>15. t \in Refs
    BY <2>12, Referred
  <2>16. gc' = [gc EXCEPT !.work = v]
    BY <2>1, Zenon
  <2> HIDE DEF t
  <2>17. /\ v = [page |-> v.page, obj |-> v.obj, ix |-> v.ix]
         /\ v.page = x /\ v.obj = o
         /\ v.ix = [w.ix EXCEPT !.refs = [@ EXCEPT ![k] = t]]
         /\ IndexBody(v.ix) /\ v.ix.span = w.ix.span /\ v.ix.size = w.ix.size
         /\ v.ix.ixdele = w.ix.ixdele
    <3>1. v = Noted(w, k, t)
      OBVIOUS
    <3> HIDE DEF v, w, k
    <3>2. NotedView(w, k, t, v)
      BY <2>4, <2>9, <2>15, <3>1, NotedIs, Zenon
    <3> QED
      BY <3>2, Zenon DEF NotedView
  <2>18. gc = [pc |-> "move", len |-> gc.len, tries |-> gc.tries, prev |-> gc.prev,
               entry |-> gc.entry, work |-> gc.work]
    BY <1>1 DEF Sound, GcOk, RunOk, NoGc
  <2> HIDE DEF v
  <2>19. gc' = [pc |-> "move", len |-> gc.len, tries |-> gc.tries, prev |-> gc.prev,
                entry |-> gc.entry, work |-> v]
    BY <2>16, <2>18
  <2>20. Copy' = v /\ gc'.work = v /\ gc'.pc = "move" /\ gc'.entry = gc.entry
    BY <2>19 DEF Copy
  <2>21. v # NoWork
    <3>1. v.page # Unset /\ NoWork.page = Unset
      BY <2>4, <2>17, Referred DEF NoWork
    <3> QED
      BY <3>1
  <2>22. DOMAIN ixs' = Page /\ Flash(ids', ixs')
         /\ \A q \in Page : ixs'[q] = IF q = x THEN v.ix ELSE body'[q]
    <3>1. Flash(ids', ixs') /\ DOMAIN ixs' = Page
      BY <2>4, <2>13, <2>17, <2>20, FlashNext
    <3>2. ixs' = Latest(body', v)
      BY <2>20 DEF ixs, Latest
    <3> HIDE DEF w, x, o, k, b
    <3>3. \A q \in Page : Latest(body', v)[q] = IF q = v.page THEN v.ix ELSE body'[q]
      BY <2>13, <2>21, LatestAt
    <3> QED
      BY <2>17, <3>1, <3>2, <3>3
  <2> DEFINE m == [ids EXCEPT ![t] = Da(o)]
             f == [[ixs EXCEPT ![x] = v.ix] EXCEPT ![t] = b]
  <2>23. Typed(ids, ixs) /\ Unique(ids, ixs) /\ Flash(ids, ixs)
    BY DEF Sound, Typed
  <2>24. /\ m[t] = Da(o) /\ \A q \in Page : q # t => m[q] = ids[q]
         /\ f[t] = b /\ f[x] = v.ix /\ \A q \in Page : q # t /\ q # x => f[q] = ixs[q]
         /\ Flash(m, f)
    <3>1. Da(o) \in LuIds
      BY <2>4, IdsApart
    <3> QED
      BY <2>4, <2>12, <2>14, <2>23, <3>1 DEF Flash
  <2> HIDE DEF m, f, w, x, o, k, b
  <2>25. Adds(ids, ixs, m, f, o, x, k, t, b)
    <3>1. ixs[x].span = IxSpan(k)
      BY <2>2, <2>6
    <3>2. m[x] = Ix(o)
      BY <2>4, <2>14, <2>24
    <3>3. f[x] = [ixs[x] EXCEPT !.refs = [@ EXCEPT ![k] = t]]
      BY <2>6, <2>17, <2>24
    <3>4. Elsewhere(ids, ixs, m, f, {x, t})
      BY <2>24 DEF Elsewhere
    <3> QED
      BY <2>4, <2>12, <2>24, <3>1, <3>2, <3>3, <3>4, Zenon DEF Adds
  <2>26. Typed(m, f) /\ Unique(m, f) /\ OthersKept(ids, ixs, m, f, o) /\ AddsView(ids, ixs, m, f, o, k, t)
    BY <2>4, <2>8, <2>12, <2>23, <2>24, <2>25, Adding
  <2>27. Drops(m, f, ids', ixs', o, p)
    <3>1. m[p] = Da(o)
      BY <2>7, <2>12, <2>24
    <3>2. ids'[p] = DELETED /\ ixs'[p] = Blank
      BY <2>7, <2>12, <2>13, <2>14, <2>22
    <3>3. ASSUME NEW q \in Page, q # p PROVE ids'[q] = m[q] /\ ixs'[q] = f[q]
      <4>1. CASE q = t
        BY <2>12, <2>13, <2>14, <2>22, <2>24, <4>1
      <4>2. CASE q = x
        BY <2>12, <2>14, <2>22, <2>24, <4>2
      <4>3. CASE q # t /\ q # x
        BY <2>6, <2>12, <2>13, <2>22, <2>24, <3>3, <4>3
      <4> QED
        BY <4>1, <4>2, <4>3
    <3>4. Elsewhere(m, f, ids', ixs', {p})
      BY <3>3 DEF Elsewhere
    <3> QED
      BY <3>1, <3>2, <3>4 DEF Drops
  <2>28. /\ Typed(ids', ixs') /\ Unique(ids', ixs') /\ OthersKept(m, f, ids', ixs', o)
         /\ DropsView(m, f, ids', ixs', o, p)
    BY <2>4, <2>7, <2>22, <2>24, <2>26, <2>27, Dropping
  <2>29. OthersKept(ids, ixs, ids', ixs', o)
    BY <2>26, <2>28 DEF OthersKept, Untouched
  <2>30. m[p] = Da(o) /\ f[p] = b
    BY <2>7, <2>8, <2>12, <2>14, <2>24
  <2>31. b.span = k
    BY DEF b, k
  <2>32. ASSUME NEW z, NEW d, HeadIs(ids, ixs, o, z, d) PROVE HeadIs(ids', ixs', o, z, d)
    <3>1. HeadIs(m, f, o, z, d)
      BY <2>26, <2>32, Zenon DEF AddsView
    <3> QED
      BY <2>28, <2>30, <3>1 DEF DropsView
  <2>33. ASSUME NEW n \in Nat, NEW W, Shape(ids, ixs, o, n, W, -1, Unset, FALSE)
         PROVE  Shape(ids', ixs', o, n, W, -1, Unset, FALSE)
    <3>1. Owned(ids, ixs, o, n, Unset) /\ Linked(ids, ixs, o, n, W)
      BY <2>33 DEF Shape
    <3>2. p # Unset
      BY <2>7, Referred
    <3>3. k * DataPageSize < n /\ Slot(ids, ixs, o, k, p)
      BY <2>7, <2>8, <2>31, <3>1, <3>2 DEF Owned
    <3>4. PICK r \in Page : Slot(ids, ixs, o, k, r) /\ Leads(ids, ixs, o, k, r, W)
      BY <2>8, <3>1, <3>3 DEF Linked
    <3>5. r = p
      BY <2>4, <2>23, <3>3, <3>4, SlotSingle
    <3>6. Holds(b, W, k)
      BY <2>8, <3>4, <3>5 DEF Leads, Holds
    <3>7. Agree(W, W, k)
      BY DEF Agree
    <3>8. Shape(m, f, o, n, W, -1, p, FALSE)
      <4>1. n <= n /\ (k * DataPageSize < n => Slot(ids, ixs, o, k, p))
            /\ \A j \in Span : j # k /\ j * DataPageSize < n => j * DataPageSize < n
        BY <3>3
      <4>2. o \in ObjIds /\ x \in Page /\ k \in Span /\ t \in Page /\ b \in DataBody
        BY <2>4, <2>8, <2>12
      <4> QED
        BY <2>23, <2>24, <2>25, <2>31, <2>33, <3>3, <3>6, <3>7, <4>1, <4>2, ShapeAdd, Zenon
    <3>9. Slot(m, f, o, k, t) /\ t # p
      BY <2>12, <2>26 DEF AddsView
    <3>10. Slot(m, f, o, f[p].span, t)
      BY <2>30, <2>31, <3>9
    <3> QED
      BY <2>4, <2>7, <2>22, <2>24, <2>26, <2>27, <2>30, <3>8, <3>9, <3>10, ShapeDrop
  <2>34. GcOk'
    <3>1. WorkOk(gc.work)'
      <4>1. ids'[x] = Ix(o)
        BY <2>4, <2>12, <2>14
      <4>2. body'[x] = body[x]
        BY <2>4, <2>13, <2>14
      <4> QED
        BY <2>4, <2>17, <2>20, <4>1, <4>2 DEF WorkOk, x, o, w
    <3>2. RunOk'
      BY <2>19, <2>20, <3>1 DEF RunOk
    <3>3. Passed' /\ fs'.cleaning = fs.cleaning /\ fs'.cleaning # NoBlock
      <4>1. ASSUME NEW q \in PagesOf(fs.cleaning), q # p, q # t, q[2] < gc.entry, IsData(q)
            PROVE  q \in DataHere'
        <5>1. q \in DataHere
          BY <1>1, <4>1, CleanedBlock DEF Passed
        <5>2. fs.obj_lu[q] = Da(o) /\ IxSpan(body[q].span) = w.ix.span /\ q \in Page
          BY <1>1, <4>1, <5>1, CleanedBlock DEF DataHere, Da, o, w
        <5>3. ids[q] = Da(o)
          BY <2>4, <5>2, LiveAt DEF ids
        <5>4. ids'[q] = Da(o) /\ body'[q] = body[q]
          BY <2>12, <2>13, <4>1, <5>2, <5>3
        <5>5. fs'.obj_lu[q] = Da(o)
          BY <2>4, <5>2, <5>4, LiveAt DEF ids
        <5>6. fs'.cleaning = fs.cleaning
          BY <2>11 DEF MovedView
        <5>7. gc'.work.obj = o /\ gc'.work.ix.span = w.ix.span
          BY <2>17, <2>20
        <5> QED
          BY <4>1, <5>2, <5>4, <5>5, <5>6, <5>7 DEF DataHere, Da
      <4>2. MovePage(p, b)
        BY <2>1 DEF b
      <4> QED
        BY <1>1, <2>10, <2>20, <4>1, <4>2, PassedOn DEF t
    <3> QED
      BY <2>20, <3>2, <3>3 DEF GcOk
  <2>35. IInv' /\ Whole' /\ Next
    BY <2>11 DEF MovedView
  <2>36. ~NoPages(ids, o)
    BY <2>4 DEF NoPages
  <2>37. gc.pc # "off" /\ gc'.pc # "off" /\ o \in ObjIds
    BY <1>1, <2>4, <2>20
  <2>38. \A n \in Nat : \A W : Shape(ids, ixs, o, n, W, -1, Unset, FALSE)
                                 => Shape(ids', ixs', o, n, W, -1, Unset, FALSE)
    BY <2>33
  <2>39. Sound'
    BY <1>1, <2>28, <2>29, <2>32, <2>34, <2>35, <2>36, <2>37, <2>38, GcKeeps
  <2> QED
    BY <2>35, <2>39 DEF Fine
<1> QED
  BY <1>2, <1>3

-----------------------------------------------------------------------------
(* What a call finds. *)

\* Between calls nothing runs and nothing is in RAM only.
LEMMA IdleIs ==
  ASSUME Sound, Idle
  PROVE  /\ gc = NoGc /\ gc.pc = "off" /\ fs.cleaning = NoBlock
         /\ Copy = NoWork /\ ixs = body
         /\ \A o : ~Busy(o)
<1>1. call.op = "none"
  BY DEF Idle, NoCall
<1>2. ~EntryOk
  BY <1>1 DEF EntryOk, CreateOk, EntryWrite, EntryCut
<1>3. gc.pc = "off"
  BY <1>2 DEF Sound, CallOk
<1>4. gc = NoGc /\ fs.cleaning = NoBlock
  BY <1>3 DEF Sound, GcOk, RunOk
<1>5. Copy = NoWork
  BY <1>1, <1>3 DEF Copy, Working
<1> QED
  BY <1>1, <1>3, <1>4, <1>5 DEF ixs, Latest, Busy, Working

\* The header page of an object.
LEMMA HeaderIs ==
  ASSUME Sound, NEW o \in ObjIds, NEW z, NEW d, HeadIs(ids, ixs, o, z, d)
  PROVE  /\ Header(o) \in Page /\ ids[Header(o)] = Ix(o) /\ fs.obj_lu[Header(o)] = Ix(o)
         /\ ixs[Header(o)].span = 0 /\ body[Header(o)].span = 0
         /\ body[Header(o)].size = z /\ body[Header(o)].ixdele = d
         /\ ixs[Header(o)].size = z /\ ixs[Header(o)].ixdele = d
         /\ \A p \in Page : ids[p] = Ix(o) /\ ixs[p].span = 0 => p = Header(o)
         /\ SizeOf(o) = z
         /\ d = FALSE => Exists(o)
<1>1. PICK p \in Page : ids[p] = Ix(o) /\ ixs[p].span = 0 /\ ixs[p].size = z /\ ixs[p].ixdele = d
  BY DEF HeadIs
<1>2. body[p].span = 0 /\ body[p].size = z /\ body[p].ixdele = d
  BY <1>1, BodyIs
<1>3. \A q \in Page : fs.obj_lu[q] = Ix(o) <=> ids[q] = Ix(o)
  BY LiveAt DEF ids
<1>4. ASSUME NEW q \in Page, fs.obj_lu[q] = <<o, "index">>, body[q].span = 0 PROVE q = p
  <2>1. ids[q] = Ix(o)
    BY <1>3, <1>4 DEF Ix
  <2>2. ixs[q].span = 0
    BY <1>4, <2>1, BodyIs
  <2> QED
    BY <1>1, <2>1, <2>2 DEF Sound, Unique
<1>5. fs.obj_lu[p] = <<o, "index">> /\ body[p].span = 0
  BY <1>1, <1>2, <1>3 DEF Ix
<1>6. Header(o) = p
  BY <1>4, <1>5 DEF Header
<1>7. SizeOf(o) = z
  BY <1>2, <1>6 DEF SizeOf
<1>8. ASSUME d = FALSE PROVE Exists(o)
  <2>1. ~body[p].ixdele
    BY <1>2, <1>8
  <2>2. p \in IndexPages(o, 0)
    BY <1>5, <2>1 DEF IndexPages
  <2> QED
    BY <2>2 DEF Exists
<1>9. \A q \in Page : ids[q] = Ix(o) /\ ixs[q].span = 0 => q = p
  BY <1>1 DEF Sound, Unique
<1> QED
  BY <1>1, <1>2, <1>5, <1>6, <1>7, <1>8, <1>9 DEF Ix

\* A promised content is neither of the markers.
LEMMA ContentIs ==
  ASSUME NEW c, ContentOk(c)
  PROVE  /\ c # NoFile /\ c # Unknown /\ c \in Seq(Bytes) /\ Len(c) \in Nat /\ Len(c) <= Top
         /\ SizeField(c) \in {Unset} \cup 0..Top
         /\ \A b \in 0..Top : \A v : Wanted(c, b, b, v) = Wanted(c, 0, 0, Unset)
         /\ Top \in Nat
<1>1. c \in Seq(Bytes) /\ Len(c) \in Nat /\ Len(c) <= Top
  BY DEF ContentOk
<1>2. c # NoFile /\ c # Unknown
  BY <1>1, CallAssumption
<1>3. Top \in Nat
  <2>1. MaxSpans \in Nat /\ DataPageSize \in Nat
    BY StoreAssumption
  <2> QED
    BY <2>1 DEF Top
<1>4. SizeField(c) \in {Unset} \cup 0..Top
  BY <1>1, <1>3 DEF SizeField
<1>5. ASSUME NEW b \in 0..Top, NEW v PROVE Wanted(c, b, b, v) = Wanted(c, 0, 0, Unset)
  <2>1. ASSUME NEW n \in 0..Top
        PROVE  (IF b <= n /\ n < b THEN v ELSE IF n < Len(c) THEN c[n + 1] ELSE Unset)
               = (IF 0 <= n /\ n < 0 THEN Unset ELSE IF n < Len(c) THEN c[n + 1] ELSE Unset)
    <3>1. ~(b <= n /\ n < b) /\ ~(0 <= n /\ n < 0)
      BY <1>3, <1>5, <2>1
    <3> QED
      BY <3>1
  <2> QED
    BY <2>1 DEF Wanted
<1> QED
  BY <1>1, <1>2, <1>3, <1>4, <1>5

\* A file that is there and no call works on.
LEMMA FileIs ==
  ASSUME Sound, NEW o \in ObjIds, ~Busy(o), files[o] # Unknown
  PROVE  /\ Exists(o) => /\ ContentOk(files[o]) /\ Resting(o)
                         /\ Length(o) = Len(files[o]) /\ SizeOf(o) = SizeField(files[o])
         /\ (\A p \in Used(fs) : fs.obj_lu[p][1] # o) => files[o] = NoFile
<1>1. (files[o] = NoFile /\ NoPages(ids, o)) \/ (ContentOk(files[o]) /\ Resting(o))
  <2>1. ObjectOk(o)
    BY DEF Sound
  <2> QED
    BY <2>1, Zenon DEF ObjectOk
<1>2. ASSUME NoPages(ids, o) PROVE ~Exists(o)
  <2> SUFFICES ASSUME NEW p \in IndexPages(o, 0) PROVE FALSE
    BY DEF Exists
  <2>1. p \in Page /\ fs.obj_lu[p] = Ix(o)
    BY DEF IndexPages, Ix
  <2>2. ids[p] = Ix(o)
    BY <2>1, LiveAt DEF ids
  <2> QED
    BY <1>2, <2>1, <2>2 DEF NoPages
<1>3. ASSUME Resting(o) PROVE SizeOf(o) = SizeField(files[o])
                              /\ ids[Header(o)] = Ix(o) /\ Header(o) \in Page
  <2>1. HeadIs(ids, ixs, o, SizeField(files[o]), FALSE)
    BY <1>3 DEF Resting
  <2> QED
    BY <2>1, HeaderIs
<1>4. ASSUME ContentOk(files[o]), SizeOf(o) = SizeField(files[o]) PROVE Length(o) = Len(files[o])
  <2>1. files[o] \in Seq(Bytes) /\ Len(files[o]) \in Nat
    BY <1>4, ContentIs
  <2>2. CASE files[o] = <<>>
    BY <1>4, <2>2 DEF Length, SizeField
  <2>3. CASE files[o] # <<>>
    <3>1. SizeOf(o) = Len(files[o])
      BY <1>4, <2>3 DEF SizeField
    <3>2. Len(files[o]) # Unset
      BY <2>1, StoreAssumption
    <3> QED
      BY <3>1, <3>2 DEF Length
  <2> QED
    BY <2>2, <2>3
<1>5. ASSUME \A p \in Used(fs) : fs.obj_lu[p][1] # o PROVE ~Resting(o)
  <2> SUFFICES ASSUME Resting(o) PROVE FALSE
    OBVIOUS
  <2>1. ids[Header(o)] = Ix(o) /\ Header(o) \in Page
    BY <1>3
  <2>2. Header(o) \in Used(fs) /\ fs.obj_lu[Header(o)] = Ix(o)
    BY <2>1, InUse
  <2> QED
    BY <1>5, <2>2 DEF Ix
<1> QED
  BY <1>1, <1>2, <1>3, <1>4, <1>5

-----------------------------------------------------------------------------
(* The calls begin. *)

\* A call begins with the check of the collector.
LEMMA Starts ==
  ASSUME QuickIsFull, Sound, Idle, UNCHANGED <<fs, aborted, body, files>>,
         NEW n, gc' = GcCheck(n), EntryOk'
  PROVE  Fine
<1>1. gc'.pc = "check" /\ gc' = [pc |-> "check", len |-> gc'.len]
  BY DEF GcCheck
<1>2. [Next]_vars /\ IInv' /\ fs'.cleaning = NoBlock
  BY PagesStep, IdleIs
<1>3. GcOk'
  BY <1>1, <1>2 DEF GcOk, RunOk
<1>4. CallOk'
  BY <1>1 DEF CallOk
<1>5. ids' = ids /\ ixs' = ixs
  <2>1. Copy' = NoWork
    BY <1>1 DEF Copy
  <2>2. ixs' = body'
    BY <2>1 DEF ixs, Latest
  <2> QED
    BY <2>2, IdleIs DEF ids
<1>6. Whole'
  BY DEF Sound, Whole
<1>7. Sound'
  BY <1>2, <1>3, <1>4, <1>5, <1>6, IdleIs, Quiet
<1> QED
  BY <1>2, <1>7 DEF Fine

\* A creation begins when no page carries the id.
LEMMA StartsCreat ==
  ASSUME QuickIsFull, Sound, NEW o \in ObjIds, StartCreat(o)
  PROVE  Fine
<1>1. /\ Idle /\ files[o] # Unknown /\ \A p \in Used(fs) : fs.obj_lu[p][1] # o
      /\ call' = [op |-> "creat", obj |-> o, pc |-> "hdr"] /\ gc' = GcCheck(DataPageSize)
      /\ UNCHANGED <<fs, aborted, body, files>>
  BY DEF StartCreat, May
<1>2. files[o] = NoFile
  BY <1>1, IdleIs, FileIs
<1>3. EntryOk'
  BY <1>1, <1>2 DEF EntryOk, CreateOk
<1> QED
  BY <1>1, <1>3, Starts

\* A truncation or a removal begins at the whole length of the file.
LEMMA StartsCut ==
  ASSUME QuickIsFull, Sound, NEW o \in ObjIds, StartTruncate(o) \/ StartRemove(o)
  PROVE  Fine
<1> DEFINE c == files[o]
<1>1. /\ Idle /\ c # Unknown /\ Exists(o) /\ UNCHANGED <<fs, aborted, body, files>>
      /\ gc' = GcCheck(2 * DataPageSize) \/ gc' = GcCheck(0)
  BY DEF StartTruncate, StartRemove, May
<1>2. ContentOk(c) /\ Length(o) = Len(c) /\ SizeOf(o) = SizeField(c)
  BY <1>1, IdleIs, FileIs
<1>3. c \in Seq(Bytes) /\ Len(c) \in Nat /\ Len(c) <= Top
  BY <1>2, ContentIs
<1>4. StartTruncate(o) => SizeOf(o) = Len(c)
  <2>1. StartTruncate(o) => Len(c) > 0
    BY <1>2 DEF StartTruncate
  <2>2. Len(c) > 0 => c # <<>>
    BY <1>3
  <2> QED
    BY <1>2, <2>1, <2>2 DEF SizeField
<1> DEFINE n == Len(c)
<1> HIDE DEF n
<1>5. \/ call' = [op |-> "trunc", obj |-> o, pc |-> "cut", size |-> n, work |-> NoWork]
      \/ call' = [op |-> "remove", obj |-> o, pc |-> "mark", size |-> n, work |-> NoWork]
  BY <1>2, <1>4 DEF StartTruncate, StartRemove, n
<1>6. call'.op \in {"trunc", "remove"} /\ call'.obj = o /\ call'.size = n /\ call'.work = NoWork
      /\ call' = [op |-> call'.op, obj |-> call'.obj, pc |-> call'.pc, size |-> call'.size,
                  work |-> call'.work]
      /\ \/ call'.op = "trunc" /\ call'.pc = "cut"
         \/ call'.op = "remove" /\ call'.pc = "mark"
  <2>1. CASE call' = [op |-> "trunc", obj |-> o, pc |-> "cut", size |-> n, work |-> NoWork]
    BY <2>1
  <2>2. CASE call' = [op |-> "remove", obj |-> o, pc |-> "mark", size |-> n, work |-> NoWork]
    BY <2>2
  <2> QED
    BY <1>5, <2>1, <2>2
<1>7. CutRec'
  <2>1. files'[call'.obj] = c
    BY <1>1, <1>6
  <2>2. ContentOk(files[call.obj])'
    BY <1>2, <2>1 DEF ContentOk, Top
  <2>3. (call.size \in Nat /\ call.size <= Top)'
    BY <1>3, <1>6 DEF n, Top
  <2> QED
    BY <1>6, <2>2, <2>3 DEF CutRec
<1>8. EntryCut'
  <2>1. (call.size = Len(files[call.obj]))'
    BY <1>1, <1>6 DEF n
  <2> QED
    BY <1>6, <1>7, <2>1 DEF EntryCut
<1>9. EntryOk'
  BY <1>8 DEF EntryOk
<1> QED
  BY <1>1, <1>9, Starts

\* A write begins as an overwrite of what is there or as an append.
LEMMA StartsWrite ==
  ASSUME QuickIsFull, Retry = FALSE, Sound, NEW o \in ObjIds, NEW off \in 0..Top,
         NEW len \in 1..MaxLen, NEW v \in Bytes, StartWrite(o, off, len, v)
  PROVE  Fine
<1> DEFINE c == files[o]  L == Length(o)
           cut == IF off + len < L THEN off + len ELSE L
<1>1. /\ Idle /\ c # Unknown /\ Exists(o) /\ UNCHANGED <<fs, aborted, body, files>>
      /\ off <= L /\ off + len <= Top
      /\ IF off < L
         THEN /\ call' = Part(o, "modify", off, cut, off + len - cut, v)
              /\ gc' = GcCheck(cut - off + DataPageSize)
         ELSE /\ call' = Part(o, "append", off, off + len, 0, v)
              /\ gc' = GcCheck(len + DataPageSize)
  BY DEF StartWrite, May, MayRetry, Top
<1>2. ContentOk(c) /\ L = Len(c)
  BY <1>1, IdleIs, FileIs
<1>3. Len(c) \in Nat /\ Len(c) <= Top /\ Top \in Nat
  BY <1>2, ContentIs
<1>4. off \in Nat /\ len \in Nat /\ len >= 1
  <2>1. MaxLen \in Nat
    BY CallAssumption
  <2> QED
    BY <1>3, <2>1
<1> HIDE DEF L, c
<1> DEFINE p == IF off < L THEN "modify" ELSE "append"
           e == IF off < L THEN cut ELSE off + len
           r == IF off < L THEN off + len - cut ELSE 0
<1>5. /\ off < e /\ e \in Nat /\ r \in Nat /\ e + r <= Top
      /\ p = "modify" => e <= L /\ (r > 0 => e = L)
      /\ p = "append" => r = 0 /\ off = L
      /\ p \in {"modify", "append"}
  <2>1. CASE off < L
    BY <1>1, <1>2, <1>3, <1>4, <2>1
  <2>2. CASE ~(off < L)
    BY <1>1, <1>2, <1>3, <1>4, <2>2
  <2> QED
    BY <2>1, <2>2
<1>6. call' = Part(o, p, off, e, r, v)
  BY <1>1
<1>7. PICK n : gc' = GcCheck(n)
  BY <1>1, Zenon
<1> HIDE DEF p, e, r, cut
<1>8. /\ call' = [op |-> "write", obj |-> call'.obj, pc |-> call'.pc, base |-> call'.base,
                  pos |-> call'.pos, end |-> call'.end, rest |-> call'.rest, val |-> call'.val,
                  full |-> call'.full, work |-> call'.work]
      /\ call'.op = "write" /\ call'.obj = o /\ call'.pc = p /\ call'.base = off /\ call'.pos = off
      /\ call'.end = e /\ call'.rest = r /\ call'.val = v /\ call'.full = FALSE /\ call'.work = NoWork
  BY <1>6 DEF Part
<1>9. files'[call'.obj] = c
  BY <1>1, <1>8 DEF c
<1>10. WriteRec'
  <2>1. ContentOk(files[call.obj])'
    BY <1>2, <1>9 DEF ContentOk, Top
  <2>2. (call.end + call.rest <= Top)'
    BY <1>5, <1>8 DEF Top
  <2> QED
    <3>1. (call.base \in Nat /\ call.pos \in Nat /\ call.end \in Nat /\ call.rest \in Nat)'
      BY <1>4, <1>5, <1>8
    <3>2. (call.base < call.end /\ call.base <= call.pos /\ call.pos <= call.end)'
      BY <1>4, <1>5, <1>8
    <3>3. (call.obj \in ObjIds /\ call.val \in Bytes /\ call.full \in BOOLEAN)'
      BY <1>8
    <3> QED
      BY <1>8, <2>1, <2>2, <3>1, <3>2, <3>3, Zenon DEF WriteRec
<1>11. Modifies' \/ Appends'
  BY <1>2, <1>5, <1>8, <1>9 DEF Modifies, Appends
<1>12. EntryWrite'
  BY <1>5, <1>8, <1>10, <1>11 DEF EntryWrite
<1>13. EntryOk'
  BY <1>12 DEF EntryOk
<1> QED
  BY <1>1, <1>7, <1>13, Starts

\* A collection asked for by the client begins.
LEMMA StartsGc ==
  ASSUME QuickIsFull, Sound, NEW n \in GcSizes, StartGc(n)
  PROVE  Fine
<1>1. /\ Idle /\ UNCHANGED <<fs, aborted, body, files>> /\ gc' = GcCheck(n)
      /\ call' = [op |-> "gc"]
  BY DEF StartGc
<1>2. EntryOk'
  BY <1>1 DEF EntryOk
<1> QED
  BY <1>1, <1>2, Starts

\* A step after which no call is under way, that changes no page in use.
LEMMA IdleStep ==
  ASSUME QuickIsFull, Sound, Idle, [Next]_vars, ids' = ids, fs'.cleaning = NoBlock, body' = body,
         UNCHANGED <<gc, call, files>>
  PROVE  Fine
<1>1. IInv'
  BY PagesStep
<1>2. gc' = NoGc /\ gc.pc = "off" /\ Copy = NoWork /\ ixs = body /\ \A o : ~Busy(o)
  BY IdleIs
<1>3. GcOk'
  BY <1>2 DEF GcOk, RunOk, NoGc
<1>4. CallOk'
  BY <1>2 DEF CallOk, Idle
<1>5. ixs' = ixs
  <2>1. Copy' = NoWork
    BY <1>2 DEF Copy
  <2>2. ixs' = body'
    BY <2>1 DEF ixs, Latest
  <2> QED
    BY <1>2, <2>2
<1>6. Whole'
  BY DEF Sound, Whole
<1>7. Sound'
  BY <1>1, <1>2, <1>3, <1>4, <1>5, <1>6, Quiet
<1> QED
  BY <1>7 DEF Fine

\* SPIFFS_gc_quick erases blocks without a page in use.
LEMMA Quicks ==
  ASSUME QuickIsFull, Sound, NEW n \in 0..MaxFreePages, Quick(n)
  PROVE  Fine
<1>1. /\ Idle /\ QuickCollect(n) /\ UNCHANGED <<gc, call, files>>
      /\ body' = [p \in Page |-> IF fs'.obj_lu[p] = FREE THEN Blank ELSE body[p]]
  BY DEF Quick
<1>2. n = 0
  BY DEF QuickIsFull
<1>3. QuickCollect(0) /\ Next
  BY <1>1, <1>2 DEF Next
<1>4. IInv /\ ids' = ids
  BY <1>3, OtherLive DEF Sound
<1>5. fs'.cleaning = NoBlock
  <2>1. SoundState(fs) /\ fs.cleaning = NoBlock /\ fs' = GcQuick(fs, 0)
    BY <1>3, <1>4 DEF IInv, QuickCollect
  <2> QED
    BY <2>1, GcQuickSound
<1>6. body' = body
  <2>1. ASSUME NEW p \in Page PROVE body'[p] = body[p]
    <3>1. CASE fs'.obj_lu[p] = FREE
      <4>1. ids'[p] = DELETED
        BY <3>1, LiveAt, MarkerAssumption DEF ids
      <4>2. body[p] = Blank
        BY <1>4, <4>1, BodyIs
      <4> QED
        BY <1>1, <3>1, <4>2
    <3>2. CASE fs'.obj_lu[p] # FREE
      BY <1>1, <3>2
    <3> QED
      BY <3>1, <3>2
  <2>2. body = [p \in Page |-> body[p]]
    BY DEF Sound, Whole
  <2>3. body' = [p \in Page |-> body'[p]]
    BY <1>1
  <2>4. [p \in Page |-> body'[p]] = [p \in Page |-> body[p]]
    BY <2>1
  <2> QED
    BY <2>2, <2>3, <2>4, Zenon
<1> QED
  BY <1>1, <1>3, <1>4, <1>5, <1>6, IdleStep

\* A mount counts anew.
LEMMA Mounts ==
  ASSUME QuickIsFull, Sound, Mount
  PROVE  Fine
<1>1. Idle /\ Remount /\ UNCHANGED <<body, gc, call, files>>
  BY DEF Mount
<1>2. Next /\ ids' = ids
  BY <1>1, OtherLive DEF Sound, Next
<1>3. fs'.cleaning = NoBlock
  BY <1>1 DEF Remount, Mounted
<1> QED
  BY <1>1, <1>2, <1>3, IdleStep

\* SPIFFS_rename moves the header.
LEMMA Renames ==
  ASSUME QuickIsFull, Sound, NEW o \in ObjIds, Rename(o)
  PROVE  Fine
<1>1. /\ Idle /\ files[o] # Unknown /\ Exists(o) /\ UNCHANGED <<gc, call, files>>
      /\ \/ MovePage(Header(o), body[Header(o)])
         \/ Refuse /\ UNCHANGED body
  BY DEF Rename, May
<1>2. /\ gc = NoGc /\ gc.pc = "off" /\ fs.cleaning = NoBlock
      /\ Copy = NoWork /\ ixs = body /\ \A q : ~Busy(q)
  BY <1>1, IdleIs
<1>3. CASE Refuse /\ UNCHANGED body
  <2>1. Next /\ fs'.cleaning = NoBlock /\ ids' = ids
    BY <1>2, <1>3, PagesStep, OtherLive DEF Sound
  <2> QED
    BY <1>1, <1>3, <2>1, IdleStep
<1>4. CASE MovePage(Header(o), body[Header(o)])
  <2> DEFINE x == Header(o)
  <2>1. ContentOk(files[o]) /\ Resting(o)
    BY <1>1, <1>2, FileIs
  <2>2. HeadIs(ids, ixs, o, SizeField(files[o]), FALSE)
    BY <2>1 DEF Resting
  <2>3. x \in Page /\ ids[x] = Ix(o)
    BY <2>2, HeaderIs
  <2>4. MovePage(x, ixs[x])
    BY <1>2, <1>4
  <2>5. Copy' = NoWork
    BY <1>1, <1>2 DEF Copy, Idle, NoCall, Working
  <2> HIDE DEF x
  <2>6. /\ MovedView(x, ixs[x]) /\ Taken \in Page /\ Flash(ids', ixs')
        /\ Relocated(ids, ixs, ids', ixs', o, x, Taken, ixs[x])
    BY <1>2, <2>3, <2>4, <2>5, MovedIndex
  <2>7. /\ Typed(ids', ixs') /\ Unique(ids', ixs') /\ OthersKept(ids, ixs, ids', ixs', o)
        /\ SameView(ids, ixs, ids', ixs', o)
        /\ \A z, d : HeadIs(ids, ixs, o, z, d) => HeadIs(ids', ixs', o, z, d)
    BY <2>3, <2>6, Copied DEF Sound
  <2>8. Next /\ IInv' /\ fs'.cleaning = NoBlock /\ Whole'
    BY <1>2, <2>6 DEF MovedView
  <2>9. GcOk'
    BY <1>1, <1>2, <2>8 DEF GcOk, RunOk, NoGc
  <2>10. CallOk'
    BY <1>1, <1>2 DEF CallOk, Idle
  <2>11. ObjectOk(o)'
    <3> DEFINE W == Wanted(files[o], 0, 0, Unset)  n == Len(files[o])  z == SizeField(files[o])
    <3>1. Shape(ids, ixs, o, n, W, -1, Unset, FALSE) /\ HeadIs(ids, ixs, o, z, FALSE)
      BY <2>1 DEF Resting
    <3> HIDE DEF W, n, z
    <3>2. HeadIs(ids', ixs', o, z, FALSE)
      BY <2>7, <3>1, Zenon
    <3>3. Shape(ids', ixs', o, n, W, -1, Unset, FALSE)
      BY <2>7, <3>1, ShapeKept, Zenon
    <3>4. Resting(o)'
      BY <1>1, <3>2, <3>3 DEF Resting, W, n, z, Wanted, SizeField
    <3> QED
      BY <1>1, <2>1, <3>4 DEF ObjectOk, ContentOk
  <2>12. DOMAIN files' = ObjIds
    BY <1>1 DEF Sound
  <2>13. Sound'
    BY <1>1, <1>2, <2>7, <2>8, <2>9, <2>10, <2>11, <2>12, Close
  <2> QED
    BY <2>8, <2>13 DEF Fine
<1> QED
  BY <1>1, <1>3, <1>4

\* spiffs_gc_check has returned: the call proceeds as it was begun, or ends.
LEMMA Returns ==
  ASSUME QuickIsFull, Sound, GcReturned
  PROVE  Fine
<1>1. /\ gc.pc = "done" /\ gc' = NoGc /\ UNCHANGED <<fs, aborted, body, files>>
      /\ call' = NoCall \/ (call' = call /\ call.op # "gc")
  BY DEF GcReturned
<1>2. EntryOk
  BY <1>1 DEF Sound, CallOk
<1>3. [Next]_vars /\ IInv' /\ fs'.cleaning = NoBlock /\ ids' = ids
  <2>1. fs.cleaning = NoBlock
    BY <1>1 DEF Sound, GcOk
  <2> QED
    BY <1>1, <2>1, PagesStep DEF ids
<1>4. gc'.pc = "off"
  BY <1>1 DEF NoGc
<1>5. GcOk'
  BY <1>1, <1>3, <1>4 DEF GcOk, RunOk
<1>6. Whole'
  BY <1>1 DEF Sound, Whole
<1>7. \A o : ~Busy(o)
  BY <1>1, GcCopy
<1>8. call' = NoCall \/ (call' = call /\ (CreateOk \/ EntryWrite \/ EntryCut))
  <2>1. call = [op |-> "gc"] => call.op = "gc"
    OBVIOUS
  <2> QED
    BY <1>1, <1>2, <2>1 DEF EntryOk
<1>9. call'.op \in Working => call'.work = NoWork
  BY <1>8 DEF NoCall, Working, CreateOk, EntryWrite, EntryCut
<1>10. ixs = body /\ ixs' = ixs
  <2>1. Copy' = NoWork
    BY <1>4, <1>9 DEF Copy
  <2>2. ixs' = body'
    BY <2>1 DEF ixs, Latest
  <2> QED
    BY <1>1, <2>2, GcCopy
<1>11. CallOk'
  <2>1. CASE call' = NoCall
    BY <1>4, <2>1 DEF CallOk
  <2>2. CASE call' = call /\ CreateOk
    <3>1. CreateOk'
      BY <1>1, <2>2 DEF CreateOk
    <3> QED
      BY <1>4, <3>1 DEF CallOk
  <2>3. CASE call' = call /\ EntryWrite
    <3> DEFINE o == call.obj  c == files[o]
    <3>1. /\ WriteRec /\ (Modifies \/ Appends) /\ call.pc # "replace" /\ call.op = "write"
          /\ call.pos = call.base /\ ~call.full /\ call.work = NoWork
      BY <2>3 DEF EntryWrite
    <3>2. /\ o \in ObjIds /\ ContentOk(c) /\ call.base \in Nat /\ call.end \in Nat
          /\ call.rest \in Nat /\ call.base < call.end /\ call.end + call.rest <= Top
      BY <3>1 DEF WriteRec
    <3>3. Resting(o)
      BY <1>7, <3>2, ContentIs DEF Sound, ObjectOk
    <3>4. call.base \in 0..Top
      BY <3>2, ContentIs
    <3> DEFINE W == Wanted(c, call.base, call.pos, call.val)
    <3>5. W = Wanted(c, 0, 0, Unset)
      BY <3>1, <3>2, <3>4, ContentIs
    <3> HIDE DEF W
    <3>6. /\ Shape(ids, ixs, o, Len(c), W, -1, Unset, FALSE)
          /\ HeadIs(ids, ixs, o, SizeField(c), FALSE)
      BY <3>3, <3>5 DEF Resting
    <3>7. HoldOk' /\ ~Held' /\ ~Held
      BY <2>3, <3>1 DEF HoldOk, Held
    <3>8. WriteRec'
      BY <1>1, <2>3, <3>1 DEF WriteRec, ContentOk
    <3>9. CASE Modifies
      <4>1. Modifies' /\ call'.pc = "modify"
        BY <1>1, <2>3, <3>1, <3>9 DEF Modifies
      <4>2. Shape(ids', ixs', o, Len(c), W, -1, Unset, FALSE)
            /\ HeadIs(ids', ixs', o, SizeField(c), FALSE)
        BY <1>3, <1>10, <3>6
      <4>3. ModifyOk'
        <5>1. Shape(ids, ixs, call.obj, Len(files[call.obj]),
                    Wanted(files[call.obj], call.base, call.pos, call.val), -1, Unset, FALSE)'
          BY <1>1, <2>3, <4>2 DEF W, Wanted, Top
        <5>2. HeadIs(ids, ixs, call.obj, SizeField(files[call.obj]), FALSE)'
          BY <1>1, <2>3, <4>2 DEF SizeField
        <5>3. ~(call.pos = call.end \/ call.full)'
          BY <2>3, <3>1, <3>2
        <5>4. (call.op = "write")'
          BY <2>3, <3>1
        <5> QED
          BY <3>7, <3>8, <4>1, <5>1, <5>2, <5>3, <5>4, Zenon DEF ModifyOk
      <4> QED
        BY <1>4, <4>3 DEF CallOk
    <3>10. CASE Appends
      <4>1. Appends' /\ call.base = Len(c)
        BY <1>1, <2>3, <3>1, <3>10 DEF Appends
      <4>2. Shape(ids', ixs', o, Len(c), W, -1, Unset, FALSE)
            /\ HeadIs(ids', ixs', o, SizeField(c), FALSE)
        BY <1>3, <1>10, <3>6
      <4>3. HeldSpan(call'.work) = -1
        BY <2>3, <3>1 DEF HeldSpan
      <4>4. HeadFor'
        <5> DEFINE z == SizeField(c)
        <5>1. z \in {Unset} \cup 0..Top
          BY <3>2, ContentIs
        <5> HIDE DEF z
        <5>2. HeadIs(ids', ixs', o, z, FALSE)
          BY <4>2 DEF z
        <5>3. (SizeField(files[call.obj]))' = z
          BY <1>1, <2>3 DEF SizeField, z
        <5>4. Top' = Top
          BY DEF Top
        <5> QED
          BY <2>3, <3>7, <5>1, <5>2, <5>3, <5>4 DEF HeadFor
      <4>5. AppendWork'
        BY <2>3, <3>1, <3>2, <3>7 DEF AppendWork
      <4>6. Shape(ids, ixs, call.obj, call.pos, Wanted(files[call.obj], call.base, call.pos, call.val),
                  HeldSpan(call.work), Unset, FALSE)'
        BY <1>1, <2>3, <3>1, <4>1, <4>2, <4>3 DEF W, Wanted, Top
      <4>7. AppendOk'
        BY <2>3, <3>1, <3>7, <3>8, <4>1, <4>4, <4>5, <4>6, Zenon DEF AppendOk
      <4> QED
        BY <1>4, <4>7 DEF CallOk
    <3> QED
      BY <3>1, <3>9, <3>10
  <2>4. CASE call' = call /\ EntryCut
    <3> DEFINE o == call.obj  c == files[o]
    <3>1. /\ CutRec /\ call.op \in {"trunc", "remove"} /\ call.work = NoWork /\ call.size = Len(c)
          /\ (call.op = "trunc" /\ call.pc = "cut") \/ (call.op = "remove" /\ call.pc = "mark")
      BY <2>4 DEF EntryCut
    <3>2. o \in ObjIds /\ ContentOk(c)
      BY <3>1 DEF CutRec
    <3>3. Resting(o)
      BY <1>7, <3>2, ContentIs DEF Sound, ObjectOk
    <3> DEFINE W == Wanted(c, 0, 0, Unset)
    <3>4. /\ Shape(ids, ixs, o, Len(c), W, -1, Unset, FALSE)
          /\ HeadIs(ids, ixs, o, SizeField(c), FALSE)
      BY <3>3 DEF Resting
    <3> HIDE DEF W
    <3>5. Shape(ids, ixs, o, Len(c), W, -1, Unset, TRUE)
      BY <3>2, <3>4, ShapeWeaker DEF Sound
    <3>6. HoldOk' /\ ~Held'
      BY <2>4, <3>1 DEF HoldOk, Held
    <3>7. CutRec'
      BY <1>1, <2>4, <3>1 DEF CutRec, ContentOk
    <3>8. HeldSpan(call'.work) = -1
      BY <2>4, <3>1 DEF HeldSpan
    <3>9. CutAt'
      BY <2>4, <3>1, <3>6 DEF CutAt
    <3>10. Shape(ids, ixs, call.obj, call.size, Wanted(files[call.obj], 0, 0, Unset),
                 HeldSpan(call.work), Unset, TRUE)'
      BY <1>1, <1>3, <1>10, <2>4, <3>1, <3>5, <3>8 DEF W, Wanted, Top
    <3>11. (\E z \in {Unset} \cup 0..Top :
              HeadIs(ids, ixs, call.obj, z, call.op = "remove" /\ call.pc # "mark"))'
      <4> DEFINE z == SizeField(c)
      <4>1. z \in {Unset} \cup 0..Top
        BY <3>2, ContentIs
      <4>2. HeadIs(ids', ixs', o, z, FALSE)
        BY <1>3, <1>10, <3>4
      <4> HIDE DEF z
      <4>3. (call.op = "remove" /\ call.pc # "mark") = FALSE
        BY <3>1
      <4>4. HeadIs(ids', ixs', o, z, (call.op = "remove" /\ call.pc # "mark"))
        BY <4>2, <4>3, Zenon
      <4> QED
        BY <2>4, <4>1, <4>4 DEF Top
    <3>12. CutOk'
      BY <2>4, <3>1, <3>6, <3>7, <3>9, <3>10, <3>11, Zenon DEF CutOk
    <3> QED
      BY <1>4, <3>12 DEF CallOk
  <2> QED
    BY <1>8, <2>1, <2>2, <2>3, <2>4
<1>12. Sound'
  BY <1>1, <1>3, <1>5, <1>6, <1>7, <1>10, <1>11, Quiet
<1> QED
  BY <1>3, <1>12 DEF Fine

-----------------------------------------------------------------------------
(* A call at work. *)

\* What the invariant says of the call under way.
LEMMA CallNow ==
  ASSUME Sound, gc.pc = "off"
  PROVE  /\ gc = NoGc /\ fs.cleaning = NoBlock
         /\ call.op = "creat" => CreateOk
         /\ call.op = "write" /\ call.pc = "modify" => ModifyOk
         /\ call.op = "write" /\ call.pc = "replace" => ReplaceOk
         /\ call.op = "write" /\ call.pc = "append" => AppendOk
         /\ call.op \in {"trunc", "remove"} => CutOk
         /\ call.op \in Working =>
              /\ call.obj \in ObjIds /\ ContentOk(files[call.obj]) /\ Copy = call.work
              /\ Busy(call.obj) /\ HoldOk
         /\ call.op \in Working \cup {"creat"} => \A q : q # call.obj => ~Busy(q)
<1>1. gc = NoGc /\ fs.cleaning = NoBlock
  BY DEF Sound, GcOk, RunOk
<1>2. call = NoCall \/ CreateOk \/ ModifyOk \/ ReplaceOk \/ AppendOk \/ CutOk
  BY DEF Sound, CallOk
<1>3. /\ call = NoCall => call.op = "none"
      /\ CreateOk => call.op = "creat"
      /\ ModifyOk => call.op = "write" /\ call.pc = "modify"
      /\ ReplaceOk => call.op = "write" /\ call.pc = "replace"
      /\ AppendOk => call.op = "write" /\ call.pc = "append"
      /\ CutOk => call.op \in {"trunc", "remove"}
  <2>1. call = NoCall => call.op = "none"
    BY DEF NoCall
  <2>2. CreateOk => call.op = "creat"
    BY Zenon DEF CreateOk
  <2>3. ModifyOk => call.op = "write" /\ call.pc = "modify"
    BY Zenon DEF ModifyOk
  <2>4. ReplaceOk => call.op = "write" /\ call.pc = "replace"
    BY Zenon DEF ReplaceOk
  <2>5. AppendOk => call.op = "write" /\ call.pc = "append"
    BY Zenon DEF AppendOk, Appends
  <2>6. CutOk => call.op \in {"trunc", "remove"}
    BY Zenon DEF CutOk
  <2> QED
    BY <2>1, <2>2, <2>3, <2>4, <2>5, <2>6, Zenon
<1>4. /\ call.op = "creat" => CreateOk
      /\ call.op = "write" /\ call.pc = "modify" => ModifyOk
      /\ call.op = "write" /\ call.pc = "replace" => ReplaceOk
      /\ call.op = "write" /\ call.pc = "append" => AppendOk
      /\ call.op \in {"trunc", "remove"} => CutOk
  BY <1>2, <1>3
<1>5. ASSUME call.op \in Working
      PROVE  /\ call.obj \in ObjIds /\ ContentOk(files[call.obj]) /\ HoldOk
  <2>1. ModifyOk \/ ReplaceOk \/ AppendOk \/ CutOk
    BY <1>2, <1>3, <1>5 DEF Working
  <2>2. (ModifyOk \/ ReplaceOk \/ AppendOk) => WriteRec /\ HoldOk
    BY DEF ModifyOk, ReplaceOk, AppendOk
  <2>3. CutOk => CutRec /\ HoldOk
    BY DEF CutOk
  <2> QED
    BY <2>1, <2>2, <2>3 DEF WriteRec, CutRec
<1>6. call.op \in Working => Copy = call.work /\ Busy(call.obj)
  BY DEF Copy, Busy
<1>7. \A q : q # call.obj => ~Busy(q)
  BY DEF Busy
<1> QED
  BY <1>1, <1>4, <1>5, <1>6, <1>7

\* What holds of the flash when an index page is programmed where it is.
Overwritten(o, x, f) ==
  /\ DOMAIN f = Page /\ \A q \in Page : q # x => f[q] = body[q]
  /\ IndexBody(f[x]) /\ f[x].span = ixs[x].span

\* An index page is overwritten in place: nothing but its slots and size change.
LEMMA Overwrites ==
  ASSUME Sound, NEW o \in ObjIds, NEW x \in Page, ids[x] = Ix(o),
         Copy = NoWork \/ Copy.page = x, NEW f, Overwritten(o, x, f)
  PROVE  /\ Typed(ids, f) /\ Unique(ids, f) /\ OthersKept(ids, ixs, ids, f, o)
         /\ Relocated(ids, ixs, ids, f, o, x, x, f[x]) /\ Flash(ids, f)
<1>1. Typed(ids, ixs) /\ Unique(ids, ixs)
  BY DEF Sound
<1>2. Flash(ids, f)
  BY <1>1 DEF Typed, Flash, Overwritten
<1>3. \A q \in Page : q # x => ixs[q] = body[q]
  BY BodyIs
<1>4. Elsewhere(ids, ixs, ids, f, {x, x})
  BY <1>3 DEF Elsewhere, Overwritten
<1> DEFINE c == f[x]
<1>5. IndexBody(c) /\ c.span = ixs[x].span /\ f[x] = c
  BY DEF Overwritten
<1> HIDE DEF c
<1>6. Relocated(ids, ixs, ids, f, o, x, x, c)
  BY <1>4, <1>5 DEF Relocated
<1>7. Typed(ids, f) /\ Unique(ids, f) /\ OthersKept(ids, ixs, ids, f, o)
  BY <1>1, <1>2, <1>5, <1>6, Relocation
<1> QED
  BY <1>2, <1>5, <1>6, <1>7

\* The copy is given up.
LEMMA CopyDropped ==
  ASSUME Sound, NEW o \in ObjIds, Copy = NoWork \/ Copy.obj = o
  PROVE  Typed(ids, body) /\ Unique(ids, body) /\ OthersKept(ids, ixs, ids, body, o)
<1>1. CASE Copy = NoWork
  <2>1. ixs = body
    BY <1>1 DEF ixs, Latest
  <2> QED
    BY <2>1 DEF Sound, OthersKept, Untouched
<1>2. CASE Copy # NoWork
  <2>1. WorkOk(Copy) /\ ixs[Copy.page] = Copy.ix /\ DOMAIN body = Page
    BY <1>2, BodyIs
  <2>2. /\ Copy.page \in Page /\ ids[Copy.page] = Ix(o) /\ IndexBody(body[Copy.page])
        /\ body[Copy.page].span = ixs[Copy.page].span
    BY <1>2, <2>1 DEF WorkOk
  <2>3. Overwritten(o, Copy.page, body)
    BY <2>1, <2>2 DEF Overwritten
  <2> QED
    BY <2>2, <2>3, Overwrites
<1> QED
  BY <1>1, <1>2

\* The call returns.
LEMMA Ends ==
  ASSUME QuickIsFull, Sound, gc.pc = "off", NEW o \in ObjIds, \A q : q # o => ~Busy(q),
         [Next]_vars, fs'.cleaning = fs.cleaning, Whole', gc' = gc, NEW c, Return(o, c),
         Typed(ids', body'), Unique(ids', body'), OthersKept(ids, ixs, ids', body', o),
         \/ c = Unknown
         \/ c = NoFile /\ NoPages(ids', o)
         \/ /\ ContentOk(c)
            /\ Shape(ids', body', o, Len(c), Wanted(c, 0, 0, Unset), -1, Unset, FALSE)
            /\ HeadIs(ids', body', o, SizeField(c), FALSE)
  PROVE  Fine
<1>1. gc = NoGc /\ fs.cleaning = NoBlock /\ IInv' /\ call' = NoCall /\ files' = [files EXCEPT ![o] = c]
  BY CallNow, PagesStep DEF Return
<1>2. GcOk'
  BY <1>1 DEF GcOk, RunOk, NoGc
<1>3. CallOk'
  BY <1>1 DEF CallOk
<1>4. ixs' = body'
  <2>1. Copy' = NoWork
    BY <1>1 DEF Copy, NoCall, Working
  <2> QED
    BY <2>1 DEF ixs, Latest
<1>5. DOMAIN files' = ObjIds /\ files'[o] = c /\ \A q \in ObjIds : q # o => files'[q] = files[q]
  BY <1>1 DEF Sound
<1>6. ObjectOk(o)'
  <2>1. CASE c = Unknown
    BY <1>5, <2>1 DEF ObjectOk
  <2>2. CASE c = NoFile /\ NoPages(ids', o)
    BY <1>5, <2>2 DEF ObjectOk
  <2>3. CASE /\ ContentOk(c)
             /\ Shape(ids', body', o, Len(c), Wanted(c, 0, 0, Unset), -1, Unset, FALSE)
             /\ HeadIs(ids', body', o, SizeField(c), FALSE)
    <3>1. Resting(o)'
      BY <1>4, <1>5, <2>3 DEF Resting, Wanted, SizeField, Top
    <3>2. ContentOk(files[o])'
      BY <1>5, <2>3 DEF ContentOk, Top
    <3> QED
      BY <3>1, <3>2 DEF ObjectOk
  <2> QED
    BY <2>1, <2>2, <2>3
<1>7. Typed(ids', ixs') /\ Unique(ids', ixs') /\ OthersKept(ids, ixs, ids', ixs', o)
  BY <1>4
<1>8. \A q \in ObjIds : q # o => ~Busy(q)
  OBVIOUS
<1>9. Sound'
  BY <1>1, <1>2, <1>3, <1>5, <1>6, <1>7, <1>8, Close
<1> QED
  BY <1>9 DEF Fine

\* The call fails half-way and changes nothing more.
LEMMA Breaks ==
  ASSUME QuickIsFull, Sound, gc.pc = "off", call.op \in Working, Break(call.obj),
         (Refuse \/ UNCHANGED <<fs, aborted>>), UNCHANGED <<body, gc>>
  PROVE  Fine
<1> DEFINE o == call.obj
<1>1. o \in ObjIds /\ Copy = call.work /\ HoldOk /\ \A q : q # o => ~Busy(q)
  BY CallNow
<1>2. Copy = NoWork \/ Copy.obj = o
  BY <1>1 DEF HoldOk
<1>3. [Next]_vars /\ fs'.cleaning = fs.cleaning /\ ids' = ids
  BY PagesStep, OtherLive DEF Sound, ids
<1>4. Whole'
  BY DEF Sound, Whole
<1> HIDE DEF o
<1>5. Typed(ids', body') /\ Unique(ids', body') /\ OthersKept(ids, ixs, ids', body', o)
  BY <1>1, <1>2, <1>3, CopyDropped
<1>6. Return(o, Unknown)
  BY DEF Break, o
<1> QED
  BY <1>1, <1>3, <1>4, <1>5, <1>6, Ends

\* The call goes on.
LEMMA Goes ==
  ASSUME QuickIsFull, Sound, gc.pc = "off", call.op \in Working, NEW o, o = call.obj,
         [Next]_vars, fs'.cleaning = fs.cleaning, Whole', UNCHANGED <<gc, files>>,
         call'.op = call.op, call'.obj = o, CallOk',
         Typed(ids', ixs'), Unique(ids', ixs'), OthersKept(ids, ixs, ids', ixs', o)
  PROVE  Fine
<1>1. /\ gc = NoGc /\ fs.cleaning = NoBlock /\ o \in ObjIds /\ ContentOk(files[o])
      /\ \A q : q # o => ~Busy(q)
  BY CallNow
<1>2. IInv'
  BY PagesStep
<1>3. GcOk'
  BY <1>1 DEF GcOk, RunOk, NoGc
<1>4. Busy(o)'
  BY DEF Busy
<1>5. ContentOk(files[o])'
  BY <1>1 DEF ContentOk, Top
<1>6. ObjectOk(o)'
  BY <1>4, <1>5 DEF ObjectOk
<1>7. DOMAIN files' = ObjIds
  BY DEF Sound
<1>8. Sound'
  BY <1>1, <1>2, <1>3, <1>6, <1>7, Close
<1> QED
  BY <1>8 DEF Fine

\* What allocating and deleting a page do to the flash and the accounting.
AllocatedView(id, c) ==
  /\ Next /\ aborted' = aborted /\ fs'.cleaning = fs.cleaning /\ Whole'
  /\ Taking(Taken, id) /\ DOMAIN body' = Page
  /\ body'[Taken] = c /\ \A q \in Page : q # Taken => body'[q] = body[q]

\* What an allocation does to the ids and the contents.
LEMMA Allocates ==
  ASSUME QuickIsFull, Sound, NEW id \in LuIds, NEW c, AllocatePage(id, c)
  PROVE  AllocatedView(id, c)
<1>1. Allocate(id) /\ body' = [body EXCEPT ![Taken] = c]
  BY DEF AllocatePage
<1>2. Next /\ aborted' = aborted /\ fs'.cleaning = fs.cleaning
  BY <1>1, PagesStep
<1>3. Taking(Taken, id)
  BY <1>1, AllocLive DEF Sound
<1>4. Taken \in Page /\ DOMAIN body = Page
  BY <1>3, BodyIs DEF Taking
<1> DEFINE t == Taken
<1> HIDE DEF t
<1>5. body' = [body EXCEPT ![t] = c]
  BY <1>1 DEF t
<1>6. Whole'
  <2>1. body' = [q \in Page |-> body'[q]]
    BY <1>4, <1>5
  <2> QED
    BY <2>1 DEF Whole
<1>7. DOMAIN body' = Page /\ body'[t] = c /\ \A q \in Page : q # t => body'[q] = body[q]
  BY <1>4, <1>5 DEF t
<1> QED
  BY <1>2, <1>3, <1>6, <1>7 DEF AllocatedView, t

DeletedView(p) ==
  /\ Next /\ aborted' = aborted /\ fs'.cleaning = fs.cleaning /\ Whole'
  /\ Losing(p) /\ DOMAIN body' = Page
  /\ body'[p] = Blank /\ \A q \in Page : q # p => body'[q] = body[q]

\* What a deletion does to the ids and the contents.
LEMMA Deletes ==
  ASSUME QuickIsFull, Sound, NEW p \in Used(fs), DeletePage(p)
  PROVE  DeletedView(p)
<1>1. Delete(p) /\ body' = [body EXCEPT ![p] = Blank]
  BY DEF DeletePage
<1>2. Next /\ aborted' = aborted /\ fs'.cleaning = fs.cleaning
  BY <1>1, PagesStep
<1>3. Losing(p)
  BY <1>1, DeleteLive DEF Sound
<1>4. p \in Page /\ DOMAIN body = Page
  BY BodyIs DEF Used
<1>5. Whole'
  <2>1. body' = [q \in Page |-> body'[q]]
    BY <1>1, <1>4
  <2> QED
    BY <2>1 DEF Whole
<1>6. DOMAIN body' = Page /\ body'[p] = Blank /\ \A q \in Page : q # p => body'[q] = body[q]
  BY <1>1, <1>4
<1> QED
  BY <1>2, <1>3, <1>5, <1>6 DEF DeletedView

\* spiffs_object_create writes the first page of the object.
LEMMA Creates ==
  ASSUME QuickIsFull, Sound, CreateHeader
  PROVE  Fine
<1> DEFINE o == call.obj
<1>1. gc.pc = "off" /\ call.op = "creat" /\ gc' = gc
  BY DEF CreateHeader, At
<1>2. /\ gc = NoGc /\ fs.cleaning = NoBlock /\ CreateOk
      /\ \A q : q # o => ~Busy(q)
  BY <1>1, CallNow
<1>3. o \in ObjIds /\ files[o] = NoFile
  BY <1>2 DEF CreateOk
<1>4. Copy = NoWork /\ ixs = body
  <2>1. Copy = NoWork
    BY <1>1 DEF Copy, Working
  <2> QED
    BY <2>1 DEF ixs, Latest
<1>5. NoPages(ids, o)
  <2>1. ObjectOk(o)
    BY <1>3 DEF Sound
  <2>2. ~ContentOk(files[o]) /\ files[o] # Unknown
    BY <1>3, ContentIs, CallAssumption
  <2> QED
    BY <2>1, <2>2 DEF ObjectOk
<1>6. CASE /\ AllocatePage(<<o, "index">>, IndexPage(0))
           /\ Return(o, <<>>)
  <2> HIDE DEF o
  <2>1. Ix(o) \in LuIds /\ AllocatePage(Ix(o), IndexPage(0))
    BY <1>3, <1>6, IdsApart DEF Ix
  <2>2. AllocatedView(Ix(o), IndexPage(0))
    BY <2>1, Allocates
  <2> DEFINE t == Taken
  <2>3. t \in Page /\ ids[t] = DELETED /\ \A q \in Page : ids'[q] = IF q = t THEN Ix(o) ELSE ids[q]
    BY <2>2 DEF AllocatedView, Taking
  <2>4. body'[t] = IndexPage(0) /\ \A q \in Page : q # t => body'[q] = body[q]
    BY <2>2 DEF AllocatedView
  <2> HIDE DEF t
  <2>5. ixs' = body'
    <3>1. Copy' = NoWork
      BY <1>1, <1>6 DEF Copy, Return, NoCall, Working
    <3> QED
      BY <3>1 DEF ixs, Latest
  <2>6. Flash(ids', body')
    <3>1. Copy' = NoWork
      BY <1>1, <1>6 DEF Copy, Return, NoCall, Working
    <3>2. Flash(ids', ixs')
      BY <2>2, <3>1, FlashNext DEF AllocatedView
    <3> QED
      BY <2>5, <3>2
  <2>7. ids'[t] = Ix(o) /\ Elsewhere(ids, ixs, ids', body', {t})
    BY <1>4, <2>3, <2>4 DEF Elsewhere
  <2>8. Typed(ids, ixs) /\ Unique(ids, ixs)
    BY DEF Sound
  <2> DEFINE W == Wanted(<<>>, 0, 0, Unset)
  <2> HIDE DEF W
  <2>9. /\ Opens(ids, ixs, ids', body', o, t, 0)
        /\ Shape(ids', body', o, 0, W, -1, Unset, FALSE)
        /\ HeadIs(ids', body', o, Unset, FALSE)
    BY <1>3, <1>5, <2>3, <2>4, <2>6, <2>7, <2>8, ShapeCreate
  <2>10. Typed(ids', body') /\ Unique(ids', body') /\ OthersKept(ids, ixs, ids', body', o)
    BY <1>3, <2>3, <2>6, <2>8, <2>9, Opening
  <2>11. ContentOk(<<>>) /\ Len(<<>>) = 0 /\ SizeField(<<>>) = Unset
    <3>1. Top \in Nat
      <4>1. MaxSpans \in Nat /\ DataPageSize \in Nat
        BY StoreAssumption
      <4> QED
        BY <4>1 DEF Top
    <3> QED
      BY <3>1 DEF ContentOk, SizeField
  <2>12. Next /\ fs'.cleaning = fs.cleaning /\ Whole'
    BY <2>2 DEF AllocatedView
  <2> DEFINE c == <<>>
  <2>13. /\ ContentOk(c)
         /\ Shape(ids', body', o, Len(c), Wanted(c, 0, 0, Unset), -1, Unset, FALSE)
         /\ HeadIs(ids', body', o, SizeField(c), FALSE)
         /\ Return(o, c)
    BY <1>6, <2>9, <2>11 DEF W, o
  <2> HIDE DEF c
  <2> QED
    BY <1>1, <1>2, <1>3, <2>10, <2>12, <2>13, Ends DEF o
<1>7. CASE /\ Refuse
           /\ call' = NoCall
           /\ UNCHANGED <<body, files>>
  <2>1. Next /\ fs'.cleaning = NoBlock /\ ids' = ids /\ IInv'
    BY <1>2, <1>7, PagesStep, OtherLive DEF Sound
  <2>2. GcOk'
    BY <1>1, <1>2, <2>1 DEF GcOk, RunOk, NoGc
  <2>3. CallOk'
    BY <1>1, <1>7 DEF CallOk
  <2>4. ixs' = ixs
    <3>1. Copy' = NoWork
      BY <1>1, <1>7 DEF Copy, NoCall, Working
    <3> QED
      BY <1>4, <1>7, <3>1 DEF ixs, Latest
  <2>5. Whole'
    BY <1>7 DEF Sound, Whole
  <2>6. \A q \in ObjIds : ~Busy(q)
    BY <1>1 DEF Busy, Working
  <2>7. Sound'
    BY <1>7, <2>1, <2>2, <2>3, <2>4, <2>5, <2>6, Quiet
  <2> QED
    BY <2>1, <2>7 DEF Fine
<1> QED
  BY <1>6, <1>7 DEF CreateHeader

\* The index page a call works with.
WorkView(w, o, k) ==
  /\ WorkOk(w) /\ w.obj = o /\ w.ix.span = IxSpan(k) /\ w # NoWork
  /\ ixs[w.page] = w.ix /\ Latest(body, w) = ixs
  /\ Copy = NoWork \/ Copy = w
  /\ call.work = NoWork => w.ix = body[w.page]

\* The index page a call works on is the copy it holds or one the search finds.
LEMMA WorkForIs ==
  ASSUME Sound, gc.pc = "off", call.op \in Working, NEW n \in Nat, ~Switches(n),
         HasIx(ids, ixs, call.obj, IxSpan(SpanAt(n)))
  PROVE  /\ WorkFor(n) # {}
         /\ \A w \in WorkFor(n) : WorkView(w, call.obj, SpanAt(n))
         /\ call.work # NoWork => WorkFor(n) = {call.work}
<1> DEFINE o == call.obj  j == IxSpan(SpanAt(n))
<1>1. o \in ObjIds /\ Copy = call.work /\ HoldOk
  BY CallNow
<1>2. Whole /\ DOMAIN body = Page /\ body = [p \in Page |-> body[p]]
  BY BodyIs DEF Sound, Whole
<1>3. CASE call.work # NoWork
  <2> DEFINE w == call.work
  <2>1. WorkFor(n) = {w}
    BY <1>3 DEF WorkFor
  <2>2. w.ix.span = j
    BY <1>3 DEF Switches
  <2>3. WorkOk(w) /\ w.obj = o
    BY <1>1, <1>3 DEF HoldOk
  <2>4. ixs[w.page] = w.ix
    BY <1>1, <1>3, BodyIs
  <2>5. Latest(body, w) = ixs
    BY <1>1 DEF ixs
  <2> QED
    BY <1>1, <1>3, <2>1, <2>2, <2>3, <2>4, <2>5 DEF WorkView
<1>4. CASE call.work = NoWork
  <2>1. ixs = body
    BY <1>1, <1>4 DEF ixs, Latest
  <2> HIDE DEF o, j
  <2>2. ASSUME NEW x \in Page, ids[x] = Ix(o), body[x].span = j
        PROVE  WorkView(InWork(x), o, SpanAt(n))
    <3> DEFINE w == InWork(x)
    <3>1. fs.obj_lu[x] = Ix(o) /\ IndexBody(body[x])
      BY <1>1, <2>2, BodyIs, LiveAt DEF ids, o
    <3>2. /\ w = [page |-> w.page, obj |-> w.obj, ix |-> w.ix]
          /\ w.page = x /\ w.obj = o /\ w.ix = body[x]
      BY <3>1 DEF InWork, Ix
    <3>3. w # NoWork
      BY WorkHeld
    <3> HIDE DEF w
    <3>4. WorkOk(w)
      BY <1>1, <2>2, <3>1, <3>2 DEF WorkOk, o
    <3>5. Latest(body, w) = body
      BY <1>2, <3>2, LatestAt
    <3>6. w.ix.span = IxSpan(SpanAt(n))
      BY <2>2, <3>2 DEF j
    <3>7. WorkView(w, o, SpanAt(n))
      BY <1>1, <1>4, <2>1, <3>2, <3>3, <3>4, <3>5, <3>6 DEF WorkView
    <3> QED
      BY <3>7 DEF w
  <2>3. PICK x \in Page : ids[x] = Ix(o) /\ ixs[x].span = j
    BY DEF HasIx, o, j
  <2>4. CASE j = 0
    <3>1. HeadIs(ids, ixs, o, ixs[x].size, ixs[x].ixdele)
      BY <2>3, <2>4 DEF HeadIs
    <3>2. Header(o) \in Page /\ ids[Header(o)] = Ix(o) /\ body[Header(o)].span = 0
      BY <1>1, <3>1, HeaderIs DEF o
    <3>3. WorkFor(n) = {InWork(Header(o))}
      BY <1>4, <2>4 DEF WorkFor, j, o
    <3>4. WorkView(InWork(Header(o)), o, SpanAt(n))
      BY <2>2, <2>4, <3>2
    <3> QED
      BY <1>4, <3>3, <3>4 DEF o
  <2>5. CASE j # 0
    <3>1. WorkFor(n) = {InWork(p) : p \in IndexPages(o, j)}
      BY <1>4, <2>5 DEF WorkFor, j, o
    <3>2. ASSUME NEW p \in IndexPages(o, j) PROVE WorkView(InWork(p), o, SpanAt(n))
      <4>1. p \in Page /\ fs.obj_lu[p] = Ix(o) /\ body[p].span = j
        BY <3>2 DEF IndexPages, Ix
      <4>2. ids[p] = Ix(o)
        BY <1>1, <4>1, LiveAt DEF ids, o
      <4> QED
        BY <2>2, <4>1, <4>2
    <3>3. x \in IndexPages(o, j)
      <4>1. fs.obj_lu[x] = Ix(o) /\ body[x].span = j
        BY <1>1, <2>1, <2>3, LiveAt DEF ids, o
      <4> QED
        BY <2>5, <4>1 DEF IndexPages, Ix
    <3> QED
      BY <1>4, <3>1, <3>2, <3>3 DEF o
  <2> QED
    BY <2>4, <2>5
<1> QED
  BY <1>3, <1>4

-----------------------------------------------------------------------------
(* spiffs_object_truncate *)

\* The span of a byte within the model's bounds.
LEMMA SpanFor ==
  ASSUME NEW n \in Nat, n < Top
  PROVE  /\ SpanAt(n) \in Span /\ SpanAt(n) \in Nat
         /\ SpanAt(n) * DataPageSize <= n /\ n < SpanAt(n) * DataPageSize + DataPageSize
         /\ \A k \in Span : k * DataPageSize <= n <=> k <= SpanAt(n)
<1> DEFINE D == DataPageSize  s == SpanAt(n)  M == MaxSpans
<1>1. D \in Nat /\ D > 0 /\ M \in Nat /\ M > 0
  BY StoreAssumption
<1>2. s \in Nat /\ s * D <= n /\ n < s * D + D
  BY SpanOf DEF SpanAt
<1>3. \A j, k \in Nat : j < k => j * D + D <= k * D
  BY SpansApart
<1>4. s < M
  <2>1. n < M * D
    BY DEF Top
  <2>2. M * D \in Nat /\ s * D \in Nat
    BY <1>1, <1>2
  <2>3. ~(M < s)
    <3>1. M < s => M * D + D <= s * D
      BY <1>1, <1>2, <1>3
    <3> HIDE DEF D, s, M
    <3> QED
      BY <1>1, <1>2, <2>1, <2>2, <3>1
  <2>4. M # s
    BY <1>2, <2>1, <2>2
  <2> HIDE DEF D, s, M
  <2> QED
    BY <1>1, <1>2, <2>3, <2>4
<1>5. s \in Span
  BY <1>1, <1>2, <1>4 DEF Span
<1>6. ASSUME NEW k \in Span PROVE k * D <= n <=> k <= s
  <2>1. k \in Nat /\ k * D \in Nat /\ s * D \in Nat
    BY <1>1, <1>2 DEF Span
  <2>2. (k < s => k * D + D <= s * D) /\ (s < k => s * D + D <= k * D)
    BY <1>2, <1>3, <2>1
  <2> HIDE DEF D, s
  <2> QED
    BY <1>1, <1>2, <2>1, <2>2
<1> QED
  BY <1>2, <1>5, <1>6

\* An empty file.
LEMMA EmptyIs == ContentOk(<<>>) /\ Len(<<>>) = 0 /\ SizeField(<<>>) = Unset
<1>1. Top \in Nat
  <2>1. MaxSpans \in Nat /\ DataPageSize \in Nat
    BY StoreAssumption
  <2> QED
    BY <2>1 DEF Top
<1> QED
  BY <1>1 DEF ContentOk, SizeField

\* A data page is deleted while the call holds copy w; an index page, after which it
\* holds none.
LEMMA DropsData ==
  ASSUME Sound, NEW o \in ObjIds, NEW r \in Page, ids[r] = Da(o), DeletedView(r),
         NEW w, WorkOk(w), w.obj = o, Latest(body, w) = ixs, Copy' = w
  PROVE  /\ Drops(ids, ixs, ids', ixs', o, r) /\ Flash(ids', ixs')
         /\ WorkOk(w)' /\ ixs'[w.page] = w.ix /\ body'[w.page] = body[w.page]
<1>1. /\ w = [page |-> w.page, obj |-> w.obj, ix |-> w.ix]
      /\ w.page \in Page /\ ids[w.page] = Ix(o) /\ w # NoWork
      /\ IndexBody(w.ix) /\ IndexBody(body[w.page]) /\ w.ix.span = body[w.page].span
      /\ w.ix.size = body[w.page].size /\ w.ix.ixdele = body[w.page].ixdele
  BY WorkHeld DEF WorkOk
<1>2. w.page # r
  BY <1>1, IdsApart
<1>3. /\ DOMAIN body' = Page /\ body'[r] = Blank /\ \A q \in Page : q # r => body'[q] = body[q]
      /\ \A q \in Page : ids'[q] = IF q = r THEN DELETED ELSE ids[q]
  BY DEF DeletedView, Losing
<1>4. ixs' = Latest(body', w)
  BY DEF ixs, Latest
<1>5. \A q \in Page : ixs'[q] = IF q = w.page THEN w.ix ELSE body'[q]
  BY <1>1, <1>3, <1>4, LatestAt
<1>6. \A q \in Page : ixs[q] = IF q = w.page THEN w.ix ELSE body[q]
  <2>1. DOMAIN body = Page
    BY BodyIs
  <2> QED
    BY <1>1, <2>1, LatestAt
<1>7. Flash(ids', ixs')
  BY <1>1, <1>3, FlashNext
<1>8. ids'[r] = DELETED /\ ixs'[r] = Blank
  BY <1>2, <1>3, <1>5
<1>9. \A q \in Page : q # r => ids'[q] = ids[q] /\ ixs'[q] = ixs[q]
  BY <1>3, <1>5, <1>6
<1>10. Elsewhere(ids, ixs, ids', ixs', {r})
  BY <1>9 DEF Elsewhere
<1>11. Drops(ids, ixs, ids', ixs', o, r)
  BY <1>8, <1>10 DEF Drops
<1>12. WorkOk(w)'
  BY <1>1, <1>2, <1>3 DEF WorkOk
<1> QED
  BY <1>1, <1>2, <1>3, <1>5, <1>7, <1>11, <1>12

\* The deletion of an index page.
LEMMA DropsIndex ==
  ASSUME Sound, NEW o \in ObjIds, NEW r \in Page, ids[r] = Ix(o), DeletedView(r),
         Copy = NoWork \/ Copy.page = r, Copy' = NoWork
  PROVE  Drops(ids, ixs, ids', ixs', o, r) /\ Flash(ids', ixs') /\ ixs' = body'
<1>1. /\ DOMAIN body' = Page /\ body'[r] = Blank /\ \A q \in Page : q # r => body'[q] = body[q]
      /\ \A q \in Page : ids'[q] = IF q = r THEN DELETED ELSE ids[q]
  BY DEF DeletedView, Losing
<1>2. ixs' = body'
  BY DEF ixs, Latest
<1>3. \A q \in Page : q # r => ixs[q] = body[q]
  BY BodyIs
<1>4. Elsewhere(ids, ixs, ids', ixs', {r})
  BY <1>1, <1>2, <1>3 DEF Elsewhere
<1>5. Drops(ids, ixs, ids', ixs', o, r)
  BY <1>1, <1>2, <1>4 DEF Drops
<1>6. Flash(ids', ixs')
  BY <1>1, FlashNext
<1> QED
  BY <1>2, <1>5, <1>6

\* What a cut has at each step.
LEMMA CutNow ==
  ASSUME Sound, gc.pc = "off", call.op \in {"trunc", "remove"}
  PROVE  /\ CutOk /\ CutRec /\ HoldOk /\ CutAt
         /\ call.obj \in ObjIds /\ Copy = call.work /\ call.op \in Working
         /\ call.size \in Nat /\ call.size <= Top
         /\ ContentOk(files[call.obj])
         /\ Shape(ids, ixs, call.obj, call.size, Wanted(files[call.obj], 0, 0, Unset),
                  HeldSpan(call.work), Unset, TRUE)
         /\ \E z \in {Unset} \cup 0..Top :
              HeadIs(ids, ixs, call.obj, z, (call.op = "remove" /\ call.pc # "mark"))
<1>1. CutOk /\ call.op \in Working
  BY CallNow DEF Working
<1>2. CutRec /\ HoldOk /\ CutAt
  BY <1>1, Zenon DEF CutOk
<1>3. /\ Shape(ids, ixs, call.obj, call.size, Wanted(files[call.obj], 0, 0, Unset),
               HeldSpan(call.work), Unset, TRUE)
      /\ \E z \in {Unset} \cup 0..Top :
           HeadIs(ids, ixs, call.obj, z, (call.op = "remove" /\ call.pc # "mark"))
  BY <1>1, Zenon DEF CutOk
<1>4. /\ call.obj \in ObjIds /\ Copy = call.work /\ ContentOk(files[call.obj])
      /\ call.size \in Nat /\ call.size <= Top
  BY <1>1, <1>2, CallNow DEF CutRec
<1> QED
  BY <1>1, <1>2, <1>3, <1>4

\* A cut goes on.
LEMMA CutGoes ==
  ASSUME QuickIsFull, Sound, gc.pc = "off", call.op \in {"trunc", "remove"},
         NEW o, o = call.obj, NEW c, c = files[o],
         [Next]_vars, fs'.cleaning = fs.cleaning, Whole', UNCHANGED <<gc, files>>,
         NEW pc, NEW size \in Nat, size <= Top, NEW w,
         call' = [op |-> call.op, obj |-> call.obj, pc |-> pc, size |-> size, work |-> w],
         Typed(ids', ixs'), Unique(ids', ixs'), OthersKept(ids, ixs, ids', ixs', o),
         w = NoWork \/ (WorkOk(w)' /\ w.obj = o),
         Shape(ids', ixs', o, size, Wanted(c, 0, 0, Unset), HeldSpan(w), Unset, TRUE),
         NEW z \in {Unset} \cup 0..Top,
         HeadIs(ids', ixs', o, z, (call.op = "remove" /\ pc # "mark")),
         CutAt'
  PROVE  Fine
<1>1. /\ CutRec /\ o \in ObjIds /\ ContentOk(c) /\ call.op \in Working
  BY CutNow
<1>2. /\ call'.op = call.op /\ call'.obj = o /\ call'.pc = pc /\ call'.size = size /\ call'.work = w
      /\ call' = [op |-> call'.op, obj |-> call'.obj, pc |-> call'.pc, size |-> call'.size,
                  work |-> call'.work]
  OBVIOUS
<1>3. files'[call'.obj] = c
  BY <1>2
<1>4. CutRec'
  <2>1. ContentOk(files[call.obj])' /\ (call.size <= Top)'
    BY <1>1, <1>2, <1>3 DEF ContentOk, Top
  <2> QED
    BY <1>1, <1>2, <2>1 DEF CutRec
<1>5. HoldOk'
  BY <1>2 DEF HoldOk
<1>6. Shape(ids, ixs, call.obj, call.size, Wanted(files[call.obj], 0, 0, Unset),
            HeldSpan(call.work), Unset, TRUE)'
  BY <1>2, <1>3 DEF Wanted, HeldSpan, Top
<1>7. (\E zz \in {Unset} \cup 0..Top :
         HeadIs(ids, ixs, call.obj, zz, (call.op = "remove" /\ call.pc # "mark")))'
  <2>1. HeadIs(ids, ixs, call.obj, z, (call.op = "remove" /\ call.pc # "mark"))'
    BY <1>2
  <2> QED
    BY <2>1 DEF Top
<1>8. CutOk'
  BY <1>2, <1>4, <1>5, <1>6, <1>7, Zenon DEF CutOk
<1>9. CallOk'
  <2>1. gc'.pc = "off"
    OBVIOUS
  <2> QED
    BY <1>8, <2>1 DEF CallOk
<1> QED
  BY <1>1, <1>2, <1>9, Goes

\* An index page with another size or mark.
LEMMA HeaderBody ==
  ASSUME NEW x, IndexBody(x)
  PROVE  /\ \A z \in Sizes : LET y == [x EXCEPT !.size = z]
                             IN /\ IndexBody(y) /\ y.span = x.span /\ y.size = z
                                /\ y.ixdele = x.ixdele /\ y.refs = x.refs
         /\ \A d \in BOOLEAN : LET y == [x EXCEPT !.ixdele = d]
                               IN /\ IndexBody(y) /\ y.span = x.span /\ y.size = x.size
                                  /\ y.ixdele = d /\ y.refs = x.refs
<1>1. /\ x = [kind |-> "index", span |-> x.span, size |-> x.size, ixdele |-> x.ixdele,
              refs |-> x.refs]
      /\ x.span \in Nat /\ x.size \in Sizes /\ x.ixdele \in BOOLEAN
      /\ x.refs \in [SlotsOf(x.span) -> Refs]
  BY DEF IndexBody
<1>2. ASSUME NEW z \in Sizes
      PROVE  LET y == [x EXCEPT !.size = z]
             IN /\ IndexBody(y) /\ y.span = x.span /\ y.size = z
                /\ y.ixdele = x.ixdele /\ y.refs = x.refs
  <2> DEFINE y == [x EXCEPT !.size = z]
  <2>1. y = [kind |-> "index", span |-> x.span, size |-> z, ixdele |-> x.ixdele, refs |-> x.refs]
    BY <1>1
  <2>2. y.span = x.span /\ y.size = z /\ y.ixdele = x.ixdele /\ y.refs = x.refs
    BY <2>1
  <2>3. IndexBody(y)
    BY <1>1, <2>1, <2>2 DEF IndexBody
  <2> QED
    BY <2>2, <2>3
<1>3. ASSUME NEW d \in BOOLEAN
      PROVE  LET y == [x EXCEPT !.ixdele = d]
             IN /\ IndexBody(y) /\ y.span = x.span /\ y.size = x.size
                /\ y.ixdele = d /\ y.refs = x.refs
  <2> DEFINE y == [x EXCEPT !.ixdele = d]
  <2>1. y = [kind |-> "index", span |-> x.span, size |-> x.size, ixdele |-> d, refs |-> x.refs]
    BY <1>1
  <2>2. y.span = x.span /\ y.size = x.size /\ y.ixdele = d /\ y.refs = x.refs
    BY <2>1
  <2>3. IndexBody(y)
    BY <1>1, <2>1, <2>2 DEF IndexBody
  <2> QED
    BY <2>2, <2>3
<1> QED
  BY <1>2, <1>3

\* A removal is announced.
LEMMA MarksRemoved ==
  ASSUME QuickIsFull, Sound, MarkRemoved
  PROVE  Fine
<1> DEFINE o == call.obj  c == files[o]  h == Header(o)  W == Wanted(c, 0, 0, Unset)
<1>1. /\ gc.pc = "off" /\ call.op = "remove" /\ call.pc = "mark"
      /\ call' = [call EXCEPT !.pc = "cut"]
      /\ UNCHANGED <<fs, aborted, gc, files>>
  BY DEF MarkRemoved, At
<1>2. /\ CutRec /\ HoldOk /\ CutAt /\ o \in ObjIds /\ Copy = call.work
      /\ call.size \in Nat /\ call.size <= Top
      /\ Shape(ids, ixs, o, call.size, W, HeldSpan(call.work), Unset, TRUE)
      /\ \E z \in {Unset} \cup 0..Top :
           HeadIs(ids, ixs, o, z, (call.op = "remove" /\ call.pc # "mark"))
  BY <1>1, CutNow
<1>3. call.work = NoWork
  BY <1>1, <1>2 DEF CutAt, Held
<1>4. PICK z \in {Unset} \cup 0..Top :
         HeadIs(ids, ixs, o, z, (call.op = "remove" /\ call.pc # "mark"))
  BY <1>2
<1>5. HeadIs(ids, ixs, o, z, FALSE)
  <2>1. (call.op = "remove" /\ call.pc # "mark") = FALSE
    BY <1>1
  <2> QED
    BY <1>4, <2>1, Zenon
<1>6. /\ h \in Page /\ ids[h] = Ix(o) /\ ixs[h].span = 0 /\ body[h].size = z
  BY <1>2, <1>5, HeaderIs
<1>7. ixs = body /\ DOMAIN body = Page /\ IndexBody(body[h]) /\ Copy = NoWork
  BY <1>2, <1>3, <1>6, BodyIs DEF ixs, Latest
<1>8. PICK d \in BOOLEAN : d = TRUE
  OBVIOUS
<1> DEFINE y == [body[h] EXCEPT !.ixdele = d]
<1>9. body' = [body EXCEPT ![h] = y]
  <2>1. body' = [body EXCEPT ![h] = [@ EXCEPT !.ixdele = TRUE]]
    BY DEF MarkRemoved
  <2> QED
    BY <1>8, <2>1, Zenon
<1>10. IndexBody(y) /\ y.span = 0 /\ y.size = z /\ y.ixdele = d /\ y.refs = body[h].refs
  BY <1>6, <1>7, HeaderBody
<1> HIDE DEF y, h, o, c, W
<1>11. /\ DOMAIN body' = Page /\ body'[h] = y /\ \A q \in Page : q # h => body'[q] = body[q]
  BY <1>6, <1>7, <1>9
<1>12. Overwritten(o, h, body')
  BY <1>6, <1>10, <1>11 DEF Overwritten
<1>13. /\ Typed(ids, body') /\ Unique(ids, body') /\ OthersKept(ids, ixs, ids, body', o)
       /\ Relocated(ids, ixs, ids, body', o, h, h, y) /\ Flash(ids, body')
  BY <1>2, <1>6, <1>7, <1>11, <1>12, Overwrites
<1>14. Typed(ids, ixs) /\ Unique(ids, ixs)
  BY DEF Sound
<1>15. SameView(ids, ixs, ids, body', o) /\ HeadIs(ids, body', o, z, d)
  <2>1. y.span = ixs[h].span /\ y.refs = ixs[h].refs
    BY <1>6, <1>7, <1>10
  <2>2. /\ y.refs = ixs[h].refs => SameView(ids, ixs, ids, body', o)
        /\ y.span = 0 => HeadIs(ids, body', o, y.size, y.ixdele)
    BY <1>2, <1>6, <1>10, <1>13, <1>14, <2>1, Relocation
  <2> QED
    BY <1>10, <2>1, <2>2
<1>16. /\ call' = [op |-> call.op, obj |-> call.obj, pc |-> "cut", size |-> call.size,
                   work |-> NoWork]
  BY <1>1, <1>2, <1>3 DEF CutRec
<1>17. ids' = ids /\ ixs' = body'
  <2>1. Copy' = NoWork
    BY <1>1, <1>16 DEF Copy, Working
  <2> QED
    BY <1>1, <2>1 DEF ixs, Latest, ids
<1>18. Shape(ids', ixs', o, call.size, W, HeldSpan(NoWork), Unset, TRUE)
  <2>1. Shape(ids, ixs, o, call.size, W, HeldSpan(NoWork), Unset, TRUE)
    BY <1>2, <1>3
  <2>2. Shape(ids, body', o, call.size, W, HeldSpan(NoWork), Unset, TRUE)
    BY <1>2, <1>13, <1>15, <2>1, ShapeKept
  <2> QED
    BY <1>17, <2>2
<1>19. HeadIs(ids', ixs', o, z, (call.op = "remove" /\ "cut" # "mark"))
  <2>1. (call.op = "remove" /\ "cut" # "mark") = d
    BY <1>1, <1>8
  <2> QED
    BY <1>15, <1>17, <2>1, Zenon
<1>20. CutAt'
  BY <1>16 DEF CutAt, Held
<1>21. Whole'
  <2>1. body' = [q \in Page |-> body'[q]]
    BY <1>7, <1>9
  <2> QED
    BY <2>1 DEF Whole
<1>22. [Next]_vars /\ fs'.cleaning = fs.cleaning
  BY <1>1, PagesStep
<1>23. Typed(ids', ixs') /\ Unique(ids', ixs') /\ OthersKept(ids, ixs, ids', ixs', o)
  BY <1>13, <1>17
<1> QED
  BY <1>1, <1>2, <1>16, <1>18, <1>19, <1>20, <1>21, <1>22, <1>23, CutGoes DEF o, c, W

\* Data pages are deleted from the end.
LEMMA CutsData ==
  ASSUME QuickIsFull, Sound, CutData
  PROVE  Fine
<1> DEFINE o == call.obj  c == files[o]  W == Wanted(c, 0, 0, Unset)
           n == call.size - 1  k == SpanAt(n)
<1>1. /\ gc.pc = "off" /\ call.op \in {"trunc", "remove"} /\ call.pc = "cut"
      /\ call.size > 0 /\ ~Switches(n) /\ gc' = gc
  BY DEF CutData, Cutting, At
<1>2. /\ CutRec /\ HoldOk /\ o \in ObjIds /\ Copy = call.work /\ call.op \in Working
      /\ call.size \in Nat /\ call.size <= Top
      /\ Shape(ids, ixs, o, call.size, W, HeldSpan(call.work), Unset, TRUE)
      /\ \E z \in {Unset} \cup 0..Top :
           HeadIs(ids, ixs, o, z, (call.op = "remove" /\ call.pc # "mark"))
  BY <1>1, CutNow
<1>3. n \in Nat /\ n < Top
  <2>1. Top \in Nat
    <3>1. MaxSpans \in Nat /\ DataPageSize \in Nat
      BY StoreAssumption
    <3> QED
      BY <3>1 DEF Top
  <2> QED
    BY <1>1, <1>2, <2>1
<1>4. k \in Span /\ k * DataPageSize <= n /\ n < k * DataPageSize + DataPageSize
  BY <1>3, SpanFor
<1>5. /\ k * DataPageSize \in Nat /\ k * DataPageSize < call.size
      /\ call.size <= k * DataPageSize + DataPageSize
  BY <1>1, <1>2, <1>4, SpanStart
<1>6. Typed(ids, ixs) /\ Unique(ids, ixs)
  BY DEF Sound
<1>7. PICK r \in Page : Slot(ids, ixs, o, k, r) /\ Leads(ids, ixs, o, k, r, W)
  BY <1>2, <1>4, <1>5 DEF Shape, Linked
<1>8. HasIx(ids, ixs, o, IxSpan(k))
  BY <1>7 DEF Slot, HasIx
<1>9. /\ WorkFor(n) # {} /\ \A w \in WorkFor(n) : WorkView(w, o, k)
      /\ call.work # NoWork => WorkFor(n) = {call.work}
  BY <1>1, <1>2, <1>3, <1>8, WorkForIs
<1>10. PICK w \in WorkFor(n) :
         /\ \/ DataCheck(w.ix.refs[k], k) = "ok" /\ DeletePage(w.ix.refs[k])
            \/ /\ DataCheck(w.ix.refs[k], k) \in {"deleted", "ref_free"}
               /\ UNCHANGED <<fs, aborted, body>>
         /\ call' = [call EXCEPT !.size = k * DataPageSize, !.work = w]
         /\ UNCHANGED files
  BY <1>9 DEF CutData
<1> HIDE DEF o, c, W, n, k
<1>11. WorkOk(w) /\ w.obj = o /\ w.ix.span = IxSpan(k) /\ ixs[w.page] = w.ix /\ Latest(body, w) = ixs
       /\ w # NoWork
  BY <1>9 DEF WorkView
<1>12. w.ix.refs[k] = r
  <2>1. w.page \in Page /\ ids[w.page] = Ix(o)
    BY <1>11 DEF WorkOk
  <2>2. Slot(ids, ixs, o, k, w.ix.refs[k])
    BY <1>11, <2>1 DEF Slot
  <2> QED
    BY <1>2, <1>6, <1>7, <2>2, SlotSingle
<1>13. ids[r] = Da(o) /\ ixs[r].span = k /\ body[r].span = k
  <2>1. ids[r] = Da(o) /\ ixs[r].span = k
    BY <1>7 DEF Leads
  <2> QED
    BY <1>2, <2>1, BodyIs
<1>14. r \in Used(fs) /\ fs.obj_lu[r] = Da(o)
  BY <1>2, <1>13, InUse
<1>15. DataCheck(r, k) = "ok"
  <2>1. r # Unset /\ r # Torn
    BY StoreAssumption
  <2>2. fs.obj_lu[r] # DELETED
    BY <1>2, <1>14, IdsApart
  <2>3. IsData(r)
    BY <1>14 DEF IsData, Da
  <2> QED
    BY <1>13, <2>1, <2>2, <2>3 DEF DataCheck
<1>16. DeletePage(r)
  BY <1>10, <1>12, <1>15
<1>17. DeletedView(r)
  BY <1>14, <1>16, Deletes
<1>18. call' = [op |-> call.op, obj |-> call.obj, pc |-> "cut", size |-> k * DataPageSize, work |-> w]
  BY <1>1, <1>2, <1>10 DEF CutRec
<1>19. Copy' = w
  BY <1>1, <1>2, <1>18 DEF Copy
<1>20. /\ Drops(ids, ixs, ids', ixs', o, r) /\ Flash(ids', ixs') /\ WorkOk(w)'
  BY <1>2, <1>11, <1>13, <1>17, <1>19, DropsData
<1>21. /\ Typed(ids', ixs') /\ Unique(ids', ixs') /\ OthersKept(ids, ixs, ids', ixs', o)
       /\ DropsView(ids, ixs, ids', ixs', o, r)
  BY <1>2, <1>6, <1>20, Dropping
<1>22. HeldSpan(w) = IxSpan(k)
  BY <1>11 DEF HeldSpan
<1>23. HeldSpan(call.work) \in {-1, IxSpan(k)}
  <2>1. CASE call.work = NoWork
    BY <2>1 DEF HeldSpan
  <2>2. CASE call.work # NoWork
    BY <1>9, <1>22, <2>2
  <2> QED
    BY <2>1, <2>2
<1>24. Shape(ids', ixs', o, k * DataPageSize, W, HeldSpan(w), Unset, TRUE)
  <2>1. \/ Shape(ids', ixs', o, k * DataPageSize, W, IxSpan(k), Unset, TRUE)
        \/ (HeldSpan(call.work) # IxSpan(k) /\ HeldSpan(call.work) # -1)
    BY <1>2, <1>4, <1>5, <1>6, <1>7, <1>13, <1>20, ShapeCut
  <2> QED
    BY <1>22, <1>23, <2>1
<1>25. PICK z \in {Unset} \cup 0..Top :
         HeadIs(ids, ixs, o, z, (call.op = "remove" /\ call.pc # "mark"))
  BY <1>2
<1>26. HeadIs(ids', ixs', o, z, (call.op = "remove" /\ "cut" # "mark"))
  <2>1. \A d : HeadIs(ids', ixs', o, z, d) <=> HeadIs(ids, ixs, o, z, d)
    BY <1>13, <1>21 DEF DropsView
  <2>2. (call.op = "remove" /\ "cut" # "mark") <=> (call.op = "remove" /\ call.pc # "mark")
    BY <1>1
  <2> QED
    BY <1>1, <1>25, <2>1
<1>27. CutAt'
  <2>1. call'.pc = "cut" /\ call'.size = k * DataPageSize /\ call'.work = w
    BY <1>18
  <2> QED
    BY <1>4, <1>11, <2>1 DEF CutAt
<1>28. Next /\ fs'.cleaning = fs.cleaning /\ Whole'
  BY <1>17 DEF DeletedView
<1>29. k * DataPageSize \in Nat /\ k * DataPageSize <= Top
  <2>1. Top \in Nat
    <3>1. MaxSpans \in Nat /\ DataPageSize \in Nat
      BY StoreAssumption
    <3> QED
      BY <3>1 DEF Top
  <2> QED
    BY <1>2, <1>5, <2>1
<1> QED
  BY <1>1, <1>2, <1>10, <1>11, <1>18, <1>20, <1>21, <1>24, <1>26, <1>27, <1>28, <1>29, CutGoes DEF o, c, W

\* The bound on a file's length.
LEMMA TopIs == Top \in Nat
<1>1. MaxSpans \in Nat /\ DataPageSize \in Nat
  BY StoreAssumption
<1> QED
  BY <1>1 DEF Top

\* The header moves to another page, and only its own fields change.
LEMMA HeaderMoved ==
  ASSUME QuickIsFull, Sound, NEW o \in ObjIds, NEW h \in Page, ids[h] = Ix(o), ixs[h].span = 0,
         NEW c, IndexBody(c), c.span = 0, MovePage(h, c),
         Copy = NoWork \/ Copy.page = h, Copy' = NoWork
  PROVE  /\ MovedView(h, c) /\ ixs' = body' /\ Flash(ids', ixs')
         /\ Relocated(ids, ixs, ids', ixs', o, h, Taken, c) /\ Taken \in Page
         /\ Typed(ids', ixs') /\ Unique(ids', ixs') /\ OthersKept(ids, ixs, ids', ixs', o)
         /\ c.refs = ixs[h].refs => SameView(ids, ixs, ids', ixs', o)
         /\ HeadIs(ids', ixs', o, c.size, c.ixdele)
<1>1. /\ MovedView(h, c) /\ Taken \in Page /\ Flash(ids', ixs')
      /\ Relocated(ids, ixs, ids', ixs', o, h, Taken, c)
  BY MovedIndex
<1>2. ixs' = body'
  BY DEF ixs, Latest
<1>3. Typed(ids, ixs) /\ Unique(ids, ixs)
  BY DEF Sound
<1> DEFINE t == Taken
<1>4. t \in Page /\ Relocated(ids, ixs, ids', ixs', o, h, t, c)
  BY <1>1
<1> HIDE DEF t
<1>5. /\ Typed(ids', ixs') /\ Unique(ids', ixs') /\ OthersKept(ids, ixs, ids', ixs', o)
      /\ c.refs = ixs[h].refs => SameView(ids, ixs, ids', ixs', o)
      /\ c.span = 0 => HeadIs(ids', ixs', o, c.size, c.ixdele)
  BY <1>1, <1>3, <1>4, Relocation
<1> QED
  BY <1>1, <1>2, <1>5

\* An empty index page.
LEMMA EmptyPage ==
  ASSUME NEW j \in Nat
  PROVE  /\ IndexBody(IndexPage(j)) /\ IndexPage(j).span = j /\ IndexPage(j).size = Unset
         /\ IndexPage(j).ixdele = FALSE /\ \A k \in SlotsOf(j) : IndexPage(j).refs[k] = Unset
<1>1. /\ IndexPage(j).span = j /\ IndexPage(j).size = Unset
      /\ IndexPage(j).ixdele = FALSE /\ IndexPage(j).refs = [k \in SlotsOf(j) |-> Unset]
  BY DEF IndexPage
<1>2. [k \in SlotsOf(j) |-> Unset] \in [SlotsOf(j) -> Refs]
  BY Referred
<1>3. IndexBody(IndexPage(j))
  BY <1>1, <1>2 DEF IndexBody, IndexPage, Sizes
<1> QED
  BY <1>1, <1>3

\* An index page left behind is deleted: the object uses none of its slots.
LEMMA CutsIndex ==
  ASSUME QuickIsFull, Sound, CutIndex
  PROVE  Fine
<1> DEFINE o == call.obj  c == files[o]  W == Wanted(c, 0, 0, Unset)
           w == call.work  x == w.page  n == call.size - 1  s == SpanAt(n)
<1>1. /\ gc.pc = "off" /\ call.op \in {"trunc", "remove"} /\ call.pc = "cut"
      /\ call.size > 0 /\ Switches(n) /\ gc' = gc /\ files' = files
      /\ DeletePage(x) /\ call' = [call EXCEPT !.pc = "shrink", !.work = NoWork]
  BY DEF CutIndex, Cutting, At
<1>2. /\ CutRec /\ HoldOk /\ CutAt /\ o \in ObjIds /\ Copy = w /\ call.op \in Working
      /\ call.size \in Nat /\ call.size <= Top
      /\ Shape(ids, ixs, o, call.size, W, HeldSpan(w), Unset, TRUE)
      /\ \E z \in {Unset} \cup 0..Top :
           HeadIs(ids, ixs, o, z, (call.op = "remove" /\ call.pc # "mark"))
  BY <1>1, CutNow
<1>3. w # NoWork /\ w.ix.span # IxSpan(s)
  BY <1>1 DEF Switches
<1>4. WorkOk(w) /\ w.obj = o
  BY <1>2, <1>3 DEF HoldOk
<1>5. x \in Page /\ ids[x] = Ix(o) /\ ixs[x] = w.ix /\ HeldSpan(w) = w.ix.span
  <2>1. x \in Page /\ ids[x] = Ix(o)
    BY <1>4 DEF WorkOk
  <2> QED
    BY <1>2, <1>3, <2>1, BodyIs DEF HeldSpan
<1>6. PICK k \in Span : IxSpan(k) = w.ix.span /\ k * DataPageSize = call.size
  BY <1>1, <1>2, <1>3 DEF CutAt, Held
<1>7. n \in Nat /\ n < Top
  <2>1. Top \in Nat
    <3>1. MaxSpans \in Nat /\ DataPageSize \in Nat
      BY StoreAssumption
    <3> QED
      BY <3>1 DEF Top
  <2> QED
    BY <1>1, <1>2, <2>1
<1>8. s \in Span /\ s \in Nat /\ \A j \in Span : j * DataPageSize <= n <=> j <= s
  BY <1>7, SpanFor
<1>9. k \in Nat /\ s < k
  <2>1. k \in Nat
    BY Referred
  <2>2. ~(k <= s)
    BY <1>2, <1>6, <1>8
  <2> QED
    BY <1>8, <2>1, <2>2
<1>10. IxSpan(s) \in Nat /\ IxSpan(s) < w.ix.span /\ w.ix.span \in Nat
  <2>1. IxSpan(s) \in Nat /\ IxSpan(k) \in Nat /\ IxSpan(s) <= IxSpan(k)
    BY <1>8, <1>9, IxSpanUp
  <2> QED
    BY <1>3, <1>6, <2>1
<1>11. ASSUME NEW j \in Span, j * DataPageSize < call.size PROVE IxSpan(j) # w.ix.span
  <2>1. j * DataPageSize \in Nat /\ j \in Nat
    BY SpanStart, Referred
  <2>2. j <= s
    BY <1>2, <1>8, <1>11, <2>1
  <2>3. IxSpan(j) \in Nat /\ IxSpan(j) <= IxSpan(s)
    BY <1>8, <2>1, <2>2, IxSpanUp
  <2> QED
    BY <1>10, <2>3
<1>12. PICK z \in {Unset} \cup 0..Top :
         HeadIs(ids, ixs, o, z, (call.op = "remove" /\ call.pc # "mark"))
  BY <1>2
<1> HIDE DEF o, c, W, w, x, n, s
<1>13. x \in Used(fs)
  BY <1>2, <1>5, InUse
<1>14. DeletedView(x)
  BY <1>1, <1>13, Deletes
<1>15. call' = [op |-> call.op, obj |-> call.obj, pc |-> "shrink", size |-> call.size, work |-> NoWork]
  BY <1>1, <1>2 DEF CutRec
<1>16. Copy' = NoWork
  BY <1>1, <1>2, <1>15 DEF Copy
<1>17. Drops(ids, ixs, ids', ixs', o, x) /\ Flash(ids', ixs')
  BY <1>2, <1>5, <1>14, <1>16, DropsIndex DEF x
<1>18. Typed(ids, ixs) /\ Unique(ids, ixs)
  BY DEF Sound
<1>19. /\ Typed(ids', ixs') /\ Unique(ids', ixs') /\ OthersKept(ids, ixs, ids', ixs', o)
       /\ DropsView(ids, ixs, ids', ixs', o, x)
  BY <1>2, <1>5, <1>17, <1>18, Dropping
<1>20. Shape(ids', ixs', o, call.size, W, HeldSpan(NoWork), Unset, TRUE)
  <2>1. Shape(ids, ixs, o, call.size, W, ixs[x].span, Unset, TRUE)
    BY <1>2, <1>5
  <2>2. \A j \in Span : j * DataPageSize < call.size => IxSpan(j) # ixs[x].span
    BY <1>5, <1>11
  <2>3. Shape(ids', ixs', o, call.size, W, -1, Unset, TRUE)
    BY <1>2, <1>5, <1>17, <1>18, <2>1, <2>2, ShapeClose
  <2> QED
    BY <2>3 DEF HeldSpan
<1>21. HeadIs(ids', ixs', o, z, (call.op = "remove" /\ "shrink" # "mark"))
  <2> DEFINE d == (call.op = "remove" /\ "shrink" # "mark")
  <2>1. d = (call.op = "remove" /\ call.pc # "mark")
    BY <1>1
  <2>2. HeadIs(ids, ixs, o, z, d)
    BY <1>12, <2>1, Zenon
  <2> HIDE DEF d
  <2>3. PICK p \in Page : ids[p] = Ix(o) /\ ixs[p].span = 0 /\ ixs[p].size = z /\ ixs[p].ixdele = d
    BY <2>2 DEF HeadIs
  <2>4. p # x
    BY <1>5, <1>10, <2>3
  <2>5. ids'[p] = Ix(o) /\ ixs'[p] = ixs[p]
    BY <1>19, <2>3, <2>4 DEF DropsView
  <2>6. HeadIs(ids', ixs', o, z, d)
    BY <2>3, <2>5 DEF HeadIs
  <2> QED
    BY <2>6 DEF d
<1>22. CutAt'
  BY <1>1, <1>15 DEF CutAt, Held
<1>23. [Next]_vars /\ fs'.cleaning = fs.cleaning /\ Whole'
  BY <1>14 DEF DeletedView
<1> QED
  BY <1>1, <1>2, <1>15, <1>19, <1>20, <1>21, <1>22, <1>23, CutGoes DEF o, c, W

\* The header gets the size that is left.
LEMMA CutsHeader ==
  ASSUME QuickIsFull, Sound, CutHeader
  PROVE  Fine
<1> DEFINE o == call.obj  c == files[o]  W == Wanted(c, 0, 0, Unset)  h == Header(o)
           d == (call.op = "remove" /\ call.pc # "mark")
<1>1. /\ gc.pc = "off" /\ call.op \in {"trunc", "remove"} /\ call.pc = "shrink" /\ gc' = gc
  BY DEF CutHeader, At
<1>2. /\ CutRec /\ HoldOk /\ CutAt /\ o \in ObjIds /\ Copy = call.work /\ call.op \in Working
      /\ call.size \in Nat /\ call.size <= Top
      /\ Shape(ids, ixs, o, call.size, W, HeldSpan(call.work), Unset, TRUE)
      /\ \E z \in {Unset} \cup 0..Top : HeadIs(ids, ixs, o, z, d)
  BY <1>1, CutNow
<1>3. call.work = NoWork /\ call.size > 0
  BY <1>1, <1>2 DEF CutAt, Held
<1>4. PICK z \in {Unset} \cup 0..Top : HeadIs(ids, ixs, o, z, d)
  BY <1>2
<1> HIDE DEF o, c, W, d
<1>5. /\ h \in Page /\ ids[h] = Ix(o) /\ ixs[h].span = 0 /\ body[h].ixdele = d
      /\ ixs = body /\ IndexBody(body[h]) /\ Copy = NoWork
  <2>1. /\ h \in Page /\ ids[h] = Ix(o) /\ ixs[h].span = 0 /\ body[h].ixdele = d
    BY <1>2, <1>4, HeaderIs
  <2>2. Copy = NoWork /\ ixs = body
    BY <1>2, <1>3 DEF ixs, Latest
  <2> QED
    BY <1>2, <2>1, <2>2, BodyIs
<1>6. CASE Refuse /\ Break(o) /\ UNCHANGED body
  BY <1>1, <1>2, <1>6, Breaks DEF o
<1>7. CASE /\ MovePage(h, [body[h] EXCEPT !.size = call.size])
           /\ call' = [call EXCEPT !.pc = "cut"]
           /\ UNCHANGED files
  <2> DEFINE y == [body[h] EXCEPT !.size = call.size]
  <2>1. IndexBody(y) /\ y.span = 0 /\ y.size = call.size /\ y.ixdele = d /\ y.refs = ixs[h].refs
    <3>1. call.size \in Sizes
      BY <1>2 DEF Sizes
    <3> QED
      BY <1>5, <3>1, HeaderBody
  <2>2. MovePage(h, y)
    BY <1>7
  <2> HIDE DEF y, h
  <2>3. call' = [op |-> call.op, obj |-> call.obj, pc |-> "cut", size |-> call.size, work |-> NoWork]
    BY <1>2, <1>3, <1>7 DEF CutRec
  <2>4. Copy' = NoWork
    BY <1>1, <1>2, <2>3 DEF Copy
  <2>5. /\ MovedView(h, y)
        /\ Typed(ids', ixs') /\ Unique(ids', ixs') /\ OthersKept(ids, ixs, ids', ixs', o)
        /\ SameView(ids, ixs, ids', ixs', o)
        /\ HeadIs(ids', ixs', o, call.size, d)
    BY <1>2, <1>5, <2>1, <2>2, <2>4, HeaderMoved
  <2>6. Shape(ids', ixs', o, call.size, W, HeldSpan(NoWork), Unset, TRUE)
    BY <1>2, <1>3, <2>5, ShapeKept
  <2>7. HeadIs(ids', ixs', o, call.size, (call.op = "remove" /\ "cut" # "mark"))
    <3>1. (call.op = "remove" /\ "cut" # "mark") = d
      BY <1>1 DEF d
    <3> QED
      BY <2>5, <3>1, Zenon
  <2>8. CutAt'
    BY <2>3 DEF CutAt, Held
  <2>9. [Next]_vars /\ fs'.cleaning = fs.cleaning /\ Whole'
    BY <2>5 DEF MovedView
  <2>10. call.size \in {Unset} \cup 0..Top
    <3>1. Top \in Nat
      BY TopIs
    <3> QED
      BY <1>2, <3>1
  <2> QED
    BY <1>1, <1>2, <1>7, <2>3, <2>5, <2>6, <2>7, <2>8, <2>9, <2>10, CutGoes DEF o, c, W
<1> QED
  BY <1>6, <1>7 DEF CutHeader, o, h

\* The last page goes, or stays as an empty header.
LEMMA CutsFinish ==
  ASSUME QuickIsFull, Sound, CutFinish
  PROVE  Fine
<1> DEFINE o == call.obj  c == files[o]  W == Wanted(c, 0, 0, Unset)  h == Header(o)
           d == (call.op = "remove" /\ call.pc # "mark")
<1>1. /\ gc.pc = "off" /\ call.op \in {"trunc", "remove"} /\ call.pc = "cut" /\ gc' = gc
      /\ call.size = 0
  BY DEF CutFinish, Cutting, At
<1>2. /\ CutRec /\ HoldOk /\ CutAt /\ o \in ObjIds /\ Copy = call.work /\ call.op \in Working
      /\ Shape(ids, ixs, o, 0, W, HeldSpan(call.work), Unset, TRUE)
      /\ \E z \in {Unset} \cup 0..Top : HeadIs(ids, ixs, o, z, d)
      /\ \A q : q # o => ~Busy(q)
  <2>1. \A q : q # o => ~Busy(q)
    BY DEF Busy
  <2> QED
    BY <1>1, <2>1, CutNow
<1>3. PICK z \in {Unset} \cup 0..Top : HeadIs(ids, ixs, o, z, d)
  BY <1>2
<1>4. /\ h \in Page /\ ids[h] = Ix(o) /\ ixs[h].span = 0
      /\ \A p \in Page : ids[p] = Ix(o) /\ ixs[p].span = 0 => p = h
  BY <1>2, <1>3, HeaderIs
<1>5. Copy = NoWork \/ (Copy.page = h /\ HeldSpan(call.work) = 0)
  <2> SUFFICES ASSUME Copy # NoWork PROVE Copy.page = h /\ HeldSpan(call.work) = 0
    OBVIOUS
  <2>1. PICK k \in Span : IxSpan(k) = Copy.ix.span /\ k * DataPageSize = call.size
    BY <1>1, <1>2 DEF CutAt, Held
  <2>2. k = 0
    <3>1. k \in Nat
      BY Referred
    <3>2. 0 < k => 0 * DataPageSize + DataPageSize <= k * DataPageSize
      BY <3>1, SpansApart
    <3> QED
      BY <1>1, <2>1, <3>1, <3>2, SpanStart
  <2>3. Copy.ix.span = 0
    <3>1. IxSpan(0) = 0
      BY IxSpanUp
    <3> QED
      BY <2>1, <2>2, <3>1
  <2>4. Copy.page \in Page /\ ids[Copy.page] = Ix(o) /\ ixs[Copy.page].span = 0
    <3>1. WorkOk(Copy) /\ Copy.obj = o
      BY <1>2 DEF HoldOk
    <3>2. Copy.page \in Page /\ ids[Copy.page] = Ix(o)
      BY <3>1 DEF WorkOk
    <3> QED
      BY <2>3, <3>2, BodyIs
  <2> QED
    BY <1>2, <1>4, <2>3, <2>4 DEF HeldSpan
<1>6. Shape(ids, ixs, o, 0, W, -1, Unset, TRUE)
  <2>1. CASE Copy = NoWork
    BY <1>2, <2>1 DEF HeldSpan
  <2>2. CASE HeldSpan(call.work) = 0
    <3>1. Shape(ids, ixs, o, 0, W, 0, Unset, TRUE)
      BY <1>2, <2>2
    <3> HIDE DEF W
    <3> QED
      BY <3>1, ShapeHeader
  <2> QED
    BY <1>5, <2>1, <2>2
<1>7. Copy = NoWork \/ Copy.page = h
  BY <1>5
<1> HIDE DEF o, c, W, h, d
<1>8. Typed(ids, ixs) /\ Unique(ids, ixs)
  BY DEF Sound
<1>9. CASE Refuse /\ Break(o) /\ UNCHANGED body
  BY <1>1, <1>2, <1>9, Breaks DEF o
<1>10. CASE DeletePage(h) /\ Return(o, NoFile)
  <2>1. DeletedView(h)
    <3>1. h \in Used(fs)
      BY <1>2, <1>4, InUse
    <3> QED
      BY <1>10, <3>1, Deletes
  <2>2. Copy' = NoWork
    BY <1>1, <1>10 DEF Copy, Return, NoCall, Working
  <2>3. Drops(ids, ixs, ids', ixs', o, h) /\ Flash(ids', ixs') /\ ixs' = body'
    BY <1>2, <1>4, <1>7, <2>1, <2>2, DropsIndex
  <2>4. Typed(ids', ixs') /\ Unique(ids', ixs') /\ OthersKept(ids, ixs, ids', ixs', o)
    BY <1>2, <1>4, <1>8, <2>3, Dropping
  <2>5. NoPages(ids', o)
    BY <1>2, <1>4, <1>6, <1>8, <2>3, ShapeGone
  <2>6. [Next]_vars /\ fs'.cleaning = fs.cleaning /\ Whole'
    BY <2>1 DEF DeletedView
  <2>7. Typed(ids', body') /\ Unique(ids', body') /\ OthersKept(ids, ixs, ids', body', o)
    BY <2>3, <2>4
  <2> DEFINE e == NoFile
  <2>8. Return(o, e) /\ e = NoFile
    BY <1>10
  <2> HIDE DEF e
  <2> QED
    BY <1>1, <1>2, <2>5, <2>6, <2>7, <2>8, Ends
<1>11. CASE MovePage(h, IndexPage(0)) /\ Return(o, <<>>)
  <2> DEFINE y == IndexPage(0)  W2 == Wanted(<<>>, 0, 0, Unset)
  <2>1. IndexBody(y) /\ y.span = 0 /\ y.size = Unset /\ y.ixdele = FALSE
    BY EmptyPage
  <2>2. Copy' = NoWork
    BY <1>1, <1>11 DEF Copy, Return, NoCall, Working
  <2>3. MovePage(h, y) /\ y = IndexPage(0)
    BY <1>11
  <2> HIDE DEF y, W2
  <2>4. /\ MovedView(h, y) /\ ixs' = body' /\ Flash(ids', ixs') /\ Taken \in Page
        /\ Relocated(ids, ixs, ids', ixs', o, h, Taken, y)
        /\ Typed(ids', ixs') /\ Unique(ids', ixs') /\ OthersKept(ids, ixs, ids', ixs', o)
    BY <1>2, <1>4, <1>7, <2>1, <2>2, <2>3, HeaderMoved
  <2>5. Shape(ids, ixs, o, 0, W2, -1, Unset, TRUE)
    <3>1. \A k \in Span : ~(k * DataPageSize < 0)
      <4>1. \A k \in Span : k * DataPageSize \in Nat
        BY SpanStart
      <4> QED
        BY <4>1
    <3>2. Linked(ids, ixs, o, 0, W2)
      BY <3>1 DEF Linked
    <3> QED
      BY <1>6, <3>2 DEF Shape
  <2> DEFINE t == Taken
  <2>6. t \in Page /\ Relocated(ids, ixs, ids', ixs', o, h, t, IndexPage(0))
    BY <2>3, <2>4
  <2> HIDE DEF t
  <2>7. /\ Shape(ids', ixs', o, 0, W2, -1, Unset, FALSE)
        /\ HeadIs(ids', ixs', o, Unset, FALSE)
    BY <1>2, <1>4, <1>8, <2>4, <2>5, <2>6, ShapeEmptied
  <2> DEFINE e == <<>>
  <2>8. /\ ContentOk(e)
        /\ Shape(ids', body', o, Len(e), Wanted(e, 0, 0, Unset), -1, Unset, FALSE)
        /\ HeadIs(ids', body', o, SizeField(e), FALSE)
        /\ Return(o, e)
    BY <1>11, <2>4, <2>7, EmptyIs DEF W2
  <2>9. [Next]_vars /\ fs'.cleaning = fs.cleaning /\ Whole'
    BY <2>4 DEF MovedView
  <2>10. Typed(ids', body') /\ Unique(ids', body') /\ OthersKept(ids, ixs, ids', body', o)
    BY <2>4
  <2> HIDE DEF e
  <2> QED
    BY <1>1, <1>2, <2>8, <2>9, <2>10, Ends
<1> QED
  BY <1>9, <1>10, <1>11 DEF CutFinish, o, h

-----------------------------------------------------------------------------
(* What is written. *)

\* What the record of a write says.
LEMMA WriteIs ==
  ASSUME WriteRec
  PROVE  /\ call.obj \in ObjIds /\ ContentOk(files[call.obj]) /\ call.val \in Bytes
         /\ call.full \in BOOLEAN /\ Top \in Nat
         /\ call.base \in Nat /\ call.pos \in Nat /\ call.end \in Nat /\ call.rest \in Nat
         /\ call.base < call.end /\ call.base <= call.pos /\ call.pos <= call.end
         /\ call.end + call.rest <= Top /\ call.end <= Top
<1>1. Top \in Nat
  BY TopIs
<1>2. /\ call.obj \in ObjIds /\ ContentOk(files[call.obj]) /\ call.val \in Bytes
      /\ call.full \in BOOLEAN
      /\ call.base \in Nat /\ call.pos \in Nat /\ call.end \in Nat /\ call.rest \in Nat
      /\ call.base < call.end /\ call.base <= call.pos /\ call.pos <= call.end
      /\ call.end + call.rest <= Top
  BY DEF WriteRec
<1>3. call.end <= Top
  BY <1>1, <1>2
<1> QED
  BY <1>1, <1>2, <1>3

\* The part of the write that lies in the span of the position ends at the end of the
\* span or of the write.
LEMMA NextIs ==
  ASSUME WriteRec, call.pos < call.end, NEW k, k = SpanAt(call.pos)
  PROVE  /\ k \in Span /\ k \in Nat /\ k * DataPageSize \in Nat
         /\ k * DataPageSize <= call.pos /\ call.pos < k * DataPageSize + DataPageSize
         /\ NextPos \in Nat /\ call.pos < NextPos /\ NextPos <= call.end
         /\ NextPos <= k * DataPageSize + DataPageSize
         /\ NextPos < call.end => NextPos = k * DataPageSize + DataPageSize
         /\ NextPos < call.end => SpanAt(NextPos) = k + 1
         /\ WholePage => call.pos = k * DataPageSize /\ NextPos = k * DataPageSize + DataPageSize
         /\ call.pos % DataPageSize = 0 <=> call.pos = k * DataPageSize
<1> DEFINE D == DataPageSize  p == call.pos  e == call.end
<1>1. D \in Nat /\ D > 0
  BY StoreAssumption
<1>2. p \in Nat /\ e \in Nat /\ p < e /\ p < Top
  <2>1. call.pos \in Nat /\ call.end \in Nat /\ call.end <= Top /\ Top \in Nat
    BY WriteIs
  <2> QED
    BY <2>1
<1>3. k \in Span /\ k \in Nat /\ k * D <= p /\ p < k * D + D
  BY <1>2, SpanFor
<1>4. k * D \in Nat
  BY <1>1, <1>3
<1>5. (k + 1) * D = k * D + D
  BY <1>1, <1>3
<1>6. NextPos = IF k * D + D < e THEN k * D + D ELSE e
  BY <1>5 DEF NextPos
<1>7. p % D \in 0..(D - 1) /\ p = k * D + (p % D)
  BY <1>2, SpanOf DEF SpanAt
<1>8. p % D = 0 <=> p = k * D
  BY <1>1, <1>2, <1>4, <1>7
<1> DEFINE b == k * D
<1>9. /\ NextPos \in Nat /\ p < NextPos /\ NextPos <= e /\ NextPos <= b + D
      /\ NextPos < e => NextPos = b + D
  <2> HIDE DEF b, D, p, e
  <2> QED
    BY <1>1, <1>2, <1>3, <1>4, <1>6 DEF b
<1>10. ASSUME NextPos < e PROVE SpanAt(NextPos) = k + 1
  <2>1. NextPos = (k + 1) * D /\ NextPos < (k + 1) * D + D
    BY <1>1, <1>5, <1>9, <1>10
  <2>2. NextPos \in Nat /\ k + 1 \in Nat /\ (k + 1) * D <= NextPos
    BY <1>3, <1>9, <2>1
  <2> QED
    BY <2>1, <2>2, SpanOnly DEF SpanAt
<1>11. ASSUME WholePage PROVE p = b /\ NextPos = b + D
  <2>1. p % D = 0 /\ NextPos - p = D
    BY <1>11 DEF WholePage
  <2>2. p = b
    BY <1>8, <2>1
  <2> HIDE DEF b, D, p
  <2> QED
    BY <1>1, <1>2, <1>9, <2>1, <2>2
<1> QED
  BY <1>3, <1>4, <1>8, <1>9, <1>10, <1>11

\* The bytes of a page once the part in its span is written over.
LEMMA FilledIs ==
  ASSUME WriteRec, call.pos < call.end, NEW k, k = SpanAt(call.pos),
         NEW old \in [0..(DataPageSize - 1) -> Cells]
  PROVE  /\ Filled(old) \in [0..(DataPageSize - 1) -> Cells]
         /\ \A i \in 0..(DataPageSize - 1) :
              Filled(old)[i] = IF call.pos <= k * DataPageSize + i
                                  /\ k * DataPageSize + i < NextPos THEN call.val ELSE old[i]
<1> DEFINE D == DataPageSize
<1>1. call.val \in Cells
  BY WriteIs DEF Cells
<1>2. DOMAIN old = 0..(D - 1)
  OBVIOUS
<1>3. Filled(old) = [i \in 0..(D - 1) |->
                       IF InPage(k, i, call.pos, call.end) THEN call.val ELSE old[i]]
  BY <1>2 DEF Filled
<1>4. ASSUME NEW i \in 0..(D - 1)
      PROVE  InPage(k, i, call.pos, call.end) <=> call.pos <= k * D + i /\ k * D + i < NextPos
  <2>1. /\ D \in Nat /\ k * D \in Nat /\ call.pos \in Nat /\ call.end \in Nat /\ NextPos \in Nat
        /\ NextPos <= call.end
        /\ NextPos < call.end => NextPos = k * D + D
    BY NextIs, WriteIs, SpanStart
  <2>2. InPage(k, i, call.pos, call.end) <=> call.pos <= k * D + i /\ k * D + i < call.end
    BY DEF InPage
  <2> DEFINE b == k * D
  <2>3. (b + i < NextPos) <=> (b + i < call.end)
    <3>1. b \in Nat /\ i \in Nat /\ i < D
      BY <2>1
    <3> HIDE DEF b, D
    <3> QED
      BY <2>1, <3>1 DEF b
  <2> QED
    BY <2>2, <2>3
<1>5. Filled(old) \in [0..(D - 1) -> Cells]
  <2>1. \A i \in 0..(D - 1) : (IF InPage(k, i, call.pos, call.end) THEN call.val ELSE old[i]) \in Cells
    BY <1>1
  <2> QED
    BY <1>3, <2>1
<1>6. \A i \in 0..(D - 1) : Filled(old)[i] = IF call.pos <= k * D + i /\ k * D + i < NextPos
                                              THEN call.val ELSE old[i]
  BY <1>3, <1>4
<1> QED
  BY <1>5, <1>6

\* Bytes of a span are within the bounds.
LEMMA ByteIn ==
  ASSUME NEW k \in Span, NEW i \in 0..(DataPageSize - 1)
  PROVE  k * DataPageSize + i \in 0..Top /\ k * DataPageSize + i < Top
<1> DEFINE D == DataPageSize  M == MaxSpans  b == k * D
<1>1. D \in Nat /\ M \in Nat /\ b \in Nat /\ M * D \in Nat /\ k \in Nat /\ k < M
  <2>1. D \in Nat /\ M \in Nat
    BY StoreAssumption
  <2>2. b \in Nat /\ k \in Nat /\ k < M
    BY SpanStart, Referred
  <2> QED
    BY <2>1, <2>2
<1>2. b + D <= M * D
  BY <1>1, SpansApart
<1>3. Top = M * D
  BY DEF Top
<1> HIDE DEF D, M, b
<1>4. i \in Nat /\ i < D
  BY <1>1 DEF D
<1> QED
  BY <1>1, <1>2, <1>3, <1>4 DEF b, D

\* From pos to next, both within span k, what is wanted changes to v, and nowhere else.
OnView(c, base, pos, next, k, v) ==
  /\ Agree(Wanted(c, base, pos, v), Wanted(c, base, next, v), k)
  /\ \A i \in 0..(DataPageSize - 1) :
       Wanted(c, base, next, v)[k * DataPageSize + i]
         = IF pos <= k * DataPageSize + i /\ k * DataPageSize + i < next
           THEN v ELSE Wanted(c, base, pos, v)[k * DataPageSize + i]

\* What is wanted once the position has moved on within span k.
LEMMA WantedOn ==
  ASSUME NEW c, NEW base \in Nat, NEW pos \in Nat, NEW next \in Nat, NEW k \in Span, NEW v,
         base <= pos, pos <= next,
         k * DataPageSize <= pos, next <= k * DataPageSize + DataPageSize
  PROVE  OnView(c, base, pos, next, k, v)
<1> DEFINE D == DataPageSize  W == Wanted(c, base, pos, v)  X == Wanted(c, base, next, v)
<1>1. D \in Nat /\ k * D \in Nat /\ k \in Nat
  BY SpanStart, Referred
<1>2. \A n \in 0..Top :
        /\ W[n] = IF base <= n /\ n < pos THEN v ELSE IF n < Len(c) THEN c[n + 1] ELSE Unset
        /\ X[n] = IF base <= n /\ n < next THEN v ELSE IF n < Len(c) THEN c[n + 1] ELSE Unset
  BY DEF Wanted
<1>3. ASSUME NEW n \in 0..Top
      PROVE  X[n] = IF pos <= n /\ n < next THEN v ELSE W[n]
  <2>1. n \in Nat
    BY TopIs
  <2> HIDE DEF W, X
  <2> QED
    BY <1>2, <2>1
<1> HIDE DEF W, X
<1>4. ASSUME NEW j \in Span, j # k, NEW i \in 0..(D - 1) PROVE X[j * D + i] = W[j * D + i]
  <2> DEFINE n == j * D + i
  <2>1. n \in 0..Top /\ j \in Nat /\ j * D \in Nat
    BY ByteIn, Referred, SpanStart
  <2>2. ~(pos <= n /\ n < next)
    <3>1. (j < k => j * D + D <= k * D) /\ (k < j => k * D + D <= j * D)
      BY <1>1, <2>1, SpansApart
    <3>2. j < k \/ k < j
      BY <1>1, <1>4, <2>1
    <3> DEFINE b == k * D  a == j * D
    <3>3. b \in Nat /\ a \in Nat /\ i \in Nat /\ i < D /\ b <= pos /\ next <= b + D
          /\ (a + D <= b \/ b + D <= a)
      BY <1>1, <2>1, <3>1, <3>2
    <3> HIDE DEF a, b, D
    <3> QED
      BY <1>1, <3>3 DEF a
  <2> QED
    BY <1>3, <2>1, <2>2
<1>5. Agree(W, X, k)
  BY <1>4 DEF Agree
<1>6. \A i \in 0..(D - 1) : X[k * D + i] = IF pos <= k * D + i /\ k * D + i < next
                                           THEN v ELSE W[k * D + i]
  BY <1>3, ByteIn
<1> QED
  BY <1>5, <1>6 DEF W, X, OnView

\* What the file holds after the part of the write under way.
LEMMA WrittenIs ==
  ASSUME WriteRec, NEW c, c = files[call.obj], call.base <= Len(c)
  PROVE  /\ ContentOk(Written) /\ Len(Written) = IF Len(c) > call.end THEN Len(c) ELSE call.end
         /\ SizeField(Written) = Len(Written)
         /\ Wanted(Written, 0, 0, Unset) = Wanted(c, call.base, call.end, call.val)
<1> DEFINE n == IF Len(c) > call.end THEN Len(c) ELSE call.end
           e == [i \in 1..n |-> IF call.base < i /\ i <= call.end THEN call.val ELSE c[i]]
<1>1. /\ ContentOk(c) /\ call.val \in Bytes /\ call.base \in Nat /\ call.end \in Nat
      /\ call.base < call.end /\ call.end <= Top /\ Top \in Nat
  BY WriteIs
<1>2. c # Unknown /\ c \in Seq(Bytes) /\ Len(c) \in Nat /\ Len(c) <= Top
  BY <1>1, ContentIs
<1>3. Written = e
  BY <1>2 DEF Written
<1>4. n \in Nat /\ n <= Top /\ n > 0
  BY <1>1, <1>2
<1> HIDE DEF n
<1>5. e \in [1..n -> Bytes]
  <2>1. ASSUME NEW i \in 1..n
        PROVE  (IF call.base < i /\ i <= call.end THEN call.val ELSE c[i]) \in Bytes
    <3>1. i \in Nat /\ i >= 1 /\ i <= n
      BY <1>4
    <3>2. CASE call.base < i /\ i <= call.end
      BY <1>1, <3>2
    <3>3. CASE ~(call.base < i /\ i <= call.end)
      <4>1. i <= Len(c)
        BY <1>1, <1>2, <3>1, <3>3 DEF n
      <4>2. i \in 1..Len(c)
        BY <1>2, <3>1, <4>1
      <4> QED
        BY <1>2, <3>3, <4>2
    <3> QED
      BY <3>2, <3>3
  <2> QED
    BY <2>1
<1>6. e \in Seq(Bytes) /\ Len(e) = n
  <2> HIDE DEF e
  <2> QED
    BY <1>4, <1>5
<1>7. ContentOk(e) /\ SizeField(e) = n
  <2> HIDE DEF e
  <2>1. e # <<>>
    BY <1>4, <1>6
  <2> QED
    BY <1>4, <1>6, <2>1 DEF ContentOk, SizeField
<1>8. Wanted(e, 0, 0, Unset) = Wanted(c, call.base, call.end, call.val)
  <2>1. ASSUME NEW m \in 0..Top
        PROVE  (IF 0 <= m /\ m < 0 THEN Unset ELSE IF m < Len(e) THEN e[m + 1] ELSE Unset)
               = (IF call.base <= m /\ m < call.end THEN call.val
                  ELSE IF m < Len(c) THEN c[m + 1] ELSE Unset)
    <3>1. m \in Nat /\ ~(0 <= m /\ m < 0)
      BY <1>1
    <3>2. ASSUME m < n
          PROVE  e[m + 1] = IF call.base <= m /\ m < call.end THEN call.val ELSE c[m + 1]
      <4>1. m + 1 \in 1..n
        BY <1>4, <3>1, <3>2
      <4>2. (call.base < m + 1 /\ m + 1 <= call.end) <=> (call.base <= m /\ m < call.end)
        BY <1>1, <3>1
      <4> QED
        BY <4>1, <4>2
    <3> HIDE DEF e
    <3>3. CASE m < n
      <4>1. (call.base <= m /\ m < call.end) \/ m < Len(c)
        BY <1>1, <1>2, <3>1, <3>3 DEF n
      <4> QED
        BY <1>6, <3>1, <3>2, <3>3, <4>1
    <3>4. CASE ~(m < n)
      <4>1. ~(m < call.end) /\ ~(m < Len(c))
        BY <1>1, <1>2, <3>1, <3>4 DEF n
      <4> QED
        BY <1>6, <3>1, <3>4, <4>1
    <3> QED
      BY <3>3, <3>4
  <2> HIDE DEF e
  <2> QED
    BY <2>1 DEF Wanted
<1> QED
  BY <1>3, <1>6, <1>7, <1>8 DEF n

-----------------------------------------------------------------------------
(* spiffs_object_modify *)

\* What a modification has at each step.
LEMMA ModifyNow ==
  ASSUME Sound, gc.pc = "off", call.op = "write", call.pc = "modify"
  PROVE  /\ WriteRec /\ Modifies /\ HoldOk
         /\ call.obj \in ObjIds /\ Copy = call.work /\ call.op \in Working
         /\ Shape(ids, ixs, call.obj, Len(files[call.obj]),
                  Wanted(files[call.obj], call.base, call.pos, call.val), -1, Unset, FALSE)
         /\ HeadIs(ids, ixs, call.obj, SizeField(files[call.obj]), FALSE)
         /\ Held /\ call.pos < call.end /\ ~call.full => SameRefs(SpanAt(call.pos))
         /\ call.pos = call.end \/ call.full => Held
<1>1. ModifyOk /\ call.op \in Working
  BY CallNow DEF Working
<1>2. call.obj \in ObjIds /\ Copy = call.work
  BY <1>1, CallNow
<1>3. /\ WriteRec /\ Modifies /\ HoldOk
      /\ Shape(ids, ixs, call.obj, Len(files[call.obj]),
               Wanted(files[call.obj], call.base, call.pos, call.val), -1, Unset, FALSE)
      /\ HeadIs(ids, ixs, call.obj, SizeField(files[call.obj]), FALSE)
      /\ Held /\ call.pos < call.end /\ ~call.full => SameRefs(SpanAt(call.pos))
      /\ call.pos = call.end \/ call.full => Held
  BY <1>1, Zenon DEF ModifyOk
<1> QED
  BY <1>1, <1>2, <1>3, Zenon

\* The record of a write whose position, stage and copy change.
Onward(pc, pos, full, w) ==
  [op |-> "write", obj |-> call.obj, pc |-> pc, base |-> call.base, pos |-> pos,
   end |-> call.end, rest |-> call.rest, val |-> call.val, full |-> full, work |-> w]

\* The record of a write that goes on is one of a write.
LEMMA OnwardRec ==
  ASSUME WriteRec, UNCHANGED files, NEW pc, NEW pos \in Nat, call.base <= pos, pos <= call.end,
         NEW full \in BOOLEAN, NEW w, call' = Onward(pc, pos, full, w)
  PROVE  /\ WriteRec'
         /\ call'.op = "write" /\ call'.obj = call.obj /\ call'.pc = pc
         /\ call'.base = call.base /\ call'.pos = pos /\ call'.end = call.end
         /\ call'.rest = call.rest /\ call'.val = call.val /\ call'.full = full /\ call'.work = w
         /\ Modifies /\ pc \in {"modify", "replace"} => Modifies'
         /\ Appends /\ pc = "append" => Appends'
<1>1. /\ call'.op = "write" /\ call'.obj = call.obj /\ call'.pc = pc
      /\ call'.base = call.base /\ call'.pos = pos /\ call'.end = call.end
      /\ call'.rest = call.rest /\ call'.val = call.val /\ call'.full = full /\ call'.work = w
      /\ call' = [op |-> "write", obj |-> call'.obj, pc |-> call'.pc, base |-> call'.base,
                  pos |-> call'.pos, end |-> call'.end, rest |-> call'.rest, val |-> call'.val,
                  full |-> call'.full, work |-> call'.work]
  BY DEF Onward
<1>2. ContentOk(files[call.obj])'
  BY <1>1, WriteIs DEF ContentOk, Top
<1>3. WriteRec'
  <2>1. (call.end + call.rest <= Top)'
    BY <1>1, WriteIs DEF Top
  <2> QED
    BY <1>1, <1>2, <2>1, WriteIs DEF WriteRec
<1>4. /\ Modifies /\ pc \in {"modify", "replace"} => Modifies'
      /\ Appends /\ pc = "append" => Appends'
  BY <1>1 DEF Modifies, Appends
<1> QED
  BY <1>1, <1>3, <1>4

\* A modification goes on.
LEMMA ModifyGoes ==
  ASSUME QuickIsFull, Sound, gc.pc = "off", call.op = "write", WriteRec, Modifies,
         NEW o, o = call.obj, NEW c, c = files[o],
         [Next]_vars, fs'.cleaning = fs.cleaning, Whole', UNCHANGED <<gc, files>>,
         NEW pos \in Nat, call.base <= pos, pos <= call.end, NEW full \in BOOLEAN, NEW w,
         call' = Onward("modify", pos, full, w),
         Typed(ids', ixs'), Unique(ids', ixs'), OthersKept(ids, ixs, ids', ixs', o),
         w = NoWork \/ (WorkOk(w)' /\ w.obj = o),
         Shape(ids', ixs', o, Len(c), Wanted(c, call.base, pos, call.val), -1, Unset, FALSE),
         HeadIs(ids', ixs', o, SizeField(c), FALSE),
         w # NoWork /\ pos < call.end /\ ~full =>
           \A k \in SlotsOf(w.ix.span) : k >= SpanAt(pos) => body'[w.page].refs[k] = w.ix.refs[k],
         pos = call.end \/ full => w # NoWork
  PROVE  Fine
<1>1. /\ WriteRec' /\ Modifies'
      /\ call'.op = "write" /\ call'.obj = o /\ call'.pc = "modify"
      /\ call'.base = call.base /\ call'.pos = pos /\ call'.end = call.end
      /\ call'.val = call.val /\ call'.full = full /\ call'.work = w
  BY OnwardRec
<1>2. files'[call'.obj] = c
  BY <1>1
<1>3. HoldOk'
  BY <1>1 DEF HoldOk
<1>4. Shape(ids, ixs, call.obj, Len(files[call.obj]),
            Wanted(files[call.obj], call.base, call.pos, call.val), -1, Unset, FALSE)'
  BY <1>1, <1>2 DEF Wanted, Top
<1>5. HeadIs(ids, ixs, call.obj, SizeField(files[call.obj]), FALSE)'
  BY <1>1, <1>2 DEF SizeField
<1>6. (Held /\ call.pos < call.end /\ ~call.full => SameRefs(SpanAt(call.pos)))'
  BY <1>1 DEF Held, SameRefs, SpanAt
<1>7. (call.pos = call.end \/ call.full => Held)'
  BY <1>1 DEF Held
<1>8. ModifyOk'
  BY <1>1, <1>3, <1>4, <1>5, <1>6, <1>7, Zenon DEF ModifyOk
<1>9. CallOk'
  <2>1. gc'.pc = "off"
    OBVIOUS
  <2> QED
    BY <1>8, <2>1 DEF CallOk
<1>10. call.op \in Working
  BY DEF Working
<1> QED
  BY <1>1, <1>9, <1>10, Goes

\* The index page held in RAM is moved to the flash.
LEMMA CopyStored ==
  ASSUME QuickIsFull, Sound, NEW o \in ObjIds, NEW w, w # NoWork, WorkOk(w), w.obj = o, Copy = w,
         MovePage(w.page, w.ix), Copy' = NoWork
  PROVE  /\ Next /\ IInv' /\ fs'.cleaning = fs.cleaning /\ Whole' /\ ixs' = body'
         /\ Typed(ids', ixs') /\ Unique(ids', ixs') /\ OthersKept(ids, ixs, ids', ixs', o)
         /\ SameView(ids, ixs, ids', ixs', o)
         /\ \A z, d : HeadIs(ids, ixs, o, z, d) => HeadIs(ids', ixs', o, z, d)
<1> DEFINE x == w.page
<1>1. x \in Page /\ ids[x] = Ix(o) /\ ixs[x] = w.ix
  <2>1. x \in Page /\ ids[x] = Ix(o)
    BY DEF WorkOk
  <2> QED
    BY <2>1, BodyIs
<1>2. MovePage(x, ixs[x]) /\ Copy.page = x
  BY <1>1
<1> HIDE DEF x
<1>3. /\ MovedView(x, ixs[x]) /\ Taken \in Page /\ Flash(ids', ixs')
      /\ Relocated(ids, ixs, ids', ixs', o, x, Taken, ixs[x])
  BY <1>1, <1>2, MovedIndex
<1>4. /\ Typed(ids', ixs') /\ Unique(ids', ixs') /\ OthersKept(ids, ixs, ids', ixs', o)
      /\ SameView(ids, ixs, ids', ixs', o)
      /\ \A z, d : HeadIs(ids, ixs, o, z, d) => HeadIs(ids', ixs', o, z, d)
  BY <1>1, <1>3, Copied DEF Sound
<1>5. ixs' = body'
  BY DEF ixs, Latest
<1> QED
  BY <1>3, <1>4, <1>5 DEF MovedView

\* On a switch the index page left is stored.
LEMMA ModifiesStore ==
  ASSUME QuickIsFull, Sound, ModifyStore
  PROVE  Fine
<1> DEFINE o == call.obj  c == files[o]  W == Wanted(c, call.base, call.pos, call.val)  w == call.work
<1>1. /\ gc.pc = "off" /\ call.op = "write" /\ call.pc = "modify" /\ gc' = gc
      /\ call.pos < call.end /\ ~call.full /\ w # NoWork
  BY DEF ModifyStore, At, Switches
<1>2. /\ WriteRec /\ Modifies /\ HoldOk
      /\ o \in ObjIds /\ Copy = w /\ call.op \in Working
      /\ Shape(ids, ixs, o, Len(c), W, -1, Unset, FALSE)
      /\ HeadIs(ids, ixs, o, SizeField(c), FALSE)
  BY <1>1, ModifyNow
<1>3. CASE Refuse /\ Break(o) /\ UNCHANGED body
  BY <1>1, <1>2, <1>3, Breaks
<1>4. CASE MovePage(w.page, w.ix) /\ call' = [call EXCEPT !.work = NoWork] /\ UNCHANGED files
  <2>1. WorkOk(w) /\ w.obj = o
    BY <1>1, <1>2 DEF HoldOk
  <2>2. PICK b \in BOOLEAN : b = call.full
    BY <1>2, WriteIs
  <2>3. call' = Onward("modify", call.pos, b, NoWork) /\ ~b
    BY <1>1, <1>2, <1>4, <2>2 DEF WriteRec, Onward
  <2>4. Copy' = NoWork
    BY <1>1, <2>3 DEF Copy, Onward
  <2> HIDE DEF o, c, W, w
  <2>5. /\ Next /\ fs'.cleaning = fs.cleaning /\ Whole' /\ ixs' = body'
        /\ Typed(ids', ixs') /\ Unique(ids', ixs') /\ OthersKept(ids, ixs, ids', ixs', o)
        /\ SameView(ids, ixs, ids', ixs', o)
        /\ \A z, d : HeadIs(ids, ixs, o, z, d) => HeadIs(ids', ixs', o, z, d)
    BY <1>1, <1>2, <1>4, <2>1, <2>4, CopyStored
  <2>6. Shape(ids', ixs', o, Len(c), W, -1, Unset, FALSE)
    BY <1>2, <2>5, ShapeKept
  <2>7. HeadIs(ids', ixs', o, SizeField(c), FALSE)
    BY <1>2, <2>5
  <2>8. call.pos \in Nat /\ call.base <= call.pos /\ call.pos <= call.end /\ call.pos # call.end
    BY <1>1, <1>2, WriteIs
  <2> QED
    BY <1>1, <1>2, <1>4, <2>3, <2>5, <2>6, <2>7, <2>8, ModifyGoes DEF o, c, W
<1> QED
  BY <1>3, <1>4 DEF ModifyStore

\* The index page for the position, and the page its slot leads to.
SlotView(w, o, k, r, W) ==
  /\ r \in Page /\ ids[r] = Da(o) /\ ixs[r].span = k /\ w.ix.refs[k] = r
  /\ Leads(ids, ixs, o, k, r, W) /\ Slot(ids, ixs, o, k, r)
  /\ body[r] \in DataBody /\ body[r] = ixs[r] /\ r \in Used(fs)
  /\ DataCheck(r, k) = "ok"

\* The slot of a span of the file, in the copy of its index page, leads to its bytes.
LEMMA SlotFor ==
  ASSUME Sound, gc.pc = "off", NEW o \in ObjIds, NEW k \in Span, NEW w, WorkView(w, o, k),
         NEW n, NEW W, NEW hs, NEW x, NEW cut, Shape(ids, ixs, o, n, W, hs, x, cut),
         k * DataPageSize < n
  PROVE  SlotView(w, o, k, w.ix.refs[k], W)
<1>1. PICK r \in Page : Slot(ids, ixs, o, k, r) /\ Leads(ids, ixs, o, k, r, W)
  BY DEF Shape, Linked
<1>2. WorkOk(w) /\ w.obj = o /\ w.ix.span = IxSpan(k) /\ ixs[w.page] = w.ix
  BY DEF WorkView
<1>3. w.ix.refs[k] = r
  <2>1. w.page \in Page /\ ids[w.page] = Ix(o)
    BY <1>2 DEF WorkOk
  <2>2. Slot(ids, ixs, o, k, w.ix.refs[k])
    BY <1>2, <2>1 DEF Slot
  <2> QED
    BY <1>1, <2>2, SlotSingle DEF Sound
<1>4. ids[r] = Da(o) /\ ixs[r].span = k /\ body[r] = ixs[r] /\ body[r] \in DataBody
  <2>1. ids[r] = Da(o) /\ ixs[r].span = k
    BY <1>1 DEF Leads
  <2> QED
    BY <2>1, BodyIs
<1>5. r \in Used(fs) /\ fs.obj_lu[r] = Da(o)
  BY <1>4, InUse
<1>6. DataCheck(r, k) = "ok"
  <2>1. r # Unset /\ r # Torn
    BY StoreAssumption
  <2>2. fs.obj_lu[r] # DELETED
    BY <1>5, IdsApart
  <2>3. IsData(r)
    BY <1>5 DEF IsData, Da
  <2> QED
    BY <1>4, <2>1, <2>2, <2>3 DEF DataCheck
<1> QED
  BY <1>1, <1>3, <1>4, <1>5, <1>6 DEF SlotView

\* A data page is written and noted in the copy w held then; v is the copy with it.
AddedView(w, v, o, k, t, b) ==
  /\ Adds(ids, ixs, ids', ixs', o, w.page, k, t, b) /\ Flash(ids', ixs')
  /\ Typed(ids', ixs') /\ Unique(ids', ixs') /\ OthersKept(ids, ixs, ids', ixs', o)
  /\ AddsView(ids, ixs, ids', ixs', o, k, t)
  /\ WorkOk(v)' /\ v.obj = o /\ v # NoWork /\ v.page = w.page /\ v.ix.span = w.ix.span
  /\ v.ix.refs[k] = t
  /\ \A j \in SlotsOf(w.ix.span) : j # k => v.ix.refs[j] = w.ix.refs[j]
  /\ \A q \in Page : q # t => body'[q] = body[q]
  /\ t \in Page /\ ids[t] = DELETED

\* A new data page whose place is noted in the copy of the index page.
LEMMA DataAdded ==
  ASSUME Sound, NEW o \in ObjIds, NEW k \in Span, NEW w, WorkView(w, o, k),
         NEW b \in DataBody, b.span = k, AllocatedView(Da(o), b),
         NEW t, t = Taken, NEW v, v = Noted(w, k, t), Copy' = v
  PROVE  AddedView(w, v, o, k, t, b)
<1> DEFINE x == w.page
<1>1. WorkOk(w) /\ w.obj = o /\ w.ix.span = IxSpan(k) /\ ixs[x] = w.ix /\ Latest(body, w) = ixs
      /\ w # NoWork
  BY DEF WorkView
<1>2. /\ w = [page |-> w.page, obj |-> w.obj, ix |-> w.ix]
      /\ x \in Page /\ ids[x] = Ix(o) /\ IndexBody(w.ix)
      /\ IndexBody(body[x]) /\ w.ix.span = body[x].span
      /\ w.ix.size = body[x].size /\ w.ix.ixdele = body[x].ixdele
  BY <1>1 DEF WorkOk
<1>3. DOMAIN body = Page
  BY BodyIs
<1>4. \A q \in Page : ixs[q] = IF q = x THEN w.ix ELSE body[q]
  BY <1>1, <1>3, LatestAt
<1>5. /\ t \in Page /\ ids[t] = DELETED
      /\ \A q \in Page : ids'[q] = IF q = t THEN Da(o) ELSE ids[q]
  BY DEF AllocatedView, Taking
<1>6. body'[t] = b /\ DOMAIN body' = Page /\ \A q \in Page : q # t => body'[q] = body[q]
  BY DEF AllocatedView
<1>7. t # x
  BY <1>2, <1>5, IdsApart
<1>8. k \in SlotsOf(w.ix.span) /\ t \in Refs
  BY <1>1, <1>5, Referred
<1>9. NotedView(w, k, t, v)
  BY <1>2, <1>8, NotedIs, Zenon
<1>10. /\ v = [page |-> v.page, obj |-> v.obj, ix |-> v.ix]
       /\ v.page = x /\ v.obj = o
       /\ v.ix = [w.ix EXCEPT !.refs = [@ EXCEPT ![k] = t]]
       /\ IndexBody(v.ix) /\ v.ix.span = w.ix.span /\ v.ix.size = w.ix.size
       /\ v.ix.ixdele = w.ix.ixdele /\ v.ix.refs[k] = t
       /\ \A j \in SlotsOf(w.ix.span) : j # k => v.ix.refs[j] = w.ix.refs[j]
  BY <1>1, <1>9, Zenon DEF NotedView
<1> HIDE DEF x
<1>11. v # NoWork
  <2>1. v.page # Unset /\ NoWork.page = Unset
    BY <1>2, <1>10, Referred DEF NoWork
  <2> QED
    BY <2>1
<1>12. Flash(ids', ixs') /\ DOMAIN ixs' = Page
       /\ \A q \in Page : ixs'[q] = IF q = x THEN v.ix ELSE body'[q]
  <2>1. Flash(ids', ixs') /\ DOMAIN ixs' = Page
    BY <1>2, <1>6, <1>10, FlashNext
  <2>2. ixs' = Latest(body', v)
    BY DEF ixs, Latest
  <2>3. \A q \in Page : Latest(body', v)[q] = IF q = v.page THEN v.ix ELSE body'[q]
    <3>1. DOMAIN body' = Page
      BY <1>6
    <3> DEFINE f == body'
    <3>2. DOMAIN f = Page
      BY <3>1
    <3> HIDE DEF f
    <3>3. \A q \in Page : Latest(f, v)[q] = IF q = v.page THEN v.ix ELSE f[q]
      BY <1>11, <3>2 DEF Latest
    <3> QED
      BY <3>3 DEF f
  <2> QED
    BY <1>10, <2>1, <2>2, <2>3
<1>13. Adds(ids, ixs, ids', ixs', o, x, k, t, b)
  <2>1. ixs[x].span = IxSpan(k)
    BY <1>1, <1>2, <1>4
  <2>2. ids'[x] = Ix(o) /\ ids'[t] = Da(o) /\ ixs'[t] = b
    BY <1>2, <1>5, <1>6, <1>7, <1>12
  <2>3. ixs'[x] = [ixs[x] EXCEPT !.refs = [@ EXCEPT ![k] = t]]
    BY <1>2, <1>4, <1>10, <1>12
  <2>4. Elsewhere(ids, ixs, ids', ixs', {x, t})
    BY <1>4, <1>5, <1>6, <1>12 DEF Elsewhere
  <2> QED
    BY <1>2, <1>5, <2>1, <2>2, <2>3, <2>4, Zenon DEF Adds
<1>14. Typed(ids, ixs) /\ Unique(ids, ixs)
  BY DEF Sound
<1>15. /\ Typed(ids', ixs') /\ Unique(ids', ixs') /\ OthersKept(ids, ixs, ids', ixs', o)
       /\ AddsView(ids, ixs, ids', ixs', o, k, t)
  BY <1>2, <1>5, <1>12, <1>13, <1>14, Adding
<1>16. WorkOk(v)'
  <2>1. ids'[x] = Ix(o) /\ body'[x] = body[x]
    BY <1>2, <1>5, <1>6, <1>7
  <2> QED
    BY <1>2, <1>10, <2>1 DEF WorkOk, x
<1>17. Adds(ids, ixs, ids', ixs', o, w.page, k, t, b)
  BY <1>13 DEF x
<1>18. v.page = w.page
  BY <1>10 DEF x
<1> QED
  BY <1>5, <1>6, <1>10, <1>11, <1>12, <1>15, <1>16, <1>17, <1>18, Zenon DEF AddedView

\* A span of the file is written anew, and noted in RAM.
LEMMA ModifiesData ==
  ASSUME QuickIsFull, Sound, ModifyData
  PROVE  Fine
<1> DEFINE o == call.obj  c == files[o]  W == Wanted(c, call.base, call.pos, call.val)
           X == Wanted(c, call.base, NextPos, call.val)  k == SpanAt(call.pos)  D == DataPageSize
<1>1. /\ gc.pc = "off" /\ call.op = "write" /\ call.pc = "modify" /\ gc' = gc
      /\ call.pos < call.end /\ ~call.full /\ ~Switches(call.pos)
  BY DEF ModifyData, At
<1>2. /\ WriteRec /\ Modifies /\ HoldOk
      /\ o \in ObjIds /\ Copy = call.work /\ call.op \in Working
      /\ Shape(ids, ixs, o, Len(c), W, -1, Unset, FALSE)
      /\ HeadIs(ids, ixs, o, SizeField(c), FALSE)
      /\ Held => SameRefs(k)
  BY <1>1, ModifyNow
<1>3. /\ k \in Span /\ k \in Nat /\ k * D \in Nat /\ k * D <= call.pos /\ call.pos < k * D + D
      /\ NextPos \in Nat /\ call.pos < NextPos /\ NextPos <= call.end /\ NextPos <= k * D + D
      /\ WholePage => call.pos = k * D /\ NextPos = k * D + D
  BY <1>1, <1>2, NextIs
<1>4. /\ call.pos \in Nat /\ call.base \in Nat /\ call.end \in Nat /\ call.base <= call.pos
      /\ Len(c) \in Nat /\ k * D < Len(c) /\ call.val \in Bytes
  <2>1. call.pos \in Nat /\ call.base \in Nat /\ call.end \in Nat /\ call.base <= call.pos
        /\ call.val \in Bytes /\ ContentOk(c)
    BY <1>2, WriteIs
  <2>2. Len(c) \in Nat
    BY <2>1, ContentIs
  <2>3. call.end <= Len(c)
    BY <1>2 DEF Modifies
  <2> QED
    BY <1>1, <1>3, <2>1, <2>2, <2>3
<1>5. HasIx(ids, ixs, o, IxSpan(k))
  <2>1. PICK r \in Page : Slot(ids, ixs, o, k, r)
    BY <1>2, <1>3, <1>4 DEF Shape, Linked
  <2> QED
    BY <2>1 DEF Slot, HasIx
<1>6. /\ WorkFor(call.pos) # {} /\ \A w \in WorkFor(call.pos) : WorkView(w, o, k)
      /\ call.work # NoWork => WorkFor(call.pos) = {call.work}
  BY <1>1, <1>2, <1>4, <1>5, WorkForIs
<1> DEFINE Was(r) == IF WholePage THEN [i \in 0..(D - 1) |-> Unset] ELSE body[r].bytes
<1>7. PICK w \in WorkFor(call.pos) :
         IF WholePage \/ DataCheck(w.ix.refs[k], k) = "ok"
         THEN \/ /\ AllocatePage(<<o, "data">>, DataPage(k, Filled(Was(w.ix.refs[k]))))
                 /\ call' = [call EXCEPT !.pc = "replace", !.work = Noted(w, k, Taken)]
                 /\ UNCHANGED files
              \/ /\ Refuse
                 /\ call' = [call EXCEPT !.full = TRUE, !.work = w]
                 /\ UNCHANGED <<body, files>>
         ELSE Break(o) /\ UNCHANGED <<fs, aborted, body>>
  BY <1>6 DEF ModifyData
<1> DEFINE r == w.ix.refs[k]
<1>8. WorkView(w, o, k)
  BY <1>6
<1>9. /\ r \in Page /\ ids[r] = Da(o) /\ Leads(ids, ixs, o, k, r, W) /\ Slot(ids, ixs, o, k, r)
      /\ body[r] \in DataBody /\ body[r] = ixs[r] /\ DataCheck(r, k) = "ok"
  <2> HIDE DEF o, k, c, W, D
  <2>1. SlotView(w, o, k, w.ix.refs[k], W)
    BY <1>1, <1>2, <1>3, <1>4, <1>8, SlotFor DEF D
  <2> QED
    BY <2>1 DEF SlotView
<1>10. /\ WorkOk(w) /\ w.obj = o /\ w.ix.span = IxSpan(k) /\ w # NoWork
       /\ w.page \in Page /\ IndexBody(body[w.page]) /\ w.ix.span = body[w.page].span
       /\ ids[w.page] = Ix(o) /\ ixs[w.page] = w.ix /\ Latest(body, w) = ixs
  BY <1>8 DEF WorkView, WorkOk
<1>11. \A j \in SlotsOf(w.ix.span) : j >= k => body[w.page].refs[j] = w.ix.refs[j]
  <2>1. CASE call.work = NoWork
    BY <1>8, <2>1 DEF WorkView
  <2>2. CASE call.work # NoWork
    BY <1>2, <1>6, <2>2 DEF Held, SameRefs
  <2> QED
    BY <2>1, <2>2
<1>12. k \in SlotsOf(w.ix.span)
  BY <1>3, <1>10, Referred
<1>13. CASE /\ Refuse
            /\ call' = [call EXCEPT !.full = TRUE, !.work = w]
            /\ UNCHANGED <<body, files>>
  <2>1. PICK f \in BOOLEAN : f = TRUE
    OBVIOUS
  <2>2. call' = Onward("modify", call.pos, f, w)
    BY <1>1, <1>2, <1>13, <2>1 DEF WriteRec, Onward
  <2>3. Copy' = w
    BY <1>1, <2>2 DEF Copy, Onward, Working
  <2>4. [Next]_vars /\ fs'.cleaning = fs.cleaning /\ ids' = ids
    BY <1>13, PagesStep, OtherLive DEF Sound, ids
  <2>5. ixs' = ixs
    BY <1>10, <1>13, <2>3 DEF ixs, Latest
  <2>6. Whole'
    BY <1>13 DEF Sound, Whole
  <2>7. Typed(ids', ixs') /\ Unique(ids', ixs') /\ OthersKept(ids, ixs, ids', ixs', o)
    BY <2>4, <2>5 DEF Sound, OthersKept, Untouched
  <2>8. WorkOk(w)'
    BY <1>10, <1>13, <2>4 DEF WorkOk
  <2>9. /\ Shape(ids', ixs', o, Len(c), W, -1, Unset, FALSE)
        /\ HeadIs(ids', ixs', o, SizeField(c), FALSE)
    BY <1>2, <2>4, <2>5
  <2>10. call.pos <= call.end
    BY <1>1, <1>4
  <2> HIDE DEF k, r, D
  <2> QED
    BY <1>1, <1>2, <1>4, <1>10, <1>13, <2>1, <2>2, <2>4, <2>6, <2>7, <2>8, <2>9, <2>10, ModifyGoes
<1>14. CASE /\ AllocatePage(<<o, "data">>, DataPage(k, Filled(Was(r))))
            /\ call' = [call EXCEPT !.pc = "replace", !.work = Noted(w, k, Taken)]
            /\ UNCHANGED files
  <2> DEFINE old == Was(r)  b == DataPage(k, Filled(old))
  <2>1. old \in [0..(D - 1) -> Cells]
    <3>1. body[r].bytes \in [0..(D - 1) -> Cells]
      BY <1>9 DEF DataBody
    <3>2. [i \in 0..(D - 1) |-> Unset] \in [0..(D - 1) -> Cells]
      BY DEF Cells
    <3> QED
      BY <3>1, <3>2
  <2>2. \A i \in 0..(D - 1) : ~WholePage => old[i] = W[k * D + i]
    BY <1>9 DEF Leads
  <2> HIDE DEF old
  <2>3. /\ Filled(old) \in [0..(D - 1) -> Cells]
        /\ \A i \in 0..(D - 1) : Filled(old)[i] = IF call.pos <= k * D + i /\ k * D + i < NextPos
                                                  THEN call.val ELSE old[i]
    BY <1>1, <1>2, <2>1, FilledIs
  <2>4. b \in DataBody /\ b.span = k /\ b.bytes = Filled(old)
    BY <1>3, <2>3 DEF DataPage, DataBody
  <2>5. /\ Agree(W, X, k)
        /\ \A i \in 0..(D - 1) : X[k * D + i] = IF call.pos <= k * D + i /\ k * D + i < NextPos
                                                THEN call.val ELSE W[k * D + i]
    <3>1. /\ k \in Span /\ call.base \in Nat /\ call.pos \in Nat /\ NextPos \in Nat
          /\ call.base <= call.pos /\ call.pos <= NextPos
          /\ k * DataPageSize <= call.pos /\ NextPos <= k * DataPageSize + DataPageSize
      BY <1>3, <1>4
    <3> DEFINE bs == call.base  ps == call.pos  nx == NextPos  vl == call.val
    <3>2. /\ k \in Span /\ bs \in Nat /\ ps \in Nat /\ nx \in Nat
          /\ bs <= ps /\ ps <= nx
          /\ k * DataPageSize <= ps /\ nx <= k * DataPageSize + DataPageSize
      BY <3>1
    <3> HIDE DEF k, c, bs, ps, nx, vl
    <3>3. OnView(c, bs, ps, nx, k, vl)
      BY <3>2, WantedOn, Zenon
    <3> QED
      BY <3>3, Zenon DEF OnView, bs, ps, nx, vl, W, X, D
  <2>6. Holds(b, X, k)
    <3>1. ASSUME NEW i \in 0..(D - 1) PROVE b.bytes[i] = X[k * D + i]
      <4>1. CASE WholePage
        <5>1. call.pos <= k * D + i /\ k * D + i < NextPos
          <6> DEFINE a == k * D
          <6>1. D \in Nat
            BY SpanStart
          <6>2. a \in Nat /\ call.pos = a /\ NextPos = a + D /\ i \in Nat /\ i < D
            BY <1>3, <4>1, <6>1
          <6> HIDE DEF a, D
          <6> QED
            BY <6>1, <6>2 DEF a
        <5> QED
          BY <2>3, <2>4, <2>5, <5>1
      <4>2. CASE ~WholePage
        BY <2>2, <2>3, <2>4, <2>5, <4>2
      <4> QED
        BY <4>1, <4>2
    <3> QED
      BY <3>1 DEF Holds
  <2> HIDE DEF b
  <2>7. AllocatePage(Da(o), b)
    BY <1>14 DEF Da, old, b
  <2>8. AllocatedView(Da(o), b)
    BY <1>2, <2>7, Allocates, IdsApart
  <2>9. PICK t : t = Taken
    OBVIOUS
  <2>10. PICK v : v = Noted(w, k, t)
    OBVIOUS
  <2>11. PICK f \in BOOLEAN : f = call.full
    BY <1>2, WriteIs
  <2>12. call' = Onward("replace", call.pos, f, v) /\ ~f
    <3>1. call' = [call EXCEPT !.pc = "replace", !.work = v]
      BY <1>14, <2>9, <2>10
    <3> QED
      BY <1>1, <1>2, <2>11, <3>1 DEF WriteRec, Onward
  <2>13. /\ WriteRec' /\ Modifies'
         /\ call'.op = "write" /\ call'.obj = o /\ call'.pc = "replace"
         /\ call'.base = call.base /\ call'.pos = call.pos /\ call'.end = call.end
         /\ call'.val = call.val /\ call'.full = f /\ call'.work = v
    BY <1>1, <1>2, <1>4, <1>14, <2>12, OnwardRec
  <2>14. Copy' = v
    BY <1>1, <2>13 DEF Copy, Working
  <2> HIDE DEF o, c, W, X, k, r, D
  <2>15. AddedView(w, v, o, k, t, b)
    BY <1>2, <1>3, <1>8, <2>4, <2>8, <2>9, <2>10, <2>14, DataAdded
  <2>16. /\ Adds(ids, ixs, ids', ixs', o, w.page, k, t, b) /\ Flash(ids', ixs')
         /\ Typed(ids', ixs') /\ Unique(ids', ixs') /\ OthersKept(ids, ixs, ids', ixs', o)
         /\ AddsView(ids, ixs, ids', ixs', o, k, t)
         /\ WorkOk(v)' /\ v.obj = o /\ v # NoWork /\ v.page = w.page /\ v.ix.span = w.ix.span
         /\ v.ix.refs[k] = t
         /\ \A j \in SlotsOf(w.ix.span) : j # k => v.ix.refs[j] = w.ix.refs[j]
         /\ \A q \in Page : q # t => body'[q] = body[q]
         /\ t \in Page /\ ids[t] = DELETED
    BY <2>15, Zenon DEF AddedView
  <2>17. Shape(ids', ixs', o, Len(c), X, -1, r, FALSE)
    <3>1. Typed(ids, ixs) /\ Unique(ids, ixs)
      BY DEF Sound
    <3>2. Len(c) <= Len(c) /\ k * DataPageSize < Len(c) /\ -1 = -1
          /\ (k * DataPageSize < Len(c) => Slot(ids, ixs, o, k, r))
          /\ \A j \in Span : j # k /\ j * DataPageSize < Len(c) => j * DataPageSize < Len(c)
      BY <1>4, <1>9 DEF D
    <3> DEFINE n == Len(c)  x == w.page
    <3>3. /\ n <= n /\ k * DataPageSize < n /\ (k * DataPageSize < n => Slot(ids, ixs, o, k, r))
          /\ \A j \in Span : j # k /\ j * DataPageSize < n => j * DataPageSize < n
      BY <3>2
    <3>4. n \in Nat /\ x \in Page /\ k \in Span /\ t \in Page /\ o \in ObjIds
      BY <1>2, <1>3, <1>4, <1>10, <2>16
    <3>5. Flash(ids', ixs') /\ Adds(ids, ixs, ids', ixs', o, x, k, t, b)
      BY <2>16
    <3>6. Shape(ids, ixs, o, n, W, -1, Unset, FALSE)
      BY <1>2
    <3>7. b \in DataBody /\ b.span = k /\ Agree(W, X, k) /\ Holds(b, X, k)
      BY <2>4, <2>5, <2>6
    <3> HIDE DEF n, x
    <3>8. Shape(ids', ixs', o, n, X, -1, r, FALSE)
      BY <3>1, <3>3, <3>4, <3>5, <3>6, <3>7, ShapeAdd, Zenon
    <3> QED
      BY <3>8 DEF n
  <2>18. HeadIs(ids', ixs', o, SizeField(c), FALSE)
    BY <1>2, <2>16, Zenon DEF AddsView
  <2>19. /\ body'[v.page] = body[w.page] /\ r # t /\ ids'[r] = Da(o) /\ ixs'[r] = ixs[r]
         /\ ixs[r].span = k
    <3>1. w.page # t /\ r # t
      BY <1>2, <1>9, <1>10, <2>16, IdsApart
    <3>2. ids'[r] = Da(o) /\ ixs'[r] = ixs[r]
      BY <1>9, <2>16 DEF AddsView
    <3> QED
      BY <1>9, <1>10, <2>16, <3>1, <3>2 DEF Leads
  <2>20. body'[v.page].refs[k] = r
    BY <1>3, <1>11, <1>12, <2>19 DEF r
  <2>21. \A j \in SlotsOf(v.ix.span) : j >= k + 1 => body'[v.page].refs[j] = v.ix.refs[j]
    <3>1. \A j \in SlotsOf(w.ix.span) : j \in Nat
      BY Referred
    <3>2. \A j \in SlotsOf(w.ix.span) : j >= k + 1 => j >= k /\ j # k
      BY <1>3, <3>1
    <3> QED
      BY <1>11, <2>16, <2>19, <3>2
  <2>22. HoldOk'
    BY <2>13, <2>16 DEF HoldOk
  <2>23. (call.pos < call.end)' /\ (~call.full)' /\ Held'
    BY <1>1, <2>12, <2>13, <2>16 DEF Held
  <2>24. /\ Old' = r /\ SpanAt(call.pos)' = k
    <3>1. SpanAt(call.pos)' = k
      BY <2>13 DEF SpanAt, k
    <3>2. Old' = body'[call'.work.page].refs[SpanAt(call.pos)']
      BY DEF Old
    <3> QED
      BY <2>13, <2>20, <3>1, <3>2
  <2>25. (call.work.ix.span = IxSpan(SpanAt(call.pos)))'
    BY <1>10, <2>13, <2>16, <2>24 DEF IxSpan
  <2>26. (Old \in Page /\ ids[Old] = Da(call.obj) /\ ixs[Old].span = SpanAt(call.pos))'
    BY <1>9, <2>13, <2>19, <2>24
  <2>27. (Old # call.work.ix.refs[SpanAt(call.pos)])'
    BY <2>13, <2>16, <2>19, <2>24
  <2>28. files'[call'.obj] = c
    BY <1>14, <2>13 DEF c
  <2>29. NextPos' = NextPos
    BY <2>13 DEF NextPos, SpanAt
  <2>30. Shape(ids, ixs, call.obj, Len(files[call.obj]),
               Wanted(files[call.obj], call.base, NextPos, call.val), -1, Old, FALSE)'
    BY <2>13, <2>17, <2>24, <2>28, <2>29 DEF Wanted, Top, X
  <2>31. HeadIs(ids, ixs, call.obj, SizeField(files[call.obj]), FALSE)'
    BY <2>13, <2>18, <2>28 DEF SizeField
  <2>32. SameRefs(SpanAt(call.pos) + 1)'
    BY <2>13, <2>21, <2>24 DEF SameRefs, SlotsOf, IxSpan
  <2>33. ReplaceOk'
    BY <2>13, <2>22, <2>23, <2>25, <2>26, <2>27, <2>30, <2>31, <2>32, Zenon DEF ReplaceOk
  <2>34. CallOk'
    <3>1. gc'.pc = "off"
      BY <1>1
    <3> QED
      BY <2>33, <3>1 DEF CallOk
  <2>35. [Next]_vars /\ fs'.cleaning = fs.cleaning /\ Whole'
    BY <2>8 DEF AllocatedView
  <2> QED
    BY <1>1, <1>2, <1>14, <2>13, <2>16, <2>34, <2>35, Goes DEF o
<1> QED
  BY <1>7, <1>9, <1>13, <1>14

\* The page written over is deleted.
LEMMA ModifiesReplace ==
  ASSUME QuickIsFull, Sound, ModifyReplace
  PROVE  Fine
<1> DEFINE o == call.obj  c == files[o]  X == Wanted(c, call.base, NextPos, call.val)
           k == SpanAt(call.pos)  r == Old
<1>1. /\ gc.pc = "off" /\ call.op = "write" /\ call.pc = "replace" /\ gc' = gc /\ files' = files
      /\ DeletePage(r) /\ call' = [call EXCEPT !.pc = "modify", !.pos = NextPos]
  BY DEF ModifyReplace, At, Old
<1>2. ReplaceOk /\ call.op \in Working
  BY <1>1, CallNow DEF Working
<1>3. /\ WriteRec /\ Modifies /\ HoldOk /\ call.pos < call.end /\ ~call.full /\ Held
      /\ r \in Page /\ ids[r] = Da(o) /\ ixs[r].span = k /\ r # call.work.ix.refs[k]
      /\ call.work.ix.span = IxSpan(k)
      /\ Shape(ids, ixs, o, Len(c), X, -1, r, FALSE)
      /\ HeadIs(ids, ixs, o, SizeField(c), FALSE)
      /\ SameRefs(k + 1)
  BY <1>2, Zenon DEF ReplaceOk
<1>4. o \in ObjIds /\ Copy = call.work /\ ContentOk(c)
  BY <1>1, <1>2, CallNow
<1>5. /\ k \in Span /\ k \in Nat /\ NextPos \in Nat /\ call.pos < NextPos /\ NextPos <= call.end
      /\ NextPos < call.end => SpanAt(NextPos) = k + 1
  BY <1>3, NextIs
<1>6. PICK w : w = call.work
  OBVIOUS
<1>7. WorkOk(w) /\ w.obj = o /\ w # NoWork /\ w.page \in Page /\ ids[w.page] = Ix(o)
  <2>1. WorkOk(w) /\ w.obj = o /\ w # NoWork
    BY <1>3, <1>6 DEF HoldOk, Held
  <2> QED
    BY <2>1 DEF WorkOk
<1>8. PICK f \in BOOLEAN : f = call.full
  BY <1>3, WriteIs
<1>9. call' = Onward("modify", NextPos, f, w) /\ ~f
  BY <1>1, <1>3, <1>6, <1>8 DEF WriteRec, Onward
<1>10. Copy' = w /\ gc' = gc /\ files' = files
  <2>1. gc'.pc = "off" /\ gc' = gc /\ files' = files
    BY <1>1
  <2>2. call'.op = "write" /\ call'.work = w
    BY <1>9 DEF Onward
  <2> QED
    BY <2>1, <2>2 DEF Copy, Working
<1> HIDE DEF o, c, X, k, r
<1>11. DeletedView(r)
  <2>1. r \in Used(fs)
    BY <1>3, <1>4, InUse
  <2> QED
    BY <1>1, <2>1, Deletes
<1>12. Latest(body, w) = ixs
  BY <1>4, <1>6 DEF ixs
<1>13. /\ Drops(ids, ixs, ids', ixs', o, r) /\ Flash(ids', ixs')
       /\ WorkOk(w)' /\ body'[w.page] = body[w.page]
  BY <1>3, <1>4, <1>7, <1>10, <1>11, <1>12, DropsData
<1>14. Typed(ids, ixs) /\ Unique(ids, ixs)
  BY DEF Sound
<1>15. /\ Typed(ids', ixs') /\ Unique(ids', ixs') /\ OthersKept(ids, ixs, ids', ixs', o)
       /\ DropsView(ids, ixs, ids', ixs', o, r)
  BY <1>3, <1>4, <1>13, <1>14, Dropping
<1>16. Shape(ids', ixs', o, Len(c), X, -1, Unset, FALSE)
  <2> DEFINE s == w.ix.refs[k]
  <2>1. ixs[w.page] = w.ix
    BY <1>4, <1>6, <1>7, BodyIs
  <2>2. Slot(ids, ixs, o, k, s)
    BY <1>3, <1>6, <1>7, <2>1 DEF Slot
  <2>3. Slot(ids, ixs, o, ixs[r].span, s) /\ s # r
    BY <1>3, <1>6, <2>2
  <2>4. Len(c) \in Nat
    BY <1>4, ContentIs
  <2> HIDE DEF s
  <2> QED
    BY <1>3, <1>4, <1>13, <1>14, <2>3, <2>4, ShapeDrop
<1>17. HeadIs(ids', ixs', o, SizeField(c), FALSE)
  BY <1>3, <1>15 DEF DropsView
<1>18. ASSUME NextPos < call.end, NEW j \in SlotsOf(w.ix.span), j >= SpanAt(NextPos)
       PROVE  body'[w.page].refs[j] = w.ix.refs[j]
  BY <1>3, <1>5, <1>6, <1>13, <1>18 DEF SameRefs
<1>19. call.base <= NextPos
  <2>1. call.base \in Nat /\ call.pos \in Nat /\ call.base <= call.pos
    BY <1>3, WriteIs
  <2> QED
    BY <1>5, <2>1
<1>20. [Next]_vars /\ fs'.cleaning = fs.cleaning /\ Whole'
  BY <1>11 DEF DeletedView
<1>22. PICK n : n = NextPos
  OBVIOUS
<1>21. /\ n \in Nat /\ n <= call.end /\ call.base <= n /\ call' = Onward("modify", n, f, w)
       /\ Shape(ids', ixs', o, Len(c), Wanted(c, call.base, n, call.val), -1, Unset, FALSE)
       /\ w # NoWork /\ n < call.end /\ ~f =>
           \A j \in SlotsOf(w.ix.span) : j >= SpanAt(n) => body'[w.page].refs[j] = w.ix.refs[j]
  BY <1>5, <1>9, <1>16, <1>18, <1>19, <1>22 DEF X
<1>23. gc.pc = "off" /\ call.op = "write" /\ UNCHANGED <<gc, files>> /\ WriteRec /\ Modifies
  BY <1>1, <1>3
<1>24. o = call.obj /\ c = files[o]
  BY DEF o, c
<1>25. w = NoWork \/ (WorkOk(w)' /\ w.obj = o)
  BY <1>7, <1>13
<1>26. n = call.end \/ f => w # NoWork
  BY <1>7
<1>27. Typed(ids', ixs') /\ Unique(ids', ixs') /\ OthersKept(ids, ixs, ids', ixs', o)
  BY <1>15
<1> QED
  BY <1>17, <1>20, <1>21, <1>23, <1>24, <1>25, <1>26, <1>27, ModifyGoes

\* The last index page is stored, and what lies behind the end is appended.
LEMMA ModifiesFinish ==
  ASSUME QuickIsFull, Sound, ModifyFinish
  PROVE  Fine
<1> DEFINE o == call.obj  c == files[o]  W == Wanted(c, call.base, call.pos, call.val)  w == call.work
           e == Written
<1>1. /\ gc.pc = "off" /\ call.op = "write" /\ call.pc = "modify"
      /\ call.pos = call.end \/ call.full
  BY DEF ModifyFinish, At
<1>2. /\ WriteRec /\ Modifies /\ HoldOk /\ Held
      /\ o \in ObjIds /\ Copy = w /\ call.op \in Working
      /\ Shape(ids, ixs, o, Len(c), W, -1, Unset, FALSE)
      /\ HeadIs(ids, ixs, o, SizeField(c), FALSE)
      /\ \A q : q # o => ~Busy(q)
  <2>1. \A q : q # o => ~Busy(q)
    BY DEF Busy
  <2> QED
    BY <1>1, <2>1, ModifyNow
<1>3. CASE Refuse /\ Break(o) /\ UNCHANGED <<body, gc>>
  BY <1>1, <1>2, <1>3, Breaks
<1>4. CASE /\ MovePage(w.page, w.ix)
           /\ IF call.full THEN Break(o) /\ UNCHANGED gc
              ELSE /\ files' = [files EXCEPT ![o] = e]
                   /\ IF call.rest = 0 THEN call' = NoCall /\ UNCHANGED gc
                      ELSE /\ call' = Part(o, "append", call.end, call.end + call.rest, 0, call.val)
                           /\ gc' = GcCheck(call.rest + DataPageSize)
  <2>1. WorkOk(w) /\ w.obj = o /\ w # NoWork
    BY <1>2 DEF HoldOk, Held
  <2>2. Copy' = NoWork
    BY <1>1, <1>4 DEF Copy, Break, Return, NoCall, Working, GcCheck
  <2>3. /\ ContentOk(c) /\ c \in Seq(Bytes) /\ Len(c) \in Nat /\ Len(c) <= Top /\ Top \in Nat
        /\ call.base \in Nat /\ call.end \in Nat /\ call.rest \in Nat /\ call.val \in Bytes
        /\ call.base < call.end /\ call.end <= Len(c)
        /\ call.rest > 0 => call.end = Len(c)
        /\ call.end + call.rest <= Top
    <3>1. ContentOk(c)
      BY <1>2, WriteIs
    <3> QED
      BY <1>2, <3>1, WriteIs, ContentIs DEF Modifies
  <2>4. /\ ContentOk(e) /\ Len(e) = Len(c) /\ SizeField(e) = SizeField(c)
        /\ Wanted(e, 0, 0, Unset) = Wanted(c, call.base, call.end, call.val)
    <3>1. call.base <= Len(c)
      BY <2>3
    <3>2. /\ ContentOk(e) /\ Len(e) = (IF Len(c) > call.end THEN Len(c) ELSE call.end)
          /\ SizeField(e) = Len(e)
          /\ Wanted(e, 0, 0, Unset) = Wanted(c, call.base, call.end, call.val)
      BY <1>2, <3>1, WrittenIs
    <3>3. Len(e) = Len(c)
      BY <2>3, <3>2
    <3>4. SizeField(c) = Len(c)
      <4>1. c # <<>>
        BY <2>3
      <4> QED
        BY <4>1 DEF SizeField
    <3> QED
      BY <3>2, <3>3, <3>4
  <2> HIDE DEF o, c, W, w, e
  <2>5. /\ Next /\ IInv' /\ fs'.cleaning = fs.cleaning /\ Whole' /\ ixs' = body'
        /\ Typed(ids', ixs') /\ Unique(ids', ixs') /\ OthersKept(ids, ixs, ids', ixs', o)
        /\ SameView(ids, ixs, ids', ixs', o)
        /\ \A z, d : HeadIs(ids, ixs, o, z, d) => HeadIs(ids', ixs', o, z, d)
    BY <1>2, <1>4, <2>1, <2>2, CopyStored
  <2>6. Shape(ids', ixs', o, Len(c), W, -1, Unset, FALSE) /\ HeadIs(ids', ixs', o, SizeField(c), FALSE)
    BY <1>2, <2>5, ShapeKept
  <2>7. CASE call.full
    <3> DEFINE u == Unknown
    <3>1. Return(o, u) /\ gc' = gc /\ u = Unknown
      BY <1>4, <2>7 DEF Break
    <3>2. Typed(ids', body') /\ Unique(ids', body') /\ OthersKept(ids, ixs, ids', body', o)
      BY <2>5
    <3> HIDE DEF u
    <3> QED
      BY <1>1, <1>2, <2>5, <3>1, <3>2, Ends
  <2>8. CASE ~call.full
    <3>1. W = Wanted(e, 0, 0, Unset)
      BY <1>1, <2>4, <2>8 DEF W
    <3>2. PICK x : x = e
      OBVIOUS
    <3>3. /\ Shape(ids', body', o, Len(x), Wanted(x, 0, 0, Unset), -1, Unset, FALSE)
          /\ HeadIs(ids', body', o, SizeField(x), FALSE) /\ ContentOk(x)
          /\ Typed(ids', body') /\ Unique(ids', body') /\ OthersKept(ids, ixs, ids', body', o)
      BY <2>4, <2>5, <2>6, <3>1, <3>2
    <3>4. files' = [files EXCEPT ![o] = x]
      BY <1>4, <2>8, <3>2
    <3>5. CASE call.rest = 0
      <4>1. Return(o, x) /\ gc' = gc
        BY <1>4, <2>8, <3>2, <3>5 DEF Return
      <4> QED
        BY <1>1, <1>2, <2>5, <3>3, <4>1, Ends
    <3>6. CASE call.rest # 0
      <4>1. /\ call' = Part(o, "append", call.end, call.end + call.rest, 0, call.val)
            /\ gc' = GcCheck(call.rest + DataPageSize)
        BY <1>4, <2>8, <3>6
      <4>2. DOMAIN files' = ObjIds /\ files'[o] = x /\ \A q \in ObjIds : q # o => files'[q] = files[q]
        BY <1>2, <3>4 DEF Sound
      <4>3. /\ call' = [op |-> "write", obj |-> call'.obj, pc |-> call'.pc, base |-> call'.base,
                        pos |-> call'.pos, end |-> call'.end, rest |-> call'.rest,
                        val |-> call'.val, full |-> call'.full, work |-> call'.work]
            /\ call'.op = "write" /\ call'.obj = o /\ call'.pc = "append" /\ call'.base = call.end
            /\ call'.pos = call.end /\ call'.end = call.end + call.rest /\ call'.rest = 0
            /\ call'.val = call.val /\ call'.full = FALSE /\ call'.work = NoWork
        BY <4>1 DEF Part
      <4>4. ContentOk(files[call.obj])'
        BY <3>3, <4>2, <4>3 DEF ContentOk, Top
      <4>5. WriteRec'
        <5>1. (call.end + call.rest <= Top)'
          BY <2>3, <4>3 DEF Top
        <5>2. (call.base < call.end /\ call.base <= call.pos /\ call.pos <= call.end)'
          BY <2>3, <3>6, <4>3
        <5>3. (call.base \in Nat /\ call.pos \in Nat /\ call.end \in Nat /\ call.rest \in Nat)'
          BY <2>3, <4>3
        <5>4. (call.obj \in ObjIds /\ call.val \in Bytes /\ call.full \in BOOLEAN)'
          BY <1>2, <2>3, <4>3
        <5> QED
          BY <4>3, <4>4, <5>1, <5>2, <5>3, <5>4 DEF WriteRec
      <4>6. EntryWrite'
        <5>1. Appends'
          BY <2>3, <2>4, <3>2, <3>6, <4>2, <4>3 DEF Appends
        <5> QED
          BY <4>3, <4>5, <5>1 DEF EntryWrite
      <4>7. gc' = [pc |-> "check", len |-> gc'.len] /\ gc'.pc = "check"
        BY <4>1 DEF GcCheck
      <4>8. CallOk'
        BY <4>6, <4>7 DEF CallOk, EntryOk
      <4>9. GcOk'
        <5>1. fs'.cleaning = NoBlock
          BY <1>1, <2>5, CallNow
        <5> QED
          BY <4>7, <5>1 DEF GcOk, RunOk
      <4>10. PICK y \in ObjIds : y = o
        BY <1>2
      <4>11. Resting(y)'
        <5>1. ixs' = body' /\ files'[y] = x
          BY <2>5, <4>2, <4>10
        <5>2. /\ Shape(ids', ixs', y, Len(x), Wanted(x, 0, 0, Unset), -1, Unset, FALSE)
              /\ HeadIs(ids', ixs', y, SizeField(x), FALSE)
          BY <3>3, <4>10, <5>1
        <5> QED
          BY <5>1, <5>2 DEF Resting, Wanted, SizeField, Top
      <4>12. ObjectOk(y)'
        <5>1. ContentOk(files[y])'
          BY <4>3, <4>4, <4>10
        <5> QED
          BY <4>11, <5>1 DEF ObjectOk
      <4>13. \A q \in ObjIds : q # y => ~Busy(q)
        BY <1>2, <4>10
      <4>14. IInv' /\ Whole'
        BY <2>5
      <4>15. Typed(ids', ixs') /\ Unique(ids', ixs') /\ OthersKept(ids, ixs, ids', ixs', y)
        BY <2>5, <4>10
      <4>16. DOMAIN files' = ObjIds /\ \A q \in ObjIds : q # y => files'[q] = files[q]
        BY <4>2, <4>10
      <4>17. Sound'
        BY <4>8, <4>9, <4>12, <4>13, <4>14, <4>15, <4>16, Close
      <4> QED
        BY <2>5, <4>17 DEF Fine
    <3> QED
      BY <3>5, <3>6
  <2> QED
    BY <2>7, <2>8
<1> QED
  BY <1>3, <1>4 DEF ModifyFinish

-----------------------------------------------------------------------------
(* spiffs_object_append *)

\* What an append has at each step.
LEMMA AppendNow ==
  ASSUME Sound, gc.pc = "off", call.op = "write", call.pc = "append"
  PROVE  /\ WriteRec /\ Appends /\ HoldOk
         /\ call.obj \in ObjIds /\ Copy = call.work /\ call.op \in Working
         /\ Shape(ids, ixs, call.obj, call.pos,
                  Wanted(files[call.obj], call.base, call.pos, call.val),
                  HeldSpan(call.work), Unset, FALSE)
         /\ HeadFor /\ AppendWork
         /\ \A q : q # call.obj => ~Busy(q)
<1>1. AppendOk /\ call.op \in Working
  BY CallNow DEF Working
<1>2. call.obj \in ObjIds /\ Copy = call.work
  BY <1>1, CallNow
<1>3. /\ WriteRec /\ Appends /\ HoldOk
      /\ Shape(ids, ixs, call.obj, call.pos,
               Wanted(files[call.obj], call.base, call.pos, call.val),
               HeldSpan(call.work), Unset, FALSE)
      /\ HeadFor /\ AppendWork
  BY <1>1, Zenon DEF AppendOk
<1>4. \A q : q # call.obj => ~Busy(q)
  BY DEF Busy
<1> QED
  BY <1>1, <1>2, <1>3, <1>4, Zenon

\* The copy w of an append that has reached pos: the index page of the last byte written or
\* of the next to write, with slots that are noted but not yet stored.
GoodCopy(pos, full, w) ==
  /\ w # NoWork =>
       /\ \/ pos > call.base /\ w.ix.span = IxSpan(SpanAt(pos - 1))
          \/ (pos < call.end \/ full) /\ w.ix.span = IxSpan(SpanAt(pos))
       /\ \A k \in SlotsOf(w.ix.span) : body'[w.page].refs[k] \in {Unset, w.ix.refs[k]}
  /\ w = NoWork /\ pos > call.base => IxSpan(SpanAt(pos - 1)) # IxSpan(SpanAt(pos))
  /\ pos = call.end \/ full => w # NoWork

\* The append of o, which had contents c, reaches pos with the copy w and header size z.
Reaches(o, c, pos, full, w, z) ==
  /\ o = call.obj /\ c = files[o]
  /\ [Next]_vars /\ fs'.cleaning = fs.cleaning /\ Whole' /\ UNCHANGED <<gc, files>>
  /\ pos \in Nat /\ call.base <= pos /\ pos <= call.end /\ full \in BOOLEAN
  /\ call' = Onward("append", pos, full, w)
  /\ Typed(ids', ixs') /\ Unique(ids', ixs') /\ OthersKept(ids, ixs, ids', ixs', o)
  /\ w = NoWork \/ (WorkOk(w)' /\ w.obj = o)
  /\ Shape(ids', ixs', o, pos, Wanted(c, call.base, pos, call.val), HeldSpan(w), Unset, FALSE)
  /\ z \in {Unset} \cup 0..Top /\ HeadIs(ids', ixs', o, z, FALSE)
  /\ pos = call.base => z = SizeField(c)
  /\ call.base = 0 /\ w # NoWork /\ w.ix.span = 0 => z = Unset
  /\ GoodCopy(pos, full, w)

\* It goes on.
LEMMA AppendGoes ==
  ASSUME QuickIsFull, Sound, gc.pc = "off", call.op = "write", WriteRec, Appends,
         NEW o, NEW c, NEW pos, NEW full, NEW w, NEW z, Reaches(o, c, pos, full, w, z)
  PROVE  Fine
<1>0. /\ o = call.obj /\ c = files[o]
      /\ [Next]_vars /\ fs'.cleaning = fs.cleaning /\ Whole' /\ UNCHANGED <<gc, files>>
      /\ pos \in Nat /\ call.base <= pos /\ pos <= call.end /\ full \in BOOLEAN
      /\ call' = Onward("append", pos, full, w)
      /\ Typed(ids', ixs') /\ Unique(ids', ixs') /\ OthersKept(ids, ixs, ids', ixs', o)
      /\ w = NoWork \/ (WorkOk(w)' /\ w.obj = o)
      /\ Shape(ids', ixs', o, pos, Wanted(c, call.base, pos, call.val), HeldSpan(w), Unset, FALSE)
      /\ z \in {Unset} \cup 0..Top /\ HeadIs(ids', ixs', o, z, FALSE)
      /\ pos = call.base => z = SizeField(c)
      /\ call.base = 0 /\ w # NoWork /\ w.ix.span = 0 => z = Unset
      /\ GoodCopy(pos, full, w)
  BY Zenon DEF Reaches
<1>1. /\ WriteRec' /\ Appends'
      /\ call'.op = "write" /\ call'.obj = o /\ call'.pc = "append"
      /\ call'.base = call.base /\ call'.pos = pos /\ call'.end = call.end
      /\ call'.val = call.val /\ call'.full = full /\ call'.work = w
  BY <1>0, OnwardRec
<1>2. files'[call'.obj] = c
  BY <1>0, <1>1
<1>3. HoldOk'
  BY <1>0, <1>1 DEF HoldOk
<1>4. Shape(ids, ixs, call.obj, call.pos,
            Wanted(files[call.obj], call.base, call.pos, call.val),
            HeldSpan(call.work), Unset, FALSE)'
  BY <1>0, <1>1, <1>2 DEF Wanted, Top, HeldSpan
<1>5. HeadFor'
  <2>1. (z \in {Unset} \cup 0..Top)'
    BY <1>0 DEF Top
  <2>2. HeadIs(ids, ixs, call.obj, z, FALSE)'
    BY <1>0, <1>1
  <2>3. (call.pos = call.base => z = SizeField(files[call.obj]))'
    BY <1>0, <1>1, <1>2 DEF SizeField
  <2>4. (call.base = 0 /\ Held /\ call.work.ix.span = 0 => z = Unset)'
    BY <1>0, <1>1 DEF Held
  <2> QED
    BY <2>1, <2>2, <2>3, <2>4 DEF HeadFor
<1>6. AppendWork'
  <2>1. (Held => /\ \/ call.pos > call.base /\ call.work.ix.span = IxSpan(SpanAt(call.pos - 1))
                    \/ (call.pos < call.end \/ call.full) /\ call.work.ix.span = IxSpan(SpanAt(call.pos))
                 /\ \A k \in SlotsOf(call.work.ix.span) :
                      body[call.work.page].refs[k] \in {Unset, call.work.ix.refs[k]})'
    BY <1>0, <1>1 DEF GoodCopy, Held, SpanAt
  <2>2. (~Held /\ call.pos > call.base => IxSpan(SpanAt(call.pos - 1)) # IxSpan(SpanAt(call.pos)))'
    BY <1>0, <1>1 DEF GoodCopy, Held, SpanAt
  <2>3. (call.pos = call.end \/ call.full => Held)'
    BY <1>0, <1>1 DEF GoodCopy, Held
  <2> QED
    BY <2>1, <2>2, <2>3, Zenon DEF AppendWork
<1>7. AppendOk'
  BY <1>0, <1>1, <1>3, <1>4, <1>5, <1>6, Zenon DEF AppendOk
<1>8. CallOk'
  <2>1. gc'.pc = "off"
    BY <1>0
  <2> QED
    BY <1>7, <2>1 DEF CallOk
<1>9. call.op \in Working
  BY DEF Working
<1> QED
  BY <1>0, <1>1, <1>8, <1>9, Goes

\* An index page programmed in place holds the references of the copy.
LEMMA ProgrammedIs ==
  ASSUME NEW w, WorkOk(w), NEW z \in Sizes,
         \A k \in SlotsOf(w.ix.span) : body[w.page].refs[k] \in {Unset, w.ix.refs[k]}
  PROVE  /\ IndexBody(Programmed(w, z)) /\ Programmed(w, z).span = w.ix.span
         /\ Programmed(w, z).size = z /\ Programmed(w, z).ixdele = w.ix.ixdele
         /\ Programmed(w, z).refs = w.ix.refs
<1> DEFINE old == body[w.page]
           R == [k \in DOMAIN old.refs |-> Program(old.refs[k], w.ix.refs[k])]
<1>1. IndexBody(w.ix) /\ IndexBody(old) /\ w.ix.span = old.span /\ w.ix.ixdele = old.ixdele
  BY DEF WorkOk
<1>2. /\ old = [kind |-> "index", span |-> old.span, size |-> old.size, ixdele |-> old.ixdele,
                refs |-> old.refs]
      /\ DOMAIN old.refs = SlotsOf(old.span) /\ old.span \in Nat /\ old.ixdele \in BOOLEAN
      /\ w.ix.refs \in [SlotsOf(old.span) -> Refs]
  BY <1>1 DEF IndexBody
<1>3. \A k \in SlotsOf(old.span) : Program(old.refs[k], w.ix.refs[k]) = w.ix.refs[k]
  BY <1>1 DEF Program
<1>4. R = w.ix.refs
  <2>1. R = [k \in SlotsOf(old.span) |-> w.ix.refs[k]]
    BY <1>2, <1>3
  <2> QED
    BY <1>2, <2>1
<1>5. Programmed(w, z) = [old EXCEPT !.refs = R, !.size = z]
  BY Zenon DEF Programmed
<1> HIDE DEF R, old
<1>6. PICK P : P = Programmed(w, z)
  OBVIOUS
<1>7. P = [kind |-> "index", span |-> old.span, size |-> z, ixdele |-> old.ixdele, refs |-> R]
  <2>1. P = [old EXCEPT !.refs = R, !.size = z]
    BY <1>5, <1>6, Zenon
  <2>2. PICK s, y, d, r : old = [kind |-> "index", span |-> s, size |-> y, ixdele |-> d, refs |-> r]
    BY <1>2
  <2> QED
    BY <2>1, <2>2
<1>8. P.span = old.span /\ P.size = z /\ P.ixdele = old.ixdele /\ P.refs = R
  BY <1>7
<1>9. IndexBody(P)
  BY <1>2, <1>4, <1>7, <1>8 DEF IndexBody
<1> QED
  BY <1>1, <1>4, <1>6, <1>8, <1>9

\* What storing the copy of an append with a new size does.
StoredView(o, z) ==
  /\ [Next]_vars /\ fs'.cleaning = fs.cleaning /\ Whole' /\ ixs' = body'
  /\ Typed(ids', ixs') /\ Unique(ids', ixs') /\ OthersKept(ids, ixs, ids', ixs', o)
  /\ SameView(ids, ixs, ids', ixs', o) /\ HeadIs(ids', ixs', o, z, FALSE)

\* Rewriting an index page with the same references, in place or elsewhere.
RewrittenView(l, e, m, f, o, c) ==
  /\ Typed(m, f) /\ Unique(m, f) /\ OthersKept(l, e, m, f, o) /\ SameView(l, e, m, f, o)
  /\ c.span # 0 => \A z, d : HeadIs(l, e, o, z, d) => HeadIs(m, f, o, z, d)
  /\ c.span = 0 => HeadIs(m, f, o, c.size, c.ixdele)

\* Then only the fields of the header change.
LEMMA Rewriting ==
  ASSUME NEW l, NEW e, NEW m, NEW f, NEW o \in ObjIds, NEW x \in Page, NEW t \in Page, NEW c,
         Typed(l, e), Unique(l, e), Flash(m, f), IndexBody(c), c.span = e[x].span,
         c.refs = e[x].refs, Relocated(l, e, m, f, o, x, t, c)
  PROVE  RewrittenView(l, e, m, f, o, c)
<1>1. /\ Typed(m, f) /\ Unique(m, f) /\ OthersKept(l, e, m, f, o)
      /\ c.refs = e[x].refs => SameView(l, e, m, f, o)
      /\ c.span # 0 => \A z, d : HeadIs(l, e, o, z, d) => HeadIs(m, f, o, z, d)
      /\ c.span = 0 => HeadIs(m, f, o, c.size, c.ixdele)
  BY Relocation
<1> QED
  BY <1>1, Zenon DEF RewrittenView

\* What programming an index page in place does.
ProgrammedView(o, w, x, P, f, z) ==
  /\ ids[x] = Ix(o) /\ DOMAIN f = Page /\ f = [q \in Page |-> f[q]]
  /\ f[x] = P /\ \A q \in Page : q # x => f[q] = body[q]
  /\ Typed(ids, f) /\ Unique(ids, f) /\ OthersKept(ids, ixs, ids, f, o)
  /\ SameView(ids, ixs, ids, f, o)
  /\ P.span # 0 => \A y, d : HeadIs(ids, ixs, o, y, d) => HeadIs(ids, f, o, y, d)
  /\ P.span = 0 => HeadIs(ids, f, o, z, P.ixdele)
  /\ P.ixdele = w.ix.ixdele /\ P.span = w.ix.span

\* The index page held has its references stored.
LEMMA ProgramsIndex ==
  ASSUME Sound, NEW o \in ObjIds, NEW w, Copy = w, w # NoWork, WorkOk(w), w.obj = o,
         NEW z \in Sizes,
         \A k \in SlotsOf(w.ix.span) : body[w.page].refs[k] \in {Unset, w.ix.refs[k]},
         NEW x \in Page, x = w.page, NEW P, P = Programmed(w, z),
         NEW f, f = [body EXCEPT ![x] = P]
  PROVE  ProgrammedView(o, w, x, P, f, z)
<1>1. ids[x] = Ix(o) /\ DOMAIN body = Page /\ ixs[x] = w.ix
  BY BodyIs DEF WorkOk
<1>2. /\ IndexBody(P) /\ P.span = w.ix.span /\ P.size = z /\ P.ixdele = w.ix.ixdele
      /\ P.refs = w.ix.refs
  BY ProgrammedIs
<1>3. DOMAIN f = Page /\ f[x] = P /\ f = [q \in Page |-> f[q]] /\ \A q \in Page : q # x => f[q] = body[q]
  BY <1>1
<1>4. Overwritten(o, x, f)
  BY <1>1, <1>2, <1>3 DEF Overwritten
<1>5. /\ Typed(ids, f) /\ Unique(ids, f) /\ OthersKept(ids, ixs, ids, f, o)
      /\ Relocated(ids, ixs, ids, f, o, x, x, f[x]) /\ Flash(ids, f)
  BY <1>1, <1>4, Overwrites
<1>6. Relocated(ids, ixs, ids, f, o, x, x, P)
  BY <1>3, <1>5
<1>7. Typed(ids, ixs) /\ Unique(ids, ixs) /\ P.span = ixs[x].span /\ P.refs = ixs[x].refs
  BY <1>1, <1>2 DEF Sound
<1>8. RewrittenView(ids, ixs, ids, f, o, P)
  BY <1>2, <1>5, <1>6, <1>7, Rewriting, Zenon
<1>9. /\ SameView(ids, ixs, ids, f, o)
      /\ P.span # 0 => \A y, d : HeadIs(ids, ixs, o, y, d) => HeadIs(ids, f, o, y, d)
      /\ P.span = 0 => HeadIs(ids, f, o, P.size, P.ixdele)
  BY <1>8, Zenon DEF RewrittenView
<1> QED
  BY <1>1, <1>2, <1>3, <1>5, <1>9 DEF ProgrammedView

\* Two changes of one object after each other.
LEMMA Twice ==
  ASSUME NEW l, NEW e, NEW m, NEW f, NEW n, NEW g, NEW o
  PROVE  /\ OthersKept(l, e, m, f, o) /\ OthersKept(m, f, n, g, o) => OthersKept(l, e, n, g, o)
         /\ SameView(l, e, m, f, o) /\ SameView(m, f, n, g, o) => SameView(l, e, n, g, o)
<1>1. ASSUME OthersKept(l, e, m, f, o), OthersKept(m, f, n, g, o) PROVE OthersKept(l, e, n, g, o)
  <2> SUFFICES ASSUME NEW q \in ObjIds, q # o, NEW p \in Page,
                      l[p] \in {Ix(q), Da(q)} \/ n[p] \in {Ix(q), Da(q)}
               PROVE  n[p] = l[p] /\ g[p] = e[p]
    BY Zenon DEF OthersKept, Untouched
  <2>1. /\ l[p] \in {Ix(q), Da(q)} \/ m[p] \in {Ix(q), Da(q)} => m[p] = l[p] /\ f[p] = e[p]
        /\ m[p] \in {Ix(q), Da(q)} \/ n[p] \in {Ix(q), Da(q)} => n[p] = m[p] /\ g[p] = f[p]
    BY <1>1, Zenon DEF OthersKept, Untouched
  <2> QED
    BY <2>1
<1>2. ASSUME SameView(l, e, m, f, o), SameView(m, f, n, g, o) PROVE SameView(l, e, n, g, o)
  <2>1. /\ \A k \in Span, r \in Refs : Slot(l, e, o, k, r) <=> Slot(m, f, o, k, r)
        /\ \A j \in Nat : HasIx(l, e, o, j) <=> HasIx(m, f, o, j)
        /\ \A p \in Page : l[p] = Da(o) <=> m[p] = Da(o)
        /\ \A p \in Page : l[p] = Da(o) => f[p] = e[p]
    BY <1>2, Zenon DEF SameView
  <2>2. /\ \A k \in Span, r \in Refs : Slot(m, f, o, k, r) <=> Slot(n, g, o, k, r)
        /\ \A j \in Nat : HasIx(m, f, o, j) <=> HasIx(n, g, o, j)
        /\ \A p \in Page : m[p] = Da(o) <=> n[p] = Da(o)
        /\ \A p \in Page : m[p] = Da(o) => g[p] = f[p]
    BY <1>2, Zenon DEF SameView
  <2>3. \A k \in Span, r \in Refs : Slot(l, e, o, k, r) <=> Slot(n, g, o, k, r)
    BY <2>1, <2>2, Zenon
  <2>4. \A j \in Nat : HasIx(l, e, o, j) <=> HasIx(n, g, o, j)
    BY <2>1, <2>2, Zenon
  <2>5. \A p \in Page : l[p] = Da(o) <=> n[p] = Da(o)
    BY <2>1, <2>2, Zenon
  <2>6. \A p \in Page : l[p] = Da(o) => g[p] = e[p]
    BY <2>1, <2>2
  <2> QED
    BY <2>3, <2>4, <2>5, <2>6, Zenon DEF SameView
<1> QED
  BY <1>1, <1>2

\* The header page of an object that is not being removed.
HeaderView(o, z) ==
  /\ Header(o) \in Page /\ ids[Header(o)] = Ix(o)
  /\ ixs[Header(o)].span = 0 /\ body[Header(o)].span = 0
  /\ body[Header(o)].size = z /\ body[Header(o)].ixdele = FALSE /\ ixs[Header(o)].ixdele = FALSE
  /\ \A p \in Page : ids[p] = Ix(o) /\ ixs[p].span = 0 => p = Header(o)
  /\ SizeOf(o) = z

\* It is the one with span 0.
LEMMA HeaderAt ==
  ASSUME Sound, NEW o \in ObjIds, NEW z, HeadIs(ids, ixs, o, z, FALSE)
  PROVE  HeaderView(o, z)
<1>1. PICK d \in BOOLEAN : d = FALSE
  OBVIOUS
<1>2. HeadIs(ids, ixs, o, z, d)
  BY <1>1
<1>3. /\ Header(o) \in Page /\ ids[Header(o)] = Ix(o)
      /\ ixs[Header(o)].span = 0 /\ body[Header(o)].span = 0
      /\ body[Header(o)].size = z /\ body[Header(o)].ixdele = d /\ ixs[Header(o)].ixdele = d
      /\ SizeOf(o) = z
  BY <1>2, HeaderIs
<1>4. \A p \in Page : ids[p] = Ix(o) /\ ixs[p].span = 0 => p = Header(o)
  BY <1>2, HeaderIs
<1> QED
  BY <1>1, <1>3, <1>4 DEF HeaderView

\* The copy of an append is stored: the header of a file that was empty in place, a later
\* index page in place and the header moved, the header of another file moved.
LEMMA AppendStores ==
  ASSUME QuickIsFull, Sound, gc.pc = "off", NEW o, o = call.obj, o \in ObjIds,
         NEW w, w = call.work, Copy = w, w # NoWork, WorkOk(w), w.obj = o,
         \A k \in SlotsOf(w.ix.span) : body[w.page].refs[k] \in {Unset, w.ix.refs[k]},
         NEW y, HeadIs(ids, ixs, o, y, FALSE), call.base = 0 /\ w.ix.span = 0 => y = Unset,
         NEW z \in Nat, AppendStored(z), Copy' = NoWork
  PROVE  StoredView(o, z)
<1> DEFINE h == Header(o)  x == w.page
<1>1. /\ h \in Page /\ ids[h] = Ix(o) /\ ixs[h].span = 0 /\ body[h].span = 0
      /\ body[h].size = y /\ body[h].ixdele = FALSE /\ ixs[h].ixdele = FALSE
      /\ \A p \in Page : ids[p] = Ix(o) /\ ixs[p].span = 0 => p = h
  <2>1. HeaderView(o, y)
    BY HeaderAt, Zenon
  <2> QED
    BY <2>1, Zenon DEF HeaderView
<1>2. /\ x \in Page /\ ids[x] = Ix(o) /\ ixs[x] = w.ix /\ IndexBody(w.ix) /\ DOMAIN body = Page
      /\ IndexBody(body[h]) /\ body = [q \in Page |-> body[q]]
  <2>1. x \in Page /\ ids[x] = Ix(o) /\ IndexBody(w.ix)
    BY DEF WorkOk
  <2>2. body = [q \in Page |-> body[q]]
    BY DEF Sound, Whole
  <2> QED
    BY <1>1, <2>1, <2>2, BodyIs
<1>3. w.ix.span = 0 <=> x = h
  BY <1>1, <1>2
<1>4. ixs' = body'
  BY DEF ixs, Latest
<1>5. z \in Sizes /\ Unset \in Sizes
  BY DEF Sizes
<1> HIDE DEF h, x
<1>6. ASSUME w.ix.span = 0, call.base = 0 PROVE StoredView(o, z)
  <2>1. InPlace
    BY <1>6 DEF InPlace
  <2>2. PICK P : P = Programmed(w, z)
    OBVIOUS
  <2>3. body' = [body EXCEPT ![x] = P] /\ UNCHANGED <<fs, aborted>>
    <3>1. /\ body' = [body EXCEPT ![w.page] =
                        Programmed(w, IF body[Header(o)].size = Unset THEN z ELSE 0)]
          /\ UNCHANGED <<fs, aborted>>
      BY <2>1, Zenon DEF AppendStored
    <3>2. body[Header(o)].size = Unset
      BY <1>1, <1>6 DEF h
    <3> QED
      BY <2>2, <3>1, <3>2 DEF x
  <2>4. PICK f : f = [body EXCEPT ![x] = P]
    OBVIOUS
  <2>5. /\ f = [q \in Page |-> f[q]]
        /\ Typed(ids, f) /\ Unique(ids, f) /\ OthersKept(ids, ixs, ids, f, o)
        /\ SameView(ids, ixs, ids, f, o)
        /\ P.span = 0 => HeadIs(ids, f, o, z, P.ixdele)
        /\ P.ixdele = w.ix.ixdele /\ P.span = w.ix.span
    <3>1. ProgrammedView(o, w, x, P, f, z)
      BY <1>2, <1>5, <2>2, <2>4, ProgramsIndex DEF x
    <3> QED
      BY <3>1, Zenon DEF ProgrammedView
  <2>6. HeadIs(ids, f, o, z, FALSE)
    <3>1. P.ixdele = FALSE
      BY <1>1, <1>2, <1>3, <1>6, <2>5
    <3> QED
      BY <1>6, <2>5, <3>1
  <2>7. ids' = ids /\ ixs' = f /\ body' = f
    BY <1>4, <2>3, <2>4 DEF ids
  <2>8. Whole'
    BY <2>5, <2>7 DEF Whole
  <2>9. [Next]_vars /\ fs'.cleaning = fs.cleaning
    BY <2>3, PagesStep
  <2> QED
    BY <2>5, <2>6, <2>7, <2>8, <2>9 DEF StoredView
<1>7. ASSUME w.ix.span = 0, call.base # 0 PROVE StoredView(o, z)
  <2>1. ~InPlace
    BY <1>7 DEF InPlace
  <2>2. PICK c : c = [w.ix EXCEPT !.size = z]
    OBVIOUS
  <2>3. /\ Move(h)
        /\ body' = [body EXCEPT ![x] = w.ix, ![Taken] = c, ![h] = Blank]
    BY <1>7, <2>1, <2>2, Zenon DEF AppendStored, h, x
  <2>4. /\ IndexBody(c) /\ c.span = w.ix.span /\ c.size = z
        /\ c.ixdele = w.ix.ixdele /\ c.refs = w.ix.refs
    BY <1>2, <1>5, <2>2, HeaderBody
  <2>5. MovePage(h, c)
    <3>1. Taken \in Page /\ Taken # h
      <4>1. h \in Used(fs)
        BY <1>1, InUse
      <4> QED
        BY <2>3, <4>1, MoveLive DEF Sound, Moving
    <3> DEFINE t == Taken
    <3>2. t \in Page /\ t # h /\ body' = [body EXCEPT ![x] = w.ix, ![t] = c, ![h] = Blank]
      BY <2>3, <3>1
    <3> HIDE DEF t
    <3>3. body' = [body EXCEPT ![t] = c, ![h] = Blank]
      <4>1. x = h /\ DOMAIN body = Page
        BY <1>2, <1>3, <1>7
      <4>2. PICK g : g = [body EXCEPT ![t] = c, ![h] = Blank]
        OBVIOUS
      <4>3. g = [q \in Page |-> IF q = h THEN Blank ELSE IF q = t THEN c ELSE body[q]]
        BY <1>1, <3>2, <4>1, <4>2
      <4>4. body' = [q \in Page |-> IF q = h THEN Blank ELSE IF q = t THEN c ELSE body[q]]
        BY <1>1, <3>2, <4>1
      <4> QED
        BY <4>2, <4>3, <4>4
    <3> QED
      BY <2>3, <3>3 DEF MovePage, t
  <2>6. ids[h] = Ix(o) /\ ixs[h].span = 0 /\ Copy.page = h /\ h \in Page /\ c.span = 0
    BY <1>1, <1>3, <1>7, <2>4 DEF x
  <2>7. /\ MovedView(h, c) /\ ixs' = body'
        /\ Typed(ids', ixs') /\ Unique(ids', ixs') /\ OthersKept(ids, ixs, ids', ixs', o)
        /\ c.refs = ixs[h].refs => SameView(ids, ixs, ids', ixs', o)
        /\ HeadIs(ids', ixs', o, c.size, c.ixdele)
    BY <2>4, <2>5, <2>6, HeaderMoved
  <2>8. SameView(ids, ixs, ids', ixs', o)
    BY <1>2, <1>3, <1>7, <2>4, <2>7
  <2>9. HeadIs(ids', ixs', o, z, FALSE)
    <3>1. c.size = z /\ c.ixdele = FALSE
      BY <1>1, <1>2, <1>3, <1>7, <2>4
    <3> QED
      BY <2>7, <3>1
  <2>10. [Next]_vars /\ fs'.cleaning = fs.cleaning /\ Whole'
    BY <2>7 DEF MovedView
  <2> QED
    BY <2>7, <2>8, <2>9, <2>10 DEF StoredView
<1>8. ASSUME w.ix.span # 0 PROVE StoredView(o, z)
  <2>1. ~InPlace
    BY <1>8 DEF InPlace
  <2>2. PICK P : P = Programmed(w, Unset)
    OBVIOUS
  <2>3. PICK c : c = [body[h] EXCEPT !.size = z]
    OBVIOUS
  <2>4. /\ Move(h)
        /\ body' = [body EXCEPT ![x] = P, ![Taken] = c, ![h] = Blank]
    BY <1>8, <2>1, <2>2, <2>3, Zenon DEF AppendStored, h, x
  <2>5. /\ IndexBody(c) /\ c.span = 0 /\ c.size = z /\ c.ixdele = FALSE /\ c.refs = body[h].refs
    <3>1. /\ IndexBody(c) /\ c.span = body[h].span /\ c.size = z
          /\ c.ixdele = body[h].ixdele /\ c.refs = body[h].refs
      BY <1>2, <1>5, <2>3, HeaderBody
    <3> QED
      BY <1>1, <3>1
  <2>6. PICK f : f = [body EXCEPT ![x] = P]
    OBVIOUS
  <2>7. /\ DOMAIN f = Page
        /\ f[x] = P /\ \A q \in Page : q # x => f[q] = body[q]
        /\ Typed(ids, f) /\ Unique(ids, f) /\ OthersKept(ids, ixs, ids, f, o)
        /\ SameView(ids, ixs, ids, f, o)
    <3>1. ProgrammedView(o, w, x, P, f, Unset)
      BY <1>2, <1>5, <2>2, <2>6, ProgramsIndex DEF x
    <3> QED
      BY <3>1, Zenon DEF ProgrammedView
  <2>8. h \in Used(fs)
    BY <1>1, InUse
  <2>9. /\ Next /\ fs'.cleaning = fs.cleaning /\ Moving(h, Taken)
    BY <2>4, <2>8, PagesStep, MoveLive DEF Sound
  <2>10. PICK t : t = Taken
    OBVIOUS
  <2>11. /\ t \in Page /\ ids[t] = DELETED /\ t # h
         /\ \A q \in Page : ids'[q] = IF q = h THEN DELETED ELSE IF q = t THEN ids[h] ELSE ids[q]
    BY <2>9, <2>10 DEF Moving
  <2>12. x # h /\ x # t
    BY <1>2, <1>3, <1>8, <2>11, IdsApart
  <2>13. /\ DOMAIN body' = Page /\ body' = [q \in Page |-> body'[q]]
         /\ body'[t] = c /\ body'[h] = Blank
         /\ \A q \in Page : q # h /\ q # t => body'[q] = f[q]
    <3>1. body' = [body EXCEPT ![x] = P, ![t] = c, ![h] = Blank]
      BY <2>4, <2>10
    <3> QED
      BY <1>1, <1>2, <2>7, <2>11, <2>12, <3>1
  <2>14. Flash(ids', ixs')
    BY <2>13, FlashNext
  <2>15. Relocated(ids, f, ids', ixs', o, h, t, c)
    <3>1. Elsewhere(ids, f, ids', ixs', {h, t})
      BY <1>4, <2>11, <2>13 DEF Elsewhere
    <3> QED
      BY <1>1, <1>4, <2>11, <2>13, <3>1 DEF Relocated
  <2>16. f[h] = body[h]
    BY <1>1, <2>7, <2>12
  <2>17. RewrittenView(ids, f, ids', ixs', o, c)
    <3>1. c.span = f[h].span /\ c.refs = f[h].refs
      BY <1>1, <2>5, <2>16
    <3> QED
      BY <1>1, <2>5, <2>7, <2>11, <2>14, <2>15, <3>1, Rewriting, Zenon
  <2>18. /\ Typed(ids', ixs') /\ Unique(ids', ixs') /\ OthersKept(ids, f, ids', ixs', o)
         /\ SameView(ids, f, ids', ixs', o) /\ HeadIs(ids', ixs', o, z, FALSE)
    BY <2>5, <2>17 DEF RewrittenView
  <2>19. OthersKept(ids, ixs, ids', ixs', o) /\ SameView(ids, ixs, ids', ixs', o)
    BY <2>7, <2>18, Twice, Zenon
  <2>20. Whole'
    BY <2>13 DEF Whole
  <2> QED
    BY <1>4, <2>9, <2>18, <2>19, <2>20 DEF StoredView
<1> QED
  BY <1>6, <1>7, <1>8

\* The copy of an append cannot be stored: the file is given up, with an index page behind
\* the header programmed or not.
LEMMA AppendBreaks ==
  ASSUME QuickIsFull, Sound, gc.pc = "off", call.op = "write", call.pc = "append", Held,
         AppendNotStored, Break(call.obj), gc' = gc
  PROVE  Fine
<1> DEFINE o == call.obj  w == call.work
<1>1. /\ HoldOk /\ AppendWork /\ o \in ObjIds /\ Copy = w /\ call.op \in Working
      /\ \A q : q # o => ~Busy(q)
  BY AppendNow
<1>2. w # NoWork /\ WorkOk(w) /\ w.obj = o /\ w.page \in Page
      /\ \A k \in SlotsOf(w.ix.span) : body[w.page].refs[k] \in {Unset, w.ix.refs[k]}
  <2>1. w # NoWork /\ WorkOk(w) /\ w.obj = o
    BY <1>1 DEF HoldOk, Held
  <2>2. w.page \in Page
    BY <2>1 DEF WorkOk
  <2> QED
    BY <1>1, <2>1, <2>2 DEF AppendWork, Held
<1>3. Refuse /\ body' = (IF w.ix.span = 0 THEN body ELSE [body EXCEPT ![w.page] = Programmed(w, Unset)])
  BY DEF AppendNotStored
<1>4. [Next]_vars /\ fs'.cleaning = fs.cleaning /\ ids' = ids
  BY <1>3, PagesStep, OtherLive DEF Sound
<1> DEFINE u == Unknown
<1>5. Return(o, u) /\ u = Unknown
  BY DEF Break
<1>6. Whole
  BY DEF Sound
<1> HIDE DEF o, w, u
<1>7. CASE w.ix.span = 0
  <2>1. body' = body
    BY <1>3, <1>7
  <2>2. Whole'
    BY <1>6, <2>1 DEF Whole
  <2>3. Typed(ids, body) /\ Unique(ids, body) /\ OthersKept(ids, ixs, ids, body, o)
    BY <1>1, <1>2, CopyDropped
  <2>4. Typed(ids', body') /\ Unique(ids', body') /\ OthersKept(ids, ixs, ids', body', o)
    BY <1>4, <2>1, <2>3
  <2> QED
    BY <1>1, <1>4, <1>5, <2>2, <2>4, Ends
<1>8. CASE w.ix.span # 0
  <2>1. PICK P : P = Programmed(w, Unset)
    OBVIOUS
  <2>2. PICK x \in Page : x = w.page
    BY <1>2
  <2>3. PICK f : f = [body EXCEPT ![x] = P]
    OBVIOUS
  <2>4. body' = f
    BY <1>3, <1>8, <2>1, <2>2, <2>3
  <2>5. Unset \in Sizes
    BY DEF Sizes
  <2>6. /\ f = [q \in Page |-> f[q]]
        /\ Typed(ids, f) /\ Unique(ids, f) /\ OthersKept(ids, ixs, ids, f, o)
    <3>1. ProgrammedView(o, w, x, P, f, Unset)
      BY <1>1, <1>2, <2>1, <2>2, <2>3, <2>5, ProgramsIndex
    <3> QED
      BY <3>1, Zenon DEF ProgrammedView
  <2>7. Whole'
    BY <2>4, <2>6 DEF Whole
  <2>8. Typed(ids', body') /\ Unique(ids', body') /\ OthersKept(ids, ixs, ids', body', o)
    BY <1>4, <2>4, <2>6
  <2> QED
    BY <1>1, <1>4, <1>5, <2>7, <2>8, Ends
<1> QED
  BY <1>7, <1>8

\* The copy of an append that has come to a switch or to the end has the slot of the last
\* byte: the object is whole without it being held.
LEMMA CopyUsed ==
  ASSUME Sound, gc.pc = "off", call.op = "write", call.pc = "append", Held,
         call.work.ix.span = IxSpan(SpanAt(call.pos - 1)), call.pos > call.base
  PROVE  Shape(ids, ixs, call.obj, call.pos,
               Wanted(files[call.obj], call.base, call.pos, call.val), -1, Unset, FALSE)
<1> DEFINE k == SpanAt(call.pos - 1)
<1>1. /\ WriteRec
      /\ Shape(ids, ixs, call.obj, call.pos,
               Wanted(files[call.obj], call.base, call.pos, call.val),
               HeldSpan(call.work), Unset, FALSE)
  BY AppendNow
<1>2. call.pos \in Nat /\ call.base \in Nat /\ call.pos - 1 \in Nat /\ call.pos - 1 < Top
  <2>1. call.pos \in Nat /\ call.base \in Nat /\ call.pos <= call.end /\ call.end <= Top
        /\ Top \in Nat /\ call.end \in Nat
    BY <1>1, WriteIs
  <2> QED
    BY <2>1
<1>3. k \in Span /\ k * DataPageSize <= call.pos - 1
  BY <1>2, SpanFor
<1>4. k * DataPageSize < call.pos
  <2>1. k * DataPageSize \in Nat
    BY <1>3, SpanStart
  <2> QED
    BY <1>2, <1>3, <2>1
<1>5. HeldSpan(call.work) = IxSpan(k)
  BY DEF HeldSpan, Held
<1> HIDE DEF k
<1> QED
  BY <1>1, <1>3, <1>4, <1>5, ShapeHeld

\* On a switch the index page left is stored.
LEMMA AppendsStore ==
  ASSUME QuickIsFull, Sound, AppendStore
  PROVE  Fine
<1> DEFINE o == call.obj  c == files[o]  w == call.work
           W == Wanted(c, call.base, call.pos, call.val)
<1>1. /\ gc.pc = "off" /\ call.op = "write" /\ call.pc = "append" /\ gc' = gc
      /\ call.pos < call.end /\ ~call.full /\ Held /\ w.ix.span # IxSpan(SpanAt(call.pos))
  BY DEF AppendStore, At, Switches, Held
<1>2. /\ WriteRec /\ Appends /\ HoldOk /\ o \in ObjIds /\ Copy = w
      /\ HeadFor /\ AppendWork /\ ContentOk(c)
  BY <1>1, AppendNow, WriteIs
<1>3. CASE AppendNotStored /\ Break(o)
  BY <1>1, <1>3, AppendBreaks
<1>4. CASE AppendStored(call.pos) /\ call' = [call EXCEPT !.work = NoWork] /\ UNCHANGED files
  <2>1. /\ w # NoWork /\ WorkOk(w) /\ w.obj = o
        /\ call.pos > call.base /\ w.ix.span = IxSpan(SpanAt(call.pos - 1))
        /\ \A k \in SlotsOf(w.ix.span) : body[w.page].refs[k] \in {Unset, w.ix.refs[k]}
    BY <1>1, <1>2 DEF HoldOk, Held, AppendWork
  <2>2. Shape(ids, ixs, o, call.pos, W, -1, Unset, FALSE)
    BY <1>1, <2>1, CopyUsed
  <2>3. PICK b \in BOOLEAN : b = call.full
    BY <1>2, WriteIs
  <2>4. call' = Onward("append", call.pos, b, NoWork) /\ ~b
    BY <1>1, <1>2, <1>4, <2>3 DEF WriteRec, Onward
  <2>5. Copy' = NoWork
    BY <1>1, <2>4 DEF Copy, Onward
  <2>6. PICK y \in {Unset} \cup 0..Top :
          /\ HeadIs(ids, ixs, o, y, FALSE)
          /\ call.base = 0 /\ w.ix.span = 0 => y = Unset
    BY <1>1, <1>2 DEF HeadFor
  <2>7. call.pos \in Nat /\ call.base \in Nat /\ call.pos \in 0..Top
        /\ call.base <= call.pos /\ call.pos <= call.end
        /\ call.pos # call.end /\ call.pos # call.base
    <3>1. call.pos \in Nat /\ call.base \in Nat /\ call.pos <= call.end /\ call.end <= Top
          /\ Top \in Nat /\ call.end \in Nat /\ call.base <= call.pos
      BY <1>2, WriteIs
    <3> QED
      BY <1>1, <2>1, <3>1
  <2> HIDE DEF o, c, w, W
  <2>8. o = call.obj /\ w = call.work
    BY DEF o, w
  <2>9. StoredView(o, call.pos)
    BY <1>1, <1>2, <1>4, <2>1, <2>5, <2>6, <2>7, <2>8, AppendStores
  <2>10. /\ [Next]_vars /\ fs'.cleaning = fs.cleaning /\ Whole'
         /\ Typed(ids', ixs') /\ Unique(ids', ixs') /\ OthersKept(ids, ixs, ids', ixs', o)
         /\ SameView(ids, ixs, ids', ixs', o) /\ HeadIs(ids', ixs', o, call.pos, FALSE)
    BY <2>9, Zenon DEF StoredView
  <2>11. Shape(ids', ixs', o, call.pos, W, -1, Unset, FALSE)
    BY <1>2, <2>2, <2>10, ShapeKept
  <2>12. HeldSpan(NoWork) = -1
    BY DEF HeldSpan
  <2>13. Shape(ids', ixs', o, call.pos, Wanted(c, call.base, call.pos, call.val),
               HeldSpan(NoWork), Unset, FALSE)
    BY <2>11, <2>12 DEF W
  <2>14. GoodCopy(call.pos, b, NoWork)
    BY <1>1, <2>1, <2>4, <2>7, <2>8 DEF GoodCopy
  <2>15. PICK z \in {Unset} \cup 0..Top : z = call.pos
    BY <2>7
  <2>16. HeadIs(ids', ixs', o, z, FALSE)
    BY <2>10, <2>15
  <2>17. c = files[o]
    BY DEF c
  <2>18. PICK n \in Nat : n = call.pos
    BY <2>7
  <2>19. PICK v : v = NoWork
    OBVIOUS
  <2>20. PICK q \in ObjIds : q = o
    BY <1>2
  <2>21. PICK d : d = c
    OBVIOUS
  <2>22. /\ gc.pc = "off" /\ call.op = "write" /\ WriteRec /\ Appends /\ q = call.obj /\ d = files[q]
         /\ [Next]_vars /\ fs'.cleaning = fs.cleaning /\ Whole' /\ UNCHANGED <<gc, files>>
    BY <1>1, <1>2, <1>4, <2>8, <2>10, <2>17, <2>20, <2>21
  <2>23. call.base <= n /\ n <= call.end /\ call' = Onward("append", n, b, v)
    BY <2>4, <2>7, <2>18, <2>19
  <2>24. Typed(ids', ixs') /\ Unique(ids', ixs') /\ OthersKept(ids, ixs, ids', ixs', q)
    BY <2>10, <2>20
  <2>25. v = NoWork \/ (WorkOk(v)' /\ v.obj = q)
    BY <2>19
  <2>26. Shape(ids', ixs', q, n, Wanted(d, call.base, n, call.val), HeldSpan(v), Unset, FALSE)
    BY <2>13, <2>18, <2>19, <2>20, <2>21
  <2>27. HeadIs(ids', ixs', q, z, FALSE)
    BY <2>16, <2>20
  <2>28. /\ n = call.base => z = SizeField(d)
         /\ call.base = 0 /\ v # NoWork /\ v.ix.span = 0 => z = Unset
    BY <2>7, <2>18, <2>19
  <2>29. GoodCopy(n, b, v)
    BY <2>14, <2>18, <2>19
  <2>30. Reaches(q, d, n, b, v, z)
    BY <2>3, <2>15, <2>18, <2>20, <2>22, <2>23, <2>24, <2>25, <2>26, <2>27, <2>28, <2>29, Zenon DEF Reaches
  <2> QED
    BY <2>22, <2>30, AppendGoes
<1> QED
  BY <1>3, <1>4 DEF AppendStore

\* At the end, or where no page was found for more, the copy is stored.
LEMMA AppendsFinish ==
  ASSUME QuickIsFull, Sound, AppendFinish
  PROVE  Fine
<1> DEFINE o == call.obj  c == files[o]  w == call.work
           W == Wanted(c, call.base, call.pos, call.val)  e == Written
<1>1. /\ gc.pc = "off" /\ call.op = "write" /\ call.pc = "append" /\ gc' = gc
      /\ call.pos = call.end \/ call.full
  BY DEF AppendFinish, At
<1>2. /\ WriteRec /\ Appends /\ HoldOk /\ o \in ObjIds /\ Copy = w
      /\ HeadFor /\ AppendWork /\ ContentOk(c)
      /\ \A q : q # o => ~Busy(q)
  BY <1>1, AppendNow, WriteIs
<1>3. Held
  BY <1>1, <1>2 DEF AppendWork
<1>4. CASE AppendNotStored /\ Break(o)
  BY <1>1, <1>3, <1>4, AppendBreaks
<1>5. CASE AppendStored(call.pos) /\ IF call.full THEN Break(o) ELSE Return(o, e)
  <2>1. /\ w # NoWork /\ WorkOk(w) /\ w.obj = o
        /\ \A k \in SlotsOf(w.ix.span) : body[w.page].refs[k] \in {Unset, w.ix.refs[k]}
    BY <1>2, <1>3 DEF HoldOk, Held, AppendWork
  <2>2. Copy' = NoWork
    <3>1. call' = NoCall
      <4>1. CASE call.full
        BY <1>5, <4>1 DEF Break, Return
      <4>2. CASE ~call.full
        BY <1>5, <4>2 DEF Return
      <4> QED
        BY <4>1, <4>2
    <3>2. gc'.pc = "off"
      BY <1>1
    <3> QED
      BY <3>1, <3>2 DEF Copy, NoCall, Working
  <2>3. PICK y \in {Unset} \cup 0..Top :
          /\ HeadIs(ids, ixs, o, y, FALSE)
          /\ call.base = 0 /\ w.ix.span = 0 => y = Unset
    BY <1>2, <1>3 DEF HeadFor
  <2>4. /\ call.pos \in Nat /\ call.base \in Nat /\ call.end \in Nat /\ call.base < call.end
        /\ c \in Seq(Bytes) /\ Len(c) \in Nat /\ call.base = Len(c)
    BY <1>2, WriteIs, ContentIs DEF Appends
  <2>5. ~call.full => /\ ContentOk(e) /\ Len(e) = call.pos /\ SizeField(e) = call.pos
                      /\ Wanted(e, 0, 0, Unset) = W
                      /\ Shape(ids, ixs, o, call.pos, W, -1, Unset, FALSE)
    <3> SUFFICES ASSUME ~call.full PROVE /\ ContentOk(e) /\ Len(e) = call.pos /\ SizeField(e) = call.pos
                                         /\ Wanted(e, 0, 0, Unset) = W
                                         /\ Shape(ids, ixs, o, call.pos, W, -1, Unset, FALSE)
      OBVIOUS
    <3>1. call.pos = call.end /\ call.pos > call.base
      BY <1>1, <2>4
    <3>2. w.ix.span = IxSpan(SpanAt(call.pos - 1))
      BY <1>2, <1>3, <2>4, <3>1 DEF AppendWork
    <3>3. Shape(ids, ixs, o, call.pos, W, -1, Unset, FALSE)
      BY <1>1, <1>3, <3>1, <3>2, CopyUsed
    <3>4. call.base <= Len(c)
      BY <2>4
    <3>5. /\ ContentOk(e) /\ Len(e) = (IF Len(c) > call.end THEN Len(c) ELSE call.end)
          /\ SizeField(e) = Len(e)
          /\ Wanted(e, 0, 0, Unset) = Wanted(c, call.base, call.end, call.val)
      BY <1>2, <3>4, WrittenIs
    <3>6. Len(e) = call.end
      BY <2>4, <3>5
    <3> QED
      BY <3>1, <3>3, <3>5, <3>6
  <2> HIDE DEF o, c, w, W, e
  <2>6. o = call.obj /\ w = call.work
    BY DEF o, w
  <2>7. StoredView(o, call.pos)
    BY <1>1, <1>2, <1>5, <2>1, <2>2, <2>3, <2>4, <2>6, AppendStores
  <2>8. /\ [Next]_vars /\ fs'.cleaning = fs.cleaning /\ Whole'
        /\ Typed(ids', ixs') /\ Unique(ids', ixs') /\ OthersKept(ids, ixs, ids', ixs', o)
        /\ SameView(ids, ixs, ids', ixs', o) /\ HeadIs(ids', ixs', o, call.pos, FALSE)
        /\ ixs' = body'
    BY <2>7, Zenon DEF StoredView
  <2>9. Typed(ids', body') /\ Unique(ids', body') /\ OthersKept(ids, ixs, ids', body', o)
    BY <2>8
  <2>10. CASE call.full
    <3>1. PICK u : u = Unknown /\ Return(o, u)
      BY <1>5, <2>10 DEF Break
    <3> QED
      BY <1>1, <1>2, <2>8, <2>9, <3>1, Ends
  <2>11. CASE ~call.full
    <3>1. PICK x : x = e
      OBVIOUS
    <3>2. Return(o, x) /\ ContentOk(x) /\ Len(x) = call.pos /\ SizeField(x) = call.pos
          /\ Wanted(x, 0, 0, Unset) = W
      BY <1>5, <2>5, <2>11, <3>1
    <3>3. Shape(ids', ixs', o, call.pos, W, -1, Unset, FALSE)
      BY <1>2, <2>5, <2>8, <2>11, ShapeKept
    <3>4. /\ Shape(ids', body', o, Len(x), Wanted(x, 0, 0, Unset), -1, Unset, FALSE)
          /\ HeadIs(ids', body', o, SizeField(x), FALSE)
      BY <2>8, <3>2, <3>3
    <3> QED
      BY <1>1, <1>2, <2>8, <2>9, <3>2, <3>4, Ends
  <2> QED
    BY <2>10, <2>11
<1> QED
  BY <1>4, <1>5 DEF AppendFinish

\* What an append that goes on has, and its header.
AppendView(o, c, z) ==
  /\ o \in ObjIds /\ o = call.obj /\ c = files[o]
  /\ call.op = "write" /\ call.op \in Working /\ WriteRec /\ Appends /\ HoldOk
  /\ Copy = call.work /\ AppendWork
  /\ Shape(ids, ixs, o, call.pos, Wanted(c, call.base, call.pos, call.val),
           HeldSpan(call.work), Unset, FALSE)
  /\ z \in {Unset} \cup 0..Top /\ HeadIs(ids, ixs, o, z, FALSE)
  /\ call.pos = call.base => z = SizeField(c)
  /\ call.base = 0 /\ Held /\ call.work.ix.span = 0 => z = Unset

\* It has one of the header's sizes.
LEMMA AppendHas ==
  ASSUME Sound, gc.pc = "off", call.op = "write", call.pc = "append"
  PROVE  \E o, c, z : AppendView(o, c, z)
<1>1. /\ WriteRec /\ Appends /\ HoldOk
      /\ call.obj \in ObjIds /\ Copy = call.work /\ call.op \in Working
      /\ Shape(ids, ixs, call.obj, call.pos,
               Wanted(files[call.obj], call.base, call.pos, call.val),
               HeldSpan(call.work), Unset, FALSE)
      /\ HeadFor /\ AppendWork
  BY AppendNow
<1>2. PICK z \in {Unset} \cup 0..Top :
         /\ HeadIs(ids, ixs, call.obj, z, FALSE)
         /\ call.pos = call.base => z = SizeField(files[call.obj])
         /\ call.base = 0 /\ Held /\ call.work.ix.span = 0 => z = Unset
  BY <1>1, Zenon DEF HeadFor
<1>3. AppendView(call.obj, files[call.obj], z)
  BY <1>1, <1>2 DEF AppendView
<1> QED
  BY <1>3

\* Its position, and the span it is in.
LEMMA AppendAt ==
  ASSUME Sound, NEW o, NEW c, NEW z, AppendView(o, c, z), call.pos < call.end,
         NEW k, k = SpanAt(call.pos)
  PROVE  /\ call.pos \in Nat /\ call.base \in Nat /\ call.end \in Nat /\ call.base <= call.pos
         /\ ContentOk(c) /\ c \in Seq(Bytes) /\ Len(c) = call.base /\ call.val \in Bytes
         /\ k \in Span /\ k \in Nat /\ k * DataPageSize \in Nat
         /\ k * DataPageSize <= call.pos /\ call.pos < k * DataPageSize + DataPageSize
         /\ NextPos \in Nat /\ call.pos < NextPos /\ NextPos <= call.end
         /\ NextPos <= k * DataPageSize + DataPageSize
         /\ NextPos < call.end => NextPos = k * DataPageSize + DataPageSize
         /\ call.pos % DataPageSize = 0 <=> call.pos = k * DataPageSize
         /\ call.pos = call.base => Length(o) = call.pos
<1>1. /\ o = call.obj /\ c = files[o] /\ WriteRec /\ Appends /\ HeadIs(ids, ixs, o, z, FALSE)
      /\ o \in ObjIds
      /\ call.pos = call.base => z = SizeField(c)
  BY DEF AppendView
<1>2. /\ ContentOk(c) /\ call.pos \in Nat /\ call.base \in Nat /\ call.end \in Nat
      /\ call.base <= call.pos /\ call.val \in Bytes
  BY <1>1, WriteIs
<1>3. Len(c) = call.base
  BY <1>1 DEF Appends
<1>4. /\ k \in Span /\ k \in Nat /\ k * DataPageSize \in Nat
      /\ k * DataPageSize <= call.pos /\ call.pos < k * DataPageSize + DataPageSize
      /\ NextPos \in Nat /\ call.pos < NextPos /\ NextPos <= call.end
      /\ NextPos <= k * DataPageSize + DataPageSize
      /\ NextPos < call.end => NextPos = k * DataPageSize + DataPageSize
      /\ call.pos % DataPageSize = 0 <=> call.pos = k * DataPageSize
  BY <1>1, NextIs
<1>5. ASSUME call.pos = call.base PROVE Length(o) = call.pos
  <2>1. SizeOf(o) = z
    <3>1. HeaderView(o, z)
      BY <1>1, <1>5, HeaderAt, Zenon
    <3> QED
      BY <3>1 DEF HeaderView
  <2>2. Len(c) # Unset /\ c \in Seq(Bytes)
    BY <1>2, ContentIs, StoreAssumption
  <2> QED
    BY <1>1, <1>3, <1>5, <2>1, <2>2 DEF Length, SizeField
<1>6. c \in Seq(Bytes)
  BY <1>2, ContentIs
<1> QED
  BY <1>2, <1>3, <1>4, <1>5, <1>6

\* The span of the last byte has its slot in the index page of that of the next to write, or
\* in one before.
LEMMA LastSpan ==
  ASSUME NEW n \in Nat, n > 0, n < Top, NEW k \in Span, k * DataPageSize < n
  PROVE  /\ SpanAt(n - 1) \in Span /\ SpanAt(n - 1) * DataPageSize < n
         /\ k <= SpanAt(n - 1) /\ SpanAt(n - 1) <= SpanAt(n)
         /\ IxSpan(k) \in Nat /\ IxSpan(SpanAt(n - 1)) \in Nat /\ IxSpan(SpanAt(n)) \in Nat
         /\ IxSpan(k) <= IxSpan(SpanAt(n - 1)) /\ IxSpan(SpanAt(n - 1)) <= IxSpan(SpanAt(n))
<1>1. n - 1 \in Nat /\ Top \in Nat /\ n - 1 < Top
  BY TopIs
<1> DEFINE s == SpanAt(n - 1)  t == SpanAt(n)
<1>2. /\ s \in Span /\ s \in Nat /\ s * DataPageSize <= n - 1
      /\ \A j \in Span : j * DataPageSize <= n - 1 <=> j <= s
  BY <1>1, SpanFor
<1>3. t \in Span /\ t \in Nat /\ \A j \in Span : j * DataPageSize <= n <=> j <= t
  BY <1>1, SpanFor
<1>4. s * DataPageSize \in Nat /\ k * DataPageSize \in Nat /\ k \in Nat
  BY <1>2, SpanStart, Referred
<1> HIDE DEF s, t
<1>5. s * DataPageSize < n /\ s * DataPageSize <= n /\ k * DataPageSize <= n - 1
  BY <1>1, <1>2, <1>4
<1>6. k <= s /\ s <= t
  BY <1>2, <1>3, <1>5
<1>7. /\ IxSpan(k) \in Nat /\ IxSpan(s) \in Nat /\ IxSpan(t) \in Nat
      /\ IxSpan(k) <= IxSpan(s) /\ IxSpan(s) <= IxSpan(t)
  BY <1>2, <1>3, <1>4, <1>6, IxSpanUp
<1> QED
  BY <1>2, <1>5, <1>6, <1>7 DEF s, t

\* A new index page is only opened where there is none.
LEMMA NoneYet ==
  ASSUME Sound, NEW o, NEW c, NEW z, AppendView(o, c, z), call.pos < call.end, NewIndex
  PROVE  ~HasIx(ids, ixs, o, IxSpan(SpanAt(call.pos)))
<1> DEFINE j == IxSpan(SpanAt(call.pos))  n == call.pos
<1>1. /\ call.work = NoWork /\ j # 0
      /\ n > call.base \/ j > IxSpan(SpanAt(Length(o) - 1))
  BY DEF NewIndex, AppendView
<1>2. /\ n \in Nat /\ call.base \in Nat /\ call.base <= n
      /\ n = call.base => Length(o) = n
  BY AppendAt
<1>3. n < Top
  <2>1. WriteRec
    BY DEF AppendView
  <2>2. call.end \in Nat /\ call.end <= Top /\ Top \in Nat
    BY <2>1, WriteIs
  <2> QED
    BY <1>2, <2>2
<1>4. Spanned(ids, ixs, o, n, -1)
  <2>1. Shape(ids, ixs, o, n, Wanted(c, call.base, n, call.val), HeldSpan(call.work), Unset, FALSE)
    BY DEF AppendView
  <2>2. HeldSpan(call.work) = -1
    BY <1>1 DEF HeldSpan
  <2> QED
    BY <2>1, <2>2 DEF Shape
<1> SUFFICES ASSUME NEW p \in Page, ids[p] = Ix(o), ixs[p].span = j
             PROVE  FALSE
  BY DEF HasIx
<1>5. j \in Nat
  <2>1. SpanAt(call.pos) \in Nat
    BY AppendAt
  <2> QED
    BY <2>1, IxSpanUp
<1>6. ixs[p].span # -1 /\ ixs[p].span # 0
  BY <1>1, <1>5
<1>7. PICK k \in Span : IxSpan(k) = j /\ k * DataPageSize < n
  BY <1>4, <1>6 DEF Spanned
<1>8. n > 0
  BY <1>2, <1>7, SpanStart
<1>9. j <= IxSpan(SpanAt(n - 1)) /\ IxSpan(SpanAt(n - 1)) <= j /\ IxSpan(SpanAt(n - 1)) \in Nat
  BY <1>2, <1>3, <1>7, <1>8, LastSpan
<1>10. IxSpan(SpanAt(n - 1)) = j
  BY <1>5, <1>9
<1>11. CASE n > call.base
  BY <1>1, <1>10, <1>11 DEF AppendView, AppendWork, Held
<1>12. CASE n = call.base
  BY <1>1, <1>2, <1>5, <1>10, <1>12
<1> QED
  BY <1>2, <1>11, <1>12

\* A new index page is opened for the slots that follow, or the append is given up.
LEMMA AppendsIndex ==
  ASSUME QuickIsFull, Sound, AppendIndex
  PROVE  Fine
<1>1. /\ gc.pc = "off" /\ call.op = "write" /\ call.pc = "append" /\ gc' = gc
      /\ call.pos < call.end /\ ~call.full /\ NewIndex
  BY DEF AppendIndex, At
<1>2. PICK o, c, z : AppendView(o, c, z)
  BY <1>1, AppendHas
<1>3. /\ o \in ObjIds /\ o = call.obj /\ c = files[o] /\ call.op \in Working
      /\ WriteRec /\ Appends /\ Copy = call.work /\ AppendWork
      /\ z \in {Unset} \cup 0..Top /\ HeadIs(ids, ixs, o, z, FALSE)
      /\ call.pos = call.base => z = SizeField(c)
  BY <1>2, Zenon DEF AppendView
<1>4. PICK j : j = IxSpan(SpanAt(call.pos))
  OBVIOUS
<1>5. call.work = NoWork /\ j # 0 /\ ~HasIx(ids, ixs, o, j) /\ j \in Nat
  <2>1. call.work = NoWork /\ j # 0
    BY <1>1, <1>4 DEF NewIndex
  <2>2. ~HasIx(ids, ixs, o, j)
    BY <1>1, <1>2, <1>4, NoneYet
  <2>3. SpanAt(call.pos) \in Nat
    BY <1>1, <1>2, AppendAt
  <2> QED
    BY <1>4, <2>1, <2>2, <2>3, IxSpanUp
<1>6. CASE Refuse /\ Break(call.obj) /\ UNCHANGED body
  BY <1>1, <1>3, <1>6, Breaks
<1>7. CASE /\ AllocatePage(<<call.obj, "index">>, IndexPage(j))
           /\ call' = [call EXCEPT !.work =
                         [page |-> Taken, obj |-> call.obj, ix |-> IndexPage(j)]]
           /\ UNCHANGED files
  <2>1. Ix(o) \in LuIds /\ AllocatePage(Ix(o), IndexPage(j))
    BY <1>3, <1>7, IdsApart DEF Ix
  <2>2. PICK b : b = IndexPage(j)
    OBVIOUS
  <2>3. AllocatedView(Ix(o), b)
    BY <2>1, <2>2, Allocates
  <2>4. PICK t : t = Taken
    OBVIOUS
  <2>5. /\ t \in Page /\ ids[t] = DELETED
        /\ \A q \in Page : ids'[q] = IF q = t THEN Ix(o) ELSE ids[q]
    BY <2>3, <2>4 DEF AllocatedView, Taking
  <2>6. /\ [Next]_vars /\ fs'.cleaning = fs.cleaning /\ Whole' /\ DOMAIN body' = Page
        /\ body'[t] = b /\ \A q \in Page : q # t => body'[q] = body[q]
    BY <2>3, <2>4 DEF AllocatedView
  <2>7. PICK v : v = [page |-> t, obj |-> o, ix |-> b]
    OBVIOUS
  <2>8. PICK f \in BOOLEAN : f = call.full
    BY <1>3, WriteIs
  <2>9. call' = Onward("append", call.pos, f, v) /\ ~f
    <3>1. call' = [call EXCEPT !.work = v]
      BY <1>3, <1>7, <2>2, <2>4, <2>7
    <3> QED
      BY <1>1, <1>3, <2>8, <3>1 DEF WriteRec, Onward
  <2>10. /\ v.page = t /\ v.obj = o /\ v.ix = b /\ v # NoWork
         /\ v = [page |-> v.page, obj |-> v.obj, ix |-> v.ix]
    <3>1. v.page = t /\ t # Unset /\ NoWork.page = Unset
      BY <2>5, <2>7, Referred DEF NoWork
    <3> QED
      BY <2>7, <3>1
  <2>11. /\ IndexBody(b) /\ b.span = j /\ b.size = Unset /\ b.ixdele = FALSE
         /\ \A k \in SlotsOf(j) : b.refs[k] = Unset
    BY <1>5, <2>2, EmptyPage
  <2>12. Copy' = v
    BY <1>1, <2>9 DEF Copy, Onward, Working
  <2>13. ixs' = body' /\ ixs = body
    <3>1. ixs = body
      BY <1>3, <1>5 DEF ixs, Latest
    <3>2. ixs' = Latest(body', v)
      BY <2>12 DEF ixs, Latest
    <3>3. PICK g : g = body'
      OBVIOUS
    <3>4. DOMAIN g = Page /\ g = [p \in Page |-> g[p]] /\ v.ix = g[v.page]
      BY <2>6, <2>10, <3>3 DEF Whole
    <3>5. Latest(g, v) = g
      BY <3>4, LatestAt
    <3>6. Latest(g, v) = Latest(body', v)
      BY <3>3 DEF Latest
    <3> QED
      BY <3>1, <3>2, <3>3, <3>5, <3>6
  <2>14. Flash(ids', ixs')
    BY <2>5, <2>6, <2>10, <2>12, FlashNext
  <2>15. Opens(ids, ixs, ids', ixs', o, t, j)
    BY <1>5, <2>2, <2>5, <2>6, <2>13 DEF Opens, Elsewhere
  <2>16. /\ Typed(ids', ixs') /\ Unique(ids', ixs') /\ OthersKept(ids, ixs, ids', ixs', o)
         /\ OpensView(ids, ixs, ids', ixs', o, t, j)
    BY <1>3, <1>5, <2>5, <2>14, <2>15, Opening DEF Sound
  <2>17. HeadIs(ids', ixs', o, z, FALSE)
    BY <1>3, <1>5, <2>16, Zenon DEF OpensView
  <2>18. PICK n \in Nat : n = call.pos
    BY <1>3, WriteIs
  <2>19. PICK W : W = Wanted(c, call.base, call.pos, call.val)
    OBVIOUS
  <2>20. Shape(ids, ixs, o, n, W, -1, Unset, FALSE)
    <3>1. Shape(ids, ixs, o, call.pos, Wanted(c, call.base, call.pos, call.val),
               HeldSpan(call.work), Unset, FALSE)
      BY <1>2 DEF AppendView
    <3>2. HeldSpan(call.work) = -1
      BY <1>5 DEF HeldSpan
    <3> QED
      BY <2>18, <2>19, <3>1, <3>2
  <2>21. Shape(ids', ixs', o, n, W, j, Unset, FALSE)
    BY <1>3, <1>5, <2>5, <2>14, <2>15, <2>20, ShapeOpen DEF Sound
  <2>22. WorkOk(v)'
    <3>1. ids'[t] = Ix(o) /\ body'[t] = b
      BY <2>5, <2>6
    <3> QED
      BY <1>3, <2>5, <2>10, <2>11, <3>1 DEF WorkOk
  <2>23. GoodCopy(n, f, v)
    BY <1>1, <1>4, <2>6, <2>9, <2>10, <2>11, <2>18 DEF GoodCopy
  <2>24. HeldSpan(v) = j
    BY <2>10, <2>11 DEF HeldSpan
  <2>25. Shape(ids', ixs', o, n, Wanted(c, call.base, n, call.val), HeldSpan(v), Unset, FALSE)
    BY <2>18, <2>19, <2>21, <2>24
  <2>26. n = call.base => z = SizeField(c)
    BY <1>3, <2>18
  <2>27. ~(call.base = 0 /\ v # NoWork /\ v.ix.span = 0)
    BY <1>5, <2>10, <2>11
  <2>28. call.base <= n /\ n <= call.end
    BY <1>3, <2>18, WriteIs
  <2>29. UNCHANGED <<gc, files>> /\ call' = Onward("append", n, f, v)
    BY <1>1, <1>7, <2>9, <2>18
  <2>30. Reaches(o, c, n, f, v, z)
    BY <1>3, <2>6, <2>8, <2>10, <2>16, <2>17, <2>18, <2>22, <2>23, <2>25, <2>26, <2>27, <2>28, <2>29,
       Zenon DEF Reaches
  <2> QED
    BY <1>1, <1>3, <2>30, AppendGoes
<1> QED
  BY <1>4, <1>6, <1>7 DEF AppendIndex

\* What the index page w for the next byte is, held already or not.
DataView(o, c, z, k, w) ==
  /\ WorkView(w, o, k)
  /\ call.base = 0 /\ w.ix.span = 0 => z = Unset
  /\ \A q \in SlotsOf(w.ix.span) : body[w.page].refs[q] \in {Unset, w.ix.refs[q]}
  /\ Shape(ids, ixs, o, call.pos, Wanted(c, call.base, call.pos, call.val),
           HeldSpan(w), Unset, FALSE)

\* When no new index page is due there is one.
LEMMA IndexThere ==
  ASSUME Sound, NEW o, NEW c, NEW z, AppendView(o, c, z), call.pos < call.end,
         ~Switches(call.pos), ~NewIndex
  PROVE  HasIx(ids, ixs, o, IxSpan(SpanAt(call.pos)))
<1> DEFINE j == IxSpan(SpanAt(call.pos))  n == call.pos
<1>1. /\ n \in Nat /\ call.base \in Nat /\ call.base <= n /\ SpanAt(n) \in Nat
      /\ SpanAt(n) \in Span /\ SpanAt(n) * DataPageSize <= n
      /\ n = call.base => Length(o) = n
  BY AppendAt
<1>2. /\ HoldOk /\ Copy = call.work /\ o = call.obj /\ HeadIs(ids, ixs, o, z, FALSE)
      /\ Linked(ids, ixs, o, n, Wanted(c, call.base, n, call.val)) /\ WriteRec /\ AppendWork
  BY DEF AppendView, Shape
<1>3. CASE Held
  <2>1. WorkOk(call.work) /\ call.work.obj = o /\ call.work # NoWork
    BY <1>2, <1>3 DEF HoldOk, Held
  <2>2. call.work.ix.span = j
    BY <1>3 DEF Switches, Held
  <2>3. /\ call.work.page \in Page /\ ids[call.work.page] = Ix(o)
        /\ ixs[call.work.page] = call.work.ix
    BY <1>2, <2>1, BodyIs DEF WorkOk
  <2> QED
    BY <2>2, <2>3 DEF HasIx
<1>4. CASE ~Held /\ j = 0
  <2>1. \E p \in Page : ids[p] = Ix(o) /\ ixs[p].span = 0
    BY <1>2 DEF HeadIs
  <2> QED
    BY <1>4, <2>1 DEF HasIx
<1>5. CASE ~Held /\ j # 0
  <2>1. ~(n > call.base) /\ ~(j > IxSpan(SpanAt(Length(o) - 1)))
    BY <1>2, <1>5 DEF NewIndex, Held
  <2>2. n = call.base /\ Length(o) = n
    BY <1>1, <2>1
  <2>3. n # 0
    <3> SUFFICES ASSUME n = 0 PROVE FALSE
      OBVIOUS
    <3>1. DataPageSize \in Nat /\ DataPageSize > 0 /\ 0 * DataPageSize <= n
          /\ n < 0 * DataPageSize + DataPageSize
      BY SpanStart
    <3>2. SpanAt(n) = 0
      BY <1>1, <3>1, SpanOnly DEF SpanAt
    <3>3. j = 0
      BY <3>2, IxSpanUp
    <3> QED
      BY <1>5, <3>3
  <2>4. n < Top
    <3>1. call.end \in Nat /\ call.end <= Top /\ Top \in Nat
      BY <1>2, WriteIs
    <3> QED
      BY <1>1, <3>1
  <2>5. n - 1 \in Nat /\ n > 0 /\ n - 1 < Top /\ Top \in Nat
    BY <1>1, <2>3, <2>4, TopIs
  <2> DEFINE s == SpanAt(n - 1)
  <2>6. s \in Span /\ s * DataPageSize <= n - 1 /\ s * DataPageSize \in Nat
    BY <2>5, SpanFor, SpanStart
  <2>7. s * DataPageSize < n
    BY <1>1, <2>5, <2>6
  <2>8. IxSpan(s) \in Nat /\ j \in Nat /\ IxSpan(s) <= j
    BY <1>1, <2>4, <2>5, <2>6, <2>7, LastSpan
  <2>9. IxSpan(s) = j
    BY <2>1, <2>2, <2>8
  <2>10. PICK r \in Page : Slot(ids, ixs, o, s, r)
    BY <1>2, <2>6, <2>7 DEF Linked
  <2> QED
    BY <2>9, <2>10 DEF Slot, HasIx
<1> QED
  BY <1>3, <1>4, <1>5

\* The index page a search finds is as good as one held.
LEMMA AppendUses ==
  ASSUME Sound, gc.pc = "off", NEW o, NEW c, NEW z, AppendView(o, c, z), call.pos < call.end,
         ~Switches(call.pos), ~NewIndex, NEW k, k = SpanAt(call.pos)
  PROVE  /\ WorkFor(call.pos) # {}
         /\ \A w \in WorkFor(call.pos) : DataView(o, c, z, k, w)
<1> DEFINE n == call.pos
<1>1. /\ n \in Nat /\ call.base \in Nat /\ call.base <= n /\ k \in Span
      /\ Len(c) = call.base /\ c \in Seq(Bytes)
  BY AppendAt
<1>2. /\ HoldOk /\ Copy = call.work /\ o = call.obj /\ o \in ObjIds /\ WriteRec /\ AppendWork
      /\ call.op \in Working
      /\ Shape(ids, ixs, o, n, Wanted(c, call.base, n, call.val), HeldSpan(call.work), Unset, FALSE)
      /\ n = call.base => z = SizeField(c)
      /\ call.base = 0 /\ Held /\ call.work.ix.span = 0 => z = Unset
  BY Zenon DEF AppendView
<1>3. HasIx(ids, ixs, call.obj, IxSpan(SpanAt(n)))
  BY <1>2, IndexThere
<1>4. /\ WorkFor(n) # {} /\ \A w \in WorkFor(n) : WorkView(w, o, k)
      /\ call.work # NoWork => WorkFor(n) = {call.work}
  BY <1>1, <1>2, <1>3, WorkForIs
<1>5. ASSUME NEW w \in WorkFor(n) PROVE DataView(o, c, z, k, w)
  <2>1. WorkView(w, o, k) /\ w.ix.span = IxSpan(k)
    BY <1>4 DEF WorkView
  <2>2. CASE Held
    <3>1. w = call.work
      BY <1>4, <1>5, <2>2 DEF Held
    <3> QED
      BY <1>2, <2>1, <2>2, <3>1 DEF DataView, AppendWork
  <2>3. CASE ~Held
    <3>1. w.ix = body[w.page]
      BY <2>1, <2>3 DEF WorkView, Held
    <3>2. HeldSpan(call.work) = -1
      BY <2>3 DEF Held, HeldSpan
    <3>3. Shape(ids, ixs, o, n, Wanted(c, call.base, n, call.val), HeldSpan(w), Unset, FALSE)
      <4> DEFINE W == Wanted(c, call.base, n, call.val)
      <4>1. Shape(ids, ixs, o, n, W, -1, Unset, FALSE)
        BY <1>2, <3>2
      <4> HIDE DEF W
      <4> QED
        BY <1>2, <4>1, ShapeWeaker DEF Sound, W
    <3>4. ASSUME call.base = 0, w.ix.span = 0 PROVE z = Unset
      <4>1. CASE n = 0
        <5>1. z = SizeField(c) /\ Len(c) = 0
          BY <1>1, <1>2, <3>4, <4>1
        <5>2. c = <<>>
          BY <1>1, <5>1
        <5> QED
          BY <5>1, <5>2 DEF SizeField
      <4>2. CASE n # 0
        <5>1. IxSpan(SpanAt(n - 1)) # IxSpan(SpanAt(n))
          BY <1>1, <1>2, <2>3, <3>4, <4>2 DEF AppendWork
        <5>2. n < Top
          <6>1. call.end \in Nat /\ call.end <= Top /\ Top \in Nat
            BY <1>2, WriteIs
          <6> QED
            BY <1>1, <6>1
        <5>3. n - 1 \in Nat /\ n > 0 /\ n - 1 < Top /\ Top \in Nat
          BY <1>1, <4>2, <5>2, TopIs
        <5> DEFINE s == SpanAt(n - 1)
        <5>4. s \in Span /\ s * DataPageSize <= n - 1 /\ s * DataPageSize \in Nat
          BY <5>3, SpanFor, SpanStart
        <5>5. s * DataPageSize < n
          BY <1>1, <5>3, <5>4
        <5>6. IxSpan(s) \in Nat /\ IxSpan(s) <= IxSpan(SpanAt(n))
          BY <1>1, <5>2, <5>3, <5>4, <5>5, LastSpan
        <5> QED
          BY <2>1, <3>4, <5>1, <5>6
      <4> QED
        BY <4>1, <4>2
    <3> QED
      BY <2>1, <3>1, <3>3, <3>4 DEF DataView
  <2> QED
    BY <2>2, <2>3
<1> QED
  BY <1>4, <1>5

\* The bytes an append puts behind those of a span.
FilledView(c, next, k, old) ==
  /\ Filled(old) \in [0..(DataPageSize - 1) -> Cells]
  /\ \A i \in 0..(DataPageSize - 1) :
       /\ Filled(old)[i] = Wanted(c, call.base, next, call.val)[k * DataPageSize + i]
       /\ Filled(old)[i] # old[i] => old[i] = Unset
  /\ Agree(Wanted(c, call.base, call.pos, call.val), Wanted(c, call.base, next, call.val), k)

\* They are the ones wanted, and are put where there are none.
LEMMA FilledEnd ==
  ASSUME Sound, NEW o, NEW c, NEW z, AppendView(o, c, z), call.pos < call.end,
         NEW k, k = SpanAt(call.pos), NEW old \in [0..(DataPageSize - 1) -> Cells],
         \A i \in 0..(DataPageSize - 1) :
            old[i] = Wanted(c, call.base, call.pos, call.val)[k * DataPageSize + i],
         NEW next, next = NextPos
  PROVE  FilledView(c, next, k, old)
<1> DEFINE D == DataPageSize
<1>1. /\ call.pos \in Nat /\ call.base \in Nat /\ call.base <= call.pos /\ call.val \in Bytes
      /\ Len(c) = call.base /\ k \in Span /\ k \in Nat /\ k * D \in Nat
      /\ k * D <= call.pos /\ next \in Nat /\ call.pos < next /\ next <= k * D + D
  BY AppendAt
<1>2. WriteRec
  BY DEF AppendView
<1>3. /\ Filled(old) \in [0..(D - 1) -> Cells]
      /\ \A i \in 0..(D - 1) : Filled(old)[i] = IF call.pos <= k * D + i /\ k * D + i < next
                                                THEN call.val ELSE old[i]
  BY <1>2, FilledIs
<1> DEFINE W == Wanted(c, call.base, call.pos, call.val)
           X == Wanted(c, call.base, next, call.val)
<1>4. /\ Agree(W, X, k)
      /\ \A i \in 0..(D - 1) : X[k * D + i] = IF call.pos <= k * D + i /\ k * D + i < next
                                              THEN call.val ELSE W[k * D + i]
  <2> DEFINE bs == call.base  ps == call.pos  vl == call.val
  <2>1. /\ k \in Span /\ bs \in Nat /\ ps \in Nat /\ next \in Nat
        /\ bs <= ps /\ ps <= next
        /\ k * DataPageSize <= ps /\ next <= k * DataPageSize + DataPageSize
    BY <1>1
  <2> HIDE DEF bs, ps, vl
  <2>2. OnView(c, bs, ps, next, k, vl)
    BY <2>1, WantedOn, Zenon
  <2> QED
    BY <2>2, Zenon DEF OnView, bs, ps, vl, W, X, D
<1>5. ASSUME NEW i \in 0..(D - 1), call.pos <= k * D + i PROVE W[k * D + i] = Unset
  <2>1. k * D + i \in 0..Top
    BY <1>1, ByteIn
  <2> DEFINE m == k * D + i
  <2>2. m \in 0..Top /\ call.pos <= m /\ TRUE
    BY <1>5, <2>1
  <2>3. m \in Nat /\ ~(m < call.pos) /\ ~(m < Len(c))
    BY <1>1, <2>2, TopIs
  <2> HIDE DEF m
  <2>4. W[m] = Unset
    BY <2>2, <2>3 DEF Wanted
  <2> QED
    BY <2>4 DEF m
<1>6. ASSUME NEW i \in 0..(D - 1)
      PROVE  /\ Filled(old)[i] = X[k * D + i]
             /\ Filled(old)[i] # old[i] => old[i] = Unset
  BY <1>3, <1>4, <1>5, <1>6
<1> QED
  BY <1>3, <1>4, <1>6 DEF FilledView

\* The slots of an index page hold what those stored do, or more.
Holding(w) ==
  /\ w # NoWork
  /\ \A q \in SlotsOf(w.ix.span) : body'[w.page].refs[q] \in {Unset, w.ix.refs[q]}

\* The copy of an append that has written up to next.
LEMMA CopyOn ==
  ASSUME Sound, NEW o, NEW c, NEW z, AppendView(o, c, z), call.pos < call.end,
         NEW k, k = SpanAt(call.pos), NEW next, next = NextPos, NEW w, Holding(w),
         w.ix.span = IxSpan(k), NEW f
  PROVE  /\ GoodCopy(next, f, w)
         /\ next \in Nat /\ call.base <= next /\ next <= call.end /\ next # call.base
<1>1. /\ call.pos \in Nat /\ call.base \in Nat /\ call.end \in Nat /\ call.base <= call.pos
      /\ k \in Nat /\ k * DataPageSize \in Nat /\ k * DataPageSize <= call.pos
      /\ next \in Nat /\ call.pos < next /\ next <= call.end
      /\ next <= k * DataPageSize + DataPageSize
  BY AppendAt
<1>2. next - 1 \in Nat /\ next > call.base /\ next # call.base /\ call.base <= next
  BY <1>1
<1>3. k * DataPageSize <= next - 1 /\ next - 1 < k * DataPageSize + DataPageSize
  <2> DEFINE a == k * DataPageSize
  <2>1. a \in Nat /\ a <= call.pos /\ next <= a + DataPageSize /\ DataPageSize \in Nat
    BY <1>1, SpanStart
  <2> HIDE DEF a
  <2>2. a <= next - 1 /\ next - 1 < a + DataPageSize
    BY <1>1, <2>1
  <2> QED
    BY <2>2 DEF a
<1>4. SpanAt(next - 1) = k
  BY <1>1, <1>2, <1>3, SpanOnly DEF SpanAt
<1>5. GoodCopy(next, f, w)
  BY <1>2, <1>4 DEF GoodCopy, Holding
<1> QED
  BY <1>1, <1>2, <1>5

\* No page is found for more.
LEMMA AppendFull ==
  ASSUME QuickIsFull, Sound, gc.pc = "off", gc' = gc, NEW o, NEW c, NEW z, AppendView(o, c, z),
         call.pc = "append", call.pos < call.end, NEW k, k = SpanAt(call.pos), NEW w,
         DataView(o, c, z, k, w), Refuse, NEW f \in BOOLEAN, f = TRUE,
         call' = Onward("append", call.pos, f, w), UNCHANGED <<body, files>>
  PROVE  Fine
<1>1. /\ o \in ObjIds /\ o = call.obj /\ c = files[o] /\ call.op = "write" /\ call.op \in Working
      /\ WriteRec /\ Appends
      /\ z \in {Unset} \cup 0..Top /\ HeadIs(ids, ixs, o, z, FALSE)
      /\ call.pos = call.base => z = SizeField(c)
  BY Zenon DEF AppendView
<1>2. /\ WorkView(w, o, k)
      /\ call.base = 0 /\ w.ix.span = 0 => z = Unset
      /\ \A q \in SlotsOf(w.ix.span) : body[w.page].refs[q] \in {Unset, w.ix.refs[q]}
      /\ Shape(ids, ixs, o, call.pos, Wanted(c, call.base, call.pos, call.val),
               HeldSpan(w), Unset, FALSE)
  BY Zenon DEF DataView
<1>3. /\ WorkOk(w) /\ w.obj = o /\ w.ix.span = IxSpan(k) /\ w # NoWork /\ Latest(body, w) = ixs
  BY <1>2 DEF WorkView
<1>4. f \in BOOLEAN /\ f = TRUE
  OBVIOUS
<1>5. PICK n \in Nat : n = call.pos
  BY <1>1, WriteIs
<1>6. call' = Onward("append", n, f, w)
  BY <1>5
<1>7. Copy' = w
  BY <1>6 DEF Copy, Onward, Working
<1>8. [Next]_vars /\ fs'.cleaning = fs.cleaning /\ ids' = ids
  BY PagesStep, OtherLive DEF Sound, ids
<1>9. ixs' = ixs
  BY <1>3, <1>7 DEF ixs, Latest
<1>10. Whole'
  BY DEF Sound, Whole
<1>11. Typed(ids', ixs') /\ Unique(ids', ixs') /\ OthersKept(ids, ixs, ids', ixs', o)
  BY <1>8, <1>9 DEF Sound, OthersKept, Untouched
<1>12. WorkOk(w)'
  BY <1>3, <1>8 DEF WorkOk
<1>13. /\ Shape(ids', ixs', o, n, Wanted(c, call.base, n, call.val), HeldSpan(w), Unset, FALSE)
       /\ HeadIs(ids', ixs', o, z, FALSE)
  BY <1>1, <1>2, <1>5, <1>8, <1>9
<1>14. GoodCopy(n, f, w)
  BY <1>2, <1>3, <1>4, <1>5 DEF GoodCopy
<1>15. call.base <= n /\ n <= call.end
  BY <1>1, <1>5, WriteIs
<1>16. n = call.base => z = SizeField(c)
  BY <1>1, <1>5
<1>17. UNCHANGED <<gc, files>>
  OBVIOUS
<1>18. Reaches(o, c, n, f, w, z)
  BY <1>1, <1>2, <1>3, <1>4, <1>5, <1>6, <1>8, <1>10, <1>11, <1>12, <1>13, <1>14, <1>15, <1>16, <1>17,
     Zenon DEF Reaches
<1> QED
  BY <1>1, <1>18, AppendGoes

\* The object grows from n to len bytes by data page b, of span k behind its end.
Grows(n, len, k, want, wish, b) ==
  /\ n \in Nat /\ len \in Nat /\ k \in Span /\ b \in DataBody
  /\ b.span = k /\ Agree(want, wish, k) /\ Holds(b, wish, k)
  /\ n <= len /\ k * DataPageSize < len /\ ~(k * DataPageSize < n)
  /\ \A j \in Span : j # k /\ j * DataPageSize < len => j * DataPageSize < n

\* It has its shape then.
LEMMA ShapeAppend ==
  ASSUME NEW l, NEW e, NEW m, NEW f, NEW o \in ObjIds, NEW x \in Page, NEW k, NEW t \in Page, NEW b,
         Typed(l, e), Unique(l, e), Flash(m, f), Adds(l, e, m, f, o, x, k, t, b),
         NEW n, NEW len, NEW want, NEW wish, NEW hs,
         Shape(l, e, o, n, want, hs, Unset, FALSE), Grows(n, len, k, want, wish, b)
  PROVE  Shape(m, f, o, len, wish, hs, Unset, FALSE)
<1>1. /\ n \in Nat /\ len \in Nat /\ k \in Span /\ b \in DataBody
      /\ b.span = k /\ Agree(want, wish, k) /\ Holds(b, wish, k)
      /\ n <= len /\ k * DataPageSize < len
      /\ \A j \in Span : j # k /\ j * DataPageSize < len => j * DataPageSize < n
      /\ k * DataPageSize < n => Slot(l, e, o, k, Unset)
  BY Zenon DEF Grows
<1>2. PICK h : h = hs
  OBVIOUS
<1>3. Shape(l, e, o, n, want, h, Unset, FALSE) /\ (h = hs \/ h = -1)
  BY <1>2
<1>4. PICK u : u = Unset
  OBVIOUS
<1>5. k * DataPageSize < n => Slot(l, e, o, k, u)
  BY <1>1, <1>4
<1>6. Shape(m, f, o, len, wish, hs, u, FALSE)
  BY <1>1, <1>3, <1>5, ShapeAdd, ZenonT(200)
<1> QED
  BY <1>4, <1>6

\* A new data page is appended, and noted in the index page.
LEMMA AppendFills ==
  ASSUME QuickIsFull, Sound, gc.pc = "off", gc' = gc, NEW o, NEW c, NEW z, AppendView(o, c, z),
         call.pc = "append", call.pos < call.end, NEW k, k = SpanAt(call.pos), NEW w,
         DataView(o, c, z, k, w), call.pos = k * DataPageSize,
         NEW fresh, fresh = [i \in 0..(DataPageSize - 1) |-> Unset],
         AllocatePage(Da(o), DataPage(k, Filled(fresh))), NEW t, t = Taken,
         NEW v, v = Noted(w, k, t), NEW f \in BOOLEAN, ~f,
         NEW next, next = NextPos, call' = Onward("append", next, f, v), UNCHANGED files
  PROVE  Fine
<1> DEFINE D == DataPageSize  n == call.pos
           W == Wanted(c, call.base, call.pos, call.val)  X == Wanted(c, call.base, next, call.val)
<1>1. /\ o \in ObjIds /\ o = call.obj /\ c = files[o] /\ call.op = "write" /\ call.op \in Working
      /\ WriteRec /\ Appends
      /\ z \in {Unset} \cup 0..Top /\ HeadIs(ids, ixs, o, z, FALSE)
  BY Zenon DEF AppendView
<1>2. /\ WorkView(w, o, k)
      /\ call.base = 0 /\ w.ix.span = 0 => z = Unset
      /\ \A q \in SlotsOf(w.ix.span) : body[w.page].refs[q] \in {Unset, w.ix.refs[q]}
      /\ Shape(ids, ixs, o, n, W, HeldSpan(w), Unset, FALSE)
  BY Zenon DEF DataView
<1>3. /\ WorkOk(w) /\ w.obj = o /\ w.ix.span = IxSpan(k) /\ w # NoWork
      /\ w.page \in Page /\ ids[w.page] = Ix(o) /\ ixs[w.page] = w.ix /\ IndexBody(w.ix)
  BY <1>2 DEF WorkView, WorkOk
<1>4. /\ n \in Nat /\ call.base \in Nat /\ call.base <= n /\ call.val \in Bytes
      /\ k \in Span /\ k \in Nat /\ k * D \in Nat /\ n = k * D
      /\ next \in Nat /\ n < next /\ next <= call.end /\ next <= k * D + D
      /\ Len(c) = call.base
  BY AppendAt
<1>5. fresh \in [0..(D - 1) -> Cells]
  BY DEF Cells
<1>6. ASSUME NEW i \in 0..(D - 1) PROVE fresh[i] = W[k * D + i]
  <2>1. fresh[i] = Unset
    BY <1>6
  <2> DEFINE m == k * D + i
  <2>2. m \in 0..Top
    BY <1>4, ByteIn
  <2>3. m >= n
    <3>1. PICK a \in Nat : a = k * D
      BY <1>4
    <3>2. a + i >= a
      BY <3>1
    <3> QED
      BY <1>4, <3>1, <3>2
  <2> HIDE DEF m
  <2>4. m \in Nat /\ ~(m < n) /\ ~(m < Len(c))
    BY <1>4, <2>2, <2>3, TopIs
  <2>5. W[m] = Unset
    BY <2>2, <2>4 DEF Wanted
  <2> QED
    BY <2>1, <2>5 DEF m
<1>7. FilledView(c, next, k, fresh)
  BY <1>5, <1>6, FilledEnd
<1> DEFINE b == DataPage(k, Filled(fresh))
<1>8. /\ b \in DataBody /\ b.span = k /\ Holds(b, X, k) /\ Agree(W, X, k)
  <2>1. /\ Filled(fresh) \in [0..(D - 1) -> Cells] /\ Agree(W, X, k)
        /\ \A i \in 0..(D - 1) : Filled(fresh)[i] = X[k * D + i]
    BY <1>7 DEF FilledView
  <2> QED
    BY <1>4, <2>1 DEF DataPage, DataBody, Holds
<1>9. AllocatedView(Da(o), b)
  BY <1>1, Allocates, IdsApart
<1>10. Copy' = v
  BY <1>1 DEF Copy, Onward, Working
<1> HIDE DEF b, W, X, D, n
<1>11. AddedView(w, v, o, k, t, b)
  BY <1>1, <1>2, <1>4, <1>8, <1>9, <1>10, DataAdded
<1>12. /\ Adds(ids, ixs, ids', ixs', o, w.page, k, t, b) /\ Flash(ids', ixs')
       /\ Typed(ids', ixs') /\ Unique(ids', ixs') /\ OthersKept(ids, ixs, ids', ixs', o)
       /\ AddsView(ids, ixs, ids', ixs', o, k, t)
       /\ WorkOk(v)' /\ v.obj = o /\ v # NoWork /\ v.page = w.page /\ v.ix.span = w.ix.span
       /\ v.ix.refs[k] = t
       /\ \A j \in SlotsOf(w.ix.span) : j # k => v.ix.refs[j] = w.ix.refs[j]
       /\ \A q \in Page : q # t => body'[q] = body[q]
       /\ t \in Page /\ ids[t] = DELETED
  BY <1>11, Zenon DEF AddedView
<1>13. k * DataPageSize < next /\ n <= next /\ ~(k * DataPageSize < n)
       /\ \A j \in Span : j # k /\ j * DataPageSize < next => j * DataPageSize < n
  <2>1. ASSUME NEW j \in Span, j # k, j * DataPageSize < next PROVE j * DataPageSize < n
    <3> DEFINE a == k * DataPageSize  e == j * DataPageSize
    <3>1. a \in Nat /\ e \in Nat /\ n = a /\ e < next /\ next <= a + DataPageSize
          /\ DataPageSize \in Nat /\ DataPageSize > 0 /\ j \in Nat
      BY <1>4, <2>1, SpanStart, Referred DEF D
    <3>2. /\ j < k => e + DataPageSize <= a
          /\ k < j => a + DataPageSize <= e
      BY <1>4, SpanStart
    <3> HIDE DEF a, e
    <3>3. j < k
      BY <1>4, <2>1, <3>1, <3>2
    <3>4. e < n
      BY <3>1, <3>2, <3>3
    <3> QED
      BY <3>4 DEF e
  <2> DEFINE a == k * DataPageSize
  <2>2. a \in Nat /\ a = n /\ n < next /\ next \in Nat
    BY <1>4 DEF D
  <2> HIDE DEF a
  <2>3. a < next /\ n <= next /\ ~(a < n)
    BY <2>2
  <2> QED
    BY <2>1, <2>3 DEF a
<1>14. HeldSpan(w) = HeldSpan(v)
  BY <1>3, <1>12 DEF HeldSpan
<1>15. Shape(ids', ixs', o, next, X, HeldSpan(v), Unset, FALSE)
  <2>1. PICK x \in Page : x = w.page
    BY <1>3
  <2>2. Adds(ids, ixs, ids', ixs', o, x, k, t, b) /\ Flash(ids', ixs') /\ t \in Page
    BY <1>12, <2>1
  <2>3. Typed(ids, ixs) /\ Unique(ids, ixs)
    BY DEF Sound
  <2>4. Shape(ids, ixs, o, n, W, HeldSpan(v), Unset, FALSE) /\ o \in ObjIds
    BY <1>1, <1>2, <1>14
  <2>5. Grows(n, next, k, W, X, b)
    BY <1>4, <1>8, <1>13, Zenon DEF Grows
  <2> QED
    BY <2>1, <2>2, <2>3, <2>4, <2>5, ShapeAppend
<1>16. HeadIs(ids', ixs', o, z, FALSE)
  BY <1>1, <1>12, Zenon DEF AddsView
<1>17. \A q \in SlotsOf(v.ix.span) : body'[v.page].refs[q] \in {Unset, v.ix.refs[q]}
  <2>1. w.page # t
    BY <1>1, <1>3, <1>12, IdsApart
  <2>2. body'[v.page] = body[w.page]
    BY <1>3, <1>12, <2>1
  <2>3. w.ix.refs[k] = Unset
    <3>1. k \in SlotsOf(w.ix.span)
      BY <1>3, <1>4, Referred
    <3>2. w.ix.refs[k] \in Refs
      BY <1>3, <3>1 DEF IndexBody
    <3>3. Slot(ids, ixs, o, k, w.ix.refs[k])
      BY <1>3 DEF Slot
    <3>4. k * DataPageSize >= n
      BY <1>4 DEF D
    <3>5. Ended(ids, ixs, o, n)
      BY <1>2 DEF Shape
    <3> QED
      BY <1>4, <3>2, <3>3, <3>4, <3>5 DEF Ended
  <2>4. ASSUME NEW q \in SlotsOf(w.ix.span) PROVE body[w.page].refs[q] \in {Unset, v.ix.refs[q]}
    <3>1. body[w.page].refs[q] \in {Unset, w.ix.refs[q]}
      BY <1>2
    <3> QED
      BY <1>12, <2>3, <3>1
  <2> QED
    BY <1>12, <2>2, <2>4
<1>18. GoodCopy(next, f, v) /\ call.base <= next /\ next <= call.end /\ next # call.base
  <2>1. v # NoWork /\ v.ix.span = IxSpan(k)
    BY <1>3, <1>12
  <2>2. Holding(v)
    BY <1>17, <2>1, Zenon DEF Holding
  <2> QED
    BY <2>1, <2>2, CopyOn
<1>19. call.base = 0 /\ v # NoWork /\ v.ix.span = 0 => z = Unset
  BY <1>2, <1>12
<1>20. [Next]_vars /\ fs'.cleaning = fs.cleaning /\ Whole'
  BY <1>9 DEF AllocatedView
<1>21. Shape(ids', ixs', o, next, Wanted(c, call.base, next, call.val), HeldSpan(v), Unset, FALSE)
  BY <1>15 DEF X
<1>22. UNCHANGED <<gc, files>> /\ (next = call.base => z = SizeField(c))
  BY <1>18
<1>23. Reaches(o, c, next, f, v, z)
  BY <1>1, <1>4, <1>12, <1>16, <1>18, <1>19, <1>20, <1>21, <1>22, Zenon DEF Reaches
<1> QED
  BY <1>1, <1>23, AppendGoes

\* The page the file ends in is programmed further.
LEMMA AppendTail ==
  ASSUME QuickIsFull, Sound, gc.pc = "off", gc' = gc, NEW o, NEW c, NEW z, AppendView(o, c, z),
         call.pc = "append", call.pos < call.end, NEW k, k = SpanAt(call.pos), NEW w,
         DataView(o, c, z, k, w), call.pos # k * DataPageSize,
         NEW r, SlotView(w, o, k, r, Wanted(c, call.base, call.pos, call.val)),
         NEW old, old = body[r].bytes, NEW fill, fill = Filled(old),
         NEW b, b = DataPage(k, fill),
         body' = [body EXCEPT ![r] = b],
         NEW f \in BOOLEAN, ~f,
         NEW next, next = NextPos, call' = Onward("append", next, f, w),
         UNCHANGED <<fs, aborted, files>>
  PROVE  Fine
<1> DEFINE D == DataPageSize  n == call.pos
           W == Wanted(c, call.base, call.pos, call.val)  X == Wanted(c, call.base, next, call.val)
<1>1. /\ o \in ObjIds /\ o = call.obj /\ c = files[o] /\ call.op = "write" /\ call.op \in Working
      /\ WriteRec /\ Appends
      /\ z \in {Unset} \cup 0..Top /\ HeadIs(ids, ixs, o, z, FALSE)
  BY Zenon DEF AppendView
<1>2. /\ WorkView(w, o, k)
      /\ call.base = 0 /\ w.ix.span = 0 => z = Unset
      /\ \A q \in SlotsOf(w.ix.span) : body[w.page].refs[q] \in {Unset, w.ix.refs[q]}
      /\ Shape(ids, ixs, o, n, W, HeldSpan(w), Unset, FALSE)
  BY Zenon DEF DataView
<1>3. /\ WorkOk(w) /\ w.obj = o /\ w.ix.span = IxSpan(k) /\ w # NoWork
      /\ w.page \in Page /\ ids[w.page] = Ix(o) /\ ixs[w.page] = w.ix /\ IndexBody(w.ix)
      /\ Latest(body, w) = ixs
  BY <1>2 DEF WorkView, WorkOk
<1>4. /\ n \in Nat /\ call.base \in Nat /\ call.base <= n
      /\ k \in Span /\ k \in Nat /\ k * D \in Nat /\ k * D <= n
      /\ next \in Nat /\ n < next /\ next <= call.end /\ next <= k * D + D
  BY AppendAt
<1>5. /\ r \in Page /\ ids[r] = Da(o) /\ ixs[r].span = k
      /\ Leads(ids, ixs, o, k, r, W) /\ body[r] \in DataBody /\ body[r] = ixs[r]
  BY Zenon DEF SlotView
<1>6. old = body[r].bytes
  OBVIOUS
<1>7. /\ old \in [0..(D - 1) -> Cells] /\ \A i \in 0..(D - 1) : old[i] = W[k * D + i]
  <2>1. body[r].bytes \in [0..(D - 1) -> Cells]
    BY <1>5 DEF DataBody
  <2> QED
    BY <1>5, <1>6, <2>1 DEF Leads
<1>8. FilledView(c, next, k, old)
  BY <1>7, FilledEnd
<1>9. /\ fill \in [0..(D - 1) -> Cells] /\ Agree(W, X, k)
      /\ \A i \in 0..(D - 1) : fill[i] = X[k * D + i] /\ (fill[i] # old[i] => old[i] = Unset)
  BY <1>6, <1>8 DEF FilledView
<1>10. b.bytes = fill /\ b.span = k /\ b = [kind |-> "data", span |-> k, bytes |-> fill]
  BY DEF DataPage
<1>11. b \in DataBody /\ b.span = k /\ Holds(b, X, k)
  BY <1>4, <1>9, <1>10 DEF DataBody, Holds
<1>12. Copy' = w
  BY <1>1 DEF Copy, Onward, Working
<1> HIDE DEF W, X, D, n
<1>13. ids' = ids /\ w.page # r
  BY <1>1, <1>3, <1>5, IdsApart DEF ids
<1>14. DOMAIN body = Page
  BY BodyIs
<1>15. DOMAIN body' = Page /\ body'[r] = b /\ \A q \in Page : q # r => body'[q] = body[q]
  BY <1>5, <1>14
<1>16. Flash(ids', ixs')
  BY <1>3, <1>12, <1>15, FlashNext
<1>17. /\ ixs'[w.page] = w.ix /\ \A q \in Page : q # w.page => ixs'[q] = body'[q] /\ ixs[q] = body[q]
  <2>1. \A q \in Page : q # w.page => ixs[q] = body[q]
    BY <1>3, <1>14, LatestAt
  <2>2. ixs' = Latest(body', w)
    BY <1>12 DEF ixs, Latest
  <2>3. PICK g : g = body'
    OBVIOUS
  <2>4. DOMAIN g = Page
    BY <1>15, <2>3
  <2>5. \A q \in Page : Latest(g, w)[q] = IF q = w.page THEN w.ix ELSE g[q]
    BY <1>3, <2>4, LatestAt
  <2>6. Latest(body', w) = Latest(g, w)
    BY <2>3 DEF Latest
  <2> QED
    BY <1>3, <2>1, <2>2, <2>3, <2>5, <2>6
<1>18. Programs(ids, ixs, ids', ixs', o, r, b)
  <2>1. ixs'[r] = b
    BY <1>5, <1>13, <1>15, <1>17
  <2>2. \A q \in Page : q # r => ids'[q] = ids[q] /\ ixs'[q] = ixs[q]
    BY <1>3, <1>13, <1>15, <1>17
  <2> QED
    BY <1>5, <1>11, <1>13, <2>1, <2>2 DEF Programs, Elsewhere
<1>19. /\ Typed(ids', ixs') /\ Unique(ids', ixs') /\ OthersKept(ids, ixs, ids', ixs', o)
       /\ ProgramsView(ids, ixs, ids', ixs', o, r)
  BY <1>1, <1>5, <1>11, <1>16, <1>18, Programming, Zenon DEF Sound
<1>20. n <= next /\ \A j \in Span : j * DataPageSize < next => j * DataPageSize < n
  <2>1. ASSUME NEW j \in Span, j * DataPageSize < next PROVE j * DataPageSize < n
    <3> DEFINE a == k * DataPageSize  e == j * DataPageSize
    <3>1. a \in Nat /\ e \in Nat /\ a <= n /\ a # n /\ n \in Nat /\ e < next /\ next <= a + DataPageSize
          /\ next \in Nat /\ DataPageSize \in Nat /\ DataPageSize > 0 /\ j \in Nat
      BY <1>4, <2>1, SpanStart, Referred DEF D, n
    <3>2. /\ j < k => e + DataPageSize <= a
          /\ k < j => a + DataPageSize <= e
          /\ j = k => e = a
      BY <1>4, SpanStart
    <3> HIDE DEF a, e
    <3>3. e < n
      BY <1>4, <3>1, <3>2
    <3> QED
      BY <3>3 DEF e
  <2>2. n <= next
    BY <1>4
  <2> QED
    BY <2>1, <2>2
<1>21. Shape(ids', ixs', o, next, X, HeldSpan(w), Unset, FALSE)
  <2>1. Typed(ids, ixs) /\ Unique(ids, ixs)
    BY DEF Sound
  <2>2. PICK h : h = HeldSpan(w)
    OBVIOUS
  <2>3. Shape(ids, ixs, o, n, W, h, Unset, FALSE) /\ (h = h \/ h = -1)
    BY <1>2, <2>2
  <2>4. n \in Nat /\ next \in Nat /\ k \in Span /\ o \in ObjIds /\ r \in Page /\ ixs[r].span = k
    BY <1>1, <1>4, <1>5
  <2>5. Shape(ids', ixs', o, next, X, h, Unset, FALSE)
    BY <1>9, <1>11, <1>16, <1>18, <1>20, <2>1, <2>3, <2>4, ShapeProgram, ZenonT(60)
  <2> QED
    BY <2>2, <2>5
<1>22. HeadIs(ids', ixs', o, z, FALSE)
  BY <1>1, <1>19, Zenon DEF ProgramsView
<1>23. body'[w.page] = body[w.page]
  BY <1>3, <1>13, <1>15
<1>24. Holding(w)
  BY <1>2, <1>3, <1>23 DEF Holding
<1>25. GoodCopy(next, f, w) /\ call.base <= next /\ next <= call.end /\ next # call.base
  <2>1. w.ix.span = IxSpan(k)
    BY <1>3
  <2> QED
    BY <1>24, <2>1, CopyOn
<1>26. call.base = 0 /\ w # NoWork /\ w.ix.span = 0 => z = Unset
  BY <1>2
<1>27. [Next]_vars /\ fs'.cleaning = fs.cleaning
  BY PagesStep
<1>28. Whole'
  <2>1. body' = [p \in Page |-> body'[p]]
    BY <1>14
  <2> QED
    BY <2>1 DEF Whole
<1>29. WorkOk(w)'
  BY <1>3, <1>13, <1>23 DEF WorkOk
<1>30. Shape(ids', ixs', o, next, Wanted(c, call.base, next, call.val), HeldSpan(w), Unset, FALSE)
  BY <1>21 DEF X
<1>31. UNCHANGED <<gc, files>> /\ (next = call.base => z = SizeField(c)) /\ w.obj = o
  BY <1>3, <1>25
<1>32. Reaches(o, c, next, f, w, z)
  BY <1>1, <1>4, <1>19, <1>22, <1>25, <1>26, <1>27, <1>28, <1>29, <1>30, <1>31, Zenon DEF Reaches
<1> QED
  BY <1>1, <1>32, AppendGoes

\* Programming bytes behind those there are gives the ones wanted.
LEMMA ProgramTail ==
  ASSUME NEW c, NEW next, NEW k, NEW old, FilledView(c, next, k, old), NEW fill, fill = Filled(old)
  PROVE  [i \in DOMAIN fill |-> Program(old[i], fill[i])] = fill
<1>1. /\ fill \in [0..(DataPageSize - 1) -> Cells]
      /\ \A i \in 0..(DataPageSize - 1) : fill[i] # old[i] => old[i] = Unset
  BY DEF FilledView
<1>2. \A i \in 0..(DataPageSize - 1) : Program(old[i], fill[i]) = fill[i]
  BY <1>1 DEF Program
<1> QED
  BY <1>1, <1>2

\* A span of the bytes appended is written.
LEMMA AppendsData ==
  ASSUME QuickIsFull, Sound, AppendData
  PROVE  Fine
<1>1. /\ gc.pc = "off" /\ call.op = "write" /\ call.pc = "append" /\ gc' = gc
      /\ call.pos < call.end /\ ~call.full /\ ~Switches(call.pos) /\ ~NewIndex
  BY Zenon DEF AppendData, At
<1>2. PICK o, c, z : AppendView(o, c, z)
  BY <1>1, AppendHas
<1>3. /\ o \in ObjIds /\ o = call.obj /\ WriteRec /\ Appends
  BY <1>2, Zenon DEF AppendView
<1>4. PICK k : k = SpanAt(call.pos)
  OBVIOUS
<1>5. WorkFor(call.pos) # {} /\ \A w \in WorkFor(call.pos) : DataView(o, c, z, k, w)
  BY <1>1, <1>2, <1>4, AppendUses
<1>6. k \in Span /\ (call.pos % DataPageSize = 0 <=> call.pos = k * DataPageSize)
      /\ k * DataPageSize \in Nat /\ k * DataPageSize <= call.pos /\ call.pos \in Nat
  BY <1>1, <1>2, <1>4, AppendAt
<1>7. PICK fresh : fresh = [i \in 0..(DataPageSize - 1) |-> Unset]
  BY Zenon
<1>8. PICK w \in WorkFor(call.pos) :
         \/ /\ call.pos % DataPageSize = 0
            /\ AllocatePage(<<call.obj, "data">>, DataPage(k, Filled(fresh)))
            /\ call' = [call EXCEPT !.pos = NextPos, !.work = Noted(w, k, Taken)]
            /\ UNCHANGED files
         \/ /\ call.pos % DataPageSize = 0
            /\ Refuse
            /\ call' = [call EXCEPT !.full = TRUE, !.work = w]
            /\ UNCHANGED <<body, files>>
         \/ /\ call.pos % DataPageSize # 0 /\ DataCheck(w.ix.refs[k], k) = "ok"
            /\ LET tail == w.ix.refs[k]
                   new == Filled(body[tail].bytes)
                   bytes == [i \in DOMAIN new |-> Program(body[tail].bytes[i], new[i])]
               IN body' = [body EXCEPT ![tail] = [@ EXCEPT !.bytes = bytes]]
            /\ call' = [call EXCEPT !.pos = NextPos, !.work = w]
            /\ UNCHANGED <<fs, aborted, files>>
         \/ /\ call.pos % DataPageSize # 0 /\ DataCheck(w.ix.refs[k], k) # "ok"
            /\ Break(call.obj) /\ UNCHANGED <<fs, aborted, body>>
  BY <1>4, <1>5, <1>7, Zenon DEF AppendData
<1>9. DataView(o, c, z, k, w)
  BY <1>5
<1>10. PICK next : next = NextPos
  OBVIOUS
<1>11. CASE /\ call.pos % DataPageSize = 0
            /\ AllocatePage(<<call.obj, "data">>, DataPage(k, Filled(fresh)))
            /\ call' = [call EXCEPT !.pos = NextPos, !.work = Noted(w, k, Taken)]
            /\ UNCHANGED files
  <2>1. PICK t : t = Taken
    OBVIOUS
  <2>2. PICK v : v = Noted(w, k, t)
    OBVIOUS
  <2>3. PICK f \in BOOLEAN : f = call.full
    BY <1>3, WriteIs
  <2>4. call' = Onward("append", next, f, v) /\ ~f
    <3>1. call' = [call EXCEPT !.pos = next, !.work = v]
      BY <1>10, <1>11, <2>1, <2>2
    <3> QED
      BY <1>1, <1>3, <2>3, <3>1 DEF WriteRec, Onward
  <2>5. AllocatePage(Da(o), DataPage(k, Filled(fresh)))
    BY <1>3, <1>11 DEF Da
  <2>6. call.pos = k * DataPageSize /\ UNCHANGED files
    BY <1>6, <1>11
  <2> QED
    BY <1>1, <1>2, <1>4, <1>7, <1>9, <1>10, <2>1, <2>2, <2>3, <2>4, <2>5, <2>6, AppendFills, Zenon
<1>12. CASE /\ call.pos % DataPageSize = 0
            /\ Refuse
            /\ call' = [call EXCEPT !.full = TRUE, !.work = w]
            /\ UNCHANGED <<body, files>>
  <2>1. PICK f \in BOOLEAN : f = TRUE
    OBVIOUS
  <2>2. call' = Onward("append", call.pos, f, w)
    BY <1>1, <1>3, <1>12, <2>1 DEF WriteRec, Onward
  <2>3. Refuse /\ UNCHANGED <<body, files>>
    BY <1>12
  <2> QED
    BY <1>1, <1>2, <1>4, <1>9, <2>1, <2>2, <2>3, AppendFull, Zenon
<1>13. CASE call.pos % DataPageSize # 0
  <2>1. k * DataPageSize < call.pos /\ call.pos # k * DataPageSize
    BY <1>6, <1>13
  <2>2. PICK r : r = w.ix.refs[k]
    OBVIOUS
  <2>3. SlotView(w, o, k, r, Wanted(c, call.base, call.pos, call.val))
    <3> DEFINE W == Wanted(c, call.base, call.pos, call.val)  n == call.pos
    <3>1. Shape(ids, ixs, o, n, W, HeldSpan(w), Unset, FALSE) /\ WorkView(w, o, k)
      BY <1>9, Zenon DEF DataView
    <3>2. k * DataPageSize < n
      BY <2>1
    <3> HIDE DEF W, n
    <3>3. SlotView(w, o, k, w.ix.refs[k], W)
      BY <1>1, <1>3, <1>6, <3>1, <3>2, SlotFor
    <3> QED
      BY <2>2, <3>3 DEF W
  <2>4. /\ r \in Page /\ DataCheck(r, k) = "ok" /\ body[r] \in DataBody /\ ixs[r].span = k
        /\ body[r] = ixs[r] /\ Leads(ids, ixs, o, k, r, Wanted(c, call.base, call.pos, call.val))
    BY <2>3, Zenon DEF SlotView
  <2>5. PICK old : old = body[r].bytes
    OBVIOUS
  <2>6. PICK fill : fill = Filled(old)
    OBVIOUS
  <2>7. PICK bytes : bytes = [i \in DOMAIN fill |-> Program(old[i], fill[i])]
    OBVIOUS
  <2>8. /\ body' = [body EXCEPT ![r] = [body[r] EXCEPT !.bytes = bytes]]
        /\ call' = [call EXCEPT !.pos = next, !.work = w]
        /\ UNCHANGED <<fs, aborted, files>>
    <3>1. ~(DataCheck(w.ix.refs[k], k) # "ok")
      BY <2>2, <2>4
    <3>2. /\ LET tail == w.ix.refs[k]
                 new == Filled(body[tail].bytes)
                 bs == [i \in DOMAIN new |-> Program(body[tail].bytes[i], new[i])]
             IN body' = [body EXCEPT ![tail] = [@ EXCEPT !.bytes = bs]]
          /\ call' = [call EXCEPT !.pos = NextPos, !.work = w]
          /\ UNCHANGED <<fs, aborted, files>>
      BY <1>8, <1>13, <3>1, Zenon
    <3> QED
      BY <1>10, <2>2, <2>5, <2>6, <2>7, <3>2, Zenon
  <2>9. bytes = fill
    <3>1. /\ old \in [0..(DataPageSize - 1) -> Cells]
          /\ \A i \in 0..(DataPageSize - 1) :
               old[i] = Wanted(c, call.base, call.pos, call.val)[k * DataPageSize + i]
      BY <2>4, <2>5 DEF DataBody, Leads
    <3>2. FilledView(c, next, k, old)
      BY <1>1, <1>2, <1>4, <1>10, <3>1, FilledEnd
    <3> QED
      BY <2>6, <2>7, <3>2, ProgramTail
  <2>10. PICK b : b = DataPage(k, fill)
    OBVIOUS
  <2>11. body' = [body EXCEPT ![r] = b]
    <3>1. PICK y : y = body[r]
      OBVIOUS
    <3>2. y \in DataBody /\ y.span = k
      BY <2>4, <3>1
    <3>3. y = [kind |-> "data", span |-> k, bytes |-> y.bytes]
      BY <3>2 DEF DataBody
    <3>4. [y EXCEPT !.bytes = fill] = [kind |-> "data", span |-> k, bytes |-> fill]
      BY <3>3
    <3>5. b = [kind |-> "data", span |-> k, bytes |-> fill]
      BY <2>10 DEF DataPage
    <3>6. body' = [body EXCEPT ![r] = [y EXCEPT !.bytes = fill]]
      BY <2>8, <2>9, <3>1, Zenon
    <3> QED
      BY <3>4, <3>5, <3>6, Zenon
  <2>12. PICK f \in BOOLEAN : f = call.full
    BY <1>3, WriteIs
  <2>13. call' = Onward("append", next, f, w) /\ ~f
    <3>1. call' = [call EXCEPT !.pos = next, !.work = w]
      BY <2>8
    <3> QED
      BY <1>1, <1>3, <2>12, <3>1 DEF WriteRec, Onward
  <2>14. UNCHANGED <<fs, aborted, files>>
    BY <2>8
  <2> QED
    BY <1>1, <1>2, <1>4, <1>9, <1>10, <2>1, <2>3, <2>5, <2>6, <2>10, <2>11, <2>12, <2>13, <2>14,
       AppendTail, Zenon
<1> QED
  BY <1>8, <1>11, <1>12, <1>13

-----------------------------------------------------------------------------
(* Every step. *)

\* The file system as it is formatted is sound.
LEMMA InitFits == StoreInit => SInv
<1> SUFFICES ASSUME StoreInit PROVE SInv
  OBVIOUS
<1>1. /\ Init /\ body = [p \in Page |-> Blank] /\ gc = NoGc /\ call = NoCall
      /\ files = [o \in ObjIds |-> NoFile]
  BY DEF StoreInit
<1>2. IInv
  BY <1>1, InitSound
<1>3. fs.cleaning = NoBlock /\ fs.obj_lu = [p \in Page |-> FREE] /\ aborted = FALSE
  BY <1>1 DEF Init, Mounted
<1>4. \A p \in Page : ids[p] = DELETED
  BY <1>3, LiveAt, MarkerAssumption DEF ids
<1>5. ixs = body
  <2>1. Copy = NoWork
    BY <1>1 DEF Copy, NoGc, NoCall, Working
  <2> QED
    BY <2>1 DEF ixs, Latest
<1>6. GcOk
  BY <1>1, <1>3 DEF GcOk, RunOk, NoGc
<1>7. CallOk /\ Whole
  BY <1>1 DEF CallOk, Whole, NoGc
<1>8. ids \in [Page -> LuIds \cup {DELETED}]
  BY LiveAt DEF ids, Live
<1>9. DELETED \notin LuIds /\ \A o \in ObjIds : Ix(o) \in LuIds /\ Da(o) \in LuIds
  BY MarkerAssumption, IdsApart
<1>10. Typed(ids, ixs) /\ Unique(ids, ixs)
  BY <1>1, <1>4, <1>5, <1>8, <1>9 DEF Typed, Flash, TypedPage, Unique
<1>11. ASSUME NEW o \in ObjIds PROVE ObjectOk(o)
  BY <1>1, <1>4, <1>9 DEF ObjectOk, NoPages
<1>12. DOMAIN files = ObjIds
  BY <1>1
<1> QED
  BY <1>2, <1>3, <1>6, <1>7, <1>10, <1>11, <1>12 DEF SInv, Sound

\* A turn of the collector.
LEMMA GcGoes ==
  ASSUME QuickIsFull, Sound, GcStep
  PROVE  Fine
<1>1. CASE (GcEnough \/ GcRefuse \/ GcBegin \/ GcNoCandidate) /\ Still
  BY <1>1, GcChecks
<1>2. CASE \E b \in Block : GcPick(b) /\ Still
  BY <1>2, GcPicks
<1>3. CASE GcFindData /\ Still
  BY <1>3, GcFinds
<1>4. CASE GcMoveData /\ Still
  BY <1>4, GcMovesData
<1>5. CASE GcStoreIndex /\ Still
  BY <1>5, GcStores
<1>6. CASE GcMoveIndex /\ Still
  BY <1>6, GcMovesIndex
<1>7. CASE GcErase /\ Still
  BY <1>7, GcErases
<1> QED
  BY <1>1, <1>2, <1>3, <1>4, <1>5, <1>6, <1>7, Zenon DEF GcStep

\* A step of a call.
LEMMA CallGoes ==
  ASSUME QuickIsFull, Sound, CallStep
  PROVE  Fine
<1>1. CASE GcReturned
  BY <1>1, Returns
<1>2. CASE CreateHeader
  BY <1>2, Creates
<1>3. CASE ModifyStore
  BY <1>3, ModifiesStore
<1>4. CASE ModifyData
  BY <1>4, ModifiesData
<1>5. CASE ModifyReplace
  BY <1>5, ModifiesReplace
<1>6. CASE ModifyFinish
  BY <1>6, ModifiesFinish
<1>7. CASE AppendStore
  BY <1>7, AppendsStore
<1>8. CASE AppendIndex
  BY <1>8, AppendsIndex
<1>9. CASE AppendData
  BY <1>9, AppendsData
<1>10. CASE AppendFinish
  BY <1>10, AppendsFinish
<1>11. CASE MarkRemoved
  BY <1>11, MarksRemoved
<1>12. CASE CutData
  BY <1>12, CutsData
<1>13. CASE CutIndex
  BY <1>13, CutsIndex
<1>14. CASE CutHeader
  BY <1>14, CutsHeader
<1>15. CASE CutFinish
  BY <1>15, CutsFinish
<1> QED
  BY <1>1, <1>2, <1>3, <1>4, <1>5, <1>6, <1>7, <1>8, <1>9, <1>10, <1>11, <1>12, <1>13, <1>14,
     <1>15, Zenon DEF CallStep

\* A client begins a call.
LEMMA ClientGoes ==
  ASSUME QuickIsFull, Retry = FALSE, Sound, ClientStep
  PROVE  Fine
<1>1. ASSUME NEW o \in ObjIds, StartCreat(o) PROVE Fine
  BY <1>1, StartsCreat
<1>2. ASSUME NEW o \in ObjIds, StartTruncate(o) \/ StartRemove(o) PROVE Fine
  BY <1>2, StartsCut
<1>3. ASSUME NEW o \in ObjIds, Rename(o) PROVE Fine
  BY <1>3, Renames
<1>4. ASSUME NEW o \in ObjIds, NEW off \in 0..(MaxSpans * DataPageSize), NEW len \in 1..MaxLen,
             NEW v \in Bytes, StartWrite(o, off, len, v)
      PROVE  Fine
  <2>1. off \in 0..Top
    BY DEF Top
  <2> QED
    BY <1>4, <2>1, StartsWrite
<1>5. ASSUME NEW n \in GcSizes, StartGc(n) PROVE Fine
  BY <1>5, StartsGc
<1>6. ASSUME NEW m \in 0..MaxFreePages, Quick(m) PROVE Fine
  BY <1>6, Quicks
<1>7. CASE Mount
  BY <1>7, Mounts
<1> QED
  BY <1>1, <1>2, <1>3, <1>4, <1>5, <1>6, <1>7, Zenon DEF ClientStep

\* Nothing happens.
LEMMA StaysSound ==
  ASSUME QuickIsFull, Sound, UNCHANGED storeVars
  PROVE  Fine
<1>1. UNCHANGED <<fs, aborted>> /\ body' = body /\ gc' = gc /\ call' = call /\ files' = files
  BY DEF storeVars
<1>2. [Next]_vars /\ IInv'
  BY <1>1, PagesStep
<1>3. ids' = ids
  BY <1>1 DEF ids
<1>4. Copy' = Copy
  BY <1>1 DEF Copy
<1>5. ixs' = ixs
  BY <1>1, <1>4 DEF ixs
<1>6. GcOk' /\ Whole'
  <2>1. RunOk' /\ (gc.pc \in {"find", "move"} => Passed')
    BY <1>1 DEF Sound, GcOk, RunOk, WorkOk, Passed, IsData, Used, DataHere, ids
  <2> QED
    BY <1>1, <2>1 DEF Sound, GcOk, Whole
<1>7. CallOk'
  <2>1. EntryOk => EntryOk'
    BY <1>1, EntryKept
  <2>2. (WriteRec' <=> WriteRec) /\ (CutRec' <=> CutRec) /\ (CreateOk' <=> CreateOk)
    BY <1>1 DEF WriteRec, CutRec, CreateOk, ContentOk
  <2>3. (Modifies' <=> Modifies) /\ (Appends' <=> Appends) /\ NextPos' = NextPos
    BY <1>1 DEF Modifies, Appends, NextPos
  <2>4. (HoldOk' <=> HoldOk) /\ Old' = Old
    BY <1>1, <1>3 DEF HoldOk, WorkOk, Old
  <2>5. \A n : SameRefs(n)' <=> SameRefs(n)
    BY <1>1 DEF SameRefs
  <2>6. ModifyOk => ModifyOk'
    BY <1>1, <1>3, <1>5, <2>2, <2>3, <2>4, <2>5, Zenon DEF ModifyOk, Held
  <2>7. ReplaceOk => ReplaceOk'
    BY <1>1, <1>3, <1>5, <2>2, <2>3, <2>4, <2>5, Zenon DEF ReplaceOk, Held
  <2>8. HeadFor' <=> HeadFor
    BY <1>1, <1>3, <1>5, Zenon DEF HeadFor, Held
  <2>9. AppendWork' <=> AppendWork
    BY <1>1 DEF AppendWork, Held
  <2>10. AppendOk => AppendOk'
    BY <1>1, <1>3, <1>5, <2>2, <2>3, <2>4, <2>8, <2>9, Zenon DEF AppendOk
  <2>11. CutAt' <=> CutAt
    BY <1>1 DEF CutAt, Held
  <2>12. CutOk => CutOk'
    BY <1>1, <1>3, <1>5, <2>2, <2>4, <2>11, Zenon DEF CutOk
  <2>13. CallOk
    BY DEF Sound
  <2> QED
    BY <1>1, <2>1, <2>2, <2>6, <2>7, <2>10, <2>12, <2>13, Zenon DEF CallOk
<1> QED
  BY <1>1, <1>2, <1>3, <1>5, <1>6, <1>7, Quiet DEF Fine, Busy

\* The invariant is inductive.
LEMMA StoreStep ==
  ASSUME QuickIsFull, Retry = FALSE, Sound, [StoreNext]_storeVars
  PROVE  Fine
<1>1. CASE GcStep
  BY <1>1, GcGoes
<1>2. CASE CallStep
  BY <1>2, CallGoes
<1>3. CASE ClientStep
  BY <1>3, ClientGoes, Zenon
<1>4. CASE UNCHANGED storeVars
  BY <1>4, StaysSound
<1> QED
  BY <1>1, <1>2, <1>3, <1>4, Zenon DEF StoreNext

\* No step takes back that a clean run has failed.
LEMMA AbortedStays ==
  ASSUME [StoreNext]_storeVars
  PROVE  aborted' = aborted \/ aborted' = TRUE
<1> DEFINE Goal == aborted' = aborted \/ aborted' = TRUE
<1>1. /\ \A id : Allocate(id) => aborted' = aborted
      /\ \A p : Move(p) => aborted' = aborted
      /\ \A p : Delete(p) => aborted' = aborted
      /\ Refuse => aborted' = aborted
      /\ \A m : QuickCollect(m) => aborted' = aborted
      /\ \A b : CleanStart(b) => aborted' = aborted
      /\ CleanFinish => aborted' = aborted
      /\ CleanAbort => aborted' = TRUE
      /\ Remount => aborted' = aborted
  BY Zenon DEF Allocate, Move, Delete, Refuse, QuickCollect, CleanStart, CleanFinish, CleanAbort,
     Remount
<1>2. /\ \A id, c : AllocatePage(id, c) => aborted' = aborted
      /\ \A p, c : MovePage(p, c) => aborted' = aborted
      /\ \A p : DeletePage(p) => aborted' = aborted
      /\ GcFail => aborted' = TRUE
  BY <1>1, Zenon DEF AllocatePage, MovePage, DeletePage, GcFail
<1>3. /\ \A n : AppendStored(n) => aborted' = aborted
      /\ AppendNotStored => aborted' = aborted
  BY <1>1, Zenon DEF AppendStored, AppendNotStored
<1>4. ASSUME GcStep PROVE Goal
  <2>1. CASE GcEnough \/ GcRefuse \/ GcBegin \/ GcNoCandidate
    BY <2>1 DEF GcEnough, GcRefuse, GcBegin, GcNoCandidate
  <2>2. CASE \E b \in Block : GcPick(b)
    BY <1>1, <2>2, Zenon DEF GcPick
  <2>3. CASE GcFindData
    BY <1>2, <2>3, Zenon DEF GcFindData
  <2>4. CASE GcMoveData
    BY <1>2, <2>4, Zenon DEF GcMoveData
  <2>5. CASE GcStoreIndex
    BY <1>2, <2>5, Zenon DEF GcStoreIndex
  <2>6. CASE GcMoveIndex
    BY <1>2, <2>6, Zenon DEF GcMoveIndex
  <2>7. CASE GcErase
    BY <1>1, <2>7, Zenon DEF GcErase
  <2> QED
    BY <1>4, <2>1, <2>2, <2>3, <2>4, <2>5, <2>6, <2>7, Zenon DEF GcStep
<1>5. ASSUME CallStep PROVE aborted' = aborted
  <2>1. CASE GcReturned
    BY <2>1 DEF GcReturned
  <2>2. CASE CreateHeader
    BY <1>1, <1>2, <2>2, Zenon DEF CreateHeader
  <2>3. CASE ModifyStore
    BY <1>1, <1>2, <2>3, Zenon DEF ModifyStore
  <2>4. CASE ModifyData
    BY <1>1, <1>2, <2>4, Zenon DEF ModifyData
  <2>5. CASE ModifyReplace
    BY <1>2, <2>5, Zenon DEF ModifyReplace
  <2>6. CASE ModifyFinish
    BY <1>1, <1>2, <2>6, Zenon DEF ModifyFinish
  <2>7. CASE AppendStore
    BY <1>3, <2>7, Zenon DEF AppendStore
  <2>8. CASE AppendIndex
    BY <1>1, <1>2, <2>8, Zenon DEF AppendIndex
  <2>9. CASE AppendData
    BY <1>1, <1>2, <2>9, Zenon DEF AppendData
  <2>10. CASE AppendFinish
    BY <1>3, <2>10, Zenon DEF AppendFinish
  <2>11. CASE MarkRemoved
    BY <2>11 DEF MarkRemoved
  <2>12. CASE CutData
    BY <1>2, <2>12, Zenon DEF CutData
  <2>13. CASE CutIndex
    BY <1>2, <2>13, Zenon DEF CutIndex
  <2>14. CASE CutHeader
    BY <1>1, <1>2, <2>14, Zenon DEF CutHeader
  <2>15. CASE CutFinish
    BY <1>1, <1>2, <2>15, Zenon DEF CutFinish
  <2> QED
    BY <1>5, <2>1, <2>2, <2>3, <2>4, <2>5, <2>6, <2>7, <2>8, <2>9, <2>10, <2>11, <2>12, <2>13,
       <2>14, <2>15, Zenon DEF CallStep
<1>6. ASSUME ClientStep PROVE aborted' = aborted
  <2>1. /\ \A o : StartCreat(o) => aborted' = aborted
        /\ \A o : StartTruncate(o) => aborted' = aborted
        /\ \A o : StartRemove(o) => aborted' = aborted
        /\ \A n : StartGc(n) => aborted' = aborted
    BY DEF StartCreat, StartTruncate, StartRemove, StartGc
  <2>2. /\ \A o : Rename(o) => aborted' = aborted
        /\ \A m : Quick(m) => aborted' = aborted
        /\ Mount => aborted' = aborted
    BY <1>1, <1>2, Zenon DEF Rename, Quick, Mount
  <2>3. \A o, off, len, v : StartWrite(o, off, len, v) => aborted' = aborted
    BY DEF StartWrite
  <2> QED
    BY <1>6, <2>1, <2>2, <2>3, Zenon DEF ClientStep
<1>7. ASSUME UNCHANGED storeVars PROVE aborted' = aborted
  BY <1>7 DEF storeVars
<1> QED
  BY <1>4, <1>5, <1>6, <1>7, Zenon DEF StoreNext

\* No step of the pages erases one that is in use.
LEMMA StepKeepsLive ==
  ASSUME QuickIsFull, IInv, [Next]_vars, NEW p \in Used(fs)
  PROVE  fs'.obj_lu[p] # FREE
<1>1. SoundState(fs) /\ fs \in FsState /\ SoundState(Gate(fs)) /\ Gate(fs) \in FsState
  BY GateSound DEF IInv, SoundState
<1>2. /\ p \in Page /\ fs.obj_lu[p] \in LuIds /\ Gate(fs).obj_lu[p] = fs.obj_lu[p]
      /\ p \in Used(Gate(fs)) /\ FREE \notin LuIds /\ DELETED # FREE
  BY <1>1, GateSound, MarkerAssumption DEF Used
<1>3. ids[p] # DELETED
  BY <1>2, LiveAt DEF ids
<1>4. ASSUME ids' = ids PROVE fs'.obj_lu[p] # FREE
  <2>1. Live(fs'.obj_lu)[p] # DELETED
    BY <1>3, <1>4 DEF ids
  <2>2. fs'.obj_lu[p] \in LuIds
    BY <1>2, <2>1, LiveAt
  <2> QED
    BY <1>2, <2>2
<1>5. ASSUME NEW id \in LuIds, Allocate(id) PROVE fs'.obj_lu[p] # FREE
  <2>1. PICK q \in FirstFree(Gate(fs)) : fs' = Occupy(Gate(fs), q, id)
    BY <1>5 DEF Allocate
  <2>2. fs'.obj_lu = [Gate(fs).obj_lu EXCEPT ![q] = id]
    BY <1>1, <2>1, OccupySound
  <2> QED
    BY <1>1, <1>2, <2>2 DEF FsState
<1>6. ASSUME NEW r \in Used(fs), Move(r) PROVE fs'.obj_lu[p] # FREE
  <2> DEFINE id == fs.obj_lu[r]
  <2>1. PICK q \in FirstFree(Gate(fs)) : fs' = Discard(Occupy(Gate(fs), q, id), r)
    BY <1>6 DEF Move
  <2>2. id \in LuIds /\ r \in Page
    BY DEF Used
  <2> HIDE DEF id
  <2> DEFINE u == Occupy(Gate(fs), q, id)
  <2>3. u.obj_lu = [Gate(fs).obj_lu EXCEPT ![q] = id] /\ u \in FsState
    BY <1>1, <2>1, <2>2, OccupySound DEF SoundState
  <2>4. fs' = [u EXCEPT !.obj_lu = [u.obj_lu EXCEPT ![r] = DELETED], !.stats_p_deleted = @ + 1,
                        !.stats_p_allocated = @ - 1]
    BY <2>1, Zenon DEF Discard
  <2> HIDE DEF u
  <2>5. fs'.obj_lu = [u.obj_lu EXCEPT ![r] = DELETED]
    BY <2>3, <2>4 DEF FsState
  <2> QED
    BY <1>1, <1>2, <2>2, <2>3, <2>5 DEF FsState
<1>7. ASSUME NEW r \in Used(fs), Delete(r) PROVE fs'.obj_lu[p] # FREE
  <2>1. fs' = [fs EXCEPT !.obj_lu = [fs.obj_lu EXCEPT ![r] = DELETED], !.stats_p_deleted = @ + 1,
                         !.stats_p_allocated = @ - 1]
    BY <1>7, Zenon DEF Delete, Discard
  <2>2. fs'.obj_lu = [fs.obj_lu EXCEPT ![r] = DELETED]
    BY <1>1, <2>1 DEF FsState
  <2> QED
    BY <1>1, <1>2, <2>2 DEF FsState
<1>8. CASE Refuse
  BY <1>4, <1>8, OtherLive
<1>9. ASSUME NEW m \in 0..MaxFreePages, QuickCollect(m) PROVE fs'.obj_lu[p] # FREE
  <2>1. m = 0
    BY DEF QuickIsFull
  <2>2. QuickCollect(0)
    BY <1>9, <2>1
  <2> QED
    BY <1>4, <2>2, OtherLive
<1>10. ASSUME NEW b \in Block, CleanStart(b) PROVE fs'.obj_lu[p] # FREE
  BY <1>4, <1>10, OtherLive
<1>11. CASE CleanFinish
  BY <1>4, <1>11, OtherLive
<1>12. CASE CleanAbort
  <2>1. fs'.obj_lu = fs.obj_lu
    BY <1>1, <1>12 DEF CleanAbort, FsState
  <2> QED
    BY <1>2, <2>1
<1>13. CASE Remount
  BY <1>4, <1>13, OtherLive
<1>14. CASE UNCHANGED vars
  BY <1>2, <1>14 DEF vars
<1> QED
  BY <1>5, <1>6, <1>7, <1>8, <1>9, <1>10, <1>11, <1>12, <1>13, <1>14, Zenon DEF Next

-----------------------------------------------------------------------------
(* What a sound state promises between calls. *)

\* An object has one index page of a span.
LEMMA SoundUnique == Sound => UniqueIndex
<1> SUFFICES ASSUME Sound, NEW p \in Page, NEW q \in Page, IsIndex(p), IsIndex(q),
                    fs.obj_lu[p] = fs.obj_lu[q], body[p].span = body[q].span
             PROVE  p = q
  BY DEF UniqueIndex
<1>1. PICK o \in ObjIds : ids[p] = Ix(o)
  BY LiveKinds
<1>2. ids[q] = Ix(o)
  BY <1>1, LiveKinds
<1>3. ixs[p].span = ixs[q].span
  BY <1>1, <1>2, BodyIs
<1> QED
  BY <1>1, <1>2, <1>3 DEF Sound, Unique

\* The search for an index page of a file at rest finds the one that holds the slot.
LEMMA SearchFinds ==
  ASSUME Sound, Idle, NEW o \in ObjIds, Resting(o), NEW j \in Nat
  PROVE  \A p \in Page : p \in IndexPages(o, j) <=> ids[p] = Ix(o) /\ ixs[p].span = j
<1>1. ixs = body
  BY IdleIs
<1>2. HeadIs(ids, ixs, o, SizeField(files[o]), FALSE)
  BY DEF Resting
<1>3. \A p \in Page : ids[p] = Ix(o) /\ ixs[p].span = 0 => body[p].ixdele = FALSE
  BY <1>2, HeaderIs
<1>4. \A p \in Page : fs.obj_lu[p] = Ix(o) <=> ids[p] = Ix(o)
  BY LiveAt DEF ids
<1>5. ASSUME NEW p \in Page PROVE p \in IndexPages(o, j) <=> ids[p] = Ix(o) /\ ixs[p].span = j
  <2>1. p \in IndexPages(o, j) <=> fs.obj_lu[p] = Ix(o) /\ body[p].span = j
                                    /\ ~(j = 0 /\ body[p].ixdele)
    BY DEF IndexPages, Ix
  <2>2. ASSUME ids[p] = Ix(o), ixs[p].span = j PROVE ~(j = 0 /\ body[p].ixdele)
    BY <1>3, <2>2, Zenon
  <2> QED
    BY <1>1, <1>4, <2>1, <2>2, Zenon
<1> QED
  BY <1>5

\* A span of a file at rest is found through whichever index page the search finds.
SpanFound(o, k) ==
  /\ IndexPages(o, IxSpan(k)) # {}
  /\ \A x \in IndexPages(o, IxSpan(k)) :
       LET p == body[x].refs[k]
       IN /\ p \in Page /\ fs.obj_lu[p] = Da(o) /\ body[p].span = k /\ DataCheck(p, k) = "ok"
          /\ \A i \in 0..(DataPageSize - 1) :
               body[p].bytes[i] = Wanted(files[o], 0, 0, Unset)[k * DataPageSize + i]

\* A span of a file at rest is found.
LEMMA SpanReads ==
  ASSUME Sound, Idle, NEW o \in ObjIds, Resting(o), NEW k \in Span,
         k * DataPageSize < Len(files[o])
  PROVE  SpanFound(o, k)
<1> DEFINE W == Wanted(files[o], 0, 0, Unset)
<1>1. ixs = body
  BY IdleIs
<1>2. Linked(ids, ixs, o, Len(files[o]), W)
  BY DEF Resting, Shape
<1> HIDE DEF W
<1>3. PICK r \in Page : Slot(ids, ixs, o, k, r) /\ Leads(ids, ixs, o, k, r, W)
  BY <1>2, Zenon DEF Linked
<1>4. PICK j \in Nat : j = IxSpan(k)
  <2>1. k \in Nat
    BY DEF Span
  <2> QED
    BY <2>1, IxSpanUp
<1>5. \A p \in Page : p \in IndexPages(o, j) <=> ids[p] = Ix(o) /\ ixs[p].span = j
  BY <1>4, SearchFinds
<1>6. IndexPages(o, j) \in SUBSET Page
  BY DEF IndexPages
<1>7. PICK y \in Page : ids[y] = Ix(o) /\ ixs[y].span = j /\ ixs[y].refs[k] = r
  BY <1>3, <1>4, Zenon DEF Slot
<1>8. /\ r \in Page /\ ids[r] = Da(o) /\ ixs[r].span = k
      /\ \A i \in 0..(DataPageSize - 1) : ixs[r].bytes[i] = W[k * DataPageSize + i]
  BY <1>3, Zenon DEF Leads
<1>9. fs.obj_lu[r] = Da(o) /\ IsData(r) /\ r # Unset /\ r # Torn /\ Da(o) # DELETED
  <2>1. IsData(r)
    BY <1>8, LiveKinds
  <2>2. fs.obj_lu[r] = ids[r]
    BY <1>8, <2>1, LiveKinds
  <2>3. Da(o) # DELETED
    BY IdsApart, MarkerAssumption
  <2> QED
    BY <1>8, <2>1, <2>2, <2>3, StoreAssumption
<1>10. DataCheck(r, k) = "ok"
  BY <1>1, <1>8, <1>9 DEF DataCheck
<1>11. ASSUME NEW x \in IndexPages(o, j) PROVE body[x].refs[k] = r
  <2>1. x \in Page /\ ids[x] = Ix(o) /\ ixs[x].span = j
    BY <1>5, <1>6
  <2>2. x = y
    BY <1>7, <2>1 DEF Sound, Unique
  <2> QED
    BY <1>1, <1>7, <2>2
<1>12. IndexPages(o, j) # {}
  BY <1>5, <1>7
<1> QED
  BY <1>1, <1>4, <1>8, <1>9, <1>10, <1>11, <1>12, Zenon DEF SpanFound, W

\* What is known of a file between calls.
LEMMA FileRests ==
  ASSUME Sound, Idle, NEW o \in ObjIds, files[o] # Unknown
  PROVE  \/ files[o] = NoFile /\ NoPages(ids, o)
         \/ /\ files[o] # NoFile /\ ContentOk(files[o]) /\ Resting(o)
            /\ Exists(o) /\ Length(o) = Len(files[o]) /\ files[o] \in Seq(Bytes)
            /\ Len(files[o]) \in Nat /\ Len(files[o]) <= Top
<1>1. ~Busy(o)
  BY IdleIs
<1>2. (files[o] = NoFile /\ NoPages(ids, o)) \/ (ContentOk(files[o]) /\ Resting(o))
  <2>1. ObjectOk(o)
    BY DEF Sound
  <2> QED
    BY <1>1, <2>1, Zenon DEF ObjectOk
<1>3. ASSUME ContentOk(files[o]), Resting(o)
      PROVE  /\ files[o] # NoFile /\ Exists(o) /\ Length(o) = Len(files[o])
             /\ files[o] \in Seq(Bytes) /\ Len(files[o]) \in Nat /\ Len(files[o]) <= Top
  <2>1. /\ files[o] # NoFile /\ files[o] \in Seq(Bytes) /\ Len(files[o]) \in Nat
        /\ Len(files[o]) <= Top
    BY <1>3, ContentIs
  <2>2. HeadIs(ids, ixs, o, SizeField(files[o]), FALSE)
    BY <1>3 DEF Resting
  <2>3. Exists(o)
    BY <2>2, HeaderIs
  <2>4. Length(o) = Len(files[o])
    BY <1>1, <2>3, FileIs
  <2> QED
    BY <2>1, <2>3, <2>4
<1> QED
  BY <1>2, <1>3

\* Every byte of a file whose calls succeeded is read back.
LEMMA SoundReads == Sound => FilesIntact
<1> SUFFICES ASSUME Sound, Idle, NEW o \in ObjIds, files[o] # NoFile, files[o] # Unknown
             PROVE  Reads(o, files[o])
  BY DEF FilesIntact
<1> DEFINE c == files[o]
<1>1. /\ Resting(o) /\ Exists(o) /\ Length(o) = Len(c) /\ c \in Seq(Bytes)
      /\ Len(c) \in Nat /\ Len(c) <= Top
  BY FileRests
<1>2. Top \in Nat
  BY TopIs
<1>3. ASSUME NEW i \in 1..Len(c)
      PROVE  LET k == SpanAt(i - 1)
             IN /\ IndexPages(o, IxSpan(k)) # {}
                /\ \A x \in IndexPages(o, IxSpan(k)) :
                     LET p == body[x].refs[k]
                     IN DataCheck(p, k) = "ok" /\ body[p].bytes[(i - 1) % DataPageSize] = c[i]
  <2>1. PICK n \in Nat : n = i - 1
    BY <1>1
  <2>2. n < Top /\ n < Len(c) /\ i = n + 1 /\ n \in 0..Top
    BY <1>1, <1>2, <2>1
  <2>3. PICK k \in Span : k = SpanAt(n)
    BY <2>2, SpanFor
  <2>4. k * DataPageSize <= n /\ k * DataPageSize \in Nat
    BY <2>2, <2>3, SpanFor, SpanStart
  <2>5. PICK m \in 0..(DataPageSize - 1) : m = n % DataPageSize
    BY SpanOf
  <2>6. k * DataPageSize + m = n
    BY <2>3, <2>5, SpanOf DEF SpanAt
  <2>7. SpanFound(o, k)
    BY <1>1, <2>2, <2>4, SpanReads
  <2>8. Wanted(c, 0, 0, Unset)[n] = c[i]
    BY <2>2 DEF Wanted
  <2>9. ASSUME NEW x \in IndexPages(o, IxSpan(k))
        PROVE  DataCheck(body[x].refs[k], k) = "ok" /\ body[body[x].refs[k]].bytes[m] = c[i]
    <3> HIDE DEF c
    <3>1. PICK p : p = body[x].refs[k]
      OBVIOUS
    <3>2. /\ DataCheck(p, k) = "ok"
          /\ \A h \in 0..(DataPageSize - 1) :
               body[p].bytes[h] = Wanted(files[o], 0, 0, Unset)[k * DataPageSize + h]
      BY <2>7, <3>1, Zenon DEF SpanFound
    <3>3. body[p].bytes[m] = Wanted(c, 0, 0, Unset)[n]
      BY <2>5, <2>6, <3>2 DEF c
    <3> QED
      BY <2>8, <3>1, <3>2, <3>3
  <2>10. IndexPages(o, IxSpan(k)) # {}
    BY <2>7, Zenon DEF SpanFound
  <2> QED
    BY <2>1, <2>3, <2>5, <2>9, <2>10, Zenon
<1> QED
  BY <1>1, <1>3, Zenon DEF Reads

\* No call has failed half-way.
Unfailed == \A o \in ObjIds : files[o] # Unknown

\* Every reference leads to a page of its span.
LEMMA SoundIndex == Sound /\ Unfailed => IndexSound
<1> SUFFICES ASSUME Sound, Unfailed, Idle, NEW x \in Page, IsIndex(x),
                    NEW k \in DOMAIN body[x].refs, body[x].refs[k] # Unset
             PROVE  /\ body[x].refs[k] # Torn
                    /\ fs.obj_lu[body[x].refs[k]] = <<fs.obj_lu[x][1], "data">>
                    /\ body[body[x].refs[k]].span = k
  BY DEF IndexSound
<1>1. PICK o \in ObjIds : ids[x] = Ix(o)
  BY LiveKinds
<1>2. fs.obj_lu[x] = Ix(o) /\ fs.obj_lu[x][1] = o
  BY <1>1, LiveKinds DEF Ix
<1>3. Resting(o) /\ Len(files[o]) \in Nat
  <2>1. ~NoPages(ids, o)
    BY <1>1 DEF NoPages
  <2> QED
    BY <2>1, FileRests DEF Unfailed
<1>4. ixs = body
  BY IdleIs
<1>5. IndexBody(body[x])
  BY <1>1, BodyIs
<1>6. k \in SlotsOf(body[x].span) /\ body[x].refs[k] \in Refs
  BY <1>5 DEF IndexBody
<1>7. k \in Span /\ IxSpan(k) = body[x].span
  BY <1>6 DEF SlotsOf
<1>8. PICK r \in Refs : r = body[x].refs[k]
  BY <1>6
<1>9. Slot(ids, ixs, o, k, r)
  BY <1>1, <1>4, <1>7, <1>8 DEF Slot
<1>10. k * DataPageSize < Len(files[o])
  <2>1. Ended(ids, ixs, o, Len(files[o]))
    BY <1>3 DEF Resting, Shape
  <2>2. ~(k * DataPageSize >= Len(files[o]))
    BY <1>7, <1>8, <1>9, <2>1, Zenon DEF Ended
  <2>3. k * DataPageSize \in Nat
    BY <1>7, SpanStart
  <2> QED
    BY <1>3, <2>2, <2>3
<1>11. SpanFound(o, k)
  BY <1>3, <1>7, <1>10, SpanReads
<1>12. x \in IndexPages(o, IxSpan(k))
  <2>1. PICK j \in Nat : j = IxSpan(k)
    BY <1>5, <1>7 DEF IndexBody
  <2>2. x \in IndexPages(o, j) <=> ids[x] = Ix(o) /\ ixs[x].span = j
    BY <1>3, SearchFinds
  <2> QED
    BY <1>1, <1>4, <1>7, <2>1, <2>2
<1>13. r \in Page /\ fs.obj_lu[r] = Da(o) /\ body[r].span = k
  BY <1>8, <1>11, <1>12, Zenon DEF SpanFound
<1>14. r # Torn
  BY <1>13, StoreAssumption
<1> QED
  BY <1>2, <1>8, <1>13, <1>14 DEF Da

\* Every page in use is that of a file, and every data page is referred to.
LEMMA SoundPages == Sound /\ Unfailed => NoOrphans
<1> SUFFICES ASSUME Sound, Unfailed, Idle, NEW p \in Used(fs)
             PROVE  /\ files[fs.obj_lu[p][1]] # NoFile
                    /\ IsData(p) => \E x \in IndexPages(fs.obj_lu[p][1], IxSpan(body[p].span)) :
                                      body[x].refs[body[p].span] = p
  BY DEF NoOrphans
<1>1. p \in Page /\ fs.obj_lu[p] \in LuIds
  BY DEF Used
<1>2. PICK o \in ObjIds : fs.obj_lu[p] \in {Ix(o), Da(o)}
  BY <1>1, StoreAssumption DEF Ix, Da
<1>3. fs.obj_lu[p][1] = o
  BY <1>2 DEF Ix, Da
<1>4. ids[p] = Ix(o) \/ ids[p] = Da(o)
  BY <1>1, <1>2, LiveAt DEF ids
<1>5. files[o] # NoFile /\ Resting(o)
  <2>1. ~NoPages(ids, o)
    BY <1>1, <1>4 DEF NoPages
  <2> QED
    BY <2>1, FileRests DEF Unfailed
<1>6. ixs = body
  BY IdleIs
<1>7. ASSUME IsData(p)
      PROVE  \E x \in IndexPages(o, IxSpan(body[p].span)) : body[x].refs[body[p].span] = p
  <2>1. ids[p] = Da(o)
    <3>1. fs.obj_lu[p][2] = "data"
      BY <1>7 DEF IsData
    <3> QED
      BY <1>1, <1>2, <1>4, <3>1, LiveAt DEF Ix, Da, ids
  <2>2. PICK k : k = body[p].span
    OBVIOUS
  <2>3. Slot(ids, ixs, o, k, p)
    <3>1. Owned(ids, ixs, o, Len(files[o]), Unset)
      BY <1>5 DEF Resting, Shape
    <3>2. p # Unset
      BY <1>1, StoreAssumption
    <3>3. Slot(ids, ixs, o, ixs[p].span, p)
      BY <1>1, <2>1, <3>1, <3>2, Zenon DEF Owned
    <3> QED
      BY <1>6, <2>2, <3>3
  <2>4. PICK y \in Page : ids[y] = Ix(o) /\ ixs[y].span = IxSpan(k) /\ ixs[y].refs[k] = p
    BY <2>3, Zenon DEF Slot
  <2>5. PICK j \in Nat : j = IxSpan(k)
    BY <2>4, BodyIs DEF IndexBody
  <2>6. y \in IndexPages(o, j)
    BY <1>5, <2>4, <2>5, SearchFinds
  <2> QED
    BY <1>6, <2>2, <2>4, <2>5, <2>6
<1> QED
  BY <1>3, <1>5, <1>7

-----------------------------------------------------------------------------
(* The theorems. *)

\* As long as no clean run has failed, the pages, their contents, the collector's run and the
\* call under way are those of a sound store, in every reachable state of every geometry.
THEOREM StoreInvariance == ASSUME QuickIsFull, Retry = FALSE PROVE StoreSpec => []SInv
<1>1. StoreInit => SInv
  BY InitFits
<1>2. SInv /\ [StoreNext]_storeVars => SInv'
  <2> SUFFICES ASSUME SInv, [StoreNext]_storeVars PROVE SInv'
    OBVIOUS
  <2>1. aborted' = aborted \/ aborted' = TRUE
    BY AbortedStays, Zenon
  <2>2. CASE aborted
    BY <2>1, <2>2, Zenon DEF SInv
  <2>3. CASE Sound
    <3>1. Fine
      BY <2>3, StoreStep, Zenon
    <3> QED
      BY <2>1, <3>1, Zenon DEF Fine, SInv
  <2> QED
    BY <2>2, <2>3, Zenon DEF SInv
<1> QED
  BY <1>1, <1>2, PTL DEF StoreSpec

\* No other failure matters: giving up a run with an index page in RAM is the one step that
\* can leave the flash unsound. A run that finds no index page for a data page breaks nothing.
LEMMA SoundUnlessHalfway ==
  ASSUME QuickIsFull, Retry = FALSE
  PROVE  StoreSpec /\ [][~GivenUpHalfway]_storeVars => []Sound
<1>1. StoreInit => Sound
  <2>1. StoreInit => SInv /\ ~aborted
    BY InitFits DEF StoreInit, Init
  <2> QED
    BY <2>1, Zenon DEF SInv
<1>2. Sound /\ [StoreNext]_storeVars /\ [~GivenUpHalfway]_storeVars => Sound'
  <2> SUFFICES ASSUME Sound, [StoreNext]_storeVars, [~GivenUpHalfway]_storeVars PROVE Sound'
    OBVIOUS
  <2>1. Fine
    BY StoreStep, Zenon
  <2>2. ~GivenUpHalfway
    <3>1. gc' = gc => ~GivenUpHalfway
      BY DEF GivenUpHalfway
    <3>2. UNCHANGED storeVars => gc' = gc
      BY DEF storeVars
    <3> QED
      BY <3>1, <3>2, Zenon
  <2> QED
    BY <2>1, <2>2, Zenon DEF Fine
<1> QED
  BY <1>1, <1>2, PTL DEF StoreSpec

\* Every allocation, move, deletion and erasure of the object layer and of the collector is
\* one the allocator allows: only live pages are moved or deleted, only emptied blocks erased.
\* So it is also after failed runs, if none was given up half-way.
THEOREM StoreImplementsPages ==
  ASSUME QuickIsFull, Retry = FALSE
  PROVE  StoreSpec /\ [][~GivenUpHalfway]_storeVars => ImplementsPages
<1>1. StoreInit => Init
  BY DEF StoreInit
<1>2. Sound /\ [StoreNext]_storeVars => [Next]_vars
  BY StoreStep, Zenon DEF Fine
<1> QED
  BY <1>1, <1>2, SoundUnlessHalfway, PTL DEF StoreSpec, ImplementsPages, Spec

\* No page in use is erased: the collector has emptied a block before it erases it.
THEOREM LiveKept ==
  ASSUME QuickIsFull, Retry = FALSE
  PROVE  StoreSpec /\ [][~GivenUpHalfway]_storeVars => LivePagesKept
<1>1. Sound /\ [StoreNext]_storeVars => [\A p \in Used(fs) : fs'.obj_lu[p] # FREE]_storeVars
  <2> SUFFICES ASSUME Sound, [StoreNext]_storeVars
               PROVE  \A p \in Used(fs) : fs'.obj_lu[p] # FREE
    BY Zenon
  <2>1. IInv /\ [Next]_vars
    BY StoreStep, Zenon DEF Sound, Fine
  <2> QED
    BY <2>1, StepKeepsLive, Zenon
<1> QED
  BY <1>1, SoundUnlessHalfway, PTL DEF StoreSpec, LivePagesKept

\* A file of which every call succeeded reads back what was written to it, however the
\* collector has moved its pages and whatever became of other files.
THEOREM FilesKept ==
  ASSUME QuickIsFull, Retry = FALSE PROVE StoreSpec => [](CleanSucceeds => FilesIntact)
<1>1. SInv => (CleanSucceeds => FilesIntact)
  BY SoundReads, Zenon DEF SInv, CleanSucceeds
<1> QED
  BY <1>1, StoreInvariance, PTL

\* An object never has two index pages of one span, also in the middle of a call.
THEOREM IndexUnique ==
  ASSUME QuickIsFull, Retry = FALSE PROVE StoreSpec => [](CleanSucceeds => UniqueIndex)
<1>1. SInv => (CleanSucceeds => UniqueIndex)
  BY SoundUnique, Zenon DEF SInv, CleanSucceeds
<1> QED
  BY <1>1, StoreInvariance, PTL

\* Until a call fails half-way, every reference between calls leads to a data page of its
\* object and span.
THEOREM IndexLeads ==
  ASSUME QuickIsFull, Retry = FALSE
  PROVE  StoreSpec => [](CleanSucceeds /\ Unfailed => IndexSound)
<1>1. SInv => (CleanSucceeds /\ Unfailed => IndexSound)
  BY SoundIndex, Zenon DEF SInv, CleanSucceeds
<1> QED
  BY <1>1, StoreInvariance, PTL

\* Until a call fails half-way, every data page between calls is referred to and a removed
\* file has left no page.
THEOREM NothingLeaks ==
  ASSUME QuickIsFull, Retry = FALSE
  PROVE  StoreSpec => [](CleanSucceeds /\ Unfailed => NoOrphans)
<1>1. SInv => (CleanSucceeds /\ Unfailed => NoOrphans)
  BY SoundPages, Zenon DEF SInv, CleanSucceeds
<1> QED
  BY <1>1, StoreInvariance, PTL

\* The same of behaviours in which clean runs may fail: as long as none is given up while the
\* new places of moved pages are only noted in RAM, every file reads back what was written to
\* it, and until a call fails half-way every page in use is referred to, whatever else fails.
THEOREM FilesKeptUnlessHalfway ==
  ASSUME QuickIsFull, Retry = FALSE
  PROVE  StoreSpec /\ [][~GivenUpHalfway]_storeVars
           => [](FilesIntact /\ UniqueIndex /\ (Unfailed => IndexSound /\ NoOrphans))
<1>1. Sound => FilesIntact /\ UniqueIndex /\ (Unfailed => IndexSound /\ NoOrphans)
  BY SoundReads, SoundUnique, SoundIndex, SoundPages, Zenon
<1> QED
  BY <1>1, SoundUnlessHalfway, PTL
=============================================================================
