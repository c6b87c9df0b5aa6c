------------------------------ MODULE SpiffsGc ------------------------------
(***************************************************************************)
(* What the pages of SPIFFS hold, and the garbage collector run in front   *)
(* of the operations that allocate (spiffs_gc_check and spiffs_gc_clean).  *)
(*                                                                         *)
(* An object is an index header page (index span 0), further index pages   *)
(* (spans 1, 2, ...) and data pages; an index page refers to the data      *)
(* pages of its slots.  The collector empties a block by moving its live   *)
(* pages elsewhere and rewriting the index pages that refer to them; it    *)
(* keeps one index page in RAM (fs->work) while it moves that page's data. *)
(*                                                                         *)
(* Each step changes at most one page through a step of SpiffsPages, and   *)
(* the state between two steps is one the flash really passes through.     *)
(***************************************************************************)
EXTENDS SpiffsPages

CONSTANTS
  ObjIds,        \* object ids without SPIFFS_OBJ_ID_IX_FLAG
  Bytes,         \* the byte values files are written with
  MaxSpans,      \* bound: data pages of one object
  HdrSlots,      \* SPIFFS_OBJ_HDR_IX_LEN: slots of the index header page
  IxSlots,       \* SPIFFS_OBJ_IX_LEN: slots of any other index page
  DataPageSize,  \* SPIFFS_DATA_PAGE_SIZE
  MaxRuns,       \* SPIFFS_GC_MAX_RUNS
  Unset,         \* an erased slot, byte or size (all ones on the flash)
  Torn           \* what is left where a programmed cell is programmed again

\* The id a lookup entry holds carries the flag that tells index pages apart.
ASSUME StoreAssumption ==
  /\ LuIds = ObjIds \X {"data", "index"}
  /\ {MaxSpans, HdrSlots, IxSlots, DataPageSize, MaxRuns} \subseteq Nat \ {0}
  /\ {Unset, Torn} \cap (Page \cup Bytes \cup Nat) = {} /\ Unset # Torn

VARIABLES
  body,   \* the header and the contents of every live page
  gc      \* the run of spiffs_gc_check under way, and its local variables

Span == 0..(MaxSpans - 1)

\* SPIFFS_OBJ_IX_ENTRY_SPAN_IX: the index page that holds the slot of a span.
IxSpan(k) == IF k < HdrSlots THEN 0 ELSE 1 + (k - HdrSlots) \div IxSlots
SlotsOf(j) == {k \in Span : IxSpan(k) = j}

Blank == [kind |-> "blank"]
DataPage(k, f) == [kind |-> "data", span |-> k, bytes |-> f]
\* ixdele and size are used in the header only.
IndexPage(j) == [kind |-> "index", span |-> j, size |-> Unset, ixdele |-> FALSE,
                 refs |-> [k \in SlotsOf(j) |-> Unset]]

IsData(p)  == p \in Used(fs) /\ fs.obj_lu[p][2] = "data"
IsIndex(p) == p \in Used(fs) /\ fs.obj_lu[p][2] = "index"

\* spiffs_obj_lu_find_id_and_span: it does not return a header marked IXDELE.
\* Which page is met first, when there are several, depends on a search cursor
\* that is not modelled.
IndexPages(o, j) ==
  {p \in Page : /\ fs.obj_lu[p] = <<o, "index">>
                /\ body[p].span = j
                /\ ~(j = 0 /\ body[p].ixdele)}

\* An index page as it is held in fs->work, and with a slot set there.
InWork(p) == [page |-> p, obj |-> fs.obj_lu[p][1], ix |-> body[p]]
NoWork == [page |-> Unset]
Noted(w, k, p) == [w EXCEPT !.ix = [w.ix EXCEPT !.refs = [w.ix.refs EXCEPT ![k] = p]]]

-----------------------------------------------------------------------------
(* The steps of SpiffsPages with the contents they write. *)

\* The page just occupied: the search leaves the free cursor on it.
Taken == <<fs'.free_cursor_block_ix, fs'.free_cursor_obj_lu_entry>>

AllocatePage(id, content) ==
  /\ Allocate(id)
  /\ body' = [body EXCEPT ![Taken] = content]

MovePage(p, content) ==
  /\ Move(p)
  /\ body' = [body EXCEPT ![Taken] = content, ![p] = Blank]

DeletePage(p) ==
  /\ Delete(p)
  /\ body' = [body EXCEPT ![p] = Blank]

-----------------------------------------------------------------------------
(* spiffs_gc_check *)

NoGc == [pc |-> "off"]

GcCheck(len) == [pc |-> "check", len |-> len]

\* The pages gc_check believes it may hand out: two blocks are kept back.
GcBudget(s) ==
  EntriesPerBlock * (NumBlocks - 2) - s.stats_p_allocated - s.stats_p_deleted
NeededPages(len) == (len + DataPageSize - 1) \div DataPageSize

GcReturn(ok) == gc' = [pc |-> "done", ok |-> ok]

\* Mutant: two free blocks are taken to be plenty.
RoomyEarly(s) == s.free_blocks >= 2
\* Nothing needs collecting.
Roomy(s) == s.free_blocks > 3 /\ gc.len < GcBudget(s) * DataPageSize

GcEnough ==
  /\ gc.pc = "check" /\ Roomy(fs)
  /\ GcReturn(TRUE)
  /\ UNCHANGED <<fs, aborted, body>>

GcRefuse ==
  /\ gc.pc = "check" /\ ~Roomy(fs)
  /\ NeededPages(gc.len) > GcBudget(fs) + fs.stats_p_deleted
  /\ GcReturn(FALSE)
  /\ UNCHANGED <<fs, aborted, body>>

GcBegin ==
  /\ gc.pc = "check" /\ ~Roomy(fs)
  /\ NeededPages(gc.len) <= GcBudget(fs) + fs.stats_p_deleted
  /\ gc' = [pc |-> "pick", len |-> gc.len, tries |-> 0]
  /\ UNCHANGED <<fs, aborted, body>>

\* The score of a candidate without its erase age; entries from the first free
\* one on are not counted.
Score(b) ==
  LET seen == {p \in PagesOf(b) :
                 \A q \in PagesOf(b) : q[2] <= p[2] => fs.obj_lu[q] # FREE}
  IN 5 * Cardinality(seen \cap Dirty(fs)) - Cardinality(seen \cap Used(fs))

\* When the file system is crammed the best score wins, the first block among
\* equals; otherwise the erase ages, arbitrary here, decide.
GcChoice ==
  IF GcBudget(fs) > 0 THEN GcCandidates(fs)
  ELSE {b \in GcCandidates(fs) : \A c \in GcCandidates(fs) :
          \/ Score(c) < Score(b)
          \/ Score(c) = Score(b) /\ b <= c}

GcNoCandidate ==
  /\ gc.pc = "pick" /\ GcCandidates(fs) = {}
  /\ GcReturn(NeededPages(gc.len) < GcBudget(fs))
  /\ UNCHANGED <<fs, aborted, body>>

GcPick(b) ==
  /\ gc.pc = "pick" /\ b \in GcChoice
  /\ CleanStart(b)
  /\ gc' = [pc |-> "find", len |-> gc.len, tries |-> gc.tries,
            prev |-> GcBudget(fs), entry |-> 0]
  /\ UNCHANGED body

-----------------------------------------------------------------------------
(* spiffs_gc_clean on block fs.cleaning *)

GcFail ==
  /\ CleanAbort
  /\ GcReturn(FALSE)
  /\ UNCHANGED body

First(S) == {p \in S : \A q \in S : p[2] <= q[2]}

\* Mutants: the first entry is skipped; the scan for index pages goes on from the
\* stored entry; the span of the index page is not compared.
DataLeftSkips == {p \in PagesOf(fs.cleaning) : IsData(p) /\ p[2] > gc.entry}
IndexLeftNoRestart == {p \in PagesOf(fs.cleaning) : IsIndex(p) /\ p[2] >= gc.entry}
DataHereAnySpan == {p \in PagesOf(fs.cleaning) : fs.obj_lu[p] = <<gc.work.obj, "data">>}

DataLeft  == {p \in PagesOf(fs.cleaning) : IsData(p) /\ p[2] >= gc.entry}
IndexLeft == {p \in PagesOf(fs.cleaning) : IsIndex(p)}
\* Data pages of the block whose slots are in the index page in RAM.
DataHere  == {p \in PagesOf(fs.cleaning) :
                /\ fs.obj_lu[p] = <<gc.work.obj, "data">>
                /\ IxSpan(body[p].span) = gc.work.ix.span}

\* FIND_OBJ_DATA: the next data page, and the index page that refers to it.
GcFindData ==
  /\ gc.pc = "find"
  /\ \E p \in First(DataLeft) :
       LET found == IndexPages(fs.obj_lu[p][1], IxSpan(body[p].span))
       IN \/ /\ found = {}
             /\ GcFail
          \/ /\ \E x \in found :
                  gc' = [pc |-> "move", len |-> gc.len, tries |-> gc.tries,
                         prev |-> gc.prev, entry |-> p[2] + 1, work |-> InWork(x)]
             /\ UNCHANGED <<fs, aborted, body>>

\* Mutant: the new place of the page is not noted.
GcMoveDataUnnoted ==
  /\ gc.pc = "move"
  /\ \E p \in First(DataHere) :
       \/ MovePage(p, body[p]) /\ UNCHANGED gc
       \/ FirstFree(fs) = {} /\ GcFail

\* MOVE_OBJ_DATA: move a data page and note its new place in RAM ...
GcMoveData ==
  /\ gc.pc = "move"
  /\ \E p \in First(DataHere) :
       \/ /\ MovePage(p, body[p])
          /\ gc' = [gc EXCEPT !.work = Noted(@, body[p].span, Taken)]
       \/ FirstFree(fs) = {} /\ GcFail

\* ... until there is none left: the index page is stored.
GcStoreIndex ==
  /\ gc.pc = "move" /\ DataHere = {}
  /\ \/ /\ MovePage(gc.work.page, gc.work.ix)
        /\ gc' = [pc |-> "find", len |-> gc.len, tries |-> gc.tries,
                  prev |-> gc.prev, entry |-> gc.entry]
     \/ FirstFree(fs) = {} /\ GcFail

\* MOVE_OBJ_IX: the index pages of the block are moved ...
GcMoveIndex ==
  /\ gc.pc = "find" /\ DataLeft = {}
  /\ \E p \in First(IndexLeft) :
       \/ MovePage(p, body[p]) /\ UNCHANGED gc
       \/ FirstFree(fs) = {} /\ GcFail

\* After the block is erased: no other run when the file system is crammed and
\* this one gained nothing, after MaxRuns, or when there is room enough.
Short(s) == gc.len > GcBudget(s) * DataPageSize
AnotherRun(s) ==
  /\ ~(gc.prev <= 0 /\ gc.prev = GcBudget(s))
  /\ gc.tries + 1 < MaxRuns
  /\ s.free_blocks <= 2 \/ Short(s)
\* Mutant: the runs are not counted.
NextRunUncounted == [pc |-> "pick", len |-> gc.len, tries |-> gc.tries]
NextRun == [pc |-> "pick", len |-> gc.len, tries |-> gc.tries + 1]

\* ... and gc_check erases the block and decides about another run.
GcErase ==
  /\ gc.pc = "find" /\ DataLeft = {} /\ IndexLeft = {}
  /\ fs' = EraseCleaned(fs, fs.cleaning)
  /\ IF AnotherRun(fs')
     THEN gc' = NextRun
     ELSE GcReturn(~Short(fs'))
  /\ body' = [p \in Page |-> IF p[1] = fs.cleaning THEN Blank ELSE body[p]]
  /\ UNCHANGED aborted
=============================================================================
