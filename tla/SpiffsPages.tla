---------------------------- MODULE SpiffsPages ----------------------------
(***************************************************************************)
(* The page accounting of SPIFFS: the object lookup ("obj_lu") entry of    *)
(* every page, the counters the file system keeps beside it, and the free  *)
(* cursor.  Every operation of the file system changes the flash through   *)
(* the steps below, so this module is the allocator the other SPIFFS       *)
(* modules use (SpiffsStore EXTENDS it) and implement.                     *)
(*                                                                         *)
(* A page is named by its block and its lookup entry.  fs holds the fields *)
(* of the C struct `spiffs` that the allocator reads or writes, and the    *)
(* lookup tables the flash holds.                                          *)
(***************************************************************************)
EXTENDS Integers, FiniteSets

CONSTANTS
  NumBlocks,         \* fs->block_count
  EntriesPerBlock,   \* SPIFFS_PAGES_PER_BLOCK - SPIFFS_OBJ_LOOKUP_PAGES
  LuIds,             \* the object ids a lookup entry may hold
  FREE,              \* SPIFFS_OBJ_ID_FREE, an erased entry
  DELETED,           \* SPIFFS_OBJ_ID_DELETED, an entry overwritten with zeros
  NoBlock,           \* fs->cleaning = 0; otherwise it names the block cleaned
  MaxFreePages       \* greatest max_free_pages passed to SPIFFS_gc_quick

\* spiffs_gc_check subtracts two blocks from block_count; a block has at least
\* one data page besides the one that keeps its last entry.
ASSUME GeometryAssumption ==
  /\ NumBlocks \in Nat /\ NumBlocks >= 3
  /\ EntriesPerBlock \in Nat /\ EntriesPerBlock >= 2
  /\ MaxFreePages \in Nat

ASSUME MarkerAssumption ==
  /\ FREE \notin LuIds /\ DELETED \notin LuIds /\ FREE # DELETED
  /\ NoBlock \notin 0..(NumBlocks - 1)

VARIABLES
  fs,       \* the fields of the struct spiffs and the lookup tables on flash
  aborted   \* history: some clean run has ended in an error

vars == <<fs, aborted>>

Block == 0..(NumBlocks - 1)
Entry == 0..(EntriesPerBlock - 1)
Page  == Block \X Entry

FsState ==
  [obj_lu                   : [Page -> LuIds \cup {FREE, DELETED}],
   free_blocks              : Int,
   stats_p_allocated        : Int,
   stats_p_deleted          : Int,
   free_cursor_block_ix     : Block,
   free_cursor_obj_lu_entry : Entry,
   cleaning                 : Block \cup {NoBlock}]

-----------------------------------------------------------------------------
(* What the lookup tables say. *)

Used(s)    == {p \in Page : s.obj_lu[p] \in LuIds}
Dirty(s)   == {p \in Page : s.obj_lu[p] = DELETED}
FreePages(s) == {p \in Page : s.obj_lu[p] = FREE}
\* A block counts as free when its first lookup entry is erased.
FreeHeads(s) == {b \in Block : s.obj_lu[<<b, 0>>] = FREE}
PagesOf(b) == {b} \X Entry

-----------------------------------------------------------------------------
(* Operators on the file system state, one per function of the nucleus. *)

\* spiffs_erase_block: the block reads as erased; free_blocks always grows.
EraseBlock(s, b) ==
  [s EXCEPT !.obj_lu = [p \in Page |-> IF p[1] = b THEN FREE ELSE s.obj_lu[p]],
            !.free_blocks = @ + 1]

\* spiffs_gc_quick: blocks with no live page and at most max_free free pages.
QuickVictims(s, max_free) ==
  {b \in Block : /\ Used(s) \cap PagesOf(b) = {}
                 /\ Cardinality(FreePages(s) \cap PagesOf(b)) <= max_free}

\* The first such block is erased; without one nothing happens.
GcQuick(s, max_free) ==
  IF QuickVictims(s, max_free) = {} THEN s
  ELSE LET b == CHOOSE x \in QuickVictims(s, max_free) :
                  \A y \in QuickVictims(s, max_free) : x <= y
       IN EraseBlock([s EXCEPT !.stats_p_deleted =
                        @ - Cardinality(Dirty(s) \cap PagesOf(b))], b)

\* The gate of spiffs_obj_lu_find_free: outside a clean run it keeps two blocks
\* free, trying the quick collection before it refuses.
Gate(s) == IF s.cleaning = NoBlock /\ s.free_blocks < 2 THEN GcQuick(s, 0) ELSE s
\* Mutant: one block is enough.
RefusedBelowOne(s) == s.cleaning = NoBlock /\ Gate(s).free_blocks < 1
Refused(s) == s.cleaning = NoBlock /\ Gate(s).free_blocks < 2

\* spiffs_obj_lu_find_entry_visitor starts at the cursor, or at the next block
\* when the cursor stands on the last entry ...
StartBlock(s) ==
  IF s.free_cursor_obj_lu_entry < EntriesPerBlock - 1 THEN s.free_cursor_block_ix
  ELSE IF s.free_cursor_block_ix = NumBlocks - 1 THEN 0
  ELSE s.free_cursor_block_ix + 1
\* Mutant: the search starts behind the cursor.
StartEntryBehind(s) ==
  IF s.free_cursor_obj_lu_entry < EntriesPerBlock - 1
  THEN s.free_cursor_obj_lu_entry + 1 ELSE 0
StartEntry(s) ==
  IF s.free_cursor_obj_lu_entry < EntriesPerBlock - 1
  THEN s.free_cursor_obj_lu_entry ELSE 0

\* ... and visits the blocks cyclically, the entries before the start last.
Round(s, p) ==
  IF p[1] = StartBlock(s) THEN (IF p[2] >= StartEntry(s) THEN 0 ELSE NumBlocks)
  ELSE IF p[1] > StartBlock(s) THEN p[1] - StartBlock(s)
  ELSE p[1] - StartBlock(s) + NumBlocks
Before(s, p, q) ==
  \/ Round(s, p) < Round(s, q)
  \/ Round(s, p) = Round(s, q) /\ p[2] < q[2]

\* The free page the search meets first: none or exactly one.
FirstFree(s) ==
  {p \in FreePages(s) : \A q \in FreePages(s) : q = p \/ Before(s, p, q)}

\* Mutant: the first entry of a block is taken without counting the block.
OccupyUncounted(s, p, id) ==
  [s EXCEPT !.obj_lu[p] = id,
            !.stats_p_allocated = @ + 1,
            !.free_cursor_block_ix = p[1],
            !.free_cursor_obj_lu_entry = p[2]]

\* A page is taken: cursor, free_blocks, lookup entry and counter move together.
Occupy(s, p, id) ==
  [s EXCEPT !.obj_lu[p] = id,
            !.free_blocks = IF p[2] = 0 THEN @ - 1 ELSE @,
            !.stats_p_allocated = @ + 1,
            !.free_cursor_block_ix = p[1],
            !.free_cursor_obj_lu_entry = p[2]]

\* spiffs_page_delete
Discard(s, p) ==
  [s EXCEPT !.obj_lu[p] = DELETED,
            !.stats_p_deleted = @ + 1,
            !.stats_p_allocated = @ - 1]

\* spiffs_gc_find_candidate looks at the entries before the first free one and
\* takes only blocks with a deleted page among them.
GcCandidates(s) ==
  {b \in Block : \E p \in PagesOf(b) :
      /\ s.obj_lu[p] = DELETED
      /\ \A q \in PagesOf(b) : q[2] < p[2] => s.obj_lu[q] # FREE}

\* Mutants: the cursor stays where it is, or leaves the last block upwards.
CleanEntryInPlace(s, b) == [s EXCEPT !.cleaning = b]
CleanEntryNoWrap(s, b) ==
  IF s.free_cursor_block_ix = b
  THEN [s EXCEPT !.cleaning = b, !.free_cursor_block_ix = b + 1,
                 !.free_cursor_obj_lu_entry = 0]
  ELSE [s EXCEPT !.cleaning = b]

\* Entry of spiffs_gc_clean: the cursor leaves the block about to be cleaned.
CleanEntry(s, b) ==
  IF s.free_cursor_block_ix = b
  THEN [s EXCEPT !.cleaning = b,
                 !.free_cursor_block_ix = IF b = NumBlocks - 1 THEN 0 ELSE b + 1,
                 !.free_cursor_obj_lu_entry = 0]
  ELSE [s EXCEPT !.cleaning = b]

\* Mutant: the block is erased without taking its pages off the statistics.
EraseCleanedUncounted(s, b) == EraseBlock([s EXCEPT !.cleaning = NoBlock], b)

\* spiffs_gc_erase_page_stats and spiffs_gc_erase_block after a clean run.
EraseCleaned(s, b) ==
  EraseBlock([s EXCEPT !.cleaning = NoBlock,
                       !.stats_p_deleted   = @ - Cardinality(Dirty(s) \cap PagesOf(b)),
                       !.stats_p_allocated = @ - Cardinality(Used(s) \cap PagesOf(b))],
             b)

\* SPIFFS_mount: the struct is cleared and spiffs_obj_lu_scan counts anew.
Mounted(lu) ==
  LET flash == [obj_lu |-> lu]
  IN [obj_lu                   |-> lu,
      free_blocks              |-> Cardinality(FreeHeads(flash)),
      stats_p_allocated        |-> Cardinality(Used(flash)),
      stats_p_deleted          |-> Cardinality(Dirty(flash)),
      free_cursor_block_ix     |-> 0,
      free_cursor_obj_lu_entry |-> 0,
      cleaning                 |-> NoBlock]

-----------------------------------------------------------------------------
(* The steps. *)

\* SPIFFS_format and SPIFFS_mount
Init ==
  /\ fs = Mounted([p \in Page |-> FREE])
  /\ aborted = FALSE

\* spiffs_page_allocate_data, spiffs_object_create, the new index page of
\* spiffs_object_append: find a free entry and write the id there.
Allocate(id) ==
  /\ fs.cleaning = NoBlock
  /\ ~Refused(fs)
  /\ \E p \in FirstFree(Gate(fs)) : fs' = Occupy(Gate(fs), p, id)
  /\ UNCHANGED aborted

\* spiffs_page_move: the copy is written before the original is deleted.
Move(p) ==
  /\ ~Refused(fs)
  /\ \E q \in FirstFree(Gate(fs)) :
       fs' = Discard(Occupy(Gate(fs), q, fs.obj_lu[p]), p)
  /\ UNCHANGED aborted

\* Either of them refused by spiffs_obj_lu_find_free; the quick collection it
\* tried may have erased a block all the same.
Refuse ==
  /\ Refused(fs)
  /\ fs' = Gate(fs)
  /\ UNCHANGED aborted

\* spiffs_page_delete, outside a clean run
Delete(p) ==
  /\ fs.cleaning = NoBlock
  /\ fs' = Discard(fs, p)
  /\ UNCHANGED aborted

\* SPIFFS_gc_quick
QuickCollect(max_free) ==
  /\ fs.cleaning = NoBlock
  /\ fs' = GcQuick(fs, max_free)
  /\ UNCHANGED aborted

\* One turn of the loop of spiffs_gc_check: clean a candidate and erase it ...
CleanStart(b) ==
  /\ fs.cleaning = NoBlock
  /\ b \in GcCandidates(fs)
  /\ fs' = CleanEntry(fs, b)
  /\ UNCHANGED aborted

CleanFinish ==
  /\ fs.cleaning # NoBlock
  /\ PagesOf(fs.cleaning) \cap Used(fs) = {}
  /\ fs' = EraseCleaned(fs, fs.cleaning)
  /\ UNCHANGED aborted

\* ... or give up: no free page was found, or no index page for a data page.
CleanAbort ==
  /\ fs.cleaning # NoBlock
  /\ fs' = [fs EXCEPT !.cleaning = NoBlock]
  /\ aborted' = TRUE

Remount ==
  /\ fs.cleaning = NoBlock
  /\ fs' = Mounted(fs.obj_lu)
  /\ UNCHANGED aborted

Next ==
  \/ \E id \in LuIds : Allocate(id)
  \/ \E p \in Used(fs) : Move(p)
  \/ \E p \in Used(fs) : Delete(p)
  \/ Refuse
  \/ \E m \in 0..MaxFreePages : QuickCollect(m)
  \/ \E b \in Block : CleanStart(b)
  \/ CleanFinish
  \/ CleanAbort
  \/ Remount

Spec == Init /\ [][Next]_vars

-----------------------------------------------------------------------------
(* Properties. *)

\* The fields have their types.
TypeOK == fs \in FsState /\ aborted \in BOOLEAN

\* The three counters the file system keeps in memory agree with the lookup
\* tables on flash: gc_check, gc_quick and find_free decide from the counters
\* alone, and only a mount ever counts again.
CountersOf(s) ==
  /\ s.free_blocks = Cardinality(FreeHeads(s))
  /\ s.stats_p_allocated = Cardinality(Used(s))
  /\ s.stats_p_deleted = Cardinality(Dirty(s))
CountersMatch == CountersOf(fs)

\* gc_find_candidate stops at the first free entry of a block: "when a free
\* entry is encountered, scan logic ensures that all following entries are free
\* also" (spiffs_gc.c:284).
FreeSuffixOf(s) ==
  \A b \in Block : \A d, e \in Entry :
     d < e /\ s.obj_lu[<<b, d>>] = FREE => s.obj_lu[<<b, e>>] = FREE
FreeSuffix == FreeSuffixOf(fs)

\* free_blocks is the number of blocks that are wholly free, although the code
\* only ever looks at the first entry of a block.
FreeBlocksWhole ==
  fs.free_blocks = Cardinality({b \in Block : PagesOf(b) \subseteq FreePages(fs)})

\* As long as every clean run succeeds, a whole free block is left whenever none
\* is under way, whatever was allocated, moved, collected or remounted: the room
\* the next clean run moves into.
SpareBlock == aborted \/ fs.cleaning # NoBlock \/ fs.free_blocks >= 1

\* The inductive invariant.  A search from the cursor leaves no gap behind it:
\* what the cursor has passed in its block is taken and what follows is free; the
\* cursor stands in a block being cleaned only on a live page, so that block is
\* never erased under it; and a block being cleaned does not count as free.
CursorOf(s) ==
  LET c == s.free_cursor_block_ix  e == s.free_cursor_obj_lu_entry
  IN /\ 0 < e /\ e < EntriesPerBlock - 1 =>
          /\ s.obj_lu[<<c, e>>] # FREE
          /\ \A d \in Entry : d > e => s.obj_lu[<<c, d>>] = FREE
     /\ s.cleaning = c => s.obj_lu[<<c, e>>] \in LuIds
CleanedHeadOf(s) ==
  s.cleaning # NoBlock => s.obj_lu[<<s.cleaning, 0>>] # FREE

SoundState(s) ==
  /\ s \in FsState
  /\ CountersOf(s)
  /\ FreeSuffixOf(s)
  /\ CursorOf(s)
  /\ CleanedHeadOf(s)

IInv == SoundState(fs) /\ aborted \in BOOLEAN /\ SpareBlock
=============================================================================
