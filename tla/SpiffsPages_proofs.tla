------------------------ MODULE SpiffsPages_proofs ------------------------
(***************************************************************************)
(* Proofs that the page accounting of SPIFFS is sound for every geometry,  *)
(* as long as SPIFFS_gc_quick is only called with max_free_pages = 0.      *)
(***************************************************************************)
EXTENDS SpiffsPages, NatFacts, FiniteSetTheorems, TLAPS

-----------------------------------------------------------------------------
(* Finiteness and cardinalities. *)

\* Every set of blocks, and every set of pages, is finite.
LEMMA FiniteFlash ==
  /\ IsFiniteSet(Block)
  /\ \A B \in SUBSET Block : IsFiniteSet(B)
  /\ \A S \in SUBSET Page : IsFiniteSet(S)
<1>1. IsFiniteSet(Block) /\ IsFiniteSet(Entry)
  BY FS_Interval, GeometryAssumption, SMT DEF Block, Entry
<1>2. IsFiniteSet(Page)
  BY <1>1, FS_Product DEF Page
<1> QED
  BY <1>1, <1>2, FS_Subset

-----------------------------------------------------------------------------
(* Erasing a block. *)

\* Erasing a block whose first entry is taken, with the page counters reduced by
\* what the block held, keeps counters and lookup tables in agreement.
LEMMA EraseSound ==
  ASSUME NEW s \in FsState, CountersOf(s), FreeSuffixOf(s),
         NEW b \in Block, s.obj_lu[<<b, 0>>] # FREE
  PROVE  LET t == EraseCleaned(s, b)
         IN /\ t \in FsState /\ CountersOf(t) /\ FreeSuffixOf(t)
            /\ t.free_blocks = s.free_blocks + 1
<1> DEFINE t == EraseCleaned(s, b)
           lu == [p \in Page |-> IF p[1] = b THEN FREE ELSE s.obj_lu[p]]
           dele == Cardinality(Dirty(s) \cap PagesOf(b))
           allo == Cardinality(Used(s) \cap PagesOf(b))
<1>1. t = [[s EXCEPT !.cleaning = NoBlock, !.stats_p_deleted = @ - dele,
                     !.stats_p_allocated = @ - allo]
             EXCEPT !.obj_lu = lu, !.free_blocks = @ + 1]
  BY DEF EraseCleaned, EraseBlock, FsState
<1>2. /\ lu \in [Page -> LuIds \cup {FREE, DELETED}]
      /\ \A p \in Page : lu[p] = IF p[1] = b THEN FREE ELSE s.obj_lu[p]
  BY DEF FsState
<1>3. IsFiniteSet(Used(s)) /\ IsFiniteSet(Dirty(s)) /\ IsFiniteSet(FreeHeads(s))
  BY FiniteFlash DEF Used, Dirty, FreeHeads
<1>4. dele \in Int /\ allo \in Int
  <2>1. IsFiniteSet(Dirty(s) \cap PagesOf(b)) /\ IsFiniteSet(Used(s) \cap PagesOf(b))
    BY <1>3, FS_Intersection
  <2> QED
    BY <2>1, FS_CardinalityType
<1> DEFINE u == [s EXCEPT !.cleaning = NoBlock, !.stats_p_deleted = @ - dele,
                          !.stats_p_allocated = @ - allo]
<1> HIDE DEF lu, dele, allo
<1>5. /\ t.obj_lu = lu
      /\ t.free_blocks = s.free_blocks + 1
      /\ t.stats_p_deleted = s.stats_p_deleted - dele
      /\ t.stats_p_allocated = s.stats_p_allocated - allo
      /\ t \in FsState
  <2>1. /\ s.stats_p_deleted - dele \in Int
        /\ s.stats_p_allocated - allo \in Int
        /\ s.free_blocks + 1 \in Int
    BY <1>4 DEF FsState
  <2>2. u \in FsState
    BY <2>1, Zenon DEF FsState
  <2>3. /\ u.free_blocks = s.free_blocks
        /\ u.stats_p_deleted = s.stats_p_deleted - dele
        /\ u.stats_p_allocated = s.stats_p_allocated - allo
    BY DEF FsState
  <2>4. t = [u EXCEPT !.obj_lu = lu, !.free_blocks = s.free_blocks + 1]
    BY <1>1, <2>3, Zenon
  <2> HIDE DEF u, t
  <2>5. t \in FsState
    BY <2>2, <2>1, <2>4, <1>2, Zenon DEF FsState
  <2> QED
    BY <2>2, <2>3, <2>4, <2>5 DEF FsState
<1> HIDE DEF t
<1>6. /\ Used(t) = Used(s) \ PagesOf(b)
      /\ Dirty(t) = Dirty(s) \ PagesOf(b)
  BY <1>5, <1>2, MarkerAssumption DEF Used, Dirty, PagesOf, Page
<1>7. /\ FreeHeads(t) = FreeHeads(s) \cup {b}
      /\ b \notin FreeHeads(s)
  BY <1>5, <1>2, GeometryAssumption DEF FreeHeads, Page, Entry
<1>8. CountersOf(t)
  <2>1. Cardinality(FreeHeads(t)) = Cardinality(FreeHeads(s)) + 1
    BY <1>3, <1>7, FS_AddElement
  <2>2. Cardinality(Used(t)) = Cardinality(Used(s)) - allo
    BY <1>3, <1>6, FS_Difference DEF allo
  <2>3. Cardinality(Dirty(t)) = Cardinality(Dirty(s)) - dele
    BY <1>3, <1>6, FS_Difference DEF dele
  <2> QED
    BY <1>5, <2>1, <2>2, <2>3 DEF CountersOf
<1>9. FreeSuffixOf(t)
  BY <1>5, <1>2 DEF FreeSuffixOf, Page
<1> QED
  BY <1>5, <1>8, <1>9 DEF t

-----------------------------------------------------------------------------
(* Taking and discarding a page. *)

\* Every entry before the first free page of its block is taken: either the search
\* passed it, or the cursor did earlier.
LEMMA FirstFreeEndsPrefix ==
  ASSUME NEW s, SoundState(s), NEW p \in FirstFree(s), NEW d \in Entry, d < p[2]
  PROVE  s.obj_lu[<<p[1], d>>] # FREE
<1> USE GeometryAssumption DEF Block, Entry
<1> SUFFICES ASSUME s.obj_lu[<<p[1], d>>] = FREE PROVE FALSE
  OBVIOUS
<1>1. /\ p \in Page /\ p[1] \in Block /\ p[2] \in Entry /\ p = <<p[1], p[2]>>
      /\ s.obj_lu[p] = FREE
  BY DEF FirstFree, FreePages, Page
<1>2. s \in FsState
  BY DEF SoundState
<1> DEFINE q == <<p[1], d>>
           c == s.free_cursor_block_ix
           e == s.free_cursor_obj_lu_entry
<1>3. q \in FreePages(s) /\ q # p /\ q[1] = p[1] /\ q[2] = d
  BY <1>1 DEF FreePages, Page
<1>4. Before(s, p, q)
  BY <1>3 DEF FirstFree
<1>5. c \in Block /\ e \in Entry
  BY <1>2 DEF FsState
<1> HIDE DEF q
<1>6. p[1] = StartBlock(s) /\ d < StartEntry(s)
  <2>1. Round(s, p) < Round(s, q)
    BY <1>1, <1>3, <1>4 DEF Before
  <2>2. p[1] = StartBlock(s)
    <3> SUFFICES ASSUME p[1] # StartBlock(s) PROVE FALSE
      OBVIOUS
    <3>1. Round(s, q) = Round(s, p)
      BY <1>3, Zenon DEF Round
    <3>2. Round(s, p) \in Int
      BY <1>1, <1>5 DEF Round, StartBlock
    <3> QED
      BY <2>1, <3>1, <3>2
  <2>3. ~(d >= StartEntry(s))
    <3> SUFFICES ASSUME d >= StartEntry(s) PROVE FALSE
      OBVIOUS
    <3>1. Round(s, q) = 0 /\ (Round(s, p) = 0 \/ Round(s, p) = NumBlocks)
      BY <2>2, <1>3 DEF Round
    <3> QED
      BY <2>1, <3>1
  <2> QED
    BY <2>2, <2>3, <1>5 DEF StartEntry
<1>7. /\ 0 < e /\ e < EntriesPerBlock - 1 /\ d < e /\ p[1] = c
  BY <1>5, <1>6 DEF StartEntry, StartBlock
<1>8. s.obj_lu[<<c, e>>] # FREE
  BY <1>7 DEF SoundState, CursorOf
<1>9. s.obj_lu[<<c, e>>] = FREE
  BY <1>5, <1>7 DEF SoundState, FreeSuffixOf
<1> QED
  BY <1>8, <1>9

\* Taking the page the search found keeps the state sound.
LEMMA OccupySound ==
  ASSUME NEW s, SoundState(s), NEW p \in FirstFree(s), NEW id \in LuIds
  PROVE  LET t == Occupy(s, p, id)
         IN /\ SoundState(t)
            /\ t.free_blocks >= s.free_blocks - 1
            /\ t.cleaning = s.cleaning
            /\ t.free_cursor_block_ix = p[1] /\ t.free_cursor_obj_lu_entry = p[2]
            /\ t.obj_lu = [s.obj_lu EXCEPT ![p] = id]
<1> DEFINE lu == [s.obj_lu EXCEPT ![p] = id]
           fb == IF p[2] = 0 THEN s.free_blocks - 1 ELSE s.free_blocks
           t == Occupy(s, p, id)
<1>1. /\ p \in Page /\ p[1] \in Block /\ p[2] \in Entry /\ p = <<p[1], p[2]>>
      /\ s.obj_lu[p] = FREE
  BY DEF FirstFree, FreePages, Page
<1>2. s \in FsState
  BY DEF SoundState
<1>3. /\ fb \in Int /\ fb >= s.free_blocks - 1 /\ s.stats_p_allocated + 1 \in Int
      /\ lu \in [Page -> LuIds \cup {FREE, DELETED}]
  BY <1>2, <1>1 DEF FsState
<1>4. t = [s EXCEPT !.obj_lu = lu, !.free_blocks = fb,
                    !.stats_p_allocated = s.stats_p_allocated + 1,
                    !.free_cursor_block_ix = p[1],
                    !.free_cursor_obj_lu_entry = p[2]]
  BY Zenon DEF Occupy
<1>5. \A x \in Page : lu[x] = IF x = p THEN id ELSE s.obj_lu[x]
  BY <1>2 DEF FsState
<1> HIDE DEF lu, fb, t
<1>6. t \in FsState
  BY <1>1, <1>2, <1>3, <1>4, Zenon DEF FsState
<1>7. /\ t.obj_lu = lu /\ t.free_blocks = fb
      /\ t.stats_p_allocated = s.stats_p_allocated + 1
      /\ t.stats_p_deleted = s.stats_p_deleted
      /\ t.free_cursor_block_ix = p[1] /\ t.free_cursor_obj_lu_entry = p[2]
      /\ t.cleaning = s.cleaning
  BY <1>2, <1>4 DEF FsState
<1>8. CountersOf(t)
  <2>1. Used(t) = Used(s) \cup {p} /\ p \notin Used(s) /\ Dirty(t) = Dirty(s)
    BY <1>1, <1>5, <1>7, MarkerAssumption DEF Used, Dirty
  <2>2. Cardinality(Used(t)) = Cardinality(Used(s)) + 1
    <3>1. IsFiniteSet(Used(s))
      BY FiniteFlash DEF Used
    <3> QED
      BY <2>1, <3>1, FS_AddElement
  <2>3. Cardinality(FreeHeads(t)) = IF p[2] = 0 THEN Cardinality(FreeHeads(s)) - 1
                                     ELSE Cardinality(FreeHeads(s))
    <3>0. IsFiniteSet(FreeHeads(s))
      BY FiniteFlash DEF FreeHeads
    <3>1. CASE p[2] = 0
      <4>1. FreeHeads(t) = FreeHeads(s) \ {p[1]} /\ p[1] \in FreeHeads(s)
        BY <1>1, <1>5, <1>7, <3>1, GeometryAssumption, MarkerAssumption
           DEF FreeHeads, Page, Entry
      <4> QED
        BY <4>1, <3>0, <3>1, FS_RemoveElement
    <3>2. CASE p[2] # 0
      <4>1. FreeHeads(t) = FreeHeads(s)
        BY <1>1, <1>5, <1>7, <3>2, GeometryAssumption DEF FreeHeads, Page, Entry
      <4> QED
        BY <4>1, <3>2
    <3> QED
      BY <3>1, <3>2
  <2> QED
    BY <1>7, <2>1, <2>2, <2>3 DEF CountersOf, SoundState, fb
<1>9. FreeSuffixOf(t)
  <2> SUFFICES ASSUME NEW b \in Block, NEW d \in Entry, NEW e \in Entry, d < e,
                      lu[<<b, d>>] = FREE
               PROVE  lu[<<b, e>>] = FREE
    BY <1>7 DEF FreeSuffixOf
  <2>1. <<b, d>> \in Page /\ <<b, e>> \in Page
    BY DEF Page
  <2>2. s.obj_lu[<<b, d>>] = FREE /\ s.obj_lu[<<b, e>>] = FREE
    BY <2>1, <1>5, MarkerAssumption DEF SoundState, FreeSuffixOf
  <2>3. <<b, e>> # p
    BY <2>2, <1>1, FirstFreeEndsPrefix
  <2> QED
    BY <2>1, <2>2, <2>3, <1>5
<1>10. CursorOf(t)
  <2>1. t.obj_lu[<<p[1], p[2]>>] = id
    BY <1>1, <1>5, <1>7
  <2>2. \A d \in Entry : d > p[2] => t.obj_lu[<<p[1], d>>] = FREE
    BY <1>1, <1>5, <1>7 DEF SoundState, FreeSuffixOf, Page, Entry
  <2> QED
    BY <2>1, <2>2, <1>7, MarkerAssumption DEF CursorOf
<1>11. CleanedHeadOf(t)
  <2> SUFFICES ASSUME t.cleaning # NoBlock PROVE t.obj_lu[<<t.cleaning, 0>>] # FREE
    BY DEF CleanedHeadOf
  <2>1. <<t.cleaning, 0>> \in Page
    BY <1>6, GeometryAssumption DEF FsState, Page, Entry
  <2> QED
    BY <2>1, <1>5, <1>7, MarkerAssumption DEF SoundState, CleanedHeadOf
<1> QED
  BY <1>3, <1>6, <1>7, <1>8, <1>9, <1>10, <1>11 DEF SoundState, lu, t

\* Discarding a live page keeps the state sound; while a block is cleaned, it must
\* not be the page under the cursor.
LEMMA DiscardSound ==
  ASSUME NEW s, SoundState(s), NEW p \in Used(s),
         s.cleaning # NoBlock =>
           p # <<s.free_cursor_block_ix, s.free_cursor_obj_lu_entry>>
  PROVE  LET t == Discard(s, p)
         IN /\ SoundState(t)
            /\ t.free_blocks = s.free_blocks
            /\ t.cleaning = s.cleaning
<1> DEFINE lu == [s.obj_lu EXCEPT ![p] = DELETED]
           t == Discard(s, p)
<1>1. p \in Page /\ p = <<p[1], p[2]>> /\ s.obj_lu[p] \in LuIds
  BY DEF Used, Page
<1>2. s \in FsState
  BY DEF SoundState
<1>3. /\ s.stats_p_allocated - 1 \in Int /\ s.stats_p_deleted + 1 \in Int
      /\ lu \in [Page -> LuIds \cup {FREE, DELETED}]
  BY <1>2, <1>1 DEF FsState
<1>4. t = [s EXCEPT !.obj_lu = lu,
                    !.stats_p_deleted = s.stats_p_deleted + 1,
                    !.stats_p_allocated = s.stats_p_allocated - 1]
  BY Zenon DEF Discard
<1>5. \A x \in Page : lu[x] = IF x = p THEN DELETED ELSE s.obj_lu[x]
  BY <1>2 DEF FsState
<1> HIDE DEF lu, t
<1>6. t \in FsState
  BY <1>2, <1>3, <1>4, Zenon DEF FsState
<1>7. /\ t.obj_lu = lu /\ t.free_blocks = s.free_blocks
      /\ t.stats_p_allocated = s.stats_p_allocated - 1
      /\ t.stats_p_deleted = s.stats_p_deleted + 1
      /\ t.free_cursor_block_ix = s.free_cursor_block_ix
      /\ t.free_cursor_obj_lu_entry = s.free_cursor_obj_lu_entry
      /\ t.cleaning = s.cleaning
  BY <1>2, <1>4 DEF FsState
<1>8. \A x \in Page : (t.obj_lu[x] = FREE) <=> (s.obj_lu[x] = FREE)
  BY <1>1, <1>5, <1>7, MarkerAssumption
<1>9. CountersOf(t)
  <2>1. /\ Used(t) = Used(s) \ {p} /\ Dirty(t) = Dirty(s) \cup {p} /\ p \notin Dirty(s)
        /\ FreeHeads(t) = FreeHeads(s)
    BY <1>1, <1>5, <1>7, <1>8, MarkerAssumption, GeometryAssumption
       DEF Used, Dirty, FreeHeads, Page, Entry
  <2>2. IsFiniteSet(Used(s)) /\ IsFiniteSet(Dirty(s))
    BY FiniteFlash DEF Used, Dirty
  <2>3. Cardinality(Used(t)) = Cardinality(Used(s)) - 1
    BY <2>1, <2>2, FS_RemoveElement
  <2>4. Cardinality(Dirty(t)) = Cardinality(Dirty(s)) + 1
    BY <2>1, <2>2, FS_AddElement
  <2> QED
    BY <1>7, <2>1, <2>3, <2>4 DEF CountersOf, SoundState
<1>10. FreeSuffixOf(t)
  BY <1>8 DEF FreeSuffixOf, SoundState, Page
<1>11. CursorOf(t)
  <2> DEFINE c == s.free_cursor_block_ix
             e == s.free_cursor_obj_lu_entry
  <2>1. c \in Block /\ e \in Entry /\ \A d \in Entry : <<c, d>> \in Page
    BY <1>2 DEF FsState, Page
  <2>2. CursorOf(s)
    BY DEF SoundState
  <2>3. /\ t.free_cursor_block_ix = c /\ t.free_cursor_obj_lu_entry = e
        /\ t.cleaning = s.cleaning /\ t.obj_lu = lu
    BY <1>7
  <2> HIDE DEF c, e
  <2>4. 0 < e /\ e < EntriesPerBlock - 1 =>
           lu[<<c, e>>] # FREE /\ \A d \in Entry : d > e => lu[<<c, d>>] = FREE
    BY <2>1, <2>2, <2>3, <1>8 DEF CursorOf, c, e
  <2>5. s.cleaning = c => lu[<<c, e>>] \in LuIds
    <3> SUFFICES ASSUME s.cleaning = c PROVE lu[<<c, e>>] \in LuIds
      OBVIOUS
    <3>1. c # NoBlock
      BY <2>1, MarkerAssumption DEF Block
    <3> QED
      BY <3>1, <2>1, <2>2, <1>5 DEF CursorOf, c, e
  <2> QED
    BY <2>3, <2>4, <2>5 DEF CursorOf
<1>12. CleanedHeadOf(t)
  <2> SUFFICES ASSUME t.cleaning # NoBlock PROVE t.obj_lu[<<t.cleaning, 0>>] # FREE
    BY DEF CleanedHeadOf
  <2>1. <<t.cleaning, 0>> \in Page
    BY <1>6, GeometryAssumption DEF FsState, Page, Entry
  <2> QED
    BY <2>1, <1>7, <1>8 DEF SoundState, CleanedHeadOf
<1> QED
  BY <1>6, <1>7, <1>9, <1>10, <1>11, <1>12 DEF SoundState, t

-----------------------------------------------------------------------------
(* The two collectors. *)

\* A block without a live page, under which the cursor does not stand in the
\* middle, can be erased and leaves a sound state.
LEMMA EraseKeepsSound ==
  ASSUME NEW s, SoundState(s), NEW b \in Block,
         s.obj_lu[<<b, 0>>] # FREE,
         Used(s) \cap PagesOf(b) = {},
         s.free_cursor_block_ix = b =>
           ~(0 < s.free_cursor_obj_lu_entry /\ s.free_cursor_obj_lu_entry < EntriesPerBlock - 1)
  PROVE  LET t == EraseCleaned(s, b)
         IN /\ SoundState(t)
            /\ t.free_blocks = s.free_blocks + 1
            /\ t.cleaning = NoBlock
            /\ \A p \in Used(s) : p \in Used(t) /\ t.obj_lu[p] = s.obj_lu[p]
<1> DEFINE t == EraseCleaned(s, b)
           c == s.free_cursor_block_ix
           e == s.free_cursor_obj_lu_entry
<1>1. s \in FsState /\ CountersOf(s) /\ FreeSuffixOf(s) /\ CursorOf(s)
  BY DEF SoundState
<1>2. t \in FsState /\ CountersOf(t) /\ FreeSuffixOf(t) /\ t.free_blocks = s.free_blocks + 1
  BY <1>1, EraseSound
<1>3. /\ t.cleaning = NoBlock
      /\ t.free_cursor_block_ix = c
      /\ t.free_cursor_obj_lu_entry = e
      /\ t.obj_lu = [p \in Page |-> IF p[1] = b THEN FREE ELSE s.obj_lu[p]]
  BY <1>1 DEF EraseCleaned, EraseBlock, FsState
<1>4. \A p \in Page : t.obj_lu[p] = IF p[1] = b THEN FREE ELSE s.obj_lu[p]
  BY <1>3
<1> HIDE DEF t
<1>5. \A p \in Used(s) : p \in Used(t) /\ t.obj_lu[p] = s.obj_lu[p]
  BY <1>4 DEF Used, PagesOf, Page
<1>6. CursorOf(t)
  <2>1. c \in Block /\ e \in Entry /\ NoBlock # c
    BY <1>1, MarkerAssumption DEF FsState, Block
  <2>2. \A d \in Entry : <<c, d>> \in Page
    BY <2>1 DEF Page
  <2>3. 0 < e /\ e < EntriesPerBlock - 1 =>
          /\ t.obj_lu[<<c, e>>] # FREE
          /\ \A d \in Entry : d > e => t.obj_lu[<<c, d>>] = FREE
    BY <1>1, <1>4, <2>1, <2>2 DEF CursorOf
  <2> QED
    BY <1>3, <2>1, <2>3 DEF CursorOf
<1>7. CleanedHeadOf(t)
  BY <1>3 DEF CleanedHeadOf
<1> QED
  BY <1>2, <1>3, <1>5, <1>6, <1>7 DEF SoundState, t

\* The quick collection with max_free_pages = 0 either does nothing or erases one
\* block without a live or a free page, as the full one does.
LEMMA GcQuickSound ==
  ASSUME NEW s, SoundState(s), s.cleaning = NoBlock
  PROVE  LET t == GcQuick(s, 0)
         IN /\ SoundState(t)
            /\ t.free_blocks >= s.free_blocks
            /\ t.cleaning = NoBlock
            /\ \A p \in Used(s) : p \in Used(t) /\ t.obj_lu[p] = s.obj_lu[p]
<1>1. s \in FsState
  BY DEF SoundState
<1>2. CASE QuickVictims(s, 0) = {}
  <2>1. GcQuick(s, 0) = s
    BY <1>2 DEF GcQuick
  <2> QED
    BY <1>1, <2>1 DEF FsState
<1>3. CASE QuickVictims(s, 0) # {}
  <2> DEFINE b == CHOOSE x \in QuickVictims(s, 0) : \A y \in QuickVictims(s, 0) : x <= y
             dele == s.stats_p_deleted - Cardinality(Dirty(s) \cap PagesOf(b))
             allo == s.stats_p_allocated - Cardinality(Used(s) \cap PagesOf(b))
  <2>1. b \in QuickVictims(s, 0)
    <3>1. QuickVictims(s, 0) \in SUBSET Nat
      BY GeometryAssumption DEF QuickVictims, Block
    <3> QED
      BY <3>1, <1>3, Least
  <2>2. GcQuick(s, 0) = EraseBlock([s EXCEPT !.stats_p_deleted = dele], b)
    BY <1>3, Zenon DEF GcQuick
  <2> HIDE DEF b
  <2>3. b \in Block /\ Used(s) \cap PagesOf(b) = {}
    BY <2>1 DEF QuickVictims
  <2>4. \A e \in Entry : s.obj_lu[<<b, e>>] # FREE
    <3>1. IsFiniteSet(FreePages(s) \cap PagesOf(b))
      BY FiniteFlash DEF FreePages
    <3>2. Cardinality(FreePages(s) \cap PagesOf(b)) \in Nat
      BY <3>1, FS_CardinalityType
    <3>3. Cardinality(FreePages(s) \cap PagesOf(b)) <= 0
      BY <2>1 DEF QuickVictims
    <3>4. FreePages(s) \cap PagesOf(b) = {}
      BY <3>1, <3>2, <3>3, FS_EmptySet
    <3> QED
      BY <2>3, <3>4 DEF FreePages, PagesOf, Page
  <2>5. GcQuick(s, 0) = EraseCleaned(s, b)
    <3>1. allo = s.stats_p_allocated
      BY <2>3, <1>1, FS_EmptySet DEF FsState
    <3>2. [s EXCEPT !.stats_p_deleted = dele] =
          [s EXCEPT !.cleaning = NoBlock, !.stats_p_deleted = dele, !.stats_p_allocated = allo]
      BY <3>1, <1>1 DEF FsState
    <3> HIDE DEF dele, allo
    <3>3. EraseCleaned(s, b) = EraseBlock([s EXCEPT !.cleaning = NoBlock,
                 !.stats_p_deleted = dele, !.stats_p_allocated = allo], b)
      BY Zenon DEF EraseCleaned, dele, allo
    <3> QED
      BY <2>2, <3>2, <3>3
  <2>6. s.obj_lu[<<b, 0>>] # FREE
    BY <2>4, GeometryAssumption DEF Entry
  <2>7. s.free_cursor_block_ix = b =>
          ~(0 < s.free_cursor_obj_lu_entry /\ s.free_cursor_obj_lu_entry < EntriesPerBlock - 1)
    <3>1. CursorOf(s) /\ EntriesPerBlock - 1 \in Entry
      BY GeometryAssumption DEF SoundState, Entry
    <3> QED
      BY <3>1, <2>4, <1>1 DEF CursorOf, FsState, Entry
  <2>8. s.free_blocks \in Int
    BY <1>1 DEF FsState
  <2> QED
    BY <2>3, <2>5, <2>6, <2>7, <2>8, EraseKeepsSound
<1> QED
  BY <1>2, <1>3

\* What find_free does before it searches keeps the state sound and the live pages
\* where they are, and leaves two free blocks unless it refuses.
LEMMA GateSound ==
  ASSUME NEW s, SoundState(s)
  PROVE  /\ SoundState(Gate(s))
         /\ Gate(s).cleaning = s.cleaning
         /\ Gate(s).free_blocks >= s.free_blocks
         /\ s.cleaning = NoBlock /\ ~Refused(s) => Gate(s).free_blocks >= 2
         /\ \A p \in Used(s) : p \in Used(Gate(s)) /\ Gate(s).obj_lu[p] = s.obj_lu[p]
<1>1. s.free_blocks \in Int
  BY DEF SoundState, FsState
<1>2. CASE s.cleaning = NoBlock /\ s.free_blocks < 2
  <2>1. Gate(s) = GcQuick(s, 0)
    BY <1>2 DEF Gate
  <2>2. GcQuick(s, 0).free_blocks \in Int
    BY <1>2, GcQuickSound DEF SoundState, FsState
  <2> QED
    BY <1>2, <2>1, <2>2, GcQuickSound DEF Refused
<1>3. CASE ~(s.cleaning = NoBlock /\ s.free_blocks < 2)
  <2>1. Gate(s) = s
    BY <1>3, Zenon DEF Gate
  <2> QED
    BY <1>1, <1>3, <2>1 DEF Refused
<1> QED
  BY <1>2, <1>3

\* A clean run starts on a candidate in a sound state.
LEMMA CleanEntrySound ==
  ASSUME NEW s, SoundState(s), s.cleaning = NoBlock, NEW b \in GcCandidates(s)
  PROVE  /\ SoundState(CleanEntry(s, b))
         /\ CleanEntry(s, b).cleaning # NoBlock
<1> USE GeometryAssumption DEF Block, Entry
<1> DEFINE t == CleanEntry(s, b)
<1>1. s \in FsState /\ b \in Block /\ b # NoBlock
  BY MarkerAssumption DEF SoundState, GcCandidates
<1>2. /\ t.obj_lu = s.obj_lu /\ t.free_blocks = s.free_blocks
      /\ t.stats_p_allocated = s.stats_p_allocated
      /\ t.stats_p_deleted = s.stats_p_deleted
      /\ t.cleaning = b
      /\ t.free_cursor_block_ix # b
      /\ \/ /\ t.free_cursor_block_ix = s.free_cursor_block_ix
            /\ t.free_cursor_obj_lu_entry = s.free_cursor_obj_lu_entry
         \/ t.free_cursor_obj_lu_entry = 0
  BY <1>1 DEF CleanEntry, FsState
<1>3. t \in FsState
  <2>1. CASE s.free_cursor_block_ix = b
    <3> DEFINE nx == IF b = NumBlocks - 1 THEN 0 ELSE b + 1
    <3>1. nx \in Block /\ 0 \in Entry
      BY <1>1
    <3>2. t = [s EXCEPT !.cleaning = b, !.free_cursor_block_ix = nx,
                        !.free_cursor_obj_lu_entry = 0]
      BY <2>1, Zenon DEF CleanEntry
    <3> HIDE DEF nx, t
    <3> QED
      BY <1>1, <3>1, <3>2, Zenon DEF FsState
  <2>2. CASE s.free_cursor_block_ix # b
    BY <1>1, <2>2 DEF CleanEntry, FsState
  <2> QED
    BY <2>1, <2>2
<1> HIDE DEF t
<1>4. CountersOf(t)
  BY <1>2 DEF SoundState, CountersOf, Used, Dirty, FreeHeads
<1>5. FreeSuffixOf(t)
  BY <1>2 DEF SoundState, FreeSuffixOf
<1>6. CursorOf(t)
  BY <1>2 DEF SoundState, CursorOf
<1>7. CleanedHeadOf(t)
  <2>1. PICK p \in PagesOf(b) : /\ s.obj_lu[p] = DELETED
                                /\ \A q \in PagesOf(b) : q[2] < p[2] => s.obj_lu[q] # FREE
    BY DEF GcCandidates
  <2>2. <<b, 0>> \in PagesOf(b) /\ p = <<b, p[2]>> /\ p[2] \in Entry
    BY DEF PagesOf
  <2>3. s.obj_lu[<<b, 0>>] # FREE
    <3>1. CASE p[2] = 0
      BY <2>1, <2>2, <3>1, MarkerAssumption
    <3>2. CASE p[2] # 0
      BY <2>1, <2>2, <3>2
    <3> QED
      BY <3>1, <3>2
  <2> QED
    BY <1>2, <2>3 DEF CleanedHeadOf
<1> QED
  BY <1>1, <1>2, <1>3, <1>4, <1>5, <1>6, <1>7 DEF SoundState, t

\* A mount counts what is on flash.
LEMMA MountSound ==
  ASSUME NEW lu \in [Page -> LuIds \cup {FREE, DELETED}],
         \A b \in Block : \A d, e \in Entry :
            d < e /\ lu[<<b, d>>] = FREE => lu[<<b, e>>] = FREE
  PROVE  LET t == Mounted(lu)
         IN /\ SoundState(t) /\ t.cleaning = NoBlock
            /\ t.free_blocks = Cardinality({b \in Block : lu[<<b, 0>>] = FREE})
<1> DEFINE t == Mounted(lu)
           heads == {b \in Block : lu[<<b, 0>>] = FREE}
           used == {p \in Page : lu[p] \in LuIds}
           dirty == {p \in Page : lu[p] = DELETED}
<1>1. /\ t.obj_lu = lu /\ t.free_blocks = Cardinality(heads)
      /\ t.stats_p_allocated = Cardinality(used) /\ t.stats_p_deleted = Cardinality(dirty)
      /\ t.free_cursor_block_ix = 0 /\ t.free_cursor_obj_lu_entry = 0
      /\ t.cleaning = NoBlock
  BY DEF Mounted, FreeHeads, Used, Dirty
<1>2. t = [obj_lu |-> lu, free_blocks |-> Cardinality(heads),
           stats_p_allocated |-> Cardinality(used),
           stats_p_deleted |-> Cardinality(dirty),
           free_cursor_block_ix |-> 0, free_cursor_obj_lu_entry |-> 0,
           cleaning |-> NoBlock]
  BY DEF Mounted, FreeHeads, Used, Dirty
<1>3. /\ Cardinality(heads) \in Int /\ Cardinality(used) \in Int
      /\ Cardinality(dirty) \in Int
  <2>1. heads \in SUBSET Block /\ used \in SUBSET Page /\ dirty \in SUBSET Page
    OBVIOUS
  <2>2. IsFiniteSet(heads) /\ IsFiniteSet(used) /\ IsFiniteSet(dirty)
    BY <2>1, FiniteFlash
  <2> HIDE DEF heads, used, dirty
  <2> QED
    BY <2>2, FS_CardinalityType
<1>4. heads = FreeHeads(t) /\ used = Used(t) /\ dirty = Dirty(t)
  BY <1>1 DEF FreeHeads, Used, Dirty
<1>5. 0 \in Block /\ 0 \in Entry
  BY GeometryAssumption DEF Block, Entry
<1>6. NoBlock # 0
  BY <1>5, MarkerAssumption DEF Block
<1> HIDE DEF t, heads, used, dirty
<1>7. t \in FsState
  BY <1>2, <1>3, <1>5 DEF FsState
<1>8. CountersOf(t)
  BY <1>1, <1>4 DEF CountersOf
<1>9. FreeSuffixOf(t)
  BY <1>1 DEF FreeSuffixOf
<1>10. CursorOf(t) /\ CleanedHeadOf(t)
  BY <1>1, <1>6 DEF CursorOf, CleanedHeadOf
<1> QED
  BY <1>1, <1>7, <1>8, <1>9, <1>10 DEF SoundState, t, heads

-----------------------------------------------------------------------------
(* The invariant. *)

\* SPIFFS_gc_quick is only called with max_free_pages = 0.
QuickIsFull == MaxFreePages = 0

\* A formatted and mounted file system is sound and wholly free.
LEMMA InitSound == Init => IInv
<1> SUFFICES ASSUME Init PROVE IInv
  OBVIOUS
<1> DEFINE lu == [p \in Page |-> FREE]
<1>1. lu \in [Page -> LuIds \cup {FREE, DELETED}] /\ \A p \in Page : lu[p] = FREE
  OBVIOUS
<1>2. \A b \in Block : \A d \in Entry : lu[<<b, d>>] = FREE
  BY <1>1 DEF Page
<1>3. fs = Mounted(lu) /\ aborted = FALSE
  BY DEF Init
<1> HIDE DEF lu
<1>4. /\ SoundState(fs) /\ fs.cleaning = NoBlock
      /\ fs.free_blocks = Cardinality({b \in Block : lu[<<b, 0>>] = FREE})
  BY <1>1, <1>2, <1>3, MountSound
<1>5. fs.free_blocks >= 1
  <2>1. {b \in Block : lu[<<b, 0>>] = FREE} = 0..(NumBlocks - 1)
    BY <1>2, GeometryAssumption DEF Block, Entry
  <2>2. Cardinality(0..(NumBlocks - 1)) = NumBlocks
    BY FS_Interval, GeometryAssumption
  <2>3. fs.free_blocks = NumBlocks
    BY <1>4, <2>1, <2>2, Zenon
  <2> QED
    BY <2>3, GeometryAssumption
<1> QED
  BY <1>3, <1>4, <1>5 DEF IInv, SpareBlock

\* Every step keeps the inductive invariant.
LEMMA NextSound ==
  ASSUME QuickIsFull, IInv, [Next]_vars
  PROVE  IInv'
<1>1. /\ SoundState(fs) /\ aborted \in BOOLEAN /\ fs \in FsState
      /\ fs.free_blocks \in Int
      /\ fs.cleaning = NoBlock => aborted \/ fs.free_blocks >= 1
  BY DEF IInv, SoundState, FsState, SpareBlock
<1>2. fs.free_blocks >= 0
  <2>1. IsFiniteSet(FreeHeads(fs))
    BY FiniteFlash DEF FreeHeads
  <2> QED
    BY <1>1, <2>1, FS_CardinalityType DEF SoundState, CountersOf
<1> DEFINE Kept == /\ SoundState(fs') /\ aborted' \in BOOLEAN
                   /\ aborted' \/ fs'.cleaning # NoBlock \/ fs'.free_blocks >= 1
<1>3. Kept
  <2>1. ASSUME NEW id \in LuIds, Allocate(id) PROVE Kept
    <3>1. PICK p \in FirstFree(Gate(fs)) : fs' = Occupy(Gate(fs), p, id)
      BY <2>1 DEF Allocate
    <3>2. SoundState(Gate(fs)) /\ Gate(fs).free_blocks >= 2
      BY <1>1, <2>1, GateSound DEF Allocate
    <3>3. Gate(fs).free_blocks \in Int /\ fs'.free_blocks \in Int
      BY <3>1, <3>2, OccupySound DEF SoundState, FsState
    <3>4. SoundState(fs') /\ fs'.free_blocks >= Gate(fs).free_blocks - 1
      BY <3>1, <3>2, OccupySound
    <3> QED
      BY <1>1, <2>1, <3>2, <3>3, <3>4 DEF Allocate
  <2>2. ASSUME NEW p \in Used(fs), Move(p) PROVE Kept
    <3> DEFINE id == fs.obj_lu[p]
               g == Gate(fs)
    <3>1. PICK q \in FirstFree(g) : fs' = Discard(Occupy(g, q, id), p)
      BY <2>2 DEF Move
    <3> DEFINE o == Occupy(g, q, id)
    <3>2. /\ SoundState(g) /\ g.cleaning = fs.cleaning
          /\ fs.cleaning = NoBlock => g.free_blocks >= 2
          /\ p \in Used(g) /\ g.obj_lu[p] = id /\ id \in LuIds
      BY <1>1, <2>2, GateSound DEF Move, Used
    <3> HIDE DEF id, g
    <3>3. /\ SoundState(o) /\ o.free_blocks >= g.free_blocks - 1
          /\ o.cleaning = g.cleaning
          /\ o.free_cursor_block_ix = q[1] /\ o.free_cursor_obj_lu_entry = q[2]
          /\ o.obj_lu = [g.obj_lu EXCEPT ![q] = id]
      BY <3>2, OccupySound
    <3>4. q \in Page /\ p \in Page /\ q = <<q[1], q[2]>> /\ p # q
      BY <3>2, MarkerAssumption DEF FirstFree, FreePages, Used, Page
    <3>5. p \in Used(o)
      BY <3>2, <3>3, <3>4 DEF Used, SoundState, FsState
    <3> HIDE DEF o
    <3>6. /\ SoundState(Discard(o, p)) /\ Discard(o, p).free_blocks = o.free_blocks
          /\ Discard(o, p).cleaning = o.cleaning
      BY <3>3, <3>4, <3>5, DiscardSound
    <3>7. fs' = Discard(o, p)
      BY <3>1 DEF o
    <3>8. g.free_blocks \in Int /\ o.free_blocks \in Int
      BY <3>2, <3>3 DEF SoundState, FsState
    <3> QED
      BY <1>1, <2>2, <3>2, <3>3, <3>6, <3>7, <3>8 DEF Move
  <2>3. ASSUME NEW p \in Used(fs), Delete(p) PROVE Kept
    BY <1>1, <2>3, DiscardSound DEF Delete
  <2>4. ASSUME Refuse PROVE Kept
    <3>1. Gate(fs).free_blocks \in Int
      BY <1>1, GateSound DEF SoundState, FsState
    <3> QED
      BY <1>1, <2>4, <3>1, GateSound DEF Refuse, Refused
  <2>5. ASSUME NEW m \in 0..MaxFreePages, QuickCollect(m) PROVE Kept
    <3>1. m = 0
      BY QuickIsFull DEF QuickIsFull
    <3>2. GcQuick(fs, 0).free_blocks \in Int
      BY <1>1, <2>5, GcQuickSound DEF QuickCollect, SoundState, FsState
    <3> QED
      BY <1>1, <2>5, <3>1, <3>2, GcQuickSound DEF QuickCollect
  <2>6. ASSUME NEW b \in Block, CleanStart(b) PROVE Kept
    BY <1>1, <2>6, CleanEntrySound DEF CleanStart
  <2>7. ASSUME CleanFinish PROVE Kept
    <3> DEFINE b == fs.cleaning
    <3>1. /\ b \in Block /\ b # NoBlock /\ Used(fs) \cap PagesOf(b) = {}
          /\ fs' = EraseCleaned(fs, b)
      BY <1>1, <2>7 DEF CleanFinish, FsState
    <3>2. fs.obj_lu[<<b, 0>>] # FREE
      BY <1>1, <3>1 DEF SoundState, CleanedHeadOf
    <3>3. fs.free_cursor_block_ix # b
      <4> SUFFICES ASSUME fs.free_cursor_block_ix = b PROVE FALSE
        OBVIOUS
      <4> DEFINE e == fs.free_cursor_obj_lu_entry
      <4>1. e \in Entry /\ fs.obj_lu[<<b, e>>] \in LuIds
        BY <1>1 DEF SoundState, CursorOf, FsState
      <4>2. <<b, e>> \in Used(fs) \cap PagesOf(b)
        BY <3>1, <4>1 DEF Used, PagesOf, Page
      <4> QED
        BY <3>1, <4>2
    <3> HIDE DEF b
    <3>4. SoundState(fs') /\ fs'.free_blocks = fs.free_blocks + 1
      BY <1>1, <3>1, <3>2, <3>3, EraseKeepsSound
    <3> QED
      BY <1>1, <1>2, <2>7, <3>4 DEF CleanFinish
  <2>8. ASSUME CleanAbort PROVE Kept
    <3>1. fs' = [fs EXCEPT !.cleaning = NoBlock]
      BY <2>8 DEF CleanAbort
    <3>2. /\ fs'.obj_lu = fs.obj_lu /\ fs'.free_blocks = fs.free_blocks
          /\ fs'.stats_p_allocated = fs.stats_p_allocated
          /\ fs'.stats_p_deleted = fs.stats_p_deleted
          /\ fs'.free_cursor_block_ix = fs.free_cursor_block_ix
          /\ fs'.free_cursor_obj_lu_entry = fs.free_cursor_obj_lu_entry
          /\ fs'.cleaning = NoBlock /\ fs' \in FsState
          /\ NoBlock # fs.free_cursor_block_ix
      BY <1>1, <3>1, MarkerAssumption DEF FsState, Block
    <3>3. CountersOf(fs') /\ FreeSuffixOf(fs')
      BY <1>1, <3>2 DEF SoundState, CountersOf, FreeSuffixOf, Used, Dirty, FreeHeads
    <3>4. CursorOf(fs') /\ CleanedHeadOf(fs')
      BY <1>1, <3>2 DEF SoundState, CursorOf, CleanedHeadOf
    <3> QED
      BY <2>8, <3>2, <3>3, <3>4 DEF CleanAbort, SoundState
  <2>9. ASSUME Remount PROVE Kept
    <3>1. fs.obj_lu \in [Page -> LuIds \cup {FREE, DELETED}]
      BY <1>1 DEF FsState
    <3>2. /\ SoundState(fs')
          /\ fs'.free_blocks = Cardinality({b \in Block : fs.obj_lu[<<b, 0>>] = FREE})
      BY <1>1, <2>9, <3>1, MountSound DEF Remount, SoundState, FreeSuffixOf
    <3>3. fs'.free_blocks = fs.free_blocks
      BY <1>1, <3>2 DEF SoundState, CountersOf, FreeHeads
    <3> QED
      BY <1>1, <2>9, <3>2, <3>3 DEF Remount
  <2>10. CASE UNCHANGED vars
    BY <1>1, <2>10 DEF vars
  <2> QED
    BY <2>1, <2>2, <2>3, <2>4, <2>5, <2>6, <2>7, <2>8, <2>9, <2>10 DEF Next
<1> QED
  BY <1>3 DEF IInv, SpareBlock

\* The inductive invariant holds in every reachable state.
THEOREM Invariance == ASSUME QuickIsFull PROVE Spec => []IInv
<1>1. Init => IInv
  BY InitSound
<1>2. IInv /\ [Next]_vars => IInv'
  BY NextSound
<1> QED
  BY <1>1, <1>2, PTL DEF Spec

\* The fields of the file system keep their types: the cursor never leaves the
\* flash and a clean run always names a block.
THEOREM TypeCorrect == ASSUME QuickIsFull PROVE Spec => []TypeOK
<1>1. IInv => TypeOK
  BY DEF IInv, SoundState, TypeOK
<1> QED
  BY <1>1, Invariance, PTL

\* The counters of spiffs_gc_check and spiffs_obj_lu_find_free agree with the
\* lookup tables in every reachable state of every geometry.
THEOREM CountersCorrect == ASSUME QuickIsFull PROVE Spec => []CountersMatch
<1>1. IInv => CountersMatch
  BY DEF IInv, SoundState, CountersMatch
<1> QED
  BY <1>1, Invariance, PTL

\* What gc_find_candidate takes for granted: nothing is written behind a free
\* entry of a block.
THEOREM NoHoles == ASSUME QuickIsFull PROVE Spec => []FreeSuffix
<1>1. IInv => FreeSuffix
  BY DEF IInv, SoundState, FreeSuffix
<1> QED
  BY <1>1, Invariance, PTL

\* free_blocks counts the wholly free blocks.
THEOREM FreeBlocksCorrect == ASSUME QuickIsFull PROVE Spec => []FreeBlocksWhole
<1>1. ASSUME IInv PROVE FreeBlocksWhole
  <2>1. {b \in Block : PagesOf(b) \subseteq FreePages(fs)} = FreeHeads(fs)
    <3>1. ASSUME NEW b \in Block, PagesOf(b) \subseteq FreePages(fs)
          PROVE  fs.obj_lu[<<b, 0>>] = FREE
      BY <3>1, GeometryAssumption DEF PagesOf, FreePages, Entry
    <3>2. ASSUME NEW b \in Block, fs.obj_lu[<<b, 0>>] = FREE
          PROVE  PagesOf(b) \subseteq FreePages(fs)
      <4>1. 0 \in Entry /\ \A e \in Entry : e = 0 \/ 0 < e
        BY GeometryAssumption DEF Entry
      <4>2. \A e \in Entry : fs.obj_lu[<<b, e>>] = FREE
        BY <1>1, <3>2, <4>1 DEF IInv, SoundState, FreeSuffixOf
      <4> QED
        BY <4>2 DEF PagesOf, FreePages, Page
    <3> QED
      BY <3>1, <3>2 DEF FreeHeads
  <2> QED
    BY <1>1, <2>1 DEF IInv, SoundState, CountersOf, FreeBlocksWhole
<1> QED
  BY <1>1, Invariance, PTL

\* A spare free block is left outside clean runs as long as they succeed.
THEOREM SpareBlockKept == ASSUME QuickIsFull PROVE Spec => []SpareBlock
<1>1. IInv => SpareBlock
  BY DEF IInv
<1> QED
  BY <1>1, Invariance, PTL
=============================================================================
