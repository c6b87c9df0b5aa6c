------------------------------ MODULE SpiffsVfs ------------------------------
(***************************************************************************)
(* The SPIFFS file calls above the object layer: descriptors with the size,*)
(* offset and index cursor they cache, the RAM cache whose pages hold      *)
(* either a flash page read or bytes written and not yet stored, and the   *)
(* calls on them.                                                          *)
(*                                                                         *)
(* SPIFFS_LOCK makes the calls atomic, so each call is one action.  Of the *)
(* object layer only what a call leaves behind is kept: which object has   *)
(* which name and bytes (SpiffsStore has the pages below).  The flash never*)
(* refuses a write here, and every client opens its files for reading and  *)
(* writing; SPIFFS_O_DIRECT and SPIFFS_O_EXCL are left out.                *)
(***************************************************************************)
EXTENDS Integers, Sequences, FiniteSets, FiniteSetsExt

CONSTANTS
  Names, Values,
  Descs,         \* number of file descriptors
  CachePages,    \* number of cache pages
  PageSize,      \* bytes of a cache page
  DataPageSize,  \* bytes of a data page, less than PageSize by its header
  HdrEntries,    \* data pages the index header has references for
  IxEntries,     \* data pages another index page has references for
  Flags,         \* the sets of flags clients open files with
  Seeks,         \* whence and offset of the seeks clients make
  MaxLen,        \* bound: bytes in the files together
  MaxWrite,      \* bound: bytes of one write
  Careless,      \* whether clients remove or truncate files others have open
  NoFile         \* the object of a name that is not there

ASSUME VfsAssumption ==
  /\ Descs \in Nat \ {0} /\ CachePages \in Nat \ {0}
  /\ DataPageSize \in Nat \ {0} /\ PageSize > DataPageSize
  /\ HdrEntries \in Nat \ {0} /\ IxEntries \in Nat \ {0}
  /\ Flags \subseteq SUBSET {"creat", "trunc", "append"}
  /\ Seeks \subseteq {"set", "cur", "end"} \X Int
  /\ MaxLen \in Nat /\ MaxWrite \in Nat /\ Careless \in BOOLEAN
  /\ IsFiniteSet(Names) /\ NoFile \notin 1..Cardinality(Names)

Fds == 1..Descs
Objects == 1..Cardinality(Names)
Cache == 1..CachePages
UndefinedLen == -1

VARIABLES
  dir,      \* name -> object id, or NoFile: the names in the index headers
  objs,     \* object id -> the bytes stored on flash
  fds,      \* descriptors
  cache,    \* cache pages
  reply     \* what the last call returned

vfsVars == <<dir, objs, fds, cache, reply>>

NoDesc == [used |-> FALSE, obj |-> 0, append |-> FALSE, size |-> 0,
           fdoffset |-> 0, cursor |-> 0, cache_page |-> 0]
Other == [type |-> "other"]
WritePage(o, at, data) ==
  [type |-> "write", obj |-> o, offset |-> at, data |-> data]

Answer(op, ok, n, data) == [op |-> op, ok |-> ok, n |-> n, data |-> data]
Answered(op, n) == reply' = Answer(op, "ok", n, <<>>)

VfsInit ==
  /\ dir = [n \in Names |-> NoFile]
  /\ objs = [o \in Objects |-> <<>>]
  /\ fds = [f \in Fds |-> NoDesc]
  /\ cache = [c \in Cache |-> Other]
  /\ reply = Answer("none", "ok", 0, <<>>)

Larger(a, b) == IF a > b THEN a ELSE b
Smaller(a, b) == IF a < b THEN a ELSE b
Lowest(S) == CHOOSE x \in S : \A y \in S : x <= y

StoredSize(o) == IF objs[o] = <<>> THEN UndefinedLen ELSE Len(objs[o])
SizeOr0(f) == Larger(fds[f].size, 0)

IxSpan(k) == IF k < HdrEntries THEN 0 ELSE 1 + (k - HdrEntries) \div IxEntries
SpanAt(n) == IxSpan(n \div DataPageSize)

-----------------------------------------------------------------------------
(* The cache *)

\* spiffs_cache_page_get_by_fd: by the object, not by the descriptor.
PageOf(c, o) ==
  LET S == {i \in Cache : c[i].type = "write" /\ c[i].obj = o}
  IN IF S = {} THEN 0 ELSE Lowest(S)

\* Pages without written bytes are free or hold a page of flash; a read of flash,
\* spiffs_phys_rd, takes one of them, evicting the oldest, and needs one.
Others(c) == {i \in Cache : c[i].type = "other"}

\* spiffs_cache_page_remove_oldest, then spiffs_cache_page_allocate: a page
\* accessed just now is not evicted, so the last of them may not be given away.
\* Which pages are in use and which was accessed last is left open.
Slots(c) ==
  IF Others(c) = {} THEN {0}
  ELSE {Lowest(Others(c))} \cup IF Cardinality(Others(c)) = 1 THEN {0} ELSE {}

\* Mutant: only the first descriptor forgets the page.
ForgetFirst(d, i) ==
  [f \in Fds |-> IF f = 1 /\ d[f].used /\ d[f].cache_page = i
                 THEN [d[f] EXCEPT !.cache_page = 0] ELSE d[f]]

\* spiffs_cache_fd_release: the descriptors in use forget the page.
Forget(d, i) ==
  [f \in Fds |-> IF d[f].used /\ d[f].cache_page = i
                 THEN [d[f] EXCEPT !.cache_page = 0] ELSE d[f]]

-----------------------------------------------------------------------------
(* The object layer, as what a call does to a state [objs, fds, c]. *)

Now == [objs |-> objs, fds |-> fds, c |-> cache]
Becomes(s) ==
  \E t \in {s} : objs' = t.objs /\ fds' = t.fds /\ cache' = t.c
With(s, f, desc) == [s EXCEPT !.fds = [@ EXCEPT ![f] = desc]]

Spliced(old, at, new) ==
  [i \in 1..Larger(Len(old), at + Len(new)) |->
     IF i \in (at + 1)..(at + Len(new)) THEN new[i - at] ELSE old[i]]

\* Mutant: only the descriptor that appends learns of the new size.
GrownAlone(d, f, o, size) == [d EXCEPT ![f] = [@ EXCEPT !.size = size]]

\* spiffs_cb_object_event: every descriptor of the object learns the new size.
Grown(d, f, o, size) ==
  [g \in Fds |-> IF d[g].used /\ d[g].obj = o
                 THEN [d[g] EXCEPT !.size = size] ELSE d[g]]

\* spiffs_hydro_write: what lies before the size is modified, the rest appended;
\* an offset past the size is moved back to it.
Stored(s, f, at, data) ==
  LET o == s.fds[f].obj
      size == s.fds[f].size
      from == IF size # UndefinedLen /\ at > size THEN size ELSE at
      new == Spliced(s.objs[o], from, data)
      grew == Len(new) > Len(s.objs[o])
      d == IF grew THEN Grown(s.fds, f, o, Len(new)) ELSE s.fds
  IN [s EXCEPT !.objs = [@ EXCEPT ![o] = new],
               !.fds = [d EXCEPT ![f] = [@ EXCEPT !.cursor = SpanAt(from + Len(data) - 1)]]]

\* Mutant: the page stays in the cache after its bytes were stored.
WriteBackKept(s, f) ==
  LET i == s.fds[f].cache_page  page == s.c[i]
  IN [Stored(s, f, page.offset, page.data) EXCEPT !.fds = Forget(@, i)]

\* The bytes in the descriptor's page are stored and the page released.
WriteBack(s, f) ==
  LET i == s.fds[f].cache_page  page == s.c[i]
  IN [Stored(s, f, page.offset, page.data) EXCEPT !.fds = Forget(@, i),
                                                  !.c = [@ EXCEPT ![i] = Other]]

\* Mutant: a descriptor does not look for the page of its object.
ReferredOwn(s, f) == s

\* A descriptor without a page takes the one its object has.
Referred(s, f) ==
  IF s.fds[f].cache_page # 0 THEN s
  ELSE With(s, f, [s.fds[f] EXCEPT !.cache_page = PageOf(s.c, s.fds[f].obj)])

\* spiffs_fflush_cache
Flushed(s, f) ==
  LET r == Referred(s, f)
  IN IF r.fds[f].cache_page = 0 THEN r ELSE WriteBack(r, f)

\* A descriptor given back keeps its reference to a page.
GivenBack(d) == [NoDesc EXCEPT !.cache_page = d.cache_page]

\* spiffs_object_truncate: the other descriptors see an undefined size.
Truncated(s, f) ==
  LET o == s.fds[f].obj
  IN IF s.fds[f].size \in {UndefinedLen, 0} THEN s
     ELSE [s EXCEPT !.objs = [@ EXCEPT ![o] = <<>>],
             !.fds = [Grown(s.fds, f, o, UndefinedLen) EXCEPT
                        ![f] = [@ EXCEPT !.size = 0, !.cursor = 0]]]

\* The same with removal: all descriptors of the object are closed.
Removed(s, o) ==
  [s EXCEPT !.objs = [@ EXCEPT ![o] = <<>>],
            !.fds = [f \in Fds |-> IF s.fds[f].used /\ s.fds[f].obj = o
                                   THEN GivenBack(s.fds[f]) ELSE s.fds[f]]]

\* What a reader gets: the stored bytes with the buffered ones laid over them.
Seen(o) ==
  LET i == PageOf(cache, o)
  IN IF i = 0 THEN objs[o] ELSE Spliced(objs[o], cache[i].offset, cache[i].data)

-----------------------------------------------------------------------------
(* The calls *)

Refuse(op) ==
  /\ reply' = Answer(op, "err", 0, <<>>)
  /\ UNCHANGED <<dir, objs, fds, cache>>

\* spiffs_fd_find_new, spiffs_obj_lu_find_free_obj_id
FreeFds == {f \in Fds : ~fds[f].used}
FreeIds == {o \in Objects : \A n \in Names : dir[n] # o}
Opened(f, o, flags) ==
  [fds EXCEPT ![f] = [@ EXCEPT !.used = TRUE, !.obj = o, !.size = StoredSize(o),
                               !.append = "append" \in flags,
                               !.fdoffset = 0, !.cursor = 0]]

Alone(o) == \A f \in Fds : fds[f].used => fds[f].obj # o

Creat(n) ==
  /\ \/ /\ dir[n] = NoFile
        /\ dir' = [dir EXCEPT ![n] = Lowest(FreeIds)]
        /\ Answered("creat", 0)
        /\ UNCHANGED <<objs, fds, cache>>
     \/ dir[n] # NoFile /\ Refuse("creat")

Open(n, flags) ==
  \/ /\ FreeFds = {}
     /\ Refuse("open")
  \/ /\ FreeFds # {} /\ dir[n] = NoFile /\ "creat" \notin flags
        /\ Refuse("open")
  \/ /\ FreeFds # {}
     /\ dir[n] # NoFile \/ "creat" \in flags
     /\ LET f == Lowest(FreeFds)
            o == IF dir[n] = NoFile THEN Lowest(FreeIds) ELSE dir[n]
            s == [Now EXCEPT !.fds = Opened(f, o, flags)]
        IN /\ dir' = [dir EXCEPT ![n] = o]
           /\ IF "trunc" \in flags /\ dir[n] # NoFile
              THEN (Careless \/ Alone(o)) /\ Becomes(Truncated(s, f))
              ELSE Becomes(s)
           /\ Answered("open", f)

\* SPIFFS_write.  Where the bytes go: in append mode behind the stored and the
\* buffered ones.
Offset(s, f) ==
  LET i == s.fds[f].cache_page  page == s.c[i]
  IN IF ~s.fds[f].append THEN s.fds[f].fdoffset
     ELSE IF i = 0 THEN Larger(s.fds[f].size, 0)
     ELSE Larger(Larger(s.fds[f].size, 0), page.offset + Len(page.data))

Within(page, at, len) ==
  /\ at >= page.offset /\ at <= page.offset + Len(page.data)
  /\ at + len <= page.offset + PageSize

\* A small write is kept in the object's page if it fits there; otherwise that
\* page is stored first and a new one taken, if the cache has room.
Buffer(s, f, at, data) ==
  LET i == s.fds[f].cache_page  page == s.c[i]
      fits == i # 0 /\ Within(page, at, Len(data))
      Kept == [s EXCEPT !.c = [@ EXCEPT ![i] =
                 WritePage(page.obj, page.offset,
                           Spliced(page.data, at - page.offset, data))]]
      t == IF i = 0 THEN s ELSE WriteBack(s, f)
  IN IF fits THEN {Kept}
     ELSE {IF j = 0 THEN Stored(t, f, at, data)
           ELSE With([t EXCEPT !.c = [@ EXCEPT ![j] = WritePage(t.fds[f].obj, at, data)]],
                     f, [t.fds[f] EXCEPT !.cache_page = j]) : j \in Slots(t.c)}

\* A big write goes to flash, twice when there were buffered bytes to store first.
Through(s, f, at, data) ==
  IF s.fds[f].cache_page = 0 THEN Stored(s, f, at, data)
  ELSE Stored(Stored(WriteBack(s, f), f, at, data), f, at, data)

\* Bound: the room the other files take, with their index headers.
Elsewhere(o) ==
  MapThenSumSet(LAMBDA x : IF Seen(x) = <<>> THEN 0 ELSE Len(Seen(x)) + 1,
                Objects \ {o})
Write(f, data) ==
  /\ fds[f].used
  /\ LET s == Referred(Now, f)
         at == Offset(s, f)
         start == IF fds[f].append THEN SizeOr0(f) ELSE fds[f].fdoffset
     IN /\ at + Len(data) + Elsewhere(fds[f].obj) <= MaxLen
        /\ \E t \in IF Len(data) < PageSize THEN Buffer(s, f, at, data)
                    ELSE {Through(s, f, at, data)} :
             Becomes(With(t, f, [t.fds[f] EXCEPT !.fdoffset = start + Len(data)]))
  /\ Answered("write", Len(data))
  /\ UNCHANGED dir

\* spiffs_object_read, of bytes that are there.
ObjectRead(s, f, off, n) == SubSeq(s.objs[s.fds[f].obj], off + 1, off + n)

\* Mutant: the buffered bytes are not stored first.
ReadUnflushed(f, len) ==
  LET off == fds[f].fdoffset  n == Smaller(len, SizeOr0(f) - off)
  IN /\ fds[f].used
     /\ IF n <= 0 THEN reply' = Answer("read", "end", 0, <<>>) /\ UNCHANGED fds
        ELSE /\ fds' = [fds EXCEPT ![f] = [@ EXCEPT !.fdoffset = off + n]]
             /\ reply' = Answer("read", "ok", n, ObjectRead(Now, f, off, n))
     /\ UNCHANGED <<dir, objs, cache>>

\* SPIFFS_read: the size is looked at before the buffered bytes are stored.
Read(f, len) ==
  /\ fds[f].used
  /\ IF fds[f].size = UndefinedLen
     THEN /\ reply' = Answer("read", "end", 0, <<>>)
          /\ UNCHANGED <<objs, fds, cache>>
     ELSE LET s == Flushed(Now, f)
              off == s.fds[f].fdoffset
              n == Smaller(len, s.fds[f].size - off)
          IN IF n <= 0
             THEN Becomes(s) /\ reply' = Answer("read", "end", 0, <<>>)
             ELSE /\ Becomes(With(s, f, [s.fds[f] EXCEPT !.fdoffset = off + n,
                                                         !.cursor = SpanAt(off + n - 1)]))
                  /\ reply' = Answer("read", "ok", n, ObjectRead(s, f, off, n))
  /\ UNCHANGED dir

\* SPIFFS_lseek: the index page of the new offset has to be there, also when the
\* offset is the end of the file.  Clients stay within the file: an offset below 0
\* is not refused, nor one past the end of a file that is empty.
HasSpan(o, j, stored) == j = 0 \/ j <= SpanAt(Len(stored[o]) - 1)

Lseek(f, whence, offs) ==
  /\ fds[f].used
  /\ LET s == Flushed(Now, f)
         d == s.fds[f]
         to == CASE whence = "set" -> offs
                 [] whence = "cur" -> d.fdoffset + offs
                 [] whence = "end" -> Larger(d.size, 0) + offs
         j == SpanAt(to)
         past == to > d.size /\ d.size # UndefinedLen
     IN /\ to >= 0
        /\ d.size \in {UndefinedLen, 0} => to = 0
        /\ \/ /\ ~past
              /\ j = d.cursor \/ HasSpan(d.obj, j, s.objs)
              /\ Becomes(With(s, f, [d EXCEPT !.fdoffset = to, !.cursor = j]))
              /\ Answered("lseek", to)
           \/ /\ past \/ (j # d.cursor /\ ~HasSpan(d.obj, j, s.objs))
              /\ Becomes(s)
              /\ reply' = Answer("lseek", "err", 0, <<>>)
  /\ UNCHANGED dir

\* SPIFFS_eof, SPIFFS_tell, SPIFFS_fflush, SPIFFS_fstat and SPIFFS_close all store
\* the buffered bytes first.
Eof(f) ==
  /\ fds[f].used
  /\ LET s == Flushed(Now, f)
     IN /\ Becomes(s)
        /\ Answered("eof", IF s.fds[f].fdoffset >= Larger(s.fds[f].size, 0)
                           THEN 1 ELSE 0)
  /\ UNCHANGED dir

Tell(f) ==
  /\ fds[f].used
  /\ Becomes(Flushed(Now, f))
  /\ Answered("tell", fds[f].fdoffset)
  /\ UNCHANGED dir

Fflush(f) ==
  /\ fds[f].used
  /\ Becomes(Flushed(Now, f))
  /\ Answered("fflush", 0)
  /\ UNCHANGED dir

Fstat(f) ==
  /\ fds[f].used
  /\ Becomes(Flushed(Now, f))
  /\ Answered("fstat", Len(objs'[fds[f].obj]))
  /\ UNCHANGED dir

Close(f) ==
  /\ fds[f].used
  /\ LET s == Flushed(Now, f) IN Becomes(With(s, f, GivenBack(s.fds[f])))
  /\ Answered("close", 0)
  /\ UNCHANGED dir

\* SPIFFS_stat by name does not look for buffered bytes.
Stat(n) ==
  /\ IF dir[n] = NoFile THEN reply' = Answer("stat", "err", 0, <<>>)
     ELSE Answered("stat", Len(objs[dir[n]]))
  /\ UNCHANGED <<dir, objs, fds, cache>>

\* SPIFFS_remove opens the file itself, and so needs a descriptor; a page that
\* holds bytes of the file stays.
Unlinked(n) == dir' = [dir EXCEPT ![n] = NoFile]

Remove(n) ==
  \/ /\ FreeFds # {} /\ dir[n] # NoFile
     /\ Careless \/ PageOf(cache, dir[n]) = 0
     /\ Becomes(Removed(Now, dir[n]))
     /\ Unlinked(n) /\ Answered("remove", 0)
  \/ /\ FreeFds = {} \/ dir[n] = NoFile
     /\ Refuse("remove")

\* SPIFFS_fremove drops the page its descriptor refers to, unstored.
Fremove(f) ==
  /\ fds[f].used
  /\ LET o == fds[f].obj  i == fds[f].cache_page
         s == IF i = 0 THEN Now
              ELSE [Now EXCEPT !.fds = Forget(@, i), !.c = [@ EXCEPT ![i] = Other]]
     IN /\ Careless \/ PageOf(cache, o) \in {0, i}
        /\ Becomes(Removed(s, o))
        /\ \E n \in Names : dir[n] = o /\ Unlinked(n)
  /\ Answered("remove", 0)

Rename(n, m) ==
  /\ \/ /\ dir[n] # NoFile /\ dir[m] = NoFile /\ FreeFds # {}
        /\ dir' = [dir EXCEPT ![m] = dir[n], ![n] = NoFile]
        /\ Answered("rename", 0)
        /\ UNCHANGED <<objs, fds, cache>>
     \/ /\ dir[n] = NoFile \/ dir[m] # NoFile \/ FreeFds = {}
        /\ Refuse("rename")

\* SPIFFS_unmount flushes the descriptors one after the other; SPIFFS_mount
\* clears descriptors and cache.
AllFlushed ==
  LET upto[f \in 0..Descs] ==
        IF f = 0 THEN Now
        ELSE IF upto[f - 1].fds[f].used THEN Flushed(upto[f - 1], f)
        ELSE upto[f - 1]
  IN upto[Descs]

Cleared ==
  /\ fds' = [f \in Fds |-> NoDesc]
  /\ cache' = [c \in Cache |-> Other]
  /\ UNCHANGED dir

Remount ==
  /\ objs' = AllFlushed.objs
  /\ Answered("unmount", 0)
  /\ Cleared

PowerCut ==
  /\ Cleared /\ Answered("none", 0)
  /\ UNCHANGED objs

\* Bounds: a write is a run of one value, a seek one of Seeks.
Writes == {[i \in 1..k |-> v] : k \in 1..MaxWrite, v \in Values}

VfsNext ==
  \/ \E n \in Names : Creat(n) \/ Stat(n) \/ Remove(n)
  \/ \E n \in Names, flags \in Flags : Open(n, flags)
  \/ \E n \in Names : \E m \in Names \ {n} : Rename(n, m)
  \/ \E f \in Fds :
       \/ \E data \in Writes : Write(f, data)
       \/ \E len \in 1..2 : Read(f, len)
       \/ \E p \in Seeks : Lseek(f, p[1], p[2])
       \/ Eof(f) \/ Tell(f) \/ Fflush(f) \/ Fstat(f) \/ Close(f) \/ Fremove(f)
  \/ Remount \/ PowerCut

VfsSpec == VfsInit /\ [][VfsNext]_vfsVars

-----------------------------------------------------------------------------
(* What has to hold *)

\* A page a descriptor refers to holds bytes written to the descriptor's file.
\* The reference is a pointer kept across calls, in descriptors that are given
\* back and used again.
PageRefersFd ==
  \A f \in Fds : fds[f].used /\ fds[f].cache_page # 0 =>
    /\ cache[fds[f].cache_page].type = "write"
    /\ cache[fds[f].cache_page].obj = fds[f].obj

\* An object has at most one page of buffered bytes, whoever wrote them, and the
\* bytes join on to the stored ones: the rule spiffs_cache_page_allocate_by_fd
\* relies on.
OneBuffer ==
  \A i, j \in Cache \ Others(cache) :
    /\ cache[i].obj = cache[j].obj => i = j
    /\ cache[i].offset <= Len(objs[cache[i].obj])

\* The size a descriptor caches is the size of the stored file, whichever
\* descriptor changed it.
SizesAgree ==
  \A f \in Fds : fds[f].used => SizeOr0(f) = Len(objs[fds[f].obj])

\* As long as there are fewer descriptors than cache pages some page is left for
\* reading flash: spiffs_phys_rd uses the page it is given without asking.
CacheServes == Descs < CachePages => Others(cache) # {}

-----------------------------------------------------------------------------
(* The calls do what FileApi promises: readers see the stored bytes with the *)
(* buffered ones laid over them, a power cut leaves the stored ones.         *)

HandleOf(f) ==
  IF fds[f].used THEN [open |-> TRUE, file |-> fds[f].obj,
                       off |-> fds[f].fdoffset, append |-> fds[f].append]
  ELSE [open |-> FALSE]
Handles == [f \in Fds |-> HandleOf(f)]
Contents == [o \in Objects |-> Seen(o)]

Api == INSTANCE FileApi WITH
  Files <- Objects, content <- Contents, durable <- objs, handle <- Handles

\* Every call keeps the promises of FileApi.
ImplementsFileApi == Api!ApiSpec
=============================================================================
