------------------------------- MODULE FileApi -------------------------------
(***************************************************************************)
(* What the SPIFFS file calls promise to a client, without descriptors'    *)
(* caches, write pages or a flash layout: a directory of files, what a     *)
(* reader sees of each, what of it survives a power cut, and open handles  *)
(* with an offset.                                                         *)
(*                                                                         *)
(* Three promises are weaker than a reader of the API might expect, because*)
(* the code gives no more: a file of which nothing is stored may read as   *)
(* empty, seeking to the very end may be refused, and after a write in     *)
(* append mode the offset may be anywhere in the file.                     *)
(***************************************************************************)
EXTENDS Integers, Sequences

CONSTANTS
  Names, Files, Fds, Values, NoFile,
  MaxWrite   \* the most bytes one call writes

VARIABLES
  dir,      \* name -> file, or NoFile
  content,  \* file -> the bytes a reader sees
  durable,  \* file -> the bytes a power cut leaves
  handle,   \* descriptor -> handle
  reply     \* what the last call answered

apiVars == <<dir, content, durable, handle, reply>>

Closed == [open |-> FALSE]
Handle(i, n, append) == [open |-> TRUE, file |-> i, off |-> n, append |-> append]
Is(f) == handle[f].open
Answer(op, ok, n, data) == [op |-> op, ok |-> ok, n |-> n, data |-> data]

\* `old` with `new` written at `at`, which is not past its end.
Spliced(old, at, new) ==
  [i \in 1..(IF at + Len(new) > Len(old) THEN at + Len(new) ELSE Len(old)) |->
     IF i \in (at + 1)..(at + Len(new)) THEN new[i - at] ELSE old[i]]

ApiInit ==
  /\ dir = [n \in Names |-> NoFile]
  /\ content = [i \in Files |-> <<>>] /\ durable = content
  /\ handle = [f \in Fds |-> Closed]
  /\ reply = Answer("none", "ok", 0, <<>>)

\* Any call may store bytes that were accepted before it, or by it.
Stores ==
  \A i \in Files : durable'[i] \in {durable[i], content[i], content'[i]}

Refused(op) ==
  /\ reply' = Answer(op, "err", 0, <<>>)
  /\ UNCHANGED <<dir, content, durable, handle>>

Absent(i) == \A n \in Names : dir[n] # i
Empty(i) ==
  /\ content' = [content EXCEPT ![i] = <<>>]
  /\ durable' = [durable EXCEPT ![i] = <<>>]

Create(n) ==
  \/ /\ reply' = Answer("creat", "ok", 0, <<>>)
     /\ dir[n] = NoFile
     /\ \E i \in Files :
          Absent(i) /\ dir' = [dir EXCEPT ![n] = i] /\ Empty(i)
     /\ UNCHANGED handle
  \/ dir[n] # NoFile /\ Refused("creat")

\* Opening a name that is not there creates the file when asked to.
OpenFile(n, f) ==
  /\ reply' = Answer("open", "ok", f, <<>>)
  /\ ~Is(f)
  /\ \E i \in Files, append \in BOOLEAN :
       /\ \/ dir[n] = i /\ UNCHANGED <<dir, content, durable>>
          \/ dir[n] = i /\ Empty(i) /\ UNCHANGED dir
          \/ /\ dir[n] = NoFile /\ Absent(i)
             /\ dir' = [dir EXCEPT ![n] = i] /\ Empty(i)
       /\ handle' = [handle EXCEPT ![f] = Handle(i, 0, append)]

Open(n) == (\E f \in Fds : OpenFile(n, f)) \/ Refused("open")

\* Bytes go where the offset is, or to the end in append mode, and are seen by
\* every reader from then on.
Write(f) ==
  /\ reply'.op = "write" /\ Is(f)
  /\ \E k \in 1..MaxWrite :
       /\ reply' = Answer("write", "ok", k, <<>>)
       /\ \E data \in [1..k -> Values] :
            LET h == handle[f]  i == h.file
                at == IF h.append THEN Len(content[i]) ELSE h.off
            IN /\ content' = [content EXCEPT ![i] = Spliced(@, at, data)]
               /\ \E n \in 0..Len(content'[i]) :
                    /\ h.append \/ n = at + k
                    /\ handle' = [handle EXCEPT ![f] = [@ EXCEPT !.off = n]]
  /\ Stores
  /\ UNCHANGED dir

\* A reader gets the bytes from its offset on, up to the end of the file.
Read(f) ==
  /\ reply'.op = "read" /\ Is(f)
  /\ LET h == handle[f]  all == content[h.file]
     IN \/ /\ reply' = Answer("read", "end", 0, <<>>)
           /\ h.off >= Len(all) \/ durable[h.file] = <<>>
           /\ UNCHANGED handle
        \/ \E k \in 1..(Len(all) - h.off) :
             /\ reply' = Answer("read", "ok", k, SubSeq(all, h.off + 1, h.off + k))
             /\ handle' = [handle EXCEPT ![f] = [@ EXCEPT !.off = h.off + k]]
  /\ Stores
  /\ UNCHANGED <<dir, content>>

Lseek(f) ==
  /\ reply'.op = "lseek" /\ Is(f)
  /\ LET len == Len(content[handle[f].file])
     IN \/ \E n \in 0..len : /\ reply' = Answer("lseek", "ok", n, <<>>)
                             /\ handle' = [handle EXCEPT ![f] = [@ EXCEPT !.off = n]]
        \/ /\ reply' = Answer("lseek", "err", 0, <<>>)
           /\ UNCHANGED handle
  /\ Stores
  /\ UNCHANGED <<dir, content>>

Eof(f) ==
  /\ reply'.op = "eof" /\ Is(f)
  /\ LET h == handle[f]
     IN reply' = Answer("eof", "ok",
                        IF h.off >= Len(content[h.file]) THEN 1 ELSE 0, <<>>)
  /\ Stores
  /\ UNCHANGED <<dir, content, handle>>

Tell(f) ==
  /\ reply'.op = "tell" /\ Is(f)
  /\ reply' = Answer("tell", "ok", handle[f].off, <<>>)
  /\ Stores
  /\ UNCHANGED <<dir, content, handle>>

\* After a flush, an fstat or a close everything written to the file is stored.
Flush(f) ==
  /\ reply'.op \in {"fflush", "fstat", "close"} /\ Is(f)
  /\ LET i == handle[f].file
     IN /\ \/ reply' = Answer("fflush", "ok", 0, <<>>) /\ UNCHANGED handle
           \/ reply' = Answer("fstat", "ok", Len(content[i]), <<>>) /\ UNCHANGED handle
           \/ /\ reply' = Answer("close", "ok", 0, <<>>)
              /\ handle' = [handle EXCEPT ![f] = Closed]
        /\ durable' = [durable EXCEPT ![i] = content[i]]
  /\ UNCHANGED <<dir, content>>

\* Asked by name, the size is the size of what is stored.
Stat(n) ==
  /\ IF dir[n] = NoFile THEN reply' = Answer("stat", "err", 0, <<>>)
     ELSE reply' = Answer("stat", "ok", Len(durable[dir[n]]), <<>>)
  /\ UNCHANGED <<dir, content, durable, handle>>

\* A removed file is gone for every handle.
Remove(n) ==
  \/ /\ reply' = Answer("remove", "ok", 0, <<>>)
     /\ dir[n] # NoFile
     /\ LET i == dir[n]
        IN /\ dir' = [dir EXCEPT ![n] = NoFile]
           /\ Empty(i)
           /\ handle' = [f \in Fds |-> IF Is(f) /\ handle[f].file = i
                                       THEN Closed ELSE handle[f]]
  \/ Refused("remove")

Rename(n, m) ==
  \/ /\ reply' = Answer("rename", "ok", 0, <<>>)
     /\ dir[n] # NoFile /\ dir[m] = NoFile
     /\ dir' = [dir EXCEPT ![m] = dir[n], ![n] = NoFile]
     /\ UNCHANGED <<content, durable, handle>>
  \/ Refused("rename")

\* An unmount stores everything; a power cut keeps what is stored.
Unmount ==
  /\ reply' = Answer("unmount", "ok", 0, <<>>)
  /\ durable' = content
  /\ handle' = [f \in Fds |-> Closed]
  /\ UNCHANGED <<dir, content>>

PowerCut ==
  /\ reply' = Answer("none", "ok", 0, <<>>)
  /\ content' = durable
  /\ handle' = [f \in Fds |-> Closed]
  /\ UNCHANGED <<dir, durable>>

ApiNext ==
  \/ \E n \in Names : Create(n) \/ Open(n) \/ Stat(n) \/ Remove(n)
  \/ \E n, m \in Names : Rename(n, m)
  \/ \E f \in Fds : Write(f) \/ Read(f) \/ Lseek(f) \/ Eof(f) \/ Tell(f) \/ Flush(f)
  \/ Unmount \/ PowerCut

ApiSpec == ApiInit /\ [][ApiNext]_apiVars
=============================================================================
