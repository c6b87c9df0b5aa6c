----------------------------- MODULE AudioStore -----------------------------
(***************************************************************************)
(* The audio files of audio_read_demo and the record of where they are.    *)
(*                                                                         *)
(* At its first start main reads the headers of the files that were        *)
(* flashed as one image behind each other, enters them in the record and   *)
(* stores the record; later starts only load it.  file_write adds a file   *)
(* behind the last one and enters it in the record in RAM.  The power may  *)
(* go at any step.                                                         *)
(*                                                                         *)
(* Addresses count from AUDIO_ADDR in units of the four bytes that stand   *)
(* before each file of the image; an address of 0 in the code's record is  *)
(* NoFile here.  The flash driver never refuses a call.                    *)
(***************************************************************************)
EXTENDS Integers, Sequences, FiniteSetsExt

CONSTANTS Sector,     \* 4096 bytes
          SizeWrap,   \* 2^16 bytes: the width of the sizes in the record
          ScanLimit,  \* headers struct_build reads (39)
          Lengths,    \* lengths of files
          MaxFiles,   \* bound: files of the image
          MaxWrites,  \* bound: calls of file_write
          MaxCuts     \* bound: power cuts

ASSUME AudioAssumption ==
    /\ {Sector, SizeWrap} \subseteq Nat \ {0}
    /\ Lengths \subseteq Nat \ {0}    \* no file is empty
    /\ {ScanLimit, MaxFiles, MaxWrites, MaxCuts} \subseteq Nat

Kind == {"on", "off", "warm"}  \* POWER_ON_FILE, POWER_OFF_FILE, WARM_MODE_FILE

VARIABLES files,  \* the files in the audio area, in the order they came there
          flashed,\* ghost: how many of them are of the image
          disk,   \* the record in flash
          ram,    \* file_info
          pc,     \* where main is; "up" once it is done
          reads,  \* i of struct_build
          writes, cuts
vars == <<files, flashed, disk, ram, pc, reads, writes, cuts>>

NoFile == [at |-> 0, size |-> 0]
Erased == [flag |-> FALSE, start |-> 0, on |-> NoFile, off |-> NoFile, tail |-> FALSE]
Fresh == [Erased EXCEPT !.flag = TRUE, !.tail = TRUE]

End(file) == file.at + file.len
\* The addresses a file of the image takes begin with its header.
Placed(kinds, lens) ==
    LET at[i \in DOMAIN kinds] == IF i = 1 THEN 1 ELSE at[i - 1] + lens[i - 1] + 1
    IN  [i \in DOMAIN kinds |->
            [kind |-> kinds[i], len |-> lens[i], whole |-> TRUE, at |-> at[i]]]

Init == /\ \E n \in 0 .. MaxFiles : \E kinds \in [1 .. n -> Kind], lens \in [1 .. n -> Lengths] :
              files = Placed(kinds, lens) /\ flashed = n
        /\ disk = Erased /\ ram = Erased /\ pc = "start"
        /\ reads = 0 /\ writes = 0 /\ cuts = 0

(***************************************************************************)
(* main                                                                    *)
(***************************************************************************)
\* Mutant: the record is announced in flash before it is built.
InitStructEarly ==
    /\ pc = "start"
    /\ ram' = IF disk.flag THEN disk ELSE Fresh
    /\ disk' = ram'
    /\ pc' = IF disk.flag THEN "up" ELSE "scan"
    /\ reads' = 0
    /\ UNCHANGED <<files, flashed, writes, cuts>>

\* init_struct_flash: the record is loaded, or begun when there is none.
InitStruct ==
    /\ pc = "start"
    /\ ram' = IF disk.flag THEN disk ELSE Fresh
    /\ pc' = IF disk.flag THEN "up" ELSE "scan"
    /\ reads' = 0
    /\ UNCHANGED <<files, flashed, disk, writes, cuts>>

Entry(at, len) == [at |-> at, size |-> len % SizeWrap]

\* file_type_storage: a second file for power-on, or one of another kind, is
\* not entered and not passed over.
Stored(rec, file) ==
    CASE file.kind = "on" /\ rec.on = NoFile ->
            [rec EXCEPT !.on = Entry(rec.start + 1, file.len), !.start = @ + 1 + file.len]
      [] file.kind = "off" ->
            [rec EXCEPT !.off = Entry(rec.start + 1, file.len), !.start = @ + 1 + file.len]
      [] OTHER -> rec

HeaderAt(a) == {i \in 1 .. flashed : files[i].at = a + 1}

\* A turn of struct_build that finds a header.
ScanHeader ==
    /\ pc = "scan" /\ reads < ScanLimit
    /\ \E i \in HeaderAt(ram.start) : ram' = Stored(ram, files[i])
    /\ reads' = reads + 1
    /\ UNCHANGED <<files, flashed, disk, pc, writes, cuts>>

\* It finds none, or has read enough; main stores the record in either case.
ScanDone ==
    /\ pc = "scan" /\ (reads = ScanLimit \/ HeaderAt(ram.start) = {})
    /\ pc' = "erase"
    /\ UNCHANGED <<files, flashed, disk, ram, reads, writes, cuts>>

\* write_struct: the sector is erased, and the record, which is longer than a
\* page of the flash, programmed in two steps.
EraseRecord ==
    /\ pc = "erase" /\ disk' = Erased /\ pc' = "program"
    /\ UNCHANGED <<files, flashed, ram, reads, writes, cuts>>

ProgramRecord ==
    /\ pc = "program" /\ disk' = [ram EXCEPT !.tail = FALSE] /\ pc' = "finish"
    /\ UNCHANGED <<files, flashed, ram, reads, writes, cuts>>

FinishRecord ==
    /\ pc = "finish" /\ disk' = ram /\ pc' = "load"
    /\ UNCHANGED <<files, flashed, ram, reads, writes, cuts>>

\* read_struct, after which main only plays a file.
LoadRecord ==
    /\ pc = "load" /\ ram' = disk /\ pc' = "up"
    /\ UNCHANGED <<files, flashed, disk, reads, writes, cuts>>

(***************************************************************************)
(* file_write and file_read                                                *)
(***************************************************************************)
\* Mutant: a begun sector is not counted.
AdvancedDown(len) == Sector * (len \div Sector)
\* Where file_write begins the next file: whole sectors on.
Advanced(len) == IF len % Sector # 0 THEN Sector * (len \div Sector + 1) ELSE len

\* file_type: the first file for power-on is kept, a file for warm mode is
\* entered as one for power-off.
Typed(rec, kind, len) ==
    CASE kind = "on" /\ rec.on = NoFile -> [rec EXCEPT !.on = Entry(rec.start, len)]
      [] kind \in {"off", "warm"} -> [rec EXCEPT !.off = Entry(rec.start, len)]
      [] OTHER -> rec

\* audio_write erases every sector the new file touches.
Touched(a, len) == (a \div Sector) * Sector .. ((a + len - 1) \div Sector) * Sector + Sector - 1
AudioWrite(a, kind, len) ==
    files' = Append([i \in DOMAIN files |->
                        [files[i] EXCEPT !.whole =
                            @ /\ (files[i].at .. End(files[i]) - 1) \cap Touched(a, len) = {}]],
                    [kind |-> kind, len |-> len, whole |-> TRUE, at |-> a])

FileWrite(kind, len) ==
    /\ pc = "up" /\ writes < MaxWrites
    /\ AudioWrite(ram.start, kind, len)
    /\ ram' = [Typed(ram, kind, len) EXCEPT !.start = @ + Advanced(len)]
    /\ writes' = writes + 1
    /\ UNCHANGED <<flashed, disk, pc, reads, cuts>>

\* What file_read finds for an entry: a file whose beginning it reads.
Leads(entry, kinds) ==
    entry.size # 0 => \E i \in DOMAIN files :
        /\ files[i].whole /\ files[i].kind \in kinds /\ files[i].at = entry.at
        /\ entry.size = files[i].len % SizeWrap

PowerCut ==
    /\ cuts < MaxCuts
    /\ pc' = "start" /\ ram' = Erased /\ reads' = 0 /\ cuts' = cuts + 1
    /\ UNCHANGED <<files, flashed, disk, writes>>

Main == InitStruct \/ ScanHeader \/ ScanDone \/ EraseRecord \/ ProgramRecord
        \/ FinishRecord \/ LoadRecord
Next == Main \/ PowerCut \/ \E kind \in Kind, len \in Lengths : FileWrite(kind, len)
Spec == Init /\ [][Next]_vars

(***************************************************************************)
(* Properties                                                              *)
(***************************************************************************)
\* The files struct_build enters: those before the first that repeats
\* power-on or is of another kind, as many as it reads headers.
Refused(i) == \/ files[i].kind = "warm"
              \/ files[i].kind = "on" /\ \E j \in 1 .. i - 1 : files[j].kind = "on"
Entered == {i \in 1 .. flashed : i <= ScanLimit /\ \A j \in 1 .. i : ~ Refused(j)}
EntryOf(S) == IF S = {} THEN NoFile ELSE Entry(files[Max(S)].at, files[Max(S)].len)

\* Wherever the first start and any later one were cut off: a record that
\* says it is there has every file of the image that struct_build enters, at
\* its place, and nothing else (main of main.c, init_struct_flash).
TableTrue ==
    disk.flag => /\ disk.on = EntryOf({i \in Entered : files[i].kind = "on"})
                 /\ disk.off = EntryOf({i \in Entered : files[i].kind = "off"})
                 /\ disk.start = Max({0} \cup {End(files[i]) : i \in Entered})

\* While files begin at sectors, no file_write damages one that the record
\* in RAM leads to, however calls and restarts alternate (file_write of
\* save_file_addr.c).  It fails when the image ends inside a sector.
EntriesLead ==
    pc = "up" /\ ram.start % Sector = 0
        => Leads(ram.on, {"on"}) /\ Leads(ram.off, {"off", "warm"})
=============================================================================
