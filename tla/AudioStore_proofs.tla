------------------------- MODULE AudioStore_proofs -------------------------
(***************************************************************************)
(* Proofs that the record of the audio files is true after every power     *)
(* cut, and that file_write, as long as files begin at sectors, damages no *)
(* file the record leads to: for every image, all lengths and any number   *)
(* of writes and cuts.                                                     *)
(***************************************************************************)
EXTENDS AudioStore, NatFacts, SequenceTheorems

\* The types of the files and of the record.
File == [kind : Kind, len : Lengths, whole : BOOLEAN, at : Nat]
FileEntry == [at : Nat, size : Nat]
Record == [flag : BOOLEAN, start : Nat, on : FileEntry, off : FileEntry, tail : BOOLEAN]

-----------------------------------------------------------------------------
(* The image: files behind each other, each behind its header. *)

\* Where the k-th file ends, and the next header stands.
EndOf(k) == IF k = 0 THEN 0 ELSE End(files[k])

\* Files of the image stand behind each other, with a header before each.
Image ==
  /\ files \in Seq(File) /\ flashed \in 0..Len(files)
  /\ \A i \in 1..flashed : files[i].at = EndOf(i - 1) + 1

\* The addresses of Placed are defined for every number of files.
LEMMA PlacesExist ==
  ASSUME NEW n \in Nat, NEW lens \in [1..n -> Lengths]
  PROVE  \E f : f = [i \in 1..n |-> IF i = 1 THEN 1 ELSE f[i - 1] + lens[i - 1] + 1]
<1> DEFINE Upto(m, f) == /\ f \in [1..m -> Nat]
                         /\ \A i \in 1..m : f[i] = IF i = 1 THEN 1
                                                    ELSE f[i - 1] + lens[i - 1] + 1
           S == {m \in Nat : m <= n => \E f : Upto(m, f)}
<1>1. 0 \in S
  <2>1. Upto(0, [i \in 1..0 |-> 0])
    OBVIOUS
  <2> QED
    BY <2>1
<1>2. ASSUME NEW m \in Nat, m \in S PROVE m + 1 \in S
  <2> SUFFICES ASSUME m + 1 <= n PROVE \E f : Upto(m + 1, f)
    OBVIOUS
  <2>1. PICK f : Upto(m, f)
    BY <1>2
  <2> DEFINE next == IF m = 0 THEN 1 ELSE f[m] + lens[m] + 1
             g == [i \in 1..(m + 1) |-> IF i = m + 1 THEN next ELSE f[i]]
  <2>2. next \in Nat
    <3>1. m # 0 => m \in 1..n /\ m \in 1..m
      OBVIOUS
    <3>2. m # 0 => lens[m] \in Nat /\ f[m] \in Nat
      BY <2>1, <3>1, AudioAssumption
    <3> QED
      BY <3>2
  <2>3. g \in [1..(m + 1) -> Nat]
    BY <2>1, <2>2
  <2>4. ASSUME NEW i \in 1..(m + 1)
        PROVE  g[i] = IF i = 1 THEN 1 ELSE g[i - 1] + lens[i - 1] + 1
    <3>1. CASE i = m + 1
      BY <2>1, <3>1
    <3>2. CASE i # m + 1
      BY <2>1, <3>2
    <3> QED
      BY <3>1, <3>2
  <2> HIDE DEF g
  <2>5. Upto(m + 1, g)
    BY <2>3, <2>4
  <2> QED
    BY <2>5
<1> HIDE DEF Upto
<1>3. \E f : Upto(n, f)
  <2> HIDE DEF S
  <2>1. n \in S
    BY <1>1, <1>2, Induction
  <2> QED
    BY <2>1 DEF S
<1> USE DEF Upto
<1>4. PICK f : Upto(n, f)
  BY <1>3
<1> DEFINE h == [i \in 1..n |-> IF i = 1 THEN 1 ELSE f[i - 1] + lens[i - 1] + 1]
<1>5. f = h
  <2>1. \A i \in 1..n : f[i] = h[i]
    BY <1>4
  <2>2. f \in [1..n -> Nat] /\ DOMAIN h = 1..n /\ h = [i \in 1..n |-> h[i]]
    BY <1>4
  <2>3. f = [i \in 1..n |-> f[i]]
    BY <2>2
  <2> HIDE DEF h, Upto
  <2> QED
    BY <2>1, <2>2, <2>3
<1> QED
  BY <1>5, Zenon

\* The addresses of Placed are numbers.
LEMMA PlacesNat ==
  ASSUME NEW n \in Nat, NEW lens \in [1..n -> Lengths], NEW f,
         \A i \in 1..n : f[i] = IF i = 1 THEN 1 ELSE f[i - 1] + lens[i - 1] + 1
  PROVE  \A i \in 1..n : f[i] \in Nat
<1> DEFINE S == {m \in Nat : m + 1 <= n => f[m + 1] \in Nat}
<1>2. 0 \in S
  OBVIOUS
<1>3. ASSUME NEW m \in Nat, m \in S PROVE m + 1 \in S
  <2> SUFFICES ASSUME m + 2 <= n PROVE f[m + 2] \in Nat
    OBVIOUS
  <2>1. m + 1 \in 1..n /\ m + 2 \in 1..n /\ m + 2 # 1 /\ (m + 2) - 1 = m + 1
    OBVIOUS
  <2>2. f[m + 2] = f[m + 1] + lens[m + 1] + 1
    BY <2>1
  <2>3. f[m + 1] \in Nat
    <3>1. m + 1 <= n
      OBVIOUS
    <3> QED
      BY <1>3, <3>1
  <2>4. lens[m + 1] \in Nat
    <3>1. lens[m + 1] \in Lengths
      BY <2>1
    <3> QED
      BY <3>1, AudioAssumption
  <2> QED
    BY <2>2, <2>3, <2>4
<1>4. \A i \in 1..n : f[i] \in Nat
  <2> HIDE DEF S
  <2>1. \A m \in Nat : m \in S
    BY <1>2, <1>3, Induction
  <2>2. ASSUME NEW i \in 1..n PROVE f[i] \in Nat
    <3>1. i - 1 \in Nat /\ (i - 1) + 1 = i /\ i <= n
      OBVIOUS
    <3>2. i - 1 \in S
      BY <2>1, <3>1
    <3> QED
      BY <3>1, <3>2 DEF S
  <2> QED
    BY <2>2
<1> QED
  BY <1>4

\* An image as Placed makes it.
LEMMA ImagePlaced ==
  ASSUME NEW n \in Nat, NEW kinds \in [1..n -> Kind], NEW lens \in [1..n -> Lengths],
         files = Placed(kinds, lens), flashed = n
  PROVE  Image /\ \A i \in 1..flashed : files[i].whole
<1> DEFINE Places(f) == f = [i \in 1..n |-> IF i = 1 THEN 1
                                            ELSE f[i - 1] + lens[i - 1] + 1]
           at == CHOOSE f : Places(f)
<1>1. at = [i \in 1..n |-> IF i = 1 THEN 1 ELSE at[i - 1] + lens[i - 1] + 1]
      /\ at \in [1..n -> Nat]
  <2>1. \E f : Places(f)
    BY PlacesExist
  <2>2. Places(at)
    <3> HIDE DEF Places
    <3> QED
      BY <2>1, Zenon
  <2> HIDE DEF at
  <2>3. /\ \A i \in 1..n : at[i] = IF i = 1 THEN 1 ELSE at[i - 1] + lens[i - 1] + 1
        /\ at = [i \in 1..n |-> at[i]]
    BY <2>2
  <2>4. \A i \in 1..n : at[i] \in Nat
    BY <2>3, PlacesNat
  <2>5. at \in [1..n -> Nat]
    BY <2>3, <2>4
  <2> QED
    BY <2>2, <2>5
<1>2. files = [i \in 1..n |-> [kind |-> kinds[i], len |-> lens[i], whole |-> TRUE,
                               at |-> at[i]]]
  BY DEF Placed
<1> HIDE DEF at
<1>3. files \in [1..n -> File]
  BY <1>1, <1>2 DEF File
<1>4. files \in Seq(File) /\ Len(files) = n
  BY <1>3
<1>5. ASSUME NEW i \in 1..flashed PROVE files[i].at = EndOf(i - 1) + 1
  <2>1. files[i].at = at[i]
    BY <1>2
  <2>2. i # 1 => files[i - 1].at = at[i - 1] /\ files[i - 1].len = lens[i - 1]
    BY <1>2
  <2>3. at[i] = IF i = 1 THEN 1 ELSE at[i - 1] + lens[i - 1] + 1
    BY <1>1
  <2> QED
    BY <2>1, <2>2, <2>3 DEF EndOf, End
<1>6. \A i \in 1..flashed : files[i].whole
  BY <1>2
<1> QED
  BY <1>4, <1>5, <1>6 DEF Image

\* The fields of a file have their types.
LEMMA FileTyped ==
  ASSUME Image, NEW i \in 1..Len(files)
  PROVE  /\ files[i] \in File /\ files[i].at \in Nat /\ files[i].len \in Nat \ {0}
         /\ files[i].kind \in Kind /\ End(files[i]) \in Nat
<1>1. files[i] \in File
  BY DEF Image
<1>2. files[i].at \in Nat /\ files[i].len \in Nat \ {0} /\ files[i].kind \in Kind
  BY <1>1, AudioAssumption DEF File
<1> QED
  BY <1>1, <1>2 DEF End

\* A later file of the image stands behind an earlier one.
LEMMA InOrder ==
  ASSUME Image
  PROVE  \A i, j \in 1..flashed : i < j => End(files[i]) < files[j].at
<1> DEFINE S == {j \in Nat : j <= flashed =>
                   \A i \in 1..flashed : i < j => End(files[i]) < files[j].at}
<1>0. \A i \in 1..flashed : i \in 1..Len(files)
  BY DEF Image
<1>1. 0 \in S
  BY <1>0 DEF Image
<1>2. ASSUME NEW j \in Nat, j \in S PROVE j + 1 \in S
  <2> SUFFICES ASSUME j + 1 <= flashed, NEW i \in 1..flashed, i < j + 1
               PROVE  End(files[i]) < files[j + 1].at
    OBVIOUS
  <2>1. j \in 1..flashed /\ j + 1 \in 1..flashed /\ flashed \in Nat
    BY DEF Image
  <2>2. files[j + 1].at = End(files[j]) + 1
    BY <2>1 DEF Image, EndOf
  <2>3. End(files[j]) \in Nat /\ files[j].at < End(files[j]) /\ End(files[i]) \in Nat
    BY <1>0, <2>1, FileTyped DEF End
  <2>4. CASE i = j
    BY <2>2, <2>3, <2>4
  <2>5. CASE i < j
    <3>1. End(files[i]) < files[j].at
      BY <1>2, <2>1, <2>5
    <3>2. files[j].at \in Nat
      BY <1>0, <2>1, FileTyped
    <3> QED
      BY <2>2, <2>3, <3>1, <3>2
  <2> QED
    BY <2>1, <2>4, <2>5
<1> HIDE DEF S
<1>3. \A j \in Nat : j \in S
  BY <1>1, <1>2, Induction
<1>4. \A j \in 1..flashed : j \in Nat /\ j \in S
  BY <1>3 DEF Image
<1> QED
  BY <1>4 DEF S

\* Behind the k-th file struct_build finds the header of the next, and of no other.
LEMMA HeaderNext ==
  ASSUME Image, NEW k \in 0..flashed
  PROVE  /\ EndOf(k) \in Nat
         /\ HeaderAt(EndOf(k)) = IF k < flashed THEN {k + 1} ELSE {}
<1>0. flashed \in Nat /\ \A i \in 1..flashed : i \in 1..Len(files)
  BY DEF Image
<1>1. EndOf(k) \in Nat
  BY <1>0, FileTyped DEF EndOf
<1>2. ASSUME NEW i \in 1..flashed, files[i].at = EndOf(k) + 1 PROVE i = k + 1
  <2>1. End(files[i]) \in Nat /\ files[i].at \in Nat /\ files[i].at < End(files[i])
    BY <1>0, FileTyped DEF End
  <2>2. CASE i <= k
    <3>1. End(files[i]) <= EndOf(k)
      <4>1. CASE i = k
        BY <2>1, <4>1, <1>0 DEF EndOf
      <4>2. CASE i < k
        <5>1. k \in 1..flashed /\ k \in 1..Len(files)
          BY <1>0, <4>2
        <5>2. End(files[i]) < files[k].at
          BY <4>2, <5>1, InOrder
        <5>3. files[k].at \in Nat /\ files[k].at < End(files[k])
          BY <5>1, FileTyped DEF End
        <5> QED
          BY <1>1, <2>1, <5>1, <5>2, <5>3 DEF EndOf
      <4> QED
        BY <2>2, <4>1, <4>2, <1>0
    <3> QED
      BY <1>1, <1>2, <2>1, <3>1
  <2>3. CASE i > k + 1
    <3>1. k + 1 \in 1..flashed /\ k + 1 \in 1..Len(files)
      BY <1>0, <2>3
    <3>2. End(files[k + 1]) < files[i].at
      BY <2>3, <3>1, InOrder
    <3>3. files[k + 1].at = EndOf(k) + 1
      BY <1>0, <3>1 DEF Image
    <3>4. /\ files[k + 1].at \in Nat /\ files[k + 1].at < End(files[k + 1])
          /\ End(files[k + 1]) \in Nat
      BY <3>1, FileTyped DEF End
    <3> QED
      BY <1>1, <1>2, <2>1, <3>2, <3>3, <3>4
  <2> QED
    BY <1>0, <2>2, <2>3
<1>3. k < flashed => k + 1 \in 1..flashed /\ files[k + 1].at = EndOf(k) + 1
  BY <1>0 DEF Image
<1> QED
  BY <1>0, <1>1, <1>2, <1>3 DEF HeaderAt

-----------------------------------------------------------------------------
(* The record struct_build makes. *)

\* The first k files of a kind.
OfKind(k, kind) == {i \in 1..k : files[i].kind = kind}

\* The record holds the first k files of the image, all of which are entered.
Holds(rec, k) ==
  /\ k \in 0..flashed /\ k <= ScanLimit /\ \A i \in 1..k : ~ Refused(i)
  /\ rec.on = EntryOf(OfKind(k, "on")) /\ rec.off = EntryOf(OfKind(k, "off"))
  /\ rec.start = EndOf(k)

\* Nothing is entered behind the k-th file.
Complete(k) == k = flashed \/ k = ScanLimit \/ Refused(k + 1)

\* The record holds the files up to where the scan stops.
Built(rec) == \E k \in 0..flashed : Holds(rec, k) /\ Complete(k)

\* A turn that does not enter its file is repeated until enough headers are read.
Scanning ==
  /\ reads <= ScanLimit
  /\ \E k \in 0..flashed : /\ Holds(ram, k) /\ k <= reads
                           /\ k = reads \/ (k < flashed /\ Refused(k + 1))

\* The record in flash, and that in RAM, are ones a scan of the image makes, at every
\* step of either.
TableInv ==
  /\ Image /\ ram \in Record /\ disk \in Record /\ reads \in Nat
  /\ pc = "scan" => ram.flag /\ Scanning
  /\ pc \in {"erase", "program", "finish"} => ram.flag /\ Built(ram)
  /\ pc \in {"load", "up"} => disk.flag
  /\ disk.flag => Built(disk)

\* The last of a set of files is one of them.
LEMMA LastIn ==
  ASSUME NEW k \in Nat, NEW S \in SUBSET (1..k), S # {}
  PROVE  Max(S) \in S /\ \A i \in S : Max(S) >= i
<1>1. \E i \in S : \A j \in S : j <= i
  <2>1. S \in SUBSET Nat /\ \A i \in S : i <= k
    OBVIOUS
  <2> QED
    BY <2>1, Greatest
<1>2. \E i \in S : \A j \in S : i >= j
  <2>1. S \in SUBSET Nat
    OBVIOUS
  <2> QED
    BY <1>1, <2>1
<1> QED
  BY <1>2 DEF Max

\* So has an entry of the record, and it differs from the erased one.
LEMMA EntryTyped ==
  ASSUME NEW at \in Nat, NEW len \in Nat
  PROVE  Entry(at, len) \in FileEntry /\ (at # 0 => Entry(at, len) # NoFile)
<1>1. len % SizeWrap \in Nat
  <2>1. SizeWrap \in Nat \ {0}
    BY AudioAssumption
  <2> QED
    BY <2>1, DivMod
<1>2. Entry(at, len) \in FileEntry
  BY <1>1 DEF Entry, FileEntry
<1>3. Entry(at, len).at = at /\ NoFile.at = 0
  BY DEF Entry, NoFile
<1> QED
  BY <1>2, <1>3

\* The entry of a set of files is empty exactly when the set is.
LEMMA EntryOfSet ==
  ASSUME Image, NEW k \in 0..flashed, NEW S \in SUBSET (1..k)
  PROVE  EntryOf(S) \in FileEntry /\ (EntryOf(S) = NoFile <=> S = {})
<1>1. CASE S = {}
  BY <1>1 DEF EntryOf, NoFile, FileEntry
<1>2. CASE S # {}
  <2>1. k \in Nat /\ flashed \in Nat /\ flashed <= Len(files) /\ Len(files) \in Nat
    BY DEF Image
  <2>2. Max(S) \in S /\ \A i \in S : Max(S) >= i
    <3>1. k \in Nat
      BY <2>1
    <3> QED
      BY <1>2, <3>1, LastIn, Zenon
  <2> DEFINE m == Max(S)
  <2>3. m \in 1..flashed /\ m \in 1..Len(files)
    <3>1. m \in 1..k
      BY <2>2
    <3> HIDE DEF m
    <3> QED
      BY <2>1, <3>1
  <2> HIDE DEF m
  <2>4. files[m].at \in Nat /\ files[m].len \in Nat
    BY <2>3, FileTyped
  <2>5. files[m].at # 0
    <3>1. files[m].at = EndOf(m - 1) + 1 /\ m - 1 \in 0..flashed
      BY <2>1, <2>3 DEF Image
    <3>2. EndOf(m - 1) \in Nat
      BY <3>1, HeaderNext
    <3> QED
      BY <3>1, <3>2
  <2> QED
    BY <1>2, <2>4, <2>5, EntryTyped DEF EntryOf, m
<1> QED
  BY <1>1, <1>2

\* The record the scan begins with enters no file.
LEMMA FreshHolds ==
  ASSUME Image PROVE Holds(Fresh, 0) /\ Fresh \in Record /\ Fresh.flag /\ Erased \in Record
                     /\ ~ Erased.flag
<1>1. NoFile \in FileEntry
  BY DEF NoFile, FileEntry
<1>2. Erased \in Record /\ Erased.flag = FALSE /\ Erased.start = 0
      /\ Erased.on = NoFile /\ Erased.off = NoFile
  BY <1>1 DEF Erased, Record
<1>3. /\ Fresh \in Record /\ Fresh.flag
      /\ Fresh.start = 0 /\ Fresh.on = NoFile /\ Fresh.off = NoFile
  BY <1>2 DEF Fresh, Record
<1>4. OfKind(0, "on") = {} /\ OfKind(0, "off") = {}
  BY DEF OfKind
<1>5. 0 \in 0..flashed /\ 0 <= ScanLimit /\ \A i \in 1..0 : ~ Refused(i)
  BY AudioAssumption DEF Image
<1> QED
  BY <1>2, <1>3, <1>4, <1>5 DEF Holds, EntryOf, EndOf

\* file_type_storage enters the next file, or leaves the record as it is.
LEMMA StoredNext ==
  ASSUME Image, NEW rec \in Record, NEW k \in 0..flashed, Holds(rec, k), k < flashed
  PROVE  /\ Stored(rec, files[k + 1]) \in Record
         /\ Stored(rec, files[k + 1]).flag = rec.flag
         /\ Refused(k + 1) => Stored(rec, files[k + 1]) = rec
         /\ ~ Refused(k + 1) /\ k < ScanLimit => Holds(Stored(rec, files[k + 1]), k + 1)
<1> DEFINE file == files[k + 1]
<1>0. flashed \in Nat /\ k \in Nat /\ k + 1 \in 1..flashed /\ k + 1 \in 1..Len(files)
  BY DEF Image
<1>1. /\ file.at = rec.start + 1 /\ rec.start \in Nat
      /\ file.len \in Nat \ {0} /\ file.kind \in Kind /\ EndOf(k + 1) = rec.start + 1 + file.len
  <2>1. file.at = EndOf(k) + 1
    BY <1>0 DEF Image
  <2>2. EndOf(k + 1) = file.at + file.len
    BY <1>0 DEF EndOf, End
  <2> QED
    BY <1>0, <2>1, <2>2, FileTyped DEF Holds, Record
<1> DEFINE entry == Entry(rec.start + 1, file.len)
<1>2. entry \in FileEntry /\ entry # NoFile
  BY <1>1, EntryTyped
<1> DEFINE on == [rec EXCEPT !.on = entry, !.start = @ + 1 + file.len]
           off == [rec EXCEPT !.off = entry, !.start = @ + 1 + file.len]
<1>3. on \in Record /\ on.flag = rec.flag /\ on.on = entry /\ on.off = rec.off
      /\ on.start = EndOf(k + 1)
  <2> HIDE DEF entry, file
  <2>1. rec.start + 1 + file.len \in Nat
    BY <1>1
  <2>2. on \in Record
    BY <1>2, <2>1 DEF Record
  <2>3. on.flag = rec.flag
    BY DEF Record
  <2>4. on.on = entry /\ on.off = rec.off /\ on.start = rec.start + 1 + file.len
    BY DEF Record
  <2> QED
    BY <1>1, <2>2, <2>3, <2>4
<1>4. off \in Record /\ off.flag = rec.flag /\ off.off = entry /\ off.on = rec.on
      /\ off.start = EndOf(k + 1)
  <2> HIDE DEF entry, file
  <2>1. rec.start + 1 + file.len \in Nat
    BY <1>1
  <2>2. off \in Record
    BY <1>2, <2>1 DEF Record
  <2>3. off.flag = rec.flag
    BY DEF Record
  <2>4. off.off = entry /\ off.on = rec.on /\ off.start = rec.start + 1 + file.len
    BY DEF Record
  <2> QED
    BY <1>1, <2>2, <2>3, <2>4
<1>5. rec.on = NoFile <=> OfKind(k, "on") = {}
  BY EntryOfSet DEF Holds, OfKind
<1>6. Refused(k + 1) <=> file.kind = "warm" \/ (file.kind = "on" /\ rec.on # NoFile)
  BY <1>0, <1>5 DEF Refused, OfKind
<1>7. Stored(rec, file) = IF file.kind = "on" /\ rec.on = NoFile THEN on
                          ELSE IF file.kind = "off" THEN off ELSE rec
  BY <1>1 DEF Stored, Kind
<1>8. \A kind \in Kind : OfKind(k + 1, kind) = IF file.kind = kind
                                               THEN OfKind(k, kind) \cup {k + 1}
                                               ELSE OfKind(k, kind)
  BY <1>0 DEF OfKind
<1>9. EntryOf(OfKind(k + 1, file.kind)) = entry
  <2> DEFINE S == OfKind(k + 1, file.kind)
  <2>1. k + 1 \in S /\ S \in SUBSET (1..(k + 1))
    BY <1>0 DEF OfKind
  <2>2. Max(S) \in S /\ \A i \in S : Max(S) >= i
    <3>1. k + 1 \in Nat /\ S # {}
      BY <1>0, <2>1
    <3> HIDE DEF S
    <3> QED
      BY <2>1, <3>1, LastIn, Zenon
  <2>3. Max(S) = k + 1
    BY <1>0, <2>1, <2>2
  <2> QED
    BY <1>1, <2>1, <2>3 DEF EntryOf
<1>10. ASSUME ~ Refused(k + 1), k < ScanLimit
       PROVE  /\ k + 1 \in 0..flashed /\ k + 1 <= ScanLimit
              /\ \A i \in 1..(k + 1) : ~ Refused(i)
  <2>1. \A i \in 1..(k + 1) : i = k + 1 \/ i \in 1..k
    BY <1>0
  <2> QED
    BY <1>0, <1>10, <2>1, AudioAssumption DEF Holds
<1> HIDE DEF on, off, entry, file
<1>11. CASE file.kind = "on" /\ rec.on = NoFile
  <2>1. ~ Refused(k + 1) /\ Stored(rec, file) = on
    BY <1>6, <1>7, <1>11
  <2>2. on.on = EntryOf(OfKind(k + 1, "on")) /\ on.off = EntryOf(OfKind(k + 1, "off"))
    BY <1>3, <1>8, <1>9, <1>11 DEF Holds, Kind
  <2> QED
    BY <1>3, <1>10, <2>1, <2>2 DEF Holds, file
<1>12. CASE file.kind = "off"
  <2>1. ~ Refused(k + 1) /\ Stored(rec, file) = off
    BY <1>6, <1>7, <1>12
  <2>2. off.on = EntryOf(OfKind(k + 1, "on")) /\ off.off = EntryOf(OfKind(k + 1, "off"))
    BY <1>4, <1>8, <1>9, <1>12 DEF Holds, Kind
  <2> QED
    BY <1>4, <1>10, <2>1, <2>2 DEF Holds, file
<1>13. CASE file.kind = "warm" \/ (file.kind = "on" /\ rec.on # NoFile)
  <2>1. Refused(k + 1) /\ Stored(rec, file) = rec
    BY <1>6, <1>7, <1>13
  <2> QED
    BY <2>1 DEF file
<1> QED
  BY <1>1, <1>11, <1>12, <1>13 DEF Kind, file

-----------------------------------------------------------------------------
(* What audio_write changes, and what it leaves. *)

\* A write may damage a file, but never moves it.
Same(i) == /\ files'[i].kind = files[i].kind /\ files'[i].len = files[i].len
           /\ files'[i].at = files[i].at

\* What a write does to the files: those it touches are damaged, and its own stands whole
\* at its end.
LEMMA Written ==
  ASSUME Image, UNCHANGED flashed, NEW a \in Nat, NEW kind \in Kind, NEW len \in Lengths,
         AudioWrite(a, kind, len)
  PROVE  /\ Image' /\ Len(files') = Len(files) + 1
         /\ \A i \in 1..Len(files) : Same(i)
         /\ \A i \in 1..Len(files) :
              files[i].whole /\ (files[i].at .. End(files[i]) - 1) \cap Touched(a, len) = {}
                => files'[i].whole
         /\ files'[Len(files) + 1] = [kind |-> kind, len |-> len, whole |-> TRUE, at |-> a]
<1> DEFINE n == Len(files)
           after == [i \in DOMAIN files |->
                       [files[i] EXCEPT !.whole =
                          @ /\ (files[i].at .. End(files[i]) - 1) \cap Touched(a, len) = {}]]
           new == [kind |-> kind, len |-> len, whole |-> TRUE, at |-> a]
<1>1. n \in Nat /\ DOMAIN files = 1..n /\ \A i \in 1..n : files[i] \in File
  BY DEF Image
<1>2. DOMAIN after = 1..n /\ after = [i \in 1..n |-> after[i]]
  BY <1>1
<1>3. ASSUME NEW i \in 1..n
      PROVE  /\ after[i] \in File /\ after[i].kind = files[i].kind
             /\ after[i].len = files[i].len /\ after[i].at = files[i].at
             /\ files[i].whole /\ (files[i].at .. End(files[i]) - 1) \cap Touched(a, len) = {}
                  => after[i].whole
  <2> DEFINE ok == files[i].whole
                   /\ (files[i].at .. End(files[i]) - 1) \cap Touched(a, len) = {}
  <2>1. after[i] = [files[i] EXCEPT !.whole = ok]
    BY <1>1
  <2>2. ok \in BOOLEAN
    OBVIOUS
  <2>3. files[i] \in File
    BY <1>1
  <2> HIDE DEF ok, after
  <2>4. after[i] \in File
    BY <2>1, <2>2, <2>3 DEF File
  <2>5. after[i].kind = files[i].kind /\ after[i].len = files[i].len
        /\ after[i].at = files[i].at
    BY <2>1, <2>3 DEF File
  <2>6. ok => after[i].whole
    BY <2>1, <2>3 DEF File
  <2> QED
    BY <2>4, <2>5, <2>6 DEF ok
<1>4. files' = Append(after, new)
  BY DEF AudioWrite
<1>5. new \in File
  BY DEF File
<1> HIDE DEF after, new
<1>6. after \in Seq(File) /\ Len(after) = n
  <2>1. after \in [1..n -> File]
    BY <1>2, <1>3
  <2> QED
    BY <1>1, <2>1
<1>7. /\ files' \in Seq(File) /\ Len(files') = n + 1 /\ files'[n + 1] = new
      /\ \A i \in 1..n : files'[i] = after[i]
  BY <1>1, <1>4, <1>5, <1>6
<1>8. \A i \in 1..n : Same(i)
  BY <1>3, <1>7 DEF Same
<1>9. Image'
  <2>1. \A i \in 1..flashed : i \in 1..n /\ (i # 1 => i - 1 \in 1..n)
    BY <1>1 DEF Image
  <2>2. \A i \in 1..flashed : files'[i].at = EndOf(i - 1)' + 1
    BY <1>8, <2>1 DEF Image, EndOf, End, Same
  <2> QED
    BY <1>1, <1>7, <2>2 DEF Image
<1>10. \A i \in 1..n : files[i].whole
           /\ (files[i].at .. End(files[i]) - 1) \cap Touched(a, len) = {} => files'[i].whole
  BY <1>3, <1>7
<1> QED
  BY <1>7, <1>8, <1>9, <1>10 DEF new

\* What is to be entered does not change while files are only added.
LEMMA TableSame ==
  ASSUME Image, UNCHANGED flashed, \A i \in 1..flashed : Same(i), NEW k \in 0..flashed
  PROVE  /\ EntryOf(OfKind(k, "on"))' = EntryOf(OfKind(k, "on"))
         /\ EntryOf(OfKind(k, "off"))' = EntryOf(OfKind(k, "off"))
         /\ EndOf(k)' = EndOf(k)
         /\ \A i \in 1..flashed : Refused(i)' <=> Refused(i)
         /\ Complete(k)' <=> Complete(k)
<1>2. flashed \in Nat /\ k \in Nat /\ \A i \in 1..k : i \in 1..flashed
  BY DEF Image
<1>3. \A i \in 1..flashed : Refused(i)' <=> Refused(i)
  <2>1. ASSUME NEW i \in 1..flashed PROVE Refused(i)' <=> Refused(i)
    <3>1. \A j \in 1..(i - 1) : j \in 1..flashed
      BY <1>2
    <3> QED
      BY <3>1 DEF Refused, Same
  <2> QED
    BY <2>1
<1>4. \A kind : OfKind(k, kind)' = OfKind(k, kind)
  BY <1>2 DEF OfKind, Same
<1>5. \A S \in SUBSET (1..k) : EntryOf(S)' = EntryOf(S)
  <2>1. ASSUME NEW S \in SUBSET (1..k), S # {} PROVE Max(S) \in 1..flashed
    <3>1. Max(S) \in S /\ \A i \in S : Max(S) >= i
      BY <1>2, <2>1, LastIn, Zenon
    <3>2. Max(S) \in 1..k
      BY <3>1
    <3> QED
      BY <1>2, <3>2
  <2> QED
    BY <2>1 DEF EntryOf, Same
<1>6. EndOf(k)' = EndOf(k)
  BY <1>2 DEF EndOf, End, Same
<1>7. OfKind(k, "on") \in SUBSET (1..k) /\ OfKind(k, "off") \in SUBSET (1..k)
  BY DEF OfKind
<1>8. EntryOf(OfKind(k, "on"))' = EntryOf(OfKind(k, "on"))
  BY <1>4, <1>5, <1>7 DEF EntryOf, Same
<1>9. EntryOf(OfKind(k, "off"))' = EntryOf(OfKind(k, "off"))
  BY <1>4, <1>5, <1>7 DEF EntryOf, Same
<1>10. Complete(k)' <=> Complete(k)
  <2>1. k < flashed => k + 1 \in 1..flashed
    BY <1>2
  <2>2. k = flashed \/ k < flashed
    BY <1>2
  <2> QED
    BY <1>3, <2>1, <2>2 DEF Complete
<1> QED
  BY <1>3, <1>6, <1>8, <1>9, <1>10

\* Of a record only the table counts, and of the files what is not changed.
LEMMA BuiltStays ==
  ASSUME Image, UNCHANGED flashed, \A i \in 1..flashed : Same(i)
  PROVE  /\ Built(disk) /\ disk'.on = disk.on /\ disk'.off = disk.off
              /\ disk'.start = disk.start => Built(disk)'
         /\ Built(ram) /\ disk'.on = ram.on /\ disk'.off = ram.off
              /\ disk'.start = ram.start => Built(disk)'
         /\ Built(ram) /\ ram' = ram => Built(ram)'
<1>1. \A k \in 0..flashed :
        /\ EntryOf(OfKind(k, "on"))' = EntryOf(OfKind(k, "on"))
        /\ EntryOf(OfKind(k, "off"))' = EntryOf(OfKind(k, "off"))
        /\ EndOf(k)' = EndOf(k) /\ (Complete(k)' <=> Complete(k))
  BY TableSame
<1>2. \A k \in 0..flashed : \A i \in 1..k : (Refused(i)' <=> Refused(i))
  <2>1. 0 \in 0..flashed /\ \A k \in 0..flashed : \A i \in 1..k : i \in 1..flashed
    BY DEF Image
  <2> QED
    BY <2>1, TableSame
<1> QED
  BY <1>1, <1>2 DEF Built, Holds

-----------------------------------------------------------------------------
(* The record is true. *)

\* The erased flash says that no record is there.
LEMMA TableInit == Init => TableInv
<1> SUFFICES ASSUME Init PROVE TableInv
  OBVIOUS
<1>1. PICK n \in 0..MaxFiles :
        \E kinds \in [1..n -> Kind], lens \in [1..n -> Lengths] :
          files = Placed(kinds, lens) /\ flashed = n
  BY DEF Init
<1>2. Image
  <2>1. n \in Nat
    BY AudioAssumption
  <2> QED
    BY <1>1, <2>1, ImagePlaced
<1>3. Erased \in Record /\ ~ Erased.flag
  BY <1>2, FreshHolds
<1> QED
  BY <1>2, <1>3 DEF Init, TableInv

\* A scan that has come to m.
LEMMA ScanStays ==
  ASSUME Image, UNCHANGED flashed, \A i \in 1..flashed : Same(i), reads' <= ScanLimit,
         NEW m \in 0..flashed, Holds(ram', m), m <= reads',
         m = reads' \/ (m < flashed /\ Refused(m + 1))
  PROVE  Scanning'
<1>1. /\ EntryOf(OfKind(m, "on"))' = EntryOf(OfKind(m, "on"))
      /\ EntryOf(OfKind(m, "off"))' = EntryOf(OfKind(m, "off"))
      /\ EndOf(m)' = EndOf(m) /\ \A i \in 1..flashed : (Refused(i)' <=> Refused(i))
  BY TableSame
<1>2. /\ \A i \in 1..m : i \in 1..flashed
      /\ m < flashed => m + 1 \in 1..flashed
  BY DEF Image
<1>3. /\ m \in 0..flashed' /\ m <= ScanLimit /\ \A i \in 1..m : ~ Refused(i)'
      /\ ram'.on = EntryOf(OfKind(m, "on"))' /\ ram'.off = EntryOf(OfKind(m, "off"))'
      /\ ram'.start = EndOf(m)'
  BY <1>1, <1>2 DEF Holds
<1>4. m = reads' \/ (m < flashed' /\ Refused(m + 1)')
  BY <1>1, <1>2
<1> QED
  BY <1>3, <1>4 DEF Scanning, Holds

\* The scan enters a file and goes on to the next header.
LEMMA ScanStep == TableInv /\ ScanHeader => TableInv'
<1> SUFFICES ASSUME TableInv, ScanHeader PROVE TableInv'
  OBVIOUS
<1>1. PICK k \in 0..flashed : /\ Holds(ram, k) /\ k <= reads
                              /\ k = reads \/ (k < flashed /\ Refused(k + 1))
  BY DEF TableInv, ScanHeader, Scanning
<1>2. k < flashed /\ ram' = Stored(ram, files[k + 1])
  <2>1. ram.start = EndOf(k)
    BY <1>1 DEF Holds
  <2>2. HeaderAt(ram.start) = IF k < flashed THEN {k + 1} ELSE {}
    BY <2>1, HeaderNext DEF TableInv
  <2> QED
    BY <2>2 DEF ScanHeader
<1>3. Image /\ ram \in Record /\ reads \in Nat /\ reads < ScanLimit /\ reads' = reads + 1
      /\ pc = "scan" /\ ram.flag
  BY DEF TableInv, ScanHeader
<1>4. UNCHANGED <<files, flashed, disk, pc>>
  BY DEF ScanHeader
<1>5. /\ ram' \in Record /\ ram'.flag
      /\ Refused(k + 1) => ram' = ram
      /\ ~ Refused(k + 1) /\ k < ScanLimit => Holds(ram', k + 1)
  BY <1>1, <1>2, <1>3, StoredNext
<1>6. k \in Nat /\ flashed \in Nat /\ ScanLimit \in Nat
  BY <1>3, AudioAssumption DEF Image
<1>7. \E m \in 0..flashed : /\ Holds(ram', m) /\ m <= reads + 1
                            /\ m = reads + 1 \/ (m < flashed /\ Refused(m + 1))
  <2>1. CASE Refused(k + 1)
    BY <1>1, <1>2, <1>3, <1>5, <1>6, <2>1
  <2>2. CASE ~ Refused(k + 1)
    <3>1. k = reads /\ Holds(ram', k + 1) /\ k + 1 \in 0..flashed
      BY <1>1, <1>2, <1>3, <1>5, <1>6, <2>2
    <3> QED
      BY <1>6, <3>1
  <2> QED
    BY <2>1, <2>2
<1>8. Scanning'
  <2>1. reads' <= ScanLimit
    BY <1>3, <1>6
  <2> QED
    BY <1>3, <1>4, <1>7, <2>1, ScanStays DEF Same
<1>9. Built(disk) => Built(disk)'
  BY <1>3, <1>4, BuiltStays DEF Same
<1> QED
  BY <1>3, <1>4, <1>5, <1>8, <1>9 DEF TableInv, Image, EndOf

\* When the scan ends, what it made is the record of the image.
LEMMA ScanEnds == TableInv /\ ScanDone => Built(ram)
<1> SUFFICES ASSUME TableInv, ScanDone PROVE Built(ram)
  OBVIOUS
<1>1. PICK k \in 0..flashed : /\ Holds(ram, k) /\ k <= reads
                              /\ k = reads \/ (k < flashed /\ Refused(k + 1))
  BY DEF TableInv, ScanDone, Scanning
<1>2. reads = ScanLimit \/ HeaderAt(ram.start) = {}
  BY DEF ScanDone
<1>3. HeaderAt(ram.start) = {} => k = flashed
  <2>1. ram.start = EndOf(k)
    BY <1>1 DEF Holds
  <2>2. HeaderAt(ram.start) = IF k < flashed THEN {k + 1} ELSE {}
    BY <2>1, HeaderNext DEF TableInv
  <2>3. flashed \in Nat /\ k \in Nat /\ k <= flashed
    BY DEF TableInv, Image
  <2>4. {k + 1} # {}
    OBVIOUS
  <2> QED
    BY <2>2, <2>3, <2>4
<1>4. Complete(k)
  BY <1>1, <1>2, <1>3 DEF Complete
<1> QED
  BY <1>1, <1>4 DEF Built

\* file_write advances by whole sectors, and far enough.
LEMMA AdvancedNat ==
  ASSUME NEW len \in Lengths
  PROVE  /\ Advanced(len) \in Nat /\ Advanced(len) >= len
         /\ \E q \in Nat : Advanced(len) = Sector * q
<1>1. Sector \in Nat \ {0} /\ len \in Nat
  BY AudioAssumption
<1>2. /\ len \div Sector \in Nat /\ len % Sector \in 0..(Sector - 1)
      /\ len = Sector * (len \div Sector) + (len % Sector)
  BY <1>1, DivMod
<1> DEFINE q == len \div Sector
           r == len % Sector
<1>3. Advanced(len) = IF r # 0 THEN Sector * (q + 1) ELSE len
  BY DEF Advanced
<1>4. q \in Nat /\ r \in 0..(Sector - 1) /\ len = Sector * q + r
  BY <1>2
<1> HIDE DEF q, r
<1>5. Sector * (q + 1) = Sector * q + Sector /\ Sector * q \in Nat
  BY <1>1, <1>4
<1>6. CASE r # 0
  <2>1. Advanced(len) = Sector * (q + 1) /\ q + 1 \in Nat
    BY <1>3, <1>4, <1>6
  <2>2. Advanced(len) \in Nat /\ Advanced(len) >= len
    BY <1>1, <1>4, <1>5, <2>1
  <2> QED
    BY <2>1, <2>2, Zenon
<1>7. CASE r = 0
  BY <1>1, <1>3, <1>4, <1>5, <1>7
<1> QED
  BY <1>6, <1>7

\* file_write enters the file at the start, and moves the start on.
LEMMA RamWritten ==
  ASSUME ram \in Record, NEW kind \in Kind, NEW len \in Lengths,
         ram' = [Typed(ram, kind, len) EXCEPT !.start = @ + Advanced(len)]
  PROVE  /\ ram' \in Record /\ ram'.start = ram.start + Advanced(len)
         /\ ram'.on = ram.on \/ (kind = "on" /\ ram'.on = Entry(ram.start, len))
         /\ ram'.off = ram.off \/ (kind \in {"off", "warm"} /\ ram'.off = Entry(ram.start, len))
<1> DEFINE entry == Entry(ram.start, len)
           t == Typed(ram, kind, len)
<1>1. ram.start \in Nat /\ len \in Nat /\ Advanced(len) \in Nat
  BY AdvancedNat, AudioAssumption DEF Record
<1>2. entry \in FileEntry
  BY <1>1, EntryTyped
<1>3. \/ kind = "on" /\ t = [ram EXCEPT !.on = entry]
      \/ kind \in {"off", "warm"} /\ t = [ram EXCEPT !.off = entry]
      \/ t = ram
  BY DEF Typed, Kind
<1>4. ram' = [t EXCEPT !.start = @ + Advanced(len)]
  OBVIOUS
<1> HIDE DEF entry, t
<1>5. t \in Record
  BY <1>2, <1>3 DEF Record
<1>6. /\ t.start = ram.start
      /\ t.on = ram.on \/ (kind = "on" /\ t.on = entry)
      /\ t.off = ram.off \/ (kind \in {"off", "warm"} /\ t.off = entry)
  BY <1>3 DEF Record
<1>7. t.start + Advanced(len) \in Nat
  BY <1>1, <1>6
<1>8. ram' \in Record
  BY <1>4, <1>5, <1>7 DEF Record
<1>9. ram'.start = t.start + Advanced(len) /\ ram'.on = t.on /\ ram'.off = t.off
  BY <1>4, <1>5 DEF Record
<1> QED
  BY <1>6, <1>8, <1>9 DEF entry

\* Writing a file disturbs no record that is built.
LEMMA WriteStep ==
  ASSUME TableInv, NEW kind \in Kind, NEW len \in Lengths, FileWrite(kind, len)
  PROVE  TableInv'
<1>1. /\ pc = "up" /\ AudioWrite(ram.start, kind, len)
      /\ ram' = [Typed(ram, kind, len) EXCEPT !.start = @ + Advanced(len)]
      /\ UNCHANGED <<flashed, disk, pc, reads>>
  BY DEF FileWrite
<1>2. Image /\ ram \in Record /\ disk \in Record /\ reads \in Nat /\ disk.flag /\ Built(disk)
      /\ ram.start \in Nat
  BY <1>1 DEF TableInv, Record
<1>3. Image' /\ \A i \in 1..Len(files) : Same(i)
  BY <1>1, <1>2, Written
<1>4. Built(disk)'
  <2>1. \A i \in 1..flashed : Same(i)
    BY <1>2, <1>3 DEF Image
  <2> QED
    BY <1>1, <1>2, <2>1, BuiltStays
<1>5. ram' \in Record
  BY <1>1, <1>2, RamWritten
<1> QED
  BY <1>1, <1>2, <1>3, <1>4, <1>5 DEF TableInv

\* A step that leaves scan and files alone.
LEMMA ScanSame ==
  ASSUME Image, UNCHANGED <<files, flashed, ram, reads>>, Scanning
  PROVE  Scanning'
<1>1. PICK k \in 0..flashed : /\ Holds(ram, k) /\ k <= reads
                              /\ k = reads \/ (k < flashed /\ Refused(k + 1))
  BY DEF Scanning
<1>2. Holds(ram', k) /\ reads' <= ScanLimit /\ \A i \in 1..flashed : Same(i)
  BY <1>1 DEF Scanning, Holds, Same
<1> QED
  BY <1>1, <1>2, ScanStays

\* Every step, and every cut between two.
LEMMA TableStep == TableInv /\ [Next]_vars => TableInv'
<1> SUFFICES ASSUME TableInv, [Next]_vars PROVE TableInv'
  OBVIOUS
<1>0. /\ Image /\ ram \in Record /\ disk \in Record /\ reads \in Nat
      /\ Erased \in Record /\ ~ Erased.flag /\ Fresh \in Record /\ Fresh.flag
      /\ Holds(Fresh, 0)
  BY FreshHolds DEF TableInv
<1>image. UNCHANGED <<files, flashed>> => Image' /\ \A i \in 1..flashed : Same(i)
  BY <1>0 DEF Image, EndOf, Same
<1>1. CASE InitStruct
  <2>1. UNCHANGED <<files, flashed, disk>> /\ reads' = 0
        /\ ram' = (IF disk.flag THEN disk ELSE Fresh)
        /\ pc' = (IF disk.flag THEN "up" ELSE "scan")
    BY <1>1 DEF InitStruct
  <2>2. ~ disk.flag => Scanning'
    <3>1. 0 \in 0..flashed /\ 0 <= ScanLimit
      BY <1>0, AudioAssumption DEF Image
    <3> QED
      BY <1>0, <1>image, <2>1, <3>1, ScanStays
  <2>3. disk.flag => Built(disk)'
    BY <1>0, <1>image, <2>1, BuiltStays DEF TableInv
  <2> QED
    BY <1>0, <1>image, <2>1, <2>2, <2>3 DEF TableInv
<1>2. CASE ScanHeader
  BY <1>2, ScanStep
<1>3. CASE ScanDone
  <2>1. Built(ram) /\ UNCHANGED <<files, flashed, disk, ram, reads>> /\ pc' = "erase"
        /\ pc = "scan"
    BY <1>3, ScanEnds DEF ScanDone
  <2>2. Built(ram)' /\ (disk.flag => Built(disk)')
    BY <1>0, <1>image, <2>1, BuiltStays DEF TableInv
  <2> QED
    BY <1>0, <1>image, <2>1, <2>2 DEF TableInv
<1>4. CASE EraseRecord
  <2>1. UNCHANGED <<files, flashed, ram, reads>> /\ disk' = Erased /\ pc' = "program"
        /\ pc = "erase"
    BY <1>4 DEF EraseRecord
  <2>2. Built(ram)' /\ ram.flag
    BY <1>0, <1>image, <2>1, BuiltStays DEF TableInv
  <2> QED
    BY <1>0, <1>image, <2>1, <2>2 DEF TableInv
<1>5. CASE ProgramRecord \/ FinishRecord
  <2>1. UNCHANGED <<files, flashed, ram, reads>> /\ pc' \in {"finish", "load"}
        /\ pc \in {"program", "finish"}
        /\ (disk' = ram \/ disk' = [ram EXCEPT !.tail = FALSE])
    BY <1>5 DEF ProgramRecord, FinishRecord
  <2>2. disk' \in Record /\ disk'.on = ram.on /\ disk'.off = ram.off
        /\ disk'.start = ram.start
    BY <1>0, <2>1 DEF Record
  <2>3. disk'.flag = ram.flag
    BY <1>0, <2>1 DEF Record
  <2>4. Built(ram) /\ ram.flag
    BY <2>1 DEF TableInv
  <2>5. Built(ram)'
    BY <1>0, <1>image, <2>1, <2>4, BuiltStays
  <2>6. Built(disk)'
    BY <1>0, <1>image, <2>1, <2>2, <2>4, BuiltStays
  <2> QED
    BY <1>0, <1>image, <2>1, <2>2, <2>3, <2>4, <2>5, <2>6 DEF TableInv
<1>6. CASE LoadRecord
  <2>1. UNCHANGED <<files, flashed, disk, reads>> /\ ram' = disk /\ pc' = "up" /\ pc = "load"
    BY <1>6 DEF LoadRecord
  <2>2. disk.flag /\ Built(disk)'
    BY <1>0, <1>image, <2>1, BuiltStays DEF TableInv
  <2> QED
    BY <1>0, <1>image, <2>1, <2>2 DEF TableInv
<1>7. CASE PowerCut
  <2>1. UNCHANGED <<files, flashed, disk>> /\ ram' = Erased /\ pc' = "start" /\ reads' = 0
    BY <1>7 DEF PowerCut
  <2>2. disk.flag => Built(disk)'
    BY <1>0, <1>image, <2>1, BuiltStays DEF TableInv
  <2> QED
    BY <1>0, <1>image, <2>1, <2>2 DEF TableInv
<1>8. CASE \E kind \in Kind, len \in Lengths : FileWrite(kind, len)
  BY <1>8, WriteStep
<1>9. CASE UNCHANGED vars
  BY <1>9, <1>0, <1>image, BuiltStays, ScanSame DEF vars, TableInv
<1> QED
  BY <1>1, <1>2, <1>3, <1>4, <1>5, <1>6, <1>7, <1>8, <1>9 DEF Next, Main

\* The record is one that a scan makes, always.
THEOREM TableInvariance == Spec => []TableInv
BY TableInit, TableStep, PTL DEF Spec

\* Of the first k files the last ends last.
LEMMA EndLast ==
  ASSUME Image, NEW k \in 0..flashed
  PROVE  Max({0} \cup {End(files[i]) : i \in 1..k}) = EndOf(k)
<1> DEFINE S == {0} \cup {End(files[i]) : i \in 1..k}
<1>1. flashed \in Nat /\ k \in Nat /\ \A i \in 1..k : i \in 1..flashed /\ i \in 1..Len(files)
  BY DEF Image
<1>2. EndOf(k) \in S
  BY <1>1 DEF EndOf
<1>3. ASSUME NEW i \in 1..k PROVE End(files[i]) <= EndOf(k)
  <2>1. End(files[i]) \in Nat /\ End(files[k]) \in Nat /\ k \in 1..k
    BY <1>1, FileTyped
  <2>2. EndOf(k) = End(files[k])
    BY <1>1 DEF EndOf
  <2>3. CASE i < k
    <3>1. End(files[i]) < files[k].at
      BY <1>1, <2>1, <2>3, InOrder
    <3>2. files[k].at \in Nat /\ files[k].at < End(files[k])
      BY <1>1, <2>1, FileTyped DEF End
    <3> QED
      BY <2>1, <2>2, <3>1, <3>2
  <2>4. CASE i = k
    BY <2>1, <2>2, <2>4
  <2> QED
    BY <1>1, <2>3, <2>4
<1>4. EndOf(k) \in Nat /\ S \in SUBSET Nat
  BY <1>1, FileTyped, HeaderNext
<1>5. \A x \in S : EndOf(k) >= x
  <2>1. \A i \in 1..k : End(files[i]) \in Nat
    BY <1>1, FileTyped
  <2> QED
    BY <1>3, <1>4, <2>1
<1> HIDE DEF S
<1>6. \A x \in S : (\A y \in S : x >= y) => x = EndOf(k)
  <2>1. ASSUME NEW x \in S, \A y \in S : x >= y PROVE x = EndOf(k)
    <3>1. x >= EndOf(k) /\ EndOf(k) >= x /\ x \in Nat
      BY <1>2, <1>4, <1>5, <2>1
    <3> QED
      BY <1>4, <3>1
  <2> QED
    BY <2>1
<1>7. Max(S) = EndOf(k)
  BY <1>2, <1>5, <1>6 DEF Max
<1> QED
  BY <1>7 DEF S

\* What is entered are the first files, up to the one where the scan stops.
LEMMA EnteredFirst ==
  ASSUME Image, NEW rec, NEW k \in 0..flashed, Holds(rec, k), Complete(k)
  PROVE  Entered = 1..k
<1>1. flashed \in Nat /\ k \in Nat /\ k <= flashed /\ ScanLimit \in Nat /\ k <= ScanLimit
      /\ \A i \in 1..k : ~ Refused(i)
  BY AudioAssumption DEF Image, Holds
<1>2. ASSUME NEW i \in 1..k PROVE i \in Entered
  <2>1. i \in 1..flashed /\ i <= ScanLimit /\ \A j \in 1..i : j \in 1..k
    BY <1>1
  <2> QED
    BY <1>1, <2>1 DEF Entered
<1>3. ASSUME NEW i \in Entered PROVE i \in 1..k
  <2>1. i \in 1..flashed /\ i <= ScanLimit /\ \A j \in 1..i : ~ Refused(j)
    BY DEF Entered
  <2>2. CASE i > k
    <3>1. k + 1 \in 1..i
      BY <1>1, <2>1, <2>2
    <3>2. ~ Refused(k + 1)
      BY <2>1, <3>1
    <3> QED
      BY <1>1, <2>1, <2>2, <3>2 DEF Complete
  <2> QED
    BY <1>1, <2>1, <2>2
<1> QED
  BY <1>2, <1>3

\* However often power fails before, while and after the record is built, one that says
\* it is there holds the files of the image that are entered, and nothing else.
THEOREM TableStaysTrue == Spec => []TableTrue
<1>1. TableInv => TableTrue
  <2> SUFFICES ASSUME TableInv, disk.flag
               PROVE  /\ disk.on = EntryOf({i \in Entered : files[i].kind = "on"})
                      /\ disk.off = EntryOf({i \in Entered : files[i].kind = "off"})
                      /\ disk.start = Max({0} \cup {End(files[i]) : i \in Entered})
    BY DEF TableTrue
  <2>1. PICK k \in 0..flashed : Holds(disk, k) /\ Complete(k)
    BY DEF TableInv, Built
  <2>2. Image
    BY DEF TableInv
  <2>3. Entered = 1..k
    BY <2>1, <2>2, EnteredFirst
  <2>4. \A kind : {i \in Entered : files[i].kind = kind} = OfKind(k, kind)
    BY <2>3 DEF OfKind
  <2>5. Max({0} \cup {End(files[i]) : i \in Entered}) = EndOf(k)
    BY <2>2, <2>3, EndLast
  <2> QED
    BY <2>1, <2>4, <2>5 DEF Holds
<1> QED
  BY <1>1, TableInvariance, PTL

-----------------------------------------------------------------------------
(* No entry leads to a damaged file. *)

\* Of the files fs, the entry leads to one that ends before b.
Below(fs, entry, kinds, b) ==
  entry.size # 0 => \E i \in 1..Len(fs) :
    /\ fs[i].whole /\ fs[i].kind \in kinds /\ fs[i].at = entry.at
    /\ entry.size = fs[i].len % SizeWrap /\ End(fs[i]) <= b

\* What the record leads to is whole and ends before the start, where the next file is
\* written.
LeadsBelow(fs, rec) == /\ Below(fs, rec.on, {"on"}, rec.start)
                       /\ Below(fs, rec.off, {"off", "warm"}, rec.start)

\* No file of the image is damaged.
AllWhole == \A i \in 1..flashed : files[i].whole

\* Until there is a record nothing was written.  Then everything a record leads to lies
\* before its start, where the next file goes; both records keep to their sectors, and
\* that of the flash is never ahead of the one in RAM.
LeadInv ==
  /\ ~ disk.flag \/ pc \in {"scan", "erase", "program", "finish", "load"} => AllWhole
  /\ disk.flag /\ disk.start % Sector = 0 => LeadsBelow(files, disk)
  /\ pc = "up" => /\ ram.start >= disk.start
                  /\ ram.start % Sector = disk.start % Sector
                  /\ ram.start % Sector = 0 => LeadsBelow(files, ram)

\* A record that a scan made leads to files before its start.
LEMMA BuiltBelow ==
  ASSUME Image, NEW rec, Built(rec), AllWhole
  PROVE  LeadsBelow(files, rec)
<1>1. PICK k \in 0..flashed : Holds(rec, k)
  BY DEF Built
<1>2. flashed \in Nat /\ k \in Nat /\ \A i \in 1..k : i \in 1..flashed /\ i \in 1..Len(files)
  BY DEF Image
<1>3. ASSUME NEW kind \in {"on", "off"}, NEW kinds, kind \in kinds
      PROVE  Below(files, EntryOf(OfKind(k, kind)), kinds, EndOf(k))
  <2> DEFINE S == OfKind(k, kind)
             m == Max(S)
  <2>1. CASE S = {}
    BY <2>1 DEF Below, EntryOf, NoFile
  <2>2. CASE S # {}
    <3>1. S \in SUBSET (1..k)
      BY DEF OfKind
    <3>2. m \in S /\ \A i \in S : m >= i
      <4> HIDE DEF S
      <4> QED
        BY <1>2, <2>2, <3>1, LastIn, Zenon
    <3> HIDE DEF m
    <3>3. m \in 1..k /\ files[m].kind = kind
      BY <3>2 DEF OfKind
    <3>4. m \in 1..flashed /\ m \in 1..Len(files) /\ files[m].whole
      BY <1>2, <3>3 DEF AllWhole
    <3>5. EntryOf(S) = Entry(files[m].at, files[m].len)
      BY <2>2 DEF EntryOf, m
    <3>6. End(files[m]) <= EndOf(k)
      <4>1. End(files[m]) \in Nat /\ k \in 1..flashed /\ k \in 1..Len(files)
        BY <1>2, <3>3, <3>4, FileTyped
      <4>2. CASE m = k
        BY <1>2, <4>1, <4>2 DEF EndOf
      <4>3. CASE m < k
        <5>1. End(files[m]) < files[k].at
          BY <3>4, <4>1, <4>3, InOrder
        <5>2. files[k].at \in Nat /\ files[k].at < End(files[k]) /\ End(files[k]) \in Nat
          BY <4>1, FileTyped DEF End
        <5> QED
          BY <1>2, <4>1, <5>1, <5>2 DEF EndOf
      <4> QED
        BY <1>2, <3>3, <4>2, <4>3
    <3> QED
      BY <1>3, <3>3, <3>4, <3>5, <3>6 DEF Below, Entry
  <2> QED
    BY <2>1, <2>2
<1> QED
  BY <1>1, <1>3 DEF LeadsBelow, Holds

\* A file written at the beginning of a sector damages none that ends before it.
LEMMA BelowKept ==
  ASSUME Image, UNCHANGED flashed, NEW a \in Nat, a % Sector = 0, NEW kind \in Kind,
         NEW len \in Lengths, AudioWrite(a, kind, len),
         NEW entry, NEW kinds, NEW b \in Nat, b <= a, Below(files, entry, kinds, b),
         NEW c \in Nat, b <= c
  PROVE  Below(files', entry, kinds, c)
<1>1. Sector \in Nat \ {0} /\ len \in Nat
  BY AudioAssumption
<1>2. (a \div Sector) * Sector = a
  <2>1. a = Sector * (a \div Sector) + (a % Sector) /\ a \div Sector \in Nat
    BY <1>1, DivMod
  <2> DEFINE q == a \div Sector
             r == a % Sector
  <2> HIDE DEF q, r
  <2>2. a = Sector * q /\ q \in Nat
    <3>1. a = Sector * q + r /\ q \in Nat /\ r = 0
      BY <2>1 DEF q, r
    <3>2. Sector * q \in Nat
      BY <1>1, <3>1
    <3> QED
      BY <3>1, <3>2
  <2>3. q * Sector = Sector * q
    BY <1>1, <2>2
  <2> QED
    BY <2>2, <2>3 DEF q
<1>3. \A x \in Touched(a, len) : x >= a
  BY <1>2 DEF Touched
<1>4. SUFFICES ASSUME entry.size # 0
               PROVE  \E i \in 1..Len(files') :
                        /\ files'[i].whole /\ files'[i].kind \in kinds
                        /\ files'[i].at = entry.at
                        /\ entry.size = files'[i].len % SizeWrap /\ End(files'[i]) <= c
  BY DEF Below
<1>5. PICK i \in 1..Len(files) :
        /\ files[i].whole /\ files[i].kind \in kinds /\ files[i].at = entry.at
        /\ entry.size = files[i].len % SizeWrap /\ End(files[i]) <= b
  BY <1>4 DEF Below
<1>6. End(files[i]) \in Nat /\ files[i].at \in Nat /\ Len(files) \in Nat
  BY FileTyped DEF Image
<1>7. (files[i].at .. End(files[i]) - 1) \cap Touched(a, len) = {}
  <2>1. \A x \in files[i].at .. End(files[i]) - 1 : x < a
    BY <1>5, <1>6
  <2>2. \A x \in files[i].at .. End(files[i]) - 1 : ~ (x >= a)
    BY <1>6, <2>1
  <2> QED
    BY <1>3, <2>2, Zenon
<1>8. files'[i].whole /\ Same(i) /\ i \in 1..Len(files')
  <2>1. /\ Len(files') = Len(files) + 1
        /\ \A j \in 1..Len(files) : Same(j)
        /\ \A j \in 1..Len(files) :
             files[j].whole /\ (files[j].at .. End(files[j]) - 1) \cap Touched(a, len) = {}
               => files'[j].whole
    BY Written
  <2>2. files'[i].whole /\ Same(i)
    BY <1>5, <1>7, <2>1, Zenon
  <2>3. i \in 1..Len(files')
    BY <1>6, <2>1
  <2> QED
    BY <2>2, <2>3
<1>9. End(files'[i]) = End(files[i]) /\ End(files[i]) <= c
  BY <1>5, <1>6, <1>8 DEF End, Same
<1> QED
  BY <1>5, <1>8, <1>9 DEF Same

\* The new file is found by the entry made for it.
LEMMA BelowNew ==
  ASSUME Image, UNCHANGED flashed, NEW a \in Nat, NEW kind \in Kind, NEW len \in Lengths,
         AudioWrite(a, kind, len), NEW kinds, kind \in kinds, NEW c \in Nat, a + len <= c
  PROVE  Below(files', Entry(a, len), kinds, c)
<1> DEFINE i == Len(files) + 1
<1>1. Len(files') = i /\ files'[i] = [kind |-> kind, len |-> len, whole |-> TRUE, at |-> a]
  BY Written
<1>2. i \in 1..i
  BY DEF Image
<1> HIDE DEF i
<1>3. /\ files'[i].whole /\ files'[i].kind = kind /\ files'[i].len = len
      /\ files'[i].at = a
  BY <1>1
<1>4. End(files'[i]) <= c
  BY <1>3 DEF End
<1> QED
  BY <1>1, <1>2, <1>3, <1>4 DEF Below, Entry

\* A file that begins at a sector is written behind all the record leads to.
LEMMA LeadWrite ==
  ASSUME TableInv, LeadInv, NEW kind \in Kind, NEW len \in Lengths, FileWrite(kind, len)
  PROVE  LeadInv'
<1>1. /\ pc = "up" /\ pc' = "up" /\ AudioWrite(ram.start, kind, len)
      /\ ram' = [Typed(ram, kind, len) EXCEPT !.start = @ + Advanced(len)]
      /\ UNCHANGED <<flashed, disk>> /\ flashed' = flashed
  BY DEF FileWrite
<1>2. /\ Image /\ ram \in Record /\ disk \in Record /\ disk.flag
      /\ ram.start \in Nat /\ disk.start \in Nat /\ ram.start >= disk.start
      /\ ram.start % Sector = disk.start % Sector
      /\ ram.start % Sector = 0 => LeadsBelow(files, ram) /\ LeadsBelow(files, disk)
  BY <1>1 DEF TableInv, LeadInv, Record
<1>3. Sector \in Nat \ {0} /\ len \in Nat
  BY AudioAssumption
<1>4. PICK a \in Nat, c \in Nat : a = ram.start /\ c = ram'.start
  BY <1>1, <1>2, RamWritten DEF Record
<1>5. /\ c = a + Advanced(len)
      /\ ram'.on = ram.on \/ (kind = "on" /\ ram'.on = Entry(a, len))
      /\ ram'.off = ram.off \/ (kind \in {"off", "warm"} /\ ram'.off = Entry(a, len))
  BY <1>1, <1>2, <1>4, RamWritten
<1>6. PICK q \in Nat : Advanced(len) = Sector * q
  BY AdvancedNat
<1>7. Advanced(len) \in Nat /\ Advanced(len) >= len
  BY AdvancedNat
<1>8. c % Sector = a % Sector
  <2>1. (a + Sector * q) % Sector = a % Sector
    BY <1>3, ModPlus
  <2>2. c = a + Sector * q
    BY <1>5, <1>6
  <2> QED
    BY <2>1, <2>2, Zenon
<1>9. a <= c /\ a + len <= c
  BY <1>3, <1>5, <1>7
<1>10. ASSUME a % Sector = 0 PROVE LeadsBelow(files', ram') /\ LeadsBelow(files', disk')
  <2>0. AudioWrite(a, kind, len)
    BY <1>1, <1>4
  <2>1. /\ Below(files, ram.on, {"on"}, a) /\ Below(files, ram.off, {"off", "warm"}, a)
        /\ Below(files, disk.on, {"on"}, disk.start)
        /\ Below(files, disk.off, {"off", "warm"}, disk.start)
    BY <1>2, <1>4, <1>10 DEF LeadsBelow
  <2>2. Below(files', ram.on, {"on"}, c)
    BY <1>1, <1>2, <1>9, <1>10, <2>0, <2>1, BelowKept
  <2>3. Below(files', ram.off, {"off", "warm"}, c)
    BY <1>1, <1>2, <1>9, <1>10, <2>0, <2>1, BelowKept
  <2>4. Below(files', disk.on, {"on"}, disk.start)
    BY <1>1, <1>2, <1>4, <1>10, <2>0, <2>1, BelowKept
  <2>5. Below(files', disk.off, {"off", "warm"}, disk.start)
    BY <1>1, <1>2, <1>4, <1>10, <2>0, <2>1, BelowKept
  <2>6. kind = "on" => Below(files', Entry(a, len), {"on"}, c)
    BY <1>1, <1>2, <1>9, <2>0, BelowNew
  <2>7. kind \in {"off", "warm"} => Below(files', Entry(a, len), {"off", "warm"}, c)
    BY <1>1, <1>2, <1>9, <2>0, BelowNew
  <2>8. Below(files', ram'.on, {"on"}, c) /\ Below(files', ram'.off, {"off", "warm"}, c)
    BY <1>5, <2>2, <2>3, <2>6, <2>7
  <2>9. disk' = disk
    BY <1>1
  <2> QED
    BY <1>4, <2>4, <2>5, <2>8, <2>9 DEF LeadsBelow
<1>11. ram'.start >= disk'.start /\ ram'.start % Sector = disk'.start % Sector
  BY <1>1, <1>2, <1>4, <1>8, <1>9
<1>12. disk' = disk /\ disk.flag /\ pc' = "up"
  BY <1>1, <1>2
<1> QED
  BY <1>2, <1>4, <1>8, <1>10, <1>11, <1>12 DEF LeadInv

\* Every step keeps what the record leads to.
LEMMA LeadStep == TableInv /\ TableInv' /\ LeadInv /\ [Next]_vars => LeadInv'
<1> SUFFICES ASSUME TableInv, TableInv', LeadInv, [Next]_vars PROVE LeadInv'
  OBVIOUS
<1>0. /\ Image /\ ram \in Record /\ disk \in Record /\ ~ Erased.flag
      /\ disk.start \in Nat
  BY FreshHolds DEF TableInv, Record, Erased
<1>1. UNCHANGED <<files, flashed>> => (AllWhole => AllWhole')
  BY DEF AllWhole
<1>2. CASE InitStruct
  BY <1>0, <1>1, <1>2 DEF InitStruct, LeadInv
<1>3. CASE ScanHeader
  BY <1>1, <1>3 DEF ScanHeader, LeadInv
<1>4. CASE ScanDone
  BY <1>1, <1>4 DEF ScanDone, LeadInv
<1>5. CASE EraseRecord
  BY <1>0, <1>1, <1>5 DEF EraseRecord, LeadInv
<1>6. CASE ProgramRecord \/ FinishRecord
  <2>1. /\ UNCHANGED <<files, flashed, ram>> /\ pc' \in {"finish", "load"}
        /\ pc \in {"program", "finish"}
        /\ disk' = ram \/ disk' = [ram EXCEPT !.tail = FALSE]
    BY <1>6 DEF ProgramRecord, FinishRecord
  <2>2. disk'.on = ram.on /\ disk'.off = ram.off /\ disk'.start = ram.start
    BY <1>0, <2>1 DEF Record
  <2>3. AllWhole /\ Built(ram)
    BY <2>1 DEF LeadInv, TableInv
  <2>4. LeadsBelow(files, ram)
    BY <1>0, <2>3, BuiltBelow
  <2>5. LeadsBelow(files', disk')
    BY <2>1, <2>2, <2>4 DEF LeadsBelow
  <2> QED
    BY <1>1, <2>1, <2>3, <2>5 DEF LeadInv
<1>7. CASE LoadRecord
  BY <1>0, <1>1, <1>7 DEF LoadRecord, LeadInv, TableInv
<1>8. CASE PowerCut
  BY <1>1, <1>8 DEF PowerCut, LeadInv
<1>9. CASE \E kind \in Kind, len \in Lengths : FileWrite(kind, len)
  BY <1>9, LeadWrite
<1>10. CASE UNCHANGED vars
  BY <1>1, <1>10 DEF vars, LeadInv
<1> QED
  BY <1>2, <1>3, <1>4, <1>5, <1>6, <1>7, <1>8, <1>9, <1>10 DEF Next, Main

\* So it leads to whole files always.
LEMMA LeadInvariance == Spec => []LeadInv
<1>1. Init => LeadInv
  <2> SUFFICES ASSUME Init PROVE LeadInv
    OBVIOUS
  <2>1. PICK n \in 0..MaxFiles : \E kinds \in [1..n -> Kind], lens \in [1..n -> Lengths] :
          files = Placed(kinds, lens) /\ flashed = n
    BY DEF Init
  <2>2. n \in Nat
    BY AudioAssumption
  <2>3. AllWhole
    BY <2>1, <2>2, ImagePlaced DEF AllWhole
  <2> QED
    BY <2>3 DEF Init, LeadInv, Erased
<1> QED
  BY <1>1, LeadStep, TableInvariance, PTL DEF Spec

\* While files begin at sectors, whatever is written and wherever the power goes, an entry
\* of the record in RAM leads to a whole file of its kind.
THEOREM EntriesAlwaysLead == Spec => []EntriesLead
<1>1. TableInv /\ LeadInv => EntriesLead
  <2> SUFFICES ASSUME TableInv, LeadInv, pc = "up", ram.start % Sector = 0
               PROVE  Leads(ram.on, {"on"}) /\ Leads(ram.off, {"off", "warm"})
    BY DEF EntriesLead
  <2>1. LeadsBelow(files, ram) /\ DOMAIN files = 1..Len(files)
    BY DEF LeadInv, TableInv, Image
  <2> QED
    BY <2>1 DEF LeadsBelow, Below, Leads
<1> QED
  BY <1>1, TableInvariance, LeadInvariance, PTL
=============================================================================
