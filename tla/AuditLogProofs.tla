--------------------------- MODULE AuditLogProofs ---------------------------
(***************************************************************************)
(* Proofs about the audit log and its readers, for any number of backups,  *)
(* sizes and thresholds, and any pattern of failures and crashes.          *)
(***************************************************************************)
EXTENDS AuditReaders, FiniteSetTheorems, TLAPS

(* The call in progress: its entry is the next one, and the loop variable  *)
(* is where the rotation or the compression is.                            *)
CallInv ==
  /\ at # "idle" => entry \in Entry /\ entry.id = written + 1 /\ written < MaxEntries
  /\ at = "shift" => n \in 0 .. BackupCount - 1
  /\ at = "gzip" => n \in 1 .. BackupCount + 1
  /\ at \in {"compress", "unlink"} => n \in Backups

(* A rotation moves each file into a free place.                           *)
PlainInv ==
  /\ PlainIds \subseteq 1 .. written
  /\ at \in {"drop", "shift"} => Exists(plain[0])
  /\ at = "shift" => plain[n + 1] = Nil

(* A backup is unlinked when its compressed copy is complete; without      *)
(* compression there are no compressed copies.                             *)
GzInv ==
  /\ at \in {"compress", "unlink"} => Exists(plain[n])
  /\ at = "unlink" => gz[n] = [entries |-> plain[n], whole |-> TRUE]
  /\ threshold = 0 => at \notin {"gzip", "compress", "unlink"} /\ \A m \in Backups : gz[m] = Nil

-----------------------------------------------------------------------------
LEMMA PlaceTyped ==
  /\ BackupCount \in Nat /\ BackupCount >= 1
  /\ 0 \in Files /\ BackupCount \in Files /\ Backups \subseteq Files
  /\ \A m \in 0 .. BackupCount - 1 : m \in Files /\ m + 1 \in Files /\ m + 1 \in Backups
  BY BackupAssumption DEF Files, Backups

LEMMA IdsTyped ==
  ASSUME NEW file \in Seq(Entry) \cup {Nil}
  PROVE  Ids(file) \subseteq Nat
<1>1. CASE ~Exists(file)
  BY <1>1 DEF Ids
<1>2. CASE Exists(file)
  <2>1. \A i \in DOMAIN file : file[i].id \in Nat
    <3>1. \A i \in DOMAIN file : file[i] \in Entry
      BY <1>2 DEF Exists
    <3>2. QED
      BY <3>1 DEF Entry
  <2>2. QED
    BY <1>2, <2>1 DEF Ids
<1>3. QED
  BY <1>1, <1>2

LEMMA NilIds == Ids(Nil) = {}
  BY DEF Ids, Exists

(* The current file with the next entry behind what it holds.              *)
LEMMA AppendedIds ==
  ASSUME NEW file \in Seq(Entry) \cup {Nil}, NEW e \in Entry
  PROVE  LET grown == IF Exists(file) THEN Append(file, e) ELSE <<e>>
         IN  /\ grown \in Seq(Entry)
             /\ Ids(grown) = Ids(file) \cup {e.id}
             /\ \A i, j \in DOMAIN grown : i < j =>
                  \/ i \in DOMAIN file /\ j \in DOMAIN file /\ Exists(file)
                       /\ grown[i] = file[i] /\ grown[j] = file[j]
                  \/ grown[i].id \in Ids(file) /\ grown[j].id = e.id
<1> DEFINE grown == IF Exists(file) THEN Append(file, e) ELSE <<e>>
<1>1. CASE Exists(file) /\ Exists(grown)
  <2>1. /\ file \in Seq(Entry) /\ grown = Append(file, e) /\ Len(file) \in Nat
        /\ DOMAIN file = 1 .. Len(file) /\ DOMAIN grown = 1 .. Len(file) + 1
    BY <1>1 DEF Exists
  <2>2. \A i \in DOMAIN grown : grown[i] = IF i = Len(file) + 1 THEN e ELSE file[i]
    BY <2>1
  <2>3. Ids(file) = {file[i].id : i \in 1 .. Len(file)} /\ Ids(grown) = {grown[i].id : i \in DOMAIN grown}
    BY <1>1, <2>1 DEF Ids
  <2>4. Ids(grown) = Ids(file) \cup {e.id}
    <3>1. Len(file) + 1 \in DOMAIN grown /\ \A i \in 1 .. Len(file) : i \in DOMAIN grown
      BY <2>1
    <3>2. \A i \in DOMAIN grown : i = Len(file) + 1 \/ i \in 1 .. Len(file)
      BY <2>1
    <3>3. \A i \in 1 .. Len(file) : i # Len(file) + 1
      BY <2>1
    <3> HIDE DEF grown
    <3>4. QED
      BY <2>2, <2>3, <3>1, <3>2, <3>3
  <2>5. \A i, j \in DOMAIN grown : i < j => i \in DOMAIN file /\ (j \in DOMAIN file \/ grown[j] = e)
    BY <2>1, <2>2
  <2>6. \A i \in DOMAIN file : grown[i] = file[i] /\ grown[i].id \in Ids(file)
    BY <2>1, <2>2, <2>3
  <2>7. grown \in Seq(Entry)
    BY <2>1
  <2>8. QED
    BY <1>1, <2>4, <2>5, <2>6, <2>7
<1>2. CASE file = Nil /\ Exists(grown)
  <2>1. grown = <<e>> /\ DOMAIN grown = {1} /\ grown[1] = e
    BY <1>2 DEF Exists
  <2>2. Ids(file) = {} /\ Ids(grown) = {e.id}
    BY <1>2, <2>1 DEF Ids, Exists
  <2>3. <<e>> \in Seq(Entry) /\ \A i, j \in {1} : ~(i < j)
    OBVIOUS
  <2>4. QED
    BY <2>1, <2>2, <2>3
<1>3. Exists(grown)
  <2>1. grown \in Seq(Entry)
    BY DEF Exists
  <2>2. QED
    BY <2>1, NilAssumption DEF Exists
<1>4. QED
  BY <1>1, <1>2, <1>3 DEF Exists

-----------------------------------------------------------------------------
(* What the file operations do to the entries in the plaintext files.      *)
Ascending(file) == Exists(file) => \A i, j \in DOMAIN file : i < j => file[i].id < file[j].id

LEMMA OrderParts ==
  PlainInOrder <=> /\ \A m \in Files : Ascending(plain[m])
                   /\ \A l, m \in Files : l < m =>
                        \A i \in Ids(plain[m]), j \in Ids(plain[l]) : i < j
  BY DEF PlainInOrder, Ascending

LEMMA OrderPartsNext ==
  PlainInOrder' <=> /\ \A m \in Files : Ascending(plain'[m])
                    /\ \A l, m \in Files : l < m =>
                         \A i \in Ids(plain'[m]), j \in Ids(plain'[l]) : i < j
  BY DEF PlainInOrder, Ascending

LEMMA NilAscends == Ascending(Nil)
  BY DEF Ascending, Exists

LEMMA RenameKeeps ==
  ASSUME TypeOK, NEW m \in 0 .. BackupCount - 1, plain[m + 1] = Nil, Rename(m)
  PROVE  /\ plain' \in [Files -> Seq(Entry) \cup {Nil}]
         /\ \A k \in Files : plain'[k] = IF k = m THEN Nil ELSE IF k = m + 1 THEN plain[m] ELSE plain[k]
         /\ PlainIds' = PlainIds
         /\ PlainInOrder => PlainInOrder'
<1>1. m \in Files /\ m + 1 \in Files /\ m \in Nat /\ m # m + 1
  BY PlaceTyped DEF Files
<1>2. plain \in [Files -> Seq(Entry) \cup {Nil}]
  BY DEF TypeOK
<1>3. \A k \in Files : plain'[k] = IF k = m THEN Nil ELSE IF k = m + 1 THEN plain[m] ELSE plain[k]
  BY <1>1, <1>2 DEF Rename
<1>4. plain' \in [Files -> Seq(Entry) \cup {Nil}]
  BY <1>1, <1>2 DEF Rename
<1>5. \A k \in Files : Ids(plain'[k]) = IF k = m THEN {} ELSE IF k = m + 1 THEN Ids(plain[m])
                                                           ELSE Ids(plain[k])
  BY <1>3, NilIds
<1>6. PlainIds' = PlainIds
  <2>1. \A x : (\E k \in Files : x \in Ids(plain'[k])) <=> (\E k \in Files : x \in Ids(plain[k]))
    BY <1>1, <1>5, NilIds
  <2>2. QED
    BY <2>1 DEF PlainIds
<1>7. ASSUME PlainInOrder PROVE PlainInOrder'
  <2>1. \A k \in Files : Ascending(plain'[k])
    BY <1>1, <1>3, <1>7, OrderParts, NilAscends
  <2>2. ASSUME NEW l \in Files, NEW k \in Files, l < k,
               NEW i \in Ids(plain'[k]), NEW j \in Ids(plain'[l])
        PROVE  i < j
    <3> DEFINE from(x) == IF x = m + 1 THEN m ELSE x
    <3>1. k # m /\ l # m
      BY <1>5, <2>2
    <3>2. i \in Ids(plain[from(k)]) /\ j \in Ids(plain[from(l)]) /\ from(k) \in Files /\ from(l) \in Files
      BY <1>1, <1>5, <2>2, <3>1
    <3>3. from(l) < from(k)
      BY <1>1, <2>2, <3>1 DEF Files
    <3>4. QED
      BY <1>7, <3>2, <3>3, OrderParts
  <2>3. QED
    BY <2>1, <2>2, OrderPartsNext
<1>8. QED
  BY <1>3, <1>4, <1>6, <1>7

LEMMA RemoveKeeps ==
  ASSUME TypeOK, NEW m \in Files, plain' = [plain EXCEPT ![m] = Nil]
  PROVE  /\ plain' \in [Files -> Seq(Entry) \cup {Nil}]
         /\ \A k \in Files : plain'[k] = IF k = m THEN Nil ELSE plain[k]
         /\ PlainIds' \subseteq PlainIds /\ PlainIds \subseteq PlainIds' \cup Ids(plain[m])
         /\ PlainInOrder => PlainInOrder'
<1>1. plain \in [Files -> Seq(Entry) \cup {Nil}]
  BY DEF TypeOK
<1>2. \A k \in Files : plain'[k] = IF k = m THEN Nil ELSE plain[k]
  BY <1>1
<1>3. plain' \in [Files -> Seq(Entry) \cup {Nil}]
  BY <1>1
<1>4. \A k \in Files : Ids(plain'[k]) = IF k = m THEN {} ELSE Ids(plain[k])
  BY <1>2, NilIds
<1>5. PlainIds' \subseteq PlainIds /\ PlainIds \subseteq PlainIds' \cup Ids(plain[m])
  BY <1>4 DEF PlainIds
<1>6. PlainInOrder => PlainInOrder'
  BY <1>2, <1>4, OrderParts, OrderPartsNext, NilAscends
<1>7. QED
  BY <1>2, <1>3, <1>5, <1>6

LEMMA AppendKeeps ==
  ASSUME TypeOK, CallInv, PlainInv, AppendEntry
  PROVE  /\ plain' \in [Files -> Seq(Entry) \cup {Nil}]
         /\ Exists(plain'[0]) /\ \A k \in Files \ {0} : plain'[k] = plain[k]
         /\ PlainIds' = PlainIds \cup {written + 1}
         /\ PlainInOrder => PlainInOrder'
<1>1. plain \in [Files -> Seq(Entry) \cup {Nil}] /\ 0 \in Files /\ written \in Nat
  BY PlaceTyped DEF TypeOK
<1>2. entry \in Entry /\ entry.id = written + 1
  BY DEF AppendEntry, CallInv
<1> DEFINE file == plain[0]
           grown == IF Exists(file) THEN Append(file, entry) ELSE <<entry>>
<1>3. plain' = [plain EXCEPT ![0] = grown]
  BY DEF AppendEntry
<1>4. file \in Seq(Entry) \cup {Nil}
  BY <1>1
<1>5. /\ grown \in Seq(Entry) /\ Ids(grown) = Ids(file) \cup {written + 1}
      /\ \A i, j \in DOMAIN grown : i < j =>
           \/ i \in DOMAIN file /\ j \in DOMAIN file /\ Exists(file)
                /\ grown[i] = file[i] /\ grown[j] = file[j]
           \/ grown[i].id \in Ids(file) /\ grown[j].id = written + 1
  BY <1>2, <1>4, AppendedIds
<1> HIDE DEF grown
<1>6. plain' \in [Files -> Seq(Entry) \cup {Nil}] /\ plain'[0] = grown
      /\ \A k \in Files \ {0} : plain'[k] = plain[k]
  BY <1>1, <1>3, <1>5
<1>7. \A k \in Files : Ids(plain'[k]) = IF k = 0 THEN Ids(plain[0]) \cup {written + 1} ELSE Ids(plain[k])
  BY <1>5, <1>6
<1>8. PlainIds' = PlainIds \cup {written + 1}
  BY <1>1, <1>7 DEF PlainIds
<1>9. \A k \in Files : \A i \in Ids(plain[k]) : i \in Nat /\ i < written + 1
  <2>1. \A k \in Files : Ids(plain[k]) \subseteq 1 .. written
    BY DEF PlainInv, PlainIds
  <2>2. QED
    BY <1>1, <2>1
<1>10. ASSUME PlainInOrder PROVE PlainInOrder'
  <2>1. Ascending(grown)
    <3>1. Exists(file) => \A i, j \in DOMAIN file : i < j => file[i].id < file[j].id
      BY <1>1, <1>10 DEF PlainInOrder
    <3> HIDE DEF file
    <3>2. \A i \in Ids(file) : i < written + 1
      BY <1>1, <1>9 DEF file
    <3>3. QED
      BY <1>5, <3>1, <3>2 DEF Ascending
  <2>2. \A k \in Files : Ascending(plain'[k])
    BY <1>6, <1>10, <2>1, OrderParts
  <2>3. \A l, k \in Files : l < k => k # 0
    BY DEF Files
  <2>4. \A l, k \in Files : l < k => \A i \in Ids(plain'[k]), j \in Ids(plain'[l]) : i < j
    BY <1>7, <1>9, <1>10, <2>3, OrderParts
  <2>5. QED
    BY <2>2, <2>4, OrderPartsNext
<1>11. Exists(grown)
  BY <1>5, NilAssumption DEF Exists
<1>12. QED
  BY <1>6, <1>8, <1>10, <1>11

-----------------------------------------------------------------------------
Base == TypeOK /\ CallInv /\ PlainInv /\ GzInv

(* Where a rotation step finds the files.                                  *)
LEMMA RotationPlaces ==
  ASSUME Base
  PROVE  /\ ShiftBackup => n \in 1 .. BackupCount - 1 /\ n \in 0 .. BackupCount - 1 /\ plain[n + 1] = Nil
         /\ RotateCurrent => 0 \in 0 .. BackupCount - 1 /\ plain[0 + 1] = Nil /\ Exists(plain[0])
<1>1. ASSUME ShiftBackup
      PROVE  n \in 1 .. BackupCount - 1 /\ n \in 0 .. BackupCount - 1 /\ plain[n + 1] = Nil
  BY <1>1, PlaceTyped DEF Base, CallInv, PlainInv, ShiftBackup
<1>2. ASSUME RotateCurrent
      PROVE  0 \in 0 .. BackupCount - 1 /\ plain[0 + 1] = Nil /\ Exists(plain[0])
  BY <1>2, PlaceTyped DEF Base, CallInv, PlainInv, RotateCurrent
<1>3. QED
  BY <1>1, <1>2

(* The plaintext files after each kind of step.                            *)
LEMMA PlainSteps ==
  ASSUME Base, Next
  PROVE  \/ plain' = plain
         \/ DropOldest /\ plain' = [plain EXCEPT ![BackupCount] = Nil]
         \/ ShiftBackup /\ Rename(n)
         \/ RotateCurrent /\ Rename(0)
         \/ GzipUnlink /\ plain' = [plain EXCEPT ![n] = Nil]
         \/ AppendEntry
  BY DEF Next, LogStep, GzipPass, Log, DropOldest, ShiftBackup, RotateCurrent, GzipSkip, GzipOpen,
         GzipClose, GzipUnlink, GzipDone, GzipFails, LogFails, Crash

LEMMA PlainTyped ==
  ASSUME Base, Next
  PROVE  plain' \in [Files -> Seq(Entry) \cup {Nil}]
<1>1. CASE plain' = plain
  BY <1>1 DEF Base, TypeOK
<1>2. CASE DropOldest /\ plain' = [plain EXCEPT ![BackupCount] = Nil]
  BY <1>2, PlaceTyped, RemoveKeeps DEF Base
<1>3. CASE ShiftBackup /\ Rename(n)
  BY <1>3, RotationPlaces, RenameKeeps DEF Base
<1>4. CASE RotateCurrent /\ Rename(0)
  BY <1>4, RotationPlaces, RenameKeeps DEF Base
<1>5. CASE GzipUnlink /\ plain' = [plain EXCEPT ![n] = Nil]
  BY <1>5, PlaceTyped, RemoveKeeps DEF Base, CallInv, GzipUnlink
<1>6. CASE AppendEntry
  BY <1>6, AppendKeeps DEF Base
<1>7. QED
  BY <1>1, <1>2, <1>3, <1>4, <1>5, <1>6, PlainSteps

LEMMA CallStep ==
  ASSUME Base, Next
  PROVE  CallInv' /\ entry' \in Entry \cup {Nil} /\ written' \in 0 .. MaxEntries
         /\ faults' \in 0 .. MaxFaults /\ n' \in 0 .. BackupCount + 1 /\ at' \in Steps
         /\ threshold' = threshold
<1> USE PlaceTyped DEF Backups
<1>0. /\ written \in 0 .. MaxEntries /\ entry \in Entry \cup {Nil} /\ faults \in 0 .. MaxFaults
      /\ n \in 0 .. BackupCount + 1 /\ CallInv /\ MaxEntries \in Nat /\ MaxFaults \in Nat
  BY BoundAssumption DEF Base, TypeOK
<1>1. ASSUME NEW size \in Sizes, Log(size) PROVE CallInv' /\ entry' \in Entry
  <2>1. [id |-> written + 1, size |-> size] \in Entry
    BY <1>0 DEF Entry
  <2>2. QED
    BY <1>0, <1>1, <2>1 DEF Log, CallInv, NeedsRotation
<1>2. CASE \E size \in Sizes : Log(size)
  BY <1>0, <1>1, <1>2 DEF Log, Steps
<1>3. CASE DropOldest
  BY <1>0, <1>3 DEF DropOldest, CallInv, Steps
<1>4. CASE ShiftBackup
  BY <1>0, <1>4 DEF ShiftBackup, CallInv, Steps
<1>5. CASE RotateCurrent
  BY <1>0, <1>5 DEF RotateCurrent, CallInv, Steps
<1>6. CASE AppendEntry
  BY <1>0, <1>6 DEF AppendEntry, CallInv, Steps
<1>7. CASE GzipSkip
  BY <1>0, <1>7 DEF GzipSkip, CallInv, Steps
<1>8. CASE GzipOpen
  BY <1>0, <1>8 DEF GzipOpen, CallInv, Steps
<1>9. CASE GzipClose
  BY <1>0, <1>9 DEF GzipClose, CallInv, Steps
<1>10. CASE GzipUnlink
  BY <1>0, <1>10 DEF GzipUnlink, CallInv, Steps
<1>11. CASE GzipDone
  BY <1>0, <1>11 DEF GzipDone, CallInv, Steps
<1>12. CASE GzipFails
  BY <1>0, <1>12 DEF GzipFails, Fault, CallInv, Steps
<1>13. CASE LogFails \/ Crash
  BY <1>0, <1>13 DEF LogFails, Crash, Fault, CallInv, Steps
<1>14. QED
  BY <1>2, <1>3, <1>4, <1>5, <1>6, <1>7, <1>8, <1>9, <1>10, <1>11, <1>12, <1>13
     DEF Next, LogStep, GzipPass

LEMMA GzTyped ==
  ASSUME Base, Next
  PROVE  gz' \in [Backups -> Stream \cup {Nil}]
<1>1. /\ gz \in [Backups -> Stream \cup {Nil}]
      /\ plain \in [Files -> Seq(Entry) \cup {Nil}]
  BY DEF Base, TypeOK
<1>2. CASE GzipOpen
  <2>1. [entries |-> <<>>, whole |-> FALSE] \in [entries : Seq(Entry), whole : BOOLEAN]
    OBVIOUS
  <2>2. QED
    BY <1>1, <1>2, <2>1 DEF GzipOpen, Stream
<1>3. CASE GzipClose
  <2>1. n \in Backups /\ plain[n] \in Seq(Entry)
    BY <1>1, <1>3, PlaceTyped DEF GzipClose, Base, CallInv, GzInv, Exists
  <2>2. QED
    BY <1>1, <1>3, <2>1 DEF GzipClose, Stream
<1>4. CASE GzipFails
  BY <1>1, <1>4 DEF GzipFails
<1>5. CASE gz' = gz
  BY <1>1, <1>5
<1>6. QED
  BY <1>2, <1>3, <1>4, <1>5
     DEF Next, LogStep, GzipPass, Log, DropOldest, ShiftBackup, RotateCurrent, GzipSkip,
         GzipUnlink, GzipDone, AppendEntry, LogFails, Crash

LEMMA PlainStep ==
  ASSUME Base, Next
  PROVE  PlainInv'
<1>0. written \in Nat /\ PlainInv /\ TypeOK /\ PlainIds \subseteq 1 .. written /\ CallInv
  BY BoundAssumption DEF Base, TypeOK, PlainInv
<1>1. CASE DropOldest
  <2>1. plain' = [plain EXCEPT ![BackupCount] = Nil]
    BY <1>1 DEF DropOldest
  <2>2. PlainIds' \subseteq PlainIds /\ plain'[BackupCount] = Nil /\ plain'[0] = plain[0]
    <3>1. BackupCount \in Files /\ 0 \in Files /\ 0 # BackupCount
      BY PlaceTyped
    <3>2. PlainIds' \subseteq PlainIds
      BY <1>0, <2>1, <3>1, RemoveKeeps
    <3>3. QED
      BY <1>0, <2>1, <3>1, <3>2 DEF TypeOK
  <2>3. QED
    BY <1>0, <1>1, <2>2, PlaceTyped DEF DropOldest, PlainInv
<1>2. CASE ShiftBackup
  <2>1. n \in 1 .. BackupCount - 1 /\ n \in 0 .. BackupCount - 1 /\ plain[n + 1] = Nil
    BY <1>2, RotationPlaces
  <2>2. CASE Exists(plain[n])
    <3>1. Rename(n)
      BY <1>2, <2>2 DEF ShiftBackup
    <3>2. PlainIds' = PlainIds /\ plain'[n] = Nil /\ plain'[0] = plain[0]
      BY <1>0, <2>1, <3>1, RenameKeeps, PlaceTyped
    <3>3. QED
      BY <1>0, <1>2, <2>1, <3>2, PlaceTyped DEF ShiftBackup, PlainInv
  <2>3. CASE ~Exists(plain[n])
    <3>1. plain' = plain /\ plain[n] = Nil
      BY <1>2, <2>3 DEF ShiftBackup, Exists
    <3>2. QED
      BY <1>0, <1>2, <2>1, <3>1, PlaceTyped DEF ShiftBackup, PlainInv, PlainIds
  <2>4. QED
    BY <2>2, <2>3
<1>3. CASE RotateCurrent
  <2>1. PlainIds' = PlainIds
    BY <1>0, <1>3, RotationPlaces, RenameKeeps DEF RotateCurrent
  <2>2. QED
    BY <1>0, <1>3, <2>1 DEF RotateCurrent, PlainInv
<1>4. CASE AppendEntry
  <2>1. PlainIds' = PlainIds \cup {written + 1}
    BY <1>0, <1>4, AppendKeeps
  <2>2. QED
    BY <1>0, <1>4, <2>1 DEF AppendEntry, PlainInv
<1>5. CASE GzipUnlink
  <2>1. PlainIds' \subseteq PlainIds
    BY <1>0, <1>5, PlaceTyped, RemoveKeeps DEF GzipUnlink, CallInv
  <2>2. QED
    BY <1>0, <1>5, <2>1 DEF GzipUnlink, PlainInv
<1>6. CASE \E size \in Sizes : Log(size)
  BY <1>0, <1>6 DEF Log, NeedsRotation, PlainInv, PlainIds
<1>7. CASE GzipSkip \/ GzipOpen \/ GzipClose \/ GzipDone \/ GzipFails \/ LogFails \/ Crash
  BY <1>0, <1>7
     DEF GzipSkip, GzipOpen, GzipClose, GzipDone, GzipFails, LogFails, Crash, PlainInv, PlainIds
<1>8. QED
  BY <1>1, <1>2, <1>3, <1>4, <1>5, <1>6, <1>7 DEF Next, LogStep, GzipPass

LEMMA GzStep ==
  ASSUME Base, Next
  PROVE  GzInv'
<1>0. GzInv /\ CallInv /\ gz \in [Backups -> Stream \cup {Nil}]
      /\ threshold \in Nat
  BY ThresholdAssumption DEF Base, TypeOK
<1>1. CASE GzipOpen
  BY <1>0, <1>1 DEF GzipOpen, GzInv, Compressible
<1>2. CASE GzipClose
  <2>1. n \in Backups
    BY <1>0, <1>2 DEF GzipClose, CallInv
  <2>2. gz'[n] = [entries |-> plain[n], whole |-> TRUE]
    BY <1>0, <1>2, <2>1 DEF GzipClose
  <2>3. QED
    BY <1>0, <1>2, <2>2 DEF GzipClose, GzInv
<1>3. CASE RotateCurrent
  BY <1>0, <1>3 DEF RotateCurrent, GzInv
<1>4. CASE GzipSkip \/ GzipUnlink \/ GzipDone \/ GzipFails
  BY <1>0, <1>4 DEF GzipSkip, GzipUnlink, GzipDone, GzipFails, GzInv
<1>5. CASE (\E size \in Sizes : Log(size)) \/ DropOldest \/ ShiftBackup \/ AppendEntry \/ LogFails \/ Crash
  BY <1>0, <1>5 DEF Log, DropOldest, ShiftBackup, AppendEntry, LogFails, Crash, GzInv
<1>6. QED
  BY <1>1, <1>2, <1>3, <1>4, <1>5 DEF Next, LogStep, GzipPass

LEMMA BaseStep == Base /\ [Next]_vars => Base'
<1>1. ASSUME Base, Next PROVE Base'
  <2>1. TypeOK'
    BY <1>1, PlainTyped, CallStep, GzTyped DEF TypeOK, Base
  <2>2. QED
    BY <1>1, <2>1, CallStep, PlainStep, GzStep DEF Base
<1>2. ASSUME Base, UNCHANGED vars PROVE Base'
  BY <1>2 DEF vars, Base, TypeOK, CallInv, PlainInv, PlainIds, GzInv
<1>3. QED
  BY <1>1, <1>2

-----------------------------------------------------------------------------
(* No file operation moves a file over, or behind, a newer one.            *)
LEMMA OrderStep ==
  ASSUME Base, PlainInOrder, Next
  PROVE  PlainInOrder'
<1>1. CASE plain' = plain
  BY <1>1 DEF PlainInOrder
<1>2. CASE DropOldest /\ plain' = [plain EXCEPT ![BackupCount] = Nil]
  BY <1>2, PlaceTyped, RemoveKeeps DEF Base
<1>3. CASE ShiftBackup /\ Rename(n)
  BY <1>3, RotationPlaces, RenameKeeps DEF Base
<1>4. CASE RotateCurrent /\ Rename(0)
  BY <1>4, RotationPlaces, RenameKeeps DEF Base
<1>5. CASE GzipUnlink /\ plain' = [plain EXCEPT ![n] = Nil]
  BY <1>5, PlaceTyped, RemoveKeeps DEF Base, CallInv, GzipUnlink
<1>6. CASE AppendEntry
  BY <1>6, AppendKeeps DEF Base
<1>7. QED
  BY <1>1, <1>2, <1>3, <1>4, <1>5, <1>6, PlainSteps

(* Without compression only plaintext files hold entries.                  *)
LEMMA RetainedPlain ==
  ASSUME GzInv, threshold = 0
  PROVE  Retained = PlainIds /\ Generations = {m \in Files : Exists(plain[m])}
<1>1. \A m \in Backups : ~Exists(gz[m])
  BY DEF GzInv, Exists
<1>2. GzIds = {}
  BY <1>1 DEF GzIds
<1>3. \A m \in Files : m > 0 => m \in Backups
  BY PlaceTyped DEF Files, Backups
<1>4. QED
  BY <1>1, <1>2, <1>3 DEF Retained, Generations

LEMMA RetainedPlainNext ==
  ASSUME GzInv', threshold' = 0
  PROVE  Retained' = PlainIds'
<1>1. \A m \in Backups : ~Exists(gz'[m])
  BY DEF GzInv, Exists
<1>2. GzIds' = {}
  BY <1>1 DEF GzIds
<1>3. QED
  BY <1>2 DEF Retained

(* Without compression, a rotation loses what the oldest backup holds, and *)
(* no other step loses anything.                                           *)
LEMMA LostStep ==
  ASSUME Base, Next, threshold = 0
  PROVE  /\ Lost \subseteq 1 .. written
         /\ Lost' \subseteq 1 .. written
         /\ \/ Lost' = Lost /\ Retained' \subseteq Retained \cup {written + 1}
            \/ /\ DropOldest /\ Retained' \subseteq Retained
               /\ Lost' \subseteq Lost \cup Ids(plain[BackupCount])
               /\ \A j \in Retained' : \E k \in Files : k < BackupCount /\ j \in Ids(plain[k])
<1>1. written \in Nat /\ PlainIds \subseteq 1 .. written /\ TypeOK /\ CallInv /\ PlainInv
  BY BoundAssumption DEF Base, TypeOK, PlainInv
<1>2. Retained = PlainIds /\ threshold' = 0 /\ Retained' = PlainIds'
  BY CallStep, GzStep, RetainedPlain, RetainedPlainNext DEF Base
<1>3. Lost = (1 .. written) \ PlainIds /\ Lost' = (1 .. written') \ PlainIds'
  BY <1>2 DEF Lost
<1>4. ~GzipPass
  BY DEF GzipPass, GzipSkip, GzipOpen, GzipClose, GzipUnlink, GzipDone, GzipFails, Base, GzInv
<1>5. ASSUME PlainIds' = PlainIds, written' = written
      PROVE  Lost \subseteq 1 .. written /\ Lost' = Lost /\ Retained' = Retained
  BY <1>2, <1>3, <1>5
<1>6. CASE plain' = plain /\ ~AppendEntry
  <2>1. PlainIds' = PlainIds /\ written' = written
    BY <1>4, <1>6
       DEF PlainIds, Next, LogStep, Log, DropOldest, ShiftBackup, RotateCurrent, LogFails, Crash
  <2>2. QED
    BY <1>5, <2>1
<1>7. CASE DropOldest /\ plain' = [plain EXCEPT ![BackupCount] = Nil]
  <2>1. /\ PlainIds' \subseteq PlainIds /\ PlainIds \subseteq PlainIds' \cup Ids(plain[BackupCount])
        /\ \A k \in Files : plain'[k] = IF k = BackupCount THEN Nil ELSE plain[k]
    BY <1>1, <1>7, PlaceTyped, RemoveKeeps
  <2>2. written' = written
    BY <1>7 DEF DropOldest
  <2>3. ASSUME NEW j \in PlainIds' PROVE \E k \in Files : k < BackupCount /\ j \in Ids(plain[k])
    <3>1. PICK k \in Files : j \in Ids(plain'[k])
      BY <2>3 DEF PlainIds
    <3>2. k # BackupCount /\ j \in Ids(plain[k])
      BY <2>1, <3>1, NilIds
    <3>3. k < BackupCount
      BY <3>2, PlaceTyped DEF Files
    <3>4. QED
      BY <3>2, <3>3
  <2>4. QED
    BY <1>2, <1>3, <1>7, <2>1, <2>2, <2>3
<1>8. CASE ShiftBackup /\ Rename(n)
  <2>1. PlainIds' = PlainIds /\ written' = written
    BY <1>1, <1>8, RotationPlaces, RenameKeeps DEF ShiftBackup
  <2>2. QED
    BY <1>5, <2>1
<1>9. CASE RotateCurrent /\ Rename(0)
  <2>1. PlainIds' = PlainIds /\ written' = written
    BY <1>1, <1>9, RotationPlaces, RenameKeeps DEF RotateCurrent
  <2>2. QED
    BY <1>5, <2>1
<1>10. CASE AppendEntry
  <2>1. PlainIds' = PlainIds \cup {written + 1} /\ written' = written + 1
    BY <1>1, <1>10, AppendKeeps DEF AppendEntry
  <2>2. 1 .. written + 1 = (1 .. written) \cup {written + 1} /\ written + 1 \notin 1 .. written
    BY <1>1
  <2>3. QED
    BY <1>1, <1>2, <1>3, <2>1, <2>2
<1>11. QED
  BY <1>4, <1>6, <1>7, <1>8, <1>9, <1>10, PlainSteps DEF GzipPass

LEMMA OldestStep ==
  ASSUME Base, PlainInOrder, OnlyOldestLost, Next
  PROVE  OnlyOldestLost'
<1> SUFFICES ASSUME threshold' = 0, NEW i \in Lost', NEW j \in Retained' PROVE i < j
  BY DEF OnlyOldestLost
<1>1. threshold = 0 /\ written \in Nat /\ \A a \in Lost, b \in Retained : a < b
  BY CallStep, BoundAssumption DEF OnlyOldestLost, Base, TypeOK
<1>2. CASE Lost' = Lost /\ Retained' \subseteq Retained \cup {written + 1}
  BY <1>1, <1>2, LostStep
<1>3. CASE /\ DropOldest /\ Retained' \subseteq Retained
           /\ Lost' \subseteq Lost \cup Ids(plain[BackupCount])
           /\ \A b \in Retained' : \E k \in Files : k < BackupCount /\ b \in Ids(plain[k])
  <2>1. PICK k \in Files : k < BackupCount /\ j \in Ids(plain[k])
    BY <1>3
  <2>2. CASE i \in Lost
    BY <1>1, <1>3, <2>2
  <2>3. CASE i \in Ids(plain[BackupCount])
    BY <2>1, <2>3, PlaceTyped DEF PlainInOrder
  <2>4. QED
    BY <1>3, <2>2, <2>3
<1>4. QED
  BY <1>1, <1>2, <1>3, LostStep

(* A compressed copy is whole before its plaintext goes.                   *)
LEMMA CopyStep ==
  ASSUME Base, Next
  PROVE  CopyIsKept
<1> SUFFICES ASSUME at \in {"gzip", "compress", "unlink"} PROVE PlainIds \subseteq Retained'
  BY DEF CopyIsKept
<1>1. TypeOK /\ CallInv /\ plain \in [Files -> Seq(Entry) \cup {Nil}]
  BY DEF Base, TypeOK
<1>2. CASE plain' = plain
  BY <1>2 DEF PlainIds, Retained
<1>3. CASE GzipUnlink /\ plain' = [plain EXCEPT ![n] = Nil]
  <2>1. n \in Backups /\ n \in Files
    BY <1>1, <1>3, PlaceTyped DEF GzipUnlink, CallInv
  <2>2. gz'[n] = [entries |-> plain[n], whole |-> TRUE] /\ plain[n] \in Seq(Entry)
    BY <1>1, <1>3, <2>1 DEF GzipUnlink, Base, GzInv, Exists
  <2>3. Exists(gz'[n]) /\ gz'[n].whole /\ gz'[n].entries = plain[n]
    <3>1. \A s \in Seq(Entry) : [entries |-> s, whole |-> TRUE] \in Stream
      BY DEF Stream
    <3>2. gz'[n] \in Stream
      BY <2>2, <3>1
    <3>3. gz'[n].whole /\ gz'[n].entries = plain[n]
      BY <2>2
    <3>4. Exists(gz'[n])
      BY <3>2, NilAssumption DEF Exists
    <3>5. QED
      BY <3>3, <3>4
  <2>4. Ids(plain[n]) \subseteq GzIds'
    BY <2>1, <2>3 DEF GzIds
  <2>5. PlainIds \subseteq PlainIds' \cup Ids(plain[n])
    BY <1>1, <1>3, <2>1, RemoveKeeps
  <2>6. QED
    BY <2>4, <2>5 DEF Retained
<1>4. CASE DropOldest \/ ShiftBackup \/ RotateCurrent \/ AppendEntry
  BY <1>4 DEF DropOldest, ShiftBackup, RotateCurrent, AppendEntry
<1>5. QED
  BY <1>2, <1>3, <1>4, PlainSteps
-----------------------------------------------------------------------------
(* Without compression: below a file that exists, or below the last place  *)
(* once entries were dropped, there is at most one free place for each     *)
(* failed call, and the one that a rotation in progress moves around.      *)
Gaps(m) == {l \in 0 .. m : ~Exists(plain[l])}

Reached(m) == Exists(plain[m]) \/ (m = BackupCount /\ Lost # {})

Slack(m) == IF (at = "shift" /\ m > n) \/ (at = "append" /\ ~Exists(plain[0])) THEN 1 ELSE 0

GapInv == threshold = 0 => \A m \in Files : Reached(m) => Cardinality(Gaps(m)) <= faults + Slack(m)

LEMMA GapsFinite ==
  ASSUME NEW m \in Files
  PROVE  IsFiniteSet(Gaps(m)) /\ Cardinality(Gaps(m)) \in Nat
<1>1. IsFiniteSet(0 .. m)
  BY FS_Interval DEF Files
<1>2. Gaps(m) \in SUBSET (0 .. m)
  BY DEF Gaps
<1>3. IsFiniteSet(Gaps(m))
  BY <1>1, <1>2, FS_Subset
<1>4. QED
  BY <1>3, FS_CardinalityType

(* Taking a member away, or putting one in that was not there.             *)
LEMMA OneMore ==
  ASSUME NEW S, NEW T, NEW x, IsFiniteSet(S), T \subseteq S \cup {x}
  PROVE  IsFiniteSet(T) /\ Cardinality(T) \in Nat /\ Cardinality(S) \in Nat
         /\ Cardinality(T) <= Cardinality(S) + 1
<1>1. IsFiniteSet(S \cup {x}) /\ Cardinality(S) \in Nat /\ Cardinality(S \cup {x}) \in Nat
      /\ Cardinality(S \cup {x}) <= Cardinality(S) + 1
  BY FS_AddElement, FS_CardinalityType
<1>2. IsFiniteSet(T) /\ Cardinality(T) <= Cardinality(S \cup {x}) /\ Cardinality(T) \in Nat
  BY <1>1, FS_Subset, FS_CardinalityType
<1>3. QED
  BY <1>1, <1>2

LEMMA OneMoved ==
  ASSUME NEW S, NEW x, NEW y, IsFiniteSet(S), x \in S, y \notin S
  PROVE  Cardinality((S \ {x}) \cup {y}) = Cardinality(S)
<1>1. IsFiniteSet(S \ {x}) /\ Cardinality(S \ {x}) = Cardinality(S) - 1 /\ Cardinality(S) \in Nat
  BY FS_RemoveElement, FS_CardinalityType
<1>2. Cardinality((S \ {x}) \cup {y}) = Cardinality(S \ {x}) + 1
  BY <1>1, FS_AddElement
<1>3. QED
  BY <1>1, <1>2

(* A file that moves up leaves a free place behind it and fills the one it *)
(* moves to.                                                               *)
LEMMA RenameGaps ==
  ASSUME TypeOK, NEW k \in 0 .. BackupCount - 1, Exists(plain[k]), plain[k + 1] = Nil, Rename(k),
         NEW m \in Files
  PROVE  /\ m < k => Gaps(m)' = Gaps(m)
         /\ m = k => ~Exists(plain'[m])
         /\ m = k + 1 => Gaps(m)' \subseteq Gaps(k) \cup {k}
         /\ m > k + 1 => Cardinality(Gaps(m)') = Cardinality(Gaps(m))
         /\ m # k /\ m # k + 1 => plain'[m] = plain[m]
<1>1. \A l \in Files : plain'[l] = IF l = k THEN Nil ELSE IF l = k + 1 THEN plain[k] ELSE plain[l]
  BY RenameKeeps
<1>2. k \in Nat /\ k \in Files /\ k + 1 \in Files /\ \A l \in 0 .. m : l \in Files
  BY PlaceTyped DEF Files
<1>3. /\ Gaps(m) = {l \in 0 .. m : ~Exists(plain[l])}
      /\ Gaps(m)' = {l \in 0 .. m : ~Exists(plain'[l])}
      /\ Gaps(k) = {l \in 0 .. k : ~Exists(plain[l])}
  BY DEF Gaps
<1>4. m < k => Gaps(m)' = Gaps(m)
  <2>1. m < k => \A l \in 0 .. m : plain'[l] = plain[l]
    BY <1>1, <1>2 DEF Files
  <2>2. QED
    BY <1>3, <2>1
<1>5. m = k + 1 => Gaps(m)' \subseteq Gaps(k) \cup {k}
  <2>1. ASSUME m = k + 1, NEW l \in 0 .. m, ~Exists(plain'[l]), l # k
        PROVE  l \in 0 .. k /\ ~Exists(plain[l])
    BY <1>1, <1>2, <2>1 DEF Files
  <2>2. QED
    BY <1>3, <2>1
<1>6. m > k + 1 => Cardinality(Gaps(m)') = Cardinality(Gaps(m))
  <2> SUFFICES ASSUME m > k + 1 PROVE Cardinality(Gaps(m)') = Cardinality(Gaps(m))
    OBVIOUS
  <2>1. k \in 0 .. m /\ k + 1 \in 0 .. m /\ k # k + 1
    BY <1>2 DEF Files
  <2>2. ~Exists(Nil)
    BY DEF Exists
  <2>3. \A l \in 0 .. m : ~Exists(plain'[l]) <=> l # k + 1 /\ (l = k \/ ~Exists(plain[l]))
    BY <1>1, <1>2, <2>1, <2>2
  <2>4. Gaps(m)' = (Gaps(m) \ {k + 1}) \cup {k}
    BY <1>3, <2>1, <2>3
  <2>5. k + 1 \in Gaps(m) /\ k \notin Gaps(m)
    BY <1>3, <2>1, <2>2
  <2>6. QED
    BY <2>4, <2>5, GapsFinite, OneMoved
<1>7. QED
  BY <1>1, <1>2, <1>4, <1>5, <1>6 DEF Exists

LEMMA GapStep ==
  ASSUME Base, GapInv, Next
  PROVE  GapInv'
<1> SUFFICES ASSUME threshold = 0, NEW m \in Files, Reached(m)'
             PROVE  Cardinality(Gaps(m)') <= faults' + Slack(m)'
  BY CallStep DEF GapInv
<1>1. /\ TypeOK /\ m \in Nat /\ m <= BackupCount /\ faults \in Nat /\ n \in Nat
      /\ \A l \in 0 .. m : l \in Files
  BY PlaceTyped, BoundAssumption DEF Base, TypeOK, Files
<1>2. \A k \in Files : Reached(k) => Cardinality(Gaps(k)) <= faults + Slack(k)
  BY DEF GapInv
<1>3. \A k \in Files : Cardinality(Gaps(k)) \in Nat /\ IsFiniteSet(Gaps(k))
  BY GapsFinite
<1>4. Slack(m) \in {0, 1} /\ Slack(m)' \in {0, 1}
  BY DEF Slack
<1>5. ~GzipPass
  BY DEF GzipPass, GzipSkip, GzipOpen, GzipClose, GzipUnlink, GzipDone, GzipFails, Base, GzInv
<1>6. ASSUME plain' = plain, Lost' = Lost, faults + Slack(m) <= faults' + Slack(m)', faults' \in Nat
      PROVE  Cardinality(Gaps(m)') <= faults' + Slack(m)'
  <2>1. Reached(m) /\ Gaps(m)' = Gaps(m)
    BY <1>6 DEF Reached, Gaps
  <2>2. QED
    BY <1>1, <1>2, <1>3, <1>4, <1>6, <2>1
<1>7. ~DropOldest => Lost' = Lost
  BY LostStep
<1>8. CASE \E size \in Sizes : Log(size)
  BY <1>1, <1>4, <1>6, <1>7, <1>8 DEF Log, Slack, DropOldest
<1>9. CASE LogFails \/ Crash
  BY <1>1, <1>4, <1>6, <1>7, <1>9 DEF LogFails, Crash, Fault, DropOldest
<1>10. CASE DropOldest
  <2>1. plain' = [plain EXCEPT ![BackupCount] = Nil] /\ faults' = faults /\ at = "drop" /\ at' = "shift"
        /\ n' = BackupCount - 1
    BY <1>10 DEF DropOldest
  <2>2. BackupCount \in Files /\ \A l \in Files : plain'[l] = IF l = BackupCount THEN Nil ELSE plain[l]
    BY <1>1, <2>1, PlaceTyped, RemoveKeeps
  <2>3. Slack(m) = 0 /\ Slack(m)' = IF m = BackupCount THEN 1 ELSE 0
    BY <1>1, <2>1, PlaceTyped DEF Slack
  <2>4. Reached(m)
    <3>1. CASE m # BackupCount
      BY <2>2, <3>1 DEF Reached
    <3>2. CASE m = BackupCount
      <4>1. Lost' # {}
        BY <2>2, <3>2 DEF Reached, Exists
      <4>2. Lost # {} \/ Ids(plain[BackupCount]) # {}
        BY <4>1, LostStep
      <4>3. QED
        BY <3>2, <4>2 DEF Reached, Ids
    <3>3. QED
      BY <3>1, <3>2
  <2>5. Gaps(m)' \subseteq Gaps(m) \cup {BackupCount}
    BY <1>1, <2>2 DEF Gaps
  <2>6. CASE m = BackupCount
    <3>1. Cardinality(Gaps(m)') \in Nat /\ Cardinality(Gaps(m)') <= Cardinality(Gaps(m)) + 1
      BY <1>3, <2>5, OneMore
    <3>2. QED
      BY <1>1, <1>2, <1>3, <2>1, <2>3, <2>4, <2>6, <3>1
  <2>7. CASE m # BackupCount
    <3>1. \A l \in 0 .. m : l # BackupCount
      BY <1>1, <2>7, PlaceTyped
    <3>2. Gaps(m)' = Gaps(m)
      BY <1>1, <2>2, <3>1 DEF Gaps
    <3>3. QED
      BY <1>1, <1>2, <1>3, <2>1, <2>3, <2>4, <2>7, <3>2
  <2>8. QED
    BY <2>6, <2>7
<1>11. ASSUME NEW k \in 0 .. BackupCount - 1, at = "shift", n = k, plain[k + 1] = Nil,
              Exists(plain[k]), Rename(k), Lost' = Lost, faults' = faults,
              Slack(m)' = IF m >= k /\ m > 0 THEN 1 ELSE 0
       PROVE  Cardinality(Gaps(m)') <= faults' + Slack(m)'
  <2>1. k \in Nat /\ k \in Files /\ k + 1 \in Files
    BY PlaceTyped
  <2>2. \A l \in Files : Slack(l) = IF l > k THEN 1 ELSE 0
    BY <1>11 DEF Slack
  <2>3. m # k
    BY <1>11, <2>1, RenameGaps, <1>1, PlaceTyped DEF Reached
  <2>4. CASE m < k
    <3>1. Gaps(m)' = Gaps(m) /\ Reached(m)
      BY <1>1, <1>11, <2>1, <2>4, RenameGaps DEF Reached
    <3>2. QED
      BY <1>1, <1>2, <1>3, <1>4, <1>11, <2>1, <2>2, <2>4, <3>1
  <2>5. CASE m = k + 1
    <3>1. Gaps(m)' \subseteq Gaps(k) \cup {k} /\ Reached(k) /\ Slack(k) = 0 /\ Slack(m)' = 1
      BY <1>1, <1>11, <2>1, <2>2, <2>5, RenameGaps DEF Reached
    <3>2. Cardinality(Gaps(m)') \in Nat /\ Cardinality(Gaps(m)') <= Cardinality(Gaps(k)) + 1
      BY <1>3, <2>1, <3>1, OneMore
    <3>3. QED
      BY <1>1, <1>2, <1>3, <1>11, <2>1, <3>1, <3>2
  <2>6. CASE m > k + 1
    <3>1. Cardinality(Gaps(m)') = Cardinality(Gaps(m)) /\ Reached(m) /\ Slack(m) = 1 /\ Slack(m)' = 1
      BY <1>1, <1>11, <2>1, <2>2, <2>6, RenameGaps DEF Reached
    <3>2. QED
      BY <1>1, <1>2, <1>3, <1>11, <3>1
  <2>7. QED
    BY <1>1, <2>1, <2>3, <2>4, <2>5, <2>6
<1>12. CASE ShiftBackup
  <2>1. /\ n \in 1 .. BackupCount - 1 /\ n \in 0 .. BackupCount - 1 /\ plain[n + 1] = Nil
        /\ at = "shift" /\ at' = "shift" /\ n' = n - 1 /\ faults' = faults /\ Lost' = Lost
    BY <1>7, <1>12, RotationPlaces DEF ShiftBackup, DropOldest
  <2>2. Slack(m)' = (IF m >= n /\ m > 0 THEN 1 ELSE 0) /\ Slack(m) = IF m > n THEN 1 ELSE 0
    BY <1>1, <2>1 DEF Slack
  <2>3. CASE Exists(plain[n])
    BY <1>11, <1>12, <2>1, <2>2, <2>3 DEF ShiftBackup
  <2>4. CASE ~Exists(plain[n])
    BY <1>1, <1>6, <1>12, <2>1, <2>2, <2>4 DEF ShiftBackup
  <2>5. QED
    BY <2>3, <2>4
<1>13. CASE RotateCurrent
  <2>1. /\ 0 \in 0 .. BackupCount - 1 /\ plain[0 + 1] = Nil /\ Exists(plain[0]) /\ Rename(0)
        /\ at = "shift" /\ n = 0 /\ at' = "append" /\ faults' = faults /\ Lost' = Lost
    BY <1>7, <1>13, RotationPlaces DEF RotateCurrent, DropOldest
  <2>2. ~Exists(plain'[0])
    BY <1>1, <2>1, PlaceTyped, RenameGaps
  <2>3. m # 0
    BY <2>2, PlaceTyped DEF Reached
  <2>4. Slack(m)' = IF m >= 0 /\ m > 0 THEN 1 ELSE 0
    BY <1>1, <2>1, <2>2, <2>3 DEF Slack
  <2>5. QED
    BY <1>11, <2>1, <2>4
<1>14. CASE AppendEntry
  <2>1. /\ Exists(plain'[0]) /\ \A l \in Files \ {0} : plain'[l] = plain[l]
        /\ faults' = faults /\ Lost' = Lost /\ at = "append" /\ at' = "idle"
    BY <1>1, <1>7, <1>14, AppendKeeps DEF AppendEntry, DropOldest, Base
  <2>2. Slack(m)' = 0 /\ Slack(m) = IF Exists(plain[0]) THEN 0 ELSE 1
    BY <2>1 DEF Slack
  <2>3. Gaps(m)' = Gaps(m) \ {0} /\ 0 \in 0 .. m
    BY <1>1, <2>1 DEF Gaps
  <2>4. 0 \in Gaps(m) <=> ~Exists(plain[0])
    BY <2>3 DEF Gaps
  <2>5. Cardinality(Gaps(m)') = IF 0 \in Gaps(m) THEN Cardinality(Gaps(m)) - 1 ELSE Cardinality(Gaps(m))
    BY <1>3, <2>3, FS_RemoveElement
  <2>6. CASE Reached(m)
    BY <1>1, <1>2, <1>3, <2>1, <2>2, <2>4, <2>5, <2>6
  <2>7. CASE ~Reached(m)
    <3>1. m = 0
      BY <2>1, <2>7, PlaceTyped DEF Reached
    <3>2. Gaps(m)' = {}
      BY <2>1, <3>1 DEF Gaps
    <3>3. QED
      BY <1>1, <2>1, <2>2, <3>2, FS_EmptySet
  <2>8. QED
    BY <2>6, <2>7
<1>15. QED
  BY <1>5, <1>8, <1>9, <1>10, <1>12, <1>13, <1>14 DEF Next, LogStep

LEMMA GapsKeep ==
  ASSUME Base, GapInv
  PROVE  KeptGenerations
<1> SUFFICES ASSUME threshold = 0, Lost # {} PROVE Cardinality(Generations) >= BackupCount - faults
  BY DEF KeptGenerations
<1>1. BackupCount \in Files /\ BackupCount \in Nat /\ faults \in Nat
  BY PlaceTyped, BoundAssumption DEF Base, TypeOK
<1>2. Cardinality(Gaps(BackupCount)) <= faults + 1 /\ Cardinality(Gaps(BackupCount)) \in Nat
  BY <1>1, GapsFinite DEF GapInv, Reached, Slack
<1>3. Generations = Files \ Gaps(BackupCount) /\ Files \cap Gaps(BackupCount) = Gaps(BackupCount)
  BY RetainedPlain DEF Base, Gaps, Files
<1>4. IsFiniteSet(Files) /\ Cardinality(Files) = BackupCount + 1
  BY <1>1, FS_Interval DEF Files
<1>5. Cardinality(Generations) = Cardinality(Files) - Cardinality(Gaps(BackupCount))
  BY <1>3, <1>4, FS_Difference
<1>6. QED
  BY <1>1, <1>2, <1>4, <1>5

-----------------------------------------------------------------------------
AInv == Base /\ PlainInOrder /\ OnlyOldestLost /\ GapInv

LEMMA AuditInit == Init => AInv
<1> SUFFICES ASSUME Init PROVE AInv
  OBVIOUS
<1>1. /\ plain = [m \in Files |-> Nil] /\ gz = [m \in Backups |-> Nil] /\ threshold \in Thresholds
      /\ at = "idle" /\ n = 0 /\ entry = Nil /\ written = 0 /\ faults = 0
  BY DEF Init
<1>2. \A m \in Files : ~Exists(plain[m]) /\ Ids(plain[m]) = {}
  BY <1>1 DEF Exists, Ids
<1>3. \A m \in Backups : ~Exists(gz[m])
  BY <1>1 DEF Exists
<1>4. PlainIds = {} /\ GzIds = {} /\ Retained = {} /\ Lost = {}
  BY <1>1, <1>2, <1>3 DEF PlainIds, GzIds, Retained, Lost
<1>5. TypeOK
  BY <1>1, PlaceTyped, BoundAssumption DEF TypeOK, Steps
<1>6. Base
  BY <1>1, <1>4, <1>5 DEF Base, CallInv, PlainInv, GzInv
<1>7. PlainInOrder /\ OnlyOldestLost
  BY <1>2, <1>4 DEF PlainInOrder, OnlyOldestLost
<1>8. GapInv
  BY <1>2, <1>4 DEF GapInv, Reached
<1>9. QED
  BY <1>6, <1>7, <1>8 DEF AInv

LEMMA AuditStep == AInv /\ [Next]_vars => AInv'
<1>1. ASSUME AInv, Next PROVE AInv'
  BY <1>1, BaseStep, OrderStep, OldestStep, GapStep DEF AInv
<1>2. ASSUME AInv, UNCHANGED vars PROVE AInv'
  <2>1. Base'
    BY <1>2, BaseStep DEF AInv
  <2>2. /\ plain' = plain /\ at' = at /\ n' = n /\ faults' = faults /\ threshold' = threshold
        /\ Lost' = Lost /\ Retained' = Retained
    BY <1>2 DEF vars, Lost, Retained, PlainIds, GzIds
  <2>3. PlainInOrder' /\ OnlyOldestLost'
    BY <1>2, <2>2 DEF AInv, PlainInOrder, OnlyOldestLost
  <2>4. GapInv'
    BY <1>2, <2>2 DEF AInv, GapInv, Reached, Gaps, Slack
  <2>5. QED
    BY <2>1, <2>3, <2>4 DEF AInv
<1>3. QED
  BY <1>1, <1>2

(* The inductive invariant of the log: AInv.                               *)
THEOREM AuditInvariant == Spec => []AInv
  BY AuditInit, AuditStep, PTL DEF Spec

(* The variables keep their types.                                         *)
THEOREM AuditTypeCorrect == Spec => []TypeOK
<1>1. AInv => TypeOK
  BY DEF AInv, Base
<1>2. QED
  BY <1>1, AuditInvariant, PTL

(* At every instant of every rotation, failed or interrupted ones          *)
(* included, the plaintext files hold the entries in the order they were   *)
(* logged, from the highest number down, none of them twice.               *)
THEOREM FilesStayInOrder == Spec => []PlainInOrder
<1>1. AInv => PlainInOrder
  BY DEF AInv
<1>2. QED
  BY <1>1, AuditInvariant, PTL

(* Without compression, what rotations, failures and crashes lose is older *)
(* than all that is left.                                                  *)
THEOREM OldestIsLost == Spec => []OnlyOldestLost
<1>1. AInv => OnlyOldestLost
  BY DEF AInv
<1>2. QED
  BY <1>1, AuditInvariant, PTL

(* Without compression, once something was dropped there are BackupCount   *)
(* files, less one for each call that failed or died.                      *)
THEOREM GenerationsAreKept == Spec => []KeptGenerations
<1>1. AInv => KeptGenerations
  BY GapsKeep DEF AInv
<1>2. QED
  BY <1>1, AuditInvariant, PTL

(* No step of the compression, a failed or interrupted one included, takes *)
(* an entry of the plaintext files away that is not in a whole compressed  *)
(* file.                                                                   *)
THEOREM CompressionKeeps == Spec => CompressionKeepsCopy
<1>1. AInv /\ [Next]_vars => [CopyIsKept]_vars
  BY CopyStep DEF AInv
<1>2. QED
  BY <1>1, AuditInvariant, PTL DEF Spec, CompressionKeepsCopy

-----------------------------------------------------------------------------
(* The readers.                                                            *)

(* A reader changes the log by the READ entry it has logged, which is a    *)
(* log call like any other.                                                *)
LEMMA ReaderSteps == [ReadNext]_readVars => [Next]_vars
  BY DEF ReadNext, readVars, Next, AuditRead, Status, BeginScan, ResolveGz, ResolvePlain, OpenPlain,
         OpenGz, LogRead, LogStep, NextIndex, BeginStatus, StatusExists, StatusStat, StatusCount,
         StatusGz, StatusPlain, End

(* With any number of readers' calls in between, the log behaves as it     *)
(* does without them: what holds of Spec holds of ReadSpec.                *)
THEOREM ReadersImplementLog == ReadSpec => Spec
<1>1. ReadInit => Init
  BY DEF ReadInit
<1>2. QED
  BY <1>1, ReaderSteps, PTL DEF ReadSpec, Spec

Stages == {"idle", "gz", "plain", "open", "log", "replied", "raised", "exists", "stat", "count", "done"}

Reader == [op : {"none", "scan", "status"}, at : Stages, m : 0 .. BackupCount + 1, lookup : {1, 2},
           path : {Nil, "plain", "gz"}, got : SUBSET Nat, since : SUBSET Nat]

(* The places a scan has behind it: the indexes below the one it is at,    *)
(* and that one once it has been read or found missing.                    *)
Behind ==
  {k \in Files : k < reader.m \/ (k = reader.m /\ reader.at \in {"log", "replied", "done"})}

ReaderShape ==
  /\ reader \in Reader
  /\ reader.since \subseteq 1 .. written
  /\ reader.at = "gz" => reader.m \in Backups
  /\ reader.op = "none" => reader.at = "idle"
  /\ reader.op = "scan" =>
       /\ reader.m \in Files
       /\ reader.at \in {"gz", "plain", "open", "log", "replied", "raised", "done"}
       /\ reader.at = "done" => reader.m = BackupCount
       /\ threshold = 0 => reader.at # "raised" /\ (reader.at = "open" => reader.path = "plain")
  /\ reader.op = "status" =>
       /\ reader.at \in {"exists", "stat", "count", "gz", "plain", "raised", "done"}
       /\ reader.at \in {"exists", "stat", "count"} => reader.m = 0
       /\ reader.at = "plain" => reader.m \in Files
       /\ reader.at = "done" => reader.m = BackupCount + 1

(* Files only move up: nothing the scan has not seen gets behind it.       *)
ScanInv ==
  (reader.op = "scan" /\ threshold = 0)
     => \A k \in Behind : reader.since \cap Ids(plain[k]) \subseteq reader.got

(* The places where status looks no more, or never does.                   *)
Passed(k) == k < reader.m \/ (k = 0 /\ statusFile # "log")

StatusInv ==
  (reader.op = "status" /\ reader.at # "raised" /\ threshold = 0 /\ reader.got = {})
     => \A k \in Files : Passed(k) => reader.since \cap Ids(plain[k]) = {}

ReaderInv == ReaderShape /\ ScanInv /\ StatusInv

(* What a file holds after a step was in it, or in a lower one, before.    *)
LEMMA ContentMovesUp ==
  ASSUME Base, [Next]_vars
  PROVE  /\ threshold' = threshold /\ written \in Nat /\ written' \in Nat /\ written <= written'
         /\ \A k \in Files : \E l \in Files :
              l <= k /\ Ids(plain'[k]) \subseteq Ids(plain[l]) \cup {written + 1}
<1>1. TypeOK /\ written \in Nat /\ (\A k \in Files : k \in Nat /\ k <= k)
  BY BoundAssumption, PlaceTyped DEF Base, TypeOK, Files
<1>2. threshold' = threshold /\ written' \in Nat /\ written <= written'
  <2>1. CASE Next
    BY <1>1, <2>1, CallStep, BoundAssumption
       DEF Next, LogStep, GzipPass, Log, DropOldest, ShiftBackup, RotateCurrent, GzipSkip, GzipOpen,
           GzipClose, GzipUnlink, GzipDone, GzipFails, AppendEntry, LogFails, Crash
  <2>2. QED
    BY <1>1, <2>1 DEF vars
<1>3. ASSUME NEW k \in Files
      PROVE  \E l \in Files : l <= k /\ Ids(plain'[k]) \subseteq Ids(plain[l]) \cup {written + 1}
  <2>1. ASSUME Ids(plain'[k]) \subseteq Ids(plain[k]) \cup {written + 1}
        PROVE  \E l \in Files : l <= k /\ Ids(plain'[k]) \subseteq Ids(plain[l]) \cup {written + 1}
    BY <1>1, <2>1
  <2>2. ASSUME NEW m \in 0 .. BackupCount - 1, plain[m + 1] = Nil, Rename(m)
        PROVE  \E l \in Files : l <= k /\ Ids(plain'[k]) \subseteq Ids(plain[l]) \cup {written + 1}
    <3>1. plain'[k] = IF k = m THEN Nil ELSE IF k = m + 1 THEN plain[m] ELSE plain[k]
      BY <1>1, <2>2, RenameKeeps
    <3>2. m \in Files /\ m <= m + 1
      BY PlaceTyped DEF Files
    <3>3. QED
      BY <1>1, <3>1, <3>2, NilIds
  <2>3. ASSUME NEW m \in Files, plain' = [plain EXCEPT ![m] = Nil]
        PROVE  \E l \in Files : l <= k /\ Ids(plain'[k]) \subseteq Ids(plain[l]) \cup {written + 1}
    BY <1>1, <2>1, <2>3, RemoveKeeps, NilIds
  <2>4. CASE plain' = plain
    BY <2>1, <2>4
  <2>5. CASE AppendEntry
    <3>1. plain[0] \in Seq(Entry) \cup {Nil} /\ entry \in Entry /\ entry.id = written + 1
      BY <1>1, <2>5, PlaceTyped DEF TypeOK, Base, CallInv, AppendEntry
    <3>2. plain'[k] = IF k = 0 THEN IF Exists(plain[0]) THEN Append(plain[0], entry) ELSE <<entry>>
                               ELSE plain[k]
      BY <1>1, <2>5, PlaceTyped DEF TypeOK, AppendEntry
    <3>3. QED
      BY <2>1, <3>1, <3>2, AppendedIds
  <2>6. CASE Next
    BY <2>2, <2>3, <2>4, <2>5, <2>6, PlainSteps, PlaceTyped, RotationPlaces DEF Base, CallInv, GzipUnlink
  <2>7. QED
    BY <2>4, <2>6 DEF vars
<1>4. QED
  BY <1>1, <1>2, <1>3

(* The log moves on while the reader stands.                               *)
LEMMA ReaderWaits ==
  ASSUME Base, [Next]_vars, ReaderInv, reader' = reader, statusFile' = statusFile
  PROVE  ReaderInv'
<1>1. threshold' = threshold /\ written \in Nat /\ written' \in Nat /\ written <= written'
  BY ContentMovesUp
<1>2. reader.since \subseteq 1 .. written /\ written + 1 \notin reader.since
  BY <1>1 DEF ReaderInv, ReaderShape
<1>3. ReaderShape'
  BY <1>1, <1>2 DEF ReaderInv, ReaderShape, Reader, Stages
<1>4. \A k \in Files : \E l \in Files :
        l <= k /\ reader.since \cap Ids(plain'[k]) \subseteq reader.since \cap Ids(plain[l])
  BY <1>2, ContentMovesUp
<1>5. reader.m \in Nat /\ \A k \in Files : k \in Nat
  BY PlaceTyped DEF ReaderInv, ReaderShape, Reader, Files
<1>6. ScanInv'
  <2>1. \A k \in Behind : \A l \in Files : l <= k => l \in Behind
    BY <1>5 DEF Behind
  <2>2. Behind' = Behind
    BY DEF Behind
  <2>3. \A k \in Behind : k \in Files
    BY DEF Behind
  <2>4. QED
    BY <1>1, <1>4, <2>1, <2>2, <2>3 DEF ReaderInv, ScanInv
<1>7. StatusInv'
  <2>1. \A k, l \in Files : Passed(k) /\ l <= k => Passed(l)
    BY <1>5 DEF Passed, Files
  <2>2. \A k \in Files : Passed(k)' <=> Passed(k)
    BY DEF Passed
  <2>3. QED
    BY <1>1, <1>4, <2>1, <2>2 DEF ReaderInv, StatusInv
<1>8. QED
  BY <1>3, <1>6, <1>7 DEF ReaderInv

LEMMA ReaderIdles ==
  ASSUME Base, [Next]_vars, reader' = Idle
  PROVE  ReaderInv'
<1>1. Idle \in Reader /\ Idle.op = "none" /\ Idle.at = "idle" /\ Idle.since = {}
  BY PlaceTyped DEF Idle, Reader, Stages
<1>2. QED
  BY <1>1 DEF ReaderInv, ReaderShape, ScanInv, StatusInv

LEMMA IdsKnown ==
  ASSUME TypeOK
  PROVE  /\ \A k \in Files : Ids(plain[k]) \subseteq Nat
         /\ \A k \in Backups : Exists(gz[k]) => Ids(gz[k].entries) \subseteq Nat
<1>1. \A k \in Files : Ids(plain[k]) \subseteq Nat
  BY IdsTyped DEF TypeOK
<1>2. ASSUME NEW k \in Backups, Exists(gz[k]) PROVE Ids(gz[k].entries) \subseteq Nat
  <2>1. gz[k] \in Stream
    BY <1>2 DEF TypeOK, Exists
  <2>2. gz[k].entries \in Seq(Entry)
    BY <2>1 DEF Stream
  <2>3. QED
    BY <2>2, IdsTyped
<1>3. QED
  BY <1>1, <1>2

(* The steps of a scan: what it leaves behind it has been read, or was     *)
(* missing when it looked.                                                 *)
LEMMA ScanStep ==
  ASSUME Base, ReaderInv, AuditRead
  PROVE  ReaderInv'
<1>1. /\ reader \in Reader /\ reader.since \subseteq 1 .. written /\ written \in Nat /\ TypeOK /\ GzInv
      /\ reader.m \in 0 .. BackupCount + 1 /\ BackupCount \in Nat /\ BackupCount >= 1
      /\ threshold \in Nat
  BY BoundAssumption, ThresholdAssumption, PlaceTyped DEF ReaderInv, ReaderShape, Reader, Base, TypeOK
<1>2. (threshold = 0 => \A k \in Backups : ~Exists(gz[k])) /\ \A k \in Files : ~Exists(plain[k]) => Ids(plain[k]) = {}
  BY <1>1 DEF GzInv, Exists, Ids
<1>3. ReaderShape /\ ScanInv /\ StatusInv
  BY DEF ReaderInv
(* The reader stays at its place, and what was behind it still is.         *)
<1>4. ASSUME UNCHANGED vars, reader.op = "scan", reader'.op = "scan", reader'.m = reader.m,
             reader'.since = reader.since, reader.got \subseteq reader'.got,
             threshold = 0 => \/ reader'.at \notin {"log", "replied", "done"}
                              \/ reader.at \in {"log", "replied", "done"}
                              \/ reader.since \cap Ids(plain[reader.m]) \subseteq reader'.got
      PROVE  ScanInv' /\ StatusInv'
  <2>1. threshold = 0 => \A k \in Behind' : reader.since \cap Ids(plain[k]) \subseteq reader'.got
    BY <1>3, <1>4 DEF Behind, ScanInv
  <2>2. QED
    BY <1>4, <2>1 DEF ScanInv, StatusInv, vars
<1>5. CASE BeginScan
  <2>1. PlainIds \subseteq 1 .. written
    BY DEF Base, PlainInv
  <2>2. /\ reader' = [op |-> "scan", at |-> "plain", m |-> 0, lookup |-> 1, path |-> Nil, got |-> {},
                      since |-> Kept(Files)]
        /\ Kept(Files) \subseteq 1 .. written /\ UNCHANGED vars
    BY <1>5, <2>1 DEF BeginScan, Idle, Kept, PlainIds
  <2>3. reader' \in Reader
    BY <1>1, <2>2 DEF Reader, Stages
  <2>4. ReaderShape'
    BY <1>1, <2>2, <2>3, PlaceTyped DEF ReaderShape, vars
  <2>5. Behind' = {}
    BY <2>2 DEF Behind, Files
  <2>6. QED
    BY <2>2, <2>4, <2>5 DEF ReaderInv, ScanInv, StatusInv
<1>6. CASE ResolveGz
  <2>1. UNCHANGED vars /\ reader.op = "scan" /\ reader.at = "gz" /\ reader.m \in Backups /\ reader.m \in Files
        /\ reader.m # 0
    BY <1>3, <1>6, PlaceTyped DEF ResolveGz, ReaderShape, Backups
  <2>2. \/ reader' = [reader EXCEPT !.lookup = 2, !.at = "gz"] /\ threshold # 0
        \/ reader' = [reader EXCEPT !.path = "gz", !.at = "open"] /\ threshold # 0
        \/ reader' = [reader EXCEPT !.at = "plain"]
    BY <1>2, <1>6, <2>1 DEF ResolveGz, Resolved, Resolving, Go
  <2>3. /\ reader' \in Reader /\ reader'.op = "scan" /\ reader'.m = reader.m /\ reader'.since = reader.since
        /\ reader'.got = reader.got /\ reader'.at \in {"gz", "open", "plain"}
        /\ (reader'.at = "open" => threshold # 0)
    BY <1>1, <2>1, <2>2 DEF Reader, Stages
  <2>4. ReaderShape'
    BY <1>1, <2>1, <2>3 DEF ReaderShape, vars
  <2>5. QED
    BY <1>4, <2>1, <2>3, <2>4 DEF ReaderInv
<1>7. CASE ResolvePlain
  <2>1. UNCHANGED vars /\ reader.op = "scan" /\ reader.at = "plain" /\ reader.m \in Files
        /\ (reader.m # 0 => reader.m \in Backups)
    BY <1>3, <1>7, PlaceTyped DEF ResolvePlain, ReaderShape, Backups, Files
  <2>2. \/ reader' = [reader EXCEPT !.lookup = 2, !.at = IF reader.m = 0 THEN "plain" ELSE "gz"]
        \/ reader' = [reader EXCEPT !.path = "plain", !.at = "open"]
        \/ reader' = [reader EXCEPT !.at = "replied"] /\ ~Exists(plain[reader.m])
        \/ reader' = [reader EXCEPT !.at = "log"] /\ ~Exists(plain[reader.m])
    BY <1>7, <2>1 DEF ResolvePlain, Resolved, Resolving, NotFound, Go
  <2>3. /\ reader' \in Reader /\ reader'.op = "scan" /\ reader'.m = reader.m /\ reader'.since = reader.since
        /\ reader'.got = reader.got /\ reader'.at \in {"plain", "gz", "open", "replied", "log"}
        /\ (reader'.at = "gz" => reader.m # 0) /\ (reader'.at = "open" => reader'.path = "plain")
        /\ (reader'.at \in {"replied", "log"} => ~Exists(plain[reader.m]))
    BY <1>1, <2>1, <2>2 DEF Reader, Stages
  <2>4. ReaderShape'
    BY <1>1, <2>1, <2>3 DEF ReaderShape, vars
  <2>5. QED
    BY <1>2, <1>4, <2>1, <2>3, <2>4 DEF ReaderInv
<1>8. CASE OpenPlain
  <2>1. UNCHANGED vars /\ reader.op = "scan" /\ reader.at = "open" /\ reader.m \in Files
    BY <1>1, <1>3, <1>8 DEF OpenPlain, ReaderShape, Reader
  <2>2. reader' = [reader EXCEPT !.at = "log",
                                 !.got = IF threshold = 0 THEN @ \cup Ids(plain[reader.m]) ELSE @]
    BY <1>1, <1>8 DEF OpenPlain, Got, Go, Reader
  <2>3. /\ reader' \in Reader /\ reader'.op = "scan" /\ reader'.m = reader.m /\ reader'.since = reader.since
        /\ reader'.at = "log"
        /\ reader'.got = IF threshold = 0 THEN reader.got \cup Ids(plain[reader.m]) ELSE reader.got
    BY <1>1, <2>1, <2>2, IdsKnown DEF Reader, Stages
  <2>4. ReaderShape'
    BY <1>1, <2>1, <2>3 DEF ReaderShape, vars
  <2>5. QED
    BY <1>4, <2>1, <2>3, <2>4 DEF ReaderInv
<1>9. CASE OpenGz
  <2>1. UNCHANGED vars /\ reader.op = "scan" /\ reader.at = "open" /\ reader.m \in Files /\ threshold # 0
    BY <1>1, <1>3, <1>9 DEF OpenGz, ReaderShape, Reader
  <2>2. reader' = [reader EXCEPT !.at = "log"] \/ reader' = [reader EXCEPT !.at = "raised"]
    <3>1. \A ids : Got(ids) = [reader EXCEPT !.at = "log"]
      BY <1>1, <2>1 DEF Got, Go, Reader
    <3>2. QED
      BY <1>9, <3>1 DEF OpenGz, Go
  <2>3. /\ reader' \in Reader /\ reader'.op = "scan" /\ reader'.m = reader.m /\ reader'.since = reader.since
        /\ reader'.at \in {"log", "raised"} /\ reader'.got = reader.got
    BY <1>1, <2>1, <2>2 DEF Reader, Stages
  <2>4. ReaderShape'
    BY <1>1, <2>1, <2>3 DEF ReaderShape, vars
  <2>5. QED
    BY <1>4, <2>1, <2>3, <2>4 DEF ReaderInv
<1>10. ASSUME NEW size \in Sizes, LogRead(size) PROVE ReaderInv'
  <2>1. /\ plain' = plain /\ threshold' = threshold /\ written' = written
        /\ reader.at = "log" /\ reader.op = "scan" /\ reader.m \in Files
    BY <1>1, <1>3, <1>10 DEF LogRead, Log, ReaderShape, Reader
  <2>2. reader' = [reader EXCEPT !.at = "replied"]
    BY <1>10 DEF LogRead, Go
  <2>3. /\ reader' \in Reader /\ reader'.op = "scan" /\ reader'.m = reader.m /\ reader'.since = reader.since
        /\ reader'.at = "replied" /\ reader'.got = reader.got
    BY <1>1, <2>1, <2>2 DEF Reader, Stages
  <2>4. ReaderShape'
    BY <1>1, <2>1, <2>3 DEF ReaderShape
  <2>5. Behind' = Behind
    BY <2>1, <2>3 DEF Behind
  <2>6. QED
    BY <1>3, <2>1, <2>3, <2>4, <2>5 DEF ReaderInv, ScanInv, StatusInv
<1>11. CASE NextIndex
  <2>1. UNCHANGED vars /\ reader.op = "scan" /\ reader.at \in {"replied", "raised"} /\ reader.m \in Files
        /\ (threshold = 0 => reader.at = "replied")
    BY <1>1, <1>3, <1>11 DEF NextIndex, ReaderShape
  <2>2. CASE reader.m < BackupCount
    <3>1. reader' = [reader EXCEPT !.m = @ + 1, !.lookup = 1, !.path = Nil, !.at = "gz"]
      BY <1>11, <2>2 DEF NextIndex
    <3>2. reader.m + 1 \in Backups /\ reader.m + 1 \in Files /\ reader.m + 1 \in 0 .. BackupCount + 1
      BY <1>1, <2>1, <2>2 DEF Files, Backups
    <3>3. /\ reader' \in Reader /\ reader'.op = "scan" /\ reader'.m = reader.m + 1
          /\ reader'.since = reader.since /\ reader'.at = "gz" /\ reader'.got = reader.got
      <4> DEFINE k == reader.m + 1
      <4>1. reader' = [reader EXCEPT !.m = k, !.lookup = 1, !.path = Nil, !.at = "gz"]
        BY <3>1
      <4>2. k \in 0 .. BackupCount + 1
        BY <3>2
      <4> HIDE DEF k
      <4>3. reader' \in Reader
        BY <1>1, <4>1, <4>2 DEF Reader, Stages
      <4>4. /\ reader'.op = reader.op /\ reader'.m = k /\ reader'.since = reader.since
            /\ reader'.at = "gz" /\ reader'.got = reader.got
        BY <1>1, <4>1 DEF Reader
      <4>5. QED
        BY <2>1, <4>3, <4>4 DEF k
    <3>4. ReaderShape'
      BY <1>1, <2>1, <3>2, <3>3 DEF ReaderShape, vars
    <3>5. threshold = 0 => Behind' = Behind
      BY <1>1, <2>1, <3>3 DEF Behind, Files
    <3>6. QED
      BY <1>3, <2>1, <3>3, <3>4, <3>5 DEF ReaderInv, ScanInv, StatusInv, vars
  <2>3. CASE ~(reader.m < BackupCount)
    <3>1. reader' = [reader EXCEPT !.at = "done", !.path = Nil]
      BY <1>1, <1>11, <2>3 DEF NextIndex, Go, Reader
    <3>2. reader.m = BackupCount
      BY <1>1, <2>1, <2>3 DEF Files
    <3>3. /\ reader' \in Reader /\ reader'.op = "scan" /\ reader'.m = reader.m
          /\ reader'.since = reader.since /\ reader'.at = "done" /\ reader'.got = reader.got
      BY <1>1, <2>1, <3>1 DEF Reader, Stages
    <3>4. ReaderShape'
      BY <1>1, <2>1, <3>2, <3>3 DEF ReaderShape, vars
    <3>5. QED
      BY <1>4, <2>1, <3>3, <3>4 DEF ReaderInv
  <2>4. QED
    BY <2>2, <2>3
<1>12. QED
  BY <1>5, <1>6, <1>7, <1>8, <1>9, <1>10, <1>11 DEF AuditRead

(* The steps of bash_mcp_status: while it has found nothing, what was kept *)
(* when it began is at the numbers it has not looked at.                   *)
LEMMA StatusStep ==
  ASSUME Base, PlainInOrder, ReaderInv, Status
  PROVE  ReaderInv'
<1>1. /\ reader \in Reader /\ reader.since \subseteq 1 .. written /\ written \in Nat /\ TypeOK /\ GzInv
      /\ reader.m \in 0 .. BackupCount + 1 /\ BackupCount \in Nat /\ BackupCount >= 1
      /\ reader.got \subseteq Nat
  BY BoundAssumption, PlaceTyped DEF ReaderInv, ReaderShape, Reader, Base, TypeOK
<1>2. \A k \in Files : ~Exists(plain[k]) => Ids(plain[k]) = {}
  BY DEF Ids
<1>3. ReaderShape /\ StatusInv
  BY DEF ReaderInv
(* The reader stays at a place, or leaves one that it found missing.       *)
<1>4. ASSUME UNCHANGED <<vars, statusFile>>, reader.op = "status", reader.at # "raised",
             reader'.op = "status", reader'.since = reader.since,
             reader'.at = "raised" \/ reader'.got # {}
               \/ /\ reader'.got = reader.got
                  /\ \/ reader'.m = reader.m
                     \/ /\ reader.m \in Files /\ reader'.m = reader.m + 1
                        /\ ~Exists(plain[reader.m]) \/ Passed(reader.m)
      PROVE  ScanInv' /\ StatusInv'
  <2>1. \A k \in Files : k \in Nat
    BY DEF Files
  <2>2. QED
    BY <1>1, <1>2, <1>3, <1>4, <2>1 DEF StatusInv, ScanInv, Passed, vars
<1>5. CASE BeginStatus
  <2>1. PlainIds \subseteq 1 .. written
    BY DEF Base, PlainInv
  <2>2. /\ reader' = [op |-> "status", at |-> "exists", m |-> 0, lookup |-> 1, path |-> Nil,
                      got |-> {}, since |-> Kept(InReach)]
        /\ Kept(InReach) \subseteq 1 .. written /\ UNCHANGED <<vars, statusFile>>
    BY <1>5, <2>1, PlaceTyped DEF BeginStatus, Idle, Kept, PlainIds, InReach, Files, Backups
  <2>3. reader' \in Reader
    BY <1>1, <2>2 DEF Reader, Stages
  <2>4. ReaderShape'
    BY <1>1, <2>2, <2>3 DEF ReaderShape, vars
  <2>5. ASSUME NEW k \in Files, Passed(k)', threshold = 0
        PROVE  Kept(InReach) \cap Ids(plain[k]) = {}
    <3>1. k = 0 /\ 0 \in Files /\ InReach = Backups
      BY <2>2, <2>5 DEF Passed, Files, InReach
    <3>2. \A m \in Backups : m \in Files /\ 0 < m
      BY PlaceTyped DEF Files, Backups
    <3>3. \A m \in Backups : \A i \in Ids(plain[m]), j \in Ids(plain[0]) : i < j
      BY <3>1, <3>2 DEF PlainInOrder
    <3>4. Ids(plain[0]) \subseteq Nat
      BY <1>1, <3>1, IdsKnown
    <3>5. \A m \in Backups : Ids(plain[m]) \cap Ids(plain[0]) = {}
      BY <3>3, <3>4
    <3>6. QED
      BY <2>5, <3>1, <3>5 DEF Kept
  <2>6. \A k \in Files : Ids(plain[k])' = Ids(plain[k])
    BY <2>2 DEF vars, Ids, Exists
  <2>7. QED
    BY <2>2, <2>4, <2>5, <2>6 DEF ReaderInv, ScanInv, StatusInv, vars
<1>6. ASSUME UNCHANGED <<vars, statusFile>>, reader.op = "status", reader.at # "raised",
             NEW k \in 1 .. BackupCount + 1, NEW seen \in SUBSET Nat,
             reader' = [Backup(k) EXCEPT !.got = seen],
             seen # {} \/ (/\ seen = reader.got
                           /\ reader.m \in Files /\ k = reader.m + 1
                           /\ ~Exists(plain[reader.m]) \/ Passed(reader.m))
      PROVE  ReaderInv'
  <2>1. reader' = [reader EXCEPT !.m = k, !.at = IF k <= BackupCount THEN "gz" ELSE "done", !.got = seen]
    BY <1>1, <1>6 DEF Backup, Reader
  <2>2. /\ reader' \in Reader /\ reader'.op = "status" /\ reader'.since = reader.since
        /\ reader'.m = k /\ reader'.at = (IF k <= BackupCount THEN "gz" ELSE "done") /\ reader'.got = seen
    <3>1. k \in 0 .. BackupCount + 1
      BY <1>1, <1>6
    <3>2. reader' \in Reader
      BY <1>1, <1>6, <2>1, <3>1 DEF Reader, Stages
    <3>3. /\ reader'.op = reader.op /\ reader'.since = reader.since /\ reader'.m = k
          /\ reader'.at = (IF k <= BackupCount THEN "gz" ELSE "done") /\ reader'.got = seen
      BY <1>1, <2>1 DEF Reader
    <3>4. QED
      BY <1>6, <3>2, <3>3
  <2>3. ReaderShape'
    BY <1>1, <1>6, <2>2 DEF ReaderShape, vars, Backups
  <2>4. QED
    BY <1>4, <1>6, <2>2, <2>3 DEF ReaderInv
<1>7. ASSUME UNCHANGED <<vars, statusFile>>, reader.op = "status", reader.at # "raised",
             NEW stage \in {"stat", "count", "plain", "raised"}, reader' = Go(stage),
             stage \in {"stat", "count"} => reader.m = 0, stage = "plain" => reader.m \in Files
      PROVE  ReaderInv'
  <2>1. /\ reader' \in Reader /\ reader'.op = "status" /\ reader'.since = reader.since
        /\ reader'.m = reader.m /\ reader'.at = stage /\ reader'.got = reader.got
    BY <1>1, <1>7 DEF Go, Reader, Stages
  <2>2. ReaderShape'
    BY <1>1, <1>7, <2>1 DEF ReaderShape, vars
  <2>3. QED
    BY <1>4, <1>7, <2>1, <2>2 DEF ReaderInv
<1>8. \A k : Backup(k) = [Backup(k) EXCEPT !.got = reader.got]
  BY <1>1 DEF Backup, Reader
<1>9. CASE StatusExists
  <2>1. UNCHANGED <<vars, statusFile>> /\ reader.op = "status" /\ reader.at = "exists"
        /\ reader.m = 0 /\ 0 \in Files
        /\ 1 \in 1 .. BackupCount + 1
    BY <1>1, <1>3, <1>9, PlaceTyped DEF StatusExists, ReaderShape, Reader
  <2>2. CASE CurrentThere
    BY <1>7, <1>9, <2>1, <2>2 DEF StatusExists
  <2>3. CASE ~CurrentThere
    <3>1. ~Exists(plain[0]) \/ Passed(0)
      BY <2>3 DEF CurrentThere, Passed
    <3>2. QED
      BY <1>1, <1>6, <1>8, <1>9, <2>1, <2>3, <3>1 DEF StatusExists
  <2>4. QED
    BY <2>2, <2>3
<1>10. CASE StatusStat
  <2>1. UNCHANGED <<vars, statusFile>> /\ reader.op = "status" /\ reader.at = "stat" /\ reader.m = 0
    BY <1>1, <1>3, <1>10 DEF StatusStat, ReaderShape, Reader
  <2>2. QED
    BY <1>7, <1>10, <2>1 DEF StatusStat
<1>11. CASE StatusCount
  <2>1. UNCHANGED <<vars, statusFile>> /\ reader.op = "status" /\ reader.at = "count" /\ reader.m = 0
        /\ 1 \in 1 .. BackupCount + 1 /\ 0 \in Files
    BY <1>1, <1>3, <1>11, PlaceTyped DEF StatusCount, ReaderShape, Reader
  <2>2. CASE CurrentThere
    <3> DEFINE seen == reader.got \cup (InReach \ Backups)
    <3>1. reader' = [Backup(1) EXCEPT !.got = seen]
      BY <1>1, <1>11, <2>2 DEF StatusCount, Backup, Reader
    <3>2. InReach \ Backups = IF statusFile = "log" THEN {0} ELSE {}
      BY <1>1 DEF InReach, Files, Backups
    <3>3. seen \in SUBSET Nat
      BY <1>1, <3>2
    <3>4. seen # {} \/ (seen = reader.got /\ Passed(reader.m))
      BY <2>1, <3>2 DEF Passed
    <3> HIDE DEF seen
    <3>5. 1 = reader.m + 1 /\ reader.m \in Files
      BY <2>1
    <3>6. QED
      BY <1>6, <2>1, <3>1, <3>3, <3>4, <3>5
  <2>3. CASE ~CurrentThere
    BY <1>7, <1>11, <2>1, <2>3 DEF StatusCount
  <2>4. QED
    BY <2>2, <2>3
<1>12. ASSUME UNCHANGED <<vars, statusFile>>, reader.op = "status", reader.at # "raised", reader.m \in Files,
              reader' = Reported
       PROVE  ReaderInv'
  <2>1. reader.m + 1 \in 1 .. BackupCount + 1 /\ reader.m \in Nat
    BY <1>12, PlaceTyped DEF Files
  <2>2. reader' = [Backup(reader.m + 1) EXCEPT !.got = reader.got \cup {reader.m}]
    BY <1>1, <1>12 DEF Reported, Backup, Reader
  <2>3. reader.got \cup {reader.m} \in SUBSET Nat /\ reader.got \cup {reader.m} # {}
    BY <1>1, <2>1
  <2>4. QED
    BY <1>6, <1>12, <2>1, <2>2, <2>3
<1>13. CASE StatusGz
  <2>1. UNCHANGED <<vars, statusFile>> /\ reader.op = "status" /\ reader.at = "gz" /\ reader.m \in Files
    BY <1>1, <1>3, <1>13, PlaceTyped DEF StatusGz, ReaderShape
  <2>2. QED
    BY <1>7, <1>12, <1>13, <2>1 DEF StatusGz
<1>14. CASE StatusPlain
  <2>1. UNCHANGED <<vars, statusFile>> /\ reader.op = "status" /\ reader.at = "plain" /\ reader.m \in Files
    BY <1>1, <1>3, <1>14 DEF StatusPlain, ReaderShape
  <2>2. CASE Exists(plain[reader.m])
    BY <1>12, <1>14, <2>1, <2>2 DEF StatusPlain
  <2>3. CASE ~Exists(plain[reader.m])
    <3>1. reader.m + 1 \in 1 .. BackupCount + 1
      BY <2>1, PlaceTyped DEF Files
    <3>2. QED
      BY <1>1, <1>6, <1>8, <1>14, <2>1, <2>3, <3>1 DEF StatusPlain
  <2>4. QED
    BY <2>2, <2>3
<1>15. QED
  BY <1>5, <1>9, <1>10, <1>11, <1>13, <1>14 DEF Status

LEMMA ReaderStep == Base /\ PlainInOrder /\ ReaderInv /\ [ReadNext]_readVars => ReaderInv'
<1> SUFFICES ASSUME Base, PlainInOrder, ReaderInv, [ReadNext]_readVars PROVE ReaderInv'
  OBVIOUS
<1>1. [Next]_vars
  BY ReaderSteps
<1>2. CASE reader' = reader /\ statusFile' = statusFile
  BY <1>1, <1>2, ReaderWaits
<1>3. CASE reader' = Idle
  BY <1>1, <1>3, ReaderIdles
<1>4. CASE AuditRead
  BY <1>4, ScanStep
<1>5. CASE Status
  BY <1>5, StatusStep
<1>6. QED
  BY <1>2, <1>3, <1>4, <1>5 DEF ReadNext, readVars, End

LEMMA ReaderInit == ReadInit => ReaderInv
  BY PlaceTyped DEF ReadInit, Idle, ReaderInv, ReaderShape, ScanInv, StatusInv, Reader, Stages

(* The inductive invariant of the readers: AInv with ReaderInv.            *)
THEOREM ReadersInvariant == ReadSpec => [](AInv /\ ReaderInv)
<1>1. AInv /\ ReaderInv /\ [ReadNext]_readVars => ReaderInv'
  BY ReaderStep DEF AInv
<1>2. QED
  BY <1>1, ReaderInit, ReadersImplementLog, AuditInvariant, PTL DEF ReadSpec

(* Without compression, a scan misses no entry that was logged before it   *)
(* began and is still kept when it ends, however many rotations fall       *)
(* between its lookups, and whichever of them fail.                        *)
THEOREM ScansAreComplete == ReadSpec => []ScanMissesNothing
<1>1. AInv /\ ReaderInv => ScanMissesNothing
  <2> SUFFICES ASSUME ReaderInv, reader.op = "scan", reader.at = "done", threshold = 0,
                      NEW i \in reader.since \cap PlainIds
               PROVE  i \in reader.got
    BY DEF ScanMissesNothing
  <2>1. PICK k \in Files : i \in Ids(plain[k])
    BY DEF PlainIds
  <2>2. k \in Behind
    BY PlaceTyped DEF ReaderInv, ReaderShape, Behind, Files
  <2>3. QED
    BY <2>1, <2>2 DEF ReaderInv, ScanInv
<1>2. QED
  BY <1>1, ReadersInvariant, PTL

(* Without compression, bash_mcp_status never reports an empty log while   *)
(* records are there that were, before the call, in a file it can reach:   *)
(* in any file if the log is where it looks for it, else in a backup.      *)
THEOREM StatusSeesTheLog == ReadSpec => []StatusNotEmpty
<1>1. AInv /\ ReaderInv => StatusNotEmpty
  <2> SUFFICES ASSUME ReaderInv, reader.op = "status", reader.at = "done", threshold = 0,
                      NEW i \in reader.since \cap PlainIds, reader.got = {}
               PROVE  FALSE
    BY DEF StatusNotEmpty
  <2>1. PICK k \in Files : i \in Ids(plain[k])
    BY DEF PlainIds
  <2>2. Passed(k)
    BY PlaceTyped DEF ReaderInv, ReaderShape, Passed, Files
  <2>3. QED
    BY <2>1, <2>2 DEF ReaderInv, StatusInv
<1>2. QED
  BY <1>1, ReadersInvariant, PTL

=============================================================================
