------------------------------ MODULE AuditLog ------------------------------
(***************************************************************************)
(* The audit log on disk (audit.py): audit.jsonl, its numbered backups and *)
(* their compressed copies, and one `log` call at a time, because          *)
(* `_AUDIT_LOCK` covers rotation, compression and append.  Each system     *)
(* call is an action, since each may fail with an OSError and the process  *)
(* may die between any two.                                                *)
(***************************************************************************)
EXTENDS Integers, Sequences, FiniteSets, SequencesExt

CONSTANTS
  BackupCount,  \* BASH_MCP_AUDIT_BACKUP_COUNT
  MaxBytes,     \* BASH_MCP_AUDIT_MAX_BYTES
  Thresholds,   \* settings of BASH_MCP_AUDIT_GZIP_THRESHOLD_BYTES, 0 is off
  Sizes,        \* bytes an entry takes
  MaxEntries,   \* bound on the entries written
  MaxFaults,    \* bound on the failed and interrupted calls
  Nil

ASSUME BackupAssumption == BackupCount \in Nat \ {0}
ASSUME SizesAssumption == Sizes \subseteq Nat /\ MaxBytes \in Nat \ {0}
ASSUME ThresholdAssumption == Thresholds \subseteq Nat
ASSUME BoundAssumption == MaxEntries \in Nat /\ MaxFaults \in Nat

VARIABLES
  plain,      \* content of audit.jsonl (0) and of audit.jsonl.n
  gz,         \* content of audit.jsonl.n.gz, and whether its stream is whole
  threshold,  \* GZIP_THRESHOLD_BYTES of this installation
  at, n,      \* where the holder of _AUDIT_LOCK is, and its loop variable
  entry,      \* the entry it has to write
  written,    \* entries appended so far
  faults      \* calls that failed or died

vars == <<plain, gz, threshold, at, n, entry, written, faults>>

Files == 0 .. BackupCount
Backups == 1 .. BackupCount

Entry == [id : Nat, size : Sizes]
Stream == [entries : Seq(Entry), whole : BOOLEAN]
ASSUME NilAssumption == Nil \notin Seq(Entry) \cup Stream
Steps == {"idle", "drop", "shift", "gzip", "compress", "unlink", "append"}

Bytes(file) == FoldLeft(LAMBDA sum, e : sum + e.size, 0, file)
Exists(file) == file # Nil

Init ==
  /\ plain = [m \in Files |-> Nil] /\ gz = [m \in Backups |-> Nil]
  /\ threshold \in Thresholds
  /\ at = "idle" /\ n = 0 /\ entry = Nil
  /\ written = 0 /\ faults = 0

-----------------------------------------------------------------------------
(* log: take the lock, look at the size, rotate if it is reached.          *)

NeedsRotation == Exists(plain[0]) /\ Bytes(plain[0]) >= MaxBytes

Log(size) ==
  /\ at = "idle" /\ written < MaxEntries
  /\ entry' = [id |-> written + 1, size |-> size]
  /\ at' = IF NeedsRotation THEN "drop" ELSE "append"
  /\ UNCHANGED <<plain, gz, threshold, n, written, faults>>

DropOldest ==
  /\ at = "drop"
  /\ plain' = [plain EXCEPT ![BackupCount] = Nil]
  /\ at' = "shift" /\ n' = BackupCount - 1
  /\ UNCHANGED <<gz, threshold, entry, written, faults>>

Rename(m) == plain' = [plain EXCEPT ![m + 1] = plain[m], ![m] = Nil]

(* A bug: the backups are copied, not moved.                               *)
ShiftBackupCopies ==
  /\ at = "shift" /\ n > 0
  /\ plain' = [plain EXCEPT ![n + 1] = plain[n]]
  /\ n' = n - 1
  /\ UNCHANGED <<gz, threshold, at, entry, written, faults>>

(* A bug: the loop ends one file too late.                                 *)
ShiftBackupTooFar ==
  /\ at = "shift" /\ n >= 0
  /\ IF Exists(plain[n]) THEN Rename(n) ELSE UNCHANGED plain
  /\ n' = n - 1
  /\ UNCHANGED <<gz, threshold, at, entry, written, faults>>

(* A bug: .1 is moved first, over .2.                                      *)
ShiftBackupUpwards ==
  /\ at = "shift" /\ n > 0
  /\ LET m == BackupCount - n
     IN  IF Exists(plain[m]) THEN Rename(m) ELSE UNCHANGED plain
  /\ n' = n - 1
  /\ UNCHANGED <<gz, threshold, at, entry, written, faults>>

ShiftBackup ==
  /\ at = "shift" /\ n > 0
  /\ IF Exists(plain[n]) THEN Rename(n) ELSE UNCHANGED plain
  /\ n' = n - 1
  /\ UNCHANGED <<gz, threshold, at, entry, written, faults>>

RotateCurrent ==
  /\ at = "shift" /\ n = 0
  /\ Rename(0)
  /\ at' = IF threshold > 0 THEN "gzip" ELSE "append"
  /\ n' = 1
  /\ UNCHANGED <<gz, threshold, entry, written, faults>>

(* A bug: the file is opened for writing, not for appending.               *)
AppendTruncates ==
  /\ at = "append"
  /\ plain' = [plain EXCEPT ![0] = <<entry>>]
  /\ written' = written + 1
  /\ at' = "idle" /\ n' = 0 /\ entry' = Nil
  /\ UNCHANGED <<gz, threshold, faults>>

AppendEntry ==
  /\ at = "append"
  /\ plain' = [plain EXCEPT ![0] = IF Exists(@) THEN Append(@, entry) ELSE <<entry>>]
  /\ written' = written + 1
  /\ at' = "idle" /\ n' = 0 /\ entry' = Nil
  /\ UNCHANGED <<gz, threshold, faults>>

-----------------------------------------------------------------------------
(* _gzip_pass, in the middle of a rotation's log call.                     *)

Compressible == Exists(plain[n]) /\ Bytes(plain[n]) >= threshold

GzipSkip ==
  /\ at = "gzip" /\ n <= BackupCount
  /\ ~Compressible
  /\ n' = n + 1
  /\ UNCHANGED <<plain, gz, threshold, at, entry, written, faults>>

(* gzip.open(.., "wb") truncates what is there.                            *)
GzipOpen ==
  /\ at = "gzip" /\ n <= BackupCount
  /\ Compressible
  /\ gz' = [gz EXCEPT ![n] = [entries |-> <<>>, whole |-> FALSE]]
  /\ at' = "compress"
  /\ UNCHANGED <<plain, threshold, n, entry, written, faults>>

GzipClose ==
  /\ at = "compress"
  /\ gz' = [gz EXCEPT ![n] = [entries |-> plain[n], whole |-> TRUE]]
  /\ at' = "unlink"
  /\ UNCHANGED <<plain, threshold, n, entry, written, faults>>

GzipUnlink ==
  /\ at = "unlink"
  /\ plain' = [plain EXCEPT ![n] = Nil]
  /\ at' = "gzip" /\ n' = n + 1
  /\ UNCHANGED <<gz, threshold, entry, written, faults>>

GzipDone ==
  /\ at = "gzip" /\ n > BackupCount
  /\ at' = "append"
  /\ UNCHANGED <<plain, gz, threshold, n, entry, written, faults>>

Fault == faults < MaxFaults /\ faults' = faults + 1

(* A bug: the cleanup removes the plaintext too.                           *)
GzipFailsUncopied ==
  /\ at \in {"gzip", "compress", "unlink"} /\ n <= BackupCount /\ Fault
  /\ Compressible
  /\ gz' = [gz EXCEPT ![n] = Nil] /\ plain' = [plain EXCEPT ![n] = Nil]
  /\ at' = "gzip" /\ n' = n + 1
  /\ UNCHANGED <<threshold, entry, written>>

(* Opening, writing or unlinking fails: the compressed file is removed,    *)
(* unless that fails too, and the pass goes on with the next backup.       *)
GzipFails ==
  /\ at \in {"gzip", "compress", "unlink"} /\ n <= BackupCount /\ Fault
  /\ Compressible
  /\ UNCHANGED gz \/ gz' = [gz EXCEPT ![n] = Nil]
  /\ at' = "gzip" /\ n' = n + 1
  /\ UNCHANGED <<plain, threshold, entry, written>>

-----------------------------------------------------------------------------
(* An OSError outside the gzip pass ends the call with a warning; a crash  *)
(* ends it anywhere.  Either way the entry is dropped and the files stay   *)
(* as they are: the next call looks at the size again.                     *)

LogFails ==
  /\ at \in {"drop", "shift", "append"} /\ Fault
  /\ at' = "idle" /\ n' = 0 /\ entry' = Nil
  /\ UNCHANGED <<plain, gz, threshold, written>>

Crash ==
  /\ at # "idle" /\ Fault
  /\ at' = "idle" /\ n' = 0 /\ entry' = Nil
  /\ UNCHANGED <<plain, gz, threshold, written>>
-----------------------------------------------------------------------------
GzipPass == GzipSkip \/ GzipOpen \/ GzipClose \/ GzipUnlink \/ GzipDone \/ GzipFails

LogStep ==
  \/ \E size \in Sizes : Log(size)
  \/ DropOldest \/ ShiftBackup \/ RotateCurrent \/ AppendEntry
  \/ GzipPass \/ LogFails

Next == LogStep \/ Crash

Spec == Init /\ [][Next]_vars
-----------------------------------------------------------------------------
Ids(file) == IF Exists(file) THEN {file[i].id : i \in DOMAIN file} ELSE {}

PlainIds == UNION {Ids(plain[m]) : m \in Files}
GzIds == UNION {IF Exists(gz[m]) /\ gz[m].whole THEN Ids(gz[m].entries) ELSE {} : m \in Backups}
Retained == PlainIds \cup GzIds
Lost == (1 .. written) \ Retained

Generations == {m \in Files : Exists(plain[m]) \/ (m > 0 /\ Exists(gz[m]))}

TypeOK ==
  /\ plain \in [Files -> Seq(Entry) \cup {Nil}]
  /\ gz \in [Backups -> Stream \cup {Nil}]
  /\ threshold \in Thresholds
  /\ at \in Steps /\ n \in 0 .. BackupCount + 1
  /\ entry \in Entry \cup {Nil}
  /\ written \in 0 .. MaxEntries /\ faults \in 0 .. MaxFaults

(* Read from the highest number down to audit.jsonl, the plaintext files   *)
(* hold the entries in the order they were logged, none of them twice, at  *)
(* every instant: wherever a rotation failed or the process died, the next *)
(* one does not move a file over, or behind, a newer one.                  *)
PlainInOrder ==
  /\ \A m \in Files : Exists(plain[m]) =>
       \A i, j \in DOMAIN plain[m] : i < j => plain[m][i].id < plain[m][j].id
  /\ \A l, m \in Files : l < m =>
       \A i \in Ids(plain[m]), j \in Ids(plain[l]) : i < j

(* Without compression, what is lost is older than all that is left: no    *)
(* failure or crash leaves a hole in the middle of the record.             *)
OnlyOldestLost == threshold = 0 => \A i \in Lost, j \in Retained : i < j

(* Without compression, nothing is dropped before BackupCount files are    *)
(* full, and each call that fails or dies halfway costs at most one of     *)
(* them (the retry drops the oldest once more, and shifts around the gap). *)
KeptGenerations ==
  threshold = 0 /\ Lost # {} => Cardinality(Generations) >= BackupCount - faults

(* "Failures are isolated per backup: a failed gzip keeps the plaintext":  *)
(* wherever the compression fails, or the process dies, every entry of the *)
(* plaintext files is still in a plaintext or in a whole compressed file.  *)
CopyIsKept == at \in {"gzip", "compress", "unlink"} => PlainIds \subseteq Retained'
CompressionKeepsCopy == [][CopyIsKept]_vars

(* README: "No content loss", beyond the oldest backup dropped when the    *)
(* count exceeds BASH_MCP_AUDIT_BACKUP_COUNT.                              *)
NoContentLoss == Lost # {} => Cardinality(Generations) >= BackupCount
=============================================================================
