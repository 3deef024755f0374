----------------------------- MODULE AuditReaders -----------------------------
(***************************************************************************)
(* The readers of the audit log (audit.py, server.py): bash_mcp_audit_read *)
(* and bash_mcp_status.  They never take `_AUDIT_LOCK`, so each of their   *)
(* exists(), stat() and open() may fall between any two system calls of a  *)
(* rotation.  A file is opened and read in one step: a rename or an unlink *)
(* does not change what an open file holds, so a slower read returns what  *)
(* an atomic one does at some instant between.                             *)
(*                                                                         *)
(* The client reads the indexes 0, 1, .., BackupCount one after another.   *)
(***************************************************************************)
EXTENDS AuditLog

CONSTANT StatusFiles  \* the settings of statusFile to be checked

ASSUME StatusFilesAssumption == StatusFiles \subseteq {"log", "absent", "other"}

VARIABLES
  statusFile,  \* what bash_mcp_status takes for the current file
  reader

readVars == <<vars, statusFile, reader>>

(* `since` is what was kept when the call or the scan began, `got` what it *)
(* has returned; both are followed without compression only, where the     *)
(* properties compare them.  `lookup` is 1 in bash_mcp_audit_read's own    *)
(* read_backup_path, and 2 in the one of read_backup, whose `path` is the  *)
(* file that is read.                                                      *)
Idle == [op |-> "none", at |-> "idle", m |-> 0, lookup |-> 1, path |-> Nil,
         got |-> {}, since |-> {}]

(* bash_mcp_status looks for the current file under ~/.local/share, where  *)
(* the log is ("log") unless XDG_DATA_HOME sends it elsewhere: then there  *)
(* is nothing, or a file that no call of this server writes ("other").     *)
(* Neither path changes while the process runs.                            *)
ReadInit == Init /\ statusFile \in StatusFiles /\ reader = Idle

Kept(files) == IF threshold = 0 THEN UNION {Ids(plain[m]) : m \in files} ELSE {}

Go(stage) == [reader EXCEPT !.at = stage]

-----------------------------------------------------------------------------
(* bash_mcp_audit_read(m)                                                  *)

Resolving(m) == IF m = 0 THEN "plain" ELSE "gz"

BeginScan ==
  /\ reader.at = "idle"
  /\ reader' = [Idle EXCEPT !.op = "scan", !.at = "plain", !.since = Kept(Files)]
  /\ UNCHANGED <<vars, statusFile>>

Resolved(path) ==
  IF reader.lookup = 1
    THEN [reader EXCEPT !.lookup = 2, !.at = Resolving(reader.m)]
    ELSE [reader EXCEPT !.path = path, !.at = "open"]

(* The first lookup fails with BACKUP_NOT_FOUND, which is not audited; the *)
(* second one makes read_backup return [].                                 *)
NotFound == Go(IF reader.lookup = 1 THEN "replied" ELSE "log")

ResolveGz ==
  /\ reader.op = "scan" /\ reader.at = "gz"
  /\ reader' = IF Exists(gz[reader.m]) THEN Resolved("gz") ELSE Go("plain")
  /\ UNCHANGED <<vars, statusFile>>

(* A bug: the bound of the range is exclusive.                             *)
ResolvePlainBelow ==
  /\ reader.op = "scan" /\ reader.at = "plain"
  /\ reader' = IF Exists(plain[reader.m]) /\ reader.m < BackupCount
                 THEN Resolved("plain") ELSE NotFound
  /\ UNCHANGED <<vars, statusFile>>

ResolvePlain ==
  /\ reader.op = "scan" /\ reader.at = "plain"
  /\ reader' = IF Exists(plain[reader.m]) THEN Resolved("plain") ELSE NotFound
  /\ UNCHANGED <<vars, statusFile>>

Got(ids) == [Go("log") EXCEPT !.got = IF threshold = 0 THEN @ \cup ids ELSE @]

(* A file that is gone by now is an OSError, and the result [].            *)
OpenPlain ==
  /\ reader.at = "open" /\ reader.path = "plain"
  /\ reader' = Got(Ids(plain[reader.m]))
  /\ UNCHANGED <<vars, statusFile>>

(* A stream that is still being written, or that a crash left so, is empty *)
(* while the header sits in the writer's buffer, and else ends too early:  *)
(* an EOFError, which is not an OSError and leaves the tool.               *)
OpenGz ==
  /\ reader.at = "open" /\ reader.path = "gz"
  /\ LET file == gz[reader.m]
     IN  IF ~Exists(file) THEN reader' = Got({})
         ELSE IF file.whole THEN reader' = Got(Ids(file.entries))
         ELSE reader' \in {Got({}), Go("raised")}
  /\ UNCHANGED <<vars, statusFile>>

(* The READ entry is logged like any other, and may rotate the files.      *)
LogRead(size) ==
  /\ reader.at = "log"
  /\ Log(size)
  /\ reader' = Go("replied")
  /\ UNCHANGED statusFile

(* The next request is sent when the call, its log entry included, is done.*)
NextIndex ==
  /\ reader.op = "scan" /\ reader.at \in {"replied", "raised"} /\ at = "idle"
  /\ reader' = IF reader.m < BackupCount
                 THEN [reader EXCEPT !.m = @ + 1, !.lookup = 1, !.path = Nil,
                                     !.at = "gz"]
                 ELSE [Go("done") EXCEPT !.path = Nil]
  /\ UNCHANGED <<vars, statusFile>>

-----------------------------------------------------------------------------
(* bash_mcp_status: size and entries of the current file, then the names   *)
(* of the backups, which are looked up beside the log wherever it is.      *)
(* `got` collects the numbers of the log's files that it reports; `since`  *)
(* is what was kept in those it can report.                                *)

InReach == IF statusFile = "log" THEN Files ELSE Backups

BeginStatus ==
  /\ reader.at = "idle"
  /\ reader' = [Idle EXCEPT !.op = "status", !.at = "exists", !.since = Kept(InReach)]
  /\ UNCHANGED <<vars, statusFile>>

Backup(m) == [reader EXCEPT !.m = m, !.at = IF m <= BackupCount THEN "gz" ELSE "done"]

CurrentThere ==
  statusFile = "other" \/ (statusFile = "log" /\ Exists(plain[0]))

StatusExists ==
  /\ reader.at = "exists"
  /\ reader' = IF CurrentThere THEN Go("stat") ELSE Backup(1)
  /\ UNCHANGED <<vars, statusFile>>

(* stat() and open() of a file that was renamed since: FileNotFoundError.  *)
StatusStat ==
  /\ reader.at = "stat"
  /\ reader' = Go(IF CurrentThere THEN "count" ELSE "raised")
  /\ UNCHANGED <<vars, statusFile>>

StatusCount ==
  /\ reader.at = "count"
  /\ reader' = IF CurrentThere THEN [Backup(1) EXCEPT !.got = @ \cup (InReach \ Backups)]
                                ELSE Go("raised")
  /\ UNCHANGED <<vars, statusFile>>

Reported == [Backup(reader.m + 1) EXCEPT !.got = @ \cup {reader.m}]

StatusGz ==
  /\ reader.op = "status" /\ reader.at = "gz"
  /\ reader' = IF Exists(gz[reader.m]) THEN Reported ELSE Go("plain")
  /\ UNCHANGED <<vars, statusFile>>

(* A bug: range(1, BACKUP_COUNT).                                          *)
StatusPlainBelow ==
  /\ reader.op = "status" /\ reader.at = "plain"
  /\ reader' = IF Exists(plain[reader.m]) /\ reader.m < BackupCount
                 THEN Reported ELSE Backup(reader.m + 1)
  /\ UNCHANGED <<vars, statusFile>>

StatusPlain ==
  /\ reader.op = "status" /\ reader.at = "plain"
  /\ reader' = IF Exists(plain[reader.m]) THEN Reported ELSE Backup(reader.m + 1)
  /\ UNCHANGED <<vars, statusFile>>

End ==
  /\ reader.at = "done" \/ (reader.op = "status" /\ reader.at = "raised")
  /\ reader' = Idle
  /\ UNCHANGED <<vars, statusFile>>
-----------------------------------------------------------------------------
AuditRead ==
  \/ BeginScan \/ ResolveGz \/ ResolvePlain \/ OpenPlain \/ OpenGz
  \/ \E size \in Sizes : LogRead(size)
  \/ NextIndex

Status ==
  BeginStatus \/ StatusExists \/ StatusStat \/ StatusCount \/ StatusGz \/ StatusPlain

ReadNext ==
  \/ LogStep /\ UNCHANGED <<statusFile, reader>>
  \/ Crash /\ UNCHANGED statusFile /\ reader' = Idle
  \/ AuditRead \/ Status \/ End

ReadSpec == ReadInit /\ [][ReadNext]_readVars
-----------------------------------------------------------------------------
(* Without compression, a client that reads upwards from the current file  *)
(* gets every entry that was logged before it began and is still kept at   *)
(* the end, however many rotations (its own READ entries cause some) fall  *)
(* between its calls, or between the lookups and the open of one call.     *)
ScanMissesNothing ==
  (reader.op = "scan" /\ reader.at = "done" /\ threshold = 0)
     => reader.since \cap PlainIds \subseteq reader.got

(* Without compression, status never reports an empty log, no current file *)
(* and no backup, while records from before the call are there: what moves *)
(* away from one number is found under a later one.  Under XDG_DATA_HOME   *)
(* that is so of the records that were in a backup, and only of those: the *)
(* current file is then looked for in the wrong directory.                 *)
StatusNotEmpty ==
  (reader.op = "status" /\ reader.at = "done" /\ threshold = 0)
     => (reader.since \cap PlainIds # {} => reader.got # {})

(* read_backup: "Fail-soft: malformed lines are skipped [..] rather than   *)
(* raising".                                                               *)
ReadNeverRaises == ~(reader.op = "scan" /\ reader.at = "raised")
=============================================================================
