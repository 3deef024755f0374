# TLA+ specifications of bash-mcp

bash-mcp is an MCP server that runs bash commands for its clients. FastMCP calls
its tools on a pool of threads, so the tools share, mostly under locks, a store of
sessions, a semaphore that limits subprocesses, an audit log on disk and a cache of
project allowlists. These modules model those shared parts and the calls that go
through them; TLC checks them on small instances and TLAPS proves the safety
properties and the refinements for every value of their constants.

Source paths below are relative to `src/bash_mcp/`.

## Inventory

| component | state | operations | in |
|---|---|---|---|
| session store (`sessions.py`) | `_SESSIONS`: id → `SessionState` (cwd, env, last_used_at), `_LOCK` | create, get, destroy, list_active, active_count, snapshot_for_run, apply_state_update | `SessionState`, `Sessions`, `SessionRegistry` |
| idle janitor (`sessions.py`) | `_JANITOR_STARTED`, `_JANITOR_LOCK`, the thread's cutoff and list of evictions | _ensure_janitor, _janitor_loop, _evict_idle | `Sessions` |
| session command parser (`sessions.py`) | none | three regular expressions for `cd`, `export`, `unset`; _resolve_cwd | `StateUpdate` |
| session tools (`server.py`) | locals of each call | session_create, _run, _destroy, _list | store accesses in `Sessions`, the reply of a run in `SessionReplies`, a run as a whole call in `Commands` |
| concurrency limiter (`concurrency.py`) | `_LIMIT`, `_ACTIVE`, `_ACTIVE_LOCK` | slot.__enter__, slot.__exit__, active | `Slots` |
| executor (`executor.py`) | a subprocess, a timeout, an output file | run | `Commands`; its check of the cwd in `ProjectAllowlist` |
| stateless tools (`server.py`) | locals of each call | run_command, check_env; status | `Commands`; the audit part of status in `AuditReaders` |
| safety classifier (`safety.py`) | none | classify: a hard and a soft list | their order and what the tools make of it in `Commands` |
| audit log writer (`audit.py`) | `audit.jsonl`, `.1` … `.N`, `.n.gz`, `_AUDIT_LOCK` | log, rotation, gzip pass | `AuditLog` |
| audit log readers (`audit.py`, `server.py`) | none | read_backup_path, read_backup, audit_read, backup_paths | `AuditReaders` |
| project allowlist (`project_allowlist.py`) | `_CACHE`: (directory, mtime) → allowlist | walk, parse, load; effective roots in `executor.py` | `ProjectAllowlist` |
| binary discovery (`discovery.py`) | worker threads with subprocesses | list_binaries, which | not modelled |
| transport, scripts, hooks | – | – | not modelled |

How they interact. A session run takes a snapshot of its session (under
`_LOCK`), classifies the command, takes a slot and runs the command in the
executor, looks the session up again, applies the command's `cd`, `export` and
`unset` (under `_LOCK` again), and appends an audit entry (under `_AUDIT_LOCK`).
Nothing is held across these steps, so everything can change between them:
other runs update the session, a destroy call pops it, the janitor evicts it.
`create` and `apply_state_update` start the janitor when they first need it. The
executor judges the command's directory by the allowlist of its project, which it
loads through a cache that all calls share without a lock. The readers of the audit
log take no lock either: they look at files that a rotation may be renaming.

Hard behaviours, and the properties that make the components correct:

* **Store and janitor.** Two runs of one session that start from the same
  snapshot; a destroy during a run; destroy racing destroy and the janitor; a
  sweep whose cutoff is older than its lock; two threads starting the janitor.
  Correct means: updates merge and are never lost or half seen; a removed session
  stays removed and is not edited; whatever leaves the store was destroyed or
  idle, is reported, and its variables are counted as freed once, unless the audit
  entry of an eviction is lost (it is best effort); the cap on
  variables holds; one janitor runs; calls return; a reply, which is read from the
  live session without the lock, shows what its own command did.
* **Limiter.** Lost updates of the counter, a permit lost or doubled on an
  exception, the order of decrement and release. Correct means: the limit holds,
  the counter is exact and within the limit, and queued calls run.
* **Parser.** What a line leaves in the session against what it left in the
  shell, over several lines, when the parsers read some commands as the shell does
  and miss or misread others.
* **Run tools.** A command may be refused, fail validation, not start, end with
  output that cannot be decoded or saved, or fail in the update of its session, in a
  slot that must come back in every case. Correct means: the limit survives all of
  it, what was refused never runs, the audit entry says what happened, and every call
  is answered.
* **Audit log.** A system call that fails, or a crash, between any two steps of
  a rotation; readers that look at names between its renames and at a file while
  it is compressed; a status that looks for the current file in a fixed place.
  Correct means: order and contiguity of what is kept, how much is kept, that
  compressing a file leaves a copy of each of its entries, and that a reader
  overlooks nothing that stays where it looks.
* **Allowlist.** `is_file`, `stat`, the cache and `open` are four steps, between
  which files appear, change and go and other calls fill the cache; the key names the
  start directory and an mtime, not the file. Correct means: the answer is what the
  nearest file said at some instant of the call, and the directory is judged by it.

`PROJECT.json` lists the hazards at their lines, with the properties that watch
them, or the reason why none does.

## Modules

* `SessionState`: the environment of a session and the two ways it is edited
  (`Export` with the cap, `Unset`), and `After`, a whole update. An environment is
  a total function with `Nil` for an unset name.
* `SessionRegistry`: the abstract store. A read, a creation, a merge of a
  command's update and a removal are each one atomic step; a removed session
  neither changes nor returns.
* `Sessions`: the code. `sessions` is the key set of `_SESSIONS`; `object` holds
  the `SessionState` objects, which outlive their key because calls keep
  references to them; `lock` is `_LOCK` when it is held across several actions.
  `pc` and `call` are the place and the locals of each pool thread. A critical
  section no other thread can look into is one action, enabled while the lock is
  free. The critical section of an update is split into one action per write
  (`ApplyCd`, `ApplyExport`, `ApplyUnset`, `ApplyDone`), because it edits the shared
  object in place. `ApplyCdRaises` is a `cd` whose validation raises
  `PermissionError`: `Path.is_file` in the allowlist walk meets a directory that
  may not be searched, and `apply_state_update` catches only `InvalidCwdError`.
  `_ensure_janitor` has its unlocked look at the flag (`EnsureCheck`) and its
  locked one (`EnsureStarted`, `EnsureStart`, `EnsureStartFails`). The second call
  of `_ensure_janitor` at the end of an update (lines 469-470) changes nothing
  after the first and is left out. The janitor thread is `JanitorWake` (cutoff),
  `JanitorSweep` (under the lock), `JanitorAudit` (one report each) or
  `JanitorAuditFails` (the entry is lost, the loop goes on), `JanitorSleep`.
  `destroyed` counts the DESTROYED reports, by tool reply or by audit entry, and the
  freed variables they give, and marks the sessions whose entry was `lost`.
* `SessionReplies`: extends `Sessions` by the reply of a run: the second lookup
  (`Reget`), the two unlocked reads of the live object (`ReplyCwd`, `ReplyKeys`), and the
  snapshot if the session is gone (`Fallback`). `due` is the state a reply should
  show; it is given up when another command of the session comes in between, since
  then cwd and env_keys may be of two different states.
* `SessionRefinement`: the refinement mapping from `Sessions` to `SessionRegistry`.
  An update counts as made when its thread gets the lock (`Merged`), so the
  single writes under the lock are stuttering steps.
* `MC...`: constants for TLC, and nothing else.
* `Slots`: `slot.__enter__` and `slot.__exit__`, with `_ACTIVE += 1` and
  `-= 1` as a read and a write under `_ACTIVE_LOCK`; the body is what runs in the
  slot.
* `Commands`: extends `Slots` to whole calls of `bash_run_command`,
  `bash_mcp_session_run` and `bash_check_env`. `stage` is the place of a call outside
  the slot, and every exception the tools meet is an action of its own (`Invalid`,
  `SpawnFails`, a `Finish` with output that is not UTF-8, `TruncateFails`,
  `ApplyRaises`, a lost `Audit`). A command is the lists of the classifier it matches.
* `StateUpdate`: a command line as a sequence of simple commands joined by `;`
  or `&&`. `Parse` is what the three parsers and `_resolve_cwd` make of it, each
  parser a pass over the whole line that collects its own kind (`Only`); a
  reference shell (external: bash) runs the same line. `by` says who takes a command:
  the shell alone (the second name of `unset A B`, a pushd, a command after a
  newline), the parsers alone (quoted text, a background job, a subshell), or both;
  and an export has the `text` that is written, which the session gets, and the
  `value` bash makes of it, as a cd has its `path` and where it leads (`to`).
  `ApplyStateUpdate` ends the line, applies the update if the shell's status was
  zero, and the next line starts a new shell from what the session kept, over the
  environment the server hands down (`Inherited`).
* `AuditLog`: the files and one `log` call at a time (`_AUDIT_LOCK` covers all
  of it), one action per system call, each of which may fail
  (`LogFails`, `GzipFails`) or be the last before the process dies (`Crash`).
* `AuditReaders`: extends `AuditLog` by a client that reads the indexes one after
  another (`bash_mcp_audit_read`, whose own READ entries may rotate the files) or asks
  for the status. Each lookup of a path and each open is a step between those of the
  writer; `read_backup` looks the path up a second time, as the code does.
  `statusFile` is what `bash_mcp_status` finds at its fixed path
  (`~/.local/share/bash-mcp/audit.jsonl`, server.py:47): the log, or, where
  `XDG_DATA_HOME` sends the log elsewhere (audit.py:46-49), nothing or a file that this
  server does not write. The backups it lists are always the log's.
* `ProjectAllowlist`: calls of `load` on several threads, step by step, with the
  `.bash-mcp.toml` files of a chain of directories changing under them (`Write`,
  `Delete`, and `Move` in `SpecWithMoves`), and the roots and the verdict of
  `executor.run` as operators. `Raise` is the two exceptions that leave `load`: a
  directory that may not be searched, and a file that is not UTF-8. `seen` is what
  each level held at some instant of a call, which is what its answer is judged by.
* `SessionsProofs`, `SessionStateProofs`, `SessionRefinementProofs`, `SlotsProofs`,
  `CommandsProofs`, `StateUpdateProofs`, `AuditLogProofs`, `ProjectAllowlistProofs`:
  the theorems. `SessionStateProofs` holds only lemmas, about the folds that
  update an environment.

Definitions whose comment starts with "A bug" are wrong variants of the
definition they stand before, used to confirm that the properties notice; no
specification uses them.

## Checks

| run | question and answer |
|---|---|
| `sessions` | two threads, one session, the janitor: types, cap, one janitor, reports match removals and variables are freed once but for lost entries, only destroyed or idle sessions leave, removed is final, the store implements `SessionRegistry`, and replies confirm what their commands did. Holds. |
| `sessions_live` | every call returns; every idle session is evicted, unless the janitor's start failed. Holds under fairness. |
| `sessions_double_report` | is a session reported destroyed only once? **No**: lookup and pop are two critical sections. |
| `commands` | limit, conservation and exact counter with every way a call can end; refused commands never start; audit entries are true; every call is answered. Holds. |
| `commands_unaudited` | is every command that ran in the audit log? **No**: an exception after the command skips the entry. |
| `state_update` | for each name whose last assignment the parsers read as the shell does: the session has the shell's value or none, and follows the shell where the code tracks it. Holds. |
| `state_update_order` | does it follow every top-level export and unset? **No**: all unsets are applied after all exports. |
| `audit_log` | order, no holes, how many backups survive failures, compressing a file keeps a copy of its entries; a scan overlooks nothing, and a status nothing in the files it looks at. Holds. |
| `audit_log_gzip` | with compression, is nothing lost before `BackupCount` backups exist? **No**: `.1.gz` is never shifted and is overwritten. |
| `audit_read_partial` | does reading a backup never raise? **No**: a half-written `.gz` is an `EOFError`, which is not an `OSError`. |
| `allowlist` | with files written and deleted meanwhile, is an answer what the nearest file said, and (unless one appeared or went during the call) the verdict that of the file? Holds. |
| `allowlist_moved` | and when a file is moved? **No**: it keeps its mtime, and the cache answers with the roots of its old directory. |

The six answers **No** are the findings of `PROJECT.json`, each with the line
of documentation it contradicts.

That a session can be evicted while its command runs (only the end of a run counts
as a use) is what the documents describe. Two gaps between code and documents are
listed as hazards but are in no run, because they can be read off the code and need no
search: the version probes of discovery take no slot, although the repository's
README calls the cap one on "in-flight subprocesses" (line 178) and says that "any
future subprocess-using tool" shares it (line 324); and with `XDG_DATA_HOME` set
`bash_mcp_status` looks for the current log in the wrong directory, so that a log
without backups is reported as empty. `StatusNotEmpty` promises only what is left.

`ReportedOnce` fails and yet `FreedOnce` holds: both callers are told they
destroyed the session, but only the one who popped it reports its variables.

### Bounds

* Two threads suffice for every race of the store that the code has: each is
  between two calls, or a call and the janitor, which is a third actor. `sessions`
  has commands that set, overflow (cap 1, two names) and unset; `MaxClock` 3 with
  `IdleTimeout` 1 leaves time for a session to become idle, be touched and become
  idle again. `sessions_live` uses one command that sets and unsets a variable and one
  whose update raises; a start of the janitor may fail in both.
* Ids are never reused (uuid4), so `Ids` also bounds the sessions ever created.
  When all ids are used, the clock is at its bound and no session is left, calls of
  unknown sessions (`ReadOnly`) go on.
* `Commands`: three threads and two permits give two holders and a waiter; calls
  are not bounded in number. The theorems are about any number of both.
* `StateUpdate`: three commands in a line are what an unset, an export and a
  failing or skipped command between need; the number of lines is not bounded. Of two
  variables the server hands down one. Besides cds to every kind of directory there
  are a cd, an export and an unset that only one side takes, and a cd and an export
  that expand to something else.
* `AuditLog` and its readers: three backups, entries of one or two bytes, and up
  to five entries, which fills every backup and rotates again while a reader is on its
  way; two faults, so that a retry after a failure can fail too; no compression, or
  from three bytes; each of the three files the status may find. The system stops at
  `MaxEntries`, so its configurations do not look for deadlocks.
* `ProjectAllowlist`: two calls from level 2 of a chain of two, so that a walk ends
  at a file in either or finds none; contents that extend by a relative entry, replace
  by an empty list, or are not well-formed; two writes (`MaxTime`) and any number
  of deletions, which is what it takes to change a file between two steps of a call that
  another call has already filled the cache for. `allowlist_moved` needs one call only.
  In the first instance the walk ends at the top (the cap is 3), in the second at
  the cap (2, on a chain of three).

Symmetry is used for threads in the runs that check safety only; the
specifications treat all of them uniformly.

### Fairness

`FairSpec` of `Sessions` is strong fairness of each thread's `Continue` (a call in
progress goes on) and of the janitor; `CommandFairSpec` of `Commands` is strong
fairness of each thread's `Proceed`. Strong, because a
thread that waits for a lock or a permit is enabled again and again and not
continuously; Python's locks and semaphores wake a waiter whenever they are
released. A command ends because `subprocess.run` has a timeout and kills bash. Starting
a call is not fair, and neither is the clock: time may stop, in which case a session
does not become idle. The start of a thread may fail (`SpawnMayFail`); the code sets
its flag first, so a failed start is never retried, and `IdleIsEvicted` exempts
the sessions of a server whose janitor was never started (`NeverStarted`).

## Proofs

A theorem states every invariant and every action property of the passing runs,
and the refinement of `SessionRegistry`; only the liveness properties are left to TLC.

Assumptions: the named assumptions on the constants in the modules (types of
the constants, `Nil` not among the values it stands beside), which TLC evaluates on
every instance. The sets of threads, ids, names, values and directories and the
bounds are arbitrary; thread and id sets need not be finite in `Sessions`, nor the
names of variables anywhere.

### Sessions

`SessionsProofs` proves `SessionsInvariant`, `Spec => []IInv`, where `IInv` is

* `TypeOK`;
* `CallInv`: what a thread's place says about its locals, such as that a thread
  past the snapshot holds an allocated id and a command;
* `LockInv`: `lock = t` exactly when `t` is at `update`, and its session is
  then in the store;
* `InsertInv`: a session being inserted is not in the store yet, and no other
  thread's call names it;
* `EnvWithinCap`, and `JanitorInv` (no more than one janitor, and none before the
  flag is set; the cutoff of a sweep is never ahead of the clock less the timeout).

The named properties are not inductive alone. `RemovedIsFinal` needs `LockInv`:
a writer holds the lock, so no pop can come between its check and its writes, and
needs `InsertInv`, or an insert could bring back an id. `OneJanitor` needs the
tie between flag and count. `LeavesDestroyedOrIdle` needs the cutoff's bound. The action
properties follow from the invariant step by step, one step per action.

`ReportsMatchRemovals` and `FreedOnce` need to know who owes a report. `ReportInv`
says that a removed session has at most one debtor, the thread that popped it or
the janitor that holds it in its list of evictions; that a debtor has the number
of the session's variables right; that until the debt is settled none of them
is counted as freed, and all of them afterwards, if it was settled by a report and
not by a lost entry; and that the janitor begins
no sweep with a list left (`SweepInv`). The variables cannot change in between:
that is `RemovedIsFinal` again.

### The registry, and replies

`SessionRefinementProofs` proves `SessionsRefineRegistry`: each step of `Sessions`
is a step of the registry or leaves it alone. The mapping of an update needs a
fact about data, that folding what is left of a command over what has been written
gives what folding the whole command over the state at the start gives. It is
the content of `AfterCd`, `AfterExport` and `AfterUnset`, which stand on
`ExportsUnfold` and `UnsetsUnfold` of `SessionStateProofs`. With it, the cd write
that takes the lock is the registry's merge and each later write a stutter.
`MappingInv` adds what a session looks like that is being created (empty), which a
creation has to map to.

A store whose runs also write replies implements `Sessions`
(`RepliesImplementSessions`), so that the theorems carry over
(`RepliesKeepTheStore`). `ReplyInv` ties a reply in progress to the merged state of
its session: as long as `due` stands, the merged state is `due`, and what the two
unlocked reads have taken so far agrees with it. No step but another command's first
write changes the merged state, and that one gives up `due`; this is why a
caller may read without the lock and still be told the truth
(`RepliesAreConfirmed`).

### Induction over data

The induction theorems of the library take an operator as a parameter, which the
provers cannot instantiate. Two lemmas of `SessionStateProofs` replace them. `UpTo`
is induction on a set: a set that has 0 and passes from each number to the next
has all of `0 .. n`, because its complement would have a least member. It is applied
to the set of the indexes up to which a statement holds. `FoldRecursion` shows that
the recursion by which a fold over a sequence is defined has a solution, with which
`ExportsAppend` and `UnsetsResult` say what the folds give.

### Limiter and run tools

`SlotsProofs` proves the same for the limiter: `CounterInv` says who is inside
the counter's lock and that what it read is still current, and `IInv` adds
`PermitsConserved` and that `active` is the number of threads between increment and
decrement at every instant, also inside the lock. `CapHolds` then is
conservation with a non-negative number of permits, and `ActiveWithinCap` that those
counted are among the holders.

`CommandsProofs` first shows that `Commands` implements the limiter
(`CommandsImplementSlots`): each action is a step of `Slots`, or leaves its variables
alone, so everything proved of `Slots` holds of whole calls
(`CommandsKeepTheLimit`), whichever way they end. Its own invariant ties three
things: where a call is outside the slot, where it is inside, and what it knows of its
command. A started command was not refused because only a verdict "run" gets past
`Start`, and an entry "EXECUTED" is true because `audit` is reached with that verdict
only after the slot (`RefusedCommandsNeverRun`, `AuditEntriesAreTrue`).

### Command lines

`StateUpdateProofs` proves `LineInvariant`, for lines of any length, any number of
lines, any cap and any commands. Its `IInv` relates the session as it would be if
the line ended here to the shell as it is now, name by name, for the names whose last
assignment so far the parser and the shell take alike (`LastAgreed`): such a name has
the shell's value or none (`ValuesInv`, which needs that nothing was skipped by an
`&&`); if the cap was never in the way, the name was not unset and then exported, and
the server does not hand it down, it has the shell's value (`TrackInv`); and the shell
is where the last `cd` led, if that was an allowed directory and absolute (`DirInv`).
`LastSteps` says how the last assignment of a name changes with one more command. `ParseInv` keeps the set of
names with values finite, which `Cardinality` in the cap needs as `Names` need not
be. The step is that parsing a line that is one command longer appends what that
command gives (`OnlyAppend`, `ExportsAppend`, `UnsetsResult`). `NoValueInvented` and
`ShellIsTracked` follow at the end of a line, when the update is applied.

### Audit log

`AuditLogProofs` proves `AuditInvariant`, with any number of backups, any sizes and
threshold, and any failures and crashes up to `MaxFaults`. `AInv` is

* `CallInv`: the entry being written is the next one, and the loop variable is
  where the place of the call says;
* `PlainInv`: a rotation always renames into a free place (dropping `.N` frees the
  first, each shift the next), so no rename replaces a backup;
* `GzInv`: a file is unlinked only beside a whole compressed copy of it, and without
  compression there is none;
* `PlainInOrder` and `OnlyOldestLost`;
* `GapInv`, from which `KeptGenerations` follows: below a file that exists, or below
  the last place once entries were lost, there is at most one free place for each
  failed call, and one more that a rotation in progress moves through the files. A
  failure may leave that place behind, and then pays for it.

The readers implement the log (`ReadersImplementLog`: they write only through `log`).
`ReadersInvariant` adds that without compression a scan has returned what the entries
it was to find have left behind it, and `StatusInv` the same of a status that has
counted nothing yet, where the current file is behind it from the start if it
is not where the status looks. Both are kept by every step of the writer because a file
only moves up, to an index the scan has not reached or together with what
it held: `ContentMovesUp`. `ScansAreComplete` and `StatusSeesTheLog` follow.

### Allowlist

`ProjectAllowlistProofs` proves `AllowlistInvariant`. A cache keyed without the
file's path is right only because an mtime names one file (`ConfigInv`, `PairInv`),
so it fails when files move. `CacheInv` says that the cache has under an mtime what
the file with that mtime says, as long as that file is there; this is not enough for
a call that has taken the mtime of a file which then goes, before the call looks into
the cache. `LookupInv` closes the gap: what the cache has under the key of such a
call, and what any call is about to store under it, is something the file said while
the call ran. `CallsAnswerJustly` and `VerdictsFollowTheFile` follow.
Two kinds of call are exempt. One is a call whose `stat` missed the file that
`is_file` had found, with whatever follows it (`raced`): its mtime is that of no file,
and what it parses later may be cached under it. The other is a call during which a
file that it may look at appeared or went (`Vanished`): it may count the file as
unreadable, which `Justified` allows it, and of which `VerdictFollowsFile` does
not speak.

### Only model-checked

The liveness properties `CallsReturn`, `IdleIsEvicted` and `CallsAreAnswered`: their
fairness is about ENABLED, which TLAPS cannot treat here. The six properties
that do not hold are refuted by TLC's counterexamples.

## Abstractions

* Directories, names and values are model values. The allowed and existing
  directories are a constant set, so that a directory deleted or an allowlist
  edited between two calls is a refused run (`RunRefused`) or a refused `cd`.
* Audit entries outside the log are either written or lost; which error lost
  one, and the warning on stderr, is left out.
* What a command does outside its session is left out. In `Sessions` its outcome is
  its status, and refusals by the classifier, a missing bash, a bad cwd and an
  exception are one outcome, since none touches the session; `Commands` has them one
  by one, and leaves out the session. Output bytes, the environment given to the
  process and its children are in neither.
* The clock only goes forward. `time.time` is the wall clock; a step back
  delays evictions, a step forward brings them early.
* A regular expression is what it finds in a line of simple commands. Scripts,
  functions, conditionals, `$(...)` and heredocs are out of scope in the docstring
  of `bash_mcp_session_create`. What quoting, expansion, background jobs and lists of
  names do to the agreement of parser and shell is in the fields `by`, `text` and
  `value` of a command; which strings do it is left out.
* An append is one write and atomic also in a crash. A compressed file is absent,
  broken or whole; a broken one counts as holding nothing, and reading it raises or
  gives nothing. A reader opens and reads a file in one step: a rename or an unlink does
  not change what an open file holds. `max_entries` and `tool_filter` only drop what was
  read.
* Directories of the allowlist are the levels of one chain, up to the home
  directory or the root. Each write of a `.bash-mcp.toml` has an mtime of its own and
  replaces the file as a whole; TOML is its meaning: mode and roots, or not
  well-formed. The lookup of a key and the store under it are atomic, as single
  dictionary operations are.
* One server process. The audit lock does not cover several.

## Not modelled

* Binary discovery: a pool of workers per call that shares no state with other
  calls and takes no slot (see Checks).
* The regular expressions of the classifier and of the parsers, and the
  resolution of paths (links, drive letters): string detail.
* Truncation beyond its place in the order of a run: lengths, and the flags of
  the timeout branch.
* Transport and entry point (a library), the scripts that install the service or
  try it out, and the test suites.

## Plan

Done: the store with its janitor, its abstract specification and the refinement; the
limiter; the run tools as a composition with it; the replies of runs; the parser; the
audit writer and its readers; the allowlist; and proofs of the safety properties of all
of them. Next, in this order:

1. Refinements that say more at once: the log as the abstract sequence of entries of
   which a suffix is kept; a slot as a counting semaphore whose `active` is an atomic
   counter.
2. The safety half of liveness: that a call in progress which waits for a lock or
   a permit leaves someone else who can move, stated without ENABLED as a fact
   about places and holders.
3. The executor's result at the timeout: what is cut, and what the flags say.
