--------------------------- MODULE ProjectAllowlist ---------------------------
(***************************************************************************)
(* The allowlist of a project (project_allowlist.py): the walk from a      *)
(* directory up to the first .bash-mcp.toml, the cache keyed by start      *)
(* directory and mtime, and what executor.run makes of the result.  The    *)
(* calls run on several threads without a lock, while the files change:    *)
(* every look at the disk and every access to the cache is a step.         *)
(*                                                                         *)
(* Directories are the levels of one chain: level 1 is where a walk ends   *)
(* (the home directory, or the root), d + 1 is inside d.                   *)
(***************************************************************************)
EXTENDS Integers, FiniteSets

CONSTANTS
  Callers,      \* threads that call load
  Depth,        \* levels of the chain
  Starts,       \* levels that calls start from
  MaxHops,      \* MAX_WALK_UP_HOPS
  GlobalRoots,  \* ALLOWED_CWD_ROOTS, as levels; 0 stands for another place
  Contents,     \* what a .bash-mcp.toml may say
  MaxTime,      \* bound on the changes of files
  Nil

Levels == 1 .. Depth
Roots == 0 .. Depth
Modes == {"extend", "replace"}

(* `roots` has a level for an absolute entry, and Here for a relative one. *)
Here == -1
Entries == Roots \cup {Here}
Malformed == [mode |-> Nil, roots |-> {}]
Results == [dir : Levels, mode : Modes, roots : SUBSET Roots]

ASSUME ChainAssumption == Depth \in Nat \ {0} /\ MaxHops \in Nat \ {0} /\ MaxTime \in Nat
ASSUME RootsAssumption == GlobalRoots \subseteq Roots /\ Starts \subseteq Levels
ASSUME NilAssumption ==
  Nil \notin Levels /\ Nil \notin Modes /\ Nil \notin Contents /\ Nil \notin Results
ASSUME ContentsAssumption ==
  \A c \in Contents : c = Malformed \/ (c.mode \in Modes /\ c.roots \subseteq Entries)

VARIABLES
  config,  \* the .bash-mcp.toml of each level: content and mtime
  time,    \* the last mtime given
  cache,   \* _CACHE: results by key, a partial function
  load,    \* the call of each thread
  seen,    \* what each level had at some instant of the call
  raced    \* whether some stat() missed a file that is_file() had found

vars == <<config, time, cache, load, seen, raced>>

(* A key is <<start, mtime>>; an mtime of -1 stands for no file.           *)
Keys == Starts \X (-1 .. MaxTime)

Locals(stage, start) ==
  [at |-> stage, start |-> start, cur |-> start, path |-> Nil, mtime |-> -1, result |-> Nil]
NoLoad == Locals("idle", 1)

Init ==
  /\ config = [d \in Levels |-> Nil] /\ time = 0
  /\ cache = [k \in {} |-> Nil]
  /\ load = [t \in Callers |-> NoLoad] /\ seen = [t \in Callers |-> {}]
  /\ raced = FALSE

(* The levels a walk may look at.                                          *)
Walked(start) == {d \in 1 .. start : start - d < MaxHops}

Content(file) == IF file = Nil THEN Nil ELSE file.content
Put(t, l) == load' = [load EXCEPT ![t] = l]

-----------------------------------------------------------------------------
(* load(start), one look at the disk or at the cache in a step             *)

Load(t, start) ==
  /\ load[t].at = "idle"
  /\ Put(t, Locals("walk", start))
  /\ seen' = [seen EXCEPT ![t] = {<<d, Content(config[d])>> : d \in Walked(start)}]
  /\ UNCHANGED <<config, time, cache, raced>>

Hops(t) == load[t].start - load[t].cur + 1

(* A bug: the walk does not stop at the top.                               *)
WalkPastHome(t) ==
  /\ load[t].at = "walk"
  /\ Put(t, IF config[load[t].cur] # Nil
              THEN [load[t] EXCEPT !.at = "stat", !.path = load[t].cur]
            ELSE IF Hops(t) = MaxHops THEN [load[t] EXCEPT !.at = "lookup"]
            ELSE [load[t] EXCEPT !.cur = @ - 1])
  /\ UNCHANGED <<config, time, cache, seen, raced>>

Walk(t) ==
  /\ load[t].at = "walk"
  /\ Put(t, IF config[load[t].cur] # Nil
              THEN [load[t] EXCEPT !.at = "stat", !.path = load[t].cur]
            ELSE IF load[t].cur = 1 \/ Hops(t) = MaxHops
              THEN [load[t] EXCEPT !.at = "lookup"]
            ELSE [load[t] EXCEPT !.cur = @ - 1])
  /\ UNCHANGED <<config, time, cache, seen, raced>>

(* A file that is gone since is_file() keeps the mtime of no file.         *)
Stat(t) ==
  /\ load[t].at = "stat"
  /\ LET file == config[load[t].path]
     IN  /\ Put(t, [load[t] EXCEPT !.at = "lookup", !.mtime = IF file = Nil THEN -1 ELSE file.mtime])
         /\ raced' = (raced \/ file = Nil)
  /\ UNCHANGED <<config, time, cache, seen>>

(* A bug: the directory alone is the key.                                  *)
KeyOfDirectory(t) == <<load[t].start, -1>>

Key(t) == <<load[t].start, load[t].mtime>>

Lookup(t) ==
  /\ load[t].at = "lookup"
  /\ Put(t, IF Key(t) \in DOMAIN cache
              THEN [load[t] EXCEPT !.at = "done", !.result = cache[Key(t)]]
            ELSE [load[t] EXCEPT !.at = IF load[t].path = Nil THEN "store" ELSE "parse"])
  /\ UNCHANGED <<config, time, cache, seen, raced>>

Resolve(d, entry) == IF entry = Here THEN d ELSE entry

(* _parse_toml: a file that cannot be read or is not well-formed is None   *)
(* (but see Raise for one that is not UTF-8).                              *)
Parsed(d, content) ==
  IF content \in {Nil, Malformed} THEN Nil
  ELSE [dir |-> d, mode |-> content.mode, roots |-> {Resolve(d, e) : e \in content.roots}]

Parse(t) ==
  /\ load[t].at = "parse"
  /\ LET d == load[t].path
     IN  Put(t, [load[t] EXCEPT !.at = "store", !.result = Parsed(d, Content(config[d]))])
  /\ UNCHANGED <<config, time, cache, seen, raced>>

Store(t) ==
  /\ load[t].at = "store"
  /\ cache' = [k \in DOMAIN cache \cup {Key(t)} |->
                 IF k = Key(t) THEN load[t].result ELSE cache[k]]
  /\ Put(t, [load[t] EXCEPT !.at = "done"])
  /\ UNCHANGED <<config, time, seen, raced>>

Return(t) ==
  /\ load[t].at = "done"
  /\ Put(t, NoLoad) /\ seen' = [seen EXCEPT ![t] = {}]
  /\ UNCHANGED <<config, time, cache, raced>>

(* is_file() in a directory that may not be searched, a PermissionError,   *)
(* and a malformed file that is not even UTF-8, a UnicodeDecodeError, end  *)
(* the call, and the one of executor.run, without a result.                *)
Raise(t) ==
  /\ \/ load[t].at = "walk"
     \/ load[t].at = "parse" /\ Content(config[load[t].path]) = Malformed
  /\ Put(t, NoLoad) /\ seen' = [seen EXCEPT ![t] = {}]
  /\ UNCHANGED <<config, time, cache, raced>>
-----------------------------------------------------------------------------
(* The result in executor.run                                              *)

(* A bug: an empty list of roots counts as none.                           *)
EffectiveRootsTruthy(result) ==
  IF result = Nil \/ result.roots = {} THEN GlobalRoots
  ELSE IF result.mode = "replace" THEN result.roots ELSE GlobalRoots \cup result.roots

EffectiveRoots(result) ==
  IF result = Nil THEN GlobalRoots
  ELSE IF result.mode = "replace" THEN result.roots ELSE GlobalRoots \cup result.roots

IsUnder(cwd, root) == root \in 1 .. cwd

IsUnderAllowedRoot(cwd, roots) == \E root \in roots : IsUnder(cwd, root)
-----------------------------------------------------------------------------
(* What others do to the files.  A file is written whole (by a rename),    *)
(* and each write has an mtime of its own.                                 *)

Change(new) ==
  /\ config' = new
  /\ seen' = [t \in Callers |->
                IF load[t].at = "idle" THEN {}
                ELSE seen[t] \cup {<<d, Content(new[d])>> : d \in Walked(load[t].start)}]
  /\ UNCHANGED <<cache, load, raced>>

Write(d, content) ==
  /\ time < MaxTime /\ time' = time + 1
  /\ Change([config EXCEPT ![d] = [content |-> content, mtime |-> time + 1]])

Delete(d) ==
  /\ config[d] # Nil
  /\ Change([config EXCEPT ![d] = Nil])
  /\ UNCHANGED time

(* mv keeps the mtime.                                                     *)
Move(d, e) ==
  /\ config[d] # Nil
  /\ Change([config EXCEPT ![d] = Nil, ![e] = config[d]])
  /\ UNCHANGED time
-----------------------------------------------------------------------------
Proceed(t) ==
  \/ Walk(t) \/ Stat(t) \/ Lookup(t) \/ Parse(t) \/ Store(t)
  \/ Return(t) \/ Raise(t)

Next ==
  \/ \E t \in Callers : (\E start \in Starts : Load(t, start)) \/ Proceed(t)
  \/ \E d \in Levels : (\E content \in Contents : Write(d, content)) \/ Delete(d)

Spec == Init /\ [][Next]_vars

NextWithMoves == Next \/ \E d \in Levels, e \in Levels : d # e /\ Move(d, e)

SpecWithMoves == Init /\ [][NextWithMoves]_vars
-----------------------------------------------------------------------------
Stages == {"idle", "walk", "stat", "lookup", "parse", "store", "done"}

TypeOK ==
  /\ config \in [Levels -> [content : Contents, mtime : 1 .. MaxTime] \cup {Nil}]
  /\ time \in 0 .. MaxTime
  /\ DOMAIN cache \subseteq Keys /\ \A k \in DOMAIN cache : cache[k] \in Results \cup {Nil}
  /\ load \in [Callers -> [at : Stages, start : Levels, cur : Levels,
                           path : Levels \cup {Nil}, mtime : -1 .. MaxTime,
                           result : Results \cup {Nil}]]
  /\ seen \in [Callers -> SUBSET (Levels \X (Contents \cup {Nil}))]
  /\ raced \in BOOLEAN

(* What a call may answer: the first level upwards that had no file at no  *)
(* instant it was looked for ends the walk, and what that level had at     *)
(* some instant is the answer; Nil if no level had one.                    *)
Answers(t) ==
  LET start == load[t].start
      Clear(d) == <<d, Nil>> \in seen[t]
  IN  {s \in seen[t] : /\ s[1] \in Walked(start)
                       /\ \A d \in Walked(start) : d > s[1] => Clear(d)
                       /\ s[2] = Nil => \A d \in Walked(start) : Clear(d)}

Vanished(t) ==
  \E d \in Walked(load[t].start) : \E c \in Contents : {<<d, c>>, <<d, Nil>>} \subseteq seen[t]

(* With or without the cache, and while files are written and deleted, the *)
(* result of a call is what the first file above its directory said at     *)
(* some instant of the call, resolved against that file's own directory.   *)
(* Set aside: a file deleted during the call counts as unreadable, and     *)
(* what follows a stat() that missed its file (`raced`).                   *)
Justified ==
  \A t \in Callers : (load[t].at = "done" /\ ~raced) =>
    \/ \E s \in Answers(t) : load[t].result = Parsed(s[1], s[2])
    \/ load[t].result = Nil /\ Vanished(t)

(* A cwd is accepted exactly when a file that the call may have gone by    *)
(* allows it: an entry of its own, or, unless it replaces the global list, *)
(* a global root.  In particular a file that replaces the list by an empty *)
(* one locks every directory out.  Set aside, beside `raced`: every call   *)
(* during which a file it may look at appeared or went.                    *)
Allows(d, content, cwd) ==
  \/ content \notin {Nil, Malformed} /\ \E e \in content.roots : IsUnder(cwd, Resolve(d, e))
  \/ /\ content \in {Nil, Malformed} \/ content.mode # "replace"
     /\ \E root \in GlobalRoots : IsUnder(cwd, root)

VerdictFollowsFile ==
  \A t \in Callers : (load[t].at = "done" /\ ~raced /\ ~Vanished(t)) =>
    \E s \in Answers(t) :
      IsUnderAllowedRoot(load[t].start, EffectiveRoots(load[t].result))
        <=> Allows(s[1], s[2], load[t].start)

(* "Relative allowed_roots entries [are] resolved against the TOML file's  *)
(* parent directory", and "editing the TOML invalidates the cached result  *)
(* automatically": the same as Justified, where files may also be moved.   *)
FollowsMoves == Justified
=============================================================================
