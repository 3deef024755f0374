------------------------ MODULE ProjectAllowlistProofs ------------------------
(***************************************************************************)
(* The cache of project allowlists never makes a call answer with another  *)
(* file than the one it found, for any number of callers, any depth of     *)
(* directories, any cap on the walk and any contents, as long as files are *)
(* written and deleted but not moved.                                      *)
(***************************************************************************)
EXTENDS ProjectAllowlist, TLAPS

(* The parts of the invariant take what they speak of as parameters: the   *)
(* locals `l` of a call, what it has `met`, the `files`.                   *)

Clear(met, d) == <<d, Nil>> \in met
Carries(file, m) == file # Nil /\ file.mtime = m
AtFile(l) == l.at \notin {"idle", "walk"}

(* `result` is what the file at `d` had at some instant of the call.       *)
Good(met, d, result) ==
  \E c \in Contents \cup {Nil} : <<d, c>> \in met /\ result = Parsed(d, c)

(* An mtime names one file, and it is the newest one at its level.         *)
ConfigInv(files, now) ==
  \A d \in Levels : files[d] # Nil =>
    /\ files[d].mtime <= now
    /\ \A e \in Levels : Carries(files[e], files[d].mtime) => e = d

(* A call has met what is there now.                                       *)
SeenInv(l, met, files) ==
  l.at # "idle" =>
    l.start \in Starts /\ \A d \in Walked(l.start) : <<d, Content(files[d])>> \in met

(* Where the walk stands, and what it went by.                             *)
WalkInv(l, met) ==
  /\ l.at = "walk" => /\ l.cur \in Walked(l.start)
                      /\ \A d \in Walked(l.start) : d > l.cur => Clear(met, d)
  /\ l.at \in {"idle", "walk"} => l.path = Nil
  /\ l.at \in {"stat", "parse"} => l.path # Nil
  /\ (AtFile(l) /\ l.path # Nil) =>
       /\ l.path \in Walked(l.start)
       /\ \A d \in Walked(l.start) : d > l.path => Clear(met, d)
       /\ \E c \in Contents : <<l.path, c>> \in met
  /\ (AtFile(l) /\ l.path = Nil) => \A d \in Walked(l.start) : Clear(met, d)

(* The mtime of a call is that of the file it found.                       *)
MtimeInv(l, files, now, missed) ==
  /\ l.at \in {"idle", "walk", "stat"} \/ l.path = Nil => l.mtime = -1
  /\ l.mtime # -1 => /\ l.mtime \in 1 .. now
                     /\ \A d \in Levels : Carries(files[d], l.mtime) => d = l.path
  /\ (l.at \in {"lookup", "parse", "store", "done"} /\ l.path # Nil /\ l.mtime = -1) => missed

(* What a call is about to store, or to return.                            *)
ResultInv(l, met, files, missed) ==
  /\ l.at \in {"idle", "walk", "stat", "lookup", "parse"} => l.result = Nil
  /\ (l.at = "store" /\ l.mtime # -1 /\ Carries(files[l.path], l.mtime))
       => l.result = Parsed(l.path, Content(files[l.path]))
  /\ l.at = "store" \/ (l.at = "done" /\ ~missed)
       => IF l.path = Nil THEN l.result = Nil ELSE Good(met, l.path, l.result)

CallInv(l, met, files, now, missed) ==
  /\ SeenInv(l, met, files) /\ WalkInv(l, met)
  /\ MtimeInv(l, files, now, missed) /\ ResultInv(l, met, files, missed)

(* Calls with one mtime have found one file.                               *)
PairInv == \A t, u \in Callers :
  load[t].mtime = load[u].mtime /\ load[t].mtime # -1 => load[t].path = load[u].path

(* While the file with an mtime is there, what the cache has under it is   *)
(* that file's.                                                            *)
CacheInv ==
  \A k \in DOMAIN cache :
    /\ k[2] # -1 => /\ k[2] <= time
                    /\ \A d \in Levels : Carries(config[d], k[2])
                                           => cache[k] = Parsed(d, Content(config[d]))
    /\ (k[2] = -1 /\ ~raced) => cache[k] = Nil

(* A call that has the mtime of its file, and then loses the file, finds   *)
(* in the cache what one of its own looks could have found.                *)
LookupInv(t) ==
  (load[t].at = "lookup" /\ load[t].mtime # -1) =>
    /\ Key(t) \in DOMAIN cache => Good(seen[t], load[t].path, cache[Key(t)])
    /\ \A u \in Callers : load[u].at = "store" /\ Key(u) = Key(t)
                            => Good(seen[t], load[t].path, load[u].result)

AllowlistInv ==
  /\ TypeOK /\ ConfigInv(config, time) /\ PairInv /\ CacheInv
  /\ \A t \in Callers : CallInv(load[t], seen[t], config, time, raced) /\ LookupInv(t)

Files == [Levels -> [content : Contents, mtime : 1 .. MaxTime] \cup {Nil}]
Loads == [at : Stages, start : Levels, cur : Levels, path : Levels \cup {Nil},
          mtime : -1 .. MaxTime, result : Results \cup {Nil}]
Met == SUBSET (Levels \X (Contents \cup {Nil}))
-----------------------------------------------------------------------------
(* A walk looks at a stretch of levels that begins where it starts.        *)
LEMMA WalkedLevels ==
  ASSUME NEW start \in Levels
  PROVE  /\ Walked(start) \subseteq Levels /\ start \in Walked(start)
         /\ \A d \in Walked(start) : d <= start
         /\ \A cur \in Walked(start) :
              /\ cur = 1 \/ start - cur + 1 = MaxHops => \A d \in Walked(start) : d >= cur
              /\ cur # 1 /\ start - cur + 1 # MaxHops => cur - 1 \in Walked(start)
BY ChainAssumption DEF Walked, Levels

LEMMA ParsedType ==
  ASSUME NEW d \in Levels, NEW c \in Contents \cup {Nil}
  PROVE  /\ Parsed(d, c) \in Results \cup {Nil}
         /\ c \notin {Nil, Malformed} => Parsed(d, c) \in Results
<1>1. CASE c \in {Nil, Malformed}
  BY <1>1 DEF Parsed
<1>2. CASE c \notin {Nil, Malformed}
  <2>1. c.mode \in Modes /\ c.roots \subseteq Entries
    BY <1>2, ContentsAssumption
  <2>2. {Resolve(d, e) : e \in c.roots} \in SUBSET Roots
    BY <2>1, ChainAssumption DEF Resolve, Entries, Here, Roots, Levels
  <2>3. QED
    BY <1>2, <2>1, <2>2 DEF Parsed, Results
<1>3. QED
  BY <1>1, <1>2

LEMMA InitInv == Init => AllowlistInv
<1> SUFFICES ASSUME Init PROVE AllowlistInv
  OBVIOUS
<1> USE ChainAssumption DEF Init, NoLoad, Locals
<1>1. TypeOK
  <2>1. config \in Files
    BY DEF Files
  <2>2. time \in 0 .. MaxTime
    OBVIOUS
  <2>3. raced \in BOOLEAN
    OBVIOUS
  <2>4. DOMAIN cache = {}
    OBVIOUS
  <2>5. load \in [Callers -> Loads] /\ seen \in [Callers -> Met]
    BY DEF Loads, Met, Stages, Levels
  <2>6. QED
    BY <2>1, <2>2, <2>3, <2>4, <2>5 DEF TypeOK, Files, Loads, Met
<1>2. ConfigInv(config, time)
  BY DEF ConfigInv
<1>3. PairInv /\ CacheInv
  BY DEF PairInv, CacheInv
<1>4. ASSUME NEW t \in Callers
      PROVE  CallInv(load[t], seen[t], config, time, raced) /\ LookupInv(t)
  BY <1>4 DEF CallInv, SeenInv, WalkInv, MtimeInv, ResultInv, LookupInv, AtFile
<1>5. QED
  BY <1>1, <1>2, <1>3, <1>4 DEF AllowlistInv
-----------------------------------------------------------------------------
(* A step of one call changes its own locals, and possibly the cache.      *)

StepOf(t, new) ==
  /\ new \in Loads /\ load' = [load EXCEPT ![t] = new]
  /\ config' = config /\ time' = time

LEMMA CallsKept ==
  ASSUME AllowlistInv, NEW t \in Callers, NEW new, StepOf(t, new),
         seen' \in [Callers -> Met], \A u \in Callers \ {t} : seen'[u] = seen[u],
         raced' \in BOOLEAN, raced => raced',
         CallInv(new, seen'[t], config, time, raced')
  PROVE  /\ load' \in [Callers -> Loads]
         /\ ConfigInv(config', time')
         /\ \A u \in Callers : CallInv(load'[u], seen'[u], config', time', raced')
<1>1. load' \in [Callers -> Loads]
  BY DEF AllowlistInv, TypeOK, StepOf, Loads
<1>2. load'[t] = new /\ \A u \in Callers \ {t} : load'[u] = load[u]
  BY DEF AllowlistInv, TypeOK, StepOf, Loads
<1>3. ConfigInv(config', time')
  BY DEF AllowlistInv, StepOf
<1>4. ASSUME NEW u \in Callers PROVE CallInv(load'[u], seen'[u], config', time', raced')
  <2>1. CASE u = t
    BY <1>2, <2>1 DEF StepOf
  <2>2. CASE u # t
    <3>1. CallInv(load[u], seen[u], config, time, raced')
      BY DEF AllowlistInv, CallInv, MtimeInv, ResultInv
    <3>2. QED
      BY <1>2, <2>2, <3>1 DEF StepOf
  <2>3. QED
    BY <2>1, <2>2
<1>5. QED
  BY <1>1, <1>3, <1>4

(* A step that neither changes the cache, nor takes or uses a file's mtime.*)
Quiet(t, new) ==
  /\ cache' = cache
  /\ new.at \in {"lookup", "store"} => new.mtime = -1
  /\ new.mtime = -1 \/ (new.mtime = load[t].mtime /\ new.path = load[t].path)

LEMMA QuietKeeps ==
  ASSUME AllowlistInv, NEW t \in Callers, NEW new, StepOf(t, new), Quiet(t, new),
         seen' \in [Callers -> Met], \A u \in Callers \ {t} : seen'[u] = seen[u],
         raced' = raced, CallInv(new, seen'[t], config, time, raced)
  PROVE  AllowlistInv'
<1>1. raced' \in BOOLEAN /\ TypeOK
  BY DEF AllowlistInv, TypeOK
<1>2. /\ load' \in [Callers -> Loads] /\ ConfigInv(config', time')
      /\ \A u \in Callers : CallInv(load'[u], seen'[u], config', time', raced')
  BY <1>1, CallsKept
<1>3. load'[t] = new /\ \A u \in Callers \ {t} : load'[u] = load[u]
  BY <1>1 DEF TypeOK, StepOf, Loads
<1>4. TypeOK'
  BY <1>1, <1>2 DEF TypeOK, StepOf, Quiet, Loads, Met, Files
<1>5. PairInv'
  BY <1>3 DEF AllowlistInv, PairInv, Quiet
<1>6. CacheInv'
  BY DEF AllowlistInv, CacheInv, Quiet, StepOf
<1>7. ASSUME NEW u \in Callers PROVE LookupInv(u)'
  BY <1>3 DEF AllowlistInv, LookupInv, Key, Quiet
<1>8. QED
  BY <1>2, <1>4, <1>5, <1>6, <1>7 DEF AllowlistInv
-----------------------------------------------------------------------------
(* What the updates of a call's locals make of them.                       *)
LEMMA NewLocals ==
  ASSUME NEW l \in Loads, NEW a \in Stages
  PROVE  /\ [l EXCEPT !.at = a]
              = [at |-> a, start |-> l.start, cur |-> l.cur, path |-> l.path,
                 mtime |-> l.mtime, result |-> l.result]
         /\ \A p \in Levels \cup {Nil} : [l EXCEPT !.at = a, !.path = p]
              = [at |-> a, start |-> l.start, cur |-> l.cur, path |-> p,
                 mtime |-> l.mtime, result |-> l.result]
         /\ \A m \in -1 .. MaxTime : [l EXCEPT !.at = a, !.mtime = m]
              = [at |-> a, start |-> l.start, cur |-> l.cur, path |-> l.path,
                 mtime |-> m, result |-> l.result]
         /\ \A r \in Results \cup {Nil} : [l EXCEPT !.at = a, !.result = r]
              = [at |-> a, start |-> l.start, cur |-> l.cur, path |-> l.path,
                 mtime |-> l.mtime, result |-> r]
<1>1. PICK x : x = [l EXCEPT !.at = a]
  BY DEF Loads
<1>2. x \in Loads
  BY <1>1 DEF Loads
<1>3. x = [at |-> a, start |-> l.start, cur |-> l.cur, path |-> l.path,
           mtime |-> l.mtime, result |-> l.result]
  BY <1>1 DEF Loads
<1>4. /\ x.at = a /\ x.start = l.start /\ x.cur = l.cur /\ x.path = l.path
      /\ x.mtime = l.mtime /\ x.result = l.result
  BY <1>3
<1>5. ASSUME NEW p \in Levels \cup {Nil}
      PROVE  [l EXCEPT !.at = a, !.path = p]
              = [at |-> a, start |-> l.start, cur |-> l.cur, path |-> p,
                 mtime |-> l.mtime, result |-> l.result]
  <2>1. [l EXCEPT !.at = a, !.path = p] = [x EXCEPT !.path = p]
    BY <1>1, Zenon
  <2>2. [x EXCEPT !.path = p] = [at |-> x.at, start |-> x.start, cur |-> x.cur, path |-> p,
                 mtime |-> x.mtime, result |-> x.result]
    BY <1>2 DEF Loads
  <2>3. QED
    BY <2>1, <2>2, <1>4, Zenon
<1>6. ASSUME NEW m \in -1 .. MaxTime
      PROVE  [l EXCEPT !.at = a, !.mtime = m]
              = [at |-> a, start |-> l.start, cur |-> l.cur, path |-> l.path,
                 mtime |-> m, result |-> l.result]
  <2>1. [l EXCEPT !.at = a, !.mtime = m] = [x EXCEPT !.mtime = m]
    BY <1>1, Zenon
  <2>2. [x EXCEPT !.mtime = m] = [at |-> x.at, start |-> x.start, cur |-> x.cur,
                 path |-> x.path, mtime |-> m, result |-> x.result]
    BY <1>2 DEF Loads
  <2>3. QED
    BY <2>1, <2>2, <1>4, Zenon
<1>7. ASSUME NEW r \in Results \cup {Nil}
      PROVE  [l EXCEPT !.at = a, !.result = r]
              = [at |-> a, start |-> l.start, cur |-> l.cur, path |-> l.path,
                 mtime |-> l.mtime, result |-> r]
  <2>1. [l EXCEPT !.at = a, !.result = r] = [x EXCEPT !.result = r]
    BY <1>1, Zenon
  <2>2. [x EXCEPT !.result = r] = [at |-> x.at, start |-> x.start, cur |-> x.cur,
                 path |-> x.path, mtime |-> x.mtime, result |-> r]
    BY <1>2 DEF Loads
  <2>3. QED
    BY <2>1, <2>2, <1>4, Zenon
<1>8. QED
  BY <1>1, <1>3, <1>5, <1>6, <1>7, Zenon
-----------------------------------------------------------------------------
LEMMA LoadKeeps ==
  ASSUME AllowlistInv, NEW t \in Callers, NEW start \in Starts, Load(t, start)
  PROVE  AllowlistInv'
<1> DEFINE new == Locals("walk", start)
           met == {<<d, Content(config[d])>> : d \in Walked(start)}
<1>1. start \in Levels /\ config \in Files /\ seen \in [Callers -> Met]
  BY RootsAssumption DEF AllowlistInv, TypeOK, Files, Met
<1>2. new \in Loads
  BY <1>1, ChainAssumption DEF Loads, Stages, Locals
<1>3. met \in Met
  BY <1>1, WalkedLevels DEF Met, Files, Content
<1>4. seen' = [seen EXCEPT ![t] = met]
  BY DEF Load
<1>5. /\ seen' \in [Callers -> Met] /\ seen'[t] = met
      /\ \A u \in Callers \ {t} : seen'[u] = seen[u]
  BY <1>1, <1>3, <1>4
<1>6. StepOf(t, new) /\ Quiet(t, new) /\ raced' = raced
  BY <1>2 DEF Load, StepOf, Quiet, Put, Locals
<1>7. CallInv(new, met, config, time, raced)
  <2>1. SeenInv(new, met, config)
    BY DEF SeenInv, Locals
  <2>2. WalkInv(new, met)
    BY <1>1, WalkedLevels DEF WalkInv, AtFile, Levels, Walked, Locals
  <2>3. MtimeInv(new, config, time, raced) /\ ResultInv(new, met, config, raced)
    BY DEF MtimeInv, ResultInv, Locals
  <2>4. QED
    BY <2>1, <2>2, <2>3 DEF CallInv
<1>8. QED
  BY <1>5, <1>6, <1>7, QuietKeeps

LEMMA WalkKeeps ==
  ASSUME AllowlistInv, NEW t \in Callers, Walk(t)
  PROVE  AllowlistInv'
<1> DEFINE l == load[t]
           met == seen[t]
<1>1. /\ l \in Loads /\ config \in Files /\ seen \in [Callers -> Met] /\ l.at = "walk"
      /\ UNCHANGED <<config, time, cache, seen, raced>>
  BY DEF Walk, AllowlistInv, TypeOK, Loads, Files, Met
<1>2. /\ SeenInv(l, met, config) /\ WalkInv(l, met)
      /\ MtimeInv(l, config, time, raced) /\ ResultInv(l, met, config, raced)
  BY DEF AllowlistInv, CallInv
<1>3. /\ l.path = Nil /\ l.mtime = -1 /\ l.result = Nil
      /\ l.start \in Levels /\ l.cur \in Walked(l.start) /\ l.cur \in Levels
      /\ \A d \in Walked(l.start) : d > l.cur => Clear(met, d)
      /\ <<l.cur, Content(config[l.cur])>> \in met
  BY <1>1, <1>2 DEF Loads, SeenInv, WalkInv, MtimeInv, ResultInv
<1>4. ASSUME NEW new, load' = [load EXCEPT ![t] = new], new \in Loads,
             new.at # "store", new.path = Nil \/ new.at = "stat", new.mtime = -1,
             CallInv(new, met, config, time, raced)
      PROVE  AllowlistInv'
  <2>1. StepOf(t, new) /\ Quiet(t, new)
    BY <1>1, <1>4 DEF StepOf, Quiet
  <2>2. QED
    BY <1>1, <1>4, <2>1, QuietKeeps
<1>5. CASE config[l.cur] # Nil
  <2> DEFINE new == [l EXCEPT !.at = "stat", !.path = l.cur]
  <2>1. new = [at |-> "stat", start |-> l.start, cur |-> l.cur, path |-> l.cur,
               mtime |-> l.mtime, result |-> l.result]
    BY <1>1, <1>3, NewLocals, Zenon DEF Stages
  <2>2. load' = [load EXCEPT ![t] = new]
    BY <1>5 DEF Walk, Put
  <2>3. new \in Loads
    BY <1>1, <1>3, <2>1 DEF Loads, Stages
  <2>4. <<l.cur, config[l.cur].content>> \in met /\ config[l.cur].content \in Contents /\ l.cur # Nil
    BY <1>1, <1>3, <1>5, NilAssumption DEF Files, Content
  <2>5. SeenInv(new, met, config) /\ WalkInv(new, met)
    BY <1>1, <1>2, <1>3, <2>1, <2>4 DEF SeenInv, WalkInv, AtFile
  <2>6. MtimeInv(new, config, time, raced) /\ ResultInv(new, met, config, raced)
    BY <1>3, <2>1 DEF MtimeInv, ResultInv
  <2>7. QED
    BY <1>3, <1>4, <2>1, <2>2, <2>3, <2>5, <2>6 DEF CallInv
<1>6. CASE config[l.cur] = Nil /\ (l.cur = 1 \/ Hops(t) = MaxHops)
  <2> DEFINE new == [l EXCEPT !.at = "lookup"]
  <2>1. new = [at |-> "lookup", start |-> l.start, cur |-> l.cur, path |-> l.path,
               mtime |-> l.mtime, result |-> l.result]
    BY <1>1, NewLocals, Zenon DEF Stages
  <2>2. load' = [load EXCEPT ![t] = new]
    BY <1>6 DEF Walk, Put
  <2>3. new \in Loads
    BY <1>1, <2>1 DEF Loads, Stages
  <2>4. ASSUME NEW d \in Walked(l.start) PROVE Clear(met, d)
    <3>1. d \in Levels /\ d >= l.cur
      BY <1>3, <1>6, WalkedLevels DEF Hops
    <3>2. Clear(met, l.cur)
      BY <1>3, <1>6 DEF Clear, Content
    <3>3. QED
      BY <1>3, <3>1, <3>2, ChainAssumption DEF Levels
  <2>5. SeenInv(new, met, config) /\ WalkInv(new, met)
    BY <1>1, <1>2, <1>3, <2>1, <2>4 DEF SeenInv, WalkInv, AtFile
  <2>6. MtimeInv(new, config, time, raced) /\ ResultInv(new, met, config, raced)
    BY <1>3, <2>1 DEF MtimeInv, ResultInv
  <2>7. QED
    BY <1>3, <1>4, <2>1, <2>2, <2>3, <2>5, <2>6 DEF CallInv
<1>7. CASE config[l.cur] = Nil /\ ~(l.cur = 1 \/ Hops(t) = MaxHops)
  <2> DEFINE new == [l EXCEPT !.cur = l.cur - 1]
  <2>1. l.cur - 1 \in Walked(l.start) /\ l.cur - 1 \in Levels
    BY <1>3, <1>7, WalkedLevels DEF Hops
  <2>2. new = [at |-> l.at, start |-> l.start, cur |-> l.cur - 1, path |-> l.path,
               mtime |-> l.mtime, result |-> l.result]
    BY <1>1, <2>1 DEF Loads
  <2>3. load' = [load EXCEPT ![t] = new]
    BY <1>7 DEF Walk, Put
  <2>4. new \in Loads
    BY <1>1, <2>1, <2>2 DEF Loads
  <2>5. ASSUME NEW d \in Walked(l.start), d > l.cur - 1 PROVE Clear(met, d)
    <3>1. d \in Levels /\ (d = l.cur \/ d > l.cur)
      BY <1>3, <2>5, WalkedLevels, ChainAssumption DEF Levels
    <3>2. Clear(met, l.cur)
      BY <1>3, <1>7 DEF Clear, Content
    <3>3. QED
      BY <1>3, <3>1, <3>2
  <2>6. SeenInv(new, met, config) /\ WalkInv(new, met)
    BY <1>1, <1>2, <1>3, <2>1, <2>2, <2>5 DEF SeenInv, WalkInv, AtFile
  <2>7. MtimeInv(new, config, time, raced) /\ ResultInv(new, met, config, raced)
    BY <1>1, <1>3, <2>2 DEF MtimeInv, ResultInv
  <2>8. QED
    BY <1>1, <1>3, <1>4, <2>2, <2>3, <2>4, <2>6, <2>7 DEF CallInv
<1>8. QED
  BY <1>5, <1>6, <1>7

LEMMA LookupKeeps ==
  ASSUME AllowlistInv, NEW t \in Callers, Lookup(t)
  PROVE  AllowlistInv'
<1> DEFINE l == load[t]
           met == seen[t]
<1>1. /\ l \in Loads /\ config \in Files /\ seen \in [Callers -> Met] /\ l.at = "lookup"
      /\ UNCHANGED <<config, time, cache, seen, raced>>
      /\ \A k \in DOMAIN cache : cache[k] \in Results \cup {Nil}
  BY DEF Lookup, AllowlistInv, TypeOK, Loads, Files, Met
<1>2. /\ SeenInv(l, met, config) /\ WalkInv(l, met)
      /\ MtimeInv(l, config, time, raced) /\ ResultInv(l, met, config, raced)
  BY DEF AllowlistInv, CallInv
<1>3. Key(t) = <<l.start, l.mtime>> /\ l.result = Nil
  BY <1>1, <1>2 DEF Key, ResultInv
<1>4. ASSUME NEW new \in Loads, load' = [load EXCEPT ![t] = new],
             new.at \notin {"lookup", "store"} \/ new.mtime = -1,
             new.path = l.path, new.mtime = l.mtime,
             CallInv(new, met, config, time, raced)
      PROVE  AllowlistInv'
  <2>1. StepOf(t, new) /\ Quiet(t, new)
    BY <1>1, <1>4 DEF StepOf, Quiet
  <2>2. QED
    BY <1>1, <1>4, <2>1, QuietKeeps
<1>5. CASE Key(t) \in DOMAIN cache
  <2> DEFINE r == cache[Key(t)]
             new == [l EXCEPT !.at = "done", !.result = r]
  <2>1. r \in Results \cup {Nil}
    BY <1>1, <1>5
  <2>2. new = [at |-> "done", start |-> l.start, cur |-> l.cur, path |-> l.path,
               mtime |-> l.mtime, result |-> r]
    <3>1. l \in Loads /\ "done" \in Stages
      BY <1>1 DEF Stages
    <3> HIDE DEF r
    <3>2. \A v \in Results \cup {Nil} : [l EXCEPT !.at = "done", !.result = v]
            = [at |-> "done", start |-> l.start, cur |-> l.cur, path |-> l.path,
               mtime |-> l.mtime, result |-> v]
      BY <3>1, NewLocals, Zenon
    <3>3. QED
      BY <2>1, <3>2, Zenon
  <2>3. load' = [load EXCEPT ![t] = new]
    BY <1>5 DEF Lookup, Put
  <2>4. new \in Loads
    BY <1>1, <1>5, <2>2 DEF Loads, Stages
  <2>5. SeenInv(new, met, config) /\ WalkInv(new, met) /\ MtimeInv(new, config, time, raced)
    BY <1>1, <1>2, <2>2 DEF SeenInv, WalkInv, AtFile, MtimeInv
  <2>6. ASSUME ~raced PROVE IF l.path = Nil THEN r = Nil ELSE Good(met, l.path, r)
    <3>1. CASE l.path = Nil
      BY <1>2, <1>3, <1>5, <2>6, <3>1 DEF MtimeInv, AllowlistInv, CacheInv
    <3>2. CASE l.path # Nil
      <4>1. l.mtime # -1
        BY <1>1, <1>2, <2>6, <3>2 DEF MtimeInv
      <4>2. QED
        BY <1>1, <1>5, <3>2, <4>1 DEF AllowlistInv, LookupInv
    <3>3. QED
      BY <3>1, <3>2
  <2>7. ResultInv(new, met, config, raced)
    BY <2>2, <2>6 DEF ResultInv
  <2>8. QED
    BY <1>4, <2>2, <2>3, <2>4, <2>5, <2>7 DEF CallInv
<1>6. CASE Key(t) \notin DOMAIN cache /\ l.path = Nil
  <2> DEFINE new == [l EXCEPT !.at = "store"]
  <2>1. new = [at |-> "store", start |-> l.start, cur |-> l.cur, path |-> l.path,
               mtime |-> l.mtime, result |-> l.result]
    BY <1>1, NewLocals, Zenon DEF Stages
  <2>2. load' = [load EXCEPT ![t] = new]
    BY <1>6 DEF Lookup, Put
  <2>3. new \in Loads
    BY <1>1, <2>1 DEF Loads, Stages
  <2>4. l.mtime = -1
    BY <1>2, <1>6 DEF MtimeInv
  <2>5. SeenInv(new, met, config) /\ WalkInv(new, met) /\ MtimeInv(new, config, time, raced)
    BY <1>1, <1>2, <2>1 DEF SeenInv, WalkInv, AtFile, MtimeInv
  <2>6. ResultInv(new, met, config, raced)
    BY <1>3, <1>6, <2>1, <2>4 DEF ResultInv
  <2>7. QED
    BY <1>4, <2>1, <2>2, <2>3, <2>4, <2>5, <2>6 DEF CallInv
<1>7. CASE Key(t) \notin DOMAIN cache /\ l.path # Nil
  <2> DEFINE new == [l EXCEPT !.at = "parse"]
  <2>1. new = [at |-> "parse", start |-> l.start, cur |-> l.cur, path |-> l.path,
               mtime |-> l.mtime, result |-> l.result]
    BY <1>1, NewLocals, Zenon DEF Stages
  <2>2. load' = [load EXCEPT ![t] = new]
    BY <1>7 DEF Lookup, Put
  <2>3. new \in Loads
    BY <1>1, <2>1 DEF Loads, Stages
  <2>4. SeenInv(new, met, config) /\ WalkInv(new, met) /\ MtimeInv(new, config, time, raced)
    BY <1>1, <1>2, <1>7, <2>1 DEF SeenInv, WalkInv, AtFile, MtimeInv
  <2>5. ResultInv(new, met, config, raced)
    BY <1>3, <2>1 DEF ResultInv
  <2>6. QED
    BY <1>4, <2>1, <2>2, <2>3, <2>4, <2>5 DEF CallInv
<1>8. QED
  BY <1>5, <1>6, <1>7

LEMMA ReturnKeeps ==
  ASSUME AllowlistInv, NEW t \in Callers, Return(t) \/ Raise(t)
  PROVE  AllowlistInv'
<1>1. seen \in [Callers -> Met] /\ seen' = [seen EXCEPT ![t] = {}]
  BY DEF Return, Raise, AllowlistInv, TypeOK, Met
<1>2. /\ seen' \in [Callers -> Met] /\ seen'[t] = {}
      /\ \A u \in Callers \ {t} : seen'[u] = seen[u]
  BY <1>1 DEF Met
<1>3. NoLoad \in Loads
  BY ChainAssumption DEF NoLoad, Locals, Loads, Stages, Levels
<1>4. StepOf(t, NoLoad) /\ Quiet(t, NoLoad) /\ raced' = raced
  BY <1>3 DEF Return, Raise, StepOf, Quiet, Put, NoLoad, Locals
<1>5. CallInv(NoLoad, {}, config, time, raced)
  BY DEF CallInv, SeenInv, WalkInv, MtimeInv, ResultInv, AtFile, NoLoad, Locals
<1>6. QED
  BY <1>2, <1>4, <1>5, QuietKeeps
-----------------------------------------------------------------------------
(* The locals and the files' part of the invariant, for the steps that     *)
(* leave `seen` alone.                                                     *)
LEMMA LocalsKept ==
  ASSUME AllowlistInv, NEW t \in Callers, NEW new, StepOf(t, new), seen' = seen,
         raced' \in BOOLEAN, raced => raced',
         CallInv(new, seen[t], config, time, raced')
  PROVE  /\ load' \in [Callers -> Loads] /\ ConfigInv(config', time')
         /\ \A u \in Callers : CallInv(load'[u], seen'[u], config', time', raced')
         /\ load'[t] = new /\ \A u \in Callers \ {t} : load'[u] = load[u]
<1>1. seen \in [Callers -> Met] /\ load \in [Callers -> Loads]
  BY DEF AllowlistInv, TypeOK, Met, Loads
<1>2. load'[t] = new /\ \A u \in Callers \ {t} : load'[u] = load[u]
  BY <1>1 DEF StepOf
<1>3. QED
  BY <1>1, <1>2, CallsKept

LEMMA StatKeeps ==
  ASSUME AllowlistInv, NEW t \in Callers, Stat(t)
  PROVE  AllowlistInv'
<1> DEFINE l == load[t]
           file == config[l.path]
           m == IF file = Nil THEN -1 ELSE file.mtime
           new == [l EXCEPT !.at = "lookup", !.mtime = m]
<1>1. /\ TypeOK /\ l \in Loads /\ config \in Files /\ l.at = "stat"
      /\ UNCHANGED <<config, time, cache, seen>>
  BY DEF Stat, AllowlistInv, TypeOK, Loads, Files
<1>2. /\ SeenInv(l, seen[t], config) /\ WalkInv(l, seen[t])
      /\ MtimeInv(l, config, time, raced) /\ ResultInv(l, seen[t], config, raced)
  BY DEF AllowlistInv, CallInv
<1>3. l.path # Nil /\ l.path \in Levels /\ l.result = Nil /\ raced \in BOOLEAN
  BY <1>1, <1>2 DEF WalkInv, ResultInv, Loads, TypeOK
<1>4. raced' \in BOOLEAN /\ (raced => raced') /\ (file = Nil => raced')
  BY <1>3 DEF Stat
<1>5. /\ m \in -1 .. MaxTime /\ (m = -1 <=> file = Nil)
      /\ m # -1 => m \in 1 .. time /\ Carries(file, m)
  <2>1. file \in [content : Contents, mtime : 1 .. MaxTime] \cup {Nil}
    BY <1>1, <1>3 DEF Files
  <2>2. time \in 0 .. MaxTime /\ ConfigInv(config, time)
    BY <1>1 DEF AllowlistInv, TypeOK
  <2>3. QED
    BY <1>3, <2>1, <2>2, ChainAssumption DEF ConfigInv, Carries
<1>6. m # -1 => \A d \in Levels : Carries(config[d], m) => d = l.path
  BY <1>3, <1>5 DEF AllowlistInv, ConfigInv, Carries
<1>7. new = [at |-> "lookup", start |-> l.start, cur |-> l.cur, path |-> l.path,
             mtime |-> m, result |-> l.result]
  BY <1>1, <1>5, NewLocals, Zenon DEF Stages
<1>8. new \in Loads
  BY <1>1, <1>5, <1>7 DEF Loads, Stages
<1>9. StepOf(t, new)
  BY <1>1, <1>8 DEF Stat, Put, StepOf
<1>10. CallInv(new, seen[t], config, time, raced')
  <2>1. SeenInv(new, seen[t], config) /\ WalkInv(new, seen[t])
    BY <1>1, <1>2, <1>7 DEF SeenInv, WalkInv, AtFile
  <2>2. MtimeInv(new, config, time, raced')
    BY <1>3, <1>4, <1>5, <1>6, <1>7 DEF MtimeInv
  <2>3. ResultInv(new, seen[t], config, raced')
    BY <1>3, <1>7 DEF ResultInv
  <2>4. QED
    BY <2>1, <2>2, <2>3 DEF CallInv
<1>11. /\ load' \in [Callers -> Loads] /\ ConfigInv(config', time')
       /\ \A u \in Callers : CallInv(load'[u], seen'[u], config', time', raced')
       /\ load'[t] = new /\ \A u \in Callers \ {t} : load'[u] = load[u]
  BY <1>1, <1>4, <1>9, <1>10, LocalsKept
<1>12. TypeOK'
  BY <1>1, <1>4, <1>11 DEF TypeOK, Loads
<1>13. ASSUME NEW u \in Callers, load[u].mtime = m, m # -1 PROVE load[u].path = l.path
  BY <1>3, <1>5, <1>13 DEF AllowlistInv, CallInv, MtimeInv
<1>14. PairInv'
  BY <1>7, <1>11, <1>13 DEF AllowlistInv, PairInv
<1>15. CacheInv'
  BY <1>1, <1>4 DEF AllowlistInv, CacheInv
<1>16. ASSUME NEW u \in Callers PROVE LookupInv(u)'
  <2>1. CASE u = t
    <3> SUFFICES ASSUME m # -1
                 PROVE  /\ Key(t)' \in DOMAIN cache => Good(seen[t], l.path, cache[Key(t)'])
                        /\ \A v \in Callers : load'[v].at = "store" /\ Key(v)' = Key(t)'
                              => Good(seen[t], l.path, load'[v].result)
      BY <1>1, <1>7, <1>11, <2>1 DEF LookupInv
    <3>1. Key(t)' = <<l.start, m>>
      BY <1>7, <1>11 DEF Key
    <3>2. Good(seen[t], l.path, Parsed(l.path, Content(file)))
      BY <1>1, <1>2, <1>3 DEF Good, SeenInv, WalkInv, AtFile, Files, Content
    <3>3. Key(t)' \in DOMAIN cache => cache[Key(t)'] = Parsed(l.path, Content(file))
      BY <1>3, <1>5, <3>1 DEF AllowlistInv, CacheInv
    <3>4. ASSUME NEW v \in Callers, load'[v].at = "store", Key(v)' = Key(t)'
          PROVE  load'[v].result = Parsed(l.path, Content(file))
      <4>1. v # t /\ load'[v] = load[v] /\ load[v].at = "store" /\ load[v].mtime = m
        BY <1>7, <1>11, <3>1, <3>4 DEF Key
      <4>2. load[v].path = l.path
        BY <1>13, <4>1
      <4>3. QED
        BY <1>5, <4>1, <4>2 DEF AllowlistInv, CallInv, ResultInv
    <3>5. QED
      BY <3>2, <3>3, <3>4
  <2>2. CASE u # t
    BY <1>1, <1>7, <1>11, <2>2 DEF AllowlistInv, LookupInv, Key
  <2>3. QED
    BY <2>1, <2>2
<1>17. QED
  BY <1>11, <1>12, <1>14, <1>15, <1>16 DEF AllowlistInv

LEMMA ParseKeeps ==
  ASSUME AllowlistInv, NEW t \in Callers, Parse(t)
  PROVE  AllowlistInv'
<1> DEFINE l == load[t]
           r == Parsed(l.path, Content(config[l.path]))
           new == [l EXCEPT !.at = "store", !.result = r]
<1>1. /\ TypeOK /\ l \in Loads /\ config \in Files /\ l.at = "parse"
      /\ UNCHANGED <<config, time, cache, seen, raced>>
  BY DEF Parse, AllowlistInv, TypeOK, Loads, Files
<1>2. /\ SeenInv(l, seen[t], config) /\ WalkInv(l, seen[t])
      /\ MtimeInv(l, config, time, raced) /\ ResultInv(l, seen[t], config, raced)
  BY DEF AllowlistInv, CallInv
<1>3. l.path # Nil /\ l.path \in Levels /\ l.path \in Walked(l.start)
  BY <1>1, <1>2 DEF WalkInv, AtFile, Loads
<1>4. Content(config[l.path]) \in Contents \cup {Nil}
  BY <1>1, <1>3 DEF Files, Content
<1>5. r \in Results \cup {Nil}
  BY <1>3, <1>4, ParsedType
<1>6. new = [at |-> "store", start |-> l.start, cur |-> l.cur, path |-> l.path,
             mtime |-> l.mtime, result |-> r]
  <2>1. l \in Loads /\ "store" \in Stages
    BY <1>1 DEF Stages
  <2> HIDE DEF r
  <2>2. \A v \in Results \cup {Nil} : [l EXCEPT !.at = "store", !.result = v]
            = [at |-> "store", start |-> l.start, cur |-> l.cur, path |-> l.path,
               mtime |-> l.mtime, result |-> v]
    BY <2>1, NewLocals, Zenon
  <2>3. QED
    BY <1>5, <2>2, Zenon
<1>7. new \in Loads
  BY <1>1, <1>5, <1>6 DEF Loads, Stages
<1>8. StepOf(t, new)
  BY <1>1, <1>7 DEF Parse, Put, StepOf
<1>9. Good(seen[t], l.path, r)
  BY <1>1, <1>2, <1>3, <1>4 DEF Good, SeenInv
<1>10. CallInv(new, seen[t], config, time, raced)
  <2>1. SeenInv(new, seen[t], config) /\ WalkInv(new, seen[t]) /\ MtimeInv(new, config, time, raced)
    BY <1>1, <1>2, <1>6 DEF SeenInv, WalkInv, AtFile, MtimeInv
  <2>2. ResultInv(new, seen[t], config, raced)
    BY <1>3, <1>6, <1>9 DEF ResultInv
  <2>3. QED
    BY <2>1, <2>2 DEF CallInv
<1>11. /\ load' \in [Callers -> Loads] /\ ConfigInv(config', time')
       /\ \A u \in Callers : CallInv(load'[u], seen'[u], config', time', raced')
       /\ load'[t] = new /\ \A u \in Callers \ {t} : load'[u] = load[u]
  <2>1. raced' = raced /\ raced \in BOOLEAN
    BY <1>1 DEF TypeOK
  <2>2. QED
    BY <1>1, <1>8, <1>10, <2>1, LocalsKept
<1>12. TypeOK'
  BY <1>1, <1>11 DEF TypeOK, Loads
<1>13. PairInv' /\ CacheInv'
  BY <1>1, <1>6, <1>11 DEF AllowlistInv, PairInv, CacheInv
<1>14. ASSUME NEW u \in Callers PROVE LookupInv(u)'
  <2>1. CASE u = t
    BY <1>6, <1>11, <2>1 DEF LookupInv
  <2>2. CASE u # t
    <3> SUFFICES ASSUME load[u].at = "lookup", load[u].mtime # -1
                 PROVE  /\ Key(u) \in DOMAIN cache
                             => Good(seen[u], load[u].path, cache[Key(u)])
                        /\ \A v \in Callers : load'[v].at = "store" /\ Key(v)' = Key(u)
                              => Good(seen[u], load[u].path, load'[v].result)
      BY <1>1, <1>11, <2>2 DEF LookupInv, Key
    <3>1. LookupInv(u)
      BY DEF AllowlistInv
    <3>2. ASSUME NEW v \in Callers, load'[v].at = "store", Key(v)' = Key(u)
          PROVE  Good(seen[u], load[u].path, load'[v].result)
      <4>1. CASE v # t
        BY <1>11, <3>1, <3>2, <4>1 DEF LookupInv, Key
      <4>2. CASE v = t
        <5>1. l.mtime = load[u].mtime /\ l.start = load[u].start
          BY <1>6, <1>11, <3>2, <4>2 DEF Key
        <5>2. l.path = load[u].path
          BY <5>1 DEF AllowlistInv, PairInv
        <5>3. SeenInv(load[u], seen[u], config)
          BY DEF AllowlistInv, CallInv
        <5>4. Good(seen[u], l.path, r)
          BY <1>3, <1>4, <5>1, <5>3 DEF Good, SeenInv
        <5>5. QED
          BY <1>6, <1>11, <4>2, <5>2, <5>4
      <4>3. QED
        BY <4>1, <4>2
    <3>3. QED
      BY <3>1, <3>2 DEF LookupInv
  <2>3. QED
    BY <2>1, <2>2
<1>15. QED
  BY <1>11, <1>12, <1>13, <1>14 DEF AllowlistInv

LEMMA StoreKeeps ==
  ASSUME AllowlistInv, NEW t \in Callers, Store(t)
  PROVE  AllowlistInv'
<1> DEFINE l == load[t]
           new == [l EXCEPT !.at = "done"]
<1>1. /\ TypeOK /\ l \in Loads /\ config \in Files /\ l.at = "store"
      /\ UNCHANGED <<config, time, seen, raced>>
  BY DEF Store, AllowlistInv, TypeOK, Loads, Files
<1>2. /\ SeenInv(l, seen[t], config) /\ WalkInv(l, seen[t])
      /\ MtimeInv(l, config, time, raced) /\ ResultInv(l, seen[t], config, raced)
  BY DEF AllowlistInv, CallInv
<1>3. new = [at |-> "done", start |-> l.start, cur |-> l.cur, path |-> l.path,
             mtime |-> l.mtime, result |-> l.result]
  <2>1. l \in Loads /\ "done" \in Stages
    BY <1>1 DEF Stages
  <2>2. QED
    BY <2>1, NewLocals, Zenon
<1>4. new \in Loads
  BY <1>1, <1>3 DEF Loads, Stages
<1>5. StepOf(t, new)
  BY <1>1, <1>4 DEF Store, Put, StepOf
<1>6. CallInv(new, seen[t], config, time, raced)
  BY <1>1, <1>2, <1>3 DEF CallInv, SeenInv, WalkInv, AtFile, MtimeInv, ResultInv
<1>7. /\ load' \in [Callers -> Loads] /\ ConfigInv(config', time')
      /\ \A u \in Callers : CallInv(load'[u], seen'[u], config', time', raced')
      /\ load'[t] = new /\ \A u \in Callers \ {t} : load'[u] = load[u]
  <2>1. raced' = raced /\ raced \in BOOLEAN
    BY <1>1 DEF TypeOK
  <2>2. QED
    BY <1>1, <1>5, <1>6, <2>1, LocalsKept
<1>8. /\ DOMAIN cache' = DOMAIN cache \cup {Key(t)} /\ cache'[Key(t)] = l.result
      /\ \A k \in DOMAIN cache \ {Key(t)} : cache'[k] = cache[k]
  BY DEF Store
<1>9. Key(t) = <<l.start, l.mtime>> /\ Key(t) \in Keys
  BY <1>1, <1>2 DEF Key, Keys, Loads, SeenInv
<1>10. TypeOK'
  <2>1. /\ DOMAIN cache \subseteq Keys
        /\ \A k \in DOMAIN cache : cache[k] \in Results \cup {Nil}
    BY <1>1 DEF TypeOK
  <2>2. /\ DOMAIN cache' \subseteq Keys
        /\ \A k \in DOMAIN cache' : cache'[k] \in Results \cup {Nil}
    BY <1>1, <1>8, <1>9, <2>1 DEF Loads
  <2>3. QED
    BY <1>1, <1>7, <2>2 DEF TypeOK, Loads, Keys
<1>11. PairInv'
  BY <1>3, <1>7 DEF AllowlistInv, PairInv
<1>12. CacheInv'
  <2> SUFFICES ASSUME NEW k \in DOMAIN cache'
               PROVE  /\ k[2] # -1 => /\ k[2] <= time
                                      /\ \A d \in Levels : Carries(config[d], k[2])
                                            => cache'[k] = Parsed(d, Content(config[d]))
                      /\ (k[2] = -1 /\ ~raced) => cache'[k] = Nil
    BY <1>1 DEF CacheInv
  <2>1. CASE k # Key(t)
    BY <1>8, <2>1 DEF AllowlistInv, CacheInv
  <2>2. CASE k = Key(t)
    <3>1. k[2] = l.mtime /\ cache'[k] = l.result
      BY <1>8, <1>9, <2>2
    <3>2. CASE l.mtime # -1
      BY <1>1, <1>2, <3>1, <3>2 DEF MtimeInv, ResultInv
    <3>3. CASE l.mtime = -1
      BY <1>1, <1>2, <3>1, <3>3 DEF MtimeInv, ResultInv
    <3>4. QED
      BY <3>2, <3>3
  <2>3. QED
    BY <2>1, <2>2
<1>13. ASSUME NEW u \in Callers PROVE LookupInv(u)'
  <2>1. CASE u = t
    BY <1>3, <1>7, <2>1 DEF LookupInv
  <2>2. CASE u # t
    <3> SUFFICES ASSUME load[u].at = "lookup", load[u].mtime # -1
                 PROVE  /\ Key(u) \in DOMAIN cache'
                             => Good(seen[u], load[u].path, cache'[Key(u)])
                        /\ \A v \in Callers : load'[v].at = "store" /\ Key(v)' = Key(u)
                              => Good(seen[u], load[u].path, load'[v].result)
      BY <1>1, <1>7, <2>2 DEF LookupInv, Key
    <3>1. LookupInv(u)
      BY DEF AllowlistInv
    <3>2. Key(u) \in DOMAIN cache' => Good(seen[u], load[u].path, cache'[Key(u)])
      BY <1>1, <1>8, <3>1 DEF LookupInv
    <3>3. \A v \in Callers : load'[v].at = "store" /\ Key(v)' = Key(u)
                              => Good(seen[u], load[u].path, load'[v].result)
      BY <1>3, <1>7, <3>1 DEF LookupInv, Key
    <3>4. QED
      BY <3>2, <3>3
  <2>3. QED
    BY <2>1, <2>2
<1>14. QED
  BY <1>7, <1>10, <1>11, <1>12, <1>13 DEF AllowlistInv
-----------------------------------------------------------------------------
(* A change of one file, which has then gone or is the newest of all.      *)
LEMMA ChangeKeeps ==
  ASSUME AllowlistInv, NEW new \in Files, NEW d0 \in Levels, Change(new),
         \A d \in Levels \ {d0} : new[d] = config[d],
         time' \in 0 .. MaxTime, time <= time',
         new[d0] # Nil => new[d0].mtime = time' /\ time' = time + 1
  PROVE  AllowlistInv'
<1>1. /\ TypeOK /\ load \in [Callers -> Loads] /\ config \in Files
      /\ seen \in [Callers -> Met] /\ time \in 0 .. MaxTime
      /\ config' = new /\ UNCHANGED <<cache, load, raced>>
  BY DEF Change, AllowlistInv, TypeOK, Loads, Files, Met
<1>2. ASSUME NEW d \in Levels, NEW m \in Int, m <= time, Carries(new[d], m)
      PROVE  new[d] = config[d]
  BY <1>1, <1>2, ChainAssumption DEF Carries
<1>3. ASSUME NEW t \in Callers
      PROVE  /\ seen'[t] \in Met
             /\ load[t].at # "idle" => seen[t] \subseteq seen'[t]
             /\ load[t].at # "idle" => \A d \in Walked(load[t].start) : <<d, Content(new[d])>> \in seen'[t]
  <2>1. seen'[t] = IF load[t].at = "idle" THEN {}
                   ELSE seen[t] \cup {<<d, Content(new[d])>> : d \in Walked(load[t].start)}
    BY DEF Change
  <2>2. {<<d, Content(new[d])>> : d \in Walked(load[t].start)} \in Met
    BY <1>1, WalkedLevels DEF Loads, Files, Content, Met
  <2>3. seen[t] \in Met
    BY <1>1
  <2>4. QED
    BY <2>1, <2>2, <2>3 DEF Met
<1>4. seen' \in [Callers -> Met]
  <2>1. DOMAIN seen' = Callers /\ seen' = [t \in Callers |-> seen'[t]]
    BY DEF Change
  <2>2. QED
    BY <1>3, <2>1
<1>5. TypeOK'
  BY <1>1, <1>4 DEF TypeOK, Files, Met
<1>6. ConfigInv(config', time')
  <2> SUFFICES ASSUME NEW d \in Levels, new[d] # Nil
               PROVE  /\ new[d].mtime <= time'
                      /\ \A e \in Levels : Carries(new[e], new[d].mtime) => e = d
    BY <1>1 DEF ConfigInv
  <2>1. ConfigInv(config, time)
    BY DEF AllowlistInv
  <2>2. \A e \in Levels \ {d0} : new[e] # Nil => new[e].mtime \in Int /\ new[e].mtime <= time
    BY <1>1, <2>1, ChainAssumption DEF ConfigInv, Files
  <2>3. CASE d = d0
    BY <1>1, <2>2, <2>3, ChainAssumption DEF Carries
  <2>4. CASE d # d0
    <3>1. new[d] = config[d] /\ new[d].mtime \in Int /\ new[d].mtime <= time
      BY <2>2, <2>4
    <3>2. new[d].mtime <= time'
      BY <1>1, <3>1, ChainAssumption
    <3>3. ASSUME NEW e \in Levels, Carries(new[e], new[d].mtime) PROVE e = d
      <4>1. new[e] = config[e]
        BY <1>2, <3>1, <3>3
      <4>2. QED
        BY <2>1, <3>1, <3>3, <4>1 DEF ConfigInv
    <3>4. QED
      BY <3>2, <3>3
  <2>5. QED
    BY <2>3, <2>4
<1>7. PairInv'
  BY <1>1 DEF AllowlistInv, PairInv
<1>8. CacheInv'
  <2> SUFFICES ASSUME NEW k \in DOMAIN cache
               PROVE  /\ k[2] # -1 => /\ k[2] <= time'
                                      /\ \A d \in Levels : Carries(new[d], k[2])
                                            => cache[k] = Parsed(d, Content(new[d]))
                      /\ (k[2] = -1 /\ ~raced) => cache[k] = Nil
    BY <1>1 DEF CacheInv
  <2>1. k[2] \in Int
    BY <1>1 DEF TypeOK, Keys
  <2>2. k[2] # -1 => k[2] <= time
    BY DEF AllowlistInv, CacheInv
  <2>3. k[2] # -1 => k[2] <= time'
    BY <1>1, <2>1, <2>2, ChainAssumption
  <2>4. ASSUME k[2] # -1, NEW d \in Levels, Carries(new[d], k[2])
        PROVE  cache[k] = Parsed(d, Content(new[d]))
    <3>1. new[d] = config[d]
      BY <1>2, <2>1, <2>2, <2>4
    <3>2. QED
      BY <2>4, <3>1 DEF AllowlistInv, CacheInv
  <2>5. QED
    BY <2>3, <2>4 DEF AllowlistInv, CacheInv
<1>9. ASSUME NEW t \in Callers PROVE CallInv(load'[t], seen'[t], config', time', raced')
  <2> DEFINE l == load[t]
  <2>1. /\ SeenInv(l, seen[t], config) /\ WalkInv(l, seen[t])
        /\ MtimeInv(l, config, time, raced) /\ ResultInv(l, seen[t], config, raced)
    BY DEF AllowlistInv, CallInv
  <2>2. l \in Loads /\ l.mtime \in Int
    BY <1>1 DEF Loads
  <2>3. SeenInv(l, seen'[t], new)
    BY <1>3, <2>1 DEF SeenInv
  <2>4. WalkInv(l, seen'[t])
    BY <1>3, <2>1 DEF WalkInv, AtFile, Clear
  <2>5. l.mtime # -1 => l.mtime \in 1 .. time /\ l.path \in Levels
    BY <2>1, <2>2 DEF MtimeInv, Loads
  <2>6. MtimeInv(l, new, time', raced)
    <3>1. l.mtime # -1 => l.mtime \in 1 .. time'
      BY <1>1, <2>5, ChainAssumption
    <3>2. ASSUME l.mtime # -1, NEW d \in Levels, Carries(new[d], l.mtime) PROVE d = l.path
      <4>1. new[d] = config[d]
        BY <1>1, <1>2, <2>5, <3>2, ChainAssumption
      <4>2. QED
        BY <2>1, <3>2, <4>1 DEF MtimeInv
    <3>3. QED
      BY <2>1, <3>1, <3>2 DEF MtimeInv
  <2>7. ResultInv(l, seen'[t], new, raced)
    <3>1. ASSUME l.at = "store", l.mtime # -1, Carries(new[l.path], l.mtime)
          PROVE  l.result = Parsed(l.path, Content(new[l.path]))
      <4>1. new[l.path] = config[l.path]
        BY <1>1, <1>2, <2>5, <3>1, ChainAssumption
      <4>2. QED
        BY <2>1, <3>1, <4>1 DEF ResultInv
    <3>2. \A d \in Levels : l.at # "idle" /\ Good(seen[t], d, l.result) => Good(seen'[t], d, l.result)
      BY <1>3 DEF Good
    <3>3. l.path # Nil => l.path \in Levels
      BY <2>2 DEF Loads
    <3>4. QED
      BY <2>1, <3>1, <3>2, <3>3 DEF ResultInv
  <2>8. QED
    BY <1>1, <2>3, <2>4, <2>6, <2>7 DEF CallInv
<1>10. ASSUME NEW t \in Callers PROVE LookupInv(t)'
  <2>1. \A d, r : load[t].at # "idle" /\ Good(seen[t], d, r) => Good(seen'[t], d, r)
    BY <1>3 DEF Good
  <2>2. QED
    BY <1>1, <2>1 DEF AllowlistInv, LookupInv, Key
<1>11. QED
  BY <1>5, <1>6, <1>7, <1>8, <1>9, <1>10 DEF AllowlistInv

LEMMA WriteKeeps ==
  ASSUME AllowlistInv, NEW d \in Levels, NEW content \in Contents, Write(d, content)
  PROVE  AllowlistInv'
<1> DEFINE file == [content |-> content, mtime |-> time + 1]
           new == [config EXCEPT ![d] = file]
<1>1. config \in Files /\ time \in 0 .. MaxTime /\ time + 1 \in 1 .. MaxTime /\ time' = time + 1
  BY ChainAssumption DEF Write, AllowlistInv, TypeOK, Files
<1>2. file \in [content : Contents, mtime : 1 .. MaxTime]
  BY <1>1
<1>3. new \in Files /\ new[d] = file /\ \A e \in Levels \ {d} : new[e] = config[e]
  BY <1>1, <1>2 DEF Files
<1>4. Change(new)
  BY DEF Write
<1>5. time' \in 0 .. MaxTime /\ time <= time' /\ new[d].mtime = time'
  BY <1>1, <1>3, ChainAssumption
<1>6. QED
  BY <1>1, <1>3, <1>4, <1>5, ChangeKeeps

LEMMA DeleteKeeps ==
  ASSUME AllowlistInv, NEW d \in Levels, Delete(d)
  PROVE  AllowlistInv'
<1> DEFINE new == [config EXCEPT ![d] = Nil]
<1>1. config \in Files /\ time \in 0 .. MaxTime /\ time' = time /\ Change(new)
  BY DEF Delete, AllowlistInv, TypeOK, Files
<1>2. new \in Files /\ new[d] = Nil /\ \A e \in Levels \ {d} : new[e] = config[e]
  BY <1>1 DEF Files
<1>3. time' \in 0 .. MaxTime /\ time <= time'
  BY <1>1, ChainAssumption
<1> HIDE DEF new
<1>4. QED
  BY <1>1, <1>2, <1>3, ChangeKeeps
-----------------------------------------------------------------------------
(* Every state of the allowlist satisfies the invariant.                   *)
THEOREM AllowlistInvariant == Spec => []AllowlistInv
<1>1. AllowlistInv /\ [Next]_vars => AllowlistInv'
  <2> SUFFICES ASSUME AllowlistInv, [Next]_vars PROVE AllowlistInv'
    OBVIOUS
  <2>1. ASSUME NEW t \in Callers, NEW start \in Starts, Load(t, start) PROVE AllowlistInv'
    BY <2>1, LoadKeeps
  <2>2. ASSUME NEW t \in Callers, Proceed(t) PROVE AllowlistInv'
    BY <2>2, WalkKeeps, StatKeeps, LookupKeeps, ParseKeeps, StoreKeeps, ReturnKeeps DEF Proceed
  <2>3. ASSUME NEW d \in Levels, NEW content \in Contents, Write(d, content) PROVE AllowlistInv'
    BY <2>3, WriteKeeps
  <2>4. ASSUME NEW d \in Levels, Delete(d) PROVE AllowlistInv'
    BY <2>4, DeleteKeeps
  <2>5. CASE UNCHANGED vars
    BY <2>5 DEF vars, AllowlistInv, TypeOK, ConfigInv, PairInv, CacheInv, LookupInv, Key
  <2>6. QED
    BY <2>1, <2>2, <2>3, <2>4, <2>5 DEF Next
<1>2. QED
  BY <1>1, InitInv, PTL DEF Spec

(* The variables stay in their sets; in particular every key of the cache  *)
(* is a start directory with an mtime, and no call leaves the chain.       *)
THEOREM AllowlistTypeCorrect == Spec => []TypeOK
<1>1. AllowlistInv => TypeOK
  BY DEF AllowlistInv
<1>2. QED
  BY <1>1, AllowlistInvariant, PTL

(* A call that is done answers with what some level it may have stopped at *)
(* said while it ran.                                                      *)
LEMMA DoneIsJust ==
  ASSUME AllowlistInv, NEW t \in Callers, load[t].at = "done", ~raced
  PROVE  \/ \E s \in Answers(t) : load[t].result = Parsed(s[1], s[2])
         \/ load[t].result = Nil /\ Vanished(t)
<1> DEFINE l == load[t]
           met == seen[t]
<1>1. l \in Loads
  BY DEF AllowlistInv, TypeOK, Loads
<1>2. SeenInv(l, met, config) /\ WalkInv(l, met) /\ ResultInv(l, met, config, raced)
  BY DEF AllowlistInv, CallInv
<1>3. l.start \in Levels
  BY <1>1 DEF Loads
<1>4. CASE l.path = Nil
  <2>1. l.result = Nil /\ \A d \in Walked(l.start) : <<d, Nil>> \in met
    BY <1>2, <1>4 DEF WalkInv, ResultInv, AtFile, Clear
  <2>2. l.start \in Walked(l.start)
    BY <1>3, WalkedLevels
  <2>3. <<l.start, Nil>> \in Answers(t)
    BY <2>1, <2>2 DEF Answers
  <2>4. l.result = Parsed(l.start, Nil)
    BY <2>1 DEF Parsed
  <2>5. QED
    BY <2>3, <2>4
<1>5. CASE l.path # Nil
  <2>1. /\ l.path \in Walked(l.start) /\ \A d \in Walked(l.start) : d > l.path => <<d, Nil>> \in met
        /\ \E c \in Contents : <<l.path, c>> \in met
    BY <1>2, <1>5 DEF WalkInv, AtFile, Clear
  <2>2. PICK c \in Contents \cup {Nil} : <<l.path, c>> \in met /\ l.result = Parsed(l.path, c)
    BY <1>2, <1>5 DEF ResultInv, Good
  <2>3. CASE c # Nil
    <3>1. <<l.path, c>> \in Answers(t)
      BY <2>1, <2>2, <2>3 DEF Answers
    <3>2. QED
      BY <2>2, <3>1
  <2>4. CASE c = Nil
    <3>1. l.result = Nil
      BY <2>2, <2>4 DEF Parsed
    <3>2. Vanished(t)
      BY <2>1, <2>2, <2>4 DEF Vanished
    <3>3. QED
      BY <3>1, <3>2
  <2>5. QED
    BY <2>3, <2>4
<1>6. QED
  BY <1>4, <1>5

(* Whatever the cache holds and however the files change under the calls,  *)
(* load() returns what the first file above the start directory said       *)
(* during the call.                                                        *)
THEOREM CallsAnswerJustly == Spec => []Justified
<1>1. AllowlistInv => Justified
  BY DoneIsJust DEF Justified
<1>2. QED
  BY <1>1, AllowlistInvariant, PTL

(* What executor.run makes of a parsed file is what the file says.         *)
LEMMA RootsSayTheSame ==
  ASSUME NEW d \in Levels, NEW c \in Contents \cup {Nil}, NEW cwd \in Levels
  PROVE  IsUnderAllowedRoot(cwd, EffectiveRoots(Parsed(d, c))) <=> Allows(d, c, cwd)
<1>1. CASE c \in {Nil, Malformed}
  BY <1>1 DEF Parsed, EffectiveRoots, IsUnderAllowedRoot, Allows
<1>2. CASE c \notin {Nil, Malformed}
  <2> DEFINE own == {Resolve(d, e) : e \in c.roots}
             r == [dir |-> d, mode |-> c.mode, roots |-> own]
  <2>1. Parsed(d, c) = r
    BY <1>2 DEF Parsed
  <2>2. r \in Results
    BY <1>2, <2>1, ParsedType
  <2>3. r # Nil /\ r.mode = c.mode /\ r.roots = own
    BY <2>2, NilAssumption
  <2>4. EffectiveRoots(r) = IF c.mode = "replace" THEN own ELSE GlobalRoots \cup own
    BY <2>3 DEF EffectiveRoots
  <2>5. (\E root \in own : IsUnder(cwd, root)) <=> \E e \in c.roots : IsUnder(cwd, Resolve(d, e))
    OBVIOUS
  <2>6. QED
    BY <1>2, <2>1, <2>4, <2>5 DEF IsUnderAllowedRoot, Allows
<1>3. QED
  BY <1>1, <1>2

(* A cwd is accepted exactly when the file that the call went by allows    *)
(* it, for every list of global roots and all contents of the files.       *)
THEOREM VerdictsFollowTheFile == Spec => []VerdictFollowsFile
<1>1. ASSUME AllowlistInv PROVE VerdictFollowsFile
  <2> SUFFICES ASSUME NEW t \in Callers, load[t].at = "done", ~raced, ~Vanished(t)
               PROVE  \E s \in Answers(t) :
                        IsUnderAllowedRoot(load[t].start, EffectiveRoots(load[t].result))
                          <=> Allows(s[1], s[2], load[t].start)
    BY DEF VerdictFollowsFile
  <2>1. PICK s \in Answers(t) : load[t].result = Parsed(s[1], s[2])
    BY <1>1, DoneIsJust
  <2>2. s[1] \in Levels /\ s[2] \in Contents \cup {Nil} /\ load[t].start \in Levels
    <3>1. seen[t] \in Met /\ load[t] \in Loads
      BY <1>1 DEF AllowlistInv, TypeOK, Met, Loads
    <3>2. QED
      BY <3>1 DEF Answers, Met, Loads
  <2>3. IsUnderAllowedRoot(load[t].start, EffectiveRoots(Parsed(s[1], s[2])))
          <=> Allows(s[1], s[2], load[t].start)
    BY <2>2, RootsSayTheSame
  <2>4. QED
    BY <2>1, <2>3
<1>2. QED
  BY <1>1, AllowlistInvariant, PTL
=============================================================================
