-------------------------- MODULE StateUpdateProofs --------------------------
(***************************************************************************)
(* What a session keeps of a command line, against what the shell did, for *)
(* any line, any names and values, any directories and any cap.            *)
(***************************************************************************)
EXTENDS StateUpdate, SessionStateProofs, FiniteSetTheorems

Of(op) == {c \in Command : Found(op, c)}

LEMMA CollectTyped ==
  ASSUME NEW op, NEW found \in Seq(Of(op)), NEW c \in Command
  PROVE  Collect(op, found, c) \in Seq(Of(op))
<1>1. CASE Found(op, c)
  <2>1. c \in Of(op)
    BY <1>1 DEF Of
  <2>2. QED
    BY <1>1, <2>1 DEF Collect
<1>2. CASE ~Found(op, c)
  BY <1>2 DEF Collect
<1>3. QED
  BY <1>1, <1>2

(* A parser goes through the line from the first command to the last.      *)
LEMMA OnlyInOrder ==
  ASSUME NEW op, NEW l \in Seq(Command)
  PROVE  \E h \in [0 .. Len(l) -> Seq(Of(op))] :
           /\ h[0] = <<>> /\ h[Len(l)] = Only(l, op)
           /\ \A k \in 1 .. Len(l) : h[k] = Collect(op, h[k - 1], l[k])
<1> DEFINE n == Len(l)
           Lists == Seq(Of(op))
           F == [p \in (1 .. n) \X Lists |-> Collect(op, p[2], l[p[1]])]
           Solves(g) == g = [s \in SUBSET (1 .. n) |->
                               IF s = {} THEN <<>>
                               ELSE LET x == Max(s) IN Collect(op, g[s \ {x}], l[x])]
           iter == CHOOSE g : Solves(g)
<1>1. n \in Nat /\ DOMAIN l = 1 .. n /\ (\A k \in 1 .. n : l[k] \in Command) /\ <<>> \in Lists
  OBVIOUS
<1> HIDE DEF n, Lists
<1>2. F \in [(1 .. n) \X Lists -> Lists]
  BY <1>1, CollectTyped DEF Lists
<1>3. PICK g \in [SUBSET (1 .. n) -> Lists] : FoldSolution(g, n, <<>>, F)
  <2> HIDE DEF F
  <2> QED BY <1>1, <1>2, FoldRecursion
<1>4. Solves(g)
  <2>1. ASSUME NEW s \in SUBSET (1 .. n), s # {}
        PROVE  g[s] = Collect(op, g[s \ {Max(s)}], l[Max(s)])
    <3>1. Max(s) \in s
      BY <1>1, <2>1, MaxOfIndexes
    <3>2. Max(s) \in 1 .. n /\ g[s \ {Max(s)}] \in Lists
      BY <3>1
    <3>3. QED
      BY <1>3, <2>1, <3>2 DEF FoldSolution
  <2>2. g = [s \in SUBSET (1 .. n) |->
               IF s = {} THEN <<>> ELSE Collect(op, g[s \ {Max(s)}], l[Max(s)])]
    BY <1>3, <2>1 DEF FoldSolution
  <2>3. QED
    BY <2>2
<1>5. Solves(iter)
  <2> HIDE DEF Solves
  <2> QED BY <1>4
<1>6. Only(l, op) = iter[1 .. n]
  BY <1>1, Zenon DEF Only, FoldLeft, MapThenFoldSet
<1> DEFINE h == [k \in 0 .. n |-> iter[1 .. k]]
<1>7. h[0] = <<>>
  <2>1. {} \in SUBSET (1 .. n) /\ 0 \in 0 .. n /\ 1 .. 0 = {}
    BY <1>1
  <2>2. iter[{}] = <<>>
    <3> HIDE DEF iter
    <3> QED BY <1>5, <2>1
  <2>3. QED
    BY <2>1, <2>2
<1>8. ASSUME NEW k \in 1 .. n
      PROVE  h[k] = Collect(op, h[k - 1], l[k])
  <2>1. /\ (1 .. k) \in SUBSET (1 .. n) /\ 1 .. k # {} /\ Max(1 .. k) = k
        /\ (1 .. k) \ {k} = 1 .. k - 1
    BY <1>1, MaxOfPrefix
  <2>2. k \in 0 .. n /\ k - 1 \in 0 .. n
    BY <1>1
  <2> HIDE DEF iter
  <2>3. iter[1 .. k] = Collect(op, iter[(1 .. k) \ {k}], l[k])
    BY <1>5, <2>1
  <2>4. QED
    BY <2>1, <2>2, <2>3
<1>9. h \in [0 .. n -> Lists]
  <2> DEFINE T == {k \in 0 .. n : h[k] \in Lists}
  <2>1. 0 \in T
    BY <1>1, <1>7
  <2>2. ASSUME NEW k \in 1 .. n, k - 1 \in T PROVE k \in T
    <3>1. h[k] = Collect(op, h[k - 1], l[k]) /\ h[k - 1] \in Lists /\ l[k] \in Command
      BY <1>1, <1>8, <2>2
    <3>2. \A found \in Lists, c \in Command : Collect(op, found, c) \in Lists
      BY CollectTyped DEF Lists
    <3> HIDE DEF h
    <3>3. h[k] \in Lists
      BY <3>1, <3>2
    <3>4. QED
      BY <3>3 DEF h
  <2>3. 0 .. n \subseteq T
    <3> HIDE DEF T
    <3> QED BY <1>1, <2>1, <2>2, UpTo
  <2>4. QED
    BY <2>3
<1>10. h[n] = Only(l, op)
  BY <1>1, <1>6
<1>11. QED
  <2> HIDE DEF h
  <2> QED BY <1>7, <1>8, <1>9, <1>10 DEF n, Lists

(* One more command at the end of the line.                                *)
LEMMA OnlyAppend ==
  ASSUME NEW op, NEW l \in Seq(Command), NEW c \in Command
  PROVE  /\ Only(l, op) \in Seq(Of(op))
         /\ l = <<>> => Only(l, op) = <<>>
         /\ Only(Append(l, c), op) = Collect(op, Only(l, op), c)
<1> DEFINE more == Append(l, c)
           n == Len(l)
<1>1. /\ more \in Seq(Command) /\ n \in Nat /\ Len(more) = n + 1 /\ more[n + 1] = c
      /\ \A k \in 1 .. n : more[k] = l[k]
  OBVIOUS
<1>2. PICK h \in [0 .. n -> Seq(Of(op))] :
        /\ h[0] = <<>> /\ h[n] = Only(l, op)
        /\ \A k \in 1 .. n : h[k] = Collect(op, h[k - 1], l[k])
  BY OnlyInOrder
<1>3. l = <<>> => n = 0
  OBVIOUS
<1> HIDE DEF more, n
<1>4. PICK g \in [0 .. n + 1 -> Seq(Of(op))] :
        /\ g[0] = <<>> /\ g[n + 1] = Only(more, op)
        /\ \A k \in 1 .. n + 1 : g[k] = Collect(op, g[k - 1], more[k])
  <2>1. PICK g \in [0 .. Len(more) -> Seq(Of(op))] :
          /\ g[0] = <<>> /\ g[Len(more)] = Only(more, op)
          /\ \A k \in 1 .. Len(more) : g[k] = Collect(op, g[k - 1], more[k])
    BY <1>1, OnlyInOrder
  <2>2. QED
    BY <1>1, <2>1
<1> DEFINE T == {k \in 0 .. n : g[k] = h[k]}
<1>5. 0 \in T
  BY <1>1, <1>2, <1>4
<1>6. ASSUME NEW k \in 1 .. n, k - 1 \in T PROVE k \in T
  <2>1. k \in 0 .. n /\ k \in 1 .. n + 1 /\ g[k - 1] = h[k - 1]
    BY <1>1, <1>6
  <2>2. g[k] = Collect(op, g[k - 1], l[k]) /\ h[k] = Collect(op, h[k - 1], l[k])
    BY <1>1, <1>2, <1>4, <2>1
  <2>3. QED
    BY <2>1, <2>2
<1>7. 0 .. n \subseteq T
  <2> HIDE DEF T
  <2> QED BY <1>1, <1>5, <1>6, UpTo
<1>8. g[n] = h[n] /\ h[n] \in Seq(Of(op))
  BY <1>1, <1>7
<1>9. g[n + 1] = Collect(op, g[n], c)
  <2>1. n + 1 \in 1 .. n + 1 /\ (n + 1) - 1 = n
    BY <1>1
  <2>2. QED
    BY <1>1, <1>4, <2>1
<1>10. QED
  BY <1>2, <1>3, <1>4, <1>8, <1>9 DEF more, n

(* A sequence whose members are each translated, and one more member.      *)
LEMMA Translated ==
  ASSUME NEW S, NEW T, NEW F \in [S -> T], NEW s \in Seq(S), NEW c \in S
  PROVE  LET t == [i \in DOMAIN s |-> F[s[i]]]
             more == Append(s, c)
         IN  /\ t \in Seq(T) /\ DOMAIN t = DOMAIN s
             /\ [i \in DOMAIN more |-> F[more[i]]] = Append(t, F[c])
<1> DEFINE t == [i \in DOMAIN s |-> F[s[i]]]
           more == Append(s, c)
           n == Len(s)
           u == [i \in DOMAIN more |-> F[more[i]]]
           v == Append(t, F[c])
<1>1. /\ n \in Nat /\ DOMAIN s = 1 .. n /\ (\A i \in 1 .. n : s[i] \in S)
      /\ DOMAIN more = 1 .. n + 1 /\ (\A i \in 1 .. n : more[i] = s[i]) /\ more[n + 1] = c
  OBVIOUS
<1>2. t = [i \in 1 .. n |-> F[s[i]]] /\ u = [i \in 1 .. n + 1 |-> F[more[i]]]
  BY <1>1
<1>3. \A i \in 1 .. n + 1 : more[i] \in S
  BY <1>1
<1> HIDE DEF n, more, u
<1>4. t \in [1 .. n -> T] /\ u \in [1 .. n + 1 -> T]
  BY <1>1, <1>2, <1>3
<1>5. t \in Seq(T) /\ u \in Seq(T) /\ n + 1 \in Nat
  BY <1>1, <1>4, SeqDef
<1>6. Len(t) = n /\ Len(u) = n + 1
  BY <1>1, <1>4, <1>5
<1>7. \A i \in 1 .. n + 1 : u[i] = IF i = n + 1 THEN F[c] ELSE t[i]
  <2>1. \A i \in 1 .. n + 1 : i = n + 1 \/ i \in 1 .. n
    BY <1>1
  <2>2. QED
    BY <1>1, <1>2, <2>1
<1> HIDE DEF t
<1>8. F[c] \in T /\ v \in Seq(T) /\ Len(v) = n + 1
      /\ \A i \in 1 .. n + 1 : v[i] = IF i = n + 1 THEN F[c] ELSE t[i]
  BY <1>1, <1>5, <1>6
<1> HIDE DEF v
<1>9. u = v
  BY <1>5, <1>6, <1>7, <1>8, SeqEqual
<1>10. QED
  BY <1>1, <1>2, <1>5, <1>9 DEF t, u, v, more

LEMMA ExportsParsed ==
  ASSUME NEW l \in Seq(Command), NEW c \in Command
  PROVE  /\ Exports(l) \in Seq(Assignment)
         /\ l = <<>> => Exports(l) = <<>>
         /\ ~Found("export", c) => Exports(Append(l, c)) = Exports(l)
         /\ Found("export", c) =>
              Exports(Append(l, c)) = Append(Exports(l), [name |-> c.name, value |-> c.text])
<1> DEFINE found == Only(l, "export")
           F == [e \in Of("export") |-> [name |-> e.name, value |-> e.text]]
           parsed(s) == [i \in DOMAIN s |-> [name |-> s[i].name, value |-> s[i].text]]
<1>1. F \in [Of("export") -> Assignment]
  BY DEF Of, Found, Command, Assignment
<1>2. found \in Seq(Of("export")) /\ (l = <<>> => found = <<>>)
      /\ Only(Append(l, c), "export") = Collect("export", found, c)
  BY OnlyAppend
<1>3. \A s \in Seq(Of("export")) : parsed(s) = [i \in DOMAIN s |-> F[s[i]]]
  <2>1. \A s \in Seq(Of("export")) : \A i \in DOMAIN s : s[i] \in Of("export")
    OBVIOUS
  <2>2. QED
    BY <2>1
<1>4. Exports(l) = parsed(found) /\ Exports(Append(l, c)) = parsed(Only(Append(l, c), "export"))
  BY DEF Exports
<1> HIDE DEF found, F
<1>5. l = <<>> => Exports(l) = <<>>
  BY <1>2, <1>4
<1>6. ~Found("export", c) => Exports(Append(l, c)) = Exports(l)
  BY <1>2, <1>4 DEF Collect
<1>7. Exports(l) \in Seq(Assignment)
  <2>1. CASE Of("export") = {}
    <3>1. found = <<>>
      BY <1>2, <2>1
    <3>2. QED
      BY <1>4, <3>1
  <2>2. CASE Of("export") # {}
    BY <1>1, <1>2, <1>3, <1>4, <2>2, Translated
  <2>3. QED
    BY <2>1, <2>2
<1>8. ASSUME Found("export", c)
      PROVE  Exports(Append(l, c)) = Append(Exports(l), [name |-> c.name, value |-> c.text])
  <2>1. c \in Of("export") /\ Only(Append(l, c), "export") = Append(found, c)
        /\ Append(found, c) \in Seq(Of("export"))
    BY <1>2, <1>8 DEF Of, Collect
  <2>2. parsed(Append(found, c)) = Append(parsed(found), F[c])
    <3> HIDE DEF parsed
    <3>1. parsed(Append(found, c)) = [i \in DOMAIN Append(found, c) |-> F[Append(found, c)[i]]]
          /\ parsed(found) = [i \in DOMAIN found |-> F[found[i]]]
      BY <1>2, <1>3, <2>1
    <3>2. QED
      BY <1>1, <1>2, <2>1, <3>1, Translated
  <2>3. F[c] = [name |-> c.name, value |-> c.text]
    BY <2>1 DEF F
  <2>4. QED
    BY <1>4, <2>1, <2>2, <2>3
<1>9. QED
  BY <1>5, <1>6, <1>7, <1>8

LEMMA UnsetsParsed ==
  ASSUME NEW l \in Seq(Command), NEW c \in Command
  PROVE  /\ Unsets(l) \in Seq(Names)
         /\ l = <<>> => Unsets(l) = <<>>
         /\ ~Found("unset", c) => Unsets(Append(l, c)) = Unsets(l)
         /\ Found("unset", c) => Unsets(Append(l, c)) = Append(Unsets(l), c.name)
<1> DEFINE found == Only(l, "unset")
           F == [e \in Of("unset") |-> e.name]
           parsed(s) == [i \in DOMAIN s |-> s[i].name]
<1>1. F \in [Of("unset") -> Names]
  BY DEF Of, Found, Command
<1>2. found \in Seq(Of("unset")) /\ (l = <<>> => found = <<>>)
      /\ Only(Append(l, c), "unset") = Collect("unset", found, c)
  BY OnlyAppend
<1>3. \A s \in Seq(Of("unset")) : parsed(s) = [i \in DOMAIN s |-> F[s[i]]]
  <2>1. \A s \in Seq(Of("unset")) : \A i \in DOMAIN s : s[i] \in Of("unset")
    OBVIOUS
  <2>2. QED
    BY <2>1
<1>4. Unsets(l) = parsed(found) /\ Unsets(Append(l, c)) = parsed(Only(Append(l, c), "unset"))
  BY DEF Unsets
<1> HIDE DEF found, F
<1>5. l = <<>> => Unsets(l) = <<>>
  BY <1>2, <1>4
<1>6. ~Found("unset", c) => Unsets(Append(l, c)) = Unsets(l)
  BY <1>2, <1>4 DEF Collect
<1>7. Unsets(l) \in Seq(Names)
  <2>1. CASE Of("unset") = {}
    <3>1. found = <<>>
      BY <1>2, <2>1
    <3>2. QED
      BY <1>4, <3>1
  <2>2. CASE Of("unset") # {}
    BY <1>1, <1>2, <1>3, <1>4, <2>2, Translated
  <2>3. QED
    BY <2>1, <2>2
<1>8. ASSUME Found("unset", c)
      PROVE  Unsets(Append(l, c)) = Append(Unsets(l), c.name)
  <2>1. c \in Of("unset") /\ Only(Append(l, c), "unset") = Append(found, c)
        /\ Append(found, c) \in Seq(Of("unset"))
    BY <1>2, <1>8 DEF Of, Collect
  <2>2. parsed(Append(found, c)) = Append(parsed(found), F[c])
    <3> HIDE DEF parsed
    <3>1. parsed(Append(found, c)) = [i \in DOMAIN Append(found, c) |-> F[Append(found, c)[i]]]
          /\ parsed(found) = [i \in DOMAIN found |-> F[found[i]]]
      BY <1>2, <1>3, <2>1
    <3>2. QED
      BY <1>1, <1>2, <2>1, <3>1, Translated
  <2>3. F[c] = c.name
    BY <2>1 DEF F
  <2>4. QED
    BY <1>4, <2>1, <2>2, <2>3
<1>9. QED
  BY <1>5, <1>6, <1>7, <1>8

-----------------------------------------------------------------------------
(* The inductive invariant, between the commands of a line.                *)
(* The session's variables after the exports parsed so far.                *)
Exporting == FoldLeft(Export, session.env, Exports(line))

StateInv ==
  /\ session \in [cwd : Dirs, env : Env]
  /\ line \in Seq(Command)
  /\ shell \in [cwd : Existing, env : Env, ok : BOOLEAN, skipped : BOOLEAN]

(* Only a name that the session had or the line exports can have a value.  *)
ParseInv ==
  /\ \A x : x \in Dropped <=> \E i \in DOMAIN Unsets(line) : Unsets(line)[i] = x
  /\ IsFiniteSet(Keys(session.env)) /\ IsFiniteSet(Exported)
  /\ Keys(Exporting) \subseteq Keys(session.env) \cup Exported

(* A value the parser could read, of a name not to be unset, is the        *)
(* shell's.                                                                *)
ValuesInv ==
  ~shell.skipped =>
    \A x \in Names : LastAgreed(x) => x \in Dropped \/ Exporting[x] \in {Nil, shell.env[x]}

TrackInv ==
  ~shell.skipped /\ UnderCap =>
    \A x \in Names :
      LastAgreed(x) /\ ~UnsetThenExported(x) =>
        shell.env[x] = IF x \in Dropped THEN Nil ELSE Over(Exporting)[x]

(* The shell is where the last cd led, if that is an allowed directory.    *)
DirInv ==
  LET cds == Only(line, "cd")
  IN  ~shell.skipped /\ EndsInAllowedDir =>
        /\ shell.cwd = IF cds = <<>> THEN session.cwd ELSE Last(cds).path
        /\ cds # <<>> => Last(cds).path \in Dirs \ Relative

IInv == StateInv /\ ParseInv /\ ValuesInv /\ TrackInv /\ DirInv

LEMMA CommandParts ==
  ASSUME NEW c \in Command
  PROVE  /\ c.op \in {"cd", "export", "unset", "other"} /\ c.and \in BOOLEAN /\ c.by \in Takers
         /\ c.op = "cd" => c.path \in Absolute \cup Relative /\ c.to \in Absolute \cup Relative
         /\ c.op = "export" => c.name \in Names /\ c.text \in Values /\ c.value \in Values
         /\ c.op = "unset" => c.name \in Names
         /\ c.op = "other" => c.ok \in BOOLEAN
  BY DEF Command

(* What one command does to the shell.                                     *)
LEMMA ShellSteps ==
  ASSUME StateInv, NEW c \in Commands, RunCommand(c)
  PROVE  /\ shell' \in [cwd : Existing, env : Env, ok : BOOLEAN, skipped : BOOLEAN]
         /\ ~shell'.skipped =>
              /\ ~shell.skipped
              /\ c.op # "cd" => shell'.cwd = shell.cwd
              /\ \A x \in Names : ~Assigns(c, x) => shell'.env[x] = shell.env[x]
              /\ Agreed(c) =>
                   /\ c.op = "cd" /\ ShellTarget(shell.cwd, c.to) \in Existing =>
                        shell'.cwd = ShellTarget(shell.cwd, c.to)
                   /\ c.op = "export" => shell'.env[c.name] = c.value
                   /\ c.op = "unset" => shell'.env[c.name] = Nil
<1>0. c \in Command
  BY InputsAssumption
<1>1. shell \in [cwd : Existing, env : Env, ok : BOOLEAN, skipped : BOOLEAN] /\ shell' = ShellStep(shell, c)
  BY DEF StateInv, RunCommand
<1>2. CASE c.and /\ ~shell.ok
  BY <1>1, <1>2 DEF ShellStep
<1>3. CASE ~(c.and /\ ~shell.ok) /\ "shell" \notin c.by
  BY <1>1, <1>3 DEF ShellStep, Agreed
<1>4. CASE ~(c.and /\ ~shell.ok) /\ "shell" \in c.by
  <2>1. shell' = Execute(shell, c)
    BY <1>1, <1>4 DEF ShellStep
  <2>2. CASE c.op = "cd"
    <3>1. shell' = IF ShellTarget(shell.cwd, c.to) \in Existing
                     THEN [shell EXCEPT !.cwd = ShellTarget(shell.cwd, c.to), !.ok = TRUE]
                     ELSE [shell EXCEPT !.ok = FALSE]
      BY <2>1, <2>2 DEF Execute
    <3>2. QED
      BY <1>1, <2>2, <3>1 DEF Assigns
  <2>3. CASE c.op = "export"
    <3>1. shell' = [shell EXCEPT !.env[c.name] = c.value, !.ok = TRUE] /\ c.name \in Names /\ c.value \in Values
      BY <2>1, <2>3, <1>0, CommandParts DEF Execute
    <3> DEFINE env == [shell.env EXCEPT ![c.name] = c.value]
    <3>2. env \in Env
      BY <1>1, <3>1 DEF Env
    <3>3. shell' = [shell EXCEPT !.env = env, !.ok = TRUE]
      BY <3>1
    <3> HIDE DEF env
    <3>4. shell' \in [cwd : Existing, env : Env, ok : BOOLEAN, skipped : BOOLEAN]
          /\ shell'.skipped = shell.skipped /\ shell'.cwd = shell.cwd /\ shell'.env = env
      BY <1>1, <3>2, <3>3
    <3>5. QED
      BY <1>1, <2>3, <3>1, <3>4 DEF env, Assigns, Env
  <2>4. CASE c.op = "unset"
    <3>1. shell' = [shell EXCEPT !.env[c.name] = Nil, !.ok = TRUE] /\ c.name \in Names
      BY <2>1, <2>4, <1>0, CommandParts DEF Execute
    <3> DEFINE env == [shell.env EXCEPT ![c.name] = Nil]
    <3>2. env \in Env
      BY <1>1, <3>1 DEF Env
    <3>3. shell' = [shell EXCEPT !.env = env, !.ok = TRUE]
      BY <3>1
    <3> HIDE DEF env
    <3>4. shell' \in [cwd : Existing, env : Env, ok : BOOLEAN, skipped : BOOLEAN]
          /\ shell'.skipped = shell.skipped /\ shell'.cwd = shell.cwd /\ shell'.env = env
      BY <1>1, <3>2, <3>3
    <3>5. QED
      BY <1>1, <2>4, <3>1, <3>4 DEF env, Assigns, Env
  <2>5. CASE c.op = "other"
    <3>1. shell' = [shell EXCEPT !.ok = c.ok] /\ c.ok \in BOOLEAN
      BY <2>1, <2>5, <1>0, CommandParts DEF Execute
    <3>2. QED
      BY <1>1, <2>5, <3>1 DEF Assigns
  <2>6. QED
    BY <2>2, <2>3, <2>4, <2>5, <1>0, CommandParts
<1>5. QED
  BY <1>2, <1>3, <1>4

(* What one command adds to what the parsers find.                         *)
LEMMA LineSteps ==
  ASSUME StateInv, NEW c \in Commands, RunCommand(c)
  PROVE  /\ line' \in Seq(Command) /\ session' = session
         /\ Dropped' = IF Found("unset", c) THEN Dropped \cup {c.name} ELSE Dropped
         /\ Exported' = IF Found("export", c) THEN Exported \cup {c.name} ELSE Exported
         /\ Exporting' = IF Found("export", c)
                           THEN Export(Exporting, [name |-> c.name, value |-> c.text])
                           ELSE Exporting
         /\ Exporting \in Env
<1>0. c \in Command
  BY InputsAssumption
<1>1. line \in Seq(Command) /\ line' = Append(line, c) /\ session' = session /\ session.env \in Env
  BY DEF StateInv, RunCommand
<1> DEFINE n == Len(line)
<1>2. /\ line' \in Seq(Command) /\ n \in Nat /\ DOMAIN line = 1 .. n /\ DOMAIN line' = 1 .. n + 1
      /\ (\A i \in 1 .. n : line'[i] = line[i]) /\ line'[n + 1] = c
  BY <1>0, <1>1
<1> HIDE DEF n
<1>3. /\ n + 1 \in 1 .. n + 1 /\ (\A i \in 1 .. n : i \in 1 .. n + 1 /\ i < n + 1)
      /\ \A i \in 1 .. n + 1 : i = n + 1 \/ i \in 1 .. n
  BY <1>2
<1>4. \A op : {line'[i].name : i \in {j \in DOMAIN line' : Found(op, line'[j])}} =
                {line[i].name : i \in {j \in DOMAIN line : Found(op, line[j])}}
                  \cup IF Found(op, c) THEN {c.name} ELSE {}
  <2> TAKE op
  <2> DEFINE old == {line[i].name : i \in {j \in 1 .. n : Found(op, line[j])}}
             new == {line'[i].name : i \in {j \in 1 .. n + 1 : Found(op, line'[j])}}
  <2>1. \A x : x \in new <=> x \in old \/ (Found(op, c) /\ x = c.name)
    BY <1>2, <1>3
  <2> HIDE DEF old, new
  <2>2. new = old \cup IF Found(op, c) THEN {c.name} ELSE {}
    BY <2>1
  <2>3. QED
    BY <1>2, <2>2 DEF old, new
<1>5. Dropped' = IF Found("unset", c) THEN Dropped \cup {c.name} ELSE Dropped
  BY <1>4 DEF Dropped
<1>6. Exported' = IF Found("export", c) THEN Exported \cup {c.name} ELSE Exported
  BY <1>4 DEF Exported
<1>7. Exports(line) \in Seq(Assignment) /\ Exporting \in Env
  BY <1>0, <1>1, ExportsParsed, ExportsUnfold DEF Exporting
<1>8. Exporting' = IF Found("export", c)
                     THEN Export(Exporting, [name |-> c.name, value |-> c.text])
                     ELSE Exporting
  <2>1. CASE Found("export", c)
    <3>1. [name |-> c.name, value |-> c.text] \in Assignment
      BY <1>0, <2>1, CommandParts DEF Assignment, Found
    <3>2. Exports(line') = Append(Exports(line), [name |-> c.name, value |-> c.text])
      BY <1>0, <1>1, <2>1, ExportsParsed
    <3>3. QED
      BY <1>1, <1>7, <2>1, <3>1, <3>2, ExportsAppend DEF Exporting
  <2>2. CASE ~Found("export", c)
    BY <1>0, <1>1, <2>2, ExportsParsed DEF Exporting
  <2>3. QED
    BY <2>1, <2>2
<1>9. QED
  BY <1>1, <1>2, <1>5, <1>6, <1>7, <1>8

(* What one command changes of what the line says of a name.               *)
LEMMA LastSteps ==
  ASSUME StateInv, NEW c \in Commands, RunCommand(c), NEW x \in Names
  PROVE  /\ LastAgreed(x)' => IF Assigns(c, x) THEN Agreed(c) ELSE LastAgreed(x)
         /\ UnsetThenExported(x) => UnsetThenExported(x)'
         /\ c.op = "export" /\ c.name = x /\ x \in Dropped => UnsetThenExported(x)'
<1> DEFINE n == Len(line)
<1>1. /\ n \in Nat /\ DOMAIN line = 1 .. n /\ DOMAIN line' = 1 .. n + 1
      /\ (\A i \in 1 .. n : line'[i] = line[i]) /\ line'[n + 1] = c
  BY InputsAssumption DEF StateInv, RunCommand
<1> HIDE DEF n
<1>2. /\ n + 1 \in 1 .. n + 1 /\ (\A i \in 1 .. n : i \in 1 .. n + 1 /\ i < n + 1)
      /\ \A i \in 1 .. n + 1 : i = n + 1 \/ i \in 1 .. n
      /\ \A i \in 1 .. n + 1 : ~(i > n + 1)
  BY <1>1
<1>3. LastAgreed(x)' => IF Assigns(c, x) THEN Agreed(c) ELSE LastAgreed(x)
  <2>1. LastAgreed(x)' =
          \A i \in 1 .. n + 1 :
            Assigns(line'[i], x) /\ (\A j \in 1 .. n + 1 : j > i => ~Assigns(line'[j], x))
              => Agreed(line'[i])
    BY <1>1 DEF LastAgreed, Assigns, Agreed
  <2>2. QED
    BY <1>1, <1>2, <2>1 DEF LastAgreed
<1>5. UnsetThenExported(x) => UnsetThenExported(x)'
  BY <1>1, <1>2 DEF UnsetThenExported, Found
<1>6. c.op = "export" /\ c.name = x /\ x \in Dropped => UnsetThenExported(x)'
  BY <1>1, <1>2 DEF UnsetThenExported, Dropped, Found
<1>7. QED
  BY <1>3, <1>5, <1>6

(* And of the directory the line ends in.                                  *)
LEMMA LastStepsDir ==
  ASSUME StateInv, NEW c \in Commands, RunCommand(c)
  PROVE  EndsInAllowedDir' => IF c.op = "cd" THEN Agreed(c) /\ c.path \in Dirs \ Relative
                                             ELSE EndsInAllowedDir
<1> DEFINE n == Len(line)
<1>1. /\ n \in Nat /\ DOMAIN line = 1 .. n /\ DOMAIN line' = 1 .. n + 1
      /\ (\A i \in 1 .. n : line'[i] = line[i]) /\ line'[n + 1] = c
  BY InputsAssumption DEF StateInv, RunCommand
<1> HIDE DEF n
<1>2. /\ n + 1 \in 1 .. n + 1 /\ (\A i \in 1 .. n : i \in 1 .. n + 1 /\ i < n + 1)
      /\ \A i \in 1 .. n + 1 : i = n + 1 \/ i \in 1 .. n
      /\ \A i \in 1 .. n + 1 : ~(i > n + 1)
  BY <1>1
<1>3. EndsInAllowedDir' =
          \A i \in 1 .. n + 1 :
            line'[i].op = "cd" /\ (\A j \in 1 .. n + 1 : j > i => line'[j].op # "cd")
              => Agreed(line'[i]) /\ line'[i].path \in Dirs \ Relative
    BY <1>1 DEF EndsInAllowedDir, Agreed
<1>4. QED
    BY <1>1, <1>2, <1>3 DEF EndsInAllowedDir

(* The keys after one more export.                                         *)
LEMMA ExportKeys ==
  ASSUME NEW env \in Env, NEW x \in Names, NEW v \in Values
  PROVE  LET after == Export(env, [name |-> x, value |-> v])
         IN  /\ after \in Env
             /\ after[x] = IF Admits(env, x) THEN v ELSE Nil
             /\ \A y \in Names \ {x} : after[y] = env[y]
             /\ Keys(after) \subseteq Keys(env) \cup {x}
<1> DEFINE a == [name |-> x, value |-> v]
           after == Export(env, a)
<1>1. a \in Assignment /\ a.name = x /\ a.value = v
  BY DEF Assignment
<1>2. after \in Env
  BY <1>1, ExportTyped
<1> HIDE DEF a
<1>3. ~Admits(env, x) => env[x] = Nil
  BY DEF Admits, Keys
<1>4. after[x] = IF Admits(env, x) THEN v ELSE Nil
  BY <1>1, <1>3 DEF Export, Env
<1>5. \A y \in Names \ {x} : after[y] = env[y]
  BY <1>1 DEF Export, Env
<1>6. Keys(after) \subseteq Keys(env) \cup {x}
  BY <1>5 DEF Keys
<1>7. QED
  BY <1>2, <1>4, <1>5, <1>6 DEF a

(* A command that does not export a name leaves what is stored for it.     *)
LEMMA StoredSteps ==
  ASSUME StateInv, NEW c \in Commands, RunCommand(c), NEW x \in Names
  PROVE  /\ ~Assigns(c, x) => Exporting'[x] = Exporting[x]
         /\ Agreed(c) /\ c.op = "export" /\ c.name = x =>
              /\ Found("export", c) /\ c.text = c.value /\ c.value \in Values
              /\ Exporting'[x] = IF Admits(Exporting, x) THEN c.value ELSE Nil
         /\ Agreed(c) /\ c.op = "unset" => Found("unset", c)
<1>1. c \in Command /\ Exporting \in Env
  BY InputsAssumption, LineSteps
<1>2. ~Assigns(c, x) => Exporting'[x] = Exporting[x]
  <2>1. CASE Found("export", c)
    <3>1. c.op = "export" /\ c.name \in Names /\ c.text \in Values
      BY <1>1, <2>1, CommandParts DEF Found
    <3>2. Exporting' = Export(Exporting, [name |-> c.name, value |-> c.text])
      BY <2>1, LineSteps
    <3>3. QED
      BY <1>1, <3>1, <3>2, ExportKeys DEF Assigns
  <2>2. CASE ~Found("export", c)
    BY <2>2, LineSteps
  <2>3. QED
    BY <2>1, <2>2
<1>3. ASSUME Agreed(c), c.op = "export", c.name = x
      PROVE  /\ Found("export", c) /\ c.text = c.value /\ c.value \in Values
             /\ Exporting'[x] = IF Admits(Exporting, x) THEN c.value ELSE Nil
  <2>1. Found("export", c) /\ c.text = c.value /\ c.value \in Values
    BY <1>1, <1>3, CommandParts DEF Agreed, Found
  <2>2. Exporting' = Export(Exporting, [name |-> x, value |-> c.value])
    BY <1>3, <2>1, LineSteps
  <2>3. QED
    BY <1>1, <2>1, <2>2, ExportKeys
<1>4. Agreed(c) /\ c.op = "unset" => Found("unset", c)
  BY DEF Agreed, Found
<1>5. QED
  BY <1>2, <1>3, <1>4

LEMMA ParseStep ==
  ASSUME StateInv, ParseInv, NEW c \in Commands, RunCommand(c)
  PROVE  ParseInv'
<1>1. /\ line \in Seq(Command) /\ line' = Append(line, c) /\ session' = session
      /\ Unsets(line) \in Seq(Names) /\ c \in Command
  BY InputsAssumption, UnsetsParsed DEF StateInv, RunCommand
<1>2. \A x : x \in Dropped' <=> \E i \in DOMAIN Unsets(line') : Unsets(line')[i] = x
  <2>1. CASE Found("unset", c)
    <3> DEFINE us == Unsets(line)
               m == Len(us)
    <3>1. /\ Unsets(line') = Append(us, c.name) /\ c.name \in Names
          /\ Dropped' = Dropped \cup {c.name}
      BY <1>1, <2>1, UnsetsParsed, LineSteps, CommandParts DEF Found
    <3>2. us \in Seq(Names) /\ \A x : x \in Dropped <=> \E i \in DOMAIN us : us[i] = x
      BY <1>1 DEF ParseInv
    <3> HIDE DEF us
    <3>3. /\ m \in Nat /\ DOMAIN us = 1 .. m /\ DOMAIN Unsets(line') = 1 .. m + 1
          /\ (\A i \in 1 .. m : Unsets(line')[i] = us[i]) /\ Unsets(line')[m + 1] = c.name
      BY <3>1, <3>2
    <3> HIDE DEF m
    <3>4. /\ m + 1 \in 1 .. m + 1 /\ (\A i \in 1 .. m : i \in 1 .. m + 1)
          /\ \A i \in 1 .. m + 1 : i = m + 1 \/ i \in 1 .. m
      BY <3>3
    <3>5. QED
      BY <3>1, <3>2, <3>3, <3>4
  <2>2. CASE ~Found("unset", c)
    <3>1. Unsets(line') = Unsets(line) /\ Dropped' = Dropped
      BY <1>1, <2>2, UnsetsParsed, LineSteps
    <3>2. QED
      BY <3>1 DEF ParseInv
  <2>3. QED
    BY <2>1, <2>2
<1>3. IsFiniteSet(Keys(session.env)) /\ IsFiniteSet(Exported')
  <2>1. IsFiniteSet(Exported \cup {c.name})
    BY FS_AddElement DEF ParseInv
  <2>2. QED
    BY <2>1, LineSteps DEF ParseInv
<1>4. Keys(Exporting') \subseteq Keys(session.env) \cup Exported'
  <2>1. CASE Found("export", c)
    <3>1. c.name \in Names /\ c.text \in Values /\ Exporting \in Env
      BY <1>1, <2>1, CommandParts, LineSteps DEF Found
    <3>2. Keys(Export(Exporting, [name |-> c.name, value |-> c.text])) \subseteq Keys(Exporting) \cup {c.name}
      BY <3>1, ExportKeys
    <3>3. Keys(Exporting') \subseteq Keys(Exporting) \cup {c.name} /\ Exported' = Exported \cup {c.name}
      BY <2>1, <3>2, LineSteps
    <3>4. QED
      BY <3>3 DEF ParseInv
  <2>2. CASE ~Found("export", c)
    BY <2>2, LineSteps DEF ParseInv
  <2>3. QED
    BY <2>1, <2>2
<1>5. QED
  BY <1>1, <1>2, <1>3, <1>4 DEF ParseInv

LEMMA ValuesStep ==
  ASSUME StateInv, ValuesInv, NEW c \in Commands, RunCommand(c)
  PROVE  ValuesInv'
<1> SUFFICES ASSUME ~shell'.skipped, NEW x \in Names, LastAgreed(x)', x \notin Dropped'
             PROVE  Exporting'[x] \in {Nil, shell'.env[x]}
  BY DEF ValuesInv
<1>1. ~shell.skipped
  BY ShellSteps
<1>2. CASE Assigns(c, x)
  <2>1. Agreed(c) /\ c.name = x
    BY <1>2, LastSteps DEF Assigns
  <2>2. c.op # "unset"
    BY <2>1, StoredSteps, LineSteps
  <2>3. c.op = "export"
    BY <1>2, <2>2 DEF Assigns
  <2>4. shell'.env[x] = c.value
    BY <2>1, <2>3, ShellSteps
  <2>5. QED
    BY <2>1, <2>3, <2>4, StoredSteps
<1>3. CASE ~Assigns(c, x)
  <2>1. LastAgreed(x) /\ x \notin Dropped
    BY <1>3, LastSteps, LineSteps
  <2>2. Exporting[x] \in {Nil, shell.env[x]}
    BY <1>1, <2>1 DEF ValuesInv
  <2>3. QED
    BY <1>3, <2>2, ShellSteps, StoredSteps
<1>4. QED
  BY <1>2, <1>3

(* While the line can be kept, no export of it is refused.                 *)
LEMMA ExportAdmitted ==
  ASSUME StateInv, ParseInv, NEW c \in Commands, RunCommand(c), UnderCap'
  PROVE  UnderCap /\ (Found("export", c) => Admits(Exporting, c.name))
<1> DEFINE All == Keys(session.env) \cup Exported'
<1>1. IsFiniteSet(All) /\ Cardinality(All) <= MaxEnvVars /\ session' = session
  BY ParseStep, LineSteps, FS_Union DEF ParseInv, UnderCap
<1>2. Exported \subseteq Exported' /\ (Found("export", c) => c.name \in Exported')
  BY LineSteps
<1>3. ASSUME NEW S \in SUBSET All
      PROVE  IsFiniteSet(S) /\ Cardinality(S) \in Nat /\ Cardinality(S) <= MaxEnvVars
  <2>1. IsFiniteSet(S) /\ Cardinality(S) <= Cardinality(All)
    BY <1>1, FS_Subset
  <2>2. Cardinality(S) \in Nat /\ Cardinality(All) \in Nat
    BY <1>1, <2>1, FS_CardinalityType
  <2>3. QED
    BY <1>1, <2>1, <2>2, CapAssumption
<1>4. UnderCap
  BY <1>2, <1>3 DEF UnderCap
<1>5. ASSUME Found("export", c) PROVE Admits(Exporting, c.name)
  <2>1. CASE c.name \in Keys(Exporting)
    BY <2>1 DEF Admits
  <2>2. CASE c.name \notin Keys(Exporting)
    <3>1. Keys(Exporting) \cup {c.name} \in SUBSET All /\ Keys(Exporting) \in SUBSET All
      BY <1>2, <1>5 DEF ParseInv
    <3>2. Cardinality(Keys(Exporting) \cup {c.name}) = Cardinality(Keys(Exporting)) + 1
      BY <1>3, <2>2, <3>1, FS_AddElement
    <3> HIDE DEF All
    <3>3. Cardinality(Keys(Exporting)) < MaxEnvVars
      BY <1>3, <3>1, <3>2, CapAssumption
    <3>4. QED
      BY <3>3 DEF Admits
  <2>3. QED
    BY <2>1, <2>2
<1>6. QED
  BY <1>4, <1>5

LEMMA TrackStep ==
  ASSUME StateInv, ParseInv, TrackInv, NEW c \in Commands, RunCommand(c)
  PROVE  TrackInv'
<1> SUFFICES ASSUME ~shell'.skipped, UnderCap', NEW x \in Names,
                    LastAgreed(x)', ~UnsetThenExported(x)'
             PROVE  shell'.env[x] = IF x \in Dropped' THEN Nil ELSE Over(Exporting)'[x]
  BY DEF TrackInv
<1>1. ~shell.skipped /\ UnderCap /\ ~UnsetThenExported(x)
  BY ShellSteps, ExportAdmitted, LastSteps
<1>2. Over(Exporting)'[x] = IF Exporting'[x] = Nil THEN Inherited[x] ELSE Exporting'[x]
  BY DEF Over
<1>3. CASE Assigns(c, x) /\ c.op = "export"
  <2>1. Agreed(c) /\ c.name = x /\ x \notin Dropped
    BY <1>3, LastSteps DEF Assigns
  <2>2. Exporting'[x] = c.value /\ c.value \in Values
    BY <1>3, <2>1, StoredSteps, ExportAdmitted
  <2>3. x \notin Dropped'
    BY <1>3, <2>1, LineSteps DEF Found
  <2>4. shell'.env[x] = c.value
    BY <1>3, <2>1, ShellSteps
  <2>5. QED
    BY <1>2, <2>2, <2>3, <2>4, NilAssumption
<1>4. CASE Assigns(c, x) /\ c.op = "unset"
  <2>1. Agreed(c) /\ c.name = x
    BY <1>4, LastSteps DEF Assigns
  <2>2. x \in Dropped' /\ shell'.env[x] = Nil
    BY <1>4, <2>1, LineSteps, ShellSteps, StoredSteps
  <2>3. QED
    BY <2>2
<1>5. CASE ~Assigns(c, x)
  <2>1. LastAgreed(x) /\ shell'.env[x] = shell.env[x] /\ Exporting'[x] = Exporting[x]
    BY <1>5, LastSteps, ShellSteps, StoredSteps
  <2>2. x \in Dropped' <=> x \in Dropped
    BY <1>5, LineSteps DEF Assigns, Found
  <2>3. shell.env[x] = IF x \in Dropped THEN Nil ELSE Over(Exporting)[x]
    BY <1>1, <2>1 DEF TrackInv
  <2>4. QED
    BY <1>2, <2>1, <2>2, <2>3 DEF Over
<1>6. QED
  BY <1>3, <1>4, <1>5 DEF Assigns

LEMMA DirStep ==
  ASSUME StateInv, DirInv, NEW c \in Commands, RunCommand(c)
  PROVE  DirInv'
<1> DEFINE cds == Only(line, "cd")
           now == Only(line', "cd")
<1> SUFFICES ASSUME ~shell'.skipped, EndsInAllowedDir'
             PROVE  /\ shell'.cwd = IF now = <<>> THEN session'.cwd ELSE Last(now).path
                    /\ now # <<>> => Last(now).path \in Dirs \ Relative
  BY DEF DirInv
<1>1. line \in Seq(Command) /\ line' = Append(line, c) /\ session' = session /\ c \in Command
  BY InputsAssumption DEF StateInv, RunCommand
<1>2. cds \in Seq(Of("cd")) /\ now = Collect("cd", cds, c)
  BY <1>1, OnlyAppend
<1>3. CASE c.op = "cd"
  <2>1. Agreed(c) /\ c.path \in Dirs \ Relative
    BY <1>3, LastStepsDir
  <2>2. now = Append(cds, c) /\ c \in Of("cd")
    BY <1>1, <1>2, <1>3, <2>1 DEF Collect, Found, Of, Agreed
  <2>3. ShellTarget(shell.cwd, c.to) \in Existing /\ ShellTarget(shell.cwd, c.to) = c.path
    BY <1>3, <2>1, PlacesAssumption DEF ShellTarget, Agreed
  <2>4. shell'.cwd = c.path
    BY <1>3, <2>1, <2>3, ShellSteps
  <2> HIDE DEF cds, now
  <2>5. now # <<>> /\ Last(now) = c
    BY <1>2, <2>2 DEF Last
  <2>6. QED
    BY <2>1, <2>4, <2>5
<1>4. CASE c.op # "cd"
  <2>1. now = cds
    BY <1>2, <1>4 DEF Collect, Found
  <2>2. ~shell.skipped /\ shell'.cwd = shell.cwd /\ EndsInAllowedDir
    BY <1>4, ShellSteps, LastStepsDir
  <2>3. QED
    BY <1>1, <2>1, <2>2 DEF DirInv
<1>5. QED
  BY <1>3, <1>4

(* What apply_state_update makes of the line.                              *)
LEMMA Applying ==
  ASSUME IInv, Cd(line) # Unreadable
  PROVE  LET after == After(session, Parse(line))
         IN  /\ after \in [cwd : Dirs, env : Env]
             /\ \A x \in Names : after.env[x] = IF x \in Dropped THEN Nil ELSE Exporting[x]
             /\ IsFiniteSet(Keys(after.env))
             /\ ~shell.skipped /\ EndsInAllowedDir => after.cwd = shell.cwd
<1> DEFINE after == After(session, Parse(line))
           env == FoldLeft(Unset, Exporting, Unsets(line))
           cwd == IF Cd(line) = Nil THEN session.cwd ELSE Cd(line)
           cds == Only(line, "cd")
<1>1. /\ line \in Seq(Command) /\ session.cwd \in Dirs /\ session.env \in Env
      /\ Exports(line) \in Seq(Assignment) /\ Unsets(line) \in Seq(Names)
  <2>1. line \in Seq(Command) /\ session.cwd \in Dirs /\ session.env \in Env
    BY DEF IInv, StateInv
  <2>2. [op |-> "other", ok |-> TRUE, by |-> {"shell"}, and |-> TRUE] \in Command
    BY DEF Command, Takers
  <2>3. QED
    BY <2>1, <2>2, ExportsParsed, UnsetsParsed
<1>2. Exporting \in Env
  BY <1>1, ExportsUnfold DEF Exporting
<1>3. after = [cwd |-> cwd, env |-> env]
  BY DEF After, Parse, Exporting
<1>4. env \in Env /\ \A x \in Names : env[x] = IF x \in Dropped THEN Nil ELSE Exporting[x]
  BY <1>1, <1>2, UnsetsResult DEF IInv, ParseInv
<1>5. cwd \in Dirs
  BY <1>1 DEF Cd, Validate
<1>6. IsFiniteSet(Keys(env))
  <2>1. Keys(env) \subseteq Keys(Exporting)
    BY <1>4 DEF Keys
  <2>2. IsFiniteSet(Keys(session.env) \cup Exported)
    BY FS_Union DEF IInv, ParseInv
  <2>3. Keys(env) \in SUBSET (Keys(session.env) \cup Exported)
    BY <2>1 DEF IInv, ParseInv
  <2>4. QED
    BY <2>2, <2>3, FS_Subset
<1>7. ASSUME ~shell.skipped, EndsInAllowedDir PROVE cwd = shell.cwd
  <2>1. CASE cds = <<>>
    BY <1>7, <2>1 DEF IInv, DirInv, Cd
  <2>2. CASE cds # <<>>
    <3>1. Last(cds).path \in Dirs \ Relative /\ shell.cwd = Last(cds).path
      BY <1>7, <2>2 DEF IInv, DirInv
    <3>2. Cd(line) = Last(cds).path
      <4>1. Validate(Resolve(Last(cds).path)) = Last(cds).path
        BY <3>1, PlacesAssumption DEF Resolve, Validate
      <4>2. QED
        BY <2>2, <4>1 DEF Cd
    <3>3. QED
      BY <3>1, <3>2, NilAssumption
  <2>3. QED
    BY <2>1, <2>2
<1> HIDE DEF after, env, cwd
<1>8. after \in [cwd : Dirs, env : Env] /\ after.env = env /\ after.cwd = cwd
  BY <1>3, <1>4, <1>5
<1>9. QED
  BY <1>4, <1>6, <1>7, <1>8 DEF after

(* What a command starts with.                                             *)
LEMMA OverTyped ==
  ASSUME NEW env \in Env
  PROVE  Over(env) \in Env
  BY InputsAssumption DEF Over, Env

(* A line that has just begun.                                             *)
Begun ==
  /\ session \in [cwd : Dirs, env : Env] /\ IsFiniteSet(Keys(session.env))
  /\ line = <<>> /\ shell = Start(session)

LEMMA Beginning == Begun => IInv
<1> SUFFICES ASSUME Begun PROVE IInv
  OBVIOUS
<1>1. /\ session.env \in Env /\ session.cwd \in Dirs /\ line = <<>> /\ line \in Seq(Command)
      /\ shell = [cwd |-> session.cwd, env |-> Over(session.env), ok |-> TRUE, skipped |-> FALSE]
  BY DEF Begun, Start
<1>2. Exports(line) = <<>> /\ Unsets(line) = <<>> /\ Only(line, "cd") = <<>>
  <2>1. PICK c \in Command : c.op = "other"
    <3>1. [op |-> "other", ok |-> TRUE, by |-> {"shell"}, and |-> TRUE] \in Command
      BY DEF Command, Takers
    <3>2. QED
      BY <3>1
  <2>2. Exports(line) = <<>>
    BY <1>1, <2>1, ExportsParsed
  <2>3. Unsets(line) = <<>>
    BY <1>1, <2>1, UnsetsParsed
  <2>4. Only(line, "cd") = <<>>
    BY <1>1, <2>1, OnlyAppend
  <2>5. QED
    BY <2>2, <2>3, <2>4
<1>3. StateInv
  BY <1>1, PlacesAssumption, OverTyped DEF StateInv, Begun
<1>4. Dropped = {} /\ Exported = {}
  BY <1>1 DEF Dropped, Exported
<1>5. Exporting = session.env
  <2>1. <<>> \in Seq(Assignment)
    OBVIOUS
  <2>2. QED
    BY <1>1, <1>2, <2>1, ExportsUnfold DEF Exporting
<1>6. ParseInv
  BY <1>2, <1>4, <1>5, FS_EmptySet DEF ParseInv, Begun
<1>7. ValuesInv /\ TrackInv
  BY <1>1, <1>4, <1>5 DEF ValuesInv, TrackInv, Over
<1>8. DirInv
  BY <1>1, <1>2 DEF DirInv
<1>9. QED
  BY <1>3, <1>6, <1>7, <1>8 DEF IInv

LEMMA BeginningNext == Begun' => IInv'
  BY Beginning, PTL

LEMMA InitIInv == Init => IInv
<1>1. EmptyEnv \in Env /\ Keys(EmptyEnv) = {}
  BY DEF EmptyEnv, Env, Keys
<1>2. Init => Begun
  BY <1>1, HomeAssumption, FS_EmptySet DEF Init, Begun
<1>3. QED
  BY <1>2, Beginning

LEMMA NextIInv == IInv /\ [Next]_vars => IInv'
<1>1. ASSUME IInv, NEW c \in Commands, RunCommand(c) PROVE IInv'
  <2>1. StateInv'
    BY <1>1, ShellSteps, LineSteps DEF IInv, StateInv
  <2>2. QED
    BY <1>1, <2>1, ParseStep, ValuesStep, TrackStep, DirStep DEF IInv
<1>2. ASSUME IInv, ApplyStateUpdate PROVE IInv'
  <2>1. session' \in [cwd : Dirs, env : Env] /\ IsFiniteSet(Keys(session'.env))
    <3>1. CASE shell.ok /\ Cd(line) # Unreadable
      BY <1>2, <3>1, Applying DEF ApplyStateUpdate
    <3>2. CASE ~(shell.ok /\ Cd(line) # Unreadable)
      BY <1>2, <3>2 DEF ApplyStateUpdate, IInv, StateInv, ParseInv
    <3>3. QED
      BY <3>1, <3>2
  <2>2. Begun'
    BY <1>2, <2>1 DEF ApplyStateUpdate, Begun
  <2>3. QED
    BY <2>2, BeginningNext
<1>3. ASSUME IInv, UNCHANGED vars PROVE IInv'
  <2>1. /\ Exporting' = Exporting /\ Exported' = Exported /\ UnderCap' = UnderCap
        /\ Dropped' = Dropped /\ EndsInAllowedDir' = EndsInAllowedDir
        /\ \A x : UnsetThenExported(x)' = UnsetThenExported(x) /\ LastAgreed(x)' = LastAgreed(x)
    BY <1>3 DEF vars, Exporting, Exported, UnderCap, Dropped, EndsInAllowedDir, LastAgreed,
                UnsetThenExported
  <2>2. QED
    BY <1>3, <2>1 DEF vars, IInv, StateInv, ParseInv, ValuesInv, TrackInv, DirInv
<1>4. QED
  BY <1>1, <1>2, <1>3 DEF Next

(* The inductive invariant of a line and its session.                      *)
THEOREM LineInvariant == Spec => []IInv
  BY InitIInv, NextIInv, PTL DEF Spec

(* Whatever is run, the session stays in an allowed directory.             *)
THEOREM SessionStaysAllowed == Spec => []TypeOK
<1>1. IInv => TypeOK
  BY DEF IInv, StateInv, TypeOK
<1>2. QED
  BY <1>1, LineInvariant, PTL

(* The step that applies a line of which nothing was skipped.              *)
LEMMA AppliedStep ==
  ASSUME IInv, [Next]_vars, Applied
  PROVE  /\ session' = After(session, Parse(line)) /\ shell' = Start(session')
         /\ Cd(line) # Unreadable /\ ~shell.skipped
<1>1. ~(\E c \in Commands : RunCommand(c))
  <2> SUFFICES ASSUME NEW c \in Commands, RunCommand(c) PROVE FALSE
    OBVIOUS
  <2>1. line \in Seq(Command) /\ Append(line, c) = <<>>
    BY DEF RunCommand, Applied, IInv, StateInv
  <2>2. Len(Append(line, c)) = Len(line) + 1 /\ Len(line) \in Nat /\ Len(<<>>) = 0
    BY <2>1
  <2>3. QED
    BY <2>1, <2>2
<1>2. ApplyStateUpdate
  BY <1>1 DEF Next, vars, Applied
<1>3. QED
  BY <1>2 DEF ApplyStateUpdate, Applied

(* However many exports, unsets and cds a line has, in any order, found by *)
(* the parsers or not, and whatever the cap: of a name that is last        *)
(* assigned in a way the parser can read, or not at all, the session gets  *)
(* no value that the shell did not leave.                                  *)
THEOREM NoValueInvented == Spec => NothingInvented
<1>1. ASSUME IInv, [Next]_vars, Applied, NEW x \in Names, LastAgreed(x)
      PROVE  session'.env[x] \in {Nil, shell.env[x]}
  BY <1>1, AppliedStep, Applying DEF IInv, ValuesInv
<1>2. IInv /\ [Next]_vars => [InventsNothing]_vars
  BY <1>1 DEF InventsNothing
<1>3. QED
  BY <1>2, LineInvariant, PTL DEF Spec, NothingInvented

(* The next line starts in the directory this one ended in, if its last cd *)
(* is to an absolute, allowed one; and with the value this one left of     *)
(* each name whose last assignment the parser can read, under the cap,     *)
(* without an export after the name's unset, and if the server does not    *)
(* hand the name down.                                                     *)
THEOREM ShellIsTracked == Spec => TracksShell
<1>1. ASSUME IInv, [Next]_vars, Applied, EndsInAllowedDir
      PROVE  shell'.cwd = shell.cwd
  <2>1. session'.cwd = shell.cwd /\ shell'.cwd = session'.cwd
    BY <1>1, AppliedStep, Applying DEF Start
  <2>2. QED
    BY <2>1
<1>2. ASSUME IInv, [Next]_vars, Applied, UnderCap, NEW x \in Names, LastAgreed(x),
             ~UnsetThenExported(x), x \in Dropped => Inherited[x] = Nil
      PROVE  shell'.env[x] = shell.env[x]
  <2>1. session'.env[x] = IF x \in Dropped THEN Nil ELSE Exporting[x]
    BY <1>2, AppliedStep, Applying
  <2>2. shell'.env[x] = IF session'.env[x] = Nil THEN Inherited[x] ELSE session'.env[x]
    BY <1>2, AppliedStep DEF Start, Over
  <2>3. shell.env[x] = IF x \in Dropped THEN Nil ELSE Over(Exporting)[x]
    BY <1>2, AppliedStep DEF IInv, TrackInv
  <2>4. QED
    BY <1>2, <2>1, <2>2, <2>3 DEF Over
<1>3. IInv /\ [Next]_vars => [Tracked]_vars
  BY <1>1, <1>2 DEF Tracked
<1>4. QED
  BY <1>3, LineInvariant, PTL DEF Spec, TracksShell
=============================================================================
