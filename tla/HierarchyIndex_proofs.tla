------------------------ MODULE HierarchyIndex_proofs ------------------------
(***************************************************************************)
(* The checkpoint of hc_hierarchy's index is backed by its tables, a       *)
(* complete index has a tree, a build shows the tree of a first build and  *)
(* a deepen that nobody overlaps only adds to it, for every design, depth  *)
(* policy and number of processes.                                         *)
(***************************************************************************)
EXTENDS HierarchyIndex, FiniteSetTheorems, SequenceTheorems,
        WellFoundedInduction, TLAPS
-----------------------------------------------------------------------------
(***************************************************************************)
(* The inductive invariant.                                                *)
(***************************************************************************)
\* Every name has one definition: the case in which no alias row is written.
OneDefinition == \A f, g \in Files : Name[f] = Name[g] => f = g

DbShape(d) ==
  d = [rows |-> d.rows, latest |-> d.latest, insts |-> d.insts, done |-> d.done,
       complete |-> d.complete, depth |-> d.depth, deepened |-> d.deepened]

\* What a connection sees is well formed: every name leads to a row of its
\* own, and a file of the checkpoint has its name in the tables.
DbOK(d) ==
  /\ DbShape(d)
  /\ DOMAIN d.rows \subseteq Files /\ DOMAIN d.latest \subseteq Names
  /\ \A f \in DOMAIN d.rows : d.rows[f] \in [kids : SUBSET Names, full : BOOLEAN]
  /\ \A n \in DOMAIN d.latest : d.latest[n] \in DOMAIN d.rows /\ Name[d.latest[n]] = n
  /\ d.insts \subseteq Paths /\ d.deepened \subseteq Paths
  /\ d.done \subseteq Files /\ d.complete \in BOOLEAN
  /\ d.depth \in Depths \cup {Unlimited}
  /\ \A f \in d.done : Name[f] \in DOMAIN d.latest

Places == {"idle", "erase", "unmark", "open", "skim", "full", "load", "finish",
           "claim", "parse", "clear"}

\* From one of these places a process goes on to store a new tree.
Away == {"unmark", "skim", "full", "clear", "load"}

\* An open transaction adds names and leaves the flag alone, and only that of
\* the builder, between two of its batches, takes instances away.
LockOK ==
  /\ lock \in Procs \cup {NoProc}
  /\ lock = NoProc => tx = db
  /\ \A p \in Procs : lock = p => pc[p] # "idle"
  /\ DOMAIN db.latest \subseteq DOMAIN tx.latest
  /\ tx.insts \subseteq db.insts /\ tx.complete = db.complete
  /\ lock # Builder => tx.insts = db.insts
  /\ lock = Builder => pc[Builder] \in {"skim", "full"}
  /\ pc \in [Procs -> Places]

\* What a deepen has loaded when it looks for its sources.
ModsTyped(mods) ==
  \A n \in DOMAIN mods :
    mods[n].file \in Files /\ Name[mods[n].file] = n /\ mods[n].kids \subseteq Names

JobTyped(j) ==
  /\ j = [path |-> j.path, hops |-> j.hops, deepened |-> j.deepened, depth |-> j.depth,
          mods |-> j.mods, known |-> j.known, before |-> j.before, alone |-> j.alone]
  /\ j.path \in Paths /\ j.hops \in Nat \cup {Unlimited} /\ j.deepened \subseteq Paths

JobsTyped(jobs) ==
  jobs = [d \in Deepeners |-> jobs[d]] /\ \A d \in Deepeners : JobTyped(jobs[d])

JobOK ==
  /\ JobsTyped(job)
  /\ \A d \in Deepeners : pc[d] = "parse" => ModsTyped(job[d].mods)

Building == pc[Builder] \in {"skim", "full", "load"}
Seen == IF lock = Builder THEN tx ELSE db

RunFields == {"mode", "depth", "done", "mods", "skim", "full", "total"}

\* The builder knows the modules of every file it has done, in memory and in
\* the tables it sees; the file of the top is done or in a batch to come.
RunOK ==
  /\ run = [k \in RunFields |-> run[k]]
  /\ run.depth \in Depths \cup {Unlimited}
  /\ run.done \subseteq Files
  /\ \A chunk \in run.skim \cup run.full : chunk \subseteq Files
  /\ Building =>
       /\ \A f \in run.done : Name[f] \in DOMAIN run.mods /\ Name[f] \in DOMAIN Seen.latest
       /\ FirstFile(Top) \in run.done \cup (UNION run.skim) \cup (UNION run.full)
  /\ pc[Builder] \in {"full", "load"} => run.skim = {}
  /\ pc[Builder] = "load" => run.full = {}

\* The top is there as soon as the builder goes to mark the index complete.
TreeOK ==
  (db.complete \/ pc[Builder] = "finish") /\ <<Top>> \notin db.insts =>
    lapsed \/ \E p \in Procs : pc[p] \in Away

Inv == DbOK(db) /\ DbOK(tx) /\ LockOK /\ JobOK /\ RunOK /\ TreeOK

\* Where no two files share a name every row keeps the children of its file.
Faithful ==
  /\ \A f \in DOMAIN db.rows : db.rows[f].kids = Kids[f]
  /\ \A f \in DOMAIN tx.rows : tx.rows[f].kids = Kids[f]
-----------------------------------------------------------------------------
(***************************************************************************)
(* Numbers, and definitions by recursion on them.  The operators below     *)
(* recur on a number of levels; a set that holds 0 and the successor of    *)
(* each of its members is Nat, since a family of finite sets has a         *)
(* minimal member.                                                         *)
(***************************************************************************)
LEMMA LowestIsIn ==
  ASSUME NEW S \in SUBSET Nat, S # {}
  PROVE  Lowest(S) \in S /\ \A i \in S : Lowest(S) <= i
<1>1. PICK n \in S : TRUE
  OBVIOUS
<1> DEFINE U == 0 .. n
           T == {0 .. k : k \in {j \in S : j <= n}}
<1>2. T \subseteq SUBSET U /\ T # {}
  OBVIOUS
<1>3. IsWellFoundedOn(StrictSubsetOrdering(U), FiniteSubsetsOf(U))
  BY FS_StrictSubsetOrderingWellFounded
<1>4. T \subseteq FiniteSubsetsOf(U)
  <2>1. IsFiniteSet(U)
    BY FS_Interval
  <2>2. QED
    BY <1>2, <2>1, FS_FiniteSubsetsOfFinite
<1> HIDE DEF T, U
<1>5. PICK X \in T : \A Y \in T : ~(<<Y, X>> \in StrictSubsetOrdering(U))
  BY <1>2, <1>3, <1>4, WFMin
<1>6. PICK x \in S : X = 0 .. x /\ x <= n
  BY DEF T
<1>7. ASSUME NEW y \in S, y < x PROVE FALSE
  <2>1. 0 .. y \in T
    BY <1>6, <1>7 DEF T
  <2>2. 0 .. y \subseteq 0 .. x /\ 0 .. y # 0 .. x
    BY <1>7
  <2>3. X \in SUBSET U /\ 0 .. y \in SUBSET U
    BY <1>2, <2>1
  <2>4. <<0 .. y, X>> \in StrictSubsetOrdering(U)
    BY <1>6, <2>2, <2>3 DEF StrictSubsetOrdering
  <2>5. QED
    BY <1>5, <2>1, <2>4
<1>8. \E i \in S : \A j \in S : i <= j
  BY <1>7
<1>9. QED
  BY <1>8 DEF Lowest

LEMMA HighestIsIn ==
  ASSUME NEW S \in SUBSET Nat, S # {}, IsFiniteSet(S)
  PROVE  Highest(S) \in S
<1> DEFINE T == {{j \in S : k < j} : k \in S}
<1>1. T \subseteq SUBSET S /\ T # {}
  OBVIOUS
<1>2. IsWellFoundedOn(StrictSubsetOrdering(S), FiniteSubsetsOf(S))
  BY FS_StrictSubsetOrderingWellFounded
<1>3. T \subseteq FiniteSubsetsOf(S)
  BY <1>1, FS_FiniteSubsetsOfFinite
<1> HIDE DEF T
<1>4. PICK X \in T : \A Y \in T : ~(<<Y, X>> \in StrictSubsetOrdering(S))
  BY <1>1, <1>2, <1>3, WFMin
<1>5. PICK x \in S : X = {j \in S : x < j}
  BY DEF T
<1>6. ASSUME NEW y \in S, x < y PROVE FALSE
  <2> DEFINE Y == {j \in S : y < j}
  <2>1. Y \in T
    BY DEF T
  <2>2. Y \subseteq X /\ Y # X
    <3>1. Y \subseteq X
      <4>1. ASSUME NEW j \in S, y < j PROVE x < j
        <5>1. x \in Nat /\ y \in Nat /\ j \in Nat
          BY <1>6
        <5>2. QED
          BY <1>6, <4>1, <5>1
      <4>2. QED
        BY <1>5, <4>1
    <3>2. y \in X /\ y \notin Y
      BY <1>5, <1>6
    <3>3. QED
      BY <3>1, <3>2
  <2>3. X \in SUBSET S /\ Y \in SUBSET S
    BY <1>1, <2>1
  <2> HIDE DEF Y
  <2>4. <<Y, X>> \in StrictSubsetOrdering(S)
    BY <2>2, <2>3 DEF StrictSubsetOrdering
  <2>5. QED
    BY <1>4, <2>1, <2>4
<1>7. \E i \in S : \A j \in S : i >= j
  BY <1>6
<1>8. QED
  BY <1>7 DEF Highest

LEMMA SetInduction ==
  ASSUME NEW S, 0 \in S, \A k \in Nat : k \in S => k + 1 \in S
  PROVE  \A k \in Nat : k \in S
<1> SUFFICES ASSUME NEW k \in Nat, k \notin S PROVE FALSE
  OBVIOUS
<1> DEFINE R == {j \in Nat : j \notin S}
           i == Lowest(R)
<1>1. R \in SUBSET Nat /\ k \in R
  OBVIOUS
<1> HIDE DEF R
<1>2. i \in R /\ \A j \in R : i <= j
  BY <1>1, LowestIsIn
<1> HIDE DEF i
<1>3. i \in Nat /\ i \notin S /\ i # 0
  BY <1>2 DEF R
<1>4. i - 1 \in Nat /\ i - 1 \in S
  <2>1. i - 1 \in Nat /\ ~(i <= i - 1)
    BY <1>3
  <2>2. QED
    BY <1>2, <2>1 DEF R
<1>5. (i - 1) + 1 = i
  BY <1>3
<1>6. QED
  BY <1>3, <1>4, <1>5

\* A step h and a start a have a function of their iterations.
Iterates(f, U, a, h) == f \in [Nat -> U] /\ f[0] = a /\ \A n \in Nat : f[n + 1] = h[f[n]]

LEMMA RecursionHolds ==
  ASSUME NEW U, NEW a \in U, NEW h \in [U -> U]
  PROVE  \E f : Iterates(f, U, a, h)
<1> DEFINE Part(n, f) == /\ f \in [0 .. n -> U] /\ f[0] = a
                         /\ \A k \in Nat : k < n => f[k + 1] = h[f[k]]
           S == {n \in Nat : \E f : Part(n, f)}
<1>1. \A n \in Nat : n \in S
  <2>1. 0 \in S
    <3>1. Part(0, [k \in 0 .. 0 |-> a])
      OBVIOUS
    <3>2. QED
      BY <3>1
  <2>2. ASSUME NEW n \in Nat, n \in S PROVE n + 1 \in S
    <3>1. PICK f : Part(n, f)
      BY <2>2
    <3> DEFINE g == [k \in 0 .. n + 1 |-> IF k = n + 1 THEN h[f[n]] ELSE f[k]]
    <3>2. f[n] \in U
      BY <3>1
    <3>3. g \in [0 .. n + 1 -> U]
      BY <3>1, <3>2
    <3>4. g[0] = a
      BY <3>1
    <3>5. ASSUME NEW k \in Nat, k < n + 1 PROVE g[k + 1] = h[g[k]]
      <4>1. CASE k = n
        BY <4>1
      <4>2. CASE k < n
        BY <4>2, <3>1
      <4>3. QED
        BY <3>5, <4>1, <4>2
    <3>6. Part(n + 1, g) /\ n + 1 \in Nat
      BY <3>3, <3>4, <3>5
    <3> HIDE DEF Part, g
    <3>7. QED
      BY <3>6
  <2> HIDE DEF S
  <2>3. QED
    BY <2>1, <2>2, SetInduction
<1>2. ASSUME NEW n \in Nat, NEW m \in Nat, NEW f, NEW g, Part(n, f), Part(m, g)
      PROVE  \A k \in Nat : k <= n /\ k <= m => f[k] = g[k]
  <2> DEFINE W == {k \in Nat : k <= n /\ k <= m => f[k] = g[k]}
  <2>1. 0 \in W
    BY <1>2
  <2>2. ASSUME NEW k \in Nat, k \in W PROVE k + 1 \in W
    BY <1>2, <2>2
  <2> HIDE DEF W
  <2>3. \A k \in Nat : k \in W
    BY <2>1, <2>2, SetInduction
  <2>4. QED
    BY <2>3 DEF W
<1> DEFINE at(n) == CHOOSE f : Part(n, f)
           F == [n \in Nat |-> at(n)[n]]
<1>3. \A n \in Nat : Part(n, at(n))
  BY <1>1
<1> HIDE DEF at
<1>4. F \in [Nat -> U] /\ F[0] = a
  BY <1>3
<1>5. ASSUME NEW n \in Nat PROVE F[n + 1] = h[F[n]]
  <2>1. n + 1 \in Nat /\ Part(n + 1, at(n + 1)) /\ Part(n, at(n))
    BY <1>3
  <2>2. at(n + 1)[n + 1] = h[at(n + 1)[n]]
    BY <2>1
  <2>3. at(n + 1)[n] = at(n)[n]
    <3> HIDE DEF Part
    <3>1. QED
      BY <1>2, <2>1
  <2>4. QED
    BY <2>1, <2>2, <2>3
<1> HIDE DEF F
<1>6. QED
  BY <1>4, <1>5 DEF Iterates
-----------------------------------------------------------------------------
(***************************************************************************)
(* The design and its paths.                                               *)
(***************************************************************************)
LEMMA FilesAreFinite == \A S \in SUBSET Files : IsFiniteSet(S) /\ S \subseteq Nat
BY FS_Subset, DesignAssumption

LEMMA NamesAreFinite == Cardinality(Names) \in Nat
<1> DEFINE f == [x \in Files |-> Name[x]]
<1>1. f \in Surjection(Files, Names)
  BY DEF Surjection, Names
<1> HIDE DEF f
<1>2. IsFiniteSet(Names)
  BY <1>1, FS_Surjection, DesignAssumption
<1>3. QED
  BY <1>2, FS_CardinalityType

LEMMA FirstFileIs ==
  ASSUME NEW n \in Names
  PROVE  FirstFile(n) \in Files /\ Name[FirstFile(n)] = n
<1> DEFINE S == {f \in Files : Name[f] = n}
<1>1. S # {} /\ S \in SUBSET Nat
  BY DesignAssumption DEF Names
<1> HIDE DEF S
<1>2. Lowest(S) \in S
  BY <1>1, LowestIsIn
<1>3. FirstFile(n) = Lowest(S)
  BY DEF FirstFile, S
<1>4. QED
  BY <1>2, <1>3 DEF S

LEMMA KidsAreNames == \A n : AllKids(n) \subseteq Names
BY DesignAssumption DEF AllKids
-----------------------------------------------------------------------------
(***************************************************************************)
(* The instance paths: the chains of modules from the top, as long as the  *)
(* design has names.                                                       *)
(***************************************************************************)
PathsFrom(f) ==
  f = [k \in Nat |->
         IF k = 0 THEN {<<Top>>}
         ELSE f[k - 1] \cup UNION {{Append(p, n) : n \in AllKids(Last(p))} : p \in f[k - 1]}]

Chain(p, most) ==
  /\ p \in Seq(Names) /\ Len(p) \in 1 .. most /\ p[1] = Top
  /\ \A i \in 1 .. Len(p) - 1 : p[i + 1] \in AllKids(p[i])

Chains(most) == {p \in Seq(Names) : Chain(p, most)}

Longer(X) == UNION {{Append(p, n) : n \in AllKids(Last(p))} : p \in X}

LEMMA PathsFromExists == \E f : PathsFrom(f)
<1> DEFINE U == SUBSET Seq(Names)
           a == {<<Top>>}
           h == [X \in U |-> X \cup Longer(X)]
<1>1. a \in U
  BY DesignAssumption
<1>2. ASSUME NEW X \in U PROVE Longer(X) \in U
  <2> SUFFICES ASSUME NEW p \in X, NEW n \in AllKids(Last(p))
               PROVE  Append(p, n) \in Seq(Names)
    BY DEF Longer
  <2>1. p \in Seq(Names) /\ n \in Names
    BY KidsAreNames
  <2>2. QED
    BY <2>1
<1>3. h \in [U -> U]
  BY <1>2
<1>4. PICK g \in [Nat -> U] : g[0] = a /\ \A k \in Nat : g[k + 1] = h[g[k]]
  <2> HIDE DEF U, a, h
  <2>1. PICK f : Iterates(f, U, a, h)
    BY <1>1, <1>3, RecursionHolds
  <2>2. QED
    BY <2>1 DEF Iterates
<1>5. ASSUME NEW k \in Nat
      PROVE  g[k] = IF k = 0 THEN {<<Top>>} ELSE g[k - 1] \cup Longer(g[k - 1])
  <2>1. CASE k = 0
    BY <1>4, <2>1
  <2>2. CASE k # 0
    <3>1. k - 1 \in Nat /\ (k - 1) + 1 = k
      BY <2>2
    <3>2. g[k] = h[g[k - 1]] /\ g[k - 1] \in U
      BY <1>4, <3>1
    <3>3. QED
      BY <2>2, <3>2
  <2>3. QED
    BY <2>1, <2>2
<1> HIDE DEF h, U, a
<1>6. PathsFrom(g)
  BY <1>4, <1>5 DEF PathsFrom, Longer
<1>7. QED
  BY <1>6

LEMMA PathsByLevels ==
  ASSUME \E f : PathsFrom(f)
  PROVE  \E f : PathsFrom(f) /\ Paths = f[Cardinality(Names)]
BY DEF Paths, PathsFrom

LEMMA LongerChains ==
  ASSUME NEW k \in Nat
  PROVE  Chains(k + 1) \cup Longer(Chains(k + 1)) = Chains(k + 2)
<1>1. ASSUME NEW p \in Chains(k + 1), NEW n \in AllKids(Last(p))
      PROVE  Append(p, n) \in Chains(k + 2)
  <2> DEFINE s == Append(p, n)
  <2>1. p \in Seq(Names) /\ Len(p) \in 1 .. k + 1 /\ p[1] = Top /\ n \in Names
        /\ \A i \in 1 .. Len(p) - 1 : p[i + 1] \in AllKids(p[i])
    BY KidsAreNames DEF Chains, Chain
  <2>2. s \in Seq(Names) /\ Len(s) = Len(p) + 1 /\ s[Len(p) + 1] = n
        /\ \A i \in 1 .. Len(p) : s[i] = p[i]
    BY <2>1
  <2> HIDE DEF s
  <2>3. s[1] = Top /\ Len(s) \in 1 .. k + 2
    BY <2>1, <2>2
  <2>4. ASSUME NEW i \in 1 .. Len(s) - 1 PROVE s[i + 1] \in AllKids(s[i])
    <3>1. CASE i = Len(p)
      BY <2>1, <2>2, <3>1 DEF Last
    <3>2. CASE i # Len(p)
      <4>1. i \in 1 .. Len(p) - 1 /\ i \in 1 .. Len(p) /\ i + 1 \in 1 .. Len(p)
        BY <2>1, <2>2, <3>2
      <4>2. QED
        BY <2>1, <2>2, <4>1
    <3>3. QED
      BY <3>1, <3>2
  <2>5. QED
    BY <2>2, <2>3, <2>4 DEF s, Chains, Chain
<1>2. Chains(k + 1) \subseteq Chains(k + 2)
  BY DEF Chains, Chain
<1>3. ASSUME NEW s \in Chains(k + 2), s \notin Chains(k + 1)
      PROVE  \E p \in Chains(k + 1) : \E n \in AllKids(Last(p)) : s = Append(p, n)
  <2>1. s \in Seq(Names) /\ Len(s) = k + 2 /\ s[1] = Top
        /\ \A i \in 1 .. Len(s) - 1 : s[i + 1] \in AllKids(s[i])
    BY <1>3 DEF Chains, Chain
  <2> DEFINE p == SubSeq(s, 1, k + 1)
             n == s[k + 2]
  <2>2. p \in Seq(Names) /\ Len(p) = k + 1 /\ \A i \in 1 .. k + 1 : p[i] = s[i]
    BY <2>1
  <2>3. n \in Names /\ s = Append(p, n)
    <3>1. n \in Names
      BY <2>1
    <3>2. Append(p, n) \in Seq(Names) /\ Len(Append(p, n)) = k + 2
          /\ \A i \in 1 .. k + 2 : Append(p, n)[i] = s[i]
      BY <2>2, <3>1
    <3>3. QED
      BY <2>1, <3>1, <3>2, SeqEqual
  <2> HIDE DEF p, n
  <2>4. n \in AllKids(Last(p))
    <3>1. s[(k + 1) + 1] \in AllKids(s[k + 1])
      BY <2>1
    <3>2. Last(p) = s[k + 1] /\ n = s[(k + 1) + 1]
      BY <2>2 DEF Last, n
    <3>3. QED
      BY <3>1, <3>2
  <2>5. p \in Chains(k + 1)
    <3>1. ASSUME NEW i \in 1 .. Len(p) - 1 PROVE p[i + 1] \in AllKids(p[i])
      BY <2>1, <2>2
    <3>2. QED
      BY <2>1, <2>2, <3>1 DEF Chains, Chain
  <2>6. QED
    BY <2>3, <2>4, <2>5
<1>4. ASSUME NEW s PROVE s \in Longer(Chains(k + 1)) =>
                           \E p \in Chains(k + 1) : \E n \in AllKids(Last(p)) : s = Append(p, n)
  BY DEF Longer
<1>5. ASSUME NEW s, NEW p \in Chains(k + 1), NEW n \in AllKids(Last(p)), s = Append(p, n)
      PROVE  s \in Longer(Chains(k + 1))
  BY <1>5 DEF Longer
<1>6. ASSUME NEW s PROVE s \in Chains(k + 1) \/ s \in Longer(Chains(k + 1)) <=> s \in Chains(k + 2)
  <2>1. ASSUME s \in Longer(Chains(k + 1)) PROVE s \in Chains(k + 2)
    <3>1. PICK p \in Chains(k + 1) : \E n \in AllKids(Last(p)) : s = Append(p, n)
      BY <1>4, <2>1
    <3>2. QED
      BY <1>1, <3>1
  <2>2. s \in Chains(k + 2) => s \in Chains(k + 1) \/ s \in Longer(Chains(k + 1))
    BY <1>3, <1>5
  <2>3. QED
    BY <1>2, <2>1, <2>2
<1>7. QED
  BY <1>6

LEMMA PathsAreChains == Paths = Chains(Cardinality(Names) + 1)
<1>1. PICK f : PathsFrom(f) /\ Paths = f[Cardinality(Names)]
  BY PathsFromExists, PathsByLevels
<1> DEFINE S == {k \in Nat : f[k] = Chains(k + 1)}
<1>2. 0 \in S
  <2>1. f[0] = {<<Top>>}
    BY <1>1 DEF PathsFrom
  <2>2. <<Top>> \in Chains(1)
    BY DesignAssumption DEF Chains, Chain
  <2>3. ASSUME NEW p \in Chains(1) PROVE p = <<Top>>
    <3>1. p \in Seq(Names) /\ Len(p) = 1 /\ p[1] = Top
      BY DEF Chains, Chain
    <3>2. QED
      BY <3>1
  <2>4. QED
    BY <2>1, <2>2, <2>3
<1>3. ASSUME NEW k \in Nat, k \in S PROVE k + 1 \in S
  <2>1. f[k + 1] = f[k] \cup Longer(f[k])
    <3>1. k + 1 \in Nat /\ k + 1 # 0 /\ (k + 1) - 1 = k
      OBVIOUS
    <3>2. QED
      BY <1>1, <3>1 DEF PathsFrom, Longer
  <2>2. (k + 1) + 1 = k + 2
    OBVIOUS
  <2>3. QED
    BY <1>3, <2>1, <2>2, LongerChains
<1> HIDE DEF S
<1>4. \A k \in Nat : k \in S
  BY <1>2, <1>3, SetInduction
<1>5. QED
  BY <1>1, <1>4, NamesAreFinite DEF S

\* A path starts with the top, and its last member is a module of the design.
LEMMA PathsAre == <<Top>> \in Paths /\ \A p \in Paths : Last(p) \in Names
<1>1. <<Top>> \in Chains(Cardinality(Names) + 1)
  BY DesignAssumption, NamesAreFinite DEF Chains, Chain
<1>2. \A p \in Chains(Cardinality(Names) + 1) : Last(p) \in Names
  BY DEF Chains, Chain, Last
<1>3. QED
  BY <1>1, <1>2, PathsAreChains

\* What a path is made of.
LEMMA PathIs ==
  ASSUME NEW p \in Paths
  PROVE  /\ p \in Seq(Names) /\ Len(p) \in Nat \ {0} /\ Len(p) <= Cardinality(Names) + 1
         /\ p[1] = Top
         /\ \A i \in 1 .. Len(p) - 1 : p[i + 1] \in AllKids(p[i])
BY PathsAreChains, NamesAreFinite DEF Chains, Chain

LEMMA PathOfLenOne ==
  ASSUME NEW p \in Paths, Len(p) = 1
  PROVE  p = <<Top>>
BY PathIs

\* The first part of a path is one, down to the top.
LEMMA PathsAreClosed ==
  ASSUME NEW p \in Paths, NEW i \in 1 .. Len(p)
  PROVE  /\ SubSeq(p, 1, i) \in Paths /\ Len(SubSeq(p, 1, i)) = i
         /\ Last(SubSeq(p, 1, i)) = p[i]
         /\ \A k \in 1 .. i : SubSeq(p, 1, i)[k] = p[k]
<1> DEFINE q == SubSeq(p, 1, i)
<1>1. /\ p \in Seq(Names) /\ Len(p) \in Nat /\ Len(p) <= Cardinality(Names) + 1
      /\ p[1] = Top /\ \A k \in 1 .. Len(p) - 1 : p[k + 1] \in AllKids(p[k])
  BY PathIs
<1>2. q \in Seq(Names) /\ Len(q) = i /\ \A k \in 1 .. i : q[k] = p[k]
  BY <1>1
<1> HIDE DEF q
<1>3. \A k \in 1 .. Len(q) - 1 : q[k + 1] \in AllKids(q[k])
  BY <1>1, <1>2
<1>4. Len(q) \in 1 .. Cardinality(Names) + 1 /\ q[1] = Top
  BY <1>1, <1>2, NamesAreFinite
<1>5. q \in Paths
  BY <1>2, <1>3, <1>4, PathsAreChains DEF Chains, Chain
<1>6. Last(q) = p[i]
  BY <1>1, <1>2 DEF Last
<1>7. QED
  BY <1>2, <1>5, <1>6 DEF q

LEMMA AboveIs ==
  ASSUME NEW p \in Paths, NEW q \in Above(p)
  PROVE  /\ q \in Paths /\ Len(q) \in 1 .. Len(p) - 1 /\ q = SubSeq(p, 1, Len(q))
         /\ Last(q) = p[Len(q)]
<1>1. PICK i \in 1 .. Len(p) - 1 : q = SubSeq(p, 1, i)
  BY DEF Above
<1>2. i \in 1 .. Len(p)
  BY PathIs
<1>3. QED
  BY <1>1, <1>2, PathsAreClosed

\* What is above a part of a path is above the path.
LEMMA AboveOfAbove ==
  ASSUME NEW p \in Paths, NEW q \in Above(p)
  PROVE  Above(q) \subseteq Above(p)
<1>1. /\ q \in Paths /\ Len(q) \in 1 .. Len(p) - 1 /\ q = SubSeq(p, 1, Len(q))
  BY AboveIs
<1>2. p \in Seq(Names) /\ q \in Seq(Names) /\ Len(p) \in Nat /\ Len(q) \in 1 .. Len(p)
  BY <1>1, PathIs
<1>3. ASSUME NEW i \in 1 .. Len(q) - 1 PROVE SubSeq(q, 1, i) = SubSeq(p, 1, i)
  <2>1. i \in 1 .. Len(p) /\ i \in 1 .. Len(q)
    BY <1>2
  <2>2. SubSeq(p, 1, i) \in Seq(Names) /\ Len(SubSeq(p, 1, i)) = i
        /\ SubSeq(q, 1, i) \in Seq(Names) /\ Len(SubSeq(q, 1, i)) = i
    BY <1>1, <2>1, PathsAreClosed, PathIs
  <2>3. \A k \in 1 .. i : SubSeq(p, 1, i)[k] = p[k] /\ SubSeq(q, 1, i)[k] = q[k]
    BY <1>1, <2>1, PathsAreClosed
  <2>4. \A k \in 1 .. Len(q) : q[k] = p[k]
    BY <1>1, <1>2, PathsAreClosed
  <2>5. \A k \in 1 .. i : q[k] = p[k]
    BY <1>2, <2>4
  <2>6. QED
    BY <2>2, <2>3, <2>5, SeqEqual
<1>4. ASSUME NEW s \in Above(q) PROVE s \in Above(p)
  <2>1. PICK i \in 1 .. Len(q) - 1 : s = SubSeq(q, 1, i)
    BY DEF Above
  <2>2. i \in 1 .. Len(p) - 1 /\ s = SubSeq(p, 1, i)
    BY <1>1, <1>2, <1>3, <2>1
  <2>3. QED
    BY <2>2 DEF Above
<1>5. QED
  BY <1>4

LEMMA FrontIs ==
  ASSUME NEW p \in Paths, p # <<Top>>
  PROVE  /\ Front(p) \in Paths /\ Len(Front(p)) = Len(p) - 1
         /\ Front(p) \in Above(p) /\ Above(Front(p)) \subseteq Above(p)
<1>1. Len(p) \in Nat /\ Len(p) - 1 \in 1 .. Len(p)
  <2>1. Len(p) \in Nat \ {0}
    BY PathIs
  <2>2. Len(p) # 1
    BY PathOfLenOne
  <2> DEFINE len == Len(p)
  <2>3. len \in Nat \ {0} /\ len # 1
    BY <2>1, <2>2
  <2> HIDE DEF len
  <2>4. len \in Nat /\ len - 1 \in 1 .. len
    BY <2>3
  <2>5. QED
    BY <2>4 DEF len
<1>2. Front(p) \in Paths /\ Len(Front(p)) = Len(p) - 1
  BY <1>1, PathsAreClosed DEF Front
<1>3. Front(p) \in Above(p)
  BY <1>1 DEF Front, Above
<1>4. Above(Front(p)) \subseteq Above(p)
  BY <1>3, AboveOfAbove
<1>5. QED
  BY <1>2, <1>3, <1>4

LEMMA LastOfTop == Above(<<Top>>) = {} /\ Last(<<Top>>) = Top /\ DOMAIN <<Top>> = 1 .. 1
BY DEF Above, Last

\* Whatever the depth policy, the file of the top is wanted.
LEMMA WantedAre ==
  ASSUME NEW depth
  PROVE  /\ Wanted(depth).full \subseteq Files /\ Wanted(depth).skim \subseteq Files
         /\ FirstFile(Top) \in Wanted(depth).full \cup Wanted(depth).skim
<1>1. FirstFile(Top) \in Files /\ \A p \in Paths : FirstFile(Last(p)) \in Files
  BY FirstFileIs, PathsAre, DesignAssumption
<1>2. CASE depth = Unlimited
  BY <1>1, <1>2 DEF Wanted
<1>3. CASE depth # Unlimited
  <2>1. Wanted(depth) = Classified(depth)
    BY <1>3 DEF Wanted
  <2>2. \E R, F : /\ <<Top>> \in R /\ R \subseteq Paths /\ F \subseteq R
                  /\ Classified(depth).full = {FirstFile(Last(p)) : p \in F}
                  /\ Classified(depth).skim =
                       {FirstFile(Last(p)) : p \in R} \ {FirstFile(Last(p)) : p \in F}
    BY PathsAre, LastOfTop DEF Classified
  <2>3. PICK R, F : /\ <<Top>> \in R /\ R \subseteq Paths /\ F \subseteq R
                    /\ Classified(depth).full = {FirstFile(Last(p)) : p \in F}
                    /\ Classified(depth).skim =
                         {FirstFile(Last(p)) : p \in R} \ {FirstFile(Last(p)) : p \in F}
    BY <2>2
  <2>4. Classified(depth).full \subseteq Files /\ Classified(depth).skim \subseteq Files
    BY <1>1, <2>3
  <2>5. FirstFile(Top) \in {FirstFile(Last(p)) : p \in R}
    BY <2>3, LastOfTop
  <2>6. QED
    BY <2>1, <2>3, <2>4, <2>5
<1>4. QED
  BY <1>2, <1>3

LEMMA FlattenAre ==
  ASSUME NEW mods, NEW depth, NEW deepened
  PROVE  /\ Flatten(mods, depth, deepened) \subseteq Paths
         /\ Top \in DOMAIN mods => <<Top>> \in Flatten(mods, depth, deepened)
<1>1. Top \in DOMAIN mods => \A i \in DOMAIN <<Top>> : <<Top>>[i] \in DOMAIN mods
  BY LastOfTop
<1>2. QED
  BY <1>1, PathsAre, LastOfTop DEF Flatten

LEMMA BatchesAre ==
  ASSUME NEW S
  PROVE  UNION Batches(S) = S /\ \A chunk \in Batches(S) : chunk \subseteq S
<1> DEFINE at(f) == Cardinality({g \in S : g < f}) \div BatchSize
           of(f) == {g \in S : at(g) = at(f)}
<1>1. Batches(S) = {of(f) : f \in S}
  BY DEF Batches
<1>2. \A f \in S : f \in of(f) /\ of(f) \subseteq S
  <2> HIDE DEF at
  <2>1. QED
    OBVIOUS
<1> HIDE DEF of
<1>3. QED
  BY <1>1, <1>2
-----------------------------------------------------------------------------
(***************************************************************************)
(* Module records and their tables.                                        *)
(***************************************************************************)
KidsOf(S) == UNION {Kids[f] : f \in S}

\* What merging a batch of a parse or of a skim leaves of each name.
BatchOf(chunk, full, batch) ==
  /\ DOMAIN batch = {Name[f] : f \in chunk}
  /\ \A n \in DOMAIN batch :
       /\ n \in Names /\ batch[n].full = full
       /\ batch[n].files # {}
       /\ \A f \in batch[n].files : f \in chunk /\ Name[f] = n
       /\ batch[n].kids = KidsOf(batch[n].files)

LEMMA IngestedAre ==
  ASSUME NEW chunk \in SUBSET Files, NEW full
  PROVE  BatchOf(chunk, full, Ingested(chunk, full))
<1> DEFINE of(n) == {f \in chunk : Name[f] = n}
           defs(n) == IF full THEN of(n) ELSE {Highest(of(n))}
           made == [n \in {Name[f] : f \in chunk} |->
                      [files |-> defs(n), kids |-> UNION {Kids[f] : f \in defs(n)},
                       full |-> full]]
<1>1. Ingested(chunk, full) = made
  BY DEF Ingested
<1>2. ASSUME NEW n \in {Name[f] : f \in chunk}
      PROVE  n \in Names /\ defs(n) \subseteq of(n) /\ defs(n) # {}
  <2>1. of(n) # {} /\ of(n) \in SUBSET Files /\ n \in Names
    BY DEF Names
  <2> HIDE DEF of
  <2>2. of(n) \in SUBSET Nat /\ IsFiniteSet(of(n))
    BY <2>1, FilesAreFinite
  <2>3. Highest(of(n)) \in of(n)
    BY <2>1, <2>2, HighestIsIn
  <2>4. QED
    BY <2>1, <2>3
<1>3. ASSUME NEW n \in {Name[f] : f \in chunk}
      PROVE  /\ made[n].files = defs(n) /\ made[n].full = full
             /\ made[n].kids = KidsOf(made[n].files)
  <2> HIDE DEF defs
  <2>1. QED
    BY DEF KidsOf
<1>4. DOMAIN made = {Name[f] : f \in chunk}
  OBVIOUS
<1> HIDE DEF made, defs
<1>5. ASSUME NEW n \in {Name[f] : f \in chunk}
      PROVE  /\ n \in Names /\ made[n].full = full
             /\ made[n].files # {}
             /\ \A f \in made[n].files : f \in chunk /\ Name[f] = n
             /\ made[n].kids = KidsOf(made[n].files)
  BY <1>2, <1>3
<1>6. QED
  BY <1>1, <1>4, <1>5 DEF BatchOf

LEMMA MergedAre ==
  ASSUME NEW mods, NEW batch
  PROVE  DOMAIN Merged(mods, batch) = DOMAIN mods \cup DOMAIN batch
BY DEF Merged

\* The rows load_modules writes for a batch, and what it leaves alone.
LatestOf(batch) == [n \in DOMAIN batch |-> Highest(batch[n].files)]
RowsOf(batch) ==
  [f \in UNION {batch[n].files : n \in DOMAIN batch} |->
     [kids |-> IF f = Lowest(batch[Name[f]].files) THEN batch[Name[f]].kids ELSE {},
      full |-> batch[Name[f]].full \/ f # Lowest(batch[Name[f]].files)]]

LEMMA StoredIs ==
  ASSUME NEW d, DbShape(d), NEW batch, NEW lost
  PROVE  Stored(d, batch, lost) =
           [rows |-> Replaced(RowsOf(batch), d.rows),
            latest |-> Replaced(LatestOf(batch), d.latest), insts |-> d.insts \ lost,
            done |-> d.done, complete |-> d.complete, depth |-> d.depth,
            deepened |-> d.deepened]
<1> DEFINE rows == Replaced(RowsOf(batch), d.rows)
           latest == Replaced(LatestOf(batch), d.latest)
           made(r, l, i) == [rows |-> r, latest |-> l, insts |-> i, done |-> d.done,
                             complete |-> d.complete, depth |-> d.depth, deepened |-> d.deepened]
<1>1. Stored(d, batch, lost) = [d EXCEPT !.rows = rows, !.latest = latest,
                                         !.insts = d.insts \ lost]
  <2> DEFINE inline == [f \in UNION {batch[n].files : n \in DOMAIN batch} |->
                          LET n == Name[f]
                          IN [kids |-> IF f = Lowest(batch[n].files) THEN batch[n].kids ELSE {},
                              full |-> batch[n].full \/ f # Lowest(batch[n].files)]]
             newest == [n \in DOMAIN batch |-> Highest(batch[n].files)]
  <2>1. inline = RowsOf(batch) /\ newest = LatestOf(batch)
    BY DEF RowsOf, LatestOf
  <2>2. Stored(d, batch, lost) = [d EXCEPT !.rows = Replaced(inline, @),
                                           !.latest = Replaced(newest, @), !.insts = @ \ lost]
    BY DEF Stored
  <2> HIDE DEF inline, newest
  <2>3. QED
    BY <2>1, <2>2
<1>2. d = made(d.rows, d.latest, d.insts)
  BY DEF DbShape
<1> HIDE DEF rows, latest
<1>3. [d EXCEPT !.rows = rows] = made(rows, d.latest, d.insts)
  BY <1>2
<1>4. [made(rows, d.latest, d.insts) EXCEPT !.latest = latest] = made(rows, latest, d.insts)
  OBVIOUS
<1>5. [made(rows, latest, d.insts) EXCEPT !.insts = d.insts \ lost] =
        made(rows, latest, d.insts \ lost)
  OBVIOUS
<1>6. [d EXCEPT !.rows = rows, !.latest = latest, !.insts = d.insts \ lost] =
        [[[d EXCEPT !.rows = rows] EXCEPT !.latest = latest] EXCEPT !.insts = d.insts \ lost]
  OBVIOUS
<1>7. Stored(d, batch, lost) = made(rows, latest, d.insts \ lost)
  BY <1>1, <1>3, <1>4, <1>5, <1>6
<1>8. QED
  BY <1>7 DEF rows, latest

\* s is d with the files of chunk parsed and the instances of lost gone.
StoredFrom(d, chunk, lost, s) ==
  /\ DbOK(s)
  /\ DOMAIN s.latest = DOMAIN d.latest \cup {Name[f] : f \in chunk}
  /\ s.insts = d.insts \ lost /\ s.done = d.done /\ s.complete = d.complete
  /\ s.depth = d.depth /\ s.deepened = d.deepened

LEMMA StoredOK ==
  ASSUME NEW d, DbOK(d), NEW chunk \in SUBSET Files, NEW full \in BOOLEAN, NEW lost
  PROVE  StoredFrom(d, chunk, lost, Stored(d, Ingested(chunk, full), lost))
<1> DEFINE batch == Ingested(chunk, full)
           s == Stored(d, batch, lost)
           latest == LatestOf(batch)
           rows == RowsOf(batch)
<1>a. BatchOf(chunk, full, batch)
  BY IngestedAre
<1> HIDE DEF batch
<1>1. DOMAIN batch = {Name[f] : f \in chunk}
  BY <1>a DEF BatchOf
<1>2. \A n \in DOMAIN batch :
        /\ n \in Names /\ batch[n].full = full
        /\ batch[n].files # {}
        /\ \A f \in batch[n].files : f \in chunk /\ Name[f] = n
        /\ batch[n].kids = KidsOf(batch[n].files)
  BY <1>a DEF BatchOf
<1>3. /\ DbShape(s)
      /\ s.insts = d.insts \ lost /\ s.done = d.done /\ s.complete = d.complete
      /\ s.depth = d.depth /\ s.deepened = d.deepened
      /\ s.latest = Replaced(latest, d.latest) /\ s.rows = Replaced(rows, d.rows)
  BY StoredIs DEF DbOK, DbShape
<1> HIDE DEF s
<1>4. DOMAIN latest = {Name[f] : f \in chunk} /\ \A n \in DOMAIN latest : n \in Names
  BY <1>1, <1>2 DEF LatestOf
<1>5. DOMAIN rows = UNION {batch[n].files : n \in DOMAIN batch}
  BY DEF RowsOf
<1>6. \A f \in DOMAIN rows :
        f \in Files /\ Name[f] \in DOMAIN batch /\ f \in batch[Name[f]].files
  <2> SUFFICES ASSUME NEW n \in DOMAIN batch, NEW f \in batch[n].files
               PROVE  f \in Files /\ Name[f] \in DOMAIN batch /\ f \in batch[Name[f]].files
    BY <1>5
  <2>1. QED
    BY <1>2
<1>7. \A n \in DOMAIN batch : batch[n].kids \subseteq Names
  <2> SUFFICES ASSUME NEW n \in DOMAIN batch, NEW f \in batch[n].files
               PROVE  Kids[f] \subseteq Names
    BY <1>2 DEF KidsOf
  <2>1. f \in Files
    BY <1>2
  <2>2. QED
    BY <2>1, DesignAssumption
<1>8. ASSUME NEW f \in DOMAIN rows PROVE rows[f] \in [kids : SUBSET Names, full : BOOLEAN]
  <2>1. batch[Name[f]].kids \in SUBSET Names /\ batch[Name[f]].full \in BOOLEAN
    BY <1>2, <1>6, <1>7
  <2>2. QED
    BY <2>1 DEF RowsOf
<1>9. ASSUME NEW n \in DOMAIN latest
      PROVE  latest[n] \in DOMAIN rows /\ Name[latest[n]] = n
  <2>1. n \in DOMAIN batch /\ latest[n] = Highest(batch[n].files)
    BY DEF LatestOf
  <2>2. batch[n].files \in SUBSET Files /\ batch[n].files # {}
    BY <1>2, <2>1
  <2>3. Highest(batch[n].files) \in batch[n].files
    BY <2>2, FilesAreFinite, HighestIsIn
  <2>4. QED
    BY <1>2, <1>5, <2>1, <2>3
<1> HIDE DEF latest, rows
<1>10. DOMAIN s.rows = DOMAIN rows \cup DOMAIN d.rows
       /\ DOMAIN s.latest = DOMAIN latest \cup DOMAIN d.latest
  BY <1>3 DEF Replaced
<1>11. \A f \in DOMAIN s.rows : s.rows[f] \in [kids : SUBSET Names, full : BOOLEAN]
  <2> TAKE f \in DOMAIN s.rows
  <2>1. CASE f \in DOMAIN rows
    BY <1>3, <1>8, <2>1 DEF Replaced
  <2>2. CASE f \in DOMAIN d.rows \ DOMAIN rows
    BY <1>3, <2>2 DEF DbOK, Replaced
  <2>3. QED
    BY <1>10, <2>1, <2>2
<1>12. \A n \in DOMAIN s.latest : s.latest[n] \in DOMAIN s.rows /\ Name[s.latest[n]] = n
  <2> TAKE n \in DOMAIN s.latest
  <2>1. CASE n \in DOMAIN latest
    BY <1>3, <1>9, <1>10, <2>1 DEF Replaced
  <2>2. CASE n \in DOMAIN d.latest \ DOMAIN latest
    BY <1>3, <1>10, <2>2 DEF DbOK, Replaced
  <2>3. QED
    BY <1>10, <2>1, <2>2
<1>13. DbOK(s)
  BY <1>3, <1>4, <1>6, <1>10, <1>11, <1>12 DEF DbOK
<1>14. QED
  <2>1. StoredFrom(d, chunk, lost, s)
    BY <1>3, <1>4, <1>10, <1>13 DEF StoredFrom
  <2>2. QED
    BY <2>1 DEF batch, s

\* A name with one file keeps that file's children in its row.
LEMMA StoredFaithful ==
  ASSUME OneDefinition, NEW d, DbOK(d), NEW chunk \in SUBSET Files, NEW full \in BOOLEAN,
         NEW lost, \A f \in DOMAIN d.rows : d.rows[f].kids = Kids[f]
  PROVE  LET s == Stored(d, Ingested(chunk, full), lost)
         IN \A f \in DOMAIN s.rows : s.rows[f].kids = Kids[f]
<1> DEFINE batch == Ingested(chunk, full)
           s == Stored(d, batch, lost)
           rows == RowsOf(batch)
<1>a. BatchOf(chunk, full, batch)
  BY IngestedAre
<1> HIDE DEF batch
<1>1. \A n \in DOMAIN batch :
        /\ batch[n].files # {}
        /\ \A f \in batch[n].files : f \in chunk /\ Name[f] = n
        /\ batch[n].kids = KidsOf(batch[n].files)
  BY <1>a DEF BatchOf
<1>2. s.rows = Replaced(rows, d.rows)
  BY StoredIs DEF DbOK
<1> HIDE DEF s
<1>3. DOMAIN rows = UNION {batch[n].files : n \in DOMAIN batch}
  BY DEF RowsOf
<1>4. ASSUME NEW f \in DOMAIN rows PROVE rows[f].kids = Kids[f]
  <2>1. PICK n \in DOMAIN batch : f \in batch[n].files
    BY <1>3
  <2>2. n = Name[f] /\ f \in Files
    BY <1>1, <2>1
  <2>3. batch[n].files = {f}
    <3>1. \A g \in batch[n].files : g \in Files /\ Name[g] = n
      BY <1>1
    <3>2. \A g \in batch[n].files : g = f
      BY <2>2, <3>1 DEF OneDefinition
    <3>3. QED
      BY <2>1, <3>2
  <2>4. batch[n].kids = Kids[f]
    <3>1. KidsOf({f}) = Kids[f]
      BY DEF KidsOf
    <3>2. QED
      BY <1>1, <2>3, <3>1
  <2>5. Lowest(batch[n].files) = f
    <3>1. batch[n].files \in SUBSET Nat /\ batch[n].files # {}
      BY <2>2, <2>3, DesignAssumption
    <3>2. QED
      BY <2>3, <3>1, LowestIsIn
  <2>6. QED
    BY <2>2, <2>4, <2>5 DEF RowsOf
<1> HIDE DEF rows
<1>5. \A f \in DOMAIN s.rows : s.rows[f].kids = Kids[f]
  BY <1>2, <1>4 DEF Replaced
<1>6. QED
  BY <1>5 DEF s, batch

LEMMA LoadAllIs ==
  ASSUME NEW d, DbOK(d)
  PROVE  DOMAIN LoadAll(d) = DOMAIN d.latest /\ ModsTyped(LoadAll(d))
<1>1. DOMAIN LoadAll(d) = DOMAIN d.latest
  BY DEF LoadAll
<1>2. ASSUME NEW n \in DOMAIN d.latest
      PROVE  /\ LoadAll(d)[n].file \in Files /\ Name[LoadAll(d)[n].file] = n
             /\ LoadAll(d)[n].kids \subseteq Names
  <2>1. LoadAll(d)[n].file = d.latest[n] /\ LoadAll(d)[n].kids = d.rows[d.latest[n]].kids
    BY DEF LoadAll
  <2>2. d.latest[n] \in Files /\ Name[d.latest[n]] = n
        /\ d.rows[d.latest[n]] \in [kids : SUBSET Names, full : BOOLEAN]
    BY DEF DbOK
  <2>3. QED
    BY <2>1, <2>2
<1>3. QED
  BY <1>1, <1>2 DEF ModsTyped

ReachFrom(f, mods, n) ==
  f = [k \in Nat |->
         IF k = 0 THEN {n}
         ELSE f[k - 1] \cup UNION {mods[m].kids : m \in f[k - 1] \cap DOMAIN mods}]

Levels(hops) == IF hops = Unlimited THEN Cardinality(Names) ELSE hops

LEMMA SourcesByLevels ==
  ASSUME NEW mods, NEW n, NEW hops, \E f : ReachFrom(f, mods, n)
  PROVE  \E f : /\ ReachFrom(f, mods, n)
                /\ DeepenSources(mods, n, hops) =
                     {IF m \in DOMAIN mods THEN mods[m].file ELSE FirstFile(m) :
                        m \in f[Levels(hops)]}
BY DEF DeepenSources, ReachFrom, Levels

LEMMA ReachExists ==
  ASSUME NEW mods, ModsTyped(mods), NEW n \in Names
  PROVE  \E f : ReachFrom(f, mods, n)
<1> DEFINE U == SUBSET Names
           a == {n}
           h == [X \in U |-> X \cup UNION {mods[m].kids : m \in X \cap DOMAIN mods}]
<1>1. ASSUME NEW X \in U
      PROVE  UNION {mods[m].kids : m \in X \cap DOMAIN mods} \subseteq Names
  BY DEF ModsTyped
<1>2. a \in U /\ h \in [U -> U]
  BY <1>1
<1>3. PICK g \in [Nat -> U] : g[0] = a /\ \A k \in Nat : g[k + 1] = h[g[k]]
  <2> HIDE DEF U, a, h
  <2>1. PICK f : Iterates(f, U, a, h)
    BY <1>2, RecursionHolds
  <2>2. QED
    BY <2>1 DEF Iterates
<1>4. ASSUME NEW k \in Nat
      PROVE  g[k] = IF k = 0 THEN {n}
                    ELSE g[k - 1] \cup
                         UNION {mods[m].kids : m \in g[k - 1] \cap DOMAIN mods}
  <2>1. CASE k = 0
    BY <1>3, <2>1
  <2>2. CASE k # 0
    <3>1. k - 1 \in Nat /\ (k - 1) + 1 = k
      BY <2>2
    <3>2. g[k] = h[g[k - 1]] /\ g[k - 1] \in U
      BY <1>3, <3>1
    <3>3. QED
      BY <2>2, <3>2
  <2>3. QED
    BY <2>1, <2>2
<1> HIDE DEF h, U, a
<1>5. ReachFrom(g, mods, n)
  BY <1>3, <1>4 DEF ReachFrom
<1>6. QED
  BY <1>5

LEMMA ReachStep ==
  ASSUME NEW f, NEW mods, NEW n, ReachFrom(f, mods, n), NEW k \in Nat
  PROVE  f[0] = {n}
         /\ f[k + 1] = f[k] \cup UNION {mods[m].kids : m \in f[k] \cap DOMAIN mods}
<1>1. k + 1 \in Nat /\ k + 1 # 0 /\ (k + 1) - 1 = k
  OBVIOUS
<1>2. QED
  BY <1>1 DEF ReachFrom

\* A deepen parses files of the filelist, however far it looks.
LEMMA DeepenSourcesAre ==
  ASSUME NEW mods, ModsTyped(mods), NEW n \in Names, NEW hops \in Nat \cup {Unlimited}
  PROVE  DeepenSources(mods, n, hops) \subseteq Files
<1>1. PICK f : /\ ReachFrom(f, mods, n)
               /\ DeepenSources(mods, n, hops) =
                    {IF m \in DOMAIN mods THEN mods[m].file ELSE FirstFile(m) :
                       m \in f[Levels(hops)]}
  BY ReachExists, SourcesByLevels
<1> DEFINE S == {k \in Nat : f[k] \subseteq Names}
<1>2. 0 \in S
  BY <1>1, ReachStep
<1>3. ASSUME NEW k \in Nat, k \in S PROVE k + 1 \in S
  <2>1. f[k + 1] = f[k] \cup UNION {mods[m].kids : m \in f[k] \cap DOMAIN mods}
    BY <1>1, ReachStep
  <2>2. UNION {mods[m].kids : m \in f[k] \cap DOMAIN mods} \subseteq Names
    BY DEF ModsTyped
  <2>3. QED
    BY <1>3, <2>1, <2>2
<1> HIDE DEF S
<1>4. \A k \in Nat : k \in S
  BY <1>2, <1>3, SetInduction
<1>5. Levels(hops) \in Nat
  BY NamesAreFinite DEF Levels
<1>6. f[Levels(hops)] \subseteq Names
  BY <1>4, <1>5 DEF S
<1>7. \A m \in f[Levels(hops)] :
        (IF m \in DOMAIN mods THEN mods[m].file ELSE FirstFile(m)) \in Files
  BY <1>6, FirstFileIs DEF ModsTyped
<1>8. QED
  BY <1>1, <1>7

LEMMA EmptyTables == DOMAIN NoRows = {}
BY DEF NoRows

\* A change of one column leaves the others alone.
LEMMA ChangesOf ==
  ASSUME NEW d, DbShape(d), NEW x
  PROVE  /\ [d EXCEPT !.insts = x] =
              [rows |-> d.rows, latest |-> d.latest, insts |-> x, done |-> d.done,
               complete |-> d.complete, depth |-> d.depth, deepened |-> d.deepened]
         /\ [d EXCEPT !.done = x] =
              [rows |-> d.rows, latest |-> d.latest, insts |-> d.insts, done |-> x,
               complete |-> d.complete, depth |-> d.depth, deepened |-> d.deepened]
         /\ [d EXCEPT !.complete = x] =
              [rows |-> d.rows, latest |-> d.latest, insts |-> d.insts, done |-> d.done,
               complete |-> x, depth |-> d.depth, deepened |-> d.deepened]
         /\ [d EXCEPT !.depth = x] =
              [rows |-> d.rows, latest |-> d.latest, insts |-> d.insts, done |-> d.done,
               complete |-> d.complete, depth |-> x, deepened |-> d.deepened]
         /\ [d EXCEPT !.deepened = x] =
              [rows |-> d.rows, latest |-> d.latest, insts |-> d.insts, done |-> d.done,
               complete |-> d.complete, depth |-> d.depth, deepened |-> x]
         /\ [d EXCEPT !.rows = NoRows, !.latest = NoRows, !.insts = {}, !.done = {}] =
              [rows |-> NoRows, latest |-> NoRows, insts |-> {}, done |-> {},
               complete |-> d.complete, depth |-> d.depth, deepened |-> d.deepened]
<1> DEFINE e == [rows |-> d.rows, latest |-> d.latest, insts |-> d.insts, done |-> d.done,
                 complete |-> d.complete, depth |-> d.depth, deepened |-> d.deepened]
<1>1. d = e
  BY DEF DbShape
<1>2. /\ [e EXCEPT !.insts = x] =
           [rows |-> d.rows, latest |-> d.latest, insts |-> x, done |-> d.done,
            complete |-> d.complete, depth |-> d.depth, deepened |-> d.deepened]
      /\ [e EXCEPT !.done = x] =
           [rows |-> d.rows, latest |-> d.latest, insts |-> d.insts, done |-> x,
            complete |-> d.complete, depth |-> d.depth, deepened |-> d.deepened]
      /\ [e EXCEPT !.complete = x] =
           [rows |-> d.rows, latest |-> d.latest, insts |-> d.insts, done |-> d.done,
            complete |-> x, depth |-> d.depth, deepened |-> d.deepened]
  OBVIOUS
<1>3. /\ [e EXCEPT !.depth = x] =
           [rows |-> d.rows, latest |-> d.latest, insts |-> d.insts, done |-> d.done,
            complete |-> d.complete, depth |-> x, deepened |-> d.deepened]
      /\ [e EXCEPT !.deepened = x] =
           [rows |-> d.rows, latest |-> d.latest, insts |-> d.insts, done |-> d.done,
            complete |-> d.complete, depth |-> d.depth, deepened |-> x]
  OBVIOUS
<1>4. [e EXCEPT !.rows = NoRows, !.latest = NoRows, !.insts = {}, !.done = {}] =
        [rows |-> NoRows, latest |-> NoRows, insts |-> {}, done |-> {},
         complete |-> d.complete, depth |-> d.depth, deepened |-> d.deepened]
  <2> DEFINE made(r, l, i, o) ==
               [rows |-> r, latest |-> l, insts |-> i, done |-> o,
                complete |-> d.complete, depth |-> d.depth, deepened |-> d.deepened]
  <2>1. [e EXCEPT !.rows = NoRows] = made(NoRows, d.latest, d.insts, d.done)
    OBVIOUS
  <2>2. [made(NoRows, d.latest, d.insts, d.done) EXCEPT !.latest = NoRows] =
          made(NoRows, NoRows, d.insts, d.done)
    OBVIOUS
  <2>3. [made(NoRows, NoRows, d.insts, d.done) EXCEPT !.insts = {}] =
          made(NoRows, NoRows, {}, d.done)
    OBVIOUS
  <2>4. [made(NoRows, NoRows, {}, d.done) EXCEPT !.done = {}] = made(NoRows, NoRows, {}, {})
    OBVIOUS
  <2>5. [e EXCEPT !.rows = NoRows, !.latest = NoRows, !.insts = {}, !.done = {}] =
          [[[[e EXCEPT !.rows = NoRows] EXCEPT !.latest = NoRows] EXCEPT !.insts = {}]
             EXCEPT !.done = {}]
    OBVIOUS
  <2> HIDE DEF e
  <2>6. QED
    BY <2>1, <2>2, <2>3, <2>4, <2>5
<1> HIDE DEF e
<1>5. QED
  BY <1>1, <1>2, <1>3, <1>4

\* The changes the actions make keep what a connection sees well formed.
LEMMA ChangesOK ==
  ASSUME NEW d, DbOK(d)
  PROVE  /\ \A x \in SUBSET Paths : DbOK([d EXCEPT !.insts = x])
         /\ \A x \in SUBSET Files :
              (\A f \in x : Name[f] \in DOMAIN d.latest) => DbOK([d EXCEPT !.done = x])
         /\ \A x \in BOOLEAN : DbOK([d EXCEPT !.complete = x])
         /\ \A x \in Depths \cup {Unlimited} : DbOK([d EXCEPT !.depth = x])
         /\ \A x \in SUBSET Paths : DbOK([d EXCEPT !.deepened = x])
         /\ DbOK([d EXCEPT !.rows = NoRows, !.latest = NoRows, !.insts = {}, !.done = {}])
<1>1. DbShape(d)
  BY DEF DbOK
<1>2. \A x \in SUBSET Paths : DbOK([d EXCEPT !.insts = x])
  BY <1>1, ChangesOf DEF DbOK, DbShape
<1>3. \A x \in SUBSET Files :
        (\A f \in x : Name[f] \in DOMAIN d.latest) => DbOK([d EXCEPT !.done = x])
  BY <1>1, ChangesOf DEF DbOK, DbShape
<1>4. \A x \in BOOLEAN : DbOK([d EXCEPT !.complete = x])
  BY <1>1, ChangesOf DEF DbOK, DbShape
<1>5. ASSUME NEW x \in Depths \cup {Unlimited} PROVE DbOK([d EXCEPT !.depth = x])
  <2> DEFINE e == [d EXCEPT !.depth = x]
  <2>1. e = [rows |-> d.rows, latest |-> d.latest, insts |-> d.insts, done |-> d.done,
             complete |-> d.complete, depth |-> x, deepened |-> d.deepened]
    BY <1>1, ChangesOf
  <2> HIDE DEF e
  <2>2. DbShape(e) /\ e.depth = x
        /\ e.rows = d.rows /\ e.latest = d.latest /\ e.insts = d.insts /\ e.done = d.done
        /\ e.complete = d.complete /\ e.deepened = d.deepened
    BY <2>1 DEF DbShape
  <2>3. DbOK(e)
    BY <2>2 DEF DbOK
  <2>4. QED
    BY <2>3 DEF e
<1>6. ASSUME NEW x \in SUBSET Paths PROVE DbOK([d EXCEPT !.deepened = x])
  <2> DEFINE e == [d EXCEPT !.deepened = x]
  <2>1. e = [rows |-> d.rows, latest |-> d.latest, insts |-> d.insts, done |-> d.done,
             complete |-> d.complete, depth |-> d.depth, deepened |-> x]
    BY <1>1, ChangesOf
  <2> HIDE DEF e
  <2>2. DbShape(e) /\ e.deepened = x
        /\ e.rows = d.rows /\ e.latest = d.latest /\ e.insts = d.insts /\ e.done = d.done
        /\ e.complete = d.complete /\ e.depth = d.depth
    BY <2>1 DEF DbShape
  <2>3. DbOK(e)
    BY <2>2 DEF DbOK
  <2>4. QED
    BY <2>3 DEF e
<1>7. DbOK([d EXCEPT !.rows = NoRows, !.latest = NoRows, !.insts = {}, !.done = {}])
  BY <1>1, ChangesOf, EmptyTables DEF DbOK, DbShape
<1>8. QED
  BY <1>2, <1>3, <1>4, <1>5, <1>6, <1>7
-----------------------------------------------------------------------------
(***************************************************************************)
(* What transactions keep, whoever commits.                                *)
(***************************************************************************)
LEMMA OverlapTyped ==
  ASSUME NEW p, NEW jobs, JobsTyped(jobs)
  PROVE  /\ JobsTyped(Overlap(p, jobs))
         /\ \A d \in Deepeners : Overlap(p, jobs)[d].mods = jobs[d].mods
<1>1. ASSUME NEW d \in Deepeners
      PROVE  JobTyped(Overlap(p, jobs)[d]) /\ Overlap(p, jobs)[d].mods = jobs[d].mods
  <2> DEFINE o == Overlap(p, jobs)[d]
             r == jobs[d]
             alone == r.alone /\ d = p
  <2>1. JobTyped(r)
    BY DEF JobsTyped
  <2>2. o = [r EXCEPT !.alone = alone]
    BY DEF Overlap
  <2> HIDE DEF o, r, alone
  <2>3. o = [path |-> r.path, hops |-> r.hops, deepened |-> r.deepened, depth |-> r.depth,
             mods |-> r.mods, known |-> r.known, before |-> r.before, alone |-> alone]
    BY <2>1, <2>2 DEF JobTyped
  <2>4. JobTyped(o) /\ o.mods = r.mods
    BY <2>1, <2>3 DEF JobTyped
  <2>5. QED
    BY <2>4 DEF o, r
<1>2. Overlap(p, jobs) = [d \in Deepeners |-> Overlap(p, jobs)[d]]
  BY DEF Overlap
<1>3. QED
  BY <1>1, <1>2 DEF JobsTyped

LEMMA Committed ==
  ASSUME Inv, NEW p \in Procs, NEW e, DbOK(e), Commit(p, e),
         NEW jobs, JobsTyped(jobs), job' = Overlap(p, jobs), pc' \in [Procs -> Places],
         \A d \in Deepeners : pc'[d] = "parse" => ModsTyped(jobs[d].mods)
  PROVE  DbOK(db') /\ DbOK(tx') /\ LockOK' /\ JobOK' /\ Seen' = e
<1>1. db' = e /\ tx' = e /\ lock' = NoProc
  BY DEF Commit
<1>2. LockOK'
  BY <1>1, ProcAssumption DEF LockOK, Procs
<1>3. JobOK'
  <2>1. JobsTyped(job')
    BY OverlapTyped
  <2>2. \A d \in Deepeners : job'[d].mods = jobs[d].mods
    BY OverlapTyped
  <2>3. QED
    BY <2>1, <2>2 DEF JobOK
<1>4. QED
  BY <1>1, <1>2, <1>3 DEF Seen

LEMMA Written ==
  ASSUME Inv, NEW p \in Procs, NEW e, DbOK(e), Write(p, e),
         e.insts \subseteq tx.insts, e.complete = tx.complete,
         p # Builder => e.insts = tx.insts,
         p = Builder => pc'[Builder] \in {"skim", "full"},
         DOMAIN tx.latest \subseteq DOMAIN e.latest,
         pc' \in [Procs -> Places], pc'[p] # "idle"
  PROVE  DbOK(db') /\ DbOK(tx') /\ LockOK'
<1>1. db' = db /\ tx' = e /\ lock' = p /\ lock \in {NoProc, p}
  BY DEF Write
<1>2. LockOK'
  BY <1>1, ProcAssumption DEF LockOK, Inv
<1>3. QED
  BY <1>1, <1>2 DEF Inv

\* The others' steps leave the builder's memory right.
LEMMA RunKept ==
  ASSUME RunOK, run' = run, pc'[Builder] = pc[Builder],
         DOMAIN Seen.latest \subseteq DOMAIN Seen'.latest
  PROVE  RunOK'
<1>1. Building' = Building
  BY DEF Building
<1>2. QED
  BY <1>1 DEF RunOK

\* Memory that is forgotten is well formed.
LEMMA NoRunIs ==
  /\ NoRun = [k \in RunFields |-> NoRun[k]] /\ NoRun.depth = Unlimited
  /\ NoRun.done = {} /\ NoRun.skim = {} /\ NoRun.full = {}
<1>1. NoRun = [k \in RunFields |-> NoRun[k]]
  BY DEF NoRun, RunFields
<1>2. QED
  BY <1>1 DEF NoRun

LEMMA RunEnds ==
  ASSUME run' = NoRun, pc'[Builder] = "idle"
  PROVE  RunOK'
<1>1. run' = [k \in RunFields |-> run'[k]] /\ run'.depth = Unlimited
      /\ run'.done = {} /\ run'.skim = {} /\ run'.full = {}
  BY NoRunIs
<1>2. QED
  BY <1>1 DEF RunOK, Building

LEMMA NoJobTyped == JobTyped(NoJob)
BY PathsAre DEF JobTyped, NoJob

LEMMA JobForgotten ==
  ASSUME NEW jobs, JobsTyped(jobs), NEW p, NEW changed,
         changed = [d \in Deepeners |-> IF d = p THEN NoJob ELSE jobs[d]]
  PROVE  JobsTyped(changed) /\ \A d \in Deepeners \ {p} : changed[d] = jobs[d]
<1>1. \A d \in Deepeners : JobTyped(jobs[d]) /\ JobTyped(NoJob)
  BY NoJobTyped DEF JobsTyped
<1>2. \A d \in Deepeners : JobTyped(changed[d])
  BY <1>1
<1>3. QED
  BY <1>2 DEF JobsTyped

LEMMA RunIdle ==
  ASSUME RunOK, run' = run,
         pc'[Builder] \notin {"skim", "full", "load"}
  PROVE  RunOK'
BY DEF RunOK, Building

LEMMA TreeKept ==
  ASSUME TreeOK, db'.insts = db.insts, lapsed' = lapsed,
         db'.complete \/ pc'[Builder] = "finish" => db.complete \/ pc[Builder] = "finish",
         \A p \in Procs : pc[p] \in Away => pc'[p] \in Away
  PROVE  TreeOK'
BY DEF TreeOK

LEMMA InvIs ==
  ASSUME DbOK(db'), DbOK(tx'), LockOK', JobOK', RunOK', TreeOK'
  PROVE  Inv'
BY DEF Inv

\* A step of p that passes on from one place to another.
LEMMA GotoIs ==
  ASSUME LockOK, NEW p \in Procs, NEW from, NEW to \in Places, Goto(p, from, to)
  PROVE  /\ pc[p] = from /\ pc'[p] = to /\ pc' \in [Procs -> Places]
         /\ \A q \in Procs \ {p} : pc'[q] = pc[q]
BY DEF LockOK, Goto

LEMMA ProcsAre == Builder \in Procs /\ \A d \in Deepeners : d \in Procs /\ d # Builder
BY ProcAssumption DEF Procs
-----------------------------------------------------------------------------
(***************************************************************************)
(* The steps of the builder.                                               *)
(***************************************************************************)
LEMMA StartBuildKeeps ==
  ASSUME Inv, NEW mode \in Modes, NEW depth \in Depths, StartBuild(mode, depth)
  PROVE  Inv'
<1> DEFINE to == IF mode = "force" THEN "erase" ELSE "open"
<1>1. /\ Goto(Builder, "idle", to) /\ run' = [run EXCEPT !.mode = mode, !.depth = depth]
      /\ UNCHANGED <<db, tx, lock, job, stops, lapsed, disturbed>>
  BY DEF StartBuild
<1>2. to \in {"erase", "open"} /\ to \in Places
  BY DEF Places
<1> HIDE DEF to
<1>3. /\ pc[Builder] = "idle" /\ pc'[Builder] = to /\ pc' \in [Procs -> Places]
      /\ \A q \in Procs \ {Builder} : pc'[q] = pc[q]
  BY <1>1, <1>2, GotoIs, ProcsAre DEF Inv
<1>4. LockOK'
  <2>1. \A p \in Procs : lock = p => pc'[p] # "idle"
    BY <1>2, <1>3 DEF Inv, LockOK
  <2>2. QED
    BY <1>1, <1>3, <2>1 DEF Inv, LockOK
<1>5. JobOK'
  BY <1>1, <1>3, ProcsAre DEF Inv, JobOK
<1>6. RunOK'
  <2>1. run' = [k \in RunFields |-> run'[k]]
    BY <1>1 DEF Inv, RunOK
  <2>2. /\ run'.depth = depth /\ run'.done = run.done
        /\ run'.skim = run.skim /\ run'.full = run.full
    BY <1>1 DEF Inv, RunOK, RunFields
  <2>3. QED
    BY <1>2, <1>3, <2>1, <2>2 DEF Inv, RunOK, Building
<1>7. TreeOK'
  <2>1. \A p \in Procs : pc[p] \in Away => pc'[p] \in Away
    BY <1>3 DEF Away
  <2>2. QED
    BY <1>1, <1>2, <1>3, <2>1, TreeKept DEF Inv
<1>8. QED
  BY <1>1, <1>4, <1>5, <1>6, <1>7, InvIs DEF Inv

LEMMA EraseTablesKeeps ==
  ASSUME Inv, EraseTables
  PROVE  Inv'
<1> DEFINE e == [tx EXCEPT !.rows = NoRows, !.latest = NoRows, !.insts = {}, !.done = {}]
<1>1. /\ Goto(Builder, "erase", "unmark") /\ Commit(Builder, e)
      /\ job' = Overlap(Builder, job) /\ run' = run
  BY DEF EraseTables
<1>2. /\ pc[Builder] = "erase" /\ pc'[Builder] = "unmark" /\ pc' \in [Procs -> Places]
      /\ \A q \in Procs \ {Builder} : pc'[q] = pc[q]
  BY <1>1, GotoIs, ProcsAre DEF Inv, Places
<1>3. DbOK(e)
  BY ChangesOK DEF Inv
<1> HIDE DEF e
<1>4. DbOK(db') /\ DbOK(tx') /\ LockOK' /\ JobOK'
  BY <1>1, <1>2, <1>3, Committed, ProcsAre DEF Inv, JobOK
<1>5. RunOK'
  BY <1>1, <1>2, RunIdle DEF Inv
<1>6. TreeOK'
  BY <1>2, ProcsAre DEF TreeOK, Away
<1>7. QED
  BY <1>4, <1>5, <1>6, InvIs

LEMMA MarkIncompleteKeeps ==
  ASSUME Inv, MarkIncomplete
  PROVE  Inv'
<1> DEFINE e == [tx EXCEPT !.complete = FALSE]
<1>1. /\ Goto(Builder, "unmark", "open") /\ Commit(Builder, e)
      /\ job' = Overlap(Builder, job) /\ run' = run
  BY DEF MarkIncomplete
<1>2. /\ pc[Builder] = "unmark" /\ pc'[Builder] = "open" /\ pc' \in [Procs -> Places]
      /\ \A q \in Procs \ {Builder} : pc'[q] = pc[q]
  BY <1>1, GotoIs, ProcsAre DEF Inv, Places
<1>3. DbOK(e) /\ e.complete = FALSE
  <2>1. DbOK(e)
    BY ChangesOK DEF Inv
  <2>2. e.complete = FALSE
    BY DEF Inv, DbOK, DbShape
  <2>3. QED
    BY <2>1, <2>2
<1> HIDE DEF e
<1>4. DbOK(db') /\ DbOK(tx') /\ LockOK' /\ JobOK'
  BY <1>1, <1>2, <1>3, Committed, ProcsAre DEF Inv, JobOK
<1>5. RunOK'
  BY <1>1, <1>2, RunIdle DEF Inv
<1>6. TreeOK'
  BY <1>1, <1>2, <1>3 DEF TreeOK, Commit
<1>7. QED
  BY <1>4, <1>5, <1>6, InvIs

\* The builder holds the lock or nobody does: it sees what it writes on.
LEMMA BuilderSees ==
  ASSUME LockOK, lock \in {NoProc, Builder}
  PROVE  Seen = tx
BY DEF LockOK, Seen

LEMMA OpenRunKeeps ==
  ASSUME Inv, OpenRun
  PROVE  Inv'
<1> DEFINE fresh == run.mode = "fresh"
           done == IF fresh THEN {} ELSE tx.done
           skim == Batches(Wanted(run.depth).skim \ done)
           full == Batches(Wanted(run.depth).full \ done)
           mods == IF fresh THEN NoRows ELSE LoadAll(tx)
           total == Cardinality(skim) + Cardinality(full)
           to == IF skim = {} THEN "full" ELSE "skim"
           depth == IF run.depth = Unlimited THEN tx.depth ELSE run.depth
           e == [tx EXCEPT !.depth = depth]
<1>1. /\ Goto(Builder, "open", to) /\ Commit(Builder, e)
      /\ run' = [run EXCEPT !.done = done, !.skim = skim, !.full = full, !.mods = mods,
                            !.total = total]
      /\ job' = Overlap(Builder, job) /\ lapsed' = lapsed
  BY DEF OpenRun
<1>2. to \in {"full", "skim"} /\ (to = "full" => skim = {}) /\ to \in Places
  BY DEF Places
<1>3. depth \in Depths \cup {Unlimited}
  BY DEF Inv, RunOK, DbOK
<1>4. done \subseteq Files /\ \A f \in done : Name[f] \in DOMAIN mods /\ Name[f] \in DOMAIN tx.latest
  <2>1. DOMAIN LoadAll(tx) = DOMAIN tx.latest
    BY LoadAllIs DEF Inv
  <2>2. QED
    BY <2>1 DEF Inv, DbOK
<1>5. /\ \A chunk \in skim \cup full : chunk \subseteq Files
      /\ FirstFile(Top) \in done \cup (UNION skim) \cup (UNION full)
  <2> HIDE DEF done
  <2>1. /\ UNION skim = Wanted(run.depth).skim \ done
        /\ UNION full = Wanted(run.depth).full \ done
    BY BatchesAre
  <2>2. /\ Wanted(run.depth).full \subseteq Files /\ Wanted(run.depth).skim \subseteq Files
        /\ FirstFile(Top) \in Wanted(run.depth).full \cup Wanted(run.depth).skim
    BY WantedAre
  <2> DEFINE wanted == Wanted(run.depth).full
             skimmed == Wanted(run.depth).skim
  <2> HIDE DEF skim, full, wanted, skimmed
  <2>3. \A chunk \in skim \cup full : chunk \subseteq Files
    BY <2>1, <2>2
  <2>4. FirstFile(Top) \in done \cup (skimmed \ done) \cup (wanted \ done)
    BY <2>2 DEF wanted, skimmed
  <2>5. UNION skim = skimmed \ done /\ UNION full = wanted \ done
    BY <2>1 DEF wanted, skimmed
  <2>6. QED
    BY <2>3, <2>4, <2>5
<1> HIDE DEF to, depth, done, mods, skim, full, total
<1>6. /\ pc[Builder] = "open" /\ pc'[Builder] = to /\ pc' \in [Procs -> Places]
      /\ \A q \in Procs \ {Builder} : pc'[q] = pc[q]
  BY <1>1, <1>2, GotoIs, ProcsAre DEF Inv
<1>7. /\ DbOK(e) /\ e.latest = tx.latest /\ e.insts = tx.insts /\ e.complete = tx.complete
  <2>1. DbOK(e)
    BY <1>3, ChangesOK DEF Inv
  <2>2. e = [rows |-> tx.rows, latest |-> tx.latest, insts |-> tx.insts, done |-> tx.done,
             complete |-> tx.complete, depth |-> depth, deepened |-> tx.deepened]
    BY ChangesOf DEF Inv, DbOK
  <2> HIDE DEF e
  <2>3. QED
    BY <2>1, <2>2
<1> HIDE DEF e
<1>8. DbOK(db') /\ DbOK(tx') /\ LockOK' /\ JobOK' /\ Seen' = e
  BY <1>1, <1>6, <1>7, Committed, ProcsAre DEF Inv, JobOK
<1>9. RunOK'
  <2>1. run' = [k \in RunFields |-> run'[k]]
    BY <1>1 DEF Inv, RunOK
  <2>2. /\ run'.depth = run.depth /\ run'.done = done /\ run'.mods = mods
        /\ run'.skim = skim /\ run'.full = full
    BY <1>1 DEF Inv, RunOK, RunFields
  <2>3. \A f \in run'.done : Name[f] \in DOMAIN run'.mods /\ Name[f] \in DOMAIN Seen'.latest
    BY <1>4, <1>7, <1>8, <2>2
  <2>4. QED
    BY <1>2, <1>4, <1>5, <1>6, <2>1, <2>2, <2>3 DEF Inv, RunOK
<1>10. TreeOK'
  BY <1>2, <1>6, ProcsAre DEF TreeOK, Away
<1>11. QED
  BY <1>8, <1>9, <1>10, InvIs
LEMMA BatchDoneKeeps ==
  ASSUME Inv, NEW phase \in {"skim", "full"}, NEW chunk \in run[phase], BatchDone(phase, chunk)
  PROVE  Inv'
<1> DEFINE full == phase = "full"
           batch == Ingested(chunk, full)
           left == Cardinality(run.skim) + Cardinality(run.full) - 1
           done == run.done \cup chunk
           commits == (run.total - left) % CommitEvery = 0 \/ left = 0
<1>0. PICK lost :
        IF commits
        THEN /\ Commit(Builder, [Stored(tx, batch, lost) EXCEPT !.done = done])
             /\ job' = Overlap(Builder, job)
        ELSE Write(Builder, Stored(tx, batch, lost)) /\ UNCHANGED job
  BY DEF BatchDone
<1> DEFINE stored == Stored(tx, batch, lost)
           e == [stored EXCEPT !.done = done]
<1>1. /\ pc[Builder] = phase
      /\ IF commits
         THEN Commit(Builder, e) /\ job' = Overlap(Builder, job)
         ELSE Write(Builder, stored) /\ UNCHANGED job
      /\ run' = [run EXCEPT ![phase] = @ \ {chunk}, !.done = done, !.mods = Merged(@, batch)]
      /\ pc' = pc /\ lapsed' = lapsed
  BY <1>0 DEF BatchDone
<1>2. full \in BOOLEAN /\ chunk \in SUBSET Files
  BY DEF Inv, RunOK
<1> HIDE DEF full, commits
<1>3. /\ lock \in {NoProc, Builder}
      /\ \/ Commit(Builder, e) /\ job' = Overlap(Builder, job)
         \/ Write(Builder, stored) /\ job' = job
  BY <1>1 DEF Commit, Write
<1>4. Seen = tx
  BY <1>3, BuilderSees DEF Inv
<1>5. /\ DOMAIN batch = {Name[f] : f \in chunk}
      /\ DOMAIN Merged(run.mods, batch) = DOMAIN run.mods \cup DOMAIN batch
  <2>1. BatchOf(chunk, full, batch)
    BY <1>2, IngestedAre
  <2> HIDE DEF batch
  <2>2. QED
    BY <2>1, MergedAre DEF BatchOf
<1>6. /\ DbOK(stored)
      /\ DOMAIN stored.latest = DOMAIN tx.latest \cup {Name[f] : f \in chunk}
      /\ stored.insts = tx.insts \ lost /\ stored.complete = tx.complete
  <2>1. StoredFrom(tx, chunk, lost, stored)
    BY <1>2, StoredOK DEF Inv
  <2>2. QED
    BY <2>1 DEF StoredFrom
<1> HIDE DEF batch, stored
<1>7. /\ done \subseteq Files
      /\ \A f \in done : /\ Name[f] \in DOMAIN Merged(run.mods, batch)
                         /\ Name[f] \in DOMAIN stored.latest
  <2>1. Building
    BY <1>1 DEF Building
  <2>2. \A f \in run.done : Name[f] \in DOMAIN run.mods /\ Name[f] \in DOMAIN tx.latest
    BY <1>4, <2>1 DEF Inv, RunOK
  <2>3. QED
    BY <1>2, <1>5, <1>6, <2>2 DEF Inv, RunOK
<1> HIDE DEF done
<1>8. /\ DbOK(e) /\ e.latest = stored.latest
      /\ e.insts = stored.insts /\ e.complete = stored.complete
  <2>1. DbOK(e)
    BY <1>6, <1>7, ChangesOK
  <2>2. e = [rows |-> stored.rows, latest |-> stored.latest, insts |-> stored.insts,
             done |-> done, complete |-> stored.complete, depth |-> stored.depth,
             deepened |-> stored.deepened]
    BY <1>6, ChangesOf DEF DbOK
  <2> HIDE DEF e
  <2>3. QED
    BY <2>1, <2>2
<1> HIDE DEF e
<1>9. pc' \in [Procs -> Places] /\ pc'[Builder] \in {"skim", "full"}
  BY <1>1 DEF Inv, LockOK
<1>10. DbOK(db') /\ DbOK(tx') /\ LockOK' /\ JobOK' /\ Seen'.latest = stored.latest
  <2>1. CASE Commit(Builder, e) /\ job' = Overlap(Builder, job)
    BY <1>1, <1>8, <1>9, <2>1, Committed, ProcsAre DEF Inv, JobOK
  <2>2. CASE Write(Builder, stored) /\ job' = job
    <3>1. DbOK(db') /\ DbOK(tx') /\ LockOK'
      BY <1>6, <1>9, <2>2, Written, ProcsAre
    <3>2. JobOK'
      BY <1>1, <2>2 DEF Inv, JobOK
    <3>3. Seen' = stored
      BY <2>2 DEF Write, Seen
    <3>4. QED
      BY <3>1, <3>2, <3>3
  <2>3. QED
    BY <1>3, <2>1, <2>2
<1>11. RunOK'
  <2>1. run' = [k \in RunFields |-> run'[k]]
    BY <1>1 DEF Inv, RunOK
  <2>2. /\ run'.depth = run.depth /\ run'.done = done
        /\ run'.mods = Merged(run.mods, batch) /\ run'[phase] = run[phase] \ {chunk}
        /\ phase = "skim" => run'.full = run.full
        /\ phase = "full" => run'.skim = run.skim
    BY <1>1 DEF Inv, RunOK, RunFields
  <2>3. run'.skim \subseteq run.skim /\ run'.full \subseteq run.full
    BY <2>2
  <2>4. FirstFile(Top) \in run'.done \cup (UNION run'.skim) \cup (UNION run'.full)
    <3>1. FirstFile(Top) \in run.done \cup (UNION run.skim) \cup (UNION run.full)
      BY <1>1 DEF Inv, RunOK, Building
    <3>2. (UNION run[phase]) \subseteq chunk \cup (UNION run'[phase])
      BY <2>2
    <3>3. (UNION run.skim) \subseteq chunk \cup (UNION run'.skim)
          /\ (UNION run.full) \subseteq chunk \cup (UNION run'.full)
      BY <2>2, <3>2
    <3>4. QED
      BY <2>2, <3>1, <3>3 DEF done
  <2>5. \A f \in run'.done : Name[f] \in DOMAIN run'.mods /\ Name[f] \in DOMAIN Seen'.latest
    BY <1>7, <1>10, <2>2
  <2>6. \A c \in run'.skim \cup run'.full : c \subseteq Files
    BY <2>3 DEF Inv, RunOK
  <2>7. pc'[Builder] # "load" /\ (pc'[Builder] = "full" => run'.skim = {})
    BY <1>1, <2>3 DEF Inv, RunOK
  <2>8. QED
    BY <1>7, <2>1, <2>2, <2>4, <2>5, <2>6, <2>7 DEF Inv, RunOK
<1>12. TreeOK'
  BY <1>1, ProcsAre DEF TreeOK, Away
<1>13. QED
  BY <1>10, <1>11, <1>12, InvIs

LEMMA SkimPhaseEndsKeeps ==
  ASSUME Inv, SkimPhaseEnds
  PROVE  Inv'
<1>1. /\ run.skim = {} /\ Goto(Builder, "skim", "full") /\ Write(Builder, tx)
      /\ run' = run /\ job' = job /\ lapsed' = lapsed
  BY DEF SkimPhaseEnds
<1>2. /\ pc[Builder] = "skim" /\ pc'[Builder] = "full" /\ pc' \in [Procs -> Places]
      /\ \A q \in Procs \ {Builder} : pc'[q] = pc[q]
  BY <1>1, GotoIs, ProcsAre DEF Inv, Places
<1>3. DbOK(db') /\ DbOK(tx') /\ LockOK'
  BY <1>1, <1>2, Written, ProcsAre DEF Inv
<1>4. JobOK'
  BY <1>1, <1>2, ProcsAre DEF Inv, JobOK
<1>5. RunOK'
  <2>1. Seen = tx /\ Seen' = tx
    BY <1>1, BuilderSees DEF Inv, Write, Seen
  <2>2. Building /\ Building'
    BY <1>2 DEF Building
  <2>3. QED
    BY <1>1, <1>2, <2>1, <2>2 DEF Inv, RunOK
<1>6. TreeOK'
  BY <1>2, ProcsAre DEF TreeOK, Away
<1>7. QED
  BY <1>3, <1>4, <1>5, <1>6, InvIs

LEMMA ClearInstancesKeeps ==
  ASSUME Inv, ClearInstances
  PROVE  Inv'
<1> DEFINE e == [tx EXCEPT !.insts = {}]
<1>1. /\ run.full = {} /\ Goto(Builder, "full", "load") /\ Commit(Builder, e)
      /\ run' = run /\ job' = Overlap(Builder, job) /\ lapsed' = lapsed
  BY DEF ClearInstances
<1>2. /\ pc[Builder] = "full" /\ pc'[Builder] = "load" /\ pc' \in [Procs -> Places]
      /\ \A q \in Procs \ {Builder} : pc'[q] = pc[q]
  BY <1>1, GotoIs, ProcsAre DEF Inv, Places
<1>3. DbOK(e) /\ e.latest = tx.latest
  <2>1. DbOK(e)
    BY ChangesOK DEF Inv
  <2>2. e.latest = tx.latest
    BY DEF Inv, DbOK, DbShape
  <2>3. QED
    BY <2>1, <2>2
<1> HIDE DEF e
<1>4. DbOK(db') /\ DbOK(tx') /\ LockOK' /\ JobOK' /\ Seen' = e
  BY <1>1, <1>2, <1>3, Committed, ProcsAre DEF Inv, JobOK
<1>5. RunOK'
  <2>1. Seen = tx
    BY <1>1, BuilderSees DEF Inv, Commit
  <2>2. Building /\ Building'
    BY <1>2 DEF Building
  <2>3. QED
    BY <1>1, <1>2, <1>3, <1>4, <2>1, <2>2 DEF Inv, RunOK
<1>6. TreeOK'
  BY <1>2, ProcsAre DEF TreeOK, Away
<1>7. QED
  BY <1>4, <1>5, <1>6, InvIs

\* The file of the top is done by now, so its module is in memory and in the
\* tables, and the tree that is stored has the top.
LEMMA LoadInstancesKeeps ==
  ASSUME Inv, LoadInstances
  PROVE  Inv'
<1> DEFINE flat == {p \in Flatten(run.mods, run.depth, tx.deepened) :
                      Last(p) \in DOMAIN tx.latest}
           insts == tx.insts \cup flat
           e == [tx EXCEPT !.insts = insts]
<1>1. /\ Goto(Builder, "load", "finish") /\ Commit(Builder, e)
      /\ run' = run /\ job' = Overlap(Builder, job)
  BY DEF LoadInstances
<1>2. /\ pc[Builder] = "load" /\ pc'[Builder] = "finish" /\ pc' \in [Procs -> Places]
      /\ \A q \in Procs \ {Builder} : pc'[q] = pc[q]
  BY <1>1, GotoIs, ProcsAre DEF Inv, Places
<1>3. Top \in DOMAIN run.mods /\ Top \in DOMAIN tx.latest
  <2>1. Seen = tx /\ Building
    BY <1>1, <1>2, BuilderSees DEF Inv, Commit, Building
  <2>2. FirstFile(Top) \in run.done
    BY <1>2, <2>1 DEF Inv, RunOK
  <2>3. Name[FirstFile(Top)] = Top
    BY FirstFileIs, DesignAssumption
  <2>4. \A f \in run.done : Name[f] \in DOMAIN run.mods /\ Name[f] \in DOMAIN tx.latest
    BY <2>1 DEF Inv, RunOK
  <2>5. QED
    BY <2>2, <2>3, <2>4
<1>4. <<Top>> \in flat /\ flat \subseteq Paths
  BY <1>3, FlattenAre, LastOfTop
<1> HIDE DEF flat
<1>5. insts \in SUBSET Paths /\ <<Top>> \in insts
  BY <1>4 DEF Inv, DbOK
<1> HIDE DEF insts
<1>6. DbOK(e) /\ e.insts = insts
  <2>1. DbOK(e)
    BY <1>5, ChangesOK DEF Inv
  <2>2. e.insts = insts
    BY DEF Inv, DbOK, DbShape
  <2>3. QED
    BY <2>1, <2>2
<1> HIDE DEF e
<1>7. DbOK(db') /\ DbOK(tx') /\ LockOK' /\ JobOK'
  BY <1>1, <1>2, <1>6, Committed, ProcsAre DEF Inv, JobOK
<1>8. RunOK'
  BY <1>1, <1>2, RunIdle DEF Inv
<1>9. TreeOK'
  BY <1>1, <1>5, <1>6 DEF TreeOK, Commit
<1>10. QED
  BY <1>7, <1>8, <1>9, InvIs

LEMMA FinishBuildKeeps ==
  ASSUME Inv, FinishBuild
  PROVE  Inv'
<1> DEFINE e == [tx EXCEPT !.complete = TRUE]
<1>1. /\ Goto(Builder, "finish", "idle") /\ Commit(Builder, e)
      /\ run' = NoRun /\ job' = Overlap(Builder, job) /\ lapsed' = lapsed
  BY DEF FinishBuild
<1>2. /\ pc[Builder] = "finish" /\ pc'[Builder] = "idle" /\ pc' \in [Procs -> Places]
      /\ \A q \in Procs \ {Builder} : pc'[q] = pc[q]
  BY <1>1, GotoIs, ProcsAre DEF Inv, Places
<1>3. DbOK(e) /\ e.insts = tx.insts
  <2>1. DbOK(e)
    BY ChangesOK DEF Inv
  <2>2. e.insts = tx.insts
    BY DEF Inv, DbOK, DbShape
  <2>3. QED
    BY <2>1, <2>2
<1> HIDE DEF e
<1>4. DbOK(db') /\ DbOK(tx') /\ LockOK' /\ JobOK'
  BY <1>1, <1>2, <1>3, Committed, ProcsAre DEF Inv, JobOK
<1>5. RunOK'
  BY <1>1, <1>2, RunEnds
<1>6. TreeOK'
  <2>1. db'.insts = db.insts
    BY <1>1, <1>2, <1>3 DEF Inv, LockOK, Commit
  <2>2. \A p \in Procs : pc[p] \in Away => pc'[p] \in Away
    BY <1>2 DEF Away
  <2>3. QED
    BY <1>1, <1>2, <2>1, <2>2, TreeKept DEF Inv
<1>7. QED
  BY <1>4, <1>5, <1>6, InvIs
-----------------------------------------------------------------------------
(***************************************************************************)
(* The steps of the deepens, and those that end one.                       *)
(***************************************************************************)
LEMMA JobChanged ==
  ASSUME NEW jobs, JobsTyped(jobs), NEW d \in Deepeners, NEW j, JobTyped(j),
         NEW changed, changed = [jobs EXCEPT ![d] = j]
  PROVE  /\ JobsTyped(changed) /\ changed[d] = j
         /\ \A q \in Deepeners \ {d} : changed[q] = jobs[q]
BY DEF JobsTyped

\* A deepen that has loaded modules; the rest of its memory is as before.
Reloaded(j, mods, known) ==
  [path |-> j.path, hops |-> j.hops, deepened |-> j.deepened, depth |-> j.depth,
   mods |-> mods, known |-> known, before |-> j.before, alone |-> j.alone]

Reloads(jobs, d, mods, known, changed) ==
  \/ changed = [jobs EXCEPT ![d].mods = mods] /\ known = jobs[d].known
  \/ changed = [jobs EXCEPT ![d].mods = mods, ![d].known = known]

LEMMA ModsChanged ==
  ASSUME NEW jobs, JobsTyped(jobs), NEW d \in Deepeners, NEW mods, NEW known, NEW changed,
         Reloads(jobs, d, mods, known, changed)
  PROVE  /\ JobsTyped(changed) /\ changed[d] = Reloaded(jobs[d], mods, known)
         /\ \A q \in Deepeners \ {d} : changed[q] = jobs[q]
<1> DEFINE j == jobs[d]
           r == Reloaded(j, mods, known)
<1>1. JobTyped(j) /\ DOMAIN jobs = Deepeners
  BY DEF JobsTyped
<1>2. /\ [j EXCEPT !.mods = mods] = Reloaded(j, mods, j.known)
      /\ [[j EXCEPT !.mods = mods] EXCEPT !.known = known] = r
  <2> HIDE DEF j
  <2>1. [j EXCEPT !.mods = mods] = Reloaded(j, mods, j.known)
    BY <1>1 DEF JobTyped, Reloaded
  <2>2. [Reloaded(j, mods, j.known) EXCEPT !.known = known] = r
    BY DEF Reloaded
  <2>3. QED
    BY <2>1, <2>2
<1>3. changed = [jobs EXCEPT ![d] = r]
  <2>1. CASE changed = [jobs EXCEPT ![d].mods = mods] /\ known = j.known
    <3>1. changed = [jobs EXCEPT ![d] = [j EXCEPT !.mods = mods]]
      BY <2>1
    <3> HIDE DEF j
    <3>2. QED
      BY <1>2, <2>1, <3>1
  <2>2. CASE changed = [jobs EXCEPT ![d].mods = mods, ![d].known = known]
    <3>1. changed = [jobs EXCEPT ![d] = [[j EXCEPT !.mods = mods] EXCEPT !.known = known]]
      BY <1>1, <2>2
    <3> HIDE DEF j
    <3>2. QED
      BY <1>2, <3>1
  <2>3. QED
    BY <2>1, <2>2 DEF Reloads
<1>4. JobTyped(r)
  BY <1>1 DEF JobTyped, Reloaded
<1> HIDE DEF j, r
<1>5. /\ JobsTyped(changed) /\ changed[d] = r
      /\ \A q \in Deepeners \ {d} : changed[q] = jobs[q]
  BY <1>3, <1>4 DEF JobsTyped
<1>6. QED
  BY <1>5 DEF j, r

LEMMA StartDeepenKeeps ==
  ASSUME Inv, NEW d \in Deepeners, NEW path \in db.insts, NEW hops \in Hops,
         StartDeepen(d, path, hops)
  PROVE  Inv'
<1> DEFINE j == [path |-> path, hops |-> hops, deepened |-> db.deepened \cup {path},
                 depth |-> db.depth, mods |-> NoRows, known |-> {}, before |-> db.insts,
                 alone |-> \A p \in Procs \ {d} : pc[p] = "idle"]
<1>1. /\ Goto(d, "idle", "claim") /\ job' = [job EXCEPT ![d] = j]
      /\ UNCHANGED <<db, tx, lock, run, stops, lapsed, disturbed>>
  BY DEF StartDeepen
<1>2. /\ pc[d] = "idle" /\ pc'[d] = "claim" /\ pc' \in [Procs -> Places]
      /\ \A q \in Procs \ {d} : pc'[q] = pc[q]
  BY <1>1, GotoIs, ProcsAre DEF Inv, Places
<1>3. JobTyped(j)
  <2>1. path \in Paths /\ db.deepened \subseteq Paths /\ hops \in Nat \cup {Unlimited}
    BY BoundsAssumption DEF Inv, DbOK
  <2> DEFINE alone == \A p \in Procs \ {d} : pc[p] = "idle"
             deepened == db.deepened \cup {path}
  <2>2. deepened \subseteq Paths
    BY <2>1
  <2> HIDE DEF alone, deepened
  <2>3. JobTyped([path |-> path, hops |-> hops, deepened |-> deepened, depth |-> db.depth,
                  mods |-> NoRows, known |-> {}, before |-> db.insts, alone |-> alone])
    BY <2>1, <2>2 DEF JobTyped
  <2>4. QED
    BY <2>3 DEF alone, deepened
<1> HIDE DEF j
<1>4. LockOK'
  <2>1. \A p \in Procs : lock = p => pc'[p] # "idle"
    BY <1>2 DEF Inv, LockOK
  <2>2. QED
    BY <1>1, <1>2, <2>1, ProcsAre DEF Inv, LockOK
<1>5. JobOK'
  <2>1. JobsTyped(job') /\ \A q \in Deepeners \ {d} : job'[q] = job[q]
    BY <1>1, <1>3 DEF Inv, JobOK, JobsTyped
  <2>2. QED
    BY <1>2, <2>1, ProcsAre DEF Inv, JobOK
<1>6. RunOK'
  <2>1. Seen' = Seen /\ pc'[Builder] = pc[Builder]
    BY <1>1, <1>2, ProcsAre DEF Seen
  <2>2. QED
    BY <1>1, <2>1, RunKept DEF Inv
<1>7. TreeOK'
  <2>1. \A p \in Procs : pc[p] \in Away => pc'[p] \in Away
    BY <1>2 DEF Away
  <2>2. QED
    BY <1>1, <1>2, <2>1, ProcsAre, TreeKept DEF Inv
<1>8. QED
  BY <1>1, <1>4, <1>5, <1>6, <1>7, InvIs DEF Inv

LEMMA ClaimDeepenKeeps ==
  ASSUME Inv, NEW d \in Deepeners, ClaimDeepen(d)
  PROVE  Inv'
<1> DEFINE e == [tx EXCEPT !.deepened = job[d].deepened]
<1>1. /\ Goto(d, "claim", "parse") /\ Write(d, e)
      /\ job' = [job EXCEPT ![d].mods = LoadAll(tx), ![d].known = DOMAIN tx.latest]
      /\ run' = run /\ lapsed' = lapsed
  BY DEF ClaimDeepen
<1>2. /\ pc[d] = "claim" /\ pc'[d] = "parse" /\ pc' \in [Procs -> Places]
      /\ \A q \in Procs \ {d} : pc'[q] = pc[q]
  BY <1>1, GotoIs, ProcsAre DEF Inv, Places
<1>3. DbOK(e) /\ e.latest = tx.latest /\ e.insts = tx.insts /\ e.complete = tx.complete
  <2>1. DbOK(e)
    <3>1. job[d].deepened \in SUBSET Paths
      BY DEF Inv, JobOK, JobsTyped, JobTyped
    <3>2. QED
      BY <3>1, ChangesOK DEF Inv
  <2>2. e.latest = tx.latest /\ e.insts = tx.insts /\ e.complete = tx.complete
    BY DEF Inv, DbOK, DbShape
  <2>3. QED
    BY <2>1, <2>2
<1> HIDE DEF e
<1>4. DbOK(db') /\ DbOK(tx') /\ LockOK'
  BY <1>1, <1>2, <1>3, Written, ProcsAre
<1>5. JobOK'
  <2>1. /\ JobsTyped(job') /\ job'[d].mods = LoadAll(tx)
        /\ \A q \in Deepeners \ {d} : job'[q] = job[q]
    <3> DEFINE mods == LoadAll(tx)
               known == DOMAIN tx.latest
    <3>1. JobsTyped(job) /\ Reloads(job, d, mods, known, job')
      BY <1>1 DEF Inv, JobOK, Reloads
    <3> HIDE DEF mods, known
    <3>2. /\ JobsTyped(job') /\ job'[d] = Reloaded(job[d], mods, known)
          /\ \A q \in Deepeners \ {d} : job'[q] = job[q]
      BY <3>1, ModsChanged
    <3>3. QED
      BY <3>2 DEF mods, Reloaded
  <2>2. ModsTyped(LoadAll(tx))
    BY LoadAllIs DEF Inv, ModsTyped
  <2>3. QED
    BY <1>2, <2>1, <2>2, ProcsAre DEF Inv, JobOK
<1>6. RunOK'
  <2>1. Seen' = Seen /\ pc'[Builder] = pc[Builder]
    BY <1>1, <1>2, ProcsAre, ProcAssumption DEF Seen, Write
  <2>2. QED
    BY <1>1, <2>1, RunKept DEF Inv
<1>7. TreeOK'
  <2>1. \A p \in Procs : pc[p] \in Away => pc'[p] \in Away
    BY <1>2 DEF Away
  <2>2. QED
    BY <1>1, <1>2, <2>1, ProcsAre, TreeKept DEF Inv, Write
<1>8. QED
  BY <1>4, <1>5, <1>6, <1>7, InvIs

\* A deepen commits no fewer names than the builder has seen committed.
LEMMA RunKeptByDeepen ==
  ASSUME Inv, NEW d \in Deepeners, NEW e, Commit(d, e), DOMAIN tx.latest \subseteq DOMAIN e.latest,
         run' = run, pc'[Builder] = pc[Builder]
  PROVE  RunOK'
<1>1. lock # Builder /\ db' = e /\ lock' = NoProc
  BY ProcsAre, ProcAssumption DEF Commit
<1>2. Seen = db /\ Seen' = e
  BY <1>1, ProcsAre, ProcAssumption DEF Seen
<1>3. DOMAIN db.latest \subseteq DOMAIN e.latest
  BY DEF Inv, LockOK
<1>4. QED
  BY <1>2, <1>3, RunKept DEF Inv

LEMMA ParseDeepenKeeps ==
  ASSUME Inv, NEW d \in Deepeners, ParseDeepen(d)
  PROVE  Inv'
<1> DEFINE j == job[d]
           chunk == DeepenSources(j.mods, Last(j.path), j.hops)
           full == TRUE
           batch == Ingested(chunk, full)
           mods == Merged(j.mods, batch)
           jobs == [job EXCEPT ![d].mods = mods]
<1>0. PICK lost : Commit(d, Stored(tx, batch, lost))
  BY DEF ParseDeepen
<1> DEFINE e == Stored(tx, batch, lost)
<1>1. /\ Goto(d, "parse", "clear") /\ Commit(d, e) /\ job' = Overlap(d, jobs)
      /\ run' = run /\ lapsed' = lapsed
  BY <1>0 DEF ParseDeepen
<1>2. /\ pc[d] = "parse" /\ pc'[d] = "clear" /\ pc' \in [Procs -> Places]
      /\ \A q \in Procs \ {d} : pc'[q] = pc[q]
  BY <1>1, GotoIs, ProcsAre DEF Inv, Places
<1>3. chunk \in SUBSET Files
  <2>1. JobTyped(j) /\ ModsTyped(j.mods)
    BY <1>2 DEF Inv, JobOK, JobsTyped
  <2>2. Last(j.path) \in Names /\ j.hops \in Nat \cup {Unlimited}
    BY <2>1, PathsAre DEF JobTyped
  <2> HIDE DEF j
  <2>3. QED
    BY <2>1, <2>2, DeepenSourcesAre
<1>4. full \in BOOLEAN
  OBVIOUS
<1> HIDE DEF chunk, full
<1>5. /\ DbOK(e) /\ DOMAIN tx.latest \subseteq DOMAIN e.latest
      /\ e.insts \subseteq tx.insts /\ e.complete = tx.complete
  <2>1. /\ DbOK(e) /\ DOMAIN e.latest = DOMAIN tx.latest \cup {Name[f] : f \in chunk}
        /\ e.insts = tx.insts \ lost /\ e.complete = tx.complete
    <3>1. StoredFrom(tx, chunk, lost, e)
      BY <1>3, <1>4, StoredOK DEF Inv
    <3>2. QED
      BY <3>1 DEF StoredFrom
  <2> HIDE DEF e
  <2>2. QED
    BY <2>1
<1> HIDE DEF e, mods
<1>6. JobsTyped(jobs) /\ \A q \in Deepeners \ {d} : jobs[q] = job[q]
  <2>1. JobsTyped(job)
    BY DEF Inv, JobOK
  <2>2. \E m, k : Reloads(job, d, m, k, jobs)
    BY DEF Reloads
  <2> HIDE DEF jobs
  <2>3. QED
    BY <2>1, <2>2, ModsChanged
<1> HIDE DEF jobs
<1>7. \A q \in Deepeners : pc'[q] = "parse" => ModsTyped(jobs[q].mods)
  BY <1>2, <1>6, ProcsAre DEF Inv, JobOK
<1>8. DbOK(db') /\ DbOK(tx') /\ LockOK' /\ JobOK'
  BY <1>1, <1>2, <1>5, <1>6, <1>7, Committed, ProcsAre
<1>9. RunOK'
  BY <1>1, <1>2, <1>5, ProcsAre, RunKeptByDeepen
<1>10. TreeOK'
  BY <1>2, ProcsAre DEF TreeOK, Away
<1>11. QED
  BY <1>8, <1>9, <1>10, InvIs

LEMMA ClearForDeepenKeeps ==
  ASSUME Inv, NEW d \in Deepeners, ClearForDeepen(d)
  PROVE  Inv'
<1> DEFINE e == [tx EXCEPT !.insts = {}]
<1>1. /\ Goto(d, "clear", "load") /\ Commit(d, e) /\ job' = Overlap(d, job)
      /\ run' = run /\ lapsed' = lapsed
  BY DEF ClearForDeepen
<1>2. /\ pc[d] = "clear" /\ pc'[d] = "load" /\ pc' \in [Procs -> Places]
      /\ \A q \in Procs \ {d} : pc'[q] = pc[q]
  BY <1>1, GotoIs, ProcsAre DEF Inv, Places
<1>3. DbOK(e) /\ e.latest = tx.latest
  <2>1. DbOK(e)
    BY ChangesOK DEF Inv
  <2>2. e.latest = tx.latest
    BY DEF Inv, DbOK, DbShape
  <2>3. QED
    BY <2>1, <2>2
<1> HIDE DEF e
<1>4. DbOK(db') /\ DbOK(tx') /\ LockOK' /\ JobOK'
  <2>1. \A q \in Deepeners : pc'[q] = "parse" => ModsTyped(job[q].mods)
    BY <1>2, ProcsAre DEF Inv, JobOK
  <2>2. QED
    BY <1>1, <1>2, <1>3, <2>1, Committed, ProcsAre DEF Inv, JobOK
<1>5. RunOK'
  BY <1>1, <1>2, <1>3, ProcsAre, RunKeptByDeepen
<1>6. TreeOK'
  BY <1>2, ProcsAre DEF TreeOK, Away
<1>7. QED
  BY <1>4, <1>5, <1>6, InvIs

LEMMA LoadDeepenedKeeps ==
  ASSUME Inv, NEW d \in Deepeners, LoadDeepened(d)
  PROVE  Inv'
<1> DEFINE j == job[d]
           flat == {p \in Flatten(j.mods, j.depth, j.deepened) : Last(p) \in DOMAIN tx.latest}
           insts == tx.insts \cup flat
           jobs == [job EXCEPT ![d] = NoJob]
           e == [tx EXCEPT !.insts = insts]
<1>1. /\ Goto(d, "load", "idle") /\ Commit(d, e) /\ job' = Overlap(d, jobs)
      /\ lapsed' = (<<Top>> \notin flat) /\ run' = run
  BY DEF LoadDeepened
<1>2. /\ pc[d] = "load" /\ pc'[d] = "idle" /\ pc' \in [Procs -> Places]
      /\ \A q \in Procs \ {d} : pc'[q] = pc[q]
  BY <1>1, GotoIs, ProcsAre DEF Inv, Places
<1>3. flat \subseteq Paths
  BY FlattenAre
<1> HIDE DEF flat
<1>4. insts \in SUBSET Paths /\ flat \subseteq insts
  BY <1>3 DEF Inv, DbOK
<1> HIDE DEF insts
<1>5. DbOK(e) /\ e.latest = tx.latest /\ e.insts = insts
  <2>1. DbOK(e)
    BY <1>4, ChangesOK DEF Inv
  <2>2. e.latest = tx.latest /\ e.insts = insts
    BY DEF Inv, DbOK, DbShape
  <2>3. QED
    BY <2>1, <2>2
<1> HIDE DEF e
<1>6. JobsTyped(jobs) /\ \A q \in Deepeners \ {d} : jobs[q] = job[q]
  <2>1. JobsTyped(job)
    BY DEF Inv, JobOK
  <2>2. QED
    BY <2>1, NoJobTyped, JobChanged
<1> HIDE DEF jobs
<1>7. \A q \in Deepeners : pc'[q] = "parse" => ModsTyped(jobs[q].mods)
  BY <1>2, <1>6, ProcsAre DEF Inv, JobOK
<1>8. DbOK(db') /\ DbOK(tx') /\ LockOK' /\ JobOK'
  BY <1>1, <1>2, <1>5, <1>6, <1>7, Committed, ProcsAre
<1>9. RunOK'
  BY <1>1, <1>2, <1>5, ProcsAre, RunKeptByDeepen
<1>10. TreeOK'
  <2>1. db'.insts = insts
    BY <1>1, <1>5 DEF Commit
  <2>2. QED
    BY <1>1, <1>4, <2>1 DEF TreeOK
<1>11. QED
  BY <1>8, <1>9, <1>10, InvIs

\* Whoever ends leaves the committed database, and an excuse if it was
\* replacing a tree that is without its top now.
LEMMA AbandonKeeps ==
  ASSUME Inv, NEW p \in Procs, Abandon(p)
  PROVE  Inv'
<1>1. /\ pc' = [pc EXCEPT ![p] = "idle"] /\ db' = db
      /\ run' = (IF p = Builder THEN NoRun ELSE run)
      /\ job' = [d \in Deepeners |-> IF d = p THEN NoJob ELSE job[d]]
      /\ lock' = (IF lock = p THEN NoProc ELSE lock)
      /\ tx' = (IF lock = p THEN db ELSE tx)
      /\ lapsed' = (lapsed \/ (pc[p] \in Away /\ <<Top>> \notin db.insts))
  BY DEF Abandon, Replacing, Away
<1>2. /\ pc'[p] = "idle" /\ pc' \in [Procs -> Places]
      /\ \A q \in Procs \ {p} : pc'[q] = pc[q]
  BY <1>1 DEF Inv, LockOK, Places
<1>3. DbOK(db') /\ DbOK(tx')
  BY <1>1 DEF Inv
<1>4. LockOK'
  <2>1. \A q \in Procs : lock' = q => pc'[q] # "idle"
    BY <1>1, <1>2, ProcAssumption DEF Inv, LockOK
  <2>2. lock' = NoProc => tx' = db'
    BY <1>1 DEF Inv, LockOK
  <2>3. lock' # Builder => tx'.insts = db'.insts
    BY <1>1, ProcAssumption DEF Inv, LockOK, Procs
  <2>4. lock' = Builder => pc'[Builder] \in {"skim", "full"}
    <3>1. SUFFICES ASSUME lock' = Builder PROVE pc'[Builder] \in {"skim", "full"}
      OBVIOUS
    <3>2. lock = Builder /\ p # Builder
      BY <1>1, <3>1, ProcsAre, ProcAssumption
    <3>3. QED
      BY <1>2, <3>2, ProcsAre DEF Inv, LockOK
  <2>5. lock' \in Procs \cup {NoProc}
    BY <1>1 DEF Inv, LockOK
  <2>6. /\ DOMAIN db'.latest \subseteq DOMAIN tx'.latest
        /\ tx'.insts \subseteq db'.insts /\ tx'.complete = db'.complete
    BY <1>1 DEF Inv, LockOK
  <2>7. QED
    BY <1>2, <2>1, <2>2, <2>3, <2>4, <2>5, <2>6 DEF LockOK
<1>5. JobOK'
  <2>1. JobsTyped(job') /\ \A d \in Deepeners \ {p} : job'[d] = job[d]
    BY <1>1, JobForgotten DEF Inv, JobOK
  <2>2. QED
    BY <1>2, <2>1, ProcsAre DEF Inv, JobOK
<1>6. RunOK'
  <2>1. CASE p = Builder
    BY <1>1, <1>2, <2>1, RunEnds
  <2>2. CASE p # Builder
    <3>1. Seen' = Seen
      BY <1>1, <2>2, ProcsAre, ProcAssumption DEF Seen
    <3>2. QED
      BY <1>1, <1>2, <2>2, <3>1, RunKept, ProcsAre DEF Inv
  <2>3. QED
    BY <2>1, <2>2
<1>7. TreeOK'
  <2>1. CASE pc[p] \in Away
    BY <1>1, <2>1 DEF TreeOK
  <2>2. CASE pc[p] \notin Away
    <3>1. \A q \in Procs : pc[q] \in Away => pc'[q] \in Away
      BY <1>2, <2>2
    <3>2. pc'[Builder] = "finish" => pc[Builder] = "finish"
      BY <1>2, ProcsAre
    <3>3. lapsed => lapsed'
      BY <1>1
    <3>4. QED
      BY <1>1, <3>1, <3>2, <3>3 DEF Inv, TreeOK
  <2>3. QED
    BY <2>1, <2>2
<1>8. QED
  BY <1>3, <1>4, <1>5, <1>6, <1>7, InvIs

LEMMA NothingKeeps ==
  ASSUME Inv, UNCHANGED vars
  PROVE  Inv'
<1>1. /\ db' = db /\ tx' = tx /\ lock' = lock /\ pc' = pc /\ run' = run /\ job' = job
      /\ lapsed' = lapsed
  BY DEF vars
<1>2. LockOK' /\ JobOK' /\ TreeOK'
  BY <1>1 DEF Inv, LockOK, JobOK, TreeOK
<1>3. RunOK'
  <2>1. Seen' = Seen
    BY <1>1 DEF Seen
  <2>2. QED
    BY <1>1, <2>1, RunKept DEF Inv
<1>4. QED
  BY <1>1, <1>2, <1>3, InvIs DEF Inv
-----------------------------------------------------------------------------
(***************************************************************************)
(* The theorems.                                                           *)
(***************************************************************************)
LEMMA InitOK ==
  ASSUME Init
  PROVE  Inv
<1>1. DbOK(db) /\ db.latest = NoRows /\ ~db.complete
  <2>1. db = [rows |-> NoRows, latest |-> NoRows, insts |-> {}, done |-> {},
              complete |-> FALSE, depth |-> Unlimited, deepened |-> {}]
    BY DEF Init
  <2>2. DbShape(db)
    BY <2>1 DEF DbShape
  <2>3. QED
    BY <2>1, <2>2, EmptyTables DEF DbOK
<1>2. LockOK
  <2>1. pc = [p \in Procs |-> "idle"] /\ tx = db /\ lock = NoProc
    BY DEF Init
  <2>2. pc \in [Procs -> Places]
    BY <2>1 DEF Places
  <2>3. QED
    BY <2>1, <2>2, ProcAssumption DEF LockOK, Procs
<1>3. \A p \in Procs : pc[p] = "idle"
  BY DEF Init
<1>4. JobOK
  <2>1. job = [d \in Deepeners |-> NoJob]
    BY DEF Init
  <2>2. JobsTyped(job)
    BY <2>1, NoJobTyped DEF JobsTyped
  <2>3. QED
    BY <1>3, <2>2, ProcsAre DEF JobOK
<1>5. RunOK
  <2>1. run = NoRun
    BY DEF Init
  <2>2. ~Building /\ pc[Builder] = "idle"
    BY <1>3, ProcsAre DEF Building
  <2>3. QED
    BY <2>1, <2>2, NoRunIs DEF RunOK
<1>6. TreeOK
  BY <1>1, <1>3, ProcsAre DEF TreeOK
<1>7. QED
  BY <1>1, <1>2, <1>4, <1>5, <1>6 DEF Inv, Init

LEMMA NextKeeps ==
  ASSUME Inv, [Next]_vars
  PROVE  Inv'
<1>1. ASSUME NEW mode \in Modes, NEW depth \in Depths, StartBuild(mode, depth) PROVE Inv'
  BY <1>1, StartBuildKeeps
<1>2. CASE EraseTables
  BY <1>2, EraseTablesKeeps
<1>3. CASE MarkIncomplete
  BY <1>3, MarkIncompleteKeeps
<1>4. CASE OpenRun
  BY <1>4, OpenRunKeeps
<1>5. ASSUME NEW phase \in {"skim", "full"}, NEW chunk \in run[phase], BatchDone(phase, chunk)
      PROVE  Inv'
  BY <1>5, BatchDoneKeeps
<1>6. CASE SkimPhaseEnds
  BY <1>6, SkimPhaseEndsKeeps
<1>7. CASE ClearInstances
  BY <1>7, ClearInstancesKeeps
<1>8. CASE LoadInstances
  BY <1>8, LoadInstancesKeeps
<1>9. CASE FinishBuild
  BY <1>9, FinishBuildKeeps
<1>10. ASSUME NEW d \in Deepeners, NEW path \in db.insts, NEW hops \in Hops,
              StartDeepen(d, path, hops)
       PROVE  Inv'
  BY <1>10, StartDeepenKeeps
<1>11. ASSUME NEW d \in Deepeners,
              ClaimDeepen(d) \/ ParseDeepen(d) \/ ClearForDeepen(d) \/ LoadDeepened(d)
       PROVE  Inv'
  BY <1>11, ClaimDeepenKeeps, ParseDeepenKeeps, ClearForDeepenKeeps, LoadDeepenedKeeps
<1>12. ASSUME NEW p \in Procs, Stop(p) \/ TimeOut(p) PROVE Inv'
  BY <1>12, AbandonKeeps DEF Stop, TimeOut
<1>13. CASE Rest \/ UNCHANGED vars
  BY <1>13, NothingKeeps DEF Rest
<1>14. QED
  BY <1>1, <1>2, <1>3, <1>4, <1>5, <1>6, <1>7, <1>8, <1>9, <1>10, <1>11, <1>12, <1>13
     DEF Next

LEMMA InvAlways == Spec => []Inv
<1>1. Init => Inv
  BY InitOK
<1>2. Inv /\ [Next]_vars => Inv'
  BY NextKeeps
<1>3. QED
  BY <1>1, <1>2, PTL DEF Spec

\* The tables, the tree and the lock keep their shape, and nobody idles with an
\* open transaction (store.py, batched_loader.py, deepen.py).
THEOREM IndexTypeCorrect == Spec => []TypeOK
<1>1. Inv => TypeOK
  BY DEF Inv, DbOK, LockOK, TypeOK
<1>2. QED
  BY <1>1, InvAlways, PTL

\* An index that says it is complete shows its top to the readers' joins, but
\* while somebody replaces the modules or the tree, from the commit of the first
\* re-parsed batch on (store.py:181, store.py:259), and but for a run that took
\* the top away and did not come back.
THEOREM EmptyTreeAlwaysExcused == Spec => []EmptyTreeIsExcused
<1>1. Inv => EmptyTreeIsExcused
  BY DEF Inv, TreeOK, EmptyTreeIsExcused, Replacing, Away
<1>2. QED
  BY <1>1, InvAlways, PTL
\* A transaction of rows that keep their files' children leaves such rows.
LEMMA FaithfulWrite ==
  ASSUME Faithful, NEW p, NEW e, Commit(p, e) \/ Write(p, e),
         \A f \in DOMAIN e.rows : e.rows[f].kids = Kids[f]
  PROVE  Faithful'
BY DEF Faithful, Commit, Write

LEMMA RowsUnchanged ==
  ASSUME NEW d, DbShape(d), NEW x
  PROVE  /\ [d EXCEPT !.insts = x].rows = d.rows /\ [d EXCEPT !.done = x].rows = d.rows
         /\ [d EXCEPT !.complete = x].rows = d.rows /\ [d EXCEPT !.depth = x].rows = d.rows
         /\ [d EXCEPT !.deepened = x].rows = d.rows
BY DEF DbShape

LEMMA FaithfulKept ==
  ASSUME OneDefinition, Inv, Faithful, [Next]_vars
  PROVE  Faithful'
<1> DEFINE Kept(e) == e.rows = tx.rows
<1>1. ASSUME NEW p, NEW e, Commit(p, e) \/ Write(p, e), Kept(e) PROVE Faithful'
  <2>1. \A f \in DOMAIN e.rows : e.rows[f].kids = Kids[f]
    BY <1>1 DEF Faithful
  <2>2. QED
    BY <1>1, <2>1, FaithfulWrite
<1>2. DbShape(tx)
  BY DEF Inv, DbOK
<1>3. CASE UNCHANGED <<db, tx>>
  BY <1>3 DEF Faithful
<1>4. CASE EraseTables
  <2> DEFINE e == [tx EXCEPT !.rows = NoRows, !.latest = NoRows, !.insts = {}, !.done = {}]
  <2>1. Commit(Builder, e)
    BY <1>4 DEF EraseTables
  <2>2. DOMAIN e.rows = {}
    <3>1. e.rows = NoRows
      BY <1>2 DEF DbShape
    <3>2. QED
      BY <3>1, EmptyTables
  <2> HIDE DEF e
  <2>3. QED
    BY <2>1, <2>2, FaithfulWrite
<1>5. CASE MarkIncomplete
  <2> DEFINE e == [tx EXCEPT !.complete = FALSE]
  <2>1. Commit(Builder, e) /\ Kept(e)
    BY <1>2, <1>5, RowsUnchanged DEF MarkIncomplete
  <2> HIDE DEF e, Kept
  <2>2. QED
    BY <1>1, <2>1
<1>6. CASE OpenRun
  <2>1. \E x : Commit(Builder, [tx EXCEPT !.depth = x])
    BY <1>6 DEF OpenRun
  <2>2. PICK x : Commit(Builder, [tx EXCEPT !.depth = x])
    BY <2>1
  <2> DEFINE e == [tx EXCEPT !.depth = x]
  <2>3. Commit(Builder, e) /\ Kept(e)
    BY <1>2, <2>2, RowsUnchanged
  <2> HIDE DEF e, Kept
  <2>4. QED
    BY <1>1, <2>3
<1>7. ASSUME NEW phase \in {"skim", "full"}, NEW chunk \in run[phase], BatchDone(phase, chunk)
      PROVE  Faithful'
  <2> DEFINE full == phase = "full"
  <2>0. PICK lost :
          \/ Write(Builder, Stored(tx, Ingested(chunk, full), lost))
          \/ \E done : Commit(Builder, [Stored(tx, Ingested(chunk, full), lost) EXCEPT !.done = done])
    BY <1>7 DEF BatchDone
  <2> DEFINE stored == Stored(tx, Ingested(chunk, full), lost)
  <2>1. full \in BOOLEAN /\ chunk \in SUBSET Files
    BY DEF Inv, RunOK
  <2>2. \/ Write(Builder, stored)
        \/ \E done : Commit(Builder, [stored EXCEPT !.done = done])
    BY <2>0
  <2> HIDE DEF full
  <2>3. DbOK(stored)
    BY <2>1, StoredOK DEF Inv, StoredFrom
  <2>4. \A f \in DOMAIN tx.rows : tx.rows[f].kids = Kids[f]
    BY DEF Faithful
  <2>5. \A f \in DOMAIN stored.rows : stored.rows[f].kids = Kids[f]
    BY <2>1, <2>4, StoredFaithful DEF Inv
  <2> HIDE DEF stored
  <2>6. CASE Write(Builder, stored)
    BY <2>5, <2>6, FaithfulWrite
  <2>7. ASSUME NEW done, Commit(Builder, [stored EXCEPT !.done = done]) PROVE Faithful'
    <3> DEFINE e == [stored EXCEPT !.done = done]
    <3>1. Commit(Builder, e) /\ e.rows = stored.rows
      BY <2>3, <2>7, RowsUnchanged DEF DbOK
    <3> HIDE DEF e
    <3>2. QED
      BY <2>5, <3>1, FaithfulWrite
  <2>8. QED
    BY <2>2, <2>6, <2>7
<1>8. CASE SkimPhaseEnds
  <2>1. Write(Builder, tx)
    BY <1>8 DEF SkimPhaseEnds
  <2>2. QED
    BY <1>1, <2>1
<1>9. ASSUME NEW p, NEW x, Commit(p, [tx EXCEPT !.insts = x]) PROVE Faithful'
  <2> DEFINE e == [tx EXCEPT !.insts = x]
  <2>1. Commit(p, e) /\ Kept(e)
    BY <1>2, <1>9, RowsUnchanged
  <2> HIDE DEF e, Kept
  <2>2. QED
    BY <1>1, <2>1
<1>10. CASE ClearInstances \/ LoadInstances
  <2>1. \E x : Commit(Builder, [tx EXCEPT !.insts = x])
    BY <1>10 DEF ClearInstances, LoadInstances
  <2>2. QED
    BY <1>9, <2>1
<1>11. ASSUME NEW d \in Deepeners, ClearForDeepen(d) \/ LoadDeepened(d) PROVE Faithful'
  <2>1. \E x : Commit(d, [tx EXCEPT !.insts = x])
    BY <1>11 DEF ClearForDeepen, LoadDeepened
  <2>2. QED
    BY <1>9, <2>1
<1>12. CASE FinishBuild
  <2> DEFINE e == [tx EXCEPT !.complete = TRUE]
  <2>1. Commit(Builder, e) /\ Kept(e)
    BY <1>2, <1>12, RowsUnchanged DEF FinishBuild
  <2> HIDE DEF e, Kept
  <2>2. QED
    BY <1>1, <2>1
<1>13. ASSUME NEW d \in Deepeners, ClaimDeepen(d) PROVE Faithful'
  <2> DEFINE e == [tx EXCEPT !.deepened = job[d].deepened]
  <2>1. Write(d, e) /\ Kept(e)
    BY <1>2, <1>13, RowsUnchanged DEF ClaimDeepen
  <2> HIDE DEF e, Kept
  <2>2. QED
    BY <1>1, <2>1
<1>14. ASSUME NEW d \in Deepeners, ParseDeepen(d) PROVE Faithful'
  <2> DEFINE j == job[d]
             chunk == DeepenSources(j.mods, Last(j.path), j.hops)
             full == TRUE
  <2>0. PICK lost : Commit(d, Stored(tx, Ingested(chunk, full), lost))
    BY <1>14 DEF ParseDeepen
  <2> DEFINE e == Stored(tx, Ingested(chunk, full), lost)
  <2>1. Commit(d, e) /\ pc[d] = "parse"
    BY <1>14, <2>0 DEF ParseDeepen, Goto
  <2>2. chunk \in SUBSET Files
    <3>1. JobTyped(j) /\ ModsTyped(j.mods)
      BY <2>1 DEF Inv, JobOK, JobsTyped
    <3>2. Last(j.path) \in Names /\ j.hops \in Nat \cup {Unlimited}
      BY <3>1, PathsAre DEF JobTyped
    <3> HIDE DEF j
    <3>3. QED
      BY <3>1, <3>2, DeepenSourcesAre
  <2>3. full \in BOOLEAN /\ \A f \in DOMAIN tx.rows : tx.rows[f].kids = Kids[f]
    BY DEF Faithful
  <2> HIDE DEF chunk, full
  <2>4. \A f \in DOMAIN e.rows : e.rows[f].kids = Kids[f]
    BY <2>2, <2>3, StoredFaithful DEF Inv
  <2> HIDE DEF e
  <2>5. QED
    BY <2>1, <2>4, FaithfulWrite
<1>15. ASSUME NEW p \in Procs, Stop(p) \/ TimeOut(p) PROVE Faithful'
  <2>1. db' = db /\ tx' = (IF lock = p THEN db ELSE tx)
    BY <1>15 DEF Stop, TimeOut, Abandon
  <2>2. QED
    BY <2>1 DEF Faithful
<1>16. ASSUME NEW mode \in Modes, NEW depth \in Depths, StartBuild(mode, depth) PROVE Faithful'
  BY <1>3, <1>16 DEF StartBuild
<1>17. ASSUME NEW d \in Deepeners, NEW path \in db.insts, NEW hops \in Hops,
              StartDeepen(d, path, hops)
       PROVE  Faithful'
  BY <1>3, <1>17 DEF StartDeepen
<1>18. CASE Rest \/ UNCHANGED vars
  BY <1>3, <1>18 DEF Rest, vars
<1>19. QED
  BY <1>4, <1>5, <1>6, <1>7, <1>8, <1>10, <1>11, <1>12, <1>13, <1>14, <1>15, <1>16, <1>17, <1>18
     DEF Next

LEMMA FaithfulInit == Init => Faithful
<1> SUFFICES ASSUME Init PROVE Faithful
  OBVIOUS
<1>1. db.rows = NoRows /\ tx = db
  BY DEF Init
<1>2. QED
  BY <1>1, EmptyTables DEF Faithful

\* Where no two files define one name, a file that a resumed run will skip has
\* its edges in the committed tables, whatever was killed, raised or
\* interleaved (batched_loader.py:261).
THEOREM CheckpointAlwaysBacked ==
  ASSUME OneDefinition
  PROVE  Spec => []CheckpointIsBacked
<1>1. Init => Faithful
  BY FaithfulInit
<1>2. Inv /\ Faithful /\ [Next]_vars => Faithful'
  BY FaithfulKept
<1>3. Inv /\ Faithful => CheckpointIsBacked
  <2> SUFFICES ASSUME Inv, Faithful PROVE CheckpointIsBacked
    OBVIOUS
  <2>1. TypeOK
    BY DEF Inv, DbOK, LockOK, TypeOK
  <2>2. ASSUME NEW f \in db.done PROVE f \in DOMAIN db.rows /\ db.rows[f].kids = Kids[f]
    <3>1. f \in Files /\ Name[f] \in DOMAIN db.latest
      BY DEF Inv, DbOK
    <3>2. /\ db.latest[Name[f]] \in DOMAIN db.rows /\ db.latest[Name[f]] \in Files
          /\ Name[db.latest[Name[f]]] = Name[f]
      BY <3>1 DEF Inv, DbOK
    <3>3. db.latest[Name[f]] = f
      BY <3>1, <3>2 DEF OneDefinition
    <3>4. QED
      BY <3>2, <3>3 DEF Faithful
  <2>3. QED
    BY <2>1, <2>2 DEF CheckpointIsBacked
<1>4. QED
  BY <1>1, <1>2, <1>3, InvAlways, PTL DEF Spec
-----------------------------------------------------------------------------
(***************************************************************************)
(* How far the flattening looks.                                           *)
(***************************************************************************)
\* The whole branch below such a path is flattened, down to the next limit.
Unbound(p, depth, deepened) ==
  depth = Unlimited \/ Under(p, deepened) \/ p = <<Top>> \/ Last(p) \in Anchors

HopsFrom(h, depth, deepened) ==
  h = [p \in Paths |->
         IF Unbound(p, depth, deepened) THEN Unlimited
         ELSE IF h[Front(p)] = Unlimited THEN depth ELSE h[Front(p)] - 1]

LEMMA HopsByPaths ==
  ASSUME NEW depth, NEW deepened, \E h : HopsFrom(h, depth, deepened)
  PROVE  HopsFrom(FlatHops(depth, deepened), depth, deepened)
BY DEF FlatHops, HopsFrom, Unbound

\* A path's hops are those of the one above, which is shorter: as many rounds
\* as the path is long find them.
LEMMA HopsExist ==
  ASSUME NEW depth \in Int, NEW deepened
  PROVE  \E h : HopsFrom(h, depth, deepened)
<1> DEFINE U == [Paths -> Int]
           a == [p \in Paths |-> 0]
           Of(g, p) == IF Unbound(p, depth, deepened) THEN Unlimited
                       ELSE IF g[Front(p)] = Unlimited THEN depth ELSE g[Front(p)] - 1
           step == [g \in U |-> [p \in Paths |-> Of(g, p)]]
<1>1. a \in U
  OBVIOUS
<1>2. ASSUME NEW g \in U, NEW p \in Paths PROVE Of(g, p) \in Int
  <2>1. CASE Unbound(p, depth, deepened)
    BY <2>1 DEF Unlimited
  <2>2. CASE ~Unbound(p, depth, deepened)
    <3>1. Front(p) \in Paths
      BY <2>2, FrontIs DEF Unbound
    <3>2. g[Front(p)] \in Int
      BY <3>1
    <3>3. QED
      BY <2>2, <3>2
  <2>3. QED
    BY <2>1, <2>2
<1> HIDE DEF Of
<1>3. step \in [U -> U]
  <2>1. \A g \in U : [p \in Paths |-> Of(g, p)] \in U
    BY <1>2
  <2> HIDE DEF U
  <2>2. QED
    BY <2>1
<1>4. PICK f \in [Nat -> U] : \A n \in Nat : f[n + 1] = step[f[n]]
  <2> HIDE DEF U, a, step
  <2>1. PICK f : Iterates(f, U, a, step)
    BY <1>1, <1>3, RecursionHolds
  <2>2. QED
    BY <2>1 DEF Iterates
<1>5. ASSUME NEW n \in Nat, NEW p \in Paths PROVE f[n + 1][p] = Of(f[n], p)
  <2>1. f[n] \in U /\ f[n + 1] = step[f[n]]
    BY <1>4
  <2> HIDE DEF U
  <2>2. f[n + 1] = [q \in Paths |-> Of(f[n], q)]
    BY <2>1
  <2>3. QED
    BY <2>2
<1> DEFINE h == [p \in Paths |-> f[Len(p)][p]]
<1>6. ASSUME NEW p \in Paths PROVE h[p] = Of(h, p)
  <2>1. PICK n \in Nat : Len(p) = n + 1
    <3>1. Len(p) \in Nat \ {0}
      BY PathIs
    <3> DEFINE len == Len(p)
    <3> HIDE DEF len
    <3>2. len \in Nat \ {0} => \E n \in Nat : len = n + 1
      <4> SUFFICES ASSUME len \in Nat \ {0} PROVE \E n \in Nat : len = n + 1
        OBVIOUS
      <4>1. len - 1 \in Nat /\ len = (len - 1) + 1
        OBVIOUS
      <4>2. QED
        BY <4>1
    <3>3. QED
      BY <3>1, <3>2 DEF len
  <2>2. h[p] = Of(f[n], p)
    BY <1>5, <2>1
  <2>3. CASE Unbound(p, depth, deepened)
    BY <2>2, <2>3 DEF Of
  <2>4. CASE ~Unbound(p, depth, deepened)
    <3>1. Front(p) \in Paths /\ Len(Front(p)) = n
      <4>1. Front(p) \in Paths /\ Len(Front(p)) = Len(p) - 1
        BY <2>4, FrontIs DEF Unbound
      <4>2. QED
        BY <2>1, <4>1
    <3>2. h[Front(p)] = f[n][Front(p)]
      BY <3>1
    <3> HIDE DEF h
    <3>3. QED
      BY <2>2, <3>2 DEF Of
  <2>5. QED
    BY <2>3, <2>4
<1>7. h = [p \in Paths |-> Of(h, p)]
  <2>1. h = [p \in Paths |-> h[p]]
    OBVIOUS
  <2> HIDE DEF h
  <2>2. QED
    BY <1>6, <2>1
<1> HIDE DEF h
<1>8. QED
  BY <1>7 DEF HopsFrom, Of

LEMMA HopsAre ==
  ASSUME NEW depth \in Int, NEW deepened, NEW p \in Paths
  PROVE  LET h == FlatHops(depth, deepened)
         IN h[p] = IF Unbound(p, depth, deepened) THEN Unlimited
                   ELSE IF h[Front(p)] = Unlimited THEN depth ELSE h[Front(p)] - 1
<1> DEFINE h == FlatHops(depth, deepened)
<1>1. HopsFrom(h, depth, deepened)
  BY HopsExist, HopsByPaths
<1> HIDE DEF h
<1>2. h[p] = IF Unbound(p, depth, deepened) THEN Unlimited
             ELSE IF h[Front(p)] = Unlimited THEN depth ELSE h[Front(p)] - 1
  BY <1>1 DEF HopsFrom
<1>3. QED
  BY <1>2 DEF h

Limits(depth) == {Unlimited} \cup 0 .. depth

\* b levels reach at least as far as a levels.
AsFar(b, a) == b = Unlimited \/ (a # Unlimited /\ b >= a)

\* Below hops that are not used up, a path with more prefixes has as many.
LEMMA HopsGrow ==
  ASSUME NEW depth \in Nat \cup {Unlimited}, NEW D, NEW E, D \subseteq E,
         NEW p \in Paths, \A q \in Above(p) : FlatHops(depth, D)[q] # 0
  PROVE  FlatHops(depth, D)[p] \in Limits(depth) /\ FlatHops(depth, E)[p] \in Limits(depth)
         /\ AsFar(FlatHops(depth, E)[p], FlatHops(depth, D)[p])
<1> DEFINE g == FlatHops(depth, D)
           h == FlatHops(depth, E)
           Good(s) == g[s] \in Limits(depth) /\ h[s] \in Limits(depth) /\ AsFar(h[s], g[s])
           S == {n \in Nat : \A s \in Paths :
                               Len(s) = n /\ (\A q \in Above(s) : g[q] # 0) => Good(s)}
<1>1. depth \in Int
  BY DEF Unlimited
<1>2. ASSUME NEW s \in Paths
      PROVE  /\ g[s] = IF Unbound(s, depth, D) THEN Unlimited
                       ELSE IF g[Front(s)] = Unlimited THEN depth ELSE g[Front(s)] - 1
             /\ h[s] = IF Unbound(s, depth, E) THEN Unlimited
                       ELSE IF h[Front(s)] = Unlimited THEN depth ELSE h[Front(s)] - 1
  BY <1>1, HopsAre
<1>3. \A s : Unbound(s, depth, D) => Unbound(s, depth, E)
  BY DEF Unbound, Under
<1> HIDE DEF g, h
<1>4. 0 \in S
  <2>1. \A s \in Paths : Len(s) # 0
    BY PathIs
  <2> HIDE DEF Good
  <2>2. QED
    BY <2>1
<1>5. ASSUME NEW n \in Nat, n \in S PROVE n + 1 \in S
  <2> SUFFICES ASSUME NEW s \in Paths, Len(s) = n + 1, \A q \in Above(s) : g[q] # 0
               PROVE  Good(s)
    BY DEF S
  <2>1. CASE Unbound(s, depth, D)
    BY <1>2, <1>3, <2>1 DEF Limits, AsFar
  <2>2. CASE ~Unbound(s, depth, D)
    <3> DEFINE t == Front(s)
    <3>1. /\ t \in Paths /\ Len(t) = n /\ t \in Above(s)
          /\ \A q \in Above(t) : g[q] # 0
      <4>1. s # <<Top>>
        BY <2>2 DEF Unbound
      <4>2. t \in Paths /\ Len(t) = Len(s) - 1 /\ t \in Above(s) /\ Above(t) \subseteq Above(s)
        BY <4>1, FrontIs
      <4>3. QED
        BY <4>2
    <3> HIDE DEF t, Good
    <3>2. Good(t) /\ g[t] # 0
      BY <1>5, <3>1
    <3>3. depth \in Nat
      BY <2>2 DEF Unbound
    <3>4. g[s] = IF g[t] = Unlimited THEN depth ELSE g[t] - 1
      BY <1>2, <2>2 DEF t
    <3>5. h[s] = Unlimited \/ h[s] = IF h[t] = Unlimited THEN depth ELSE h[t] - 1
      BY <1>2 DEF t
    <3>6. QED
      BY <3>2, <3>3, <3>4, <3>5 DEF Good, Limits, AsFar, Unlimited
  <2>3. QED
    BY <2>1, <2>2
<1> HIDE DEF S
<1>6. \A n \in Nat : n \in S
  BY <1>4, <1>5, SetInduction
<1>7. Len(p) \in Nat /\ \A q \in Above(p) : g[q] # 0
  BY PathIs DEF g
<1> HIDE DEF Good
<1>8. Good(p)
  BY <1>6, <1>7 DEF S
<1>9. QED
  BY <1>8 DEF Good, g, h
-----------------------------------------------------------------------------
(***************************************************************************)
(* What the flattening stores.                                             *)
(***************************************************************************)
\* Module records with the children of the design.
KidsKept(mods) == \A n \in DOMAIN mods : mods[n].kids = AllKids(n)

\* The tree of the modules with these names.
Named(names, depth, deepened) ==
  {p \in Paths : /\ \A i \in 1 .. Len(p) : p[i] \in names
                 /\ \A q \in Above(p) : FlatHops(depth, deepened)[q] # 0}

\* The children are those of the path itself.
LEMMA FlattenIs ==
  ASSUME NEW mods, KidsKept(mods), NEW depth, NEW deepened
  PROVE  Flatten(mods, depth, deepened) = Named(DOMAIN mods, depth, deepened)
<1> DEFINE h == FlatHops(depth, deepened)
<1>1. Flatten(mods, depth, deepened) =
        {p \in Paths :
           /\ \A i \in DOMAIN p : p[i] \in DOMAIN mods
           /\ \A q \in Above(p) : h[q] # 0 /\ p[Len(q) + 1] \in mods[Last(q)].kids}
  BY DEF Flatten
<1> HIDE DEF h
<1>2. ASSUME NEW p \in Paths, \A i \in 1 .. Len(p) : p[i] \in DOMAIN mods, NEW q \in Above(p)
      PROVE  p[Len(q) + 1] \in mods[Last(q)].kids
  <2>1. Len(q) \in 1 .. Len(p) - 1 /\ Last(q) = p[Len(q)]
    BY AboveIs
  <2>2. Len(p) \in Nat /\ p[Len(q) + 1] \in AllKids(p[Len(q)])
    BY <2>1, PathIs
  <2>3. Len(q) \in 1 .. Len(p)
    BY <2>1, <2>2
  <2>4. Last(q) \in DOMAIN mods
    BY <1>2, <2>1, <2>3
  <2>5. QED
    BY <2>1, <2>2, <2>4 DEF KidsKept
<1>3. \A p \in Paths : DOMAIN p = 1 .. Len(p)
  BY PathIs
<1>4. QED
  BY <1>1, <1>2, <1>3 DEF Named, h

\* More modules or more prefixes take nothing away.
LEMMA NamedGrows ==
  ASSUME NEW depth \in Nat \cup {Unlimited}, NEW D, NEW E, D \subseteq E,
         NEW M, NEW N, M \subseteq N
  PROVE  Named(M, depth, D) \subseteq Named(N, depth, E)
<1> DEFINE g == FlatHops(depth, D)
           h == FlatHops(depth, E)
<1>1. ASSUME NEW p \in Named(M, depth, D), NEW q \in Above(p)
      PROVE  h[q] # 0
  <2>1. p \in Paths /\ \A s \in Above(p) : g[s] # 0
    BY DEF Named
  <2>2. q \in Paths /\ Above(q) \subseteq Above(p)
    BY <2>1, AboveOfAbove, AboveIs
  <2>3. \A s \in Above(q) : g[s] # 0
    BY <2>1, <2>2
  <2>4. g[q] \in Limits(depth) /\ h[q] \in Limits(depth) /\ AsFar(h[q], g[q])
    BY <2>2, <2>3, HopsGrow
  <2>5. g[q] # 0
    BY <2>1
  <2> HIDE DEF g, h
  <2>6. QED
    BY <2>4, <2>5 DEF Limits, AsFar, Unlimited
<1>2. QED
  BY <1>1 DEF Named
-----------------------------------------------------------------------------
(***************************************************************************)
(* Records with the children of the design, where names have one file.     *)
(***************************************************************************)
LEMMA KidsOfName ==
  ASSUME OneDefinition, NEW f \in Files
  PROVE  AllKids(Name[f]) = Kids[f]
<1>1. {g \in Files : Name[g] = Name[f]} = {f}
  BY DEF OneDefinition
<1>2. QED
  BY <1>1 DEF AllKids

LEMMA IngestedKids ==
  ASSUME OneDefinition, NEW chunk \in SUBSET Files, NEW full
  PROVE  DOMAIN Ingested(chunk, full) = {Name[f] : f \in chunk} /\ KidsKept(Ingested(chunk, full))
<1> DEFINE batch == Ingested(chunk, full)
<1>1. BatchOf(chunk, full, batch)
  BY IngestedAre
<1> HIDE DEF batch
<1>2. ASSUME NEW n \in DOMAIN batch PROVE batch[n].kids = AllKids(n)
  <2>1. /\ batch[n].files # {} /\ \A f \in batch[n].files : f \in chunk /\ Name[f] = n
        /\ batch[n].kids = KidsOf(batch[n].files)
    BY <1>1 DEF BatchOf
  <2>2. PICK f \in batch[n].files : f \in Files /\ Name[f] = n
    BY <2>1
  <2>3. batch[n].files = {f}
    BY <2>1, <2>2 DEF OneDefinition
  <2>4. QED
    BY <2>1, <2>2, <2>3, KidsOfName DEF KidsOf
<1>3. QED
  BY <1>1, <1>2 DEF BatchOf, KidsKept, batch

LEMMA MergedKids ==
  ASSUME NEW mods, KidsKept(mods), NEW batch, KidsKept(batch)
  PROVE  KidsKept(Merged(mods, batch))
<1> SUFFICES ASSUME NEW n \in DOMAIN mods \cup DOMAIN batch
             PROVE  Merged(mods, batch)[n].kids = AllKids(n)
  BY MergedAre DEF KidsKept
<1> DEFINE new == [file |-> Lowest(batch[n].files), kids |-> batch[n].kids,
                   full |-> batch[n].full]
           both == [file |-> Lowest({mods[n].file, new.file}),
                    kids |-> mods[n].kids \cup new.kids, full |-> mods[n].full \/ new.full]
<1>1. Merged(mods, batch)[n] =
        IF n \notin DOMAIN batch THEN mods[n]
        ELSE IF n \notin DOMAIN mods THEN new
        ELSE IF mods[n].full /\ ~new.full THEN mods[n] ELSE both
  BY DEF Merged
<1>2. n \in DOMAIN mods => mods[n].kids = AllKids(n)
  BY DEF KidsKept
<1>3. n \in DOMAIN batch => new.kids = AllKids(n)
  BY DEF KidsKept
<1>4. both.kids = mods[n].kids \cup new.kids
  OBVIOUS
<1> HIDE DEF new, both
<1>5. QED
  BY <1>1, <1>2, <1>3, <1>4

LEMMA LoadAllKids ==
  ASSUME OneDefinition, NEW d, DbOK(d), \A f \in DOMAIN d.rows : d.rows[f].kids = Kids[f]
  PROVE  KidsKept(LoadAll(d))
<1>1. ASSUME NEW n \in DOMAIN d.latest PROVE LoadAll(d)[n].kids = AllKids(n)
  <2>1. LoadAll(d)[n].kids = d.rows[d.latest[n]].kids
    BY DEF LoadAll
  <2>2. d.latest[n] \in DOMAIN d.rows /\ d.latest[n] \in Files /\ Name[d.latest[n]] = n
    BY DEF DbOK
  <2>3. QED
    BY <2>1, <2>2, KidsOfName
<1>2. QED
  BY <1>1, LoadAllIs DEF KidsKept

WantedFiles(depth) == Wanted(depth).full \cup Wanted(depth).skim

LEMMA FreshTreeIs ==
  ASSUME OneDefinition, NEW depth
  PROVE  FreshTree(depth) = Named({Name[f] : f \in WantedFiles(depth)}, depth, {})
<1> DEFINE fresh == Ingested(WantedFiles(depth), TRUE)
<1>1. WantedFiles(depth) \in SUBSET Files
  BY WantedAre DEF WantedFiles
<1>2. DOMAIN fresh = {Name[f] : f \in WantedFiles(depth)} /\ KidsKept(fresh)
  BY <1>1, IngestedKids
<1>3. FreshTree(depth) = Flatten(fresh, depth, {})
  BY DEF FreshTree, WantedFiles
<1> HIDE DEF fresh
<1>4. QED
  BY <1>2, <1>3, FlattenIs

LEMMA NoKids == KidsKept(NoRows)
BY EmptyTables DEF KidsKept
-----------------------------------------------------------------------------
(***************************************************************************)
(* The branch of a deepen.                                                 *)
(***************************************************************************)
LEMMA PrefixIs ==
  ASSUME NEW p \in Paths, NEW q \in Paths, IsPrefix(p, q)
  PROVE  Len(p) \in 1 .. Len(q) /\ \A i \in 1 .. Len(p) : q[i] = p[i]
<1>1. Len(p) \in Nat \ {0} /\ Len(q) \in Nat
  BY PathIs
<1>2. Len(p) <= Len(q) /\ SubSeq(p, 1, Len(p)) = SubSeq(q, 1, Len(p))
  BY DEF IsPrefix
<1>3. Len(p) \in 1 .. Len(q) /\ Len(p) \in 1 .. Len(p)
  BY <1>1, <1>2
<1>4. \A i \in 1 .. Len(p) : SubSeq(p, 1, Len(p))[i] = p[i] /\ SubSeq(q, 1, Len(p))[i] = q[i]
  BY <1>3, PathsAreClosed
<1>5. QED
  BY <1>2, <1>3, <1>4

\* q is on the branch below path, within the levels asked for, and the modules
\* above it are known.
OnBranch(q, path, hops, known) ==
  /\ IsPrefix(path, q)
  /\ hops = Unlimited \/ Len(q) - Len(path) <= hops
  /\ \A i \in 1 .. Len(q) - 1 : q[i] \in known

\* Its file is one of those the deepen parses.
LEMMA BranchIsParsed ==
  ASSUME NEW mods, ModsTyped(mods), KidsKept(mods), NEW path \in Paths, NEW q \in Paths,
         NEW hops \in Nat \cup {Unlimited}, OnBranch(q, path, hops, DOMAIN mods)
  PROVE  \E f \in DeepenSources(mods, Last(path), hops) : Name[f] = Last(q)
<1>1. /\ Len(path) \in Nat \ {0} /\ Len(q) \in Nat /\ Len(q) <= Cardinality(Names) + 1
      /\ \A i \in 1 .. Len(q) - 1 : q[i + 1] \in AllKids(q[i])
  BY PathIs
<1>2. Len(path) <= Len(q) /\ \A i \in 1 .. Len(path) : q[i] = path[i]
  BY PrefixIs DEF OnBranch
<1> DEFINE n == Last(path)
           below == Len(q) - Len(path)
<1>3. n \in Names /\ Last(q) \in Names
  BY PathsAre
<1>4. PICK f : /\ ReachFrom(f, mods, n)
               /\ DeepenSources(mods, n, hops) =
                    {IF m \in DOMAIN mods THEN mods[m].file ELSE FirstFile(m) :
                       m \in f[Levels(hops)]}
  BY <1>3, ReachExists, SourcesByLevels
<1>5. below \in Nat /\ below <= Levels(hops) /\ Levels(hops) \in Nat
  BY <1>1, <1>2, NamesAreFinite DEF Levels, OnBranch
<1>6. n = q[Len(path) + 0] /\ Last(q) = q[Len(path) + below]
  BY <1>1, <1>2 DEF Last
<1> HIDE DEF n, below
<1> DEFINE S == {k \in Nat : \A j \in 0 .. below : j <= k => q[Len(path) + j] \in f[k]}
<1>7. 0 \in S
  <2>1. f[0] = {n}
    BY <1>4, ReachStep
  <2>2. QED
    BY <1>5, <1>6, <2>1
<1>8. ASSUME NEW k \in Nat, k \in S PROVE k + 1 \in S
  <2> SUFFICES ASSUME NEW j \in 0 .. below, j <= k + 1 PROVE q[Len(path) + j] \in f[k + 1]
    OBVIOUS
  <2>1. f[k + 1] = f[k] \cup UNION {mods[m].kids : m \in f[k] \cap DOMAIN mods}
    BY <1>4, ReachStep
  <2>2. CASE j <= k
    BY <1>8, <2>1, <2>2
  <2>3. CASE j = k + 1
    <3> DEFINE i == Len(path) + k
    <3>1. k \in 0 .. below /\ i \in 1 .. Len(q) - 1 /\ i + 1 = Len(path) + j
      BY <1>1, <1>2, <1>5, <2>3 DEF below
    <3>2. q[i] \in f[k]
      BY <1>8, <3>1
    <3>3. q[i] \in DOMAIN mods /\ q[i + 1] \in AllKids(q[i])
      BY <1>1, <3>1 DEF OnBranch
    <3>4. q[i + 1] \in mods[q[i]].kids
      BY <3>3 DEF KidsKept
    <3> HIDE DEF i
    <3>5. q[i + 1] \in f[k + 1]
      BY <2>1, <3>2, <3>3, <3>4
    <3>6. QED
      BY <3>1, <3>5
  <2>4. QED
    BY <1>5, <2>2, <2>3
<1> HIDE DEF S
<1>9. Levels(hops) \in S
  BY <1>5, <1>7, <1>8, SetInduction
<1>10. Last(q) \in f[Levels(hops)]
  <2>1. below \in 0 .. below
    BY <1>5
  <2>2. QED
    BY <1>5, <1>6, <1>9, <2>1 DEF S
<1> DEFINE m == Last(q)
           file == IF m \in DOMAIN mods THEN mods[m].file ELSE FirstFile(m)
<1>11. Name[file] = m
  BY <1>3, FirstFileIs DEF ModsTyped
<1>12. file \in DeepenSources(mods, n, hops)
  BY <1>4, <1>10
<1>13. QED
  BY <1>11, <1>12 DEF n

\* And it is flattened, since its branch is.
LEMMA BranchIsFlattened ==
  ASSUME NEW path \in Paths, NEW q \in Paths, NEW hops, NEW known, NEW names,
         NEW depth \in Nat \cup {Unlimited}, NEW deepened,
         OnBranch(q, path, hops, known), known \subseteq names, Last(q) \in names,
         path \in deepened, path \in Named(names, depth, deepened)
  PROVE  q \in Named(names, depth, deepened)
<1> DEFINE h == FlatHops(depth, deepened)
<1>1. Len(path) \in Nat \ {0} /\ Len(q) \in Nat \ {0}
  BY PathIs
<1>2. Len(path) <= Len(q) /\ \A i \in 1 .. Len(path) : q[i] = path[i]
  BY PrefixIs DEF OnBranch
<1>3. ASSUME NEW i \in 1 .. Len(q) PROVE q[i] \in names
  BY <1>1 DEF OnBranch, Last
<1>4. ASSUME NEW s \in Above(q) PROVE h[s] # 0
  <2>1. s \in Paths /\ Len(s) \in 1 .. Len(q) - 1 /\ s = SubSeq(q, 1, Len(s))
    BY AboveIs
  <2>2. Len(s) \in 1 .. Len(q)
    BY <1>1, <2>1
  <2>3. \A k \in 1 .. Len(s) : s[k] = q[k]
    BY <2>1, <2>2, PathsAreClosed
  <2>4. CASE Len(s) < Len(path)
    <3> DEFINE t == SubSeq(path, 1, Len(s))
    <3>1. Len(s) \in 1 .. Len(path) - 1 /\ Len(s) \in 1 .. Len(path)
      BY <1>1, <2>1, <2>4
    <3>2. t \in Above(path) /\ t \in Paths /\ Len(t) = Len(s)
          /\ \A k \in 1 .. Len(s) : t[k] = path[k]
      BY <3>1, PathsAreClosed DEF Above
    <3> HIDE DEF t
    <3>3. \A k \in 1 .. Len(s) : t[k] = s[k]
      BY <1>2, <2>3, <3>1, <3>2
    <3>4. t \in Seq(Names) /\ s \in Seq(Names)
      BY <2>1, <3>2, PathIs
    <3>5. t = s
      BY <3>2, <3>3, <3>4, SeqEqual
    <3>6. QED
      BY <3>2, <3>5 DEF Named
  <2>5. CASE ~(Len(s) < Len(path))
    <3>1. Len(path) <= Len(s) /\ Len(path) \in 1 .. Len(s)
      BY <1>1, <2>1, <2>5
    <3>2. SubSeq(s, 1, Len(path)) \in Seq(Names) /\ Len(SubSeq(s, 1, Len(path))) = Len(path)
          /\ \A k \in 1 .. Len(path) : SubSeq(s, 1, Len(path))[k] = s[k]
      BY <2>1, <3>1, PathsAreClosed, PathIs
    <3>3. path \in Seq(Names) /\ SubSeq(path, 1, Len(path)) = path
      BY PathIs, SubSeqFull
    <3>4. \A k \in 1 .. Len(path) : s[k] = path[k]
      BY <1>2, <2>3, <3>1
    <3>5. SubSeq(s, 1, Len(path)) = path
      BY <3>2, <3>3, <3>4, SeqEqual
    <3>6. Under(s, deepened)
      BY <3>1, <3>3, <3>5 DEF Under, IsPrefix
    <3>7. h[s] = Unlimited
      <4>1. depth \in Int
        BY DEF Unlimited
      <4>2. QED
        BY <2>1, <3>6, <4>1, HopsAre DEF Unbound
    <3>8. QED
      BY <3>7 DEF Unlimited
  <2>6. QED
    BY <2>4, <2>5
<1>5. QED
  BY <1>3, <1>4 DEF Named
-----------------------------------------------------------------------------
(***************************************************************************)
(* What the builds and the deepens make of the tree.                       *)
(***************************************************************************)
\* A transaction that a deepen keeps open holds the new prefixes.
OpenOK ==
  /\ tx.depth = db.depth
  /\ lock \notin Deepeners => tx.deepened = db.deepened
  /\ \A d \in Deepeners : lock = d <=> pc[d] = "parse"

\* An undisturbed tree is one of the modules in the tables, cut off by the
\* depth and the prefixes stored beside it.
TableTree ==
  ~disturbed => db.insts \subseteq Named(DOMAIN db.latest, db.depth, db.deepened)

\* The builder has the modules of the tables with the children of the design,
\* and has done every file it wants, or has it in a batch to come.
RunTree ==
  Building => /\ KidsKept(run.mods) /\ DOMAIN run.mods \subseteq DOMAIN Seen.latest
              /\ WantedFiles(run.depth) \subseteq
                   run.done \cup (UNION run.skim) \cup (UNION run.full)

BranchKnown(j) ==
  \A q \in Paths : OnBranch(q, j.path, j.hops, j.known) => Last(q) \in DOMAIN j.mods

\* What a deepen knows at each place: the modules it has loaded, with those of
\* its branch once it has parsed them, and, while nobody overlaps it, that the
\* tables have what it will flatten and that this holds the tree it has seen.
JobFacts(j, at, d, t, dist) ==
  /\ at \in {"parse", "clear", "load"} => KidsKept(j.mods) /\ j.known \subseteq DOMAIN j.mods
  /\ at = "parse" =>
       DOMAIN j.mods = j.known /\ j.known \subseteq DOMAIN t.latest /\ t.deepened = j.deepened
  /\ at \in {"clear", "load"} => BranchKnown(j)
  /\ at \in {"claim", "parse", "clear", "load"} /\ j.alone =>
       /\ j.depth = d.depth
       /\ at \in {"claim", "parse"} => d.deepened \subseteq j.deepened
       /\ at \in {"clear", "load"} =>
            d.deepened = j.deepened /\ DOMAIN j.mods \subseteq DOMAIN d.latest
       /\ ~dist => /\ j.path \in j.deepened /\ j.path \in j.before
                   /\ j.before \subseteq
                        Named(IF at = "claim" THEN DOMAIN d.latest ELSE DOMAIN j.mods,
                              j.depth, j.deepened)

JobTree == \A d \in Deepeners : JobFacts(job[d], pc[d], db, tx, disturbed)

TreeInv == OpenOK /\ TableTree /\ RunTree /\ JobTree

\* The same deepen, overlapped or not.
SameJob(k, j) ==
  /\ k.path = j.path /\ k.hops = j.hops /\ k.deepened = j.deepened /\ k.depth = j.depth
  /\ k.mods = j.mods /\ k.known = j.known /\ k.before = j.before
  /\ k.alone => j.alone

LEMMA JobKept ==
  ASSUME NEW j, NEW k, NEW at, NEW d, NEW e, NEW t, NEW u, NEW dist, NEW now,
         JobFacts(j, at, d, t, dist), SameJob(k, j),
         k.alone => e = d /\ (dist => now), at = "parse" => u = t
  PROVE  JobFacts(k, at, e, u, now)
<1>1. BranchKnown(k) <=> BranchKnown(j)
  BY DEF SameJob, BranchKnown
<1>2. QED
  BY <1>1 DEF SameJob, JobFacts

LEMMA OverlapSame ==
  ASSUME NEW p, NEW jobs, JobsTyped(jobs)
  PROVE  \A d \in Deepeners : /\ SameJob(Overlap(p, jobs)[d], jobs[d])
                              /\ Overlap(p, jobs)[d].alone => d = p
<1> SUFFICES ASSUME NEW d \in Deepeners
             PROVE  /\ SameJob(Overlap(p, jobs)[d], jobs[d])
                    /\ Overlap(p, jobs)[d].alone => d = p
  OBVIOUS
<1> DEFINE o == Overlap(p, jobs)[d]
           r == jobs[d]
           alone == r.alone /\ d = p
<1>1. JobTyped(r)
  BY DEF JobsTyped
<1>2. o = [r EXCEPT !.alone = alone]
  BY DEF Overlap
<1>3. alone => r.alone /\ d = p
  OBVIOUS
<1> HIDE DEF o, r, alone
<1>4. o = [path |-> r.path, hops |-> r.hops, deepened |-> r.deepened, depth |-> r.depth,
           mods |-> r.mods, known |-> r.known, before |-> r.before, alone |-> alone]
  BY <1>1, <1>2 DEF JobTyped
<1>5. SameJob(o, r) /\ (o.alone => d = p)
  BY <1>3, <1>4 DEF SameJob
<1>6. QED
  BY <1>5 DEF o, r

JobsKept(p) ==
  \A d \in Deepeners \ {p} : JobFacts(job'[d], pc'[d], db', tx', disturbed')

\* A commit overlaps the other deepens, none of which has a transaction open.
LEMMA CommitJobs ==
  ASSUME Inv, OpenOK, JobTree, NEW p \in Procs, NEW e, Commit(p, e),
         NEW jobs, JobsTyped(jobs), job' = Overlap(p, jobs),
         \A d \in Deepeners \ {p} : jobs[d] = job[d] /\ pc'[d] = pc[d]
  PROVE  JobsKept(p)
<1> SUFFICES ASSUME NEW d \in Deepeners, d # p
             PROVE  JobFacts(job'[d], pc'[d], db', tx', disturbed')
  BY DEF JobsKept
<1>1. SameJob(job'[d], job[d]) /\ ~job'[d].alone
  BY OverlapSame
<1>2. pc[d] # "parse"
  <2>1. lock # d
    BY ProcsAre, ProcAssumption DEF Commit
  <2>2. QED
    BY <2>1 DEF OpenOK
<1>3. JobFacts(job[d], pc[d], db, tx, disturbed) /\ pc'[d] = pc[d]
  BY DEF JobTree
<1>4. QED
  BY <1>1, <1>2, <1>3, JobKept

\* A step without a commit leaves them alone.
LEMMA OtherJobs ==
  ASSUME Inv, OpenOK, JobTree, NEW p, db' = db, disturbed => disturbed',
         \A d \in Deepeners \ {p} :
           job'[d] = job[d] /\ pc'[d] = pc[d] /\ (lock = d => tx' = tx)
  PROVE  JobsKept(p)
<1> SUFFICES ASSUME NEW d \in Deepeners, d # p
             PROVE  JobFacts(job'[d], pc'[d], db', tx', disturbed')
  BY DEF JobsKept
<1>1. job'[d] = job[d] /\ pc'[d] = pc[d] /\ (lock = d => tx' = tx)
  OBVIOUS
<1>2. SameJob(job'[d], job[d])
  BY <1>1 DEF SameJob
<1>3. pc[d] = "parse" => tx' = tx
  BY <1>1 DEF OpenOK
<1>4. JobFacts(job[d], pc[d], db, tx, disturbed)
  BY DEF JobTree
<1>5. QED
  BY <1>1, <1>2, <1>3, <1>4, JobKept

LEMMA BuilderJobs == JobsKept(Builder) => JobTree'
BY ProcsAre DEF JobsKept, JobTree

LEMMA DeepenJobs ==
  ASSUME NEW d \in Deepeners, JobsKept(d), JobFacts(job'[d], pc'[d], db', tx', disturbed')
  PROVE  JobTree'
BY DEF JobsKept, JobTree

LEMMA CommitOpens ==
  ASSUME Inv, OpenOK, NEW p \in Procs, NEW e, Commit(p, e), pc'[p] # "parse",
         \A q \in Procs \ {p} : pc'[q] = pc[q]
  PROVE  OpenOK'
<1>1. db' = e /\ tx' = e /\ lock' = NoProc /\ lock \in {NoProc, p}
  BY DEF Commit
<1>2. ASSUME NEW d \in Deepeners PROVE pc'[d] # "parse" /\ lock' # d
  <2>1. d \in Procs /\ d # NoProc
    BY ProcsAre, ProcAssumption
  <2>2. d # p => lock # d
    BY <1>1, <2>1
  <2>3. QED
    BY <1>1, <2>1, <2>2 DEF OpenOK
<1>3. QED
  BY <1>1, <1>2 DEF OpenOK

\* What the builder writes and does not commit.
LEMMA WriteOpens ==
  ASSUME Inv, OpenOK, NEW e, Write(Builder, e), e.depth = tx.depth, e.deepened = tx.deepened,
         \A d \in Deepeners : pc'[d] = pc[d]
  PROVE  OpenOK'
<1>1. db' = db /\ tx' = e /\ lock' = Builder /\ lock \in {NoProc, Builder}
  BY DEF Write
<1>2. ASSUME NEW d \in Deepeners PROVE lock # d /\ lock' # d
  BY <1>1, ProcsAre, ProcAssumption
<1>3. lock \notin Deepeners /\ lock' \notin Deepeners
  BY <1>2
<1>4. QED
  BY <1>1, <1>2, <1>3 DEF OpenOK

\* The tree has not grown, and what it is cut off by and made of has.
Wider(e) ==
  /\ e.depth = db.depth /\ db.deepened \subseteq e.deepened /\ e.insts \subseteq db.insts
  /\ DOMAIN db.latest \subseteq DOMAIN e.latest

LEMMA DepthIs ==
  ASSUME Inv
  PROVE  db.depth \in Nat \cup {Unlimited}
BY BoundsAssumption DEF Inv, DbOK

LEMMA CommitTable ==
  ASSUME Inv, TableTree, NEW p, NEW e, Commit(p, e), ~disturbed' => ~disturbed /\ Wider(e)
  PROVE  TableTree'
<1>1. db' = e
  BY DEF Commit
<1>2. CASE disturbed'
  BY <1>2 DEF TableTree
<1>3. CASE ~disturbed'
  <2>1. ~disturbed /\ Wider(e)
    BY <1>3
  <2>2. db.insts \subseteq Named(DOMAIN db.latest, db.depth, db.deepened)
    BY <2>1 DEF TableTree
  <2>3. Named(DOMAIN db.latest, db.depth, db.deepened) \subseteq
          Named(DOMAIN e.latest, db.depth, e.deepened)
    BY <2>1, DepthIs, NamedGrows DEF Wider
  <2>4. QED
    BY <1>1, <2>1, <2>2, <2>3 DEF TableTree, Wider
<1>4. QED
  BY <1>2, <1>3

\* What the holder of the lock or nobody sees while nothing is deepened.
LEMMA FreeSees ==
  ASSUME Inv, OpenOK, lock \notin Deepeners
  PROVE  tx.depth = db.depth /\ tx.deepened = db.deepened /\ tx.insts \subseteq db.insts
         /\ DOMAIN db.latest \subseteq DOMAIN tx.latest
BY DEF Inv, LockOK, OpenOK

LEMMA SameTable ==
  ASSUME TableTree, db' = db, disturbed => disturbed'
  PROVE  TableTree'
BY DEF TableTree

LEMMA RunTreeKept ==
  ASSUME RunTree, run' = run, pc'[Builder] = pc[Builder],
         DOMAIN Seen.latest \subseteq DOMAIN Seen'.latest
  PROVE  RunTree'
<1>1. Building' = Building
  BY DEF Building
<1>2. QED
  BY <1>1 DEF RunTree

LEMMA RunTreeIdle ==
  ASSUME pc'[Builder] \notin {"skim", "full", "load"}
  PROVE  RunTree'
BY DEF RunTree, Building

LEMMA DeepenSees ==
  ASSUME Inv, NEW d \in Deepeners, NEW e,
         (Commit(d, e) /\ DOMAIN tx.latest \subseteq DOMAIN e.latest) \/ Write(d, e)
  PROVE  DOMAIN Seen.latest \subseteq DOMAIN Seen'.latest
<1>1. lock # Builder /\ lock' # Builder
  BY ProcsAre, ProcAssumption DEF Commit, Write
<1>2. Seen = db /\ Seen' = db'
  BY <1>1 DEF Seen
<1>3. DOMAIN db.latest \subseteq DOMAIN tx.latest
  BY DEF Inv, LockOK
<1>4. QED
  BY <1>2, <1>3 DEF Commit, Write

\* What a change of one column leaves alone, of those the tree depends on.
LEMMA ColumnsOf ==
  ASSUME NEW d, DbOK(d), NEW x
  PROVE  /\ LET e == [d EXCEPT !.complete = x]
            IN e.depth = d.depth /\ e.deepened = d.deepened /\ e.insts = d.insts
               /\ e.latest = d.latest
         /\ LET e == [d EXCEPT !.depth = x]
            IN e.depth = x /\ e.deepened = d.deepened /\ e.insts = d.insts
               /\ e.latest = d.latest
         /\ LET e == [d EXCEPT !.insts = x]
            IN e.depth = d.depth /\ e.deepened = d.deepened /\ e.insts = x
               /\ e.latest = d.latest
         /\ LET e == [d EXCEPT !.done = x]
            IN e.depth = d.depth /\ e.deepened = d.deepened /\ e.insts = d.insts
               /\ e.latest = d.latest
         /\ LET e == [d EXCEPT !.deepened = x]
            IN e.depth = d.depth /\ e.deepened = x /\ e.insts = d.insts
               /\ e.latest = d.latest
<1>1. DbShape(d)
  BY DEF DbOK
<1>2. QED
  BY <1>1 DEF DbShape

LEMMA TreeInvIs ==
  ASSUME OpenOK', TableTree', RunTree', JobTree'
  PROVE  TreeInv'
BY DEF TreeInv
-----------------------------------------------------------------------------
(***************************************************************************)
(* How the steps of the builder keep the tree.                             *)
(***************************************************************************)
LEMMA StartBuildTree ==
  ASSUME Inv, TreeInv, NEW mode \in Modes, NEW depth \in Depths, StartBuild(mode, depth)
  PROVE  TreeInv'
<1> DEFINE to == IF mode = "force" THEN "erase" ELSE "open"
<1>1. /\ Goto(Builder, "idle", to) /\ db' = db /\ tx' = tx /\ lock' = lock /\ job' = job
      /\ disturbed' = disturbed
  BY DEF StartBuild
<1>2. to \in {"erase", "open"} /\ to \in Places
  BY DEF Places
<1> HIDE DEF to
<1>3. pc'[Builder] = to /\ \A q \in Procs \ {Builder} : pc'[q] = pc[q]
  BY <1>1, <1>2, GotoIs, ProcsAre DEF Inv
<1>4. OpenOK'
  BY <1>1, <1>3, ProcsAre DEF TreeInv, OpenOK
<1>5. TableTree'
  BY <1>1, SameTable DEF TreeInv
<1>6. RunTree'
  BY <1>2, <1>3, RunTreeIdle
<1>7. JobTree'
  BY <1>1, <1>3, ProcsAre, OtherJobs, BuilderJobs DEF TreeInv
<1>8. QED
  BY <1>4, <1>5, <1>6, <1>7, TreeInvIs

\* A commit of the builder, but for what the tree and its modules are.
LEMMA BuilderCommits ==
  ASSUME Inv, TreeInv, NEW e, Commit(Builder, e), job' = Overlap(Builder, job),
         pc'[Builder] # "parse", \A q \in Procs \ {Builder} : pc'[q] = pc[q]
  PROVE  OpenOK' /\ JobTree' /\ Seen' = e /\ lock \notin Deepeners
<1>1. OpenOK'
  BY CommitOpens, ProcsAre DEF TreeInv
<1>2. \A d \in Deepeners \ {Builder} : job[d] = job[d] /\ pc'[d] = pc[d]
  BY ProcsAre
<1>3. JobsTyped(job)
  BY DEF Inv, JobOK
<1>4. JobsKept(Builder)
  BY <1>2, <1>3, CommitJobs, ProcsAre DEF TreeInv
<1>5. Seen' = e
  BY DEF Commit, Seen
<1>6. lock \notin Deepeners
  BY ProcsAre, ProcAssumption DEF Commit
<1>7. QED
  BY <1>1, <1>4, <1>5, <1>6, BuilderJobs

LEMMA EraseTablesTree ==
  ASSUME Inv, TreeInv, EraseTables
  PROVE  TreeInv'
<1> DEFINE e == [tx EXCEPT !.rows = NoRows, !.latest = NoRows, !.insts = {}, !.done = {}]
<1>1. /\ Goto(Builder, "erase", "unmark") /\ Commit(Builder, e)
      /\ job' = Overlap(Builder, job) /\ disturbed'
  BY DEF EraseTables
<1>2. pc'[Builder] = "unmark" /\ \A q \in Procs \ {Builder} : pc'[q] = pc[q]
  BY <1>1, GotoIs, ProcsAre DEF Inv, Places
<1> HIDE DEF e
<1>3. OpenOK' /\ JobTree'
  BY <1>1, <1>2, BuilderCommits
<1>4. TableTree'
  BY <1>1 DEF TableTree
<1>5. RunTree'
  BY <1>2, RunTreeIdle
<1>6. QED
  BY <1>3, <1>4, <1>5, TreeInvIs

LEMMA MarkIncompleteTree ==
  ASSUME Inv, TreeInv, MarkIncomplete
  PROVE  TreeInv'
<1> DEFINE e == [tx EXCEPT !.complete = FALSE]
<1>1. /\ Goto(Builder, "unmark", "open") /\ Commit(Builder, e)
      /\ job' = Overlap(Builder, job) /\ disturbed' = disturbed
  BY DEF MarkIncomplete
<1>2. pc'[Builder] = "open" /\ \A q \in Procs \ {Builder} : pc'[q] = pc[q]
  BY <1>1, GotoIs, ProcsAre DEF Inv, Places
<1>3. /\ e.depth = tx.depth /\ e.deepened = tx.deepened /\ e.insts = tx.insts
      /\ e.latest = tx.latest
  BY ColumnsOf DEF Inv
<1> HIDE DEF e
<1>4. OpenOK' /\ JobTree' /\ lock \notin Deepeners
  BY <1>1, <1>2, BuilderCommits
<1>5. Wider(e)
  BY <1>3, <1>4, FreeSees DEF Wider, TreeInv
<1>6. TableTree'
  BY <1>1, <1>5, CommitTable DEF TreeInv
<1>7. RunTree'
  BY <1>2, RunTreeIdle
<1>8. QED
  BY <1>4, <1>6, <1>7, TreeInvIs

LEMMA OpenRunTree ==
  ASSUME OneDefinition, Inv, Faithful, TreeInv, OpenRun
  PROVE  TreeInv'
<1> DEFINE fresh == run.mode = "fresh"
           done == IF fresh THEN {} ELSE tx.done
           skim == Batches(Wanted(run.depth).skim \ done)
           full == Batches(Wanted(run.depth).full \ done)
           mods == IF fresh THEN NoRows ELSE LoadAll(tx)
           total == Cardinality(skim) + Cardinality(full)
           to == IF skim = {} THEN "full" ELSE "skim"
           depth == IF run.depth = Unlimited THEN tx.depth ELSE run.depth
           e == [tx EXCEPT !.depth = depth]
<1>1. /\ Goto(Builder, "open", to) /\ Commit(Builder, e) /\ job' = Overlap(Builder, job)
      /\ run' = [run EXCEPT !.done = done, !.skim = skim, !.full = full, !.mods = mods,
                            !.total = total]
      /\ disturbed' = (disturbed \/ depth # tx.depth)
  BY DEF OpenRun
<1>2. to \in {"full", "skim"} /\ to \in Places
  BY DEF Places
<1>3. UNION skim = Wanted(run.depth).skim \ done /\ UNION full = Wanted(run.depth).full \ done
  BY BatchesAre
<1>4. KidsKept(mods) /\ DOMAIN mods \subseteq DOMAIN tx.latest
  <2>1. \A f \in DOMAIN tx.rows : tx.rows[f].kids = Kids[f]
    BY DEF Faithful
  <2>2. KidsKept(LoadAll(tx)) /\ DOMAIN LoadAll(tx) = DOMAIN tx.latest
    BY <2>1, LoadAllKids, LoadAllIs DEF Inv
  <2>3. QED
    BY <2>2, NoKids, EmptyTables
<1>5. /\ e.depth = depth /\ e.deepened = tx.deepened /\ e.insts = tx.insts
      /\ e.latest = tx.latest
  BY ColumnsOf DEF Inv
<1>6. run.depth = run'.depth /\ run'.done = done /\ run'.skim = skim /\ run'.full = full
      /\ run'.mods = mods
  <2>1. run = [k \in RunFields |-> run[k]]
    BY DEF Inv, RunOK
  <2> HIDE DEF done, skim, full, mods, total
  <2>2. DOMAIN run = RunFields
    BY <2>1
  <2>3. QED
    BY <1>1, <2>2 DEF RunFields
<1> HIDE DEF to, skim, full, mods, done, total, depth, e
<1>7. pc'[Builder] = to /\ \A q \in Procs \ {Builder} : pc'[q] = pc[q]
  BY <1>1, <1>2, GotoIs, ProcsAre DEF Inv
<1>8. OpenOK' /\ JobTree' /\ Seen' = e /\ lock \notin Deepeners
  BY <1>1, <1>2, <1>7, BuilderCommits
<1>9. TableTree'
  <2>1. ~disturbed' => ~disturbed /\ Wider(e)
    BY <1>1, <1>5, <1>8, FreeSees DEF Wider, TreeInv
  <2>2. QED
    BY <1>1, <2>1, CommitTable DEF TreeInv
<1>10. RunTree'
  <2>1. WantedFiles(run.depth) \subseteq done \cup (UNION skim) \cup (UNION full)
    BY <1>3 DEF WantedFiles
  <2>2. QED
    BY <1>4, <1>5, <1>6, <1>8, <2>1 DEF RunTree
<1>11. QED
  BY <1>8, <1>9, <1>10, TreeInvIs

LEMMA BatchDoneTree ==
  ASSUME OneDefinition, Inv, TreeInv, NEW phase \in {"skim", "full"},
         NEW chunk \in run[phase], BatchDone(phase, chunk)
  PROVE  TreeInv'
<1> DEFINE full == phase = "full"
           batch == Ingested(chunk, full)
           left == Cardinality(run.skim) + Cardinality(run.full) - 1
           done == run.done \cup chunk
           commits == (run.total - left) % CommitEvery = 0 \/ left = 0
           mods == Merged(run.mods, batch)
<1>0. PICK lost :
        IF commits
        THEN /\ Commit(Builder, [Stored(tx, batch, lost) EXCEPT !.done = done])
             /\ job' = Overlap(Builder, job)
        ELSE Write(Builder, Stored(tx, batch, lost)) /\ UNCHANGED job
  BY DEF BatchDone
<1> DEFINE stored == Stored(tx, batch, lost)
           e == [stored EXCEPT !.done = done]
<1>1. /\ pc[Builder] = phase
      /\ IF commits
         THEN Commit(Builder, e) /\ job' = Overlap(Builder, job)
         ELSE Write(Builder, stored) /\ UNCHANGED job
      /\ run' = [run EXCEPT ![phase] = @ \ {chunk}, !.done = done, !.mods = mods]
      /\ pc' = pc /\ disturbed' = disturbed
  BY <1>0 DEF BatchDone
<1>2. full \in BOOLEAN /\ chunk \in SUBSET Files
  BY DEF Inv, RunOK
<1> HIDE DEF full, commits
<1>3. /\ lock \in {NoProc, Builder}
      /\ \/ Commit(Builder, e) /\ job' = Overlap(Builder, job)
         \/ Write(Builder, stored) /\ job' = job
  BY <1>1 DEF Commit, Write
<1>4. Seen = tx /\ lock \notin Deepeners
  BY <1>3, BuilderSees, ProcsAre, ProcAssumption DEF Inv
<1>5. Building
  BY <1>1 DEF Building
<1>6. KidsKept(mods) /\ DOMAIN mods \subseteq DOMAIN tx.latest \cup {Name[f] : f \in chunk}
  <2>1. DOMAIN batch = {Name[f] : f \in chunk} /\ KidsKept(batch)
    BY <1>2, IngestedKids
  <2>2. KidsKept(run.mods) /\ DOMAIN run.mods \subseteq DOMAIN tx.latest
    BY <1>4, <1>5 DEF TreeInv, RunTree
  <2> HIDE DEF batch
  <2>3. KidsKept(mods) /\ DOMAIN mods = DOMAIN run.mods \cup DOMAIN batch
    BY <2>1, <2>2, MergedKids, MergedAre
  <2> HIDE DEF mods
  <2>4. QED
    BY <2>1, <2>2, <2>3
<1>7. /\ DbOK(stored)
      /\ DOMAIN stored.latest = DOMAIN tx.latest \cup {Name[f] : f \in chunk}
      /\ stored.insts = tx.insts \ lost
      /\ stored.depth = tx.depth /\ stored.deepened = tx.deepened
  <2>1. StoredFrom(tx, chunk, lost, stored)
    BY <1>2, StoredOK DEF Inv
  <2>2. QED
    BY <2>1 DEF StoredFrom
<1> HIDE DEF batch, stored, mods, done
<1>8. /\ e.latest = stored.latest
      /\ e.insts = stored.insts /\ e.depth = stored.depth /\ e.deepened = stored.deepened
  BY <1>7, ColumnsOf
<1> HIDE DEF e
<1>9. OpenOK' /\ TableTree' /\ JobTree' /\ Seen'.latest = stored.latest
  <2>1. \A q \in Procs \ {Builder} : pc'[q] = pc[q]
    BY <1>1
  <2>2. CASE Commit(Builder, e) /\ job' = Overlap(Builder, job)
    <3>1. OpenOK' /\ JobTree' /\ Seen' = e
      BY <1>1, <2>1, <2>2, BuilderCommits
    <3>2. Wider(e)
      BY <1>4, <1>7, <1>8, FreeSees DEF Wider, TreeInv
    <3>3. TableTree'
      BY <1>1, <2>2, <3>2, CommitTable DEF TreeInv
    <3>4. QED
      BY <1>8, <3>1, <3>3
  <2>3. CASE Write(Builder, stored) /\ job' = job
    <3>1. OpenOK'
      BY <1>1, <1>7, <2>3, WriteOpens DEF TreeInv
    <3>2. db' = db /\ Seen' = stored
      BY <2>3 DEF Write, Seen
    <3>3. TableTree'
      BY <1>1, <3>2, SameTable DEF TreeInv
    <3>4. \A d \in Deepeners \ {Builder} :
            job'[d] = job[d] /\ pc'[d] = pc[d] /\ (lock = d => tx' = tx)
      BY <1>1, <1>4, <2>3
    <3>5. JobTree'
      BY <1>1, <3>2, <3>4, OtherJobs, BuilderJobs DEF TreeInv
    <3>6. QED
      BY <3>1, <3>2, <3>3, <3>5
  <2>4. QED
    BY <1>3, <2>2, <2>3
<1>10. RunTree'
  <2>1. /\ run'.depth = run.depth /\ run'.done = done
        /\ run'.mods = mods /\ run'[phase] = run[phase] \ {chunk}
        /\ phase = "skim" => run'.full = run.full
        /\ phase = "full" => run'.skim = run.skim
    BY <1>1 DEF Inv, RunOK, RunFields
  <2>2. WantedFiles(run.depth) \subseteq run.done \cup (UNION run.skim) \cup (UNION run.full)
    BY <1>5 DEF TreeInv, RunTree
  <2>3. (UNION run[phase]) \subseteq chunk \cup (UNION run'[phase])
    BY <2>1
  <2>4. (UNION run.skim) \subseteq chunk \cup (UNION run'.skim)
        /\ (UNION run.full) \subseteq chunk \cup (UNION run'.full)
    BY <2>1, <2>3
  <2>5. WantedFiles(run'.depth) \subseteq
          run'.done \cup (UNION run'.skim) \cup (UNION run'.full)
    BY <2>1, <2>2, <2>4 DEF done
  <2>6. KidsKept(run'.mods) /\ DOMAIN run'.mods \subseteq DOMAIN Seen'.latest
    BY <1>6, <1>7, <1>9, <2>1
  <2>7. QED
    BY <2>5, <2>6 DEF RunTree
<1>11. QED
  BY <1>9, <1>10, TreeInvIs

LEMMA SkimPhaseEndsTree ==
  ASSUME Inv, TreeInv, SkimPhaseEnds
  PROVE  TreeInv'
<1>1. /\ Goto(Builder, "skim", "full") /\ Write(Builder, tx)
      /\ run' = run /\ job' = job /\ disturbed' = disturbed
  BY DEF SkimPhaseEnds
<1>2. /\ pc[Builder] = "skim" /\ pc'[Builder] = "full"
      /\ \A q \in Procs \ {Builder} : pc'[q] = pc[q]
  BY <1>1, GotoIs, ProcsAre DEF Inv, Places
<1>3. \A d \in Deepeners : pc'[d] = pc[d]
  BY <1>2, ProcsAre
<1>4. OpenOK'
  BY <1>1, <1>3, WriteOpens DEF TreeInv
<1>5. db' = db /\ tx' = tx /\ Seen' = tx /\ lock \in {NoProc, Builder}
  BY <1>1 DEF Write, Seen
<1>6. TableTree'
  BY <1>1, <1>5, SameTable DEF TreeInv
<1>7. RunTree'
  <2>1. Seen = tx
    BY <1>5, BuilderSees DEF Inv
  <2>2. Building
    BY <1>2 DEF Building
  <2>3. QED
    BY <1>1, <1>5, <2>1, <2>2 DEF TreeInv, RunTree
<1>8. JobTree'
  BY <1>1, <1>3, <1>5, OtherJobs, BuilderJobs DEF TreeInv
<1>9. QED
  BY <1>4, <1>6, <1>7, <1>8, TreeInvIs

LEMMA ClearInstancesTree ==
  ASSUME Inv, TreeInv, ClearInstances
  PROVE  TreeInv'
<1> DEFINE e == [tx EXCEPT !.insts = {}]
<1>1. /\ Goto(Builder, "full", "load") /\ Commit(Builder, e)
      /\ run' = run /\ job' = Overlap(Builder, job) /\ disturbed' = disturbed
  BY DEF ClearInstances
<1>2. /\ pc[Builder] = "full" /\ pc'[Builder] = "load"
      /\ \A q \in Procs \ {Builder} : pc'[q] = pc[q]
  BY <1>1, GotoIs, ProcsAre DEF Inv, Places
<1>3. /\ e.depth = tx.depth /\ e.deepened = tx.deepened /\ e.insts = {}
      /\ e.latest = tx.latest
  BY ColumnsOf DEF Inv
<1> HIDE DEF e
<1>4. OpenOK' /\ JobTree' /\ Seen' = e /\ lock \notin Deepeners /\ Seen = tx
  BY <1>1, <1>2, BuilderCommits, BuilderSees DEF Inv, Commit
<1>5. Wider(e)
  BY <1>3, <1>4, FreeSees DEF Wider, TreeInv
<1>6. TableTree'
  BY <1>1, <1>5, CommitTable DEF TreeInv
<1>7. RunTree'
  <2>1. Building
    BY <1>2 DEF Building
  <2>2. QED
    BY <1>1, <1>3, <1>4, <2>1 DEF TreeInv, RunTree
<1>8. QED
  BY <1>4, <1>6, <1>7, TreeInvIs

\* What the builder stores, given what it knows.
LEMMA BuildStores ==
  ASSUME Inv, TreeInv, pc[Builder] = "load", lock \in {NoProc, Builder}
  PROVE  /\ Flatten(run.mods, run.depth, tx.deepened) =
              Named(DOMAIN run.mods, run.depth, tx.deepened)
         /\ \A p \in Named(DOMAIN run.mods, run.depth, tx.deepened) :
              Last(p) \in DOMAIN tx.latest
         /\ Named(DOMAIN run.mods, run.depth, tx.deepened) \subseteq
              Named(DOMAIN tx.latest, run.depth, tx.deepened)
<1>1. Building /\ Seen = tx
  BY BuilderSees DEF Inv, Building
<1>2. KidsKept(run.mods) /\ DOMAIN run.mods \subseteq DOMAIN tx.latest
  BY <1>1 DEF TreeInv, RunTree
<1>3. Flatten(run.mods, run.depth, tx.deepened) =
        Named(DOMAIN run.mods, run.depth, tx.deepened)
  BY <1>2, FlattenIs
<1>4. ASSUME NEW p \in Named(DOMAIN run.mods, run.depth, tx.deepened)
      PROVE  Last(p) \in DOMAIN run.mods
  <2>1. p \in Paths /\ \A i \in 1 .. Len(p) : p[i] \in DOMAIN run.mods
    BY DEF Named
  <2>2. Len(p) \in Nat \ {0}
    BY <2>1, PathIs
  <2>3. Len(p) \in 1 .. Len(p)
    BY <2>2
  <2>4. QED
    BY <2>1, <2>3 DEF Last
<1>5. Named(DOMAIN run.mods, run.depth, tx.deepened) \subseteq
        Named(DOMAIN tx.latest, run.depth, tx.deepened)
  BY <1>2 DEF Named
<1>6. QED
  BY <1>2, <1>3, <1>4, <1>5

LEMMA LoadInstancesTree ==
  ASSUME Inv, TreeInv, LoadInstances
  PROVE  TreeInv'
<1> DEFINE flat == {p \in Flatten(run.mods, run.depth, tx.deepened) :
                      Last(p) \in DOMAIN tx.latest}
           insts == tx.insts \cup flat
           e == [tx EXCEPT !.insts = insts]
<1>1. /\ Goto(Builder, "load", "finish") /\ Commit(Builder, e) /\ job' = Overlap(Builder, job)
      /\ ~disturbed' => tx.depth = run.depth /\ tx.insts = {}
  BY DEF LoadInstances
<1>2. /\ pc[Builder] = "load" /\ pc'[Builder] = "finish"
      /\ \A q \in Procs \ {Builder} : pc'[q] = pc[q]
  BY <1>1, GotoIs, ProcsAre DEF Inv, Places
<1>3. lock \in {NoProc, Builder}
  BY <1>1 DEF Commit
<1>4. flat \subseteq Named(DOMAIN tx.latest, run.depth, tx.deepened)
  BY <1>2, <1>3, BuildStores
<1>5. /\ e.depth = tx.depth /\ e.deepened = tx.deepened /\ e.insts = insts
      /\ e.latest = tx.latest
  BY ColumnsOf DEF Inv
<1>6. insts = tx.insts \cup flat
  OBVIOUS
<1> HIDE DEF flat, insts, e
<1>7. OpenOK' /\ JobTree'
  BY <1>1, <1>2, BuilderCommits
<1>8. TableTree'
  <2>1. db' = e
    BY <1>1 DEF Commit
  <2>2. ~disturbed' => e.insts \subseteq Named(DOMAIN e.latest, e.depth, e.deepened)
    BY <1>1, <1>4, <1>5, <1>6
  <2>3. QED
    BY <2>1, <2>2 DEF TableTree
<1>9. RunTree'
  BY <1>2, RunTreeIdle
<1>10. QED
  BY <1>7, <1>8, <1>9, TreeInvIs

LEMMA FinishBuildTree ==
  ASSUME Inv, TreeInv, FinishBuild
  PROVE  TreeInv'
<1> DEFINE e == [tx EXCEPT !.complete = TRUE]
<1>1. /\ Goto(Builder, "finish", "idle") /\ Commit(Builder, e)
      /\ job' = Overlap(Builder, job) /\ disturbed' = disturbed
  BY DEF FinishBuild
<1>2. pc'[Builder] = "idle" /\ \A q \in Procs \ {Builder} : pc'[q] = pc[q]
  BY <1>1, GotoIs, ProcsAre DEF Inv, Places
<1>3. /\ e.depth = tx.depth /\ e.deepened = tx.deepened /\ e.insts = tx.insts
      /\ e.latest = tx.latest
  BY ColumnsOf DEF Inv
<1> HIDE DEF e
<1>4. OpenOK' /\ JobTree' /\ lock \notin Deepeners
  BY <1>1, <1>2, BuilderCommits
<1>5. Wider(e)
  BY <1>3, <1>4, FreeSees DEF Wider, TreeInv
<1>6. TableTree'
  BY <1>1, <1>5, CommitTable DEF TreeInv
<1>7. RunTree'
  BY <1>2, RunTreeIdle
<1>8. QED
  BY <1>4, <1>6, <1>7, TreeInvIs
-----------------------------------------------------------------------------
(***************************************************************************)
(* How the steps of the deepens and the failures keep it.                  *)
(***************************************************************************)
LEMMA IdleFacts == \A j, d, t, dist : JobFacts(j, "idle", d, t, dist)
BY DEF JobFacts

\* Where a deepen stands that has no transaction open.
LEMMA DeepenIsFree ==
  ASSUME Inv, OpenOK, NEW d \in Deepeners, pc[d] # "parse", lock \in {NoProc, d}
  PROVE  lock = NoProc /\ tx = db
BY DEF OpenOK, Inv, LockOK

LEMMA StartDeepenTree ==
  ASSUME Inv, TreeInv, NEW d \in Deepeners, NEW path \in db.insts, NEW hops \in Hops,
         StartDeepen(d, path, hops)
  PROVE  TreeInv'
<1> DEFINE alone == \A p \in Procs \ {d} : pc[p] = "idle"
           j == [path |-> path, hops |-> hops, deepened |-> db.deepened \cup {path},
                 depth |-> db.depth, mods |-> NoRows, known |-> {}, before |-> db.insts,
                 alone |-> alone]
<1>1. /\ Goto(d, "idle", "claim") /\ job' = [job EXCEPT ![d] = j]
      /\ db' = db /\ tx' = tx /\ lock' = lock /\ run' = run /\ disturbed' = disturbed
  BY DEF StartDeepen
<1>2. /\ pc[d] = "idle" /\ pc'[d] = "claim" /\ \A q \in Procs \ {d} : pc'[q] = pc[q]
  BY <1>1, GotoIs, ProcsAre DEF Inv, Places
<1>3. JobFacts(j, "claim", db, tx, disturbed)
  <2>1. ~disturbed => db.insts \subseteq Named(DOMAIN db.latest, db.depth, db.deepened)
    BY DEF TreeInv, TableTree
  <2>2. Named(DOMAIN db.latest, db.depth, db.deepened) \subseteq
          Named(DOMAIN db.latest, db.depth, db.deepened \cup {path})
    BY DepthIs, NamedGrows
  <2> HIDE DEF alone
  <2>3. /\ j.depth = db.depth /\ j.deepened = db.deepened \cup {path} /\ j.path = path
        /\ j.before = db.insts
    OBVIOUS
  <2> HIDE DEF j
  <2>4. QED
    BY <2>1, <2>2, <2>3 DEF JobFacts
<1> HIDE DEF j
<1>4. job'[d] = j /\ \A q \in Deepeners \ {d} : job'[q] = job[q]
  BY <1>1 DEF Inv, JobOK, JobsTyped
<1>5. JobTree'
  <2>1. JobsKept(d)
    BY <1>1, <1>2, <1>4, ProcsAre, OtherJobs DEF TreeInv
  <2>2. QED
    BY <1>1, <1>2, <1>3, <1>4, <2>1, DeepenJobs
<1>6. OpenOK'
  <2>1. \A q \in Deepeners : pc'[q] = "parse" <=> pc[q] = "parse"
    BY <1>2, ProcsAre
  <2>2. QED
    BY <1>1, <2>1 DEF TreeInv, OpenOK
<1>7. TableTree'
  BY <1>1, SameTable DEF TreeInv
<1>8. RunTree'
  <2>1. Seen' = Seen /\ pc'[Builder] = pc[Builder]
    BY <1>1, <1>2, ProcsAre DEF Seen
  <2>2. QED
    BY <1>1, <2>1, RunTreeKept DEF TreeInv
<1>9. QED
  BY <1>5, <1>6, <1>7, <1>8, TreeInvIs

LEMMA ClaimDeepenTree ==
  ASSUME OneDefinition, Inv, Faithful, TreeInv, NEW d \in Deepeners, ClaimDeepen(d)
  PROVE  TreeInv'
<1> DEFINE j == job[d]
           e == [tx EXCEPT !.deepened = j.deepened]
           mods == LoadAll(tx)
           known == DOMAIN tx.latest
<1>1. /\ Goto(d, "claim", "parse") /\ Write(d, e) /\ run' = run /\ disturbed' = disturbed
      /\ job' = [job EXCEPT ![d].mods = mods, ![d].known = known]
  BY DEF ClaimDeepen
<1>2. /\ pc[d] = "claim" /\ pc'[d] = "parse" /\ \A q \in Procs \ {d} : pc'[q] = pc[q]
  BY <1>1, GotoIs, ProcsAre DEF Inv, Places
<1>3. db' = db /\ tx' = e /\ lock' = d /\ lock = NoProc /\ tx = db
  BY <1>1, <1>2, DeepenIsFree DEF Write, TreeInv
<1>4. /\ e.depth = tx.depth /\ e.deepened = j.deepened /\ e.latest = tx.latest
  BY ColumnsOf DEF Inv
<1>5. KidsKept(mods) /\ DOMAIN mods = known
  <2>1. \A f \in DOMAIN tx.rows : tx.rows[f].kids = Kids[f]
    BY DEF Faithful
  <2>2. QED
    BY <2>1, LoadAllKids, LoadAllIs DEF Inv
<1>6. known = DOMAIN db.latest /\ known = DOMAIN e.latest
  BY <1>3, <1>4
<1>7. JobFacts(j, "claim", db, tx, disturbed)
  BY <1>2 DEF TreeInv, JobTree
<1> HIDE DEF mods, known, e
<1>8. /\ job'[d] = Reloaded(j, mods, known)
      /\ \A q \in Deepeners \ {d} : job'[q] = job[q]
  <2>1. JobsTyped(job) /\ Reloads(job, d, mods, known, job')
    BY <1>1 DEF Inv, JobOK, Reloads
  <2>2. QED
    BY <2>1, ModsChanged
<1> HIDE DEF j
<1>9. JobFacts(job'[d], "parse", db, e, disturbed)
  <2> DEFINE r == job'[d]
  <2>1. /\ r.path = j.path /\ r.deepened = j.deepened /\ r.depth = j.depth /\ r.mods = mods
        /\ r.known = known /\ r.before = j.before /\ r.alone = j.alone
    BY <1>8 DEF Reloaded
  <2> HIDE DEF r
  <2>2. JobFacts(r, "parse", db, e, disturbed)
    BY <1>4, <1>5, <1>6, <1>7, <2>1 DEF JobFacts
  <2>3. QED
    BY <2>2 DEF r
<1>10. JobTree'
  <2>1. JobsKept(d)
    BY <1>1, <1>2, <1>3, <1>8, ProcsAre, ProcAssumption, OtherJobs DEF TreeInv
  <2>2. QED
    BY <1>1, <1>2, <1>3, <1>9, <2>1, DeepenJobs
<1>11. OpenOK'
  <2>1. ASSUME NEW q \in Deepeners PROVE pc'[q] = "parse" <=> q = d
    <3>1. q # d => pc[q] # "parse"
      BY <1>3, ProcsAre, ProcAssumption DEF TreeInv, OpenOK
    <3>2. QED
      BY <1>2, <3>1, ProcsAre
  <2>2. tx'.depth = db'.depth
    BY <1>3, <1>4
  <2>3. QED
    BY <1>3, <2>1, <2>2 DEF OpenOK
<1>12. TableTree'
  BY <1>1, <1>3, SameTable DEF TreeInv
<1>13. RunTree'
  BY <1>1, <1>2, DeepenSees, RunTreeKept, ProcsAre DEF TreeInv
<1>14. QED
  BY <1>10, <1>11, <1>12, <1>13, TreeInvIs

\* A commit of a deepen, but for the tree and what the deepen knows.
LEMMA DeepenCommits ==
  ASSUME Inv, TreeInv, NEW d \in Deepeners, NEW e, Commit(d, e),
         NEW jobs, JobsTyped(jobs), job' = Overlap(d, jobs),
         \A q \in Deepeners \ {d} : jobs[q] = job[q],
         pc'[d] # "parse", \A q \in Procs \ {d} : pc'[q] = pc[q],
         JobFacts(jobs[d], pc'[d], e, e, disturbed'),
         DOMAIN tx.latest \subseteq DOMAIN e.latest, run' = run
  PROVE  OpenOK' /\ RunTree' /\ JobTree'
<1>1. OpenOK'
  BY CommitOpens, ProcsAre DEF TreeInv
<1>2. RunTree'
  BY DeepenSees, RunTreeKept, ProcsAre DEF TreeInv
<1>3. JobsKept(d)
  BY CommitJobs, ProcsAre DEF TreeInv
<1>4. db' = e /\ tx' = e
  BY DEF Commit
<1>5. SameJob(job'[d], jobs[d])
  BY OverlapSame
<1>6. JobFacts(job'[d], pc'[d], e, e, disturbed')
  BY <1>5, JobKept
<1>7. QED
  BY <1>1, <1>2, <1>3, <1>4, <1>6, DeepenJobs

LEMMA ParseDeepenTree ==
  ASSUME OneDefinition, Inv, TreeInv, NEW d \in Deepeners, ParseDeepen(d)
  PROVE  TreeInv'
<1> DEFINE j == job[d]
           chunk == DeepenSources(j.mods, Last(j.path), j.hops)
           full == TRUE
           batch == Ingested(chunk, full)
           mods == Merged(j.mods, batch)
           jobs == [job EXCEPT ![d].mods = mods]
<1>0. PICK lost : Commit(d, Stored(tx, batch, lost))
  BY DEF ParseDeepen
<1> DEFINE e == Stored(tx, batch, lost)
<1>1. /\ Goto(d, "parse", "clear") /\ Commit(d, e) /\ job' = Overlap(d, jobs)
      /\ run' = run /\ disturbed' = (disturbed \/ ~j.alone)
  BY <1>0 DEF ParseDeepen
<1>2. /\ pc[d] = "parse" /\ pc'[d] = "clear" /\ \A q \in Procs \ {d} : pc'[q] = pc[q]
  BY <1>1, GotoIs, ProcsAre DEF Inv, Places
<1>3. JobFacts(j, "parse", db, tx, disturbed)
  BY <1>2 DEF TreeInv, JobTree
<1>4. ModsTyped(j.mods) /\ j.path \in Paths /\ j.hops \in Nat \cup {Unlimited}
  BY <1>2 DEF Inv, JobOK, JobsTyped, JobTyped
<1>5. KidsKept(j.mods) /\ DOMAIN j.mods = j.known
  BY <1>3 DEF JobFacts
<1>6. chunk \in SUBSET Files /\ full \in BOOLEAN
  <2>1. Last(j.path) \in Names
    BY <1>4, PathsAre
  <2> HIDE DEF j
  <2>2. chunk \in SUBSET Files
    BY <1>4, <2>1, DeepenSourcesAre
  <2>3. QED
    BY <2>2
<1>7. ASSUME NEW q \in Paths, OnBranch(q, j.path, j.hops, j.known)
      PROVE  \E f \in chunk : Name[f] = Last(q)
  <2> HIDE DEF j
  <2>1. OnBranch(q, j.path, j.hops, j.known) <=> OnBranch(q, j.path, j.hops, DOMAIN j.mods)
    BY <1>5
  <2>2. ModsTyped(j.mods) /\ KidsKept(j.mods) /\ OnBranch(q, j.path, j.hops, DOMAIN j.mods)
    BY <1>4, <1>5, <1>7, <2>1
  <2> DEFINE path == j.path
             hops == j.hops
             loaded == j.mods
  <2>3. /\ path \in Paths /\ hops \in Nat \cup {Unlimited}
        /\ ModsTyped(loaded) /\ KidsKept(loaded) /\ OnBranch(q, path, hops, DOMAIN loaded)
    BY <1>4, <2>2
  <2>4. chunk = DeepenSources(loaded, Last(path), hops)
    OBVIOUS
  <2> HIDE DEF chunk, path, hops, loaded
  <2>5. QED
    BY <2>3, <2>4, BranchIsParsed
<1> HIDE DEF chunk, full
<1>8. DOMAIN batch = {Name[f] : f \in chunk} /\ KidsKept(batch)
  BY <1>6, IngestedKids
<1>9. /\ DOMAIN e.latest = DOMAIN tx.latest \cup {Name[f] : f \in chunk}
      /\ e.insts = tx.insts \ lost /\ e.depth = tx.depth /\ e.deepened = tx.deepened
  <2>1. StoredFrom(tx, chunk, lost, e)
    BY <1>6, StoredOK DEF Inv
  <2>2. QED
    BY <2>1 DEF StoredFrom
<1> HIDE DEF batch, e
<1>10. KidsKept(mods) /\ DOMAIN mods = DOMAIN j.mods \cup DOMAIN batch
  BY <1>5, <1>8, MergedKids, MergedAre
<1> HIDE DEF mods
<1>11. /\ JobsTyped(jobs) /\ jobs[d] = Reloaded(j, mods, j.known)
       /\ \A q \in Deepeners \ {d} : jobs[q] = job[q]
  <2> DEFINE known == j.known
  <2>1. JobsTyped(job) /\ Reloads(job, d, mods, known, jobs)
    BY DEF Inv, JobOK, Reloads
  <2> HIDE DEF jobs, known
  <2>2. /\ JobsTyped(jobs) /\ jobs[d] = Reloaded(job[d], mods, known)
        /\ \A q \in Deepeners \ {d} : jobs[q] = job[q]
    BY <2>1, ModsChanged
  <2>3. QED
    BY <2>2 DEF known
<1> HIDE DEF jobs, j
<1>12. tx.depth = db.depth /\ tx.deepened = j.deepened /\ j.known \subseteq DOMAIN tx.latest
  BY <1>3 DEF TreeInv, OpenOK, JobFacts
<1>13. JobFacts(jobs[d], "clear", e, e, disturbed')
  <2> DEFINE r == jobs[d]
  <2>1. /\ r.path = j.path /\ r.hops = j.hops /\ r.deepened = j.deepened
        /\ r.depth = j.depth /\ r.mods = mods /\ r.known = j.known /\ r.before = j.before
        /\ r.alone = j.alone
    BY <1>11 DEF Reloaded
  <2> HIDE DEF r
  <2>2. BranchKnown(r)
    <3> SUFFICES ASSUME NEW q \in Paths, OnBranch(q, j.path, j.hops, j.known)
                 PROVE  Last(q) \in DOMAIN mods
      BY <2>1 DEF BranchKnown
    <3>1. PICK f \in chunk : Name[f] = Last(q)
      BY <1>7
    <3>2. QED
      BY <1>8, <1>10, <3>1
  <2>3. DOMAIN mods \subseteq DOMAIN e.latest
    BY <1>5, <1>8, <1>9, <1>10, <1>12
  <2>4. ASSUME r.alone, ~disturbed'
        PROVE  r.path \in r.deepened /\ r.path \in r.before
               /\ r.before \subseteq Named(DOMAIN r.mods, r.depth, r.deepened)
    <3>1. /\ j.path \in j.deepened /\ j.path \in j.before /\ j.depth = db.depth
          /\ j.before \subseteq Named(DOMAIN j.mods, j.depth, j.deepened)
      BY <1>1, <1>3, <2>1, <2>4 DEF JobFacts
    <3>2. Named(DOMAIN j.mods, j.depth, j.deepened) \subseteq
            Named(DOMAIN mods, j.depth, j.deepened)
      BY <1>10, <3>1, DepthIs, NamedGrows
    <3>3. QED
      BY <2>1, <3>1, <3>2
  <2>5. r.alone => r.depth = e.depth /\ e.deepened = r.deepened
    BY <1>3, <1>9, <1>12, <2>1 DEF JobFacts
  <2>6. KidsKept(r.mods) /\ r.known \subseteq DOMAIN r.mods
    BY <1>5, <1>10, <2>1
  <2>7. JobFacts(r, "clear", e, e, disturbed')
    BY <2>1, <2>2, <2>3, <2>4, <2>5, <2>6 DEF JobFacts
  <2>8. QED
    BY <2>7 DEF r
<1>14. OpenOK' /\ RunTree' /\ JobTree'
  <2>1. DOMAIN tx.latest \subseteq DOMAIN e.latest
    BY <1>9
  <2>2. QED
    BY <1>1, <1>2, <1>11, <1>13, <2>1, DeepenCommits
<1>15. TableTree'
  <2>1. ~disturbed' => ~disturbed /\ Wider(e)
    <3>1. ~disturbed' => ~disturbed /\ db.deepened \subseteq j.deepened
      BY <1>1, <1>3 DEF JobFacts
    <3>2. tx.insts \subseteq db.insts /\ DOMAIN db.latest \subseteq DOMAIN tx.latest
      BY DEF Inv, LockOK
    <3>3. QED
      BY <1>9, <1>12, <3>1, <3>2 DEF Wider
  <2>2. QED
    BY <1>1, <2>1, CommitTable DEF TreeInv
<1>16. QED
  BY <1>14, <1>15, TreeInvIs

LEMMA ClearForDeepenTree ==
  ASSUME Inv, TreeInv, NEW d \in Deepeners, ClearForDeepen(d)
  PROVE  TreeInv'
<1> DEFINE e == [tx EXCEPT !.insts = {}]
<1>1. /\ Goto(d, "clear", "load") /\ Commit(d, e) /\ job' = Overlap(d, job)
      /\ run' = run /\ disturbed' = disturbed
  BY DEF ClearForDeepen
<1>2. /\ pc[d] = "clear" /\ pc'[d] = "load" /\ \A q \in Procs \ {d} : pc'[q] = pc[q]
  BY <1>1, GotoIs, ProcsAre DEF Inv, Places
<1>3. tx = db
  BY <1>1, <1>2, DeepenIsFree DEF Commit, TreeInv
<1>4. /\ e.depth = db.depth /\ e.deepened = db.deepened /\ e.insts = {}
      /\ e.latest = db.latest
  BY <1>3, ColumnsOf DEF Inv
<1> HIDE DEF e
<1>5. JobFacts(job[d], "load", e, e, disturbed')
  <2>1. JobFacts(job[d], "clear", db, tx, disturbed)
    BY <1>2 DEF TreeInv, JobTree
  <2>2. QED
    BY <1>1, <1>4, <2>1 DEF JobFacts
<1>6. OpenOK' /\ RunTree' /\ JobTree'
  <2>1. JobsTyped(job) /\ DOMAIN tx.latest \subseteq DOMAIN e.latest
    BY <1>3, <1>4 DEF Inv, JobOK
  <2>2. \A q \in Deepeners \ {d} : job[q] = job[q]
    OBVIOUS
  <2>3. QED
    BY <1>1, <1>2, <1>5, <2>1, <2>2, DeepenCommits
<1>7. TableTree'
  <2>1. Wider(e)
    BY <1>4 DEF Wider
  <2>2. QED
    BY <1>1, <2>1, CommitTable DEF TreeInv
<1>8. QED
  BY <1>6, <1>7, TreeInvIs

\* What a deepen flattens that nobody has overlapped.
LEMMA DeepenStores ==
  ASSUME Inv, TreeInv, NEW d \in Deepeners, pc[d] = "load", lock \in {NoProc, d},
         job[d].alone
  PROVE  LET j == job[d]
         IN /\ tx = db /\ j.depth = db.depth /\ j.deepened = db.deepened
            /\ Flatten(j.mods, j.depth, j.deepened) = Named(DOMAIN j.mods, j.depth, j.deepened)
            /\ \A p \in Named(DOMAIN j.mods, j.depth, j.deepened) : Last(p) \in DOMAIN tx.latest
            /\ Named(DOMAIN j.mods, j.depth, j.deepened) \subseteq
                 Named(DOMAIN db.latest, db.depth, db.deepened)
<1> DEFINE j == job[d]
<1>1. JobFacts(j, "load", db, tx, disturbed) /\ tx = db
  BY DeepenIsFree DEF TreeInv, JobTree
<1> HIDE DEF j
<1>2. Flatten(j.mods, j.depth, j.deepened) = Named(DOMAIN j.mods, j.depth, j.deepened)
  <2>1. KidsKept(j.mods)
    BY <1>1 DEF JobFacts
  <2>2. QED
    BY <2>1, FlattenIs
<1>3. j.depth = db.depth /\ j.deepened = db.deepened /\ DOMAIN j.mods \subseteq DOMAIN db.latest
  BY <1>1 DEF JobFacts, j
<1>4. ASSUME NEW p \in Named(DOMAIN j.mods, j.depth, j.deepened)
      PROVE  Last(p) \in DOMAIN db.latest
  <2>1. p \in Paths /\ \A i \in 1 .. Len(p) : p[i] \in DOMAIN j.mods
    BY DEF Named
  <2>2. Len(p) \in Nat \ {0}
    BY <2>1, PathIs
  <2>3. Len(p) \in 1 .. Len(p)
    BY <2>2
  <2>4. QED
    BY <1>3, <2>1, <2>3 DEF Last
<1>5. Named(DOMAIN j.mods, j.depth, j.deepened) \subseteq
        Named(DOMAIN db.latest, db.depth, db.deepened)
  BY <1>3 DEF Named
<1>6. QED
  BY <1>1, <1>2, <1>3, <1>4, <1>5 DEF j

LEMMA LoadDeepenedTree ==
  ASSUME Inv, TreeInv, NEW d \in Deepeners, LoadDeepened(d)
  PROVE  TreeInv'
<1> DEFINE j == job[d]
           flat == {p \in Flatten(j.mods, j.depth, j.deepened) : Last(p) \in DOMAIN tx.latest}
           insts == tx.insts \cup flat
           jobs == [job EXCEPT ![d] = NoJob]
           e == [tx EXCEPT !.insts = insts]
<1>1. /\ Goto(d, "load", "idle") /\ Commit(d, e) /\ job' = Overlap(d, jobs)
      /\ run' = run /\ disturbed' = (disturbed \/ ~j.alone)
  BY DEF LoadDeepened
<1>2. /\ pc[d] = "load" /\ pc'[d] = "idle" /\ \A q \in Procs \ {d} : pc'[q] = pc[q]
  BY <1>1, GotoIs, ProcsAre DEF Inv, Places
<1>3. lock \in {NoProc, d} /\ tx = db
  BY <1>1, <1>2, DeepenIsFree DEF Commit, TreeInv
<1>4. j.alone => flat \subseteq Named(DOMAIN db.latest, db.depth, db.deepened)
  BY <1>2, <1>3, DeepenStores
<1>5. /\ e.depth = tx.depth /\ e.deepened = tx.deepened /\ e.insts = insts
      /\ e.latest = tx.latest
  BY ColumnsOf DEF Inv
<1>6. insts = tx.insts \cup flat
  OBVIOUS
<1> HIDE DEF flat, insts, e
<1>7. JobsTyped(jobs) /\ \A q \in Deepeners \ {d} : jobs[q] = job[q]
  <2>1. JobsTyped(job)
    BY DEF Inv, JobOK
  <2>2. QED
    BY <2>1, NoJobTyped, JobChanged
<1> HIDE DEF jobs
<1>8. OpenOK' /\ RunTree' /\ JobTree'
  <2>1. JobFacts(jobs[d], "idle", e, e, disturbed') /\ DOMAIN tx.latest \subseteq DOMAIN e.latest
    BY <1>5, IdleFacts
  <2>2. QED
    BY <1>1, <1>2, <1>7, <2>1, DeepenCommits
<1>9. TableTree'
  <2>1. db' = e
    BY <1>1 DEF Commit
  <2>2. ~disturbed => db.insts \subseteq Named(DOMAIN db.latest, db.depth, db.deepened)
    BY DEF TreeInv, TableTree
  <2>3. ~disturbed' => e.insts \subseteq Named(DOMAIN e.latest, e.depth, e.deepened)
    BY <1>1, <1>3, <1>4, <1>5, <1>6, <2>2
  <2>4. QED
    BY <2>1, <2>3 DEF TableTree
<1>10. QED
  BY <1>8, <1>9, TreeInvIs

LEMMA AbandonTree ==
  ASSUME Inv, TreeInv, NEW p \in Procs, Abandon(p)
  PROVE  TreeInv'
<1>1. /\ pc' = [pc EXCEPT ![p] = "idle"] /\ db' = db
      /\ run' = (IF p = Builder THEN NoRun ELSE run)
      /\ job' = [d \in Deepeners |-> IF d = p THEN NoJob ELSE job[d]]
      /\ lock' = (IF lock = p THEN NoProc ELSE lock)
      /\ tx' = (IF lock = p THEN db ELSE tx)
      /\ disturbed => disturbed'
  BY DEF Abandon
<1>2. pc'[p] = "idle" /\ \A q \in Procs \ {p} : pc'[q] = pc[q]
  BY <1>1 DEF Inv, LockOK
<1>3. OpenOK'
  <2>1. ASSUME NEW q \in Deepeners PROVE lock' = q <=> pc'[q] = "parse"
    <3>1. q \in Procs /\ q # NoProc /\ (lock = q <=> pc[q] = "parse")
      BY ProcsAre, ProcAssumption DEF TreeInv, OpenOK
    <3>2. CASE q = p
      BY <1>1, <1>2, <3>1, <3>2
    <3>3. CASE q # p
      BY <1>1, <1>2, <3>1, <3>3
    <3>4. QED
      BY <3>2, <3>3
  <2>2. tx'.depth = db'.depth /\ (lock' \notin Deepeners => tx'.deepened = db'.deepened)
    BY <1>1 DEF TreeInv, OpenOK
  <2>3. QED
    BY <2>1, <2>2 DEF OpenOK
<1>4. TableTree'
  BY <1>1, SameTable DEF TreeInv
<1>5. RunTree'
  <2>1. CASE p = Builder
    BY <1>2, <2>1, RunTreeIdle
  <2>2. CASE p # Builder
    <3>1. Seen' = Seen
      BY <1>1, <2>2, ProcsAre, ProcAssumption DEF Seen
    <3>2. QED
      BY <1>1, <1>2, <2>2, <3>1, RunTreeKept, ProcsAre DEF TreeInv
  <2>3. QED
    BY <2>1, <2>2
<1>6. JobTree'
  <2>1. JobsKept(p)
    <3>1. \A d \in Deepeners \ {p} : job'[d] = job[d]
      BY <1>1
    <3>2. QED
      BY <1>1, <1>2, <3>1, ProcsAre, OtherJobs DEF TreeInv
  <2>2. CASE p = Builder
    BY <2>1, <2>2, BuilderJobs
  <2>3. CASE p # Builder
    <3>1. p \in Deepeners
      BY <2>3 DEF Procs
    <3>2. QED
      BY <1>2, <2>1, <3>1, IdleFacts, DeepenJobs
  <2>4. QED
    BY <2>2, <2>3
<1>7. QED
  BY <1>3, <1>4, <1>5, <1>6, TreeInvIs

LEMMA NothingTree ==
  ASSUME TreeInv, UNCHANGED vars
  PROVE  TreeInv'
<1>1. /\ db' = db /\ tx' = tx /\ lock' = lock /\ pc' = pc /\ run' = run /\ job' = job
      /\ disturbed' = disturbed
  BY DEF vars
<1>2. OpenOK' /\ TableTree' /\ JobTree'
  BY <1>1 DEF TreeInv, OpenOK, TableTree, JobTree
<1>3. RunTree'
  <2>1. Seen' = Seen
    BY <1>1 DEF Seen
  <2>2. QED
    BY <1>1, <2>1, RunTreeKept DEF TreeInv
<1>4. QED
  BY <1>2, <1>3, TreeInvIs
-----------------------------------------------------------------------------
(***************************************************************************)
(* The theorems about the tree.                                            *)
(***************************************************************************)
LEMMA TreeInit ==
  ASSUME Init
  PROVE  TreeInv
<1>1. /\ tx = db /\ lock = NoProc /\ pc = [p \in Procs |-> "idle"]
      /\ db = [rows |-> NoRows, latest |-> NoRows, insts |-> {}, done |-> {},
               complete |-> FALSE, depth |-> Unlimited, deepened |-> {}]
  BY DEF Init
<1>2. \A p \in Procs : pc[p] = "idle" /\ p # NoProc
  BY <1>1, ProcAssumption
<1>3. OpenOK
  BY <1>1, <1>2, ProcsAre DEF OpenOK
<1>4. TableTree
  BY <1>1 DEF TableTree
<1>5. RunTree
  BY <1>2, ProcsAre DEF RunTree, Building
<1>6. JobTree
  BY <1>2, ProcsAre, IdleFacts DEF JobTree
<1>7. QED
  BY <1>3, <1>4, <1>5, <1>6 DEF TreeInv

LEMMA TreeNext ==
  ASSUME OneDefinition, Inv, Faithful, TreeInv, [Next]_vars
  PROVE  TreeInv'
<1>1. ASSUME NEW mode \in Modes, NEW depth \in Depths, StartBuild(mode, depth) PROVE TreeInv'
  BY <1>1, StartBuildTree
<1>2. CASE EraseTables
  BY <1>2, EraseTablesTree
<1>3. CASE MarkIncomplete
  BY <1>3, MarkIncompleteTree
<1>4. CASE OpenRun
  BY <1>4, OpenRunTree
<1>5. ASSUME NEW phase \in {"skim", "full"}, NEW chunk \in run[phase], BatchDone(phase, chunk)
      PROVE  TreeInv'
  BY <1>5, BatchDoneTree
<1>6. CASE SkimPhaseEnds
  BY <1>6, SkimPhaseEndsTree
<1>7. CASE ClearInstances
  BY <1>7, ClearInstancesTree
<1>8. CASE LoadInstances
  BY <1>8, LoadInstancesTree
<1>9. CASE FinishBuild
  BY <1>9, FinishBuildTree
<1>10. ASSUME NEW d \in Deepeners, NEW path \in db.insts, NEW hops \in Hops,
              StartDeepen(d, path, hops)
       PROVE  TreeInv'
  BY <1>10, StartDeepenTree
<1>11. ASSUME NEW d \in Deepeners,
              ClaimDeepen(d) \/ ParseDeepen(d) \/ ClearForDeepen(d) \/ LoadDeepened(d)
       PROVE  TreeInv'
  BY <1>11, ClaimDeepenTree, ParseDeepenTree, ClearForDeepenTree, LoadDeepenedTree
<1>12. ASSUME NEW p \in Procs, Stop(p) \/ TimeOut(p) PROVE TreeInv'
  BY <1>12, AbandonTree DEF Stop, TimeOut
<1>13. CASE Rest \/ UNCHANGED vars
  BY <1>13, NothingTree DEF Rest
<1>14. QED
  BY <1>1, <1>2, <1>3, <1>4, <1>5, <1>6, <1>7, <1>8, <1>9, <1>10, <1>11, <1>12, <1>13
     DEF Next

LEMMA TreeAlways ==
  ASSUME OneDefinition
  PROVE  Spec => [](Inv /\ Faithful /\ TreeInv)
<1>1. Init => Inv /\ Faithful /\ TreeInv
  BY InitOK, FaithfulInit, TreeInit
<1>2. Inv /\ Faithful /\ TreeInv /\ [Next]_vars => (Inv /\ Faithful /\ TreeInv)'
  BY NextKeeps, FaithfulKept, TreeNext
<1>3. QED
  BY <1>1, <1>2, PTL DEF Spec

\* A build that ends shows at least the tree of a first build with the same
\* options, whatever it resumed (batched_loader.py:261, store.py:259).
THEOREM BuildAlwaysAsFresh ==
  ASSUME OneDefinition
  PROVE  Spec => BuildIsAsFresh
<1>1. ASSUME Inv, TreeInv, LoadInstances PROVE FreshTree(run.depth) \subseteq db'.insts
  <2> DEFINE flat == {p \in Flatten(run.mods, run.depth, tx.deepened) :
                        Last(p) \in DOMAIN tx.latest}
             insts == tx.insts \cup flat
             wanted == {Name[f] : f \in WantedFiles(run.depth)}
  <2>1. pc[Builder] = "load" /\ Commit(Builder, [tx EXCEPT !.insts = insts])
    BY <1>1 DEF LoadInstances, Goto
  <2>2. flat = Named(DOMAIN run.mods, run.depth, tx.deepened)
    BY <1>1, <2>1, BuildStores DEF Commit
  <2>3. db'.insts = insts
    BY <1>1, <2>1, ColumnsOf DEF Inv, Commit
  <2>4. wanted \subseteq DOMAIN run.mods
    <3>1. Building
      BY <2>1 DEF Building
    <3>2. run.skim = {} /\ run.full = {} /\ \A f \in run.done : Name[f] \in DOMAIN run.mods
      BY <1>1, <2>1, <3>1 DEF Inv, RunOK
    <3>3. WantedFiles(run.depth) \subseteq run.done
      BY <1>1, <3>1, <3>2 DEF TreeInv, RunTree
    <3>4. QED
      BY <3>2, <3>3
  <2>5. run.depth \in Nat \cup {Unlimited}
    BY <1>1, BoundsAssumption DEF Inv, RunOK
  <2> HIDE DEF wanted, flat
  <2>6. Named(wanted, run.depth, {}) \subseteq
          Named(DOMAIN run.mods, run.depth, tx.deepened)
    BY <2>4, <2>5, NamedGrows
  <2>7. FreshTree(run.depth) = Named(wanted, run.depth, {})
    BY FreshTreeIs DEF wanted
  <2>8. QED
    BY <2>2, <2>3, <2>6, <2>7
<1>2. Inv /\ Faithful /\ TreeInv /\ [Next]_vars =>
        [LoadInstances => FreshTree(run.depth) \subseteq db'.insts]_vars
  BY <1>1
<1>3. QED
  BY <1>2, TreeAlways, PTL DEF Spec, BuildIsAsFresh

\* What a deepen that nobody overlaps stores when the tree is undisturbed.
LEMMA DeepenShows ==
  ASSUME Inv, TreeInv, NEW d \in Deepeners, LoadDeepened(d), job[d].alone, ~disturbed
  PROVE  LET j == job[d]
         IN /\ Named(DOMAIN j.mods, j.depth, j.deepened) \subseteq db'.insts
            /\ j.before \subseteq Named(DOMAIN j.mods, j.depth, j.deepened)
            /\ j.path \in j.before /\ j.path \in j.deepened /\ j.depth \in Nat \cup {Unlimited}
            /\ j.known \subseteq DOMAIN j.mods /\ BranchKnown(j)
<1> DEFINE j == job[d]
           flat == {p \in Flatten(j.mods, j.depth, j.deepened) : Last(p) \in DOMAIN tx.latest}
           insts == tx.insts \cup flat
<1>1. pc[d] = "load" /\ Commit(d, [tx EXCEPT !.insts = insts])
  BY DEF LoadDeepened, Goto
<1>2. /\ j.depth = db.depth /\ flat = Named(DOMAIN j.mods, j.depth, j.deepened)
  BY <1>1, DeepenStores DEF Commit
<1>3. db'.insts = insts
  BY <1>1, ColumnsOf DEF Inv, Commit
<1>4. JobFacts(j, "load", db, tx, disturbed)
  BY <1>1 DEF TreeInv, JobTree
<1>5. flat \subseteq insts
  OBVIOUS
<1> HIDE DEF flat, insts
<1>6. /\ j.before \subseteq Named(DOMAIN j.mods, j.depth, j.deepened)
      /\ j.path \in j.before /\ j.path \in j.deepened
      /\ j.known \subseteq DOMAIN j.mods /\ BranchKnown(j)
  BY <1>4 DEF JobFacts
<1>7. j.depth \in Nat \cup {Unlimited}
  BY <1>2, DepthIs
<1>8. QED
  BY <1>2, <1>3, <1>5, <1>6, <1>7

\* A deepen that nobody overlaps takes nothing out of an undisturbed tree
\* (deepen.py:196-200, the help text of hch-deepen).
THEOREM DeepenAlwaysGrows ==
  ASSUME OneDefinition
  PROVE  Spec => DeepenOnlyGrows
<1>1. ASSUME Inv, TreeInv, NEW d \in Deepeners, LoadDeepened(d), job[d].alone, ~disturbed
      PROVE  job[d].before \subseteq db'.insts
  BY <1>1, DeepenShows
<1>2. Inv /\ Faithful /\ TreeInv /\ [Next]_vars =>
        [\A d \in Deepeners :
           LoadDeepened(d) /\ job[d].alone /\ ~disturbed
             => job[d].before \subseteq db'.insts]_vars
  BY <1>1
<1>3. QED
  BY <1>2, TreeAlways, PTL DEF Spec, DeepenOnlyGrows

\* And it shows every level below its branch that it was asked for, down to the
\* first modules that were not in the index (collect_deepen_sources).
THEOREM DeepenAlwaysReaches ==
  ASSUME OneDefinition
  PROVE  Spec => DeepenReachesNextLevel
<1>1. ASSUME Inv, TreeInv, NEW d \in Deepeners, LoadDeepened(d), job[d].alone, ~disturbed,
             NEW q \in Paths, OnBranch(q, job[d].path, job[d].hops, job[d].known)
      PROVE  q \in db'.insts
  <2> DEFINE j == job[d]
             names == DOMAIN j.mods
  <2>1. /\ Named(names, j.depth, j.deepened) \subseteq db'.insts
        /\ j.before \subseteq Named(names, j.depth, j.deepened)
        /\ j.path \in j.before /\ j.path \in j.deepened /\ j.depth \in Nat \cup {Unlimited}
        /\ j.known \subseteq names /\ BranchKnown(j)
    BY <1>1, DeepenShows
  <2>2. j.path \in Paths /\ OnBranch(q, j.path, j.hops, j.known)
    BY <1>1 DEF Inv, JobOK, JobsTyped, JobTyped
  <2> HIDE DEF j
  <2>3. Last(q) \in names
    BY <2>1, <2>2 DEF BranchKnown
  <2> HIDE DEF names
  <2>4. q \in Named(names, j.depth, j.deepened)
    BY <2>1, <2>2, <2>3, BranchIsFlattened
  <2>5. QED
    BY <2>1, <2>4
<1>2. ASSUME Inv, TreeInv, NEW d \in Deepeners, LoadDeepened(d), job[d].alone, ~disturbed
      PROVE  LET j == job[d]
             IN \A q \in Paths :
                  /\ IsPrefix(j.path, q)
                  /\ j.hops = Unlimited \/ Len(q) - Len(j.path) <= j.hops
                  /\ \A i \in 1..Len(q) - 1 : q[i] \in j.known
                  => q \in db'.insts
  BY <1>1, <1>2 DEF OnBranch
<1> DEFINE Reaches ==
             \A d \in Deepeners :
               LoadDeepened(d) /\ job[d].alone /\ ~disturbed
                 => LET j == job[d]
                    IN \A q \in Paths :
                         /\ IsPrefix(j.path, q)
                         /\ j.hops = Unlimited \/ Len(q) - Len(j.path) <= j.hops
                         /\ \A i \in 1..Len(q) - 1 : q[i] \in j.known
                         => q \in db'.insts
<1>3. ASSUME Inv, TreeInv PROVE Reaches
  BY <1>2, <1>3
<1> HIDE DEF Reaches
<1>4. Inv /\ Faithful /\ TreeInv /\ [Next]_vars => [Reaches]_vars
  BY <1>3
<1>5. Spec => [][Reaches]_vars
  BY <1>4, TreeAlways, PTL DEF Spec
<1>6. QED
  BY <1>5 DEF Reaches, DeepenReachesNextLevel
=============================================================================
