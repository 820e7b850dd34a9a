-------------------------- MODULE AxiFabric_proofs --------------------------
(***************************************************************************)
(* Theorems about the two masters, the arbiter and the slave, for any      *)
(* number of outstanding accesses up to eight a master, any depth and      *)
(* latency of the slave and any length of a burst.                         *)
(***************************************************************************)
EXTENDS AxiFabric, FiniteSetTheorems, WellFoundedInduction, TLAPS

-----------------------------------------------------------------------------
(***************************************************************************)
(* Numbers.  A nonempty set of naturals has a least member.                *)
(***************************************************************************)
LEMMA LowestIsIn ==
  ASSUME NEW S \in SUBSET Nat, S # {}
  PROVE  Lowest(S) \in S
<1>1. PICK n \in S : TRUE
  OBVIOUS
<1> DEFINE U == 0 .. n
           T == {0 .. k : k \in {j \in S : j <= n}}
<1>2. T \subseteq SUBSET U /\ T # {}
  OBVIOUS
<1>3. IsWellFoundedOn(StrictSubsetOrdering(U), FiniteSubsetsOf(U))
  BY FS_StrictSubsetOrderingWellFounded
<1>4. T \subseteq FiniteSubsetsOf(U)
  <2>1. IsFiniteSet(U)
    BY FS_Interval
  <2>2. QED
    BY <1>2, <2>1, FS_FiniteSubsetsOfFinite
<1> HIDE DEF T, U
<1>5. PICK X \in T : \A Y \in T : ~(<<Y, X>> \in StrictSubsetOrdering(U))
  BY <1>2, <1>3, <1>4, WFMin
<1>6. PICK x \in S : X = 0 .. x /\ x <= n
  BY DEF T
<1>7. ASSUME NEW y \in S, y < x PROVE FALSE
  <2>1. 0 .. y \in T
    BY <1>6, <1>7 DEF T
  <2>2. 0 .. y \subseteq 0 .. x /\ 0 .. y # 0 .. x
    BY <1>7
  <2>3. X \in SUBSET U /\ 0 .. y \in SUBSET U
    BY <1>2, <2>1
  <2>4. <<0 .. y, X>> \in StrictSubsetOrdering(U)
    BY <1>6, <2>2, <2>3 DEF StrictSubsetOrdering
  <2>5. QED
    BY <1>5, <2>1, <2>4
<1>8. \E i \in S : \A j \in S : i <= j
  BY <1>7
<1>9. QED
  BY <1>8 DEF Lowest

LEMMA Sizes ==
  /\ \A m \in Masters : Outstanding[m] \in 1 .. 8 /\ RSlots(m) \subseteq 0 .. 7
  /\ Depth \in Nat /\ Depth > 0 /\ Beats \in Nat /\ Beats > 0 /\ Latency \in Nat
  /\ 0 \in Masters /\ 1 \in Masters
  /\ \A m \in Masters : Other(m) \in Masters /\ Other(m) # m /\ (m = 0 \/ m = 1)
  /\ Entries \in SUBSET Nat /\ 0 \in Entries
BY FabricAssumption DEF Masters, RSlots, Other, Entries

(***************************************************************************)
(* IDs.  Master and slot can be read off an ID.                            *)
(***************************************************************************)
LEMMA IdsAre ==
  /\ \A m \in Masters : \A i \in 0 .. 7 : Owner(8 * m + i) = m
  /\ \A m, n \in Masters : \A i, j \in 0 .. 7 : 8 * m + i = 8 * n + j => m = n /\ i = j
  /\ \A m \in Masters : \A i \in RSlots(m) : 8 * m + i \in Ids
  /\ 0 \in Ids /\ Ids \subseteq 0 .. 15
<1>1. /\ \A m \in Masters : \A i \in 0 .. 7 : Owner(8 * m + i) = m
      /\ \A m, n \in Masters : \A i, j \in 0 .. 7 : 8 * m + i = 8 * n + j => m = n /\ i = j
  BY DEF Masters, Owner
<1>2. \A m \in Masters : \A i \in RSlots(m) : 8 * m + i \in Ids
  BY DEF Ids
<1>3. ASSUME NEW id \in Ids PROVE id \in 0 .. 15
  <2>1. CASE id = 0
    BY <2>1
  <2>2. ASSUME NEW m \in Masters, NEW i \in RSlots(m), id = 8 * m + i PROVE id \in 0 .. 15
    BY <2>2, Sizes
  <2>3. QED
    BY <2>1, <2>2 DEF Ids
<1>4. QED
  BY <1>1, <1>2, <1>3 DEF Ids

-----------------------------------------------------------------------------
(***************************************************************************)
(* The wires: the arbiter picks one master at a time.                      *)
(***************************************************************************)
LEMMA OnePick ==
  \A m, n \in Masters : /\ ArPick(m) /\ ArPick(n) => m = n
                        /\ AwPick(m) /\ AwPick(n) => m = n
<1>1. ASSUME NEW m \in Masters, NEW n \in Masters, m # n
      PROVE  ~(ArPick(m) /\ ArPick(n)) /\ ~(AwPick(m) /\ AwPick(n))
  <2>1. n = Other(m) /\ m = Other(n)
    BY <1>1 DEF Masters, Other
  <2>2. QED
    BY <1>1, <2>1 DEF ArPick, AwPick
<1>2. QED
  BY <1>1

-----------------------------------------------------------------------------
(***************************************************************************)
(* A master.  Where the tasks can be: reads and writes hold a busy slot    *)
(* until their address or data is accepted, a burst and a locked read are  *)
(* master 0's and run alone.                                               *)
(***************************************************************************)
States == {"free", "busy", "done"}
Phases == {"pre", "ar", "aw_w", "aw", "w", "beat_r", "gap_r", "beat_w", "gap_w",
           "resp", "post", "post_r", "post_b"}
TaskType == {Idle} \cup [op : Calls, phase : Phases, slot : {None} \cup 0 .. 7, left : 0 .. Beats + 1]

ReadShape(m, t, rs) ==
  /\ t.phase \in {"pre", "ar", "post"} /\ t.left = 1
  /\ t.slot \in RSlots(m)
  /\ t.phase # "post" => rs[t.slot] = "busy"

WriteShape(m, t, ws) ==
  /\ t.phase \in {"pre", "aw_w", "w", "post"} /\ t.left = 1
  /\ t.slot \in RSlots(m)
  /\ t.phase # "post" => ws[t.slot] = "busy"

LockedShape(t) == t.phase \in {"pre", "ar", "beat_r", "post_r"} /\ t.left = 1

BurstReadShape(t) ==
  /\ t.phase \in {"pre", "ar", "beat_r", "gap_r"} /\ t.left \in 0 .. Beats
  /\ t.phase # "gap_r" => t.left # 0

BurstWriteShape(t) ==
  /\ t.phase \in {"pre", "aw", "gap_w", "beat_w", "resp", "post_b"} /\ t.left \in 0 .. Beats
  /\ t.phase \in {"pre", "aw", "beat_w"} => t.left # 0
  /\ t.phase \in {"resp", "post_b"} => t.left = 0

ShapeOf(m, t, rs, ws) ==
  /\ t \in TaskType
  /\ rs \in [RSlots(m) -> States] /\ ws \in [RSlots(m) -> States]
  /\ t.op = "read" => ReadShape(m, t, rs)
  /\ t.op = "write" => WriteShape(m, t, ws)
  /\ t.op \in Smoke => m = 0 /\ Taken(rs) = {} /\ Taken(ws) = {}
  /\ t.op = "locked" => LockedShape(t)
  /\ t.op = "burst_read" => BurstReadShape(t)
  /\ t.op = "burst_write" => BurstWriteShape(t)

Shape(m) == ShapeOf(m, task[m], rslot[m], wslot[m])

\* the slots of the reads whose address, the writes whose data was accepted
Unread(t) == IF t.op = "read" /\ t.phase \in {"pre", "ar"} THEN {t.slot} ELSE {}
Unwritten(t) == IF t.op = "write" /\ t.phase # "post" THEN {t.slot} ELSE {}
Reading(m) == Taken(rslot[m]) \ Unread(task[m])
Writing(m) == Taken(wslot[m]) \ Unwritten(task[m])

To(m, phase) == [task[m] EXCEPT !.phase = phase]

(***************************************************************************)
(* Where a task goes, task by task.                                        *)
(***************************************************************************)
LEMMA ReadGoes ==
  ASSUME NEW m \in Masters, Shape(m), task[m].op = "read"
  PROVE  /\ task[m].phase = "pre" => Proceed(m) = To(m, "ar")
         /\ task[m].phase = "ar" => Proceed(m) = IF ArHandshake(m) THEN To(m, "post") ELSE task[m]
         /\ task[m].phase = "post" => Proceed(m) = Idle
BY DEF Shape, ShapeOf, ReadShape, TaskType, Idle, Proceed, To

LEMMA WriteGoes ==
  ASSUME NEW m \in Masters, Shape(m), task[m].op = "write", task[m].phase = "aw_w" => m \notin latched
  PROVE  /\ task[m].phase = "pre" => Proceed(m) = To(m, "aw_w")
         /\ task[m].phase = "aw_w" => Proceed(m) = IF AwHandshake(m) THEN To(m, "w") ELSE To(m, "aw_w")
         /\ task[m].phase = "w" => Proceed(m) = IF WReady(m) THEN To(m, "post") ELSE task[m]
         /\ task[m].phase = "post" => Proceed(m) = Idle
<1>1. task[m].phase = "aw_w" => ~WReady(m)
  BY DEF WReady
<1>2. QED
  BY <1>1 DEF Shape, ShapeOf, WriteShape, TaskType, Idle, Proceed, To

LEMMA LockedGoes ==
  ASSUME NEW m \in Masters, Shape(m), task[m].op = "locked"
  PROVE  /\ task[m].phase = "pre" => Proceed(m) = To(m, "ar")
         /\ task[m].phase = "ar" => Proceed(m) = IF ArHandshake(m) THEN To(m, "beat_r") ELSE task[m]
         /\ task[m].phase = "beat_r" => Proceed(m) = IF RHandshake(m) THEN To(m, "post_r") ELSE task[m]
         /\ task[m].phase = "post_r" => Proceed(m) = Idle
BY DEF Shape, ShapeOf, LockedShape, TaskType, Idle, Proceed, To

LEMMA BurstReadGoes ==
  ASSUME NEW m \in Masters, Shape(m), task[m].op = "burst_read"
  PROVE  /\ task[m].phase = "pre" => Proceed(m) = To(m, "ar")
         /\ task[m].phase = "ar" => Proceed(m) = IF ArHandshake(m) THEN To(m, "beat_r") ELSE task[m]
         /\ task[m].phase = "beat_r" =>
              Proceed(m) = IF RHandshake(m) THEN [To(m, "gap_r") EXCEPT !.left = @ - 1] ELSE task[m]
         /\ task[m].phase = "gap_r" => Proceed(m) = IF task[m].left = 0 THEN Idle ELSE To(m, "beat_r")
BY DEF Shape, ShapeOf, BurstReadShape, TaskType, Idle, Proceed, To

LEMMA BurstWriteGoes ==
  ASSUME NEW m \in Masters, Shape(m), task[m].op = "burst_write"
  PROVE  /\ task[m].phase = "pre" => Proceed(m) = To(m, "aw")
         /\ task[m].phase = "aw" => Proceed(m) = IF AwHandshake(m) THEN To(m, "gap_w") ELSE task[m]
         /\ task[m].phase = "gap_w" => Proceed(m) = To(m, IF task[m].left = 0 THEN "resp" ELSE "beat_w")
         /\ task[m].phase = "beat_w" =>
              Proceed(m) = IF WReady(m) THEN [To(m, "gap_w") EXCEPT !.left = @ - 1] ELSE task[m]
         /\ task[m].phase = "resp" => Proceed(m) = IF BValid(m) THEN To(m, "post_b") ELSE task[m]
         /\ task[m].phase = "post_b" => Proceed(m) = Idle
BY DEF Shape, ShapeOf, BurstWriteShape, TaskType, Idle, Proceed, To

LEMMA IdleGoes ==
  ASSUME NEW m \in Masters, task[m] = Idle
  PROVE  Proceed(m) = Idle
BY DEF Idle, Proceed

-----------------------------------------------------------------------------
(***************************************************************************)
(* The slots.  A response frees none but its own; what is done or free     *)
(* waits for nothing.                                                      *)
(***************************************************************************)
RGone(m) == IF RHandshake(m) /\ RLast THEN SlotOf(m, rslot[m], rq[presented].id) ELSE {}
BGone(m) == IF BHandshake(m) THEN SlotOf(m, wslot[m], bid) ELSE {}

LEMMA TakenAre ==
  ASSUME NEW m \in Masters, NEW s \in [RSlots(m) -> States]
  PROVE  /\ \A i : i \in Taken(s) <=> i \in RSlots(m) /\ s[i] = "busy"
         /\ \A i : i \in FreeSlots(s) <=> i \in RSlots(m) /\ s[i] = "free"
BY DEF Taken, FreeSlots

LEMMA SlotsDone ==
  ASSUME NEW m \in Masters, Shape(m)
  PROVE  /\ RDone(m) \in [RSlots(m) -> States] /\ Taken(RDone(m)) = Taken(rslot[m]) \ RGone(m)
         /\ BDone(m) \in [RSlots(m) -> States] /\ Taken(BDone(m)) = Taken(wslot[m]) \ BGone(m)
<1>1. rslot[m] \in [RSlots(m) -> States] /\ wslot[m] \in [RSlots(m) -> States]
  BY DEF Shape, ShapeOf
<1>2. ASSUME RHandshake(m) /\ RLast
      PROVE  RDone(m) \in [RSlots(m) -> States] /\ Taken(RDone(m)) = Taken(rslot[m]) \ RGone(m)
  <2>1. RDone(m) \in [RSlots(m) -> States]
    BY <1>1, <1>2 DEF RDone, States
  <2>2. \A i \in RSlots(m) : RDone(m)[i] = "busy" <=> rslot[m][i] = "busy" /\ i \notin RGone(m)
    BY <1>2 DEF RDone, RGone
  <2>3. QED
    BY <1>1, <2>1, <2>2, TakenAre
<1>3. ASSUME ~(RHandshake(m) /\ RLast)
      PROVE  RDone(m) \in [RSlots(m) -> States] /\ Taken(RDone(m)) = Taken(rslot[m]) \ RGone(m)
  BY <1>1, <1>3 DEF RDone, RGone
<1>4. ASSUME BHandshake(m)
      PROVE  BDone(m) \in [RSlots(m) -> States] /\ Taken(BDone(m)) = Taken(wslot[m]) \ BGone(m)
  <2>1. BDone(m) \in [RSlots(m) -> States]
    BY <1>1, <1>4 DEF BDone, States
  <2>2. \A i \in RSlots(m) : BDone(m)[i] = "busy" <=> wslot[m][i] = "busy" /\ i \notin BGone(m)
    BY <1>4 DEF BDone, BGone
  <2>3. QED
    BY <1>1, <2>1, <2>2, TakenAre
<1>5. ASSUME ~BHandshake(m)
      PROVE  BDone(m) \in [RSlots(m) -> States] /\ Taken(BDone(m)) = Taken(wslot[m]) \ BGone(m)
  BY <1>1, <1>5 DEF BDone, BGone
<1>6. /\ RDone(m) \in [RSlots(m) -> States] /\ Taken(RDone(m)) = Taken(rslot[m]) \ RGone(m)
  BY <1>2, <1>3
<1>7. /\ BDone(m) \in [RSlots(m) -> States] /\ Taken(BDone(m)) = Taken(wslot[m]) \ BGone(m)
  BY <1>4, <1>5
<1>8. QED
  BY <1>6, <1>7

LEMMA ReapedSlots ==
  ASSUME NEW m \in Masters, NEW s \in [RSlots(m) -> States]
  PROVE  Reaped(s) \in [RSlots(m) -> States] /\ Taken(Reaped(s)) = Taken(s)
<1>1. Reaped(s) = [i \in RSlots(m) |-> IF s[i] = "done" THEN "free" ELSE s[i]]
  BY DEF Reaped
<1>2. Reaped(s) \in [RSlots(m) -> States]
  BY <1>1 DEF States
<1>3. \A i \in RSlots(m) : Reaped(s)[i] = "busy" <=> s[i] = "busy"
  BY <1>1
<1>4. QED
  BY <1>2, <1>3, TakenAre

(***************************************************************************)
(* A call takes a free slot, or none for a burst and a locked read.        *)
(***************************************************************************)
LEMMA CallsAre ==
  ASSUME NEW m \in Masters, NEW op \in Tasks[m] \cup {"none"},
         NEW rs \in [RSlots(m) -> States], NEW ws \in [RSlots(m) -> States],
         NEW x, x = Begun(Called(op, rs, ws), rs, ws)
  PROVE  /\ ShapeOf(m, x.task, x.r, x.w)
         /\ x.task = Idle \/ x.task.phase = "pre"
         /\ Taken(x.r) \ Unread(x.task) = Taken(rs)
         /\ Taken(x.w) \ Unwritten(x.task) = Taken(ws)
<1> DEFINE t == Called(op, rs, ws)
<1>0. op \in Calls \cup {"none"} /\ (op \in Smoke => m = 0)
  <2>1. Tasks \in [Masters -> SUBSET Calls] /\ Tasks[1] \cap Smoke = {}
    BY FabricAssumption
  <2>2. CASE m = 0
    BY <2>1, <2>2
  <2>3. CASE m = 1
    BY <2>1, <2>3 DEF Smoke
  <2>4. QED
    BY <2>2, <2>3 DEF Masters
<1>1. FreeSlots(rs) \in SUBSET Nat /\ FreeSlots(ws) \in SUBSET Nat
  BY Sizes, TakenAre
<1>2. CASE op = "read" /\ FreeSlots(rs) # {}
  <2> DEFINE i == Lowest(FreeSlots(rs))
  <2>1. i \in RSlots(m) /\ rs[i] = "free" /\ i \in 0 .. 7
    BY <1>1, <1>2, LowestIsIn, TakenAre, Sizes
  <2>2. t = [op |-> "read", phase |-> "pre", slot |-> i, left |-> 1]
    BY <1>2 DEF Called, Smoke
  <2> HIDE DEF i, t
  <2>3. x.task = t /\ x.r = [rs EXCEPT ![i] = "busy"] /\ x.w = ws
    BY <2>2 DEF Begun, t
  <2>4. t \in TaskType /\ x.r[i] = "busy"
    BY <2>1, <2>2, <2>3, Sizes DEF TaskType, Calls, Phases
  <2>5. x.r \in [RSlots(m) -> States] /\ Taken(x.r) = Taken(rs) \cup {i} /\ i \notin Taken(rs)
    <3>1. x.r \in [RSlots(m) -> States]
      BY <2>1, <2>3 DEF States
    <3>2. \A j \in RSlots(m) : x.r[j] = IF j = i THEN "busy" ELSE rs[j]
      BY <2>1, <2>3
    <3>3. \A j : j \in Taken(x.r) <=> j \in Taken(rs) \/ j = i
      <4>1. /\ \A j : j \in Taken(x.r) <=> j \in RSlots(m) /\ x.r[j] = "busy"
            /\ \A j : j \in Taken(rs) <=> j \in RSlots(m) /\ rs[j] = "busy"
        BY <3>1, TakenAre
      <4>2. QED
        BY <2>1, <3>2, <4>1
    <3>4. i \notin Taken(rs)
      BY <2>1, TakenAre
    <3>5. QED
      BY <3>1, <3>3, <3>4
  <2>6. ShapeOf(m, t, x.r, x.w)
    BY <2>1, <2>2, <2>3, <2>4, <2>5 DEF ShapeOf, ReadShape, Smoke
  <2>7. t.op = "read" /\ t.phase = "pre" /\ t.slot = i
    BY <2>2
  <2>8. Unread(t) = {i} /\ Unwritten(t) = {}
    BY <2>7 DEF Unread, Unwritten
  <2>9. QED
    BY <2>3, <2>5, <2>6, <2>7, <2>8
<1>3. CASE op = "write" /\ FreeSlots(ws) # {}
  <2> DEFINE i == Lowest(FreeSlots(ws))
  <2>1. i \in RSlots(m) /\ ws[i] = "free" /\ i \in 0 .. 7
    BY <1>1, <1>3, LowestIsIn, TakenAre, Sizes
  <2>2. t = [op |-> "write", phase |-> "pre", slot |-> i, left |-> 1]
    BY <1>3 DEF Called, Smoke
  <2> HIDE DEF i, t
  <2>3. x.task = t /\ x.r = rs /\ x.w = [ws EXCEPT ![i] = "busy"]
    BY <2>2 DEF Begun, t
  <2>4. t \in TaskType /\ x.w[i] = "busy"
    BY <2>1, <2>2, <2>3, Sizes DEF TaskType, Calls, Phases
  <2>5. x.w \in [RSlots(m) -> States] /\ Taken(x.w) = Taken(ws) \cup {i} /\ i \notin Taken(ws)
    <3>1. x.w \in [RSlots(m) -> States]
      BY <2>1, <2>3 DEF States
    <3>2. \A j \in RSlots(m) : x.w[j] = IF j = i THEN "busy" ELSE ws[j]
      BY <2>1, <2>3
    <3>3. \A j : j \in Taken(x.w) <=> j \in Taken(ws) \/ j = i
      <4>1. /\ \A j : j \in Taken(x.w) <=> j \in RSlots(m) /\ x.w[j] = "busy"
            /\ \A j : j \in Taken(ws) <=> j \in RSlots(m) /\ ws[j] = "busy"
        BY <3>1, TakenAre
      <4>2. QED
        BY <2>1, <3>2, <4>1
    <3>4. i \notin Taken(ws)
      BY <2>1, TakenAre
    <3>5. QED
      BY <3>1, <3>3, <3>4
  <2>6. ShapeOf(m, t, x.r, x.w)
    BY <2>1, <2>2, <2>3, <2>4, <2>5 DEF ShapeOf, WriteShape, Smoke
  <2>7. t.op = "write" /\ t.phase = "pre" /\ t.slot = i
    BY <2>2
  <2>8. Unread(t) = {} /\ Unwritten(t) = {i}
    BY <2>7 DEF Unread, Unwritten
  <2>9. QED
    BY <2>3, <2>5, <2>6, <2>7, <2>8
<1>4. CASE op \in Smoke /\ Taken(rs) = {} /\ Taken(ws) = {}
  <2>1. t = [op |-> op, phase |-> "pre", slot |-> None, left |-> IF op = "locked" THEN 1 ELSE Beats]
    BY <1>4 DEF Called, Smoke
  <2> HIDE DEF t
  <2>2. x.task = t /\ x.r = rs /\ x.w = ws
    BY <1>4, <2>1 DEF Begun, t, Smoke
  <2>3. t \in TaskType
    BY <1>4, <2>1, Sizes DEF TaskType, Calls, Phases, Smoke
  <2>4. QED
    BY <1>0, <1>4, <2>1, <2>2, <2>3, Sizes
       DEF ShapeOf, LockedShape, BurstReadShape, BurstWriteShape, Unread, Unwritten, Smoke
<1>5. CASE ~(op = "read" /\ FreeSlots(rs) # {}) /\ ~(op = "write" /\ FreeSlots(ws) # {})
             /\ ~(op \in Smoke /\ Taken(rs) = {} /\ Taken(ws) = {})
  <2>1. t = Idle
    BY <1>5 DEF Called
  <2>2. x.task = Idle /\ x.r = rs /\ x.w = ws
    BY <2>1 DEF Begun, Idle
  <2>3. QED
    BY <2>2 DEF ShapeOf, TaskType, Unread, Unwritten, Idle, Smoke
<1>6. QED
  BY <1>2, <1>3, <1>4, <1>5

-----------------------------------------------------------------------------
(***************************************************************************)
(* What an edge does to a master: its task goes on, or returns and the     *)
(* caller may call the next.                                               *)
(***************************************************************************)
Proceeds(m) ==
  /\ Proceed(m) # Idle
  /\ task'[m] = Proceed(m) /\ rslot'[m] = RDone(m) /\ wslot'[m] = BDone(m)

Returns(m) ==
  /\ Proceed(m) = Idle
  /\ Shape(m)'
  /\ task'[m] = Idle \/ task'[m].phase = "pre"
  /\ Reading(m)' = Taken(rslot[m]) \ RGone(m)
  /\ Writing(m)' = Taken(wslot[m]) \ BGone(m)

LEMMA MasterMoves ==
  ASSUME NEW m \in Masters, Shape(m), MasterEdge
  PROVE  Proceeds(m) \/ Returns(m)
<1>1. PICK x \in Moves(m) : task'[m] = x.task /\ rslot'[m] = x.r /\ wslot'[m] = x.w
  BY DEF MasterEdge, Both, Masters
<1>2. CASE Proceed(m) # Idle
  BY <1>1, <1>2 DEF Moves, Proceeds
<1>3. CASE Proceed(m) = Idle
  <2>1. PICK op \in Tasks[m] \cup {"none"},
             s \in {[r |-> RDone(m), w |-> BDone(m)], [r |-> Reaped(RDone(m)), w |-> Reaped(BDone(m))]} :
          x = Begun(Called(op, s.r, s.w), s.r, s.w)
    BY <1>1, <1>3 DEF Moves
  <2>2. /\ s.r \in [RSlots(m) -> States] /\ Taken(s.r) = Taken(rslot[m]) \ RGone(m)
        /\ s.w \in [RSlots(m) -> States] /\ Taken(s.w) = Taken(wslot[m]) \ BGone(m)
    BY SlotsDone, ReapedSlots
  <2>3. /\ ShapeOf(m, x.task, x.r, x.w)
        /\ x.task = Idle \/ x.task.phase = "pre"
        /\ Taken(x.r) \ Unread(x.task) = Taken(s.r)
        /\ Taken(x.w) \ Unwritten(x.task) = Taken(s.w)
    BY <2>1, <2>2, CallsAre
  <2>4. QED
    BY <1>1, <1>3, <2>2, <2>3 DEF Returns, Shape, Reading, Writing
<1>4. QED
  BY <1>2, <1>3

LEMMA ReadyMoves ==
  ASSUME NEW m \in Masters, MasterEdge
  PROVE  /\ rready'[m] \in {NeedsR(m, task[m]), NeedsR(m, task'[m])}
         /\ bready'[m] \in {NeedsB(m, task[m]), NeedsB(m, task'[m])}
<1>1. PICK x \in Moves(0), y \in Moves(1) :
        /\ task' = Both(x.task, y.task)
        /\ \E a \in RReadyNext(0, x.task), b \in RReadyNext(1, y.task) : rready' = Both(a, b)
        /\ \E a \in BReadyNext(0, x.task), b \in BReadyNext(1, y.task) : bready' = Both(a, b)
  BY DEF MasterEdge
<1>2. task'[0] = x.task /\ task'[1] = y.task
  BY <1>1 DEF Both, Masters
<1>3. /\ rready'[0] \in RReadyNext(0, x.task) /\ rready'[1] \in RReadyNext(1, y.task)
      /\ bready'[0] \in BReadyNext(0, x.task) /\ bready'[1] \in BReadyNext(1, y.task)
  BY <1>1 DEF Both, Masters
<1>4. QED
  BY <1>2, <1>3 DEF RReadyNext, BReadyNext, Masters

(***************************************************************************)
(* A burst or a locked read waits for beats; a write sends its data; a     *)
(* burst write waits for the response; a locked read holds the lock.       *)
(***************************************************************************)
Bursting(t) == t.op \in {"locked", "burst_read"} /\ t.left > 0 /\ t.phase \in {"beat_r", "gap_r"}
Sends(t) == t.phase \in {"w", "beat_w"} \/ (t.phase = "gap_w" /\ t.left > 0)
Ending(t) == t.op = "burst_write" /\ (t.phase = "resp" \/ (t.phase = "gap_w" /\ t.left = 0))
Holds(t) == t.op = "locked" /\ t.phase = "beat_r"

WTaken(m) == WReady(m) /\ WValid(m)

\* What an edge does to the accesses of a master.
AccessesMove(m) ==
  /\ Shape(m)'
  /\ Reading(m)' = (Reading(m) \ RGone(m)) \cup (IF ArHandshake(m) THEN Unread(task[m]) ELSE {})
  /\ Writing(m)' = (Writing(m) \ BGone(m)) \cup (IF WTaken(m) THEN Unwritten(task[m]) ELSE {})

\* What it does to a burst or a locked read.
BurstMoves(m) ==
  LET t == task[m]
      u == task'[m]
  IN /\ Bursting(u) <=> \/ Bursting(t) /\ ~(RHandshake(m) /\ t.left = 1)
                        \/ ArHandshake(m) /\ t.op \in {"locked", "burst_read"}
     /\ Bursting(u) => u.left = t.left - Count(RHandshake(m) /\ Bursting(t))
     /\ Holds(u) <=> (Holds(t) /\ ~RHandshake(m)) \/ (ArHandshake(m) /\ t.op = "locked")
     /\ u.phase = "gap_r" => RHandshake(m)

\* What it does to a write.
WriteMoves(m) ==
  LET t == task[m]
      u == task'[m]
  IN /\ Sends(u) <=> (Sends(t) /\ ~(WTaken(m) /\ t.left = 1)) \/ AwHandshake(m)
     /\ Sends(u) => u.op = t.op /\ u.slot = t.slot /\ u.left <= t.left
     /\ Ending(u) <=> \/ WTaken(m) /\ t.left = 1 /\ t.op = "burst_write"
                      \/ Ending(t) /\ ~(t.phase = "resp" /\ BValid(m))
     /\ u.phase = "post_b" <=> t.phase = "resp" /\ BValid(m)
     /\ u.phase \in {"aw", "gap_w", "beat_w"} =>
          t.op = "burst_write" /\ t.phase \in {"pre", "aw", "gap_w", "beat_w"}

Moved(m) == AccessesMove(m) /\ BurstMoves(m) /\ WriteMoves(m)

\* What a task needs to know of the fabric it talks to.
Expects(m) ==
  /\ task[m].phase = "aw_w" => m \notin latched
  /\ task[m].phase = "gap_r" => ~RHandshake(m)
  /\ RGone(m) \subseteq Reading(m) /\ BGone(m) \subseteq Writing(m)

\* the phases of a read and of a write
ReadPhase(t) == t.phase \in {"pre", "ar", "post"} /\ t.left = 1
WritePhase(t) == t.phase \in {"pre", "aw_w", "w", "post"} /\ t.left = 1

LEMMA SlotsMove ==
  ASSUME NEW m \in Masters, Shape(m), Expects(m), Proceeds(m),
         task'[m] \in TaskType, task'[m].op = task[m].op, task'[m].slot = task[m].slot,
         Unread(task'[m]) = IF ArHandshake(m) THEN {} ELSE Unread(task[m]),
         Unwritten(task'[m]) = IF WTaken(m) THEN {} ELSE Unwritten(task[m]),
         task[m].op = "read" => ReadPhase(task'[m]),
         task[m].op = "write" => WritePhase(task'[m]),
         task[m].op = "locked" => LockedShape(task'[m]),
         task[m].op = "burst_read" => BurstReadShape(task'[m]),
         task[m].op = "burst_write" => BurstWriteShape(task'[m])
  PROVE  AccessesMove(m)
<1> DEFINE t == task[m]
           u == task'[m]
<1>1. /\ rslot'[m] \in [RSlots(m) -> States] /\ Taken(rslot'[m]) = Taken(rslot[m]) \ RGone(m)
      /\ wslot'[m] \in [RSlots(m) -> States] /\ Taken(wslot'[m]) = Taken(wslot[m]) \ BGone(m)
  BY SlotsDone DEF Proceeds
<1>2. rslot[m] \in [RSlots(m) -> States] /\ wslot[m] \in [RSlots(m) -> States]
  BY DEF Shape, ShapeOf
<1>3. Unread(t) \subseteq Taken(rslot[m]) /\ Unwritten(t) \subseteq Taken(wslot[m])
  BY <1>2, TakenAre DEF Shape, ShapeOf, ReadShape, WriteShape, Unread, Unwritten
<1>4. Unread(t) \cap RGone(m) = {} /\ Unwritten(t) \cap BGone(m) = {}
  BY DEF Expects, Reading, Writing
<1>5. Unread(t) \subseteq Taken(rslot'[m]) /\ Unwritten(t) \subseteq Taken(wslot'[m])
  BY <1>1, <1>3, <1>4
<1>6. Shape(m)'
  <2>1. t.op = "read" => t.slot \in RSlots(m) /\ (u.phase # "post" => rslot'[m][t.slot] = "busy")
    <3>1. CASE t.op = "read" /\ u.phase # "post"
      <4>1. u.slot \in Unread(u)
        BY <3>1 DEF Unread, ReadPhase
      <4>2. t.slot \in Taken(rslot'[m])
        BY <1>5, <4>1
      <4>3. QED
        BY <3>1, <4>2, <1>1, TakenAre
    <3>2. QED
      BY <3>1 DEF Shape, ShapeOf, ReadShape
  <2>2. t.op = "write" => t.slot \in RSlots(m) /\ (u.phase # "post" => wslot'[m][t.slot] = "busy")
    <3>1. CASE t.op = "write" /\ u.phase # "post"
      <4>1. u.slot \in Unwritten(u)
        BY <3>1 DEF Unwritten
      <4>2. t.slot \in Taken(wslot'[m])
        BY <1>5, <4>1
      <4>3. QED
        BY <3>1, <4>2, <1>1, TakenAre
    <3>2. QED
      BY <3>1 DEF Shape, ShapeOf, WriteShape
  <2>3. t.op \in Smoke => m = 0 /\ Taken(rslot'[m]) = {} /\ Taken(wslot'[m]) = {}
    BY <1>1 DEF Shape, ShapeOf
  <2> HIDE DEF t, u
  <2>4. ShapeOf(m, u, rslot'[m], wslot'[m])
    BY <1>1, <2>1, <2>2, <2>3 DEF ShapeOf, ReadShape, WriteShape, ReadPhase, WritePhase, t, u
  <2>5. QED
    BY <2>4 DEF Shape, u
<1>7. Reading(m)' = (Reading(m) \ RGone(m)) \cup (IF ArHandshake(m) THEN Unread(t) ELSE {})
  <2>1. Reading(m)' = (Taken(rslot[m]) \ RGone(m)) \ Unread(u)
    BY <1>1 DEF Reading
  <2>2. QED
    BY <1>3, <1>4, <2>1 DEF Reading
<1>8. Writing(m)' = (Writing(m) \ BGone(m)) \cup (IF WTaken(m) THEN Unwritten(t) ELSE {})
  <2>1. Writing(m)' = (Taken(wslot[m]) \ BGone(m)) \ Unwritten(u)
    BY <1>1 DEF Writing
  <2>2. QED
    BY <1>3, <1>4, <2>1 DEF Writing
<1>9. QED
  BY <1>6, <1>7, <1>8 DEF AccessesMove

LEMMA ReadTaskMoves ==
  ASSUME NEW m \in Masters, Shape(m), Expects(m), Proceeds(m), task[m].op = "read"
  PROVE  Moved(m)
<1> DEFINE t == task[m]
           u == task'[m]
<1>1. t \in TaskType /\ t # Idle /\ ReadShape(m, t, rslot[m])
  BY DEF Shape, ShapeOf, Idle
<1>2. u = IF t.phase = "pre" THEN To(m, "ar") ELSE IF ArHandshake(m) THEN To(m, "post") ELSE t
  BY ReadGoes, <1>1 DEF Proceeds, ReadShape
<1>3. ArHandshake(m) => t.phase = "ar"
  BY DEF ArHandshake, ArPick, ArValid
<1>4. ~WTaken(m) /\ ~AwHandshake(m)
  BY <1>1 DEF WTaken, WValid, AwHandshake, AwPick, AwValid, ReadShape
<1>5. u \in TaskType /\ u.op = "read" /\ u.slot = t.slot /\ ReadPhase(u)
  BY <1>1, <1>2 DEF TaskType, Idle, Phases, To, ReadShape, ReadPhase
<1>6. t.phase \in {"pre", "ar"} /\ u.phase = IF ArHandshake(m) THEN "post" ELSE "ar"
  <2>1. t.phase \in {"pre", "ar"}
    BY <1>1, ReadGoes DEF Proceeds, ReadShape
  <2>2. QED
    BY <1>1, <1>2, <1>3, <2>1 DEF TaskType, Idle, To
<1>7. AccessesMove(m)
  <2>1. Unread(u) = IF ArHandshake(m) THEN {} ELSE Unread(t)
    BY <1>1, <1>5, <1>6 DEF Unread
  <2>2. Unwritten(u) = IF WTaken(m) THEN {} ELSE Unwritten(t)
    BY <1>1, <1>5, <1>4 DEF Unwritten
  <2>3. QED
    BY <1>1, <1>5, <2>1, <2>2, SlotsMove
<1>8. BurstMoves(m)
  BY <1>1, <1>5, <1>6 DEF BurstMoves, Bursting, Holds
<1>9. WriteMoves(m)
  BY <1>1, <1>4, <1>5, <1>6 DEF WriteMoves, Sends, Ending, ReadShape
<1>10. QED
  BY <1>7, <1>8, <1>9 DEF Moved

LEMMA WriteTaskMoves ==
  ASSUME NEW m \in Masters, Shape(m), Expects(m), Proceeds(m), task[m].op = "write"
  PROVE  Moved(m)
<1> DEFINE t == task[m]
           u == task'[m]
<1>1. t \in TaskType /\ t # Idle /\ WriteShape(m, t, wslot[m]) /\ (t.phase = "aw_w" => m \notin latched)
  BY DEF Shape, ShapeOf, Idle, Expects
<1>2. t.phase \in {"pre", "aw_w", "w"}
  BY <1>1, WriteGoes DEF Proceeds, WriteShape
<1>3. u = CASE t.phase = "pre" -> To(m, "aw_w")
            [] t.phase = "aw_w" -> IF AwHandshake(m) THEN To(m, "w") ELSE To(m, "aw_w")
            [] t.phase = "w" -> IF WReady(m) THEN To(m, "post") ELSE t
  BY <1>1, <1>2, WriteGoes DEF Proceeds
<1>4. (AwHandshake(m) => t.phase = "aw_w") /\ ~ArHandshake(m)
  BY <1>2 DEF AwHandshake, AwPick, AwValid, ArHandshake, ArPick, ArValid
<1>5. WTaken(m) <=> t.phase = "w" /\ WReady(m)
  BY <1>1, <1>2 DEF WTaken, WValid, WReady
<1>6. u \in TaskType /\ u.op = "write" /\ u.slot = t.slot /\ WritePhase(u)
  BY <1>1, <1>2, <1>3 DEF TaskType, Idle, Phases, To, WriteShape, WritePhase
<1>7. u.phase = IF WTaken(m) THEN "post" ELSE IF t.phase = "w" \/ AwHandshake(m) THEN "w" ELSE "aw_w"
  BY <1>1, <1>2, <1>3, <1>4, <1>5 DEF TaskType, Idle, To
<1>8. AccessesMove(m)
  <2>1. Unread(u) = IF ArHandshake(m) THEN {} ELSE Unread(t)
    BY <1>4, <1>6 DEF Unread
  <2>2. Unwritten(u) = IF WTaken(m) THEN {} ELSE Unwritten(t)
    BY <1>2, <1>6, <1>7 DEF Unwritten
  <2>3. QED
    BY <1>1, <1>6, <2>1, <2>2, SlotsMove
<1>9. BurstMoves(m)
  BY <1>1, <1>4, <1>6, <1>7 DEF BurstMoves, Bursting, Holds
<1>10. WriteMoves(m)
  <2>1. t.left = 1 /\ u.left = 1
    BY <1>1, <1>6 DEF WriteShape, WritePhase
  <2>2. QED
    BY <2>1, <1>2, <1>4, <1>5, <1>6, <1>7 DEF WriteMoves, Sends, Ending
<1>11. QED
  BY <1>8, <1>9, <1>10 DEF Moved

LEMMA LockedTaskMoves ==
  ASSUME NEW m \in Masters, Shape(m), Expects(m), Proceeds(m), task[m].op = "locked"
  PROVE  Moved(m)
<1> DEFINE t == task[m]
           u == task'[m]
<1>1. t \in TaskType /\ t # Idle /\ LockedShape(t)
  BY DEF Shape, ShapeOf, Idle
<1>2. t.phase \in {"pre", "ar", "beat_r"}
  BY <1>1, LockedGoes DEF Proceeds, LockedShape
<1>3. u = CASE t.phase = "pre" -> To(m, "ar")
            [] t.phase = "ar" -> IF ArHandshake(m) THEN To(m, "beat_r") ELSE t
            [] t.phase = "beat_r" -> IF RHandshake(m) THEN To(m, "post_r") ELSE t
  BY <1>1, <1>2, LockedGoes DEF Proceeds
<1>4. (ArHandshake(m) => t.phase = "ar") /\ ~AwHandshake(m) /\ ~WTaken(m)
  BY <1>2 DEF AwHandshake, AwPick, AwValid, ArHandshake, ArPick, ArValid, WTaken, WValid
<1>5. u \in TaskType /\ u.op = "locked" /\ u.slot = t.slot /\ LockedShape(u)
  BY <1>1, <1>2, <1>3 DEF TaskType, Idle, Phases, To, LockedShape
<1>6. u.phase = IF t.phase = "beat_r" THEN (IF RHandshake(m) THEN "post_r" ELSE "beat_r")
                ELSE IF ArHandshake(m) THEN "beat_r" ELSE "ar"
  BY <1>1, <1>2, <1>3, <1>4 DEF TaskType, Idle, To
<1>7. AccessesMove(m)
  <2>1. /\ Unread(u) = IF ArHandshake(m) THEN {} ELSE Unread(t)
        /\ Unwritten(u) = IF WTaken(m) THEN {} ELSE Unwritten(t)
    BY <1>4, <1>5 DEF Unread, Unwritten
  <2>2. QED
    BY <1>1, <1>5, <2>1, SlotsMove
<1>8. BurstMoves(m)
  <2>1. t.left = 1 /\ u.left = 1
    BY <1>1, <1>5 DEF LockedShape
  <2>2. /\ Bursting(t) <=> t.phase = "beat_r"
        /\ Bursting(u) <=> u.phase = "beat_r"
        /\ Holds(t) <=> t.phase = "beat_r"
        /\ Holds(u) <=> u.phase = "beat_r"
    BY <1>2, <1>5, <2>1, <1>6 DEF Bursting, Holds
  <2>3. u.phase = "beat_r" <=> (t.phase = "beat_r" /\ ~RHandshake(m)) \/ ArHandshake(m)
    BY <1>2, <1>4, <1>6
  <2>4. u.phase = "beat_r" => ~(RHandshake(m) /\ Bursting(t))
    BY <1>2, <1>4, <1>6, <2>2
  <2>5. Bursting(u) => u.left = t.left - Count(RHandshake(m) /\ Bursting(t))
    BY <2>1, <2>2, <2>4 DEF Count
  <2>6. u.phase # "gap_r"
    BY <1>6
  <2>7. QED
    BY <1>5, <2>1, <2>2, <2>3, <2>5, <2>6 DEF BurstMoves
<1>9. WriteMoves(m)
  BY <1>2, <1>4, <1>5, <1>6 DEF WriteMoves, Sends, Ending
<1>10. QED
  BY <1>7, <1>8, <1>9 DEF Moved

LEMMA BeatsGo ==
  ASSUME NEW t \in [op : Calls, phase : Phases, slot : {None} \cup 0 .. 7, left : 0 .. Beats + 1],
         NEW p \in Phases, t.left > 0, NEW u, u = [[t EXCEPT !.phase = p] EXCEPT !.left = @ - 1]
  PROVE  /\ u \in [op : Calls, phase : Phases, slot : {None} \cup 0 .. 7, left : 0 .. Beats + 1]
         /\ u.op = t.op /\ u.slot = t.slot /\ u.left = t.left - 1
<1>1. u = [op |-> t.op, phase |-> p, slot |-> t.slot, left |-> t.left - 1]
  OBVIOUS
<1>2. t.left - 1 \in 0 .. Beats + 1
  BY Sizes
<1>3. QED
  BY <1>1, <1>2

LEMMA BurstReadTaskMoves ==
  ASSUME NEW m \in Masters, Shape(m), Expects(m), Proceeds(m), task[m].op = "burst_read"
  PROVE  Moved(m)
<1> DEFINE t == task[m]
           u == task'[m]
           d == IF t.phase = "beat_r" /\ RHandshake(m) THEN 1 ELSE 0
<1>1. t \in TaskType /\ t # Idle /\ BurstReadShape(t) /\ (t.phase = "gap_r" => ~RHandshake(m))
  BY DEF Shape, ShapeOf, Idle, Expects
<1>2. t.phase \in {"pre", "ar", "beat_r", "gap_r"} /\ t.left \in 1 .. Beats
  BY <1>1, BurstReadGoes, Sizes DEF Proceeds, BurstReadShape
<1>3. u = CASE t.phase = "pre" -> To(m, "ar")
            [] t.phase = "ar" -> IF ArHandshake(m) THEN To(m, "beat_r") ELSE t
            [] t.phase = "beat_r" -> IF RHandshake(m) THEN [To(m, "gap_r") EXCEPT !.left = @ - 1] ELSE t
            [] t.phase = "gap_r" -> To(m, "beat_r")
  BY <1>1, <1>2, BurstReadGoes DEF Proceeds
<1>4. (ArHandshake(m) => t.phase = "ar") /\ ~AwHandshake(m) /\ ~WTaken(m)
  BY <1>2 DEF AwHandshake, AwPick, AwValid, ArHandshake, ArPick, ArValid, WTaken, WValid
<1>5. t \in [op : Calls, phase : Phases, slot : {None} \cup 0 .. 7, left : 0 .. Beats + 1]
  BY <1>1 DEF TaskType
<1>6. /\ u \in [op : Calls, phase : Phases, slot : {None} \cup 0 .. 7, left : 0 .. Beats + 1]
      /\ u.op = "burst_read" /\ u.slot = t.slot /\ u.left = t.left - d
  <2>1. CASE t.phase = "beat_r" /\ RHandshake(m)
    <3>1. u = [[t EXCEPT !.phase = "gap_r"] EXCEPT !.left = @ - 1] /\ t.left > 0
      BY <1>2, <1>3, <1>5, <2>1 DEF To
    <3>2. QED
      BY <2>1, <3>1, <1>5, BeatsGo, Sizes DEF Phases
  <2>2. CASE ~(t.phase = "beat_r" /\ RHandshake(m))
    <3>1. PICK p \in Phases : u = [t EXCEPT !.phase = p]
      BY <1>2, <1>3, <1>5, <2>2 DEF To, Phases
    <3>2. QED
      BY <2>2, <3>1, <1>5
  <2>3. QED
    BY <2>1, <2>2
<1>7. u.phase = CASE t.phase = "pre" -> "ar"
                  [] t.phase = "ar" -> IF ArHandshake(m) THEN "beat_r" ELSE "ar"
                  [] t.phase = "beat_r" -> IF RHandshake(m) THEN "gap_r" ELSE "beat_r"
                  [] t.phase = "gap_r" -> "beat_r"
  BY <1>2, <1>3, <1>5 DEF To
<1>8. u \in TaskType /\ BurstReadShape(u)
  <2>1. u.phase \in {"ar", "beat_r", "gap_r"} /\ (u.phase # "gap_r" => d = 0)
    BY <1>2, <1>7
  <2>2. QED
    BY <1>2, <1>6, <2>1, Sizes DEF TaskType, BurstReadShape
<1>9. AccessesMove(m)
  <2>1. /\ Unread(u) = IF ArHandshake(m) THEN {} ELSE Unread(t)
        /\ Unwritten(u) = IF WTaken(m) THEN {} ELSE Unwritten(t)
    BY <1>4, <1>6 DEF Unread, Unwritten
  <2>2. QED
    BY <1>1, <1>6, <1>8, <2>1, SlotsMove
<1>10. BurstMoves(m)
  <2>1. /\ Bursting(t) <=> t.phase \in {"beat_r", "gap_r"}
        /\ ~Holds(t) /\ ~Holds(u)
    BY <1>2, <1>6 DEF Bursting, Holds
  <2>2. Bursting(u) <=> u.phase \in {"beat_r", "gap_r"} /\ t.left - d > 0
    BY <1>6 DEF Bursting
  <2>3. RHandshake(m) /\ Bursting(t) <=> d = 1
    BY <1>1, <1>2, <2>1
  <2>4. u.phase \in {"beat_r", "gap_r"} <=> t.phase \in {"beat_r", "gap_r"} \/ ArHandshake(m)
    BY <1>2, <1>4, <1>7
  <2>5. Bursting(u) <=> (Bursting(t) /\ ~(RHandshake(m) /\ t.left = 1)) \/ ArHandshake(m)
    <3>1. CASE d = 1
      BY <3>1, <1>2, <1>4, <2>1, <2>2, <2>3, <2>4
    <3>2. CASE d # 1
      BY <3>2, <1>2, <1>4, <2>1, <2>2, <2>3, <2>4
    <3>3. QED
      BY <3>1, <3>2
  <2>6. d = Count(RHandshake(m) /\ Bursting(t))
    BY <2>3 DEF Count
  <2>7. u.phase = "gap_r" => RHandshake(m)
    BY <1>2, <1>7
  <2>8. QED
    BY <1>4, <1>6, <2>1, <2>5, <2>6, <2>7 DEF BurstMoves
<1>11. WriteMoves(m)
  BY <1>2, <1>4, <1>6, <1>7 DEF WriteMoves, Sends, Ending
<1>12. QED
  BY <1>9, <1>10, <1>11 DEF Moved

LEMMA BurstWriteTaskMoves ==
  ASSUME NEW m \in Masters, Shape(m), Expects(m), Proceeds(m), task[m].op = "burst_write"
  PROVE  Moved(m)
<1> DEFINE t == task[m]
           u == task'[m]
           d == IF t.phase = "beat_w" /\ WReady(m) THEN 1 ELSE 0
<1>1. t \in TaskType /\ t # Idle /\ BurstWriteShape(t)
  BY DEF Shape, ShapeOf, Idle
<1>2. t.phase \in {"pre", "aw", "gap_w", "beat_w", "resp"} /\ t.left \in 0 .. Beats
  BY <1>1, BurstWriteGoes, Sizes DEF Proceeds, BurstWriteShape
<1>3. u = CASE t.phase = "pre" -> To(m, "aw")
            [] t.phase = "aw" -> IF AwHandshake(m) THEN To(m, "gap_w") ELSE t
            [] t.phase = "gap_w" -> To(m, IF t.left = 0 THEN "resp" ELSE "beat_w")
            [] t.phase = "beat_w" -> IF WReady(m) THEN [To(m, "gap_w") EXCEPT !.left = @ - 1] ELSE t
            [] t.phase = "resp" -> IF BValid(m) THEN To(m, "post_b") ELSE t
  BY <1>1, <1>2, BurstWriteGoes DEF Proceeds
<1>4. (AwHandshake(m) => t.phase = "aw") /\ ~ArHandshake(m)
  BY <1>2 DEF AwHandshake, AwPick, AwValid, ArHandshake, ArPick, ArValid
<1>5. WTaken(m) <=> d = 1
  BY <1>2 DEF WTaken, WValid
<1>6. t \in [op : Calls, phase : Phases, slot : {None} \cup 0 .. 7, left : 0 .. Beats + 1]
  BY <1>1 DEF TaskType
<1>7. t.phase \in {"pre", "aw", "beat_w"} => t.left # 0
  BY <1>1 DEF BurstWriteShape
<1>8. t.phase = "resp" => t.left = 0
  BY <1>1 DEF BurstWriteShape
<1>9. /\ u \in [op : Calls, phase : Phases, slot : {None} \cup 0 .. 7, left : 0 .. Beats + 1]
      /\ u.op = "burst_write" /\ u.slot = t.slot /\ u.left = t.left - d
  <2>1. CASE t.phase = "beat_w" /\ WReady(m)
    <3>1. u = [[t EXCEPT !.phase = "gap_w"] EXCEPT !.left = @ - 1] /\ t.left > 0
      BY <1>2, <1>3, <1>6, <1>7, <2>1 DEF To
    <3>2. QED
      BY <2>1, <3>1, <1>6, BeatsGo, Sizes DEF Phases
  <2>2. CASE ~(t.phase = "beat_w" /\ WReady(m))
    <3>1. PICK p \in Phases : u = [t EXCEPT !.phase = p]
      BY <1>2, <1>3, <1>6, <1>7, <2>2 DEF To, Phases
    <3>2. QED
      BY <2>2, <3>1, <1>6
  <2>3. QED
    BY <2>1, <2>2
<1>10. u.phase = CASE t.phase = "pre" -> "aw"
                   [] t.phase = "aw" -> IF AwHandshake(m) THEN "gap_w" ELSE "aw"
                   [] t.phase = "gap_w" -> IF t.left = 0 THEN "resp" ELSE "beat_w"
                   [] t.phase = "beat_w" -> IF WReady(m) THEN "gap_w" ELSE "beat_w"
                   [] t.phase = "resp" -> IF BValid(m) THEN "post_b" ELSE "resp"
  BY <1>2, <1>3, <1>6 DEF To
<1>11. u \in TaskType /\ BurstWriteShape(u)
  <2>1. /\ u.phase \in {"aw", "gap_w", "beat_w", "resp", "post_b"}
        /\ u.phase \in {"aw", "beat_w"} => d = 0 /\ t.left # 0
        /\ u.phase \in {"resp", "post_b"} => d = 0 /\ t.left = 0
    BY <1>2, <1>7, <1>8, <1>10
  <2>2. u.left \in 0 .. Beats
    BY <1>2, <1>7, <1>9, Sizes
  <2>3. QED
    BY <1>2, <1>9, <2>1, <2>2 DEF TaskType, BurstWriteShape
<1>12. AccessesMove(m)
  <2>1. /\ Unread(u) = IF ArHandshake(m) THEN {} ELSE Unread(t)
        /\ Unwritten(u) = IF WTaken(m) THEN {} ELSE Unwritten(t)
    BY <1>4, <1>9, <1>2 DEF Unread, Unwritten
  <2>2. QED
    BY <1>1, <1>9, <1>11, <2>1, SlotsMove
<1>13. BurstMoves(m)
  BY <1>2, <1>4, <1>9, <1>10 DEF BurstMoves, Bursting, Holds
<1>14. WriteMoves(m)
  <2>1. /\ Sends(t) <=> t.phase = "beat_w" \/ (t.phase = "gap_w" /\ t.left > 0)
        /\ Sends(u) <=> u.phase = "beat_w" \/ (u.phase = "gap_w" /\ t.left - d > 0)
        /\ Ending(t) <=> t.phase = "resp" \/ (t.phase = "gap_w" /\ t.left = 0)
        /\ Ending(u) <=> u.phase = "resp" \/ (u.phase = "gap_w" /\ t.left - d = 0)
    BY <1>2, <1>9, <1>10 DEF Sends, Ending
  <2>2. /\ Sends(u) <=> (Sends(t) /\ ~(d = 1 /\ t.left = 1)) \/ AwHandshake(m)
        /\ Ending(u) <=> (d = 1 /\ t.left = 1) \/ (Ending(t) /\ ~(t.phase = "resp" /\ BValid(m)))
    BY <1>2, <1>4, <1>7, <1>10, <2>1
  <2>3. /\ u.left <= t.left
        /\ u.phase = "post_b" <=> t.phase = "resp" /\ BValid(m)
        /\ u.phase \in {"aw", "gap_w", "beat_w"} => t.phase \in {"pre", "aw", "gap_w", "beat_w"}
    BY <1>2, <1>9, <1>10
  <2>4. QED
    BY <1>5, <1>9, <2>2, <2>3 DEF WriteMoves
<1>15. QED
  BY <1>12, <1>13, <1>14 DEF Moved

LEMMA ReturnMoves ==
  ASSUME NEW m \in Masters, Shape(m), Expects(m), Returns(m)
  PROVE  Moved(m)
<1> DEFINE t == task[m]
           u == task'[m]
<1>1. \/ t = Idle
      \/ t.op = "read" /\ t.phase = "post"
      \/ t.op = "write" /\ t.phase = "post"
      \/ t.op = "locked" /\ t.phase = "post_r"
      \/ t.op = "burst_read" /\ t.phase = "gap_r" /\ t.left = 0
      \/ t.op = "burst_write" /\ t.phase = "post_b"
  <2>0. t \in TaskType /\ Proceed(m) = Idle
    BY DEF Shape, ShapeOf, Returns
  <2>1. t # Idle => t \in [op : Calls, phase : Phases, slot : {None} \cup 0 .. 7, left : 0 .. Beats + 1]
    BY <2>0 DEF TaskType
  <2>2. t.op \in Calls => t # Idle /\ \A p : To(m, p) # Idle /\ [To(m, p) EXCEPT !.left = @ - 1] # Idle
    <3>1. ASSUME t.op \in Calls, NEW p PROVE To(m, p) # Idle /\ [To(m, p) EXCEPT !.left = @ - 1] # Idle
      <4>1. To(m, p).op = t.op /\ [To(m, p) EXCEPT !.left = @ - 1].op = t.op
        BY <2>1, <3>1 DEF To, Idle, Calls
      <4>2. QED
        BY <3>1, <4>1 DEF Idle, Calls
    <3>2. t = Idle => t.op \notin Calls
      BY DEF Idle, Calls
    <3>3. QED
      BY <3>1, <3>2
  <2>3. CASE t.op = "read"
    BY <2>0, <2>2, <2>3, ReadGoes DEF Shape, ShapeOf, ReadShape, Calls
  <2>4. CASE t.op = "write"
    BY <2>0, <2>2, <2>4, WriteGoes DEF Shape, ShapeOf, WriteShape, Calls, Expects
  <2>5. CASE t.op = "locked"
    BY <2>0, <2>2, <2>5, LockedGoes DEF Shape, ShapeOf, LockedShape, Calls
  <2>6. CASE t.op = "burst_read"
    BY <2>0, <2>2, <2>6, BurstReadGoes DEF Shape, ShapeOf, BurstReadShape, Calls
  <2>7. CASE t.op = "burst_write"
    BY <2>0, <2>2, <2>7, BurstWriteGoes DEF Shape, ShapeOf, BurstWriteShape, Calls
  <2>8. QED
    BY <2>1, <2>3, <2>4, <2>5, <2>6, <2>7 DEF Calls
<1>2. u = Idle \/ u.phase = "pre"
  BY DEF Returns
<1>3. Unread(t) = {} /\ Unwritten(t) = {}
  BY <1>1 DEF Unread, Unwritten, Idle
<1>4. ~ArHandshake(m) /\ ~AwHandshake(m) /\ ~WTaken(m)
  BY <1>1 DEF Idle, AwHandshake, AwPick, AwValid, ArHandshake, ArPick, ArValid, WTaken, WValid
<1>5. ~Bursting(t) /\ ~Sends(t) /\ ~Ending(t) /\ ~Holds(t)
  BY <1>1 DEF Bursting, Sends, Ending, Holds, Idle
<1>6. /\ ~Bursting(u) /\ ~Sends(u) /\ ~Ending(u) /\ ~Holds(u) /\ t.phase # "resp"
      /\ u.phase \notin {"gap_r", "post_b", "aw", "gap_w", "beat_w"}
  BY <1>1, <1>2 DEF Bursting, Sends, Ending, Holds, Idle
<1>7. AccessesMove(m)
  BY <1>3, <1>4 DEF AccessesMove, Returns, Reading, Writing
<1>8. BurstMoves(m)
  BY <1>4, <1>5, <1>6 DEF BurstMoves
<1>9. WriteMoves(m)
  BY <1>4, <1>5, <1>6 DEF WriteMoves
<1>10. QED
  BY <1>7, <1>8, <1>9 DEF Moved

LEMMA MasterStep ==
  ASSUME NEW m \in Masters, Shape(m), Expects(m), MasterEdge
  PROVE  Moved(m)
<1>1. CASE Returns(m)
  BY <1>1, ReturnMoves
<1>2. CASE Proceeds(m)
  <2>1. task[m] # Idle
    BY <1>2, IdleGoes DEF Proceeds
  <2>2. task[m].op \in Calls
    BY <2>1 DEF Shape, ShapeOf, TaskType
  <2>3. QED
    BY <1>2, <2>2, ReadTaskMoves, WriteTaskMoves, LockedTaskMoves, BurstReadTaskMoves, BurstWriteTaskMoves DEF Calls
<1>3. QED
  BY <1>1, <1>2, MasterMoves

-----------------------------------------------------------------------------
(***************************************************************************)
(* The inductive invariant.  The slave's live requests and the masters'    *)
(* accepted reads are one and the same, and so are the responses it holds  *)
(* or presents and the writes whose data is in.                            *)
(***************************************************************************)
Live == Entries \ FreeEntries(rq)
Held == Entries \ FreeEntries(bq)

\* no register leaves its range, and the counters count
Registers ==
  /\ task \in [Masters -> TaskType]
  /\ rready \in [Masters -> BOOLEAN] /\ bready \in [Masters -> BOOLEAN]
  /\ arGrant \in Masters /\ awGrant \in Masters /\ wMaster \in Masters
  /\ latched \subseteq Masters /\ locked \subseteq Masters
  /\ lockId \in [Masters -> Ids]
  /\ rq \in [Entries -> EntryType] /\ presented \in Entries \cup {None}
  /\ bq \in [Entries -> EntryType] /\ bid \in Ids \cup {None}
  /\ aw \in EntryType /\ clk \in BOOLEAN
  /\ rqCount = Cardinality(Live) /\ bqCount = Cardinality(Held)

\* one live request for each accepted read, with the beats the read has left;
\* between two beats of a burst nothing is presented
ReadInv ==
  /\ \A e \in Live : \E m \in Masters : rq[e].id \in Accepted(m)
  /\ \A m \in Masters : \A id \in Accepted(m) : \E e \in Live : rq[e].id = id
  /\ \A e, f \in Live : rq[e].id = rq[f].id => e = f
  /\ \A e \in Live : rq[e].left = IF Bursting(task[0]) /\ rq[e].id = 0 THEN task[0].left ELSE 1
  /\ presented # None => presented \in Live
  /\ \A m \in Masters : task[m].phase = "gap_r" => presented = None

\* the write that is latched is the one that is being sent
WriteInv ==
  IF aw = NoEntry THEN latched = {} /\ \A m \in Masters : ~Sends(task[m])
  ELSE /\ latched = {wMaster}
       /\ Sends(task[wMaster]) /\ ~Sends(task[Other(wMaster)])
       /\ aw.id = IdOf(wMaster) /\ aw.left >= task[wMaster].left

LockInv ==
  /\ locked = {m \in Masters : Holds(task[m])}
  /\ \A m \in locked : lockId[m] = 0

\* the writes whose data is in
Answering(m) ==
  {8 * m + i : i \in Writing(m)} \cup (IF Ending(task[m]) THEN {0} ELSE {})

\* one response for each of them; a burst that has seen its response takes it
\* at the next edge, and BREADY is low until it looks
RespInv ==
  /\ \A e \in Held : \E m \in Masters : bq[e].id \in Answering(m)
  /\ bid # None => \/ \E m \in Masters : bid \in Answering(m)
                   \/ bid = 0 /\ task[0].phase = "post_b"
  /\ \A m \in Masters : \A id \in Answering(m) : id = bid \/ \E e \in Held : bq[e].id = id
  /\ \A e, f \in Held : bq[e].id = bq[f].id => e = f
  /\ \A e \in Held : bq[e].id # bid
  /\ \A m \in Masters : task[m].op = "burst_write" =>
       /\ task[m].phase = "post_b" => bready[m]
       /\ task[m].phase \in {"aw", "gap_w", "beat_w"} => ~bready[m]

Inv ==
  /\ \A m \in Masters : Shape(m)
  /\ Registers /\ ReadInv /\ WriteInv /\ LockInv /\ RespInv

LEMMA AcceptedAre ==
  \A m \in Masters : \A id : id \in Accepted(m) <=> \/ \E i \in Reading(m) : id = 8 * m + i
                                                    \/ id = 0 /\ Bursting(task[m])
BY DEF Accepted, Reading, Unread, Bursting

LEMMA AnsweringAre ==
  \A m \in Masters : \A id : id \in Answering(m) <=> \/ \E i \in Writing(m) : id = 8 * m + i
                                                     \/ id = 0 /\ Ending(task[m])
BY DEF Answering

\* a burst and a locked read run alone
LEMMA Alone ==
  ASSUME NEW m \in Masters, Shape(m), task[m].op \in Smoke
  PROVE  m = 0 /\ Reading(m) = {} /\ Writing(m) = {} /\ Taken(rslot[m]) = {} /\ Taken(wslot[m]) = {}
BY DEF Shape, ShapeOf, Reading, Writing

LEMMA SlotsAre ==
  ASSUME NEW m \in Masters, Shape(m)
  PROVE  /\ Reading(m) \subseteq Taken(rslot[m]) /\ Taken(rslot[m]) \subseteq RSlots(m)
         /\ Writing(m) \subseteq Taken(wslot[m]) /\ Taken(wslot[m]) \subseteq RSlots(m)
         /\ RSlots(m) \subseteq 0 .. 7
<1>1. rslot[m] \in [RSlots(m) -> States] /\ wslot[m] \in [RSlots(m) -> States]
  BY DEF Shape, ShapeOf
<1>2. QED
  BY <1>1, TakenAre, Sizes DEF Reading, Writing

LEMMA OwnersAre ==
  ASSUME \A m \in Masters : Shape(m)
  PROVE  \A m \in Masters : \A id \in Accepted(m) \cup Answering(m) : Owner(id) = m /\ id \in Ids
<1>1. ASSUME NEW m \in Masters, NEW i \in Reading(m) \cup Writing(m)
      PROVE  Owner(8 * m + i) = m /\ 8 * m + i \in Ids
  BY <1>1, SlotsAre, IdsAre
<1>2. ASSUME NEW m \in Masters, Bursting(task[m]) \/ Ending(task[m])
      PROVE  Owner(0) = m /\ 0 \in Ids
  <2>1. m = 0
    BY <1>2, Alone DEF Bursting, Ending, Smoke
  <2>2. QED
    BY <2>1 DEF Owner, Ids
<1>3. QED
  BY <1>1, <1>2, AcceptedAre, AnsweringAre

(***************************************************************************)
(* A beat that is taken is the one its master waits for.                   *)
(***************************************************************************)
LEMMA Served ==
  ASSUME Inv, NEW m \in Masters, RHandshake(m)
  PROVE  /\ presented \in Live /\ rq[presented].id \in Accepted(m)
         /\ ~RHandshake(Other(m))
         /\ Bursting(task[m]) =>
              /\ rq[presented].id = 0 /\ task[m].phase = "beat_r" /\ Reading(m) = {}
              /\ rq[presented].left = task[m].left
         /\ ~Bursting(task[m]) => rq[presented].left = 1
<1> DEFINE id == rq[presented].id
<1>1. presented # None /\ Owner(id) = m
  BY DEF RHandshake, RValid
<1>2. presented \in Live
  BY <1>1 DEF Inv, ReadInv
<1>3. id \in Accepted(m)
  BY <1>1, <1>2, OwnersAre DEF Inv, ReadInv
<1>4. ~RHandshake(Other(m))
  BY <1>1, Sizes DEF RHandshake, RValid
<1>5. ASSUME Bursting(task[m])
      PROVE  id = 0 /\ task[m].phase = "beat_r" /\ Reading(m) = {} /\ rq[presented].left = task[m].left
  <2>1. m = 0 /\ Reading(m) = {}
    BY <1>5, Alone DEF Inv, Bursting, Smoke
  <2>2. id = 0
    BY <1>3, <2>1, AcceptedAre
  <2>3. task[m].phase = "beat_r"
    BY <1>1, <1>5 DEF Inv, ReadInv, Bursting
  <2>4. QED
    BY <1>2, <1>5, <2>1, <2>2, <2>3 DEF Inv, ReadInv
<1>6. ASSUME ~Bursting(task[m]) PROVE rq[presented].left = 1
  <2>1. PICK i \in Reading(m) : id = 8 * m + i
    BY <1>3, <1>6, AcceptedAre
  <2>2. id # 0 \/ m = 0
    BY <2>1, SlotsAre, Sizes DEF Inv
  <2>3. QED
    BY <1>2, <1>6, <2>2 DEF Inv, ReadInv
<1>7. QED
  BY <1>2, <1>3, <1>4, <1>5, <1>6

LEMMA Expected ==
  ASSUME Inv, NEW m \in Masters
  PROVE  Expects(m)
<1>1. task[m].phase = "aw_w" => m \notin latched
  BY DEF Inv, WriteInv, Sends
<1>2. task[m].phase = "gap_r" => ~RHandshake(m)
  BY DEF Inv, ReadInv, RHandshake, RValid
<1>3. ASSUME NEW i \in RGone(m) PROVE i \in Reading(m)
  <2>1. RHandshake(m) /\ i \in Taken(rslot[m]) /\ rq[presented].id = 8 * m + i
    BY <1>3 DEF RGone, SlotOf
  <2>2. ~Bursting(task[m])
    BY <2>1, Alone DEF Bursting, Smoke, Inv
  <2>3. PICK j \in Reading(m) : rq[presented].id = 8 * m + j
    BY <2>1, <2>2, Served, AcceptedAre
  <2>4. i = j
    BY <2>1, <2>3, SlotsAre DEF Inv, Masters
  <2>5. QED
    BY <2>3, <2>4
<1>4. ASSUME NEW i \in BGone(m) PROVE i \in Writing(m)
  <2>1. bid # None /\ Owner(bid) = m /\ i \in Taken(wslot[m]) /\ bid = 8 * m + i
    BY <1>4 DEF BGone, SlotOf, BHandshake, BValid
  <2>2. ~Ending(task[m]) /\ task[m].phase # "post_b"
    <3>1. task[m].op \notin Smoke
      BY <2>1, Alone DEF Inv
    <3>2. QED
      BY <3>1 DEF Ending, Smoke, Inv, Shape, ShapeOf, ReadShape, WriteShape, TaskType, Calls, Idle
  <2>3. bid \in Answering(m)
    <3>1. CASE bid = 0 /\ task[0].phase = "post_b"
      <4>1. m = 0
        BY <2>1, <3>1 DEF Owner
      <4>2. QED
        BY <3>1, <4>1, <2>2
    <3>2. QED
      BY <2>1, <3>1, OwnersAre DEF Inv, RespInv
  <2>4. PICK j \in Writing(m) : bid = 8 * m + j
    BY <2>2, <2>3, AnsweringAre
  <2>5. i = j
    BY <2>1, <2>4, SlotsAre DEF Inv, Masters
  <2>6. QED
    BY <2>4, <2>5
<1>5. QED
  BY <1>1, <1>2, <1>3, <1>4 DEF Expects

(***************************************************************************)
(* The accepted reads of a master lose the one whose last beat is taken    *)
(* and gain the one whose address is accepted.                             *)
(***************************************************************************)
ReadDone(m) == IF RHandshake(m) /\ RLast THEN {rq[presented].id} ELSE {}
ReadAsked(m) == IF ArHandshake(m) THEN {IdOf(m)} ELSE {}

LEMMA Asks ==
  ASSUME Inv, NEW m \in Masters, ArHandshake(m)
  PROVE  /\ Owner(IdOf(m)) = m /\ IdOf(m) \in Ids /\ IdOf(m) \notin Accepted(m)
         /\ ~Bursting(task[m])
         /\ \/ /\ task[m].op = "read" /\ task[m].left = 1
               /\ IdOf(m) = 8 * m + task[m].slot /\ Unread(task[m]) = {task[m].slot}
            \/ /\ task[m].op \in {"locked", "burst_read"} /\ m = 0 /\ Accepted(m) = {}
               /\ IdOf(m) = 0 /\ Unread(task[m]) = {} /\ task[m].left \in 1 .. Beats
               /\ task[m].op = "locked" => task[m].left = 1
<1> DEFINE t == task[m]
<1>1. t.phase = "ar" /\ t \in TaskType /\ t # Idle
  BY DEF ArHandshake, ArPick, ArValid, Inv, Shape, ShapeOf, Idle
<1>2. t.op \in {"read", "locked", "burst_read"}
  BY <1>1 DEF TaskType, Calls, Inv, Shape, ShapeOf, WriteShape, BurstWriteShape
<1>3. ~Bursting(t)
  BY <1>1 DEF Bursting
<1>4. CASE t.op = "read"
  <2>1. t.left = 1 /\ t.slot \in RSlots(m) /\ Unread(t) = {t.slot} /\ IdOf(m) = 8 * m + t.slot
    BY <1>1, <1>4 DEF Inv, Shape, ShapeOf, ReadShape, Unread, IdOf, Smoke
  <2>2. Owner(IdOf(m)) = m /\ IdOf(m) \in Ids
    BY <2>1, IdsAre, Sizes
  <2>3. t.slot \notin Reading(m)
    BY <2>1 DEF Reading
  <2>4. \A i \in Reading(m) : i # t.slot => 8 * m + i # IdOf(m)
    BY <2>1, SlotsAre DEF Inv, Masters
  <2>5. QED
    BY <1>3, <1>4, <2>1, <2>2, <2>3, <2>4, AcceptedAre
<1>5. CASE t.op \in {"locked", "burst_read"}
  <2>1. m = 0 /\ Reading(m) = {}
    BY <1>5, Alone DEF Inv, Smoke
  <2>2. Accepted(m) = {}
    BY <1>3, <2>1, AcceptedAre
  <2>3. IdOf(m) = 0 /\ Unread(t) = {} /\ Owner(0) = 0 /\ 0 \in Ids
    BY <1>5 DEF IdOf, Smoke, Unread, Owner, Ids
  <2>4. t.left \in 1 .. Beats /\ (t.op = "locked" => t.left = 1)
    BY <1>1, <1>5, Sizes DEF Inv, Shape, ShapeOf, LockedShape, BurstReadShape
  <2>5. QED
    BY <1>3, <1>5, <2>1, <2>2, <2>3, <2>4
<1>6. QED
  BY <1>2, <1>4, <1>5

LEMMA AcceptedStep ==
  ASSUME Inv, MasterEdge, NEW m \in Masters
  PROVE  Accepted(m)' = (Accepted(m) \ ReadDone(m)) \cup ReadAsked(m)
<1> DEFINE t == task[m]
           u == task'[m]
           p == rq[presented].id
<1>1. AccessesMove(m) /\ BurstMoves(m)
  BY MasterStep, Expected DEF Inv, Moved
<1>2. \A id : id \in Accepted(m)' <=> (\E i \in Reading(m)' : id = 8 * m + i) \/ (id = 0 /\ Bursting(u))
  BY DEF Accepted, Reading, Unread, Bursting
<1>3. Reading(m)' = (Reading(m) \ RGone(m)) \cup (IF ArHandshake(m) THEN Unread(t) ELSE {})
  BY <1>1 DEF AccessesMove
<1>4. Bursting(u) <=> (Bursting(t) /\ ~(RHandshake(m) /\ t.left = 1)) \/ (ArHandshake(m) /\ t.op \in {"locked", "burst_read"})
  BY <1>1 DEF BurstMoves
<1>5. CASE Bursting(t)
  <2>1. m = 0 /\ Reading(m) = {} /\ ~ArHandshake(m)
    BY <1>5, Alone DEF Inv, Bursting, Smoke, ArHandshake, ArPick, ArValid
  <2>2. Accepted(m) = {0}
    BY <1>5, <2>1, AcceptedAre
  <2>3. RHandshake(m) => p = 0 /\ rq[presented].left = t.left
    BY <1>5, Served
  <2>4. RHandshake(m) /\ RLast <=> RHandshake(m) /\ t.left = 1
    BY <2>3 DEF RLast
  <2>5. Accepted(m)' = IF RHandshake(m) /\ RLast THEN {} ELSE {0}
    BY <1>2, <1>3, <1>4, <1>5, <2>1, <2>4
  <2>6. QED
    BY <2>1, <2>2, <2>3, <2>5 DEF ReadDone, ReadAsked
<1>6. CASE ~Bursting(t)
  <2>1. ASSUME NEW i \in Reading(m) PROVE i \in RGone(m) <=> 8 * m + i \in ReadDone(m)
    BY SlotsAre DEF Inv, RGone, SlotOf, ReadDone
  <2>2. Accepted(m) = {8 * m + i : i \in Reading(m)}
    BY <1>6, AcceptedAre
  <2>3. CASE ~ArHandshake(m)
    BY <1>2, <1>3, <1>4, <1>6, <2>1, <2>2, <2>3 DEF ReadAsked
  <2>4. CASE ArHandshake(m)
    <3>1. CASE t.op = "read"
      <4>1. IdOf(m) = 8 * m + t.slot /\ Unread(t) = {t.slot}
        BY <2>4, <3>1, Asks
      <4>2. ~Bursting(u) /\ Reading(m)' = (Reading(m) \ RGone(m)) \cup {t.slot}
        BY <1>3, <1>4, <1>6, <2>4, <3>1, <4>1
      <4>3. QED
        BY <1>2, <2>1, <2>2, <2>4, <4>1, <4>2 DEF ReadAsked
    <3>2. CASE t.op # "read"
      <4>1. t.op \in {"locked", "burst_read"} /\ Accepted(m) = {} /\ IdOf(m) = 0 /\ Unread(t) = {}
        BY <2>4, <3>2, Asks
      <4>2. Bursting(u) /\ Reading(m)' = {}
        BY <1>3, <1>4, <2>2, <2>4, <4>1
      <4>3. QED
        BY <1>2, <2>4, <4>1, <4>2 DEF ReadAsked
    <3>3. QED
      BY <3>1, <3>2
  <2>5. QED
    BY <2>3, <2>4
<1>7. QED
  BY <1>5, <1>6

-----------------------------------------------------------------------------
(***************************************************************************)
(* The slave's read requests.                                              *)
(***************************************************************************)
BeatTaken == \E m \in Masters : RHandshake(m)
Asking == \E m \in Masters : ArHandshake(m)
GoneEntry == IF BeatTaken /\ RLast THEN {presented} ELSE {}
NewEntry == IF Asking THEN {Lowest(FreeEntries(rq))} ELSE {}

LEMMA EntriesAre ==
  /\ \A x \in EntryType : /\ x # NoEntry => x \in [id : Ids, left : 1 .. Beats + 1, timer : 0 .. Latency]
                          /\ x # NoEntry <=> x.id # None
  /\ \A x \in [id : Ids, left : 1 .. Beats + 1, timer : 0 .. Latency] : x \in EntryType /\ x # NoEntry
  /\ NoEntry \in EntryType
<1>1. \A id \in Ids : id # None
  BY IdsAre DEF None
<1>2. NoEntry.id = None
  BY DEF NoEntry
<1>3. QED
  BY <1>1, <1>2 DEF EntryType

LEMMA TicksOfNone == Tick(NoEntry) = NoEntry
BY DEF Tick, NoEntry

LEMMA TicksAre ==
  ASSUME NEW x \in EntryType
  PROVE  Tick(x) \in EntryType /\ Tick(x).id = x.id /\ Tick(x).left = x.left
<1>1. CASE x = NoEntry
  <2>1. Tick(x) = x
    BY <1>1 DEF Tick, NoEntry
  <2>2. QED
    BY <2>1
<1>2. CASE x # NoEntry
  <2>1. x \in [id : Ids, left : 1 .. Beats + 1, timer : 0 .. Latency]
    BY <1>2, EntriesAre
  <2>2. Tick(x) \in [id : Ids, left : 1 .. Beats + 1, timer : 0 .. Latency]
    BY <2>1, Sizes DEF Tick
  <2>3. QED
    BY <2>1, <2>2, EntriesAre DEF Tick
<1>3. QED
  BY <1>1, <1>2

LEMMA LiveAre ==
  /\ \A e : e \in Live <=> e \in Entries /\ rq[e] # NoEntry
  /\ \A e : e \in Held <=> e \in Entries /\ bq[e] # NoEntry
  /\ \A e : e \in FreeEntries(rq) <=> e \in Entries /\ rq[e] = NoEntry
  /\ \A e : e \in FreeEntries(bq) <=> e \in Entries /\ bq[e] = NoEntry
BY DEF Live, Held, FreeEntries

LEMMA RequestsAre ==
  ASSUME Inv, NEW m \in Masters, ArHandshake(m)
  PROVE  /\ Requested(m) \in EntryType /\ Requested(m) # NoEntry
         /\ Requested(m).id = IdOf(m) /\ Requested(m).left = task[m].left
         /\ Lowest({n \in Masters : ArHandshake(n)}) = m
         /\ NewEntry \subseteq FreeEntries(rq) /\ NewEntry = {Lowest(FreeEntries(rq))}
<1>1. IdOf(m) \in Ids /\ task[m].left \in 1 .. Beats + 1
  BY Asks, Sizes
<1>2. Requested(m) \in [id : Ids, left : 1 .. Beats + 1, timer : 0 .. Latency]
  BY <1>1, Sizes DEF Requested
<1>3. Lowest({n \in Masters : ArHandshake(n)}) = m
  <2>1. {n \in Masters : ArHandshake(n)} = {m}
    BY OnePick DEF ArHandshake
  <2>2. m \in Nat
    BY DEF Masters
  <2>3. QED
    BY <2>1, <2>2, LowestIsIn
<1>4. FreeEntries(rq) # {} /\ FreeEntries(rq) \in SUBSET Nat
  BY Sizes DEF ArHandshake, SlaveArReady, FreeEntries
<1>5. Lowest(FreeEntries(rq)) \in FreeEntries(rq)
  BY <1>4, LowestIsIn
<1>6. QED
  BY <1>2, <1>3, <1>5, EntriesAre DEF Requested, NewEntry, Asking

LEMMA ReadQueueStep ==
  ASSUME Inv, ReadEdge
  PROVE  /\ rq' \in [Entries -> EntryType]
         /\ Live' = (Live \ GoneEntry) \cup NewEntry
         /\ GoneEntry \subseteq Live /\ NewEntry \cap Live = {} /\ NewEntry \subseteq Entries
         /\ \A e \in Live \ GoneEntry :
              /\ rq'[e].id = rq[e].id
              /\ rq'[e].left = IF BeatTaken /\ e = presented THEN rq[e].left - 1 ELSE rq[e].left
         /\ \A m \in Masters : ArHandshake(m) =>
              \A e \in NewEntry : rq'[e].id = IdOf(m) /\ rq'[e].left = task[m].left
         /\ presented' # None => presented' \in Live \ GoneEntry
         /\ BeatTaken => presented' = None
<1> DEFINE f == Lowest(FreeEntries(rq))
           w == Lowest({m \in Masters : ArHandshake(m)})
<1>1. \A e \in Entries :
        rq'[e] = IF Asking /\ e = f THEN Requested(w)
                 ELSE IF BeatTaken /\ e = presented
                   THEN IF rq[e].left = 1 THEN NoEntry ELSE [rq[e] EXCEPT !.left = @ - 1]
                 ELSE Tick(rq[e])
  BY DEF ReadEdge, Asking, BeatTaken
<1>2. DOMAIN rq' = Entries /\ rq' = [e \in Entries |-> rq'[e]]
  BY DEF ReadEdge
<1>3. rq \in [Entries -> EntryType] /\ presented \in Entries \cup {None}
  BY DEF Inv, Registers
<1>4. Asking => /\ f \in Entries /\ f \notin Live /\ NewEntry = {f}
                /\ Requested(w) \in EntryType /\ Requested(w) # NoEntry
                /\ \A m \in Masters : ArHandshake(m) => Requested(w).id = IdOf(m) /\ Requested(w).left = task[m].left
  <2>1. ASSUME NEW m \in Masters, ArHandshake(m)
        PROVE  /\ f \in Entries /\ f \notin Live /\ NewEntry = {f} /\ w = m
               /\ Requested(m) \in EntryType /\ Requested(m) # NoEntry
               /\ Requested(m).id = IdOf(m) /\ Requested(m).left = task[m].left
    BY <2>1, RequestsAre, LiveAre
  <2>2. QED
    BY <2>1 DEF Asking
<1>5. BeatTaken => presented \in Live
  BY Served DEF BeatTaken
<1> HIDE DEF f, w
<1>6. ASSUME NEW e \in Live
      PROVE  /\ e \in GoneEntry => rq'[e] = NoEntry
             /\ e \notin GoneEntry =>
                  /\ rq'[e] \in EntryType /\ rq'[e] # NoEntry /\ rq'[e].id = rq[e].id
                  /\ rq'[e].left = IF BeatTaken /\ e = presented THEN rq[e].left - 1 ELSE rq[e].left
  <2>1. e \in Entries /\ rq[e] # NoEntry /\ ~(Asking /\ e = f)
    BY <1>4, LiveAre
  <2>2. rq[e] \in [id : Ids, left : 1 .. Beats + 1, timer : 0 .. Latency] /\ rq[e] \in EntryType
    BY <1>3, <2>1, EntriesAre
  <2>3. CASE BeatTaken /\ e = presented /\ RLast
    BY <1>1, <2>1, <2>3 DEF GoneEntry, RLast
  <2>4. CASE BeatTaken /\ e = presented /\ ~RLast
    <3>1. rq'[e] = [rq[e] EXCEPT !.left = @ - 1] /\ rq[e].left # 1
      BY <1>1, <2>1, <2>4 DEF RLast
    <3>2. rq'[e] = [id |-> rq[e].id, left |-> rq[e].left - 1, timer |-> rq[e].timer]
      BY <2>2, <3>1
    <3>3. rq'[e] \in [id : Ids, left : 1 .. Beats + 1, timer : 0 .. Latency]
      BY <2>2, <3>1, <3>2, Sizes
    <3>4. e \notin GoneEntry
      BY <2>4 DEF GoneEntry
    <3>5. QED
      BY <2>4, <3>2, <3>3, <3>4, EntriesAre
  <2>5. CASE ~(BeatTaken /\ e = presented)
    <3>1. rq'[e] = Tick(rq[e]) /\ e \notin GoneEntry
      BY <1>1, <2>1, <2>5 DEF GoneEntry
    <3>2. rq'[e] \in EntryType /\ rq'[e].id = rq[e].id /\ rq'[e].left = rq[e].left
      BY <2>2, <3>1, TicksAre
    <3>3. rq'[e] # NoEntry
      BY <2>1, <2>2, <3>2, EntriesAre
    <3>4. QED
      BY <2>5, <3>1, <3>2, <3>3
  <2>6. QED
    BY <2>3, <2>4, <2>5
<1>7. ASSUME NEW e \in Entries, e \notin Live, e \notin NewEntry
      PROVE  rq'[e] = NoEntry
  <2>1. rq[e] = NoEntry /\ ~(Asking /\ e = f) /\ ~(BeatTaken /\ e = presented)
    BY <1>4, <1>5, <1>7, LiveAre
  <2>2. QED
    BY <1>1, <2>1, TicksOfNone
<1>8. ASSUME NEW e \in NewEntry
      PROVE  Asking /\ e \in Entries /\ e \notin Live /\ rq'[e] = Requested(w)
  BY <1>1, <1>4, <1>8 DEF NewEntry
<1>9. GoneEntry \subseteq Live
  BY <1>5 DEF GoneEntry
<1>10. rq' \in [Entries -> EntryType]
  <2>1. ASSUME NEW e \in Entries PROVE rq'[e] \in EntryType
    BY <1>4, <1>6, <1>7, <1>8, EntriesAre
  <2>2. QED
    BY <1>2, <2>1
<1>11. Live' = (Live \ GoneEntry) \cup NewEntry
  <2>1. Live' = {e \in Entries : rq'[e] # NoEntry}
    BY DEF Live, FreeEntries
  <2>2. ASSUME NEW e \in Entries PROVE rq'[e] # NoEntry <=> e \in (Live \ GoneEntry) \cup NewEntry
    BY <1>4, <1>6, <1>7, <1>8
  <2>3. Live \subseteq Entries /\ NewEntry \subseteq Entries
    BY <1>8, LiveAre
  <2>4. QED
    BY <2>1, <2>2, <2>3
<1>12. presented' # None => presented' \in Live \ GoneEntry
  <2>1. CASE presented = None
    <3>1. GoneEntry = {}
      BY <1>9, <2>1, LiveAre, Sizes DEF GoneEntry, None
    <3>2. Ready(rq) \subseteq Live /\ Ready(rq) \in SUBSET Nat
      BY Sizes, LiveAre DEF Ready
    <3>3. presented' = IF Ready(rq) = {} THEN None ELSE Lowest(Ready(rq))
      BY <2>1 DEF ReadEdge
    <3>4. QED
      BY <3>1, <3>2, <3>3, LowestIsIn
  <2>2. CASE presented # None
    <3>1. presented \in Live /\ presented' = IF BeatTaken THEN None ELSE presented
      BY <2>2 DEF ReadEdge, BeatTaken, Inv, ReadInv
    <3>2. QED
      BY <3>1 DEF GoneEntry
  <2>3. QED
    BY <2>1, <2>2
<1>13. BeatTaken => presented' = None
  <2>1. BeatTaken => presented # None
    BY DEF BeatTaken, RHandshake, RValid
  <2>2. QED
    BY <2>1 DEF ReadEdge, BeatTaken
<1>14. \A m \in Masters : ArHandshake(m) => \A e \in NewEntry : rq'[e].id = IdOf(m) /\ rq'[e].left = task[m].left
  BY <1>4, <1>8 DEF Asking
<1>15. QED
  BY <1>6, <1>8, <1>9, <1>10, <1>11, <1>12, <1>13, <1>14

LEMMA ReadInvStep ==
  ASSUME Inv, MasterEdge, ReadEdge
  PROVE  ReadInv'
<1> DEFINE t == task[0]
           u == task'[0]
<1>0. 0 \in Masters /\ Owner(0) = 0
  BY DEF Masters, Owner
<1>1. /\ Live' = (Live \ GoneEntry) \cup NewEntry
      /\ NewEntry \cap Live = {}
      /\ \A e \in Live \ GoneEntry :
           /\ rq'[e].id = rq[e].id
           /\ rq'[e].left = IF BeatTaken /\ e = presented THEN rq[e].left - 1 ELSE rq[e].left
      /\ \A m \in Masters : ArHandshake(m) =>
           \A e \in NewEntry : rq'[e].id = IdOf(m) /\ rq'[e].left = task[m].left
  BY ReadQueueStep
<1>2. \A m \in Masters : Accepted(m)' = (Accepted(m) \ ReadDone(m)) \cup ReadAsked(m)
  BY AcceptedStep
<1>3. \A e \in Live : \E m \in Masters : rq[e].id \in Accepted(m)
  BY DEF Inv, ReadInv
<1>4. \A e, f \in Live : rq[e].id = rq[f].id => e = f
  BY DEF Inv, ReadInv
<1>5. \A m \in Masters : \A id \in Accepted(m) : Owner(id) = m
  BY OwnersAre DEF Inv
<1>6. \A e \in NewEntry : \E m \in Masters : ArHandshake(m) /\ rq'[e].id = IdOf(m) /\ rq'[e].left = task[m].left
  BY <1>1 DEF NewEntry, Asking
<1>7. \A m \in Masters : BurstMoves(m)
  BY MasterStep, Expected DEF Inv, Moved
<1>8. \A m \in Masters : RHandshake(m) => BeatTaken /\ presented \in Live /\ rq[presented].id \in Accepted(m)
  BY Served DEF BeatTaken
<1>9. ASSUME NEW e \in Live' PROVE \E m \in Masters : rq'[e].id \in Accepted(m)'
  <2>1. CASE e \in NewEntry
    BY <1>2, <1>6, <2>1 DEF ReadAsked
  <2>2. CASE e \in Live \ GoneEntry
    <3>1. PICK m \in Masters : rq[e].id \in Accepted(m)
      BY <1>3, <2>2
    <3>2. rq[e].id \notin ReadDone(m)
      BY <1>4, <1>8, <2>2 DEF ReadDone, GoneEntry
    <3>3. QED
      BY <1>1, <1>2, <2>2, <3>1, <3>2
  <2>3. QED
    BY <1>1, <2>1, <2>2
<1>10. ASSUME NEW m \in Masters, NEW id \in Accepted(m)' PROVE \E e \in Live' : rq'[e].id = id
  <2>1. CASE id \in ReadAsked(m)
    <3>1. ArHandshake(m) /\ id = IdOf(m)
      BY <2>1 DEF ReadAsked
    <3>2. Lowest(FreeEntries(rq)) \in NewEntry
      BY <3>1 DEF NewEntry, Asking
    <3>3. QED
      BY <1>1, <3>1, <3>2
  <2>2. CASE id \in Accepted(m) \ ReadDone(m)
    <3>1. PICK e \in Live : rq[e].id = id
      BY <2>2 DEF Inv, ReadInv
    <3>2. e \notin GoneEntry
      <4>1. SUFFICES ASSUME e = presented, RLast, NEW n \in Masters, RHandshake(n) PROVE FALSE
        BY DEF GoneEntry, BeatTaken
      <4>2. n = m
        BY <1>5, <1>8, <2>2, <3>1, <4>1
      <4>3. QED
        BY <2>2, <3>1, <4>1, <4>2 DEF ReadDone
    <3>3. QED
      BY <1>1, <3>1, <3>2
  <2>3. QED
    BY <1>2, <2>1, <2>2
<1>11. ASSUME NEW e \in Live \ GoneEntry, NEW f \in NewEntry PROVE rq'[e].id # rq'[f].id
  <2>1. PICK m \in Masters : ArHandshake(m) /\ rq'[f].id = IdOf(m)
    BY <1>6
  <2>2. PICK n \in Masters : rq[e].id \in Accepted(n)
    BY <1>3
  <2>3. Owner(IdOf(m)) = m /\ IdOf(m) \notin Accepted(m)
    BY <2>1, Asks
  <2>4. QED
    BY <1>1, <1>5, <2>1, <2>2, <2>3
<1>12. \A e, f \in Live' : rq'[e].id = rq'[f].id => e = f
  <2>1. \A e, f \in NewEntry : e = f
    BY DEF NewEntry
  <2>2. QED
    BY <1>1, <1>4, <1>11, <2>1
<1>13. ASSUME NEW e \in Live'
       PROVE  rq'[e].left = IF Bursting(u) /\ rq'[e].id = 0 THEN u.left ELSE 1
  <2>1. CASE e \in NewEntry
    <3>1. PICK m \in Masters : ArHandshake(m) /\ rq'[e].id = IdOf(m) /\ rq'[e].left = task[m].left
      BY <1>6, <2>1
    <3>2. ~Bursting(task[m]) /\ Owner(IdOf(m)) = m
      BY <3>1, Asks
    <3>3. CASE task[m].op = "read"
      <4>1. rq'[e].left = 1
        BY <3>1, <3>3, Asks
      <4>2. rq'[e].id = 0 => ~Bursting(u)
        BY <1>0, <1>7, <3>1, <3>2, <3>3 DEF BurstMoves
      <4>3. QED
        BY <4>1, <4>2
    <3>4. CASE task[m].op # "read"
      <4>1. task[m].op \in {"locked", "burst_read"} /\ m = 0 /\ IdOf(m) = 0 /\ task[m].left \in 1 .. Beats
        BY <3>1, <3>4, Asks
      <4>2. Bursting(u) /\ u.left = task[m].left - 0
        BY <1>7, <3>1, <3>2, <4>1 DEF BurstMoves, Count
      <4>3. QED
        BY <3>1, <4>1, <4>2, Sizes
    <3>5. QED
      BY <3>3, <3>4
  <2>2. CASE e \in Live \ GoneEntry
    <3>1. /\ rq'[e].id = rq[e].id
          /\ rq'[e].left = IF BeatTaken /\ e = presented THEN rq[e].left - 1 ELSE rq[e].left
          /\ rq[e].left = IF Bursting(t) /\ rq[e].id = 0 THEN t.left ELSE 1
      BY <1>1, <2>2 DEF Inv, ReadInv
    <3>2. BeatTaken /\ e = presented => rq[e].left # 1
      BY <2>2 DEF GoneEntry, RLast
    <3>3. CASE Bursting(t) /\ rq[e].id = 0
      <4>1. BeatTaken /\ e = presented <=> RHandshake(0)
        <5>1. RHandshake(0) => e = presented
          BY <1>0, <1>4, <1>8, <2>2, <3>3, Served
        <5>2. ASSUME e = presented, NEW m \in Masters, RHandshake(m) PROVE m = 0
          BY <1>0, <1>5, <1>8, <3>3, <5>2
        <5>3. QED
          BY <1>0, <5>1, <5>2 DEF BeatTaken
      <4>2. Bursting(u) /\ u.left = t.left - Count(RHandshake(0))
        BY <1>0, <1>7, <3>1, <3>2, <3>3, <4>1 DEF BurstMoves, Count
      <4>3. t.left - 0 = t.left
        <5>1. t.left \in Int
          BY <1>0, <3>3 DEF Inv, Shape, ShapeOf, TaskType, Idle, Bursting
        <5>2. QED
          BY <5>1
      <4>4. QED
        BY <3>1, <3>3, <4>1, <4>2, <4>3 DEF Count
    <3>4. CASE ~(Bursting(t) /\ rq[e].id = 0)
      <4>1. rq'[e].left = 1
        BY <3>1, <3>2, <3>4
      <4>2. ~(Bursting(u) /\ rq[e].id = 0)
        <5>1. SUFFICES ASSUME Bursting(u), rq[e].id = 0 PROVE FALSE
          OBVIOUS
        <5>2. ArHandshake(0) /\ t.op \in {"locked", "burst_read"}
          BY <1>0, <1>7, <3>4, <5>1 DEF BurstMoves
        <5>3. Accepted(0) = {}
          BY <1>0, <5>2, Asks
        <5>4. QED
          BY <1>0, <1>3, <1>5, <2>2, <5>1, <5>3
      <4>3. QED
        BY <3>1, <4>1, <4>2
    <3>5. QED
      BY <3>3, <3>4
  <2>3. QED
    BY <1>1, <2>1, <2>2
<1>14. presented' # None => presented' \in Live'
  BY ReadQueueStep
<1>15. \A m \in Masters : task'[m].phase = "gap_r" => presented' = None
  BY <1>7, <1>8, ReadQueueStep DEF BurstMoves
<1>16. QED
  BY <1>9, <1>10, <1>12, <1>13, <1>14, <1>15 DEF ReadInv

-----------------------------------------------------------------------------
(***************************************************************************)
(* The write that is under way.                                            *)
(***************************************************************************)
LastTaken == WHandshake /\ (WLast(wMaster) \/ aw.left = 1)

LEMMA SendsAre ==
  ASSUME NEW m \in Masters, Shape(m)
  PROVE  /\ Sends(task[m]) => task[m].op \in {"write", "burst_write"} /\ task[m].left \in 1 .. Beats
         /\ AwValid(m) => task[m].op \in {"write", "burst_write"} /\ task[m].left \in 1 .. Beats /\ IdOf(m) \in Ids
         /\ Sends(task[m]) => (WValid(m) <=> task[m].phase \in {"w", "beat_w"})
<1> DEFINE t == task[m]
<1>1. t.phase \in {"w", "beat_w", "gap_w", "aw_w", "aw"} => t.op \in {"write", "burst_write"}
  BY DEF Shape, ShapeOf, TaskType, Idle, Calls, ReadShape, LockedShape, BurstReadShape
<1>2. t.op = "write" => t.left = 1 /\ t.slot \in RSlots(m) /\ IdOf(m) = 8 * m + t.slot
  BY DEF Shape, ShapeOf, WriteShape, IdOf, Smoke
<1>3. t.op = "burst_write" =>
        /\ t.phase \in {"aw", "beat_w", "gap_w"} /\ (t.phase = "gap_w" => t.left > 0) => t.left \in 1 .. Beats
        /\ IdOf(m) = 0
  BY Sizes DEF Shape, ShapeOf, BurstWriteShape, IdOf, Smoke
<1>4. t.op = "burst_write" => t.phase # "aw_w"
  BY DEF Shape, ShapeOf, BurstWriteShape
<1>5. 1 \in 1 .. Beats /\ 0 \in Ids
  BY Sizes, IdsAre
<1>6. Sends(t) => t.op \in {"write", "burst_write"} /\ t.left \in 1 .. Beats
  <2>1. CASE t.op = "write"
    BY <1>2, <1>5, <2>1
  <2>2. CASE t.op = "burst_write"
    BY <1>1, <1>3, <2>2 DEF Sends, Shape, ShapeOf, BurstWriteShape
  <2>3. QED
    BY <1>1, <2>1, <2>2 DEF Sends
<1>7. AwValid(m) => t.op \in {"write", "burst_write"} /\ t.left \in 1 .. Beats /\ IdOf(m) \in Ids
  <2>1. CASE t.op = "write"
    BY <1>2, <1>5, <2>1, IdsAre
  <2>2. CASE t.op = "burst_write"
    BY <1>3, <1>4, <1>5, <2>2 DEF AwValid
  <2>3. QED
    BY <1>1, <2>1, <2>2 DEF AwValid
<1>8. QED
  BY <1>6, <1>7 DEF Sends, WValid

LEMMA WritesAre ==
  ASSUME Inv
  PROVE  /\ aw = NoEntry => ~WHandshake /\ ~LastTaken
         /\ aw # NoEntry => \A m \in Masters : ~AwHandshake(m)
         /\ \A m \in Masters : WTaken(m) <=> m = wMaster /\ WHandshake
         /\ LastTaken <=> WHandshake /\ WLast(wMaster)
         /\ \A m \in Masters : WTaken(m) => aw.id = IdOf(m) /\ task[m].op \in {"write", "burst_write"} /\ Sends(task[m])
<1>1. aw = NoEntry => ~WHandshake
  BY DEF WHandshake, SlaveWReady
<1>2. aw # NoEntry => \A m \in Masters : ~AwHandshake(m)
  BY DEF AwHandshake
<1>3. \A m \in Masters : WTaken(m) <=> m = wMaster /\ WHandshake
  <2>1. CASE aw = NoEntry
    BY <1>1, <2>1 DEF WTaken, WReady, Inv, WriteInv
  <2>2. CASE aw # NoEntry
    BY <2>2 DEF WTaken, WReady, WHandshake, Inv, WriteInv
  <2>3. QED
    BY <2>1, <2>2
<1>4. WHandshake => /\ wMaster \in Masters /\ Sends(task[wMaster]) /\ aw.id = IdOf(wMaster)
                    /\ aw.left >= task[wMaster].left /\ aw.left \in 1 .. Beats + 1
  <2>1. WHandshake => aw # NoEntry
    BY <1>1
  <2>2. QED
    BY <2>1, EntriesAre DEF Inv, WriteInv, Registers
<1>5. WHandshake => task[wMaster].left \in 1 .. Beats /\ task[wMaster].op \in {"write", "burst_write"}
  BY <1>4, SendsAre DEF Inv
<1>6. LastTaken <=> WHandshake /\ WLast(wMaster)
  BY <1>4, <1>5 DEF LastTaken, WLast
<1>7. QED
  BY <1>1, <1>2, <1>3, <1>4, <1>5, <1>6

LEMMA AddressTaken ==
  ASSUME Inv, ArbiterEdge, WriteEdge, NEW m \in Masters, AwHandshake(m)
  PROVE  /\ aw = NoEntry /\ ~WHandshake /\ ~AwHandshake(Other(m))
         /\ latched' = {m} /\ wMaster' = m
         /\ aw' = Requested(m) /\ aw' \in EntryType /\ aw' # NoEntry
         /\ aw'.id = IdOf(m) /\ aw'.left = task[m].left
<1>1. aw = NoEntry /\ AwPick(m) /\ AwValid(m) /\ latched = {}
  BY DEF AwHandshake, AwPick
<1>2. \A n \in Masters : AwHandshake(n) => n = m
  BY <1>1, OnePick DEF AwHandshake
<1>3. ~WHandshake
  BY <1>1, WritesAre
<1>4. wMaster' = m
  BY <1>1, OnePick DEF ArbiterEdge, Masters
<1>5. latched' = {m}
  BY <1>1, <1>2, <1>3 DEF ArbiterEdge, LatchedNext
<1>6. aw' = Requested(m)
  BY <1>2 DEF WriteEdge
<1>7. IdOf(m) \in Ids /\ task[m].left \in 1 .. Beats
  BY <1>1, SendsAre DEF Inv
<1>8. Requested(m) \in [id : Ids, left : 1 .. Beats + 1, timer : 0 .. Latency]
  BY <1>7, Sizes DEF Requested
<1>9. QED
  BY <1>1, <1>2, <1>3, <1>4, <1>5, <1>6, <1>8, EntriesAre, Sizes DEF Requested

LEMMA WriteInvStep ==
  ASSUME Inv, MasterEdge, ArbiterEdge, WriteEdge
  PROVE  WriteInv' /\ aw' \in EntryType /\ latched' \subseteq Masters /\ wMaster' \in Masters
<1>1. ASSUME NEW m \in Masters PROVE WriteMoves(m)
  BY MasterStep, Expected DEF Inv, Moved
<1>2. \A m \in Masters : Sends(task'[m]) =>
        /\ task'[m].op = task[m].op /\ task'[m].slot = task[m].slot /\ task'[m].left <= task[m].left
        /\ IdOf(m)' = IdOf(m)
  BY <1>1 DEF WriteMoves, IdOf
<1>3. ASSUME NEW m \in Masters, AwHandshake(m)
      PROVE  WriteInv' /\ aw' \in EntryType /\ latched' \subseteq Masters /\ wMaster' \in Masters
  <2>1. /\ aw = NoEntry /\ ~WHandshake /\ ~AwHandshake(Other(m))
        /\ latched' = {m} /\ wMaster' = m
        /\ aw' \in EntryType /\ aw' # NoEntry /\ aw'.id = IdOf(m) /\ aw'.left = task[m].left
    BY <1>3, AddressTaken
  <2>2. Sends(task'[m])
    BY <1>1, <1>3 DEF WriteMoves
  <2>3. ~Sends(task'[Other(m)])
    BY <1>1, <2>1, Sizes DEF WriteMoves, Inv, WriteInv
  <2>4. QED
    BY <1>2, <2>1, <2>2, <2>3 DEF WriteInv
<1>4. ASSUME \A m \in Masters : ~AwHandshake(m)
      PROVE  WriteInv' /\ aw' \in EntryType /\ latched' \subseteq Masters /\ wMaster' \in Masters
  <2>1. /\ aw' = IF LastTaken THEN NoEntry ELSE aw
        /\ latched' = IF LastTaken THEN {} ELSE latched
        /\ wMaster' = wMaster
    BY <1>4, WritesAre DEF WriteEdge, ArbiterEdge, LatchedNext, LastTaken
  <2>2. aw' \in EntryType /\ latched' \subseteq Masters /\ wMaster' \in Masters
    BY <2>1, EntriesAre DEF Inv, Registers
  <2>3. \A m \in Masters : Sends(task'[m]) <=> Sends(task[m]) /\ ~(m = wMaster /\ LastTaken)
    BY <1>1, <1>4, WritesAre DEF WriteMoves, WLast
  <2>4. CASE aw = NoEntry
    <3>1. ~LastTaken /\ latched = {} /\ \A m \in Masters : ~Sends(task[m])
      BY <2>4, WritesAre DEF Inv, WriteInv
    <3>2. aw' = NoEntry /\ latched' = {} /\ \A m \in Masters : ~Sends(task'[m])
      BY <2>1, <2>3, <2>4, <3>1
    <3>3. QED
      BY <2>2, <3>2 DEF WriteInv
  <2>5. CASE aw # NoEntry
    <3>1. /\ latched = {wMaster} /\ wMaster \in Masters /\ Other(wMaster) \in Masters /\ Other(wMaster) # wMaster
          /\ Sends(task[wMaster]) /\ ~Sends(task[Other(wMaster)])
          /\ aw.id = IdOf(wMaster) /\ aw.left >= task[wMaster].left
      BY <2>5, Sizes DEF Inv, WriteInv, Registers
    <3>2. CASE LastTaken
      <4>1. \A m \in Masters : m = wMaster \/ m = Other(wMaster)
        BY <3>1 DEF Masters, Other
      <4>2. \A m \in Masters : ~Sends(task'[m])
        BY <2>3, <3>1, <3>2, <4>1
      <4>3. QED
        BY <2>1, <2>2, <3>2, <4>2 DEF WriteInv
    <3>3. CASE ~LastTaken
      <4>1. Sends(task'[wMaster]) /\ ~Sends(task'[Other(wMaster)])
        BY <2>3, <3>1, <3>3
      <4>2. IdOf(wMaster)' = IdOf(wMaster) /\ task'[wMaster].left <= task[wMaster].left
        BY <1>2, <2>1, <3>1, <4>1 DEF IdOf
      <4>3. aw.left >= task'[wMaster].left
        <5>1. aw.left \in Int /\ task[wMaster].left \in Int
          BY <2>5, <3>1, EntriesAre, SendsAre DEF Inv, Registers
        <5>2. task'[wMaster].left \in Int
          <6>1. \A m \in Masters : Shape(m)'
            BY MasterStep, Expected DEF Inv, Moved, AccessesMove
          <6>2. QED
            BY <3>1, <6>1 DEF Shape, ShapeOf, TaskType, Idle
        <5>3. QED
          BY <3>1, <4>2, <5>1, <5>2
      <4>4. QED
        BY <2>1, <2>2, <2>5, <3>1, <3>3, <4>1, <4>2, <4>3 DEF WriteInv
    <3>4. QED
      BY <3>2, <3>3
  <2>6. QED
    BY <2>2, <2>4, <2>5
<1>5. QED
  BY <1>3, <1>4

-----------------------------------------------------------------------------
(***************************************************************************)
(* The lock.                                                               *)
(***************************************************************************)
LEMMA LockInvStep ==
  ASSUME Inv, MasterEdge, ArbiterEdge
  PROVE  LockInv' /\ locked' \subseteq Masters /\ lockId' \in [Masters -> Ids]
<1>1. ASSUME NEW m \in Masters
      PROVE  Holds(task'[m]) <=> (Holds(task[m]) /\ ~RHandshake(m)) \/ (ArHandshake(m) /\ Locks(m))
  BY MasterStep, Expected DEF Inv, Moved, BurstMoves, Locks
<1>2. ASSUME NEW m \in Masters, Holds(task[m])
      PROVE  ~ArHandshake(m) /\ lockId[m] = 0 /\ m \in locked
             /\ (RHandshake(m) => RLast /\ rq[presented].id = 0)
  <2>1. ~ArHandshake(m)
    BY <1>2 DEF Holds, ArHandshake, ArPick, ArValid
  <2>2. lockId[m] = 0 /\ m \in locked
    BY <1>2 DEF Inv, LockInv
  <2>3. task[m].left = 1 /\ Bursting(task[m])
    BY <1>2 DEF Inv, Shape, ShapeOf, LockedShape, Holds, Bursting
  <2>4. QED
    BY <2>1, <2>2, <2>3, Served DEF RLast
<1>3. ASSUME NEW m \in Masters, ArHandshake(m), Locks(m) PROVE IdOf(m) = 0 /\ ~Holds(task[m])
  BY <1>3 DEF IdOf, Smoke, Locks, ArHandshake, ArPick, ArValid, Holds
<1>4. \A m \in Masters : m \in locked <=> Holds(task[m])
  BY DEF Inv, LockInv
<1>5. ASSUME NEW m \in Masters PROVE Unlocked(m) <=> Holds(task[m]) /\ RHandshake(m)
  BY <1>2, <1>4 DEF Unlocked
<1>6. locked' = {m \in Masters : Holds(task'[m])}
  <2>1. locked' \subseteq Masters
    BY DEF ArbiterEdge, LockedNext, Inv, Registers
  <2>2. ASSUME NEW m \in Masters PROVE m \in locked' <=> Holds(task'[m])
    BY <1>1, <1>3, <1>4, <1>5 DEF ArbiterEdge, LockedNext
  <2>3. QED
    BY <2>1, <2>2
<1>7. lockId' = [m \in Masters |-> IF ArHandshake(m) /\ Locks(m) THEN IdOf(m) ELSE lockId[m]]
  BY DEF ArbiterEdge
<1>8. \A m \in locked' : lockId'[m] = 0
  BY <1>1, <1>2, <1>3, <1>6, <1>7
<1>9. lockId' \in [Masters -> Ids]
  BY <1>3, <1>7, IdsAre DEF Inv, Registers
<1>10. QED
  BY <1>6, <1>8, <1>9 DEF LockInv

-----------------------------------------------------------------------------
(***************************************************************************)
(* The responses: the writes that wait for one gain the write whose data   *)
(* is taken and lose the one whose response is.                            *)
(***************************************************************************)
Seen(m) == task[m].phase = "resp" /\ BValid(m)
WriteDone(m) == IF BHandshake(m) \/ Seen(m) THEN {bid} ELSE {}
WriteAsked(m) == IF WTaken(m) /\ WLast(m) THEN {IdOf(m)} ELSE {}

LEMMA Responses ==
  ASSUME Inv, NEW m \in Masters
  PROVE  /\ BHandshake(m) \/ Seen(m) => bid # None /\ Owner(bid) = m
         /\ task[m].phase \in {"resp", "post_b"} => task[m].op = "burst_write" /\ m = 0
         /\ Ending(task[m]) /\ BHandshake(m) => task[m].phase = "resp"
         /\ Seen(m) => Ending(task[m]) /\ bid = 0
         /\ WTaken(m) => IdOf(m) \notin Answering(m) /\ Owner(IdOf(m)) = m /\ aw.id = IdOf(m)
         /\ task[m].phase = "post_b" /\ bid = 0 => BHandshake(m)
<1> DEFINE t == task[m]
<1>1. BHandshake(m) \/ Seen(m) => bid # None /\ Owner(bid) = m
  BY DEF BHandshake, Seen, BValid
<1>2. t.phase \in {"resp", "post_b"} => t.op = "burst_write" /\ m = 0
  BY DEF Inv, Shape, ShapeOf, TaskType, Idle, Calls, ReadShape, WriteShape, LockedShape, BurstReadShape, Smoke
<1>3. Ending(t) /\ BHandshake(m) => t.phase = "resp"
  BY DEF Ending, BHandshake, Inv, RespInv
<1>4. ASSUME Seen(m) PROVE Ending(t) /\ bid = 0
  <2>1. Ending(t) /\ m = 0
    BY <1>2, <1>4 DEF Seen, Ending
  <2>2. bid \in Answering(m)
    <3>1. task[0].phase # "post_b"
      BY <1>4, <2>1 DEF Seen
    <3>2. QED
      BY <1>1, <1>4, <3>1, OwnersAre DEF Inv, RespInv
  <2>3. Writing(m) = {}
    BY <2>1, Alone DEF Inv, Ending, Smoke
  <2>4. QED
    BY <2>1, <2>2, <2>3, AnsweringAre
<1>5. ASSUME WTaken(m) PROVE IdOf(m) \notin Answering(m) /\ Owner(IdOf(m)) = m /\ aw.id = IdOf(m)
  <2>1. t.op \in {"write", "burst_write"} /\ Sends(t) /\ aw.id = IdOf(m) /\ ~Ending(t)
    BY <1>5, WritesAre DEF Sends, Ending, WTaken, WValid
  <2>2. CASE t.op = "write"
    <3>1. t.slot \in RSlots(m) /\ IdOf(m) = 8 * m + t.slot /\ Unwritten(t) = {t.slot}
      BY <2>1, <2>2 DEF Inv, Shape, ShapeOf, WriteShape, IdOf, Smoke, Unwritten, Sends
    <3>2. t.slot \notin Writing(m)
      BY <3>1 DEF Writing
    <3>3. \A i \in Writing(m) : i # t.slot => 8 * m + i # IdOf(m)
      BY <3>1, SlotsAre DEF Inv, Masters
    <3>4. Owner(IdOf(m)) = m
      BY <3>1, IdsAre, Sizes
    <3>5. QED
      BY <2>1, <3>2, <3>3, <3>4, AnsweringAre
  <2>3. CASE t.op = "burst_write"
    <3>1. m = 0 /\ Writing(m) = {} /\ IdOf(m) = 0 /\ Owner(0) = 0
      BY <2>3, Alone DEF Inv, Smoke, IdOf, Owner
    <3>2. QED
      BY <2>1, <3>1, AnsweringAre
  <2>4. QED
    BY <2>1, <2>2, <2>3
<1>6. ASSUME t.phase = "post_b", bid = 0 PROVE BHandshake(m)
  <2>1. bready[m] /\ m = 0
    BY <1>2, <1>6 DEF Inv, RespInv
  <2>2. QED
    BY <1>6, <2>1 DEF BHandshake, BValid, Owner, None
<1>7. QED
  BY <1>1, <1>2, <1>3, <1>4, <1>5, <1>6

LEMMA AnsweringStep ==
  ASSUME Inv, MasterEdge, NEW m \in Masters
  PROVE  Answering(m)' = (Answering(m) \ WriteDone(m)) \cup WriteAsked(m)
<1> DEFINE t == task[m]
           u == task'[m]
<1>1. AccessesMove(m) /\ WriteMoves(m)
  BY MasterStep, Expected DEF Inv, Moved
<1>2. \A id : id \in Answering(m)' <=> (\E i \in Writing(m)' : id = 8 * m + i) \/ (id = 0 /\ Ending(u))
  BY DEF Answering
<1>3. Writing(m)' = (Writing(m) \ BGone(m)) \cup (IF WTaken(m) THEN Unwritten(t) ELSE {})
  BY <1>1 DEF AccessesMove
<1>4. Ending(u) <=> \/ WTaken(m) /\ WLast(m) /\ t.op = "burst_write"
                    \/ Ending(t) /\ ~Seen(m)
  BY <1>1 DEF WriteMoves, WLast, Seen
<1>5. CASE t.op = "burst_write"
  <2>1. Writing(m) = {} /\ Unwritten(t) = {} /\ IdOf(m) = 0
    BY <1>5, Alone DEF Inv, Smoke, Unwritten, IdOf
  <2>2. Answering(m)' = IF Ending(u) THEN {0} ELSE {}
    BY <1>2, <1>3, <2>1
  <2>3. Answering(m) = IF Ending(t) THEN {0} ELSE {}
    BY <2>1, AnsweringAre
  <2>4. CASE Ending(t)
    <3>1. ~WTaken(m)
      BY <2>4 DEF Ending, WTaken, WValid
    <3>2. BHandshake(m) \/ Seen(m) <=> Seen(m)
      BY <2>4, Responses DEF BHandshake, Seen
    <3>3. Seen(m) => bid = 0
      BY Responses
    <3>4. QED
      BY <1>4, <2>2, <2>3, <2>4, <3>1, <3>2, <3>3 DEF WriteDone, WriteAsked
  <2>5. CASE ~Ending(t)
    BY <1>4, <1>5, <2>1, <2>2, <2>3, <2>5 DEF WriteAsked
  <2>6. QED
    BY <2>4, <2>5
<1>6. CASE t.op # "burst_write"
  <2>1. ~Ending(t) /\ ~Ending(u) /\ ~Seen(m)
    BY <1>4, <1>6, Responses DEF Ending, Seen
  <2>2. ASSUME NEW i \in Writing(m) PROVE i \in BGone(m) <=> 8 * m + i \in WriteDone(m)
    BY <2>1, SlotsAre DEF Inv, BGone, SlotOf, WriteDone
  <2>3. Answering(m) = {8 * m + i : i \in Writing(m)}
    BY <2>1, AnsweringAre
  <2>4. CASE ~WTaken(m)
    BY <1>2, <1>3, <2>1, <2>2, <2>3, <2>4 DEF WriteAsked
  <2>5. CASE WTaken(m)
    <3>1. t.op = "write" /\ Sends(t)
      BY <1>6, <2>5, WritesAre
    <3>2. t.left = 1 /\ IdOf(m) = 8 * m + t.slot /\ Unwritten(t) = {t.slot}
      BY <3>1 DEF Inv, Shape, ShapeOf, WriteShape, IdOf, Smoke, Unwritten, Sends
    <3>3. WriteAsked(m) = {8 * m + t.slot} /\ Writing(m)' = (Writing(m) \ BGone(m)) \cup {t.slot}
      BY <1>3, <2>5, <3>2 DEF WriteAsked, WLast
    <3>4. QED
      BY <1>2, <2>1, <2>2, <2>3, <3>3
  <2>6. QED
    BY <2>4, <2>5
<1>7. QED
  BY <1>5, <1>6

-----------------------------------------------------------------------------
(***************************************************************************)
(* The slave's write responses.                                            *)
(***************************************************************************)
Popping == bid = None /\ Ready(bq) # {}
PoppedEntry == IF Popping THEN {Lowest(Ready(bq))} ELSE {}
AddedEntry == IF LastTaken THEN {Lowest(FreeEntries(bq))} ELSE {}

LEMMA RespQueueStep ==
  ASSUME Inv, WriteEdge
  PROVE  /\ bq' \in [Entries -> EntryType] /\ bid' \in Ids \cup {None}
         /\ Held' = (Held \ PoppedEntry) \cup AddedEntry
         /\ PoppedEntry \subseteq Held /\ AddedEntry \cap Held = {} /\ AddedEntry \subseteq Entries
         /\ \A e \in Held \ PoppedEntry : bq'[e].id = bq[e].id
         /\ \A e \in AddedEntry : bq'[e].id = aw.id
         /\ \A e \in PoppedEntry : bid = None /\ bid' = bq[e].id
         /\ PoppedEntry = {} => bid' = IF \E m \in Masters : BHandshake(m) THEN None ELSE bid
<1> DEFINE f == Lowest(FreeEntries(bq))
           p == Lowest(Ready(bq))
           x == [id |-> aw.id, left |-> 1, timer |-> Latency]
<1>1. \A e \in Entries : bq'[e] = IF LastTaken /\ e = f THEN x
                                  ELSE IF Popping /\ e = p THEN NoEntry
                                  ELSE Tick(bq[e])
  BY DEF WriteEdge, LastTaken, Popping
<1>2. bq' = [e \in Entries |-> bq'[e]]
  BY DEF WriteEdge
<1>3. bq \in [Entries -> EntryType] /\ aw \in EntryType /\ bid \in Ids \cup {None}
  BY DEF Inv, Registers
<1>4. LastTaken => f \in Entries /\ f \notin Held /\ AddedEntry = {f} /\ x \in EntryType /\ x # NoEntry
  <2>1. ASSUME LastTaken PROVE FreeEntries(bq) # {} /\ aw # NoEntry
    BY <2>1 DEF LastTaken, WHandshake, SlaveWReady
  <2>2. FreeEntries(bq) \in SUBSET Nat
    BY Sizes, LiveAre
  <2>3. LastTaken => f \in FreeEntries(bq)
    BY <2>1, <2>2, LowestIsIn
  <2>4. LastTaken => x \in [id : Ids, left : 1 .. Beats + 1, timer : 0 .. Latency]
    BY <1>3, <2>1, EntriesAre, Sizes
  <2>5. QED
    BY <2>3, <2>4, LiveAre, EntriesAre DEF AddedEntry
<1>5. Popping => p \in Held /\ PoppedEntry = {p}
  <2>1. Ready(bq) \subseteq Held /\ Ready(bq) \in SUBSET Nat
    BY Sizes, LiveAre DEF Ready
  <2>2. QED
    BY <2>1, LowestIsIn DEF Popping, PoppedEntry
<1> HIDE DEF f, p, x
<1>6. ASSUME NEW e \in Held
      PROVE  /\ e \in PoppedEntry => bq'[e] = NoEntry
             /\ e \notin PoppedEntry => bq'[e] \in EntryType /\ bq'[e] # NoEntry /\ bq'[e].id = bq[e].id
  <2>1. e \in Entries /\ bq[e] # NoEntry /\ bq[e] \in EntryType /\ ~(LastTaken /\ e = f)
    BY <1>3, <1>4, LiveAre
  <2>2. CASE e \in PoppedEntry
    BY <1>1, <1>5, <2>1, <2>2 DEF PoppedEntry
  <2>3. CASE e \notin PoppedEntry
    <3>1. bq'[e] = Tick(bq[e])
      BY <1>1, <1>5, <2>1, <2>3
    <3>2. bq'[e] \in EntryType /\ bq'[e].id = bq[e].id
      BY <2>1, <3>1, TicksAre
    <3>3. QED
      BY <2>1, <2>3, <3>2, EntriesAre
  <2>4. QED
    BY <2>2, <2>3
<1>7. ASSUME NEW e \in Entries, e \notin Held, e \notin AddedEntry
      PROVE  bq'[e] = NoEntry
  <2>1. bq[e] = NoEntry /\ ~(LastTaken /\ e = f) /\ ~(Popping /\ e = p)
    BY <1>4, <1>5, <1>7, LiveAre
  <2>2. QED
    BY <1>1, <2>1, TicksOfNone
<1>8. ASSUME NEW e \in AddedEntry
      PROVE  e \in Entries /\ e \notin Held /\ bq'[e] = x /\ x \in EntryType /\ x # NoEntry
  BY <1>1, <1>4, <1>8 DEF AddedEntry
<1>9. bq' \in [Entries -> EntryType]
  <2>1. ASSUME NEW e \in Entries PROVE bq'[e] \in EntryType
    BY <1>6, <1>7, <1>8, EntriesAre
  <2>2. QED
    BY <1>2, <2>1
<1>10. Held' = (Held \ PoppedEntry) \cup AddedEntry
  <2>1. Held' = {e \in Entries : bq'[e] # NoEntry}
    BY DEF Held, FreeEntries
  <2>2. ASSUME NEW e \in Entries PROVE bq'[e] # NoEntry <=> e \in (Held \ PoppedEntry) \cup AddedEntry
    BY <1>6, <1>7, <1>8
  <2>3. Held \subseteq Entries /\ AddedEntry \subseteq Entries
    BY <1>8, LiveAre
  <2>4. QED
    BY <2>1, <2>2, <2>3
<1>11. PoppedEntry \subseteq Held
  BY <1>5 DEF PoppedEntry
<1>12. \A e \in PoppedEntry : bid = None /\ bid' = bq[e].id
  BY DEF PoppedEntry, Popping, WriteEdge
<1>13. PoppedEntry = {} => bid' = IF \E m \in Masters : BHandshake(m) THEN None ELSE bid
  BY DEF PoppedEntry, Popping, WriteEdge
<1>14. bid' \in Ids \cup {None}
  <2>1. ASSUME NEW e \in PoppedEntry PROVE bid' \in Ids
    BY <1>3, <1>11, <1>12, LiveAre, EntriesAre
  <2>2. QED
    BY <1>3, <1>13, <2>1
<1>15. \A e \in AddedEntry : bq'[e].id = aw.id
  BY <1>8 DEF x
<1>16. QED
  BY <1>6, <1>8, <1>9, <1>10, <1>11, <1>12, <1>13, <1>14, <1>15

LEMMA BusyReady ==
  ASSUME Inv, MasterEdge, NEW m \in Masters, task'[m].op = "burst_write"
  PROVE  /\ task'[m].phase = "post_b" => bready'[m]
         /\ task'[m].phase \in {"aw", "gap_w", "beat_w"} => ~bready'[m]
<1> DEFINE t == task[m]
           u == task'[m]
<1>1. bready'[m] \in {NeedsB(m, t), NeedsB(m, u)}
  BY ReadyMoves
<1>2. WriteMoves(m)
  BY MasterStep, Expected DEF Inv, Moved
<1>3. ASSUME u.phase = "post_b" PROVE bready'[m]
  <2>1. t.phase = "resp"
    BY <1>2, <1>3 DEF WriteMoves
  <2>2. NeedsB(m, t) = TRUE /\ NeedsB(m, u) = TRUE
    BY <1>3, <2>1 DEF NeedsB
  <2>3. QED
    BY <1>1, <2>2
<1>4. ASSUME u.phase \in {"aw", "gap_w", "beat_w"} PROVE ~bready'[m]
  <2>1. t.op = "burst_write" /\ t.phase \in {"pre", "aw", "gap_w", "beat_w"}
    BY <1>2, <1>4 DEF WriteMoves
  <2>2. Taken(wslot[m]) = {}
    BY <2>1, Alone DEF Inv, Smoke
  <2>3. NeedsB(m, t) = FALSE /\ NeedsB(m, u) = FALSE
    BY <1>4, <2>1, <2>2 DEF NeedsB
  <2>4. QED
    BY <1>1, <2>3
<1>5. QED
  BY <1>3, <1>4

LEMMA RespInvStep ==
  ASSUME Inv, MasterEdge, WriteEdge
  PROVE  RespInv'
<1>1. /\ Held' = (Held \ PoppedEntry) \cup AddedEntry
      /\ PoppedEntry \subseteq Held /\ AddedEntry \cap Held = {}
      /\ \A e \in Held \ PoppedEntry : bq'[e].id = bq[e].id
      /\ \A e \in AddedEntry : bq'[e].id = aw.id
      /\ \A e \in PoppedEntry : bid = None /\ bid' = bq[e].id
      /\ PoppedEntry = {} => bid' = IF \E m \in Masters : BHandshake(m) THEN None ELSE bid
  BY RespQueueStep
<1>2. \A m \in Masters : Answering(m)' = (Answering(m) \ WriteDone(m)) \cup WriteAsked(m)
  BY AnsweringStep
<1>3. \A e \in Held : (\E m \in Masters : bq[e].id \in Answering(m)) /\ bq[e].id # bid
  BY DEF Inv, RespInv
<1>4. \A e, f \in Held : bq[e].id = bq[f].id => e = f
  BY DEF Inv, RespInv
<1>5. \A m \in Masters : \A id \in Answering(m) : Owner(id) = m /\ id # None
  BY OwnersAre, IdsAre DEF Inv, None
<1>6. \A m \in Masters : WriteDone(m) \subseteq {bid} /\ (bid = None => WriteDone(m) = {})
  BY Responses DEF WriteDone
<1>7. ASSUME LastTaken
      PROVE  /\ wMaster \in Masters /\ aw.id \in WriteAsked(wMaster)
             /\ \A n \in Masters : aw.id \notin Answering(n)
             /\ aw.id # bid \/ \E n \in Masters : BHandshake(n)
  <2>1. wMaster \in Masters
    BY DEF Inv, Registers
  <2>2. WTaken(wMaster) /\ WLast(wMaster)
    BY <1>7, <2>1, WritesAre
  <2>3. aw.id = IdOf(wMaster) /\ Owner(aw.id) = wMaster /\ aw.id \notin Answering(wMaster)
    BY <2>1, <2>2, Responses
  <2>4. \A n \in Masters : aw.id \notin Answering(n)
    BY <1>5, <2>3
  <2>5. aw.id # None
    <3>1. aw # NoEntry /\ aw \in EntryType
      BY <1>7, WritesAre DEF Inv, Registers
    <3>2. QED
      BY <3>1, EntriesAre
  <2>6. ASSUME aw.id = bid PROVE BHandshake(0)
    <3>1. bid = 0 /\ task[0].phase = "post_b"
      BY <2>4, <2>5, <2>6 DEF Inv, RespInv
    <3>2. QED
      BY <3>1, Responses DEF Masters
  <2>7. QED
    BY <2>1, <2>2, <2>3, <2>4, <2>6 DEF WriteAsked, Masters
<1>8. AddedEntry # {} => LastTaken
  BY DEF AddedEntry
<1>9. ASSUME NEW e \in Held' PROVE \E m \in Masters : bq'[e].id \in Answering(m)'
  <2>1. CASE e \in AddedEntry
    BY <1>1, <1>2, <1>7, <1>8, <2>1
  <2>2. CASE e \in Held \ PoppedEntry
    BY <1>1, <1>2, <1>3, <1>6, <2>2
  <2>3. QED
    BY <1>1, <2>1, <2>2
<1>10. ASSUME bid' # None
       PROVE  (\E m \in Masters : bid' \in Answering(m)') \/ (bid' = 0 /\ task'[0].phase = "post_b")
  <2>1. CASE PoppedEntry # {}
    <3>1. PICK e \in Held : bid' = bq[e].id /\ bid = None
      BY <1>1, <2>1
    <3>2. QED
      BY <1>2, <1>3, <1>6, <3>1
  <2>2. CASE PoppedEntry = {}
    <3>1. bid' = bid /\ ~(\E m \in Masters : BHandshake(m))
      BY <1>1, <1>10, <2>2
    <3>2. ~(bid = 0 /\ task[0].phase = "post_b")
      BY <3>1, Responses DEF Masters
    <3>3. PICK m \in Masters : bid \in Answering(m)
      BY <1>10, <3>1, <3>2 DEF Inv, RespInv
    <3>4. CASE Seen(m)
      <4>1. WriteMoves(m)
        BY MasterStep, Expected DEF Inv, Moved
      <4>2. bid = 0 /\ m = 0 /\ task'[m].phase = "post_b"
        BY <3>4, <4>1, Responses DEF WriteMoves, Seen
      <4>3. QED
        BY <3>1, <4>2
    <3>5. CASE ~Seen(m)
      BY <1>2, <3>1, <3>3, <3>5 DEF WriteDone
    <3>6. QED
      BY <3>4, <3>5
  <2>3. QED
    BY <2>1, <2>2
<1>11. ASSUME NEW m \in Masters, NEW id \in Answering(m)'
       PROVE  id = bid' \/ \E e \in Held' : bq'[e].id = id
  <2>1. CASE id \in WriteAsked(m)
    <3>1. WTaken(m) /\ WLast(m) /\ id = IdOf(m)
      BY <2>1 DEF WriteAsked
    <3>2. LastTaken /\ id = aw.id
      BY <3>1, WritesAre
    <3>3. Lowest(FreeEntries(bq)) \in AddedEntry
      BY <3>2 DEF AddedEntry
    <3>4. QED
      BY <1>1, <3>2, <3>3
  <2>2. CASE id \in Answering(m) \ WriteDone(m)
    <3>1. CASE id = bid
      <4>1. bid # None /\ Owner(bid) = m
        BY <1>5, <2>2, <3>1
      <4>2. PoppedEntry = {}
        BY <1>1, <4>1
      <4>3. ASSUME NEW n \in Masters, BHandshake(n) PROVE FALSE
        BY <2>2, <3>1, <4>1, <4>3, Responses DEF WriteDone
      <4>4. QED
        BY <1>1, <3>1, <4>2, <4>3
    <3>2. CASE id # bid
      BY <1>1, <2>2, <3>2 DEF Inv, RespInv
    <3>3. QED
      BY <3>1, <3>2
  <2>3. QED
    BY <1>2, <2>1, <2>2
<1>12. \A e, f \in Held' : bq'[e].id = bq'[f].id => e = f
  <2>1. \A e, f \in AddedEntry : e = f
    BY DEF AddedEntry
  <2>2. \A e \in Held, f \in AddedEntry : bq[e].id # aw.id
    BY <1>3, <1>7, <1>8
  <2>3. QED
    BY <1>1, <1>4, <2>1, <2>2
<1>13. ASSUME NEW e \in Held' PROVE bq'[e].id # bid'
  <2>1. CASE PoppedEntry # {}
    <3>1. PICK p \in PoppedEntry : p \in Held /\ bid' = bq[p].id
      BY <1>1, <2>1
    <3>2. CASE e \in AddedEntry
      BY <1>1, <1>3, <1>7, <1>8, <3>1, <3>2
    <3>3. CASE e \in Held \ PoppedEntry
      BY <1>1, <1>4, <3>1, <3>3
    <3>4. QED
      BY <1>1, <3>2, <3>3
  <2>2. CASE PoppedEntry = {}
    <3>1. bq'[e].id # None
      <4>1. bq' \in [Entries -> EntryType] /\ e \in Entries /\ bq'[e] # NoEntry
        BY RespQueueStep DEF Held, FreeEntries
      <4>2. QED
        BY <4>1, EntriesAre
    <3>2. QED
      BY <1>1, <1>3, <1>7, <1>8, <2>2, <3>1
  <2>3. QED
    BY <2>1, <2>2
<1>14. \A m \in Masters : task'[m].op = "burst_write" =>
         /\ task'[m].phase = "post_b" => bready'[m]
         /\ task'[m].phase \in {"aw", "gap_w", "beat_w"} => ~bready'[m]
  BY BusyReady
<1>15. QED
  BY <1>9, <1>10, <1>11, <1>12, <1>13, <1>14 DEF RespInv

-----------------------------------------------------------------------------
(***************************************************************************)
(* The counters.                                                           *)
(***************************************************************************)
LEMMA EntriesAreFinite ==
  /\ IsFiniteSet(Entries) /\ Cardinality(Entries) = Depth
  /\ \A L \in SUBSET Entries : IsFiniteSet(L) /\ Cardinality(L) \in 0 .. Depth
<1>1. IsFiniteSet(Entries) /\ Cardinality(Entries) = Depth
  BY Sizes, FS_Interval DEF Entries
<1>2. ASSUME NEW L \in SUBSET Entries PROVE IsFiniteSet(L) /\ Cardinality(L) \in 0 .. Depth
  <2>1. IsFiniteSet(L) /\ Cardinality(L) <= Depth
    BY <1>1, FS_Subset
  <2>2. QED
    BY <2>1, FS_CardinalityType, Sizes
<1>3. QED
  BY <1>1, <1>2

LEMMA CountMoves ==
  ASSUME NEW L \in SUBSET Entries, NEW gone \in BOOLEAN, NEW g, gone => g \in L,
         NEW new \in BOOLEAN, NEW n, new => n \notin L
  PROVE  Cardinality((L \ (IF gone THEN {g} ELSE {})) \cup (IF new THEN {n} ELSE {}))
           = Cardinality(L) + Count(new) - Count(gone)
<1> DEFINE K == L \ (IF gone THEN {g} ELSE {})
<1>1. IsFiniteSet(L) /\ Cardinality(L) \in Nat
  BY EntriesAreFinite, Sizes
<1>2. IsFiniteSet(K) /\ Cardinality(K) = Cardinality(L) - Count(gone)
  <2>1. CASE gone
    <3>1. K = L \ {g}
      BY <2>1
    <3>2. Cardinality(L \ {g}) = Cardinality(L) - 1 /\ IsFiniteSet(L \ {g})
      BY <1>1, <2>1, FS_RemoveElement
    <3>3. QED
      BY <2>1, <3>1, <3>2 DEF Count
  <2>2. CASE ~gone
    <3>1. K = L
      BY <2>2
    <3>2. QED
      BY <1>1, <2>2, <3>1 DEF Count
  <2>3. QED
    BY <2>1, <2>2
<1>3. new => n \notin K
  OBVIOUS
<1> HIDE DEF K
<1>4. CASE new
  <2>1. Cardinality(K \cup {n}) = Cardinality(K) + 1
    BY <1>2, <1>3, <1>4, FS_AddElement
  <2>2. Cardinality(K) \in Nat
    BY <1>2, FS_CardinalityType
  <2>3. Count(new) = 1 /\ Count(gone) \in {0, 1}
    BY <1>4 DEF Count
  <2>4. K \cup (IF new THEN {n} ELSE {}) = K \cup {n}
    BY <1>4
  <2>5. Cardinality(K \cup {n}) = Cardinality(L) + Count(new) - Count(gone)
    BY <1>1, <1>2, <2>1, <2>2, <2>3
  <2>6. QED
    BY <2>4, <2>5 DEF K
<1>5. CASE ~new
  <2>1. Count(new) = 0 /\ Count(gone) \in {0, 1}
    BY <1>5 DEF Count
  <2>2. K \cup (IF new THEN {n} ELSE {}) = K
    BY <1>5
  <2>3. Cardinality(K) = Cardinality(L) + Count(new) - Count(gone)
    BY <1>1, <1>2, <2>1
  <2>4. QED
    BY <2>2, <2>3 DEF K
<1>6. QED
  BY <1>4, <1>5

LEMMA ReadCountStep ==
  ASSUME Inv, ReadEdge
  PROVE  rqCount' = Cardinality(Live')
<1>1. /\ Live' = (Live \ GoneEntry) \cup NewEntry
      /\ GoneEntry \subseteq Live /\ NewEntry \cap Live = {}
  BY ReadQueueStep
<1>2. Live \in SUBSET Entries /\ rqCount = Cardinality(Live)
  BY LiveAre DEF Inv, Registers
<1>3. rqCount' = rqCount + Count(Asking) - Count(BeatTaken /\ RLast)
  <2>1. Asking <=> {m \in Masters : ArHandshake(m)} # {}
    BY DEF Asking
  <2>2. QED
    BY <2>1 DEF ReadEdge, BeatTaken, Count
<1> DEFINE gone == BeatTaken /\ RLast
<1>4. Asking \in BOOLEAN /\ gone \in BOOLEAN
  BY DEF Asking, BeatTaken, RLast
<1>5. GoneEntry = IF gone THEN {presented} ELSE {}
  BY DEF GoneEntry
<1>6. rqCount' = rqCount + Count(Asking) - Count(gone)
  BY <1>3
<1> HIDE DEF gone
<1>7. gone => presented \in Live
  BY <1>1, <1>5
<1>8. Asking => Lowest(FreeEntries(rq)) \notin Live
  BY <1>1 DEF NewEntry
<1>9. Cardinality((Live \ GoneEntry) \cup NewEntry) = Cardinality(Live) + Count(Asking) - Count(gone)
  BY <1>2, <1>4, <1>5, <1>7, <1>8, CountMoves DEF NewEntry
<1>10. QED
  BY <1>1, <1>2, <1>6, <1>9

LEMMA RespCountStep ==
  ASSUME Inv, WriteEdge
  PROVE  bqCount' = Cardinality(Held')
<1>1. /\ Held' = (Held \ PoppedEntry) \cup AddedEntry
      /\ PoppedEntry \subseteq Held /\ AddedEntry \cap Held = {}
  BY RespQueueStep
<1>2. Held \in SUBSET Entries /\ bqCount = Cardinality(Held)
  BY LiveAre DEF Inv, Registers
<1>3. bqCount' = bqCount + Count(LastTaken) - Count(Popping)
  BY DEF WriteEdge, LastTaken, Popping
<1>4. LastTaken \in BOOLEAN /\ Popping \in BOOLEAN
  BY DEF LastTaken, Popping
<1>5. Cardinality((Held \ PoppedEntry) \cup AddedEntry) = Cardinality(Held) + Count(LastTaken) - Count(Popping)
  <2>1. Popping => Lowest(Ready(bq)) \in Held
    BY <1>1 DEF PoppedEntry
  <2>2. LastTaken => Lowest(FreeEntries(bq)) \notin Held
    BY <1>1 DEF AddedEntry
  <2>3. QED
    BY <1>2, <1>4, <2>1, <2>2, CountMoves DEF PoppedEntry, AddedEntry
<1>6. QED
  BY <1>1, <1>2, <1>3, <1>5

-----------------------------------------------------------------------------
(***************************************************************************)
(* The invariant is inductive.                                             *)
(***************************************************************************)
LEMMA InvInit == Init => Inv
<1> SUFFICES ASSUME Init PROVE Inv
  OBVIOUS
<1>1. \A m \in Masters : /\ task[m] = Idle
                         /\ rslot[m] = [i \in RSlots(m) |-> "free"]
                         /\ wslot[m] = [i \in RSlots(m) |-> "free"]
  BY DEF Init
<1>2. \A m \in Masters : Taken(rslot[m]) = {} /\ Taken(wslot[m]) = {}
  BY <1>1 DEF Taken
<1>3. \A m \in Masters : Shape(m)
  <2>1. \A m \in Masters : rslot[m] \in [RSlots(m) -> States] /\ wslot[m] \in [RSlots(m) -> States]
    BY <1>1 DEF States
  <2>2. Idle \in TaskType /\ Idle.op = "none"
    BY DEF TaskType, Idle
  <2>3. QED
    BY <1>1, <2>1, <2>2 DEF Shape, ShapeOf, Smoke
<1>4. Live = {} /\ Held = {}
  BY DEF Init, Live, Held, FreeEntries
<1>5. \A m \in Masters : /\ Accepted(m) = {} /\ Answering(m) = {}
                         /\ ~Sends(task[m]) /\ ~Holds(task[m]) /\ task[m].phase = "idle" /\ task[m].op = "none"
  <2>1. \A m \in Masters : task[m].phase = "idle" /\ task[m].op = "none"
    <3>1. Idle.phase = "idle" /\ Idle.op = "none"
      BY DEF Idle
    <3>2. QED
      BY <1>1, <3>1
  <2>2. \A m \in Masters : /\ ~Bursting(task[m]) /\ ~Ending(task[m]) /\ ~Sends(task[m]) /\ ~Holds(task[m])
                           /\ Reading(m) = {} /\ Writing(m) = {}
    BY <1>2, <2>1 DEF Bursting, Ending, Sends, Holds, Reading, Writing
  <2>3. QED
    BY <2>1, <2>2, AcceptedAre, AnsweringAre
<1>6. Registers
  <2>1. Cardinality({}) = 0
    BY FS_EmptySet
  <2>2. task \in [Masters -> TaskType]
    BY DEF Init, TaskType
  <2>3. rready \in [Masters -> BOOLEAN] /\ bready \in [Masters -> BOOLEAN] /\ lockId \in [Masters -> Ids]
    BY IdsAre DEF Init
  <2>4. rq \in [Entries -> EntryType] /\ bq \in [Entries -> EntryType] /\ aw \in EntryType
    BY EntriesAre DEF Init
  <2>5. QED
    BY <1>4, <2>1, <2>2, <2>3, <2>4 DEF Init, Registers, Masters
<1>7. ReadInv /\ LockInv
  BY <1>4, <1>5 DEF Init, ReadInv, LockInv
<1>8. WriteInv
  BY <1>5 DEF Init, WriteInv
<1>9. RespInv
  BY <1>4, <1>5 DEF Init, RespInv
<1>10. QED
  BY <1>3, <1>6, <1>7, <1>8, <1>9 DEF Inv

LEMMA InvRise ==
  ASSUME Inv, Rise, Clock
  PROVE  Inv'
<1>1. MasterEdge /\ ArbiterEdge /\ ReadEdge /\ WriteEdge
  BY DEF Rise
<1>2. ASSUME NEW m \in Masters PROVE Shape(m)'
  BY <1>1, MasterStep, Expected DEF Inv, Moved, AccessesMove
<1>3. WriteInv' /\ aw' \in EntryType /\ latched' \subseteq Masters /\ wMaster' \in Masters
  BY <1>1, WriteInvStep
<1>4. LockInv' /\ locked' \subseteq Masters /\ lockId' \in [Masters -> Ids]
  BY <1>1, LockInvStep
<1>5. Registers'
  <2>1. task' \in [Masters -> TaskType]
    <3>1. task' = [m \in Masters |-> task'[m]]
      BY <1>1 DEF MasterEdge, Both
    <3>2. \A m \in Masters : task'[m] \in TaskType
      BY <1>2 DEF Shape, ShapeOf
    <3>3. QED
      BY <3>1, <3>2
  <2>2. rready' \in [Masters -> BOOLEAN] /\ bready' \in [Masters -> BOOLEAN]
    <3>1. rready' = [m \in Masters |-> rready'[m]] /\ bready' = [m \in Masters |-> bready'[m]]
      BY <1>1 DEF MasterEdge, Both
    <3>2. \A m \in Masters : \A t : NeedsR(m, t) \in BOOLEAN /\ NeedsB(m, t) \in BOOLEAN
      BY DEF NeedsR, NeedsB
    <3>3. \A m \in Masters : rready'[m] \in BOOLEAN /\ bready'[m] \in BOOLEAN
      BY <1>1, <3>2, ReadyMoves
    <3>4. QED
      BY <3>1, <3>3
  <2>3. arGrant' \in Masters /\ awGrant' \in Masters
    BY <1>1 DEF ArbiterEdge, Inv, Registers, Masters
  <2>4. rq' \in [Entries -> EntryType] /\ presented' \in Entries \cup {None}
    <3>1. Live' \subseteq Entries
      BY DEF Live
    <3>2. rq' \in [Entries -> EntryType] /\ (presented' # None => presented' \in Live')
      BY <1>1, ReadQueueStep
    <3>3. QED
      BY <3>1, <3>2
  <2>5. bq' \in [Entries -> EntryType] /\ bid' \in Ids \cup {None}
    BY <1>1, RespQueueStep
  <2>6. rqCount' = Cardinality(Live)' /\ bqCount' = Cardinality(Held)'
    BY <1>1, ReadCountStep, RespCountStep
  <2>7. clk' \in BOOLEAN
    BY DEF Clock
  <2>8. QED
    BY <1>3, <1>4, <2>1, <2>2, <2>3, <2>4, <2>5, <2>6, <2>7 DEF Registers
<1>6. ReadInv' /\ RespInv'
  BY <1>1, ReadInvStep, RespInvStep
<1>7. QED
  BY <1>2, <1>3, <1>4, <1>5, <1>6 DEF Inv

LEMMA InvNext == Inv /\ [Next]_vars => Inv'
<1> SUFFICES ASSUME Inv, [Next]_vars PROVE Inv'
  OBVIOUS
<1>1. CASE Clock /\ Rise
  BY <1>1, InvRise
<1>2. ASSUME UNCHANGED <<master, arbiter, slave>>, clk' \in BOOLEAN PROVE Inv'
  <2>1. /\ task' = task /\ rslot' = rslot /\ wslot' = wslot /\ rready' = rready /\ bready' = bready
        /\ arGrant' = arGrant /\ awGrant' = awGrant /\ wMaster' = wMaster /\ latched' = latched
        /\ locked' = locked /\ lockId' = lockId
        /\ rq' = rq /\ rqCount' = rqCount /\ presented' = presented /\ aw' = aw
        /\ bq' = bq /\ bqCount' = bqCount /\ bid' = bid
    BY <1>2 DEF master, arbiter, slave
  <2>2. (\A m \in Masters : Shape(m))'
    BY <2>1 DEF Inv, Shape
  <2>3. Registers'
    BY <1>2, <2>1 DEF Inv, Registers, Live, Held, FreeEntries
  <2>4. ReadInv'
    <3>1. Live' = Live /\ \A m \in Masters : Accepted(m)' = Accepted(m)
      BY <2>1 DEF Live, FreeEntries, Accepted, Taken
    <3>2. QED
      BY <2>1, <3>1 DEF Inv, ReadInv
  <2>5. WriteInv' /\ LockInv'
    BY <2>1 DEF Inv, WriteInv, LockInv, IdOf
  <2>6. RespInv'
    <3>1. Held' = Held /\ \A m \in Masters : Answering(m)' = Answering(m)
      BY <2>1 DEF Held, FreeEntries, Answering, Writing, Taken
    <3>2. QED
      BY <2>1, <3>1 DEF Inv, RespInv
  <2>7. QED
    BY <2>2, <2>3, <2>4, <2>5, <2>6 DEF Inv
<1>3. CASE Clock /\ Fall
  BY <1>2, <1>3 DEF Clock, Fall
<1>4. CASE UNCHANGED vars
  BY <1>2, <1>4 DEF vars, Inv, Registers
<1>5. QED
  BY <1>1, <1>3, <1>4 DEF Next

LEMMA InvAlways == Spec => []Inv
BY InvInit, InvNext, PTL DEF Spec

-----------------------------------------------------------------------------
(***************************************************************************)
(* The theorems.                                                           *)
(***************************************************************************)
LEMMA InvNoOrphans == Inv => NoOrphans
<1> SUFFICES ASSUME Inv, NEW m \in Masters
             PROVE  /\ RHandshake(m) => \/ SlotOf(m, rslot[m], rq[presented].id) # {}
                                        \/ SmokeWaits(m, {"beat_r"}) /\ rq[presented].id = 0
                    /\ BHandshake(m) => \/ SlotOf(m, wslot[m], bid) # {}
                                        \/ SmokeWaits(m, {"resp", "post_b"}) /\ bid = 0
  BY DEF NoOrphans
<1>1. ASSUME RHandshake(m)
      PROVE  \/ SlotOf(m, rslot[m], rq[presented].id) # {}
             \/ SmokeWaits(m, {"beat_r"}) /\ rq[presented].id = 0
  <2>1. CASE Bursting(task[m])
    BY <1>1, <2>1, Served DEF SmokeWaits, Bursting, Smoke
  <2>2. CASE ~Bursting(task[m])
    <3>1. PICK i \in Reading(m) : rq[presented].id = 8 * m + i
      BY <1>1, <2>2, Served, AcceptedAre
    <3>2. i \in SlotOf(m, rslot[m], rq[presented].id)
      BY <3>1 DEF SlotOf, Reading
    <3>3. QED
      BY <3>2
  <2>3. QED
    BY <2>1, <2>2
<1>2. ASSUME BHandshake(m)
      PROVE  \/ SlotOf(m, wslot[m], bid) # {}
             \/ SmokeWaits(m, {"resp", "post_b"}) /\ bid = 0
  <2>1. bid # None /\ Owner(bid) = m
    BY <1>2, Responses
  <2>2. CASE bid = 0 /\ task[0].phase = "post_b"
    <3>1. m = 0 /\ task[m].op = "burst_write"
      BY <2>1, <2>2, Responses DEF Owner, Masters
    <3>2. QED
      BY <2>2, <3>1 DEF SmokeWaits, Smoke
  <2>3. CASE bid \in Answering(m)
    <3>1. CASE Ending(task[m])
      <4>1. task[m].phase = "resp" /\ task[m].op = "burst_write" /\ Writing(m) = {}
        BY <1>2, <3>1, Responses, Alone DEF Inv, Ending, Smoke
      <4>2. bid = 0
        BY <2>3, <4>1, AnsweringAre
      <4>3. QED
        BY <4>1, <4>2 DEF SmokeWaits, Smoke
    <3>2. CASE ~Ending(task[m])
      <4>1. PICK i \in Writing(m) : bid = 8 * m + i
        BY <2>3, <3>2, AnsweringAre
      <4>2. i \in SlotOf(m, wslot[m], bid)
        BY <4>1 DEF SlotOf, Writing
      <4>3. QED
        BY <4>2
    <3>3. QED
      BY <3>1, <3>2
  <2>4. QED
    BY <2>1, <2>2, <2>3, OwnersAre DEF Inv, RespInv
<1>3. QED
  BY <1>1, <1>2

LEMMA InvReads == Inv => ReadsAreBacked
<1> SUFFICES ASSUME Inv PROVE ReadsAreBacked
  OBVIOUS
<1> DEFINE A == Accepted(0) \cup Accepted(1)
           f == [e \in Live |-> rq[e].id]
<1>1. {rq[e].id : e \in Live} = A
  BY DEF Inv, ReadInv, Masters
<1>2. f \in Bijection(Live, A)
  <2>1. f \in [Live -> A]
    BY <1>1
  <2>2. \A e, g \in Live : f[e] = f[g] => e = g
    BY DEF Inv, ReadInv
  <2>3. \A id \in A : \E e \in Live : f[e] = id
    BY <1>1
  <2>4. f \in Injection(Live, A)
    BY <2>1, <2>2 DEF Injection, IsInjective
  <2>5. f \in Surjection(Live, A)
    BY <2>1, <2>3 DEF Surjection
  <2>6. QED
    BY <2>4, <2>5 DEF Bijection
<1>3. IsFiniteSet(Live)
  BY EntriesAreFinite, LiveAre
<1>4. Cardinality(A) = Cardinality(Live)
  BY <1>2, <1>3, FS_Bijection DEF ExistsBijection
<1>5. presented # None => rq[presented] # NoEntry
  BY LiveAre DEF Inv, ReadInv
<1>6. QED
  BY <1>1, <1>4, <1>5 DEF ReadsAreBacked, Live

LEMMA InvCounts == Inv => CountsAreKept
<1> SUFFICES ASSUME Inv PROVE CountsAreKept
  OBVIOUS
<1>1. rqCount = Cardinality(Live) /\ bqCount = Cardinality(Held)
  BY DEF Inv, Registers
<1>2. rqCount \in 0 .. Depth /\ bqCount \in 0 .. Depth
  <2>1. Live \in SUBSET Entries /\ Held \in SUBSET Entries
    BY LiveAre
  <2>2. QED
    BY <1>1, <2>1, EntriesAreFinite
<1>3. \A m \in Masters : /\ rslot[m] \in [RSlots(m) -> {"free", "busy", "done"}]
                         /\ wslot[m] \in [RSlots(m) -> {"free", "busy", "done"}]
  BY DEF Inv, Shape, ShapeOf, States
<1>4. TypeOK
  BY <1>2, <1>3 DEF TypeOK, Inv, Registers, TaskType, Phases
<1>5. QED
  BY <1>1, <1>4 DEF CountsAreKept, Live, Held

LEMMA InvWrites == Inv => WritesStayTogether
<1> SUFFICES ASSUME Inv PROVE WritesStayTogether
  OBVIOUS
<1>1. aw = NoEntry => latched = {}
  BY DEF Inv, WriteInv
<1>2. aw # NoEntry => /\ latched = {wMaster} /\ aw.id = IdOf(wMaster)
                      /\ task[wMaster].phase \in {"w", "gap_w", "beat_w"}
  BY DEF Inv, WriteInv, Sends
<1>3. QED
  BY <1>1, <1>2 DEF WritesStayTogether

LEMMA InvLock == Inv => LockIsExclusive
<1> SUFFICES ASSUME Inv, NEW m \in Masters, SmokeWaits(m, {"beat_r"}), Locks(m)
             PROVE  ~ArHandshake(Other(m))
  BY DEF LockIsExclusive
<1>1. m \in locked
  BY DEF Inv, LockInv, Holds, SmokeWaits, Locks
<1>2. Other(Other(m)) = m
  BY DEF Other, Masters
<1>3. QED
  BY <1>1, <1>2 DEF ArHandshake, ArPick

\* Whatever a master takes off R or B is what one of its slots or its burst
\* waits for (verif_axi_full_master.v:328, :337).
THEOREM NoResponseIsOrphan == Spec => []NoOrphans
BY InvAlways, InvNoOrphans, PTL

\* The slave holds one request for each read that is waited for, none other and
\* none twice (verif_axi_full_slave_simple.v:366).
THEOREM NoReadIsLost == Spec => []ReadsAreBacked
BY InvAlways, InvReads, PTL

\* No register of the fabric leaves its range, and rq_count and bq_count are
\* the number of valid entries (verif_axi_full_slave_simple.v:443-446).
THEOREM CountsAlwaysKept == Spec => []CountsAreKept
BY InvAlways, InvCounts, PTL

\* Arbiter and slave agree on whose write is under way, and that master is
\* sending it (verif_axi_arbiter_2m1s.v:131, :161).
THEOREM WritesNeverMix == Spec => []WritesStayTogether
BY InvAlways, InvWrites, PTL

\* From the address of a locked read to its last beat no address of the other
\* master is accepted (verif_axi_arbiter_2m1s.v, ar_pick_m0 and ar_pick_m1).
THEOREM LockAlwaysHolds == Spec => []LockIsExclusive
BY InvAlways, InvLock, PTL
=============================================================================
