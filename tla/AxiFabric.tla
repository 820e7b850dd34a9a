------------------------------ MODULE AxiFabric ------------------------------
(***************************************************************************)
(* Two AXI masters of VerifCPU share one slave through the arbiter         *)
(* (verif_axi_full_master.v, verif_axi_arbiter_2m1s.v and                  *)
(* verif_axi_full_slave_simple.v, wired as in tb/tb_amba_protocol.v).      *)
(*                                                                         *)
(* At a rising edge of ACLK every register takes a value computed from     *)
(* what all of them held before.  A test calls the tasks of a master one   *)
(* after the other, of the two masters independently.  The valid signals a *)
(* task drives reach the other modules through continuous assignments, so  *)
(* an edge samples them as they were.  smoke_*_active and the slots are    *)
(* read by the always block of their own module: it may run before or      *)
(* after the task, and both outcomes are modelled.  Out of the model:      *)
(* addresses and data, the snoop queue, AWLOCK, which no task drives,      *)
(* ENABLE_R_REORDER, and a reset in mid-transfer.                          *)
(*                                                                         *)
(* A definition named ...Variant is the one after it with a mistake in it: *)
(* the mutants of PROJECT.json put it in the place of the right one.       *)
(***************************************************************************)
EXTENDS Integers, FiniteSets

CONSTANTS
  Outstanding,  \* MAX_OUTSTANDING of each master
  Depth,        \* MAX_OUTSTANDING of the slave
  Latency,      \* R_LATENCY and B_LATENCY
  Beats,        \* beats of a burst
  Tasks         \* the tasks a test calls on each master

Masters == {0, 1}
Calls == {"read", "write", "locked", "burst_read", "burst_write"}
\* the tasks that drive ID 0, whatever ID_BASE is
Smoke == {"locked", "burst_read", "burst_write"}

ASSUME FabricAssumption ==
  /\ Outstanding \in [Masters -> 1 .. 8]
  /\ Depth \in Nat \ {0} /\ Latency \in Nat /\ Beats \in Nat \ {0}
  \* "M1 IDs must set this bit" (verif_axi_arbiter_2m1s.v:8)
  /\ Tasks \in [Masters -> SUBSET Calls] /\ Tasks[1] \cap Smoke = {}

VARIABLES
  task,       \* what each master's caller is in, and how far
  rslot,      \* r_slot_busy and r_slot_done of each master
  wslot,      \* w_slot_busy and w_slot_done
  rready,     \* RREADY of each master
  bready,     \* BREADY
  arGrant,    \* the arbiter's ar_grant
  awGrant,    \* aw_grant
  wMaster,    \* w_master
  latched,    \* the masters with aw_m*_latched
  locked,     \* the masters with m*_ar_locked
  lockId,     \* m*_ar_lock_id
  rq,         \* the slave's read requests
  rqCount,    \* rq_count
  presented,  \* r_present_slot, with RVALID
  aw,         \* the slave's latched write address, with aw_latched
  bq,         \* the slave's write responses
  bqCount,    \* bq_count
  bid,        \* BID, with BVALID
  clk         \* ACLK

master == <<task, rslot, wslot, rready, bready>>
arbiter == <<arGrant, awGrant, wMaster, latched, locked, lockId>>
slave == <<rq, rqCount, presented, aw, bq, bqCount, bid>>
vars == <<master, arbiter, slave, clk>>

None == -1
RSlots(m) == 0 .. Outstanding[m] - 1
Entries == 0 .. Depth - 1
Idle == [op |-> "none", phase |-> "idle", slot |-> None, left |-> 0]
NoEntry == [id |-> None, left |-> 0, timer |-> 0]

Init ==
  /\ task = [m \in Masters |-> Idle]
  /\ rslot = [m \in Masters |-> [i \in RSlots(m) |-> "free"]]
  /\ wslot = rslot
  /\ rready = [m \in Masters |-> FALSE]
  /\ bready = [m \in Masters |-> FALSE]
  /\ arGrant = 0 /\ awGrant = 0 /\ wMaster = 0
  /\ latched = {} /\ locked = {}
  /\ lockId = [m \in Masters |-> 0]
  /\ rq = [e \in Entries |-> NoEntry] /\ rqCount = 0 /\ presented = None
  /\ aw = NoEntry
  /\ bq = [e \in Entries |-> NoEntry] /\ bqCount = 0 /\ bid = None
  /\ clk = FALSE

Other(m) == 1 - m
Lowest(S) == CHOOSE i \in S : \A j \in S : i <= j

\* the masters' IDs are not told apart
IdOfVariant(m) == IF task[m].op \in Smoke THEN 0 ELSE task[m].slot

\* the ID a task drives, and the master that a response with an ID goes to
IdOf(m) == IF task[m].op \in Smoke THEN 0 ELSE 8 * m + task[m].slot
Owner(id) == (id \div 8) % 2
-----------------------------------------------------------------------------
(***************************************************************************)
(* The wires.                                                              *)
(***************************************************************************)
ArValid(m) == task[m].phase = "ar"
AwValid(m) == task[m].phase \in {"aw_w", "aw"}
WValid(m) == task[m].phase \in {"aw_w", "w", "beat_w"}
WLast(m) == task[m].left = 1
Locks(m) == task[m].op = "locked"

\* the lock of the other master is not looked at
ArPickVariant(m) == ArValid(m) /\ (~ArValid(Other(m)) \/ arGrant = m)

\* ar_pick_m0, ar_pick_m1
ArPick(m) ==
  /\ ArValid(m) /\ Other(m) \notin locked
  /\ m \in locked \/ ~ArValid(Other(m)) \/ arGrant = m

\* aw_pick_m0, aw_pick_m1
AwPick(m) == AwValid(m) /\ latched = {} /\ (~AwValid(Other(m)) \/ awGrant = m)

FreeEntries(q) == {e \in Entries : q[e] = NoEntry}
\* ARREADY of the slave
SlaveArReady == rqCount < Depth /\ FreeEntries(rq) # {}
\* M*_ARREADY, and with it the handshake
ArHandshake(m) == ArPick(m) /\ SlaveArReady
AwHandshake(m) == AwPick(m) /\ aw = NoEntry

\* WREADY of the slave: the last beat needs room for the response
SlaveWReady ==
  /\ aw # NoEntry
  /\ WValid(wMaster) /\ (WLast(wMaster) \/ aw.left = 1) => FreeEntries(bq) # {} /\ bqCount < Depth
WHandshake == WValid(wMaster) /\ SlaveWReady
WReady(m) == m = wMaster /\ m \in latched /\ SlaveWReady

\* a beat of R and a response of B, taken by the master they are for
RValid(m) == presented # None /\ Owner(rq[presented].id) = m
RLast == rq[presented].left = 1
RHandshake(m) == RValid(m) /\ rready[m]
BValid(m) == bid # None /\ Owner(bid) = m
BHandshake(m) == BValid(m) /\ bready[m]
-----------------------------------------------------------------------------
(***************************************************************************)
(* A master: its task, its slots and its ready signals.                    *)
(***************************************************************************)
Taken(slots) == {i \in DOMAIN slots : slots[i] = "busy"}
\* rid_to_slot, bid_to_slot
SlotOf(m, slots, id) == {i \in Taken(slots) : id = 8 * m + i}

\* the slots after the responses of this edge
RDone(m) ==
  IF RHandshake(m) /\ RLast
  THEN [i \in RSlots(m) |-> IF i \in SlotOf(m, rslot[m], rq[presented].id) THEN "done" ELSE rslot[m][i]]
  ELSE rslot[m]
BDone(m) ==
  IF BHandshake(m)
  THEN [i \in RSlots(m) |-> IF i \in SlotOf(m, wslot[m], bid) THEN "done" ELSE wslot[m][i]]
  ELSE wslot[m]

\* bus_*_wait returns what is done; its handle is free
Reaped(slots) == [i \in DOMAIN slots |-> IF slots[i] = "done" THEN "free" ELSE slots[i]]
FreeSlots(slots) == {i \in DOMAIN slots : slots[i] = "free"}

\* A call: a slot is taken, if there is one; a burst or a locked read, which
\* take any beat, is called when nothing is outstanding.
Called(op, rs, ws) ==
  CASE op = "read" /\ FreeSlots(rs) # {} ->
         [op |-> op, phase |-> "pre", slot |-> Lowest(FreeSlots(rs)), left |-> 1]
    [] op = "write" /\ FreeSlots(ws) # {} ->
         [op |-> op, phase |-> "pre", slot |-> Lowest(FreeSlots(ws)), left |-> 1]
    [] op \in Smoke /\ Taken(rs) = {} /\ Taken(ws) = {} ->
         [op |-> op, phase |-> "pre", slot |-> None, left |-> IF op = "locked" THEN 1 ELSE Beats]
    [] OTHER -> Idle

\* where a task goes at an edge
Proceed(m) ==
  LET t == task[m]
      Go(phase) == [t EXCEPT !.phase = phase]
      Next1 == [t EXCEPT !.left = @ - 1]
  IN CASE t.phase = "pre" ->
            Go(CASE t.op = "write" -> "aw_w" [] t.op = "burst_write" -> "aw" [] OTHER -> "ar")
       [] t.phase = "ar" /\ ArHandshake(m) -> Go(IF t.op = "read" THEN "post" ELSE "beat_r")
       [] t.phase = "beat_r" /\ RHandshake(m) ->
            IF t.op = "locked" THEN Go("post_r") ELSE [Next1 EXCEPT !.phase = "gap_r"]
       [] t.phase = "gap_r" -> IF t.left = 0 THEN Idle ELSE Go("beat_r")
       [] t.phase = "aw_w" ->
            Go(CASE AwHandshake(m) /\ WReady(m) -> "post" [] AwHandshake(m) -> "w"
                 [] WReady(m) -> "aw" [] OTHER -> "aw_w")
       [] t.phase = "w" /\ WReady(m) -> Go("post")
       [] t.phase = "aw" /\ AwHandshake(m) -> Go(IF t.op = "write" THEN "post" ELSE "gap_w")
       [] t.phase = "beat_w" /\ WReady(m) -> [Next1 EXCEPT !.phase = "gap_w"]
       [] t.phase = "gap_w" -> Go(IF t.left = 0 THEN "resp" ELSE "beat_w")
       [] t.phase = "resp" /\ BValid(m) -> Go("post_b")
       [] t.phase \in {"post", "post_r", "post_b"} -> Idle
       [] OTHER -> t

\* what RREADY and BREADY are computed from: smoke_r_active or a busy slot
NeedsR(m, t) ==
  t.phase \in {"beat_r", "post_r"} \/ (t.phase = "pre" /\ t.op = "read") \/ Taken(rslot[m]) # {}
NeedsB(m, t) ==
  t.phase \in {"resp", "post_b"} \/ (t.phase = "pre" /\ t.op = "write") \/ Taken(wslot[m]) # {}

\* the handle of the call is taken
Begun(call, rs, ws) ==
  [task |-> call,
   r |-> IF call.op = "read" THEN [rs EXCEPT ![call.slot] = "busy"] ELSE rs,
   w |-> IF call.op = "write" THEN [ws EXCEPT ![call.slot] = "busy"] ELSE ws]

\* What may become of a master at an edge.  Once a task has returned, the
\* caller may wait for what is done, and may call the next.
Moves(m) ==
  IF Proceed(m) # Idle THEN {[task |-> Proceed(m), r |-> RDone(m), w |-> BDone(m)]}
  ELSE {Begun(Called(op, s.r, s.w), s.r, s.w) :
          s \in {[r |-> RDone(m), w |-> BDone(m)], [r |-> Reaped(RDone(m)), w |-> Reaped(BDone(m))]},
          op \in Tasks[m] \cup {"none"}}

\* a task sets them at the edge that samples them: before or after
RReadyNext(m, next) == {NeedsR(m, t) : t \in {task[m], next}}
BReadyNext(m, next) == {NeedsB(m, t) : t \in {task[m], next}}
Both(x, y) == [m \in Masters |-> IF m = 0 THEN x ELSE y]

MasterEdge ==
  \E x \in Moves(0), y \in Moves(1) :
    /\ task' = Both(x.task, y.task)
    /\ rslot' = Both(x.r, y.r)
    /\ wslot' = Both(x.w, y.w)
    /\ \E a \in RReadyNext(0, x.task), b \in RReadyNext(1, y.task) : rready' = Both(a, b)
    /\ \E a \in BReadyNext(0, x.task), b \in BReadyNext(1, y.task) : bready' = Both(a, b)
-----------------------------------------------------------------------------
(***************************************************************************)
(* The arbiter.                                                            *)
(***************************************************************************)
\* the last R of the locked ID
Unlocked(m) == m \in locked /\ RHandshake(m) /\ RLast /\ rq[presented].id = lockId[m]

\* a lock is never given back
LockedNextVariant == locked \cup {m \in Masters : ArHandshake(m) /\ Locks(m)}

LockedNext == (locked \cup {m \in Masters : ArHandshake(m) /\ Locks(m)}) \ {m \in Masters : Unlocked(m)}

\* the end of the data does not end the write
LatchedNextVariant == latched \cup {m \in Masters : AwHandshake(m)}

LatchedNext ==
  IF WHandshake /\ WLast(wMaster) THEN {} ELSE latched \cup {m \in Masters : AwHandshake(m)}

ArbiterEdge ==
  /\ arGrant' = IF \E m \in Masters : ArHandshake(m) THEN (IF ArPick(1) THEN 0 ELSE 1) ELSE arGrant
  /\ awGrant' = IF \E m \in Masters : AwHandshake(m) THEN (IF AwPick(1) THEN 0 ELSE 1) ELSE awGrant
  /\ wMaster' = IF \E m \in Masters : AwHandshake(m) THEN (IF AwPick(1) THEN 1 ELSE 0) ELSE wMaster
  /\ latched' = LatchedNext
  /\ locked' = LockedNext
  /\ lockId' = [m \in Masters |-> IF ArHandshake(m) /\ Locks(m) THEN IdOf(m) ELSE lockId[m]]
-----------------------------------------------------------------------------
(***************************************************************************)
(* The slave.                                                              *)
(***************************************************************************)
Requested(m) == [id |-> IdOf(m), left |-> task[m].left, timer |-> Latency]
\* a timer at zero is taken for a valid entry
ReadyVariant(q) == {e \in Entries : q[e].timer = 0}

Ready(q) == {e \in Entries : q[e] # NoEntry /\ q[e].timer = 0}
Tick(entry) == IF entry.timer # 0 THEN [entry EXCEPT !.timer = @ - 1] ELSE entry
Count(b) == IF b THEN 1 ELSE 0

\* the request that goes hides the one that comes
ReadEdgeVariant ==
  LET push == {m \in Masters : ArHandshake(m)}
      taken == \E m \in Masters : RHandshake(m)
      Entry(e) ==
        IF push # {} /\ e = Lowest(FreeEntries(rq)) THEN Requested(Lowest(push))
        ELSE IF taken /\ e = presented
               THEN IF rq[e].left = 1 THEN NoEntry ELSE [rq[e] EXCEPT !.left = @ - 1]
        ELSE Tick(rq[e])
  IN /\ rq' = [e \in Entries |-> Entry(e)]
     /\ rqCount' = IF taken /\ RLast THEN rqCount - 1 ELSE rqCount + Count(push # {})
     /\ presented' = IF presented = None THEN (IF Ready(rq) = {} THEN None ELSE Lowest(Ready(rq)))
                     ELSE IF taken THEN None ELSE presented

\* one beat is presented and held until it is taken, then the next is picked
ReadEdge ==
  LET push == {m \in Masters : ArHandshake(m)}
      taken == \E m \in Masters : RHandshake(m)
      Entry(e) ==
        IF push # {} /\ e = Lowest(FreeEntries(rq)) THEN Requested(Lowest(push))
        ELSE IF taken /\ e = presented
               THEN IF rq[e].left = 1 THEN NoEntry ELSE [rq[e] EXCEPT !.left = @ - 1]
        ELSE Tick(rq[e])
  IN /\ rq' = [e \in Entries |-> Entry(e)]
     /\ rqCount' = rqCount + Count(push # {}) - Count(taken /\ RLast)
     /\ presented' = IF presented = None THEN (IF Ready(rq) = {} THEN None ELSE Lowest(Ready(rq)))
                     ELSE IF taken THEN None ELSE presented

WriteEdge ==
  LET last == WHandshake /\ (WLast(wMaster) \/ aw.left = 1)
      popped == bid = None /\ Ready(bq) # {}
      Entry(e) ==
        IF last /\ e = Lowest(FreeEntries(bq)) THEN [id |-> aw.id, left |-> 1, timer |-> Latency]
        ELSE IF popped /\ e = Lowest(Ready(bq)) THEN NoEntry
        ELSE Tick(bq[e])
  IN /\ aw' = IF \E m \in Masters : AwHandshake(m) THEN Requested(CHOOSE m \in Masters : AwHandshake(m))
              ELSE IF last THEN NoEntry ELSE aw
     /\ bq' = [e \in Entries |-> Entry(e)]
     /\ bqCount' = bqCount + Count(last) - Count(popped)
     /\ bid' = IF popped THEN bq[Lowest(Ready(bq))].id
               ELSE IF \E m \in Masters : BHandshake(m) THEN None ELSE bid

\* "always #5 clk = ~clk" (tb/tb_amba_protocol.v:17)
Clock == clk' = ~clk

Rise == ~clk /\ MasterEdge /\ ArbiterEdge /\ ReadEdge /\ WriteEdge
Fall == clk /\ UNCHANGED <<master, arbiter, slave>>

Next == Clock /\ (Rise \/ Fall)

\* the clock runs, whatever the masters and their callers do
Spec == Init /\ [][Next]_vars /\ WF_clk(Clock)
-----------------------------------------------------------------------------
(***************************************************************************)
(* Properties.                                                             *)
(***************************************************************************)
Ids == {0} \cup UNION {{8 * m + i : i \in RSlots(m)} : m \in Masters}
EntryType == {NoEntry} \cup [id : Ids, left : 1 .. Beats + 1, timer : 0 .. Latency]

TypeOK ==
  /\ task \in [Masters -> {Idle} \cup
                 [op : Calls,
                  phase : {"pre", "ar", "aw_w", "aw", "w", "beat_r", "gap_r", "beat_w", "gap_w",
                           "resp", "post", "post_r", "post_b"},
                  slot : {None} \cup 0 .. 7, left : 0 .. Beats + 1]]
  /\ \A m \in Masters : /\ rslot[m] \in [RSlots(m) -> {"free", "busy", "done"}]
                        /\ wslot[m] \in [RSlots(m) -> {"free", "busy", "done"}]
  /\ rready \in [Masters -> BOOLEAN] /\ bready \in [Masters -> BOOLEAN]
  /\ arGrant \in Masters /\ awGrant \in Masters /\ wMaster \in Masters
  /\ latched \subseteq Masters /\ locked \subseteq Masters
  /\ lockId \in [Masters -> Ids]
  /\ rq \in [Entries -> EntryType] /\ rqCount \in 0 .. Depth
  /\ presented \in Entries \cup {None}
  /\ aw \in EntryType
  /\ bq \in [Entries -> EntryType] /\ bqCount \in 0 .. Depth
  /\ bid \in Ids \cup {None}
  /\ clk \in BOOLEAN

\* The burst or the locked read of a master waits for a beat or a response.
SmokeWaits(m, phases) == task[m].op \in Smoke /\ task[m].phase \in phases

\* "orphan R channel", "orphan B channel" (verif_axi_full_master.v:328, :337):
\* whatever a master takes off a channel is what one of its slots or its burst
\* waits for, and RREADY is not left high for a beat of somebody else.
NoOrphans ==
  \A m \in Masters :
    /\ RHandshake(m) => \/ SlotOf(m, rslot[m], rq[presented].id) # {}
                        \/ SmokeWaits(m, {"beat_r"}) /\ rq[presented].id = 0
    /\ BHandshake(m) => \/ SlotOf(m, wslot[m], bid) # {}
                        \/ SmokeWaits(m, {"resp", "post_b"}) /\ bid = 0

\* The reads a master waits for once their address has been accepted.
Accepted(m) ==
  {8 * m + i : i \in Taken(rslot[m]) \
                  (IF task[m].op = "read" /\ task[m].phase \in {"pre", "ar"} THEN {task[m].slot} ELSE {})}
    \cup (IF task[m].op \in {"locked", "burst_read"} /\ task[m].left > 0
               /\ task[m].phase \in {"beat_r", "gap_r"} THEN {0} ELSE {})

\* "Use the slot that drove this R beat" (verif_axi_full_slave_simple.v:366): the
\* slave holds one request for every read that is waited for, no other, and none
\* twice, so no response is lost, repeated or given to another read.
ReadsAreBacked ==
  /\ {rq[e].id : e \in Entries \ FreeEntries(rq)} = Accepted(0) \cup Accepted(1)
  /\ Cardinality(Entries \ FreeEntries(rq)) = Cardinality(Accepted(0) \cup Accepted(1))
  /\ presented # None => rq[presented] # NoEntry

\* rq_count and bq_count change by a delta when a request comes and another
\* goes at one edge (verif_axi_full_slave_simple.v:443-446): they stay the
\* number of valid entries, on which ready depends, and no register leaves its
\* range.
CountsAreKept ==
  /\ TypeOK
  /\ rqCount = Cardinality(Entries \ FreeEntries(rq))
  /\ bqCount = Cardinality(Entries \ FreeEntries(bq))

\* "W follows last AW winner", "single W context" (verif_axi_arbiter_2m1s.v:131,
\* :161): arbiter and slave agree on whose write is under way, and it is the
\* write that master is sending.
WritesStayTogether ==
  /\ (aw # NoEntry) <=> (latched # {})
  /\ aw # NoEntry => /\ latched = {wMaster}
                     /\ aw.id = IdOf(wMaster)
                     /\ task[wMaster].phase \in {"w", "gap_w", "beat_w"}

\* "verif_axi_arbiter_2m1s holds the grant under a lock" (README.md:397): from the address of a locked read to its
\* last beat no address of the other master is accepted.
LockIsExclusive ==
  \A m \in Masters : SmokeWaits(m, {"beat_r"}) /\ Locks(m) => ~ArHandshake(Other(m))

\* A slot is taken for a new access only once its last one is answered; while
\* none of a kind begins, the round robin, the locks and the single write context
\* leave nobody out.  The slave's choice of the lowest ready entry
\* (verif_axi_full_slave_simple.v:224) may: an outstanding read is answered
\* unless reads keep beginning for ever, a write unless writes do.
ReadCalls == {"read", "locked", "burst_read"}
Begins(ops) == \E m \in Masters : task[m].phase = "pre" /\ task[m].op \in ops
OnlyNewerOvertake ==
  \A m \in Masters : \A i \in RSlots(m) :
    /\ []<>(rslot[m][i] # "busy" \/ Begins(ReadCalls))
    /\ []<>(wslot[m][i] # "busy" \/ Begins(Calls \ ReadCalls))

\* Every call of a task comes to its end, whatever the other master calls.
BetweenCalls(m) ==
  task[m].phase \in {"idle", "post", "post_r", "post_b"} \/ (task[m].phase = "gap_r" /\ task[m].left = 0)
CallsReturn == \A m \in Masters : []<>BetweenCalls(m)
=============================================================================
