------------------------ MODULE GraphSession_proofs ------------------------
(***************************************************************************)
(* Theorems about GraphSession, for every graph, every set of nodes that   *)
(* may miss evidence and, where a theorem does not say otherwise, any      *)
(* number of clients and of crashes.                                       *)
(***************************************************************************)
EXTENDS GraphSession, TLAPS

(***************************************************************************)
(* A node has a successor and its successors are nodes or END.             *)
(***************************************************************************)
LEMMA SuccType ==
  ASSUME NEW n \in Nodes
  PROVE  Succ(n) # {} /\ Succ(n) \subseteq Nodes \cup {END}
BY GraphAssumption DEF Succ

(***************************************************************************)
(* Running a node keeps the stores it writes well-typed.                   *)
(***************************************************************************)
LEMMA ExecuteType ==
  ASSUME TypeOK, NEW n \in Nodes, Execute(n)
  PROVE  /\ next' \in Nodes \cup {END, None}
         /\ runner' \in {"python", "llm"}
         /\ ev' \in [Nodes -> SUBSET Checks]
         /\ passed' \subseteq Nodes
         /\ owed' \in Nodes \cup {None}
         /\ ran' \subseteq Nodes
BY SuccType DEF Execute, TypeOK

(***************************************************************************)
(* The updates of the session record the calls make yield session records. *)
(***************************************************************************)
LEMMA RecordType ==
  ASSUME NEW r \in MetaType, NEW n \in Nodes \cup {None}, NEW k \in Nodes,
         NEW b \in BOOLEAN, NEW w \in {"", "llm", "node_gate"}, NEW why \in Reasons
  PROVE  /\ [r EXCEPT !.started = TRUE] \in MetaType
         /\ [r EXCEPT !.started = TRUE, !.last = Setup] \in MetaType
         /\ [r EXCEPT !.finished = TRUE] \in MetaType
         /\ [r EXCEPT !.waiting = w] \in MetaType
         /\ [r EXCEPT !.recovery = n, !.waiting = w] \in MetaType
         /\ [r EXCEPT !.recovery = None, !.last = n] \in MetaType
         /\ [r EXCEPT !.llmInvoked = @ \cup {k}, !.waiting = w] \in MetaType
         /\ [r EXCEPT !.last = n, !.recovery = None, !.finished = b, !.waiting = w] \in MetaType
         /\ [r EXCEPT !.blocks = @ \cup {why}] \in MetaType
BY GraphAssumption DEF MetaType

(***************************************************************************)
(* Saving a well-typed record keeps the record and its copies well-typed.  *)
(***************************************************************************)
LEMMA CommitType ==
  ASSUME TypeOK, NEW c \in Clients, NEW rec \in MetaType, Commit(c, rec)
  PROVE  meta' \in MetaType /\ m' \in [Clients -> MetaType]
BY DEF Commit, Save, TypeOK

(***************************************************************************)
(* So does a blocked response, which also ends the call.                   *)
(***************************************************************************)
LEMMA BlockedType ==
  ASSUME TypeOK, NEW c \in Clients, NEW rec \in MetaType, NEW why \in Reasons,
         Blocked(c, rec, why)
  PROVE  /\ meta' \in MetaType
         /\ m' \in [Clients -> MetaType]
         /\ pc' \in [Clients -> PCs]
<1>1. [rec EXCEPT !.blocks = @ \cup {why}] \in MetaType
  BY RecordType, GraphAssumption
<1>2. Commit(c, [rec EXCEPT !.blocks = @ \cup {why}])
  BY DEF Blocked
<1>3. meta' \in MetaType /\ m' \in [Clients -> MetaType]
  BY <1>1, <1>2, CommitType
<1>4. pc' \in [Clients -> PCs]
  BY DEF Blocked, Goto, TypeOK, PCs
<1>5. QED
  BY <1>3, <1>4

(***************************************************************************)
(* Passing a gate keeps the pass artifacts and the debt well-typed.        *)
(***************************************************************************)
LEMMA PayGateType ==
  ASSUME TypeOK, NEW n \in Nodes, PayGate(n)
  PROVE  passed' \subseteq Nodes /\ owed' \in Nodes \cup {None}
BY DEF PayGate, TypeOK

(***************************************************************************)
(* TypeOK is not inductive by itself: a call that has taken its snapshot   *)
(* works on a node, never on "no node".                                    *)
(***************************************************************************)
PendKnown ==
  \A c \in Clients : pc[c] \notin {"idle", "loaded", "started"} => pend[c] \in Nodes

TypeInv == TypeOK /\ PendKnown

(***************************************************************************)
(* Every step of the specification keeps the variables well-typed.         *)
(***************************************************************************)
LEMMA TypeStep ==
  ASSUME TypeInv, [Next]_vars
  PROVE  TypeInv'
<1> USE DEF TypeInv, PendKnown
<1>0. TypeOK
  OBVIOUS
<1>1. ASSUME NEW c \in Clients, LoadMeta(c) PROVE TypeInv'
  BY <1>1, ParameterAssumption DEF TypeOK, LoadMeta, Goto, stores, history, PCs
<1>2. ASSUME NEW c \in Clients, StartGraph(c) PROVE TypeInv'
  BY <1>2, ExecuteType, GraphAssumption DEF TypeOK, StartGraph, Goto, PCs
<1>3. ASSUME NEW c \in Clients, SaveStart(c) PROVE TypeInv'
  <2>1. m[c] \in MetaType /\ Setup \in Nodes
    BY GraphAssumption DEF TypeOK
  <2>2. meta' \in MetaType /\ m' \in [Clients -> MetaType]
    BY <1>0, <1>3, <2>1, CommitType, RecordType DEF SaveStart, Reasons
  <2>3. passed' \subseteq Nodes /\ owed' \in Nodes \cup {None}
    BY <1>0, <1>3, <2>1, PayGateType DEF SaveStart, TypeOK
  <2>4. QED
    BY <1>3, <2>2, <2>3 DEF TypeOK, SaveStart, Goto, PCs
<1>4. ASSUME NEW c \in Clients, FinishSession(c) PROVE TypeInv'
  <2>1. meta' \in MetaType /\ m' \in [Clients -> MetaType]
    BY <1>0, <1>4, CommitType, RecordType, GraphAssumption DEF FinishSession, TypeOK, Reasons
  <2>2. QED
    BY <1>4, <2>1 DEF TypeOK, FinishSession, Goto, PCs, history
<1>5. ASSUME NEW c \in Clients, TakeSnapshot(c) PROVE TypeInv'
  BY <1>5 DEF TypeOK, TakeSnapshot, Goto, PCs, stores, history
<1>6. ASSUME NEW c \in Clients, RecoverGate(c) PROVE TypeInv'
  <2>1. m[c] \in MetaType /\ m[c].recovery \in Nodes
    BY <1>6 DEF TypeOK, RecoverGate, MetaType
  <2>2. CASE ExitGateOk(m[c].recovery)
    <3>1. meta' \in MetaType /\ m' \in [Clients -> MetaType]
      BY <1>0, <1>6, <2>1, <2>2, CommitType, RecordType DEF RecoverGate, Reasons
    <3>2. passed' \subseteq Nodes /\ owed' \in Nodes \cup {None}
      BY <1>0, <1>6, <2>1, <2>2, PayGateType DEF RecoverGate
    <3>3. QED
      BY <1>6, <2>2, <3>1, <3>2 DEF TypeOK, RecoverGate
  <2>3. CASE ~ExitGateOk(m[c].recovery)
    <3>1. Blocked(c, m[c], "node_gate")
      BY <1>6, <2>3 DEF RecoverGate
    <3>2. /\ meta' \in MetaType
          /\ m' \in [Clients -> MetaType]
          /\ pc' \in [Clients -> PCs]
      BY <1>0, <2>1, <3>1, BlockedType DEF Reasons
    <3>3. QED
      BY <1>6, <2>3, <3>1, <3>2 DEF TypeOK, RecoverGate, Blocked, Goto
  <2>4. QED
    BY <2>2, <2>3
<1>7. ASSUME NEW c \in Clients, CheckLast(c) PROVE TypeInv'
  <2>1. CASE BlockedBy(c) = None
    BY <1>7, <2>1 DEF TypeOK, CheckLast, Goto, PCs, history
  <2>2. CASE BlockedBy(c) # None
    <3>1. BlockedBy(c) \in Reasons /\ Blocked(c, m[c], BlockedBy(c))
      BY <1>7, <2>2 DEF CheckLast, BlockedBy, Reasons
    <3>2. /\ meta' \in MetaType
          /\ m' \in [Clients -> MetaType]
          /\ pc' \in [Clients -> PCs]
      BY <1>0, <3>1, BlockedType DEF TypeOK
    <3>3. QED
      BY <1>7, <3>1, <3>2 DEF TypeOK, CheckLast, Blocked, Goto, history
  <2>3. QED
    BY <2>1, <2>2
<1>8. ASSUME NEW c \in Clients, InvokeLlm(c) PROVE TypeInv'
  <2>1. pend[c] \in Nodes /\ m[c] \in MetaType
    BY <1>8 DEF TypeOK, InvokeLlm
  <2>2. meta' \in MetaType /\ m' \in [Clients -> MetaType]
    BY <1>0, <1>8, <2>1, CommitType, RecordType DEF InvokeLlm, Reasons
  <2>3. QED
    BY <1>8, <2>1, <2>2 DEF TypeOK, InvokeLlm, Goto, PCs
<1>9. ASSUME NEW c \in Clients, EnterAfterAsking(c) PROVE TypeInv'
  <2>1. [m[c] EXCEPT !.waiting = ""] \in MetaType
    BY DEF TypeOK, MetaType
  <2>2. m' \in [Clients -> MetaType]
    BY <1>9, <2>1 DEF TypeOK, EnterAfterAsking
  <2>3. QED
    BY <1>9, <2>2 DEF TypeOK, EnterAfterAsking, Goto, PCs, stores, history
<1>10. ASSUME NEW c \in Clients, EnterLlmNode(c) PROVE TypeInv'
  <2>1. [m[c] EXCEPT !.waiting = ""] \in MetaType /\ [m[c] EXCEPT !.waiting = "node_gate"] \in MetaType
    BY DEF TypeOK, MetaType
  <2>2. CASE EntryGateOk(pend[c])
    <3>1. m' \in [Clients -> MetaType]
      BY <1>10, <2>1, <2>2 DEF TypeOK, EnterLlmNode
    <3>2. QED
      BY <1>10, <2>2, <3>1 DEF TypeOK, EnterLlmNode, Goto, PCs, history
  <2>3. CASE ~EntryGateOk(pend[c])
    <3>1. Blocked(c, [m[c] EXCEPT !.waiting = "node_gate"], "node_gate")
      BY <1>10, <2>3 DEF EnterLlmNode
    <3>2. /\ meta' \in MetaType
          /\ m' \in [Clients -> MetaType]
          /\ pc' \in [Clients -> PCs]
      BY <1>0, <2>1, <3>1, BlockedType DEF Reasons
    <3>3. QED
      BY <1>10, <2>3, <3>1, <3>2 DEF TypeOK, EnterLlmNode, Blocked, Goto, history
  <2>4. QED
    BY <2>2, <2>3
<1>11. ASSUME NEW c \in Clients, EnterDirectly(c) PROVE TypeInv'
  BY <1>11 DEF TypeOK, EnterDirectly, Goto, PCs, stores, history
<1>12. ASSUME NEW c \in Clients, RunNode(c) PROVE TypeInv'
  BY <1>0, <1>12, ExecuteType DEF TypeOK, RunNode, Goto, PCs
<1>13. ASSUME NEW c \in Clients, PassExitGate(c) PROVE TypeInv'
  BY <1>0, <1>13, PayGateType DEF TypeOK, PassExitGate, Goto, PCs
<1>14. ASSUME NEW c \in Clients, RollbackInvoke(c) PROVE TypeInv'
  BY <1>14, SuccType DEF TypeOK, RollbackInvoke, Goto, PCs, history
<1>15. ASSUME NEW c \in Clients, SaveRecovery(c) PROVE TypeInv'
  <2>1. [m[c] EXCEPT !.recovery = pend[c], !.waiting = "node_gate"] \in MetaType
    BY <1>15 DEF TypeOK, MetaType, SaveRecovery
  <2>2. /\ meta' \in MetaType
        /\ m' \in [Clients -> MetaType]
        /\ pc' \in [Clients -> PCs]
    BY <1>0, <1>15, <2>1, BlockedType DEF SaveRecovery, Reasons
  <2>3. QED
    BY <1>15, <2>2 DEF TypeOK, SaveRecovery, Blocked, Goto, history
<1>16. ASSUME NEW c \in Clients, SaveProgress(c) PROVE TypeInv'
  <2> DEFINE fin == IF after[c].node = END THEN TRUE ELSE m[c].finished
             wait == IF after[c].node \in Nodes /\ NeedsLlm(after[c].node, after[c].runner)
                       THEN "llm" ELSE ""
             rec == [m[c] EXCEPT !.last = pend[c], !.recovery = None,
                                 !.finished = fin, !.waiting = wait]
  <2>1. /\ m[c] \in MetaType
        /\ fin \in BOOLEAN
        /\ wait \in {"", "llm", "node_gate"}
        /\ pend[c] \in Nodes
    BY <1>16 DEF TypeOK, MetaType, SaveProgress
  <2> HIDE DEF fin, wait
  <2>2. rec \in MetaType
    BY <2>1, RecordType DEF Reasons
  <2>3. Commit(c, rec)
    BY <1>16 DEF SaveProgress, fin, wait
  <2>4. meta' \in MetaType /\ m' \in [Clients -> MetaType]
    BY <1>0, <2>2, <2>3, CommitType
  <2>5. QED
    BY <1>16, <2>4 DEF TypeOK, SaveProgress, Goto, PCs, history
<1>17. ASSUME NEW c \in Clients, BeginInvokeLlm(c) PROVE TypeInv'
  BY <1>17 DEF TypeOK, BeginInvokeLlm, Goto, PCs, stores, history
<1>18. ASSUME NEW c \in Clients, FinishInvokeLlm(c) PROVE TypeInv'
  <2>1. pend[c] \in Nodes /\ m[c] \in MetaType
    BY <1>18 DEF TypeOK, FinishInvokeLlm
  <2>2. meta' \in MetaType /\ m' \in [Clients -> MetaType]
    BY <1>0, <1>18, <2>1, CommitType, RecordType DEF FinishInvokeLlm, Reasons
  <2>3. QED
    BY <1>18, <2>2 DEF TypeOK, FinishInvokeLlm, Goto, PCs
<1>19. ASSUME NEW c \in Clients, Crash(c) PROVE TypeInv'
  BY <1>19 DEF TypeOK, Crash, Goto, PCs, stores
<1>20. ASSUME NEW c \in Clients, DieInNode(c) PROVE TypeInv'
  BY <1>20, ParameterAssumption DEF TypeOK, DieInNode, Goto, PCs
<1>21. ASSUME NEW n \in Nodes, SupplyEvidence(n) PROVE TypeInv'
  BY <1>21 DEF TypeOK, SupplyEvidence, locals, history
<1>22. CASE UNCHANGED vars
  BY <1>22 DEF TypeOK, vars, stores, locals, history
<1>23. QED
  BY <1>1, <1>2, <1>3, <1>4, <1>5, <1>6, <1>7, <1>8, <1>9, <1>10, <1>11, <1>12, <1>13,
     <1>14, <1>15, <1>16, <1>17, <1>18, <1>19, <1>20, <1>21, <1>22 DEF Next, Tick

(***************************************************************************)
(* The variables of the session keep their types, whatever the graph, the  *)
(* clients and the crashes.                                                *)
(***************************************************************************)
THEOREM TypeCorrect == Spec => []TypeOK
<1>1. Init => TypeInv
  <2>1. NewSession \in MetaType
    BY DEF NewSession, MetaType
  <2>2. QED
    BY <2>1 DEF Init, TypeInv, PendKnown, TypeOK, NoSnapshot, PCs, Checks
<1>2. TypeInv /\ [Next]_vars => TypeInv'
  BY TypeStep
<1>3. TypeInv => TypeOK
  BY DEF TypeInv
<1>4. QED
  BY <1>1, <1>2, <1>3, PTL DEF Spec

-----------------------------------------------------------------------------
(***************************************************************************)
(* The driver of a session is a single process ...                         *)
(***************************************************************************)
OneClient == \A c, d \in Clients : c = d

(***************************************************************************)
(* ... and setup, whose gate the first tick does not enforce, always       *)
(* leaves the evidence that gate asks for and never ends the graph.        *)
(***************************************************************************)
SetupIsSound ==
  /\ \A missing \in Missing[Setup] : missing \cap {"exit", "extra"} = {}
  /\ END \notin Succ(Setup)

(***************************************************************************)
(* CreditInv, seen from the one client.                                    *)
(***************************************************************************)
ClientCovered(c) == owed = None \/ meta.recovery = owed \/ Remembers(c)

Credit(c) == lapses + (IF ClientCovered(c) THEN 0 ELSE 1) <= crashes

InStep(c) ==
  RecordInStep(c) /\ NothingToRecover(c) /\ SnapshotInStep(c) /\ SetupPasses(c)

(***************************************************************************)
(* With one client, CreditInv is InStep and Credit of that client.         *)
(***************************************************************************)
LEMMA CreditOfTheClient ==
  ASSUME OneClient, NEW c \in Clients
  PROVE  /\ CreditInv <=> InStep(c) /\ Credit(c)
         /\ CreditInv' <=> InStep(c)' /\ Credit(c)'
<1>1. Clients = {c}
  BY DEF OneClient
<1>2. (Covered <=> ClientCovered(c)) /\ (Covered' <=> ClientCovered(c)')
  BY <1>1 DEF Covered, ClientCovered, Remembers
<1>3. QED
  BY <1>1, <1>2 DEF CreditInv, InStep, Credit, RecordInStep, NothingToRecover, SnapshotInStep, SetupPasses

(***************************************************************************)
(* The updates of the record that leave its recovery node alone ...        *)
(***************************************************************************)
LEMMA RecoveryKept ==
  ASSUME NEW r \in MetaType, NEW x,
         \/ x = [r EXCEPT !.finished = TRUE]
         \/ \E w : x = [r EXCEPT !.waiting = w]
         \/ \E why : x = [r EXCEPT !.blocks = @ \cup {why}]
  PROVE  x.recovery = r.recovery
BY DEF MetaType

(***************************************************************************)
(* ... and the one that clears it.                                         *)
(***************************************************************************)
LEMMA RecoveryCleared ==
  ASSUME NEW r \in MetaType, NEW x,
         \E n : x = [r EXCEPT !.recovery = None, !.last = n]
  PROVE  x.recovery = None
BY DEF MetaType

(***************************************************************************)
(* A saved record is the one on disk and the client's.                     *)
(***************************************************************************)
LEMMA CommitBoth ==
  ASSUME TypeOK, NEW c \in Clients, NEW rec, Commit(c, rec)
  PROVE  meta' = rec /\ m'[c] = rec
BY DEF TypeOK, Commit, Save

(***************************************************************************)
(* The calls that ask the LLM keep the recovery node of their copy.        *)
(***************************************************************************)
LEMMA AskingKeepsRecovery ==
  ASSUME TypeOK, NEW c \in Clients, InvokeLlm(c) \/ FinishInvokeLlm(c)
  PROVE  meta'.recovery = m[c].recovery /\ m'[c].recovery = m[c].recovery
<1>1. /\ meta' = [m[c] EXCEPT !.llmInvoked = @ \cup {pend[c]}, !.waiting = "llm"]
      /\ m'[c] = meta'
  BY DEF InvokeLlm, FinishInvokeLlm, Commit, Save, TypeOK
<1>2. m[c] \in MetaType
  BY DEF TypeOK
<1>3. QED
  BY <1>1, <1>2 DEF MetaType

(***************************************************************************)
(* Entering a node keeps it too.                                           *)
(***************************************************************************)
LEMMA EnteringKeepsRecovery ==
  ASSUME TypeOK, NEW c \in Clients,
         EnterAfterAsking(c) \/ (EnterLlmNode(c) /\ EntryGateOk(pend[c]))
  PROVE  m'[c].recovery = m[c].recovery
<1>1. m'[c] = m[c] \/ m'[c] = [m[c] EXCEPT !.waiting = ""]
  BY DEF EnterAfterAsking, EnterLlmNode, TypeOK
<1>2. m[c] \in MetaType
  BY DEF TypeOK
<1>3. QED
  BY <1>1, <1>2, RecoveryKept

(***************************************************************************)
(* After a rollback the record names the node that was rolled back.        *)
(***************************************************************************)
LEMMA RollbackIsRecorded ==
  ASSUME TypeOK, NEW c \in Clients, SaveRecovery(c)
  PROVE  meta'.recovery = pend[c]
<1>1. meta' = [[m[c] EXCEPT !.recovery = pend[c], !.waiting = "node_gate"]
                 EXCEPT !.blocks = @ \cup {"node_gate"}]
  BY DEF SaveRecovery, Blocked, Commit, Save
<1>2. m[c] \in MetaType
  BY DEF TypeOK
<1>3. QED
  BY <1>1, <1>2 DEF MetaType

(***************************************************************************)
(* A blocked response keeps the recovery node and ends the call, so it     *)
(* keeps the invariant as far as what is owed does not change.             *)
(***************************************************************************)
LEMMA BlockedKeepsCredit ==
  ASSUME TypeInv, NEW c \in Clients, NEW rec \in MetaType, NEW why \in Reasons,
         Blocked(c, rec, why), rec.recovery = meta.recovery,
         pc[c] \in {"snapped", "cleared"}, Credit(c),
         UNCHANGED <<owed, lapses, crashes>>
  PROVE  InStep(c)' /\ Credit(c)'
<1>1. pc'[c] = "idle"
  BY DEF Blocked, Goto, TypeInv, TypeOK
<1>2. meta'.recovery = meta.recovery
  <2>1. meta' = [rec EXCEPT !.blocks = @ \cup {why}]
    BY CommitBoth DEF Blocked, TypeInv
  <2>2. QED
    BY <2>1, RecoveryKept
<1>3. InStep(c)'
  BY <1>1 DEF InStep, RecordInStep, NothingToRecover, SnapshotInStep, SetupPasses
<1>4. ~Remembers(c)
  BY DEF Remembers
<1>5. QED
  BY <1>2, <1>3, <1>4 DEF Credit, ClientCovered, TypeInv, TypeOK

(***************************************************************************)
(* Every step of the only client keeps the books.                          *)
(***************************************************************************)
LEMMA CreditStep ==
  ASSUME SetupIsSound, TypeInv, NEW c \in Clients, InStep(c), Credit(c),
         Tick(c) \/ BeginInvokeLlm(c) \/ FinishInvokeLlm(c) \/ Crash(c) \/ DieInNode(c)
  PROVE  InStep(c)' /\ Credit(c)'
<1>0. /\ TypeOK
      /\ m[c] \in MetaType
      /\ meta \in MetaType
      /\ lapses \in Nat /\ crashes \in Nat
  BY DEF TypeInv, TypeOK
<1> USE DEF InStep, RecordInStep, NothingToRecover, SnapshotInStep, SetupPasses
<1>1. CASE LoadMeta(c)
  <2>1. pc'[c] = "loaded" /\ m'[c] = meta
    BY <1>0, <1>1 DEF LoadMeta, Goto, TypeOK
  <2>2. QED
    BY <1>1, <2>1 DEF LoadMeta, stores, history, Credit, ClientCovered, Remembers
<1>2. CASE StartGraph(c)
  <2>1. pc'[c] = "started" /\ pc[c] = "loaded"
    BY <1>0, <1>2 DEF StartGraph, Goto, TypeOK
  <2>2. next' \in Nodes /\ owed' = Setup
    BY <1>2, SuccType, GraphAssumption DEF StartGraph, Execute, SetupIsSound
  <2>3. {"exit", "extra"} \subseteq ev'[Setup]
    BY <1>0, <1>2, GraphAssumption DEF StartGraph, Execute, SetupIsSound, TypeOK, Checks
  <2>4. lapses <= crashes
    BY <1>0 DEF Credit
  <2>5. ClientCovered(c)' /\ lapses' = lapses /\ crashes' = crashes
    BY <1>2, <2>1, <2>2 DEF StartGraph, ClientCovered, Remembers
  <2>6. RecordInStep(c)'
    BY <1>2, <2>1 DEF StartGraph
  <2>7. QED
    BY <1>0, <2>1, <2>2, <2>3, <2>4, <2>5, <2>6 DEF Credit
<1>3. CASE SaveStart(c)
  <2>1. pc[c] = "started" /\ pc'[c] = "idle"
    BY <1>0, <1>3 DEF SaveStart, Goto, TypeOK
  <2>2. next \in Nodes /\ ExitGateOk(Setup) /\ owed = Setup
    BY <2>1 DEF ExitGateOk
  <2>3. owed' = None
    BY <1>3, <2>2 DEF SaveStart, PayGate
  <2>4. lapses <= crashes
    BY <1>0 DEF Credit
  <2>5. QED
    BY <1>0, <1>3, <2>1, <2>3, <2>4 DEF SaveStart, Credit, ClientCovered
<1>4. CASE FinishSession(c)
  <2>1. pc[c] = "loaded" /\ pc'[c] = "idle"
    BY <1>0, <1>4 DEF FinishSession, Goto, TypeOK
  <2>2. meta'.recovery = meta.recovery
    BY <1>0, <1>4, <2>1, CommitBoth, RecoveryKept DEF FinishSession
  <2>3. QED
    BY <1>4, <2>1, <2>2 DEF FinishSession, history, Credit, ClientCovered, Remembers
<1>5. CASE TakeSnapshot(c)
  <2>1. pc[c] = "loaded" /\ pc'[c] = "snapped" /\ pend'[c] = next /\ next \in Nodes
    BY <1>0, <1>5 DEF TakeSnapshot, Goto, TypeOK
  <2>2. QED
    BY <1>5, <2>1 DEF TakeSnapshot, stores, history, Credit, ClientCovered, Remembers
<1>6. CASE RecoverGate(c)
  <2>1. pc[c] = "snapped" /\ m[c].recovery = meta.recovery /\ m[c].recovery # None
    BY <1>6 DEF RecoverGate
  <2>2. CASE ExitGateOk(m[c].recovery)
    <3>1. meta'.recovery = None /\ m'[c].recovery = None
      BY <1>0, <1>6, <2>2, CommitBoth, RecoveryCleared DEF RecoverGate
    <3>2. owed' = IF owed = meta.recovery THEN None ELSE owed
      BY <1>6, <2>1, <2>2 DEF RecoverGate, PayGate
    <3>3. UNCHANGED <<pc, next, pend, lapses, crashes>>
      BY <1>6, <2>2 DEF RecoverGate
    <3>4. ClientCovered(c) => ClientCovered(c)'
      BY <2>1, <3>2, <3>3 DEF ClientCovered, Remembers
    <3>5. Credit(c)'
      BY <1>0, <3>3, <3>4 DEF Credit
    <3>6. QED
      BY <2>1, <3>1, <3>3, <3>5
  <2>3. CASE ~ExitGateOk(m[c].recovery)
    BY <1>0, <1>6, <2>1, <2>3, BlockedKeepsCredit DEF RecoverGate, Reasons
  <2>4. QED
    BY <2>2, <2>3
<1>7. CASE CheckLast(c)
  <2>1. pc[c] = "snapped" /\ m[c].recovery = meta.recovery /\ meta.recovery = None
    BY <1>7 DEF CheckLast
  <2>2. CASE BlockedBy(c) = None
    <3>1. pc'[c] = "cleared" /\ UNCHANGED <<meta, m, next, pend, history>>
      BY <1>0, <1>7, <2>2 DEF CheckLast, Goto, TypeOK
    <3>2. QED
      BY <2>1, <3>1 DEF history, Credit, ClientCovered, Remembers
  <2>3. CASE BlockedBy(c) # None
    <3>1. BlockedBy(c) \in Reasons /\ Blocked(c, m[c], BlockedBy(c)) /\ UNCHANGED history
      BY <1>7, <2>3 DEF CheckLast, BlockedBy, Reasons
    <3>2. QED
      BY <1>0, <2>1, <3>1, BlockedKeepsCredit DEF history
  <2>4. QED
    BY <2>2, <2>3
<1>8. CASE InvokeLlm(c)
  <2>1. pc[c] = "cleared" /\ pc'[c] = "asked"
    BY <1>0, <1>8 DEF InvokeLlm, Goto, TypeOK
  <2>2. meta'.recovery = meta.recovery /\ m'[c].recovery = meta.recovery
    BY <1>0, <1>8, <2>1, AskingKeepsRecovery
  <2>3. QED
    BY <1>8, <2>1, <2>2 DEF InvokeLlm, Credit, ClientCovered, Remembers
<1>9. CASE EnterAfterAsking(c)
  <2>1. pc[c] = "asked" /\ pc'[c] \in {"ready", "idle"}
    BY <1>0, <1>9 DEF EnterAfterAsking, Goto, TypeOK
  <2>2. m'[c].recovery = m[c].recovery
    BY <1>0, <1>9, EnteringKeepsRecovery
  <2>3. QED
    BY <1>9, <2>1, <2>2 DEF EnterAfterAsking, stores, history, Credit, ClientCovered, Remembers
<1>10. CASE EnterLlmNode(c)
  <2>1. pc[c] = "cleared" /\ m[c].recovery = meta.recovery
    BY <1>10 DEF EnterLlmNode
  <2>2. CASE EntryGateOk(pend[c])
    <3>1. pc'[c] = "ready" /\ m'[c].recovery = m[c].recovery
      <4>1. pc'[c] = "ready"
        BY <1>0, <1>10, <2>2 DEF EnterLlmNode, Goto, TypeOK
      <4>2. QED
        BY <1>0, <1>10, <2>2, <4>1, EnteringKeepsRecovery
    <3>2. QED
      BY <1>10, <2>1, <2>2, <3>1 DEF EnterLlmNode, history, Credit, ClientCovered, Remembers
  <2>3. CASE ~EntryGateOk(pend[c])
    <3>1. Blocked(c, [m[c] EXCEPT !.waiting = "node_gate"], "node_gate") /\ UNCHANGED history
      BY <1>10, <2>3 DEF EnterLlmNode
    <3>2. /\ [m[c] EXCEPT !.waiting = "node_gate"] \in MetaType
          /\ [m[c] EXCEPT !.waiting = "node_gate"].recovery = meta.recovery
      BY <1>0, <2>1 DEF MetaType
    <3>3. QED
      BY <2>1, <3>1, <3>2, BlockedKeepsCredit DEF history, Reasons
  <2>4. QED
    BY <2>2, <2>3
<1>11. CASE EnterDirectly(c)
  <2>1. pc[c] = "cleared" /\ pc'[c] = "ready"
    BY <1>0, <1>11 DEF EnterDirectly, Goto, TypeOK
  <2>2. QED
    BY <1>11, <2>1 DEF EnterDirectly, stores, history, Credit, ClientCovered, Remembers
<1>12. CASE RunNode(c)
  <2>1. pc[c] = "ready" /\ pc'[c] = "ran"
    BY <1>0, <1>12 DEF RunNode, Goto, TypeOK
  <2>2. next \in Nodes /\ pend[c] = next /\ meta.recovery = None /\ m[c].recovery = None
    BY <2>1
  <2>3. owed' = next /\ lapses' = IF owed # None THEN lapses + 1 ELSE lapses
    BY <1>12, <2>2 DEF RunNode, Execute
  <2>4. UNCHANGED <<meta, m, pend, crashes>>
    BY <1>12 DEF RunNode
  <2>5. ClientCovered(c)'
    BY <2>1, <2>2, <2>3, <2>4 DEF ClientCovered, Remembers
  <2>6. owed # None => ~ClientCovered(c)
    BY <2>1, <2>2 DEF ClientCovered, Remembers
  <2>7. Credit(c)'
    BY <1>0, <2>3, <2>4, <2>5, <2>6 DEF Credit
  <2>8. QED
    BY <2>1, <2>2, <2>4, <2>7
<1>13. CASE PassExitGate(c)
  <2>1. pc[c] = "ran" /\ pc'[c] = "passed"
    BY <1>0, <1>13 DEF PassExitGate, Goto, TypeOK
  <2>2. owed' = IF owed = pend[c] THEN None ELSE owed
    BY <1>13 DEF PassExitGate, PayGate
  <2>3. UNCHANGED <<meta, m, pend, next, lapses, crashes>>
    BY <1>13 DEF PassExitGate
  <2>4. ClientCovered(c) => ClientCovered(c)'
    BY <2>1, <2>2, <2>3 DEF ClientCovered, Remembers
  <2>5. QED
    BY <1>0, <2>1, <2>3, <2>4 DEF Credit
<1>14. CASE RollbackInvoke(c)
  <2>1. pc[c] = "ran" /\ pc'[c] = "rolled"
    BY <1>0, <1>14 DEF RollbackInvoke, Goto, TypeOK
  <2>2. QED
    BY <1>14, <2>1 DEF RollbackInvoke, history, Credit, ClientCovered, Remembers
<1>15. CASE SaveRecovery(c)
  <2>1. pc[c] = "rolled" /\ pc'[c] = "idle" /\ meta.recovery = None
    BY <1>0, <1>15 DEF SaveRecovery, Blocked, Goto, TypeOK
  <2>2. meta'.recovery = pend[c]
    BY <1>0, <1>15, RollbackIsRecorded
  <2>3. UNCHANGED <<owed, lapses, crashes>>
    BY <1>15 DEF SaveRecovery, history
  <2>4. ClientCovered(c) => ClientCovered(c)'
    BY <2>1, <2>2, <2>3 DEF ClientCovered, Remembers
  <2>5. QED
    BY <1>0, <2>1, <2>3, <2>4 DEF Credit
<1>16. CASE SaveProgress(c)
  <2>1. pc[c] = "passed" /\ pc'[c] = "idle" /\ meta.recovery = None
    BY <1>0, <1>16 DEF SaveProgress, Goto, TypeOK
  <2>2. UNCHANGED <<owed, lapses, crashes>>
    BY <1>16 DEF SaveProgress, history
  <2>3. ClientCovered(c) => ClientCovered(c)'
    BY <2>1, <2>2 DEF ClientCovered, Remembers
  <2>4. QED
    BY <1>0, <2>1, <2>2, <2>3 DEF Credit
<1>17. CASE BeginInvokeLlm(c)
  <2>1. pc[c] = "idle" /\ pc'[c] = "inviting" /\ m'[c] = meta
    BY <1>0, <1>17 DEF BeginInvokeLlm, Goto, TypeOK
  <2>2. QED
    BY <1>17, <2>1 DEF BeginInvokeLlm, stores, history, Credit, ClientCovered, Remembers
<1>18. CASE FinishInvokeLlm(c)
  <2>1. pc[c] = "inviting" /\ pc'[c] = "idle"
    BY <1>0, <1>18 DEF FinishInvokeLlm, Goto, TypeOK
  <2>2. meta'.recovery = meta.recovery
    BY <1>0, <1>18, <2>1, AskingKeepsRecovery
  <2>3. QED
    BY <1>18, <2>1, <2>2 DEF FinishInvokeLlm, Credit, ClientCovered, Remembers
<1>19. CASE Crash(c)
  <2>1. pc'[c] = "idle" /\ crashes' = crashes + 1 /\ lapses' = lapses
    BY <1>0, <1>19 DEF Crash, Goto, TypeOK
  <2>2. QED
    BY <1>0, <2>1 DEF Credit
<1>20. CASE DieInNode(c)
  <2>1. pc'[c] = "idle" /\ crashes' = crashes + 1 /\ lapses' = lapses
    BY <1>0, <1>20 DEF DieInNode, Goto, TypeOK
  <2>2. QED
    BY <1>0, <2>1 DEF Credit
<1>21. QED
  BY <1>1, <1>2, <1>3, <1>4, <1>5, <1>6, <1>7, <1>8, <1>9, <1>10, <1>11, <1>12, <1>13,
     <1>14, <1>15, <1>16, <1>17, <1>18, <1>19, <1>20 DEF Tick

(***************************************************************************)
(* The books are in order at the start ...                                 *)
(***************************************************************************)
LEMMA BooksInit == Init => TypeInv /\ CreditInv
<1>1. NewSession \in MetaType
  BY DEF NewSession, MetaType
<1>2. Init => TypeInv
  BY <1>1 DEF Init, TypeInv, PendKnown, TypeOK, NoSnapshot, PCs, Checks
<1>3. Init => CreditInv
  BY DEF Init, CreditInv, Covered, RecordInStep, NothingToRecover, SnapshotInStep, SetupPasses
<1>4. QED
  BY <1>2, <1>3

(***************************************************************************)
(* ... and stay so.                                                        *)
(***************************************************************************)
LEMMA BooksStep ==
  ASSUME OneClient, SetupIsSound, TypeInv, CreditInv, [Next]_vars
  PROVE  TypeInv' /\ CreditInv'
<1>1. ASSUME NEW c \in Clients,
             Tick(c) \/ BeginInvokeLlm(c) \/ FinishInvokeLlm(c) \/ Crash(c) \/ DieInNode(c)
      PROVE  CreditInv'
  BY <1>1, CreditStep, CreditOfTheClient
<1>2. ASSUME NEW n \in Nodes, SupplyEvidence(n) PROVE CreditInv'
  <2>1. /\ UNCHANGED <<meta, next, locals, history>>
        /\ ev' = [ev EXCEPT ![n] = Checks]
    BY <1>2 DEF SupplyEvidence
  <2>2. ev[Setup] \subseteq ev'[Setup]
    BY <2>1, GraphAssumption DEF TypeInv, TypeOK
  <2>3. Covered' <=> Covered
    BY <2>1 DEF Covered, Remembers, locals, history
  <2>4. QED
    BY <2>1, <2>2, <2>3 DEF CreditInv, RecordInStep, NothingToRecover, SnapshotInStep,
       SetupPasses, locals, history
<1>3. ASSUME UNCHANGED vars PROVE CreditInv'
  BY <1>3 DEF vars, stores, locals, history, CreditInv, Covered, Remembers,
     RecordInStep, NothingToRecover, SnapshotInStep, SetupPasses
<1>4. CreditInv'
  BY <1>1, <1>2, <1>3 DEF Next
<1>5. TypeInv'
  BY TypeStep
<1>6. QED
  BY <1>4, <1>5

(***************************************************************************)
(* With one client, a session runs a node past an unpaid gate at most once *)
(* per crash; without crashes it never does.                               *)
(***************************************************************************)
THEOREM LapsesBounded ==
  ASSUME OneClient, SetupIsSound
  PROVE  Spec => []LapsesBoundedByCrashes
<1> DEFINE Inv == TypeInv /\ CreditInv
<1>1. Init => Inv
  BY BooksInit
<1>2. Inv /\ [Next]_vars => Inv'
  BY BooksStep
<1>3. Inv => LapsesBoundedByCrashes
  BY DEF TypeInv, TypeOK, CreditInv, LapsesBoundedByCrashes
<1>4. QED
  BY <1>1, <1>2, <1>3, PTL DEF Spec

-----------------------------------------------------------------------------
(***************************************************************************)
(* Where the record and the checkpoint stand to each other, for one        *)
(* client.  A call works on the record that is on disk, the LLM calls and  *)
(* what it waits for aside, and past its snapshot the session is started.  *)
(***************************************************************************)
SamePlace(x, r) ==
  /\ x.started = r.started
  /\ x.finished = r.finished
  /\ x.last = r.last
  /\ x.recovery = r.recovery

CopyInStep(c) ==
  /\ pc[c] # "idle" => SamePlace(m[c], meta) /\ m[c].blocks = meta.blocks
  /\ pc[c] = "started" => ~meta.started
  /\ pc[c] \in {"snapped", "cleared", "asked", "ready", "ran", "passed", "rolled"} => meta.started

(***************************************************************************)
(* Until the first tick is saved the record is the new one.                *)
(***************************************************************************)
Pristine == ~meta.started => meta.last = None /\ meta.recovery = None /\ ~meta.finished

(***************************************************************************)
(* The node a call has run is the one the checkpoint has moved on from,    *)
(* rolled back or not.                                                     *)
(***************************************************************************)
InFlight(c) ==
  /\ pc[c] \in {"ran", "passed", "rolled"} => next \in Succ(pend[c])
  /\ pc[c] = "ran" => pre[c].node = pend[c]
  /\ pc[c] \in {"ran", "passed"} => after[c].node = next
  /\ pc[c] = "started" => next \in Succ(Setup)

(***************************************************************************)
(* The pending node follows the recovery node, or else, without crashes,   *)
(* the node that completed last.                                           *)
(***************************************************************************)
FollowsRecovery == meta.recovery # None => next \in Succ(meta.recovery)

FollowsLast(c) ==
  crashes = 0 /\ meta.recovery = None /\ meta.last # None
    /\ pc[c] \notin {"ran", "passed", "rolled"} => next \in Succ(meta.last)

PathInv(c) ==
  /\ CopyInStep(c)
  /\ Pristine
  /\ InFlight(c)
  /\ FollowsRecovery
  /\ FollowsLast(c)
  /\ IllegalOnlyAfterCrash

(***************************************************************************)
(* The nodes that may end the graph leave the evidence their exit gate     *)
(* asks for, as finalize does.                                             *)
(***************************************************************************)
LastNodesAreSound ==
  \A n \in Nodes : END \in Succ(n) =>
    \A missing \in Missing[n] : missing \cap {"exit", "extra"} = {}

(***************************************************************************)
(* So no node that may end the graph is rolled back or owed as recovery,   *)
(* and nothing moves once the session is recorded as finished.             *)
(***************************************************************************)
EndsClean(c) ==
  /\ pc[c] = "ran" /\ END \in Succ(pend[c]) => {"exit", "extra"} \subseteq ev[pend[c]]
  /\ pc[c] = "rolled" => END \notin Succ(pend[c])
  /\ meta.recovery # None => END \notin Succ(meta.recovery)
  /\ meta.finished => pc[c] \in {"idle", "loaded"}

EndInv(c) == EndsClean(c) /\ FinishedWithinCrashes

(***************************************************************************)
(* A blocked response leaves the place of the record it saves alone, adds  *)
(* the reason and ends the call.                                           *)
(***************************************************************************)
LEMMA BlockedKeepsPlace ==
  ASSUME TypeOK, NEW c \in Clients, NEW rec \in MetaType, NEW why, Blocked(c, rec, why)
  PROVE  /\ SamePlace(meta', rec)
         /\ meta'.blocks = rec.blocks \cup {why}
         /\ pc'[c] = "idle"
<1>1. meta' = [rec EXCEPT !.blocks = @ \cup {why}]
  BY CommitBoth DEF Blocked
<1>2. pc'[c] = "idle"
  BY DEF Blocked, Goto, TypeOK
<1>3. QED
  BY <1>1, <1>2 DEF MetaType, SamePlace

(***************************************************************************)
(* A step that moves neither the checkpoint nor the place of the record    *)
(* keeps PathInv, unless it records an illegal transition.                 *)
(***************************************************************************)
LEMMA QuietKeepsPath ==
  ASSUME NEW c \in Clients, PathInv(c),
         SamePlace(meta', meta), IllegalOnlyAfterCrash',
         pc'[c] # "idle" => SamePlace(m'[c], meta) /\ m'[c].blocks = meta'.blocks,
         UNCHANGED <<next, crashes>>,
         pc[c] \notin {"ran", "passed", "rolled"},
         pc'[c] \notin {"ran", "passed", "rolled", "started"},
         pc'[c] \in {"snapped", "cleared", "asked", "ready"} => meta.started
  PROVE  PathInv(c)'
<1>1. CopyInStep(c)'
  BY DEF PathInv, CopyInStep, SamePlace
<1>2. Pristine' /\ FollowsRecovery' /\ FollowsLast(c)'
  BY DEF PathInv, SamePlace, Pristine, FollowsRecovery, FollowsLast, Succ
<1>3. InFlight(c)'
  BY DEF InFlight
<1>4. QED
  BY <1>1, <1>2, <1>3 DEF PathInv

(***************************************************************************)
(* Every step of the only client keeps record and checkpoint in step.      *)
(***************************************************************************)
LEMMA PathStep ==
  ASSUME TypeInv, NEW c \in Clients, InStep(c), PathInv(c),
         Tick(c) \/ BeginInvokeLlm(c) \/ FinishInvokeLlm(c) \/ Crash(c) \/ DieInNode(c)
  PROVE  PathInv(c)'
<1>0. /\ TypeOK
      /\ m[c] \in MetaType
      /\ meta \in MetaType
      /\ crashes \in Nat
  BY DEF TypeInv, TypeOK
<1>a. /\ CopyInStep(c)
      /\ pc[c] # "idle" => SamePlace(m[c], meta) /\ m[c].blocks = meta.blocks
      /\ IllegalOnlyAfterCrash
  BY DEF PathInv, CopyInStep
<1>b. ASSUME UNCHANGED <<meta, next, crashes>>,
             pc'[c] # "idle" => SamePlace(m'[c], meta) /\ m'[c].blocks = meta.blocks,
             pc[c] \notin {"ran", "passed", "rolled"},
             pc'[c] \notin {"ran", "passed", "rolled", "started"},
             pc'[c] \in {"snapped", "cleared", "asked", "ready"} => meta.started
      PROVE  PathInv(c)'
  BY <1>a, <1>b, QuietKeepsPath DEF SamePlace, IllegalOnlyAfterCrash
<1>c. ASSUME NEW rec \in MetaType, NEW why \in Reasons, Blocked(c, rec, why),
             SamePlace(rec, meta), rec.blocks = meta.blocks,
             crashes = 0 => why # "illegal_transition",
             pc[c] \in {"snapped", "cleared"}, UNCHANGED <<next, crashes>>
      PROVE  PathInv(c)'
  <2>1. SamePlace(meta', meta) /\ meta'.blocks = meta.blocks \cup {why} /\ pc'[c] = "idle"
    BY <1>0, <1>c, BlockedKeepsPlace DEF SamePlace
  <2>2. IllegalOnlyAfterCrash'
    BY <1>a, <1>c, <2>1 DEF IllegalOnlyAfterCrash
  <2>3. QED
    BY <1>c, <2>1, <2>2, QuietKeepsPath
<1>1. CASE LoadMeta(c)
  <2>1. pc[c] = "idle" /\ pc'[c] = "loaded" /\ m'[c] = meta
    BY <1>0, <1>1 DEF LoadMeta, Goto, TypeOK
  <2>2. UNCHANGED <<meta, next, crashes>>
    BY <1>1 DEF LoadMeta, stores, history
  <2>3. QED
    BY <1>b, <2>1, <2>2 DEF SamePlace
<1>2. CASE StartGraph(c)
  <2>1. pc[c] = "loaded" /\ pc'[c] = "started" /\ ~meta.started
    BY <1>0, <1>2, <1>a DEF StartGraph, Goto, TypeOK, SamePlace
  <2>2. next' \in Succ(Setup) /\ UNCHANGED <<meta, m, crashes>>
    BY <1>2 DEF StartGraph, Execute
  <2>3. meta.last = None /\ meta.recovery = None
    BY <2>1 DEF PathInv, Pristine
  <2>4. CopyInStep(c)'
    BY <1>a, <2>1, <2>2 DEF CopyInStep, SamePlace
  <2>5. InFlight(c)'
    BY <2>1, <2>2 DEF InFlight, Succ
  <2>6. QED
    BY <1>a, <2>2, <2>3, <2>4, <2>5
       DEF PathInv, Pristine, FollowsRecovery, FollowsLast, IllegalOnlyAfterCrash
<1>3. CASE SaveStart(c)
  <2>1. pc[c] = "started" /\ pc'[c] = "idle" /\ UNCHANGED <<next, crashes>>
    BY <1>0, <1>3 DEF SaveStart, Goto, TypeOK
  <2>2. next \in Succ(Setup) /\ meta.last = None /\ meta.recovery = None
    BY <1>a, <2>1 DEF PathInv, InFlight, CopyInStep, Pristine
  <2>3. \/ meta' = [m[c] EXCEPT !.started = TRUE, !.last = Setup]
        \/ meta' = [m[c] EXCEPT !.started = TRUE]
    BY <1>3 DEF SaveStart, Commit, Save
  <2>4. /\ meta'.started /\ meta'.last \in {Setup, None} /\ meta'.recovery = None
        /\ meta'.blocks = meta.blocks
    BY <1>0, <1>a, <2>1, <2>2, <2>3 DEF MetaType, SamePlace
  <2>5. QED
    BY <1>a, <2>1, <2>2, <2>4 DEF PathInv, CopyInStep, Pristine, InFlight,
       FollowsRecovery, FollowsLast, IllegalOnlyAfterCrash, Succ
<1>4. CASE FinishSession(c)
  <2>1. pc[c] = "loaded" /\ pc'[c] = "idle" /\ m[c].started /\ UNCHANGED <<next, crashes>>
    BY <1>0, <1>4 DEF FinishSession, Goto, TypeOK, history
  <2>2. meta' = [m[c] EXCEPT !.finished = TRUE]
    BY <1>4 DEF FinishSession, Commit, Save
  <2>3. /\ meta'.started /\ meta'.last = meta.last /\ meta'.recovery = meta.recovery
        /\ meta'.blocks = meta.blocks
    BY <1>0, <1>a, <2>1, <2>2 DEF MetaType, SamePlace
  <2>4. QED
    BY <1>a, <2>1, <2>3 DEF PathInv, CopyInStep, Pristine, InFlight,
       FollowsRecovery, FollowsLast, IllegalOnlyAfterCrash, Succ
<1>5. CASE TakeSnapshot(c)
  <2>1. pc[c] = "loaded" /\ pc'[c] = "snapped" /\ m[c].started
    BY <1>0, <1>5 DEF TakeSnapshot, Goto, TypeOK
  <2>2. UNCHANGED <<meta, m, next, crashes>>
    BY <1>5 DEF TakeSnapshot, stores, history
  <2>3. QED
    BY <1>a, <1>b, <2>1, <2>2 DEF SamePlace
<1>6. CASE RecoverGate(c)
  <2>1. pc[c] = "snapped" /\ m[c].recovery # None /\ meta.started
        /\ UNCHANGED <<next, crashes>>
    BY <1>6, <1>a DEF RecoverGate, CopyInStep
  <2>2. CASE ExitGateOk(m[c].recovery)
    <3>1. pc' = pc /\ Commit(c, [m[c] EXCEPT !.recovery = None, !.last = m[c].recovery])
      BY <1>6, <2>2 DEF RecoverGate
    <3>2. m'[c] = meta' /\ meta' = [m[c] EXCEPT !.recovery = None, !.last = m[c].recovery]
      BY <1>0, <3>1, CommitBoth
    <3>3. /\ meta'.started = meta.started /\ meta'.recovery = None
          /\ meta'.last = meta.recovery /\ meta'.blocks = meta.blocks
      BY <1>0, <1>a, <2>1, <3>2 DEF MetaType, SamePlace
    <3>4. next \in Succ(meta.recovery)
      BY <1>a, <2>1 DEF PathInv, FollowsRecovery, SamePlace
    <3>5. CopyInStep(c)' /\ InFlight(c)'
      BY <2>1, <3>1, <3>2, <3>3 DEF CopyInStep, InFlight, SamePlace
    <3>6. QED
      BY <1>a, <2>1, <3>3, <3>4, <3>5
         DEF PathInv, Pristine, FollowsRecovery, FollowsLast, IllegalOnlyAfterCrash, Succ
  <2>3. CASE ~ExitGateOk(m[c].recovery)
    <3>1. Blocked(c, m[c], "node_gate")
      BY <1>6, <2>3 DEF RecoverGate
    <3>2. QED
      BY <1>0, <1>a, <1>c, <2>1, <3>1 DEF Reasons
  <2>4. QED
    BY <2>2, <2>3
<1>7. CASE CheckLast(c)
  <2>1. /\ pc[c] = "snapped" /\ meta.recovery = None /\ meta.started
        /\ next \in Nodes /\ pend[c] = next
        /\ UNCHANGED <<next, crashes>>
    BY <1>7, <1>a DEF CheckLast, history, CopyInStep, SamePlace, InStep, SnapshotInStep
  <2>2. CASE BlockedBy(c) = None
    <3>1. pc'[c] = "cleared" /\ UNCHANGED <<meta, m>>
      BY <1>0, <1>7, <2>2 DEF CheckLast, Goto, TypeOK
    <3>2. QED
      BY <1>a, <1>b, <2>1, <3>1
  <2>3. CASE BlockedBy(c) # None
    <3>1. BlockedBy(c) \in Reasons /\ Blocked(c, m[c], BlockedBy(c))
      BY <1>7, <2>3 DEF CheckLast, BlockedBy, Reasons
    <3>2. ASSUME crashes = 0, meta.last # None PROVE LegalTransition(meta.last, pend[c])
      <4>1. next \in Succ(meta.last)
        BY <2>1, <3>2 DEF PathInv, FollowsLast
      <4>2. meta.last \in Nodes
        BY <1>0, <3>2 DEF MetaType
      <4>3. QED
        BY <2>1, <4>1, <4>2, FlowAssumption DEF Succ, LegalTransition
    <3>3. crashes = 0 => BlockedBy(c) # "illegal_transition"
      BY <1>a, <2>1, <2>3, <3>2 DEF BlockedBy, SamePlace
    <3>4. QED
      BY <1>0, <1>a, <1>c, <2>1, <3>1, <3>3
  <2>4. QED
    BY <2>2, <2>3
<1>8. CASE InvokeLlm(c)
  <2>1. pc[c] = "cleared" /\ pc'[c] = "asked" /\ UNCHANGED <<next, crashes>>
    BY <1>0, <1>8 DEF InvokeLlm, Goto, TypeOK
  <2>2. /\ meta' = [m[c] EXCEPT !.llmInvoked = @ \cup {pend[c]}, !.waiting = "llm"]
        /\ m'[c] = meta'
    BY <1>0, <1>8, CommitBoth DEF InvokeLlm
  <2>3. SamePlace(meta', m[c]) /\ meta'.blocks = m[c].blocks
    BY <1>0, <2>2 DEF MetaType, SamePlace
  <2>4. QED
    BY <1>a, <2>1, <2>2, <2>3, QuietKeepsPath
       DEF SamePlace, CopyInStep, IllegalOnlyAfterCrash
<1>9. CASE EnterAfterAsking(c)
  <2>1. pc[c] = "asked" /\ pc'[c] \in {"ready", "idle"} /\ UNCHANGED <<meta, next, crashes>>
    BY <1>0, <1>9 DEF EnterAfterAsking, Goto, TypeOK, stores, history
  <2>2. m'[c] = m[c] \/ m'[c] = [m[c] EXCEPT !.waiting = ""]
    BY <1>0, <1>9 DEF EnterAfterAsking, TypeOK
  <2>3. SamePlace(m'[c], m[c]) /\ m'[c].blocks = m[c].blocks
    BY <1>0, <2>2 DEF MetaType, SamePlace
  <2>4. QED
    BY <1>a, <1>b, <2>1, <2>3 DEF SamePlace, CopyInStep
<1>10. CASE EnterLlmNode(c)
  <2>1. pc[c] = "cleared" /\ meta.started /\ UNCHANGED <<next, crashes>>
    BY <1>10, <1>a DEF EnterLlmNode, history, CopyInStep
  <2>2. CASE EntryGateOk(pend[c])
    <3>1. pc'[c] = "ready" /\ meta' = meta /\ m'[c] = [m[c] EXCEPT !.waiting = ""]
      BY <1>0, <1>10, <2>2 DEF EnterLlmNode, Goto, TypeOK
    <3>2. SamePlace(m'[c], m[c]) /\ m'[c].blocks = m[c].blocks
      BY <1>0, <3>1 DEF MetaType, SamePlace
    <3>3. QED
      BY <1>a, <1>b, <2>1, <3>1, <3>2 DEF SamePlace
  <2>3. CASE ~EntryGateOk(pend[c])
    <3> DEFINE rec == [m[c] EXCEPT !.waiting = "node_gate"]
    <3>1. Blocked(c, rec, "node_gate")
      BY <1>10, <2>3 DEF EnterLlmNode
    <3>2. rec \in MetaType /\ SamePlace(rec, m[c]) /\ rec.blocks = m[c].blocks
      BY <1>0 DEF MetaType, SamePlace
    <3>3. SamePlace(rec, meta) /\ rec.blocks = meta.blocks
      BY <1>a, <2>1, <3>2 DEF SamePlace
    <3> HIDE DEF rec
    <3>4. QED
      BY <1>c, <2>1, <3>1, <3>2, <3>3 DEF Reasons
  <2>4. QED
    BY <2>2, <2>3
<1>11. CASE EnterDirectly(c)
  <2>1. pc[c] = "cleared" /\ pc'[c] = "ready" /\ UNCHANGED <<meta, m, next, crashes>>
    BY <1>0, <1>11 DEF EnterDirectly, Goto, TypeOK, stores, history
  <2>2. QED
    BY <1>a, <1>b, <2>1 DEF CopyInStep
<1>12. CASE RunNode(c)
  <2>1. pc[c] = "ready" /\ pc'[c] = "ran" /\ UNCHANGED <<meta, m, pend, crashes>>
    BY <1>0, <1>12 DEF RunNode, Goto, TypeOK
  <2>2. next \in Nodes /\ pend[c] = next /\ meta.recovery = None
    BY <2>1 DEF InStep, SnapshotInStep, NothingToRecover
  <2>3. next' \in Succ(pend[c])
    BY <1>12, <2>2 DEF RunNode, Execute
  <2>4. pre'[c].node = pend[c] /\ after'[c].node = next'
    BY <1>0, <1>12, <2>2 DEF RunNode, TypeOK
  <2>5. CopyInStep(c)' /\ InFlight(c)'
    BY <1>a, <2>1, <2>3, <2>4 DEF CopyInStep, SamePlace, InFlight, Succ
  <2>6. QED
    BY <1>a, <2>1, <2>2, <2>5
       DEF PathInv, Pristine, FollowsRecovery, FollowsLast, IllegalOnlyAfterCrash
<1>13. CASE PassExitGate(c)
  <2>1. /\ pc[c] = "ran" /\ pc'[c] = "passed"
        /\ UNCHANGED <<meta, next, m, pend, after, crashes>>
    BY <1>0, <1>13 DEF PassExitGate, Goto, TypeOK
  <2>2. QED
    BY <1>a, <2>1 DEF PathInv, CopyInStep, SamePlace, InFlight, Pristine,
       FollowsRecovery, FollowsLast, IllegalOnlyAfterCrash, Succ
<1>14. CASE RollbackInvoke(c)
  <2>1. pc[c] = "ran" /\ pc'[c] = "rolled" /\ UNCHANGED <<meta, m, pend, pre, crashes>>
    BY <1>0, <1>14 DEF RollbackInvoke, Goto, TypeOK, history
  <2>2. pend[c] \in Nodes /\ pre[c].node = pend[c] /\ meta.recovery = None
    BY <2>1 DEF TypeInv, PendKnown, PathInv, InFlight, InStep, NothingToRecover
  <2>3. next' \in Succ(pend[c])
    BY <1>14, <2>2 DEF RollbackInvoke
  <2>4. CopyInStep(c)' /\ InFlight(c)'
    BY <1>a, <2>1, <2>3 DEF CopyInStep, SamePlace, InFlight, Succ
  <2>5. QED
    BY <1>a, <2>1, <2>2, <2>4
       DEF PathInv, Pristine, FollowsRecovery, FollowsLast, IllegalOnlyAfterCrash
<1>15. CASE SaveRecovery(c)
  <2> DEFINE rec == [m[c] EXCEPT !.recovery = pend[c], !.waiting = "node_gate"]
  <2>1. pc[c] = "rolled" /\ UNCHANGED <<next, crashes>> /\ Blocked(c, rec, "node_gate")
    BY <1>15 DEF SaveRecovery, history
  <2>2. pend[c] \in Nodes /\ next \in Succ(pend[c]) /\ meta.started
    BY <1>a, <2>1 DEF TypeInv, PendKnown, PathInv, InFlight, CopyInStep
  <2>3. /\ rec \in MetaType /\ rec.recovery = pend[c] /\ rec.started = m[c].started
        /\ rec.blocks = m[c].blocks
    BY <1>0, <2>2 DEF MetaType
  <2> HIDE DEF rec
  <2>4. /\ meta'.recovery = pend[c] /\ meta'.started /\ pc'[c] = "idle"
        /\ meta'.blocks = meta.blocks \cup {"node_gate"}
    <3>1. /\ SamePlace(meta', rec) /\ meta'.blocks = rec.blocks \cup {"node_gate"}
          /\ pc'[c] = "idle"
      BY <1>0, <2>1, <2>3, BlockedKeepsPlace
    <3>2. QED
      BY <1>a, <2>1, <2>2, <2>3, <3>1 DEF SamePlace
  <2>5. QED
    BY <1>a, <2>1, <2>2, <2>4, GraphAssumption DEF PathInv, CopyInStep, Pristine, InFlight,
       FollowsRecovery, FollowsLast, IllegalOnlyAfterCrash, Succ
<1>16. CASE SaveProgress(c)
  <2>1. pc[c] = "passed" /\ pc'[c] = "idle" /\ UNCHANGED <<next, crashes>>
    BY <1>0, <1>16 DEF SaveProgress, Goto, TypeOK, history
  <2>2. next \in Succ(pend[c]) /\ meta.started
    BY <1>a, <2>1 DEF PathInv, InFlight, CopyInStep
  <2>3. /\ meta'.started = m[c].started /\ meta'.last = pend[c] /\ meta'.recovery = None
        /\ meta'.blocks = m[c].blocks
    BY <1>0, <1>16 DEF SaveProgress, Commit, Save, MetaType
  <2>4. QED
    BY <1>a, <2>1, <2>2, <2>3 DEF PathInv, CopyInStep, SamePlace, Pristine, InFlight,
       FollowsRecovery, FollowsLast, IllegalOnlyAfterCrash, Succ
<1>17. CASE BeginInvokeLlm(c)
  <2>1. /\ pc[c] = "idle" /\ pc'[c] = "inviting" /\ m'[c] = meta
        /\ UNCHANGED <<meta, next, crashes>>
    BY <1>0, <1>17 DEF BeginInvokeLlm, Goto, TypeOK, stores, history
  <2>2. QED
    BY <1>b, <2>1 DEF SamePlace
<1>18. CASE FinishInvokeLlm(c)
  <2>1. pc[c] = "inviting" /\ pc'[c] = "idle" /\ UNCHANGED <<next, crashes>>
    BY <1>0, <1>18 DEF FinishInvokeLlm, Goto, TypeOK
  <2>2. meta' = [m[c] EXCEPT !.llmInvoked = @ \cup {pend[c]}, !.waiting = "llm"]
    BY <1>18 DEF FinishInvokeLlm, Commit, Save
  <2>3. SamePlace(meta', m[c]) /\ meta'.blocks = m[c].blocks
    BY <1>0, <2>2 DEF MetaType, SamePlace
  <2>4. QED
    BY <1>a, <2>1, <2>3, QuietKeepsPath DEF SamePlace, IllegalOnlyAfterCrash
<1>19. CASE Crash(c) \/ DieInNode(c)
  <2>1. pc'[c] = "idle" /\ crashes' = crashes + 1
    BY <1>0, <1>19 DEF Crash, DieInNode, Goto, TypeOK
  <2>2. crashes' # 0 /\ UNCHANGED <<meta, next>>
    BY <1>0, <1>19, <2>1 DEF Crash, DieInNode, stores
  <2>3. QED
    BY <2>1, <2>2 DEF PathInv, CopyInStep, Pristine, InFlight,
       FollowsRecovery, FollowsLast, IllegalOnlyAfterCrash, Succ
<1>20. QED
  BY <1>1, <1>2, <1>3, <1>4, <1>5, <1>6, <1>7, <1>8, <1>9, <1>10, <1>11, <1>12, <1>13,
     <1>14, <1>15, <1>16, <1>17, <1>18, <1>19 DEF Tick

(***************************************************************************)
(* A step that leaves the checkpoint, what is owed and the recovery node   *)
(* alone, and moves a call of a finished session nowhere but back, keeps   *)
(* the end of the session.                                                 *)
(***************************************************************************)
LEMMA QuietKeepsEnd ==
  ASSUME TypeOK, NEW c \in Clients, EndInv(c),
         UNCHANGED <<next, owed, lapses>>,
         crashes' \in {crashes, crashes + 1},
         meta'.recovery = meta.recovery, meta'.finished = meta.finished,
         pc'[c] \notin {"ran", "rolled"},
         meta.finished => pc'[c] \in {"idle", "loaded"}
  PROVE  EndInv(c)'
<1>1. EndsClean(c)'
  BY DEF EndInv, EndsClean, Succ
<1>2. FinishedWithinCrashes'
  BY DEF EndInv, FinishedWithinCrashes, Debt, TypeOK
<1>3. QED
  BY <1>1, <1>2 DEF EndInv

(***************************************************************************)
(* Every step of the only client keeps the end of the session.             *)
(***************************************************************************)
LEMMA EndStep ==
  ASSUME LastNodesAreSound, TypeInv, NEW c \in Clients, InStep(c), Credit(c), PathInv(c),
         EndInv(c),
         Tick(c) \/ BeginInvokeLlm(c) \/ FinishInvokeLlm(c) \/ Crash(c) \/ DieInNode(c)
  PROVE  EndInv(c)'
<1>0. /\ TypeOK
      /\ m[c] \in MetaType
      /\ meta \in MetaType
      /\ lapses \in Nat /\ crashes \in Nat
  BY DEF TypeInv, TypeOK
<1>a. /\ pc[c] # "idle" => SamePlace(m[c], meta)
      /\ ~meta.started => meta.recovery = None /\ ~meta.finished
      /\ meta.finished => next \notin Nodes /\ next = END /\ pc[c] \in {"idle", "loaded"}
  BY GraphAssumption
     DEF PathInv, CopyInStep, Pristine, EndInv, EndsClean, FinishedWithinCrashes
<1>b. ASSUME ~meta'.finished, EndsClean(c)' PROVE EndInv(c)'
  BY <1>b DEF EndInv, FinishedWithinCrashes
<1>c. ASSUME NEW rec \in MetaType, NEW why \in Reasons, Blocked(c, rec, why),
             SamePlace(rec, meta), UNCHANGED <<next, history>>
      PROVE  EndInv(c)'
  <2>1. SamePlace(meta', meta) /\ pc'[c] = "idle"
    BY <1>0, <1>c, BlockedKeepsPlace DEF SamePlace
  <2>2. QED
    BY <1>0, <1>c, <2>1, QuietKeepsEnd DEF SamePlace, history
<1>1. CASE LoadMeta(c)
  <2>1. pc'[c] = "loaded"
    BY <1>0, <1>1 DEF LoadMeta, Goto, TypeOK
  <2>2. QED
    BY <1>0, <1>1, <2>1, QuietKeepsEnd DEF LoadMeta, stores, history
<1>2. CASE StartGraph(c)
  <2>1. pc'[c] = "started" /\ ~meta.started /\ meta' = meta
    BY <1>0, <1>2, <1>a DEF StartGraph, Goto, TypeOK, SamePlace
  <2>2. QED
    BY <1>a, <1>b, <2>1 DEF EndsClean
<1>3. CASE SaveStart(c)
  <2>1. pc[c] = "started" /\ pc'[c] = "idle" /\ ~meta.started
    BY <1>0, <1>3 DEF SaveStart, Goto, TypeOK, PathInv, CopyInStep
  <2>2. \/ meta' = [m[c] EXCEPT !.started = TRUE, !.last = Setup]
        \/ meta' = [m[c] EXCEPT !.started = TRUE]
    BY <1>3 DEF SaveStart, Commit, Save
  <2>3. ~meta'.finished /\ meta'.recovery = None
    BY <1>0, <1>a, <2>1, <2>2 DEF MetaType, SamePlace
  <2>4. QED
    BY <1>b, <2>1, <2>3 DEF EndsClean
<1>4. CASE FinishSession(c)
  <2>1. /\ pc[c] = "loaded" /\ pc'[c] = "idle" /\ next = END
        /\ UNCHANGED <<next, owed, lapses, crashes>>
    BY <1>0, <1>4 DEF FinishSession, Goto, TypeOK, history
  <2>2. meta' = [m[c] EXCEPT !.finished = TRUE]
    BY <1>4 DEF FinishSession, Commit, Save
  <2>3. meta'.recovery = meta.recovery
    BY <1>0, <1>a, <2>1, <2>2 DEF MetaType, SamePlace
  <2>4. meta.recovery = None
    BY <2>1 DEF EndInv, EndsClean, PathInv, FollowsRecovery
  <2>5. owed # None => ~ClientCovered(c)
    BY <2>1, <2>4 DEF ClientCovered, Remembers
  <2>6. Debt <= crashes
    BY <1>0, <2>5 DEF Credit, Debt
  <2>7. FinishedWithinCrashes'
    BY <2>1, <2>6 DEF FinishedWithinCrashes, Debt
  <2>8. EndsClean(c)'
    BY <2>1, <2>3, <2>4 DEF EndsClean
  <2>9. QED
    BY <2>7, <2>8 DEF EndInv
<1>5. CASE TakeSnapshot(c)
  <2>1. pc'[c] = "snapped" /\ next \in Nodes
    BY <1>0, <1>5 DEF TakeSnapshot, Goto, TypeOK
  <2>2. QED
    BY <1>0, <1>a, <1>5, <2>1, QuietKeepsEnd DEF TakeSnapshot, stores, history
<1>6. CASE RecoverGate(c)
  <2>1. pc[c] = "snapped" /\ ~meta.finished
    BY <1>6, <1>a DEF RecoverGate
  <2>2. CASE ExitGateOk(m[c].recovery)
    <3>1. pc' = pc /\ meta' = [m[c] EXCEPT !.recovery = None, !.last = m[c].recovery]
      BY <1>6, <2>2 DEF RecoverGate, Commit, Save
    <3>2. ~meta'.finished /\ meta'.recovery = None
      BY <1>0, <1>a, <2>1, <3>1 DEF MetaType, SamePlace
    <3>3. QED
      BY <1>b, <2>1, <3>1, <3>2 DEF EndsClean
  <2>3. CASE ~ExitGateOk(m[c].recovery)
    BY <1>0, <1>a, <1>c, <1>6, <2>1, <2>3 DEF RecoverGate, Reasons, history
  <2>4. QED
    BY <2>2, <2>3
<1>7. CASE CheckLast(c)
  <2>1. pc[c] = "snapped" /\ UNCHANGED <<next, history>>
    BY <1>7 DEF CheckLast
  <2>2. CASE BlockedBy(c) = None
    <3>1. pc'[c] = "cleared" /\ meta' = meta
      BY <1>0, <1>7, <2>2 DEF CheckLast, Goto, TypeOK
    <3>2. QED
      BY <1>0, <1>a, <2>1, <3>1, QuietKeepsEnd DEF history
  <2>3. CASE BlockedBy(c) # None
    <3>1. BlockedBy(c) \in Reasons /\ Blocked(c, m[c], BlockedBy(c))
      BY <1>7, <2>3 DEF CheckLast, BlockedBy, Reasons
    <3>2. QED
      BY <1>0, <1>a, <1>c, <2>1, <3>1
  <2>4. QED
    BY <2>2, <2>3
<1>8. CASE InvokeLlm(c) \/ FinishInvokeLlm(c)
  <2>1. /\ pc[c] \in {"cleared", "inviting"} /\ pc'[c] \in {"asked", "idle"}
        /\ UNCHANGED <<next, owed, lapses, crashes>>
    BY <1>0, <1>8 DEF InvokeLlm, FinishInvokeLlm, Goto, TypeOK
  <2>2. meta' = [m[c] EXCEPT !.llmInvoked = @ \cup {pend[c]}, !.waiting = "llm"]
    BY <1>8 DEF InvokeLlm, FinishInvokeLlm, Commit, Save
  <2>3. SamePlace(meta', m[c])
    BY <1>0, <2>2 DEF MetaType, SamePlace
  <2>4. QED
    BY <1>0, <1>a, <2>1, <2>3, QuietKeepsEnd DEF SamePlace
<1>9. CASE EnterAfterAsking(c) \/ EnterDirectly(c) \/ BeginInvokeLlm(c)
  <2>1. /\ pc[c] \in {"asked", "cleared", "idle"} /\ pc'[c] \in {"ready", "idle", "inviting"}
        /\ pc[c] = "idle" => next \in Nodes
        /\ UNCHANGED <<meta, next, owed, lapses, crashes>>
    BY <1>0, <1>9 DEF EnterAfterAsking, EnterDirectly, BeginInvokeLlm, Goto, TypeOK, stores, history
  <2>2. QED
    BY <1>0, <1>a, <2>1, QuietKeepsEnd
<1>10. CASE EnterLlmNode(c)
  <2>1. pc[c] = "cleared" /\ UNCHANGED <<next, history>>
    BY <1>10 DEF EnterLlmNode
  <2>2. CASE EntryGateOk(pend[c])
    <3>1. pc'[c] = "ready" /\ meta' = meta
      BY <1>0, <1>10, <2>2 DEF EnterLlmNode, Goto, TypeOK
    <3>2. QED
      BY <1>0, <1>a, <2>1, <3>1, QuietKeepsEnd DEF history
  <2>3. CASE ~EntryGateOk(pend[c])
    <3> DEFINE rec == [m[c] EXCEPT !.waiting = "node_gate"]
    <3>1. Blocked(c, rec, "node_gate")
      BY <1>10, <2>3 DEF EnterLlmNode
    <3>2. rec \in MetaType /\ SamePlace(rec, m[c])
      BY <1>0 DEF MetaType, SamePlace
    <3>3. SamePlace(rec, meta)
      BY <1>a, <2>1, <3>2 DEF SamePlace
    <3> HIDE DEF rec
    <3>4. QED
      BY <1>c, <2>1, <3>1, <3>2, <3>3 DEF Reasons
  <2>4. QED
    BY <2>2, <2>3
<1>11. CASE RunNode(c)
  <2>1. pc[c] = "ready" /\ pc'[c] = "ran" /\ UNCHANGED <<meta, pend>>
    BY <1>0, <1>11 DEF RunNode, Goto, TypeOK
  <2>2. next \in Nodes /\ pend[c] = next /\ meta.recovery = None
    BY <2>1 DEF InStep, SnapshotInStep, NothingToRecover
  <2>3. PICK missing \in Missing[next] : ev' = [ev EXCEPT ![next] = Checks \ missing]
    BY <1>11, <2>2 DEF RunNode, Execute
  <2>4. END \in Succ(next) => {"exit", "extra"} \subseteq ev'[next]
    BY <1>0, <2>2, <2>3 DEF LastNodesAreSound, TypeOK, Checks
  <2>5. EndsClean(c)'
    BY <1>a, <2>1, <2>2, <2>4 DEF EndsClean, Succ
  <2>6. QED
    BY <1>a, <1>b, <2>1, <2>5
<1>12. CASE PassExitGate(c)
  <2>1. pc[c] = "ran" /\ pc'[c] = "passed" /\ meta' = meta
    BY <1>0, <1>12 DEF PassExitGate, Goto, TypeOK
  <2>2. QED
    BY <1>a, <1>b, <2>1 DEF EndInv, EndsClean, Succ
<1>13. CASE RollbackInvoke(c)
  <2>1. /\ pc[c] = "ran" /\ pc'[c] = "rolled" /\ ~ExitGateOk(pend[c])
        /\ UNCHANGED <<meta, pend>>
    BY <1>0, <1>13 DEF RollbackInvoke, Goto, TypeOK
  <2>2. END \notin Succ(pend[c])
    BY <2>1 DEF EndInv, EndsClean, ExitGateOk
  <2>3. QED
    BY <1>a, <1>b, <2>1, <2>2 DEF EndInv, EndsClean, Succ
<1>14. CASE SaveRecovery(c)
  <2> DEFINE rec == [m[c] EXCEPT !.recovery = pend[c], !.waiting = "node_gate"]
  <2>1. pc[c] = "rolled" /\ Blocked(c, rec, "node_gate")
    BY <1>14 DEF SaveRecovery
  <2>2. pend[c] \in Nodes /\ END \notin Succ(pend[c]) /\ ~meta.finished
    BY <1>a, <2>1 DEF TypeInv, PendKnown, EndInv, EndsClean
  <2>3. rec \in MetaType /\ rec.recovery = pend[c] /\ rec.finished = m[c].finished
    BY <1>0, <2>2 DEF MetaType
  <2> HIDE DEF rec
  <2>4. SamePlace(meta', rec) /\ pc'[c] = "idle"
    BY <1>0, <2>1, <2>3, BlockedKeepsPlace
  <2>5. meta'.recovery = pend[c] /\ ~meta'.finished
    BY <1>a, <2>1, <2>2, <2>3, <2>4 DEF SamePlace
  <2>6. QED
    BY <1>b, <2>2, <2>4, <2>5 DEF EndsClean, Succ
<1>15. CASE SaveProgress(c)
  <2>1. /\ pc[c] = "passed" /\ pc'[c] = "idle" /\ meta.recovery = None /\ ~m[c].finished
        /\ after[c].node = next /\ UNCHANGED <<next, owed, lapses, crashes>>
    BY <1>0, <1>a, <1>15 DEF SaveProgress, Goto, TypeOK, history, PathInv, InFlight,
       SamePlace, InStep, NothingToRecover
  <2>2. meta'.recovery = None /\ (meta'.finished => next = END)
    BY <1>0, <1>15, <2>1 DEF SaveProgress, Commit, Save, MetaType
  <2>3. owed # None => ~ClientCovered(c)
    BY <2>1, GraphAssumption DEF ClientCovered, Remembers
  <2>4. Debt <= crashes
    BY <1>0, <2>3 DEF Credit, Debt
  <2>5. FinishedWithinCrashes'
    BY <2>1, <2>2, <2>4 DEF FinishedWithinCrashes, Debt
  <2>6. EndsClean(c)'
    BY <2>1, <2>2 DEF EndsClean
  <2>7. QED
    BY <2>5, <2>6 DEF EndInv
<1>16. CASE Crash(c) \/ DieInNode(c)
  <2>1. pc'[c] = "idle" /\ UNCHANGED <<meta, next, owed, lapses>> /\ crashes' = crashes + 1
    BY <1>0, <1>16 DEF Crash, DieInNode, Goto, TypeOK, stores
  <2>2. QED
    BY <1>0, <2>1, QuietKeepsEnd
<1>17. QED
  BY <1>1, <1>2, <1>3, <1>4, <1>5, <1>6, <1>7, <1>8, <1>9, <1>10, <1>11, <1>12, <1>13,
     <1>14, <1>15, <1>16 DEF Tick

-----------------------------------------------------------------------------
(***************************************************************************)
(* Record and checkpoint start in step ...                                 *)
(***************************************************************************)
LEMMA PathInit ==
  ASSUME Init
  PROVE  IllegalOnlyAfterCrash /\ \A c \in Clients : PathInv(c)
BY DEF Init, NewSession, PathInv, CopyInStep, Pristine, InFlight, FollowsRecovery,
   FollowsLast, IllegalOnlyAfterCrash

(***************************************************************************)
(* ... and stay so: evidence supplied from outside moves neither.          *)
(***************************************************************************)
LEMMA PathKept ==
  ASSUME OneClient, TypeInv, CreditInv, [Next]_vars, IllegalOnlyAfterCrash,
         \A c \in Clients : PathInv(c)
  PROVE  IllegalOnlyAfterCrash' /\ \A c \in Clients : PathInv(c)'
<1>1. ASSUME NEW c \in Clients,
             Tick(c) \/ BeginInvokeLlm(c) \/ FinishInvokeLlm(c) \/ Crash(c) \/ DieInNode(c)
      PROVE  IllegalOnlyAfterCrash' /\ \A d \in Clients : PathInv(d)'
  <2>1. PathInv(c)'
    BY <1>1, PathStep, CreditOfTheClient
  <2>2. IllegalOnlyAfterCrash'
    BY <2>1 DEF PathInv
  <2>3. \A d \in Clients : d = c
    BY DEF OneClient
  <2>4. QED
    BY <2>1, <2>2, <2>3
<1>2. ASSUME UNCHANGED <<meta, next, locals, crashes>>
      PROVE  IllegalOnlyAfterCrash' /\ \A c \in Clients : PathInv(c)'
  BY <1>2 DEF locals, PathInv, CopyInStep, SamePlace, Pristine, InFlight, FollowsRecovery,
     FollowsLast, IllegalOnlyAfterCrash, Succ
<1>3. ASSUME NEW n \in Nodes, SupplyEvidence(n) PROVE UNCHANGED <<meta, next, locals, crashes>>
  BY <1>3 DEF SupplyEvidence, history
<1>4. CASE UNCHANGED vars
  BY <1>2, <1>4 DEF vars, stores, history
<1>5. QED
  BY <1>1, <1>2, <1>3, <1>4 DEF Next

(***************************************************************************)
(* With one client, no tick is refused as an illegal transition unless a   *)
(* process has died: a rollback, a recovery and a change of route keep the *)
(* record and the checkpoint in step.                                      *)
(***************************************************************************)
THEOREM IllegalNeedsCrash ==
  ASSUME OneClient, SetupIsSound
  PROVE  Spec => []IllegalOnlyAfterCrash
<1> DEFINE Inv == /\ TypeInv /\ CreditInv
                  /\ IllegalOnlyAfterCrash /\ \A c \in Clients : PathInv(c)
<1>1. Init => Inv
  BY BooksInit, PathInit
<1>2. Inv /\ [Next]_vars => Inv'
  BY BooksStep, PathKept
<1>3. Inv => IllegalOnlyAfterCrash
  OBVIOUS
<1>4. QED
  BY <1>1, <1>2, <1>3, PTL DEF Spec

(***************************************************************************)
(* No session starts finished ...                                          *)
(***************************************************************************)
LEMMA EndInit ==
  ASSUME Init
  PROVE  FinishedWithinCrashes /\ \A c \in Clients : EndsClean(c)
<1>1. ~meta.finished /\ meta.recovery = None
  BY DEF Init, NewSession
<1>2. \A c \in Clients : pc[c] = "idle"
  BY DEF Init
<1>3. QED
  BY <1>1, <1>2 DEF FinishedWithinCrashes, EndsClean

(***************************************************************************)
(* ... and its end is clean at every step of the only client; evidence     *)
(* supplied from outside only adds to what a gate finds.                   *)
(***************************************************************************)
LEMMA EndKept ==
  ASSUME OneClient, LastNodesAreSound, TypeInv, CreditInv, [Next]_vars,
         \A c \in Clients : PathInv(c),
         FinishedWithinCrashes, \A c \in Clients : EndsClean(c)
  PROVE  FinishedWithinCrashes' /\ \A c \in Clients : EndsClean(c)'
<1>1. ASSUME NEW c \in Clients,
             Tick(c) \/ BeginInvokeLlm(c) \/ FinishInvokeLlm(c) \/ Crash(c) \/ DieInNode(c)
      PROVE  FinishedWithinCrashes' /\ \A d \in Clients : EndsClean(d)'
  <2>1. EndInv(c)'
    BY <1>1, EndStep, CreditOfTheClient DEF EndInv
  <2>2. \A d \in Clients : d = c
    BY DEF OneClient
  <2>3. QED
    BY <2>1, <2>2 DEF EndInv
<1>2. ASSUME UNCHANGED <<meta, next, locals, history>>,
             \A k \in Nodes : ev[k] \subseteq ev'[k]
      PROVE  FinishedWithinCrashes' /\ \A c \in Clients : EndsClean(c)'
  <2>1. FinishedWithinCrashes'
    BY <1>2 DEF history, FinishedWithinCrashes, Debt
  <2>2. ASSUME NEW c \in Clients, pc[c] = "ran" PROVE ev[pend[c]] \subseteq ev'[pend[c]]
    BY <1>2, <2>2 DEF TypeInv, PendKnown
  <2>3. ASSUME NEW c \in Clients PROVE EndsClean(c)'
    <3>1. EndsClean(c) /\ UNCHANGED <<meta, pc, pend>>
      BY <1>2 DEF locals
    <3>2. pc[c] = "ran" => ev[pend[c]] \subseteq ev'[pend[c]]
      BY <2>2
    <3>3. (pc[c] = "ran" /\ END \in Succ(pend[c]) => {"exit", "extra"} \subseteq ev[pend[c]])'
      BY <3>1, <3>2 DEF EndsClean, Succ
    <3>4. QED
      BY <3>1, <3>3 DEF EndsClean, Succ
  <2>4. QED
    BY <2>1, <2>3
<1>3. ASSUME NEW n \in Nodes, SupplyEvidence(n)
      PROVE  UNCHANGED <<meta, next, locals, history>> /\ \A k \in Nodes : ev[k] \subseteq ev'[k]
  BY <1>3 DEF SupplyEvidence, TypeInv, TypeOK
<1>4. CASE UNCHANGED vars
  BY <1>2, <1>4 DEF vars, stores
<1>5. QED
  BY <1>1, <1>2, <1>3, <1>4 DEF Next

(***************************************************************************)
(* With one client, a session recorded as finished has no node left to run *)
(* and ran past at most one unpaid gate per process that died, provided    *)
(* the nodes that may end the graph pass their own exit gate.              *)
(***************************************************************************)
THEOREM FinishedIsPaid ==
  ASSUME OneClient, SetupIsSound, LastNodesAreSound
  PROVE  Spec => []FinishedWithinCrashes
<1> DEFINE Inv == /\ TypeInv /\ CreditInv
                  /\ IllegalOnlyAfterCrash /\ \A c \in Clients : PathInv(c)
                  /\ FinishedWithinCrashes /\ \A c \in Clients : EndsClean(c)
<1>1. Init => Inv
  BY BooksInit, PathInit, EndInit
<1>2. Inv /\ [Next]_vars => Inv'
  BY BooksStep, PathKept, EndKept
<1>3. Inv => FinishedWithinCrashes
  OBVIOUS
<1>4. QED
  BY <1>1, <1>2, <1>3, PTL DEF Spec

-----------------------------------------------------------------------------
(***************************************************************************)
(* What a call of auto_invoke_llm knows between its snapshot and the       *)
(* invoke, for one client: the pending node and the runner are those of    *)
(* the snapshot, and a node that needs the LLM is entered only once the    *)
(* call's copy of the record names it as asked.                            *)
(***************************************************************************)
AskInv(c) ==
  /\ auto[c]
  /\ pc[c] \in {"snapped", "cleared", "asked", "ready"} =>
       next \in Nodes /\ pend[c] = next /\ pre[c].runner = runner
  /\ pc[c] = "asked" => pend[c] \in m[c].llmInvoked
  /\ pc[c] = "ready" /\ NeedsLlm(pend[c], runner) => pend[c] \in m[c].llmInvoked

(***************************************************************************)
(* A pass artifact is backed while the evidence it was written for holds.  *)
(***************************************************************************)
Backed(n) == {"exit", "extra"} \subseteq ev[n]

(***************************************************************************)
(* A node is fragile when a run of it may fail to leave that evidence.     *)
(***************************************************************************)
Fragile(n) == \E missing \in Missing[n] : missing \cap {"exit", "extra"} # {}

(***************************************************************************)
(* A set of nodes that holds every node the graph reaches after n before,  *)
(* and with, the next rewrite of graph_step.json.                          *)
(***************************************************************************)
HoldsWayFrom(n, R) ==
  /\ Succ(n) \subseteq R \cup {END}
  /\ \A k \in R \ StepWriters : Succ(k) \subseteq R \cup {END}

(***************************************************************************)
(* No fragile node is visited twice without graph_step.json being          *)
(* rewritten, by itself or on the way, so that its old artifact is out of  *)
(* date by then.                                                           *)
(***************************************************************************)
RevisitsRewrite ==
  \A n \in Nodes \ StepWriters :
    Fragile(n) => \E R \in SUBSET Nodes : HoldsWayFrom(n, R) /\ n \notin R

(***************************************************************************)
(* Node k is one the graph can reach from n without a rewrite.             *)
(***************************************************************************)
OnWayFrom(n, k) == \A R \in SUBSET Nodes : HoldsWayFrom(n, R) => k \in R \cup {END}

(***************************************************************************)
(* The artifacts that count, for one client.  They are backed but for that *)
(* of a pending node a process died in, which rewrites graph_step.json     *)
(* when it runs; the graph has not come back to a fragile node whose       *)
(* artifact counts; and before the first tick is saved there are none.     *)
(***************************************************************************)
PassedInv(c) ==
  /\ ~meta.started => passed = {}
  /\ \A n \in passed : Backed(n) \/ (n = next /\ n \in StepWriters /\ pc[c] # "ran")
  /\ \A n \in passed \ StepWriters : Fragile(n) =>
       /\ OnWayFrom(n, next)
       /\ pc[c] = "ran" => \A k \in Succ(pend[c]) : OnWayFrom(n, k)

(***************************************************************************)
(* Every step of the only client keeps what it knows; no call is made      *)
(* without auto_invoke_llm.                                                *)
(***************************************************************************)
LEMMA AskStep ==
  ASSUME AutoModes \subseteq {TRUE}, TypeInv, NEW c \in Clients, AskInv(c),
         Tick(c) \/ BeginInvokeLlm(c) \/ FinishInvokeLlm(c) \/ Crash(c) \/ DieInNode(c)
  PROVE  AskInv(c)'
<1>0. TypeOK /\ m[c] \in MetaType
  BY DEF TypeInv, TypeOK
<1> DEFINE Early == {"snapped", "cleared", "asked", "ready"}
<1>a. ASSUME auto'[c], pc'[c] \notin Early PROVE AskInv(c)'
  BY <1>a DEF AskInv
<1>1. CASE LoadMeta(c)
  <2>1. auto'[c] \in AutoModes /\ pc'[c] = "loaded"
    BY <1>0, <1>1 DEF LoadMeta, Goto, TypeOK
  <2>2. QED
    BY <1>a, <2>1
<1>2. CASE StartGraph(c)
  BY <1>0, <1>2, <1>a DEF StartGraph, Goto, TypeOK, AskInv
<1>3. CASE SaveStart(c)
  BY <1>0, <1>3, <1>a DEF SaveStart, Goto, TypeOK, AskInv
<1>4. CASE FinishSession(c)
  BY <1>0, <1>4, <1>a DEF FinishSession, Goto, TypeOK, AskInv
<1>5. CASE TakeSnapshot(c)
  <2>1. pc'[c] = "snapped" /\ next \in Nodes /\ UNCHANGED <<next, runner, auto>>
    BY <1>0, <1>5 DEF TakeSnapshot, Goto, TypeOK, stores
  <2>2. pend'[c] = next /\ pre'[c].runner = runner
    BY <1>0, <1>5 DEF TakeSnapshot, TypeOK
  <2>3. QED
    BY <2>1, <2>2 DEF AskInv
<1>6. CASE RecoverGate(c)
  <2>1. pc[c] = "snapped" /\ UNCHANGED <<next, runner, pend, pre, auto>>
    BY <1>6 DEF RecoverGate
  <2>2. pc'[c] \in {"snapped", "idle"}
    BY <1>0, <1>6, <2>1 DEF RecoverGate, Blocked, Goto, TypeOK
  <2>3. QED
    BY <2>1, <2>2 DEF AskInv
<1>7. CASE CheckLast(c)
  <2>1. pc[c] = "snapped" /\ UNCHANGED <<next, runner, pend, pre, auto>>
    BY <1>7 DEF CheckLast
  <2>2. pc'[c] \in {"cleared", "idle"}
    BY <1>0, <1>7 DEF CheckLast, Blocked, Goto, TypeOK
  <2>3. QED
    BY <2>1, <2>2 DEF AskInv
<1>8. CASE InvokeLlm(c)
  <2>1. /\ pc[c] = "cleared" /\ pc'[c] = "asked"
        /\ UNCHANGED <<next, runner, pend, pre, auto>>
    BY <1>0, <1>8 DEF InvokeLlm, Goto, TypeOK
  <2>2. m'[c] = [m[c] EXCEPT !.llmInvoked = @ \cup {pend[c]}, !.waiting = "llm"]
    BY <1>0, <1>8, CommitBoth DEF InvokeLlm
  <2>3. pend[c] \in m'[c].llmInvoked
    BY <1>0, <2>2 DEF MetaType
  <2>4. QED
    BY <2>1, <2>3 DEF AskInv
<1>9. CASE EnterAfterAsking(c)
  <2>1. pc[c] = "asked" /\ UNCHANGED <<next, runner, pend, pre, auto>>
    BY <1>9 DEF EnterAfterAsking, stores
  <2>2. pc'[c] \in {"ready", "idle"}
    BY <1>0, <1>9 DEF EnterAfterAsking, Goto, TypeOK
  <2>3. m'[c] = m[c] \/ m'[c] = [m[c] EXCEPT !.waiting = ""]
    BY <1>0, <1>9 DEF EnterAfterAsking, TypeOK
  <2>4. m'[c].llmInvoked = m[c].llmInvoked
    BY <1>0, <2>3 DEF MetaType
  <2>5. QED
    BY <2>1, <2>2, <2>4 DEF AskInv
<1>10. CASE EnterLlmNode(c)
  <2>1. /\ pc[c] = "cleared" /\ pend[c] \in m[c].llmInvoked
        /\ UNCHANGED <<next, runner, pend, pre, auto>>
    BY <1>10 DEF EnterLlmNode
  <2>2. \/ pc'[c] = "idle"
        \/ pc'[c] = "ready" /\ m'[c] = [m[c] EXCEPT !.waiting = ""]
    BY <1>0, <1>10 DEF EnterLlmNode, Blocked, Goto, TypeOK
  <2>3. pc'[c] = "ready" => m'[c].llmInvoked = m[c].llmInvoked
    BY <1>0, <2>2 DEF MetaType
  <2>4. QED
    BY <2>1, <2>2, <2>3 DEF AskInv
<1>11. CASE EnterDirectly(c)
  <2>1. /\ pc[c] = "cleared" /\ pc'[c] = "ready"
        /\ ~NeedsLlm(pend[c], pre[c].runner) \/ ~auto[c]
        /\ UNCHANGED <<next, runner, m, pend, pre, auto>>
    BY <1>0, <1>11 DEF EnterDirectly, Goto, TypeOK, stores
  <2>2. pre[c].runner = runner /\ ~NeedsLlm(pend[c], runner)
    BY <2>1 DEF AskInv
  <2>3. ~NeedsLlm(pend'[c], runner')
    BY <2>1, <2>2 DEF NeedsLlm
  <2>4. QED
    BY <2>1, <2>2, <2>3 DEF AskInv
<1>12. CASE RunNode(c)
  BY <1>0, <1>12, <1>a DEF RunNode, Goto, TypeOK, AskInv
<1>13. CASE PassExitGate(c)
  BY <1>0, <1>13, <1>a DEF PassExitGate, Goto, TypeOK, AskInv
<1>14. CASE RollbackInvoke(c)
  BY <1>0, <1>14, <1>a DEF RollbackInvoke, Goto, TypeOK, AskInv
<1>15. CASE SaveRecovery(c)
  BY <1>0, <1>15, <1>a DEF SaveRecovery, Blocked, Goto, TypeOK, AskInv
<1>16. CASE SaveProgress(c)
  BY <1>0, <1>16, <1>a DEF SaveProgress, Goto, TypeOK, AskInv
<1>17. CASE BeginInvokeLlm(c)
  BY <1>0, <1>17, <1>a DEF BeginInvokeLlm, Goto, TypeOK, AskInv
<1>18. CASE FinishInvokeLlm(c)
  BY <1>0, <1>18, <1>a DEF FinishInvokeLlm, Goto, TypeOK, AskInv
<1>19. CASE Crash(c)
  BY <1>0, <1>19, <1>a DEF Crash, Goto, TypeOK, AskInv
<1>20. CASE DieInNode(c)
  BY <1>0, <1>20, <1>a DEF DieInNode, Goto, TypeOK, AskInv
<1>21. QED
  BY <1>1, <1>2, <1>3, <1>4, <1>5, <1>6, <1>7, <1>8, <1>9, <1>10, <1>11, <1>12, <1>13,
     <1>14, <1>15, <1>16, <1>17, <1>18, <1>19, <1>20 DEF Tick

(***************************************************************************)
(* Evidence supplied from outside and stuttering change nothing of it.     *)
(***************************************************************************)
LEMMA AskKept ==
  ASSUME OneClient, AutoModes \subseteq {TRUE}, TypeInv, [Next]_vars,
         \A c \in Clients : AskInv(c)
  PROVE  \A c \in Clients : AskInv(c)'
<1>1. ASSUME NEW c \in Clients,
             Tick(c) \/ BeginInvokeLlm(c) \/ FinishInvokeLlm(c) \/ Crash(c) \/ DieInNode(c)
      PROVE  \A d \in Clients : AskInv(d)'
  <2>1. AskInv(c)'
    BY <1>1, AskStep
  <2>2. QED
    BY <2>1 DEF OneClient
<1>2. ASSUME UNCHANGED <<next, runner, pc, m, pend, pre, auto>>
      PROVE  \A c \in Clients : AskInv(c)'
  BY <1>2 DEF AskInv, NeedsLlm
<1>3. ASSUME NEW n \in Nodes, SupplyEvidence(n)
      PROVE  UNCHANGED <<next, runner, pc, m, pend, pre, auto>>
  BY <1>3 DEF SupplyEvidence, locals
<1>4. CASE UNCHANGED vars
  BY <1>2, <1>4 DEF vars, stores, locals
<1>5. QED
  BY <1>1, <1>2, <1>3, <1>4 DEF Next

(***************************************************************************)
(* With one client and auto_invoke_llm, an LLM node runs only after the    *)
(* session has called the LLM for it, however often the process dies       *)
(* between the call and the run, and even where the runner, and with it    *)
(* the need for an LLM, is chosen on the way.                              *)
(***************************************************************************)
THEOREM LlmIsCalledFirst ==
  ASSUME OneClient, AutoModes \subseteq {TRUE}
  PROVE  Spec => LlmCalledBeforeRun
<1> DEFINE Inv == TypeInv /\ \A c \in Clients : AskInv(c)
<1>1. Init => Inv
  <2>1. Init => \A c \in Clients : AskInv(c)
    BY DEF Init, AskInv
  <2>2. QED
    BY <2>1, BooksInit
<1>2. Inv /\ [Next]_vars => Inv'
  BY TypeStep, AskKept
<1>3. Inv /\ [Next]_vars =>
        [\A c \in Clients : Runs(c) /\ NeedsLlm(next, runner) => next \in m[c].llmInvoked]_vars
  <2>1. SUFFICES ASSUME Inv, [Next]_vars, NEW c \in Clients, Runs(c), NeedsLlm(next, runner)
                 PROVE  next \in m[c].llmInvoked
    OBVIOUS
  <2>2. pc[c] = "ready" /\ AskInv(c)
    BY <2>1 DEF Runs
  <2>3. QED
    BY <2>1, <2>2 DEF AskInv
<1>4. QED
  BY <1>1, <1>2, <1>3, PTL DEF Spec, LlmCalledBeforeRun

-----------------------------------------------------------------------------
(***************************************************************************)
(* A run of a node that is not fragile leaves the evidence of its gate.    *)
(***************************************************************************)
LEMMA SturdyRunBacks ==
  ASSUME NEW n \in Nodes, ~Fragile(n), NEW missing \in Missing[n]
  PROVE  {"exit", "extra"} \subseteq Checks \ missing
BY DEF Fragile, Checks

(***************************************************************************)
(* A gate passes on an artifact that counts or on the evidence itself.     *)
(***************************************************************************)
LEMMA GateNeedsEvidence ==
  ASSUME NEW n, ExitGateOk(n)
  PROVE  n \in passed \/ Backed(n)
BY DEF ExitGateOk, Backed

(***************************************************************************)
(* What the graph reaches after n is on the way from n ...                 *)
(***************************************************************************)
LEMMA SuccessorOnWay ==
  ASSUME NEW n \in Nodes, NEW k \in Succ(n)
  PROVE  OnWayFrom(n, k)
BY DEF OnWayFrom, HoldsWayFrom

(***************************************************************************)
(* ... and so is what it reaches from there without a rewrite.             *)
(***************************************************************************)
LEMMA WayGoesOn ==
  ASSUME NEW n \in Nodes, NEW k \in Nodes \ StepWriters, OnWayFrom(n, k), NEW j \in Succ(k)
  PROVE  OnWayFrom(n, j)
BY GraphAssumption DEF OnWayFrom, HoldsWayFrom

(***************************************************************************)
(* A fragile node that does not rewrite graph_step.json itself is not on   *)
(* the way from itself.                                                    *)
(***************************************************************************)
LEMMA FragileNotRevisited ==
  ASSUME RevisitsRewrite, NEW n \in Nodes \ StepWriters, Fragile(n)
  PROVE  ~OnWayFrom(n, n)
BY GraphAssumption DEF RevisitsRewrite, OnWayFrom

(***************************************************************************)
(* PassedInv, part by part.                                                *)
(***************************************************************************)
AllBacked(c) ==
  \A n \in passed : Backed(n) \/ (n = next /\ n \in StepWriters /\ pc[c] # "ran")

NotBack(c) ==
  \A n \in passed \ StepWriters : Fragile(n) =>
    /\ OnWayFrom(n, next)
    /\ pc[c] = "ran" => \A k \in Succ(pend[c]) : OnWayFrom(n, k)

(***************************************************************************)
(* A step that touches neither the artifacts nor the evidence nor the      *)
(* checkpoint and does not arrive at "ran" keeps it.                       *)
(***************************************************************************)
LEMMA QuietKeepsPassed ==
  ASSUME NEW c \in Clients, PassedInv(c), UNCHANGED <<next, ev, passed>>,
         meta'.started \/ meta'.started = meta.started, pc'[c] # "ran"
  PROVE  PassedInv(c)'
<1>1. ~meta'.started => passed' = {}
  BY DEF PassedInv
<1>2. AllBacked(c)'
  BY DEF PassedInv, AllBacked, Backed
<1>3. NotBack(c)'
  BY DEF PassedInv, NotBack, OnWayFrom, HoldsWayFrom, Fragile, Succ
<1>4. QED
  BY <1>1, <1>2, <1>3 DEF PassedInv, AllBacked, NotBack

(***************************************************************************)
(* Paying the gate of a node keeps it where the gate passes, the pending   *)
(* node comes after that node and the session is started.                  *)
(***************************************************************************)
LEMMA PayingKeepsPassed ==
  ASSUME NEW c \in Clients, PassedInv(c), NEW n \in Nodes, ExitGateOk(n), PayGate(n),
         next \in Succ(n), UNCHANGED <<next, ev>>, meta'.started, pc'[c] # "ran"
  PROVE  PassedInv(c)'
<1>1. passed' = passed \cup {n}
  BY DEF PayGate
<1>2. AllBacked(c)'
  BY <1>1, GateNeedsEvidence DEF PassedInv, AllBacked, Backed
<1>3. OnWayFrom(n, next)
  BY SuccessorOnWay
<1>4. NotBack(c)'
  BY <1>1, <1>3 DEF PassedInv, NotBack, OnWayFrom, HoldsWayFrom, Fragile, Succ
<1>5. QED
  BY <1>2, <1>4 DEF PassedInv, AllBacked, NotBack

(***************************************************************************)
(* Running the pending node keeps it: a node that rewrites graph_step.json *)
(* leaves no artifact that counts, any other one is sturdy or has none.    *)
(***************************************************************************)
LEMMA RunKeepsPassed ==
  ASSUME RevisitsRewrite, TypeInv, NEW c \in Clients, InStep(c), PathInv(c), PassedInv(c),
         RunNode(c)
  PROVE  PassedInv(c)'
<1>1. pc[c] = "ready" /\ pc'[c] = "ran" /\ UNCHANGED <<meta, pend>>
  BY DEF RunNode, Goto, TypeInv, TypeOK
<1>2. next \in Nodes /\ pend[c] = next /\ Execute(next) /\ meta.started
  BY <1>1 DEF InStep, SnapshotInStep, RunNode, PathInv, CopyInStep
<1>3. next' \in Succ(next) /\ pend'[c] = next
  BY <1>1, <1>2 DEF Execute
<1>4. CASE next \in StepWriters
  <2>1. passed' = {}
    BY <1>2, <1>4 DEF Execute
  <2>2. QED
    BY <1>1, <1>2, <2>1 DEF PassedInv
<1>5. CASE next \notin StepWriters
  <2>1. passed' = passed /\ passed \subseteq Nodes
    BY <1>2, <1>5 DEF Execute, TypeInv, TypeOK
  <2>2. next \in passed => ~Fragile(next)
    BY <1>2, <1>5, FragileNotRevisited DEF PassedInv
  <2>3. \A n \in Nodes \ {next} : ev'[n] = ev[n]
    BY <1>2 DEF Execute, TypeInv, TypeOK
  <2>4. ASSUME next \in passed PROVE {"exit", "extra"} \subseteq ev'[next]
    <3>1. PICK missing \in Missing[next] : ev' = [ev EXCEPT ![next] = Checks \ missing]
      BY <1>2 DEF Execute
    <3>2. ev'[next] = Checks \ missing
      BY <1>2, <3>1 DEF TypeInv, TypeOK
    <3>3. QED
      BY <1>2, <2>2, <2>4, <3>2, SturdyRunBacks
  <2>5. AllBacked(c)'
    BY <1>5, <2>1, <2>3, <2>4 DEF PassedInv, AllBacked, Backed
  <2>6. ASSUME NEW n \in passed \ StepWriters, Fragile(n)
        PROVE  \A k \in Succ(next) : OnWayFrom(n, k)
    <3>1. OnWayFrom(n, next) /\ n \in Nodes
      BY <2>1, <2>6 DEF PassedInv
    <3>2. QED
      BY <1>2, <1>5, <3>1, WayGoesOn
  <2>7. NotBack(c)'
    BY <1>3, <2>1, <2>6 DEF NotBack, OnWayFrom, HoldsWayFrom, Fragile, Succ
  <2>8. QED
    BY <1>1, <1>2, <2>5, <2>7 DEF PassedInv, AllBacked, NotBack
<1>6. QED
  BY <1>4, <1>5

(***************************************************************************)
(* A rollback routes on from the node that has just run.                   *)
(***************************************************************************)
LEMMA RollbackKeepsPassed ==
  ASSUME TypeInv, NEW c \in Clients, PathInv(c), PassedInv(c), RollbackInvoke(c)
  PROVE  PassedInv(c)'
<1>1. pc[c] = "ran" /\ pc'[c] = "rolled" /\ UNCHANGED <<meta, ev, passed, pend>>
  BY DEF RollbackInvoke, Goto, TypeInv, TypeOK
<1>2. pend[c] \in Nodes /\ next' \in Succ(pend[c])
  BY <1>1 DEF RollbackInvoke, PathInv, InFlight, TypeInv, PendKnown
<1>3. \A n \in passed : Backed(n)
  BY <1>1 DEF PassedInv
<1>4. \A n \in passed \ StepWriters : Fragile(n) => OnWayFrom(n, next')
  BY <1>1, <1>2 DEF PassedInv
<1>5. AllBacked(c)'
  BY <1>1, <1>3 DEF AllBacked, Backed
<1>6. NotBack(c)'
  BY <1>1, <1>4 DEF NotBack, OnWayFrom, HoldsWayFrom, Fragile, Succ
<1>7. QED
  BY <1>1, <1>5, <1>6 DEF PassedInv, AllBacked, NotBack

(***************************************************************************)
(* A process that dies in a node leaves an artifact without its evidence   *)
(* only where the node, still pending, rewrites graph_step.json.           *)
(***************************************************************************)
LEMMA DeathKeepsPassed ==
  ASSUME RevisitsRewrite, TypeInv, NEW c \in Clients, PassedInv(c), DieInNode(c)
  PROVE  PassedInv(c)'
<1>1. next \in Nodes /\ pc'[c] = "idle" /\ UNCHANGED <<meta, next, pend>>
  BY DEF DieInNode, Goto, TypeInv, TypeOK
<1>2. passed' = passed \/ passed' = {}
  BY DEF DieInNode
<1>3. passed \subseteq Nodes /\ \A n \in Nodes \ {next} : ev'[n] = ev[n]
  BY DEF DieInNode, TypeInv, TypeOK
<1>4. ASSUME next \in passed, next \notin StepWriters PROVE {"exit", "extra"} \subseteq ev'[next]
  <2>1. ~Fragile(next)
    BY <1>1, <1>4, FragileNotRevisited DEF PassedInv
  <2>2. Backed(next)
    BY <1>4 DEF PassedInv
  <2>3. ev'[next] = ev[next] \/ \E missing \in Missing[next] : ev'[next] = Checks \ missing
    BY <1>1 DEF DieInNode, TypeInv, TypeOK
  <2>4. QED
    BY <1>1, <2>1, <2>2, <2>3, SturdyRunBacks DEF Backed
<1>5. AllBacked(c)'
  BY <1>1, <1>2, <1>3, <1>4 DEF PassedInv, AllBacked, Backed
<1>6. NotBack(c)'
  BY <1>1, <1>2 DEF PassedInv, NotBack, OnWayFrom, HoldsWayFrom, Fragile, Succ
<1>7. QED
  BY <1>1, <1>2, <1>5, <1>6 DEF PassedInv, AllBacked, NotBack

(***************************************************************************)
(* Every step of the only client keeps it.                                 *)
(***************************************************************************)
LEMMA PassedStep ==
  ASSUME RevisitsRewrite, TypeInv, NEW c \in Clients, InStep(c), PathInv(c), PassedInv(c),
         Tick(c) \/ BeginInvokeLlm(c) \/ FinishInvokeLlm(c) \/ Crash(c) \/ DieInNode(c)
  PROVE  PassedInv(c)'
<1>0. TypeOK /\ m[c] \in MetaType /\ meta \in MetaType /\ pc \in [Clients -> PCs]
  BY DEF TypeInv, TypeOK
<1>a. pc[c] # "idle" => SamePlace(m[c], meta)
  BY DEF PathInv, CopyInStep
<1>b. ASSUME UNCHANGED <<next, ev, passed, meta>>, pc'[c] # "ran" PROVE PassedInv(c)'
  BY <1>b, QuietKeepsPassed
<1>c. ASSUME UNCHANGED <<next, ev, passed>>, NEW rec, Commit(c, rec),
             rec.started = m[c].started, pc[c] \notin {"idle", "inviting"}, pc'[c] # "ran"
      PROVE  PassedInv(c)'
  <2>1. meta'.started = meta.started
    BY <1>a, <1>c DEF Commit, Save, SamePlace
  <2>2. QED
    BY <1>c, <2>1, QuietKeepsPassed
<1>1. CASE LoadMeta(c)
  BY <1>0, <1>1, <1>b DEF LoadMeta, Goto, stores
<1>2. CASE StartGraph(c)
  <2>1. ~meta.started /\ meta' = meta
    BY <1>2, <1>a DEF StartGraph, SamePlace
  <2>2. passed' = {}
    BY <1>2, <2>1 DEF StartGraph, Execute, PassedInv
  <2>3. QED
    BY <2>2 DEF PassedInv
<1>3. CASE SaveStart(c)
  <2>1. pc[c] = "started" /\ pc'[c] = "idle" /\ UNCHANGED <<next, ev>>
    BY <1>0, <1>3 DEF SaveStart, Goto
  <2>2. next \in Succ(Setup) /\ Setup \in Nodes
    BY <2>1, GraphAssumption DEF PathInv, InFlight
  <2>3. CASE next \in Nodes /\ ExitGateOk(Setup)
    <3>1. PayGate(Setup) /\ meta' = [m[c] EXCEPT !.started = TRUE, !.last = Setup]
      BY <1>3, <2>3 DEF SaveStart, Commit, Save
    <3>2. meta'.started
      BY <1>0, <3>1 DEF MetaType
    <3>3. QED
      BY <2>1, <2>2, <2>3, <3>1, <3>2, PayingKeepsPassed
  <2>4. CASE ~(next \in Nodes /\ ExitGateOk(Setup))
    <3>1. passed' = passed /\ meta' = [m[c] EXCEPT !.started = TRUE]
      BY <1>3, <2>4 DEF SaveStart, Commit, Save
    <3>2. meta'.started
      BY <1>0, <3>1 DEF MetaType
    <3>3. QED
      BY <2>1, <3>1, <3>2, QuietKeepsPassed
  <2>5. QED
    BY <2>3, <2>4
<1>4. CASE FinishSession(c)
  <2>1. [m[c] EXCEPT !.finished = TRUE].started = m[c].started
    BY <1>0 DEF MetaType
  <2>2. QED
    BY <1>0, <1>4, <1>c, <2>1 DEF FinishSession, Goto
<1>5. CASE TakeSnapshot(c)
  BY <1>0, <1>5, <1>b DEF TakeSnapshot, Goto, stores
<1>6. CASE RecoverGate(c)
  <2>1. /\ pc[c] = "snapped" /\ m[c].recovery = meta.recovery /\ meta.recovery # None
        /\ meta.started /\ UNCHANGED <<next, ev>>
    BY <1>6, <1>a DEF RecoverGate, SamePlace, PathInv, CopyInStep
  <2>2. meta.recovery \in Nodes /\ next \in Succ(meta.recovery)
    BY <1>0, <2>1 DEF MetaType, PathInv, FollowsRecovery
  <2>3. CASE ExitGateOk(m[c].recovery)
    <3>1. /\ PayGate(meta.recovery) /\ pc' = pc
          /\ meta' = [m[c] EXCEPT !.recovery = None, !.last = m[c].recovery]
      BY <1>6, <2>1, <2>3 DEF RecoverGate, Commit, Save
    <3>2. meta'.started
      BY <1>0, <1>a, <2>1, <3>1 DEF MetaType, SamePlace
    <3>3. QED
      BY <2>1, <2>2, <2>3, <3>1, <3>2, PayingKeepsPassed
  <2>4. CASE ~ExitGateOk(m[c].recovery)
    <3>1. Blocked(c, m[c], "node_gate") /\ passed' = passed
      BY <1>6, <2>4 DEF RecoverGate
    <3>2. [m[c] EXCEPT !.blocks = @ \cup {"node_gate"}].started = m[c].started
      BY <1>0 DEF MetaType
    <3>3. QED
      BY <1>0, <1>c, <2>1, <3>1, <3>2 DEF Blocked, Goto
  <2>5. QED
    BY <2>3, <2>4
<1>7. CASE CheckLast(c)
  <2>1. pc[c] = "snapped" /\ UNCHANGED <<next, ev, passed>>
    BY <1>7 DEF CheckLast
  <2>2. CASE BlockedBy(c) = None
    BY <1>0, <1>7, <1>b, <2>1, <2>2 DEF CheckLast, Goto
  <2>3. CASE BlockedBy(c) # None
    <3>1. Blocked(c, m[c], BlockedBy(c))
      BY <1>7, <2>3 DEF CheckLast
    <3>2. [m[c] EXCEPT !.blocks = @ \cup {BlockedBy(c)}].started = m[c].started
      BY <1>0 DEF MetaType
    <3>3. QED
      BY <1>0, <1>c, <2>1, <3>1, <3>2 DEF Blocked, Goto
  <2>4. QED
    BY <2>2, <2>3
<1>8. CASE InvokeLlm(c)
  <2>1. [m[c] EXCEPT !.llmInvoked = @ \cup {pend[c]}, !.waiting = "llm"].started = m[c].started
    BY <1>0 DEF MetaType
  <2>2. QED
    BY <1>0, <1>8, <1>c, <2>1 DEF InvokeLlm, Goto
<1>9. CASE EnterAfterAsking(c)
  BY <1>0, <1>9, <1>b DEF EnterAfterAsking, Goto, stores
<1>10. CASE EnterLlmNode(c)
  <2>1. pc[c] = "cleared" /\ UNCHANGED <<next, ev, passed>>
    BY <1>10 DEF EnterLlmNode
  <2>2. CASE EntryGateOk(pend[c])
    BY <1>0, <1>10, <1>b, <2>1, <2>2 DEF EnterLlmNode, Goto
  <2>3. CASE ~EntryGateOk(pend[c])
    <3> DEFINE rec == [m[c] EXCEPT !.waiting = "node_gate"]
    <3>1. Blocked(c, rec, "node_gate")
      BY <1>10, <2>3 DEF EnterLlmNode
    <3>2. [rec EXCEPT !.blocks = @ \cup {"node_gate"}].started = m[c].started
      BY <1>0 DEF MetaType
    <3> HIDE DEF rec
    <3>3. QED
      BY <1>0, <1>c, <2>1, <3>1, <3>2 DEF Blocked, Goto
  <2>4. QED
    BY <2>2, <2>3
<1>11. CASE EnterDirectly(c)
  BY <1>0, <1>11, <1>b DEF EnterDirectly, Goto, stores
<1>12. CASE RunNode(c)
  BY <1>12, RunKeepsPassed
<1>13. CASE PassExitGate(c)
  <2>1. /\ pc[c] = "ran" /\ pc'[c] = "passed" /\ UNCHANGED <<next, ev, meta>>
        /\ ExitGateOk(pend[c]) /\ PayGate(pend[c])
    BY <1>0, <1>13 DEF PassExitGate, Goto
  <2>2. pend[c] \in Nodes /\ next \in Succ(pend[c]) /\ meta.started
    BY <2>1 DEF PathInv, InFlight, CopyInStep, TypeInv, PendKnown
  <2>3. QED
    BY <2>1, <2>2, PayingKeepsPassed
<1>14. CASE RollbackInvoke(c)
  BY <1>14, RollbackKeepsPassed
<1>15. CASE SaveRecovery(c)
  <2> DEFINE rec == [m[c] EXCEPT !.recovery = pend[c], !.waiting = "node_gate"]
  <2>1. Blocked(c, rec, "node_gate") /\ pc[c] = "rolled" /\ UNCHANGED <<next, ev, passed>>
    BY <1>15 DEF SaveRecovery
  <2>2. [rec EXCEPT !.blocks = @ \cup {"node_gate"}].started = m[c].started
    BY <1>0 DEF MetaType
  <2> HIDE DEF rec
  <2>3. QED
    BY <1>0, <1>c, <2>1, <2>2 DEF Blocked, Goto
<1>16. CASE SaveProgress(c)
  <2> DEFINE fin == IF after[c].node = END THEN TRUE ELSE m[c].finished
             wait == IF after[c].node \in Nodes /\ NeedsLlm(after[c].node, after[c].runner)
                       THEN "llm" ELSE ""
             rec == [m[c] EXCEPT !.last = pend[c], !.recovery = None,
                                 !.finished = fin, !.waiting = wait]
  <2>1. Commit(c, rec) /\ pc[c] = "passed" /\ UNCHANGED <<next, ev, passed>>
    BY <1>16 DEF SaveProgress
  <2>2. rec.started = m[c].started
    BY <1>0 DEF MetaType
  <2> HIDE DEF rec
  <2>3. QED
    BY <1>0, <1>16, <1>c, <2>1, <2>2 DEF SaveProgress, Goto
<1>17. CASE BeginInvokeLlm(c)
  BY <1>0, <1>17, <1>b DEF BeginInvokeLlm, Goto, stores
<1>18. CASE FinishInvokeLlm(c)
  <2>1. meta' = [m[c] EXCEPT !.llmInvoked = @ \cup {pend[c]}, !.waiting = "llm"]
    BY <1>18 DEF FinishInvokeLlm, Commit, Save
  <2>2. meta'.started = meta.started
    BY <1>0, <1>18, <1>a, <2>1 DEF MetaType, SamePlace, FinishInvokeLlm
  <2>3. QED
    BY <1>0, <1>18, <2>2, QuietKeepsPassed DEF FinishInvokeLlm, Goto
<1>19. CASE Crash(c)
  BY <1>0, <1>19, <1>b DEF Crash, Goto, stores
<1>20. CASE DieInNode(c)
  BY <1>20, DeathKeepsPassed
<1>21. QED
  BY <1>1, <1>2, <1>3, <1>4, <1>5, <1>6, <1>7, <1>8, <1>9, <1>10, <1>11, <1>12, <1>13,
     <1>14, <1>15, <1>16, <1>17, <1>18, <1>19, <1>20 DEF Tick

(***************************************************************************)
(* Evidence supplied from outside backs artifacts, it does not outdate     *)
(* them, and it moves nothing else.                                        *)
(***************************************************************************)
LEMMA PassedKept ==
  ASSUME OneClient, RevisitsRewrite, TypeInv, CreditInv, [Next]_vars,
         \A c \in Clients : PathInv(c), \A c \in Clients : PassedInv(c)
  PROVE  \A c \in Clients : PassedInv(c)'
<1>1. ASSUME NEW c \in Clients,
             Tick(c) \/ BeginInvokeLlm(c) \/ FinishInvokeLlm(c) \/ Crash(c) \/ DieInNode(c)
      PROVE  \A d \in Clients : PassedInv(d)'
  <2>1. PassedInv(c)'
    BY <1>1, PassedStep, CreditOfTheClient
  <2>2. QED
    BY <2>1 DEF OneClient
<1>2. ASSUME UNCHANGED <<meta, next, passed, pc, pend>>,
             \A k \in Nodes : ev[k] \subseteq ev'[k], NEW c \in Clients
      PROVE  PassedInv(c)'
  <2>1. passed \subseteq Nodes
    BY DEF TypeInv, TypeOK
  <2>2. AllBacked(c)'
    BY <1>2, <2>1 DEF PassedInv, AllBacked, Backed
  <2>3. NotBack(c)'
    BY <1>2 DEF PassedInv, NotBack, OnWayFrom, HoldsWayFrom, Fragile, Succ
  <2>4. QED
    BY <1>2, <2>2, <2>3 DEF PassedInv, AllBacked, NotBack
<1>3. ASSUME NEW n \in Nodes, SupplyEvidence(n)
      PROVE  /\ UNCHANGED <<meta, next, passed, pc, pend>>
             /\ \A k \in Nodes : ev[k] \subseteq ev'[k]
  BY <1>3 DEF SupplyEvidence, TypeInv, TypeOK, locals
<1>4. CASE UNCHANGED vars
  BY <1>2, <1>4 DEF vars, stores, locals
<1>5. QED
  BY <1>1, <1>2, <1>3, <1>4 DEF Next

(***************************************************************************)
(* A call that completes its node found the exit gate passed.              *)
(***************************************************************************)
LEMMA CompletingIsGated ==
  ASSUME TypeInv, [Next]_vars, NEW c \in Clients, Completes(c)
  PROVE  ExitGateOk(pend[c])
<1>0. pc \in [Clients -> PCs] /\ pc[c] = "ran" /\ pc'[c] = "passed"
  BY DEF TypeInv, TypeOK, Completes
<1>1. PICK d \in Clients :
        Tick(d) \/ BeginInvokeLlm(d) \/ FinishInvokeLlm(d) \/ Crash(d) \/ DieInNode(d)
  BY <1>0 DEF Next, vars, locals, SupplyEvidence
<1>2. ~BeginInvokeLlm(d) /\ ~FinishInvokeLlm(d) /\ ~Crash(d) /\ ~DieInNode(d)
  BY <1>0 DEF BeginInvokeLlm, FinishInvokeLlm, Crash, DieInNode, Goto
<1>3. ~LoadMeta(d) /\ ~StartGraph(d) /\ ~SaveStart(d) /\ ~FinishSession(d)
  BY <1>0 DEF LoadMeta, StartGraph, SaveStart, FinishSession, Goto
<1>4. ~TakeSnapshot(d) /\ ~RecoverGate(d) /\ ~CheckLast(d) /\ ~InvokeLlm(d)
  BY <1>0 DEF TakeSnapshot, RecoverGate, CheckLast, InvokeLlm, Blocked, Goto
<1>5. ~EnterAfterAsking(d) /\ ~EnterLlmNode(d) /\ ~EnterDirectly(d)
  BY <1>0 DEF EnterAfterAsking, EnterLlmNode, EnterDirectly, Blocked, Goto
<1>6. ~RunNode(d) /\ ~RollbackInvoke(d) /\ ~SaveRecovery(d) /\ ~SaveProgress(d)
  BY <1>0 DEF RunNode, RollbackInvoke, SaveRecovery, SaveProgress, Blocked, Goto
<1>7. PassExitGate(d) /\ d = c
  BY <1>0, <1>1, <1>2, <1>3, <1>4, <1>5, <1>6 DEF Tick, PassExitGate, Goto
<1>8. QED
  BY <1>7 DEF PassExitGate

(***************************************************************************)
(* With one client, a node completes on evidence that holds at that        *)
(* moment, never on the pass artifact of an earlier visit, through any     *)
(* number of rollbacks, recoveries and deaths, a death in the middle of a  *)
(* node included - as long as no fragile node is revisited before          *)
(* graph_step.json is rewritten.                                           *)
(***************************************************************************)
THEOREM OwnEvidenceThroughCrashes ==
  ASSUME OneClient, SetupIsSound, RevisitsRewrite
  PROVE  Spec => CompletesOnOwnEvidence
<1> DEFINE Inv == /\ TypeInv /\ CreditInv
                  /\ IllegalOnlyAfterCrash /\ \A c \in Clients : PathInv(c)
                  /\ \A c \in Clients : PassedInv(c)
<1>1. Init => Inv
  <2>1. Init => \A c \in Clients : PassedInv(c)
    BY DEF Init, PassedInv
  <2>2. QED
    BY <2>1, BooksInit, PathInit
<1>2. Inv /\ [Next]_vars => Inv'
  BY BooksStep, PathKept, PassedKept
<1>3. Inv /\ [Next]_vars =>
        [\A c \in Clients : Completes(c) => {"exit", "extra"} \subseteq ev[pend[c]]]_vars
  <2>1. SUFFICES ASSUME Inv, [Next]_vars, NEW c \in Clients, Completes(c)
                 PROVE  Backed(pend[c])
    BY DEF Backed
  <2>2. pend[c] \in passed \/ Backed(pend[c])
    BY <2>1, CompletingIsGated, GateNeedsEvidence
  <2>3. pc[c] = "ran" /\ PassedInv(c)
    BY <2>1 DEF Completes
  <2>4. QED
    BY <2>2, <2>3 DEF PassedInv
<1>4. QED
  BY <1>1, <1>2, <1>3, PTL DEF Spec, CompletesOnOwnEvidence

-----------------------------------------------------------------------------
(***************************************************************************)
(* The nodes that may fail to leave the evidence of their gate rewrite     *)
(* graph_step.json themselves.                                             *)
(***************************************************************************)
FragileRewrite == \A n \in Nodes : Fragile(n) => n \in StepWriters

(***************************************************************************)
(* Then, without crashes, every artifact that counts is backed whatever    *)
(* any number of clients do at a time.                                     *)
(***************************************************************************)
LEMMA BackedStep ==
  ASSUME FragileRewrite, MaxCrashes = 0, TypeInv, \A n \in passed : Backed(n), [Next]_vars
  PROVE  (\A n \in passed : Backed(n))'
<1>0. TypeOK /\ passed \subseteq Nodes
  BY DEF TypeInv, TypeOK
<1>a. ASSUME passed' \subseteq passed, \A n \in Nodes : ev[n] \subseteq ev'[n]
      PROVE  (\A n \in passed : Backed(n))'
  BY <1>0, <1>a DEF Backed
<1>b. ASSUME NEW k, ExitGateOk(k), PayGate(k), ev' = ev
      PROVE  (\A n \in passed : Backed(n))'
  BY <1>b, GateNeedsEvidence DEF Backed, PayGate
<1>c. ASSUME NEW k \in Nodes, Execute(k) PROVE (\A n \in passed : Backed(n))'
  <2>1. CASE k \in StepWriters
    BY <1>c, <2>1 DEF Execute
  <2>2. CASE k \notin StepWriters
    <3>1. passed' = passed /\ \A n \in Nodes \ {k} : ev'[n] = ev[n]
      BY <1>0, <1>c, <2>2 DEF Execute, TypeOK
    <3>2. \E missing \in Missing[k] : ev'[k] = Checks \ missing
      BY <1>0, <1>c DEF Execute, TypeOK
    <3>3. {"exit", "extra"} \subseteq ev'[k]
      BY <2>2, <3>2, SturdyRunBacks DEF FragileRewrite
    <3>4. QED
      BY <1>0, <3>1, <3>3 DEF Backed
  <2>3. QED
    BY <2>1, <2>2
<1>1. ASSUME UNCHANGED <<ev, passed>> PROVE (\A n \in passed : Backed(n))'
  BY <1>1, <1>a
<1>2. ASSUME NEW c \in Clients,
             \/ LoadMeta(c) \/ FinishSession(c) \/ TakeSnapshot(c) \/ CheckLast(c) \/ InvokeLlm(c)
             \/ EnterAfterAsking(c) \/ EnterLlmNode(c) \/ EnterDirectly(c) \/ RollbackInvoke(c)
             \/ SaveRecovery(c) \/ SaveProgress(c) \/ BeginInvokeLlm(c) \/ FinishInvokeLlm(c)
      PROVE  UNCHANGED <<ev, passed>>
  BY <1>2 DEF LoadMeta, FinishSession, TakeSnapshot, CheckLast, InvokeLlm, EnterAfterAsking,
     EnterLlmNode, EnterDirectly, RollbackInvoke, SaveRecovery, SaveProgress, BeginInvokeLlm,
     FinishInvokeLlm, stores
<1>3. ASSUME NEW c \in Clients, StartGraph(c) PROVE (\A n \in passed : Backed(n))'
  BY <1>3, <1>c, GraphAssumption DEF StartGraph
<1>4. ASSUME NEW c \in Clients, SaveStart(c) PROVE (\A n \in passed : Backed(n))'
  BY <1>4, <1>b, <1>1 DEF SaveStart
<1>5. ASSUME NEW c \in Clients, RecoverGate(c) PROVE (\A n \in passed : Backed(n))'
  BY <1>5, <1>b, <1>1 DEF RecoverGate
<1>6. ASSUME NEW c \in Clients, RunNode(c) PROVE (\A n \in passed : Backed(n))'
  BY <1>6, <1>c, <1>1 DEF RunNode
<1>7. ASSUME NEW c \in Clients, PassExitGate(c) PROVE (\A n \in passed : Backed(n))'
  BY <1>7, <1>b DEF PassExitGate
<1>8. ASSUME NEW c \in Clients PROVE ~Crash(c) /\ ~DieInNode(c)
  BY DEF Crash, DieInNode, TypeInv, TypeOK
<1>9. ASSUME NEW n \in Nodes, SupplyEvidence(n) PROVE (\A k \in passed : Backed(k))'
  <2>1. passed' = passed /\ \A k \in Nodes : ev[k] \subseteq ev'[k]
    BY <1>0, <1>9 DEF SupplyEvidence, TypeOK
  <2>2. QED
    BY <2>1, <1>a
<1>10. CASE UNCHANGED vars
  BY <1>1, <1>10 DEF vars, stores
<1>11. QED
  BY <1>1, <1>2, <1>3, <1>4, <1>5, <1>6, <1>7, <1>8, <1>9, <1>10 DEF Next, Tick

(***************************************************************************)
(* So also clients that overtake each other, run each other's node and     *)
(* save over each other complete a node only on evidence that holds at     *)
(* that moment, as long as nobody dies.                                    *)
(***************************************************************************)
THEOREM OwnEvidenceAmongClients ==
  ASSUME FragileRewrite, MaxCrashes = 0
  PROVE  Spec => CompletesOnOwnEvidence
<1> DEFINE Inv == TypeInv /\ \A n \in passed : Backed(n)
<1>1. Init => Inv
  BY BooksInit DEF Init
<1>2. Inv /\ [Next]_vars => Inv'
  BY TypeStep, BackedStep
<1>3. Inv /\ [Next]_vars =>
        [\A c \in Clients : Completes(c) => {"exit", "extra"} \subseteq ev[pend[c]]]_vars
  BY CompletingIsGated, GateNeedsEvidence DEF Backed
<1>4. QED
  BY <1>1, <1>2, <1>3, PTL DEF Spec, CompletesOnOwnEvidence
=============================================================================
