-------------------------- MODULE YamlStore_proofs --------------------------
(***************************************************************************)
(* Proofs about YamlStore, for any set of processes, any supply of inodes  *)
(* and any number of deaths: what the two locks protect, and that the      *)
(* store implements AtomicFile.                                            *)
(***************************************************************************)
EXTENDS YamlStore, TLAPS

(***************************************************************************)
(* The inductive invariant: a type invariant, and in five parts why a      *)
(* reader and a writer never meet.                                         *)
(***************************************************************************)
NoCopyBeforeLoad ==
  \A c \in Clients : pc[c] \in {"idle"} \cup Reading => doc[c] = {}

Exclusion ==
  \A c, d \in Clients : held[c] = "exclusive" /\ d # c => held[d] = "none"

HoldsItsLock ==
  \A c \in Clients : /\ held[c] = "shared" <=> pc[c] \in Reading
                     /\ held[c] = "exclusive" <=> pc[c] \in Writing

FileWhole ==
  path # NoInode => /\ tmp # path
                    /\ data[path][1] \in Docs
                    /\ data[path][2] = data[path][1]

ReaderSeesFile ==
  \A c \in Clients :
    /\ pc[c] \in Reading => path # NoInode
    /\ pc[c] \in {"read1", "read2"} => handle[c] = path
    /\ pc[c] = "read2" => first[c] = data[path][1]

WriterOwnsTmp ==
  \A c \in Clients :
    /\ pc[c] \in {"write1", "write2", "rename"} => handle[c] = tmp /\ tmp # NoInode
    /\ pc[c] \in {"write2", "rename"} => data[tmp][1] = doc[c]
    /\ pc[c] = "rename" => data[tmp][2] = doc[c]

CopyKeepsWhatItSaw ==
  \A c \in Clients :
    pc[c] \in {"loaded", "changed"} \cup Writing => Content \subseteq doc[c] \cup since[c]

LockInv == TypeOK /\ NoCopyBeforeLoad /\ Exclusion /\ HoldsItsLock
FileInv == FileWhole /\ ReaderSeesFile /\ WriterOwnsTmp
Inv == LockInv /\ FileInv /\ CopyKeepsWhatItSaw

LEMMA InitInv == Init => Inv
  BY NoInodeAssumption, BlankAssumption, CrashAssumption DEF Init, Inv, LockInv, FileInv, TypeOK, NoCopyBeforeLoad,
     Exclusion, HoldsItsLock, FileWhole, ReaderSeesFile, WriterOwnsTmp, CopyKeepsWhatItSaw,
     Docs, Parts, Reading, Writing, Content

(***************************************************************************)
(* Types, memory and locks.                                                *)
(***************************************************************************)
LEMMA LockInvStep ==
  ASSUME Inv, NEW c \in Clients,
         LoadStep(c) \/ ChangeDoc(c) \/ SaveStep(c) \/ Die(c)
  PROVE  LockInv'
<1> USE NoInodeAssumption, BlankAssumption, CrashAssumption
    DEF Inv, LockInv, FileInv, TypeOK, NoCopyBeforeLoad, Exclusion, HoldsItsLock,
        Goto, Docs, Parts, Reading, Writing
<1>1. CASE LoadMissing(c)
  BY <1>1 DEF LoadMissing
<1>2. CASE LockShared(c)
  BY <1>2 DEF LockShared, Flock
<1>3. CASE OpenFile(c)
  BY <1>3 DEF OpenFile
<1>4. CASE ReadFirst(c)
  BY <1>4 DEF ReadFirst, ReaderSeesFile
<1>5. CASE ReadSecond(c)
  BY <1>5 DEF ReadSecond, Unlock, Close, ReaderSeesFile, FileWhole
<1>6. CASE ChangeDoc(c)
  BY <1>6 DEF ChangeDoc
<1>7. CASE LockExclusive(c)
  BY <1>7 DEF LockExclusive, Flock
<1>8. CASE OpenTmp(c)
  BY <1>8 DEF OpenTmp
<1>9. CASE WriteFirst(c)
  BY <1>9 DEF WriteFirst, WriterOwnsTmp
<1>10. CASE WriteSecond(c)
  BY <1>10 DEF WriteSecond, WriterOwnsTmp
<1>11. CASE Rename(c)
  BY <1>11 DEF Rename, Unlock, Close
<1>12. CASE Die(c)
  BY <1>12 DEF Die, Unlock, Close
<1> QED BY <1>1, <1>2, <1>3, <1>4, <1>5, <1>6, <1>7, <1>8, <1>9, <1>10, <1>11, <1>12
        DEF LoadStep, SaveStep

LEMMA CopiesAreDocs == TypeOK => doc \in [Clients -> Docs]
  BY DEF TypeOK, Parts

(***************************************************************************)
(* A writer is alone, so nobody reads what it writes or renames.           *)
(***************************************************************************)
LEMMA WriterAlone ==
  ASSUME Inv, NEW c \in Clients, pc[c] \in Writing, NEW d \in Clients, d # c
  PROVE  pc[d] \notin Reading /\ pc[d] \notin Writing
  BY DEF Inv, LockInv, Exclusion, HoldsItsLock

LEMMA FileInvStep ==
  ASSUME Inv, NEW c \in Clients,
         LoadStep(c) \/ ChangeDoc(c) \/ SaveStep(c) \/ Die(c)
  PROVE  FileInv'
<1> USE NoInodeAssumption, BlankAssumption
    DEF Inv, FileInv, FileWhole, ReaderSeesFile, WriterOwnsTmp,
        Goto, Docs, Reading, Writing
<1>0. LockInv /\ TypeOK /\ NoCopyBeforeLoad
  BY DEF LockInv
<1>1. CASE LoadMissing(c)
  BY <1>0, <1>1 DEF LoadMissing, TypeOK
<1>2. CASE LockShared(c)
  BY <1>0, <1>2 DEF LockShared, TypeOK
<1>3. CASE OpenFile(c)
  BY <1>0, <1>3 DEF OpenFile, TypeOK
<1>4. CASE ReadFirst(c)
  BY <1>0, <1>4 DEF ReadFirst, TypeOK
<1>5. CASE ReadSecond(c)
  BY <1>0, <1>5 DEF ReadSecond, Close, TypeOK
<1>6. CASE ChangeDoc(c)
  BY <1>0, <1>6 DEF ChangeDoc, TypeOK
<1>7. CASE LockExclusive(c)
  BY <1>0, <1>7 DEF LockExclusive, TypeOK
<1>8. CASE OpenTmp(c)
  <2>1. \A d \in Clients \ {c} : pc[d] \notin Reading /\ pc[d] \notin Writing
    BY <1>8, WriterAlone DEF OpenTmp
  <2> QED BY <1>0, <1>8, <2>1 DEF OpenTmp, TypeOK
<1>9. CASE WriteFirst(c)
  <2>1. \A d \in Clients \ {c} : pc[d] \notin Reading /\ pc[d] \notin Writing
    BY <1>9, WriterAlone DEF WriteFirst
  <2> QED BY <1>0, <1>9, <2>1 DEF WriteFirst, TypeOK
<1>10. CASE WriteSecond(c)
  <2>1. \A d \in Clients \ {c} : pc[d] \notin Reading /\ pc[d] \notin Writing
    BY <1>10, WriterAlone DEF WriteSecond
  <2> QED BY <1>0, <1>10, <2>1 DEF WriteSecond, TypeOK
<1>11. CASE Rename(c)
  <2>1. \A d \in Clients \ {c} : pc[d] \notin Reading /\ pc[d] \notin Writing
    BY <1>11, WriterAlone DEF Rename
  <2> QED BY <1>0, <1>11, <2>1, CopiesAreDocs DEF Rename, Close, TypeOK
<1>12. CASE Die(c)
  BY <1>0, <1>12 DEF Die, Close, TypeOK
<1> QED BY <1>1, <1>2, <1>3, <1>4, <1>5, <1>6, <1>7, <1>8, <1>9, <1>10, <1>11, <1>12
        DEF LoadStep, SaveStep

(***************************************************************************)
(* What a step does to the document in the file: a rename puts the         *)
(* writer's copy there, everything else leaves it alone.                   *)
(***************************************************************************)
LEMMA RenamePublishes ==
  ASSUME Inv, NEW c \in Clients, Rename(c)
  PROVE  Content' = doc[c]
  BY NoInodeAssumption DEF Inv, FileInv, WriterOwnsTmp, Rename, Goto, Content

LEMMA OthersKeepContent ==
  ASSUME Inv, NEW c \in Clients,
         LoadStep(c) \/ ChangeDoc(c) \/ (SaveStep(c) /\ ~Rename(c)) \/ Die(c)
  PROVE  Content' = Content
<1> USE DEF Content
<1>1. CASE LoadStep(c) \/ ChangeDoc(c) \/ LockExclusive(c) \/ Die(c)
  BY <1>1 DEF LoadStep, LoadMissing, LockShared, OpenFile, ReadFirst, ReadSecond,
     ChangeDoc, LockExclusive, Die
<1>2. CASE OpenTmp(c)
  BY <1>2 DEF OpenTmp, Inv, LockInv, TypeOK, FileInv, FileWhole
<1>3. CASE WriteFirst(c) \/ WriteSecond(c)
  BY <1>3 DEF WriteFirst, WriteSecond, Goto, Inv, LockInv, TypeOK, FileInv, FileWhole, WriterOwnsTmp
<1> QED BY <1>1, <1>2, <1>3 DEF SaveStep

LEMMA LoadReturnsContent ==
  ASSUME Inv, NEW c \in Clients, LoadMissing(c) \/ ReadSecond(c)
  PROVE  doc'[c] = Content
  BY DEF Inv, LockInv, TypeOK, FileInv, FileWhole, ReaderSeesFile, LoadMissing, ReadSecond,
     Goto, Content, Reading

LEMMA CopyStep ==
  ASSUME Inv, NEW c \in Clients,
         LoadStep(c) \/ ChangeDoc(c) \/ SaveStep(c) \/ Die(c)
  PROVE  CopyKeepsWhatItSaw'
<1> USE DEF Inv, LockInv, TypeOK, NoCopyBeforeLoad, CopyKeepsWhatItSaw, Goto, Docs, Reading, Writing
<1>0. SUFFICES ASSUME NEW d \in Clients,
                      pc'[d] \in {"loaded", "changed"} \cup Writing
               PROVE  Content' \subseteq doc'[d] \cup since'[d]
  OBVIOUS
<1>1. CASE LoadMissing(c) \/ ReadSecond(c)
  <2>1. Content' = Content /\ doc'[c] = Content
    BY <1>1, OthersKeepContent, LoadReturnsContent DEF LoadStep
  <2> QED BY <1>0, <1>1, <2>1 DEF LoadMissing, ReadSecond
<1>2. CASE LockShared(c) \/ OpenFile(c) \/ ReadFirst(c)
  BY <1>0, <1>2, OthersKeepContent DEF LoadStep, LockShared, OpenFile, ReadFirst
<1>3. CASE ChangeDoc(c)
  BY <1>0, <1>3, OthersKeepContent DEF ChangeDoc
<1>4. CASE LockExclusive(c) \/ OpenTmp(c) \/ WriteFirst(c) \/ WriteSecond(c)
  <2>1. Content' = Content
    BY <1>4, OthersKeepContent DEF SaveStep, LockExclusive, OpenTmp, WriteFirst, WriteSecond, Rename
  <2> QED BY <1>0, <1>4, <2>1 DEF LockExclusive, OpenTmp, WriteFirst, WriteSecond
<1>5. CASE Rename(c)
  BY <1>0, <1>5, RenamePublishes DEF Rename, Close
<1>6. CASE Die(c)
  BY <1>0, <1>6, OthersKeepContent DEF Die, Close
<1> QED BY <1>1, <1>2, <1>3, <1>4, <1>5, <1>6 DEF LoadStep, SaveStep

LEMMA StutterInv == Inv /\ UNCHANGED vars => Inv'
  BY DEF Inv, LockInv, FileInv, TypeOK, NoCopyBeforeLoad, Exclusion, HoldsItsLock, FileWhole,
     ReaderSeesFile, WriterOwnsTmp, CopyKeepsWhatItSaw, Content, vars

LEMMA NextInv == Inv /\ [Next]_vars => Inv'
  BY LockInvStep, FileInvStep, CopyStep, StutterInv DEF Next, Inv

LEMMA InvHolds == Spec => []Inv
  BY InitInv, NextInv, PTL DEF Spec

(***************************************************************************)
(* Type correctness.                                                       *)
(***************************************************************************)
THEOREM StoreTypeCorrect == Spec => []TypeOK
<1>1. Inv => TypeOK
  BY DEF Inv, LockInv
<1> QED BY InvHolds, <1>1, PTL

(***************************************************************************)
(* A save takes out of the file only what was written there after the      *)
(* saver's load (models.py:42-48), for any number of processes and deaths. *)
(***************************************************************************)
THEOREM StoreLosesOnlyLaterWrites == Spec => SaveLosesOnlyLaterWrites
<1>1. ASSUME Inv, [Next]_vars
      PROVE  [Content \subseteq Content'
              \/ \E c \in Clients : Rename(c) /\ Content \ Content' \subseteq since[c]]_vars
  <2>1. CASE UNCHANGED vars
    BY <2>1
  <2>2. ASSUME NEW c \in Clients, Rename(c)
        PROVE  Content \ Content' \subseteq since[c]
    <3>1. Content \subseteq doc[c] \cup since[c]
      BY <1>1, <2>2 DEF Inv, CopyKeepsWhatItSaw, Rename, Goto, Writing
    <3> QED BY <1>1, <2>2, <3>1, RenamePublishes
  <2>3. ASSUME NEW c \in Clients,
               LoadStep(c) \/ ChangeDoc(c) \/ SaveStep(c) \/ Die(c), ~Rename(c)
        PROVE  Content \subseteq Content'
    BY <1>1, <2>3, OthersKeepContent
  <2> QED BY <1>1, <2>1, <2>2, <2>3 DEF Next
<1> QED BY InvHolds, <1>1, PTL DEF Spec, SaveLosesOnlyLaterWrites

(***************************************************************************)
(* load_yaml and save_yaml behave as one step each (models.py:31-48): the  *)
(* store implements AtomicFile under the mapping File.                     *)
(***************************************************************************)
LEMMA InitRefines == Init => File!Init
  BY DEF Init, File!Init, Content, Phase, Reading, Writing

LEMMA StepRefines ==
  ASSUME Inv, NEW c \in Clients,
         LoadStep(c) \/ ChangeDoc(c) \/ SaveStep(c) \/ Die(c)
  PROVE  File!Load(c) \/ File!Change(c) \/ File!Save(c) \/ File!Drop(c)
         \/ UNCHANGED <<Content, Phase, doc>>
<1> USE DEF Inv, LockInv, TypeOK, NoCopyBeforeLoad, Goto, Docs, Reading, Writing, Phase
<1>1. CASE LoadMissing(c) \/ ReadSecond(c)
  <2>1. Content' = Content /\ doc'[c] = Content
    BY <1>1, OthersKeepContent, LoadReturnsContent DEF LoadStep
  <2>2. doc' = [doc EXCEPT ![c] = Content]
    BY <1>1, <2>1 DEF LoadMissing, ReadSecond
  <2>3. Phase[c] = "idle" /\ Phase' = [Phase EXCEPT ![c] = "loaded"]
    BY <1>1 DEF LoadMissing, ReadSecond
  <2> QED BY <2>1, <2>2, <2>3 DEF File!Load
<1>2. CASE LockShared(c) \/ OpenFile(c) \/ ReadFirst(c)
  <2>1. Content' = Content /\ doc' = doc
    BY <1>2, OthersKeepContent DEF LoadStep, LockShared, OpenFile, ReadFirst
  <2>2. Phase' = Phase
    BY <1>2 DEF LockShared, OpenFile, ReadFirst
  <2> QED BY <2>1, <2>2
<1>3. CASE ChangeDoc(c)
  <2>1. Content' = Content
    BY <1>3, OthersKeepContent
  <2>2. Phase[c] = "loaded" /\ Phase' = [Phase EXCEPT ![c] = "changed"]
    BY <1>3 DEF ChangeDoc
  <2> QED BY <1>3, <2>1, <2>2 DEF ChangeDoc, File!Change
<1>4. CASE LockExclusive(c) \/ OpenTmp(c) \/ WriteFirst(c) \/ WriteSecond(c)
  <2>1. Content' = Content /\ doc' = doc
    BY <1>4, OthersKeepContent
       DEF SaveStep, LockExclusive, OpenTmp, WriteFirst, WriteSecond, Rename
  <2>2. Phase' = Phase
    BY <1>4 DEF LockExclusive, OpenTmp, WriteFirst, WriteSecond
  <2> QED BY <2>1, <2>2
<1>5. CASE Rename(c)
  <2>1. Phase[c] = "changed" /\ Phase' = [Phase EXCEPT ![c] = "idle"]
    BY <1>5 DEF Rename
  <2> QED BY <1>5, <2>1, RenamePublishes DEF Rename, File!Save
<1>6. CASE Die(c)
  <2>1. Content' = Content /\ doc' = [doc EXCEPT ![c] = {}]
    BY <1>6, OthersKeepContent DEF Die
  <2>2. Phase' = [Phase EXCEPT ![c] = "idle"]
    BY <1>6 DEF Die
  <2>3. CASE Phase[c] # "idle"
    BY <2>1, <2>2, <2>3 DEF File!Drop
  <2>4. CASE Phase[c] = "idle"
    <3>1. Phase' = Phase
      BY <2>2, <2>4
    <3>2. doc' = doc
      BY <1>6, <2>1, <2>4
    <3> QED BY <2>1, <3>1, <3>2
  <2> QED BY <2>3, <2>4
<1> QED BY <1>1, <1>2, <1>3, <1>4, <1>5, <1>6 DEF LoadStep, SaveStep

THEOREM StoreImplementsAtomicFile == Spec => ImplementsAtomicFile
<1>1. ASSUME Inv, [Next]_vars
      PROVE  [File!Next]_<<Content, Phase, doc>>
  <2>1. CASE UNCHANGED vars
    BY <2>1 DEF vars, Content, Phase
  <2>2. CASE Next
    BY <1>1, <2>2, StepRefines DEF Next, File!Next
  <2> QED BY <1>1, <2>1, <2>2
<1> QED BY InvHolds, InitRefines, <1>1, PTL DEF Spec, ImplementsAtomicFile, File!Spec, File!fileVars
=============================================================================
