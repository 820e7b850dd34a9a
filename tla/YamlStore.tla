------------------------------ MODULE YamlStore ------------------------------
(***************************************************************************)
(* models.load_yaml and models.save_yaml over file_lock.file_lock: several *)
(* processes that load one YAML file, change the document and save it.     *)
(*                                                                         *)
(* save_yaml writes <file>.tmp - the same name for every process - and     *)
(* renames it over the file, both under an exclusive flock on              *)
(* <file>.lock; load_yaml reads under a shared one.  No lock spans a load  *)
(* and the save that follows.  A process can die anywhere; the kernel then *)
(* drops its lock and the half written <file>.tmp stays.                   *)
(*                                                                         *)
(* A file is an inode of two parts, so that a reader or writer can be seen *)
(* in the middle.  A document is the set of the updates it contains, as in *)
(* AtomicFile, which this module implements.                               *)
(***************************************************************************)
EXTENDS Naturals, FiniteSets

CONSTANTS
  Clients,     \* the processes that use the file
  Inodes,      \* names for the data of files
  NoInode,     \* a directory entry that does not exist
  Blank,       \* a part that has not been written
  MaxCrashes   \* bound: how many processes may die

ASSUME NoInodeAssumption == NoInode \notin Inodes
ASSUME BlankAssumption == \A d \in SUBSET Clients : d # Blank
ASSUME CrashAssumption == MaxCrashes \in Nat

VARIABLES
  path,        \* the inode <file> names, or NoInode
  tmp,         \* the inode <file>.tmp names, or NoInode
  data,        \* the two parts of every inode
  held,        \* the flock each process holds on <file>.lock
  pc,          \* where each process is
  handle,      \* the inode it has open
  first,       \* the first part it has read
  doc,         \* its document in memory
  crashes,     \* history: processes that died
  since        \* history: per process, updates written since it loaded

vars == <<path, tmp, data, held, pc, handle, first, doc, crashes, since>>

Docs == SUBSET Clients
Parts == Docs \cup {Blank}
Reading == {"open", "read1", "read2"}
Writing == {"create", "write1", "write2", "rename"}
-----------------------------------------------------------------------------
Init ==
  /\ path = NoInode
  /\ tmp = NoInode
  /\ data = [i \in Inodes |-> [k \in {1, 2} |-> Blank]]
  /\ held = [c \in Clients |-> "none"]
  /\ pc = [c \in Clients |-> "idle"]
  /\ handle = [c \in Clients |-> NoInode]
  /\ first = [c \in Clients |-> Blank]
  /\ doc = [c \in Clients |-> {}]
  /\ crashes = 0
  /\ since = [c \in Clients |-> {}]

Goto(c, from, to) ==
  /\ pc[c] = from
  /\ pc' = [pc EXCEPT ![c] = to]

(***************************************************************************)
(* Definitions named ...Variant are what a plausible slip in the code      *)
(* would do; they stand before the definition they vary and nothing uses   *)
(* them.                                                                   *)
(***************************************************************************)
(***************************************************************************)
(* flock: a shared lock waits for an exclusive one, an exclusive lock for  *)
(* any.                                                                    *)
(***************************************************************************)
Flock(c, mode) ==
  /\ \A d \in Clients \ {c} :
       held[d] # "exclusive" /\ (mode = "exclusive" => held[d] = "none")
  /\ held' = [held EXCEPT ![c] = mode]

Close(c) ==
  /\ handle' = [handle EXCEPT ![c] = NoInode]
  /\ first' = [first EXCEPT ![c] = Blank]

Unlock(c) == held' = [held EXCEPT ![c] = "none"]
-----------------------------------------------------------------------------
(***************************************************************************)
(* load_yaml.                                                              *)
(***************************************************************************)

\* a file that is locked counts as missing
LoadMissingVariant(c) ==
  /\ Goto(c, "idle", "loaded")
  /\ path = NoInode \/ \E d \in Clients : held[d] = "exclusive"
  /\ doc' = [doc EXCEPT ![c] = {}]
  /\ since' = [since EXCEPT ![c] = {}]
  /\ UNCHANGED <<path, tmp, data, held, handle, first, crashes>>

\* if not path.is_file(): return {} - without the lock
LoadMissing(c) ==
  /\ Goto(c, "idle", "loaded")
  /\ path = NoInode
  /\ doc' = [doc EXCEPT ![c] = {}]
  /\ since' = [since EXCEPT ![c] = {}]
  /\ UNCHANGED <<path, tmp, data, held, handle, first, crashes>>

LockShared(c) ==
  /\ Goto(c, "idle", "open")
  /\ path # NoInode
  /\ Flock(c, "shared")
  /\ UNCHANGED <<path, tmp, data, handle, first, doc, crashes, since>>

OpenFile(c) ==
  /\ Goto(c, "open", "read1")
  /\ handle' = [handle EXCEPT ![c] = path]
  /\ UNCHANGED <<path, tmp, data, held, first, doc, crashes, since>>

ReadFirst(c) ==
  /\ Goto(c, "read1", "read2")
  /\ first' = [first EXCEPT ![c] = data[handle[c]][1]]
  /\ UNCHANGED <<path, tmp, data, held, handle, doc, crashes, since>>

\* The second part, safe_load and the unlock.  Two parts that do not belong
\* together are no document.
ReadSecond(c) ==
  /\ Goto(c, "read2", "loaded")
  /\ doc' = [doc EXCEPT ![c] = IF first[c] = data[handle[c]][2]
                               THEN first[c] ELSE Blank]
  /\ Close(c)
  /\ Unlock(c)
  /\ since' = [since EXCEPT ![c] = {}]
  /\ UNCHANGED <<path, tmp, data, crashes>>

\* The caller changes the document it holds in memory.
ChangeDoc(c) ==
  /\ Goto(c, "loaded", "changed")
  /\ doc' = [doc EXCEPT ![c] = @ \cup {c}]
  /\ UNCHANGED <<path, tmp, data, held, handle, first, crashes, since>>
-----------------------------------------------------------------------------
(***************************************************************************)
(* save_yaml.                                                              *)
(***************************************************************************)
LockExclusive(c) ==
  /\ Goto(c, "changed", "create")
  /\ Flock(c, "exclusive")
  /\ UNCHANGED <<path, tmp, data, handle, first, doc, crashes, since>>

\* writes the file in place
OpenTmpVariant(c) ==
  /\ Goto(c, "create", "write1")
  /\ \E i \in IF path = NoInode THEN Inodes ELSE {path} :
       /\ tmp' = i
       /\ handle' = [handle EXCEPT ![c] = i]
       /\ data' = [data EXCEPT ![i] = [k \in {1, 2} |-> Blank]]
  /\ UNCHANGED <<path, held, first, doc, crashes, since>>

\* tmp.open("w"): creates the file, or truncates what a dead process left.
OpenTmp(c) ==
  /\ Goto(c, "create", "write1")
  /\ \E i \in IF tmp = NoInode
              THEN Inodes \ ({path} \cup {handle[d] : d \in Clients \ {c}})
              ELSE {tmp} :
       /\ tmp' = i
       /\ handle' = [handle EXCEPT ![c] = i]
       /\ data' = [data EXCEPT ![i] = [k \in {1, 2} |-> Blank]]
  /\ UNCHANGED <<path, held, first, doc, crashes, since>>

WriteFirst(c) ==
  /\ Goto(c, "write1", "write2")
  /\ data' = [data EXCEPT ![handle[c]][1] = doc[c]]
  /\ UNCHANGED <<path, tmp, held, handle, first, doc, crashes, since>>

WriteSecond(c) ==
  /\ Goto(c, "write2", "rename")
  /\ data' = [data EXCEPT ![handle[c]][2] = doc[c]]
  /\ UNCHANGED <<path, tmp, held, handle, first, doc, crashes, since>>

\* tmp.replace(path), and the unlock
Rename(c) ==
  /\ Goto(c, "rename", "idle")
  /\ path' = tmp
  /\ tmp' = NoInode
  /\ Unlock(c)
  /\ Close(c)
  /\ doc' = [doc EXCEPT ![c] = {}]
  /\ since' = [d \in Clients |-> IF d = c THEN {} ELSE since[d] \cup doc[c]]
  /\ UNCHANGED <<data, crashes>>

\* A process dies: its memory is gone and the kernel drops its lock.
Die(c) ==
  /\ crashes < MaxCrashes
  /\ pc[c] # "idle"
  /\ pc' = [pc EXCEPT ![c] = "idle"]
  /\ Unlock(c)
  /\ Close(c)
  /\ doc' = [doc EXCEPT ![c] = {}]
  /\ since' = [since EXCEPT ![c] = {}]
  /\ crashes' = crashes + 1
  /\ UNCHANGED <<path, tmp, data>>

LoadStep(c) ==
  \/ LoadMissing(c) \/ LockShared(c) \/ OpenFile(c)
  \/ ReadFirst(c) \/ ReadSecond(c)

SaveStep(c) ==
  \/ LockExclusive(c) \/ OpenTmp(c) \/ WriteFirst(c) \/ WriteSecond(c)
  \/ Rename(c)

Next == \E c \in Clients : LoadStep(c) \/ ChangeDoc(c) \/ SaveStep(c) \/ Die(c)

Spec == Init /\ [][Next]_vars
-----------------------------------------------------------------------------
(***************************************************************************)
(* Properties.                                                             *)
(***************************************************************************)
\* Types.  A process never holds a torn document, so doc excludes Blank.
TypeOK ==
  /\ path \in Inodes \cup {NoInode}
  /\ tmp \in Inodes \cup {NoInode}
  /\ data \in [Inodes -> [{1, 2} -> Parts]]
  /\ held \in [Clients -> {"none", "shared", "exclusive"}]
  /\ pc \in [Clients -> {"idle", "loaded", "changed"} \cup Reading \cup Writing]
  /\ handle \in [Clients -> Inodes \cup {NoInode}]
  /\ first \in [Clients -> Parts]
  /\ \A c \in Clients : doc[c] # Blank
  /\ doc \in [Clients -> Parts]
  /\ crashes \in 0 .. MaxCrashes
  /\ since \in [Clients -> Docs]

Content == IF path = NoInode THEN {} ELSE data[path][1]

Phase == [c \in Clients |-> CASE pc[c] \in Reading -> "idle"
                              [] pc[c] \in Writing -> "changed"
                              [] OTHER -> pc[c]]

File == INSTANCE AtomicFile WITH content <- Content, phase <- Phase, copy <- doc

\* Whatever the processes interleave and wherever they die, a load returns
\* one whole document and a save replaces the whole file or nothing
\* (models.py:31-48): the store implements the atomic file.
ImplementsAtomicFile == File!Spec

\* Every lock protects one load or one save (models.py:34, :45) and none the
\* time between.  A save takes out of the file only what other processes wrote
\* there after the saver's load; it never loses what the saver has seen, and
\* nothing else takes anything out, dying processes included.
SaveLosesOnlyLaterWrites ==
  [][Content \subseteq Content'
     \/ \E c \in Clients : Rename(c) /\ Content \ Content' \subseteq since[c]]_vars
=============================================================================
