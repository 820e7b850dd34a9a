----------------------------- MODULE AtomicFile -----------------------------
(***************************************************************************)
(* What the callers of models.load_yaml and models.save_yaml rely on: one  *)
(* YAML file that is read and replaced in one step each.  A caller takes   *)
(* a copy, changes the copy in memory and writes the copy back; nothing    *)
(* holds the file between the two.  A caller may die at any point; it      *)
(* leaves the file as it is.                                               *)
(*                                                                         *)
(* A document is the set of the updates it contains; an update is named    *)
(* after the caller that makes it.                                         *)
(***************************************************************************)
CONSTANT Clients

VARIABLES
  content,   \* the document in the file; {} while there is no file
  phase,     \* where each caller is in its load - change - save
  copy       \* each caller's copy of the document

fileVars == <<content, phase, copy>>

Init ==
  /\ content = {}
  /\ phase = [c \in Clients |-> "idle"]
  /\ copy = [c \in Clients |-> {}]

Load(c) ==
  /\ phase[c] = "idle"
  /\ phase' = [phase EXCEPT ![c] = "loaded"]
  /\ copy' = [copy EXCEPT ![c] = content]
  /\ UNCHANGED content

Change(c) ==
  /\ phase[c] = "loaded"
  /\ phase' = [phase EXCEPT ![c] = "changed"]
  /\ copy' = [copy EXCEPT ![c] = @ \cup {c}]
  /\ UNCHANGED content

Save(c) ==
  /\ phase[c] = "changed"
  /\ phase' = [phase EXCEPT ![c] = "idle"]
  /\ copy' = [copy EXCEPT ![c] = {}]
  /\ content' = copy[c]

Drop(c) ==
  /\ phase[c] # "idle"
  /\ phase' = [phase EXCEPT ![c] = "idle"]
  /\ copy' = [copy EXCEPT ![c] = {}]
  /\ UNCHANGED content

Next == \E c \in Clients : Load(c) \/ Change(c) \/ Save(c) \/ Drop(c)

Spec == Init /\ [][Next]_fileVars
=============================================================================
