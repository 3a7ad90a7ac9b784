---------------------------- MODULE SnapshotStore ----------------------------
(***************************************************************************)
(* What a reloadable database promises to the requests that read it,       *)
(* without pointers, memory or reclamation.  Each global mapping holds the *)
(* contents of one file or nothing.  A request takes the current contents, *)
(* reads from what it took as often as it likes, and lets go; a reload     *)
(* replaces the contents in one step and never disturbs what is taken.     *)
(***************************************************************************)
CONSTANTS
  Globals,   \* the mappings (mappingUS, mappingCA, ...)
  Readers,   \* mapping objects alive in serving threads
  Files,     \* contents a reload can install
  NoFile     \* nothing installed, nothing taken

VARIABLES
  current,   \* current[g]: contents the mapping g serves
  held,      \* held[r]: contents reader r has taken
  got        \* got[r]: contents reader r has read answers from

vars == <<current, held, got>>

Init ==
  /\ current = [g \in Globals |-> NoFile]
  /\ held = [r \in Readers |-> NoFile]
  /\ got = [r \in Readers |-> {}]

Publish(g, f) ==
  /\ current' = [current EXCEPT ![g] = f]
  /\ UNCHANGED <<held, got>>

Acquire(r, g) ==
  /\ held[r] = NoFile
  /\ current[g] # NoFile
  /\ held' = [held EXCEPT ![r] = current[g]]
  /\ UNCHANGED <<current, got>>

Read(r) ==
  /\ held[r] # NoFile
  /\ got' = [got EXCEPT ![r] = got[r] \cup {held[r]}]
  /\ UNCHANGED <<current, held>>

Release(r) ==
  /\ held[r] # NoFile
  /\ held' = [held EXCEPT ![r] = NoFile]
  /\ got' = [got EXCEPT ![r] = {}]
  /\ UNCHANGED current

Next ==
  \/ \E g \in Globals, f \in Files : Publish(g, f)
  \/ \E r \in Readers, g \in Globals : Acquire(r, g)
  \/ \E r \in Readers : Read(r) \/ Release(r)

Spec == Init /\ [][Next]_vars

=============================================================================
