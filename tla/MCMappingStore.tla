--------------------------- MODULE MCMappingStore ---------------------------
(* Small instances of MappingStore for TLC. *)
EXTENDS MappingStore

\* isAvailable() of the US and CA mappings tests both pointers; every other
\* class tests its own.  With one global the two cases coincide.
MCAvail == [g \in Globals |-> Globals]

=============================================================================
