---------------------------- MODULE MappingStore ----------------------------
(***************************************************************************)
(* The global mapping pointers of Control.cpp and the way serving threads  *)
(* and reload commands share them.  A reload builds a private Data object, *)
(* exchanges it into the global pointer, retires the veteran and asks the  *)
(* hazard-pointer domain to clean up (loadMappingFile, Builder::commit).   *)
(* A request that found the mapping available constructs a mapping object, *)
(* which protects the current Data with a hazard pointer (get_protected),  *)
(* reads it any number of times, and destroys the object.                  *)
(*                                                                         *)
(* One action is one atomic memory access of the C++ code; addresses are   *)
(* reused after reclamation, so that the model meets the ABA case.         *)
(***************************************************************************)
EXTENDS Naturals, FiniteSets

CONSTANTS
  Globals,   \* the global atomics: mappingUS, mappingCA, mappingDNC, ...
  Readers,   \* mapping objects of serving threads, one hazard slot each
  Loaders,   \* detached dispatch threads that run a reload
  Addr,      \* heap addresses a Data object can have
  Files,     \* contents of the files a reload can be given
  Null,      \* the null pointer
  NoFile,    \* contents of memory that holds no Data
  Avail      \* Avail[g]: the pointers isAvailable() of g's class tests

ASSUME ConstantsAssumption ==
  /\ Null \notin Addr
  /\ NoFile \notin Files
  /\ Avail \in [Globals -> SUBSET Globals]
  /\ \A g \in Globals : g \in Avail[g]

VARIABLES
  mapping,   \* mapping[g]: the atomic pointer
  heap,      \* heap[a]: who owns the Data at a (see HeapStates)
  data,      \* data[a]: the file the Data at a was built from
  rpc,       \* rpc[r]: where reader r is
  rglobal,   \* rglobal[r]: the pointer reader r asks for
  ptr,       \* ptr[r]: data_ of the mapping object
  slot,      \* slot[r]: the hazard pointer of holder_
  got,       \* got[r]: the files r's answers came from (history)
  lpc,       \* lpc[l]: where loader l is
  lglobal,   \* lglobal[l]: the pointer loader l replaces
  fresh,     \* fresh[l]: the Data its Builder owns
  veteran,   \* veteran[l]: the Data its exchange returned
  stolen,    \* stolen[l]: retired objects its cleanup took from the domain
  scanned,   \* scanned[l]: hazard slots its cleanup has read
  seen       \* seen[l]: the addresses it found there

rvars == <<rpc, rglobal, ptr, slot, got>>
lvars == <<lpc, lglobal, fresh, veteran, stolen, scanned, seen>>
vars == <<mapping, heap, data, rvars, lvars>>

Ptr == Addr \cup {Null}

\* free: no object.  private: owned by a Builder.  shared: in a global.
\* unlinked: exchanged out, not yet retired.  retired: on the domain's list.
\* reclaiming: taken off that list by a running cleanup.
HeapStates == {"free", "private", "shared", "unlinked", "retired", "reclaiming"}

Init ==
  /\ mapping = [g \in Globals |-> Null]
  /\ heap = [a \in Addr |-> "free"]
  /\ data = [a \in Addr |-> NoFile]
  /\ rpc = [r \in Readers |-> "idle"]
  /\ rglobal \in [Readers -> Globals]
  /\ ptr = [r \in Readers |-> Null]
  /\ slot = [r \in Readers |-> Null]
  /\ got = [r \in Readers |-> {}]
  /\ lpc = [l \in Loaders |-> "idle"]
  /\ lglobal \in [Loaders -> Globals]
  /\ fresh = [l \in Loaders |-> Null]
  /\ veteran = [l \in Loaders |-> Null]
  /\ stolen = [l \in Loaders |-> {}]
  /\ scanned = [l \in Loaders |-> {}]
  /\ seen = [l \in Loaders |-> {}]

-----------------------------------------------------------------------------
(* A request.                                                              *)

\* isAvailable() returned true; otherwise the request is answered 503 (or
\* the column is left out) and no mapping object is made.
IsAvailable(r, g) ==
  /\ rpc[r] = "idle"
  /\ \A h \in Avail[g] : mapping[h] # Null
  /\ rpc' = [rpc EXCEPT ![r] = "checked"]
  /\ rglobal' = [rglobal EXCEPT ![r] = g]
  /\ UNCHANGED <<mapping, heap, data, ptr, slot, got, lvars>>

\* get_protected: the first load of the global.
LoadPtr(r) ==
  /\ rpc[r] = "checked"
  /\ ptr' = [ptr EXCEPT ![r] = mapping[rglobal[r]]]
  /\ rpc' = [rpc EXCEPT ![r] = "protect"]
  /\ UNCHANGED <<mapping, heap, data, rglobal, slot, got, lvars>>

\* try_protect: publish the hazard pointer ...
SetHazard(r) ==
  /\ rpc[r] = "protect"
  /\ slot' = [slot EXCEPT ![r] = ptr[r]]
  /\ rpc' = [rpc EXCEPT ![r] = "validate"]
  /\ UNCHANGED <<mapping, heap, data, rglobal, ptr, got, lvars>>

\* ... and load the global again: done if it has not moved, else clear the
\* hazard pointer and retry with the value just loaded.
Validate(r) ==
  LET p == mapping[rglobal[r]] IN
  /\ rpc[r] = "validate"
  /\ \/ /\ p = ptr[r]
        /\ rpc' = [rpc EXCEPT ![r] = "using"]
        /\ UNCHANGED <<ptr, slot>>
     \/ /\ p # ptr[r]
        /\ rpc' = [rpc EXCEPT ![r] = "protect"]
        /\ ptr' = [ptr EXCEPT ![r] = p]
        /\ slot' = [slot EXCEPT ![r] = Null]
  /\ UNCHANGED <<mapping, heap, data, rglobal, got, lvars>>

\* Mutant: each lookup goes through the global instead of data_.
Use_Global(r) ==
  /\ rpc[r] = "using"
  /\ got' = [got EXCEPT ![r] = got[r] \cup {data[mapping[rglobal[r]]]}]
  /\ UNCHANGED <<mapping, heap, data, rpc, rglobal, ptr, slot, lvars>>

\* A lookup or one step of a cursor: dereferences data_.
Use(r) ==
  /\ rpc[r] = "using"
  /\ got' = [got EXCEPT ![r] = got[r] \cup {data[ptr[r]]}]
  /\ UNCHANGED <<mapping, heap, data, rpc, rglobal, ptr, slot, lvars>>

\* The mapping object is destroyed: holder_ clears its hazard pointer.
Destroy(r) ==
  /\ rpc[r] = "using"
  /\ rpc' = [rpc EXCEPT ![r] = "idle"]
  /\ ptr' = [ptr EXCEPT ![r] = Null]
  /\ slot' = [slot EXCEPT ![r] = Null]
  /\ got' = [got EXCEPT ![r] = {}]
  /\ UNCHANGED <<mapping, heap, data, rglobal, lvars>>

-----------------------------------------------------------------------------
(* A reload command.                                                       *)

\* A Builder with a fresh Data reads the file.
StartLoad(l, g, f, a) ==
  /\ lpc[l] = "idle"
  /\ heap[a] = "free"
  /\ heap' = [heap EXCEPT ![a] = "private"]
  /\ data' = [data EXCEPT ![a] = f]
  /\ fresh' = [fresh EXCEPT ![l] = a]
  /\ lglobal' = [lglobal EXCEPT ![l] = g]
  /\ lpc' = [lpc EXCEPT ![l] = "building"]
  /\ UNCHANGED <<mapping, rvars, veteran, stolen, scanned, seen>>

\* Mutant: a failed load takes the mapping out of service.
FailLoad_Unloads(l) ==
  /\ lpc[l] = "building"
  /\ mapping' = [mapping EXCEPT ![lglobal[l]] = Null]
  /\ lpc' = [lpc EXCEPT ![l] = "idle"]
  /\ UNCHANGED <<heap, data, rvars, lglobal, fresh, veteran, stolen, scanned, seen>>

\* fromCSV threw: the Builder is destroyed with its Data, no global changes.
FailLoad(l) ==
  /\ lpc[l] = "building"
  /\ heap' = [heap EXCEPT ![fresh[l]] = "free"]
  /\ data' = [data EXCEPT ![fresh[l]] = NoFile]
  /\ fresh' = [fresh EXCEPT ![l] = Null]
  /\ lpc' = [lpc EXCEPT ![l] = "idle"]
  /\ UNCHANGED <<mapping, rvars, lglobal, veteran, stolen, scanned, seen>>

\* Mutant: the veteran is retired without the test for null.
Exchange_NoNullTest(l) ==
  /\ lpc[l] = "building"
  /\ mapping' = [mapping EXCEPT ![lglobal[l]] = fresh[l]]
  /\ heap' = [heap EXCEPT ![fresh[l]] = "shared"]
  /\ veteran' = [veteran EXCEPT ![l] = mapping[lglobal[l]]]
  /\ fresh' = [fresh EXCEPT ![l] = Null]
  /\ lpc' = [lpc EXCEPT ![l] = "retire"]
  /\ UNCHANGED <<data, rvars, lglobal, stolen, scanned, seen>>

\* global.exchange(data.release()): the old value is retired if not null.
Exchange(l) ==
  LET g == lglobal[l]
      v == mapping[g] IN
  /\ lpc[l] = "building"
  /\ mapping' = [mapping EXCEPT ![g] = fresh[l]]
  /\ heap' = [a \in Addr |-> IF a = fresh[l] THEN "shared"
                             ELSE IF a = v THEN "unlinked" ELSE heap[a]]
  /\ veteran' = [veteran EXCEPT ![l] = v]
  /\ fresh' = [fresh EXCEPT ![l] = Null]
  /\ lpc' = [lpc EXCEPT ![l] = IF v = Null THEN "cleanup" ELSE "retire"]
  /\ UNCHANGED <<data, rvars, lglobal, stolen, scanned, seen>>

\* Mutant: the veteran is deleted at once.
Retire_Deletes(l) ==
  /\ lpc[l] = "retire"
  /\ heap' = [heap EXCEPT ![veteran[l]] = "free"]
  /\ data' = [data EXCEPT ![veteran[l]] = NoFile]
  /\ veteran' = [veteran EXCEPT ![l] = Null]
  /\ lpc' = [lpc EXCEPT ![l] = "cleanup"]
  /\ UNCHANGED <<mapping, rvars, lglobal, fresh, stolen, scanned, seen>>

\* veteran->retire(): pushed on the domain's retired list.
Retire(l) ==
  /\ lpc[l] = "retire"
  /\ heap' = [heap EXCEPT ![veteran[l]] = "retired"]
  /\ veteran' = [veteran EXCEPT ![l] = Null]
  /\ lpc' = [lpc EXCEPT ![l] = "cleanup"]
  /\ UNCHANGED <<mapping, data, rvars, lglobal, fresh, stolen, scanned, seen>>

\* Mutant: the retired list is copied, not taken.
Steal_Copies(l) ==
  /\ lpc[l] = "cleanup"
  /\ stolen' = [stolen EXCEPT ![l] = {a \in Addr : heap[a] = "retired"}]
  /\ lpc' = [lpc EXCEPT ![l] = "scan"]
  /\ UNCHANGED <<mapping, heap, data, rvars, lglobal, fresh, veteran, scanned, seen>>

\* hazptr_cleanup(): take every retired object of the domain, ...
Steal(l) ==
  /\ lpc[l] = "cleanup"
  /\ stolen' = [stolen EXCEPT ![l] = {a \in Addr : heap[a] = "retired"}]
  /\ heap' = [a \in Addr |-> IF heap[a] = "retired" THEN "reclaiming" ELSE heap[a]]
  /\ scanned' = [scanned EXCEPT ![l] = {}]
  /\ seen' = [seen EXCEPT ![l] = {}]
  /\ lpc' = [lpc EXCEPT ![l] = "scan"]
  /\ UNCHANGED <<mapping, data, rvars, lglobal, fresh, veteran>>

\* ... read the hazard slots one at a time, ...
Scan(l, r) ==
  /\ lpc[l] = "scan"
  /\ r \notin scanned[l]
  /\ scanned' = [scanned EXCEPT ![l] = scanned[l] \cup {r}]
  /\ seen' = [seen EXCEPT ![l] = seen[l] \cup {slot[r]}]
  /\ UNCHANGED <<mapping, heap, data, rvars, lpc, lglobal, fresh, veteran, stolen>>

\* Mutant: what a slot protected is not put back on the list.
Reclaim_Forgets(l) ==
  /\ lpc[l] = "scan"
  /\ scanned[l] = Readers
  /\ heap' = [a \in Addr |-> IF a \in stolen[l] \ seen[l] THEN "free" ELSE heap[a]]
  /\ data' = [a \in Addr |-> IF a \in stolen[l] \ seen[l] THEN NoFile ELSE data[a]]
  /\ stolen' = [stolen EXCEPT ![l] = {}]
  /\ scanned' = [scanned EXCEPT ![l] = {}]
  /\ seen' = [seen EXCEPT ![l] = {}]
  /\ lpc' = [lpc EXCEPT ![l] = "idle"]
  /\ UNCHANGED <<mapping, rvars, lglobal, fresh, veteran>>

\* ... delete what no slot protected and put the rest back on the list.
Reclaim(l) ==
  /\ lpc[l] = "scan"
  /\ scanned[l] = Readers
  /\ heap' = [a \in Addr |-> IF a \notin stolen[l] THEN heap[a]
                             ELSE IF a \in seen[l] THEN "retired" ELSE "free"]
  /\ data' = [a \in Addr |-> IF a \in stolen[l] \ seen[l] THEN NoFile ELSE data[a]]
  /\ stolen' = [stolen EXCEPT ![l] = {}]
  /\ scanned' = [scanned EXCEPT ![l] = {}]
  /\ seen' = [seen EXCEPT ![l] = {}]
  /\ lpc' = [lpc EXCEPT ![l] = "idle"]
  /\ UNCHANGED <<mapping, rvars, lglobal, fresh, veteran>>

-----------------------------------------------------------------------------
ReaderStep(r) == LoadPtr(r) \/ SetHazard(r) \/ Validate(r) \/ Destroy(r)

LoaderStep(l) == Exchange(l) \/ Retire(l) \/ Steal(l) \/ Reclaim(l)
                 \/ \E r \in Readers : Scan(l, r)

BeginLoad(l) == \E g \in Globals, f \in Files, a \in Addr : StartLoad(l, g, f, a)

Next ==
  \/ \E r \in Readers : ReaderStep(r) \/ Use(r)
  \/ \E r \in Readers, g \in Globals : IsAvailable(r, g)
  \/ \E l \in Loaders : LoaderStep(l) \/ BeginLoad(l) \/ FailLoad(l)

Spec == Init /\ [][Next]_vars

\* Threads run; a request lets its mapping object go in the end; reloads keep
\* coming (the timers of conf/ start them minutely and daily) and do not all
\* fail.  Nothing makes a particular request arrive.
FairSpec ==
  /\ Spec
  /\ \A r \in Readers : WF_vars(ReaderStep(r))
  /\ \A l \in Loaders : WF_vars(BeginLoad(l)) /\ SF_vars(Exchange(l)) /\ WF_vars(LoaderStep(l))

-----------------------------------------------------------------------------
(* Properties.                                                             *)

\* Every variable has its type: pointers are addresses or null, program
\* counters are the steps of the code, and what is retired is an object.
TypeOK ==
  /\ mapping \in [Globals -> Ptr]
  /\ heap \in [Addr -> HeapStates]
  /\ data \in [Addr -> Files \cup {NoFile}]
  /\ rpc \in [Readers -> {"idle", "checked", "protect", "validate", "using"}]
  /\ rglobal \in [Readers -> Globals]
  /\ ptr \in [Readers -> Ptr]
  /\ slot \in [Readers -> Ptr]
  /\ got \in [Readers -> SUBSET (Files \cup {NoFile})]
  /\ lpc \in [Loaders -> {"idle", "building", "retire", "cleanup", "scan"}]
  /\ lglobal \in [Loaders -> Globals]
  /\ fresh \in [Loaders -> Ptr]
  /\ veteran \in [Loaders -> Ptr]
  /\ \A l \in Loaders : lpc[l] = "retire" => veteran[l] \in Addr
  /\ stolen \in [Loaders -> SUBSET Addr]
  /\ scanned \in [Loaders -> SUBSET Readers]
  /\ seen \in [Loaders -> SUBSET Ptr]

\* A request that passed isAvailable() never dereferences null or reclaimed
\* memory, however long it holds its mapping object and however many reloads
\* run meanwhile (PhoneMapping::getRNs dereferences data_ unchecked).
NoUseAfterFree ==
  \A r \in Readers : rpc[r] = "using" =>
    /\ ptr[r] # Null
    /\ heap[ptr[r]] \notin {"free", "private"}

\* All answers of one mapping object come from one file: a batch is never
\* answered half from the old and half from the new database, and never from
\* memory that holds no database.
SingleSnapshot ==
  \A r \in Readers : got[r] \subseteq Files /\ \A f, h \in got[r] : f = h

\* No Data is owned twice: a global, a Builder, a veteran about to be retired
\* and a cleanup each own different objects, so none is deleted twice.
SingleOwner ==
  /\ \A g, h \in Globals : g # h /\ mapping[g] # Null => mapping[g] # mapping[h]
  /\ \A g \in Globals, l \in Loaders :
       mapping[g] # Null => mapping[g] \notin {fresh[l], veteran[l]} \cup stolen[l]
  /\ \A l, m \in Loaders : l # m =>
       /\ fresh[l] # Null => fresh[l] # fresh[m]
       /\ veteran[l] # Null => veteran[l] # veteran[m]
       /\ stolen[l] \cap (stolen[m] \cup {fresh[m], veteran[m]}) = {}

\* A mapping that has been loaded stays loaded: no reload, failed or not,
\* takes the service back to "database not loaded".
AvailabilityIsStable ==
  [][\A g \in Globals : mapping[g] # Null => mapping'[g] # Null]_vars

\* The memory of a replaced database is given back in the end, although the
\* cleanup of the reload that replaced it may have found it protected, as long
\* as there is memory to reload with again and again (each of Addr is one).
RetiredIsReclaimed ==
  []<>(\E a \in Addr : heap[a] = "free") =>
    \A a \in Addr : heap[a] = "retired" ~> heap[a] = "free"

\* The contents a reader or a global sees, for the refinement.
Contents(p) == IF p = Null THEN NoFile ELSE data[p]

Store == INSTANCE SnapshotStore WITH
           current <- [g \in Globals |-> Contents(mapping[g])],
           held <- [r \in Readers |->
                      IF rpc[r] = "using" THEN Contents(ptr[r]) ELSE NoFile]

\* The pointers, hazard slots and cleanups implement the atomic snapshot store.
ImplementsStore == Store!Spec

=============================================================================
