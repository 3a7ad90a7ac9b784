------------------------ MODULE MappingStore_proofs ------------------------
(***************************************************************************)
(* Proofs about MappingStore for any number of globals, requests, reloads, *)
(* addresses and files.                                                    *)
(***************************************************************************)
EXTENDS MappingStore, TLAPS

-----------------------------------------------------------------------------
(* The inductive invariant.                                                *)

\* What a global points to is shared, and only that global points to it.
Published ==
  /\ \A g \in Globals : mapping[g] # Null => heap[mapping[g]] = "shared"
  /\ \A g, h \in Globals : g # h /\ mapping[g] # Null => mapping[g] # mapping[h]

\* What a loader owns is in the state its program counter says.
LoaderOwns ==
  \A l \in Loaders :
    /\ lpc[l] = "building" => fresh[l] \in Addr /\ heap[fresh[l]] = "private"
    /\ lpc[l] # "building" => fresh[l] = Null
    /\ lpc[l] = "retire" => veteran[l] \in Addr /\ heap[veteran[l]] = "unlinked"
    /\ lpc[l] # "retire" => veteran[l] = Null
    /\ \A a \in stolen[l] : heap[a] = "reclaiming"

\* Two loaders own different objects.
LoadersApart ==
  \A l, m \in Loaders : l # m =>
    /\ fresh[l] # Null => fresh[l] # fresh[m]
    /\ veteran[l] # Null => veteran[l] # veteran[m]
    /\ stolen[l] \cap stolen[m] = {}

\* A reader past isAvailable() has a pointer that is not null, and its hazard
\* slot holds that pointer while it validates and uses it.
ReaderSlots ==
  \A r \in Readers :
    /\ rpc[r] # "idle" => mapping[rglobal[r]] # Null
    /\ rpc[r] \in {"protect", "validate", "using"} => ptr[r] \in Addr
    /\ rpc[r] \in {"validate", "using"} => slot[r] = ptr[r]

\* A pointer in use is not free, and a cleanup that took it and has already
\* read this reader's slot has found it there.
Protected ==
  \A r \in Readers : rpc[r] = "using" =>
    /\ heap[ptr[r]] \notin {"free", "private"}
    /\ \A l \in Loaders : ptr[r] \in stolen[l] /\ r \in scanned[l] => ptr[r] \in seen[l]

\* Allocated memory holds a file.
Filled == \A a \in Addr : heap[a] # "free" => data[a] \in Files

\* Answers came from the Data in use.
Answered ==
  \A r \in Readers :
    /\ rpc[r] = "using" => got[r] \subseteq {data[ptr[r]]}
    /\ rpc[r] # "using" => got[r] = {}

IInv == /\ TypeOK /\ Published /\ LoaderOwns /\ LoadersApart
        /\ ReaderSlots /\ Protected /\ Filled /\ Answered

-----------------------------------------------------------------------------
(* One lemma per action.                                                   *)

\* A request that passes isAvailable() knows its pointer is not null.
LEMMA IsAvailablePreserves ==
  ASSUME IInv, NEW r \in Readers, NEW g \in Globals,
         IsAvailable(r, g)
  PROVE  IInv'
<1>1. TypeOK'
  BY DEF IInv, TypeOK, Ptr, IsAvailable, rvars, lvars
<1>2. ReaderSlots'
  BY ConstantsAssumption DEF IInv, TypeOK, ReaderSlots, IsAvailable,
     rvars, lvars
<1>3. Protected'
  BY DEF IInv, TypeOK, Protected, IsAvailable, rvars, lvars
<1>4. Answered'
  BY DEF IInv, TypeOK, Answered, IsAvailable, rvars, lvars
<1>5. (Published /\ LoaderOwns /\ LoadersApart /\ Filled)'
  BY DEF IInv, Published, LoaderOwns, LoadersApart, Filled, IsAvailable,
     rvars, lvars
<1>. QED
  BY <1>1, <1>2, <1>3, <1>4, <1>5 DEF IInv

\* The first load finds a pointer that is not null.
LEMMA LoadPtrPreserves ==
  ASSUME IInv, NEW r \in Readers,
         LoadPtr(r)
  PROVE  IInv'
<1>1. TypeOK'
  BY DEF IInv, TypeOK, Ptr, LoadPtr, rvars, lvars
<1>2. ReaderSlots'
  BY DEF IInv, TypeOK, ReaderSlots, Ptr, LoadPtr, rvars, lvars
<1>3. Protected'
  BY DEF IInv, TypeOK, Protected, LoadPtr, rvars, lvars
<1>4. Answered'
  BY DEF IInv, TypeOK, Answered, LoadPtr, rvars, lvars
<1>5. (Published /\ LoaderOwns /\ LoadersApart /\ Filled)'
  BY DEF IInv, Published, LoaderOwns, LoadersApart, Filled, LoadPtr,
     rvars, lvars
<1>. QED
  BY <1>1, <1>2, <1>3, <1>4, <1>5 DEF IInv

\* Publishing the hazard pointer protects nothing yet.
LEMMA SetHazardPreserves ==
  ASSUME IInv, NEW r \in Readers,
         SetHazard(r)
  PROVE  IInv'
<1>1. TypeOK'
  BY DEF IInv, TypeOK, Ptr, SetHazard, rvars, lvars
<1>2. ReaderSlots'
  BY DEF IInv, TypeOK, ReaderSlots, SetHazard, rvars, lvars
<1>3. Protected'
  BY DEF IInv, TypeOK, Protected, SetHazard, rvars, lvars
<1>4. Answered'
  BY DEF IInv, TypeOK, Answered, SetHazard, rvars, lvars
<1>5. (Published /\ LoaderOwns /\ LoadersApart /\ Filled)'
  BY DEF IInv, Published, LoaderOwns, LoadersApart, Filled, SetHazard,
     rvars, lvars
<1>. QED
  BY <1>1, <1>2, <1>3, <1>4, <1>5 DEF IInv

\* A pointer still in its global after the slot was set is shared, so no cleanup
\* has taken it: from here on every cleanup that takes it will find the slot.
LEMMA ValidatePreserves ==
  ASSUME IInv, NEW r \in Readers,
         Validate(r)
  PROVE  IInv'
<1>1. TypeOK'
  BY DEF IInv, TypeOK, Ptr, Validate, rvars, lvars
<1>2. ReaderSlots'
  BY DEF IInv, TypeOK, ReaderSlots, Ptr, Validate, rvars, lvars
<1>3. Protected'
  BY DEF IInv, TypeOK, Protected, ReaderSlots, Published, LoaderOwns,
     Validate, rvars, lvars
<1>4. Answered'
  BY DEF IInv, TypeOK, Answered, Validate, rvars, lvars
<1>5. (Published /\ LoaderOwns /\ LoadersApart /\ Filled)'
  BY DEF IInv, Published, LoaderOwns, LoadersApart, Filled, Validate,
     rvars, lvars
<1>. QED
  BY <1>1, <1>2, <1>3, <1>4, <1>5 DEF IInv

\* A lookup reads the file that earlier lookups of the object read.
LEMMA UsePreserves ==
  ASSUME IInv, NEW r \in Readers,
         Use(r)
  PROVE  IInv'
<1>1. TypeOK'
  BY DEF IInv, TypeOK, Ptr, ReaderSlots, Use, rvars, lvars
<1>2. Answered'
  BY DEF IInv, TypeOK, Answered, Use, rvars, lvars
<1>3. (Published /\ LoaderOwns /\ LoadersApart /\ ReaderSlots /\ Protected /\ Filled)'
  BY DEF IInv, Published, LoaderOwns, LoadersApart, ReaderSlots,
     Protected, Filled, Use, rvars, lvars
<1>. QED
  BY <1>1, <1>2, <1>3 DEF IInv

\* Letting go leaves nothing to protect.
LEMMA DestroyPreserves ==
  ASSUME IInv, NEW r \in Readers,
         Destroy(r)
  PROVE  IInv'
<1>1. TypeOK'
  BY DEF IInv, TypeOK, Ptr, Destroy, rvars, lvars
<1>2. ReaderSlots'
  BY DEF IInv, TypeOK, ReaderSlots, Destroy, rvars, lvars
<1>3. Protected'
  BY DEF IInv, TypeOK, Protected, Destroy, rvars, lvars
<1>4. Answered'
  BY DEF IInv, TypeOK, Answered, Destroy, rvars, lvars
<1>5. (Published /\ LoaderOwns /\ LoadersApart /\ Filled)'
  BY DEF IInv, Published, LoaderOwns, LoadersApart, Filled, Destroy,
     rvars, lvars
<1>. QED
  BY <1>1, <1>2, <1>3, <1>4, <1>5 DEF IInv

\* A free address is in nobody's hands, so building there disturbs nobody.
LEMMA StartLoadPreserves ==
  ASSUME IInv, NEW l \in Loaders, NEW g \in Globals, NEW f \in Files, NEW a \in Addr,
         StartLoad(l, g, f, a)
  PROVE  IInv'
<1>1. TypeOK'
  BY DEF IInv, TypeOK, Ptr, HeapStates, StartLoad, rvars, lvars
<1>2. Published'
  BY DEF IInv, TypeOK, Published, LoaderOwns, StartLoad, rvars, lvars
<1>3. LoaderOwns'
  BY DEF IInv, TypeOK, LoaderOwns, StartLoad, rvars, lvars
<1>4. LoadersApart'
  BY DEF IInv, TypeOK, LoadersApart, LoaderOwns, StartLoad, rvars, lvars
<1>5. Protected'
  BY DEF IInv, TypeOK, Protected, ReaderSlots, LoaderOwns, StartLoad,
     rvars, lvars
<1>6. Filled'
  BY DEF IInv, TypeOK, Filled, LoaderOwns, StartLoad, rvars, lvars
<1>7. Answered'
  BY DEF IInv, TypeOK, Answered, Protected, ReaderSlots, StartLoad, rvars,
     lvars
<1>8. (ReaderSlots)'
  BY DEF IInv, ReaderSlots, StartLoad, rvars, lvars
<1>. QED
  BY <1>1, <1>2, <1>3, <1>4, <1>5, <1>6, <1>7, <1>8 DEF IInv

\* Only its Builder can reach a private Data, so deleting it is safe.
LEMMA FailLoadPreserves ==
  ASSUME IInv, NEW l \in Loaders,
         FailLoad(l)
  PROVE  IInv'
<1>1. TypeOK'
  BY DEF IInv, TypeOK, Ptr, HeapStates, FailLoad, rvars, lvars
<1>2. Published'
  BY DEF IInv, TypeOK, Published, LoaderOwns, FailLoad, rvars, lvars
<1>3. LoaderOwns'
  BY ConstantsAssumption DEF IInv, TypeOK, LoaderOwns, LoadersApart,
     FailLoad, rvars, lvars
<1>4. LoadersApart'
  BY DEF IInv, TypeOK, LoadersApart, LoaderOwns, FailLoad, rvars, lvars
<1>5. Protected'
  BY DEF IInv, TypeOK, Protected, ReaderSlots, LoaderOwns, FailLoad,
     rvars, lvars
<1>6. Filled'
  BY DEF IInv, TypeOK, Filled, LoaderOwns, FailLoad, rvars, lvars
<1>7. Answered'
  BY DEF IInv, TypeOK, Answered, Protected, ReaderSlots, LoaderOwns,
     FailLoad, rvars, lvars
<1>8. (ReaderSlots)'
  BY DEF IInv, ReaderSlots, FailLoad, rvars, lvars
<1>. QED
  BY <1>1, <1>2, <1>3, <1>4, <1>5, <1>6, <1>7, <1>8 DEF IInv

\* The exchange hands the fresh Data to the global and the old one to the loader.
LEMMA ExchangePreserves ==
  ASSUME IInv, NEW l \in Loaders,
         Exchange(l)
  PROVE  IInv'
<1>1. TypeOK'
  BY DEF IInv, TypeOK, Ptr, HeapStates, Exchange, rvars, lvars
<1>2. Published'
  BY ConstantsAssumption DEF IInv, TypeOK, Published, LoaderOwns, Ptr,
     Exchange, rvars, lvars
<1>3. LoaderOwns'
  BY ConstantsAssumption DEF IInv, TypeOK, LoaderOwns, LoadersApart,
     Published, Ptr, Exchange, rvars, lvars
<1>4. LoadersApart'
  BY DEF IInv, TypeOK, LoadersApart, LoaderOwns, Published, Exchange,
     rvars, lvars
<1>5. ReaderSlots'
  BY ConstantsAssumption DEF IInv, TypeOK, ReaderSlots, LoaderOwns,
     Exchange, rvars, lvars
<1>6. Protected'
  BY DEF IInv, TypeOK, Protected, ReaderSlots, LoaderOwns, Exchange,
     rvars, lvars
<1>7. Filled'
  BY ConstantsAssumption DEF IInv, TypeOK, Filled, LoaderOwns, Published,
     Ptr, Exchange, rvars, lvars
<1>8. (Answered)'
  BY DEF IInv, Answered, Exchange, rvars, lvars
<1>. QED
  BY <1>1, <1>2, <1>3, <1>4, <1>5, <1>6, <1>7, <1>8 DEF IInv

\* Only the loader that unlinked an object retires it.
LEMMA RetirePreserves ==
  ASSUME IInv, NEW l \in Loaders,
         Retire(l)
  PROVE  IInv'
<1>1. TypeOK'
  BY DEF IInv, TypeOK, Ptr, HeapStates, Retire, rvars, lvars
<1>2. Published'
  BY DEF IInv, TypeOK, Published, LoaderOwns, Retire, rvars, lvars
<1>3. LoaderOwns'
  BY ConstantsAssumption DEF IInv, TypeOK, LoaderOwns, LoadersApart,
     Retire, rvars, lvars
<1>4. LoadersApart'
  BY DEF IInv, TypeOK, LoadersApart, LoaderOwns, Retire, rvars, lvars
<1>5. Protected'
  BY DEF IInv, TypeOK, Protected, ReaderSlots, LoaderOwns, Retire, rvars,
     lvars
<1>6. Filled'
  BY DEF IInv, TypeOK, Filled, LoaderOwns, Retire, rvars, lvars
<1>7. (ReaderSlots /\ Answered)'
  BY DEF IInv, ReaderSlots, Answered, Retire, rvars, lvars
<1>. QED
  BY <1>1, <1>2, <1>3, <1>4, <1>5, <1>6, <1>7 DEF IInv

\* A cleanup starts with every hazard slot still to be read.
LEMMA StealPreserves ==
  ASSUME IInv, NEW l \in Loaders,
         Steal(l)
  PROVE  IInv'
<1>1. TypeOK'
  BY DEF IInv, TypeOK, Ptr, HeapStates, Steal, rvars, lvars
<1>2. Published'
  BY DEF IInv, TypeOK, Published, Ptr, Steal, rvars, lvars
<1>3. LoaderOwns'
  BY DEF IInv, TypeOK, LoaderOwns, Steal, rvars, lvars
<1>4. LoadersApart'
  BY DEF IInv, TypeOK, LoadersApart, LoaderOwns, Steal, rvars, lvars
<1>5. Protected'
  BY DEF IInv, TypeOK, Protected, ReaderSlots, Steal, rvars, lvars
<1>6. Filled'
  BY DEF IInv, TypeOK, Filled, Steal, rvars, lvars
<1>7. (ReaderSlots /\ Answered)'
  BY DEF IInv, ReaderSlots, Answered, Steal, rvars, lvars
<1>. QED
  BY <1>1, <1>2, <1>3, <1>4, <1>5, <1>6, <1>7 DEF IInv

\* Reading the slot of a reader finds the pointer it uses.
LEMMA ScanPreserves ==
  ASSUME IInv, NEW l \in Loaders, NEW r \in Readers,
         Scan(l, r)
  PROVE  IInv'
<1>1. TypeOK'
  BY DEF IInv, TypeOK, Ptr, Scan, rvars, lvars
<1>2. Protected'
  BY DEF IInv, TypeOK, Protected, ReaderSlots, Scan, rvars, lvars
<1>3. (Published /\ LoaderOwns /\ LoadersApart /\ ReaderSlots /\ Filled /\ Answered)'
  BY DEF IInv, Published, LoaderOwns, LoadersApart, ReaderSlots, Filled,
     Answered, Scan, rvars, lvars
<1>. QED
  BY <1>1, <1>2, <1>3 DEF IInv

\* When every slot has been read, what was not found is not in use.
LEMMA ReclaimPreserves ==
  ASSUME IInv, NEW l \in Loaders,
         Reclaim(l)
  PROVE  IInv'
<1>1. TypeOK'
  BY DEF IInv, TypeOK, Ptr, HeapStates, Reclaim, rvars, lvars
<1>2. Published'
  BY DEF IInv, TypeOK, Published, LoaderOwns, Ptr, Reclaim, rvars, lvars
<1>3. LoaderOwns'
  BY DEF IInv, TypeOK, LoaderOwns, LoadersApart, Reclaim, rvars, lvars
<1>4. LoadersApart'
  BY DEF IInv, TypeOK, LoadersApart, LoaderOwns, Reclaim, rvars, lvars
<1>5. Protected'
  BY DEF IInv, TypeOK, Protected, ReaderSlots, Reclaim, rvars, lvars
<1>6. Filled'
  BY DEF IInv, TypeOK, Filled, LoaderOwns, Reclaim, rvars, lvars
<1>7. Answered'
  BY DEF IInv, TypeOK, Answered, Protected, ReaderSlots, LoaderOwns,
     Reclaim, rvars, lvars
<1>8. (ReaderSlots)'
  BY DEF IInv, ReaderSlots, Reclaim, rvars, lvars
<1>. QED
  BY <1>1, <1>2, <1>3, <1>4, <1>5, <1>6, <1>7, <1>8 DEF IInv

-----------------------------------------------------------------------------
(* The theorems.                                                           *)

\* The invariant holds initially: nothing is allocated and nobody reads.
LEMMA InitEstablishes == Init => IInv
  BY ConstantsAssumption
  DEF Init, IInv, TypeOK, Published, LoaderOwns, LoadersApart, ReaderSlots,
      Protected, Filled, Answered, Ptr, HeapStates

\* Every step of the specification preserves the invariant.
LEMMA NextPreserves == IInv /\ [Next]_vars => IInv'
<1>. SUFFICES ASSUME IInv, [Next]_vars PROVE IInv'
  OBVIOUS
<1>1. CASE UNCHANGED vars
  BY <1>1
  DEF IInv, TypeOK, Published, LoaderOwns, LoadersApart, ReaderSlots,
      Protected, Filled, Answered, vars, rvars, lvars
<1>2. CASE \E r \in Readers : ReaderStep(r) \/ Use(r)
  BY <1>2, LoadPtrPreserves, SetHazardPreserves, ValidatePreserves,
     UsePreserves, DestroyPreserves DEF ReaderStep
<1>3. CASE \E r \in Readers, g \in Globals : IsAvailable(r, g)
  BY <1>3, IsAvailablePreserves
<1>4. CASE \E l \in Loaders : LoaderStep(l) \/ BeginLoad(l) \/ FailLoad(l)
  <2>. PICK l \in Loaders : LoaderStep(l) \/ BeginLoad(l) \/ FailLoad(l)
    BY <1>4
  <2>1. CASE LoaderStep(l)
    BY <2>1, ExchangePreserves, RetirePreserves, StealPreserves,
       ScanPreserves, ReclaimPreserves DEF LoaderStep
  <2>2. CASE BeginLoad(l)
    BY <2>2, StartLoadPreserves DEF BeginLoad
  <2>3. CASE FailLoad(l)
    BY <2>3, FailLoadPreserves
  <2>. QED
    BY <2>1, <2>2, <2>3
<1>. QED
  BY <1>1, <1>2, <1>3, <1>4 DEF Next

\* The inductive invariant holds in every reachable state.
THEOREM Invariance == Spec => []IInv
<1>1. Init => IInv
  BY InitEstablishes
<1>2. IInv /\ [Next]_vars => IInv'
  BY NextPreserves
<1>. QED
  BY <1>1, <1>2, PTL DEF Spec

\* Every variable keeps its type.
THEOREM TypeCorrect == Spec => []TypeOK
<1>1. IInv => TypeOK
  BY DEF IInv
<1>. QED
  BY <1>1, Invariance, PTL

\* No request ever dereferences null or reclaimed memory (getRNs and the
\* cursors use data_ unchecked), for any number of requests and reloads.
THEOREM ReadersAreSafe == Spec => []NoUseAfterFree
<1>1. IInv => NoUseAfterFree
  BY ConstantsAssumption DEF IInv, ReaderSlots, Protected, NoUseAfterFree
<1>. QED
  BY <1>1, Invariance, PTL

\* All answers of one mapping object come from one loaded file.
THEOREM SnapshotsAreSingle == Spec => []SingleSnapshot
<1>1. IInv => SingleSnapshot
  BY DEF IInv, TypeOK, ReaderSlots, Protected, Filled, Answered, SingleSnapshot
<1>. QED
  BY <1>1, Invariance, PTL

\* No Data has two owners, so none is deleted or retired twice.
THEOREM OwnersAreSingle == Spec => []SingleOwner
<1>1. IInv => SingleOwner
  BY ConstantsAssumption
  DEF IInv, TypeOK, Ptr, Published, LoaderOwns, LoadersApart, SingleOwner
<1>. QED
  BY <1>1, Invariance, PTL

\* Once loaded, a mapping is never unloaded by any step.
THEOREM AvailabilityStable == Spec => AvailabilityIsStable
<1>1. IInv /\ [Next]_vars
        => [\A g \in Globals : mapping[g] # Null => mapping'[g] # Null]_vars
  <2>. SUFFICES ASSUME IInv, Next, NEW g \in Globals, mapping[g] # Null
                PROVE  mapping'[g] # Null
    OBVIOUS
  <2>1. CASE mapping' = mapping
    BY <2>1
  <2>2. CASE \E l \in Loaders : Exchange(l)
    BY <2>2, ConstantsAssumption DEF IInv, TypeOK, LoaderOwns, Exchange
  <2>. QED
    BY <2>1, <2>2
    DEF Next, ReaderStep, LoaderStep, BeginLoad, IsAvailable, LoadPtr,
        SetHazard, Validate, Use, Destroy, StartLoad, FailLoad, Retire, Steal,
        Scan, Reclaim
<1>. QED
  BY <1>1, Invariance, PTL DEF Spec, AvailabilityIsStable

-----------------------------------------------------------------------------
(* Refinement.                                                             *)

\* A mapping that is not null shows a file, and so does a pointer in use.
LEMMA ContentsAreFiles ==
  ASSUME IInv
  PROVE  /\ \A g \in Globals : mapping[g] # Null =>
              mapping[g] \in Addr /\ data[mapping[g]] \in Files
         /\ \A r \in Readers : rpc[r] = "using" =>
              ptr[r] \in Addr /\ ptr[r] # Null /\ data[ptr[r]] \in Files
  BY ConstantsAssumption
  DEF IInv, TypeOK, Ptr, Published, ReaderSlots, Protected, Filled

\* A step that keeps the globals, the requests in use, their answers and the
\* memory that either can see is invisible in the abstract store.
LEMMA Invisible ==
  ASSUME IInv,
         UNCHANGED <<mapping, got>>,
         \A r \in Readers : (rpc'[r] = "using") <=> (rpc[r] = "using"),
         \A r \in Readers : rpc[r] = "using" =>
           ptr'[r] = ptr[r] /\ data'[ptr[r]] = data[ptr[r]],
         \A g \in Globals : mapping[g] # Null => data'[mapping[g]] = data[mapping[g]]
  PROVE  UNCHANGED Store!vars
<1>1. \A g \in Globals : Contents(mapping[g])' = Contents(mapping[g])
  BY DEF Contents
<1>2. \A r \in Readers :
        (IF rpc[r] = "using" THEN Contents(ptr[r]) ELSE NoFile)'
          = IF rpc[r] = "using" THEN Contents(ptr[r]) ELSE NoFile
  BY DEF Contents
<1>. QED
  BY <1>1, <1>2 DEF Store!vars

\* The exchange is the moment the new contents are published.
LEMMA ExchangePublishes ==
  ASSUME IInv, NEW l \in Loaders, Exchange(l)
  PROVE  \E g \in Globals, f \in Files : Store!Publish(g, f)
<1>. DEFINE g == lglobal[l]
            f == data[fresh[l]]
<1>1. g \in Globals /\ f \in Files /\ fresh[l] \in Addr /\ fresh[l] # Null
  BY ConstantsAssumption DEF IInv, TypeOK, LoaderOwns, Filled, Exchange
<1>2. [h \in Globals |-> Contents(mapping[h])]'
        = [[h \in Globals |-> Contents(mapping[h])] EXCEPT ![g] = f]
  BY <1>1 DEF IInv, TypeOK, Contents, Exchange
<1>3. UNCHANGED [r \in Readers |-> IF rpc[r] = "using" THEN Contents(ptr[r]) ELSE NoFile]
  BY DEF Contents, Exchange, rvars
<1>4. UNCHANGED got
  BY DEF Exchange, rvars
<1>5. Store!Publish(g, f)
  BY <1>2, <1>3, <1>4 DEF Store!Publish
<1>. QED
  BY <1>1, <1>5

\* A successful validation is the moment the snapshot is taken; a failed one
\* is invisible.
LEMMA ValidateAcquires ==
  ASSUME IInv, IInv', NEW r \in Readers, Validate(r)
  PROVE  (\E g \in Globals : Store!Acquire(r, g)) \/ UNCHANGED Store!vars
<1>1. CASE mapping[rglobal[r]] = ptr[r]
  <2>1. rglobal[r] \in Globals /\ ptr[r] # Null /\ data[ptr[r]] \in Files
    BY <1>1, ContentsAreFiles DEF IInv, TypeOK, ReaderSlots, Validate
  <2>2. rpc' = [rpc EXCEPT ![r] = "using"] /\ UNCHANGED <<mapping, data, ptr, got>>
    BY <1>1 DEF Validate
  <2>3. [q \in Readers |-> IF rpc[q] = "using" THEN Contents(ptr[q]) ELSE NoFile]'
          = [[q \in Readers |-> IF rpc[q] = "using" THEN Contents(ptr[q]) ELSE NoFile]
               EXCEPT ![r] = data[ptr[r]]]
    BY <2>1, <2>2 DEF IInv, TypeOK, Contents
  <2>4. UNCHANGED [g \in Globals |-> Contents(mapping[g])]
    BY <2>2 DEF Contents
  <2>5. [g \in Globals |-> Contents(mapping[g])][rglobal[r]] = data[ptr[r]]
    BY <1>1, <2>1 DEF Contents
  <2>6. [q \in Readers |-> IF rpc[q] = "using" THEN Contents(ptr[q]) ELSE NoFile][r] = NoFile
    BY DEF Validate
  <2>7. PICK g \in Globals : g = rglobal[r]
    BY <2>1
  <2>8. Store!Acquire(r, g)
    BY <2>1, <2>2, <2>3, <2>4, <2>5, <2>6, <2>7, ConstantsAssumption
    DEF Store!Acquire
  <2>. QED
    BY <2>8
<1>2. CASE mapping[rglobal[r]] # ptr[r]
  BY <1>2, Invisible DEF IInv, TypeOK, Validate
<1>. QED
  BY <1>1, <1>2

\* A lookup reads the snapshot.
LEMMA UseReads ==
  ASSUME IInv, NEW r \in Readers, Use(r)
  PROVE  Store!Read(r)
<1>1. data[ptr[r]] \in Files /\ Contents(ptr[r]) = data[ptr[r]]
  BY ContentsAreFiles DEF Contents, Use
<1>2. UNCHANGED <<[g \in Globals |-> Contents(mapping[g])],
                  [q \in Readers |-> IF rpc[q] = "using" THEN Contents(ptr[q]) ELSE NoFile]>>
  BY DEF Contents, Use
<1>. QED
  BY <1>1, <1>2, ConstantsAssumption DEF Store!Read, Use

\* Destroying the mapping object releases the snapshot.
LEMMA DestroyReleases ==
  ASSUME IInv, NEW r \in Readers, Destroy(r)
  PROVE  Store!Release(r)
<1>1. data[ptr[r]] \in Files /\ Contents(ptr[r]) = data[ptr[r]]
  BY ContentsAreFiles DEF Contents, Destroy
<1>2. [q \in Readers |-> IF rpc[q] = "using" THEN Contents(ptr[q]) ELSE NoFile]'
        = [[q \in Readers |-> IF rpc[q] = "using" THEN Contents(ptr[q]) ELSE NoFile]
             EXCEPT ![r] = NoFile]
  BY DEF IInv, TypeOK, Contents, Destroy
<1>3. UNCHANGED [g \in Globals |-> Contents(mapping[g])]
  BY DEF Contents, Destroy
<1>. QED
  BY <1>1, <1>2, <1>3, ConstantsAssumption DEF Store!Release, Destroy

\* Memory changes hands out of sight: a load builds in free memory, a failed
\* load and a cleanup give up memory that no global shows and nobody uses.
LEMMA MemoryIsInvisible ==
  ASSUME IInv, IInv', NEW l \in Loaders,
         BeginLoad(l) \/ FailLoad(l) \/ Reclaim(l)
  PROVE  UNCHANGED Store!vars
<1>1. UNCHANGED <<mapping, got, rpc, ptr>>
  BY DEF BeginLoad, StartLoad, FailLoad, Reclaim, rvars
<1>2. \A a \in Addr : heap[a] = "shared" => data'[a] = data[a]
  BY DEF IInv, TypeOK, LoaderOwns, BeginLoad, StartLoad, FailLoad, Reclaim
<1>3. \A r \in Readers : rpc[r] = "using" => data'[ptr[r]] = data[ptr[r]]
  BY DEF IInv, TypeOK, LoaderOwns, ReaderSlots, Protected, BeginLoad, StartLoad,
         FailLoad, Reclaim
<1>4. \A g \in Globals : mapping[g] # Null => data'[mapping[g]] = data[mapping[g]]
  BY <1>2, ContentsAreFiles DEF IInv, Published
<1>. QED
  BY <1>1, <1>3, <1>4, Invisible

\* The steps that touch neither memory contents, nor globals, nor a snapshot.
LEMMA OtherStepsAreInvisible ==
  ASSUME IInv,
         \/ \E r \in Readers : LoadPtr(r) \/ SetHazard(r)
         \/ \E r \in Readers, g \in Globals : IsAvailable(r, g)
         \/ \E l \in Loaders : \/ Retire(l) \/ Steal(l)
                               \/ \E r \in Readers : Scan(l, r)
  PROVE  UNCHANGED Store!vars
<1>1. UNCHANGED <<mapping, data, got>>
  BY DEF LoadPtr, SetHazard, IsAvailable, Retire, Steal, Scan, rvars
<1>2. \A r \in Readers : /\ (rpc'[r] = "using") <=> (rpc[r] = "using")
                         /\ rpc[r] = "using" => ptr'[r] = ptr[r]
  BY DEF IInv, TypeOK, LoadPtr, SetHazard, IsAvailable, Retire, Steal, Scan, rvars
<1>. QED
  BY <1>1, <1>2, Invisible

\* The pointers, hazard slots and cleanups of the code implement the atomic
\* snapshot store: a reload takes effect at its exchange, a request at its
\* successful validation, and reclamation is never visible.
THEOREM Refinement == Spec => ImplementsStore
<1>1. Init => Store!Init
  BY DEF Init, Store!Init, Contents
<1>2. IInv /\ IInv' /\ [Next]_vars => [Store!Next]_(Store!vars)
  <2>. SUFFICES ASSUME IInv, IInv', [Next]_vars PROVE [Store!Next]_(Store!vars)
    OBVIOUS
  <2>1. CASE UNCHANGED vars
    BY <2>1, Invisible DEF vars, rvars
  <2>2. CASE \E l \in Loaders : Exchange(l)
    BY <2>2, ExchangePublishes DEF Store!Next
  <2>3. CASE \E r \in Readers : Validate(r)
    BY <2>3, ValidateAcquires DEF Store!Next
  <2>4. CASE \E r \in Readers : Use(r)
    BY <2>4, UseReads DEF Store!Next
  <2>5. CASE \E r \in Readers : Destroy(r)
    BY <2>5, DestroyReleases DEF Store!Next
  <2>6. CASE \E l \in Loaders : BeginLoad(l) \/ FailLoad(l) \/ Reclaim(l)
    BY <2>6, MemoryIsInvisible
  <2>7. CASE \/ \E r \in Readers : LoadPtr(r) \/ SetHazard(r)
             \/ \E r \in Readers, g \in Globals : IsAvailable(r, g)
             \/ \E l \in Loaders : \/ Retire(l) \/ Steal(l)
                                   \/ \E r \in Readers : Scan(l, r)
    BY <2>7, OtherStepsAreInvisible
  <2>. QED
    BY <2>1, <2>2, <2>3, <2>4, <2>5, <2>6, <2>7 DEF Next, ReaderStep, LoaderStep
<1>. QED
  BY <1>1, <1>2, Invariance, PTL DEF Spec, ImplementsStore, Store!Spec

=============================================================================
