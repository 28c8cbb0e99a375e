---------------------------- MODULE DevfileRegistryProofs ----------------------------
(****************************************************************************)
(* The devfile registry, for any Stacks, versions, contents and number of   *)
(* edits, failing writes and restarts.                                      *)
(****************************************************************************)
EXTENDS DevfileRegistry, TLAPS

-----------------------------------------------------------------------------
(* Types *)

\* In the groups in which the actions change them.
CrType == /\ cr \in [Stacks -> Resource] /\ cache \in [Stacks -> Resource]
          /\ synced \subseteq Stacks
DiskType == files \subseteq StoredFile /\ index \subseteq IndexEntry /\ overtaken \subseteq Stacks
BoundType == edits \in 0..MaxEdits /\ faults \in 0..MaxFaults

LEMMA TypeGroups ==
    TypeOK <=> CrType /\ queue \subseteq Stacks /\ DiskType /\ loc \in Local /\ BoundType
  BY DEF TypeOK, CrType, DiskType, BoundType

LEMMA TypeGroupsNext ==
    TypeOK' <=> /\ CrType' /\ (queue \subseteq Stacks)' /\ DiskType' /\ (loc \in Local)'
                /\ BoundType'
  BY DEF TypeOK, CrType, DiskType, BoundType

LEMMA NoStackType == NoStack \in Resource
  BY DEF NoStack, Resource

\* An idle worker has a local state of the right type.
LEMMA IdleStateType == IdleState \in Local
<1>1. (CHOOSE s \in Stacks : TRUE) \in Stacks
  BY RegistryAssumption
<1> QED
  BY <1>1, NoStackType DEF IdleState, Local

LEMMA InitType == Init => TypeOK
<1> SUFFICES ASSUME Init PROVE TypeOK
  OBVIOUS
<1>1. CrType
  BY NoStackType DEF Init, CrType
<1>2. BoundType
  BY RegistryAssumption DEF Init, BoundType
<1> QED
  BY <1>1, <1>2, IdleStateType, TypeGroups DEF Init, DiskType

\* What is left alone keeps its type.
LEMMA UnchangedType ==
    ASSUME TypeOK
    PROVE  /\ UNCHANGED crVars => CrType'
           /\ UNCHANGED diskVars => DiskType'
           /\ UNCHANGED <<edits, faults>> => BoundType'
           /\ UNCHANGED queue => (queue \subseteq Stacks)'
           /\ UNCHANGED loc => (loc \in Local)'
  BY TypeGroups DEF CrType, DiskType, BoundType, crVars, diskVars

\* A Stack of the right type is stored.
LEMMA StoreType ==
    ASSUME TypeOK, NEW s \in Stacks, NEW r \in Resource, Store(s, r)
    PROVE  CrType'
  BY DEF TypeOK, CrType, Store

\* What generates the index has the type of an index.
LEMMA EntriesType ==
    ASSUME TypeOK
    PROVE  Entries \subseteq IndexEntry
  BY DEF TypeOK, Entries, StoredFile, File, IndexEntry

\* A part of the local state at a time.
LEMMA LocalStep ==
    ASSUME NEW l \in Local, NEW pc \in {"idle", "clean", "write", "index", "publish"}
    PROVE  [l EXCEPT !.pc = pc] \in Local
  BY DEF Local

LEMMA EnvironmentType ==
    ASSUME TypeOK, NEW s \in Stacks,
           EditStack(s) \/ DeleteStack(s) \/ FinishDeletion(s) \/ DeliverEvent(s)
    PROVE  TypeOK'
<1>1. CASE EditStack(s)
  <2>1. PICK held \in SUBSET File : Store(s, [phase |-> "live", held |-> held])
    BY <1>1 DEF EditStack
  <2>2. [phase |-> "live", held |-> held] \in Resource
    BY DEF Resource
  <2>3. CrType'
    BY <2>1, <2>2, StoreType
  <2>4. BoundType'
    BY <1>1, RegistryAssumption DEF EditStack, BoundType, TypeOK
  <2> QED
    BY <1>1, <2>3, <2>4, UnchangedType, TypeGroupsNext DEF EditStack
<1>2. CASE DeleteStack(s)
  <2>1. [cr[s] EXCEPT !.phase = "deleting"] \in Resource
    BY DEF TypeOK, Resource
  <2>2. CrType'
    BY <1>2, <2>1, StoreType DEF DeleteStack
  <2>3. BoundType'
    BY <1>2, RegistryAssumption DEF DeleteStack, BoundType, TypeOK
  <2> QED
    BY <1>2, <2>2, <2>3, UnchangedType, TypeGroupsNext DEF DeleteStack
<1>3. CASE FinishDeletion(s)
  <2>1. CrType'
    BY <1>3, NoStackType, StoreType DEF FinishDeletion
  <2> QED
    BY <1>3, <2>1, UnchangedType, TypeGroupsNext DEF FinishDeletion
<1>4. CASE DeliverEvent(s)
  <2>1. CrType'
    BY <1>4 DEF DeliverEvent, TypeOK, CrType
  <2>2. (queue \subseteq Stacks)'
    BY <1>4 DEF DeliverEvent, TypeOK
  <2> QED
    BY <1>4, <2>1, <2>2, UnchangedType, TypeGroupsNext DEF DeliverEvent
<1> QED
  BY <1>1, <1>2, <1>3, <1>4

LEMMA BeginType ==
    ASSUME TypeOK, NEW s \in Stacks, Begin(s) \/ BeginGone(s)
    PROVE  TypeOK'
<1>1. CASE Begin(s)
  <2>1. (loc \in Local)'
    BY <1>1 DEF Begin, TypeOK, Local
  <2>2. (queue \subseteq Stacks)'
    BY <1>1 DEF Begin, TypeOK
  <2> QED
    BY <1>1, <2>1, <2>2, UnchangedType, TypeGroupsNext DEF Begin
<1>2. CASE BeginGone(s)
  <2>1. DiskType' /\ (queue \subseteq Stacks)'
    BY <1>2 DEF BeginGone, TypeOK, DiskType
  <2> QED
    BY <1>2, <2>1, UnchangedType, TypeGroupsNext DEF BeginGone
<1> QED
  BY <1>1, <1>2

LEMMA FilesType ==
    ASSUME TypeOK, Clean \/ WriteFiles
    PROVE  TypeOK'
<1>1. CASE Clean
  <2>1. DiskType'
    BY <1>1 DEF Clean, TypeOK, DiskType
  <2>2. (loc \in Local)'
    BY <1>1, LocalStep DEF Clean, TypeOK
  <2> QED
    BY <1>1, <2>1, <2>2, UnchangedType, TypeGroupsNext DEF Clean
<1>2. CASE WriteFiles
  <2>1. {[stack |-> loc.me, file |-> f] : f \in loc.read.held} \subseteq StoredFile
    BY DEF TypeOK, Local, Resource, StoredFile
  <2>2. DiskType'
    BY <1>2, <2>1 DEF WriteFiles, TypeOK, DiskType
  <2>3. (loc \in Local)'
    BY <1>2, LocalStep DEF WriteFiles, TypeOK
  <2> QED
    BY <1>2, <2>2, <2>3, UnchangedType, TypeGroupsNext DEF WriteFiles
<1> QED
  BY <1>1, <1>2

LEMMA ReturnErrorType ==
    ASSUME TypeOK, ReturnError
    PROVE  (loc \in Local)' /\ (queue \subseteq Stacks)'
  BY IdleStateType DEF ReturnError, TypeOK, Local

LEMMA IndexType ==
    ASSUME TypeOK, IndexFails \/ TruncateIndex \/ WriteIndex \/ WriteIndexFails
    PROVE  TypeOK'
<1>1. CASE IndexFails
  BY <1>1, ReturnErrorType, UnchangedType, TypeGroupsNext DEF IndexFails
<1>2. CASE TruncateIndex
  <2>1. DiskType'
    BY <1>2 DEF TruncateIndex, TypeOK, DiskType
  <2>2. (loc \in Local)'
    BY <1>2, LocalStep DEF TruncateIndex, TypeOK
  <2> QED
    BY <1>2, <2>1, <2>2, UnchangedType, TypeGroupsNext DEF TruncateIndex
<1>3. CASE WriteIndex
  <2>1. DiskType'
    BY <1>3, EntriesType DEF WriteIndex, TypeOK, DiskType
  <2> QED
    BY <1>3, <2>1, IdleStateType, UnchangedType, TypeGroupsNext DEF WriteIndex
<1>4. CASE WriteIndexFails
  <2>1. BoundType'
    BY <1>4, RegistryAssumption DEF WriteIndexFails, BoundType, TypeOK
  <2> QED
    BY <1>4, <2>1, ReturnErrorType, UnchangedType, TypeGroupsNext DEF WriteIndexFails
<1> QED
  BY <1>1, <1>2, <1>3, <1>4

LEMMA RestartType ==
    ASSUME TypeOK, Restart
    PROVE  TypeOK'
<1>1. CrType'
  BY DEF Restart, TypeOK, CrType
<1>2. DiskType' /\ (queue \subseteq Stacks)'
  BY DEF Restart, DiskType
<1>3. BoundType'
  BY RegistryAssumption DEF Restart, BoundType, TypeOK
<1> QED
  BY <1>1, <1>2, <1>3, IdleStateType, TypeGroupsNext DEF Restart

LEMMA NextType == TypeOK /\ [Next]_vars => TypeOK'
<1> SUFFICES ASSUME TypeOK, [Next]_vars PROVE TypeOK'
  OBVIOUS
<1>1. ASSUME NEW s \in Stacks, Begin(s) \/ BeginGone(s) PROVE TypeOK'
  BY <1>1, BeginType
<1>2. CASE Clean \/ WriteFiles
  BY <1>2, FilesType
<1>3. CASE IndexFails \/ TruncateIndex \/ WriteIndex \/ WriteIndexFails
  BY <1>3, IndexType
<1>4. CASE Restart
  BY <1>4, RestartType
<1>5. ASSUME NEW s \in Stacks,
             EditStack(s) \/ DeleteStack(s) \/ FinishDeletion(s) \/ DeliverEvent(s)
      PROVE  TypeOK'
  BY <1>5, EnvironmentType
<1>6. CASE UNCHANGED vars
  BY <1>6, UnchangedType, TypeGroupsNext DEF vars, crVars, diskVars
<1> QED
  BY <1>1, <1>2, <1>3, <1>4, <1>5, <1>6 DEF Next, Reconcile

\* Types: what is read, stored and served is of the kinds that the code has
\* for it, in every instance.
THEOREM TypeCorrect == Spec => []TypeOK
  BY InitType, NextType, PTL DEF Spec

-----------------------------------------------------------------------------
(* The index leads to what is on disk *)

\* Between truncation and write the index is empty: an error of the write
\* leaves nothing that could mislead.
IndexInv == (loc.pc = "publish" => index = {}) /\ LinksResolve

\* Nothing but the disk and the local state matters.
LEMMA IndexUntouched ==
    ASSUME IndexInv, UNCHANGED <<files, index, loc>>
    PROVE  IndexInv'
  BY DEF IndexInv, LinksResolve, Unreadable, Entries

LEMMA ReconcileIndex ==
    ASSUME IndexInv, Reconcile
    PROVE  IndexInv'
<1>1. ASSUME NEW s \in Stacks, Begin(s) PROVE IndexInv'
  BY <1>1 DEF Begin, IndexInv, LinksResolve
<1>2. ASSUME NEW s \in Stacks, BeginGone(s) PROVE IndexInv'
  BY <1>2, IndexUntouched DEF BeginGone
<1>3. CASE Clean
  <2>1. loc'.pc \in {"index", "write"}
    BY <1>3 DEF Clean
  <2> QED
    BY <2>1 DEF IndexInv, LinksResolve
<1>4. CASE WriteFiles
  BY <1>4 DEF WriteFiles, IndexInv, LinksResolve
<1>5. CASE IndexFails
  \* What cannot be read is still there.
  <2>1. loc'.pc = "idle" /\ Unreadable' = Unreadable /\ Unreadable # {}
    BY <1>5 DEF IndexFails, ReturnError, IdleState, Unreadable, diskVars
  <2> QED
    BY <2>1 DEF IndexInv, LinksResolve
<1>6. CASE TruncateIndex
  BY <1>6 DEF TruncateIndex, IndexInv, LinksResolve
<1>7. CASE WriteIndex
  <2>1. index' = Entries' /\ loc'.pc = "idle"
    BY <1>7 DEF WriteIndex, Entries, IdleState
  <2> QED
    BY <2>1 DEF IndexInv, LinksResolve
<1> QED
  BY <1>1, <1>2, <1>3, <1>4, <1>5, <1>6, <1>7 DEF Reconcile

LEMMA NextIndex == IndexInv /\ [Next]_vars => IndexInv'
<1> SUFFICES ASSUME IndexInv, [Next]_vars PROVE IndexInv'
  OBVIOUS
<1>1. CASE Reconcile
  BY <1>1, ReconcileIndex
<1>2. CASE WriteIndexFails
  <2>1. index' = {} /\ loc'.pc = "idle"
    BY <1>2 DEF WriteIndexFails, ReturnError, IdleState, IndexInv, diskVars
  <2> QED
    BY <2>1 DEF IndexInv, LinksResolve
<1>3. CASE Restart
  BY <1>3 DEF Restart, IdleState, IndexInv, LinksResolve
<1>4. ASSUME NEW s \in Stacks,
             EditStack(s) \/ DeleteStack(s) \/ FinishDeletion(s) \/ DeliverEvent(s)
      PROVE  IndexInv'
  <2>1. UNCHANGED <<files, index, loc>>
    BY <1>4 DEF EditStack, DeleteStack, FinishDeletion, DeliverEvent, diskVars
  <2> QED
    BY <2>1, IndexUntouched
<1>5. CASE UNCHANGED vars
  BY <1>5, IndexUntouched DEF vars
<1> QED
  BY <1>1, <1>2, <1>3, <1>4, <1>5 DEF Next

\* Whatever Stacks come and go and whatever fails, between two reconciles the
\* index that is served names nothing that is not on disk, unless a meta.yaml
\* that cannot be read prevents a new index.
THEOREM LinksAlwaysResolve == Spec => []LinksResolve
<1>1. Init => IndexInv
  BY DEF Init, IndexInv, LinksResolve, IdleState
<1>2. IndexInv => LinksResolve
  BY DEF IndexInv
<1> QED
  BY <1>1, <1>2, NextIndex, PTL DEF Spec

-----------------------------------------------------------------------------
(* The registry at rest *)

\* No Stack waits, none is worked on, and the watch has nothing to tell.
AtRest == loc.pc = "idle" /\ queue = {} /\ synced = Stacks

\* The files agree with every Stack, and the index with the files, but for what
\* concerns Stacks that were gone before their deletion was handled.
Followed ==
    /\ \A s \in Stacks : FilesAgree(s) \/ s \in overtaken
    /\ index = Entries \/ overtaken # {}

\* An index that does not agree with the files has left a Stack in the queue.
RetryInv == loc.pc = "idle" => index = Entries \/ overtaken # {} \/ queue # {}

FilesOf(s) == {f \in files : f.stack = s}

\* Of a Stack that the worker has not got in its hands.
Left(s) == FilesAgree(s) \/ s \in overtaken

\* Of the one that it has, which is still as it was read.
Held(s) ==
    /\ loc.pc \in {"clean", "write"} => loc.read = cr[s] /\ cr[s].phase # "absent"
    /\ loc.pc = "write" => FilesOf(s) = {} /\ cr[s].phase = "live"
    /\ loc.pc \in {"index", "publish"} => FilesAgree(s)

\* 1. What the watch has told is in the cache.
\* 2. A Stack that is neither in the queue nor news is done with, or the worker
\*    is about to do what it asks for.
DoneInv(s) ==
    s \in synced =>
        /\ cache[s] = cr[s]
        /\ s \notin queue =>
              IF loc.pc = "idle" \/ loc.me # s THEN Left(s) ELSE Held(s)

FollowInv == RetryInv /\ \A s \in Stacks : DoneInv(s)

LEMMA InitFollow == Init => FollowInv
<1> SUFFICES ASSUME Init PROVE FollowInv
  OBVIOUS
<1>1. loc.pc = "idle" /\ index = Entries
  BY DEF Init, IdleState, Entries
<1>2. ASSUME NEW s \in Stacks PROVE cache[s] = cr[s] /\ FilesAgree(s)
  BY DEF Init, NoStack, FilesAgree, Wanted
<1> QED
  BY <1>1, <1>2 DEF FollowInv, RetryInv, DoneInv, Left

\* The index and the queue: an attempt that ends without a new index puts its
\* Stack back, and what is taken out of the queue without an attempt is noted.
LEMMA NextRetry ==
    ASSUME TypeOK, RetryInv, [Next]_vars
    PROVE  RetryInv'
<1>1. ASSUME NEW s \in Stacks, Begin(s) PROVE RetryInv'
  BY <1>1 DEF Begin, RetryInv
<1>2. ASSUME NEW s \in Stacks, BeginGone(s) PROVE RetryInv'
  BY <1>2 DEF BeginGone, RetryInv, Entries
<1>3. CASE Clean \/ WriteFiles \/ TruncateIndex
  <2>1. loc'.pc # "idle"
    BY <1>3 DEF Clean, WriteFiles, TruncateIndex, TypeOK, Local
  <2> QED
    BY <2>1 DEF RetryInv
<1>4. CASE IndexFails \/ WriteIndexFails
  BY <1>4 DEF IndexFails, WriteIndexFails, ReturnError, RetryInv
<1>5. CASE WriteIndex
  BY <1>5 DEF WriteIndex, RetryInv, Entries
<1>6. CASE Restart
  BY <1>6 DEF Restart, RetryInv, Entries
<1>7. ASSUME NEW s \in Stacks,
             EditStack(s) \/ DeleteStack(s) \/ FinishDeletion(s) \/ DeliverEvent(s)
      PROVE  RetryInv'
  <2>1. queue \subseteq queue' /\ UNCHANGED <<loc, diskVars>>
    BY <1>7 DEF EditStack, DeleteStack, FinishDeletion, DeliverEvent
  <2> QED
    BY <2>1 DEF RetryInv, Entries, diskVars
<1>8. CASE UNCHANGED vars
  BY <1>8 DEF vars, RetryInv, Entries
<1> QED
  BY <1>1, <1>2, <1>3, <1>4, <1>5, <1>6, <1>7, <1>8 DEF Next, Reconcile

\* Whoever edits or deletes another Stack leaves this one alone; an edit of this
\* one is news until the watch puts it into the queue.
LEMMA EnvironmentDone ==
    ASSUME TypeOK, NEW s \in Stacks, DoneInv(s), NEW o \in Stacks,
           EditStack(o) \/ DeleteStack(o) \/ FinishDeletion(o) \/ DeliverEvent(o)
    PROVE  DoneInv(s)'
<1>1. UNCHANGED <<diskVars, loc>>
  BY DEF EditStack, DeleteStack, FinishDeletion, DeliverEvent
<1>2. CASE \E r : Store(o, r) /\ UNCHANGED queue
  <2>1. /\ s \in synced' => s \in synced /\ s # o
        /\ cache' = cache /\ (s # o => cr'[s] = cr[s]) /\ queue' = queue
    BY <1>2 DEF Store, TypeOK
  <2> QED
    BY <1>1, <2>1 DEF DoneInv, Left, Held, FilesOf, FilesAgree, Wanted, diskVars
<1>3. CASE DeliverEvent(o)
  <2>1. /\ s = o => cache'[s] = cr'[s] /\ s \in queue'
        /\ s # o => cache'[s] = cache[s] /\ (s \in queue' <=> s \in queue)
                      /\ (s \in synced' <=> s \in synced)
        /\ UNCHANGED cr
    BY <1>3 DEF DeliverEvent, TypeOK
  <2> QED
    BY <1>1, <2>1 DEF DoneInv, Left, Held, FilesOf, FilesAgree, Wanted, diskVars
<1> QED
  BY <1>2, <1>3 DEF EditStack, DeleteStack, FinishDeletion

\* The worker takes up a Stack.
LEMMA BeginDone ==
    ASSUME TypeOK, NEW s \in Stacks, DoneInv(s), NEW o \in Stacks, Begin(o)
    PROVE  DoneInv(s)'
<1>1. /\ loc.pc = "idle" /\ cache[o].phase # "absent" /\ queue' = queue \ {o}
      /\ loc'.pc = "clean" /\ loc'.me = o /\ loc'.read = cache[o]
      /\ UNCHANGED <<crVars, diskVars>>
  BY DEF Begin
<1>2. CASE s = o
  BY <1>1, <1>2 DEF DoneInv, Held, crVars
<1>3. CASE s # o
  BY <1>1, <1>3 DEF DoneInv, Left, FilesAgree, Wanted, crVars, diskVars
<1> QED
  BY <1>2, <1>3

\* A Stack that is gone is not worked on; if it leaves anything, it is noted.
LEMMA BeginGoneDone ==
    ASSUME TypeOK, NEW s \in Stacks, DoneInv(s), NEW o \in Stacks, BeginGone(o)
    PROVE  DoneInv(s)'
<1>1. /\ loc.pc = "idle" /\ cache[o].phase = "absent" /\ queue' = queue \ {o}
      /\ overtaken \subseteq overtaken' /\ UNCHANGED <<crVars, files, loc>>
      /\ o \in overtaken' \/ \A f \in files : f.stack # o
  BY DEF BeginGone
<1>2. CASE s = o
  <2>1. s \in synced => Wanted(s) = {}
    BY <1>1, <1>2 DEF DoneInv, Wanted
  <2>2. s \in synced => FilesAgree(s)' \/ s \in overtaken'
    BY <1>1, <1>2, <2>1 DEF FilesAgree, Wanted, crVars
  <2> QED
    BY <1>1, <2>2 DEF DoneInv, Left, crVars
<1>3. CASE s # o
  BY <1>1, <1>3 DEF DoneInv, Left, FilesAgree, Wanted, crVars
<1> QED
  BY <1>2, <1>3

\* The files of the Stack that is worked on, and of no other, change.
LEMMA FilesDone ==
    ASSUME TypeOK, NEW s \in Stacks, DoneInv(s), Clean \/ WriteFiles
    PROVE  DoneInv(s)'
<1>1. /\ UNCHANGED <<crVars, queue>> /\ loc.pc # "idle"
      /\ loc'.pc # "idle" /\ loc'.me = loc.me /\ loc'.read = loc.read
  BY DEF Clean, WriteFiles, TypeOK, Local
<1>2. CASE loc.me # s
  <2>1. \A f : f.stack = s => (f \in files' <=> f \in files)
    BY <1>2 DEF Clean, WriteFiles
  <2>2. {f \in files' : f.stack = s} = {f \in files : f.stack = s}
    BY <2>1
  <2>3. s \in overtaken => s \in overtaken'
    BY <1>2 DEF Clean, WriteFiles
  <2> QED
    BY <1>1, <1>2, <2>2, <2>3 DEF DoneInv, Left, FilesAgree, Wanted, crVars
<1>3. ASSUME loc.me = s, s \in synced, s \notin queue
      PROVE  Held(s)'
  <2>1. Held(s)
    BY <1>1, <1>3 DEF DoneInv
  <2>2. CASE Clean
    <3>1. FilesOf(s)' = {} /\ {f \in files' : f.stack = s} = {}
      BY <1>3, <2>2 DEF Clean, FilesOf
    <3>2. /\ loc.read = cr[s] /\ cr[s].phase \in {"live", "deleting"} /\ cr' = cr
          /\ loc'.pc = IF loc.read.phase = "deleting" THEN "index" ELSE "write"
      BY <1>1, <2>1, <2>2 DEF Clean, Held, TypeOK, Local, Resource, crVars
    <3>3. cr[s].phase = "deleting" => FilesAgree(s)'
      BY <3>1, <3>2 DEF FilesAgree, Wanted
    <3> QED
      BY <1>1, <3>1, <3>2, <3>3 DEF Held
  <2>3. CASE WriteFiles
    <3>1. /\ loc.read = cr[s] /\ cr[s].phase = "live" /\ FilesOf(s) = {} /\ cr' = cr
          /\ loc'.pc = "index"
          /\ files' = files \cup {[stack |-> s, file |-> f] : f \in cr[s].held}
      BY <1>1, <1>3, <2>1, <2>3 DEF WriteFiles, Held, TypeOK, Local, crVars
    <3>2. {f \in files' : f.stack = s} = {[stack |-> s, file |-> f] : f \in cr[s].held}
      BY <3>1 DEF FilesOf
    <3>3. FilesAgree(s)'
      BY <3>1, <3>2 DEF FilesAgree, Wanted
    <3> QED
      BY <3>1, <3>3 DEF Held
  <2> QED
    BY <2>2, <2>3
<1>4. CASE loc.me = s
  BY <1>1, <1>3, <1>4 DEF DoneInv, crVars
<1> QED
  BY <1>2, <1>4

\* The index is made; if it cannot be, the Stack comes again.
LEMMA IndexDone ==
    ASSUME TypeOK, NEW s \in Stacks, DoneInv(s),
           IndexFails \/ TruncateIndex \/ WriteIndex \/ WriteIndexFails
    PROVE  DoneInv(s)'
<1>1. UNCHANGED <<crVars, files, overtaken>> /\ loc.pc \in {"index", "publish"}
  BY DEF IndexFails, TruncateIndex, WriteIndex, WriteIndexFails, diskVars
<1>2. FilesAgree(s)' = FilesAgree(s)
  BY <1>1 DEF FilesAgree, Wanted, crVars
<1>3. CASE TruncateIndex
  <2>1. loc'.pc = "publish" /\ loc'.me = loc.me /\ UNCHANGED queue
    BY <1>3 DEF TruncateIndex, TypeOK, Local
  <2> QED
    BY <1>1, <1>2, <2>1 DEF DoneInv, Left, Held, crVars
<1>4. CASE WriteIndex
  <2>1. loc'.pc = "idle" /\ UNCHANGED queue
    BY <1>4 DEF WriteIndex, IdleState
  <2> QED
    BY <1>1, <1>2, <2>1 DEF DoneInv, Left, Held, crVars
<1>5. CASE IndexFails \/ WriteIndexFails
  <2>1. loc'.pc = "idle" /\ queue' = queue \cup {loc.me}
    BY <1>5 DEF IndexFails, WriteIndexFails, ReturnError, IdleState
  <2> QED
    BY <1>1, <1>2, <2>1 DEF DoneInv, Left, crVars
<1> QED
  BY <1>3, <1>4, <1>5

\* After a restart nothing is on disk, and all Stacks that there are come anew.
LEMMA RestartDone ==
    ASSUME TypeOK, NEW s \in Stacks, Restart
    PROVE  DoneInv(s)'
<1>1. /\ cache' = cr /\ cr' = cr /\ files' = {} /\ loc'.pc = "idle"
      /\ queue' = {o \in Stacks : cr[o].phase # "absent"}
  BY DEF Restart, IdleState
<1>2. cr[s].phase = "absent" => FilesAgree(s)'
  BY <1>1 DEF FilesAgree, Wanted
<1> QED
  BY <1>1, <1>2 DEF DoneInv, Left

LEMMA NextFollow ==
    ASSUME TypeOK, FollowInv, [Next]_vars
    PROVE  FollowInv'
<1>1. ASSUME NEW s \in Stacks PROVE DoneInv(s)'
  <2>1. DoneInv(s)
    BY DEF FollowInv
  <2>2. CASE Reconcile
    BY <2>1, <2>2, BeginDone, BeginGoneDone, FilesDone, IndexDone DEF Reconcile
  <2>3. CASE WriteIndexFails \/ Restart
    BY <2>1, <2>3, IndexDone, RestartDone
  <2>4. ASSUME NEW o \in Stacks,
               EditStack(o) \/ DeleteStack(o) \/ FinishDeletion(o) \/ DeliverEvent(o)
        PROVE  DoneInv(s)'
    BY <2>1, <2>4, EnvironmentDone
  <2>5. CASE UNCHANGED vars
    BY <2>1, <2>5 DEF vars, DoneInv, Left, Held, FilesOf, FilesAgree, Wanted
  <2> QED
    BY <2>2, <2>3, <2>4, <2>5 DEF Next
<1> QED
  BY <1>1, NextRetry DEF FollowInv

\* When the worker has come to rest, what is on disk is what the Stacks ask for
\* and the index says so: no event, edit, failing write of the index, meta.yaml
\* that cannot be read, or restart is forgotten.  The Stacks of which that is
\* not said are those that were gone before the worker came to handle their
\* deletion.
THEOREM RestsFollowed == Spec => [](AtRest => Followed)
<1>1. TypeOK /\ FollowInv /\ [Next]_vars => FollowInv'
  BY NextFollow
<1>2. FollowInv => (AtRest => Followed)
  <2> SUFFICES ASSUME FollowInv, AtRest PROVE Followed
    OBVIOUS
  <2>1. ASSUME NEW s \in Stacks PROVE Left(s)
    BY DEF FollowInv, DoneInv, AtRest
  <2>2. index = Entries \/ overtaken # {}
    BY DEF FollowInv, RetryInv, AtRest
  <2> QED
    BY <2>1, <2>2 DEF Followed, Left
<1> QED
  BY <1>1, <1>2, InitFollow, TypeCorrect, PTL DEF Spec
=============================================================================
