---------------------------- MODULE DevfileRegistry ----------------------------
(****************************************************************************)
(* The devfile registry: a controller that keeps, for every version of a    *)
(* Stack that comes with a devfile, two files in /devfiles, and next to     *)
(* them an index of all of them, which an HTTP server hands out as it is.   *)
(* The files are in the container: a restart starts from nothing.           *)
(****************************************************************************)
EXTENDS Integers, FiniteSets

CONSTANTS
    Stacks,
    Versions,
    Devfiles,     \* contents of a devfile
    Metas,        \* contents of a meta.yaml
    BadMetas,     \* those that are not yaml
    MaxEdits,     \* how often users create, edit or delete a Stack
    MaxFaults     \* restarts and failing writes of the index

ASSUME RegistryAssumption ==
    /\ Stacks # {} /\ BadMetas \subseteq Metas
    /\ MaxEdits \in Nat /\ MaxFaults \in Nat

VARIABLES
    cr,         \* the Stacks, as the API server stores them
    cache,      \* the same in the informer cache
    synced,     \* the Stacks whose cached version is the latest
    queue,      \* the Stacks in the workqueue
    files,      \* the versions on disk
    index,      \* the entries of index.json
    loc,        \* the local state of the worker
    overtaken,  \* the Stacks that were gone before their deletion was handled
    edits, faults

vars == <<cr, cache, synced, queue, files, index, loc, overtaken, edits, faults>>
crVars == <<cr, cache, synced>>
diskVars == <<files, index, overtaken>>

\* What a Stack asks the registry to hold; versions that lack either of the
\* two files are not held and left out here.
File == [version : Versions, devfile : Devfiles, meta : Metas]
Resource == [phase : {"absent", "live", "deleting"}, held : SUBSET File]

NoStack == [phase |-> "absent", held |-> {}]

StoredFile == [stack : Stacks, file : File]

\* types.MetaIndex: what meta.yaml says, and the path of the devfile.
IndexEntry == [stack : Stacks, version : Versions, meta : Metas]

Local == [pc : {"idle", "clean", "write", "index", "publish"}, me : Stacks, read : Resource]

IdleState == [pc |-> "idle", me |-> CHOOSE s \in Stacks : TRUE, read |-> NoStack]

Init ==
    /\ cr = [s \in Stacks |-> NoStack]
    /\ cache = cr /\ synced = Stacks /\ queue = {}
    /\ files = {} /\ index = {} /\ overtaken = {}
    /\ loc = IdleState
    /\ edits = 0 /\ faults = 0

-----------------------------------------------------------------------------
(* Users, the stack controller, the watch *)

Store(s, r) ==
    /\ cr' = [cr EXCEPT ![s] = r]
    /\ synced' = synced \ {s}
    /\ UNCHANGED cache

\* Spec.versions has one entry per version.
EditStack(s) ==
    /\ edits < MaxEdits
    /\ cr[s].phase # "deleting"
    /\ \E held \in SUBSET File :
         /\ \A f, g \in held : f.version = g.version => f = g
         /\ Store(s, [phase |-> "live", held |-> held])
    /\ edits' = edits + 1
    /\ UNCHANGED <<queue, diskVars, loc, faults>>

\* The stack controller's finalizer holds the Stack for a while.
DeleteStack(s) ==
    /\ edits < MaxEdits
    /\ cr[s].phase = "live"
    /\ Store(s, [cr[s] EXCEPT !.phase = "deleting"])
    /\ edits' = edits + 1
    /\ UNCHANGED <<queue, diskVars, loc, faults>>

FinishDeletion(s) ==
    /\ cr[s].phase = "deleting"
    /\ Store(s, NoStack)
    /\ UNCHANGED <<queue, diskVars, loc, edits, faults>>

DeliverEvent(s) ==
    /\ s \notin synced
    /\ cache' = [cache EXCEPT ![s] = cr[s]]
    /\ synced' = synced \cup {s}
    /\ queue' = queue \cup {s}
    /\ UNCHANGED <<cr, diskVars, loc, edits, faults>>

-----------------------------------------------------------------------------
(* Reconcile *)

\* (A variant with a fault: an error ends the matter.)
ReturnErrorForGood == loc' = IdleState /\ UNCHANGED queue

\* An error puts the Stack back into the queue.
ReturnError == loc' = IdleState /\ queue' = queue \cup {loc.me}

\* (A variant with a fault: an entry holds the whole file instead of its meta.yaml.)
EntriesWhole == {[stack |-> f.stack, version |-> f.file.version, meta |-> f.file] : f \in files}

\* genIndex
Entries ==
    {[stack |-> f.stack, version |-> f.file.version, meta |-> f.file.meta] : f \in files}

Begin(s) ==
    /\ loc.pc = "idle" /\ s \in queue
    /\ cache[s].phase # "absent"
    /\ queue' = queue \ {s}
    /\ loc' = [pc |-> "clean", me |-> s, read |-> cache[s]]
    /\ UNCHANGED <<crVars, diskVars, edits, faults>>

\* There is no such Stack any more: whatever there is of it on disk stays, and
\* so does an index that an earlier attempt has failed to write.
BeginGone(s) ==
    /\ loc.pc = "idle" /\ s \in queue
    /\ cache[s].phase = "absent"
    /\ queue' = queue \ {s}
    /\ overtaken' = IF index # Entries \/ \E f \in files : f.stack = s THEN overtaken \cup {s} ELSE overtaken
    /\ UNCHANGED <<crVars, files, index, loc, edits, faults>>

\* (A variant with a fault: a deleted Stack is not taken out of the index.)
CleanWithoutIndex ==
    /\ loc.pc = "clean"
    /\ files' = {f \in files : f.stack # loc.me}
    /\ overtaken' = overtaken \ {loc.me}
    /\ loc' = IF loc.read.phase = "deleting" THEN IdleState ELSE [loc EXCEPT !.pc = "write"]
    /\ UNCHANGED <<crVars, queue, index, edits, faults>>

\* RemoveAll: versions may have gone, or the Stack is being deleted.
Clean ==
    /\ loc.pc = "clean"
    /\ files' = {f \in files : f.stack # loc.me}
    /\ overtaken' = overtaken \ {loc.me}
    /\ loc' = [loc EXCEPT !.pc = IF loc.read.phase = "deleting" THEN "index" ELSE "write"]
    /\ UNCHANGED <<crVars, queue, index, edits, faults>>

WriteFiles ==
    /\ loc.pc = "write"
    /\ files' = files \cup {[stack |-> loc.me, file |-> f] : f \in loc.read.held}
    /\ loc' = [loc EXCEPT !.pc = "index"]
    /\ UNCHANGED <<crVars, queue, index, overtaken, edits, faults>>

\* What genIndex cannot read.
Unreadable == {f \in files : f.file.meta \in BadMetas}

\* One meta.yaml that cannot be read, of whatever Stack, and there is no new
\* index.
IndexFails ==
    /\ loc.pc = "index"
    /\ Unreadable # {}
    /\ ReturnError
    /\ UNCHANGED <<crVars, diskVars, edits, faults>>

\* The index is truncated first.
TruncateIndex ==
    /\ loc.pc = "index"
    /\ Unreadable = {}
    /\ index' = {}
    /\ loc' = [loc EXCEPT !.pc = "publish"]
    /\ UNCHANGED <<crVars, queue, files, overtaken, edits, faults>>

WriteIndex ==
    /\ loc.pc = "publish"
    /\ index' = Entries
    /\ loc' = IdleState
    /\ UNCHANGED <<crVars, queue, files, overtaken, edits, faults>>

WriteIndexFails ==
    /\ loc.pc = "publish"
    /\ faults < MaxFaults
    /\ faults' = faults + 1
    /\ ReturnError
    /\ UNCHANGED <<crVars, diskVars, edits>>

\* All Stacks are listed anew, and each is an event.
Restart ==
    /\ faults < MaxFaults
    /\ faults' = faults + 1
    /\ cache' = cr /\ synced' = Stacks
    /\ queue' = {s \in Stacks : cr[s].phase # "absent"}
    /\ files' = {} /\ index' = {} /\ overtaken' = {}
    /\ loc' = IdleState
    /\ UNCHANGED <<cr, edits>>

-----------------------------------------------------------------------------

Reconcile ==
    \/ \E s \in Stacks : Begin(s) \/ BeginGone(s)
    \/ Clean \/ WriteFiles \/ IndexFails \/ TruncateIndex \/ WriteIndex

Next ==
    \/ Reconcile \/ WriteIndexFails \/ Restart
    \/ \E s \in Stacks :
         EditStack(s) \/ DeleteStack(s) \/ FinishDeletion(s) \/ DeliverEvent(s)

\* The worker goes on, the watch delivers, the stack controller completes
\* deletions; the queue serves a Stack that waits again and again.
Fairness ==
    /\ WF_vars(Reconcile)
    /\ \A s \in Stacks :
         WF_vars(DeliverEvent(s)) /\ WF_vars(FinishDeletion(s))
            /\ SF_vars(Begin(s)) /\ SF_vars(BeginGone(s))

Spec == Init /\ [][Next]_vars /\ Fairness

-----------------------------------------------------------------------------
(* Properties *)

TypeOK ==
    /\ cr \in [Stacks -> Resource] /\ cache \in [Stacks -> Resource]
    /\ synced \subseteq Stacks /\ queue \subseteq Stacks /\ overtaken \subseteq Stacks
    /\ files \subseteq StoredFile /\ index \subseteq IndexEntry
    /\ loc \in Local
    /\ edits \in 0..MaxEdits /\ faults \in 0..MaxFaults

\* Between two reconciles every entry of the index that is served leads to a
\* devfile that is on disk and says what its meta.yaml says, unless one that
\* cannot be read keeps genIndex from making a new one.
LinksResolve == loc.pc = "idle" /\ Unreadable = {} => index \subseteq Entries

\* What the registry should have of s.
Wanted(s) == IF cr[s].phase = "live" THEN cr[s].held ELSE {}

FilesAgree(s) ==
    {f \in files : f.stack = s} = {[stack |-> s, file |-> f] : f \in Wanted(s)}

\* When no Stack brings a meta.yaml that cannot be read, the files come to agree
\* with every Stack and the index with the files, and they stay so, across
\* restarts, failing writes and deletions; all but what concerns Stacks that
\* were gone before their deletion was handled.
FollowsStacks ==
    <>[](Unreadable = {}) =>
        /\ \A s \in Stacks : <>[](FilesAgree(s) \/ s \in overtaken)
        /\ <>[](index = Entries \/ overtaken # {})
=============================================================================
