-------------------------- MODULE PipelineUseHistory --------------------------
(****************************************************************************)
(* The pipelines of one component over time: users edit the spec, and every *)
(* reconcile writes a status with the pipelines of the spec it has read.    *)
(* All pairs of a spec and a status are reached, for the status may be that *)
(* of any earlier spec.                                                     *)
(****************************************************************************)
EXTENDS PipelineUse

VARIABLES specUses,    \* the pipeline entries of the spec
          statusUses   \* those of the status

usesVars == <<specUses, statusUses>>

UsesInit == specUses = {} /\ statusUses = {}

EditUses == \E uses \in SUBSET Use : specUses' = uses /\ UNCHANGED statusUses

\* The new status lists the pipelines of the spec, each with its map entry.
RecordUses ==
    /\ statusUses' = {u \in specUses : u.key \in UseMapKeys(specUses, statusUses)}
    /\ UNCHANGED specUses

UsesNext == EditUses \/ RecordUses

UsesSpec == UsesInit /\ [][UsesNext]_usesVars

\* A zip that any version of the spec uses is never counted as unused: its
\* assets are not in the loop that deletes (the useCount arithmetic of
\* ActivatePipelines never goes below one for it).
UsedKeysAreRetained == KeysOf(specUses) \subseteq RetainedKeys(specUses, statusUses)

\* A zip that no version of the spec uses any more is counted as unused, so
\* its assets are deleted, as long as no version of the status listed it twice.
UnusedKeysAreDropped ==
    NoDuplicates(statusUses) =>
        KeysOf(statusUses) \ KeysOf(specUses) \subseteq DroppedKeys(specUses, statusUses)
=============================================================================
