---------------------------- MODULE ReportServer ----------------------------
(***************************************************************************)
(* The report API.  The handler of a report reads the profile from the     *)
(* manager's cache, updates the node's entry and writes the status,        *)
(* retrying on conflict up to MaxTries times.                              *)
(*                                                                         *)
(* One attempt is one step, taken when the server decides the Update: it   *)
(* succeeds exactly when no write of the profile is newer than the copy    *)
(* read, and an attempt that fails has no effect but to be counted.        *)
(***************************************************************************)
EXTENDS Cluster

\* The report of a pod of another config replaces a success recorded for
\* what the DaemonSet rolls out.
TakesBack(r) ==
    LET entry == profile.status.nodeStatuses[r.node]
    IN  /\ entry.phase = "Applied"
        /\ entry.appliedHash = daemonSet
        /\ r.hash # daemonSet

\* The profile is gone: acknowledge and ignore.
IgnoreReport(r) ==
    /\ cache = None \/ profile = None
    /\ reports' = reports \ {r}
    /\ UNCHANGED <<profileVars, queued, reconcileVars, ownedVars, nodeVars,
                   pods, hostVars, envVars>>

\* The Update of the status is accepted.
RecordStatus(r, status) ==
    /\ cache # None
    /\ UpToDate(cacheFresh)
    /\ WriteProfile([profile EXCEPT !.status = status])
    /\ reports' = reports \ {r}
    /\ mishap' = (mishap \/ TakesBack(r))
    /\ UNCHANGED <<queued, pc, snap, selected, ownedVars, nodeVars, pods,
                   hostVars, env>>

\* The handler works on a deep copy of the cached profile.
RecordReport(r) == RecordStatus(r, Recorded(cache.status, r))
RecordScriptReport(r) == RecordStatus(r, ScriptRecorded(cache.status, r))

\* Mutant: one attempt too many.
retriesLeftOffByOne(tries) == tries + 1 <= MaxTries

\* retry.DefaultRetry
retriesLeft(tries) == tries + 1 < MaxTries

\* The cache is behind: try again, or answer 500 after the last attempt.
ConflictOnReport(r) ==
    /\ cache # None
    /\ profile # None
    /\ ~UpToDate(cacheFresh)
    /\ IF retriesLeft(r.tries)
       THEN /\ reports' = (reports \ {r}) \cup {[r EXCEPT !.tries = @ + 1]}
            /\ UNCHANGED mishap
       ELSE /\ reports' = reports \ {r}
            /\ mishap' = TRUE
    /\ UNCHANGED <<profileVars, queued, reconcileVars, ownedVars, nodeVars,
                   pods, hostVars, env>>

applyReport(r) == IgnoreReport(r) \/ RecordReport(r) \/ ConflictOnReport(r)
applyScriptReport(r) == IgnoreReport(r) \/ RecordScriptReport(r) \/ ConflictOnReport(r)
=============================================================================
