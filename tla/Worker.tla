------------------------------- MODULE Worker -------------------------------
(***************************************************************************)
(* The worker binary in a pod of the DaemonSet or the CronJob: load the    *)
(* mounted config, refuse it if its hash is not CONFIG_HASH, write it to   *)
(* the kernel, send one report, wait for SIGTERM.  Neither pod template of *)
(* a SysctlProfile sets MODE, so both run in the default mode, "apply".    *)
(*                                                                         *)
(* The writes of one Apply are one step: live is the whole config, or None *)
(* when a write failed on the way.                                         *)
(***************************************************************************)
EXTENDS Cluster

Replace(p, q) == pods' = (pods \ {p}) \cup {q}

\* Mutant: the hash of the mounted config is not checked.
verifyNothing(content, hash) == TRUE

verifyHash(content, hash) == HashBytes(content) = hash

\* Mutant: a failed write is reported as a success.
resultAlwaysOK(failed) == TRUE

\* Result.OK
resultOK(failed) == ~failed

\* The kubelet's copy of the volume may lag behind the ConfigMap: any content
\* there has been may be the one that is mounted.
Load(p, content) ==
    /\ p.pc \in {"load", "crashed"}
    /\ verifyHash(content, p.hash)
    /\ Replace(p, [p EXCEPT !.pc = "apply", !.content = content])
    /\ UNCHANGED <<profileVars, queued, reconcileVars, ownedVars, nodeVars,
                   hostVars, reports, envVars>>

\* os.Exit(1): the container is restarted.
LoadRefused(p, content) ==
    /\ p.pc = "load"
    /\ ~verifyHash(content, p.hash)
    /\ Replace(p, [p EXCEPT !.pc = "crashed"])
    /\ UNCHANGED <<profileVars, queued, reconcileVars, ownedVars, nodeVars,
                   hostVars, reports, envVars>>

\* Every key is written.
Apply(p) ==
    /\ p.pc = "apply"
    /\ live' = [live EXCEPT ![p.node] = p.content]
    /\ written' = [written EXCEPT ![p.node] = @ \cup {HashBytes(p.content)}]
    /\ Replace(p, [p EXCEPT !.pc = IF resultOK(FALSE) THEN "sendOk" ELSE "sendFailed"])
    /\ UNCHANGED <<profileVars, queued, reconcileVars, ownedVars, nodeVars,
                   reports, envVars>>

\* Some key cannot be written; the others are.
ApplyFails(p) ==
    /\ p.pc = "apply"
    /\ Env("fail")
    /\ mishap' = TRUE
    /\ live' = [live EXCEPT ![p.node] = None]
    /\ Replace(p, [p EXCEPT !.pc = IF resultOK(TRUE) THEN "sendOk" ELSE "sendFailed"])
    /\ UNCHANGED <<profileVars, queued, reconcileVars, ownedVars, nodeVars,
                   written, reports>>

\* The report carries the hash of what was applied.
sendReport(p) ==
    LET r == [node |-> p.node, hash |-> HashBytes(p.content),
              success |-> p.pc = "sendOk", tries |-> 0]
    IN  /\ p.pc \in {"sendOk", "sendFailed"}
        /\ r \notin reports      \* bound: one report of a kind at a time
        /\ reports' = reports \cup {r}
        /\ Replace(p, [p EXCEPT !.pc = "wait"])
        /\ UNCHANGED <<profileVars, queued, reconcileVars, ownedVars, nodeVars,
                       hostVars, envVars>>

\* The steps a running worker takes unless it is stopped.
WorkerStep(p) ==
    \/ /\ configMap[p.volume] # None
       /\ Load(p, configMap[p.volume])
    \/ Apply(p)
    \/ sendReport(p)

WorkerNext(p) ==
    \/ \E c \in rendered : Load(p, c) \/ LoadRefused(p, c)
    \/ Apply(p)
    \/ ApplyFails(p)
    \/ sendReport(p)
=============================================================================
