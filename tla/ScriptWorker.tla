---------------------------- MODULE ScriptWorker ----------------------------
(***************************************************************************)
(* The worker in script mode: split the mounted file into scripts, run     *)
(* them one after the other, send one report, wait for SIGTERM.  A script  *)
(* that fails is noted and the rest still run.  A container that dies      *)
(* between two scripts starts again from the first.                        *)
(*                                                                         *)
(* Loading, the hash check and the report are the code of apply mode.  For *)
(* a ScriptProfile, live is the file a node has last run to the end, and   *)
(* written the hashes of those it has run without a failure.               *)
(***************************************************************************)
EXTENDS Worker, ScriptBlocks

VARIABLES
    ran,        \* scripts run by the process in each pod, and if one failed
    completed   \* lists of scripts a process ran without failure on each node

scriptVars == <<ran, completed>>

Fresh == [log |-> <<>>, failed |-> FALSE]

Running(p) == ran[p.node][p.id]

\* Mutant: a process goes on where the one before it stopped.
resumedProcess(p) == Running(p)

\* A process remembers nothing of the one before it.
newProcess(p) == Fresh

\* LoadScripts and verifyHash.
LoadScripts(p, content) ==
    /\ Load(p, content)
    /\ ran' = [ran EXCEPT ![p.node][p.id] = newProcess(p)]
    /\ UNCHANGED completed

\* Mutant: the last script is left out.
scriptsLeftButOne(p) == Len(Running(p).log) + 1 < Len(ParseScripts(p.content))

scriptsLeft(p) == Len(Running(p).log) < Len(ParseScripts(p.content))

\* The next script exits with zero, or does not.
RunScript(p, ok) ==
    /\ p.pc = "apply"
    /\ scriptsLeft(p)
    /\ IF ok THEN UNCHANGED envVars ELSE Env("fail") /\ mishap' = TRUE
    /\ LET next == ParseScripts(p.content)[Len(Running(p).log) + 1]
       IN  ran' = [ran EXCEPT ![p.node][p.id] =
                     [log |-> Append(@.log, next), failed |-> @.failed \/ ~ok]]
    /\ UNCHANGED <<profileVars, queued, reconcileVars, ownedVars, nodeVars, pods,
                   hostVars, reports, completed>>

\* RunScripts returns.
ScriptsDone(p) ==
    /\ p.pc = "apply"
    /\ ~scriptsLeft(p)
    /\ LET r == Running(p) IN
       /\ Replace(p, [p EXCEPT !.pc = IF resultOK(r.failed) THEN "sendOk" ELSE "sendFailed"])
       /\ live' = [live EXCEPT ![p.node] = p.content]
       /\ written' = IF r.failed THEN written
                     ELSE [written EXCEPT ![p.node] = @ \cup {HashBytes(p.content)}]
       /\ completed' = IF r.failed THEN completed
                       ELSE [completed EXCEPT ![p.node] = @ \cup {r.log}]
    /\ ran' = [ran EXCEPT ![p.node][p.id] = Fresh]
    /\ UNCHANGED <<profileVars, queued, reconcileVars, ownedVars, nodeVars,
                   reports, envVars>>

ScriptWorkerNext(p) ==
    \/ \E c \in rendered : LoadScripts(p, c)
    \/ \E c \in rendered : LoadRefused(p, c) /\ UNCHANGED scriptVars
    \/ \E ok \in BOOLEAN : RunScript(p, ok)
    \/ ScriptsDone(p)
    \/ sendReport(p) /\ UNCHANGED scriptVars
=============================================================================
