----------------------------- MODULE SysctlApply -----------------------------
(***************************************************************************)
(* Apply and Check of the worker, key by key, on the kernel of one node.   *)
(* Several workers may be at it at once (the pod of a rollout and one of   *)
(* the rollout before it, or a checker), interfaces come and go, and       *)
(* others write the same keys.  A container that dies is a worker that     *)
(* takes no more steps.                                                    *)
(*                                                                         *)
(* A key is a base and an interface, "none" for a key that is not per      *)
(* interface.  The interface of a name may also be the placeholder.  A     *)
(* value is a sequence of words.                                           *)
(***************************************************************************)
EXTENDS Naturals, SequencesExt

CONSTANTS
    Workers,        \* worker processes
    Files,          \* parsed drop-in files: sequences of [base, iface, value]
    Ifaces,         \* network interfaces a node may have
    Dotted,         \* those with a dot in the name, such as VLANs
    IfaceBases,     \* bases of keys that exist once per interface
    PlainBases,     \* bases of other keys
    Values,         \* values of keys
    Default,        \* a key's value before anyone writes it
    MaxEnv          \* bound on the moves of others

ASSUME KernelAssumption ==
    /\ Dotted \subseteq Ifaces
    /\ IsFiniteSet(Ifaces)
    /\ Default \in Values
    /\ MaxEnv \in Nat

\* Entries of conf/ that are no interface to expand to.
Aggregates == {"all", "default", "lo"}
Key == (IfaceBases \X (Ifaces \cup Aggregates)) \cup (PlainBases \X {"none"})

\* Nothing else has the name of an interface.
ASSUME NamesAssumption == Ifaces \cap (Aggregates \cup {"none", "{iface}"}) = {}

\* An entry names a key, or the keys of a base on every interface.
ASSUME FilesAssumption ==
    \A file \in Files :
        /\ file \in Seq([base : IfaceBases \cup PlainBases,
                        iface : Ifaces \cup Aggregates \cup {"none", "{iface}"},
                        value : Values])
        /\ \A n \in DOMAIN file :
            IF file[n].iface = "{iface}" THEN file[n].base \in IfaceBases
                                         ELSE <<file[n].base, file[n].iface>> \in Key

VARIABLES
    present,    \* interfaces the node has
    kernel,     \* value of each key
    worker,     \* state of each worker process
    disturbed,  \* keys others have touched since a worker started
    env         \* moves of others made

vars == <<present, kernel, worker, disturbed, env>>

Mode == {"apply", "check"}
Worker ==
    [pc      : {"idle", "run", "done"},
     mode    : Mode,
     file    : Files \cup {<<>>},
     entry   : Nat,         \* number of the entry it is at
     todo    : Seq(Key),    \* keys of that entry still to write or read
     failed  : SUBSET Key,
     drifted : SUBSET Key]

Idle == [pc |-> "idle", mode |-> "apply", file |-> <<>>, entry |-> 0,
         todo |-> <<>>, failed |-> {}, drifted |-> {}]

Init ==
    /\ present \in SUBSET Ifaces
    /\ kernel = [key \in Key |-> Default]
    /\ worker = [w \in Workers |-> Idle]
    /\ disturbed = [w \in Workers |-> {}]
    /\ env = 0

----------------------------------------------------------------------------
\* The kernel and others.

Env ==
    /\ env < MaxEnv
    /\ env' = env + 1

\* Others touch keys; a worker that has not started need not know.
Touch(keys, others) ==
    disturbed' = [w \in Workers |->
                    IF w \in others /\ worker[w].pc # "idle"
                    THEN disturbed[w] \cup keys ELSE disturbed[w]]

\* An interface appears, with default values, or disappears.
Hotplug(i) ==
    LET keys == {key \in Key : key[2] = i}
    IN  /\ Env
        /\ present' = IF i \in present THEN present \ {i} ELSE present \cup {i}
        /\ kernel' = [key \in Key |-> IF key \in keys THEN Default ELSE kernel[key]]
        /\ Touch(keys, Workers)
        /\ UNCHANGED worker

\* An administrator or another program changes a key.
Drift(key, value) ==
    /\ Env
    /\ value # kernel[key]
    /\ key[2] \in Ifaces => key[2] \in present
    /\ kernel' = [kernel EXCEPT ![key] = value]
    /\ Touch({key}, Workers)
    /\ UNCHANGED <<present, worker>>

\* A dotted key names a file: a dot in the name of an interface leads astray.
Reachable(key) == key[2] \in Ifaces => key[2] \in present \ Dotted

\* The text of a value, as a profile has it and as /proc/sys shows it.
AsWritten(value) == IF Len(value) > 1 THEN <<value, "blanks">> ELSE <<value, "">>
AsShown(value) == IF Len(value) > 1 THEN <<value, "tabs">> ELSE <<value, "">>

----------------------------------------------------------------------------
\* The worker.

\* Mutant: the aggregate entries of conf/ are taken for interfaces.
skipNothing(dir) == dir

skipAggregates(dir) == dir \ Aggregates

\* Mutant: the placeholder stays as it is.
expandNothing(e) == <<<<e.base, e.iface>>>>

\* The keys of an entry as the node is now; none if there is no interface,
\* or no conf/ directory to read.
expand(e) ==
    IF e.iface = "{iface}"
    THEN SetToSeq({<<e.base, i>> : i \in skipAggregates(present \cup Aggregates)})
    ELSE <<<<e.base, e.iface>>>>

\* A worker that has loaded its file starts, with nothing written or read.
Start(w, mode, file) ==
    /\ worker[w].pc = "idle"
    /\ worker' = [worker EXCEPT ![w] = [Idle EXCEPT !.pc = "run", !.mode = mode, !.file = file]]
    /\ disturbed' = [disturbed EXCEPT ![w] = {}]
    /\ UNCHANGED <<present, kernel, env>>

\* The next entry is expanded, or there is none.
NextEntry(w) ==
    LET me == worker[w]
        next == me.entry + 1
    IN  /\ me.pc = "run"
        /\ me.todo = <<>>
        /\ worker' = [worker EXCEPT ![w] =
                IF next > Len(me.file)
                THEN [me EXCEPT !.pc = "done"]
                ELSE [me EXCEPT !.entry = next, !.todo = expand(me.file[next])]]
        /\ UNCHANGED <<present, kernel, disturbed, env>>

AtKey(w, mode) ==
    worker[w].pc = "run" /\ worker[w].mode = mode /\ worker[w].todo # <<>>

Wanted(w) == worker[w].file[worker[w].entry].value

\* Mutant: an error of sysctl -w is not noted.
failedForgotten(failed, key) == failed

noteFailed(failed, key) == failed \cup {key}

\* sysctl -w succeeds.
WriteKey(w) ==
    LET key == Head(worker[w].todo)
    IN  /\ AtKey(w, "apply")
        /\ Reachable(key)
        /\ kernel' = [kernel EXCEPT ![key] = Wanted(w)]
        /\ worker' = [worker EXCEPT ![w].todo = Tail(@)]
        /\ Touch({key}, Workers \ {w})
        /\ UNCHANGED <<present, env>>

\* sysctl -w fails: no such key, or the kernel refuses.
WriteFails(w) ==
    LET key == Head(worker[w].todo)
    IN  /\ AtKey(w, "apply")
        /\ IF Reachable(key) THEN Env ELSE UNCHANGED env
        /\ worker' = [worker EXCEPT ![w].todo = Tail(@),
                                    ![w].failed = noteFailed(@, key)]
        /\ UNCHANGED <<present, kernel, disturbed>>

\* Mutant: any value that can be read is taken to be in spec.
anyValue(live, wanted) == TRUE

\* Mutant: the newline at the end of the file is not trimmed.
untrimmed(live, wanted) == FALSE

inSpec(live, wanted) == AsShown(live) = AsWritten(wanted)

ReadKey(w) ==
    LET key == Head(worker[w].todo)
        fits == Reachable(key) => inSpec(kernel[key], Wanted(w))
    IN  /\ AtKey(w, "check")
        /\ worker' = [worker EXCEPT
                ![w].todo    = Tail(@),
                ![w].failed  = IF Reachable(key) THEN @ ELSE noteFailed(@, key),
                ![w].drifted = IF fits THEN @ ELSE @ \cup {key}]
        /\ UNCHANGED <<present, kernel, disturbed, env>>

\* Result.OK
OK(w) == worker[w].failed = {} /\ worker[w].drifted = {}

Next ==
    \/ \E i \in Ifaces : Hotplug(i)
    \/ \E key \in Key, value \in Values : Drift(key, value)
    \/ \E w \in Workers :
        \/ \E mode \in Mode, file \in Files : Start(w, mode, file)
        \/ NextEntry(w)
        \/ WriteKey(w)
        \/ WriteFails(w)
        \/ ReadKey(w)

Spec == Init /\ [][Next]_vars

----------------------------------------------------------------------------
\* Properties.

\* The kernel, the workers and their progress have their types.
TypeOK ==
    /\ present \subseteq Ifaces
    /\ kernel \in [Key -> Values]
    /\ worker \in [Workers -> Worker]
    /\ \A w \in Workers : worker[w].entry <= Len(worker[w].file)
    /\ disturbed \in [Workers -> SUBSET Key]
    /\ env \in 0 .. MaxEnv

\* The entries of a file that are about a key.
About(file, key) ==
    {n \in DOMAIN file :
        /\ file[n].base = key[1]
        /\ \/ file[n].iface = key[2]
           \/ file[n].iface = "{iface}" /\ key[2] \in Ifaces}

\* The keys of the file that the node has and only this worker has touched
\* since it started.
Undisturbed(w) ==
    {key \in Key \ disturbed[w] :
        /\ About(worker[w].file, key) # {}
        /\ key[2] \in Ifaces => key[2] \in present}

Finished(w, mode) == worker[w].pc = "done" /\ worker[w].mode = mode

\* After a successful Apply every key of the file that nobody else has
\* touched since it began, on every interface that has been there all along,
\* has the value of the last entry about it.
ApplySound ==
    \A w \in Workers : Finished(w, "apply") /\ OK(w) =>
        \A key \in Undisturbed(w) :
            \E n \in About(worker[w].file, key) :
                /\ \A m \in About(worker[w].file, key) : m <= n
                /\ kernel[key] = worker[w].file[n].value

\* A successful Check vouches for every entry about such a key.  Two
\* appliers that leave a mixture of their files never pass it.
CheckSound ==
    \A w \in Workers : Finished(w, "check") /\ OK(w) =>
        \A key \in Undisturbed(w) : \A n \in About(worker[w].file, key) :
            kernel[key] = worker[w].file[n].value

\* Every key reported has another value than some entry wants, or was touched
\* meanwhile.
DriftedDiffer(w) ==
    \A key \in worker[w].drifted :
        \/ key \in disturbed[w]
        \/ \E n \in About(worker[w].file, key) : kernel[key] # worker[w].file[n].value

\* What Check reports as drift is one, for values of one word.
DriftIsReal ==
    \A w \in Workers :
        Finished(w, "check")
        /\ (\A n \in DOMAIN worker[w].file : Len(worker[w].file[n].value) = 1) =>
            DriftedDiffer(w)

\* The worker that writes an aggregate key, which the kernel may pass on to
\* every interface, is at an entry that names it.
AggregatesOnlyByName ==
    [][\A key \in Key : key[2] \in Aggregates /\ kernel'[key] # kernel[key] /\ env' = env =>
          \E w \in Workers :
             /\ worker'[w] # worker[w]
             /\ AtKey(w, "apply")
             /\ worker[w].entry \in DOMAIN worker[w].file
             /\ worker[w].file[worker[w].entry].iface = key[2]]_vars
=============================================================================
