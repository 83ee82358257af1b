-------------------------- MODULE SysctlApplyProofs --------------------------
(***************************************************************************)
(* Proofs about SysctlApply, for any number of workers, any files, any     *)
(* interfaces and any number of moves of others.                           *)
(*                                                                         *)
(* The invariant says what a worker has achieved so far: for each key that *)
(* nobody else has touched, what the entries it has passed left in the     *)
(* kernel, or found there.                                                 *)
(***************************************************************************)
EXTENDS SysctlApply, FiniteSetTheorems, TLAPS

----------------------------------------------------------------------------
\* The inductive invariant, worker by worker.

\* The keys a worker has yet to write or read are keys of its entry.
TodoIsAbout(w) ==
    \A i \in DOMAIN worker[w].todo :
        worker[w].entry \in About(worker[w].file, worker[w].todo[i])

\* A worker is done at the end of its file.
DoneAtEnd(w) ==
    worker[w].pc = "done" =>
        worker[w].todo = <<>> /\ worker[w].entry = Len(worker[w].file)

\* Keys the node has and only this worker has touched since it started.
Ours(w) == {key \in Key \ disturbed[w] : key[2] \in Ifaces => key[2] \in present}

Queued(w, key) == \E i \in DOMAIN worker[w].todo : worker[w].todo[i] = key

\* The entries about a key that a worker is through with.
Passed(w, key) ==
    {n \in About(worker[w].file, key) :
        \/ n < worker[w].entry
        \/ n = worker[w].entry /\ ~Queued(w, key)}

Started(w, mode) == worker[w].pc # "idle" /\ worker[w].mode = mode

\* Such a key has the value of the last of them, if nothing has failed and it
\* is not about to be written again.
AppliedSoFar(w) ==
    Started(w, "apply") /\ OK(w) =>
        \A key \in Ours(w) : Passed(w, key) # {} /\ ~Queued(w, key) =>
            \E n \in Passed(w, key) :
                /\ \A m \in Passed(w, key) : m <= n
                /\ kernel[key] = worker[w].file[n].value

\* Or of all of them, if nothing was found wrong.
CheckedSoFar(w) ==
    Started(w, "check") /\ OK(w) =>
        \A key \in Ours(w) : \A n \in Passed(w, key) :
            kernel[key] = worker[w].file[n].value

OneWordEach(w) == \A n \in DOMAIN worker[w].file : Len(worker[w].file[n].value) = 1

\* What was found wrong is.
DriftSoFar(w) ==
    Started(w, "check") /\ OneWordEach(w) =>
        \A key \in worker[w].drifted :
            \/ key \in disturbed[w]
            \/ \E n \in About(worker[w].file, key) : kernel[key] # worker[w].file[n].value

WorkerInv(w) ==
    /\ TodoIsAbout(w)
    /\ DoneAtEnd(w)
    /\ AppliedSoFar(w)
    /\ CheckedSoFar(w)
    /\ DriftSoFar(w)

IInv == TypeOK /\ \A w \in Workers : WorkerInv(w)

----------------------------------------------------------------------------
\* Lemmas about the operators of the model.

\* SetToSeq lists every element of a finite set, and nothing else.
LEMMA SetToSeqLists ==
    ASSUME NEW S, IsFiniteSet(S)
    PROVE  /\ SetToSeq(S) \in Seq(S)
           /\ \A x \in S : \E i \in DOMAIN SetToSeq(S) : SetToSeq(S)[i] = x
<1> DEFINE n == Cardinality(S)
           F == {f \in [1 .. n -> S] : IsInjective(f)}
<1>1. n \in Nat /\ ExistsBijection(1 .. n, S)
  BY FS_CardinalityType
<1>2. PICK b : b \in F
  BY <1>1 DEF ExistsBijection, Bijection, Injection
<1>3. SetToSeq(S) \in F
  BY <1>2 DEF SetToSeq
<1> DEFINE f == SetToSeq(S)
<1>4. f \in Injection(1 .. n, S) /\ f \in [1 .. n -> S]
  BY <1>3 DEF Injection
<1> HIDE DEF f
<1>5. IsFiniteSet(1 .. n) /\ Cardinality(1 .. n) = n
  BY <1>1, FS_Interval
<1>6. f \in Surjection(1 .. n, S)
  BY <1>4, <1>5, FS_Injection
<1>7. \A x \in S : \E i \in 1 .. n : f[i] = x
  BY <1>6 DEF Surjection
<1>8. f \in Seq(S)
  BY <1>1, <1>4
<1>9. DOMAIN f = 1 .. n
  BY <1>4
<1>10. QED
  BY <1>7, <1>8, <1>9 DEF f

\* The keys of a base on every interface of the node are finitely many.
LEMMA KeysOfBaseFinite ==
    ASSUME NEW base, NEW P, IsFiniteSet(P)
    PROVE  IsFiniteSet({<<base, i>> : i \in P})
<1> DEFINE T == {<<base, i>> : i \in P}
           f == [i \in P |-> <<base, i>>]
<1>1. f \in Surjection(P, T)
  BY DEF Surjection
<1>2. QED
  BY <1>1, FS_Surjection

Entries == [base : IfaceBases \cup PlainBases,
            iface : Ifaces \cup Aggregates \cup {"none", "{iface}"},
            value : Values]

\* A file, or none, is a sequence of entries.
LEMMA FileIsSeq ==
    ASSUME NEW file \in Files \cup {<<>>}
    PROVE  /\ file \in Seq(Entries)
           /\ Len(file) \in Nat
           /\ DOMAIN file = 1 .. Len(file)
<1>1. file \in Files => file \in Seq(Entries)
  BY FilesAssumption DEF Entries
<1>2. file = <<>> => file \in Seq(Entries)
  OBVIOUS
<1>3. file \in Seq(Entries)
  BY <1>1, <1>2
<1>4. QED
  BY <1>3

\* A key is a pair.
LEMMA KeyIsPair == \A key \in Key : key = <<key[1], key[2]>>
BY DEF Key

\* An entry is expanded to keys it is about, and to all of those the node has.
LEMMA ExpandLists ==
    ASSUME present \subseteq Ifaces, NEW file \in Files, NEW n \in DOMAIN file
    PROVE  LET x == expand(file[n])
           IN  /\ x \in Seq(Key)
               /\ \A i \in DOMAIN x : n \in About(file, x[i])
               /\ \A key \in Key :
                    n \in About(file, key) /\ (key[2] \in Ifaces => key[2] \in present) =>
                        \E i \in DOMAIN x : x[i] = key
<1> DEFINE e == file[n]
           x == expand(e)
<1>1. e \in Entries
  BY FileIsSeq
<1>2. CASE e.iface = "{iface}"
  <2> DEFINE S == {<<e.base, i>> : i \in present}
  <2>1. skipAggregates(present \cup Aggregates) = present
    BY NamesAssumption DEF skipAggregates
  <2>2. x = SetToSeq(S)
    <3>1. {<<e.base, i>> : i \in skipAggregates(present \cup Aggregates)} = S
      BY <2>1
    <3> HIDE DEF S, e
    <3>2. QED
      BY <1>2, <3>1 DEF expand
  <2>3. IsFiniteSet(S)
    <3>1. IsFiniteSet(present)
      BY KernelAssumption, FS_Subset
    <3> HIDE DEF e
    <3>2. QED
      BY <3>1, KeysOfBaseFinite
  <2>4. S \subseteq Key
    <3>1. e.base \in IfaceBases
      BY <1>2, FilesAssumption
    <3>2. QED
      BY <3>1 DEF Key
  <2>5. \A s \in S : n \in About(file, s)
    <3>1. ASSUME NEW i \in present PROVE n \in About(file, <<e.base, i>>)
      BY <1>2 DEF About
    <3>2. QED
      BY <3>1
  <2>6. \A key \in Key : n \in About(file, key) /\ (key[2] \in Ifaces => key[2] \in present)
                          => key \in S
    BY <1>2, KeyIsPair, NamesAssumption DEF About, Key, Aggregates
  <2> HIDE DEF S, x
  <2>7. x \in Seq(S) /\ \A s \in S : \E i \in DOMAIN x : x[i] = s
    BY <2>2, <2>3, SetToSeqLists
  <2>8. x \in Seq(Key) /\ \A i \in DOMAIN x : x[i] \in S
    BY <2>4, <2>7
  <2>9. QED
    BY <2>5, <2>6, <2>7, <2>8 DEF x
<1>3. CASE e.iface # "{iface}"
  <2> DEFINE k == <<e.base, e.iface>>
  <2>1. k \in Key
    BY <1>3, FilesAssumption
  <2>2. x = <<k>>
    BY <1>3 DEF expand
  <2>3. n \in About(file, k)
    BY DEF About
  <2>4. \A key \in Key : n \in About(file, key) => key = k
    BY <1>3, KeyIsPair DEF About
  <2> HIDE DEF k, x
  <2>5. x \in Seq(Key) /\ DOMAIN x = {1} /\ x[1] = k
    BY <2>1, <2>2
  <2>6. QED
    BY <2>3, <2>4, <2>5 DEF x
<1>4. QED
  BY <1>2, <1>3

----------------------------------------------------------------------------
\* A worker that takes no step keeps what it has achieved, if it is told what
\* others touch.
LEMMA OthersKept ==
    ASSUME NEW v \in Workers, WorkerInv(v), TypeOK, worker'[v] = worker[v],
           \A key \in Key : worker[v].pc # "idle" /\ key \notin disturbed'[v] =>
               /\ key \notin disturbed[v]
               /\ kernel'[key] = kernel[key]
               /\ key[2] \in Ifaces /\ key[2] \in present' => key[2] \in present
    PROVE  WorkerInv(v)'
<1>1. TodoIsAbout(v)' /\ DoneAtEnd(v)'
  BY DEF WorkerInv, TodoIsAbout, DoneAtEnd
<1>2. /\ \A key : Passed(v, key)' = Passed(v, key) /\ (Queued(v, key)' <=> Queued(v, key))
      /\ \A mode : Started(v, mode)' <=> Started(v, mode)
      /\ OK(v)' <=> OK(v)
      /\ OneWordEach(v)' <=> OneWordEach(v)
  BY DEF Passed, Queued, Started, OK, OneWordEach
<1>3. worker[v].pc # "idle" =>
         /\ Ours(v)' \subseteq Ours(v)
         /\ \A key \in Ours(v)' : kernel'[key] = kernel[key]
  BY DEF Ours
<1>4. AppliedSoFar(v)'
  BY <1>2, <1>3 DEF WorkerInv, AppliedSoFar, Started
<1>5. CheckedSoFar(v)'
  BY <1>2, <1>3 DEF WorkerInv, CheckedSoFar, Started
<1>6. DriftSoFar(v)'
  <2> SUFFICES ASSUME Started(v, "check"), OneWordEach(v), NEW key \in worker[v].drifted,
                      key \notin disturbed'[v]
               PROVE  \E n \in About(worker[v].file, key) : kernel'[key] # worker[v].file[n].value
    BY <1>2 DEF DriftSoFar
  <2>1. key \in Key /\ worker[v].pc # "idle"
    BY DEF TypeOK, Worker, Started
  <2>2. QED
    BY <2>1 DEF WorkerInv, DriftSoFar
<1>7. QED
  BY <1>1, <1>4, <1>5, <1>6 DEF WorkerInv

\* Touch tells the workers that have started.
LEMMA TouchTells ==
    ASSUME TypeOK, NEW keys \in SUBSET Key, NEW others \in SUBSET Workers, Touch(keys, others)
    PROVE  /\ disturbed' \in [Workers -> SUBSET Key]
           /\ \A v \in Workers : disturbed[v] \subseteq disturbed'[v]
           /\ \A v \in others : worker[v].pc # "idle" => keys \subseteq disturbed'[v]
           /\ \A v \in Workers \ others : disturbed'[v] = disturbed[v]
BY DEF TypeOK, Touch

LEMMA InitIInv == Init => IInv
<1> SUFFICES ASSUME Init PROVE IInv
  OBVIOUS
<1>1. Idle \in Worker
  BY DEF Idle, Worker, Mode
<1>2. \A w \in Workers : worker[w] = Idle
  BY DEF Init
<1>3. Len(Idle.file) = 0 /\ Idle.entry = 0 /\ Idle.todo = <<>> /\ Idle.pc = "idle"
  BY DEF Idle
<1>4. TypeOK
  <2>1. kernel \in [Key -> Values] /\ disturbed \in [Workers -> SUBSET Key]
    BY KernelAssumption DEF Init
  <2>2. worker \in [Workers -> Worker]
    BY <1>1 DEF Init
  <2>3. present \subseteq Ifaces /\ env \in 0 .. MaxEnv
    BY KernelAssumption DEF Init
  <2>4. \A w \in Workers : worker[w].entry <= Len(worker[w].file)
    BY <1>2, <1>3
  <2>5. QED
    BY <2>1, <2>2, <2>3, <2>4 DEF TypeOK
<1>5. ASSUME NEW w \in Workers PROVE WorkerInv(w)
  BY <1>2, <1>3 DEF WorkerInv, TodoIsAbout, DoneAtEnd, AppliedSoFar, CheckedSoFar,
                    DriftSoFar, Started
<1>6. QED
  BY <1>4, <1>5 DEF IInv

----------------------------------------------------------------------------
\* Others.

LEMMA HotplugPreserves ==
    ASSUME IInv, NEW i \in Ifaces, Hotplug(i)
    PROVE  IInv'
<1> DEFINE keys == {key \in Key : key[2] = i}
<1>1. /\ Env
      /\ present' = IF i \in present THEN present \ {i} ELSE present \cup {i}
      /\ kernel' = [key \in Key |-> IF key \in keys THEN Default ELSE kernel[key]]
      /\ Touch(keys, Workers)
      /\ UNCHANGED worker
  BY DEF Hotplug
<1>2. TypeOK
  BY DEF IInv
<1>3. /\ disturbed' \in [Workers -> SUBSET Key]
      /\ \A v \in Workers : disturbed[v] \subseteq disturbed'[v]
      /\ \A v \in Workers : worker[v].pc # "idle" => keys \subseteq disturbed'[v]
  BY <1>1, <1>2, TouchTells
<1>4. TypeOK'
  <2>1. env' \in 0 .. MaxEnv
    BY <1>1, <1>2, KernelAssumption DEF Env, TypeOK
  <2>2. kernel' \in [Key -> Values] /\ present' \subseteq Ifaces
    BY <1>1, <1>2, KernelAssumption DEF TypeOK
  <2>3. QED
    BY <1>1, <1>2, <1>3, <2>1, <2>2 DEF TypeOK
<1>5. \A key \in Key \ keys :
         /\ kernel'[key] = kernel[key]
         /\ key[2] \in present' => key[2] \in present
  BY <1>1, <1>2 DEF TypeOK
<1> HIDE DEF keys
<1>6. ASSUME NEW v \in Workers PROVE WorkerInv(v)'
  BY <1>1, <1>2, <1>3, <1>5, OthersKept DEF IInv
<1>7. QED
  BY <1>4, <1>6 DEF IInv

LEMMA DriftPreserves ==
    ASSUME IInv, NEW key \in Key, NEW value \in Values, Drift(key, value)
    PROVE  IInv'
<1>1. /\ Env
      /\ kernel' = [kernel EXCEPT ![key] = value]
      /\ Touch({key}, Workers)
      /\ UNCHANGED <<present, worker>>
  BY DEF Drift
<1>2. TypeOK
  BY DEF IInv
<1>3. /\ disturbed' \in [Workers -> SUBSET Key]
      /\ \A v \in Workers : disturbed[v] \subseteq disturbed'[v]
      /\ \A v \in Workers : worker[v].pc # "idle" => {key} \subseteq disturbed'[v]
  BY <1>1, <1>2, TouchTells
<1>4. TypeOK'
  <2>1. env' \in 0 .. MaxEnv
    BY <1>1, <1>2, KernelAssumption DEF Env, TypeOK
  <2>2. kernel' \in [Key -> Values]
    BY <1>1, <1>2 DEF TypeOK
  <2>3. QED
    BY <1>1, <1>2, <1>3, <2>1, <2>2 DEF TypeOK
<1>5. \A k \in Key \ {key} : kernel'[k] = kernel[k]
  BY <1>1, <1>2 DEF TypeOK
<1>6. ASSUME NEW v \in Workers PROVE WorkerInv(v)'
  BY <1>1, <1>2, <1>3, <1>5, OthersKept DEF IInv
<1>7. QED
  BY <1>4, <1>6 DEF IInv

----------------------------------------------------------------------------
\* The worker.

\* The state of one worker is replaced.
LEMMA OneWorkerTyped ==
    ASSUME TypeOK, NEW w \in Workers, NEW new \in Worker, new.entry <= Len(new.file),
           worker' = [worker EXCEPT ![w] = new]
    PROVE  /\ worker' \in [Workers -> Worker]
           /\ \A v \in Workers : worker'[v].entry <= Len(worker'[v].file)
           /\ worker'[w] = new
           /\ \A v \in Workers : v # w => worker'[v] = worker[v]
BY DEF TypeOK

LEMMA StartPreserves ==
    ASSUME IInv, NEW w \in Workers, NEW mode \in Mode, NEW file \in Files, Start(w, mode, file)
    PROVE  IInv'
<1> DEFINE new == [Idle EXCEPT !.pc = "run", !.mode = mode, !.file = file]
<1>1. /\ worker' = [worker EXCEPT ![w] = new]
      /\ disturbed' = [disturbed EXCEPT ![w] = {}]
      /\ UNCHANGED <<present, kernel, env>>
  BY DEF Start
<1>2. TypeOK
  BY DEF IInv
<1>3. Idle \in Worker /\ Idle.entry = 0 /\ Idle.todo = <<>> /\ Idle.drifted = {}
  BY DEF Idle, Worker, Mode
<1>4. new \in Worker
  BY <1>3 DEF Worker
<1>5. file \in Seq(Entries) /\ 0 <= Len(file)
  BY FileIsSeq
<1>6. /\ new.entry = 0 /\ new.todo = <<>> /\ new.pc = "run" /\ new.file = file
      /\ new.drifted = {} /\ new.mode = mode
  BY <1>3 DEF Worker
<1> HIDE DEF new
<1>7. /\ worker' \in [Workers -> Worker]
      /\ \A v \in Workers : worker'[v].entry <= Len(worker'[v].file)
      /\ worker'[w] = new
      /\ \A v \in Workers : v # w => worker'[v] = worker[v]
  BY <1>1, <1>2, <1>4, <1>5, <1>6, OneWorkerTyped
<1>8. /\ disturbed' \in [Workers -> SUBSET Key]
      /\ \A v \in Workers : v # w => disturbed'[v] = disturbed[v]
  BY <1>1, <1>2 DEF TypeOK
<1>9. TypeOK'
  BY <1>1, <1>2, <1>7, <1>8 DEF TypeOK
<1>10. WorkerInv(w)'
  <2>1. \A key : Passed(w, key)' = {}
    <3> SUFFICES ASSUME NEW key, NEW n \in Passed(w, key)' PROVE FALSE
      OBVIOUS
    <3>1. n \in DOMAIN file /\ (n < 0 \/ n = 0)
      BY <1>6, <1>7 DEF Passed, About
    <3>2. QED
      BY <1>5, <3>1
  <2>2. TodoIsAbout(w)' /\ DoneAtEnd(w)' /\ DriftSoFar(w)'
    BY <1>6, <1>7 DEF TodoIsAbout, DoneAtEnd, DriftSoFar
  <2>3. AppliedSoFar(w)' /\ CheckedSoFar(w)'
    BY <2>1 DEF AppliedSoFar, CheckedSoFar
  <2>4. QED
    BY <2>2, <2>3 DEF WorkerInv
<1>11. ASSUME NEW v \in Workers, v # w PROVE WorkerInv(v)'
  BY <1>1, <1>2, <1>7, <1>8, <1>11, OthersKept DEF IInv
<1>12. QED
  BY <1>9, <1>10, <1>11 DEF IInv

LEMMA NextEntryPreserves ==
    ASSUME IInv, NEW w \in Workers, NextEntry(w)
    PROVE  IInv'
<1> DEFINE me == worker[w]
           next == me.entry + 1
           new == IF next > Len(me.file)
                  THEN [me EXCEPT !.pc = "done"]
                  ELSE [me EXCEPT !.entry = next, !.todo = expand(me.file[next])]
<1>1. /\ me.pc = "run" /\ me.todo = <<>>
      /\ worker' = [worker EXCEPT ![w] = new]
      /\ UNCHANGED <<present, kernel, disturbed, env>>
  BY DEF NextEntry
<1>2. TypeOK /\ WorkerInv(w)
  BY DEF IInv
<1>3. me \in Worker /\ me.entry \in Nat /\ me.entry <= Len(me.file)
  BY <1>2 DEF TypeOK, Worker
<1>4. me.file \in Seq(Entries) /\ Len(me.file) \in Nat /\ DOMAIN me.file = 1 .. Len(me.file)
  <2>1. me.file \in Files \cup {<<>>}
    BY <1>3 DEF Worker
  <2>2. QED
    BY <2>1, FileIsSeq
<1>5. new.file = me.file /\ new.mode = me.mode /\ new.failed = me.failed
      /\ new.drifted = me.drifted /\ new.pc # "idle"
  BY <1>1, <1>3 DEF Worker
<1>6. CASE next > Len(me.file)
  <2>1. new = [me EXCEPT !.pc = "done"]
    BY <1>6
  <2>2. /\ new.pc = "done" /\ new.entry = me.entry /\ new.todo = me.todo
        /\ new \in Worker
    BY <1>3, <2>1 DEF Worker
  <2> HIDE DEF new, me
  <2>3. me.entry = Len(me.file)
    BY <1>3, <1>4, <1>6 DEF next
  <2>4. /\ worker' \in [Workers -> Worker]
        /\ \A v \in Workers : worker'[v].entry <= Len(worker'[v].file)
        /\ worker'[w] = new
        /\ \A v \in Workers : v # w => worker'[v] = worker[v]
    BY <1>1, <1>2, <1>3, <1>5, <2>2, OneWorkerTyped
  <2>5. TypeOK'
    BY <1>1, <1>2, <2>4 DEF TypeOK
  <2>6. WorkerInv(w)'
    <3>1. /\ \A key : Passed(w, key)' = Passed(w, key) /\ (Queued(w, key)' <=> Queued(w, key))
          /\ \A mode : Started(w, mode)' <=> Started(w, mode)
          /\ OK(w)' <=> OK(w)
          /\ OneWordEach(w)' <=> OneWordEach(w)
          /\ Ours(w)' = Ours(w)
      BY <1>1, <1>5, <2>2, <2>4 DEF Passed, Queued, Started, OK, OneWordEach, Ours, me
    <3>2. TodoIsAbout(w)' /\ DoneAtEnd(w)'
      BY <1>1, <1>5, <2>2, <2>4, <2>3 DEF TodoIsAbout, DoneAtEnd
    <3>3. AppliedSoFar(w)' /\ CheckedSoFar(w)'
      BY <1>1, <1>2, <1>5, <2>4, <3>1 DEF WorkerInv, AppliedSoFar, CheckedSoFar, me
    <3>4. DriftSoFar(w)'
      BY <1>1, <1>2, <1>5, <2>4, <3>1 DEF WorkerInv, DriftSoFar, me
    <3>5. QED
      BY <3>2, <3>3, <3>4 DEF WorkerInv
  <2>7. ASSUME NEW v \in Workers, v # w PROVE WorkerInv(v)'
    BY <1>1, <1>2, <2>4, <2>7, OthersKept DEF IInv
  <2>8. QED
    BY <2>5, <2>6, <2>7 DEF IInv
<1>7. CASE ~(next > Len(me.file))
  <2> DEFINE x == expand(me.file[next])
  <2>1. next \in DOMAIN me.file /\ next \in Nat /\ next <= Len(me.file)
    BY <1>3, <1>4, <1>7
  <2>2. me.file \in Files
    BY <1>3, <2>1 DEF Worker
  <2>3. /\ x \in Seq(Key)
        /\ \A i \in DOMAIN x : next \in About(me.file, x[i])
        /\ \A key \in Key :
             next \in About(me.file, key) /\ (key[2] \in Ifaces => key[2] \in present) =>
                 \E i \in DOMAIN x : x[i] = key
    <3>1. present \subseteq Ifaces
      BY <1>2 DEF TypeOK
    <3> HIDE DEF me, next
    <3>2. QED
      BY <2>1, <2>2, <3>1, ExpandLists
  <2> HIDE DEF x
  <2>4. /\ new = [me EXCEPT !.entry = next, !.todo = x]
        /\ new.pc = "run" /\ new.entry = next /\ new.todo = x
        /\ new \in Worker
    BY <1>1, <1>3, <1>7, <2>1, <2>3 DEF Worker, x
  <2> HIDE DEF new, me, next
  <2>5. /\ worker' \in [Workers -> Worker]
        /\ \A v \in Workers : worker'[v].entry <= Len(worker'[v].file)
        /\ worker'[w] = new
        /\ \A v \in Workers : v # w => worker'[v] = worker[v]
    BY <1>1, <1>2, <1>5, <2>1, <2>4, OneWorkerTyped
  <2>6. TypeOK'
    BY <1>1, <1>2, <2>5 DEF TypeOK
  <2>7. WorkerInv(w)'
    <3>1. /\ \A mode : Started(w, mode)' <=> Started(w, mode)
          /\ OK(w)' <=> OK(w)
          /\ OneWordEach(w)' <=> OneWordEach(w)
          /\ Ours(w)' = Ours(w)
      BY <1>1, <1>5, <2>4, <2>5 DEF Started, OK, OneWordEach, Ours, me
    <3>2. TodoIsAbout(w)' /\ DoneAtEnd(w)'
      BY <1>5, <2>3, <2>4, <2>5 DEF TodoIsAbout, DoneAtEnd
    <3>3. ASSUME NEW key \in Ours(w)
          PROVE  Passed(w, key)' = Passed(w, key) /\ ~Queued(w, key)
      <4>1. ~Queued(w, key)
        BY <1>1 DEF Queued, me
      <4>2. next \in About(me.file, key) => Queued(w, key)'
        BY <2>3, <2>4, <2>5, <3>3 DEF Queued, Ours
      <4>3. About(me.file, key) \subseteq Nat
        <5>1. About(me.file, key) \subseteq DOMAIN me.file
          BY DEF About
        <5>2. QED
          BY <1>4, <5>1
      <4>4. \A n \in Nat : n < next <=> (n < me.entry \/ n = me.entry)
        BY <1>3 DEF next
      <4>5. Passed(w, key) = {n \in About(me.file, key) : n < next}
        BY <4>1, <4>3, <4>4 DEF Passed, me
      <4>6. Passed(w, key)' = {n \in About(me.file, key) : n < next}
        BY <1>5, <2>4, <2>5, <4>2 DEF Passed
      <4>7. QED
        BY <4>1, <4>5, <4>6
    <3>4. AppliedSoFar(w)' /\ CheckedSoFar(w)'
      BY <1>1, <1>2, <1>5, <2>5, <3>1, <3>3 DEF WorkerInv, AppliedSoFar, CheckedSoFar, me
    <3>5. DriftSoFar(w)'
      BY <1>1, <1>2, <1>5, <2>5, <3>1 DEF WorkerInv, DriftSoFar, me
    <3>6. QED
      BY <3>2, <3>4, <3>5 DEF WorkerInv
  <2>8. ASSUME NEW v \in Workers, v # w PROVE WorkerInv(v)'
    BY <1>1, <1>2, <2>5, <2>8, OthersKept DEF IInv
  <2>9. QED
    BY <2>6, <2>7, <2>8 DEF IInv
<1>8. QED
  BY <1>6, <1>7

\* The first of a sequence of keys is taken off.
LEMMA HeadTail ==
    ASSUME NEW S, NEW s \in Seq(S), s # <<>>
    PROVE  /\ Head(s) \in S
           /\ 1 \in DOMAIN s /\ s[1] = Head(s)
           /\ Tail(s) \in Seq(S)
           /\ \A i \in DOMAIN Tail(s) : i + 1 \in DOMAIN s /\ Tail(s)[i] = s[i + 1]
           /\ \A j \in DOMAIN s : s[j] # Head(s) =>
                 j - 1 \in DOMAIN Tail(s) /\ Tail(s)[j - 1] = s[j]
<1>1. Len(s) \in Nat \ {0} /\ DOMAIN s = 1 .. Len(s)
  OBVIOUS
<1>2. Head(s) = s[1] /\ Head(s) \in S
  BY <1>1
<1>3. Tail(s) \in Seq(S) /\ Len(Tail(s)) = Len(s) - 1
  OBVIOUS
<1>4. DOMAIN Tail(s) = 1 .. (Len(s) - 1)
  BY <1>3
<1>5. \A i \in 1 .. (Len(s) - 1) : Tail(s)[i] = s[i + 1]
  BY <1>1
<1>6. \A i \in DOMAIN Tail(s) : i + 1 \in DOMAIN s /\ Tail(s)[i] = s[i + 1]
  BY <1>1, <1>4, <1>5
<1>7. ASSUME NEW j \in DOMAIN s, s[j] # Head(s)
      PROVE  j - 1 \in DOMAIN Tail(s) /\ Tail(s)[j - 1] = s[j]
  <2>1. j \in 2 .. Len(s)
    BY <1>1, <1>2, <1>7
  <2>2. j - 1 \in 1 .. (Len(s) - 1) /\ (j - 1) + 1 = j
    BY <1>1, <2>1
  <2>3. QED
    BY <1>4, <1>5, <2>2
<1>8. QED
  BY <1>1, <1>2, <1>3, <1>6, <1>7

\* What a worker at a key has in hand.
LEMMA AtKeyFacts ==
    ASSUME IInv, NEW w \in Workers, NEW mode, AtKey(w, mode)
    PROVE  LET me  == worker[w]
               key == Head(me.todo)
           IN  /\ me \in Worker /\ me.pc = "run" /\ me.mode = mode
               /\ me.file \in Seq(Entries)
               /\ key \in Key
               /\ me.entry \in About(me.file, key)
               /\ me.entry \in DOMAIN me.file
               /\ me.file[me.entry].value \in Values
               /\ Tail(me.todo) \in Seq(Key)
               /\ \A i \in DOMAIN Tail(me.todo) : me.entry \in About(me.file, Tail(me.todo)[i])
               /\ Queued(w, key)
               /\ \A k : k # key =>
                     (Queued(w, k) <=> \E i \in DOMAIN Tail(me.todo) : Tail(me.todo)[i] = k)
<1> DEFINE me  == worker[w]
           key == Head(me.todo)
<1>1. TypeOK /\ TodoIsAbout(w)
  BY DEF IInv, WorkerInv
<1>2. me \in Worker /\ me.pc = "run" /\ me.mode = mode /\ me.todo # <<>>
  BY <1>1 DEF AtKey, TypeOK
<1>3. me.todo \in Seq(Key) /\ me.file \in Files \cup {<<>>}
  BY <1>2 DEF Worker
<1> DEFINE s == me.todo
<1> HIDE DEF s
<1>4. s \in Seq(Key) /\ s # <<>>
  BY <1>2, <1>3 DEF s
<1>5. /\ Head(s) \in Key
      /\ 1 \in DOMAIN s /\ s[1] = Head(s)
      /\ Tail(s) \in Seq(Key)
      /\ \A i \in DOMAIN Tail(s) : i + 1 \in DOMAIN s /\ Tail(s)[i] = s[i + 1]
      /\ \A j \in DOMAIN s : s[j] # Head(s) =>
            j - 1 \in DOMAIN Tail(s) /\ Tail(s)[j - 1] = s[j]
  BY <1>4, HeadTail
<1>6. \A i \in DOMAIN s : me.entry \in About(me.file, s[i])
  BY <1>1 DEF TodoIsAbout, s
<1>7. me.file \in Seq(Entries)
  BY <1>3, FileIsSeq
<1>8. me.entry \in About(me.file, key)
  BY <1>5, <1>6 DEF s
<1>9. me.entry \in DOMAIN me.file
  BY <1>8 DEF About
<1>10. me.file[me.entry].value \in Values
  <2>1. me.file[me.entry] \in Entries
    BY <1>7, <1>9
  <2>2. QED
    BY <2>1 DEF Entries
<1>11. \A k : Queued(w, k) <=> \E i \in DOMAIN s : s[i] = k
  BY DEF Queued, s
<1>12. \A k : k # key => (Queued(w, k) <=> \E i \in DOMAIN Tail(s) : Tail(s)[i] = k)
  <2> SUFFICES ASSUME NEW k, k # Head(s)
               PROVE  (\E i \in DOMAIN s : s[i] = k) <=> \E i \in DOMAIN Tail(s) : Tail(s)[i] = k
    BY <1>11 DEF s
  <2>1. ASSUME NEW i \in DOMAIN s, s[i] = k PROVE \E j \in DOMAIN Tail(s) : Tail(s)[j] = k
    BY <1>5, <2>1
  <2>2. ASSUME NEW i \in DOMAIN Tail(s), Tail(s)[i] = k PROVE \E j \in DOMAIN s : s[j] = k
    BY <1>5, <2>2
  <2>3. QED
    BY <2>1, <2>2
<1>13. Queued(w, key)
  BY <1>5, <1>11 DEF s
<1>14. \A i \in DOMAIN Tail(s) : me.entry \in About(me.file, Tail(s)[i])
  BY <1>5, <1>6
<1>15. QED
  BY <1>2, <1>5, <1>7, <1>8, <1>9, <1>10, <1>12, <1>13, <1>14 DEF s

\* A worker at a key goes on to the next, as new.
Takes(w, mode, key, new) ==
    /\ AtKey(w, mode)
    /\ key = Head(worker[w].todo)
    /\ new \in Worker
    /\ new.todo = Tail(worker[w].todo) /\ new.entry = worker[w].entry
    /\ new.file = worker[w].file /\ new.pc = "run" /\ new.mode = mode
    /\ worker' = [worker EXCEPT ![w] = new]

\* That leaves the other workers and the entries about other keys as they are.
Taken(w, key, new) ==
    /\ worker' \in [Workers -> Worker]
    /\ \A v \in Workers : worker'[v].entry <= Len(worker'[v].file)
    /\ worker'[w] = new
    /\ \A v \in Workers : v # w => worker'[v] = worker[v]
    /\ TodoIsAbout(w)' /\ DoneAtEnd(w)'
    /\ \A k : k # key => /\ Queued(w, k)' <=> Queued(w, k)
                         /\ Passed(w, k)' = Passed(w, k)
    /\ ~Queued(w, key)' => worker[w].entry \in Passed(w, key)'
    /\ \A n \in Passed(w, key)' : n \in Passed(w, key) \/ n = worker[w].entry
    /\ \A n \in Passed(w, key)' : n <= worker[w].entry

LEMMA TakenOff ==
    ASSUME IInv, NEW w \in Workers, NEW mode, NEW key, NEW new, Takes(w, mode, key, new)
    PROVE  Taken(w, key, new)
<1> USE DEF Takes
<1> DEFINE me == worker[w]
<1>1. /\ me \in Worker /\ me.pc = "run" /\ me.mode = mode
      /\ me.entry \in About(me.file, key)
      /\ \A i \in DOMAIN Tail(me.todo) : me.entry \in About(me.file, Tail(me.todo)[i])
      /\ Queued(w, key)
      /\ \A k : k # key =>
            (Queued(w, k) <=> \E i \in DOMAIN Tail(me.todo) : Tail(me.todo)[i] = k)
  BY AtKeyFacts
<1>2. TypeOK /\ me.entry <= Len(me.file) /\ me.entry \in Nat
  BY <1>1 DEF IInv, TypeOK, Worker
<1>3. /\ worker' \in [Workers -> Worker]
      /\ \A v \in Workers : worker'[v].entry <= Len(worker'[v].file)
      /\ worker'[w] = new
      /\ \A v \in Workers : v # w => worker'[v] = worker[v]
  BY <1>2, OneWorkerTyped
<1>4. TodoIsAbout(w)' /\ DoneAtEnd(w)'
  BY <1>1, <1>3 DEF TodoIsAbout, DoneAtEnd
<1>5. \A k : Queued(w, k)' <=> \E i \in DOMAIN Tail(me.todo) : Tail(me.todo)[i] = k
  BY <1>3 DEF Queued
<1>6. ASSUME NEW k
      PROVE  Passed(w, k)' = {n \in About(me.file, k) :
                                \/ n < me.entry
                                \/ n = me.entry /\ ~Queued(w, k)'}
  BY <1>3 DEF Passed, About
<1>7. ASSUME NEW k, k # key
      PROVE  (Queued(w, k)' <=> Queued(w, k)) /\ Passed(w, k)' = Passed(w, k)
  <2>1. Queued(w, k)' <=> Queued(w, k)
    BY <1>1, <1>5, <1>7
  <2>2. Passed(w, k)' = {n \in About(me.file, k) :
                           \/ n < me.entry
                           \/ n = me.entry /\ ~Queued(w, k)'}
    BY <1>6
  <2>3. Passed(w, k) = {n \in About(me.file, k) :
                          \/ n < me.entry
                          \/ n = me.entry /\ ~Queued(w, k)}
    BY DEF Passed
  <2>4. QED
    <3>1. ASSUME NEW n PROVE n \in Passed(w, k)' <=> n \in Passed(w, k)
      BY <2>1, <2>2, <2>3, Zenon
    <3>2. QED
      BY <2>1, <3>1, <2>2, <2>3, Zenon
<1>8. Passed(w, key)' = {n \in About(me.file, key) :
                           \/ n < me.entry
                           \/ n = me.entry /\ ~Queued(w, key)'}
  BY <1>6
<1>9. ~Queued(w, key)' => me.entry \in Passed(w, key)'
  BY <1>1, <1>8, Zenon
<1>10. \A n \in Passed(w, key)' : n \in Passed(w, key) \/ n = me.entry
  <2>1. SUFFICES ASSUME NEW n \in About(me.file, key), n < me.entry
                 PROVE  n \in Passed(w, key)
    BY <1>8, Zenon
  <2>2. QED
    BY <2>1, Zenon DEF Passed
<1>11. ASSUME NEW n \in Passed(w, key)'
       PROVE  n <= me.entry
  <2>1. me.file \in Files \cup {<<>>}
    BY <1>1 DEF Worker
  <2>2. DOMAIN me.file \subseteq Nat
    BY <2>1, FileIsSeq
  <2>3. n \in About(me.file, key) /\ (n < me.entry \/ n = me.entry)
    BY <1>8, <1>11, Zenon
  <2>4. n \in DOMAIN me.file
    BY <2>3, Zenon DEF About
  <2>5. n \in Nat
    BY <2>2, <2>4
  <2>6. QED
    BY <1>2, <2>3, <2>5
<1>12. QED
  BY <1>3, <1>4, <1>7, <1>9, <1>10, <1>11 DEF Taken

----------------------------------------------------------------------------
\* A worker at a key.

LEMMA WriteKeyPreserves ==
    ASSUME IInv, NEW w \in Workers, WriteKey(w)
    PROVE  IInv'
<1> DEFINE me == worker[w]
<1>1. PICK key : key = Head(me.todo)
  OBVIOUS
<1>2. PICK new : new = [me EXCEPT !.todo = Tail(me.todo)]
  OBVIOUS
<1>3. /\ AtKey(w, "apply")
      /\ kernel' = [kernel EXCEPT ![key] = Wanted(w)]
      /\ worker' = [worker EXCEPT ![w].todo = Tail(@)]
      /\ Touch({key}, Workers \ {w})
      /\ UNCHANGED <<present, env>>
  BY <1>1 DEF WriteKey
<1>4. TypeOK /\ \A v \in Workers : WorkerInv(v)
  BY DEF IInv
<1>5. /\ me \in Worker /\ me.pc = "run" /\ me.mode = "apply"
      /\ key \in Key /\ Wanted(w) \in Values
      /\ Tail(me.todo) \in Seq(Key)
  BY <1>1, <1>3, AtKeyFacts DEF Wanted
<1>6. /\ new \in Worker
      /\ new.todo = Tail(me.todo) /\ new.entry = me.entry /\ new.file = me.file
      /\ new.pc = "run" /\ new.mode = "apply"
      /\ new.failed = me.failed /\ new.drifted = me.drifted
  BY <1>2, <1>5 DEF Worker
<1>7. worker' = [worker EXCEPT ![w] = new]
  BY <1>2, <1>3
<1>8. Taken(w, key, new)
  <2>1. Takes(w, "apply", key, new)
    BY <1>1, <1>3, <1>6, <1>7 DEF Takes
  <2>2. QED
    BY <2>1, TakenOff
<1>9. /\ kernel' \in [Key -> Values]
      /\ kernel'[key] = me.file[me.entry].value
      /\ \A k \in Key : k # key => kernel'[k] = kernel[k]
  BY <1>3, <1>4, <1>5 DEF TypeOK, Wanted
<1>10. /\ disturbed' \in [Workers -> SUBSET Key]
       /\ \A v \in Workers : disturbed[v] \subseteq disturbed'[v]
       /\ \A v \in Workers \ {w} : worker[v].pc # "idle" => key \in disturbed'[v]
       /\ disturbed'[w] = disturbed[w]
  <2>1. {key} \in SUBSET Key /\ Workers \ {w} \in SUBSET Workers
    BY <1>5
  <2>2. QED
    BY <1>3, <1>4, <2>1, TouchTells
<1>11. TypeOK'
  BY <1>3, <1>4, <1>8, <1>9, <1>10 DEF TypeOK, Taken
<1>12. AppliedSoFar(w)'
  <2>1. Ours(w)' = Ours(w)
    BY <1>3, <1>10 DEF Ours
  <2>2. Started(w, "apply") /\ (OK(w)' => OK(w))
    BY <1>5, <1>6, <1>8 DEF Started, OK, Taken
  <2>3. SUFFICES ASSUME OK(w), NEW k \in Ours(w), Passed(w, k)' # {}, ~Queued(w, k)'
                 PROVE  \E n \in Passed(w, k)' :
                           /\ \A m \in Passed(w, k)' : m <= n
                           /\ kernel'[k] = me.file[n].value
    BY <1>6, <1>8, <2>1, <2>2 DEF AppliedSoFar, Taken
  <2>4. CASE k = key
    BY <1>8, <1>9, <2>3, <2>4 DEF Taken
  <2>5. CASE k # key
    <3>1. k \in Key
      BY DEF Ours
    <3>2. QED
      BY <1>4, <1>8, <1>9, <2>2, <2>3, <2>5, <3>1 DEF WorkerInv, AppliedSoFar, Taken
  <2>6. QED
    BY <2>4, <2>5
<1>13. CheckedSoFar(w)' /\ DriftSoFar(w)'
  BY <1>6, <1>8 DEF CheckedSoFar, DriftSoFar, Started, Taken
<1>14. ASSUME NEW v \in Workers, v # w PROVE WorkerInv(v)'
  BY <1>3, <1>4, <1>8, <1>9, <1>10, <1>14, OthersKept DEF Taken
<1>15. QED
  BY <1>8, <1>11, <1>12, <1>13, <1>14 DEF IInv, WorkerInv, Taken

LEMMA WriteFailsPreserves ==
    ASSUME IInv, NEW w \in Workers, WriteFails(w)
    PROVE  IInv'
<1> DEFINE me == worker[w]
<1>1. PICK key : key = Head(me.todo)
  OBVIOUS
<1>2. PICK new : new = [me EXCEPT !.todo = Tail(me.todo),
                                  !.failed = noteFailed(me.failed, key)]
  OBVIOUS
<1>3. /\ AtKey(w, "apply")
      /\ Env \/ UNCHANGED env
      /\ worker' = [worker EXCEPT ![w].todo = Tail(@),
                                  ![w].failed = noteFailed(@, key)]
      /\ UNCHANGED <<present, kernel, disturbed>>
  BY <1>1 DEF WriteFails
<1>4. TypeOK /\ \A v \in Workers : WorkerInv(v)
  BY DEF IInv
<1>5. /\ me \in Worker /\ me.pc = "run" /\ me.mode = "apply"
      /\ key \in Key /\ Tail(me.todo) \in Seq(Key)
  BY <1>1, <1>3, AtKeyFacts
<1>6. /\ new \in Worker
      /\ new.todo = Tail(me.todo) /\ new.entry = me.entry /\ new.file = me.file
      /\ new.pc = "run" /\ new.mode = "apply"
      /\ new.failed # {}
  BY <1>2, <1>5 DEF Worker, noteFailed
<1>7. worker' = [worker EXCEPT ![w] = new]
  BY <1>2, <1>3
<1>8. Taken(w, key, new)
  <2>1. Takes(w, "apply", key, new)
    BY <1>1, <1>3, <1>6, <1>7 DEF Takes
  <2>2. QED
    BY <2>1, TakenOff
<1>9. TypeOK'
  <2>1. env' \in 0 .. MaxEnv
    BY <1>3, <1>4, KernelAssumption DEF Env, TypeOK
  <2>2. QED
    BY <1>3, <1>4, <1>8, <2>1 DEF TypeOK, Taken
<1>10. AppliedSoFar(w)' /\ CheckedSoFar(w)' /\ DriftSoFar(w)'
  BY <1>6, <1>8 DEF AppliedSoFar, CheckedSoFar, DriftSoFar, Started, OK, Taken
<1>11. ASSUME NEW v \in Workers, v # w PROVE WorkerInv(v)'
  BY <1>3, <1>4, <1>8, <1>11, OthersKept DEF Taken
<1>12. QED
  BY <1>8, <1>9, <1>10, <1>11 DEF IInv, WorkerInv, Taken

\* Two values that look the same are, and a value of one word looks the same.
LEMMA InSpecTells ==
    ASSUME NEW live, NEW wanted
    PROVE  /\ inSpec(live, wanted) => live = wanted
           /\ Len(wanted) = 1 /\ live = wanted => inSpec(live, wanted)
<1>1. \E a : AsShown(live) = <<live, a>>
  BY DEF AsShown
<1>2. \E b : AsWritten(wanted) = <<wanted, b>>
  BY DEF AsWritten
<1>3. inSpec(live, wanted) => live = wanted
  <2>1. PICK a : AsShown(live) = <<live, a>>
    BY <1>1
  <2>2. PICK b : AsWritten(wanted) = <<wanted, b>>
    BY <1>2
  <2>3. QED
    BY <2>1, <2>2 DEF inSpec
<1>4. ASSUME Len(wanted) = 1, live = wanted PROVE inSpec(live, wanted)
  <2>1. ~(Len(wanted) > 1)
    BY <1>4
  <2>2. QED
    BY <1>4, <2>1 DEF inSpec, AsShown, AsWritten
<1>5. QED
  BY <1>3, <1>4

LEMMA ReadKeyPreserves ==
    ASSUME IInv, NEW w \in Workers, ReadKey(w)
    PROVE  IInv'
<1> DEFINE me == worker[w]
<1>1. PICK key : key = Head(me.todo)
  OBVIOUS
<1> DEFINE fits == Reachable(key) => inSpec(kernel[key], Wanted(w))
<1>2. PICK failed : failed = IF Reachable(key) THEN me.failed ELSE noteFailed(me.failed, key)
  OBVIOUS
<1>3. PICK drifted : drifted = IF fits THEN me.drifted ELSE me.drifted \cup {key}
  OBVIOUS
<1>4. PICK new : new = [me EXCEPT !.todo = Tail(me.todo), !.failed = failed,
                                  !.drifted = drifted]
  OBVIOUS
<1>5. /\ AtKey(w, "check")
      /\ worker' = [worker EXCEPT
            ![w].todo    = Tail(@),
            ![w].failed  = IF Reachable(key) THEN @ ELSE noteFailed(@, key),
            ![w].drifted = IF fits THEN @ ELSE @ \cup {key}]
      /\ UNCHANGED <<present, kernel, disturbed, env>>
  BY <1>1 DEF ReadKey
<1>6. TypeOK /\ \A v \in Workers : WorkerInv(v)
  BY DEF IInv
<1>7. /\ me \in Worker /\ me.pc = "run" /\ me.mode = "check"
      /\ key \in Key /\ Tail(me.todo) \in Seq(Key)
      /\ me.entry \in About(me.file, key) /\ me.entry \in DOMAIN me.file
  BY <1>1, <1>5, AtKeyFacts
<1> HIDE DEF fits
<1>8. worker' = [worker EXCEPT ![w] = new]
  <2>1. worker' = [worker EXCEPT ![w].todo = Tail(@), ![w].failed = failed,
                                 ![w].drifted = drifted]
    BY <1>2, <1>3, <1>5, Zenon
  <2>2. QED
    BY <1>4, <2>1
<1>9. /\ failed \in SUBSET Key /\ drifted \in SUBSET Key
      /\ failed = {} => Reachable(key) /\ me.failed = {}
      /\ drifted = {} => fits /\ me.drifted = {}
      /\ \A k \in drifted : k \in me.drifted \/ (k = key /\ ~fits)
  BY <1>2, <1>3, <1>7 DEF Worker, noteFailed
<1>10. /\ new \in Worker
       /\ new.todo = Tail(me.todo) /\ new.entry = me.entry /\ new.file = me.file
       /\ new.pc = "run" /\ new.mode = "check"
       /\ new.failed = failed /\ new.drifted = drifted
  BY <1>4, <1>7, <1>9 DEF Worker
<1>11. Taken(w, key, new)
  <2>1. Takes(w, "check", key, new)
    BY <1>1, <1>5, <1>8, <1>10 DEF Takes
  <2>2. QED
    BY <2>1, TakenOff
<1>12. TypeOK'
  BY <1>5, <1>6, <1>11 DEF TypeOK, Taken
<1>13. AppliedSoFar(w)'
  BY <1>10, <1>11 DEF AppliedSoFar, Started, Taken
<1>14. worker'[w] = new /\ Started(w, "check")
  BY <1>7, <1>11 DEF Taken, Started
<1>15. CheckedSoFar(w)'
  <2>1. Ours(w)' = Ours(w) /\ kernel' = kernel
    BY <1>5 DEF Ours
  <2>2. SUFFICES ASSUME OK(w)', NEW k \in Ours(w), NEW n \in Passed(w, k)'
                 PROVE  kernel[k] = me.file[n].value
    BY <1>10, <1>14, <2>1 DEF CheckedSoFar
  <2>3. failed = {} /\ drifted = {}
    BY <1>10, <1>14, <2>2 DEF OK
  <2>4. OK(w)
    BY <1>9, <2>3 DEF OK
  <2>5. \A i \in Ours(w) : \A m \in Passed(w, i) : kernel[i] = me.file[m].value
    BY <1>6, <1>14, <2>4 DEF WorkerInv, CheckedSoFar
  <2>6. CASE n \in Passed(w, k)
    BY <2>5, <2>6
  <2>7. CASE n \notin Passed(w, k)
    <3>1. k = key /\ n = me.entry
      <4>1. k = key
        BY <1>11, <2>2, <2>7 DEF Taken
      <4>2. n \in Passed(w, key)' /\ n \notin Passed(w, key)
        BY <2>2, <2>7, <4>1
      <4>3. QED
        BY <1>11, <4>1, <4>2 DEF Taken
    <3>2. inSpec(kernel[key], Wanted(w))
      BY <1>9, <2>3 DEF fits
    <3>3. QED
      BY <3>1, <3>2, InSpecTells DEF Wanted
  <2>8. QED
    BY <2>6, <2>7
<1>16. DriftSoFar(w)'
  <2> HIDE DEF me
  <2>1. /\ OneWordEach(w)' <=> OneWordEach(w)
        /\ worker'[w].file = me.file /\ worker'[w].drifted = drifted
        /\ kernel' = kernel /\ disturbed' = disturbed
    BY <1>5, <1>10, <1>14 DEF OneWordEach, me
  <2>2. SUFFICES ASSUME OneWordEach(w), NEW k \in drifted, k \notin disturbed[w]
                 PROVE  \E n \in About(me.file, k) : kernel[k] # me.file[n].value
    BY <2>1 DEF DriftSoFar
  <2>3. CASE k \in me.drifted
    BY <1>6, <1>14, <2>2, <2>3 DEF WorkerInv, DriftSoFar, me
  <2>4. CASE k = key /\ ~fits
    <3>1. Len(Wanted(w)) = 1 /\ ~inSpec(kernel[key], Wanted(w))
      BY <1>7, <2>2, <2>4 DEF Wanted, fits, OneWordEach, me
    <3>2. QED
      BY <1>7, <2>4, <3>1, InSpecTells DEF Wanted, me
  <2>5. QED
    BY <1>9, <2>3, <2>4
<1>17. ASSUME NEW v \in Workers, v # w PROVE WorkerInv(v)'
  BY <1>5, <1>6, <1>11, <1>17, OthersKept DEF Taken
<1>18. QED
  BY <1>11, <1>12, <1>13, <1>15, <1>16, <1>17 DEF IInv, WorkerInv, Taken

----------------------------------------------------------------------------
\* The invariant is kept by every step.
LEMMA NextPreserves == IInv /\ [Next]_vars => IInv'
<1> SUFFICES ASSUME IInv, [Next]_vars PROVE IInv'
  OBVIOUS
<1>1. CASE UNCHANGED vars
  <2>1. TypeOK'
    BY <1>1 DEF vars, IInv, TypeOK
  <2>2. ASSUME NEW v \in Workers PROVE WorkerInv(v)'
    BY <1>1, OthersKept DEF vars, IInv
  <2>3. QED
    BY <2>1, <2>2 DEF IInv
<1>2. ASSUME NEW i \in Ifaces, Hotplug(i) PROVE IInv'
  BY <1>2, HotplugPreserves
<1>3. ASSUME NEW key \in Key, NEW value \in Values, Drift(key, value) PROVE IInv'
  BY <1>3, DriftPreserves
<1>4. ASSUME NEW w \in Workers, NEW mode \in Mode, NEW file \in Files, Start(w, mode, file)
      PROVE  IInv'
  BY <1>4, StartPreserves
<1>5. ASSUME NEW w \in Workers, NextEntry(w) PROVE IInv'
  BY <1>5, NextEntryPreserves
<1>6. ASSUME NEW w \in Workers, WriteKey(w) PROVE IInv'
  BY <1>6, WriteKeyPreserves
<1>7. ASSUME NEW w \in Workers, WriteFails(w) PROVE IInv'
  BY <1>7, WriteFailsPreserves
<1>8. ASSUME NEW w \in Workers, ReadKey(w) PROVE IInv'
  BY <1>8, ReadKeyPreserves
<1>9. QED
  BY <1>1, <1>2, <1>3, <1>4, <1>5, <1>6, <1>7, <1>8 DEF Next

\* What each worker has achieved so far is what Apply and Check say it is, in
\* every state.
THEOREM Invariance == Spec => []IInv
BY InitIInv, NextPreserves, PTL DEF Spec

\* The kernel, the workers and their progress always have their types.
THEOREM TypeCorrect == Spec => []TypeOK
<1>1. IInv => TypeOK
  BY DEF IInv
<1>2. QED
  BY <1>1, Invariance, PTL

\* A worker that is done is through with every entry.
LEMMA DoneHasPassed ==
    ASSUME IInv, NEW w \in Workers, worker[w].pc = "done", NEW key
    PROVE  Passed(w, key) = About(worker[w].file, key) /\ ~Queued(w, key)
<1> DEFINE me == worker[w]
<1>1. me \in Worker /\ me.todo = <<>> /\ me.entry = Len(me.file)
  BY DEF IInv, TypeOK, WorkerInv, DoneAtEnd
<1>2. ~Queued(w, key)
  BY <1>1 DEF Queued
<1>3. DOMAIN me.file = 1 .. me.entry /\ me.entry \in Nat
  <2>1. me.file \in Files \cup {<<>>}
    BY <1>1 DEF Worker
  <2>2. QED
    BY <1>1, <2>1, FileIsSeq
<1>4. ASSUME NEW n \in About(me.file, key) PROVE n < me.entry \/ n = me.entry
  <2>1. n \in 1 .. me.entry
    BY <1>3 DEF About
  <2>2. QED
    BY <1>3, <2>1
<1>5. QED
  BY <1>2, <1>4, Zenon DEF Passed

\* When Apply has succeeded, every key of its file on an interface that has
\* been there all along, and that nobody else has touched since, has the
\* value of the last entry about it: whatever the order of the entries, the
\* interfaces that came and went, and the other workers on the node.
THEOREM ApplyIsSound == Spec => []ApplySound
<1>1. IInv => ApplySound
  <2> SUFFICES ASSUME IInv, NEW w \in Workers, Finished(w, "apply"), OK(w),
                      NEW key \in Undisturbed(w)
               PROVE  \E n \in About(worker[w].file, key) :
                          /\ \A m \in About(worker[w].file, key) : m <= n
                          /\ kernel[key] = worker[w].file[n].value
    BY DEF ApplySound
  <2>1. key \in Ours(w) /\ About(worker[w].file, key) # {}
    BY DEF Undisturbed, Ours
  <2>2. Passed(w, key) = About(worker[w].file, key) /\ ~Queued(w, key)
    BY DoneHasPassed DEF Finished
  <2>3. Started(w, "apply") /\ AppliedSoFar(w)
    BY DEF Finished, Started, IInv, WorkerInv
  <2>4. QED
    BY <2>1, <2>2, <2>3 DEF AppliedSoFar
<1>2. QED
  BY <1>1, Invariance, PTL

\* When Check has succeeded, every such key has the value of every entry
\* about it, though they were read one after the other.
THEOREM CheckIsSound == Spec => []CheckSound
<1>1. IInv => CheckSound
  <2> SUFFICES ASSUME IInv, NEW w \in Workers, Finished(w, "check"), OK(w),
                      NEW key \in Undisturbed(w), NEW n \in About(worker[w].file, key)
               PROVE  kernel[key] = worker[w].file[n].value
    BY DEF CheckSound
  <2>1. key \in Ours(w)
    BY DEF Undisturbed, Ours
  <2>2. n \in Passed(w, key)
    BY DoneHasPassed DEF Finished
  <2>3. Started(w, "check") /\ CheckedSoFar(w)
    BY DEF Finished, Started, IInv, WorkerInv
  <2>4. QED
    BY <2>1, <2>2, <2>3 DEF CheckedSoFar
<1>2. QED
  BY <1>1, Invariance, PTL

\* The drift that Check reports is there, for values of one word, unless
\* others touched the key meanwhile.
THEOREM DriftReal == Spec => []DriftIsReal
<1>1. IInv => DriftIsReal
  <2> SUFFICES ASSUME IInv, NEW w \in Workers, Finished(w, "check"),
                      \A n \in DOMAIN worker[w].file : Len(worker[w].file[n].value) = 1,
                      NEW key \in worker[w].drifted
               PROVE  \/ key \in disturbed[w]
                      \/ \E n \in About(worker[w].file, key) :
                            kernel[key] # worker[w].file[n].value
    BY DEF DriftIsReal, DriftedDiffer
  <2>1. Started(w, "check") /\ OneWordEach(w) /\ DriftSoFar(w)
    BY DEF Finished, Started, OneWordEach, IInv, WorkerInv
  <2>2. QED
    BY <2>1 DEF DriftSoFar
<1>2. QED
  BY <1>1, Invariance, PTL

AggregateStep ==
    \A key \in Key : key[2] \in Aggregates /\ kernel'[key] # kernel[key] /\ env' = env =>
        \E w \in Workers :
            /\ worker'[w] # worker[w]
            /\ AtKey(w, "apply")
            /\ worker[w].entry \in DOMAIN worker[w].file
            /\ worker[w].file[worker[w].entry].iface = key[2]

\* A worker that changes a key of conf/all or conf/default, which the kernel
\* may pass on to every interface, is at an entry that names it: the
\* placeholder never expands to one.
THEOREM AggregatesByName == Spec => AggregatesOnlyByName
<1>1. IInv /\ [Next]_vars => [AggregateStep]_vars
  <2> SUFFICES ASSUME IInv, Next, NEW key \in Key, key[2] \in Aggregates,
                      kernel'[key] # kernel[key], env' = env
               PROVE  \E w \in Workers :
                          /\ worker'[w] # worker[w]
                          /\ AtKey(w, "apply")
                          /\ worker[w].entry \in DOMAIN worker[w].file
                          /\ worker[w].file[worker[w].entry].iface = key[2]
    BY DEF AggregateStep
  <2>1. TypeOK
    BY DEF IInv
  <2>2. ~Env
    BY <2>1, KernelAssumption DEF Env, TypeOK
  <2>3. PICK w \in Workers : WriteKey(w)
    BY <2>2 DEF Next, Hotplug, Drift, Start, NextEntry, WriteFails, ReadKey
  <2>4. /\ AtKey(w, "apply")
        /\ kernel' = [kernel EXCEPT ![Head(worker[w].todo)] = Wanted(w)]
    BY <2>3 DEF WriteKey
  <2>5. key = Head(worker[w].todo)
    BY <2>1, <2>4 DEF TypeOK
  <2>6. worker[w].entry \in About(worker[w].file, key) /\ worker[w].entry \in DOMAIN worker[w].file
    BY <2>4, <2>5, AtKeyFacts
  <2>7. key[2] \notin Ifaces
    BY NamesAssumption
  <2>8. worker'[w] # worker[w]
    <3>1. worker[w] \in Worker /\ worker[w].todo \in Seq(Key) /\ worker[w].todo # <<>>
      BY <2>1, <2>4 DEF TypeOK, Worker, AtKey
    <3>2. worker'[w] = [worker[w] EXCEPT !.todo = Tail(@)]
      BY <2>1, <2>3 DEF WriteKey, TypeOK
    <3>3. worker'[w].todo = Tail(worker[w].todo)
      BY <3>1, <3>2 DEF Worker
    <3>4. Len(Tail(worker[w].todo)) = Len(worker[w].todo) - 1 /\ Len(worker[w].todo) \in Nat
      BY <3>1
    <3>5. ASSUME Tail(worker[w].todo) = worker[w].todo PROVE FALSE
      <4>1. Len(Tail(worker[w].todo)) = Len(worker[w].todo)
        BY <3>5, Zenon
      <4>. QED  BY <3>4, <4>1
    <3>6. worker'[w].todo # worker[w].todo
      BY <3>3, <3>5, Zenon
    <3>. QED  BY <3>6, Zenon
  <2>9. QED
    BY <2>4, <2>6, <2>7, <2>8 DEF About
<1>2. AggregatesOnlyByName <=> [][AggregateStep]_vars
  BY PTL DEF AggregatesOnlyByName, AggregateStep
<1>3. QED
  BY <1>1, <1>2, Invariance, PTL DEF Spec
=============================================================================
