-------------------------- MODULE Background_proofs --------------------------
(***************************************************************************)
(* Theorems about what goes on beside the requests, for every value of its *)
(* constants.                                                              *)
(***************************************************************************)
EXTENDS Background, FiniteSetTheorems, SequenceTheorems, WellFoundedInduction, TLAPS

-----------------------------------------------------------------------------
(* A run of the simulation platform *)

(* What the bounds and the sockets can be. *)
RunOK == Slots \in Nat /\ MaxStarts \in Nat /\ IsFiniteSet(Clients) /\ Watchers \subseteq Clients

Loops == [pc : {"none", "asleep", "sending", "done"}, left : SUBSET Clients, dead : SUBSET Clients,
          size : Nat, cancelled : BOOLEAN]
RunCalls == [pc : {"idle", "spawning", "settling", "stopping"}, n : 0..MaxStarts,
             seen : Run!Status]

RunTypes ==
  /\ {runRow, run, adapter} \subseteq Run!Status
  /\ managed \in 0..MaxStarts /\ task \in 0..MaxStarts
  /\ process \in [Run!Starts -> {"absent", "running", "ending", "exited"}]
  /\ loop \in [Run!Starts -> Loops]
  /\ call \in [Run!Calls -> RunCalls]
  /\ \A c \in Run!Calls : call[c].pc # "idle" => call[c].n # 0
  /\ starts \in 0..MaxStarts /\ gauge \in Nat
  /\ sockets \subseteq Clients /\ broken \subseteq Clients /\ served \subseteq Clients
  /\ misused \in BOOLEAN

(* In turn, one request at a time is on its way, and where it is says what *)
(* it will find when it goes on.                                           *)
Gone(n) == process[n] \in {"absent", "exited"}
OneCall == \A c, d \in Run!Calls : call[c].pc # "idle" /\ call[d].pc # "idle" => c = d
CallKnows(c) ==
  /\ call[c].pc \in {"spawning", "settling"} =>
       /\ run \notin Run!Active
       /\ runRow \in {call[c].seen, "RUNNING", "PAUSED"}
  /\ call[c].pc = "spawning" => \A n \in Run!Starts : Gone(n)
  /\ call[c].pc = "settling" => managed = call[c].n /\ process[managed] # "ending"
  /\ call[c].pc = "stopping" =>
       /\ run \in Run!Active
       /\ call[c].seen \notin {"STOPPED", "FAILED"}
       /\ managed = call[c].n /\ process[managed] \in {"ending", "exited"}
       /\ \A n \in Run!Starts : ~Run!Live(n)
Settling == \E c \in Run!Calls : call[c].pc = "settling"

RunOrder ==
  /\ OneCall
  /\ \A c \in Run!Calls : CallKnows(c)
  /\ \A n \in Run!Starts : Gone(n) \/ managed = n
  /\ run \notin Run!Active /\ ~Settling => \A n \in Run!Starts : Gone(n)
  /\ Run!AllIdle => \A n \in Run!Starts : process[n] # "ending"
  /\ \A n \in Run!Starts : Run!Live(n) => n = task /\ run \in Run!Active
  /\ gauge = IF run \in Run!Active THEN 1 ELSE 0
  /\ Run!AllIdle /\ runRow \in {"STOPPED", "FAILED"} => run = runRow

RunInv == RunTypes /\ adapter = run /\ (~misused => RunOrder)

-----------------------------------------------------------------------------
LEMMA RunCardinality == \A S : Run!Cardinality(S) = Cardinality(S)
  BY DEF Run!Cardinality, Cardinality

LEMMA CallMoves ==
  ASSUME RunTypes, NEW c \in Run!Calls, NEW new \in RunCalls, call' = [call EXCEPT ![c] = new],
         new.pc # "idle" => new.n # 0
  PROVE  /\ call' \in [Run!Calls -> RunCalls]
         /\ \A d \in Run!Calls : call'[d].pc # "idle" => call'[d].n # 0
         /\ call'[c] = new
         /\ \A d \in Run!Calls \ {c} : call'[d] = call[d]
  BY DEF RunTypes

LEMMA NoCallIdle == ASSUME RunOK PROVE Run!NoCall \in RunCalls /\ Run!NoCall.pc = "idle"
  BY DEF Run!NoCall, RunCalls, Run!Status, RunOK

LEMMA LoopMoves ==
  ASSUME RunTypes, NEW n \in Run!Starts, NEW new \in Loops, loop' = [loop EXCEPT ![n] = new]
  PROVE  /\ loop' \in [Run!Starts -> Loops] /\ loop'[n] = new
         /\ \A k \in Run!Starts \ {n} : loop'[k] = loop[k]
  BY DEF RunTypes

(* A start that succeeds when the run was not active and nobody else is    *)
(* about: its loop is the only one.                                        *)
LEMMA StartedKeeps ==
  ASSUME RunOK, RunInv, NEW c \in Run!Calls, NEW n \in Run!Starts, NEW seen \in Run!Status,
         Run!Started(c, n, seen), starts' \in 0..MaxStarts, misused' \in BOOLEAN,
         UNCHANGED <<managed, process, sockets, broken, served>>,
         ~misused' =>
           /\ ~misused /\ run \notin Run!Active
           /\ \A d \in Run!Calls \ {c} : call[d].pc = "idle"
           /\ runRow \in {seen, "RUNNING", "PAUSED"}
           /\ \A k \in Run!Starts : process[k] # "ending"
  PROVE  RunInv'
<1> USE DEF Run!Status, Run!Active
<1>1. /\ adapter' = "RUNNING" /\ run' = "RUNNING"
      /\ runRow' = IF seen = "RUNNING" THEN runRow ELSE "RUNNING"
      /\ gauge' = gauge + 1 /\ task' = n
      /\ loop' = [loop EXCEPT ![n].pc = "asleep"]
      /\ call' = [call EXCEPT ![c] = Run!NoCall]
  BY DEF Run!Started, Run!WriteRow
<1>2. /\ call' \in [Run!Calls -> RunCalls]
      /\ \A d \in Run!Calls : call'[d].pc # "idle" => call'[d].n # 0
      /\ call'[c] = Run!NoCall
      /\ \A d \in Run!Calls \ {c} : call'[d] = call[d]
  BY <1>1, CallMoves, NoCallIdle DEF RunInv
<1>3. /\ loop' \in [Run!Starts -> Loops]
      /\ \A k \in Run!Starts \ {n} : loop'[k] = loop[k]
  <2>1. loop[n] \in Loops
    BY DEF RunInv, RunTypes
  <2>2. [loop[n] EXCEPT !.pc = "asleep"] \in Loops
    BY <2>1 DEF Loops
  <2> QED
    BY <1>1, <2>2, LoopMoves DEF RunInv
<1>4. RunTypes'
  BY <1>1, <1>2, <1>3 DEF RunInv, RunTypes, RunOK, Run!Starts
<1>5. ASSUME ~misused' PROVE RunOrder'
  <2>1. RunOrder
    BY <1>5 DEF RunInv
  <2>2. \A d \in Run!Calls : call'[d].pc = "idle"
    BY <1>2, <1>5, NoCallIdle
  <2>3. \A k \in Run!Starts : ~Run!Live(k)
    BY <1>5, <2>1 DEF RunOrder
  <2>4. \A k \in Run!Starts : Run!Live(k)' => k = n
    BY <1>3, <2>3 DEF Run!Live
  <2>5. OneCall' /\ \A d \in Run!Calls : CallKnows(d)'
    BY <2>2 DEF OneCall, CallKnows
  <2>6. gauge' = 1
    BY <1>1, <1>5, <2>1 DEF RunOrder
  <2>7. runRow' \notin {"STOPPED", "FAILED"}
    BY <1>1, <1>5
  <2>8. \A k \in Run!Starts : Gone(k)' \/ managed' = k
    BY <2>1 DEF RunOrder, Gone
  <2>9. \A k \in Run!Starts : process'[k] # "ending"
    BY <1>5
  <2> QED
    BY <1>1, <2>4, <2>5, <2>6, <2>7, <2>8, <2>9 DEF RunOrder
<1> QED
  BY <1>1, <1>4, <1>5 DEF RunInv

LEMMA StartFailedKeeps ==
  ASSUME RunOK, RunInv, NEW c \in Run!Calls, NEW seen \in Run!Status,
         Run!StartFailed(c, seen), starts' \in 0..MaxStarts, misused' \in BOOLEAN,
         UNCHANGED <<managed, process, sockets, broken, served>>,
         ~misused' =>
           /\ ~misused /\ run \notin Run!Active
           /\ \A d \in Run!Calls \ {c} : call[d].pc = "idle"
           /\ runRow \in {seen, "RUNNING", "PAUSED"}
           /\ \A k \in Run!Starts : Gone(k)
  PROVE  RunInv'
<1> USE DEF Run!Status, Run!Active
<1>1. /\ adapter' = "FAILED" /\ run' = "FAILED"
      /\ runRow' = IF seen = "FAILED" THEN runRow ELSE "FAILED"
      /\ call' = [call EXCEPT ![c] = Run!NoCall]
      /\ UNCHANGED <<gauge, task, loop>>
  BY DEF Run!StartFailed, Run!WriteRow
<1>2. /\ call' \in [Run!Calls -> RunCalls]
      /\ \A d \in Run!Calls : call'[d].pc # "idle" => call'[d].n # 0
      /\ call'[c] = Run!NoCall
      /\ \A d \in Run!Calls \ {c} : call'[d] = call[d]
  BY <1>1, CallMoves, NoCallIdle DEF RunInv
<1>3. RunTypes'
  BY <1>1, <1>2 DEF RunInv, RunTypes
<1>4. ASSUME ~misused' PROVE RunOrder'
  <2>1. RunOrder
    BY <1>4 DEF RunInv
  <2>2. \A d \in Run!Calls : call'[d].pc = "idle"
    BY <1>2, <1>4, NoCallIdle
  <2>3. \A k \in Run!Starts : ~Run!Live(k)'
    BY <1>1, <1>4, <2>1 DEF RunOrder, Run!Live
  <2>4. OneCall' /\ \A d \in Run!Calls : CallKnows(d)'
    BY <2>2 DEF OneCall, CallKnows
  <2>5. gauge' = 0
    BY <1>1, <1>4, <2>1 DEF RunOrder
  <2>6. runRow' \in {"STOPPED", "FAILED"} => run' = runRow'
    BY <1>1, <1>4
  <2>7. \A k \in Run!Starts : Gone(k)'
    BY <1>4 DEF Gone
  <2> QED
    BY <1>1, <2>3, <2>4, <2>5, <2>6, <2>7 DEF RunOrder, Gone
<1> QED
  BY <1>1, <1>3, <1>4 DEF RunInv

(* The end of a stop leaves no process and no loop that would go on.       *)
LEMMA StoppedKeeps ==
  ASSUME RunOK, RunInv, NEW c \in Run!Calls, NEW seen \in Run!Status,
         Run!Stopped(c, seen), managed' = 0, misused' \in BOOLEAN,
         loop' \in [Run!Starts -> Loops],
         UNCHANGED <<process, task, starts, sockets, broken, served>>,
         ~misused' =>
           /\ ~misused /\ run \in Run!Active
           /\ \A d \in Run!Calls \ {c} : call[d].pc = "idle"
           /\ seen \notin {"STOPPED", "FAILED"}
           /\ \A k \in Run!Starts : Gone(k) /\ ~Run!Live(k)'
  PROVE  RunInv'
<1> USE DEF Run!Status, Run!Active
<1>1. /\ adapter' = "STOPPED" /\ run' = "STOPPED"
      /\ runRow' = IF seen = "STOPPED" THEN runRow ELSE "STOPPED"
      /\ gauge' = IF gauge = 0 THEN 0 ELSE gauge - 1
      /\ call' = [call EXCEPT ![c] = Run!NoCall]
  BY DEF Run!Stopped, Run!WriteRow
<1>2. /\ call' \in [Run!Calls -> RunCalls]
      /\ \A d \in Run!Calls : call'[d].pc # "idle" => call'[d].n # 0
      /\ call'[c] = Run!NoCall
      /\ \A d \in Run!Calls \ {c} : call'[d] = call[d]
  BY <1>1, CallMoves, NoCallIdle DEF RunInv
<1>3. RunTypes'
  BY <1>1, <1>2 DEF RunInv, RunTypes, RunOK
<1>4. ASSUME ~misused' PROVE RunOrder'
  <2>1. RunOrder
    BY <1>4 DEF RunInv
  <2>2. \A d \in Run!Calls : call'[d].pc = "idle"
    BY <1>2, <1>4, NoCallIdle
  <2>3. OneCall' /\ \A d \in Run!Calls : CallKnows(d)'
    BY <2>2 DEF OneCall, CallKnows
  <2>4. gauge' = 0
    BY <1>1, <1>4, <2>1 DEF RunOrder
  <2>5. runRow' = "STOPPED"
    BY <1>1, <1>4
  <2>6. \A k \in Run!Starts : Gone(k)'
    BY <1>4 DEF Gone
  <2> QED
    BY <1>1, <1>4, <2>3, <2>4, <2>5, <2>6 DEF RunOrder, Gone
<1> QED
  BY <1>1, <1>3, <1>4 DEF RunInv

LEMMA FreeAlone ==
  ASSUME RunTypes, NEW c \in Run!Calls, Run!Free(c), Run!OthersIdle(c)
  PROVE  Run!AllIdle /\ \A d \in Run!Calls \ {c} : call[d].pc = "idle"
  BY DEF Run!Free, Run!OthersIdle, Run!AllIdle

LEMMA ArriveStartKeeps ==
  ASSUME RunOK, RunInv, NEW c \in Run!Calls, Run!ArriveStart(c)
  PROVE  RunInv'
<1> DEFINE n == starts + 1
<1>1. /\ n \in Run!Starts /\ starts' = n /\ starts' \in 0..MaxStarts
      /\ runRow \in Run!Status
      /\ Run!Free(c)
      /\ UNCHANGED <<managed, process, sockets, broken, served>>
  BY DEF Run!ArriveStart, Run!socketVars, RunInv, RunTypes, RunOK, Run!Starts
<1>2. /\ misused' \in BOOLEAN
      /\ ~misused' => ~misused /\ run \notin Run!Active /\ Run!OthersIdle(c)
  <2>1. misused' = (misused \/ run \in Run!Active \/ ~Run!OthersIdle(c))
    BY DEF Run!ArriveStart
  <2> QED
    BY <2>1 DEF RunInv, RunTypes
<1>3. ~misused' => /\ RunOrder /\ Run!AllIdle
                   /\ \A d \in Run!Calls \ {c} : call[d].pc = "idle"
                   /\ \A k \in Run!Starts : Gone(k)
  <2> SUFFICES ASSUME ~misused' PROVE /\ RunOrder /\ Run!AllIdle
                                      /\ \A d \in Run!Calls \ {c} : call[d].pc = "idle"
                                      /\ \A k \in Run!Starts : Gone(k)
    OBVIOUS
  <2>1. RunOrder /\ Run!AllIdle /\ \A d \in Run!Calls \ {c} : call[d].pc = "idle"
    BY <1>1, <1>2, FreeAlone DEF RunInv
  <2>2. ~Settling
    BY <2>1 DEF Run!AllIdle, Settling
  <2> QED
    BY <1>2, <2>1, <2>2 DEF RunOrder
<1>4. CASE launch = "process"
  <2> DEFINE new == [pc |-> "spawning", n |-> n, seen |-> runRow]
  <2>1. /\ call' = [call EXCEPT ![c] = new]
        /\ UNCHANGED <<adapter, run, runRow, gauge, task, loop>>
    BY <1>4 DEF Run!ArriveStart
  <2>2. new \in RunCalls /\ new.n # 0
    BY <1>1 DEF RunCalls, Run!Starts, RunOK
  <2>3. /\ call' \in [Run!Calls -> RunCalls]
        /\ \A d \in Run!Calls : call'[d].pc # "idle" => call'[d].n # 0
        /\ call'[c] = new
        /\ \A d \in Run!Calls \ {c} : call'[d] = call[d]
    <3> HIDE DEF new
    <3> QED
      BY <2>1, <2>2, CallMoves DEF RunInv
  <2>4. RunTypes'
    BY <1>1, <1>2, <2>1, <2>3 DEF RunInv, RunTypes
  <2>5. ASSUME ~misused' PROVE RunOrder'
    <3>1. \A d \in Run!Calls \ {c} : call'[d].pc = "idle"
      BY <1>3, <2>3, <2>5
    <3>2. OneCall'
      BY <3>1 DEF OneCall
    <3>3. CallKnows(c)'
      BY <1>1, <1>2, <1>3, <2>1, <2>3, <2>5 DEF CallKnows, Gone
    <3>4. \A d \in Run!Calls : CallKnows(d)'
      BY <3>1, <3>3 DEF CallKnows
    <3>5. \A k \in Run!Starts : Gone(k)'
      BY <1>1, <1>3, <2>5 DEF Gone
    <3>6. ~Run!AllIdle'
      BY <2>3 DEF Run!AllIdle
    <3>7. \A k \in Run!Starts : Run!Live(k)' => Run!Live(k)
      BY <2>1 DEF Run!Live
    <3> QED
      BY <1>3, <2>1, <2>5, <3>2, <3>4, <3>5, <3>6, <3>7 DEF RunOrder
  <2> QED
    BY <2>1, <2>4, <2>5 DEF RunInv
<1>5. CASE launch = "fallback"
  <2>1. Run!Started(c, n, runRow)
    BY <1>5 DEF Run!ArriveStart
  <2>2. \A k \in Run!Starts : Gone(k) => process[k] # "ending"
    BY DEF Gone
  <2> QED
    BY <1>1, <1>2, <1>3, <2>1, <2>2, StartedKeeps
<1>6. CASE launch \notin {"process", "fallback"}
  <2>1. Run!StartFailed(c, runRow)
    BY <1>6 DEF Run!ArriveStart
  <2> QED
    BY <1>1, <1>2, <1>3, <2>1, StartFailedKeeps
<1> QED
  BY <1>4, <1>5, <1>6

LEMMA SpawnedKeeps ==
  ASSUME RunOK, RunInv, NEW c \in Run!Calls, Run!Spawned(c)
  PROVE  RunInv'
<1> DEFINE n == call[c].n
           new == [call[c] EXCEPT !.pc = "settling"]
<1>1. /\ call[c].pc = "spawning" /\ process' = [process EXCEPT ![n] = "running"]
      /\ managed' = n /\ call' = [call EXCEPT ![c] = new]
      /\ UNCHANGED <<runRow, run, adapter, loop, task, starts, gauge, misused, sockets, broken,
                     served>>
  BY DEF Run!Spawned, Run!socketVars
<1>2. call[c] \in RunCalls /\ n \in Run!Starts
  BY <1>1 DEF RunInv, RunTypes, RunCalls, Run!Starts, RunOK
<1>3. new \in RunCalls /\ new.pc = "settling" /\ new.n = n /\ new.seen = call[c].seen /\ n # 0
  BY <1>2, RunOK DEF RunCalls, Run!Starts
<1>4. /\ call' \in [Run!Calls -> RunCalls]
      /\ \A d \in Run!Calls : call'[d].pc # "idle" => call'[d].n # 0
      /\ call'[c] = new
      /\ \A d \in Run!Calls \ {c} : call'[d] = call[d]
  <2> HIDE DEF new
  <2> QED
    BY <1>1, <1>3, CallMoves DEF RunInv
<1>5. /\ process' \in [Run!Starts -> {"absent", "running", "ending", "exited"}]
      /\ process'[n] = "running"
      /\ \A k \in Run!Starts \ {n} : process'[k] = process[k]
  BY <1>1, <1>2 DEF RunInv, RunTypes
<1> HIDE DEF n, new
<1>6. RunTypes'
  BY <1>1, <1>2, <1>4, <1>5 DEF RunInv, RunTypes, Run!Starts, RunOK
<1>7. ASSUME ~misused' PROVE RunOrder'
  <2>1. RunOrder /\ CallKnows(c) /\ \A k \in Run!Starts : Gone(k)
    BY <1>1, <1>7 DEF RunInv, RunOrder, CallKnows
  <2>2. \A d \in Run!Calls \ {c} : call[d].pc = "idle"
    BY <1>1, <2>1 DEF RunOrder, OneCall
  <2>3. \A d \in Run!Calls \ {c} : call'[d].pc = "idle"
    BY <1>4, <2>2
  <2>4. OneCall'
    BY <2>3 DEF OneCall
  <2>5. CallKnows(c)'
    BY <1>1, <1>3, <1>4, <1>5, <2>1 DEF CallKnows
  <2>6. \A d \in Run!Calls : CallKnows(d)'
    BY <2>3, <2>5 DEF CallKnows
  <2>7. \A k \in Run!Starts : Gone(k)' \/ managed' = k
    BY <1>1, <1>5, <2>1 DEF Gone
  <2>8. Settling' /\ ~Run!AllIdle'
    BY <1>3, <1>4 DEF Settling, Run!AllIdle
  <2>9. \A k \in Run!Starts : Run!Live(k)' => Run!Live(k)
    BY <1>1 DEF Run!Live
  <2> QED
    BY <1>1, <2>1, <2>4, <2>6, <2>7, <2>8, <2>9 DEF RunOrder
<1> QED
  BY <1>1, <1>6, <1>7 DEF RunInv

LEMMA SpawnFailedKeeps ==
  ASSUME RunOK, RunInv, NEW c \in Run!Calls, Run!SpawnFailed(c)
  PROVE  RunInv'
<1>1. /\ call[c].pc = "spawning" /\ Run!StartFailed(c, call[c].seen)
      /\ UNCHANGED <<managed, process, starts, misused, sockets, broken, served>>
  BY DEF Run!SpawnFailed, Run!socketVars
<1>2. call[c].seen \in Run!Status /\ starts' \in 0..MaxStarts /\ misused' \in BOOLEAN
  BY <1>1 DEF RunInv, RunTypes, RunCalls
<1>3. ~misused' => /\ ~misused /\ RunOrder /\ CallKnows(c)
                   /\ \A d \in Run!Calls \ {c} : call[d].pc = "idle"
  BY <1>1 DEF RunInv, RunOrder, OneCall
<1> QED
  BY <1>1, <1>2, <1>3, StartFailedKeeps DEF CallKnows

LEMMA SettledKeeps ==
  ASSUME RunOK, RunInv, NEW c \in Run!Calls, Run!Settled(c)
  PROVE  RunInv'
<1>1. /\ call[c].pc = "settling"
      /\ UNCHANGED <<managed, process, starts, misused, sockets, broken, served>>
  BY DEF Run!Settled, Run!socketVars
<1>2. /\ call[c].seen \in Run!Status /\ starts' \in 0..MaxStarts /\ misused' \in BOOLEAN
      /\ call[c].n \in Run!Starts
  BY <1>1 DEF RunInv, RunTypes, RunCalls, Run!Starts, RunOK
<1>3. ~misused' => /\ ~misused /\ RunOrder /\ CallKnows(c)
                   /\ \A d \in Run!Calls \ {c} : call[d].pc = "idle"
                   /\ \A k \in Run!Starts : process[k] # "ending"
  <2> SUFFICES ASSUME ~misused'
               PROVE  /\ RunOrder /\ CallKnows(c)
                      /\ \A d \in Run!Calls \ {c} : call[d].pc = "idle"
                      /\ \A k \in Run!Starts : process[k] # "ending"
    BY <1>1
  <2>1. RunOrder /\ CallKnows(c) /\ \A d \in Run!Calls \ {c} : call[d].pc = "idle"
    BY <1>1 DEF RunInv, RunOrder, OneCall
  <2> QED
    BY <1>1, <2>1 DEF RunOrder, CallKnows, Gone
<1>4. CASE managed # 0 /\ process[managed] # "exited"
  <2>1. Run!Started(c, call[c].n, call[c].seen)
    BY <1>4 DEF Run!Settled
  <2> QED
    BY <1>1, <1>2, <1>3, <2>1, StartedKeeps DEF CallKnows
<1>5. CASE ~(managed # 0 /\ process[managed] # "exited")
  <2>1. Run!StartFailed(c, call[c].seen)
    BY <1>5 DEF Run!Settled
  <2>2. ~misused' => \A k \in Run!Starts : Gone(k)
    BY <1>1, <1>2, <1>3, <1>5 DEF CallKnows, RunOrder, Gone, Run!Starts, RunOK
  <2> QED
    BY <1>1, <1>2, <1>3, <2>1, <2>2, StartFailedKeeps DEF CallKnows
<1> QED
  BY <1>4, <1>5

(* A request that writes the row and, if the adapter agrees, turns an      *)
(* active run into an active run.                                          *)
LEMMA TurnedKeeps ==
  ASSUME RunOK, RunInv, NEW status \in {"RUNNING", "PAUSED"}, runRow' = status,
         \/ UNCHANGED <<adapter, run>>
         \/ run \in Run!Active /\ adapter' = status /\ run' = status,
         UNCHANGED <<managed, process, loop, task, call, starts, gauge, misused, sockets, broken,
                     served>>
  PROVE  RunInv'
<1>1. RunTypes' /\ adapter' = run'
  BY DEF RunInv, RunTypes, Run!Status
<1>2. run' \in Run!Active <=> run \in Run!Active
  BY DEF Run!Active
<1>3. ASSUME ~misused' PROVE RunOrder'
  <2>1. RunOrder
    BY <1>3 DEF RunInv
  <2>2. OneCall' /\ \A c \in Run!Calls : CallKnows(c)'
    BY <1>2, <2>1 DEF RunOrder, OneCall, CallKnows, Gone, Run!Live
  <2> QED
    BY <1>2, <2>1, <2>2 DEF RunOrder, Gone, Settling, Run!AllIdle, Run!Live
<1> QED
  BY <1>1, <1>3 DEF RunInv

LEMMA PauseKeeps ==
  ASSUME RunOK, RunInv, NEW c \in Run!Calls, Run!Pause(c) \/ Run!Resume(c)
  PROVE  RunInv'
<1>1. CASE Run!Pause(c)
  BY <1>1, TurnedKeeps DEF Run!Pause, Run!socketVars, Run!Active, RunInv
<1>2. CASE Run!Resume(c)
  BY <1>2, TurnedKeeps DEF Run!Resume, Run!socketVars, Run!Active, RunInv
<1> QED
  BY <1>1, <1>2

(* What a stop makes of the loops: the one it knows is told to end.        *)
LEMMA CancelledLoops ==
  ASSUME RunOK, RunTypes, loop' = Run!Cancelled
  PROVE  /\ loop' \in [Run!Starts -> Loops]
         /\ RunOrder => \A k \in Run!Starts : ~Run!Live(k)'
<1>1. CASE task # 0 /\ loop[task].pc # "done"
  <2> DEFINE new == [loop[task] EXCEPT !.cancelled = TRUE]
  <2>1. task \in Run!Starts /\ loop' = [loop EXCEPT ![task] = new]
    BY <1>1 DEF RunTypes, RunOK, Run!Starts, Run!Cancelled
  <2>2. new \in Loops /\ new.cancelled
    BY <2>1, ZenonT(30) DEF RunTypes, Loops
  <2>3. /\ loop' \in [Run!Starts -> Loops] /\ loop'[task] = new
        /\ \A k \in Run!Starts \ {task} : loop'[k] = loop[k]
    <3> HIDE DEF new
    <3> QED
      BY <2>1, <2>2, LoopMoves
  <2> QED
    BY <2>2, <2>3 DEF RunOrder, Run!Live
<1>2. CASE ~(task # 0 /\ loop[task].pc # "done")
  <2>1. loop' = loop
    BY <1>2 DEF Run!Cancelled
  <2> QED
    BY <1>2, <2>1 DEF RunTypes, RunOrder, Run!Live, Run!Starts, RunOK
<1> QED
  BY <1>1, <1>2

LEMMA ArriveStopKeeps ==
  ASSUME RunOK, RunInv, NEW c \in Run!Calls, Run!ArriveStop(c)
  PROVE  RunInv'
<1>1. /\ Run!Free(c) /\ runRow \in Run!Status
      /\ loop' = Run!Cancelled
      /\ UNCHANGED <<task, starts, sockets, broken, served>>
  BY DEF Run!ArriveStop, Run!socketVars, RunInv, RunTypes
<1>2. /\ misused' \in BOOLEAN
      /\ ~misused' => ~misused /\ run \in Run!Active /\ Run!OthersIdle(c)
  <2>1. misused' = (misused \/ run \notin Run!Active \/ ~Run!OthersIdle(c))
    BY DEF Run!ArriveStop
  <2> QED
    BY <2>1 DEF RunInv, RunTypes
<1>3. ~misused' => /\ RunOrder /\ Run!AllIdle
                   /\ \A d \in Run!Calls \ {c} : call[d].pc = "idle"
                   /\ runRow \notin {"STOPPED", "FAILED"}
  <2> SUFFICES ASSUME ~misused' PROVE /\ RunOrder /\ Run!AllIdle
                                      /\ \A d \in Run!Calls \ {c} : call[d].pc = "idle"
                                      /\ runRow \notin {"STOPPED", "FAILED"}
    OBVIOUS
  <2>1. RunOrder /\ Run!AllIdle /\ \A d \in Run!Calls \ {c} : call[d].pc = "idle"
    BY <1>1, <1>2, FreeAlone DEF RunInv
  <2> QED
    BY <1>2, <2>1 DEF RunOrder, Run!Active
<1>4. /\ loop' \in [Run!Starts -> Loops]
      /\ ~misused' => \A k \in Run!Starts : ~Run!Live(k)'
  BY <1>1, <1>3, CancelledLoops DEF RunInv
<1>5. CASE managed = 0 \/ process[managed] = "exited"
  <2>1. managed' = 0 /\ Run!Stopped(c, runRow) /\ UNCHANGED process
    BY <1>5 DEF Run!ArriveStop
  <2>2. ~misused' => \A k \in Run!Starts : Gone(k)
    BY <1>3, <1>5 DEF RunOrder, Gone, Run!Starts
  <2> QED
    BY <1>1, <1>2, <1>3, <1>4, <2>1, <2>2, StoppedKeeps
<1>6. CASE ~(managed = 0 \/ process[managed] = "exited")
  <2> DEFINE new == [pc |-> "stopping", n |-> managed, seen |-> runRow]
  <2>1. /\ process' = [process EXCEPT ![managed] = "ending"]
        /\ call' = [call EXCEPT ![c] = new]
        /\ UNCHANGED <<managed, adapter, run, runRow, gauge>>
    BY <1>6 DEF Run!ArriveStop
  <2>2. new \in RunCalls /\ new.n # 0 /\ managed \in Run!Starts
    BY <1>1, <1>6 DEF RunCalls, RunInv, RunTypes, Run!Starts, RunOK
  <2>3. /\ call' \in [Run!Calls -> RunCalls]
        /\ \A d \in Run!Calls : call'[d].pc # "idle" => call'[d].n # 0
        /\ call'[c] = new
        /\ \A d \in Run!Calls \ {c} : call'[d] = call[d]
    <3> HIDE DEF new
    <3> QED
      BY <2>1, <2>2, CallMoves DEF RunInv
  <2>4. /\ process' \in [Run!Starts -> {"absent", "running", "ending", "exited"}]
        /\ process'[managed] = "ending"
        /\ \A k \in Run!Starts \ {managed} : process'[k] = process[k]
    BY <2>1, <2>2 DEF RunInv, RunTypes
  <2>5. RunTypes'
    BY <1>1, <1>2, <1>4, <2>1, <2>3, <2>4 DEF RunInv, RunTypes
  <2>6. ASSUME ~misused' PROVE RunOrder'
    <3>1. \A d \in Run!Calls \ {c} : call'[d].pc = "idle"
      BY <1>3, <2>3, <2>6
    <3>2. OneCall'
      BY <3>1 DEF OneCall
    <3>3. CallKnows(c)'
      BY <1>2, <1>3, <1>4, <2>1, <2>3, <2>4, <2>6 DEF CallKnows
    <3>4. \A d \in Run!Calls : CallKnows(d)'
      BY <3>1, <3>3 DEF CallKnows
    <3>5. \A k \in Run!Starts : Gone(k)' \/ managed' = k
      BY <1>3, <2>1, <2>4, <2>6 DEF RunOrder, Gone
    <3>6. ~Run!AllIdle'
      BY <2>3 DEF Run!AllIdle
    <3> QED
      BY <1>2, <1>3, <1>4, <2>1, <2>6, <3>2, <3>4, <3>5, <3>6 DEF RunOrder
  <2> QED
    BY <2>1, <2>5, <2>6 DEF RunInv
<1> QED
  BY <1>5, <1>6

LEMMA FinishStopKeeps ==
  ASSUME RunOK, RunInv, NEW c \in Run!Calls, Run!FinishStop(c)
  PROVE  RunInv'
<1>1. /\ call[c].pc = "stopping" /\ process[call[c].n] = "exited" /\ managed' = 0
      /\ Run!Stopped(c, call[c].seen)
      /\ UNCHANGED <<process, loop, task, starts, misused, sockets, broken, served>>
  BY DEF Run!FinishStop, Run!socketVars
<1>2. /\ call[c].seen \in Run!Status /\ misused' \in BOOLEAN
      /\ loop' \in [Run!Starts -> Loops]
  BY <1>1 DEF RunInv, RunTypes, RunCalls
<1>3. ~misused' => /\ ~misused /\ RunOrder /\ CallKnows(c)
                   /\ \A d \in Run!Calls \ {c} : call[d].pc = "idle"
  BY <1>1 DEF RunInv, RunOrder, OneCall
<1>4. ~misused' => \A k \in Run!Starts : Gone(k) /\ ~Run!Live(k)'
  BY <1>1, <1>3 DEF RunOrder, CallKnows, Gone, Run!Live
<1> QED
  BY <1>1, <1>2, <1>3, <1>4, StoppedKeeps DEF CallKnows

(* A process ends, of a signal or by itself.                               *)
LEMMA ProcessKeeps ==
  ASSUME RunOK, RunInv, NEW n \in Run!Starts, Run!ProcessEnds(n) \/ Run!ProcessCrashes(n)
  PROVE  RunInv'
<1>1. /\ process' = [process EXCEPT ![n] = "exited"]
      /\ UNCHANGED <<runRow, run, adapter, managed, loop, task, call, starts, gauge, misused,
                     sockets, broken, served>>
  BY DEF Run!ProcessEnds, Run!ProcessCrashes, Run!socketVars
<1>2. /\ process' \in [Run!Starts -> {"absent", "running", "ending", "exited"}]
      /\ \A k \in Run!Starts : process'[k] = "exited" \/ process'[k] = process[k]
  BY <1>1 DEF RunInv, RunTypes
<1>3. RunTypes'
  BY <1>1, <1>2 DEF RunInv, RunTypes
<1>4. ASSUME ~misused' PROVE RunOrder'
  <2>1. RunOrder
    BY <1>1, <1>4 DEF RunInv
  <2>2. \A c \in Run!Calls : CallKnows(c)'
    <3> SUFFICES ASSUME NEW c \in Run!Calls PROVE CallKnows(c)'
      OBVIOUS
    <3>1. CallKnows(c) /\ (call[c].pc \in {"settling", "stopping"} => call[c].n \in Run!Starts)
      BY <2>1 DEF RunOrder, RunInv, RunTypes, RunCalls, Run!Starts, RunOK
    <3> QED
      BY <1>1, <1>2, <3>1 DEF CallKnows, Gone, Run!Live
  <2> QED
    BY <1>1, <1>2, <2>1, <2>2 DEF RunOrder, OneCall, Gone, Settling, Run!AllIdle, Run!Live
<1> QED
  BY <1>1, <1>3, <1>4 DEF RunInv

(* A loop goes on: it comes to life no more, and touches nothing else but  *)
(* the sockets.                                                            *)
LEMMA LoopKeeps ==
  ASSUME RunOK, RunInv, NEW n \in Run!Starts, NEW new \in Loops, Run!LoopSays(n, new),
         new.pc \in {"asleep", "sending"} /\ ~new.cancelled => Run!Live(n),
         sockets' \subseteq Clients, served' \subseteq Clients, UNCHANGED broken
  PROVE  RunInv'
<1>1. /\ loop' = [loop EXCEPT ![n] = new]
      /\ UNCHANGED <<runRow, run, adapter, managed, process, task, call, starts, gauge, misused>>
  BY DEF Run!LoopSays
<1>2. /\ loop' \in [Run!Starts -> Loops] /\ loop'[n] = new
      /\ \A k \in Run!Starts \ {n} : loop'[k] = loop[k]
  BY <1>1, LoopMoves DEF RunInv
<1>3. RunTypes'
  BY <1>1, <1>2 DEF RunInv, RunTypes
<1>4. \A k \in Run!Starts : Run!Live(k)' => Run!Live(k)
  BY <1>2 DEF Run!Live
<1>5. ASSUME ~misused' PROVE RunOrder'
  <2>1. RunOrder
    BY <1>1, <1>5 DEF RunInv
  <2>2. OneCall' /\ \A c \in Run!Calls : CallKnows(c)'
    BY <1>1, <1>4, <2>1 DEF RunOrder, OneCall, CallKnows, Gone
  <2> QED
    BY <1>1, <1>4, <2>1, <2>2 DEF RunOrder, Gone, Settling, Run!AllIdle
<1> QED
  BY <1>1, <1>3, <1>5 DEF RunInv

LEMMA TurnKeeps ==
  ASSUME RunOK, RunInv, NEW n \in Run!Starts, Run!Turn(n)
  PROVE  RunInv'
<1>1. /\ loop[n] \in Loops /\ sockets \subseteq Clients /\ served \subseteq Clients
      /\ Watchers \subseteq Clients
  BY DEF RunInv, RunTypes, RunOK
<1>2. /\ [Run!NoLoop EXCEPT !.pc = "done"] \in Loops
      /\ [Run!NoLoop EXCEPT !.pc = "done"].pc = "done"
      /\ [Run!NoLoop EXCEPT !.pc = "asleep"] \in Loops
      /\ [Run!NoLoop EXCEPT !.pc = "asleep", !.cancelled = loop[n].cancelled] \in Loops
      /\ [Run!NoLoop EXCEPT !.pc = "asleep", !.cancelled = loop[n].cancelled].cancelled
            = loop[n].cancelled
  BY <1>1 DEF Run!NoLoop, Loops
<1>3. CASE Run!Wake(n)
  <2> DEFINE sending == [loop[n] EXCEPT !.pc = "sending", !.left = sockets, !.dead = {},
                                        !.size = Run!Cardinality(sockets)]
  <2>1. UNCHANGED <<sockets, broken, served>> /\ loop[n].pc = "asleep"
    BY <1>3 DEF Run!Wake, Run!socketVars
  <2>2. CASE loop[n].cancelled \/ run \notin Run!Active
    <3>1. Run!LoopSays(n, [Run!NoLoop EXCEPT !.pc = "done"])
      BY <1>3, <2>2 DEF Run!Wake
    <3> QED
      BY <1>1, <1>2, <2>1, <3>1, LoopKeeps
  <2>3. CASE ~(loop[n].cancelled \/ run \notin Run!Active)
    <3>1. Run!LoopSays(n, sending)
      BY <1>3, <2>3 DEF Run!Wake
    <3>2. Run!Cardinality(sockets) \in Nat
      BY <1>1, RunCardinality, FS_Subset, FS_CardinalityType DEF RunOK
    <3>3. sending \in Loops
      BY <1>1, <3>2 DEF Loops
    <3>4. Run!Live(n)
      BY <2>1, <2>3 DEF Run!Live
    <3> QED
      BY <1>1, <2>1, <3>1, <3>3, <3>4, LoopKeeps
  <2> QED
    BY <2>2, <2>3
<1>4. CASE Run!SendNext(n)
  <2>1. loop[n].pc = "sending" /\ UNCHANGED <<sockets, broken>>
    BY <1>4 DEF Run!SendNext
  <2>2. CASE loop[n].cancelled
    <3>1. Run!LoopSays(n, [Run!NoLoop EXCEPT !.pc = "done"]) /\ UNCHANGED served
      BY <1>4, <2>2 DEF Run!SendNext
    <3> QED
      BY <1>1, <1>2, <2>1, <3>1, LoopKeeps
  <2>3. CASE ~loop[n].cancelled
    <3>1. Run!Live(n)
      BY <2>1, <2>3 DEF Run!Live
    <3>2. CASE Run!LoopSays(n, [Run!NoLoop EXCEPT !.pc = "asleep"]) /\ UNCHANGED served
      BY <1>1, <1>2, <2>1, <3>1, <3>2, LoopKeeps
    <3>3. ASSUME NEW s \in loop[n].left,
                 \/ /\ Run!LoopSays(n, [loop[n] EXCEPT !.left = @ \ {s}])
                    /\ served' = served \union ({s} \intersect Watchers)
                 \/ /\ Run!LoopSays(n, [loop[n] EXCEPT !.left = @ \ {s}, !.dead = @ \union {s}])
                    /\ UNCHANGED served
          PROVE  RunInv'
      <4>1. /\ [loop[n] EXCEPT !.left = @ \ {s}] \in Loops
            /\ [loop[n] EXCEPT !.left = @ \ {s}, !.dead = @ \union {s}] \in Loops
            /\ served' \subseteq Clients
        BY <1>1, <3>3 DEF Loops
      <4> QED
        BY <1>1, <2>1, <3>1, <3>3, <4>1, LoopKeeps
    <3> QED
      BY <1>4, <2>3, <3>2, <3>3 DEF Run!SendNext
  <2> QED
    BY <2>2, <2>3
<1>5. CASE Run!EndBroadcast(n)
  <2> DEFINE new == [Run!NoLoop EXCEPT !.pc = "asleep", !.cancelled = loop[n].cancelled]
  <2>1. /\ loop[n].pc = "sending" /\ Run!LoopSays(n, new)
        /\ sockets' \subseteq Clients /\ UNCHANGED <<broken, served>>
    BY <1>1, <1>5 DEF Run!EndBroadcast
  <2>2. ~new.cancelled => Run!Live(n)
    BY <1>2, <2>1 DEF Run!Live
  <2>3. new \in Loops
    BY <1>2
  <2> HIDE DEF new
  <2> QED
    BY <1>1, <2>1, <2>2, <2>3, LoopKeeps
<1> QED
  BY <1>3, <1>4, <1>5 DEF Run!Turn

LEMMA SocketsKeep ==
  ASSUME RunOK, RunInv, sockets' \subseteq Clients, broken' \subseteq Clients,
         served' \subseteq Clients,
         UNCHANGED <<runRow, run, adapter, managed, process, loop, task, call, starts, gauge,
                     misused>>
  PROVE  RunInv'
<1>1. RunTypes'
  BY DEF RunInv, RunTypes
<1>2. RunOrder => RunOrder'
  BY DEF RunOrder, OneCall, CallKnows, Gone, Settling, Run!AllIdle, Run!Live
<1> QED
  BY <1>1, <1>2 DEF RunInv

LEMMA ChangeKeeps ==
  ASSUME RunOK, RunInv, NEW s \in Clients, Run!Connect(s) \/ Run!Disconnect(s) \/ Run!Break(s)
  PROVE  RunInv'
<1>1. /\ UNCHANGED <<runRow, run, adapter, managed, process, loop, task, call, starts, gauge,
                     misused>>
      /\ sockets \subseteq Clients /\ broken \subseteq Clients /\ served \subseteq Clients
  BY DEF RunInv, RunTypes, Run!Connect, Run!Disconnect, Run!Break, Run!Change
<1>2. sockets' \subseteq Clients /\ broken' \subseteq Clients /\ served' \subseteq Clients
  BY <1>1 DEF Run!Connect, Run!Disconnect, Run!Break
<1> QED
  BY <1>1, <1>2, SocketsKeep

LEMMA InitRun == ASSUME RunOK, Run!Init PROVE RunInv
<1>1. RunTypes
  <2>1. Run!NoLoop \in Loops
    BY DEF Run!NoLoop, Loops
  <2>2. Run!NoCall \in RunCalls /\ Run!NoCall.pc = "idle"
    BY NoCallIdle
  <2>3. loop \in [Run!Starts -> Loops] /\ call \in [Run!Calls -> RunCalls]
    BY <2>1, <2>2 DEF Run!Init
  <2>4. \A c \in Run!Calls : call[c].pc = "idle"
    BY <2>2 DEF Run!Init
  <2>5. /\ process \in [Run!Starts -> {"absent", "running", "ending", "exited"}]
        /\ {runRow, run, adapter} \subseteq Run!Status
    BY DEF Run!Init, Run!Status
  <2>6. /\ managed = 0 /\ task = 0 /\ starts = 0 /\ gauge = 0
        /\ sockets = Watchers /\ broken = {} /\ served = {} /\ misused = FALSE
    BY DEF Run!Init
  <2>7. 0 \in 0..MaxStarts /\ 0 \in Nat /\ Watchers \subseteq Clients
    BY DEF RunOK
  <2>8. \A c \in Run!Calls : call[c].pc # "idle" => call[c].n # 0
    BY <2>4
  <2>9. /\ managed \in 0..MaxStarts /\ task \in 0..MaxStarts /\ starts \in 0..MaxStarts
        /\ gauge \in Nat /\ misused \in BOOLEAN
        /\ sockets \subseteq Clients /\ broken \subseteq Clients /\ served \subseteq Clients
    BY <2>6, <2>7
  <2> HIDE DEF Run!Starts, Run!Calls
  <2> QED
    BY <2>3, <2>5, <2>8, <2>9 DEF RunTypes
<1>2. RunOrder
  <2>1. Run!AllIdle /\ \A c \in Run!Calls : call[c].pc = "idle"
    BY NoCallIdle DEF Run!Init, Run!AllIdle
  <2>2. \A n \in Run!Starts : process[n] = "absent" /\ ~Run!Live(n)
    BY DEF Run!Init, Run!Live, Run!NoLoop
  <2> QED
    BY <2>1, <2>2 DEF Run!Init, RunOrder, OneCall, CallKnows, Gone, Run!Active, Run!AllIdle
<1> QED
  BY <1>1, <1>2 DEF RunInv, Run!Init

LEMMA NextRun == ASSUME RunOK, RunInv, [Run!Next]_(Run!vars) PROVE RunInv'
<1>1. CASE UNCHANGED Run!vars
  BY <1>1, SocketsKeep DEF Run!vars, RunInv, RunTypes
<1>2. ASSUME NEW c \in Run!Calls, Run!Handle(c) \/ Run!Advance(c) PROVE RunInv'
  BY <1>2, ArriveStartKeeps, PauseKeeps, ArriveStopKeeps, SpawnedKeeps, SpawnFailedKeeps,
     SettledKeeps, FinishStopKeeps DEF Run!Handle, Run!Advance
<1>3. ASSUME NEW n \in Run!Starts, Run!ProcessEnds(n) \/ Run!ProcessCrashes(n) \/ Run!Turn(n)
      PROVE  RunInv'
  BY <1>3, ProcessKeeps, TurnKeeps
<1>4. ASSUME NEW s \in Clients, Run!Connect(s) \/ Run!Disconnect(s) \/ Run!Break(s)
      PROVE  RunInv'
  BY <1>4, ChangeKeeps
<1> QED
  BY <1>1, <1>2, <1>3, <1>4 DEF Run!Next

LEMMA RunInvSound == ASSUME RunOK, RunInv PROVE Run!TypeOK /\ Run!OrderlyRun
<1>1. Run!TypeOK
  BY DEF RunInv, RunTypes, Run!TypeOK, Loops, RunCalls
<1>2. ASSUME ~misused
      PROVE  Run!Cardinality({n \in Run!Starts : Run!Live(n) /\ run \in Run!Active}) <= 1
  <2> DEFINE live == {n \in Run!Starts : Run!Live(n) /\ run \in Run!Active}
  <2>1. live \subseteq {task}
    BY <1>2 DEF RunInv, RunOrder
  <2> HIDE DEF live
  <2>2. IsFiniteSet({task}) /\ Cardinality({task}) = 1
    BY FS_Singleton
  <2>3. Cardinality(live) <= 1
    BY <2>1, <2>2, FS_Subset
  <2> QED
    BY <2>3, RunCardinality DEF live
<1>3. ASSUME ~misused, Run!AllIdle, run = "STOPPED"
      PROVE  \A n \in Run!Starts : process[n] \in {"absent", "exited"}
  <2>1. ~Settling /\ run \notin Run!Active
    BY <1>3 DEF Settling, Run!AllIdle, Run!Active
  <2> QED
    BY <1>3, <2>1 DEF RunInv, RunOrder, Gone
<1> QED
  BY <1>1, <1>2, <1>3 DEF RunInv, RunOrder, Run!OrderlyRun, Gone

(* A run that is launched, started and stopped by any number of requests,  *)
(* in any number of slots: while the requests come in turn no engine       *)
(* process escapes the adapter, one telemetry loop at most feeds an active *)
(* run, and between requests the gauge, the adapter and a row that has     *)
(* ended say the same as the status of the run.                            *)
THEOREM RunsAlwaysOrderly ==
  ASSUME RunOK
  PROVE  Run!Spec => [](Run!TypeOK /\ Run!OrderlyRun)
<1>1. RunInv => Run!TypeOK /\ Run!OrderlyRun
  BY RunInvSound
<1>2. Run!Init => RunInv
  BY InitRun
<1>3. RunInv /\ [Run!Next]_(Run!vars) => RunInv'
  BY NextRun
<1> QED
  BY <1>1, <1>2, <1>3, PTL DEF Run!Spec

-----------------------------------------------------------------------------
(* The task of an export *)

Trying == {"begin", "query", "serialize", "audited", "commit", "refresh"}

(* Where the thread is says how far the attempt has come: its number, what *)
(* it has added to the session, and that the actor could be named.         *)
AttemptInv ==
  /\ worker \in Trying \union {"absent", "ended", "dead"}
  /\ worker \in Trying => record.retries <= MaxRetries
  /\ record.status = "SUCCEEDED" => worker = "ended"
  /\ worker \notin {"audited", "commit"} => pending = {}
  /\ worker = "audited" /\ Export!Attempt \notin torn => pending = {"audit"}
  /\ worker = "commit" /\ Export!Attempt \notin torn => pending = {"audit", "export"}
  /\ worker \in {"absent", "begin", "serialize", "audited", "commit"} => actor = "loaded"
  /\ worker = "refresh" /\ ~closed => actor # "loaded"

(* What is stored belongs to earlier attempts until the commit.            *)
StoredInv ==
  /\ worker \in Trying =>
        \A k \in exports \union audits : k < Export!Attempt \/ (worker = "refresh" /\ k = Export!Attempt)
  /\ worker = "absent" => exports = {} /\ audits = {}
  /\ worker = "refresh" /\ fresh => Export!Attempt \in exports

(* An earlier attempt whose export is stored could not read it back on an  *)
(* open session, or the actor is lost and no later attempt stores any.     *)
CopyInv ==
  /\ worker \in Trying =>
        \A k \in exports :
           \/ k \in slipped
           \/ actor = "lost"
           \/ worker = "refresh" /\ k = Export!Attempt /\ fresh
  /\ worker = "refresh" => \A k \in exports : k < Export!Attempt => k \in slipped

ExportInv ==
  /\ Export!TypeOK /\ AttemptInv /\ StoredInv /\ CopyInv
  /\ Export!SuccessIsStored /\ Export!AuditedTogether
  /\ \A k \in exports : (\E later \in exports : later > k) => k \in slipped

LEMMA RecordFields ==
  ASSUME MaxRetries \in Nat, Export!TypeOK
  PROVE  /\ record.retries \in Nat /\ record.retries <= MaxRetries + 1
         /\ Export!Attempt = record.retries + 1
         /\ \A k \in exports \union audits : k \in Nat
  BY DEF Export!TypeOK, Export!Attempt, Export!Attempts

LEMMA InitExport == MaxRetries \in Nat /\ Export!Init => ExportInv
  BY DEF Export!Init, Export!NoTask, ExportInv, Export!TypeOK, Export!Terminal, AttemptInv,
     StoredInv, CopyInv, Export!SuccessIsStored, Export!AuditedTogether, Trying

(* A failed attempt is tried again, or was the last one. *)
LEMMA RaiseEnds ==
  ASSUME MaxRetries \in Nat, Export!TypeOK, record.retries <= MaxRetries, Export!Raise
  PROVE  /\ record' \in [status : {"none", "QUEUED", "RUNNING"} \union Export!Terminal,
                         retries : 0..(MaxRetries + 1)]
         /\ record'.retries = record.retries + 1
         /\ record'.status # "SUCCEEDED"
         /\ worker' \in {"query", "ended"}
         /\ worker' = "query" => record'.retries <= MaxRetries
<1>1. record.retries \in 0..(MaxRetries + 1)
  BY DEF Export!TypeOK
<1>2. CASE record.retries < MaxRetries
  <2>1. record' = [status |-> "QUEUED", retries |-> record.retries + 1] /\ worker' = "query"
    BY <1>2 DEF Export!Raise
  <2> QED
    BY <1>1, <1>2, <2>1 DEF Export!Terminal
<1>3. CASE ~(record.retries < MaxRetries)
  <2>1. record' = [status |-> "FAILED", retries |-> record.retries + 1] /\ worker' = "ended"
    BY <1>3 DEF Export!Raise
  <2> QED
    BY <1>1, <1>3, <2>1 DEF Export!Terminal
<1> QED
  BY <1>2, <1>3

LEMMA NextExport ==
  ASSUME MaxRetries \in Nat, ExportInv, [Export!Next]_(Export!vars)
  PROVE  ExportInv'
<1> USE DEF ExportInv
<1>0. /\ record.retries \in Nat /\ Export!Attempt = record.retries + 1
      /\ Export!Attempt' = record'.retries + 1
      /\ \A k \in exports \union audits : k \in Nat
  BY RecordFields DEF Export!Attempt
<1>1. CASE Export!Submit
  <2>1. /\ worker = "absent" /\ worker' = "begin"
        /\ record' = [status |-> "QUEUED", retries |-> 0]
        /\ UNCHANGED <<pending, actor, fresh, exports, audits, torn, slipped>>
    BY <1>1 DEF Export!Submit
  <2>2. exports = {} /\ audits = {}
    BY <2>1 DEF StoredInv
  <2> QED
    BY <1>0, <2>1, <2>2 DEF Export!TypeOK, Export!Terminal, AttemptInv, StoredInv, CopyInv,
       Export!SuccessIsStored, Export!AuditedTogether, Trying
<1>2. CASE Export!Begin
  <2>1. /\ worker = "begin" /\ worker' = "query"
        /\ record' = [record EXCEPT !.status = "RUNNING"]
        /\ UNCHANGED <<pending, actor, fresh, exports, audits, torn, slipped>>
    BY <1>2 DEF Export!Begin
  <2>2. /\ Export!TypeOK' /\ record'.retries = record.retries /\ record'.status = "RUNNING"
    BY <2>1 DEF Export!TypeOK, Export!Terminal
  <2> QED
    BY <1>0, <2>1, <2>2 DEF AttemptInv, StoredInv, CopyInv,
       Export!SuccessIsStored, Export!AuditedTogether, Trying
<1>3. CASE Export!Query
  <2>1. /\ worker = "query" /\ record.retries <= MaxRetries /\ fresh' = FALSE
        /\ actor' = (IF Export!ActorKnown THEN "loaded" ELSE actor)
        /\ UNCHANGED <<pending, exports, audits, torn, slipped>>
    BY <1>3 DEF Export!Query, AttemptInv, Trying
  <2>2. actor = "lost" => ~Export!ActorKnown
    BY DEF Export!ActorKnown
  <2>3. CASE Export!ActorKnown /\ worker' = "serialize" /\ record' = record
    <3>1. actor # "lost" /\ actor' = "loaded"
      BY <2>1, <2>2, <2>3
    <3> QED
      BY <1>0, <2>1, <2>3, <3>1 DEF Export!TypeOK, AttemptInv, StoredInv, CopyInv,
         Export!SuccessIsStored, Export!AuditedTogether, Trying
  <2>4. CASE Export!Raise
    <3>1. /\ record'.retries = record.retries + 1 /\ record'.status # "SUCCEEDED"
          /\ worker' \in {"query", "ended"}
          /\ worker' = "query" => record'.retries <= MaxRetries
          /\ record' \in [status : {"none", "QUEUED", "RUNNING"} \union Export!Terminal,
                          retries : 0..(MaxRetries + 1)]
      BY <2>1, <2>4, RaiseEnds
    <3>2. actor = "lost" => actor' = "lost"
      BY <2>1, <2>2
    <3>3. Export!TypeOK' /\ AttemptInv'
      BY <2>1, <3>1 DEF Export!TypeOK, AttemptInv, Trying
    <3>4. StoredInv' /\ CopyInv'
      BY <1>0, <2>1, <3>1, <3>2 DEF StoredInv, CopyInv, Trying
    <3> QED
      BY <2>1, <3>1, <3>3, <3>4 DEF Export!SuccessIsStored, Export!AuditedTogether
  <2> QED
    BY <1>3, <2>3, <2>4 DEF Export!Query
<1>4. CASE Export!AddAudit
  <2>1. /\ worker = "serialize" /\ worker' = "audited" /\ pending' = {"audit"}
        /\ UNCHANGED <<record, actor, fresh, exports, audits, torn, slipped>>
    BY <1>4 DEF Export!AddAudit
  <2> QED
    BY <1>0, <2>1 DEF Export!TypeOK, AttemptInv, StoredInv, CopyInv,
       Export!SuccessIsStored, Export!AuditedTogether, Trying
<1>5. CASE Export!AddExport
  <2>1. /\ worker = "audited" /\ worker' = "commit"
        /\ pending' = pending \union {"export"}
        /\ UNCHANGED <<record, actor, fresh, exports, audits, torn, slipped>>
    BY <1>5 DEF Export!AddExport
  <2> QED
    BY <1>0, <2>1 DEF Export!TypeOK, AttemptInv, StoredInv, CopyInv,
       Export!SuccessIsStored, Export!AuditedTogether, Trying
<1>6. CASE Export!CommitSucceeds
  <2>1. /\ worker = "commit" /\ worker' = "refresh" /\ pending' = {}
        /\ exports' = IF "export" \in pending THEN exports \union {Export!Attempt} ELSE exports
        /\ audits' = IF "audit" \in pending THEN audits \union {Export!Attempt} ELSE audits
        /\ fresh' = ("export" \in pending)
        /\ actor' \in {actor, "expired"} /\ (~closed' => actor' = "expired")
        /\ UNCHANGED <<record, torn, slipped>>
    BY <1>6 DEF Export!CommitSucceeds, Export!Expire
  <2>2. /\ actor = "loaded" /\ record.retries <= MaxRetries /\ record.status # "SUCCEEDED"
        /\ Export!Attempt \notin torn => pending = {"audit", "export"}
    BY <2>1 DEF AttemptInv, Trying
  <2>3. \A k \in exports \union audits : k < Export!Attempt
    BY <2>1 DEF StoredInv, Trying
  <2>4. \A k \in exports : k \in slipped
    BY <2>1, <2>2 DEF CopyInv, Trying
  <2>5. Export!Attempt \in Export!Attempts /\ Export!Attempt' = Export!Attempt
    BY <1>0, <2>1, <2>2 DEF Export!Attempts
  <2>6. Export!TypeOK' /\ AttemptInv'
    BY <2>1, <2>2, <2>5 DEF Export!TypeOK, AttemptInv, Trying
  <2>7. StoredInv'
    BY <1>0, <2>1, <2>3, <2>5 DEF StoredInv
  <2>10. CopyInv'
    <3>1. \A k \in exports' : k \in slipped' \/ (k = Export!Attempt' /\ fresh')
      BY <2>1, <2>4, <2>5
    <3>2. ~(Export!Attempt' < Export!Attempt')
      BY <1>0, <2>1
    <3> QED
      BY <2>1, <3>1, <3>2 DEF CopyInv
  <2>8. Export!SuccessIsStored' /\ Export!AuditedTogether'
    BY <2>1, <2>2, <2>5 DEF Export!SuccessIsStored, Export!AuditedTogether
  <2>9. \A k \in exports' : (\E later \in exports' : later > k) => k \in slipped'
    BY <1>0, <2>1, <2>3, <2>4
  <2> QED
    BY <2>6, <2>7, <2>8, <2>9, <2>10
<1>7. CASE Export!CommitFails
  <2>1. /\ worker = "commit" /\ pending' = {} /\ Export!Raise
        /\ actor' \in {actor, "expired"}
        /\ UNCHANGED <<fresh, exports, audits, torn, slipped>>
    BY <1>7 DEF Export!CommitFails, Export!Expire
  <2>2. actor = "loaded" /\ record.retries <= MaxRetries
    BY <2>1 DEF AttemptInv, Trying
  <2>3. /\ record'.retries = record.retries + 1 /\ record'.status # "SUCCEEDED"
        /\ worker' \in {"query", "ended"}
        /\ worker' = "query" => record'.retries <= MaxRetries
        /\ record' \in [status : {"none", "QUEUED", "RUNNING"} \union Export!Terminal,
                        retries : 0..(MaxRetries + 1)]
    BY <2>1, <2>2, RaiseEnds
  <2>4. Export!TypeOK' /\ AttemptInv'
    BY <2>1, <2>2, <2>3 DEF Export!TypeOK, AttemptInv, Trying
  <2>5. StoredInv' /\ CopyInv'
    BY <1>0, <2>1, <2>2, <2>3 DEF StoredInv, CopyInv, Trying
  <2> QED
    BY <2>1, <2>3, <2>4, <2>5 DEF Export!SuccessIsStored, Export!AuditedTogether
<1>8. CASE Export!RefreshSucceeds
  <2>1. /\ worker = "refresh" /\ worker' = "ended" /\ fresh
        /\ record' = [record EXCEPT !.status = "SUCCEEDED"]
        /\ UNCHANGED <<pending, actor, fresh, exports, audits, torn, slipped>>
    BY <1>8 DEF Export!RefreshSucceeds, Export!Succeed
  <2>2. Export!TypeOK' /\ record'.retries = record.retries
    BY <2>1 DEF Export!TypeOK, Export!Terminal
  <2> QED
    BY <1>0, <2>1, <2>2 DEF AttemptInv, StoredInv, CopyInv,
       Export!SuccessIsStored, Export!AuditedTogether, Trying
<1>9. CASE Export!RefreshFails
  <2>1. /\ worker = "refresh" /\ Export!Raise
        /\ slipped' = IF fresh THEN slipped \union {Export!Attempt} ELSE slipped
        /\ UNCHANGED <<pending, actor, fresh, exports, audits, torn>>
    BY <1>9 DEF Export!RefreshFails
  <2>2. record.retries <= MaxRetries
    BY <2>1 DEF AttemptInv, Trying
  <2>3. /\ record'.retries = record.retries + 1 /\ record'.status # "SUCCEEDED"
        /\ worker' \in {"query", "ended"}
        /\ worker' = "query" => record'.retries <= MaxRetries
        /\ record' \in [status : {"none", "QUEUED", "RUNNING"} \union Export!Terminal,
                        retries : 0..(MaxRetries + 1)]
    BY <2>1, <2>2, RaiseEnds
  <2>4. Export!TypeOK' /\ AttemptInv'
    BY <2>1, <2>3 DEF Export!TypeOK, AttemptInv, Trying
  <2>5. StoredInv'
    BY <1>0, <2>1, <2>3 DEF StoredInv, Trying
  <2>6. CopyInv'
    BY <1>0, <2>1, <2>3 DEF CopyInv, Trying
  <2> QED
    BY <2>1, <2>3, <2>4, <2>5, <2>6 DEF Export!SuccessIsStored, Export!AuditedTogether
<1>10. CASE Export!Close
  <2>1. /\ pending' = {} /\ fresh' = FALSE /\ ~closed /\ closed'
        /\ torn' = IF pending # {} THEN torn \union {Export!Attempt} ELSE torn
        /\ actor' = IF actor = "loaded" THEN "loaded" ELSE "lost"
        /\ UNCHANGED <<record, worker, exports, audits, slipped>>
    BY <1>10 DEF Export!Close
  <2>2. Export!TypeOK'
    BY <2>1 DEF Export!TypeOK
  <2>3. AttemptInv'
    BY <1>0, <2>1 DEF AttemptInv, Trying
  <2>4. StoredInv'
    BY <1>0, <2>1 DEF StoredInv
  <2>5. CopyInv'
    BY <1>0, <2>1 DEF AttemptInv, CopyInv
  <2> QED
    BY <1>0, <2>1, <2>2, <2>3, <2>4, <2>5 DEF Export!SuccessIsStored, Export!AuditedTogether
<1>11. CASE Export!Restart
  <2>1. /\ record' = [status |-> "none", retries |-> 0] /\ worker' = "dead" /\ pending' = {}
        /\ UNCHANGED <<actor, exports, audits, torn, slipped>>
    BY <1>11 DEF Export!Restart, Export!NoTask
  <2> QED
    BY <1>0, <2>1 DEF Export!TypeOK, AttemptInv, StoredInv, CopyInv, Export!SuccessIsStored,
       Export!AuditedTogether, Trying
<1>12. CASE UNCHANGED Export!vars
  BY <1>0, <1>12 DEF Export!vars, Export!TypeOK, AttemptInv, StoredInv, CopyInv,
     Export!SuccessIsStored, Export!AuditedTogether, Trying
<1> QED
  BY <1>1, <1>2, <1>3, <1>4, <1>5, <1>6, <1>7, <1>8, <1>9, <1>10, <1>11, <1>12
     DEF Export!Next, Export!Work

(* The task of an export, for every number of retries and wherever the     *)
(* request closes the session under it: a task that reports success has    *)
(* stored its export, an export comes with its audit event unless the      *)
(* close tore them apart, and every second copy has its cause (a conjunct  *)
(* of BackgroundSound in the run on what goes on in the background).       *)
THEOREM ExportsAlwaysSound ==
  ASSUME MaxRetries \in Nat
  PROVE  Export!Spec => []Export!ExportsSound
<1>1. ExportInv => Export!ExportsSound
  BY DEF ExportInv, AttemptInv, Trying, Export!ExportsSound, Export!CopiesExplained
<1>2. Export!Init => ExportInv
  BY InitExport
<1>3. ExportInv /\ [Export!Next]_(Export!vars) => ExportInv'
  BY NextExport
<1> QED
  BY <1>1, <1>2, <1>3, PTL DEF Export!Spec

-----------------------------------------------------------------------------
(* A stream of the operator interface *)

ClientOK == MaxSockets \in Nat /\ QueueSize \in Nat \ {0} /\ Reconnects \in Nat

Messages == [number : Nat \ {0}, kind : {"greeting", "pong", "event"}, version : Nat]
Ends == [page : {"none", "connecting", "open", "closing", "failing"},
         door : {"none", "asked", "leaked", "greeting", "streaming"},
         up : BOOLEAN, queue : Seq(Messages), wire : Seq(Messages)]
Servers == [counter : Nat, version : Nat \ {0}, unpublished : SUBSET Nat]
Hooks == [mounted : BOOLEAN, enabled : BOOLEAN,
          status : {"DISCONNECTED", "CONNECTING", "CONNECTED", "RECONNECTING", "FAILED"},
          ref : Client!Sockets \union {0}, retries : 0..Reconnects, timer : BOOLEAN,
          beating : BOOLEAN, last : Nat]
Views == [consumer : Client!Consumers, shown : Nat, fetch : {"idle", "sent", "read"}, value : Nat,
          newest : Nat, batch : Nat]
Pasts == [crossed : BOOLEAN, first : Nat, heard : SUBSET (Nat \ {0}), alarmed : SUBSET Nat,
          events : SUBSET Nat, outlived : BOOLEAN, flushed : Nat, lost : Nat]

ClientTypes ==
  /\ socket \in [Client!Sockets -> Ends] /\ server \in Servers /\ hook \in Hooks
  /\ data \in Views /\ past \in Pasts /\ happened \in Nat
  /\ server.unpublished \subseteq 0..server.version
  /\ {data.shown, data.value, data.batch, past.flushed, past.lost} \subseteq 0..server.version

(* What a socket carries: events in the order of their numbers, those in   *)
(* the queue after those on the wire; nothing on the wire of a socket that *)
(* is down or not greeted.                                                 *)
InOrder(q, n) ==
  /\ \A i, j \in DOMAIN q.queue : i < j => q.queue[i].number < q.queue[j].number
  /\ \A i, j \in DOMAIN q.wire :
        i < j /\ q.wire[i].kind = "event" /\ q.wire[j].kind = "event"
          => q.wire[i].number < q.wire[j].number
  /\ \A i \in DOMAIN q.wire, j \in DOMAIN q.queue :
        q.wire[i].kind = "event" => q.wire[i].number < q.queue[j].number
  /\ \A i \in DOMAIN q.queue : q.queue[i].number <= n
  /\ \A i \in DOMAIN q.wire : q.wire[i].kind = "event" => q.wire[i].number <= n
EndOK(q, n, v) ==
  /\ Len(q.queue) <= QueueSize
  /\ \A i \in DOMAIN q.queue : q.queue[i].kind = "event" /\ q.queue[i].version <= v
  /\ \A i \in DOMAIN q.wire :
        q.wire[i].version <= v /\ (q.wire[i].kind # "event" => q.wire[i].version = 0)
  /\ ~q.up => q.wire = <<>>
  /\ q.door \in {"asked", "greeting"} => q.wire = <<>>
  /\ q.door = "asked" => q.queue = <<>>
  /\ q.page = "none" => ~q.up
  /\ q.up => InOrder(q, n)
EndsInv == \A s \in Client!Sockets : EndOK(socket[s], server.counter, server.version)

(* The hook and its sockets: until the close of an old one met its         *)
(* successor, the hook has one; where the effect runs once, no other one   *)
(* is left.                                                                *)
StreamInv ==
  /\ ~hook.mounted /\ happened = 0 =>
        ~past.crossed /\ hook.ref = 0 /\ ~hook.timer
        /\ \A s \in Client!Sockets : socket[s].page = "none"
  /\ Client!OneStream
  /\ data.consumer # "sockets" =>
        /\ ~past.crossed
        /\ Client!Alive \subseteq {hook.ref}
        /\ hook.timer => hook.ref = 0
        /\ hook.mounted => \A s \in Client!Sockets : socket[s].page # "none" => s = hook.ref
        /\ ~hook.mounted => hook.ref = 0 /\ ~hook.timer

(* Whatever lies between the first and another number heard of the same    *)
(* process was heard or reported, because the last one heard is the last   *)
(* one the check knows.                                                    *)
LossInv ==
  /\ past.first = 0 => past.heard = {}
  /\ past.first # 0 =>
        /\ data.consumer = "numbers"
        /\ hook.last \in past.heard
        /\ \A k \in past.heard, n \in Nat :
              past.first < n /\ n < k => n \in past.heard \union past.alarmed

(* The list: an event of the newest version is still to be published, on   *)
(* its way, taken, or lost; what is on its way is above the newest number  *)
(* taken of this process; and an event that was applied is shown unless    *)
(* something older came after it.                                          *)
Reachable(q) == q.page \in {"connecting", "open"} /\ q.up
Holds(q, v) ==
  /\ Reachable(q)
  /\ \/ \E i \in DOMAIN q.queue : q.queue[i].version = v
     \/ \E i \in DOMAIN q.wire : q.wire[i].version = v
Ahead(q, n) ==
  /\ \A i \in DOMAIN q.queue : n < q.queue[i].number
  /\ \A i \in DOMAIN q.wire : q.wire[i].kind = "event" => n < q.wire[i].number
Accounted ==
  \/ server.version = 1
  \/ server.version \in server.unpublished
  \/ server.version \in {past.lost, data.batch, past.flushed}
  \/ \E s \in Client!Sockets : Holds(socket[s], server.version)
ListInv ==
  data.consumer = "list" =>
    /\ Accounted
    /\ ~past.outlived =>
         /\ data.newest <= server.counter
         /\ \A s \in Client!Sockets : Reachable(socket[s]) => Ahead(socket[s], data.newest)
    /\ past.flushed = server.version /\ past.lost # server.version /\ data.shown > 0
         => data.shown = server.version

ClientInv == ClientTypes /\ EndsInv /\ StreamInv /\ LossInv /\ ListInv

-----------------------------------------------------------------------------
LEMMA LeastNatural ==
  ASSUME NEW S, S \subseteq Nat, S # {}
  PROVE  \E x \in S : \A y \in S : x <= y
<1>1. \E x \in S : \A y \in S : ~(<<y, x>> \in OpToRel(<, Nat))
  BY NatLessThanWellFounded, WFMin
<1>2. \A x, y \in Nat : <<y, x>> \in OpToRel(<, Nat) <=> y < x
  BY DEF OpToRel
<1>3. \E x \in S : \A y \in S : ~(y < x)
  BY <1>1, <1>2, Zenon
<1> QED
  BY <1>3

LEMMA GreatestBounded ==
  ASSUME NEW n \in Nat, NEW S, S \subseteq 0..n, S # {}
  PROVE  Client!Max(S) \in S /\ \A y \in S : y <= Client!Max(S)
<1> DEFINE T == {n - x : x \in S}
<1>1. T \subseteq Nat /\ T # {}
  <2>1. \A x \in S : n - x \in Nat
    OBVIOUS
  <2> QED
    BY <2>1
<1>2. PICK t \in T : \A y \in T : t <= y
  BY <1>1, LeastNatural
<1>3. PICK x \in S : t = n - x
  BY <1>2
<1>4. \A y \in S : n - y \in T
  OBVIOUS
<1>5. \A y \in S : y <= x
  BY <1>2, <1>3, <1>4
<1> QED
  BY <1>3, <1>5 DEF Client!Max

(* What Tail and Append do, place by place.                                *)
LEMMA TailPlaces ==
  ASSUME NEW q \in Seq(Messages), q # <<>>
  PROVE  /\ Tail(q) \in Seq(Messages) /\ Len(Tail(q)) = Len(q) - 1 /\ Len(q) >= 1
         /\ 1 \in DOMAIN q /\ Head(q) = q[1] /\ q[1] \in Messages
         /\ \A i \in DOMAIN Tail(q) : i \in Nat /\ i + 1 \in DOMAIN q /\ Tail(q)[i] = q[i + 1]
         /\ \A i \in DOMAIN q : i = 1 \/ (i - 1 \in DOMAIN Tail(q) /\ Tail(q)[i - 1] = q[i])
<1>1. /\ Tail(q) \in Seq(Messages) /\ Len(Tail(q)) = Len(q) - 1 /\ Len(q) >= 1
      /\ \A i \in 1..Len(Tail(q)) : Tail(q)[i] = q[i + 1]
  BY HeadTailProperties, EmptySeq
<1>2. DOMAIN q = 1..Len(q) /\ DOMAIN Tail(q) = 1..(Len(q) - 1) /\ Len(q) \in Nat
  BY <1>1, LenProperties
<1>3. \A i \in DOMAIN Tail(q) : i \in Nat /\ i + 1 \in DOMAIN q
  BY <1>1, <1>2
<1>4. \A i \in DOMAIN q : i = 1 \/ (i - 1 \in DOMAIN Tail(q) /\ (i - 1) + 1 = i)
  BY <1>1, <1>2
<1>5. 1 \in DOMAIN q /\ Head(q) = q[1] /\ q[1] \in Messages
  BY <1>1, <1>2, ElementOfSeq, HeadTailProperties
<1> QED
  BY <1>1, <1>2, <1>3, <1>4, <1>5

LEMMA AppendPlaces ==
  ASSUME NEW q \in Seq(Messages), NEW m \in Messages
  PROVE  /\ Append(q, m) \in Seq(Messages) /\ Len(Append(q, m)) = Len(q) + 1 /\ Len(q) \in Nat
         /\ DOMAIN q = 1..Len(q) /\ DOMAIN Append(q, m) = 1..(Len(q) + 1)
         /\ \A i \in DOMAIN q : i \in DOMAIN Append(q, m) /\ Append(q, m)[i] = q[i]
         /\ Len(q) + 1 \in DOMAIN Append(q, m) /\ Append(q, m)[Len(q) + 1] = m
         /\ \A i \in DOMAIN Append(q, m) : i \in DOMAIN q \/ (i = Len(q) + 1 /\ i \in Nat)
<1>1. /\ Append(q, m) \in Seq(Messages) /\ Len(Append(q, m)) = Len(q) + 1
      /\ \A i \in 1..Len(q) : Append(q, m)[i] = q[i]
      /\ Append(q, m)[Len(q) + 1] = m
  BY AppendProperties
<1>2. DOMAIN q = 1..Len(q) /\ Len(q) \in Nat /\ DOMAIN Append(q, m) = 1..(Len(q) + 1)
  BY <1>1, LenProperties
<1> QED
  BY <1>1, <1>2

LEMMA Places == ASSUME NEW q \in Seq(Messages)
                PROVE  \A i \in DOMAIN q : i \in Nat /\ q[i] \in Messages
  BY ElementOfSeq, LenProperties

(* What a socket loses to the list is counted.                             *)
LEMMA LosingKeeps ==
  ASSUME ClientTypes, NEW S, S \subseteq 0..server.version, NEW p, p = Client!Losing(S)
  PROVE  /\ p \in Pasts /\ p.lost \in 0..server.version
         /\ p.crossed = past.crossed /\ p.first = past.first /\ p.heard = past.heard
         /\ p.alarmed = past.alarmed /\ p.events = past.events /\ p.outlived = past.outlived
         /\ p.flushed = past.flushed
         /\ data.consumer = "list" /\ server.version \in S => p.lost = server.version
         /\ past.lost = server.version => p.lost = server.version
<1>1. past \in Pasts /\ past.lost \in 0..server.version /\ server.version \in Nat
  BY DEF ClientTypes, Servers
<1>2. CASE data.consumer # "list"
  BY <1>1, <1>2 DEF Client!Losing
<1>3. CASE data.consumer = "list"
  <2> DEFINE T == {past.lost} \union S
  <2>1. T \subseteq 0..server.version /\ T # {} /\ past.lost \in T
    BY <1>1
  <2> HIDE DEF T
  <2>2. PICK m \in T : m = Client!Max(T) /\ \A y \in T : y <= m
    BY <1>1, <2>1, GreatestBounded
  <2>3. p = [past EXCEPT !.lost = m]
    BY <1>3, <2>2 DEF Client!Losing, T
  <2>4. m \in 0..server.version /\ m \in Nat
    BY <1>1, <2>1, <2>2
  <2>5. p \in Pasts /\ p.lost = m /\ p.crossed = past.crossed /\ p.first = past.first
        /\ p.heard = past.heard /\ p.alarmed = past.alarmed /\ p.events = past.events
        /\ p.outlived = past.outlived /\ p.flushed = past.flushed
    BY <1>1, <2>3, <2>4 DEF Pasts
  <2>6. server.version \in T => m = server.version
    BY <1>1, <2>2, <2>4
  <2>7. server.version \in S => server.version \in T
    BY DEF T
  <2>8. past.lost = server.version => server.version \in T
    BY DEF T
  <2> QED
    BY <2>4, <2>5, <2>6, <2>7, <2>8
<1> QED
  BY <1>2, <1>3

LEMMA CarriedBounded ==
  ASSUME ClientTypes, EndsInv, NEW s \in Client!Sockets
  PROVE  /\ Client!Carried(s) \subseteq 0..server.version
         /\ Holds(socket[s], server.version) => server.version \in Client!Carried(s)
<1>1. socket[s] \in Ends /\ EndOK(socket[s], server.counter, server.version)
      /\ server.version \in Nat
  BY DEF ClientTypes, EndsInv, Servers
<1>2. /\ \A i \in DOMAIN socket[s].queue : socket[s].queue[i].version \in Nat
      /\ \A i \in DOMAIN socket[s].wire : socket[s].wire[i].version \in Nat
  BY <1>1, Places DEF Ends, Messages
<1>3. /\ \A i \in DOMAIN socket[s].queue : socket[s].queue[i].version \in 0..server.version
      /\ \A i \in DOMAIN socket[s].wire : socket[s].wire[i].version \in 0..server.version
  BY <1>1, <1>2 DEF EndOK
<1> QED
  BY <1>1, <1>3 DEF Client!Carried, Holds

-----------------------------------------------------------------------------
(* Steps that leave the hook and its consumer alone.                       *)

LEMMA EndGrows ==
  ASSUME NEW q \in Ends, NEW n \in Nat, NEW k \in Nat, NEW v \in Nat, NEW w \in Nat, n <= k, v <= w,
         EndOK(q, n, v)
  PROVE  EndOK(q, k, w)
<1>1. /\ \A i \in DOMAIN q.queue : q.queue[i] \in Messages
      /\ \A i \in DOMAIN q.wire : q.wire[i] \in Messages
  BY Places DEF Ends
<1>2. /\ \A i \in DOMAIN q.queue : q.queue[i].number \in Nat /\ q.queue[i].version \in Nat
      /\ \A i \in DOMAIN q.wire : q.wire[i].number \in Nat /\ q.wire[i].version \in Nat
  BY <1>1 DEF Messages
<1>3. InOrder(q, n) => InOrder(q, k)
  BY <1>2 DEF InOrder
<1> QED
  BY <1>2, <1>3 DEF EndOK

LEMMA EndMoves ==
  ASSUME ClientTypes, NEW s \in Client!Sockets, NEW new \in Ends,
         socket' = [socket EXCEPT ![s] = new]
  PROVE  /\ socket' \in [Client!Sockets -> Ends] /\ socket'[s] = new
         /\ \A t \in Client!Sockets \ {s} : socket'[t] = socket[t]
  BY DEF ClientTypes

(* The pages and what the hook says of them stay as they are.              *)
LEMMA PagesKeep ==
  ASSUME StreamInv, happened \in Nat, happened' \in {happened, happened + 1},
         \A s \in Client!Sockets : socket'[s].page = socket[s].page,
         hook'.mounted = hook.mounted, hook'.ref = hook.ref, hook'.timer = hook.timer,
         hook'.status = hook.status, past'.crossed = past.crossed,
         data'.consumer = data.consumer, hook.ref \in Client!Sockets \union {0}
  PROVE  StreamInv'
<1>1. Client!Alive' = Client!Alive
  BY DEF Client!Alive
<1>2. happened' = 0 => happened = 0
  OBVIOUS
<1>3. Client!OneStream'
  BY <1>1 DEF StreamInv, Client!OneStream, Client!NoSocket
<1> QED
  BY <1>1, <1>2, <1>3 DEF StreamInv

(* Whether the newest version is still on its way does not depend on how   *)
(* far, and what is above a number stays above it.                         *)
Softer(q, new) ==
  /\ new.page = q.page
  /\ Reachable(new) => Reachable(q)
  /\ \A v \in Nat \ {0} : Holds(q, v) => Holds(new, v)
  /\ Reachable(new) => \A n \in Nat : Ahead(q, n) => Ahead(new, n)

LEMMA EndStep ==
  ASSUME ClientOK, ClientInv, NEW s \in Client!Sockets, NEW new \in Ends,
         NEW n \in Nat, server.counter <= n,
         socket' = [socket EXCEPT ![s] = new], server' = [server EXCEPT !.counter = n],
         EndOK(new, n, server.version), Softer(socket[s], new),
         UNCHANGED <<hook, data, past>>, happened' \in {happened, happened + 1}
  PROVE  ClientInv'
<1>1. /\ socket' \in [Client!Sockets -> Ends] /\ socket'[s] = new
      /\ \A t \in Client!Sockets \ {s} : socket'[t] = socket[t]
  BY EndMoves DEF ClientInv
<1>2. /\ server' \in Servers /\ server'.counter = n /\ server'.version = server.version
      /\ server'.unpublished = server.unpublished /\ server.counter \in Nat
      /\ server.version \in Nat \ {0} /\ server \in Servers
  BY DEF ClientInv, ClientTypes, Servers
<1>3. ClientTypes'
  BY <1>1, <1>2 DEF ClientInv, ClientTypes
<1>4. EndsInv'
  <2>1. \A t \in Client!Sockets \ {s} : EndOK(socket[t], n, server.version)
    BY <1>2, EndGrows DEF ClientInv, EndsInv, ClientTypes
  <2> QED
    BY <1>1, <1>2, <2>1 DEF EndsInv
<1>5. \A t \in Client!Sockets : Softer(socket[t], socket'[t])
  BY <1>1 DEF Softer
<1>6. StreamInv'
  <2>1. \A t \in Client!Sockets : socket'[t].page = socket[t].page
    BY <1>5 DEF Softer
  <2>2. hook.ref \in Client!Sockets \union {0} /\ happened \in Nat /\ StreamInv
    BY DEF ClientInv, ClientTypes, Hooks
  <2> QED
    BY <2>1, <2>2, PagesKeep
<1>7. LossInv'
  BY DEF ClientInv, LossInv
<1>8. ASSUME data.consumer = "list" PROVE ListInv'
  <2>1. /\ Accounted
        /\ ~past.outlived =>
              /\ data.newest <= server.counter
              /\ \A t \in Client!Sockets : Reachable(socket[t]) => Ahead(socket[t], data.newest)
        /\ past.flushed = server.version /\ past.lost # server.version /\ data.shown > 0
              => data.shown = server.version
    BY <1>8 DEF ClientInv, ListInv
  <2>2. Accounted'
    BY <1>2, <1>5, <2>1 DEF Accounted, Softer
  <2>3. data.newest \in Nat /\ (data.newest <= server.counter => data.newest <= n)
    BY <1>2 DEF ClientInv, ClientTypes, Views
  <2>4. \A t \in Client!Sockets : Reachable(socket'[t]) =>
           Reachable(socket[t]) /\ (Ahead(socket[t], data.newest) => Ahead(socket'[t], data.newest))
    BY <1>5, <2>3 DEF Softer
  <2> QED
    BY <1>2, <2>1, <2>2, <2>3, <2>4 DEF ListInv
<1>9. ListInv'
  BY <1>8 DEF ListInv
<1> QED
  BY <1>3, <1>4, <1>6, <1>7, <1>9 DEF ClientInv

(* The numbers of what passes from the queue to the wire.                  *)
LEMMA PumpOrder ==
  ASSUME NEW q \in Ends, NEW n \in Nat, q.queue # <<>>,
         \A i \in DOMAIN q.queue : q.queue[i].kind = "event", InOrder(q, n),
         NEW new \in Ends, new.queue = Tail(q.queue), new.wire = Append(q.wire, Head(q.queue))
  PROVE  InOrder(new, n)
<1> DEFINE Q == q.queue  W == q.wire  X == new.queue  Y == new.wire
<1>0. Q \in Seq(Messages) /\ W \in Seq(Messages)
  BY DEF Ends
<1>1. /\ X \in Seq(Messages) /\ 1 \in DOMAIN Q /\ Head(Q) = Q[1] /\ Q[1] \in Messages
      /\ \A i \in DOMAIN X : i \in Nat /\ i + 1 \in DOMAIN Q /\ X[i] = Q[i + 1]
  BY <1>0, TailPlaces
<1>2. /\ Y \in Seq(Messages) /\ Len(W) \in Nat /\ DOMAIN W = 1..Len(W)
      /\ \A i \in DOMAIN W : i \in DOMAIN Y /\ Y[i] = W[i]
      /\ Y[Len(W) + 1] = Q[1]
      /\ \A i \in DOMAIN Y : i \in DOMAIN W \/ (i = Len(W) + 1 /\ i \in Nat)
  BY <1>0, <1>1, AppendPlaces
<1>3. /\ \A i, j \in DOMAIN Q : i < j => Q[i].number < Q[j].number
      /\ \A i, j \in DOMAIN W : i < j /\ W[i].kind = "event" /\ W[j].kind = "event"
            => W[i].number < W[j].number
      /\ \A i \in DOMAIN W, j \in DOMAIN Q : W[i].kind = "event" => W[i].number < Q[j].number
      /\ \A i \in DOMAIN Q : Q[i].number <= n
      /\ \A i \in DOMAIN W : W[i].kind = "event" => W[i].number <= n
  BY DEF InOrder
<1>4. \A i \in DOMAIN Q : i \in Nat /\ Q[i].number \in Nat
  BY <1>0, Places DEF Messages
<1>5. \A i \in DOMAIN W : i \in Nat /\ W[i].number \in Nat
  BY <1>0, Places DEF Messages
<1> HIDE DEF Q, W, X, Y
<1>6. \A i, j \in DOMAIN X : i < j => X[i].number < X[j].number
  <2> SUFFICES ASSUME NEW i \in DOMAIN X, NEW j \in DOMAIN X, i < j
               PROVE  X[i].number < X[j].number
    OBVIOUS
  <2>1. i + 1 < j + 1
    BY <1>1
  <2> QED
    BY <1>1, <1>3, <2>1
<1>7. \A i, j \in DOMAIN Y : i < j /\ Y[i].kind = "event" /\ Y[j].kind = "event"
         => Y[i].number < Y[j].number
  <2> SUFFICES ASSUME NEW i \in DOMAIN Y, NEW j \in DOMAIN Y, i < j, Y[i].kind = "event",
                      Y[j].kind = "event"
               PROVE  Y[i].number < Y[j].number
    OBVIOUS
  <2>1. i \in DOMAIN W
    BY <1>2, <1>5
  <2>2. CASE j \in DOMAIN W
    BY <1>2, <1>3, <2>1, <2>2
  <2>3. CASE j = Len(W) + 1
    BY <1>1, <1>2, <1>3, <2>1, <2>3
  <2> QED
    BY <1>2, <2>2, <2>3
<1>8. \A i \in DOMAIN Y, j \in DOMAIN X : Y[i].kind = "event" => Y[i].number < X[j].number
  <2> SUFFICES ASSUME NEW i \in DOMAIN Y, NEW j \in DOMAIN X, Y[i].kind = "event"
               PROVE  Y[i].number < X[j].number
    OBVIOUS
  <2>1. j + 1 \in DOMAIN Q /\ X[j] = Q[j + 1] /\ j \in Nat
    BY <1>1
  <2>2. CASE i \in DOMAIN W
    BY <1>2, <1>3, <2>1, <2>2
  <2>3. CASE i = Len(W) + 1
    <3>1. 1 < j + 1
      <4>1. j # 0
        BY <1>1 DEF X
      <4> QED
        BY <2>1, <4>1
    <3> QED
      BY <1>1, <1>2, <1>3, <2>1, <2>3, <3>1
  <2> QED
    BY <1>2, <2>2, <2>3
<1>9. /\ \A i \in DOMAIN X : X[i].number <= n
      /\ \A i \in DOMAIN Y : Y[i].kind = "event" => Y[i].number <= n
  BY <1>1, <1>2, <1>3
<1> QED
  BY <1>6, <1>7, <1>8, <1>9 DEF InOrder, X, Y

(* An event that is published takes the next number and the last place.    *)
LEMMA PublishOrder ==
  ASSUME NEW q \in Ends, NEW n \in Nat, InOrder(q, n), NEW m \in Messages, m.number = n + 1,
         NEW new \in Ends, new.wire = q.wire,
         \/ new.queue = Append(q.queue, m)
         \/ q.queue # <<>> /\ new.queue = Append(Tail(q.queue), m)
  PROVE  InOrder(new, n + 1)
<1> DEFINE Q == q.queue  W == q.wire  X == new.queue
<1>0. Q \in Seq(Messages) /\ W \in Seq(Messages)
  BY DEF Ends
<1>3. /\ \A i, j \in DOMAIN Q : i < j => Q[i].number < Q[j].number
      /\ \A i, j \in DOMAIN W : i < j /\ W[i].kind = "event" /\ W[j].kind = "event"
            => W[i].number < W[j].number
      /\ \A i \in DOMAIN W, j \in DOMAIN Q : W[i].kind = "event" => W[i].number < Q[j].number
      /\ \A i \in DOMAIN Q : Q[i].number <= n
      /\ \A i \in DOMAIN W : W[i].kind = "event" => W[i].number <= n
  BY DEF InOrder
<1>4. \A i \in DOMAIN Q : i \in Nat /\ Q[i].number \in Nat
  BY <1>0, Places DEF Messages
<1>5. \A i \in DOMAIN W : i \in Nat /\ W[i].number \in Nat
  BY <1>0, Places DEF Messages
<1>6. ASSUME NEW P \in Seq(Messages), X = Append(P, m), NEW d \in {0, 1},
             \A i \in DOMAIN P : i \in Nat /\ i + d \in DOMAIN Q /\ P[i] = Q[i + d]
      PROVE  InOrder(new, n + 1)
  <2> HIDE DEF Q, W, X
  <2>1. /\ Len(P) \in Nat /\ DOMAIN P = 1..Len(P)
        /\ \A i \in DOMAIN P : X[i] = P[i]
        /\ X[Len(P) + 1] = m
        /\ \A i \in DOMAIN X : i \in DOMAIN P \/ i = Len(P) + 1
    BY <1>6, AppendPlaces
  <2>2. \A i, j \in DOMAIN X : i < j => X[i].number < X[j].number
    <3> SUFFICES ASSUME NEW i \in DOMAIN X, NEW j \in DOMAIN X, i < j
                 PROVE  X[i].number < X[j].number
      OBVIOUS
    <3>1. i \in DOMAIN P
      BY <2>1
    <3>2. i + d \in DOMAIN Q /\ X[i] = Q[i + d] /\ i \in Nat
      BY <1>6, <2>1, <3>1
    <3>3. CASE j \in DOMAIN P
      <4>1. j + d \in DOMAIN Q /\ X[j] = Q[j + d] /\ i + d < j + d
        BY <1>6, <2>1, <3>2, <3>3
      <4> QED
        BY <1>3, <3>2, <4>1
    <3>4. CASE j = Len(P) + 1
      BY <1>3, <1>4, <2>1, <3>2, <3>4
    <3> QED
      BY <2>1, <3>3, <3>4
  <2>3. \A i \in DOMAIN W, j \in DOMAIN X : W[i].kind = "event" => W[i].number < X[j].number
    <3> SUFFICES ASSUME NEW i \in DOMAIN W, NEW j \in DOMAIN X, W[i].kind = "event"
                 PROVE  W[i].number < X[j].number
      OBVIOUS
    <3>1. CASE j \in DOMAIN P
      BY <1>3, <1>6, <2>1, <3>1
    <3>2. CASE j = Len(P) + 1
      BY <1>3, <1>5, <2>1, <3>2
    <3> QED
      BY <2>1, <3>1, <3>2
  <2>4. \A i \in DOMAIN X : X[i].number <= n + 1
    <3> SUFFICES ASSUME NEW i \in DOMAIN X PROVE X[i].number <= n + 1
      OBVIOUS
    <3>1. CASE i \in DOMAIN P
      BY <1>3, <1>4, <1>6, <2>1, <3>1
    <3>2. CASE i = Len(P) + 1
      BY <2>1, <3>2
    <3> QED
      BY <2>1, <3>1, <3>2
  <2>5. \A i \in DOMAIN W : W[i].kind = "event" => W[i].number <= n + 1
    BY <1>3, <1>5
  <2> QED
    BY <1>3, <2>2, <2>3, <2>4, <2>5 DEF InOrder, W, X
<1>7. CASE X = Append(Q, m)
  <2>1. \A i \in DOMAIN Q : i \in Nat /\ i + 0 \in DOMAIN Q /\ Q[i] = Q[i + 0]
    BY <1>4
  <2> QED
    BY <1>0, <1>6, <1>7, <2>1
<1>8. CASE Q # <<>> /\ X = Append(Tail(Q), m)
  BY <1>0, <1>6, <1>8, TailPlaces
<1> QED
  BY <1>7, <1>8

(* A message that is no event goes on the wire, or the first is heard.     *)
LEMMA WireOrder ==
  ASSUME NEW q \in Ends, NEW n \in Nat, NEW k \in Nat, n <= k, InOrder(q, n),
         NEW new \in Ends, new.queue = q.queue,
         \/ \E m \in Messages : m.kind # "event" /\ new.wire = Append(q.wire, m)
         \/ q.wire # <<>> /\ new.wire = Tail(q.wire)
  PROVE  InOrder(new, k)
<1> DEFINE Q == q.queue  W == q.wire  Y == new.wire
<1>0. Q \in Seq(Messages) /\ W \in Seq(Messages)
  BY DEF Ends
<1>3. /\ \A i, j \in DOMAIN Q : i < j => Q[i].number < Q[j].number
      /\ \A i, j \in DOMAIN W : i < j /\ W[i].kind = "event" /\ W[j].kind = "event"
            => W[i].number < W[j].number
      /\ \A i \in DOMAIN W, j \in DOMAIN Q : W[i].kind = "event" => W[i].number < Q[j].number
      /\ \A i \in DOMAIN Q : Q[i].number <= n
      /\ \A i \in DOMAIN W : W[i].kind = "event" => W[i].number <= n
  BY DEF InOrder
<1>4. \A i \in DOMAIN Q : i \in Nat /\ Q[i].number \in Nat
  BY <1>0, Places DEF Messages
<1>5. \A i \in DOMAIN W : i \in Nat /\ W[i].number \in Nat
  BY <1>0, Places DEF Messages
<1>6. ASSUME NEW d \in {0, 1},
             \A i \in DOMAIN Y : Y[i].kind = "event" => i \in Nat /\ i + d \in DOMAIN W /\ Y[i] = W[i + d]
      PROVE  InOrder(new, k)
  <2> HIDE DEF Q, W, Y
  <2>1. \A i, j \in DOMAIN Y : i < j /\ Y[i].kind = "event" /\ Y[j].kind = "event"
           => Y[i].number < Y[j].number
    <3> SUFFICES ASSUME NEW i \in DOMAIN Y, NEW j \in DOMAIN Y, i < j, Y[i].kind = "event",
                        Y[j].kind = "event"
                 PROVE  Y[i].number < Y[j].number
      OBVIOUS
    <3>1. i + d \in DOMAIN W /\ j + d \in DOMAIN W /\ i + d < j + d /\ Y[i] = W[i + d]
          /\ Y[j] = W[j + d]
      BY <1>6
    <3> QED
      BY <1>3, <3>1
  <2>2. \A i \in DOMAIN Y, j \in DOMAIN Q : Y[i].kind = "event" => Y[i].number < Q[j].number
    BY <1>3, <1>6
  <2>3. \A i \in DOMAIN Y : Y[i].kind = "event" => Y[i].number <= k
    BY <1>3, <1>5, <1>6
  <2>4. \A i \in DOMAIN Q : Q[i].number <= k
    BY <1>3, <1>4
  <2> QED
    BY <1>3, <2>1, <2>2, <2>3, <2>4 DEF InOrder, Q, Y
<1>7. ASSUME NEW m \in Messages, m.kind # "event", Y = Append(W, m)
      PROVE  InOrder(new, k)
  <2>1. /\ \A i \in DOMAIN W : Y[i] = W[i]
        /\ Y[Len(W) + 1] = m
        /\ \A i \in DOMAIN Y : i \in DOMAIN W \/ i = Len(W) + 1
    BY <1>0, <1>7, AppendPlaces
  <2>2. \A i \in DOMAIN Y : Y[i].kind = "event" => i \in Nat /\ i + 0 \in DOMAIN W /\ Y[i] = W[i + 0]
    BY <1>5, <1>7, <2>1
  <2> QED
    BY <1>6, <2>2
<1>8. CASE W # <<>> /\ Y = Tail(W)
  <2>1. \A i \in DOMAIN Y : i \in Nat /\ i + 1 \in DOMAIN W /\ Y[i] = W[i + 1]
    BY <1>0, <1>8, TailPlaces
  <2> QED
    BY <1>6, <2>1
<1> QED
  BY <1>7, <1>8

LEMMA ServerSame ==
  ASSUME ClientTypes
  PROVE  /\ \E n \in Nat : server.counter = n /\ server = [server EXCEPT !.counter = n]
         /\ server.counter \in Nat /\ server.version \in Nat \ {0}
<1>1. server.counter \in Nat /\ server = [server EXCEPT !.counter = server.counter]
      /\ server.version \in Nat \ {0}
  BY DEF ClientTypes, Servers
<1> QED
  BY <1>1

LEMMA GoneUnreachable ==
  ASSUME ClientTypes, NEW s \in Client!Sockets, Client!Gone(s)
  PROVE  ~Reachable(socket[s])
  BY DEF ClientTypes, Ends, Client!Gone, Reachable

(* The handler comes to another place, or gives up a socket that carried   *)
(* nothing more to the page.                                               *)
LEMMA DoorStep ==
  ASSUME ClientOK, ClientInv, NEW s \in Client!Sockets, NEW new \in Ends,
         socket' = [socket EXCEPT ![s] = new], new.page = socket[s].page,
         \/ new.up = socket[s].up /\ new.queue = socket[s].queue /\ new.wire = socket[s].wire
         \/ ~new.up /\ new.queue = <<>> /\ new.wire = <<>>
            /\ (socket[s].door = "asked" \/ ~Reachable(socket[s])),
         new.door \notin {"asked", "greeting"}
           \/ (new.door = "greeting" /\ socket[s].door = "asked"),
         NEW n \in Nat, server.counter <= n, server' = [server EXCEPT !.counter = n],
         UNCHANGED <<hook, data, past>>, happened' \in {happened, happened + 1}
  PROVE  ClientInv'
<1> DEFINE q == socket[s]
<1>1. /\ q \in Ends /\ EndOK(q, server.counter, server.version)
      /\ server.counter \in Nat /\ server.version \in Nat
  BY ServerSame DEF ClientInv, EndsInv, ClientTypes
<1>2. EndOK(q, n, server.version)
  BY <1>1, EndGrows
<1>3. EndOK(new, n, server.version)
  <2>1. CASE new.up = q.up /\ new.queue = q.queue /\ new.wire = q.wire
    <3>1. InOrder(q, n) => InOrder(new, n)
      BY <2>1 DEF InOrder
    <3> QED
      BY <1>2, <2>1, <3>1 DEF EndOK
  <2>2. CASE ~new.up /\ new.queue = <<>> /\ new.wire = <<>>
    BY <2>2 DEF EndOK, ClientOK
  <2> QED
    BY <2>1, <2>2
<1>4. Softer(q, new)
  <2>1. CASE new.up = q.up /\ new.queue = q.queue /\ new.wire = q.wire
    BY <2>1 DEF Softer, Reachable, Holds, Ahead
  <2>2. CASE ~new.up /\ (q.door = "asked" \/ ~Reachable(q))
    <3>1. \A v \in Nat \ {0} : ~Holds(q, v)
      BY <1>1, <2>2 DEF EndOK, Holds
    <3> QED
      BY <2>2, <3>1 DEF Softer, Reachable
  <2> QED
    BY <2>1, <2>2
<1> HIDE DEF q
<1> QED
  BY <1>3, <1>4, EndStep DEF q

LEMMA HandlerKeeps ==
  ASSUME ClientOK, ClientInv, NEW s \in Client!Sockets,
         \/ Client!Accept(s) \/ Client!Refuse(s) \/ Client!Abandon(s) \/ Client!GreetFails(s)
         \/ Client!EndStream(s)
  PROVE  ClientInv'
<1>1. socket[s] \in Ends /\ ClientTypes
  BY DEF ClientInv, ClientTypes
<1>0. PICK N \in Nat : server.counter = N /\ server = [server EXCEPT !.counter = N]
  BY <1>1, ServerSame
<1>2. ASSUME NEW door \in {"greeting", "none", "leaked"},
             socket' = [socket EXCEPT ![s].door = door],
             door = "greeting" => socket[s].door = "asked",
             NEW n \in Nat, server.counter <= n, server' = [server EXCEPT !.counter = n],
             UNCHANGED <<hook, data, past>>, happened' \in {happened, happened + 1}
      PROVE  ClientInv'
  <2> DEFINE new == [socket[s] EXCEPT !.door = door]
  <2>1. socket' = [socket EXCEPT ![s] = new]
    BY <1>2
  <2>2. /\ new \in Ends /\ new.page = socket[s].page /\ new.up = socket[s].up
        /\ new.queue = socket[s].queue /\ new.wire = socket[s].wire /\ new.door = door
    BY <1>1 DEF Ends
  <2> HIDE DEF new
  <2> QED
    BY <1>2, <2>1, <2>2, DoorStep
<1>3. CASE Client!Accept(s)
  <2>1. /\ socket[s].door = "asked" /\ socket' = [socket EXCEPT ![s].door = "greeting"]
        /\ server' = server /\ UNCHANGED <<hook, data, past, happened>>
    BY <1>3 DEF Client!Accept
  <2> QED
    BY <1>0, <1>1, <1>2, <2>1
<1>4. CASE Client!Abandon(s)
  <2>1. /\ socket' = [socket EXCEPT ![s].door = "none"]
        /\ server' = server /\ UNCHANGED <<hook, data, past, happened>>
    BY <1>4 DEF Client!Abandon
  <2> QED
    BY <1>0, <1>1, <1>2, <2>1
<1>5. CASE Client!GreetFails(s)
  <2>1. /\ socket' = [socket EXCEPT ![s].door = "leaked"]
        /\ server' = [server EXCEPT !.counter = N + 1]
        /\ UNCHANGED <<hook, data, past, happened>>
        /\ N + 1 \in Nat /\ server.counter <= N + 1
    BY <1>0, <1>5 DEF Client!GreetFails
  <2> QED
    BY <1>2, <2>1
<1>6. CASE Client!Refuse(s)
  <2> DEFINE new == [socket[s] EXCEPT !.door = "none", !.up = FALSE]
  <2>1. /\ socket[s].door = "asked" /\ socket' = [socket EXCEPT ![s] = new]
        /\ server' = server /\ UNCHANGED <<hook, data, past>> /\ happened' = happened + 1
    BY <1>6 DEF Client!Refuse, Client!Happen
  <2>2. /\ new \in Ends /\ new.page = socket[s].page /\ ~new.up
        /\ new.queue = socket[s].queue /\ new.wire = socket[s].wire /\ new.door = "none"
    BY <1>1 DEF Ends
  <2>3. socket[s].queue = <<>> /\ socket[s].wire = <<>>
    <3>1. EndOK(socket[s], server.counter, server.version)
      BY DEF ClientInv, EndsInv
    <3> QED
      BY <2>1, <3>1 DEF EndOK
  <2>4. new.queue = <<>> /\ new.wire = <<>>
    BY <2>2, <2>3
  <2>5. server' = [server EXCEPT !.counter = N] /\ server.counter <= N
    BY <1>0, <2>1
  <2> HIDE DEF new
  <2> QED
    BY <2>1, <2>2, <2>4, <2>5, DoorStep
<1>7. CASE Client!EndStream(s)
  <2> DEFINE new == [socket[s] EXCEPT !.door = "none", !.up = FALSE, !.queue = <<>>, !.wire = <<>>]
  <2>1. /\ socket' = [socket EXCEPT ![s] = new] /\ Client!Gone(s)
        /\ server' = server /\ UNCHANGED <<hook, data, past, happened>>
    BY <1>7 DEF Client!EndStream, Client!Ended
  <2>2. /\ new \in Ends /\ new.page = socket[s].page /\ ~new.up
        /\ new.queue = <<>> /\ new.wire = <<>> /\ new.door = "none"
    BY <1>1, EmptySeq DEF Ends
  <2>3. ~Reachable(socket[s])
    BY <1>1, <2>1, GoneUnreachable
  <2>4. server' = [server EXCEPT !.counter = N] /\ server.counter <= N
    BY <1>0, <2>1
  <2> HIDE DEF new
  <2> QED
    BY <2>1, <2>2, <2>3, <2>4, DoorStep
<1> QED
  BY <1>3, <1>4, <1>5, <1>6, <1>7

LEMMA GreetKeeps ==
  ASSUME ClientOK, ClientInv, NEW s \in Client!Sockets, Client!Greet(s)
  PROVE  ClientInv'
<1> DEFINE q == socket[s]
           n == server.counter + 1
           new == [q EXCEPT !.door = "streaming",
                            !.wire = IF q.up THEN <<Client!Greeting(n)>> ELSE <<>>]
<1>1. /\ q \in Ends /\ EndOK(q, server.counter, server.version)
      /\ server.counter \in Nat /\ server.version \in Nat \ {0} /\ n \in Nat /\ server.counter <= n
  BY ServerSame DEF ClientInv, EndsInv, ClientTypes
<1>2. /\ q.door = "greeting" /\ q.wire = <<>>
      /\ socket' = [socket EXCEPT ![s] = new]
      /\ server' = [server EXCEPT !.counter = n] /\ UNCHANGED <<hook, data, past, happened>>
  BY <1>1 DEF Client!Greet, EndOK
<1>3. PICK w \in Seq(Messages) : w = IF q.up THEN <<Client!Greeting(n)>> ELSE <<>>
  <2>1. Client!Greeting(n) \in Messages
    BY <1>1 DEF Client!Greeting, Messages
  <2> DEFINE g == Client!Greeting(n)
  <2>2. g \in Messages
    BY <2>1
  <2> HIDE DEF g
  <2>3. <<g>> \in Seq(Messages)
    BY <2>2
  <2>4. <<>> \in Seq(Messages)
    BY EmptySeq
  <2> QED
    BY <2>3, <2>4 DEF g
<1>4. /\ new \in Ends /\ new.page = q.page /\ new.up = q.up /\ new.queue = q.queue
      /\ new.wire = w /\ new.door = "streaming"
  BY <1>1, <1>3 DEF Ends
<1>5. \A i \in DOMAIN w : w[i] = Client!Greeting(n) /\ w[i].kind = "greeting" /\ w[i].version = 0
                           /\ i \in Nat
  <2> DEFINE g == Client!Greeting(n)
  <2>1. g.kind = "greeting" /\ g.version = 0
    BY DEF Client!Greeting
  <2> HIDE DEF g
  <2>2. w = <<g>> \/ w = <<>>
    BY <1>3 DEF g
  <2>3. \A i \in DOMAIN w : i \in Nat /\ w[i] = g
    BY <2>2
  <2> QED
    BY <2>1, <2>3 DEF g
<1>6. EndOK(q, n, server.version)
  BY <1>1, EndGrows
<1> HIDE DEF new, n
<1>7. q.up => InOrder(new, n)
  BY <1>4, <1>5, <1>6 DEF EndOK, InOrder
<1>8. EndOK(new, n, server.version)
  BY <1>1, <1>3, <1>4, <1>5, <1>6, <1>7 DEF EndOK
<1>9. Softer(q, new)
  BY <1>1, <1>2, <1>4, <1>5 DEF Softer, Reachable, Holds, Ahead
<1> QED
  BY <1>1, <1>2, <1>4, <1>8, <1>9, EndStep

LEMMA PumpKeeps ==
  ASSUME ClientOK, ClientInv, NEW s \in Client!Sockets, Client!Pump(s)
  PROVE  ClientInv'
<1> DEFINE q == socket[s]
           new == [q EXCEPT !.queue = Tail(q.queue), !.wire = Append(q.wire, Head(q.queue))]
           Q == q.queue
           W == q.wire
<1>0. PICK N \in Nat : server.counter = N /\ server = [server EXCEPT !.counter = N]
  BY ServerSame DEF ClientInv
<1>1. /\ q \in Ends /\ EndOK(q, server.counter, server.version)
      /\ server.counter \in Nat /\ server.version \in Nat \ {0}
  BY ServerSame DEF ClientInv, EndsInv, ClientTypes
<1>2. /\ q.door = "streaming" /\ q.up /\ Q # <<>>
      /\ socket' = [socket EXCEPT ![s] = new]
      /\ UNCHANGED <<server, hook, data, past, happened>>
  BY DEF Client!Pump
<1>3. Q \in Seq(Messages) /\ W \in Seq(Messages)
  BY <1>1 DEF Ends
<1>4. /\ Tail(Q) \in Seq(Messages) /\ Len(Tail(Q)) = Len(Q) - 1 /\ Len(Q) >= 1
      /\ 1 \in DOMAIN Q /\ Head(Q) = Q[1] /\ Q[1] \in Messages
      /\ \A i \in DOMAIN Tail(Q) : i \in Nat /\ i + 1 \in DOMAIN Q /\ Tail(Q)[i] = Q[i + 1]
      /\ \A i \in DOMAIN Q : i = 1 \/ (i - 1 \in DOMAIN Tail(Q) /\ Tail(Q)[i - 1] = Q[i])
  BY <1>2, <1>3, TailPlaces
<1>5. PICK Y \in Seq(Messages) :
        /\ Y = Append(W, Head(Q))
        /\ \A i \in DOMAIN W : i \in DOMAIN Y /\ Y[i] = W[i]
        /\ Len(W) + 1 \in DOMAIN Y /\ Y[Len(W) + 1] = Q[1]
        /\ \A i \in DOMAIN Y : i \in DOMAIN W \/ (i = Len(W) + 1 /\ i \in Nat)
  <2> DEFINE Z == Append(W, Q[1])
  <2>1. /\ Z \in Seq(Messages) /\ Z[Len(W) + 1] = Q[1] /\ Len(W) + 1 \in DOMAIN Z
        /\ \A i \in DOMAIN W : i \in DOMAIN Z /\ Z[i] = W[i]
        /\ \A i \in DOMAIN Z : i \in DOMAIN W \/ (i = Len(W) + 1 /\ i \in Nat)
    BY <1>3, <1>4, AppendPlaces
  <2>2. Z = Append(W, Head(Q))
    BY <1>4
  <2> HIDE DEF Z
  <2> QED
    BY <2>1, <2>2
<1>6. /\ new \in Ends /\ new.page = q.page /\ new.up = q.up /\ new.queue = Tail(Q)
      /\ new.wire = Y /\ new.door = q.door
  BY <1>1, <1>4, <1>5 DEF Ends
<1> HIDE DEF new
<1>7. InOrder(new, server.counter)
  BY <1>1, <1>2, <1>5, <1>6, PumpOrder DEF EndOK
<1>8. Len(Q) \in Nat /\ Len(Tail(Q)) <= QueueSize
  BY <1>1, <1>3, <1>4, LenProperties DEF EndOK, ClientOK
<1>9. EndOK(new, server.counter, server.version)
  <2>1. \A i \in DOMAIN new.queue : new.queue[i].kind = "event" /\ new.queue[i].version <= server.version
    BY <1>1, <1>4, <1>6 DEF EndOK
  <2>2. \A i \in DOMAIN new.wire :
           new.wire[i].version <= server.version
           /\ (new.wire[i].kind # "event" => new.wire[i].version = 0)
    BY <1>1, <1>4, <1>5, <1>6, SMTT(30) DEF EndOK
  <2> QED
    BY <1>1, <1>2, <1>6, <1>7, <1>8, <2>1, <2>2 DEF EndOK
<1>10. Softer(q, new)
  <2>1. ASSUME NEW v \in Nat \ {0}, Holds(q, v) PROVE Holds(new, v)
    <3>0. Reachable(new)
      BY <1>6, <2>1 DEF Holds, Reachable
    <3>1. ASSUME NEW i \in DOMAIN Q, Q[i].version = v PROVE Holds(new, v)
      <4>1. CASE i = 1
        <5>1. Y[Len(W) + 1].version = v
          BY <1>5, <3>1, <4>1
        <5> QED
          BY <1>5, <1>6, <3>0, <5>1 DEF Holds
      <4>2. CASE i - 1 \in DOMAIN Tail(Q) /\ Tail(Q)[i - 1] = Q[i]
        BY <1>6, <3>0, <3>1, <4>2 DEF Holds
      <4> QED
        BY <1>4, <4>1, <4>2
    <3>2. ASSUME NEW i \in DOMAIN W, W[i].version = v PROVE Holds(new, v)
      BY <1>5, <1>6, <3>0, <3>2 DEF Holds
    <3> QED
      BY <2>1, <3>1, <3>2 DEF Holds
  <2>2. ASSUME NEW n \in Nat, Ahead(q, n) PROVE Ahead(new, n)
    BY <1>4, <1>5, <1>6, <2>2 DEF Ahead
  <2> QED
    BY <1>6, <2>1, <2>2 DEF Softer, Reachable
<1>11. /\ server' = [server EXCEPT !.counter = N] /\ server.counter <= N
       /\ EndOK(new, N, server.version) /\ UNCHANGED <<hook, data, past>> /\ happened' = happened
  BY <1>0, <1>2, <1>9
<1> HIDE DEF q
<1> QED
  BY <1>2, <1>6, <1>10, <1>11, EndStep DEF q

LEMMA HeartbeatKeeps ==
  ASSUME ClientOK, ClientInv, Client!Heartbeat
  PROVE  ClientInv'
<1> DEFINE n == server.counter + 1
<1>1. /\ server.counter \in Nat /\ server.version \in Nat \ {0} /\ n \in Nat /\ server.counter <= n
      /\ server' = [server EXCEPT !.counter = n] /\ UNCHANGED <<hook, data, past>>
      /\ happened' = happened + 1
  BY ServerSame DEF ClientInv, Client!Heartbeat, Client!Happen
<1>2. ASSUME UNCHANGED socket PROVE ClientInv'
  <2>1. CASE Client!Sockets = {}
    <3>1. server' \in Servers /\ server'.version = server.version
          /\ server'.unpublished = server.unpublished /\ server'.counter = n
      BY <1>1 DEF ClientInv, ClientTypes, Servers
    <3>2. ClientTypes'
      BY <1>1, <1>2, <3>1 DEF ClientInv, ClientTypes
    <3>3. StreamInv'
      BY <1>1, <1>2, <2>1, PagesKeep DEF ClientInv, ClientTypes, Hooks
    <3>4. ListInv'
      BY <1>1, <1>2, <2>1, <3>1 DEF ClientInv, ListInv, Accounted, ClientTypes, Views
    <3> QED
      BY <1>1, <2>1, <3>2, <3>3, <3>4 DEF ClientInv, EndsInv, LossInv
  <2>2. ASSUME NEW s \in Client!Sockets PROVE ClientInv'
    <3>1. socket' = [socket EXCEPT ![s] = socket[s]] /\ socket[s] \in Ends
      BY <1>2 DEF ClientInv, ClientTypes
    <3>2. EndOK(socket[s], n, server.version)
      BY <1>1, <3>1, EndGrows DEF ClientInv, EndsInv
    <3>3. Softer(socket[s], socket[s])
      BY DEF Softer
    <3> QED
      BY <1>1, <3>1, <3>2, <3>3, EndStep
  <2> QED
    BY <2>1, <2>2
<1>3. ASSUME NEW s \in Client!Sockets, socket[s].up, socket[s].door = "streaming",
             socket' = [socket EXCEPT ![s].wire = Append(@, Client!Pong(n))]
      PROVE  ClientInv'
  <2> DEFINE q == socket[s]
             m == Client!Pong(n)
             new == [q EXCEPT !.wire = Append(q.wire, m)]
             W == q.wire
  <2>1. /\ q \in Ends /\ EndOK(q, n, server.version) /\ EndOK(q, server.counter, server.version)
        /\ q.queue \in Seq(Messages) /\ W \in Seq(Messages)
        /\ socket' = [socket EXCEPT ![s] = new]
    BY <1>1, <1>3, EndGrows DEF ClientInv, EndsInv, ClientTypes, Ends
  <2>2. m \in Messages /\ m.kind = "pong" /\ m.version = 0
    BY <1>1 DEF Client!Pong, Messages
  <2> HIDE DEF m
  <2>3. PICK Y \in Seq(Messages) :
          /\ Y = Append(W, m)
          /\ \A i \in DOMAIN W : i \in DOMAIN Y /\ Y[i] = W[i]
          /\ Y[Len(W) + 1] = m
          /\ \A i \in DOMAIN Y : i \in DOMAIN W \/ i = Len(W) + 1
    <3> DEFINE Z == Append(W, m)
    <3>1. /\ Z \in Seq(Messages) /\ Z[Len(W) + 1] = m
          /\ \A i \in DOMAIN W : i \in DOMAIN Z /\ Z[i] = W[i]
          /\ \A i \in DOMAIN Z : i \in DOMAIN W \/ (i = Len(W) + 1 /\ i \in Nat)
      BY <2>1, <2>2, AppendPlaces
    <3>2. Z = Append(W, m)
      OBVIOUS
    <3> HIDE DEF Z
    <3> QED
      BY <3>1, <3>2
  <2>4. /\ new \in Ends /\ new.page = q.page /\ new.up = q.up /\ new.queue = q.queue
        /\ new.wire = Y /\ new.door = q.door
    BY <2>1, <2>3 DEF Ends
  <2> HIDE DEF new
  <2>5. InOrder(new, n)
    <3>1. \E x \in Messages : x.kind # "event" /\ new.wire = Append(q.wire, x)
      BY <2>2, <2>3, <2>4
    <3>2. InOrder(q, n) /\ n <= n
      BY <1>1, <1>3, <2>1 DEF EndOK
    <3> HIDE DEF n, q
    <3> QED
      BY <1>1, <2>1, <2>4, <3>1, <3>2, WireOrder
  <2>6. EndOK(new, n, server.version)
    BY <1>1, <1>3, <2>1, <2>2, <2>3, <2>4, <2>5 DEF EndOK
  <2>7. Softer(q, new)
    BY <2>2, <2>3, <2>4 DEF Softer, Reachable, Holds, Ahead
  <2> HIDE DEF q
  <2> QED
    BY <1>1, <2>1, <2>4, <2>6, <2>7, EndStep DEF q
<1> QED
  BY <1>2, <1>3 DEF Client!Heartbeat


-----------------------------------------------------------------------------
(* Steps of the server and of the connection.                              *)

LEMMA LossStays ==
  ASSUME LossInv, past'.first = past.first, past'.heard = past.heard, past'.alarmed = past.alarmed,
         hook'.last = hook.last, data'.consumer = data.consumer
  PROVE  LossInv'
  BY DEF LossInv

(* The newest version stays accounted for if whatever held it hands it on. *)
LEMMA ListStep ==
  ASSUME ClientTypes, ListInv, server'.version = server.version,
         data'.consumer = data.consumer, data'.shown = data.shown, data'.newest = data.newest,
         data'.batch = data.batch,
         past'.flushed = past.flushed,
         past.lost = server.version => past'.lost = server.version,
         data.consumer = "list" /\ server.version \in server.unpublished => Accounted',
         \A s \in Client!Sockets :
            data.consumer = "list" /\ Holds(socket[s], server.version) => Accounted',
         data.consumer = "list" /\ ~past'.outlived =>
            /\ data.newest <= server'.counter
            /\ \A s \in Client!Sockets : Reachable(socket'[s]) => Ahead(socket'[s], data.newest)
  PROVE  ListInv'
<1> SUFFICES ASSUME data.consumer = "list" PROVE ListInv'
  BY DEF ListInv
<1>1. /\ Accounted
      /\ past.flushed = server.version /\ past.lost # server.version /\ data.shown > 0
            => data.shown = server.version
  BY DEF ListInv
<1>2. Accounted'
  <2>1. CASE server.version = 1 \/ server.version \in {past.lost, data.batch, past.flushed}
    BY <2>1 DEF Accounted
  <2> QED
    BY <1>1, <2>1 DEF Accounted
<1> QED
  BY <1>1, <1>2 DEF ListInv

LEMMA CommitKeeps ==
  ASSUME ClientOK, ClientInv, Client!Commit
  PROVE  ClientInv'
<1> DEFINE v == server.version + 1
<1>1. /\ server' = [server EXCEPT !.version = v, !.unpublished = server.unpublished \union {v}]
      /\ UNCHANGED <<socket, hook, data, past, happened>>
  BY DEF Client!Commit
<1>2. /\ server \in Servers /\ server.version \in Nat \ {0} /\ server.counter \in Nat
      /\ v \in Nat \ {0} /\ server.version <= v
      /\ server.unpublished \subseteq 0..server.version
  BY DEF ClientInv, ClientTypes, Servers
<1>3. /\ server' \in Servers /\ server'.version = v /\ server'.counter = server.counter
      /\ server'.unpublished = server.unpublished \union {v}
  <2>1. server.unpublished \union {v} \in SUBSET Nat
    BY <1>2
  <2> HIDE DEF v
  <2> QED
    BY <1>1, <1>2, <2>1 DEF Servers
<1>4. ClientTypes'
  <2>1. {data.shown, data.value, data.batch, past.flushed, past.lost} \subseteq 0..v
    BY <1>2 DEF ClientInv, ClientTypes
  <2>2. server.unpublished \union {v} \subseteq 0..v
    BY <1>2
  <2> HIDE DEF v
  <2> QED
    BY <1>1, <1>3, <2>1, <2>2 DEF ClientInv, ClientTypes
<1>5. EndsInv'
  <2> SUFFICES ASSUME NEW s \in Client!Sockets
               PROVE  EndOK(socket[s], server.counter, v)
    BY <1>1, <1>3 DEF EndsInv
  <2>1. socket[s] \in Ends /\ EndOK(socket[s], server.counter, server.version)
    BY DEF ClientInv, EndsInv, ClientTypes
  <2> QED
    BY <1>2, <2>1, EndGrows
<1>6. StreamInv'
  BY <1>1, PagesKeep DEF ClientInv, ClientTypes, Hooks
<1>7. LossInv'
  BY <1>1, LossStays DEF ClientInv
<1>8. ListInv'
  <2>1. past.flushed # v /\ past.flushed \in Nat
    BY <1>2 DEF ClientInv, ClientTypes
  <2>2. v \in server'.unpublished
    BY <1>3
  <2> HIDE DEF v
  <2> QED
    BY <1>1, <1>3, <2>1, <2>2 DEF ClientInv, ListInv, Accounted
<1> QED
  BY <1>4, <1>5, <1>6, <1>7, <1>8 DEF ClientInv

LEMMA LoseKeeps ==
  ASSUME ClientOK, ClientInv, NEW s \in Client!Sockets, Client!Lose(s)
  PROVE  ClientInv'
<1> DEFINE new == [socket[s] EXCEPT !.up = FALSE, !.wire = <<>>]
<1>1. /\ socket' = [socket EXCEPT ![s] = new] /\ UNCHANGED <<server, hook, data>>
      /\ past' = Client!Losing(Client!Carried(s)) /\ happened' = happened + 1
  BY DEF Client!Lose, Client!Happen, Client!LostWith
<1>2. /\ socket[s] \in Ends /\ EndOK(socket[s], server.counter, server.version)
      /\ ClientTypes /\ EndsInv /\ happened \in Nat
  BY DEF ClientInv, EndsInv, ClientTypes
<1>3. /\ new \in Ends /\ new.page = socket[s].page /\ new.up = FALSE
      /\ new.queue = socket[s].queue /\ new.wire = <<>> /\ new.door = socket[s].door
  BY <1>2, EmptySeq DEF Ends
<1> HIDE DEF new
<1>4. /\ socket' \in [Client!Sockets -> Ends] /\ socket'[s] = new
      /\ \A t \in Client!Sockets \ {s} : socket'[t] = socket[t]
  BY <1>1, <1>2, <1>3, EndMoves
<1>5. /\ Client!Carried(s) \subseteq 0..server.version
      /\ Holds(socket[s], server.version) => server.version \in Client!Carried(s)
  BY <1>2, CarriedBounded
<1>6. /\ past' \in Pasts /\ past'.lost \in 0..server.version
      /\ past'.crossed = past.crossed /\ past'.first = past.first /\ past'.heard = past.heard
      /\ past'.alarmed = past.alarmed /\ past'.outlived = past.outlived
      /\ past'.flushed = past.flushed
      /\ data.consumer = "list" /\ server.version \in Client!Carried(s)
            => past'.lost = server.version
      /\ past.lost = server.version => past'.lost = server.version
  BY <1>1, <1>2, <1>5, LosingKeeps
<1>7. ClientTypes'
  BY <1>1, <1>4, <1>6 DEF ClientInv, ClientTypes
<1>8. EndsInv'
  <2>1. EndOK(new, server.counter, server.version)
    BY <1>2, <1>3 DEF EndOK
  <2> QED
    BY <1>1, <1>2, <1>4, <2>1 DEF EndsInv
<1>9. StreamInv'
  <2>1. \A t \in Client!Sockets : socket'[t].page = socket[t].page
    BY <1>3, <1>4
  <2>2. hook.ref \in Client!Sockets \union {0} /\ StreamInv
    BY DEF ClientInv, ClientTypes, Hooks
  <2> QED
    BY <1>1, <1>2, <1>6, <2>1, <2>2, PagesKeep
<1>10. LossInv'
  BY <1>1, <1>6, LossStays DEF ClientInv
<1>11. ListInv'
  <2>1. ~Reachable(socket'[s])
    BY <1>3, <1>4 DEF Reachable
  <2>2. data.consumer = "list" /\ ~past'.outlived =>
            /\ data.newest <= server'.counter
            /\ \A t \in Client!Sockets : Reachable(socket'[t]) => Ahead(socket'[t], data.newest)
    BY <1>1, <1>4, <1>6, <2>1 DEF ClientInv, ListInv
  <2>3. data.consumer = "list" /\ server.version \in server.unpublished => Accounted'
    BY <1>1 DEF Accounted
  <2>4. ASSUME NEW t \in Client!Sockets, data.consumer = "list", Holds(socket[t], server.version)
        PROVE  Accounted'
    <3>1. CASE t = s
      BY <1>1, <1>5, <1>6, <2>4, <3>1 DEF Accounted
    <3>2. CASE t # s
      BY <1>1, <1>4, <2>4, <3>2 DEF Accounted
    <3> QED
      BY <3>1, <3>2
  <2>5. ListInv
    BY DEF ClientInv
  <2> QED
    BY <1>1, <1>2, <1>6, <2>2, <2>3, <2>4, <2>5, ListStep
<1> QED
  BY <1>7, <1>8, <1>9, <1>10, <1>11 DEF ClientInv

LEMMA RestartKeeps ==
  ASSUME ClientOK, ClientInv, Client!Restart
  PROVE  ClientInv'
<1> DEFINE L == server.unpublished \union UNION {Client!Carried(s) : s \in Client!Sockets}
           p == Client!Losing(L)
           down(s) == [socket[s] EXCEPT !.door = "none", !.up = FALSE, !.queue = <<>>, !.wire = <<>>]
<1>1. /\ socket' = [s \in Client!Sockets |-> down(s)] /\ UNCHANGED <<hook, data>>
      /\ past' = [p EXCEPT !.outlived = data.newest > 0, !.first = 0, !.heard = {},
                           !.alarmed = {}, !.events = {}]
      /\ server' = [server EXCEPT !.counter = 0, !.unpublished = {}]
      /\ happened' = happened + 1
  BY DEF Client!Restart, Client!Happen
<1>2. /\ ClientTypes /\ EndsInv /\ happened \in Nat /\ server \in Servers
      /\ server.unpublished \subseteq 0..server.version /\ data.newest \in Nat
  BY DEF ClientInv, ClientTypes, Views
<1>3. \A s \in Client!Sockets :
         /\ down(s) \in Ends /\ down(s).page = socket[s].page /\ ~down(s).up
         /\ down(s).queue = <<>> /\ down(s).wire = <<>> /\ down(s).door = "none"
  <2> SUFFICES ASSUME NEW s \in Client!Sockets
               PROVE  /\ down(s) \in Ends /\ down(s).page = socket[s].page /\ ~down(s).up
                      /\ down(s).queue = <<>> /\ down(s).wire = <<>> /\ down(s).door = "none"
    OBVIOUS
  <2>1. socket[s] \in Ends
    BY <1>2 DEF ClientTypes
  <2> QED
    BY <2>1, EmptySeq DEF Ends
<1> HIDE DEF down
<1>4. /\ L \subseteq 0..server.version
      /\ \A s \in Client!Sockets : Holds(socket[s], server.version) => server.version \in L
  BY <1>2, CarriedBounded
<1> HIDE DEF L
<1>5. /\ p \in Pasts /\ p.lost \in 0..server.version /\ p.crossed = past.crossed
      /\ p.flushed = past.flushed
      /\ data.consumer = "list" /\ server.version \in L => p.lost = server.version
      /\ past.lost = server.version => p.lost = server.version
  BY <1>2, <1>4, LosingKeeps
<1> HIDE DEF p
<1>6. /\ past' \in Pasts /\ past'.lost = p.lost /\ past'.crossed = past.crossed
      /\ past'.flushed = past.flushed /\ past'.first = 0 /\ past'.heard = {}
      /\ past'.outlived = (data.newest > 0)
  <2> DEFINE b == data.newest > 0
             none == {}
  <2>1. b \in BOOLEAN /\ none \in SUBSET Nat /\ none \in SUBSET (Nat \ {0})
    BY <1>2
  <2>2. past' = [p EXCEPT !.outlived = b, !.first = 0, !.heard = none, !.alarmed = none,
                          !.events = none]
    BY <1>1
  <2>3. p.lost \in Nat
    BY <1>5 DEF Pasts
  <2> HIDE DEF b, none
  <2>4. past' \in Pasts /\ past'.lost = p.lost /\ past'.crossed = p.crossed
        /\ past'.flushed = p.flushed /\ past'.first = 0 /\ past'.heard = none
        /\ past'.outlived = b
    BY <1>5, <2>1, <2>2, <2>3 DEF Pasts
  <2> QED
    BY <1>5, <2>4 DEF b, none
<1>7. /\ server' \in Servers /\ server'.counter = 0 /\ server'.version = server.version
      /\ server'.unpublished = {}
  BY <1>1, <1>2 DEF Servers
<1>8. /\ socket' \in [Client!Sockets -> Ends]
      /\ \A s \in Client!Sockets : socket'[s] = down(s)
  BY <1>1, <1>3
<1>9. ClientTypes'
  BY <1>1, <1>2, <1>5, <1>6, <1>7, <1>8 DEF ClientTypes
<1>10. EndsInv'
  BY <1>3, <1>8 DEF EndsInv, EndOK, ClientOK
<1>11. StreamInv'
  <2>1. hook.ref \in Client!Sockets \union {0} /\ StreamInv
    BY DEF ClientInv, ClientTypes, Hooks
  <2> QED
    BY <1>1, <1>2, <1>3, <1>6, <1>8, <2>1, PagesKeep
<1>12. LossInv'
  BY <1>6 DEF LossInv
<1>13. ListInv'
  <2>1. data.consumer = "list" /\ ~past'.outlived =>
            /\ data.newest <= server'.counter
            /\ \A t \in Client!Sockets : Reachable(socket'[t]) => Ahead(socket'[t], data.newest)
    <3>1. ~past'.outlived => data.newest = 0
      <4>1. data.newest # 0 => data.newest > 0
        BY <1>2
      <4>2. ASSUME data.newest > 0 PROVE past'.outlived
        <5>1. (data.newest > 0) = TRUE
          BY <4>2
        <5>2. past'.outlived = TRUE
          BY <1>6, <5>1, Zenon
        <5> QED
          BY <5>2
      <4> QED
        BY <4>1, <4>2
    <3>2. \A t \in Client!Sockets : ~Reachable(socket'[t])
      BY <1>3, <1>8 DEF Reachable
    <3> QED
      BY <1>7, <3>1, <3>2
  <2>2. data.consumer = "list" /\ server.version \in server.unpublished => Accounted'
    BY <1>5, <1>6, <1>7 DEF Accounted, L
  <2>3. \A t \in Client!Sockets :
           data.consumer = "list" /\ Holds(socket[t], server.version) => Accounted'
    BY <1>4, <1>5, <1>6, <1>7 DEF Accounted
  <2>4. ListInv
    BY DEF ClientInv
  <2> QED
    BY <1>1, <1>2, <1>5, <1>6, <1>7, <2>1, <2>2, <2>3, <2>4, ListStep
<1> QED
  BY <1>9, <1>10, <1>11, <1>12, <1>13 DEF ClientInv

(* An event in the queue of a subscription.                                *)
Enqueued(q, m) ==
  [q EXCEPT !.queue = Append(IF Len(q.queue) = QueueSize THEN Tail(q.queue) ELSE q.queue, m)]

LEMMA QueuedEnd ==
  ASSUME ClientOK, NEW q \in Ends, NEW n \in Nat, NEW w \in Nat, EndOK(q, n, w),
         q.door \in Client!Subscribed,
         NEW v \in Nat, v <= w, NEW new,
         new = Enqueued(q, Client!Event(n + 1, v))
  PROVE  /\ new \in Ends /\ EndOK(new, n + 1, w)
         /\ new.page = q.page /\ new.up = q.up
         /\ Reachable(q) => Holds(new, v)
         /\ \A u \in Nat : Holds(q, u) =>
               Holds(new, u) \/ (Len(q.queue) = QueueSize /\ Head(q.queue).version = u)
         /\ \A k \in 0..n : Ahead(q, k) => Ahead(new, k)
<1> DEFINE Q == q.queue
           m == Client!Event(n + 1, v)
           P == IF Len(Q) = QueueSize THEN Tail(Q) ELSE Q
           X == Append(P, m)
<1>1. Q \in Seq(Messages) /\ q.wire \in Seq(Messages) /\ q.up \in BOOLEAN /\ Len(Q) <= QueueSize
      /\ Len(Q) \in Nat
  BY LenProperties DEF Ends, EndOK
<1>2. m \in Messages /\ m.kind = "event" /\ m.number = n + 1 /\ m.version = v
  BY DEF Client!Event, Messages
<1> HIDE DEF m
<1>3. Len(Q) = QueueSize => Q # <<>>
  BY <1>1, LenProperties DEF ClientOK
<1>4. PICK d \in {0, 1} :
        /\ P \in Seq(Messages) /\ Len(P) < QueueSize
        /\ \A i \in DOMAIN P : i \in Nat /\ i + d \in DOMAIN Q /\ P[i] = Q[i + d]
        /\ d = 1 => Len(Q) = QueueSize /\ Head(Q) = Q[1] /\ P = Tail(Q) /\ Q # <<>>
        /\ d = 0 => P = Q
        /\ \A i \in DOMAIN Q : (i = 1 /\ d = 1) \/ (i - d \in DOMAIN P /\ P[i - d] = Q[i])
  <2>1. CASE Len(Q) = QueueSize
    <3>1. /\ Tail(Q) \in Seq(Messages) /\ Len(Tail(Q)) = Len(Q) - 1 /\ Head(Q) = Q[1]
          /\ \A i \in DOMAIN Tail(Q) : i \in Nat /\ i + 1 \in DOMAIN Q /\ Tail(Q)[i] = Q[i + 1]
          /\ \A i \in DOMAIN Q : i = 1 \/ (i - 1 \in DOMAIN Tail(Q) /\ Tail(Q)[i - 1] = Q[i])
      BY <1>1, <1>3, <2>1, TailPlaces
    <3>2. Len(Tail(Q)) < QueueSize
      BY <1>1, <2>1, <3>1 DEF ClientOK
    <3>3. P = Tail(Q)
      BY <2>1
    <3> HIDE DEF P, Q
    <3> QED
      BY <1>3, <2>1, <3>1, <3>2, <3>3
  <2>2. CASE Len(Q) # QueueSize
    <3>1. \A i \in DOMAIN Q : i \in Nat
      BY <1>1, Places
    <3>2. P = Q /\ Len(Q) < QueueSize
      BY <1>1, <2>2 DEF ClientOK
    <3> HIDE DEF P, Q
    <3> QED
      BY <1>1, <3>1, <3>2
  <2> QED
    BY <2>1, <2>2
<1>5. /\ X \in Seq(Messages) /\ Len(X) = Len(P) + 1 /\ Len(P) \in Nat
      /\ \A i \in DOMAIN P : i \in DOMAIN X /\ X[i] = P[i]
      /\ Len(P) + 1 \in DOMAIN X /\ X[Len(P) + 1] = m
      /\ \A i \in DOMAIN X : i \in DOMAIN P \/ (i = Len(P) + 1 /\ i \in Nat)
  <2> HIDE DEF P
  <2> QED
    BY <1>2, <1>4, AppendPlaces
<1>6. new = [q EXCEPT !.queue = X]
  BY DEF m, Enqueued
<1>7. Len(X) <= QueueSize
  BY <1>4, <1>5 DEF ClientOK
<1>8. X = Append(Q, m) \/ (Q # <<>> /\ X = Append(Tail(Q), m))
  BY <1>4
<1> HIDE DEF P, X
<1>9. /\ new \in Ends /\ new.page = q.page /\ new.up = q.up /\ new.queue = X
      /\ new.wire = q.wire /\ new.door = q.door
  BY <1>5, <1>6 DEF Ends
<1>10. InOrder(q, n) => InOrder(new, n + 1)
  BY <1>2, <1>8, <1>9, PublishOrder
<1>11. \A i \in DOMAIN X : X[i].kind = "event" /\ X[i].version <= w
  <2>1. \A i \in DOMAIN Q : Q[i].kind = "event" /\ Q[i].version <= w
    BY DEF EndOK
  <2> HIDE DEF Q
  <2>2. ASSUME NEW i \in DOMAIN P PROVE X[i].kind = "event" /\ X[i].version <= w
    <3>1. i + d \in DOMAIN Q /\ X[i] = Q[i + d]
      BY <1>4, <1>5
    <3> QED
      BY <2>1, <3>1
  <2>3. X[Len(P) + 1].kind = "event" /\ X[Len(P) + 1].version <= w
    BY <1>2, <1>5
  <2> QED
    BY <1>5, <2>2, <2>3
<1>12. EndOK(new, n + 1, w)
  BY <1>7, <1>9, <1>10, <1>11 DEF EndOK, Client!Subscribed
<1>13. ASSUME Reachable(q) PROVE Holds(new, v)
  <2>1. Reachable(new) /\ Len(P) + 1 \in DOMAIN X /\ X[Len(P) + 1].version = v
    BY <1>2, <1>5, <1>9, <1>13 DEF Reachable
  <2> QED
    BY <1>9, <2>1 DEF Holds
<1>14. ASSUME NEW u \in Nat, Holds(q, u)
       PROVE  Holds(new, u) \/ (Len(q.queue) = QueueSize /\ Head(q.queue).version = u)
  <2>1. Reachable(new)
    BY <1>9, <1>14 DEF Holds, Reachable
  <2>2. ASSUME NEW i \in DOMAIN Q, Q[i].version = u
        PROVE  Holds(new, u) \/ (Len(Q) = QueueSize /\ Head(Q).version = u)
    <3>1. CASE i = 1 /\ d = 1
      BY <1>4, <2>2, <3>1
    <3>2. CASE i - d \in DOMAIN P /\ P[i - d] = Q[i]
      <4>1. i - d \in DOMAIN X /\ X[i - d].version = u
        BY <1>5, <2>2, <3>2
      <4> QED
        BY <1>9, <2>1, <4>1 DEF Holds
    <3> QED
      BY <1>4, <2>2, <3>1, <3>2
  <2>3. ASSUME NEW i \in DOMAIN q.wire, q.wire[i].version = u PROVE Holds(new, u)
    BY <1>9, <2>1, <2>3 DEF Holds
  <2> QED
    BY <1>14, <2>2, <2>3 DEF Holds
<1>15. ASSUME NEW k \in 0..n, Ahead(q, k) PROVE Ahead(new, k)
  <2>1. \A i \in DOMAIN X : k < X[i].number
    BY <1>2, <1>4, <1>5, <1>15 DEF Ahead
  <2> QED
    BY <1>9, <1>15, <2>1 DEF Ahead
<1> QED
  BY <1>9, <1>12, <1>13, <1>14, <1>15

LEMMA PublishKeeps ==
  ASSUME ClientOK, ClientInv, Client!Publish
  PROVE  ClientInv'
<1>0. PICK n \in Nat, w \in Nat : server.counter = n /\ server.version = w
  BY ServerSame DEF ClientInv
<1> DEFINE queued(s, v) == Enqueued(socket[s], Client!Event(n + 1, v))
           losses(v) == Client!Evicted \union {u \in {v} : Client!Reached = {}}
           E == IF data.consumer = "numbers" THEN past.events \union {n + 1} ELSE past.events
<1>1. PICK v \in server.unpublished :
        /\ server' = [server EXCEPT !.counter = n + 1, !.unpublished = server.unpublished \ {v}]
        /\ socket' = [s \in Client!Sockets |->
                         IF socket[s].door \in Client!Subscribed THEN queued(s, v) ELSE socket[s]]
        /\ past' = [Client!Losing(losses(v)) EXCEPT !.events = E]
        /\ UNCHANGED <<hook, data, happened>>
  <2>1. PICK v \in server.unpublished :
          LET k == server.counter + 1 IN
          /\ server' = [server EXCEPT !.counter = k, !.unpublished = @ \ {v}]
          /\ socket' = [s \in Client!Sockets |->
                          IF socket[s].door \in Client!Subscribed
                          THEN [socket[s] EXCEPT !.queue = Client!Queued(s, Client!Event(k, v))]
                          ELSE socket[s]]
          /\ past' = [Client!Losing(Client!Evicted \union {u \in {v} : Client!Reached = {}})
                        EXCEPT !.events = IF data.consumer = "numbers" THEN @ \union {k} ELSE @]
          /\ UNCHANGED <<hook, data, happened>>
    BY DEF Client!Publish
  <2>2. \A s \in Client!Sockets :
           [socket[s] EXCEPT !.queue = Client!Queued(s, Client!Event(n + 1, v))] = queued(s, v)
    BY DEF Client!Queued, Client!Full, Enqueued
  <2>3. socket' = [s \in Client!Sockets |->
                     IF socket[s].door \in Client!Subscribed THEN queued(s, v) ELSE socket[s]]
    BY <1>0, <2>1, <2>2
  <2>4. Client!Losing(losses(v)).events = past.events
    BY DEF Client!Losing, ClientInv, ClientTypes, Pasts
  <2> HIDE DEF queued
  <2> QED
    BY <1>0, <2>1, <2>3, <2>4
<1>2. /\ ClientTypes /\ EndsInv /\ server \in Servers
      /\ server.unpublished \subseteq 0..w /\ data.newest \in Nat /\ happened \in Nat
      /\ v \in Nat /\ v <= w /\ v \in 0..w
  BY <1>0 DEF ClientInv, ClientTypes, Views
<1>3. \A s \in Client!Sockets : socket[s] \in Ends /\ EndOK(socket[s], n, w)
  BY <1>0, <1>2 DEF ClientTypes, EndsInv
<1>4. /\ server' \in Servers /\ server'.counter = n + 1 /\ server'.version = w
      /\ server'.unpublished = server.unpublished \ {v}
  <2> DEFINE U == server.unpublished \ {v}
  <2>1. U \in SUBSET Nat
    BY <1>2 DEF Servers
  <2> DEFINE N == n + 1
  <2>2. server' = [server EXCEPT !.counter = N, !.unpublished = U] /\ N \in Nat
    BY <1>1
  <2> HIDE DEF U, N
  <2>3. server' \in Servers /\ server'.counter = N /\ server'.version = w /\ server'.unpublished = U
    BY <1>0, <1>2, <2>1, <2>2 DEF Servers
  <2> QED
    BY <2>3 DEF U, N
<1>5. ASSUME NEW s \in Client!Sockets
      PROVE  /\ socket'[s] \in Ends /\ EndOK(socket'[s], n + 1, w)
             /\ socket'[s].page = socket[s].page /\ socket'[s].up = socket[s].up
             /\ s \in Client!Reached => Holds(socket'[s], v)
             /\ \A u \in Nat : Holds(socket[s], u) =>
                   Holds(socket'[s], u) \/ u \in Client!Evicted
             /\ \A k \in 0..n : Ahead(socket[s], k) => Ahead(socket'[s], k)
  <2>1. CASE socket[s].door \in Client!Subscribed
    <3> DEFINE new == queued(s, v)
    <3>1. socket'[s] = new
      BY <1>1, <2>1
    <3>0. new = Enqueued(socket[s], Client!Event(n + 1, v))
      OBVIOUS
    <3> HIDE DEF new
    <3>2. /\ new \in Ends /\ EndOK(new, n + 1, w)
          /\ new.page = socket[s].page /\ new.up = socket[s].up
          /\ Reachable(socket[s]) => Holds(new, v)
          /\ \A u \in Nat : Holds(socket[s], u) =>
                Holds(new, u) \/ (Len(socket[s].queue) = QueueSize /\ Head(socket[s].queue).version = u)
          /\ \A k \in 0..n : Ahead(socket[s], k) => Ahead(new, k)
      BY <1>2, <1>3, <2>1, <3>0, QueuedEnd
    <3>3. s \in Client!Reached <=> Reachable(socket[s])
      BY <2>1 DEF Client!Reached, Reachable
    <3>4. ASSUME NEW u \in Nat, Holds(socket[s], u), Len(socket[s].queue) = QueueSize,
                 Head(socket[s].queue).version = u
          PROVE  u \in Client!Evicted
      BY <3>3, <3>4 DEF Client!Evicted, Client!Full, Holds
    <3> QED
      BY <3>1, <3>2, <3>3, <3>4
  <2>2. CASE socket[s].door \notin Client!Subscribed
    <3>1. socket'[s] = socket[s] /\ s \notin Client!Reached
      BY <1>1, <2>2 DEF Client!Reached
    <3>2. EndOK(socket[s], n + 1, w)
      BY <1>3, EndGrows
    <3> QED
      BY <1>3, <3>1, <3>2
  <2> QED
    BY <2>1, <2>2
<1>6. /\ socket' \in [Client!Sockets -> Ends]
      /\ \A s \in Client!Sockets : socket'[s].page = socket[s].page /\ socket'[s].up = socket[s].up
  <2>1. DOMAIN socket' = Client!Sockets /\ socket' = [s \in Client!Sockets |-> socket'[s]]
    BY <1>1
  <2>2. \A s \in Client!Sockets : socket'[s] \in Ends
    BY <1>5
  <2> QED
    BY <1>5, <2>1, <2>2
<1>7. Client!Evicted \subseteq 0..w
  <2> SUFFICES ASSUME NEW t \in Client!Reached, Client!Full(t)
               PROVE  Head(socket[t].queue).version \in 0..w
    BY DEF Client!Evicted
  <2>1. socket[t] \in Ends /\ EndOK(socket[t], n, w) /\ Len(socket[t].queue) = QueueSize
    BY <1>3 DEF Client!Reached, Client!Full
  <2>2. socket[t].queue \in Seq(Messages) /\ socket[t].queue # <<>>
    BY <2>1, EmptySeq DEF Ends, ClientOK
  <2>3. /\ 1 \in DOMAIN socket[t].queue /\ Head(socket[t].queue) = socket[t].queue[1]
        /\ socket[t].queue[1] \in Messages
    BY <2>2, TailPlaces
  <2>4. socket[t].queue[1].version <= w /\ socket[t].queue[1].version \in Nat
    BY <2>1, <2>3 DEF EndOK, Messages
  <2> QED
    BY <2>3, <2>4
<1> DEFINE L == losses(v)
           p == Client!Losing(L)
<1>8. L \subseteq 0..server.version
  BY <1>0, <1>2, <1>7
<1>9. (\A u \in Client!Evicted : u \in L) /\ (Client!Reached = {} => v \in L)
  OBVIOUS
<1> HIDE DEF L, queued
<1>10. /\ p \in Pasts /\ p.lost \in 0..server.version /\ p.crossed = past.crossed
       /\ p.first = past.first /\ p.heard = past.heard /\ p.alarmed = past.alarmed
       /\ p.outlived = past.outlived /\ p.flushed = past.flushed
       /\ data.consumer = "list" /\ server.version \in L => p.lost = server.version
       /\ past.lost = server.version => p.lost = server.version
  BY <1>2, <1>8, LosingKeeps
<1>11. past' = [p EXCEPT !.events = E]
  BY <1>1 DEF L
<1>12. E \in SUBSET Nat
  BY <1>2 DEF ClientTypes, Pasts
<1> HIDE DEF p, E
<1>13. /\ past' \in Pasts /\ past'.lost = p.lost /\ past'.crossed = past.crossed
       /\ past'.first = past.first /\ past'.heard = past.heard /\ past'.alarmed = past.alarmed
       /\ past'.outlived = past.outlived /\ past'.flushed = past.flushed
  BY <1>10, <1>11, <1>12 DEF Pasts
<1>14. ClientTypes'
  <2>1. server'.unpublished \subseteq 0..w
    BY <1>2, <1>4
  <2>2. {data.shown, data.value, data.batch, past.flushed, past'.lost} \subseteq 0..w
    BY <1>0, <1>2, <1>10, <1>13 DEF ClientTypes
  <2> QED
    BY <1>1, <1>2, <1>4, <1>6, <1>13, <2>1, <2>2 DEF ClientTypes
<1>15. EndsInv'
  BY <1>4, <1>5 DEF EndsInv
<1>16. StreamInv'
  <2>1. hook.ref \in Client!Sockets \union {0} /\ StreamInv
    BY DEF ClientInv, ClientTypes, Hooks
  <2> QED
    BY <1>1, <1>2, <1>6, <1>13, <2>1, PagesKeep
<1>17. LossInv'
  BY <1>1, <1>13, LossStays DEF ClientInv
<1>18. ListInv'
  <2>1. ASSUME data.consumer = "list", w \in L PROVE Accounted'
    BY <1>0, <1>4, <1>10, <1>13, <2>1 DEF Accounted
  <2>2. ASSUME data.consumer = "list", w \in server.unpublished PROVE Accounted'
    <3>1. CASE w # v
      BY <1>4, <2>2, <3>1 DEF Accounted
    <3>2. CASE w = v /\ Client!Reached = {}
      BY <1>9, <2>1, <2>2, <3>2
    <3>3. ASSUME w = v, NEW s \in Client!Reached PROVE Accounted'
      <4>1. s \in Client!Sockets /\ Holds(socket'[s], w)
        BY <1>5, <3>3 DEF Client!Reached
      <4> QED
        BY <1>4, <4>1 DEF Accounted
    <3> QED
      BY <3>1, <3>2, <3>3
  <2>3. ASSUME NEW t \in Client!Sockets, data.consumer = "list", Holds(socket[t], w)
        PROVE  Accounted'
    <3>1. CASE Holds(socket'[t], w)
      BY <1>4, <3>1 DEF Accounted
    <3>2. CASE w \in Client!Evicted
      BY <1>9, <2>1, <2>3, <3>2
    <3> QED
      BY <1>5, <2>3, <3>1, <3>2
  <2>4. ASSUME data.consumer = "list", ~past'.outlived
        PROVE  /\ data.newest <= server'.counter
               /\ \A t \in Client!Sockets : Reachable(socket'[t]) => Ahead(socket'[t], data.newest)
    <3>1. /\ data.newest <= n
          /\ \A t \in Client!Sockets : Reachable(socket[t]) => Ahead(socket[t], data.newest)
      BY <1>0, <1>13, <2>4 DEF ClientInv, ListInv
    <3>2. data.newest \in 0..n /\ data.newest <= n + 1
      BY <1>2, <3>1
    <3> QED
      BY <1>4, <1>5, <1>6, <3>1, <3>2 DEF Reachable
  <2>5. ListInv /\ past'.flushed = past.flushed
        /\ (past.lost = server.version => past'.lost = server.version)
        /\ server'.version = server.version /\ UNCHANGED data
    BY <1>0, <1>1, <1>4, <1>10, <1>13 DEF ClientInv
  <2> QED
    BY <1>0, <1>2, <2>2, <2>3, <2>4, <2>5, ListStep
<1> QED
  BY <1>14, <1>15, <1>16, <1>17, <1>18 DEF ClientInv

-----------------------------------------------------------------------------
(* Steps of the hook that close its socket and perhaps open another.       *)

LEMMA AskedEnd ==
  ASSUME ClientOK
  PROVE  /\ Client!Asked \in Ends /\ Client!Asked.page = "connecting"
         /\ \A n, v \in Nat : EndOK(Client!Asked, n, v)
         /\ \A n \in Nat : Ahead(Client!Asked, n)
<1>1. Client!Asked = [page |-> "connecting", door |-> "asked", up |-> TRUE, queue |-> <<>>,
                      wire |-> <<>>]
  <2>1. Client!Closed = [page |-> "none", door |-> "none", up |-> FALSE, queue |-> <<>>,
                         wire |-> <<>>]
    BY DEF Client!Closed
  <2>2. Client!Asked = [Client!Closed EXCEPT !.page = "connecting", !.door = "asked", !.up = TRUE]
    BY DEF Client!Asked
  <2> QED
    BY <2>1, <2>2
<1>2. Client!Asked \in Ends
  BY <1>1, EmptySeq DEF Ends
<1>3. DOMAIN Client!Asked.queue = {} /\ DOMAIN Client!Asked.wire = {}
      /\ Len(Client!Asked.queue) = 0
  BY <1>1
<1>4. /\ Client!Asked.page = "connecting" /\ Client!Asked.up /\ Client!Asked.queue = <<>>
      /\ Client!Asked.wire = <<>>
  BY <1>1
<1>5. \A n, v \in Nat : EndOK(Client!Asked, n, v)
  BY <1>3, <1>4 DEF EndOK, InOrder, ClientOK
<1>6. \A n \in Nat : Ahead(Client!Asked, n)
  BY <1>3 DEF Ahead
<1> QED
  BY <1>2, <1>4, <1>5, <1>6

(* A socket that is closed keeps what it carries, but the page will not    *)
(* take it.                                                                *)
ShutEnd(q) == [q EXCEPT !.page = CASE @ = "open" -> "closing"
                                   [] @ = "connecting" -> "failing"
                                   [] OTHER -> @]

LEMMA ShutEndOK ==
  ASSUME NEW q \in Ends, NEW n \in Nat, NEW v \in Nat, EndOK(q, n, v)
  PROVE  /\ ShutEnd(q) \in Ends /\ EndOK(ShutEnd(q), n, v) /\ ~Reachable(ShutEnd(q))
         /\ ShutEnd(q).page \notin {"connecting", "open"}
         /\ ShutEnd(q).page = "none" => q.page = "none"
         /\ q.page = "none" => ShutEnd(q).page = "none"
<1>1. PICK page \in {"none", "closing", "failing"} :
        page = (CASE q.page = "open" -> "closing" [] q.page = "connecting" -> "failing"
                  [] OTHER -> q.page)
        /\ (page = "none" <=> q.page = "none")
  BY DEF Ends
<1>2. ShutEnd(q) = [q EXCEPT !.page = page]
  BY <1>1 DEF ShutEnd
<1>3. /\ ShutEnd(q) \in Ends /\ ShutEnd(q).page = page /\ ShutEnd(q).up = q.up
      /\ ShutEnd(q).queue = q.queue /\ ShutEnd(q).wire = q.wire /\ ShutEnd(q).door = q.door
  BY <1>1, <1>2 DEF Ends
<1> DEFINE new == ShutEnd(q)
<1> HIDE DEF new
<1>4. /\ new.page = page /\ new.up = q.up /\ new.queue = q.queue /\ new.wire = q.wire
      /\ new.door = q.door
  BY <1>3 DEF new
<1>5. InOrder(q, n) => InOrder(new, n)
  BY <1>4 DEF InOrder
<1>6. EndOK(new, n, v)
  BY <1>1, <1>4, <1>5 DEF EndOK
<1> QED
  BY <1>1, <1>3, <1>6 DEF new, Reachable

(* S is the socket that is opened, if any. *)
LEMMA SwitchStep ==
  ASSUME ClientOK, ClientInv, NEW S \in SUBSET Client!Sockets,
         \A s \in S : socket[s].page = "none",
         socket' = [t \in Client!Sockets |-> IF t \in S THEN Client!Asked
                                             ELSE IF t = hook.ref THEN ShutEnd(socket[t])
                                             ELSE socket[t]],
         past' = Client!LostWith({hook.ref} \ {0}), UNCHANGED server,
         data' \in Views, data'.consumer = data.consumer, data'.shown = data.shown,
         data'.value = data.value, data'.newest = data.newest, data'.batch = data.batch,
         hook' \in Hooks, hook'.last = hook.last, happened' \in Nat
  PROVE  /\ ClientTypes' /\ EndsInv' /\ LossInv' /\ ListInv' /\ past'.crossed = past.crossed
         /\ \A t \in Client!Sockets :
               socket'[t].page \in {"connecting", "open"} =>
                  t \in S \/ (t # hook.ref /\ socket[t].page \in {"connecting", "open"})
         /\ \A t \in Client!Sockets : socket'[t].page # "none" => t \in S \/ socket[t].page # "none"
         /\ \A t \in S : socket'[t].page = "connecting"
<1>1. /\ ClientTypes /\ EndsInv /\ hook.ref \in Client!Sockets \union {0}
      /\ server.counter \in Nat /\ server.version \in Nat
      /\ \A t \in Client!Sockets :
            socket[t] \in Ends /\ EndOK(socket[t], server.counter, server.version)
  BY ServerSame DEF ClientInv, ClientTypes, Hooks, EndsInv
<1>2. \A t \in S : socket'[t] = Client!Asked
  OBVIOUS
<1>3. \A t \in Client!Sockets \ S : t = hook.ref => socket'[t] = ShutEnd(socket[t])
  OBVIOUS
<1>4. \A t \in Client!Sockets \ S : t # hook.ref => socket'[t] = socket[t]
  OBVIOUS
<1>5. \A t \in Client!Sockets :
         socket'[t] \in Ends /\ EndOK(socket'[t], server.counter, server.version)
  BY <1>1, <1>2, <1>3, <1>4, AskedEnd, ShutEndOK
<1>6. socket' \in [Client!Sockets -> Ends]
  <2>1. socket' = [t \in Client!Sockets |-> socket'[t]]
    OBVIOUS
  <2> QED
    BY <1>5, <2>1
<1> DEFINE L == UNION {Client!Carried(s) : s \in {hook.ref} \ {0}}
<1>7. /\ L \subseteq 0..server.version
      /\ hook.ref # 0 /\ Holds(socket[hook.ref], server.version) => server.version \in L
  BY <1>1, CarriedBounded
<1>8. past' = Client!Losing(L)
  BY DEF Client!LostWith
<1> HIDE DEF L
<1>9. /\ past' \in Pasts /\ past'.lost \in 0..server.version /\ past'.crossed = past.crossed
      /\ past'.first = past.first /\ past'.heard = past.heard /\ past'.alarmed = past.alarmed
      /\ past'.outlived = past.outlived /\ past'.flushed = past.flushed
      /\ data.consumer = "list" /\ server.version \in L => past'.lost = server.version
      /\ past.lost = server.version => past'.lost = server.version
  <2>1. ClientTypes /\ L \subseteq 0..server.version /\ past' = Client!Losing(L)
    BY <1>1, <1>7, <1>8
  <2> QED
    BY <2>1, LosingKeeps, ZenonT(30)
<1>10. ClientTypes'
  <2>1. {data'.shown, data'.value, data'.batch, past'.flushed, past'.lost} \subseteq 0..server.version
    BY <1>1, <1>9 DEF ClientTypes
  <2> QED
    BY <1>1, <1>6, <1>9, <2>1 DEF ClientTypes
<1>11. EndsInv'
  BY <1>5 DEF EndsInv
<1>12. LossInv'
  BY <1>9, LossStays DEF ClientInv
<1>13. ListInv'
  <2>1. data.consumer = "list" /\ server.version \in server.unpublished => Accounted'
    BY DEF Accounted
  <2>2. ASSUME NEW t \in Client!Sockets, data.consumer = "list", Holds(socket[t], server.version)
        PROVE  Accounted'
    <3>1. t \notin S
      BY <1>1, <2>2 DEF Holds, Reachable
    <3>2. CASE t = hook.ref
      <4>1. t # 0
        BY DEF Client!Sockets
      <4> QED
        BY <1>7, <1>9, <2>2, <3>2, <4>1 DEF Accounted
    <3>3. CASE t # hook.ref
      BY <1>4, <2>2, <3>1, <3>3 DEF Accounted
    <3> QED
      BY <3>2, <3>3
  <2>3. ASSUME data.consumer = "list", ~past'.outlived
        PROVE  /\ data.newest <= server'.counter
               /\ \A t \in Client!Sockets : Reachable(socket'[t]) => Ahead(socket'[t], data.newest)
    <3>1. /\ data.newest <= server.counter /\ data.newest \in Nat
          /\ \A t \in Client!Sockets : Reachable(socket[t]) => Ahead(socket[t], data.newest)
      BY <1>9, <2>3 DEF ClientInv, ListInv, ClientTypes, Views
    <3>2. \A t \in Client!Sockets \ S : t = hook.ref => ~Reachable(socket'[t])
      BY <1>1, <1>3, ShutEndOK
    <3> QED
      BY <1>2, <1>4, <3>1, <3>2, AskedEnd
  <2>4. ListInv
    BY DEF ClientInv
  <2> QED
    BY <1>1, <1>9, <2>1, <2>2, <2>3, <2>4, ListStep
<1>14. \A t \in Client!Sockets : t \notin S /\ t = hook.ref =>
          /\ socket'[t].page \notin {"connecting", "open"}
          /\ socket'[t].page # "none" => socket[t].page # "none"
  BY <1>1, <1>3, ShutEndOK
<1>15. \A t \in Client!Sockets :
          socket'[t].page \in {"connecting", "open"} =>
             t \in S \/ (t # hook.ref /\ socket[t].page \in {"connecting", "open"})
  BY <1>4, <1>14
<1>16. \A t \in Client!Sockets : socket'[t].page # "none" => t \in S \/ socket[t].page # "none"
  BY <1>4, <1>14
<1>17. \A t \in S : socket'[t].page = "connecting"
  BY <1>2, AskedEnd
<1> QED
  BY <1>9, <1>10, <1>11, <1>12, <1>13, <1>15, <1>16, <1>17

LEMMA ShutPlaces ==
  ASSUME ClientTypes, NEW r \in Client!Sockets \union {0}
  PROVE  Client!Shut(r) = [t \in Client!Sockets |-> IF t = r THEN ShutEnd(socket[t]) ELSE socket[t]]
<1>1. socket \in [Client!Sockets -> Ends] /\ 0 \notin Client!Sockets
  BY DEF ClientTypes, Client!Sockets
<1>2. CASE r = 0
  BY <1>1, <1>2 DEF Client!Shut, Client!NoSocket
<1>3. CASE r # 0
  <2>1. Client!Shut(r) = [socket EXCEPT ![r] = ShutEnd(socket[r])]
    BY <1>3 DEF Client!Shut, Client!NoSocket, ShutEnd
  <2> QED
    BY <1>1, <2>1
<1> QED
  BY <1>2, <1>3

(* After connect(): the hook has the socket it opened. *)
LEMMA ConnectStep ==
  ASSUME ClientOK, ClientInv, NEW h \in Hooks, h.ref = hook.ref, h.last = hook.last,
         Client!Connect(h), UNCHANGED server, happened' \in Nat,
         data' \in Views, data'.consumer = data.consumer, data'.shown = data.shown,
         data'.value = data.value, data'.newest = data.newest, data'.batch = data.batch,
         h.mounted => hook.mounted \/ \A s \in Client!Sockets : socket[s].page = "none",
         h.mounted \/ happened' # 0,
         data.consumer # "sockets" => \A s \in Client!Sockets : socket[s].page = "none",
         data.consumer # "sockets" => h.mounted
  PROVE  ClientInv'
<1>1. PICK s \in Client!Sockets :
        /\ socket[s].page = "none"
        /\ socket' = [Client!Shut(h.ref) EXCEPT ![s] = Client!Asked]
        /\ hook' = Client!Connecting(h, s)
        /\ past' = Client!LostWith({hook.ref} \ {0})
  BY DEF Client!Connect, Client!Free, Client!NoSocket
<1>2. /\ hook' \in Hooks /\ hook'.mounted = h.mounted /\ hook'.ref = s /\ hook'.timer = FALSE
      /\ hook'.last = hook.last /\ hook'.status \in {"RECONNECTING", "CONNECTING"}
  <2>1. PICK status \in {"RECONNECTING", "CONNECTING"} :
          hook' = [h EXCEPT !.ref = s, !.timer = FALSE, !.beating = FALSE, !.status = status]
    BY <1>1 DEF Client!Connecting
  <2> QED
    BY <2>1 DEF Hooks
<1>3. socket' = [t \in Client!Sockets |-> IF t \in {s} THEN Client!Asked
                                          ELSE IF t = hook.ref THEN ShutEnd(socket[t])
                                          ELSE socket[t]]
  <2>1. ClientTypes /\ hook.ref \in Client!Sockets \union {0}
    BY DEF ClientInv, ClientTypes, Hooks
  <2>2. Client!Shut(hook.ref) = [t \in Client!Sockets |-> IF t = hook.ref THEN ShutEnd(socket[t])
                                                          ELSE socket[t]]
    BY <2>1, ShutPlaces
  <2> QED
    BY <1>1, <2>2
<1>4. /\ ClientTypes' /\ EndsInv' /\ LossInv' /\ ListInv' /\ past'.crossed = past.crossed
      /\ \A t \in Client!Sockets :
            socket'[t].page \in {"connecting", "open"} =>
               t = s \/ (t # hook.ref /\ socket[t].page \in {"connecting", "open"})
      /\ \A t \in Client!Sockets : socket'[t].page # "none" => t = s \/ socket[t].page # "none"
      /\ socket'[s].page = "connecting"
  <2> DEFINE S == {s}
  <2>1. S \in SUBSET Client!Sockets /\ \A t \in S : socket[t].page = "none"
    BY <1>1
  <2>2. \A t : t \in S <=> t = s
    OBVIOUS
  <2>3. socket' = [t \in Client!Sockets |-> IF t \in S THEN Client!Asked
                                          ELSE IF t = hook.ref THEN ShutEnd(socket[t])
                                          ELSE socket[t]]
    BY <1>3
  <2> HIDE DEF S
  <2>4. /\ ClientTypes' /\ EndsInv' /\ LossInv' /\ ListInv' /\ past'.crossed = past.crossed
        /\ \A t \in Client!Sockets :
              socket'[t].page \in {"connecting", "open"} =>
                 t \in S \/ (t # hook.ref /\ socket[t].page \in {"connecting", "open"})
        /\ \A t \in Client!Sockets :
              socket'[t].page # "none" => t \in S \/ socket[t].page # "none"
        /\ \A t \in S : socket'[t].page = "connecting"
    BY <1>1, <1>2, <2>1, <2>3, SwitchStep
  <2> QED
    BY <2>2, <2>4
<1>5. StreamInv'
  <2>1. ASSUME ~past.crossed, h.mounted PROVE Client!Alive' \subseteq {s}
    <3>1. hook.mounted => Client!Alive \subseteq {hook.ref}
      BY <2>1 DEF ClientInv, StreamInv, Client!OneStream
    <3>2. ~hook.mounted => Client!Alive = {}
      BY <2>1 DEF Client!Alive
    <3> QED
      BY <1>4, <3>1, <3>2 DEF Client!Alive
  <2>2. Client!OneStream'
    BY <1>2, <1>4, <2>1 DEF Client!OneStream, Client!NoSocket
  <2>3. data.consumer # "sockets" => ~past.crossed
    BY DEF ClientInv, StreamInv
  <2>4. ~hook'.mounted => happened' # 0
    BY <1>2
  <2> QED
    BY <1>2, <1>4, <2>1, <2>2, <2>3, <2>4 DEF StreamInv
<1> QED
  BY <1>4, <1>5 DEF ClientInv

LEMMA MountKeeps ==
  ASSUME ClientOK, ClientInv, Client!Mount
  PROVE  ClientInv'
<1> DEFINE h == [hook EXCEPT !.mounted = TRUE]
<1>1. /\ ~hook.mounted /\ happened = 0 /\ Client!Connect(h) /\ UNCHANGED <<server, happened>>
  BY DEF Client!Mount
<1>2. PICK fetch \in {"sent", "idle"} : data' = [data EXCEPT !.fetch = fetch]
  BY DEF Client!Mount
<1>3. /\ data' \in Views /\ data'.consumer = data.consumer /\ data'.shown = data.shown
      /\ data'.value = data.value /\ data'.newest = data.newest /\ data'.batch = data.batch
      /\ happened \in Nat
  BY <1>2 DEF ClientInv, ClientTypes, Views
<1>4. h \in Hooks /\ h.ref = hook.ref /\ h.last = hook.last /\ h.mounted
  BY DEF ClientInv, ClientTypes, Hooks
<1>5. \A s \in Client!Sockets : socket[s].page = "none"
  BY <1>1 DEF ClientInv, StreamInv
<1> HIDE DEF h
<1> QED
  BY <1>1, <1>3, <1>4, <1>5, ConnectStep

LEMMA ReconnectKeeps ==
  ASSUME ClientOK, ClientInv, Client!ReconnectTimer
  PROVE  ClientInv'
<1> DEFINE h == [hook EXCEPT !.timer = FALSE]
<1>1. hook.timer /\ Client!Connect(h) /\ UNCHANGED <<server, data, happened>>
  BY DEF Client!ReconnectTimer
<1>2. /\ data' \in Views /\ data'.consumer = data.consumer /\ data'.shown = data.shown
      /\ data'.value = data.value /\ data'.newest = data.newest /\ data'.batch = data.batch
      /\ happened \in Nat
  BY <1>1 DEF ClientInv, ClientTypes
<1>3. h \in Hooks /\ h.ref = hook.ref /\ h.last = hook.last /\ h.mounted = hook.mounted
  BY DEF ClientInv, ClientTypes, Hooks
<1>4. ~hook.mounted => happened # 0 /\ data.consumer = "sockets"
  BY <1>1 DEF ClientInv, StreamInv
<1>5. data.consumer # "sockets" => \A s \in Client!Sockets : socket[s].page = "none"
  BY <1>1, <1>4 DEF ClientInv, StreamInv, Client!Sockets
<1> HIDE DEF h
<1> QED
  BY <1>1, <1>2, <1>3, <1>4, <1>5, ConnectStep

(* After a close() of the hook that opens nothing. *)
LEMMA ShutStep ==
  ASSUME ClientOK, ClientInv, socket' = Client!Shut(hook.ref),
         past' = Client!LostWith({hook.ref} \ {0}), UNCHANGED <<server, data>>, happened' = happened + 1,
         hook' \in Hooks, hook'.last = hook.last, hook'.ref = 0, ~hook'.timer,
         hook'.mounted => hook.mounted /\ data.consumer = "sockets" /\ hook'.status = "DISCONNECTED"
  PROVE  ClientInv'
<1>1. /\ ClientTypes /\ hook.ref \in Client!Sockets \union {0} /\ happened \in Nat /\ data \in Views
  BY DEF ClientInv, ClientTypes, Hooks
<1> DEFINE S == {}
<1>2. S \in SUBSET Client!Sockets /\ \A t : t \notin S
  OBVIOUS
<1>2a. happened' \in Nat /\ data' \in Views
  BY <1>1
<1>3. socket' = [t \in Client!Sockets |-> IF t \in S THEN Client!Asked
                                          ELSE IF t = hook.ref THEN ShutEnd(socket[t])
                                          ELSE socket[t]]
  BY <1>1, ShutPlaces
<1> HIDE DEF S
<1>4. /\ ClientTypes' /\ EndsInv' /\ LossInv' /\ ListInv' /\ past'.crossed = past.crossed
      /\ \A t \in Client!Sockets :
            socket'[t].page \in {"connecting", "open"} =>
               t \in S \/ (t # hook.ref /\ socket[t].page \in {"connecting", "open"})
  BY <1>2, <1>2a, <1>3, SwitchStep
<1>5. StreamInv'
  <2>1. hook.mounted /\ ~past.crossed => Client!Alive' = {}
    <3>1. hook.mounted /\ ~past.crossed => Client!Alive \subseteq {hook.ref}
      BY DEF ClientInv, StreamInv, Client!OneStream
    <3> QED
      BY <1>2, <1>4, <3>1 DEF Client!Alive
  <2>2. Client!OneStream'
    BY <1>4, <2>1 DEF Client!OneStream
  <2>3. data.consumer # "sockets" => ~past.crossed /\ Client!Alive' = {}
    <3>1. data.consumer # "sockets" => ~past.crossed /\ Client!Alive \subseteq {hook.ref}
      BY DEF ClientInv, StreamInv
    <3> QED
      BY <1>2, <1>4, <3>1 DEF Client!Alive
  <2>4. happened' # 0
    BY <1>1
  <2> QED
    BY <1>1, <1>4, <2>2, <2>3, <2>4 DEF StreamInv
<1> QED
  BY <1>4, <1>5 DEF ClientInv

LEMMA UnmountKeeps ==
  ASSUME ClientOK, ClientInv, Client!Unmount
  PROVE  ClientInv'
<1>1. /\ socket' = Client!Shut(hook.ref) /\ past' = Client!LostWith({hook.ref} \ {0})
      /\ UNCHANGED <<server, data>> /\ happened' = happened + 1
      /\ hook' = [hook EXCEPT !.mounted = FALSE, !.ref = 0, !.timer = FALSE, !.beating = FALSE]
  BY DEF Client!Unmount, Client!Happen, Client!NoSocket
<1>2. hook' \in Hooks /\ hook'.last = hook.last /\ hook'.ref = 0 /\ ~hook'.timer /\ ~hook'.mounted
  BY <1>1 DEF ClientInv, ClientTypes, Hooks
<1> QED
  BY <1>1, <1>2, ShutStep

LEMMA EffectKeeps ==
  ASSUME ClientOK, ClientInv, Client!RunEffect
  PROVE  ClientInv'
<1>1. /\ hook.mounted /\ data.consumer = "sockets" /\ UNCHANGED <<server, data>>
      /\ happened' = happened + 1 /\ happened' \in Nat /\ data \in Views
  BY DEF Client!RunEffect, Client!Happen, ClientInv, ClientTypes
<1>2. CASE Client!Connect([hook EXCEPT !.enabled = TRUE])
  <2> DEFINE h == [hook EXCEPT !.enabled = TRUE]
  <2>1. h \in Hooks /\ h.ref = hook.ref /\ h.last = hook.last /\ h.mounted = hook.mounted
    BY DEF ClientInv, ClientTypes, Hooks
  <2>2. Client!Connect(h)
    BY <1>2
  <2> HIDE DEF h
  <2> QED
    BY <1>1, <2>1, <2>2, ConnectStep
<1>3. CASE Client!Disconnect([hook EXCEPT !.enabled = FALSE])
  <2> DEFINE h == [hook EXCEPT !.enabled = FALSE]
  <2>1. h \in Hooks /\ h.ref = hook.ref /\ h.last = hook.last /\ h.mounted = hook.mounted
    BY DEF ClientInv, ClientTypes, Hooks
  <2>2. Client!Disconnect(h)
    BY <1>3
  <2> HIDE DEF h
  <2>3. /\ socket' = Client!Shut(hook.ref) /\ past' = Client!LostWith({hook.ref} \ {0})
        /\ hook' = [h EXCEPT !.ref = 0, !.timer = FALSE, !.beating = FALSE,
                             !.retries = Reconnects, !.status = "DISCONNECTED"]
    BY <2>1, <2>2 DEF Client!Disconnect, Client!NoSocket
  <2>4. /\ hook' \in Hooks /\ hook'.last = hook.last /\ hook'.ref = 0 /\ ~hook'.timer
        /\ hook'.mounted = hook.mounted /\ hook'.status = "DISCONNECTED"
    <3>1. PICK r \in 0..Reconnects : r = Reconnects
      BY DEF ClientOK
    <3>2. hook' = [h EXCEPT !.ref = 0, !.timer = FALSE, !.beating = FALSE,
                            !.retries = r, !.status = "DISCONNECTED"]
      BY <2>3, <3>1
    <3> QED
      BY <2>1, <3>2 DEF Hooks
  <2> QED
    BY <1>1, <2>3, <2>4, ShutStep
<1> QED
  BY <1>2, <1>3 DEF Client!RunEffect

-----------------------------------------------------------------------------
(* What the browser tells the hook of its sockets.                         *)

LEMMA OpenKeeps ==
  ASSUME ClientOK, ClientInv, NEW s \in Client!Sockets, Client!OpenArrives(s)
  PROVE  ClientInv'
<1> DEFINE q == socket[s]
           new == [q EXCEPT !.page = "open"]
<1>1. /\ q.page = "connecting" /\ q.up /\ socket' = [socket EXCEPT ![s] = new]
      /\ UNCHANGED <<server, past, happened>>
  BY DEF Client!OpenArrives
<1>2. /\ ClientTypes /\ EndsInv /\ q \in Ends /\ EndOK(q, server.counter, server.version)
  BY DEF ClientInv, ClientTypes, EndsInv
<1>3. /\ new \in Ends /\ new.page = "open" /\ new.up = q.up /\ new.queue = q.queue
      /\ new.wire = q.wire /\ new.door = q.door
  BY <1>2 DEF Ends
<1> HIDE DEF new
<1>4. /\ socket' \in [Client!Sockets -> Ends] /\ socket'[s] = new
      /\ \A t \in Client!Sockets \ {s} : socket'[t] = socket[t]
  BY <1>1, <1>2, <1>3, EndMoves
<1>5. /\ hook' \in Hooks /\ hook'.mounted = hook.mounted /\ hook'.ref = hook.ref
      /\ hook'.timer = hook.timer /\ hook'.last = hook.last
      /\ hook'.status = IF hook.mounted THEN "CONNECTED" ELSE hook.status
      /\ data' \in Views /\ data'.consumer = data.consumer /\ data'.shown = data.shown
      /\ data'.value = data.value /\ data'.newest = data.newest /\ data'.batch = data.batch
  <2>1. hook \in Hooks /\ data \in Views
    BY <1>2 DEF ClientTypes
  <2>2. CASE hook.mounted
    <3>1. hook' = [hook EXCEPT !.retries = 0, !.status = "CONNECTED", !.beating = TRUE]
          /\ data' = Client!Reconciled(data, hook.status # "CONNECTED")
      BY <2>2 DEF Client!OpenArrives
    <3>2. data' = data \/ data' = [data EXCEPT !.fetch = "sent"]
      BY <3>1 DEF Client!Reconciled
    <3>3. PICK r \in 0..Reconnects : r = 0
      BY DEF ClientOK
    <3>4. hook' = [hook EXCEPT !.retries = r, !.status = "CONNECTED", !.beating = TRUE]
      BY <3>1, <3>3
    <3> QED
      BY <2>1, <2>2, <3>2, <3>4 DEF Hooks, Views
  <2>3. CASE ~hook.mounted
    BY <2>1, <2>3 DEF Client!OpenArrives
  <2> QED
    BY <2>2, <2>3
<1>6. ClientTypes'
  BY <1>1, <1>2, <1>4, <1>5 DEF ClientTypes
<1>7. EndsInv'
  <2>1. InOrder(q, server.counter) => InOrder(new, server.counter)
    BY <1>3 DEF InOrder
  <2>2. EndOK(new, server.counter, server.version)
    BY <1>1, <1>2, <1>3, <2>1 DEF EndOK
  <2> QED
    BY <1>1, <1>2, <1>4, <2>2 DEF EndsInv
<1>8. LossInv'
  BY <1>1, <1>5, LossStays DEF ClientInv
<1>9. /\ Reachable(new) /\ Reachable(q)
      /\ \A v \in Nat : Holds(q, v) => Holds(new, v)
      /\ \A n \in Nat : Ahead(q, n) => Ahead(new, n)
  BY <1>1, <1>3 DEF Reachable, Holds, Ahead
<1>10. ListInv'
  <2>1. data.consumer = "list" /\ server.version \in server.unpublished => Accounted'
    BY <1>1 DEF Accounted
  <2>2. ASSUME NEW t \in Client!Sockets, data.consumer = "list", Holds(socket[t], server.version)
        PROVE  Accounted'
    <3>1. server.version \in Nat
      BY <1>2, ServerSame
    <3>2. Holds(socket'[t], server.version)
      BY <1>4, <1>9, <2>2, <3>1
    <3> QED
      BY <1>1, <3>2 DEF Accounted
  <2>3. ASSUME data.consumer = "list", ~past'.outlived
        PROVE  /\ data.newest <= server'.counter
               /\ \A t \in Client!Sockets : Reachable(socket'[t]) => Ahead(socket'[t], data.newest)
    <3>1. /\ data.newest <= server.counter /\ data.newest \in Nat
          /\ \A t \in Client!Sockets : Reachable(socket[t]) => Ahead(socket[t], data.newest)
      BY <1>1, <2>3 DEF ClientInv, ListInv, ClientTypes, Views
    <3> QED
      BY <1>1, <1>4, <1>9, <3>1
  <2>4. ListInv
    BY DEF ClientInv
  <2> QED
    BY <1>1, <1>2, <1>5, <2>1, <2>2, <2>3, <2>4, ListStep
<1>11. StreamInv'
  <2>1. /\ Client!Alive' = Client!Alive /\ s \in Client!Alive
        /\ \A t \in Client!Sockets : socket'[t].page = "none" <=> socket[t].page = "none"
    <3>1. \A t \in Client!Sockets :
             /\ socket'[t].page \in {"connecting", "open"} <=> socket[t].page \in {"connecting", "open"}
             /\ socket'[t].page = "none" <=> socket[t].page = "none"
      BY <1>1, <1>3, <1>4
    <3> QED
      BY <1>1, <3>1 DEF Client!Alive
  <2>2. ASSUME hook.mounted, ~past.crossed
        PROVE  hook.ref = s /\ ~hook.timer /\ Client!Alive \subseteq {hook.ref}
    BY <2>1, <2>2 DEF ClientInv, StreamInv, Client!OneStream
  <2>3. Client!OneStream'
    <3>1. s # 0 /\ socket'[s].page = "open"
      BY <1>3, <1>4 DEF Client!Sockets
    <3>2. ASSUME hook.mounted, ~past.crossed
          PROVE  /\ hook'.status = "CONNECTED" /\ hook'.ref = s /\ ~hook'.timer
                 /\ Client!Alive' \subseteq {hook'.ref}
      BY <1>5, <2>1, <2>2, <3>2
    <3> QED
      BY <1>1, <1>5, <3>1, <3>2 DEF Client!OneStream, Client!NoSocket
  <2> QED
    BY <1>1, <1>5, <2>1, <2>3 DEF ClientInv, StreamInv
<1> QED
  BY <1>6, <1>7, <1>8, <1>10, <1>11 DEF ClientInv

LEMMA CloseKeeps ==
  ASSUME ClientOK, ClientInv, NEW s \in Client!Sockets, Client!CloseArrives(s)
  PROVE  ClientInv'
<1> DEFINE q == socket[s]
           new == [q EXCEPT !.page = "none", !.up = FALSE, !.wire = <<>>]
<1>1. /\ q.page # "none" /\ (q.page \in {"closing", "failing"} \/ ~q.up)
      /\ socket' = [socket EXCEPT ![s] = new]
      /\ UNCHANGED <<server, data, happened>>
  BY DEF Client!CloseArrives
<1>2. /\ ClientTypes /\ EndsInv /\ q \in Ends /\ EndOK(q, server.counter, server.version)
      /\ hook \in Hooks /\ past \in Pasts
  BY DEF ClientInv, ClientTypes, EndsInv
<1>3. /\ new \in Ends /\ new.page = "none" /\ ~new.up /\ new.queue = q.queue
      /\ new.wire = <<>> /\ new.door = q.door
  BY <1>2, EmptySeq DEF Ends
<1> HIDE DEF new
<1>4. /\ socket' \in [Client!Sockets -> Ends] /\ socket'[s] = new
      /\ \A t \in Client!Sockets \ {s} : socket'[t] = socket[t]
  BY <1>1, <1>2, <1>3, EndMoves
<1>5. PICK c \in BOOLEAN :
        /\ c = (past.crossed \/ (hook.mounted /\ hook.ref \notin {s, 0}))
        /\ past' = [past EXCEPT !.crossed = c]
  BY <1>2 DEF Client!CloseArrives, Client!NoSocket
<1>6. /\ past' \in Pasts /\ past'.crossed = c /\ past'.first = past.first
      /\ past'.heard = past.heard /\ past'.alarmed = past.alarmed
      /\ past'.outlived = past.outlived /\ past'.flushed = past.flushed /\ past'.lost = past.lost
  BY <1>2, <1>5 DEF Pasts
<1>7. /\ hook' \in Hooks /\ hook'.last = hook.last /\ hook'.mounted = hook.mounted
      /\ ~hook.mounted => hook' = hook
      /\ hook.mounted => /\ hook'.ref = 0 /\ hook'.status \in {"DISCONNECTED", "RECONNECTING", "FAILED"}
                         /\ hook'.status \in {"DISCONNECTED", "FAILED"} => ~hook'.timer
  <2>1. CASE hook.mounted
    <3> DEFINE cleared == [hook EXCEPT !.ref = 0, !.timer = FALSE, !.beating = FALSE]
    <3>1. \/ hook' = [cleared EXCEPT !.status = "DISCONNECTED"]
          \/ /\ cleared.retries < Reconnects
             /\ hook' = [cleared EXCEPT !.retries = cleared.retries + 1, !.status = "RECONNECTING",
                                        !.timer = TRUE]
          \/ hook' = [cleared EXCEPT !.status = "FAILED"]
      <4>1. hook' = Client!AfterClose(hook, socket[s].page = "closing")
        BY <2>1 DEF Client!CloseArrives
      <4>2. cleared.retries = hook.retries
        OBVIOUS
      <4> QED
        BY <4>1, <4>2 DEF Client!AfterClose, Client!NoSocket
    <3>2. /\ cleared \in Hooks /\ cleared.ref = 0 /\ cleared.timer = FALSE
          /\ cleared.last = hook.last /\ cleared.mounted = hook.mounted
      BY <1>2 DEF Hooks
    <3> HIDE DEF cleared
    <3>3. cleared.retries < Reconnects => cleared.retries + 1 \in 0..Reconnects
      BY <3>2 DEF Hooks, ClientOK
    <3> QED
      BY <2>1, <3>1, <3>2, <3>3 DEF Hooks
  <2>2. CASE ~hook.mounted
    BY <1>2, <2>2 DEF Client!CloseArrives
  <2> QED
    BY <2>1, <2>2
<1>8. ClientTypes'
  BY <1>1, <1>2, <1>4, <1>6, <1>7 DEF ClientTypes
<1>9. EndsInv'
  <2>1. EndOK(new, server.counter, server.version)
    BY <1>2, <1>3 DEF EndOK
  <2> QED
    BY <1>1, <1>2, <1>4, <2>1 DEF EndsInv
<1>10. LossInv'
  BY <1>1, <1>6, <1>7, LossStays DEF ClientInv
<1>11. ~Reachable(q) /\ ~Reachable(new)
  BY <1>1, <1>3 DEF Reachable
<1>12. ListInv'
  <2>1. data.consumer = "list" /\ server.version \in server.unpublished => Accounted'
    BY <1>1 DEF Accounted
  <2>2. ASSUME NEW t \in Client!Sockets, data.consumer = "list", Holds(socket[t], server.version)
        PROVE  Accounted'
    <3>1. t # s
      BY <1>11, <2>2 DEF Holds
    <3> QED
      BY <1>1, <1>4, <2>2, <3>1 DEF Accounted
  <2>3. data.consumer = "list" /\ ~past'.outlived =>
            /\ data.newest <= server'.counter
            /\ \A t \in Client!Sockets : Reachable(socket'[t]) => Ahead(socket'[t], data.newest)
    BY <1>1, <1>4, <1>6, <1>11 DEF ClientInv, ListInv
  <2>4. ListInv
    BY DEF ClientInv
  <2> QED
    BY <1>1, <1>2, <1>6, <2>1, <2>2, <2>3, <2>4, ListStep
<1>13. StreamInv'
  <2>1. /\ Client!Alive' = Client!Alive \ {s} /\ socket'[s].page = "none"
    BY <1>3, <1>4 DEF Client!Alive
  <2>2. ~hook.mounted => happened # 0
    BY <1>1 DEF ClientInv, StreamInv
  <2>3. hook.mounted /\ ~c => Client!Alive' = {}
    <3>1. hook.mounted /\ ~c => Client!Alive \subseteq {hook.ref} /\ hook.ref \in {s, 0}
      BY <1>2, <1>5 DEF ClientInv, StreamInv, Client!OneStream, Pasts
    <3>2. 0 \notin Client!Alive
      BY DEF Client!Alive, Client!Sockets
    <3> QED
      BY <2>1, <3>1, <3>2
  <2>4. Client!OneStream'
    BY <1>6, <1>7, <2>3 DEF Client!OneStream
  <2>5. ASSUME data.consumer # "sockets"
        PROVE  /\ ~c /\ Client!Alive' \subseteq {hook'.ref}
               /\ hook'.timer => hook'.ref = 0
               /\ hook'.mounted =>
                     \A t \in Client!Sockets : socket'[t].page # "none" => t = hook'.ref
               /\ ~hook'.mounted => hook'.ref = 0 /\ ~hook'.timer
    <3>1. /\ ~past.crossed /\ Client!Alive \subseteq {hook.ref}
          /\ hook.mounted => \A t \in Client!Sockets : socket[t].page # "none" => t = hook.ref
          /\ ~hook.mounted => hook.ref = 0 /\ ~hook.timer
      BY <2>5 DEF ClientInv, StreamInv
    <3>2. hook.mounted => hook.ref = s
      BY <1>1, <3>1
    <3>3. ~c
      BY <1>5, <3>1, <3>2
    <3>4. hook.mounted => \A t \in Client!Sockets : socket'[t].page = "none"
      BY <1>4, <2>1, <3>1, <3>2
    <3> QED
      BY <1>7, <2>1, <2>3, <3>1, <3>3, <3>4
  <2> QED
    BY <1>1, <1>6, <1>7, <2>2, <2>4, <2>5 DEF StreamInv
<1> QED
  BY <1>8, <1>9, <1>10, <1>12, <1>13 DEF ClientInv

-----------------------------------------------------------------------------
(* A message is delivered.                                                 *)

(* A socket from whose wire the first message was taken. *)
LEMMA TakenEnd ==
  ASSUME NEW q \in Ends, NEW n \in Nat, NEW v \in Nat, EndOK(q, n, v), q.wire # <<>>,
         NEW new, new = [q EXCEPT !.wire = Tail(q.wire)]
  PROVE  /\ new \in Ends /\ EndOK(new, n, v) /\ new.page = q.page /\ new.up = q.up /\ q.up
         /\ Head(q.wire) \in Messages /\ Head(q.wire).version <= v
         /\ Head(q.wire).kind # "event" => Head(q.wire).version = 0
         /\ Head(q.wire).kind = "event" =>
               Head(q.wire).number <= n /\ Ahead(new, Head(q.wire).number)
         /\ \A u \in Nat : Holds(q, u) => Holds(new, u) \/ Head(q.wire).version = u
         /\ \A k \in Nat : Ahead(q, k) =>
               Ahead(new, k) /\ (Head(q.wire).kind = "event" => k < Head(q.wire).number)
<1> DEFINE W == q.wire
           Q == q.queue
           Y == Tail(W)
<1>1. W \in Seq(Messages) /\ Q \in Seq(Messages) /\ q.up \in BOOLEAN
  BY DEF Ends
<1>2. /\ Y \in Seq(Messages) /\ 1 \in DOMAIN W /\ Head(W) = W[1] /\ W[1] \in Messages
      /\ \A i \in DOMAIN Y : i \in Nat /\ i + 1 \in DOMAIN W /\ Y[i] = W[i + 1]
      /\ \A i \in DOMAIN W : i = 1 \/ (i - 1 \in DOMAIN Y /\ Y[i - 1] = W[i])
  BY <1>1, TailPlaces
<1>3. /\ new \in Ends /\ new.page = q.page /\ new.up = q.up /\ new.queue = Q
      /\ new.wire = Y /\ new.door = q.door
  BY <1>2 DEF Ends
<1>4. /\ q.up /\ InOrder(q, n) /\ q.door \notin {"asked", "greeting"}
  BY <1>1 DEF EndOK
<1>5. InOrder(new, n)
  <2>1. n <= n /\ new.queue = q.queue /\ q.wire # <<>> /\ new.wire = Tail(q.wire)
    BY <1>3
  <2> QED
    BY <1>3, <1>4, <2>1, WireOrder
<1>6. \A i \in DOMAIN Y : Y[i].version <= v /\ (Y[i].kind # "event" => Y[i].version = 0)
  BY <1>2 DEF EndOK
<1>7. EndOK(new, n, v)
  BY <1>3, <1>4, <1>5, <1>6 DEF EndOK
<1>8. W[1].version <= v /\ (W[1].kind # "event" => W[1].version = 0)
  BY <1>2 DEF EndOK
<1>9. ASSUME W[1].kind = "event"
      PROVE  W[1].number <= n /\ Ahead(new, W[1].number)
  <2>1. \A i \in DOMAIN Q : W[1].number < Q[i].number
    BY <1>2, <1>4, <1>9 DEF InOrder
  <2>2. ASSUME NEW i \in DOMAIN Y, Y[i].kind = "event" PROVE W[1].number < Y[i].number
    <3>1. i + 1 \in DOMAIN W /\ Y[i] = W[i + 1] /\ i \in Nat
      BY <1>2
    <3>2. i # 0
      BY <1>2, LenProperties
    <3>3. 1 < i + 1
      BY <3>1, <3>2
    <3> QED
      BY <1>2, <1>4, <1>9, <2>2, <3>1, <3>3 DEF InOrder
  <2>3. W[1].number <= n
    BY <1>2, <1>4, <1>9 DEF InOrder
  <2> QED
    BY <1>3, <2>1, <2>2, <2>3 DEF Ahead
<1>10. ASSUME NEW u \in Nat, Holds(q, u) PROVE Holds(new, u) \/ W[1].version = u
  <2>1. Reachable(new)
    BY <1>3, <1>10 DEF Holds, Reachable
  <2>2. ASSUME NEW i \in DOMAIN Q, Q[i].version = u PROVE Holds(new, u)
    BY <1>3, <2>1, <2>2 DEF Holds
  <2>3. ASSUME NEW i \in DOMAIN W, W[i].version = u PROVE Holds(new, u) \/ W[1].version = u
    <3>1. CASE i - 1 \in DOMAIN Y /\ Y[i - 1] = W[i]
      BY <1>3, <2>1, <2>3, <3>1 DEF Holds
    <3> QED
      BY <1>2, <2>3, <3>1
  <2> QED
    BY <1>10, <2>2, <2>3 DEF Holds
<1>11. ASSUME NEW k \in Nat, Ahead(q, k)
       PROVE  Ahead(new, k) /\ (W[1].kind = "event" => k < W[1].number)
  BY <1>2, <1>3, <1>11 DEF Ahead
<1> QED
  BY <1>2, <1>3, <1>4, <1>7, <1>8, <1>9, <1>10, <1>11

(* What the continuity check learns from a message. *)
LEMMA LossRecorded ==
  ASSUME ClientTypes, LossInv, NEW m \in Messages, data.consumer = "numbers",
         hook' = [hook EXCEPT !.last = Client!Continued(m)], past' = Client!Recorded(m),
         data'.consumer = data.consumer
  PROVE  LossInv' /\ past' \in Pasts
<1>1. /\ hook \in Hooks /\ past \in Pasts /\ m.number \in Nat \ {0} /\ hook.last \in Nat
  BY DEF ClientTypes, Messages, Hooks
<1>2. CASE m.kind = "pong"
  <2>1. past' = past /\ hook'.last = hook.last
    BY <1>1, <1>2 DEF Client!Recorded, Client!Continued, Hooks
  <2> QED
    BY <1>1, <2>1, LossStays
<1>3. CASE m.kind # "pong"
  <2> DEFINE f == IF past.first = 0 THEN m.number ELSE past.first
             H == past.heard \union {m.number}
             A == past.alarmed \union Client!Gap(m)
  <2>1. /\ past' = [past EXCEPT !.first = f, !.heard = H, !.alarmed = A]
        /\ hook'.last = m.number
    BY <1>1, <1>3 DEF Client!Recorded, Client!Continued, Hooks
  <2>2. Client!Gap(m) = IF hook.last > 0 THEN (hook.last + 1)..(m.number - 1) ELSE {}
    BY <1>3 DEF Client!Gap
  <2>3. f \in Nat /\ f # 0 /\ H \in SUBSET (Nat \ {0}) /\ A \in SUBSET Nat
    <3>1. (hook.last + 1)..(m.number - 1) \subseteq Nat
      BY <1>1
    <3> QED
      BY <1>1, <2>2, <3>1 DEF Pasts
  <2>4. \A k \in H, n \in Nat : f < n /\ n < k => n \in H \union A
    <3> SUFFICES ASSUME NEW k \in H, NEW n \in Nat, f < n, n < k
                 PROVE  n \in H \union A
      OBVIOUS
    <3>1. CASE past.first = 0
      <4>1. k = m.number /\ f = m.number
        BY <3>1 DEF LossInv
      <4> QED
        BY <1>1, <4>1
    <3>2. CASE past.first # 0
      <4>1. /\ hook.last \in past.heard /\ hook.last > 0 /\ f = past.first
            /\ \A j \in past.heard : past.first < n /\ n < j => n \in past.heard \union past.alarmed
        BY <1>1, <3>2 DEF LossInv, Pasts
      <4>2. CASE k \in past.heard
        BY <4>1, <4>2
      <4>3. CASE k = m.number
        <5>1. n < hook.last \/ n = hook.last \/ n \in (hook.last + 1)..(m.number - 1)
          BY <1>1, <4>3
        <5> QED
          BY <2>2, <4>1, <5>1
      <4> QED
        BY <4>2, <4>3
    <3> QED
      BY <3>1, <3>2
  <2>5. m.number \in H
    OBVIOUS
  <2> HIDE DEF f, H, A
  <2>6. past' \in Pasts /\ past'.first = f /\ past'.heard = H /\ past'.alarmed = A
    BY <1>1, <2>1, <2>3 DEF Pasts
  <2> QED
    BY <2>1, <2>3, <2>4, <2>5, <2>6 DEF LossInv
<1> QED
  BY <1>2, <1>3

(* What a message does to the list. *)
LEMMA ListHeard ==
  ASSUME ClientOK, ClientInv, NEW s \in Client!Sockets, NEW m \in Messages,
         NEW L, NEW w \in Nat, w = server.version,
         L = Client!ListLoses(m), m.version <= w, m.kind # "event" => m.version = 0,
         m.kind = "event" => m.number <= server.counter,
         hook.mounted, data.consumer = "list", Client!ListHears(m),
         past' = [Client!Losing(L) EXCEPT !.outlived = @ /\ ~Client!Taken(m)],
         socket[s].page = "open", socket[s].up, UNCHANGED server,
         \A t \in Client!Sockets \ {s} : socket'[t] = socket[t],
         Holds(socket[s], w) => Holds(socket'[s], w) \/ m.version = w,
         m.kind = "event" => Ahead(socket'[s], m.number),
         \A k \in Nat : Ahead(socket[s], k) =>
               Ahead(socket'[s], k) /\ (m.kind = "event" => k < m.number)
  PROVE  /\ ListInv' /\ data' \in Views /\ past' \in Pasts /\ past'.first = past.first
         /\ past'.crossed = past.crossed /\ data'.consumer = data.consumer
         /\ {data'.shown, data'.value, data'.batch, past'.flushed, past'.lost} \subseteq 0..w
<1>1. /\ ClientTypes /\ data \in Views /\ data.newest \in Nat /\ data.batch \in 0..w
      /\ {data.shown, data.value, past.flushed} \subseteq 0..w
      /\ m.number \in Nat /\ m.version \in Nat /\ w # 0 /\ server.counter \in Nat
  BY ServerSame DEF ClientInv, ClientTypes, Views, Messages
<1>2. PICK taken \in BOOLEAN : taken = Client!Taken(m)
  BY DEF Client!Taken
<1>3. taken => m.kind = "event" /\ data.newest < m.number
  BY <1>1, <1>2 DEF Client!Taken, Client!Fresh
<1>4. m.kind = "event" /\ data.newest < m.number => taken
  BY <1>1, <1>2 DEF Client!Taken, Client!Fresh
<1>5. /\ data' \in Views /\ data'.consumer = "list" /\ data'.shown = data.shown
      /\ data'.value = data.value
      /\ taken => data'.newest = m.number /\ data'.batch = m.version
      /\ ~taken => data'.newest = data.newest /\ data'.batch = data.batch
  <2>1. data' = IF taken THEN [data EXCEPT !.newest = m.number, !.batch = m.version] ELSE data
    BY <1>2 DEF Client!ListHears
  <2> QED
    BY <1>1, <2>1 DEF Views
<1>6. /\ L \subseteq 0..w
      /\ taken /\ m.version < data.batch => data.batch \in L
      /\ ~taken /\ past.outlived => m.version \in L
  <2>1. L = IF taken THEN {v \in {data.batch} : m.version < v} ELSE {v \in {m.version} : past.outlived}
    BY <1>2 DEF Client!ListLoses
  <2> QED
    BY <1>1, <2>1
<1> DEFINE p == Client!Losing(L)
<1>7. /\ p \in Pasts /\ p.lost \in 0..w /\ p.crossed = past.crossed /\ p.first = past.first
      /\ p.outlived = past.outlived /\ p.flushed = past.flushed
      /\ data.consumer = "list" /\ w \in L => p.lost = w
      /\ past.lost = w => p.lost = w
  BY <1>1, <1>6, LosingKeeps
<1>8. past' = [p EXCEPT !.outlived = p.outlived /\ ~taken]
  BY <1>2
<1> HIDE DEF p
<1>9. /\ past' \in Pasts /\ past'.lost = p.lost /\ past'.crossed = past.crossed
      /\ past'.first = past.first /\ past'.flushed = past.flushed
      /\ past'.outlived = (past.outlived /\ ~taken)
  <2> DEFINE o == p.outlived /\ ~taken
  <2>1. o \in BOOLEAN /\ past' = [p EXCEPT !.outlived = o]
    BY <1>8
  <2> HIDE DEF o
  <2>2. /\ past' \in Pasts /\ past'.lost = p.lost /\ past'.crossed = p.crossed
        /\ past'.first = p.first /\ past'.flushed = p.flushed /\ past'.outlived = o
    BY <1>7, <2>1 DEF Pasts
  <2> QED
    BY <1>7, <2>2 DEF o
<1>10. past.outlived \in BOOLEAN /\ past'.outlived \in BOOLEAN
  BY <1>1, <1>9 DEF ClientTypes, Pasts
<1>11. /\ ~past.outlived =>
             /\ data.newest <= server.counter
             /\ \A t \in Client!Sockets : Reachable(socket[t]) => Ahead(socket[t], data.newest)
       /\ Accounted
       /\ past.flushed = w /\ past.lost # w /\ data.shown > 0 => data.shown = w
  BY DEF ClientInv, ListInv
<1>12. \A t \in Client!Sockets : Reachable(socket[t]) => t = s
  <2>1. \A t \in Client!Alive : t = hook.ref
    BY DEF ClientInv, StreamInv
  <2> QED
    BY <2>1 DEF Client!Alive, Reachable
<1>13. Reachable(socket[s])
  BY DEF Reachable
<1>14. ASSUME w \in L PROVE Accounted'
  BY <1>7, <1>9, <1>14 DEF Accounted
<1>15. Accounted'
  <2>1. CASE server.version = 1 \/ server.version \in server.unpublished
    BY <2>1 DEF Accounted
  <2>2. CASE past.lost = w
    BY <1>7, <1>9, <2>2 DEF Accounted
  <2>3. CASE past.flushed = w
    BY <1>9, <2>3 DEF Accounted
  <2>4. CASE data.batch = w
    <3>1. CASE taken /\ m.version < w
      BY <1>6, <1>14, <2>4, <3>1
    <3>2. CASE taken /\ m.version = w
      BY <1>5, <3>2 DEF Accounted
    <3>3. CASE ~taken
      BY <1>5, <2>4, <3>3 DEF Accounted
    <3> QED
      BY <1>1, <3>1, <3>2, <3>3
  <2>5. ASSUME NEW t \in Client!Sockets, Holds(socket[t], w) PROVE Accounted'
    <3>1. t = s
      BY <1>12, <2>5 DEF Holds
    <3>2. CASE Holds(socket'[s], w)
      BY <3>2 DEF Accounted
    <3>3. CASE m.version = w
      <4>1. m.kind = "event"
        BY <1>1, <3>3
      <4>2. CASE taken
        BY <1>5, <3>3, <4>2 DEF Accounted
      <4>3. CASE ~taken
        <5>1. past.outlived
          BY <1>4, <1>1, <1>11, <1>13, <4>1, <4>3
        <5> QED
          BY <1>6, <1>14, <3>3, <4>3, <5>1
      <4> QED
        BY <4>2, <4>3
    <3> QED
      BY <2>5, <3>1, <3>2, <3>3
  <2> QED
    BY <1>11, <2>1, <2>2, <2>3, <2>4, <2>5 DEF Accounted
<1>16. ASSUME ~past'.outlived
       PROVE  /\ data'.newest <= server.counter
              /\ \A t \in Client!Sockets : Reachable(socket'[t]) => Ahead(socket'[t], data'.newest)
  <2>1. \A t \in Client!Sockets : Reachable(socket'[t]) => t = s
    BY <1>12
  <2>2. CASE taken
    BY <1>3, <1>5, <2>1, <2>2
  <2>3. CASE ~taken
    <3>1. ~past.outlived
      BY <1>9, <1>10, <1>16, <2>3
    <3> QED
      BY <1>1, <1>5, <1>11, <1>13, <2>1, <2>3, <3>1
  <2> QED
    BY <2>2, <2>3
<1>17. past'.flushed = w /\ past'.lost # w /\ data'.shown > 0 => data'.shown = w
  BY <1>5, <1>7, <1>9, <1>11
<1>18. ListInv'
  BY <1>5, <1>15, <1>16, <1>17 DEF ListInv
<1>19. {data'.shown, data'.value, data'.batch, past'.flushed, past'.lost} \subseteq 0..w
  BY <1>1, <1>5, <1>7, <1>9
<1> QED
  BY <1>5, <1>9, <1>18, <1>19

LEMMA DeliverKeeps ==
  ASSUME ClientOK, ClientInv, NEW s \in Client!Sockets, Client!DeliverMessage(s)
  PROVE  ClientInv'
<1> DEFINE q == socket[s]
           m == Head(q.wire)
           new == [q EXCEPT !.wire = Tail(q.wire)]
<1>0. PICK n \in Nat, w \in Nat : server.counter = n /\ server.version = w
  BY ServerSame DEF ClientInv
<1>1. /\ q.page = "open" /\ q.wire # <<>> /\ socket' = [socket EXCEPT ![s] = new]
      /\ UNCHANGED <<server, happened>>
  BY DEF Client!DeliverMessage
<1>2. /\ ClientTypes /\ EndsInv /\ q \in Ends /\ EndOK(q, n, w)
      /\ hook \in Hooks /\ data \in Views /\ past \in Pasts
      /\ {data.shown, data.value, data.batch, past.flushed, past.lost} \subseteq 0..w
  BY <1>0 DEF ClientInv, ClientTypes, EndsInv
<1>3. new = [q EXCEPT !.wire = Tail(q.wire)]
  OBVIOUS
<1> HIDE DEF new
<1>4. /\ new \in Ends /\ EndOK(new, n, w) /\ new.page = q.page /\ new.up = q.up /\ q.up
      /\ m \in Messages /\ m.version <= w
      /\ m.kind # "event" => m.version = 0
      /\ m.kind = "event" => m.number <= n /\ Ahead(new, m.number)
      /\ \A u \in Nat : Holds(q, u) => Holds(new, u) \/ m.version = u
      /\ \A k \in Nat : Ahead(q, k) => Ahead(new, k) /\ (m.kind = "event" => k < m.number)
  <2>1. q \in Ends /\ EndOK(q, n, w) /\ q.wire # <<>> /\ new = [q EXCEPT !.wire = Tail(q.wire)]
    BY <1>1, <1>2, <1>3
  <2> HIDE DEF q
  <2> QED
    BY <2>1, TakenEnd
<1>5. /\ socket' \in [Client!Sockets -> Ends] /\ socket'[s] = new
      /\ \A t \in Client!Sockets \ {s} : socket'[t] = socket[t]
  BY <1>1, <1>2, <1>4, EndMoves
<1>6. hook.mounted =>
        /\ hook' = [hook EXCEPT !.last = Client!Continued(m)]
        /\ CASE data.consumer = "view" -> Client!ViewHears(m) /\ UNCHANGED past
             [] data.consumer = "list" -> /\ Client!ListHears(m)
                                           /\ past' = [Client!Losing(Client!ListLoses(m)) EXCEPT
                                                          !.outlived = @ /\ ~Client!Taken(m)]
             [] OTHER -> UNCHANGED data /\ past' = Client!Recorded(m)
  BY DEF Client!DeliverMessage
<1>7. ~hook.mounted => UNCHANGED <<hook, data, past>>
  BY DEF Client!DeliverMessage
<1> HIDE DEF m
<1>8. /\ hook' \in Hooks /\ hook'.mounted = hook.mounted /\ hook'.ref = hook.ref
      /\ hook'.timer = hook.timer /\ hook'.status = hook.status
  <2>1. Client!Continued(m) \in Nat
    BY <1>2, <1>4 DEF Client!Continued, Messages, Hooks
  <2> QED
    BY <1>2, <1>6, <1>7, <2>1 DEF Hooks
<1>9. EndsInv'
  BY <1>0, <1>1, <1>2, <1>4, <1>5 DEF EndsInv
<1>10. ASSUME data' \in Views, past' \in Pasts, data'.consumer = data.consumer,
              past'.crossed = past.crossed,
              {data'.shown, data'.value, data'.batch, past'.flushed, past'.lost} \subseteq 0..w,
              LossInv', ListInv'
       PROVE  ClientInv'
  <2>1. ClientTypes'
    BY <1>0, <1>1, <1>2, <1>5, <1>8, <1>10 DEF ClientTypes
  <2>2. StreamInv'
    <3>1. \A t \in Client!Sockets : socket'[t].page = socket[t].page
      BY <1>4, <1>5
    <3>2. hook.ref \in Client!Sockets \union {0} /\ StreamInv /\ happened \in Nat
      BY <1>2 DEF ClientInv, ClientTypes, Hooks
    <3> QED
      BY <1>1, <1>8, <1>10, <3>1, <3>2, PagesKeep
  <2> QED
    BY <1>9, <1>10, <2>1, <2>2 DEF ClientInv
<1>11. data.consumer # "numbers" => past.first = 0 /\ past.heard = {}
  BY DEF ClientInv, LossInv
<1>12. CASE ~hook.mounted
  <2>1. data.consumer # "list"
    <3>1. s \in Client!Alive /\ s # 0
      BY <1>1 DEF Client!Alive, Client!Sockets
    <3> QED
      BY <1>12, <3>1 DEF ClientInv, StreamInv
  <2>2. UNCHANGED <<hook, data, past>>
    BY <1>7, <1>12
  <2>3. LossInv' /\ ListInv'
    BY <2>1, <2>2, LossStays DEF ClientInv, ListInv
  <2> QED
    BY <1>2, <1>10, <2>2, <2>3
<1>13. CASE hook.mounted /\ data.consumer = "view"
  <2>1. Client!ViewHears(m) /\ past' = past
    BY <1>6, <1>13
  <2>2. PICK shown \in {data.shown, m.version}, fetch \in {"sent", data.fetch} :
          data' = [data EXCEPT !.shown = shown, !.fetch = fetch]
    BY <2>1 DEF Client!ViewHears
  <2>3. shown \in 0..w /\ shown \in Nat
    BY <1>2, <1>4, <2>2 DEF Messages
  <2>4. /\ data' \in Views /\ data'.consumer = data.consumer /\ data'.shown = shown
        /\ data'.value = data.value /\ data'.batch = data.batch
    BY <1>2, <2>2, <2>3 DEF Views
  <2>5. LossInv' /\ ListInv'
    BY <1>11, <1>13, <2>1, <2>4 DEF LossInv, ListInv
  <2> QED
    BY <1>2, <1>10, <2>1, <2>3, <2>4, <2>5
<1>14. CASE hook.mounted /\ data.consumer = "list"
  <2>1. /\ Client!ListHears(m)
        /\ past' = [Client!Losing(Client!ListLoses(m)) EXCEPT !.outlived = @ /\ ~Client!Taken(m)]
    BY <1>6, <1>14
  <2> DEFINE L == Client!ListLoses(m)
  <2>2. L = Client!ListLoses(m)
        /\ past' = [Client!Losing(L) EXCEPT !.outlived = @ /\ ~Client!Taken(m)]
    BY <2>1
  <2> HIDE DEF L
  <2>3. /\ m.kind = "event" => m.number <= server.counter
        /\ w = server.version /\ UNCHANGED server
        /\ socket[s].page = "open" /\ socket[s].up
        /\ Holds(socket[s], w) => Holds(socket'[s], w) \/ m.version = w
        /\ m.kind = "event" => Ahead(socket'[s], m.number)
        /\ \A k \in Nat : Ahead(socket[s], k) =>
              Ahead(socket'[s], k) /\ (m.kind = "event" => k < m.number)
    BY <1>0, <1>1, <1>4, <1>5
  <2>4. /\ ListInv' /\ data' \in Views /\ past' \in Pasts /\ past'.first = past.first
        /\ past'.crossed = past.crossed /\ data'.consumer = data.consumer
        /\ {data'.shown, data'.value, data'.batch, past'.flushed, past'.lost} \subseteq 0..w
    BY <1>4, <1>5, <1>14, <2>1, <2>2, <2>3, ListHeard
  <2>5. LossInv'
    BY <1>11, <1>14, <2>2, <2>4 DEF LossInv, Client!Losing
  <2> QED
    BY <1>10, <2>4, <2>5
<1>15. CASE hook.mounted /\ data.consumer = "numbers"
  <2>1. data' = data /\ past' = Client!Recorded(m) /\ hook' = [hook EXCEPT !.last = Client!Continued(m)]
    BY <1>6, <1>15
  <2>2. LossInv' /\ past' \in Pasts
    BY <1>2, <1>4, <1>15, <2>1, LossRecorded DEF ClientInv
  <2>3. past'.crossed = past.crossed /\ past'.flushed = past.flushed /\ past'.lost = past.lost
    BY <1>2, <2>1 DEF Client!Recorded, Pasts
  <2>4. ListInv'
    BY <1>15, <2>1 DEF ListInv
  <2> QED
    BY <1>2, <1>10, <2>1, <2>2, <2>3, <2>4
<1>16. CASE hook.mounted /\ data.consumer = "sockets"
  <2>1. data' = data /\ past' = past
    BY <1>6, <1>16 DEF Client!Recorded
  <2>2. LossInv' /\ ListInv'
    BY <1>11, <1>16, <2>1 DEF LossInv, ListInv
  <2> QED
    BY <1>2, <1>10, <2>1, <2>2
<1> QED
  BY <1>2, <1>12, <1>13, <1>14, <1>15, <1>16 DEF Views, Client!Consumers

-----------------------------------------------------------------------------
(* Frames and fetches.                                                     *)

(* S is what the list loses by the step. *)
LEMMA DataStep ==
  ASSUME ClientOK, ClientInv, UNCHANGED <<socket, server, hook>>,
         happened' \in {happened, happened + 1},
         data' \in Views, data'.consumer = data.consumer, data'.newest = data.newest,
         {data'.shown, data'.value, data'.batch} \subseteq 0..server.version,
         NEW S, S \subseteq 0..server.version,
         NEW f \in 0..server.version, past' = [Client!Losing(S) EXCEPT !.flushed = f],
         data.consumer = "list" /\ server.version \in {data.batch, past.flushed}
            => server.version \in S \union {data'.batch, f},
         data.consumer = "list" /\ f = server.version /\ data'.shown > 0 =>
            \/ server.version \in S
            \/ data'.shown = server.version
            \/ past.flushed = server.version /\ data'.shown = data.shown
  PROVE  ClientInv'
<1>1. ClientTypes /\ happened \in Nat /\ server.version \in Nat
  BY ServerSame DEF ClientInv, ClientTypes
<1> DEFINE p == Client!Losing(S)
<1>2. /\ p \in Pasts /\ p.lost \in 0..server.version
      /\ p.crossed = past.crossed /\ p.first = past.first /\ p.heard = past.heard
      /\ p.alarmed = past.alarmed /\ p.events = past.events /\ p.outlived = past.outlived
      /\ data.consumer = "list" /\ server.version \in S => p.lost = server.version
      /\ past.lost = server.version => p.lost = server.version
  BY <1>1, LosingKeeps
<1>3. past' = [p EXCEPT !.flushed = f]
  OBVIOUS
<1> HIDE DEF p
<1>4. /\ past' \in Pasts /\ past'.lost = p.lost /\ past'.crossed = past.crossed
      /\ past'.first = past.first /\ past'.heard = past.heard /\ past'.alarmed = past.alarmed
      /\ past'.outlived = past.outlived /\ past'.flushed = f
  <2>1. f \in Nat
    BY <1>1
  <2> QED
    BY <1>2, <1>3, <2>1 DEF Pasts
<1>5. ClientTypes'
  <2>1. {data'.shown, data'.value, data'.batch, past'.flushed, past'.lost} \subseteq 0..server.version
    BY <1>2, <1>4
  <2> QED
    BY <1>1, <1>4, <2>1 DEF ClientTypes
<1>6. EndsInv'
  BY DEF ClientInv, EndsInv
<1>7. StreamInv'
  <2>1. hook.ref \in Client!Sockets \union {0} /\ StreamInv
    BY <1>1 DEF ClientInv, ClientTypes, Hooks
  <2> QED
    BY <1>1, <1>4, <2>1, PagesKeep
<1>8. LossInv'
  BY <1>4, LossStays DEF ClientInv
<1>9. ASSUME data.consumer = "list" PROVE ListInv'
  <2>1. /\ Accounted
        /\ ~past.outlived =>
              /\ data.newest <= server.counter
              /\ \A t \in Client!Sockets : Reachable(socket[t]) => Ahead(socket[t], data.newest)
        /\ past.flushed = server.version /\ past.lost # server.version /\ data.shown > 0
              => data.shown = server.version
    BY <1>9 DEF ClientInv, ListInv
  <2>2. Accounted'
    BY <1>2, <1>4, <1>9, <2>1 DEF Accounted
  <2>3. past'.flushed = server.version /\ past'.lost # server.version /\ data'.shown > 0
           => data'.shown = server.version
    BY <1>2, <1>4, <1>9, <2>1
  <2> QED
    BY <1>4, <2>1, <2>2, <2>3 DEF ListInv
<1>10. ListInv'
  BY <1>9 DEF ListInv
<1> QED
  BY <1>5, <1>6, <1>7, <1>8, <1>10 DEF ClientInv

LEMMA FlushKeeps ==
  ASSUME ClientOK, ClientInv, Client!Flush
  PROVE  ClientInv'
<1> DEFINE w == server.version
           S == {v \in {past.flushed} : data.batch < v}
           f == IF past.flushed < data.batch THEN data.batch ELSE past.flushed
           shown == IF data.shown > 0 THEN data.batch ELSE data.shown
<1>1. /\ data \in Views /\ past \in Pasts /\ w \in Nat /\ happened \in Nat
      /\ {data.shown, data.value, data.batch, past.flushed} \subseteq 0..w
  BY ServerSame DEF ClientInv, ClientTypes
<1>2. /\ data' = [data EXCEPT !.batch = 0, !.shown = shown]
      /\ past' = [Client!Losing(S) EXCEPT !.flushed = f] /\ data.batch > 0
      /\ UNCHANGED <<socket, server, hook, happened>>
  <2>1. Client!Losing(S).flushed = past.flushed
    BY <1>1 DEF Client!Losing, Pasts
  <2> QED
    BY <2>1 DEF Client!Flush, Client!Later
<1>3. S \subseteq 0..w /\ f \in 0..w /\ shown \in 0..w /\ shown \in Nat
  BY <1>1
<1>4. w \in {data.batch, past.flushed} => f = w
  BY <1>1
<1>5. f = w /\ shown > 0 => w \in S \/ shown = w
  <2>1. CASE data.batch = w
    BY <1>1, <2>1
  <2>2. CASE past.flushed = w /\ data.batch # w
    BY <1>1, <2>2
  <2> QED
    BY <2>1, <2>2
<1> HIDE DEF S, f, shown
<1>6. /\ data' \in Views /\ data'.consumer = data.consumer /\ data'.newest = data.newest
      /\ data'.shown = shown /\ data'.value = data.value /\ data'.batch = 0
  BY <1>1, <1>2, <1>3 DEF Views
<1>7. {data'.shown, data'.value, data'.batch} \subseteq 0..w
  BY <1>1, <1>3, <1>6
<1> QED
  BY <1>2, <1>3, <1>4, <1>5, <1>6, <1>7, DataStep

(* Nothing is lost by a step that changes the fetch alone. *)
LEMMA FetchStep ==
  ASSUME ClientOK, ClientInv, UNCHANGED <<socket, server, hook, past>>,
         happened' \in {happened, happened + 1},
         data' \in Views, data'.consumer = data.consumer, data'.newest = data.newest,
         data'.shown = data.shown, data'.batch = data.batch, data'.value \in 0..server.version
  PROVE  ClientInv'
<1> DEFINE S == {}
           f == past.flushed
<1>1. /\ past \in Pasts /\ server.version \in Nat
      /\ {data.shown, data.batch, past.flushed, past.lost} \subseteq 0..server.version
  BY ServerSame DEF ClientInv, ClientTypes
<1>2. past' = [Client!Losing(S) EXCEPT !.flushed = f]
  <2>1. Client!Losing({}) = past
    <3>1. CASE data.consumer = "list"
      <4>1. PICK x \in Nat : x = past.lost
        BY <1>1 DEF Pasts
      <4>2. {x} \union {} = {x}
        OBVIOUS
      <4>3. {x} \subseteq 0..server.version /\ {x} # {}
        BY <1>1, <4>1
      <4>4. Client!Max({x}) \in {x}
        BY <1>1, <4>3, GreatestBounded
      <4>5. Client!Losing({}) = [past EXCEPT !.lost = Client!Max({past.lost} \union {})]
        BY <3>1 DEF Client!Losing
      <4>6. Client!Max({past.lost} \union {}) = past.lost
        BY <4>1, <4>2, <4>4
      <4> QED
        BY <1>1, <4>5, <4>6 DEF Pasts
    <3> QED
      BY <3>1 DEF Client!Losing
  <2> QED
    BY <1>1, <2>1 DEF Pasts
<1>3. S \subseteq 0..server.version /\ f \in 0..server.version
  BY <1>1
<1>4. {data'.shown, data'.value, data'.batch} \subseteq 0..server.version
  BY <1>1
<1> HIDE DEF S
<1> QED
  BY <1>2, <1>3, <1>4, DataStep

LEMMA RespondKeeps ==
  ASSUME ClientOK, ClientInv, Client!Respond
  PROVE  ClientInv'
<1> DEFINE w == server.version
           S == {v \in {past.flushed} : data.value < v}
           f == past.flushed
<1>1. /\ data \in Views /\ past \in Pasts /\ w \in Nat /\ happened \in Nat
      /\ {data.shown, data.value, data.batch, past.flushed} \subseteq 0..w
  BY ServerSame DEF ClientInv, ClientTypes
<1>2. PICK fetch \in {"sent", "idle"} :
        data' = [data EXCEPT !.fetch = fetch, !.shown = data.value, !.value = 0]
  BY DEF Client!Respond, Client!AfterFetch
<1>3. /\ past' = Client!Losing(S) /\ UNCHANGED <<socket, server, hook, happened>>
  BY DEF Client!Respond
<1>4. Client!Losing(S) = [Client!Losing(S) EXCEPT !.flushed = f]
  <2>1. S \subseteq 0..server.version /\ ClientTypes
    BY <1>1 DEF ClientInv
  <2> DEFINE p == Client!Losing(S)
  <2> HIDE DEF S
  <2>2. p \in Pasts /\ p.flushed = past.flushed
    BY <2>1, LosingKeeps
  <2> HIDE DEF p
  <2>3. p = [p EXCEPT !.flushed = past.flushed]
    BY <2>2 DEF Pasts
  <2> QED
    BY <2>3 DEF p
<1>5. S \subseteq 0..w /\ f \in 0..w
  BY <1>1
<1>6. f = w => w \in S \/ data.value = w
  BY <1>1
<1> HIDE DEF S
<1>7. /\ data' \in Views /\ data'.consumer = data.consumer /\ data'.newest = data.newest
      /\ data'.shown = data.value /\ data'.value = 0 /\ data'.batch = data.batch
  BY <1>1, <1>2 DEF Views
<1>8. {data'.shown, data'.value, data'.batch} \subseteq 0..w
  BY <1>1, <1>7
<1>9. past' = [Client!Losing(S) EXCEPT !.flushed = f]
  BY <1>3, <1>4
<1> QED
  BY <1>3, <1>5, <1>6, <1>7, <1>8, <1>9, DataStep

LEMMA FetchKeeps ==
  ASSUME ClientOK, ClientInv,
         Client!ReadSnapshot \/ Client!FetchFails \/ Client!Poll
  PROVE  ClientInv'
<1>1. /\ data \in Views /\ server.version \in Nat \ {0} /\ happened \in Nat
      /\ {data.shown, data.value, data.batch} \subseteq 0..server.version
  BY ServerSame DEF ClientInv, ClientTypes
<1>2. PICK fetch \in {"idle", "sent", "read"}, value \in {data.value, server.version, 0} :
        data' = [data EXCEPT !.fetch = fetch, !.value = value]
  <2>1. CASE Client!ReadSnapshot
    BY <2>1 DEF Client!ReadSnapshot
  <2>2. CASE Client!FetchFails
    BY <2>2 DEF Client!FetchFails
  <2>3. CASE Client!Poll
    <3>1. data = [data EXCEPT !.value = data.value]
      BY <1>1 DEF Views
    <3>2. data' = [data EXCEPT !.fetch = "sent", !.value = data.value]
      BY <1>1, <2>3 DEF Client!Poll, Views
    <3> QED
      BY <3>2
  <2> QED
    BY <2>1, <2>2, <2>3
<1>3. value \in 0..server.version /\ value \in Nat
  BY <1>1, <1>2
<1>4. /\ data' \in Views /\ data'.consumer = data.consumer /\ data'.newest = data.newest
      /\ data'.shown = data.shown /\ data'.batch = data.batch /\ data'.value = value
  BY <1>1, <1>2, <1>3 DEF Views
<1>5. UNCHANGED <<socket, server, hook, past>> /\ happened' \in {happened, happened + 1}
  BY DEF Client!ReadSnapshot, Client!FetchFails, Client!Poll, Client!Happen
<1> QED
  BY <1>3, <1>4, <1>5, FetchStep

-----------------------------------------------------------------------------
LEMMA InitClient ==
  ASSUME ClientOK, Client!Init
  PROVE  ClientInv
<1>1. Client!Closed \in Ends /\ Client!Closed.page = "none" /\ Client!Closed.door = "none"
      /\ Client!Closed.up = FALSE /\ Client!Closed.queue = <<>> /\ Client!Closed.wire = <<>>
  BY EmptySeq DEF Client!Closed, Ends
<1>2. socket \in [Client!Sockets -> Ends] /\ \A s \in Client!Sockets : socket[s] = Client!Closed
  BY <1>1 DEF Client!Init
<1>3. server = [counter |-> 0, version |-> 1, unpublished |-> {}] /\ server \in Servers
  BY DEF Client!Init, Servers
<1>4. /\ hook \in Hooks /\ hook.mounted = FALSE /\ hook.ref = 0 /\ hook.timer = FALSE
  <2>1. PICK r \in 0..Reconnects : r = 0
    BY DEF ClientOK
  <2>2. hook = [mounted |-> FALSE, enabled |-> TRUE, status |-> "DISCONNECTED", ref |-> 0,
                retries |-> r, timer |-> FALSE, beating |-> FALSE, last |-> 0]
    BY <2>1 DEF Client!Init, Client!NoSocket
  <2> QED
    BY <2>2 DEF Hooks
<1>5. data \in Views /\ data.shown = 0 /\ data.value = 0 /\ data.batch = 0 /\ data.newest = 0
  BY DEF Client!Init, Views
<1>6. /\ past \in Pasts /\ past.crossed = FALSE /\ past.first = 0 /\ past.heard = {}
      /\ past.flushed = 0 /\ past.lost = 0 /\ happened = 0
  BY DEF Client!Init, Pasts
<1>7. ClientTypes
  BY <1>2, <1>3, <1>4, <1>5, <1>6 DEF ClientTypes
<1>8. EndsInv
  BY <1>1, <1>2 DEF EndsInv, EndOK, ClientOK
<1>9. StreamInv
  <2>1. Client!Alive = {}
    BY <1>1, <1>2 DEF Client!Alive
  <2> QED
    BY <1>1, <1>2, <1>4, <1>6, <2>1 DEF StreamInv, Client!OneStream
<1>10. LossInv
  BY <1>6 DEF LossInv
<1>11. ListInv
  <2>1. \A s \in Client!Sockets : ~Reachable(socket[s])
    BY <1>1, <1>2 DEF Reachable
  <2> QED
    BY <1>3, <1>5, <1>6, <2>1 DEF ListInv, Accounted
<1> QED
  BY <1>7, <1>8, <1>9, <1>10, <1>11 DEF ClientInv

LEMMA NextClient ==
  ASSUME ClientOK, ClientInv, [Client!Next]_(Client!vars)
  PROVE  ClientInv'
<1>1. CASE UNCHANGED Client!vars
  <2>1. UNCHANGED <<socket, server, hook, data, past, happened>>
    BY <1>1 DEF Client!vars
  <2> QED
    BY <2>1 DEF ClientInv, ClientTypes, EndsInv, StreamInv, LossInv, ListInv, Accounted,
                Client!OneStream, Client!Alive
<1>2. CASE Client!Mount
  BY <1>2, MountKeeps
<1>3. CASE Client!RunEffect
  BY <1>3, EffectKeeps
<1>4. CASE Client!Unmount
  BY <1>4, UnmountKeeps
<1>5. CASE Client!Stream
  <2>1. ASSUME NEW s \in Client!Sockets, Client!OpenArrives(s) PROVE ClientInv'
    BY <2>1, OpenKeeps
  <2>2. ASSUME NEW s \in Client!Sockets, Client!DeliverMessage(s) PROVE ClientInv'
    BY <2>2, DeliverKeeps
  <2>3. ASSUME NEW s \in Client!Sockets, Client!CloseArrives(s) PROVE ClientInv'
    BY <2>3, CloseKeeps
  <2>4. ASSUME NEW s \in Client!Sockets,
               Client!Accept(s) \/ Client!Abandon(s) \/ Client!EndStream(s)
        PROVE  ClientInv'
    BY <2>4, HandlerKeeps
  <2>5. ASSUME NEW s \in Client!Sockets, Client!Greet(s) PROVE ClientInv'
    BY <2>5, GreetKeeps
  <2>6. ASSUME NEW s \in Client!Sockets, Client!Pump(s) PROVE ClientInv'
    BY <2>6, PumpKeeps
  <2> QED
    BY <1>5, <2>1, <2>2, <2>3, <2>4, <2>5, <2>6, ReconnectKeeps, FlushKeeps, PublishKeeps
       DEF Client!Stream
<1>6. CASE Client!Fetching
  BY <1>6, FetchKeeps, RespondKeeps DEF Client!Fetching
<1>7. ASSUME NEW s \in Client!Sockets, Client!Refuse(s) \/ Client!GreetFails(s)
      PROVE  ClientInv'
  BY <1>7, HandlerKeeps
<1>8. ASSUME NEW s \in Client!Sockets, Client!Lose(s) PROVE ClientInv'
  BY <1>8, LoseKeeps
<1>9. CASE Client!FetchFails
  BY <1>9, FetchKeeps
<1> QED
  BY <1>1, <1>2, <1>3, <1>4, <1>5, <1>6, <1>7, <1>8, <1>9, CommitKeeps, HeartbeatKeeps,
     RestartKeeps
     DEF Client!Next

LEMMA ClientInvSound ==
  ASSUME ClientOK, ClientInv
  PROVE  Client!TypeOK /\ Client!OneStream /\ Client!LossReported /\ Client!ListExplained
<1>1. /\ ClientTypes /\ Client!OneStream
      /\ socket \in [Client!Sockets -> Ends] /\ hook \in Hooks /\ data \in Views
  BY DEF ClientInv, ClientTypes, StreamInv
<1>2. Client!TypeOK
  <2>1. \A s \in Client!Sockets : socket[s] \in Ends /\ Len(socket[s].queue) <= QueueSize
    BY <1>1 DEF ClientInv, EndsInv, EndOK
  <2>2. /\ hook.status \in {"DISCONNECTED", "CONNECTING", "CONNECTED", "RECONNECTING", "FAILED"}
        /\ hook.ref \in Client!Sockets \union {0} /\ hook.retries \in 0..Reconnects
    BY <1>1 DEF Hooks
  <2>3. /\ data.fetch \in {"idle", "sent", "read"} /\ data.consumer \in Client!Consumers
        /\ {data.shown, data.batch, past.flushed, past.lost} \subseteq 0..server.version
    BY <1>1 DEF ClientTypes, Views
  <2> QED
    BY <2>1, <2>2, <2>3 DEF Client!TypeOK, Ends, Client!Subscribed, Client!NoSocket
<1>3. Client!LossReported
  <2> SUFFICES ASSUME NEW n \in past.events, past.first # 0, past.first < n,
                      NEW k \in past.heard, n < k
               PROVE  n \in past.heard \union past.alarmed
    BY DEF Client!LossReported
  <2>1. n \in Nat
    BY <1>1 DEF ClientTypes, Pasts
  <2> QED
    BY <2>1 DEF ClientInv, LossInv
<1>4. ASSUME data.consumer = "list", Client!Quiet, data.shown > 0
      PROVE  data.shown = server.version \/ past.lost = server.version
  <2>1. /\ data.batch = 0 /\ server.unpublished = {} /\ Client!OnTheWay = {}
    BY <1>4 DEF Client!Quiet
  <2>2. ASSUME NEW s \in Client!Sockets, Holds(socket[s], server.version) PROVE FALSE
    <3>1. s \in Client!Alive
      BY <2>2 DEF Holds, Reachable, Client!Alive
    <3>2. ASSUME NEW i \in DOMAIN socket[s].queue PROVE FALSE
      <4>1. socket[s].queue[i].number \in Client!OnTheWay
        BY <3>1, <3>2 DEF Client!OnTheWay
      <4> QED
        BY <2>1, <4>1
    <3>3. ASSUME NEW i \in DOMAIN socket[s].wire PROVE FALSE
      <4>1. socket[s].wire[i].number \in Client!OnTheWay
        BY <3>1, <3>3 DEF Client!OnTheWay
      <4> QED
        BY <2>1, <4>1
    <3> QED
      BY <2>2, <3>2, <3>3 DEF Holds
  <2>3. server.version # 0 /\ server.version \in Nat /\ data.shown \in 0..server.version
    BY <1>1, ServerSame DEF ClientTypes
  <2>4. CASE server.version = 1
    BY <1>4, <2>3, <2>4
  <2> QED
    BY <1>4, <2>1, <2>2, <2>3, <2>4 DEF ClientInv, ListInv, Accounted
<1>5. Client!ListExplained
  BY <1>4 DEF Client!ListExplained
<1> QED
  BY <1>1, <1>2, <1>3, <1>5

(* A stream of the operator interface, however long its queue and however  *)
(* often it connects, loses its connection or finds the server restarted:  *)
(* until the close of an old socket meets its successor the hook has one   *)
(* socket, no event is missed without an alarm, and a list that is at rest *)
(* shows the newest version or missed its event.                           *)
THEOREM StreamsAlwaysSound ==
  ASSUME ClientOK
  PROVE  Client!Spec => [](/\ Client!TypeOK /\ Client!OneStream
                           /\ Client!LossReported /\ Client!ListExplained)
<1>1. ClientInv => /\ Client!TypeOK /\ Client!OneStream
                   /\ Client!LossReported /\ Client!ListExplained
  BY ClientInvSound
<1>2. Client!Init => ClientInv
  BY InitClient
<1>3. ClientInv /\ [Client!Next]_(Client!vars) => ClientInv'
  BY NextClient
<1> QED
  BY <1>1, <1>2, <1>3, PTL DEF Client!Spec

-----------------------------------------------------------------------------
(* The composition: a step is one of the part the behaviour belongs to, or *)
(* leaves that part as it is.                                              *)
LEMMA PartStep ==
  ASSUME [Next]_vars
  PROVE  /\ part' = part
         /\ part = "run" => [Run!Next]_(Run!vars)
         /\ part = "export" => [Export!Next]_(Export!vars)
         /\ part = "client" => [Client!Next]_(Client!vars)
<1>1. CASE UNCHANGED vars
  BY <1>1 DEF vars, runVars, exportVars, clientVars, Run!vars, Export!vars, Client!vars
<1>2. CASE Next
  BY <1>2 DEF Next
<1> QED
  BY <1>1, <1>2

(* What goes on beside the requests: runs that are started and stopped in  *)
(* turn leave nothing behind, every copy of an export has its cause, and a *)
(* stream overlooks no loss: the invariant that the background run checks  *)
(* on a small instance.                                                    *)
THEOREM BackgroundAlwaysSound ==
  ASSUME RunOK, ClientOK, MaxRetries \in Nat
  PROVE  Spec => []BackgroundSound
<1> DEFINE PartInv == /\ part = "run" => RunInv
                      /\ part = "export" => ExportInv
                      /\ part = "client" => ClientInv
<1>1. PartInv => BackgroundSound
  <2>1. ExportInv => Export!ExportsSound
    BY DEF ExportInv, AttemptInv, Trying, Export!ExportsSound, Export!CopiesExplained
  <2> QED
    BY <2>1, RunInvSound, ClientInvSound DEF BackgroundSound
<1>2. Init => PartInv
  BY InitRun, InitExport, InitClient DEF Init
<1>3. PartInv /\ [Next]_vars => PartInv'
  BY PartStep, NextRun, NextExport, NextClient
<1> QED
  BY <1>1, <1>2, <1>3, PTL DEF Spec

=============================================================================
