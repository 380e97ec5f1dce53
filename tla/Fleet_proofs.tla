---------------------------- MODULE Fleet_proofs ----------------------------
(***************************************************************************)
(* Theorems about what the composition Services simulates: a scenario that *)
(* generates observations, and the vehicles, which are the safety decisions *)
(* of a swarm, a mission, the rows of a swarm and its engine, and its      *)
(* flight.                                                                 *)
(* The parts share no state; each is proved for every value of its own     *)
(* constants.                                                              *)
(***************************************************************************)
EXTENDS Services, FiniteSetTheorems, SequenceTheorems, WellFoundedInduction, TLAPS

-----------------------------------------------------------------------------
(* A scenario *)

ScenarioRequest ==
  [op : Scenario!Ops \union {"none"},
   pc : {"idle", "session", "act", "second", "tick", "complete", "failed"},
   was : Scenario!Statuses \union {"unread"}, of : Requests \union {NoRequest},
   left : Nat, out : Seq(Scenario!Ticks), met : BOOLEAN]

ScenarioTypes ==
  /\ scenario \in Scenario!Statuses \union {"deleted"}
  /\ sensor \in {"absent", "ACTIVE", "DISABLED"}
  /\ seen \subseteq Scenario!Ticks /\ stored \subseteq seen
  /\ registry \in Requests \union {NoRequest}
  /\ session \in [Requests -> Scenario!Session]
  /\ req \in [Requests -> ScenarioRequest]
  /\ raced \in BOOLEAN

(* What the position of a request says of its session and its batch. *)
Position(q, g) ==
  /\ q.pc \notin {"idle", "session"} => q.of = g /\ g # NoRequest
  /\ q.pc \in {"idle", "session"} => q.of = NoRequest
  /\ q.pc \in {"session", "act"} => q.was # "unread"
  /\ q.pc # "tick" => q.out = <<>>
  /\ \A i \in DOMAIN q.out : q.out[i] \in seen
  /\ q.pc # "idle" => q.op \in Scenario!Ops
  /\ q.pc \in {"tick", "complete", "failed"} => q.op = "step"
  /\ q.pc = "second" => q.op \notin {"pause", "step"}
CarryOK(r) ==
  /\ req[r].pc = "idle" => req[r] = Scenario!Idle
  /\ Position(req[r], registry)
CarryInv == \A r \in Requests : CarryOK(r)

(* A request that must change something more before it ends; once another  *)
(* has changed something under it, the next of its changes is a race.      *)
Owing(q) ==
  \/ q.pc \in {"second", "complete", "failed"}
  \/ q.pc = "tick" /\ (q.left > 0 \/ q.out # <<>>)
Doomed == \E r \in Requests : req[r].met /\ Owing(req[r])

(* What a request that met no change may rely on, of the session and the   *)
(* row.                                                                    *)
Relies(q, s, status) ==
  /\ q.pc # "second" \/ q.op # "start" => q.was \in {"unread", status}
  /\ q.op = "step" /\ q.pc \in {"session", "act"} => status \notin {"DRAFT", "COMPLETED"}
  /\ q.op \in {"start", "resume", "step"} /\ q.pc # "session" => ~s.stopped
  /\ q.pc = "second" =>
        /\ q.op = "start" => status = "RUNNING"
        /\ q.op = "stop" => s.stopped
        /\ q.op \in {"prepare", "reset"} => s = Scenario!FreshSession
  /\ q.pc \in {"tick", "complete"} => status \in {"RUNNING", "FAILED"}
  /\ q.pc = "tick" /\ q.out # <<>> /\ ~s.error => s.pending = Len(q.out)
  /\ q.pc = "complete" => s.tick >= Duration

(* The session and the row agree, but for what the request q still owes    *)
(* them.                                                                   *)
Agree(q, s, status) ==
  /\ s.stopped <=> s.halted
  /\ ~s.error => s.pending = 0 \/ (q.pc = "tick" /\ q.out # <<>>)
  /\ s.stopped => status = "READY" \/ (q.pc = "second" /\ q.op = "stop")
  /\ s.tick > 0 /\ ~s.stopped
        => \/ status \in {"RUNNING", "FAILED"}
           \/ status = "COMPLETED" /\ s.tick >= Duration

SerialInv ==
  ~raced /\ scenario # "deleted" /\ ~Doomed =>
    /\ \A r \in Requests : req[r].pc # "idle" /\ ~req[r].met
                            => Relies(req[r], session[registry], scenario)
    /\ registry # NoRequest =>
          \/ Agree(Scenario!Idle, session[registry], scenario)
          \/ \E r \in Requests : ~req[r].met /\ Agree(req[r], session[registry], scenario)

ScenarioInv == ScenarioTypes /\ CarryInv /\ Scenario!ObservationsKept /\ SerialInv

(* Requests perform the operations of the routes, edits write statuses.    *)
ScenarioOK ==
  /\ \A r \in Requests : OpsOf[r] \subseteq Scenario!Ops
  /\ Puts \subseteq Scenario!Statuses
  /\ Batches \subseteq Nat
  /\ MaxTick \in Nat
  /\ NoRequest \notin Requests

LEMMA IdleRequest ==
  /\ Scenario!Idle \in ScenarioRequest
  /\ Scenario!Idle.pc = "idle" /\ Scenario!Idle.of = NoRequest /\ Scenario!Idle.out = <<>>
  /\ ~Scenario!Idle.met
  BY DEF Scenario!Idle, ScenarioRequest

LEMMA NewSession ==
  ASSUME ScenarioOK
  PROVE  /\ Scenario!FreshSession \in Scenario!Session
         /\ Scenario!FreshSession.tick = 0 /\ Scenario!FreshSession.pending = 0
         /\ ~Scenario!FreshSession.stopped /\ ~Scenario!FreshSession.halted
         /\ ~Scenario!FreshSession.error
  BY DEF ScenarioOK, Scenario!FreshSession, Scenario!Session

(* What Acts makes of the requests: one goes on, the others have met a     *)
(* change, and nothing else of them is different.                          *)
Goes(r, rec) ==
  /\ req'[r] \in ScenarioRequest
  /\ req'[r].op = rec.op /\ req'[r].pc = rec.pc /\ req'[r].was = rec.was
  /\ req'[r].of = rec.of /\ req'[r].left = rec.left /\ req'[r].out = rec.out
  /\ rec = Scenario!Idle => req'[r] = rec
  /\ ~req'[r].met
Meets(x) ==
  /\ req'[x] \in ScenarioRequest
  /\ req'[x].op = req[x].op /\ req'[x].pc = req[x].pc /\ req'[x].was = req[x].was
  /\ req'[x].of = req[x].of /\ req'[x].left = req[x].left /\ req'[x].out = req[x].out
  /\ req[x].pc = "idle" => req'[x] = req[x]
  /\ req[x].pc # "idle" => (req'[x].met <=> ~raced')

LEMMA OthersMeet ==
  ASSUME ScenarioTypes, CarryInv, NEW x \in Requests, NEW b \in BOOLEAN, b = raced',
         req'[x] = IF req[x].pc = "idle" THEN Scenario!Idle ELSE [req[x] EXCEPT !.met = ~b]
  PROVE  Meets(x)
<1>1. req[x] \in ScenarioRequest
  BY DEF ScenarioTypes
<1>2. CASE req[x].pc = "idle"
  <2>1. req'[x] = req[x]
    BY <1>2 DEF CarryInv, CarryOK
  <2> QED
    BY <1>1, <1>2, <2>1 DEF Meets
<1>3. CASE req[x].pc # "idle"
  <2>1. req'[x] = [req[x] EXCEPT !.met = ~b]
    BY <1>3
  <2> QED
    BY <1>1, <1>3, <2>1 DEF Meets, ScenarioRequest
<1> QED
  BY <1>2, <1>3

LEMMA ActsStep ==
  ASSUME ScenarioTypes, CarryInv, NEW r \in Requests, NEW rec \in ScenarioRequest,
         Scenario!Acts(r, rec)
  PROVE  /\ raced' = (raced \/ req[r].met) /\ raced' \in BOOLEAN
         /\ req' \in [Requests -> ScenarioRequest]
         /\ Goes(r, rec)
         /\ \A x \in Requests \ {r} : Meets(x)
<1>1. raced' = (raced \/ req[r].met) /\ raced' \in BOOLEAN
  BY DEF Scenario!Acts, ScenarioTypes, ScenarioRequest
<1>2. /\ req' = [x \in Requests |-> req'[x]]
      /\ req'[r] = [rec EXCEPT !.met = FALSE]
      /\ \A x \in Requests \ {r} :
            req'[x] = IF req[x].pc = "idle" THEN Scenario!Idle
                      ELSE [req[x] EXCEPT !.met = ~raced']
  BY DEF Scenario!Acts, Scenario!Met
<1>3. Goes(r, rec)
  <2>1. \A q \in ScenarioRequest : ~q.met => [q EXCEPT !.met = FALSE] = q
    BY DEF ScenarioRequest
  <2>2. [Scenario!Idle EXCEPT !.met = FALSE] = Scenario!Idle
    BY <2>1, IdleRequest
  <2> QED
    BY <1>2, <2>2 DEF Goes, ScenarioRequest
<1>4. \A x \in Requests \ {r} : Meets(x)
  BY <1>1, <1>2, OthersMeet
<1>5. req' \in [Requests -> ScenarioRequest]
  BY <1>2, <1>3, <1>4 DEF Goes, Meets
<1> QED
  BY <1>1, <1>3, <1>4, <1>5

LEMMA AllMeet ==
  ASSUME ScenarioTypes, CarryInv, NEW b \in BOOLEAN, Scenario!AllMet(b), b = raced'
  PROVE  req' \in [Requests -> ScenarioRequest] /\ \A x \in Requests : Meets(x)
<1>1. /\ req' = [x \in Requests |-> req'[x]]
      /\ \A x \in Requests :
            req'[x] = IF req[x].pc = "idle" THEN Scenario!Idle
                      ELSE [req[x] EXCEPT !.met = ~b]
  BY DEF Scenario!AllMet, Scenario!Met
<1>2. \A x \in Requests : Meets(x)
  BY <1>1, OthersMeet
<1> QED
  BY <1>1, <1>2 DEF Meets

(* Fields that the agreement of a request does not look at. *)
LEMMA SameAgreement ==
  ASSUME NEW p, NEW q, NEW s, NEW status, p.pc = q.pc, p.op = q.op, p.out = q.out,
         Agree(q, s, status)
  PROVE  Agree(p, s, status)
  BY DEF Agree

LEMMA SameReliance ==
  ASSUME NEW p, NEW q, NEW s, NEW status, p.pc = q.pc, p.op = q.op, p.out = q.out,
         p.was = q.was, Relies(q, s, status)
  PROVE  Relies(p, s, status)
  BY DEF Relies

(* Without a debt a request is no excuse, and an agreement without excuses *)
(* is one with any.                                                        *)
LEMMA NoExcuse ==
  ASSUME NEW p, NEW q, NEW s, NEW status, ~Owing(p), Agree(p, s, status)
  PROVE  Agree(q, s, status)
  BY DEF Agree, Owing

(* The conjuncts on the data, for a step that leaves the others as they    *)
(* are or has them meet a change.                                          *)
LEMMA CarryKept ==
  ASSUME ScenarioTypes, CarryInv, seen' = seen, NEW r \in Requests, NEW rec,
         \A x \in Requests \ {r} : Meets(x) \/ req'[x] = req[x],
         registry' = registry \/ registry = NoRequest,
         Goes(r, rec) \/ req'[r] = rec,
         rec.pc = "idle" => rec = Scenario!Idle, Position(rec, registry')
  PROVE  CarryInv'
<1>1. CarryOK(r)'
  <2>1. Position(req'[r], registry')
    BY DEF Goes, Position
  <2> QED
    BY <2>1 DEF CarryOK, Position, Goes
<1>2. ASSUME NEW x \in Requests \ {r}
      PROVE  CarryOK(x)'
  <2>1. CarryOK(x)
    BY DEF CarryInv
  <2>2. CASE req'[x] = req[x]
    BY <2>1, <2>2 DEF CarryOK, Position
  <2>3. CASE Meets(x)
    <3>1. Position(req'[x], registry')
      BY <2>1, <2>3 DEF Meets, CarryOK, Position
    <3> QED
      BY <2>1, <2>3, <3>1 DEF Meets, CarryOK, Position
  <2> QED
    BY <2>2, <2>3
<1> QED
  BY <1>1, <1>2 DEF CarryInv

(* A request that changes something, under no race and with nobody left    *)
(* owing under a change: it has met no change itself, nobody else has a    *)
(* debt, and the agreement holds but for its own.                          *)
LEMMA ActingRelies ==
  ASSUME ScenarioInv, NEW r \in Requests, req[r].pc # "idle",
         raced' = (raced \/ req[r].met), \A x \in Requests \ {r} : Meets(x),
         ~raced', scenario # "deleted", ~Doomed'
  PROVE  /\ Relies(req[r], session[registry], scenario)
         /\ registry # NoRequest => Agree(req[r], session[registry], scenario)
<1>1. ~raced /\ ~req[r].met
  OBVIOUS
<1>2. ASSUME NEW x \in Requests \ {r}
      PROVE  ~Owing(req[x])
  <2>1. req[x].pc # "idle" => req'[x].met
    BY DEF Meets
  <2>2. ~(req'[x].met /\ Owing(req'[x]))
    BY DEF Doomed
  <2>3. Owing(req[x]) => Owing(req'[x]) /\ req[x].pc # "idle"
    BY DEF Meets, Owing
  <2> QED
    BY <2>1, <2>2, <2>3
<1>3. ~Doomed
  BY <1>1, <1>2 DEF Doomed
<1>4. Relies(req[r], session[registry], scenario)
  BY <1>1, <1>3 DEF ScenarioInv, SerialInv
<1>5. ASSUME registry # NoRequest
      PROVE  Agree(req[r], session[registry], scenario)
  <2>1. ~Owing(Scenario!Idle)
    BY DEF Scenario!Idle, Owing
  <2>2. CASE Agree(Scenario!Idle, session[registry], scenario)
    BY <2>1, <2>2, NoExcuse
  <2>3. CASE \E x \in Requests : ~req[x].met /\ Agree(req[x], session[registry], scenario)
    BY <1>2, <2>3, NoExcuse
  <2> QED
    BY <1>1, <1>3, <1>5, <2>2, <2>3 DEF ScenarioInv, SerialInv
<1> QED
  BY <1>4, <1>5

(* ... and what has to be seen of the step, then, is how it goes on.       *)
LEMMA ActingKeeps ==
  ASSUME NEW r \in Requests, NEW rec, Goes(r, rec),
         \A x \in Requests \ {r} : Meets(x),
         ~raced' /\ scenario' # "deleted" /\ ~Doomed'
           => /\ rec.pc # "idle" => Relies(rec, session'[registry'], scenario')
              /\ Agree(rec, session'[registry'], scenario')
  PROVE  SerialInv'
<1> SUFFICES ASSUME ~raced', scenario' # "deleted", ~Doomed'
             PROVE  /\ \A x \in Requests : req'[x].pc # "idle" /\ ~req'[x].met
                             => Relies(req'[x], session'[registry'], scenario')
                    /\ \E x \in Requests : ~req'[x].met /\ Agree(req'[x], session'[registry'], scenario')
  BY DEF SerialInv
<1>1. \A x \in Requests \ {r} : req'[x].pc # "idle" => req'[x].met
  BY DEF Meets
<1>2. req'[r].pc # "idle" => Relies(req'[r], session'[registry'], scenario')
  BY SameReliance DEF Goes
<1>3. ~req'[r].met /\ Agree(req'[r], session'[registry'], scenario')
  BY SameAgreement DEF Goes
<1> QED
  BY <1>1, <1>2, <1>3

LEMMA ActingStep ==
  ASSUME ScenarioInv, NEW r \in Requests, NEW rec \in ScenarioRequest,
         Scenario!Acts(r, rec), req[r].pc # "idle",
         scenario' \in Scenario!Statuses \union {"deleted"},
         scenario' # "deleted" => scenario # "deleted",
         sensor' \in {"absent", "ACTIVE", "DISABLED"},
         seen' = seen, stored' \subseteq seen,
         registry' \in Requests, registry' = registry \/ registry = NoRequest,
         session' \in [Requests -> Scenario!Session],
         rec.pc = "idle" => rec = Scenario!Idle, Position(rec, registry'),
         /\ Relies(req[r], session[registry], scenario)
         /\ registry # NoRequest => Agree(req[r], session[registry], scenario)
         /\ scenario \in Scenario!Statuses
         => /\ rec.pc # "idle" => Relies(rec, session'[registry'], scenario')
            /\ Agree(rec, session'[registry'], scenario')
  PROVE  ScenarioTypes' /\ CarryInv' /\ SerialInv'
<1>1. ScenarioTypes /\ CarryInv
  BY DEF ScenarioInv
<1>2. /\ raced' = (raced \/ req[r].met) /\ raced' \in BOOLEAN
      /\ req' \in [Requests -> ScenarioRequest]
      /\ Goes(r, rec)
      /\ \A x \in Requests \ {r} : Meets(x)
  BY <1>1, ActsStep
<1>3. ScenarioTypes'
  BY <1>1, <1>2 DEF ScenarioTypes
<1>4. CarryInv'
  BY <1>1, <1>2, CarryKept
<1>5. ASSUME ~raced', scenario' # "deleted", ~Doomed'
      PROVE  /\ rec.pc # "idle" => Relies(rec, session'[registry'], scenario')
             /\ Agree(rec, session'[registry'], scenario')
  <2>1. scenario \in Scenario!Statuses /\ scenario # "deleted"
    BY <1>1, <1>5 DEF ScenarioTypes
  <2>2. /\ Relies(req[r], session[registry], scenario)
        /\ registry # NoRequest => Agree(req[r], session[registry], scenario)
    BY <1>2, <1>5, <2>1, ActingRelies
  <2> QED
    BY <2>1, <2>2
<1>6. SerialInv'
  BY <1>2, <1>5, ActingKeeps
<1> QED
  BY <1>3, <1>4, <1>6

(* A step of a request that changes nothing but where it stands.           *)
LEMMA MovingStep ==
  ASSUME ScenarioInv, NEW r \in Requests, NEW rec \in ScenarioRequest,
         req' = [req EXCEPT ![r] = rec], ~Owing(req[r]),
         scenario' = scenario, sensor' \in {"absent", "ACTIVE", "DISABLED"},
         seen' = seen, stored' = stored,
         registry' = registry, session' = session, raced' = raced,
         rec.pc = "idle" => rec = Scenario!Idle, Position(rec, registry),
         rec.pc # "idle" => (rec.met <=> req[r].met),
         /\ ~rec.met /\ rec.pc # "idle"
         /\ req[r].pc # "idle" => Relies(req[r], session[registry], scenario)
         /\ scenario \in Scenario!Statuses
         => Relies(rec, session[registry], scenario)
  PROVE  ScenarioTypes' /\ CarryInv' /\ SerialInv'
<1>1. ScenarioTypes /\ CarryInv /\ SerialInv
  BY DEF ScenarioInv
<1>2. /\ req' \in [Requests -> ScenarioRequest]
      /\ req'[r] = rec /\ \A x \in Requests \ {r} : req'[x] = req[x]
  BY <1>1 DEF ScenarioTypes
<1>3. ScenarioTypes'
  BY <1>1, <1>2 DEF ScenarioTypes
<1>4. CarryInv'
  BY <1>1, <1>2, CarryKept
<1>5. SerialInv'
  <2> SUFFICES ASSUME ~raced, scenario # "deleted", ~Doomed'
               PROVE  /\ \A x \in Requests : req'[x].pc # "idle" /\ ~req'[x].met
                             => Relies(req'[x], session[registry], scenario)
                      /\ registry # NoRequest =>
                           \/ Agree(Scenario!Idle, session[registry], scenario)
                           \/ \E x \in Requests : ~req'[x].met /\ Agree(req'[x], session[registry], scenario)
    BY DEF SerialInv
  <2>1. ~Doomed
    BY <1>2 DEF Doomed
  <2>2. /\ \A x \in Requests : req[x].pc # "idle" /\ ~req[x].met
                   => Relies(req[x], session[registry], scenario)
        /\ registry # NoRequest =>
              \/ Agree(Scenario!Idle, session[registry], scenario)
              \/ \E x \in Requests : ~req[x].met /\ Agree(req[x], session[registry], scenario)
    BY <1>1, <2>1 DEF SerialInv
  <2>3. scenario \in Scenario!Statuses
    BY <1>1 DEF ScenarioTypes
  <2>4. req[r].pc = "idle" => ~req[r].met
    BY <1>1, IdleRequest DEF CarryInv, CarryOK
  <2>5. Agree(req[r], session[registry], scenario) => Agree(Scenario!Idle, session[registry], scenario)
    BY NoExcuse
  <2>6. ASSUME NEW x \in Requests, req'[x].pc # "idle", ~req'[x].met
        PROVE  Relies(req'[x], session[registry], scenario)
    <3>1. CASE x = r
      <4>1. req[r].pc # "idle" => Relies(req[r], session[registry], scenario)
        BY <1>2, <2>2, <2>6, <3>1
      <4> QED
        BY <1>2, <2>3, <2>6, <3>1, <4>1
    <3>2. CASE x # r
      BY <1>2, <2>2, <2>6, <3>2
    <3> QED
      BY <3>1, <3>2
  <2>7. ASSUME NEW x \in Requests, ~req[x].met, Agree(req[x], session[registry], scenario)
        PROVE  \/ Agree(Scenario!Idle, session[registry], scenario)
               \/ \E y \in Requests : ~req'[y].met /\ Agree(req'[y], session[registry], scenario)
    BY <1>2, <2>5, <2>7
  <2> QED
    BY <2>2, <2>6, <2>7
<1> QED
  BY <1>3, <1>4, <1>5

(* A step loses no observation when it takes none from a batch and sets no *)
(* clock but to zero.                                                      *)
LEMMA NothingLost ==
  ASSUME ScenarioInv, seen' = seen, stored \subseteq stored',
         \A x \in Requests : req[x].out # <<>> => req'[x].of = req[x].of /\ req'[x].out = req[x].out,
         \A o \in Requests : \/ session'[o].tick = 0
                             \/ /\ session'[o].tick = session[o].tick
                                /\ session[o].error => session'[o].error
  PROVE  Scenario!ObservationsKept'
<1> SUFFICES ASSUME NEW o \in Requests, ~session'[o].error,
                    NEW t \in Scenario!Ticks, t \in seen, t <= session'[o].tick,
                    \A x \in Requests : req'[x].of = o
                       => \A i \in DOMAIN req'[x].out : req'[x].out[i] # t
             PROVE  t \in stored'
  BY DEF Scenario!ObservationsKept, Scenario!Delivered
<1>1. session'[o].tick # 0
  BY DEF Scenario!Ticks
<1>2. session'[o].tick = session[o].tick /\ ~session[o].error
  BY <1>1
<1>3. ASSUME NEW x \in Requests, req[x].of = o, NEW i \in DOMAIN req[x].out
      PROVE  req[x].out[i] # t
  <2>1. req[x].out # <<>>
    BY <1>3
  <2> QED
    BY <1>3, <2>1
<1>4. t \in Scenario!Delivered(o)
  BY <1>2, <1>3 DEF Scenario!Delivered
<1> QED
  BY <1>2, <1>4 DEF ScenarioInv, Scenario!ObservationsKept

LEMMA SessionStep ==
  ASSUME session \in [Requests -> Scenario!Session], NEW g \in Requests,
         NEW s \in Scenario!Session, session' = [session EXCEPT ![g] = s]
  PROVE  /\ session' \in [Requests -> Scenario!Session]
         /\ session'[g] = s
         /\ \A o \in Requests \ {g} : session'[o] = session[o]
  OBVIOUS

-----------------------------------------------------------------------------
(* The steps of a request *)

LEMMA ArriveKeeps ==
  ASSUME ScenarioOK, ScenarioInv, NEW r \in Requests, NEW op \in OpsOf[r],
         NEW n \in (IF op = "step" THEN Batches ELSE {0}), Scenario!Arrive(r, op, n)
  PROVE  ScenarioInv'
<1> DEFINE rec == [Scenario!Idle EXCEPT !.op = op, !.pc = "session", !.was = scenario, !.left = n]
<1>1. /\ ScenarioTypes /\ CarryInv /\ req[r].pc = "idle" /\ req[r] = Scenario!Idle
      /\ op \in Scenario!Ops /\ n \in Nat /\ scenario \in Scenario!Statuses
  BY DEF ScenarioInv, ScenarioTypes, CarryInv, CarryOK, ScenarioOK, Scenario!Arrive
<1>2. /\ rec \in ScenarioRequest
      /\ rec.op = op /\ rec.pc = "session" /\ rec.was = scenario
      /\ rec.of = NoRequest /\ rec.out = <<>> /\ ~rec.met
  BY <1>1, IdleRequest DEF ScenarioRequest
<1>3. req' = [req EXCEPT ![r] = rec]
  BY DEF Scenario!Arrive
<1> HIDE DEF rec
<1>4. Position(rec, registry)
  BY <1>1, <1>2 DEF Position, Scenario!Statuses
<1>5. Relies(rec, session[registry], scenario)
  BY <1>1, <1>2 DEF Relies, Scenario!Arrive, Scenario!Allowed
<1>6. ScenarioTypes' /\ CarryInv' /\ SerialInv'
  <2>1. ~Owing(req[r]) /\ ~req[r].met
    BY <1>1, IdleRequest DEF Owing
  <2>2. sensor \in {"absent", "ACTIVE", "DISABLED"}
    BY <1>1 DEF ScenarioTypes
  <2>3. /\ scenario' = scenario /\ sensor' = sensor /\ seen' = seen /\ stored' = stored
        /\ registry' = registry /\ session' = session /\ raced' = raced
    BY DEF Scenario!Arrive
  <2> QED
    BY <1>2, <1>3, <1>4, <1>5, <2>1, <2>2, <2>3, MovingStep
<1>7. Scenario!ObservationsKept'
  <2>1. \A x \in Requests : req[x].out # <<>> => req'[x] = req[x]
    BY <1>1, <1>3, IdleRequest DEF ScenarioTypes
  <2> QED
    BY <2>1, NothingLost DEF Scenario!Arrive
<1> QED
  BY <1>6, <1>7 DEF ScenarioInv

LEMMA ActingLosesNothing ==
  ASSUME ScenarioInv, NEW r \in Requests, NEW rec \in ScenarioRequest,
         Scenario!Acts(r, rec), req[r].out = <<>>,
         seen' = seen, stored \subseteq stored',
         \A o \in Requests : \/ session'[o].tick = 0
                             \/ /\ session'[o].tick = session[o].tick
                                /\ session[o].error => session'[o].error
  PROVE  Scenario!ObservationsKept'
<1>1. \A x \in Requests \ {r} : Meets(x)
  BY ActsStep DEF ScenarioInv
<1>2. \A x \in Requests : req[x].out # <<>> => req'[x].of = req[x].of /\ req'[x].out = req[x].out
  BY <1>1 DEF Meets
<1> QED
  BY <1>2, NothingLost

LEMMA TakeSessionKeeps ==
  ASSUME ScenarioOK, ScenarioInv, NEW r \in Requests, Scenario!TakeSession(r)
  PROVE  ScenarioInv'
<1> DEFINE create == registry = NoRequest
           reload == create \/ req[r].op = "prepare"
           of == IF create THEN r ELSE registry
           rec == [req[r] EXCEPT !.of = of, !.pc = "act", !.was = IF reload THEN scenario ELSE @]
<1>1. /\ ScenarioTypes /\ CarryInv /\ CarryOK(r) /\ req[r] \in ScenarioRequest
      /\ req[r].pc = "session" /\ scenario # "deleted" /\ scenario \in Scenario!Statuses
      /\ req[r].op \in Scenario!Ops /\ req[r].of = NoRequest /\ req[r].out = <<>>
      /\ req[r].was # "unread" /\ of \in Requests
  BY DEF ScenarioInv, ScenarioTypes, CarryInv, CarryOK, Position, Scenario!TakeSession
<1>2. /\ rec \in ScenarioRequest
      /\ rec.op = req[r].op /\ rec.pc = "act" /\ rec.of = of /\ rec.out = <<>>
      /\ rec.was = (IF reload THEN scenario ELSE req[r].was)
      /\ rec.met <=> req[r].met
  BY <1>1 DEF ScenarioRequest
<1>3. /\ registry' = of /\ scenario' = scenario /\ stored' = stored /\ seen' = seen
      /\ session' = IF create THEN [session EXCEPT ![r] = Scenario!FreshSession] ELSE session
      /\ sensor' = IF reload THEN "ACTIVE" ELSE sensor
  BY DEF Scenario!TakeSession
<1>4. IF create \/ sensor # sensor' THEN Scenario!Acts(r, rec)
      ELSE /\ req' = [req EXCEPT ![r] =
                        IF /\ req[r].op \in {"start", "resume", "step"} /\ ~create
                           /\ session[of].stopped
                        THEN Scenario!Idle ELSE rec]
           /\ raced' = raced
  BY DEF Scenario!TakeSession
<1> HIDE DEF rec
<1>5. Position(rec, of)
  BY <1>1, <1>2 DEF Position, ScenarioOK, Scenario!Statuses
<1>6. sensor' \in {"absent", "ACTIVE", "DISABLED"} /\ stored' \subseteq seen
  BY <1>1, <1>3 DEF ScenarioTypes
<1>7. ~Owing(req[r]) /\ rec.pc # "idle" /\ req[r].pc # "idle"
  BY <1>1, <1>2 DEF Owing
<1>8. CASE create
  <2>1. /\ session' \in [Requests -> Scenario!Session] /\ session'[r] = Scenario!FreshSession
        /\ \A o \in Requests \ {r} : session'[o] = session[o]
    BY <1>1, <1>3, <1>8, NewSession, SessionStep DEF ScenarioTypes
  <2>2. registry' = r /\ Position(rec, r)
    BY <1>3, <1>5, <1>8
  <2>3. ASSUME Relies(req[r], session[registry], scenario)
        PROVE  Relies(rec, session'[r], scenario) /\ Agree(rec, session'[r], scenario)
    <3>1. rec.was = scenario
      BY <1>2, <1>8
    <3>2. Relies(rec, session'[r], scenario)
      BY <1>1, <1>2, <2>1, <2>3, <3>1, NewSession DEF Relies
    <3>3. Agree(rec, session'[r], scenario)
      BY <2>1, NewSession DEF Agree
    <3> QED
      BY <3>2, <3>3
  <2>4. Scenario!Acts(r, rec)
    BY <1>4, <1>8
  <2>5. ScenarioTypes' /\ CarryInv' /\ SerialInv'
    BY <1>1, <1>2, <1>3, <1>6, <1>7, <1>8, <2>1, <2>2, <2>3, <2>4, ActingStep
  <2>6. Scenario!ObservationsKept'
    BY <1>1, <1>2, <1>3, <2>1, <2>4, NewSession, ActingLosesNothing
  <2> QED
    BY <2>5, <2>6 DEF ScenarioInv
<1>9. CASE ~create /\ sensor' # sensor
  <2>1. session' = session /\ registry' = registry /\ registry \in Requests /\ Position(rec, registry)
    BY <1>1, <1>3, <1>5, <1>9
  <2>2. req[r].op = "prepare" /\ rec.was = scenario
    BY <1>2, <1>3, <1>9
  <2>3. ASSUME Relies(req[r], session[registry], scenario), Agree(req[r], session[registry], scenario)
        PROVE  Relies(rec, session[registry], scenario) /\ Agree(rec, session[registry], scenario)
    BY <1>1, <1>2, <2>2, <2>3 DEF Relies, Agree
  <2>4. Scenario!Acts(r, rec)
    BY <1>4, <1>9
  <2>5. ScenarioTypes' /\ CarryInv' /\ SerialInv'
    <3>1. session' \in [Requests -> Scenario!Session]
      BY <1>1, <2>1 DEF ScenarioTypes
    <3> QED
      BY <1>1, <1>2, <1>3, <1>6, <1>7, <1>9, <2>1, <2>3, <2>4, <3>1, ActingStep
  <2>6. Scenario!ObservationsKept'
    BY <1>1, <1>2, <1>3, <2>1, <2>4, ActingLosesNothing
  <2> QED
    BY <2>5, <2>6 DEF ScenarioInv
<1>10. CASE ~create /\ sensor' = sensor
  <2>1. /\ session' = session /\ registry' = registry /\ registry \in Requests
        /\ Position(rec, registry) /\ stored' = stored /\ raced' = raced
    BY <1>1, <1>3, <1>4, <1>5, <1>10
  <2>2. PICK new \in {Scenario!Idle, rec} :
           /\ req' = [req EXCEPT ![r] = new]
           /\ new = rec => ~(rec.op \in {"start", "resume", "step"} /\ session[registry].stopped)
    <3>1. req' = [req EXCEPT ![r] =
                    IF /\ req[r].op \in {"start", "resume", "step"} /\ session[registry].stopped
                    THEN Scenario!Idle ELSE rec]
      BY <1>3, <1>4, <1>10, <2>1
    <3>2. rec # Scenario!Idle
      BY <1>2, IdleRequest
    <3> QED
      BY <1>2, <3>1, <3>2
  <2>3. /\ new \in ScenarioRequest /\ new.out = <<>> /\ Position(new, registry)
        /\ new.pc = "idle" => new = Scenario!Idle
        /\ new.pc # "idle" => new = rec
    BY <1>2, <2>1, <2>2, IdleRequest DEF Position
  <2>4. ASSUME new.pc # "idle", Relies(req[r], session[registry], scenario)
        PROVE  Relies(new, session[registry], scenario)
    <3>1. new = rec
      BY <2>3, <2>4
    <3>2. rec.was \in {req[r].was, scenario}
      BY <1>2
    <3>3. ~(rec.op \in {"start", "resume", "step"} /\ session[registry].stopped)
      BY <2>2, <3>1
    <3> QED
      BY <1>1, <1>2, <2>4, <3>1, <3>2, <3>3 DEF Relies
  <2>5. ScenarioTypes' /\ CarryInv' /\ SerialInv'
    BY <1>2, <1>3, <1>6, <1>7, <2>1, <2>2, <2>3, <2>4, MovingStep
  <2>6. Scenario!ObservationsKept'
    <3>1. \A x \in Requests : req[x].out # <<>> => req'[x] = req[x]
      BY <1>1, <2>2 DEF ScenarioTypes
    <3> QED
      BY <1>3, <2>1, <3>1, NothingLost
  <2> QED
    BY <2>5, <2>6 DEF ScenarioInv
<1> QED
  BY <1>8, <1>9, <1>10

(* What a request knows that has its session.                              *)
LEMMA HasSession ==
  ASSUME ScenarioInv, NEW r \in Requests, req[r].pc \notin {"idle", "session"}
  PROVE  /\ ScenarioTypes /\ CarryInv /\ CarryOK(r) /\ req[r] \in ScenarioRequest
         /\ req[r].op \in Scenario!Ops /\ req[r].of = registry /\ registry \in Requests
         /\ registry # NoRequest /\ req[r].pc # "idle"
         /\ session \in [Requests -> Scenario!Session] /\ session[registry] \in Scenario!Session
         /\ scenario \in Scenario!Statuses \union {"deleted"}
         /\ sensor \in {"absent", "ACTIVE", "DISABLED"} /\ stored \subseteq seen
         /\ req[r].pc # "tick" => req[r].out = <<>>
<1>1. ScenarioTypes /\ CarryInv
  BY DEF ScenarioInv
<1>2. CarryOK(r) /\ req[r] \in ScenarioRequest
  BY <1>1 DEF CarryInv, ScenarioTypes
<1>3. /\ req[r].op \in Scenario!Ops /\ req[r].of = registry /\ registry # NoRequest
      /\ req[r].pc # "idle" /\ req[r].pc # "tick" => req[r].out = <<>>
  BY <1>2 DEF CarryOK, Position
<1> QED
  BY <1>1, <1>2, <1>3 DEF ScenarioTypes

(* An operation other than step changes its session.                       *)
LEMMA AfterTypes ==
  ASSUME ScenarioOK, NEW op \in Scenario!Ops \ {"step"}, NEW s \in Scenario!Session
  PROVE  LET a == Scenario!SessionAfter(op, s)
         IN  /\ a \in Scenario!Session
             /\ op \in {"prepare", "reset"} => a = Scenario!FreshSession
             /\ op \notin {"prepare", "reset"} =>
                  /\ a.tick = s.tick /\ a.pending = s.pending /\ a.error = s.error
                  /\ a.stopped <=> (IF op = "start" THEN FALSE ELSE op = "stop" \/ s.stopped)
                  /\ a.halted <=> (op = "stop" \/ s.halted)
<1>1. CASE op \in {"prepare", "reset"}
  BY <1>1, NewSession DEF Scenario!SessionAfter
<1>2. CASE op = "start"
  BY <1>2 DEF Scenario!SessionAfter, Scenario!Session
<1>3. CASE op = "pause"
  BY <1>3 DEF Scenario!SessionAfter, Scenario!Session
<1>4. CASE op = "resume"
  BY <1>4 DEF Scenario!SessionAfter, Scenario!Session
<1>5. CASE op = "stop"
  BY <1>5 DEF Scenario!SessionAfter, Scenario!Session
<1> QED
  BY <1>1, <1>2, <1>3, <1>4, <1>5 DEF Scenario!Ops

LEMMA ChangeSessionKeeps ==
  ASSUME ScenarioOK, ScenarioInv, NEW r \in Requests, Scenario!ChangeSession(r)
  PROVE  ScenarioInv'
<1> DEFINE q == req[r]
           s == session[registry]
           a == Scenario!SessionAfter(q.op, s)
           ends == q.op = "pause" \/ q.op = "start"
           rec == IF ends THEN Scenario!Idle ELSE [q EXCEPT !.pc = "second"]
<1>1. /\ q.op # "step" /\ q.pc = IF q.op = "start" THEN "second" ELSE "act"
      /\ scenario' = scenario /\ sensor' = sensor /\ stored' = stored
      /\ registry' = registry /\ seen' = seen
  BY DEF Scenario!ChangeSession, Scenario!First
<1>2. q.pc \notin {"idle", "session"}
  BY <1>1
<1>3. /\ ScenarioTypes /\ CarryInv /\ CarryOK(r) /\ q \in ScenarioRequest
      /\ q.op \in Scenario!Ops /\ q.of = registry /\ registry \in Requests
      /\ registry # NoRequest /\ q.pc # "idle"
      /\ session \in [Requests -> Scenario!Session] /\ s \in Scenario!Session
      /\ scenario \in Scenario!Statuses \union {"deleted"}
      /\ sensor \in {"absent", "ACTIVE", "DISABLED"} /\ stored \subseteq seen
      /\ q.out = <<>>
  BY <1>1, <1>2, HasSession
<1>4. /\ a \in Scenario!Session
      /\ q.op \in {"prepare", "reset"} => a = Scenario!FreshSession
      /\ q.op \notin {"prepare", "reset"} =>
           /\ a.tick = s.tick /\ a.pending = s.pending /\ a.error = s.error
           /\ a.stopped <=> (IF q.op = "start" THEN FALSE ELSE q.op = "stop" \/ s.stopped)
           /\ a.halted <=> (q.op = "stop" \/ s.halted)
  BY <1>1, <1>3, AfterTypes
<1>5. session' = [session EXCEPT ![registry] = a]
  BY <1>3 DEF Scenario!ChangeSession
<1>6. ~(q.op = "resume" /\ s.halted)
  BY <1>3 DEF Scenario!ChangeSession, Scenario!Current
<1>7. Scenario!Acts(r, rec)
  BY DEF Scenario!ChangeSession, Scenario!First
<1>8. /\ rec \in ScenarioRequest
      /\ ends => rec = Scenario!Idle
      /\ ~ends => /\ rec.pc = "second" /\ rec.op = q.op /\ rec.was = q.was
                  /\ rec.of = q.of /\ rec.out = <<>>
  BY <1>3, IdleRequest DEF ScenarioRequest
<1>9. rec.pc = "idle" => ends
  BY <1>8
<1> HIDE DEF rec, a
<1>10. Position(rec, registry)
  BY <1>1, <1>3, <1>8, IdleRequest DEF Position
<1>11. /\ session' \in [Requests -> Scenario!Session] /\ session'[registry] = a
       /\ \A o \in Requests \ {registry} : session'[o] = session[o]
  BY <1>3, <1>4, <1>5, SessionStep
<1>12. ASSUME Relies(q, s, scenario), Agree(q, s, scenario)
       PROVE  /\ rec.pc # "idle" => Relies(rec, a, scenario)
              /\ Agree(rec, a, scenario)
  <2>1. CASE q.op \in {"prepare", "reset"}
    <3>1. rec.pc = "second" /\ rec.op = q.op /\ rec.was = q.was /\ rec.out = <<>>
      BY <1>8, <2>1
    <3>2. Relies(rec, a, scenario)
      BY <1>1, <1>4, <1>12, <2>1, <3>1 DEF Relies
    <3>3. Agree(rec, a, scenario)
      BY <1>4, <2>1, NewSession DEF Agree
    <3> QED
      BY <3>2, <3>3
  <2>2. CASE q.op = "stop"
    <3>1. rec.pc = "second" /\ rec.op = "stop" /\ rec.was = q.was /\ rec.out = <<>>
      BY <1>8, <2>2
    <3>2. Relies(rec, a, scenario)
      BY <1>1, <1>4, <1>12, <2>2, <3>1 DEF Relies
    <3>3. Agree(rec, a, scenario)
      BY <1>1, <1>3, <1>4, <1>12, <2>2, <3>1 DEF Agree
    <3> QED
      BY <3>2, <3>3
  <2>3. CASE q.op = "resume"
    <3>1. rec.pc = "second" /\ rec.op = "resume" /\ rec.was = q.was /\ rec.out = <<>>
      BY <1>8, <2>3
    <3>2. Relies(rec, a, scenario)
      BY <1>1, <1>4, <1>12, <2>3, <3>1 DEF Relies
    <3>3. Agree(rec, a, scenario)
      BY <1>1, <1>3, <1>4, <1>12, <2>3, <3>1 DEF Agree
    <3> QED
      BY <3>2, <3>3
  <2>4. CASE q.op = "start"
    <3>1. rec.pc = "idle"
      BY <1>8, <2>4, IdleRequest
    <3>2. ~s.halted /\ ~s.stopped /\ scenario = "RUNNING"
      BY <1>1, <1>12, <2>4 DEF Relies, Agree
    <3>3. Agree(rec, a, scenario)
      BY <1>1, <1>3, <1>4, <1>12, <2>4, <3>2 DEF Agree
    <3> QED
      BY <3>1, <3>3
  <2>5. CASE q.op = "pause"
    <3>1. rec.pc = "idle"
      BY <1>8, <2>5, IdleRequest
    <3>2. Agree(rec, a, scenario)
      BY <1>1, <1>3, <1>4, <1>12, <2>5 DEF Agree
    <3> QED
      BY <3>1, <3>2
  <2> QED
    BY <1>1, <1>3, <2>1, <2>2, <2>3, <2>4, <2>5 DEF Scenario!Ops
<1>13. ScenarioTypes' /\ CarryInv' /\ SerialInv'
  BY <1>1, <1>3, <1>7, <1>8, <1>9, <1>10, <1>11, <1>12, ActingStep
<1>14. Scenario!ObservationsKept'
  <2>1. a.tick = 0 \/ (a.tick = s.tick /\ (s.error => a.error))
    BY <1>4, NewSession
  <2> QED
    BY <1>1, <1>3, <1>7, <1>8, <1>11, <2>1, ActingLosesNothing
<1> QED
  BY <1>13, <1>14 DEF ScenarioInv

LEMMA RefusedResumeKeeps ==
  ASSUME ScenarioOK, ScenarioInv, NEW r \in Requests, Scenario!RefusedResume(r)
  PROVE  ScenarioInv'
<1> DEFINE q == req[r]
           s == session[registry]
           a == [s EXCEPT !.paused = FALSE]
           rec == Scenario!Idle
<1>1. /\ q.op = "resume" /\ q.pc = "act"
      /\ scenario' = scenario /\ sensor' = sensor /\ stored' = stored
      /\ registry' = registry /\ seen' = seen /\ Scenario!Acts(r, rec)
  BY DEF Scenario!RefusedResume
<1>2. /\ CarryOK(r) /\ q.of = registry /\ registry \in Requests
      /\ registry # NoRequest /\ q.pc # "idle" /\ q.pc \notin {"idle", "session"}
      /\ session \in [Requests -> Scenario!Session] /\ s \in Scenario!Session
      /\ scenario \in Scenario!Statuses \union {"deleted"}
      /\ sensor \in {"absent", "ACTIVE", "DISABLED"} /\ stored \subseteq seen
      /\ q.out = <<>>
  BY <1>1, HasSession
<1>3. /\ a \in Scenario!Session /\ a.tick = s.tick /\ a.pending = s.pending
      /\ a.error = s.error /\ a.stopped = s.stopped /\ a.halted = s.halted
  BY <1>2 DEF Scenario!Session
<1>4. session' = [session EXCEPT ![registry] = a]
  BY <1>2 DEF Scenario!RefusedResume
<1> HIDE DEF a
<1>5. /\ session' \in [Requests -> Scenario!Session] /\ session'[registry] = a
      /\ \A o \in Requests \ {registry} : session'[o] = session[o]
  BY <1>2, <1>3, <1>4, SessionStep
<1>6. /\ rec \in ScenarioRequest /\ rec.pc = "idle" /\ Position(rec, registry)
  BY IdleRequest DEF Position
<1>7. ASSUME Agree(q, s, scenario)
      PROVE  Agree(rec, a, scenario)
  BY <1>1, <1>3, <1>7 DEF Agree
<1>8. ScenarioTypes' /\ CarryInv' /\ SerialInv'
  BY <1>1, <1>2, <1>5, <1>6, <1>7, ActingStep
<1>9. Scenario!ObservationsKept'
  BY <1>1, <1>2, <1>3, <1>5, <1>6, ActingLosesNothing
<1> QED
  BY <1>8, <1>9 DEF ScenarioInv

(* A step that changes the row and no session, and ends or leaves the      *)
(* request without a batch.                                                *)
LEMMA RowStep ==
  ASSUME ScenarioInv, NEW r \in Requests, NEW rec \in ScenarioRequest,
         Scenario!Acts(r, rec), req[r].pc \notin {"idle", "session", "tick"},
         scenario # "deleted", scenario' \in Scenario!Statuses,
         sensor' = sensor, stored' = stored, registry' = registry,
         session' = session, seen' = seen,
         rec.pc = "idle" => rec = Scenario!Idle, Position(rec, registry),
         /\ Relies(req[r], session[registry], scenario)
         /\ Agree(req[r], session[registry], scenario)
         => /\ rec.pc # "idle" => Relies(rec, session[registry], scenario')
            /\ Agree(rec, session[registry], scenario')
  PROVE  ScenarioInv'
<1>1. /\ registry \in Requests /\ registry # NoRequest
      /\ req[r].pc # "idle" /\ req[r].pc \notin {"idle", "session"}
      /\ session \in [Requests -> Scenario!Session]
      /\ sensor \in {"absent", "ACTIVE", "DISABLED"} /\ stored \subseteq seen
      /\ req[r].out = <<>>
  BY HasSession
<1>2. ScenarioTypes' /\ CarryInv' /\ SerialInv'
  BY <1>1, ActingStep
<1>3. Scenario!ObservationsKept'
  BY <1>1, ActingLosesNothing
<1> QED
  BY <1>2, <1>3 DEF ScenarioInv

LEMMA WrittenIs ==
  ASSUME NEW r \in Requests, NEW s, NEW status \in Scenario!Statuses,
         scenario \in Scenario!Statuses
  PROVE  /\ Scenario!Written(r, status) \in Scenario!Statuses
         /\ req[r].was \in {"unread", scenario} => Scenario!Written(r, status) = status
  BY DEF Scenario!Written, Scenario!Statuses

LEMMA CommitRowKeeps ==
  ASSUME ScenarioOK, ScenarioInv, NEW r \in Requests, Scenario!CommitRow(r)
  PROVE  ScenarioInv'
<1> DEFINE q == req[r]
           s == session[registry]
           rec == IF q.op = "start" THEN [q EXCEPT !.pc = "second"] ELSE Scenario!Idle
           new == Scenario!StatusAfter(q.op)
<1>1. /\ q.op \notin {"pause", "step"} /\ q.pc = IF q.op = "start" THEN "act" ELSE "second"
      /\ scenario # "deleted" /\ scenario' = Scenario!Written(r, new)
      /\ sensor' = sensor /\ stored' = stored /\ registry' = registry
      /\ session' = session /\ seen' = seen /\ Scenario!Acts(r, rec)
  BY DEF Scenario!CommitRow, Scenario!First
<1>2. /\ q.pc \notin {"idle", "session"} /\ q.pc # "tick"
  BY <1>1
<1>3. /\ q \in ScenarioRequest /\ q.op \in Scenario!Ops /\ q.of = registry
      /\ registry \in Requests /\ registry # NoRequest
      /\ s \in Scenario!Session /\ scenario \in Scenario!Statuses /\ q.out = <<>>
  BY <1>1, <1>2, HasSession
<1>4. new \in Scenario!Statuses /\ new = (IF q.op \in {"start", "resume"} THEN "RUNNING" ELSE "READY")
  BY DEF Scenario!StatusAfter, Scenario!Statuses
<1>5. /\ rec \in ScenarioRequest
      /\ q.op = "start" => /\ rec.pc = "second" /\ rec.op = "start" /\ rec.was = q.was
                           /\ rec.of = registry /\ rec.out = <<>>
      /\ q.op # "start" => rec = Scenario!Idle /\ rec.pc = "idle"
  BY <1>3, IdleRequest DEF ScenarioRequest
<1>6. /\ scenario' \in Scenario!Statuses
      /\ q.was \in {"unread", scenario} => scenario' = new
  BY <1>1, <1>3, <1>4, WrittenIs
<1> HIDE DEF rec, new
<1>7. Position(rec, registry)
  BY <1>3, <1>5, IdleRequest DEF Position
<1>8. rec.pc = "idle" => rec = Scenario!Idle
  BY <1>5
<1>9. ASSUME Relies(q, s, scenario), Agree(q, s, scenario)
      PROVE  /\ rec.pc # "idle" => Relies(rec, s, scenario')
             /\ Agree(rec, s, scenario')
  <2>1. scenario' = new
    BY <1>1, <1>6, <1>9 DEF Relies
  <2>2. CASE q.op = "start"
    <3>1. scenario' = "RUNNING" /\ ~s.stopped
      BY <1>1, <1>4, <1>9, <2>1, <2>2 DEF Relies
    <3>2. Relies(rec, s, scenario')
      BY <1>5, <2>2, <3>1 DEF Relies
    <3>3. Agree(rec, s, scenario')
      BY <1>1, <1>9, <2>2, <3>1 DEF Agree
    <3> QED
      BY <3>2, <3>3
  <2>3. CASE q.op = "resume"
    <3>1. scenario' = "RUNNING" /\ ~s.stopped
      BY <1>1, <1>4, <1>9, <2>1, <2>3 DEF Relies
    <3>2. Agree(rec, s, scenario')
      BY <1>1, <1>9, <2>3, <3>1 DEF Agree
    <3> QED
      BY <1>5, <2>3, <3>2
  <2>4. CASE q.op = "stop"
    <3>1. scenario' = "READY" /\ s.stopped
      BY <1>1, <1>4, <1>9, <2>1, <2>4 DEF Relies
    <3>2. Agree(rec, s, scenario')
      BY <1>1, <1>9, <2>4, <3>1 DEF Agree
    <3> QED
      BY <1>5, <2>4, <3>2
  <2>5. CASE q.op \in {"prepare", "reset"}
    <3>1. s = Scenario!FreshSession
      BY <1>1, <1>9, <2>5 DEF Relies
    <3>2. Agree(rec, s, scenario')
      BY <3>1, NewSession DEF Agree
    <3> QED
      BY <1>5, <2>5, <3>2
  <2> QED
    BY <1>1, <1>3, <2>2, <2>3, <2>4, <2>5 DEF Scenario!Ops
<1> QED
  BY <1>1, <1>2, <1>5, <1>6, <1>7, <1>8, <1>9, RowStep

LEMMA BeginStepKeeps ==
  ASSUME ScenarioOK, ScenarioInv, NEW r \in Requests, Scenario!BeginStep(r)
  PROVE  ScenarioInv'
<1> DEFINE q == req[r]
           s == session[registry]
           ran == [q EXCEPT !.pc = "tick", !.was = "unread"]
           rec == [q EXCEPT !.pc = "tick"]
<1>1. /\ q.op = "step" /\ q.pc = "act" /\ scenario # "deleted"
      /\ sensor' = sensor /\ stored' = stored /\ registry' = registry
      /\ session' = session /\ seen' = seen
  BY DEF Scenario!BeginStep
<1>2. /\ q.pc \notin {"idle", "session"} /\ q.pc # "tick"
  BY <1>1
<1>3. /\ CarryOK(r) /\ q \in ScenarioRequest /\ q.of = registry
      /\ registry \in Requests /\ registry # NoRequest
      /\ s \in Scenario!Session /\ scenario \in Scenario!Statuses /\ q.out = <<>>
      /\ sensor \in {"absent", "ACTIVE", "DISABLED"}
  BY <1>1, <1>2, HasSession
<1>4. q.was # "unread"
  BY <1>1, <1>3 DEF CarryOK, Position
<1>5. /\ ran \in ScenarioRequest /\ ran.pc = "tick" /\ ran.op = "step"
      /\ ran.was = "unread" /\ ran.of = registry /\ ran.out = <<>>
      /\ rec \in ScenarioRequest /\ rec.pc = "tick" /\ rec.op = "step"
      /\ rec.was = q.was /\ rec.of = registry /\ rec.out = <<>> /\ rec.met = q.met
  BY <1>1, <1>3 DEF ScenarioRequest
<1>6. IF q.was = "READY" THEN scenario' = "RUNNING" /\ Scenario!Acts(r, ran)
      ELSE req' = [req EXCEPT ![r] = rec] /\ scenario' = scenario /\ raced' = raced
  BY DEF Scenario!BeginStep
<1> HIDE DEF ran, rec
<1>7. Position(ran, registry) /\ Position(rec, registry)
  BY <1>3, <1>5 DEF Position, Scenario!Ops
<1>8. CASE q.was = "READY"
  <2>1. scenario' = "RUNNING" /\ scenario' \in Scenario!Statuses
    BY <1>6, <1>8 DEF Scenario!Statuses
  <2>2. ASSUME Relies(q, s, scenario), Agree(q, s, scenario)
        PROVE  Relies(ran, s, scenario') /\ Agree(ran, s, scenario')
    <3>1. ~s.stopped
      BY <1>1, <2>2 DEF Relies
    <3>2. Relies(ran, s, scenario')
      BY <1>5, <2>1, <3>1 DEF Relies
    <3>3. Agree(ran, s, scenario')
      BY <1>1, <2>1, <2>2, <3>1 DEF Agree
    <3> QED
      BY <3>2, <3>3
  <2>3. Scenario!Acts(r, ran)
    BY <1>6, <1>8
  <2> QED
    BY <1>1, <1>2, <1>5, <1>7, <2>1, <2>2, <2>3, RowStep
<1>9. CASE q.was # "READY"
  <2>1. ASSUME Relies(q, s, scenario)
        PROVE  Relies(rec, s, scenario)
    <3>1. q.was = scenario /\ scenario \notin {"DRAFT", "COMPLETED", "READY"} /\ ~s.stopped
      BY <1>1, <1>4, <1>9, <2>1 DEF Relies
    <3> QED
      BY <1>3, <1>5, <3>1 DEF Relies, Scenario!Statuses
  <2>2. ~Owing(q) /\ q.pc # "idle" /\ rec.pc # "idle"
    BY <1>1, <1>5 DEF Owing
  <2>3. req' = [req EXCEPT ![r] = rec] /\ scenario' = scenario /\ raced' = raced
    BY <1>6, <1>9
  <2>4. ScenarioTypes' /\ CarryInv' /\ SerialInv'
    BY <1>1, <1>3, <1>5, <1>7, <2>1, <2>2, <2>3, MovingStep
  <2>5. Scenario!ObservationsKept'
    <3>1. \A x \in Requests : req[x].out # <<>> => req'[x] = req[x]
      BY <1>3, <2>3 DEF ScenarioInv, ScenarioTypes
    <3> QED
      BY <1>1, <3>1, NothingLost
  <2> QED
    BY <2>4, <2>5 DEF ScenarioInv
<1> QED
  BY <1>8, <1>9

LEMMA EvaluateKeeps ==
  ASSUME ScenarioOK, ScenarioInv, NEW r \in Requests, Scenario!Evaluate(r)
  PROVE  ScenarioInv'
<1> DEFINE q == req[r]
           s == session[registry]
           over == [q EXCEPT !.pc = "complete"]
<1>1. /\ q.pc = "tick" /\ q.left = 0 /\ q.out = <<>>
      /\ scenario' = scenario /\ sensor' = sensor /\ stored' = stored
      /\ registry' = registry /\ session' = session /\ seen' = seen /\ raced' = raced
  BY DEF Scenario!Evaluate
<1>2. /\ CarryOK(r) /\ q \in ScenarioRequest /\ q.of = registry
      /\ registry \in Requests /\ registry # NoRequest
      /\ scenario \in Scenario!Statuses \union {"deleted"}
      /\ sensor \in {"absent", "ACTIVE", "DISABLED"}
  BY <1>1, HasSession
<1>3. q.op = "step"
  BY <1>1, <1>2 DEF CarryOK, Position
<1>4. /\ over \in ScenarioRequest /\ over.pc = "complete" /\ over.op = "step"
      /\ over.was = q.was /\ over.of = registry /\ over.out = <<>> /\ over.met = q.met
  BY <1>1, <1>2, <1>3 DEF ScenarioRequest
<1>5. PICK rec \in {over, Scenario!Idle} :
         req' = [req EXCEPT ![r] = rec] /\ (rec = over => s.tick >= Duration)
  BY <1>2, <1>4, IdleRequest DEF Scenario!Evaluate, Scenario!Current
<1> HIDE DEF over
<1>6. /\ rec \in ScenarioRequest /\ rec.out = <<>>
      /\ rec.pc = "idle" => rec = Scenario!Idle
      /\ rec.pc # "idle" => rec = over /\ (rec.met <=> q.met)
  BY <1>4, <1>5, IdleRequest
<1>7. Position(rec, registry)
  BY <1>2, <1>4, <1>5, IdleRequest DEF Position, Scenario!Ops
<1>8. ASSUME rec.pc # "idle", Relies(q, s, scenario)
      PROVE  Relies(rec, s, scenario)
  BY <1>1, <1>3, <1>4, <1>5, <1>6, <1>8 DEF Relies
<1>9. ~Owing(q) /\ q.pc # "idle"
  BY <1>1, <1>2 DEF Owing, ScenarioRequest
<1>10. ScenarioTypes' /\ CarryInv' /\ SerialInv'
  BY <1>1, <1>2, <1>5, <1>6, <1>7, <1>8, <1>9, MovingStep
<1>11. Scenario!ObservationsKept'
  <2>1. \A x \in Requests : req[x].out # <<>> => req'[x] = req[x]
    BY <1>1, <1>5 DEF ScenarioInv, ScenarioTypes
  <2> QED
    BY <1>1, <2>1, NothingLost
<1> QED
  BY <1>10, <1>11 DEF ScenarioInv

LEMMA CompleteKeeps ==
  ASSUME ScenarioOK, ScenarioInv, NEW r \in Requests, Scenario!Complete(r)
  PROVE  ScenarioInv'
<1> DEFINE s == session[registry]
           rec == Scenario!Idle
<1>1. /\ req[r].pc = "complete" /\ scenario # "deleted" /\ scenario' = "COMPLETED"
      /\ scenario' \in Scenario!Statuses
      /\ sensor' = sensor /\ stored' = stored /\ registry' = registry
      /\ session' = session /\ seen' = seen /\ Scenario!Acts(r, rec)
  BY DEF Scenario!Complete, Scenario!Statuses
<1>2. CarryOK(r) /\ req[r].op = "step"
  BY <1>1, HasSession DEF CarryOK, Position
<1>3. rec \in ScenarioRequest /\ rec.pc = "idle" /\ Position(rec, registry)
  BY IdleRequest DEF Position
<1>4. ASSUME Relies(req[r], s, scenario), Agree(req[r], s, scenario)
      PROVE  Agree(rec, s, scenario')
  <2>1. ~s.stopped /\ s.tick >= Duration
    BY <1>1, <1>2, <1>4 DEF Relies
  <2> QED
    BY <1>1, <1>4, <2>1 DEF Agree
<1> QED
  BY <1>1, <1>3, <1>4, RowStep

LEMMA CommitFailedKeeps ==
  ASSUME ScenarioOK, ScenarioInv, NEW r \in Requests, Scenario!CommitFailed(r)
  PROVE  ScenarioInv'
<1> DEFINE s == session[registry]
           rec == Scenario!Idle
<1>1. /\ req[r].pc = "failed" /\ scenario # "deleted"
      /\ scenario' = Scenario!Written(r, "FAILED") /\ "FAILED" \in Scenario!Statuses
      /\ sensor' = sensor /\ stored' = stored /\ registry' = registry
      /\ session' = session /\ seen' = seen /\ Scenario!Acts(r, rec)
  BY DEF Scenario!CommitFailed, Scenario!Statuses
<1>2. CarryOK(r) /\ req[r].op = "step" /\ scenario \in Scenario!Statuses
  BY <1>1, HasSession DEF CarryOK, Position
<1>3. rec \in ScenarioRequest /\ rec.pc = "idle" /\ Position(rec, registry)
  BY IdleRequest DEF Position
<1>4. /\ scenario' \in Scenario!Statuses
      /\ req[r].was \in {"unread", scenario} => scenario' = "FAILED"
  BY <1>1, <1>2, WrittenIs
<1>5. ASSUME Relies(req[r], s, scenario), Agree(req[r], s, scenario)
      PROVE  Agree(rec, s, scenario')
  <2>1. ~s.stopped /\ scenario' = "FAILED"
    BY <1>1, <1>2, <1>4, <1>5 DEF Relies
  <2> QED
    BY <1>1, <1>5, <2>1 DEF Agree
<1> QED
  BY <1>1, <1>3, <1>4, <1>5, RowStep

(* With the row gone the agreement asks nothing.                           *)
LEMMA RowGoneKeeps ==
  ASSUME ScenarioOK, ScenarioInv, NEW r \in Requests, Scenario!RowGone(r)
  PROVE  ScenarioInv'
<1> DEFINE rec == Scenario!Idle
<1>1. /\ scenario = "deleted" /\ req[r].pc \in {"session", "act", "second", "complete", "failed"}
      /\ req' = [req EXCEPT ![r] = rec]
      /\ scenario' = scenario /\ sensor' = sensor /\ stored' = stored
      /\ registry' = registry /\ session' = session /\ seen' = seen /\ raced' = raced
  BY DEF Scenario!RowGone
<1>2. /\ ScenarioTypes /\ CarryInv /\ req[r].out = <<>>
      /\ rec \in ScenarioRequest /\ Position(rec, registry)
  BY <1>1, IdleRequest DEF ScenarioInv, CarryInv, CarryOK, Position
<1>3. req'[r] = rec /\ \A x \in Requests \ {r} : req'[x] = req[x]
  BY <1>1, <1>2 DEF ScenarioTypes
<1>4. ScenarioTypes'
  BY <1>1, <1>2 DEF ScenarioTypes
<1>5. CarryInv'
  BY <1>1, <1>2, <1>3, CarryKept
<1>6. SerialInv'
  BY <1>1 DEF SerialInv
<1>7. Scenario!ObservationsKept'
  <2>1. \A x \in Requests : req[x].out # <<>> => req'[x] = req[x]
    BY <1>2, <1>3
  <2> QED
    BY <1>1, <2>1, NothingLost
<1> QED
  BY <1>4, <1>5, <1>6, <1>7 DEF ScenarioInv

-----------------------------------------------------------------------------
(* The batch of a step *)

LEMMA LongerBatch ==
  ASSUME NEW S, NEW u \in Seq(S), NEW n \in S
  PROVE  /\ Append(u, n) \in Seq(S) /\ Append(u, n) # <<>>
         /\ Len(u) \in Nat /\ Len(Append(u, n)) = Len(u) + 1
         /\ \A i \in DOMAIN u : i \in DOMAIN Append(u, n) /\ Append(u, n)[i] = u[i]
         /\ Len(u) + 1 \in DOMAIN Append(u, n) /\ Append(u, n)[Len(u) + 1] = n
         /\ \A i \in DOMAIN Append(u, n) :
               Append(u, n)[i] = n \/ \E j \in DOMAIN u : Append(u, n)[i] = u[j]
  OBVIOUS

LEMMA ShorterBatch ==
  ASSUME NEW S, NEW u \in Seq(S), u # <<>>
  PROVE  /\ Tail(u) \in Seq(S) /\ Head(u) \in S
         /\ Len(u) \in Nat /\ Len(Tail(u)) = Len(u) - 1
         /\ Tail(u) = <<>> => Len(u) = 1
         /\ 1 \in DOMAIN u /\ u[1] = Head(u)
         /\ \A i \in DOMAIN u : u[i] = Head(u) \/ \E j \in DOMAIN Tail(u) : Tail(u)[j] = u[i]
         /\ \A j \in DOMAIN Tail(u) : \E i \in DOMAIN u : Tail(u)[j] = u[i]
<1>1. /\ Tail(u) \in Seq(S) /\ Head(u) \in S
      /\ Len(u) \in Nat /\ Len(u) >= 1 /\ Len(Tail(u)) = Len(u) - 1
      /\ 1 \in DOMAIN u /\ u[1] = Head(u)
  OBVIOUS
<1>2. \A j \in DOMAIN Tail(u) : j + 1 \in DOMAIN u /\ Tail(u)[j] = u[j + 1]
  OBVIOUS
<1>3. ASSUME NEW i \in DOMAIN u, i # 1
      PROVE  i - 1 \in DOMAIN Tail(u) /\ Tail(u)[i - 1] = u[i]
  BY <1>3
<1>4. \A i \in DOMAIN u : u[i] = Head(u) \/ \E j \in DOMAIN Tail(u) : Tail(u)[j] = u[i]
  BY <1>1, <1>3
<1>5. \A j \in DOMAIN Tail(u) : \E i \in DOMAIN u : Tail(u)[j] = u[i]
  BY <1>2
<1>6. ASSUME Tail(u) = <<>>
      PROVE  Len(u) = 1
  <2>1. Len(Tail(u)) = Len(<<>>)
    BY <1>6, Zenon
  <2>2. Len(<<>>) = 0
    OBVIOUS
  <2>3. PICK k \in Nat : k = Len(u) /\ Len(Tail(u)) = k - 1
    BY <1>1
  <2> QED
    BY <2>1, <2>2, <2>3
<1> QED
  BY <1>1, <1>4, <1>5, <1>6

(* The changes a step makes to a session and to its own record.            *)
LEMMA TickTypes ==
  ASSUME NEW s \in Scenario!Session, NEW n \in 0..MaxTick, NEW p \in Int
  PROVE  \E a \in Scenario!Session :
           /\ a = [s EXCEPT !.tick = n, !.pending = p]
           /\ a.tick = n /\ a.pending = p
           /\ a.error = s.error /\ a.stopped = s.stopped /\ a.halted = s.halted
<1> DEFINE a == [s EXCEPT !.tick = n, !.pending = p]
<1>1. a \in Scenario!Session /\ a.tick = n /\ a.pending = p
  BY DEF Scenario!Session
<1>2. a.error = s.error /\ a.stopped = s.stopped /\ a.halted = s.halted
  BY DEF Scenario!Session
<1> QED
  BY <1>1, <1>2

LEMMA BatchTypes ==
  ASSUME NEW q \in ScenarioRequest, NEW l \in Nat, NEW u \in Seq(Scenario!Ticks)
  PROVE  \E rec \in ScenarioRequest :
           /\ rec = [q EXCEPT !.left = l, !.out = u]
           /\ rec.pc = q.pc /\ rec.op = q.op /\ rec.of = q.of /\ rec.was = q.was
           /\ rec.out = u
<1> DEFINE rec == [q EXCEPT !.left = l, !.out = u]
<1>1. rec \in ScenarioRequest /\ rec.out = u
  BY DEF ScenarioRequest
<1>2. rec.pc = q.pc /\ rec.op = q.op /\ rec.of = q.of /\ rec.was = q.was
  BY DEF ScenarioRequest
<1> QED
  BY <1>1, <1>2

LEMMA TickKeeps ==
  ASSUME ScenarioOK, ScenarioInv, NEW r \in Requests, Scenario!Tick(r)
  PROVE  ScenarioInv'
<1> DEFINE q == req[r]
           s == session[registry]
           n == s.tick + 1
           hit == IF n \in seen THEN 1 ELSE 0
           a == [s EXCEPT !.tick = n, !.pending = s.pending + hit]
           out == IF n \in seen THEN Append(q.out, n) ELSE q.out
           rec == [q EXCEPT !.left = q.left - 1, !.out = out]
<1>1. /\ q.pc = "tick" /\ q.left > 0
      /\ scenario' = scenario /\ sensor' = sensor /\ stored' = stored
      /\ registry' = registry /\ seen' = seen
  BY DEF Scenario!Tick
<1>2. /\ ScenarioTypes /\ CarryInv /\ CarryOK(r) /\ q \in ScenarioRequest
      /\ q.of = registry /\ registry \in Requests /\ registry # NoRequest
      /\ session \in [Requests -> Scenario!Session] /\ s \in Scenario!Session
      /\ scenario \in Scenario!Statuses \union {"deleted"}
      /\ sensor \in {"absent", "ACTIVE", "DISABLED"} /\ stored \subseteq seen /\ q.pc # "idle"
  BY <1>1, HasSession
<1>3. q.op = "step" /\ \A i \in DOMAIN q.out : q.out[i] \in seen
  BY <1>1, <1>2 DEF CarryOK, Position
<1>4. /\ n <= MaxTick /\ Scenario!Acts(r, rec)
      /\ session' = [session EXCEPT ![registry].tick = n, ![registry].pending = @ + hit]
  BY <1>2 DEF Scenario!Tick, Scenario!Current
<1>5. n \in Scenario!Ticks /\ hit \in Int /\ s.tick \in Nat
  BY <1>2, <1>4 DEF ScenarioOK, Scenario!Session, Scenario!Ticks
<1>6. /\ a \in Scenario!Session /\ a.tick = n /\ a.pending = s.pending + hit
      /\ a.error = s.error /\ a.stopped = s.stopped /\ a.halted = s.halted
  <2>1. n \in 0..MaxTick /\ s.pending + hit \in Int
    BY <1>2, <1>4, <1>5 DEF ScenarioOK, Scenario!Session
  <2>2. s \in Scenario!Session
    BY <1>2
  <2> HIDE DEF n, hit, s
  <2>3. PICK b \in Scenario!Session :
           /\ b = [s EXCEPT !.tick = n, !.pending = s.pending + hit]
           /\ b.tick = n /\ b.pending = s.pending + hit
           /\ b.error = s.error /\ b.stopped = s.stopped /\ b.halted = s.halted
    BY <2>1, <2>2, TickTypes, ZenonT(30)
  <2> QED
    BY <2>3
<1>7. session' = [session EXCEPT ![registry] = a]
  BY <1>2, <1>4
<1>8. /\ q.out \in Seq(Scenario!Ticks) /\ out \in Seq(Scenario!Ticks)
      /\ \A i \in DOMAIN q.out : i \in DOMAIN out /\ out[i] = q.out[i]
      /\ n \in seen => \E i \in DOMAIN out : out[i] = n
      /\ \A i \in DOMAIN out : out[i] \in seen
      /\ Len(q.out) \in Nat /\ Len(out) = Len(q.out) + hit
      /\ hit = 1 => out # <<>>
      /\ hit # 1 => out = q.out
  <2>1. q.out \in Seq(Scenario!Ticks)
    BY <1>2 DEF ScenarioRequest
  <2> DEFINE u == q.out
  <2> HIDE DEF n, u
  <2>2. CASE n \in seen
    BY <1>3, <1>5, <2>1, <2>2, LongerBatch DEF u
  <2>3. CASE n \notin seen
    BY <1>3, <2>1, <2>3 DEF u
  <2> QED
    BY <2>2, <2>3
<1>9. /\ rec \in ScenarioRequest /\ rec.pc = "tick" /\ rec.op = "step" /\ rec.of = registry
      /\ rec.was = q.was /\ rec.out = out
  <2>1. q.left - 1 \in Nat
    BY <1>1, <1>2 DEF ScenarioRequest
  <2>2. q \in ScenarioRequest /\ out \in Seq(Scenario!Ticks)
    BY <1>2, <1>8
  <2>3. q.pc = "tick" /\ q.op = "step" /\ q.of = registry
    BY <1>1, <1>2, <1>3
  <2> HIDE DEF out, q
  <2>4. PICK b \in ScenarioRequest :
           /\ b = [q EXCEPT !.left = q.left - 1, !.out = out]
           /\ b.pc = q.pc /\ b.op = q.op /\ b.of = q.of /\ b.was = q.was
           /\ b.out = out
    BY <2>1, <2>2, BatchTypes
  <2> QED
    BY <2>3, <2>4
<1> HIDE DEF rec, a, out
<1>10. Position(rec, registry)
  BY <1>2, <1>8, <1>9 DEF Position, Scenario!Ops
<1>11. /\ session' \in [Requests -> Scenario!Session] /\ session'[registry] = a
       /\ \A o \in Requests \ {registry} : session'[o] = session[o]
  BY <1>2, <1>6, <1>7, SessionStep
<1>12. ASSUME Relies(q, s, scenario), Agree(q, s, scenario)
       PROVE  Relies(rec, a, scenario) /\ Agree(rec, a, scenario)
  <2>1. /\ scenario \in {"RUNNING", "FAILED"} /\ ~s.stopped
        /\ q.was \in {"unread", scenario}
    BY <1>1, <1>3, <1>12 DEF Relies
  <2>2. ~s.error => s.pending = Len(q.out)
    <3>1. q.out = <<>> => Len(q.out) = 0
      OBVIOUS
    <3> QED
      BY <1>1, <1>12, <3>1 DEF Relies, Agree
  <2>3. ~a.error => a.pending = Len(out)
    BY <1>6, <1>8, <2>2
  <2>4. out = <<>> => Len(out) = 0
    OBVIOUS
  <2>5. Relies(rec, a, scenario)
    BY <1>6, <1>9, <2>1, <2>3 DEF Relies
  <2>6. Agree(rec, a, scenario)
    <3>1. a.stopped <=> a.halted
      BY <1>6, <1>12 DEF Agree
    <3>2. ~a.error => a.pending = 0 \/ (rec.pc = "tick" /\ rec.out # <<>>)
      BY <1>9, <2>3, <2>4
    <3> QED
      BY <1>6, <2>1, <3>1, <3>2 DEF Agree
  <2> QED
    BY <2>5, <2>6
<1>13. ScenarioTypes' /\ CarryInv' /\ SerialInv'
  BY <1>1, <1>2, <1>4, <1>9, <1>10, <1>11, <1>12, ActingStep
<1>14. Scenario!ObservationsKept'
  <2> SUFFICES ASSUME NEW o \in Requests, ~session'[o].error,
                      NEW t \in Scenario!Ticks, t \in seen, t <= session'[o].tick,
                      \A x \in Requests : req'[x].of = o
                         => \A i \in DOMAIN req'[x].out : req'[x].out[i] # t
               PROVE  t \in stored
    BY <1>1 DEF Scenario!ObservationsKept, Scenario!Delivered
  <2>1. Goes(r, rec) /\ \A x \in Requests \ {r} : Meets(x)
    BY <1>2, <1>4, <1>9, ActsStep
  <2>2. ASSUME NEW x \in Requests, req[x].of = o, NEW i \in DOMAIN req[x].out
        PROVE  req[x].out[i] # t
    <3>1. CASE x = r
      <4>1. req'[r].of = o /\ req'[r].out = out
        BY <1>2, <1>9, <2>1, <2>2, <3>1 DEF Goes
      <4> QED
        BY <1>8, <2>2, <3>1, <4>1
    <3>2. CASE x # r
      BY <2>1, <2>2, <3>2 DEF Meets
    <3> QED
      BY <3>1, <3>2
  <2>3. ~session[o].error
    BY <1>6, <1>11
  <2>4. t <= session[o].tick
    <3>1. CASE o = registry
      <4>1. req'[r].of = o /\ req'[r].out = out
        BY <1>9, <2>1, <3>1 DEF Goes
      <4>2. t # n
        BY <1>8, <4>1
      <4>3. t <= n /\ t \in Nat
        BY <1>6, <1>11, <3>1 DEF Scenario!Ticks
      <4> QED
        BY <1>5, <3>1, <4>2, <4>3
    <3>2. CASE o # registry
      BY <1>11, <3>2
    <3> QED
      BY <3>1, <3>2
  <2>5. t \in Scenario!Delivered(o)
    BY <2>2, <2>4 DEF Scenario!Delivered
  <2> QED
    BY <2>3, <2>5 DEF ScenarioInv, Scenario!ObservationsKept
<1> QED
  BY <1>13, <1>14 DEF ScenarioInv

LEMMA IngestKeeps ==
  ASSUME ScenarioOK, ScenarioInv, NEW r \in Requests, Scenario!Ingest(r)
  PROVE  ScenarioInv'
<1> DEFINE q == req[r]
           s == session[registry]
           a == [s EXCEPT !.pending = s.pending - 1]
           first == Head(q.out)
           out == Tail(q.out)
           rec == [q EXCEPT !.out = out, !.was = "unread"]
<1>1. /\ q.pc = "tick" /\ q.out # <<>>
      /\ scenario' = scenario /\ sensor' = sensor /\ stored' = stored \union {first}
      /\ registry' = registry /\ seen' = seen
  BY DEF Scenario!Ingest
<1>2. /\ ScenarioTypes /\ CarryInv /\ CarryOK(r) /\ q \in ScenarioRequest
      /\ q.of = registry /\ registry \in Requests /\ registry # NoRequest
      /\ session \in [Requests -> Scenario!Session] /\ s \in Scenario!Session
      /\ scenario \in Scenario!Statuses \union {"deleted"}
      /\ sensor \in {"absent", "ACTIVE", "DISABLED"} /\ stored \subseteq seen /\ q.pc # "idle"
  BY <1>1, HasSession
<1>3. q.op = "step" /\ \A i \in DOMAIN q.out : q.out[i] \in seen
  BY <1>1, <1>2 DEF CarryOK, Position
<1>4. Scenario!Acts(r, rec) /\ session' = [session EXCEPT ![registry].pending = @ - 1]
  BY <1>2 DEF Scenario!Ingest
<1>5. /\ a \in Scenario!Session /\ a.tick = s.tick /\ a.pending = s.pending - 1
      /\ a.error = s.error /\ a.stopped = s.stopped /\ a.halted = s.halted
  BY <1>2 DEF Scenario!Session
<1>6. session' = [session EXCEPT ![registry] = a]
  BY <1>2, <1>4
<1>7. q.out \in Seq(Scenario!Ticks)
  BY <1>2 DEF ScenarioRequest
<1>8. /\ out \in Seq(Scenario!Ticks)
      /\ Len(q.out) \in Nat /\ Len(out) = Len(q.out) - 1
      /\ out = <<>> => Len(q.out) = 1
      /\ 1 \in DOMAIN q.out /\ q.out[1] = first
      /\ \A i \in DOMAIN q.out : q.out[i] = first \/ \E j \in DOMAIN out : out[j] = q.out[i]
      /\ \A j \in DOMAIN out : \E i \in DOMAIN q.out : out[j] = q.out[i]
  BY <1>1, <1>7, ShorterBatch
<1>9. stored' \subseteq seen
  BY <1>1, <1>2, <1>3, <1>8
<1> HIDE DEF out, first
<1>10. /\ rec \in ScenarioRequest /\ rec.pc = "tick" /\ rec.op = "step" /\ rec.of = registry
       /\ rec.was = "unread" /\ rec.out = out
  BY <1>1, <1>2, <1>3, <1>8 DEF ScenarioRequest
<1> HIDE DEF rec, a
<1>11. Position(rec, registry)
  BY <1>2, <1>3, <1>8, <1>10 DEF Position, Scenario!Ops
<1>12. /\ session' \in [Requests -> Scenario!Session] /\ session'[registry] = a
       /\ \A o \in Requests \ {registry} : session'[o] = session[o]
  BY <1>2, <1>5, <1>6, SessionStep
<1>13. ASSUME Relies(q, s, scenario), Agree(q, s, scenario)
       PROVE  Relies(rec, a, scenario) /\ Agree(rec, a, scenario)
  <2>1. /\ scenario \in {"RUNNING", "FAILED"} /\ ~s.stopped
        /\ ~s.error => s.pending = Len(q.out)
    BY <1>1, <1>3, <1>13 DEF Relies
  <2>2. ~a.error => a.pending = Len(out)
    BY <1>5, <1>8, <2>1
  <2>3. out = <<>> => Len(out) = 0
    BY <1>8
  <2>4. Relies(rec, a, scenario)
    BY <1>5, <1>10, <2>1, <2>2 DEF Relies
  <2>5. Agree(rec, a, scenario)
    <3>1. a.stopped <=> a.halted
      BY <1>5, <1>13 DEF Agree
    <3>2. ~a.error => a.pending = 0 \/ (rec.pc = "tick" /\ rec.out # <<>>)
      BY <1>10, <2>2, <2>3
    <3> QED
      BY <1>5, <2>1, <3>1, <3>2 DEF Agree
  <2> QED
    BY <2>4, <2>5
<1>14. ScenarioTypes' /\ CarryInv' /\ SerialInv'
  BY <1>1, <1>2, <1>4, <1>9, <1>10, <1>11, <1>12, <1>13, ActingStep
<1>15. Scenario!ObservationsKept'
  <2> SUFFICES ASSUME NEW o \in Requests, ~session'[o].error,
                      NEW t \in Scenario!Ticks, t \in seen, t <= session'[o].tick,
                      \A x \in Requests : req'[x].of = o
                         => \A i \in DOMAIN req'[x].out : req'[x].out[i] # t,
                      t # first
               PROVE  t \in stored
    BY <1>1 DEF Scenario!ObservationsKept, Scenario!Delivered
  <2>1. Goes(r, rec) /\ \A x \in Requests \ {r} : Meets(x)
    BY <1>2, <1>4, <1>10, ActsStep
  <2>2. ASSUME NEW x \in Requests, req[x].of = o, NEW i \in DOMAIN req[x].out
        PROVE  req[x].out[i] # t
    <3>1. CASE x = r
      <4>1. req'[r].of = o /\ req'[r].out = out
        BY <1>2, <1>10, <2>1, <2>2, <3>1 DEF Goes
      <4> QED
        BY <1>8, <2>2, <3>1, <4>1
    <3>2. CASE x # r
      BY <2>1, <2>2, <3>2 DEF Meets
    <3> QED
      BY <3>1, <3>2
  <2>3. ~session[o].error /\ t <= session[o].tick
    BY <1>5, <1>12
  <2>4. t \in Scenario!Delivered(o)
    BY <2>2, <2>3 DEF Scenario!Delivered
  <2> QED
    BY <2>3, <2>4 DEF ScenarioInv, Scenario!ObservationsKept
<1> QED
  BY <1>14, <1>15 DEF ScenarioInv

LEMMA FailStepKeeps ==
  ASSUME ScenarioOK, ScenarioInv, NEW r \in Requests, Scenario!FailStep(r)
  PROVE  ScenarioInv'
<1> DEFINE q == req[r]
           s == session[registry]
           a == [s EXCEPT !.error = TRUE]
           rec == [q EXCEPT !.pc = "failed", !.left = 0, !.out = <<>>]
<1>1. /\ q.pc = "tick"
      /\ scenario' = scenario /\ sensor' = sensor /\ stored' = stored
      /\ registry' = registry /\ seen' = seen /\ Scenario!Acts(r, rec)
  BY DEF Scenario!FailStep
<1>2. /\ ScenarioTypes /\ CarryInv /\ CarryOK(r) /\ q \in ScenarioRequest
      /\ q.of = registry /\ registry \in Requests /\ registry # NoRequest
      /\ session \in [Requests -> Scenario!Session] /\ s \in Scenario!Session
      /\ scenario \in Scenario!Statuses \union {"deleted"}
      /\ sensor \in {"absent", "ACTIVE", "DISABLED"} /\ stored \subseteq seen /\ q.pc # "idle"
  BY <1>1, HasSession
<1>3. q.op = "step"
  BY <1>1, <1>2 DEF CarryOK, Position
<1>4. /\ a \in Scenario!Session /\ a.tick = s.tick /\ a.pending = s.pending
      /\ a.error /\ a.stopped = s.stopped /\ a.halted = s.halted
  BY <1>2 DEF Scenario!Session
<1>5. session' = [session EXCEPT ![registry] = a]
  BY <1>2 DEF Scenario!FailStep, Scenario!FailedSession
<1>6. /\ rec \in ScenarioRequest /\ rec.pc = "failed" /\ rec.op = "step" /\ rec.of = registry
      /\ rec.was = q.was /\ rec.out = <<>>
  <2>1. <<>> \in Seq(Scenario!Ticks) /\ q \in ScenarioRequest
    BY <1>2
  <2>2. rec \in ScenarioRequest /\ rec.pc = "failed" /\ rec.out = <<>>
    BY <2>1 DEF ScenarioRequest
  <2>3. rec.op = "step" /\ rec.of = registry /\ rec.was = q.was
    BY <1>2, <1>3, <2>1 DEF ScenarioRequest
  <2> QED
    BY <2>2, <2>3
<1> HIDE DEF rec, a
<1>7. Position(rec, registry)
  BY <1>2, <1>6 DEF Position, Scenario!Ops
<1>8. /\ session' \in [Requests -> Scenario!Session] /\ session'[registry] = a
      /\ \A o \in Requests \ {registry} : session'[o] = session[o]
  BY <1>2, <1>4, <1>5, SessionStep
<1>9. ASSUME Relies(q, s, scenario), Agree(q, s, scenario)
      PROVE  Relies(rec, a, scenario) /\ Agree(rec, a, scenario)
  <2>1. /\ scenario \in {"RUNNING", "FAILED"} /\ ~s.stopped /\ q.was \in {"unread", scenario}
    BY <1>1, <1>3, <1>9 DEF Relies
  <2>2. Relies(rec, a, scenario)
    BY <1>4, <1>6, <2>1 DEF Relies
  <2>3. Agree(rec, a, scenario)
    BY <1>4, <1>9, <2>1 DEF Agree
  <2> QED
    BY <2>2, <2>3
<1>10. ScenarioTypes' /\ CarryInv' /\ SerialInv'
  BY <1>1, <1>2, <1>6, <1>7, <1>8, <1>9, ActingStep
<1>11. Scenario!ObservationsKept'
  <2> SUFFICES ASSUME NEW o \in Requests, ~session'[o].error,
                      NEW t \in Scenario!Ticks, t \in seen, t <= session'[o].tick,
                      \A x \in Requests : req'[x].of = o
                         => \A i \in DOMAIN req'[x].out : req'[x].out[i] # t
               PROVE  t \in stored
    BY <1>1 DEF Scenario!ObservationsKept, Scenario!Delivered
  <2>1. \A x \in Requests \ {r} : Meets(x)
    BY <1>1, <1>2, <1>6, ActsStep
  <2>2. o # registry
    BY <1>4, <1>8
  <2>3. session'[o] = session[o] /\ req[r].of # o
    BY <1>2, <1>8, <2>2
  <2>4. \A x \in Requests : req[x].of = o => \A i \in DOMAIN req[x].out : req[x].out[i] # t
    BY <2>1, <2>3 DEF Meets
  <2>5. t \in Scenario!Delivered(o)
    BY <2>3, <2>4 DEF Scenario!Delivered
  <2> QED
    BY <2>3, <2>5 DEF ScenarioInv, Scenario!ObservationsKept
<1> QED
  BY <1>10, <1>11 DEF ScenarioInv

-----------------------------------------------------------------------------
(* The surroundings, and the scenario *)

(* An edit of the sensor or the row: every request in flight meets it, so  *)
(* whoever has a debt is in for a race, and without debts the session and  *)
(* the row agree by themselves.                                            *)
LEMMA EditKeeps ==
  ASSUME ScenarioInv, NEW b \in BOOLEAN, Scenario!AllMet(b), raced' = b, raced => b,
         scenario' = scenario \/ scenario' = "deleted" \/ b,
         scenario' \in Scenario!Statuses \union {"deleted"},
         sensor' \in {"absent", "ACTIVE", "DISABLED"},
         stored' = stored, registry' = registry, session' = session, seen' = seen
  PROVE  ScenarioInv'
<1>1. ScenarioTypes /\ CarryInv /\ SerialInv
  BY DEF ScenarioInv
<1>2. req' \in [Requests -> ScenarioRequest] /\ \A x \in Requests : Meets(x)
  BY <1>1, AllMeet
<1>3. ScenarioTypes'
  BY <1>1, <1>2 DEF ScenarioTypes
<1>4. CarryInv'
  <2>1. ASSUME NEW x \in Requests
        PROVE  CarryOK(x)'
    <3>1. CarryOK(x) /\ Meets(x)
      BY <1>1, <1>2 DEF CarryInv
    <3>2. Position(req'[x], registry')
      BY <3>1 DEF Meets, CarryOK, Position
    <3> QED
      BY <3>1, <3>2 DEF Meets, CarryOK, Position
  <2> QED
    BY <2>1 DEF CarryInv
<1>5. SerialInv'
  <2> SUFFICES ASSUME ~raced', scenario' # "deleted", ~Doomed'
               PROVE  /\ \A x \in Requests : req'[x].pc # "idle" => req'[x].met
                      /\ registry # NoRequest => Agree(Scenario!Idle, session[registry], scenario')
    BY <1>1 DEF SerialInv
  <2>1. \A x \in Requests : req'[x].pc # "idle" => req'[x].met
    BY <1>2 DEF Meets
  <2>2. scenario' = scenario /\ ~raced
    OBVIOUS
  <2>3. \A x \in Requests : ~Owing(req[x])
    BY <1>2, <2>1 DEF Doomed, Meets, Owing
  <2>4. ~Doomed
    BY <2>3 DEF Doomed
  <2>5. ASSUME registry # NoRequest
        PROVE  Agree(Scenario!Idle, session[registry], scenario)
    <3>1. \A x \in Requests : Agree(req[x], session[registry], scenario)
                               => Agree(Scenario!Idle, session[registry], scenario)
      BY <2>3, NoExcuse
    <3> QED
      BY <1>1, <2>2, <2>4, <2>5, <3>1 DEF SerialInv
  <2> QED
    BY <2>1, <2>2, <2>5
<1>6. Scenario!ObservationsKept'
  BY <1>2, NothingLost DEF Meets
<1> QED
  BY <1>3, <1>4, <1>5, <1>6 DEF ScenarioInv

LEMMA RestartKeeps ==
  ASSUME ScenarioOK, ScenarioInv, Scenario!Restart
  PROVE  ScenarioInv'
<1>1. /\ registry' = NoRequest /\ ~raced' /\ raced' \in BOOLEAN
      /\ session' = [r \in Requests |-> Scenario!FreshSession]
      /\ req' = [r \in Requests |-> Scenario!Idle]
      /\ scenario' = scenario /\ sensor' = sensor /\ stored' = stored /\ seen' = seen
  BY DEF Scenario!Restart
<1>2. \A r \in Requests : req'[r] = Scenario!Idle /\ session'[r] = Scenario!FreshSession
  BY <1>1
<1>3. ScenarioTypes'
  BY <1>1, IdleRequest, NewSession DEF ScenarioInv, ScenarioTypes
<1>4. CarryInv'
  BY <1>2, IdleRequest DEF CarryInv, CarryOK, Position
<1>5. SerialInv'
  BY <1>1, <1>2, IdleRequest DEF SerialInv
<1>6. Scenario!ObservationsKept'
  BY <1>2, NewSession DEF Scenario!ObservationsKept, Scenario!Delivered, Scenario!Ticks
<1> QED
  BY <1>3, <1>4, <1>5, <1>6 DEF ScenarioInv

LEMMA InitScenario ==
  ASSUME ScenarioOK, Scenario!Init
  PROVE  ScenarioInv
<1>1. /\ registry = NoRequest /\ scenario = "READY" /\ sensor = "absent" /\ stored = {}
      /\ session = [r \in Requests |-> Scenario!FreshSession]
      /\ req = [r \in Requests |-> Scenario!Idle]
      /\ seen \subseteq Scenario!Ticks /\ raced = FALSE
  BY DEF Scenario!Init
<1>2. \A r \in Requests : req[r] = Scenario!Idle /\ session[r] = Scenario!FreshSession
  BY <1>1
<1>3. ScenarioTypes
  BY <1>1, IdleRequest, NewSession DEF ScenarioTypes, Scenario!Statuses
<1>4. CarryInv
  BY <1>2, IdleRequest DEF CarryInv, CarryOK, Position
<1>5. SerialInv
  BY <1>1, <1>2, IdleRequest DEF SerialInv
<1>6. Scenario!ObservationsKept
  BY <1>2, NewSession DEF Scenario!ObservationsKept, Scenario!Delivered, Scenario!Ticks
<1> QED
  BY <1>3, <1>4, <1>5, <1>6 DEF ScenarioInv

LEMMA NextScenario ==
  ASSUME ScenarioOK, ScenarioInv, [Scenario!Next]_(Scenario!vars)
  PROVE  ScenarioInv'
<1>1. CASE UNCHANGED Scenario!vars
  <2>1. ScenarioTypes' /\ CarryInv' /\ SerialInv'
    BY <1>1 DEF Scenario!vars, ScenarioInv, ScenarioTypes, CarryInv, CarryOK, Position,
                SerialInv, Doomed
  <2>2. Scenario!ObservationsKept'
    BY <1>1, NothingLost DEF Scenario!vars
  <2> QED
    BY <2>1, <2>2 DEF ScenarioInv
<1>2. ASSUME NEW r \in Requests, NEW op \in OpsOf[r],
             NEW n \in (IF op = "step" THEN Batches ELSE {0}), Scenario!Arrive(r, op, n)
      PROVE  ScenarioInv'
  BY <1>2, ArriveKeeps
<1>3. ASSUME NEW r \in Requests, Scenario!Proceed(r)
      PROVE  ScenarioInv'
  BY <1>3, TakeSessionKeeps, ChangeSessionKeeps, RefusedResumeKeeps, CommitRowKeeps,
     BeginStepKeeps, TickKeeps, IngestKeeps, EvaluateKeeps, CompleteKeeps,
     FailStepKeeps, CommitFailedKeeps, RowGoneKeeps DEF Scenario!Proceed
<1>4. ASSUME NEW status \in Puts, Scenario!UpdateScenario(status)
      PROVE  ScenarioInv'
  <2>1. status \in Scenario!Statuses /\ sensor \in {"absent", "ACTIVE", "DISABLED"}
    BY DEF ScenarioOK, ScenarioInv, ScenarioTypes
  <2> QED
    BY <1>4, <2>1, EditKeeps DEF Scenario!UpdateScenario
<1>5. CASE Scenario!DeleteScenario
  <2>1. raced \in BOOLEAN /\ sensor \in {"absent", "ACTIVE", "DISABLED"}
    BY DEF ScenarioInv, ScenarioTypes
  <2> QED
    BY <1>5, <2>1, EditKeeps DEF Scenario!DeleteScenario
<1>6. CASE Scenario!DisableSensor
  <2>1. raced \in BOOLEAN /\ scenario \in Scenario!Statuses \union {"deleted"}
    BY DEF ScenarioInv, ScenarioTypes
  <2> QED
    BY <1>6, <2>1, EditKeeps DEF Scenario!DisableSensor
<1>7. CASE Scenario!Restart
  BY <1>7, RestartKeeps
<1> QED
  BY <1>1, <1>2, <1>3, <1>4, <1>5, <1>6, <1>7 DEF Scenario!Next

(* When nobody is in flight nobody has a debt.                             *)
LEMMA QuietAgreement ==
  ASSUME ScenarioInv
  PROVE  Scenario!SerialAgreement
<1> SUFFICES ASSUME ~raced, Scenario!AllIdle, registry # NoRequest, scenario # "deleted"
             PROVE  Agree(Scenario!Idle, session[registry], scenario)
                    /\ session[registry] \in Scenario!Session
  BY IdleRequest DEF Agree, Scenario!SerialAgreement, Scenario!Session
<1>1. ScenarioTypes /\ CarryInv /\ SerialInv
  BY DEF ScenarioInv
<1>2. \A r \in Requests : req[r] = Scenario!Idle
  BY <1>1 DEF CarryInv, CarryOK, Scenario!AllIdle
<1>3. ~Doomed
  BY <1>2, IdleRequest DEF Doomed
<1>4. Agree(Scenario!Idle, session[registry], scenario)
  BY <1>1, <1>2, <1>3 DEF SerialInv
<1> QED
  BY <1>1, <1>4 DEF ScenarioTypes

LEMMA ScenarioInvSound ==
  ASSUME ScenarioInv
  PROVE  Scenario!TypeOK /\ Scenario!ObservationsKept /\ Scenario!SerialAgreement
<1>1. ScenarioTypes => Scenario!TypeOK
  BY DEF ScenarioTypes, ScenarioRequest, Scenario!TypeOK
<1> QED
  BY <1>1, QuietAgreement DEF ScenarioInv

-----------------------------------------------------------------------------
(* The safety decisions of a swarm *)

Calms == Cooldowns \union {Standard}

(* Cooldowns are numbers of seconds, and one of them is the longest. *)
CooldownsOK == Calms \subseteq Nat /\ \E n \in Calms : \A k \in Calms : k <= n

Request == [op : {"none", "adopt", "decide", "store", "shared"}, calm : Calms, at : Nat]
Decision == [at : Nat, calm : Calms, generation : Nat, alone : BOOLEAN]

SafetyTypes ==
  /\ policies \in Seq(Calms)
  /\ inForce \in Calms
  /\ last \in Int /\ last <= wall
  /\ wall \in Nat
  /\ generation \in Nat
  /\ crossed \in BOOLEAN
  /\ operator \in [Operators -> Request]
  /\ decisions \subseteq Decision

LEMMA LongestCooldown ==
  ASSUME CooldownsOK
  PROVE  Safety!Unset \in Int /\ Safety!Unset <= 0
<1>1. Safety!Long(Calms) \in Calms
  BY DEF CooldownsOK, Safety!Long
<1> QED
  BY <1>1 DEF Safety!Unset, Calms, CooldownsOK

LEMMA Waits == CooldownsOK => Safety!Waiting \in Request
  BY DEF Safety!Waiting, Request, Calms, CooldownsOK

LEMMA InitSafety ==
  ASSUME CooldownsOK, Safety!Init
  PROVE  SafetyTypes
<1>1. Safety!Unset \in Int /\ Safety!Unset <= 0 /\ Standard \in Calms
  BY LongestCooldown DEF Calms
<1>2. operator \in [Operators -> Request]
  BY Waits DEF Safety!Init
<1>3. <<>> \in Seq(Calms)
  OBVIOUS
<1> QED
  BY <1>1, <1>2, <1>3 DEF Safety!Init, SafetyTypes

LEMMA NextSafety ==
  ASSUME CooldownsOK, SafetyTypes, [Safety!Next]_(Safety!vars)
  PROVE  SafetyTypes'
<1> USE DEF SafetyTypes
<1>0. Safety!Waiting \in Request /\ Safety!Unset \in Int /\ Safety!Unset <= 0
      /\ Standard \in Calms
  BY Waits, LongestCooldown DEF Calms
<1>1. ASSUME NEW o \in Operators, NEW calm \in Cooldowns, Safety!StorePolicy(o, calm)
      PROVE  SafetyTypes'
  <2>1. calm \in Calms /\ policies' = Append(policies, calm) /\ crossed' \in BOOLEAN
        /\ UNCHANGED <<inForce, last, wall, generation, decisions>>
    BY <1>1 DEF Safety!StorePolicy, Calms
  <2>2. policies' \in Seq(Calms)
    BY <2>1
  <2>3. PICK q \in Request : operator' = [operator EXCEPT ![o] = q]
    BY <1>1, <2>1 DEF Safety!StorePolicy, Safety!Waiting, Request
  <2> QED
    BY <2>1, <2>2, <2>3
<1>2. ASSUME NEW o \in Operators, Safety!AdoptPolicy(o)
      PROVE  SafetyTypes'
  <2>1. operator[o].calm \in Calms
    BY DEF Request
  <2> QED
    BY <1>0, <1>2, <2>1 DEF Safety!AdoptPolicy, Safety!Finish
<1>3. ASSUME NEW o \in Operators, Safety!CheckCooldown(o)
      PROVE  SafetyTypes'
  <2>1. PICK q \in Request : operator' = [operator EXCEPT ![o] = q]
    BY <1>3 DEF Safety!CheckCooldown, Safety!Waiting, Request
  <2> QED
    BY <1>3, <2>1 DEF Safety!CheckCooldown
<1>4. ASSUME NEW o \in Operators, Safety!SetCooldown(o)
      PROVE  SafetyTypes'
  <2>1. PICK q \in {"store", "shared"} :
           operator' = [operator EXCEPT ![o] = [@ EXCEPT !.op = q, !.at = wall]]
    BY <1>4, Zenon DEF Safety!SetCooldown
  <2>2. [operator[o] EXCEPT !.op = q, !.at = wall] \in Request
    BY DEF Request
  <2>3. last' = wall /\ UNCHANGED <<policies, inForce, wall, generation, decisions, crossed>>
    BY <1>4 DEF Safety!SetCooldown
  <2> QED
    BY <2>1, <2>2, <2>3
<1>5. ASSUME NEW o \in Operators, NEW ok \in BOOLEAN, Safety!StoreDecision(o, ok)
      PROVE  SafetyTypes'
  <2>1. [at |-> operator[o].at, calm |-> operator[o].calm, generation |-> generation,
         alone |-> operator[o].op = "store"] \in Decision
    BY DEF Request, Decision
  <2> QED
    BY <1>0, <1>5, <2>1 DEF Safety!StoreDecision, Safety!Finish
<1>6. CASE Safety!Tock
  BY <1>6 DEF Safety!Tock
<1>7. CASE Safety!Reboot
  BY <1>0, <1>7 DEF Safety!Reboot
<1>8. CASE UNCHANGED Safety!vars
  BY <1>8 DEF Safety!vars
<1> QED
  BY <1>1, <1>2, <1>3, <1>4, <1>5, <1>6, <1>7, <1>8 DEF Safety!Next

(* A decision of this life of the process that no other evaluation met.    *)
CountsNow(d) == d.alone /\ d.generation = generation
Storing == {o \in Operators : operator[o].op = "store"}
Adopting == {o \in Operators : operator[o].op = "adopt"}

(* The last time on record is not before any decision, and whoever has     *)
(* passed the check is a cooldown away from all of them.                   *)
BehindLast ==
  /\ \A d \in decisions : d.generation <= generation /\ (CountsNow(d) => d.at <= last)
  /\ \A o \in Storing : operator[o].at <= last
Rested ==
  \A o \in Safety!Deciding :
    /\ \A d \in decisions : CountsNow(d) => wall - d.at >= operator[o].calm
    /\ \A p \in Storing : wall - operator[p].at >= operator[o].calm
StoringApart ==
  \A o \in Storing :
    /\ \A d \in decisions : CountsNow(d) =>
          /\ d.at < operator[o].at => operator[o].at - d.at >= operator[o].calm
          /\ operator[o].at < d.at => d.at - operator[o].at >= d.calm
    /\ \A p \in Storing :
          operator[p].at < operator[o].at => operator[o].at - operator[p].at >= operator[o].calm
CooldownInv == BehindLast /\ Rested /\ StoringApart /\ Safety!DecisionsApart

(* Unless two policies crossed, at most one is still to be adopted, and it *)
(* is the last one stored.                                                 *)
AdoptionInv ==
  ~crossed =>
    /\ \A o \in Adopting : /\ Adopting = {o} /\ policies # <<>>
                           /\ operator[o].calm = policies[Len(policies)]
    /\ Adopting = {} /\ policies # <<>> => inForce = policies[Len(policies)]

LEMMA NextCooldown ==
  ASSUME CooldownsOK, SafetyTypes, SafetyTypes', CooldownInv, [Safety!Next]_(Safety!vars)
  PROVE  CooldownInv'
<1>a. \A n \in Calms : n \in Int
  <2>1. Calms \subseteq Nat
    BY DEF CooldownsOK
  <2>2. \A n \in Calms : n \in Nat
    BY <2>1
  <2> QED
    BY <2>2
<1>b. \A o \in Operators : operator[o].at \in Int /\ operator[o].calm \in Int
  <2> TAKE o \in Operators
  <2>1. operator[o] \in Request
    BY DEF SafetyTypes
  <2>2. operator[o].at \in Nat /\ operator[o].calm \in Calms
    BY <2>1 DEF Request
  <2> QED
    BY <1>a, <2>2
<1>c. \A d \in decisions : d.at \in Int /\ d.calm \in Int /\ d.generation \in Int
  <2> TAKE d \in decisions
  <2>1. d \in Decision
    BY DEF SafetyTypes
  <2>2. d.at \in Nat /\ d.calm \in Calms /\ d.generation \in Nat
    BY <2>1 DEF Decision
  <2> QED
    BY <1>a, <2>2
<1>d. wall \in Int /\ generation \in Int /\ last \in Int /\ inForce \in Int /\ last <= wall
  BY <1>a DEF SafetyTypes
<1>e. operator \in [Operators -> Request]
  BY DEF SafetyTypes
<1> USE DEF CooldownInv
<1> USE DEF BehindLast, Rested, StoringApart, Safety!DecisionsApart, CountsNow, Storing,
            Safety!Deciding
<1>2. ASSUME NEW o \in Operators, Safety!CheckCooldown(o)
      PROVE  CooldownInv'
  <2>1. /\ operator'[o].op = "decide" /\ operator'[o].calm = inForce
        /\ \A p \in Operators \ {o} : operator'[p] = operator[p]
        /\ wall - last >= inForce
        /\ UNCHANGED <<decisions, last, wall, generation>>
    BY <1>2, <1>e DEF Safety!CheckCooldown, Safety!Waiting, Safety!MayTrigger
  <2>2. BehindLast'
    BY <1>b, <1>c, <1>d, <2>1
  <2>3. Rested'
    BY <1>b, <1>c, <1>d, <2>1
  <2>4. StoringApart'
    BY <1>b, <1>c, <1>d, <2>1
  <2>5. Safety!DecisionsApart'
    BY <1>b, <1>c, <1>d, <2>1
  <2> QED
    BY <2>2, <2>3, <2>4, <2>5
<1>3. ASSUME NEW o \in Operators, Safety!SetCooldown(o)
      PROVE  CooldownInv'
  <2>1. /\ operator[o].op = "decide"
        /\ operator'[o].at = wall /\ operator'[o].calm = operator[o].calm
        /\ operator'[o].op = IF Safety!Deciding = {o} THEN "store" ELSE "shared"
        /\ \A p \in Operators \ {o} : operator'[p] = operator[p]
        /\ last' = wall /\ last <= wall
        /\ UNCHANGED <<decisions, wall, generation>>
    <3>1. operator[o].op = "decide" /\ last' = wall /\ UNCHANGED <<decisions, wall, generation>>
      BY <1>3 DEF Safety!SetCooldown
    <3>2. PICK q : /\ q = IF Safety!Deciding = {o} THEN "store" ELSE "shared"
                   /\ operator' = [operator EXCEPT ![o] = [@ EXCEPT !.op = q, !.at = wall]]
      BY <1>3, Zenon DEF Safety!SetCooldown
    <3>3. operator[o] \in Request
      BY <1>e
    <3> QED
      BY <1>d, <1>e, <3>1, <3>2, <3>3 DEF Request
  <2>2. CASE Safety!Deciding = {o}
    <3>1. operator'[o].op = "store" /\ \A p \in Operators \ {o} : operator[p].op # "decide"
      BY <2>1, <2>2
    <3>2. BehindLast'
      BY <1>b, <1>c, <1>d, <2>1, <3>1
    <3>3. Rested'
      BY <1>b, <1>c, <1>d, <2>1, <3>1
    <3>4. StoringApart'
      BY <1>b, <1>c, <1>d, <2>1, <3>1
    <3>5. Safety!DecisionsApart'
      BY <1>b, <1>c, <1>d, <2>1, <3>1
    <3> QED
      BY <3>2, <3>3, <3>4, <3>5
  <2>3. CASE Safety!Deciding # {o}
    <3>1. operator'[o].op = "shared"
      BY <2>1, <2>3
    <3>2. BehindLast'
      BY <1>b, <1>c, <1>d, <2>1, <3>1
    <3>3. Rested'
      BY <1>b, <1>c, <1>d, <2>1, <3>1
    <3>4. StoringApart'
      BY <1>b, <1>c, <1>d, <2>1, <3>1
    <3>5. Safety!DecisionsApart'
      BY <1>b, <1>c, <1>d, <2>1, <3>1
    <3> QED
      BY <3>2, <3>3, <3>4, <3>5
  <2> QED
    BY <2>2, <2>3
<1>4. ASSUME NEW o \in Operators, NEW ok \in BOOLEAN, Safety!StoreDecision(o, ok)
      PROVE  CooldownInv'
  <2> DEFINE d0 == [at |-> operator[o].at, calm |-> operator[o].calm,
                    generation |-> generation, alone |-> operator[o].op = "store"]
  <2>0. decisions' \in {decisions, decisions \union {d0}}
    BY <1>4 DEF Safety!StoreDecision
  <2>1. PICK d : /\ d.at = operator[o].at /\ d.calm = operator[o].calm
                 /\ d.generation = generation
                 /\ d.alone => operator[o].op = "store"
                 /\ decisions' \in {decisions, decisions \union {d}}
    <3>1. /\ d0.at = operator[o].at /\ d0.calm = operator[o].calm
          /\ d0.generation = generation /\ (d0.alone => operator[o].op = "store")
      OBVIOUS
    <3> HIDE DEF d0
    <3> QED
      BY <2>0, <3>1
  <2>2. /\ operator'[o].op = "none"
        /\ \A p \in Operators \ {o} : operator'[p] = operator[p]
        /\ UNCHANGED <<last, wall, generation>>
        /\ operator[o].op \in {"store", "shared"}
    BY <1>4, <1>e DEF Safety!StoreDecision, Safety!Finish, Safety!Waiting
  <2>3. d.at \in Int /\ d.calm \in Int
    BY <1>b, <2>1
  <2>4. CASE decisions' = decisions
    <3>1. BehindLast'
      BY <1>b, <1>c, <1>d, <2>2, <2>4
    <3>2. Rested'
      BY <1>b, <1>c, <1>d, <2>2, <2>4
    <3>3. StoringApart'
      BY <1>b, <1>c, <1>d, <2>2, <2>4
    <3>4. Safety!DecisionsApart'
      BY <2>4
    <3> QED
      BY <3>1, <3>2, <3>3, <3>4
  <2>5. CASE decisions' = decisions \union {d}
    <3>1. BehindLast'
      BY <1>b, <1>c, <1>d, <2>1, <2>2, <2>5
    <3>2. Rested'
      BY <1>b, <1>c, <1>d, <2>1, <2>2, <2>3, <2>5
    <3>3. StoringApart'
      BY <1>b, <1>c, <1>d, <2>1, <2>2, <2>3, <2>5
    <3>4. Safety!DecisionsApart'
      BY <1>b, <1>c, <1>d, <2>1, <2>2, <2>3, <2>5
    <3> QED
      BY <3>1, <3>2, <3>3, <3>4
  <2> QED
    BY <2>1, <2>4, <2>5
<1>5. CASE Safety!Tock
  BY <1>b, <1>c, <1>d, <1>5 DEF Safety!Tock
<1>6. CASE Safety!Reboot
  <2>1. /\ \A p \in Operators : operator'[p].op = "none"
        /\ generation' = generation + 1 /\ UNCHANGED <<decisions, wall>>
    BY <1>6, <1>e DEF Safety!Reboot, Safety!Waiting
  <2>2. BehindLast'
    BY <1>b, <1>c, <1>d, <2>1
  <2>3. Rested'
    BY <1>b, <1>c, <1>d, <2>1
  <2>4. StoringApart'
    BY <1>b, <1>c, <1>d, <2>1
  <2>5. Safety!DecisionsApart'
    BY <1>b, <1>c, <1>d, <2>1
  <2> QED
    BY <2>2, <2>3, <2>4, <2>5
<1>7. CASE UNCHANGED Safety!vars
  BY <1>7 DEF Safety!vars
<1>8. ASSUME NEW o \in Operators, NEW calm \in Cooldowns, Safety!StorePolicy(o, calm)
      PROVE  CooldownInv'
  <2>1. /\ operator'[o].op = "adopt"
        /\ \A p \in Operators \ {o} : operator'[p] = operator[p]
        /\ UNCHANGED <<decisions, last, wall, generation>>
    BY <1>8, <1>e DEF Safety!StorePolicy, Safety!Waiting
  <2>2. BehindLast'
    BY <1>b, <1>c, <1>d, <2>1
  <2>3. Rested'
    BY <1>b, <1>c, <1>d, <2>1
  <2>4. StoringApart'
    BY <1>b, <1>c, <1>d, <2>1
  <2>5. Safety!DecisionsApart'
    BY <1>b, <1>c, <1>d, <2>1
  <2> QED
    BY <2>2, <2>3, <2>4, <2>5
<1>9. ASSUME NEW o \in Operators, Safety!AdoptPolicy(o)
      PROVE  CooldownInv'
  <2>1. /\ operator'[o].op = "none"
        /\ \A p \in Operators \ {o} : operator'[p] = operator[p]
        /\ UNCHANGED <<decisions, last, wall, generation>>
    BY <1>9, <1>e DEF Safety!AdoptPolicy, Safety!Finish, Safety!Waiting
  <2>2. BehindLast'
    BY <1>b, <1>c, <1>d, <2>1
  <2>3. Rested'
    BY <1>b, <1>c, <1>d, <2>1
  <2>4. StoringApart'
    BY <1>b, <1>c, <1>d, <2>1
  <2>5. Safety!DecisionsApart'
    BY <1>b, <1>c, <1>d, <2>1
  <2> QED
    BY <2>2, <2>3, <2>4, <2>5
<1> QED
  BY <1>2, <1>3, <1>4, <1>5, <1>6, <1>7, <1>8, <1>9 DEF Safety!Next

LEMMA NextAdoption ==
  ASSUME CooldownsOK, SafetyTypes, AdoptionInv, [Safety!Next]_(Safety!vars)
  PROVE  AdoptionInv'
<1> USE DEF SafetyTypes, AdoptionInv, Adopting
<1>1. ASSUME NEW o \in Operators, NEW calm \in Cooldowns, Safety!StorePolicy(o, calm)
      PROVE  AdoptionInv'
  <2>1. /\ operator'[o].op = "adopt" /\ operator'[o].calm = calm
        /\ \A p \in Operators \ {o} : operator'[p] = operator[p]
        /\ crossed' = (\E p \in Operators : operator[p].op = "adopt")
        /\ operator[o].op = "none"
    BY <1>1 DEF Safety!StorePolicy, Safety!Waiting
  <2>2. policies' # <<>> /\ policies'[Len(policies')] = calm
    BY <1>1 DEF Safety!StorePolicy
  <2> QED
    BY <2>1, <2>2
<1>2. ASSUME NEW o \in Operators, Safety!AdoptPolicy(o)
      PROVE  AdoptionInv'
  <2>1. /\ operator[o].op = "adopt" /\ operator'[o].op = "none"
        /\ inForce' = operator[o].calm
        /\ \A p \in Operators \ {o} : operator'[p] = operator[p]
        /\ UNCHANGED <<policies, crossed>>
    BY <1>2 DEF Safety!AdoptPolicy, Safety!Finish, Safety!Waiting
  <2> QED
    BY <2>1
<1>3. ASSUME NEW o \in Operators, Safety!CheckCooldown(o)
      PROVE  AdoptionInv'
  <2>1. /\ operator[o].op = "none" /\ operator'[o].op = "decide"
        /\ \A p \in Operators \ {o} : operator'[p] = operator[p]
        /\ UNCHANGED <<policies, crossed, inForce>>
    BY <1>3 DEF Safety!CheckCooldown, Safety!Waiting
  <2> QED
    BY <2>1
<1>4. ASSUME NEW o \in Operators, Safety!SetCooldown(o)
      PROVE  AdoptionInv'
  <2>1. /\ operator[o].op = "decide" /\ operator'[o].op \in {"store", "shared"}
        /\ \A p \in Operators \ {o} : operator'[p] = operator[p]
        /\ UNCHANGED <<policies, crossed, inForce>>
    BY <1>4 DEF Safety!SetCooldown, Request
  <2> QED
    BY <2>1
<1>5. ASSUME NEW o \in Operators, NEW ok \in BOOLEAN, Safety!StoreDecision(o, ok)
      PROVE  AdoptionInv'
  <2>1. /\ operator[o].op \in {"store", "shared"} /\ operator'[o].op = "none"
        /\ \A p \in Operators \ {o} : operator'[p] = operator[p]
        /\ UNCHANGED <<policies, crossed, inForce>>
    BY <1>5 DEF Safety!StoreDecision, Safety!Finish, Safety!Waiting
  <2> QED
    BY <2>1
<1>6. CASE Safety!Tock
  BY <1>6 DEF Safety!Tock
<1>7. CASE Safety!Reboot
  BY <1>7 DEF Safety!Reboot, Safety!Waiting
<1>8. CASE UNCHANGED Safety!vars
  BY <1>8 DEF Safety!vars
<1> QED
  BY <1>1, <1>2, <1>3, <1>4, <1>5, <1>6, <1>7, <1>8 DEF Safety!Next

(* Together they are an invariant of the evaluations, and give their two   *)
(* promises.                                                               *)
SafetyInv == SafetyTypes /\ CooldownInv /\ AdoptionInv

LEMMA SafetyInvInductive ==
  ASSUME CooldownsOK
  PROVE  /\ Safety!Init => SafetyInv
         /\ SafetyInv /\ [Safety!Next]_(Safety!vars) => SafetyInv'
         /\ SafetyInv => Safety!SafetySound
<1>1. Safety!Init => SafetyInv
  <2> SUFFICES ASSUME Safety!Init
               PROVE  SafetyTypes /\ CooldownInv /\ AdoptionInv
    BY DEF SafetyInv
  <2>1. \A o \in Operators : operator[o].op = "none"
    BY DEF Safety!Init, Safety!Waiting
  <2>2. decisions = {} /\ policies = <<>>
    BY DEF Safety!Init
  <2> QED
    BY InitSafety, <2>1, <2>2
       DEF CooldownInv, BehindLast, Rested, StoringApart, Safety!DecisionsApart, Storing,
           Safety!Deciding, AdoptionInv, Adopting
<1>2. SafetyInv /\ [Safety!Next]_(Safety!vars) => SafetyInv'
  BY NextSafety, NextCooldown, NextAdoption DEF SafetyInv
<1>3. SafetyInv => Safety!SafetySound
  BY DEF SafetyInv, CooldownInv, AdoptionInv, Adopting, Safety!SafetySound, Safety!PolicyInForce
<1> QED
  BY <1>1, <1>2, <1>3

-----------------------------------------------------------------------------
(* A mission *)

(* What a client can post: the schema of a request refuses coordinates out *)
(* of range.                                                               *)
Item == [sequence : Nat, command : STRING, inBounds : BOOLEAN, position : STRING \ {"invalid"}]
PayloadsOK == Payloads \subseteq Seq(Item)

LEMMA OrderOfTwo ==
  ASSUME NEW a \in Int, NEW b \in Int, NEW i \in Int, NEW j \in Int, a = b => j = i
  PROVE  (a < b \/ (a = b /\ j <= i)) <=> a <= b
  OBVIOUS

LEMMA SameCardinality == \A S : Mission!Cardinality(S) = Cardinality(S)
  BY DEF Mission!Cardinality, Cardinality

(* Of n items with the numbers 1..n, as many as its number are not after   *)
(* an item.                                                                *)
LEMMA RankIsNumber ==
  ASSUME NEW n \in Nat, NEW f \in [1..n -> 1..n], NEW i \in 1..n,
         \A k \in 1..n : \E j \in 1..n : f[j] = k
  PROVE  Cardinality({j \in 1..n : f[j] < f[i] \/ (f[j] = f[i] /\ j <= i)}) = f[i]
<1> DEFINE S == {j \in 1..n : f[j] <= f[i]}
           g == [j \in S |-> f[j]]
<1>1. IsFiniteSet(1..n) /\ IsFiniteSet(S)
  BY FS_Interval, FS_Subset
<1>2. f \in Injection(1..n, 1..n)
  <2>1. f \in Surjection(1..n, 1..n)
    BY DEF Surjection
  <2> QED
    BY <1>1, <2>1, FS_Surjection
<1>3. \A j, k \in 1..n : f[j] = f[k] => j = k
  BY <1>2 DEF Injection, IsInjective
<1>4. {j \in 1..n : f[j] < f[i] \/ (f[j] = f[i] /\ j <= i)} = S
  <2>1. ASSUME NEW j \in 1..n
        PROVE  (f[j] < f[i] \/ (f[j] = f[i] /\ j <= i)) <=> f[j] <= f[i]
    <3>1. f[j] \in Int /\ f[i] \in Int /\ j \in Int /\ i \in Int /\ (f[j] = f[i] => j = i)
      BY <1>3
    <3> QED
      BY <3>1, OrderOfTwo
  <2> QED
    BY <2>1
<1>5. f[i] \in Nat /\ f[i] >= 1 /\ f[i] <= n
  OBVIOUS
<1>6. g \in Surjection(S, 1..f[i]) /\ g \in Injection(S, 1..f[i])
  <2>1. ASSUME NEW k \in 1..f[i]
        PROVE  \E j \in S : f[j] = k
    <3>1. k \in 1..n /\ k <= f[i]
      BY <1>5
    <3>2. PICK j \in 1..n : f[j] = k
      BY <3>1
    <3> QED
      BY <3>1, <3>2
  <2>2. \A j \in S : f[j] \in 1..f[i]
    BY <1>5
  <2> QED
    BY <1>3, <2>1, <2>2 DEF Surjection, Injection, IsInjective
<1>7. Cardinality(1..f[i]) = Cardinality(S)
  BY <1>1, <1>6, FS_Surjection
<1>8. Cardinality(1..f[i]) = f[i]
  BY <1>5, FS_Interval
<1> QED
  BY <1>4, <1>7, <1>8

(* In a valid list the numbers 1..n occur once each, so a stable sort puts *)
(* the item numbered k in place k.                                         *)
LEMMA PlaceIsNumber ==
  ASSUME NEW given \in Seq(Item), Mission!Valid(given), NEW i \in DOMAIN given
  PROVE  Mission!Place(given, i) = given[i].sequence
<1>1. PICK n \in Nat : n = Len(given) /\ DOMAIN given = 1..n
  OBVIOUS
<1>2. PICK f : f = [j \in 1..n |-> given[j].sequence]
  OBVIOUS
<1>3. \A j \in 1..n : f[j] = given[j].sequence
  BY <1>2
<1>4. {given[j].sequence : j \in 1..n} = 1..n
  BY <1>1 DEF Mission!Valid
<1>5. f \in [1..n -> 1..n] /\ \A k \in 1..n : \E j \in 1..n : f[j] = k
  BY <1>2, <1>4
<1>6. i \in 1..n
  BY <1>1
<1>7. Cardinality({j \in 1..n : f[j] < f[i] \/ (f[j] = f[i] /\ j <= i)}) = f[i]
  BY <1>5, <1>6, RankIsNumber
<1>8. {j \in 1..n : f[j] < f[i] \/ (f[j] = f[i] /\ j <= i)}
        = {j \in DOMAIN given : \/ given[j].sequence < given[i].sequence
                                \/ given[j].sequence = given[i].sequence /\ j <= i}
  BY <1>1, <1>3, <1>6
<1>9. Mission!Place(given, i) = Cardinality({j \in 1..n : f[j] < f[i] \/ (f[j] = f[i] /\ j <= i)})
  BY <1>8, SameCardinality DEF Mission!Place
<1> QED
  BY <1>3, <1>6, <1>7, <1>9

(* What a valid list becomes: an item for each number, in its place.       *)
LEMMA PlanOfList ==
  ASSUME NEW given \in Seq(Item), Mission!Valid(given)
  PROVE  LET plan == Mission!Translate(Mission!Compile(given))
         IN  /\ Len(plan) = Len(given) /\ DOMAIN plan = 1..Len(given)
             /\ \A k \in 1..Len(given) :
                   /\ plan[k].seq = k - 1
                   /\ plan[k].current = (k = 1)
                   /\ plan[k].at \notin {"none", "invalid"}
                   /\ \E j \in DOMAIN given : /\ given[j].sequence = k
                                             /\ given[j].command = plan[k].command
<1> DEFINE n == Len(given)
           at(k) == given[CHOOSE i \in DOMAIN given : Mission!Place(given, i) = k]
           c == Mission!Compile(given)
           plan == Mission!Translate(c)
<1>1. n \in Nat /\ DOMAIN given = 1..n
  OBVIOUS
<1>2. ASSUME NEW k \in 1..n
      PROVE  \E j \in 1..n : given[j].sequence = k /\ at(k) = given[j]
  <2>1. \E i \in 1..n : given[i].sequence = k
    BY <1>1 DEF Mission!Valid
  <2>2. \A i \in 1..n : Mission!Place(given, i) = given[i].sequence
    BY <1>1, PlaceIsNumber
  <2>3. \E i \in DOMAIN given : Mission!Place(given, i) = k
    BY <1>1, <2>1, <2>2
  <2> DEFINE i0 == CHOOSE i \in DOMAIN given : Mission!Place(given, i) = k
  <2>4. i0 \in DOMAIN given /\ Mission!Place(given, i0) = k
    BY <2>3
  <2> QED
    BY <1>1, <2>2, <2>4
<1>3. c = [k \in 1..n |-> [at(k) EXCEPT !.position = IF @ = "none" THEN "home" ELSE @]]
  BY <1>1 DEF Mission!Compile
<1>4. ASSUME NEW k \in 1..n
      PROVE  /\ c[k].position \notin {"none", "invalid"}
             /\ \E j \in 1..n : given[j].sequence = k /\ given[j].command = c[k].command
  <2>1. PICK j \in 1..n : given[j].sequence = k /\ at(k) = given[j]
    BY <1>2
  <2>2. given[j] \in Item
    BY <1>1
  <2>3. c[k] = [given[j] EXCEPT !.position = IF @ = "none" THEN "home" ELSE @]
    BY <1>3, <2>1
  <2> HIDE DEF c
  <2>4. /\ c[k].command = given[j].command
        /\ c[k].position = IF given[j].position = "none" THEN "home" ELSE given[j].position
    BY <2>2, <2>3 DEF Item
  <2>5. given[j].position # "invalid"
    BY <2>2 DEF Item
  <2>6. c[k].position \notin {"none", "invalid"}
    BY <2>4, <2>5
  <2> QED
    BY <2>1, <2>4, <2>5, <2>6
<1>5. plan = [k \in 1..n |-> [seq |-> k - 1, command |-> c[k].command,
                              current |-> k = 1, at |-> c[k].position]]
  BY <1>3 DEF Mission!Translate
<1> HIDE DEF c, plan
<1>6. DOMAIN plan = 1..n /\ plan = [k \in 1..n |-> plan[k]]
  BY <1>5
<1>7. Len(plan) = n
  <2>1. PICK T : T = {plan[k] : k \in 1..n}
    OBVIOUS
  <2>2. plan \in Seq(T)
    BY <1>1, <1>6, <2>1
  <2> QED
    BY <1>1, <1>6, <2>2
<1>8. ASSUME NEW k \in 1..n
      PROVE  /\ plan[k].seq = k - 1 /\ plan[k].current = (k = 1)
             /\ plan[k].command = c[k].command /\ plan[k].at = c[k].position
  BY <1>5
<1>9. ASSUME NEW k \in 1..n
      PROVE  /\ plan[k].seq = k - 1
             /\ plan[k].current = (k = 1)
             /\ plan[k].at \notin {"none", "invalid"}
             /\ \E j \in DOMAIN given : /\ given[j].sequence = k
                                       /\ given[j].command = plan[k].command
  <2>1. plan[k].at \notin {"none", "invalid"}
    BY <1>4, <1>8
  <2>2. \E j \in DOMAIN given : given[j].sequence = k /\ given[j].command = plan[k].command
    <3>1. PICK j \in 1..n : given[j].sequence = k /\ given[j].command = c[k].command
      BY <1>4
    <3>2. plan[k].command = c[k].command
      BY <1>8
    <3> QED
      BY <1>1, <3>1, <3>2
  <2> QED
    BY <1>8, <2>1, <2>2
<1> QED
  BY <1>6, <1>7, <1>9 DEF c, plan

MissionCaller ==
  [op : Mission!Ops \union {"none"}, pc : {"idle", "commit", "progress"},
   was : Mission!MissionStatus, stale : BOOLEAN]

MissionTypes ==
  /\ payload \in Payloads
  /\ mission \in Mission!MissionStatus /\ progress \in Mission!MissionStatus
  /\ items \in {<<>>, payload}
  /\ caller \in [Callers -> MissionCaller]
  /\ aborted \in BOOLEAN /\ overtaken \in BOOLEAN /\ telemetry \in BOOLEAN

(* Nothing happens before the creation, which only a valid list passes,    *)
(* and the vehicle holds nothing but the plan of that list.                *)
PostedInv ==
  /\ mission # "none" => Mission!Valid(payload)
  /\ mission = "none" => /\ progress = "none" /\ flight = <<>>
                         /\ \A c \in Callers : caller[c].pc = "idle"
  /\ flight \in {<<>>, Mission!Translate(Mission!Compile(payload))}

(* A request that nobody overtook commits over the status it loaded, and   *)
(* reports the status it committed.                                        *)
CallerOK(c) ==
  /\ caller[c].pc = "commit" =>
        /\ caller[c].op # "none"
        /\ ~caller[c].stale => caller[c].was = mission
        /\ caller[c].op = "start" => caller[c].was \in {"READY", "PAUSED"}
        /\ caller[c].op = "pause" => caller[c].was = "RUNNING"
  /\ caller[c].pc = "progress" =>
        /\ caller[c].op \notin {"none", "validate"}
        /\ ~caller[c].stale => mission = Mission!StatusOf(caller[c].op)
CallersInv == \A c \in Callers : CallerOK(c)

MissionInv ==
  MissionTypes /\ PostedInv /\ CallersInv /\ Mission!AbortSticks /\ Mission!ProgressAgrees

LEMMA IdleCaller == Mission!NoCaller \in MissionCaller /\ Mission!NoCaller.pc = "idle"
  BY DEF Mission!NoCaller, MissionCaller, Mission!MissionStatus

LEMMA InitMission == Mission!Init => MissionInv
  BY IdleCaller DEF Mission!Init, MissionInv, MissionTypes, PostedInv, CallersInv, CallerOK,
     Mission!AbortSticks, Mission!ProgressAgrees, Mission!MissionStatus

LEMMA NextMission ==
  ASSUME PayloadsOK, MissionInv, [Mission!Next]_(Mission!vars)
  PROVE  MissionInv'
<1> USE DEF MissionInv, MissionTypes
<1>1. CASE Mission!CreateRow
  <2>1. /\ mission = "none" /\ mission' = "CREATED" /\ Mission!Valid(payload)
        /\ UNCHANGED <<payload, items, progress, flight, caller, aborted, overtaken, telemetry>>
    BY <1>1 DEF Mission!CreateRow, Mission!histories
  <2>2. MissionTypes'
    BY <2>1 DEF Mission!MissionStatus
  <2>3. PostedInv' /\ CallersInv'
    BY <2>1 DEF PostedInv, CallersInv, CallerOK
  <2>4. (Mission!AbortSticks /\ Mission!ProgressAgrees)'
    BY <2>1 DEF PostedInv, Mission!AbortSticks, Mission!ProgressAgrees
  <2> QED
    BY <2>2, <2>3, <2>4

<1>2. CASE Mission!CreateItems
  <2>1. /\ items' = payload
        /\ UNCHANGED <<payload, mission, progress, flight, caller, aborted, overtaken, telemetry>>
    BY <1>2 DEF Mission!CreateItems, Mission!histories
  <2> QED
    BY <2>1 DEF PostedInv, CallersInv, CallerOK, Mission!AbortSticks, Mission!ProgressAgrees
<1>3. ASSUME NEW c \in Callers, NEW op \in Mission!Ops, Mission!Load(c, op)
      PROVE  MissionInv'
  <2>1. /\ caller[c].pc = "idle" /\ mission # "none" /\ Mission!Permitted(op)
        /\ telemetry' = FALSE
        /\ UNCHANGED <<payload, mission, items, progress, flight, aborted, overtaken>>
    BY <1>3 DEF Mission!Load
  <2>2. PICK q \in MissionCaller : /\ caller' = [caller EXCEPT ![c] = q]
                                   /\ q.op = op /\ q.pc = "commit" /\ q.was = mission
                                   /\ ~q.stale
    <3> DEFINE q == [op |-> op, pc |-> "commit", was |-> mission, stale |-> FALSE]
    <3>1. q \in MissionCaller
      BY DEF MissionCaller
    <3> QED
      BY <1>3, <3>1 DEF Mission!Load
  <2>3. /\ caller'[c] = q
        /\ \A d \in Callers \ {c} : caller'[d] = caller[d]
    BY <2>2
  <2>4. /\ op = "start" => mission \in {"READY", "PAUSED"}
        /\ op = "pause" => mission = "RUNNING"
        /\ op # "none"
    BY <2>1 DEF Mission!Permitted, Mission!Ops
  <2>5. MissionTypes'
    BY <2>1, <2>2
  <2>6. PostedInv' /\ CallersInv'
    BY <2>1, <2>2, <2>3, <2>4 DEF PostedInv, CallersInv, CallerOK
  <2>7. (Mission!AbortSticks /\ Mission!ProgressAgrees)'
    BY <2>1, <2>2, <2>3 DEF Mission!AbortSticks, Mission!ProgressAgrees
  <2> QED
    BY <2>5, <2>6, <2>7
<1>4. ASSUME NEW c \in Callers, Mission!Commit(c)
      PROVE  MissionInv'
  <2> DEFINE op == caller[c].op
  <2>1. /\ caller[c].pc = "commit"
        /\ mission' = IF caller[c].was = Mission!StatusOf(op) THEN mission
                      ELSE Mission!StatusOf(op)
        /\ flight' = IF op = "upload" THEN Mission!Translate(Mission!Compile(items)) ELSE flight
        /\ aborted' = (op = "abort" \/ (aborted /\ op # "upload"))
        /\ overtaken' = (overtaken \/ caller[c].stale)
        /\ UNCHANGED <<payload, items, progress, telemetry>>
    BY <1>4 DEF Mission!Commit, Mission!Update
  <2>2. /\ op \in Mission!Ops /\ caller[c].was \in Mission!MissionStatus
        /\ caller[c].stale \in BOOLEAN
        /\ ~caller[c].stale => caller[c].was = mission
        /\ op = "start" => caller[c].was \in {"READY", "PAUSED"}
        /\ op = "pause" => caller[c].was = "RUNNING"
        /\ mission # "none"
    <3>1. caller[c] \in MissionCaller
      OBVIOUS
    <3> QED
      BY <2>1, <3>1 DEF CallersInv, CallerOK, PostedInv, MissionCaller
  <2>3. /\ Mission!StatusOf(op) \in Mission!MissionStatus \ {"none"}
        /\ op = "validate" => Mission!StatusOf(op) = "VALIDATED"
        /\ op = "upload" => Mission!StatusOf(op) = "READY"
        /\ op = "start" => Mission!StatusOf(op) = "RUNNING"
        /\ op = "pause" => Mission!StatusOf(op) = "PAUSED"
        /\ op = "abort" => Mission!StatusOf(op) = "ABORTED"
    BY <2>2 DEF Mission!StatusOf, Mission!Ops, Mission!MissionStatus
  <2>4. /\ op = "validate" => caller'[c] = Mission!NoCaller
        /\ op # "validate" => caller'[c] = [caller[c] EXCEPT !.pc = "progress"]
        /\ \A d \in Callers \ {c} : caller[d].pc = "idle" => caller'[d] = Mission!NoCaller
        /\ \A d \in Callers \ {c} :
               caller[d].pc # "idle" => caller'[d] = [caller[d] EXCEPT !.stale = TRUE]
        /\ DOMAIN caller' = Callers /\ caller' = [d \in Callers |-> caller'[d]]
    BY <1>4 DEF Mission!Commit
  <2>5. /\ ~caller[c].stale => mission' = Mission!StatusOf(op)
        /\ mission' \in Mission!MissionStatus \ {"none"}
    BY <2>1, <2>2, <2>3
  <2>6. /\ caller'[c] \in MissionCaller
        /\ op = "validate" => caller'[c].pc = "idle"
        /\ op # "validate" => /\ caller'[c].pc = "progress" /\ caller'[c].op = op
                              /\ caller'[c].stale = caller[c].stale
    <3>1. caller[c] \in MissionCaller
      OBVIOUS
    <3>2. CASE op = "validate"
      BY <2>4, <3>2, IdleCaller
    <3>3. CASE op # "validate"
      BY <2>4, <3>1, <3>3 DEF MissionCaller
    <3> QED
      BY <3>2, <3>3
  <2>7. ASSUME NEW d \in Callers \ {c}
        PROVE  caller'[d] \in MissionCaller /\ (caller'[d].pc # "idle" => caller'[d].stale)
               /\ caller'[d].pc = caller[d].pc
               /\ (caller'[d].pc # "idle" => /\ caller'[d].op = caller[d].op
                                             /\ caller'[d].was = caller[d].was)
    <3>1. caller[d] \in MissionCaller
      OBVIOUS
    <3>2. CASE caller[d].pc = "idle"
      BY <2>4, <3>2, IdleCaller
    <3>3. CASE caller[d].pc # "idle"
      <4>1. caller'[d] = [caller[d] EXCEPT !.stale = TRUE]
        BY <2>4, <3>3
      <4> QED
        BY <3>1, <3>3, <4>1 DEF MissionCaller
    <3> QED
      BY <3>2, <3>3
  <2>8. MissionTypes'
    <3>1. caller' \in [Callers -> MissionCaller]
      BY <2>4, <2>6, <2>7
    <3> QED
      BY <2>1, <2>2, <2>5, <3>1
  <2>9. PostedInv'
    <3>1. Mission!Translate(Mission!Compile(<<>>)) = <<>>
      BY DEF Mission!Translate, Mission!Compile
    <3> QED
      BY <2>1, <2>2, <2>5, <3>1 DEF PostedInv
  <2>10. CallersInv'
    <3>1. CallerOK(c)'
      BY <2>2, <2>5, <2>6 DEF CallerOK, Mission!Ops
    <3>2. ASSUME NEW d \in Callers \ {c}
          PROVE  CallerOK(d)'
      BY <2>7 DEF CallersInv, CallerOK
    <3> QED
      BY <3>1, <3>2 DEF CallersInv
  <2>11. Mission!AbortSticks'
    BY <2>1, <2>2, <2>3, <2>5 DEF Mission!AbortSticks, Mission!Ops
  <2>12. Mission!ProgressAgrees'
    <3>1. CASE op = "validate"
      BY <2>1, <2>3, <2>5, <3>1 DEF Mission!ProgressAgrees
    <3>2. CASE op # "validate"
      BY <2>6, <3>2 DEF Mission!ProgressAgrees
    <3> QED
      BY <3>1, <3>2
  <2> QED
    BY <2>8, <2>9, <2>10, <2>11, <2>12
<1>5. ASSUME NEW c \in Callers, Mission!Report(c)
      PROVE  MissionInv'
  <2>1. /\ caller[c].pc = "progress" /\ caller[c].op \in Mission!Ops
        /\ caller[c].stale \in BOOLEAN
        /\ progress' = IF caller[c].op = "upload" \/ progress # "none"
                       THEN Mission!StatusOf(caller[c].op) ELSE "none"
        /\ overtaken' = (overtaken \/ caller[c].stale)
        /\ UNCHANGED <<payload, mission, items, flight, aborted, telemetry>>
    <3>1. caller[c] \in MissionCaller
      OBVIOUS
    <3> QED
      BY <1>5, <3>1 DEF Mission!Report, CallersInv, CallerOK, MissionCaller
  <2>2. /\ caller'[c] = Mission!NoCaller /\ caller'[c].pc = "idle"
        /\ \A d \in Callers \ {c} : caller'[d] = caller[d]
        /\ caller' \in [Callers -> MissionCaller]
    BY <1>5, IdleCaller DEF Mission!Report
  <2>3. Mission!StatusOf(caller[c].op) \in Mission!MissionStatus
    BY <2>1 DEF Mission!StatusOf, Mission!Ops, Mission!MissionStatus
  <2>4. mission # "none" /\ (~caller[c].stale => mission = Mission!StatusOf(caller[c].op))
    BY <2>1 DEF PostedInv, CallersInv, CallerOK
  <2>5. MissionTypes'
    BY <2>1, <2>2, <2>3 DEF Mission!MissionStatus
  <2>6. PostedInv' /\ CallersInv'
    BY <2>1, <2>2, <2>4 DEF PostedInv, CallersInv, CallerOK
  <2>7. (Mission!AbortSticks /\ Mission!ProgressAgrees)'
    BY <2>1, <2>4 DEF Mission!AbortSticks, Mission!ProgressAgrees
  <2> QED
    BY <2>5, <2>6, <2>7
<1>6. ASSUME NEW done \in BOOLEAN, Mission!Telemetry(done)
      PROVE  MissionInv'
  <2>1. /\ flight # <<>> /\ mission' = (IF done THEN "COMPLETED" ELSE mission)
        /\ progress' \in {"COMPLETED", "RUNNING"} /\ telemetry' = TRUE
        /\ UNCHANGED <<payload, items, flight, aborted, overtaken>>
    BY <1>6 DEF Mission!Telemetry
  <2>2. ASSUME NEW d \in Callers
        PROVE  caller'[d] \in MissionCaller /\ (caller'[d].pc # "idle" => caller'[d].stale)
               /\ caller'[d].pc = caller[d].pc
               /\ (caller'[d].pc # "idle" => /\ caller'[d].op = caller[d].op
                                             /\ caller'[d].was = caller[d].was)
    <3>1. caller[d] \in MissionCaller
      OBVIOUS
    <3>2. CASE caller[d].pc = "idle"
      <4>1. caller'[d] = Mission!NoCaller
        BY <1>6, <3>2 DEF Mission!Telemetry
      <4> QED
        BY <3>2, <4>1, IdleCaller
    <3>3. CASE caller[d].pc # "idle"
      <4>1. caller'[d] = [caller[d] EXCEPT !.stale = TRUE]
        BY <1>6, <3>3 DEF Mission!Telemetry
      <4> QED
        BY <3>1, <3>3, <4>1 DEF MissionCaller
    <3> QED
      BY <3>2, <3>3
  <2>3. caller' \in [Callers -> MissionCaller]
    <3>1. caller' = [d \in Callers |-> caller'[d]]
      BY <1>6 DEF Mission!Telemetry
    <3> QED
      BY <2>2, <3>1
  <2>4. mission # "none"
    BY <2>1 DEF PostedInv
  <2>5. MissionTypes'
    BY <2>1, <2>3 DEF Mission!MissionStatus
  <2>6. PostedInv'
    BY <2>1, <2>4 DEF PostedInv
  <2>7. CallersInv'
    BY <2>2 DEF CallersInv, CallerOK
  <2>8. (Mission!AbortSticks /\ Mission!ProgressAgrees)'
    BY <2>1 DEF Mission!AbortSticks, Mission!ProgressAgrees
  <2> QED
    BY <2>5, <2>6, <2>7, <2>8
<1>7. CASE Mission!Restart
  <2>1. /\ progress' = "none" /\ caller' = [c \in Callers |-> Mission!NoCaller]
        /\ UNCHANGED <<payload, mission, items, flight, aborted, overtaken, telemetry>>
    BY <1>7 DEF Mission!Restart, Mission!histories
  <2>2. \A c \in Callers : caller'[c].pc = "idle"
    BY <2>1, IdleCaller
  <2>3. MissionTypes'
    BY <2>1, IdleCaller DEF Mission!MissionStatus
  <2>4. PostedInv' /\ CallersInv'
    BY <2>1, <2>2 DEF PostedInv, CallersInv, CallerOK
  <2>5. (Mission!AbortSticks /\ Mission!ProgressAgrees)'
    BY <2>1 DEF Mission!AbortSticks, Mission!ProgressAgrees
  <2> QED
    BY <2>3, <2>4, <2>5
<1>8. CASE UNCHANGED Mission!vars
  BY <1>8 DEF Mission!vars, PostedInv, CallersInv, CallerOK, Mission!AbortSticks,
     Mission!ProgressAgrees
<1> QED
  BY <1>1, <1>2, <1>3, <1>4, <1>5, <1>6, <1>7, <1>8 DEF Mission!Next

LEMMA FlightIsPlan ==
  ASSUME PayloadsOK, MissionTypes, PostedInv
  PROVE  Mission!FlightMatchesPlan
<1> SUFFICES ASSUME flight # <<>>
             PROVE  Mission!FlightMatchesPlan
  BY DEF Mission!FlightMatchesPlan
<1>1. /\ flight = Mission!Translate(Mission!Compile(payload))
      /\ Mission!Valid(payload) /\ payload \in Seq(Item)
  BY DEF PostedInv, MissionTypes, PayloadsOK
<1> QED
  BY <1>1, PlanOfList DEF Mission!FlightMatchesPlan

LEMMA MissionInvSound ==
  ASSUME PayloadsOK, MissionInv
  PROVE  /\ Mission!TypeOK /\ Mission!FlightMatchesPlan
         /\ Mission!AbortSticks /\ Mission!ProgressAgrees
<1>1. Mission!AbortSticks /\ Mission!ProgressAgrees
  BY DEF MissionInv
<1>2. \A c \in Callers : caller[c] \in MissionCaller
  BY DEF MissionInv, MissionTypes
<1>3. Mission!TypeOK /\ Mission!FlightMatchesPlan
  BY <1>2, FlightIsPlan DEF MissionInv, MissionTypes, Mission!TypeOK, MissionCaller
<1> QED
  BY <1>1, <1>3

-----------------------------------------------------------------------------
(* The rows of a swarm and its cached engine *)

MemberRow == [nr : Int, id : Vehicles, role : Control!Roles, slot : Nat]
SwarmClient ==
  [op : {"none", "create", "add", "remove", "update", "delete", "read"},
   pc : {"idle", "members", "commit", "invalidate"}, rows : SUBSET MemberRow,
   leader : Vehicles \union {NoVehicle}, arg : Vehicles \union {NoVehicle},
   slot : Nat \union {-1}]

(* Clients ask for slots by their numbers, and rosters list vehicles.      *)
SwarmOK ==
  /\ IsFiniteSet(Clients)
  /\ Explicit \subseteq Nat
  /\ Rosters \subseteq Seq(Vehicles)

ControlTypes ==
  /\ row \in [made : BOOLEAN, exists : BOOLEAN, leader : Vehicles \union {NoVehicle}]
  /\ rows \subseteq MemberRow /\ IsFiniteSet(rows)
  /\ client \in [Clients -> SwarmClient]
  /\ \A c \in Clients : IsFiniteSet(client[c].rows)
  /\ IsFiniteSet(engines.members)
  /\ changes \in Nat
  /\ overlapped \subseteq Clients
  /\ outdated \in BOOLEAN /\ gaps \in BOOLEAN

(* Before the creation there is nothing.                                   *)
MadeInv ==
  ~row.made => /\ ~row.exists /\ rows = {} /\ engines = Control!NoEngine
               /\ \A c \in Clients : client[c].pc = "idle"

(* An edit in flight drops the engine when it is done, and whoever loaded  *)
(* the rows before no other commit knows them as they are.                 *)
Knows(c) ==
  /\ client[c].pc = "idle" => client[c] = Control!Idle
  /\ client[c].pc = "members" => client[c].op = "create"
  /\ client[c].pc = "commit" => client[c].op \in {"add", "remove", "update", "delete", "read"}
  /\ client[c].pc = "commit" /\ client[c].op = "add" => client[c].arg \in Vehicles
  /\ client[c].pc = "invalidate" => client[c].op \in {"add", "remove", "update", "delete"}
  /\ client[c].op = "read" => client[c].pc = "commit"
  /\ client[c].pc = "commit" /\ c \notin overlapped
        => client[c].rows = rows /\ client[c].leader = row.leader
KnowInv == \A c \in Clients : Knows(c)

ControlInv ==
  ControlTypes /\ MadeInv /\ KnowInv /\ Control!CacheFresh /\ Control!SlotsOwn

LEMMA ControlCardinality == \A S : Control!Cardinality(S) = Cardinality(S)
  BY DEF Control!Cardinality, Cardinality

LEMMA IdleClient ==
  /\ Control!Idle \in SwarmClient
  /\ Control!Idle.pc = "idle" /\ Control!Idle.op = "none" /\ Control!Idle.rows = {}
  /\ IsFiniteSet(Control!Idle.rows)
  BY FS_EmptySet DEF Control!Idle, SwarmClient

(* What a client has done when it leaves, and what the others meet when it *)
(* commits.                                                                *)
LEMMA ClientLeaves ==
  ASSUME ControlTypes, NEW c \in Clients, Control!Leave(c)
  PROVE  /\ client' \in [Clients -> SwarmClient]
         /\ \A d \in Clients : IsFiniteSet(client'[d].rows)
         /\ client'[c] = Control!Idle
         /\ \A d \in Clients \ {c} : client'[d] = client[d] /\ (d \in overlapped' <=> d \in overlapped)
         /\ overlapped' \subseteq Clients
<1>1. client' = [client EXCEPT ![c] = Control!Idle] /\ overlapped' = overlapped \ {c}
  BY DEF Control!Leave
<1> QED
  BY <1>1, IdleClient DEF ControlTypes

LEMMA ClientCommits ==
  ASSUME ControlTypes, NEW c \in Clients, NEW pc \in {"idle", "invalidate"},
         Control!Commit(c, pc)
  PROVE  /\ client' \in [Clients -> SwarmClient]
         /\ \A d \in Clients : IsFiniteSet(client'[d].rows)
         /\ client'[c].pc = pc
         /\ pc = "idle" => client'[c] = Control!Idle
         /\ pc = "invalidate" => client'[c].op = client[c].op
         /\ \A d \in Clients \ {c} :
               client'[d] = client[d] /\ (client[d].pc # "idle" => d \in overlapped')
         /\ overlapped' \subseteq Clients
<1>1. /\ client' = [client EXCEPT ![c] = IF pc = "idle" THEN Control!Idle
                                         ELSE [client[c] EXCEPT !.pc = pc]]
      /\ overlapped' = (overlapped \union {d \in Clients : client[d].pc # "idle"}) \ {c}
  BY DEF Control!Commit, Control!Busy
<1>2. client[c] \in SwarmClient
  BY DEF ControlTypes
<1>3. PICK new \in SwarmClient :
         /\ client' = [client EXCEPT ![c] = new]
         /\ new.pc = pc /\ IsFiniteSet(new.rows)
         /\ pc = "idle" => new = Control!Idle
         /\ pc = "invalidate" => new.op = client[c].op
  <2>1. CASE pc = "idle"
    BY <1>1, <2>1, IdleClient
  <2>2. CASE pc = "invalidate"
    <3>1. PICK q \in SwarmClient : q = client[c]
      BY <1>2
    <3>2. PICK n : n = [q EXCEPT !.pc = "invalidate"]
      OBVIOUS
    <3>3. n \in SwarmClient /\ n.pc = "invalidate" /\ n.rows = q.rows /\ n.op = q.op
      BY <3>2 DEF SwarmClient
    <3>4. client' = [client EXCEPT ![c] = n]
      BY <1>1, <2>2, <3>1, <3>2
    <3>5. IsFiniteSet(n.rows)
      BY <3>1, <3>3 DEF ControlTypes
    <3> QED
      BY <2>2, <3>1, <3>3, <3>4, <3>5
  <2> QED
    BY <2>1, <2>2
<1>4. overlapped' \subseteq Clients /\ \A d \in Clients \ {c} : client[d].pc # "idle" => d \in overlapped'
  BY <1>1 DEF ControlTypes
<1>5. /\ client' \in [Clients -> SwarmClient] /\ client'[c] = new
      /\ \A d \in Clients \ {c} : client'[d] = client[d]
  BY <1>3 DEF ControlTypes
<1>6. \A d \in Clients : IsFiniteSet(client'[d].rows)
  BY <1>3, <1>5 DEF ControlTypes
<1> QED
  BY <1>3, <1>4, <1>5, <1>6

LEMMA ClientEnters ==
  ASSUME ControlTypes, NEW c \in Clients,
         NEW op \in {"add", "remove", "update", "delete", "read"},
         NEW arg \in Vehicles \union {NoVehicle}, NEW slot \in Nat \union {-1},
         Control!Enter(c, op, arg, slot)
  PROVE  /\ client' \in [Clients -> SwarmClient]
         /\ \A d \in Clients : IsFiniteSet(client'[d].rows)
         /\ row.exists /\ client[c] = Control!Idle
         /\ client'[c].pc = "commit" /\ client'[c].op = op /\ client'[c].arg = arg
         /\ client'[c].rows = rows /\ client'[c].leader = row.leader
         /\ \A d \in Clients \ {c} : client'[d] = client[d]
<1> DEFINE new == [op |-> op, pc |-> "commit", rows |-> rows, leader |-> row.leader,
                   arg |-> arg, slot |-> slot]
<1>1. client' = [client EXCEPT ![c] = new] /\ row.exists /\ client[c] = Control!Idle
  BY DEF Control!Enter
<1>2. row.leader \in Vehicles \union {NoVehicle} /\ rows \subseteq MemberRow /\ IsFiniteSet(rows)
  BY DEF ControlTypes
<1>3. /\ new \in SwarmClient /\ new.pc = "commit" /\ new.op = op /\ new.rows = rows
      /\ new.leader = row.leader /\ new.arg = arg
  BY <1>2 DEF SwarmClient
<1> HIDE DEF new
<1>4. /\ client' \in [Clients -> SwarmClient] /\ client'[c] = new
      /\ \A d \in Clients \ {c} : client'[d] = client[d]
  BY <1>1, <1>3 DEF ControlTypes
<1>5. \A d \in Clients : IsFiniteSet(client'[d].rows)
  BY <1>2, <1>3, <1>4 DEF ControlTypes
<1> QED
  BY <1>1, <1>3, <1>4, <1>5

(* What the requests know after a commit, after one leaves, and after one  *)
(* has loaded the rows.                                                    *)
LEMMA KnowsAfterCommit ==
  ASSUME ControlTypes, KnowInv, NEW c \in Clients, NEW pc \in {"idle", "invalidate"},
         Control!Commit(c, pc),
         pc = "invalidate" => client[c].op \in {"add", "remove", "update", "delete"}
  PROVE  KnowInv'
<1>1. Knows(c)'
  BY ClientCommits, IdleClient DEF Knows
<1>2. ASSUME NEW d \in Clients \ {c}
      PROVE  Knows(d)'
  <2>1. client'[d] = client[d] /\ (client[d].pc # "idle" => d \in overlapped') /\ Knows(d)
    BY ClientCommits DEF KnowInv
  <2> QED
    BY <2>1 DEF Knows
<1> QED
  BY <1>1, <1>2 DEF KnowInv

LEMMA KnowsAfterLeaving ==
  ASSUME ControlTypes, KnowInv, NEW c \in Clients, Control!Leave(c),
         row' = row, rows' = rows
  PROVE  KnowInv'
<1>1. Knows(c)'
  BY ClientLeaves, IdleClient DEF Knows
<1>2. ASSUME NEW d \in Clients \ {c}
      PROVE  Knows(d)'
  <2>1. client'[d] = client[d] /\ (d \in overlapped' <=> d \in overlapped) /\ Knows(d)
    BY ClientLeaves DEF KnowInv
  <2> QED
    BY <2>1 DEF Knows
<1> QED
  BY <1>1, <1>2 DEF KnowInv

LEMMA EnterKeeps ==
  ASSUME ControlInv, NEW c \in Clients,
         NEW op \in {"add", "remove", "update", "delete", "read"},
         NEW arg \in Vehicles \union {NoVehicle}, NEW slot \in Nat \union {-1},
         op = "add" => arg \in Vehicles,
         Control!Enter(c, op, arg, slot), changes' \in Nat,
         row' = row, rows' = rows, engines' = engines, outdated' = outdated,
         overlapped' = overlapped, gaps' = gaps
  PROVE  ControlInv'
<1>1. ControlTypes /\ MadeInv /\ KnowInv /\ Control!CacheFresh /\ Control!SlotsOwn
  BY DEF ControlInv
<1>2. /\ client' \in [Clients -> SwarmClient]
      /\ \A d \in Clients : IsFiniteSet(client'[d].rows)
      /\ row.exists /\ client[c] = Control!Idle
      /\ client'[c].pc = "commit" /\ client'[c].op = op /\ client'[c].arg = arg
      /\ client'[c].rows = rows /\ client'[c].leader = row.leader
      /\ \A d \in Clients \ {c} : client'[d] = client[d]
  BY <1>1, ClientEnters
<1>3. ControlTypes'
  BY <1>1, <1>2 DEF ControlTypes
<1>4. MadeInv'
  BY <1>1, <1>2 DEF MadeInv
<1>5. KnowInv'
  BY <1>1, <1>2 DEF KnowInv, Knows
<1>6. Control!CacheFresh'
  BY <1>1, <1>2, IdleClient DEF Control!CacheFresh
<1>7. Control!SlotsOwn'
  BY <1>1 DEF Control!SlotsOwn
<1> QED
  BY <1>3, <1>4, <1>5, <1>6, <1>7 DEF ControlInv

LEMMA CreateSwarmKeeps ==
  ASSUME ControlInv, NEW c \in Clients, NEW leader \in Vehicles, Control!CreateSwarm(c, leader)
  PROVE  ControlInv'
<1>1. ControlTypes /\ MadeInv /\ KnowInv
  BY DEF ControlInv
<1> DEFINE new == [Control!Idle EXCEPT !.op = "create", !.pc = "members"]
<1>2. /\ ~row.made /\ row' = [made |-> TRUE, exists |-> TRUE, leader |-> leader]
      /\ client' = [client EXCEPT ![c] = new]
      /\ rows' = rows /\ engines' = engines /\ outdated' = outdated /\ changes' = changes
      /\ overlapped' = overlapped /\ gaps' = gaps
  BY DEF Control!CreateSwarm, Control!cache
<1>3. /\ rows = {} /\ engines = Control!NoEngine /\ \A d \in Clients : client[d].pc = "idle"
  BY <1>1, <1>2 DEF MadeInv
<1>4. PICK q \in SwarmClient : q = Control!Idle
  BY IdleClient
<1>5. PICK n : n = [q EXCEPT !.op = "create", !.pc = "members"]
  OBVIOUS
<1>6. n \in SwarmClient /\ n.op = "create" /\ n.pc = "members" /\ n.rows = {} /\ n = new
  <2>1. n \in SwarmClient /\ n.op = "create" /\ n.pc = "members" /\ n.rows = q.rows
    BY <1>5 DEF SwarmClient
  <2>2. n = new
    BY <1>4, <1>5, Zenon
  <2> QED
    BY <1>4, <2>1, <2>2, IdleClient
<1> HIDE DEF new
<1>7. /\ client' \in [Clients -> SwarmClient] /\ client'[c] = n
      /\ \A d \in Clients \ {c} : client'[d] = client[d]
  BY <1>1, <1>2, <1>6 DEF ControlTypes
<1>8. ControlTypes'
  <2>1. \A d \in Clients : IsFiniteSet(client'[d].rows)
    BY <1>1, <1>6, <1>7, FS_EmptySet DEF ControlTypes
  <2> QED
    BY <1>1, <1>2, <1>7, <2>1 DEF ControlTypes
<1>9. MadeInv'
  BY <1>2 DEF MadeInv
<1>10. KnowInv'
  BY <1>1, <1>3, <1>6, <1>7 DEF KnowInv, Knows
<1>11. Control!CacheFresh'
  BY <1>2, <1>3 DEF Control!CacheFresh
<1>12. Control!SlotsOwn'
  BY <1>2 DEF ControlInv, Control!SlotsOwn
<1> QED
  BY <1>8, <1>9, <1>10, <1>11, <1>12 DEF ControlInv

(* The slots of a new roster are its positions.                            *)
LEMMA RosterSlots ==
  ASSUME SwarmOK, NEW team \in Rosters, NEW leader
  PROVE  LET new == {[nr |-> -i, id |-> team[i], slot |-> i - 1,
                      role |-> IF team[i] = leader THEN "LEADER" ELSE "FOLLOWER"] : i \in DOMAIN team}
         IN  /\ new \subseteq MemberRow /\ IsFiniteSet(new)
             /\ {m.slot : m \in new} = 0..(Cardinality(new) - 1)
<1> DEFINE at(i) == [nr |-> -i, id |-> team[i], slot |-> i - 1,
                     role |-> IF team[i] = leader THEN "LEADER" ELSE "FOLLOWER"]
           new == {at(i) : i \in DOMAIN team}
<1>1. PICK n \in Nat : DOMAIN team = 1..n /\ \A i \in 1..n : team[i] \in Vehicles
  BY DEF SwarmOK
<1>2. \A i \in 1..n : at(i) \in MemberRow /\ at(i).slot = i - 1
  BY <1>1 DEF MemberRow, Control!Roles
<1>3. new = {at(i) : i \in 1..n}
  BY <1>1
<1>4. PICK f : f = [i \in 1..n |-> at(i)]
  OBVIOUS
<1> HIDE DEF at
<1>5. f \in Surjection(1..n, new) /\ f \in Injection(1..n, new)
  <2>1. f \in [1..n -> new] /\ \A i \in 1..n : f[i] = at(i)
    BY <1>3, <1>4
  <2>2. \A m \in new : \E i \in 1..n : f[i] = m
    BY <1>3, <2>1
  <2>3. \A i, j \in 1..n : f[i] = f[j] => i = j
    <3>1. \A i, j \in 1..n : at(i) = at(j) => i - 1 = j - 1
      BY <1>2
    <3> QED
      BY <2>1, <3>1
  <2> QED
    BY <2>1, <2>2, <2>3 DEF Surjection, Injection, IsInjective
<1>6. IsFiniteSet(1..n) /\ Cardinality(1..n) = n
  BY FS_Interval
<1>7. IsFiniteSet(new) /\ Cardinality(new) = n
  BY <1>5, <1>6, FS_Surjection
<1>8. {m.slot : m \in new} = 0..(n - 1)
  <2>1. ASSUME NEW m \in new
        PROVE  m.slot \in 0..(n - 1)
    BY <1>2, <1>3
  <2>2. ASSUME NEW k \in 0..(n - 1)
        PROVE  \E m \in new : m.slot = k
    <3>1. k + 1 \in 1..n /\ (k + 1) - 1 = k
      OBVIOUS
    <3>2. at(k + 1) \in new /\ at(k + 1).slot = k
      BY <1>2, <1>3, <3>1
    <3> QED
      BY <3>2
  <2> QED
    BY <2>1, <2>2
<1>9. new \subseteq MemberRow
  BY <1>2, <1>3
<1> QED
  BY <1>7, <1>8, <1>9 DEF at

LEMMA CreateMembersKeeps ==
  ASSUME SwarmOK, ControlInv, NEW c \in Clients, NEW team \in Rosters,
         Control!CreateMembers(c, team)
  PROVE  ControlInv'
<1>1. ControlTypes /\ MadeInv /\ KnowInv /\ Control!SlotsOwn
  BY DEF ControlInv
<1> DEFINE new == {[nr |-> -i, id |-> team[i], slot |-> i - 1,
                    role |-> IF team[i] = row.leader THEN "LEADER" ELSE "FOLLOWER"] : i \in DOMAIN team}
<1>2. /\ row.exists /\ rows' = rows \union new
      /\ outdated' = (engines # Control!NoEngine) /\ gaps' = (gaps \/ rows # {})
      /\ Control!Commit(c, "idle")
      /\ row' = row /\ engines' = engines /\ changes' = changes
  BY DEF Control!CreateMembers
<1>3. /\ new \subseteq MemberRow /\ IsFiniteSet(new)
      /\ {m.slot : m \in new} = 0..(Cardinality(new) - 1)
  BY RosterSlots
<1> HIDE DEF new
<1>4. /\ client' \in [Clients -> SwarmClient]
      /\ \A d \in Clients : IsFiniteSet(client'[d].rows)
      /\ overlapped' \subseteq Clients
  BY <1>1, <1>2, ClientCommits
<1>5. ControlTypes'
  <2>1. IsFiniteSet(rows \union new)
    BY <1>1, <1>3, FS_Union DEF ControlTypes
  <2> QED
    BY <1>1, <1>2, <1>3, <1>4, <2>1 DEF ControlTypes
<1>6. MadeInv'
  BY <1>1, <1>2 DEF MadeInv
<1>7. KnowInv'
  BY <1>1, <1>2, KnowsAfterCommit
<1>8. Control!CacheFresh'
  BY <1>2 DEF Control!CacheFresh
<1>9. Control!SlotsOwn'
  <2> SUFFICES ASSUME ~gaps'
               PROVE  {m.slot : m \in rows'} = 0..(Control!Cardinality(rows') - 1)
    BY DEF Control!SlotsOwn
  <2>1. rows' = new
    BY <1>2
  <2> QED
    BY <1>3, <2>1, ControlCardinality
<1> QED
  BY <1>5, <1>6, <1>7, <1>8, <1>9 DEF ControlInv

(* An edit commits: whatever it did to the rows, its own engine still has  *)
(* to be dropped.                                                          *)
LEMMA EditCommits ==
  ASSUME ControlInv, NEW c \in Clients, client[c].pc = "commit",
         client[c].op \in {"add", "remove", "update", "delete"},
         Control!Commit(c, "invalidate"),
         row' \in [made : BOOLEAN, exists : BOOLEAN, leader : Vehicles \union {NoVehicle}],
         row'.made = row.made, rows' \subseteq MemberRow, IsFiniteSet(rows'),
         engines' = engines, outdated' = outdated, changes' = changes, gaps' \in BOOLEAN,
         ~gaps' => {m.slot : m \in rows'} = 0..(Cardinality(rows') - 1)
  PROVE  ControlInv'
<1>1. ControlTypes /\ MadeInv /\ KnowInv
  BY DEF ControlInv
<1>2. /\ client' \in [Clients -> SwarmClient]
      /\ \A d \in Clients : IsFiniteSet(client'[d].rows)
      /\ overlapped' \subseteq Clients /\ client'[c].pc = "invalidate"
  BY <1>1, ClientCommits
<1>3. ControlTypes'
  BY <1>1, <1>2 DEF ControlTypes
<1>4. MadeInv'
  BY <1>1 DEF MadeInv
<1>5. KnowInv'
  BY <1>1, KnowsAfterCommit
<1>6. Control!CacheFresh'
  BY <1>2 DEF Control!CacheFresh
<1>7. Control!SlotsOwn'
  BY ControlCardinality DEF Control!SlotsOwn
<1> QED
  BY <1>3, <1>4, <1>5, <1>6, <1>7 DEF ControlInv

(* A member that is added without asking for a slot gets the next one.     *)
LEMMA AddMemberKeeps ==
  ASSUME SwarmOK, ControlInv, NEW c \in Clients, NEW role \in Control!Roles,
         Control!AddMember(c, role)
  PROVE  ControlInv'
<1> DEFINE q == client[c]
           new == [nr |-> changes * Control!Cardinality(Clients) + Control!Cardinality(rows),
                   id |-> q.arg, role |-> role, slot |-> Control!SlotFor(q.rows, q.slot)]
<1>1. ControlTypes /\ MadeInv /\ KnowInv /\ Control!SlotsOwn
  BY DEF ControlInv
<1>2. /\ q.op = "add" /\ q.pc = "commit" /\ row.exists
      /\ rows' = rows \union {new}
      /\ gaps' = (gaps \/ q.slot >= 0 \/ c \in overlapped)
      /\ Control!Commit(c, "invalidate")
      /\ row' = row /\ engines' = engines /\ outdated' = outdated /\ changes' = changes
  BY DEF Control!AddMember, Control!cache
<1>3. q \in SwarmClient /\ IsFiniteSet(q.rows) /\ Cardinality(q.rows) \in Nat
  BY <1>1, FS_CardinalityType DEF ControlTypes
<1>4. changes * Control!Cardinality(Clients) + Control!Cardinality(rows) \in Int
  <2>1. changes \in Nat /\ Cardinality(Clients) \in Nat /\ Cardinality(rows) \in Nat
    BY <1>1, FS_CardinalityType DEF ControlTypes, SwarmOK
  <2>2. \A x, y, z \in Nat : x * y + z \in Int
    OBVIOUS
  <2> QED
    BY <2>1, <2>2, ControlCardinality
<1>5. /\ new \in MemberRow
      /\ new.slot = IF q.slot >= 0 THEN q.slot ELSE Cardinality(q.rows)
  <2>1. q.arg \in Vehicles
    BY <1>1, <1>2 DEF KnowInv, Knows
  <2>2. Control!SlotFor(q.rows, q.slot) = IF q.slot >= 0 THEN q.slot ELSE Cardinality(q.rows)
    BY ControlCardinality DEF Control!SlotFor
  <2>3. Control!SlotFor(q.rows, q.slot) \in Nat
    BY <1>3, <2>2 DEF SwarmClient
  <2> QED
    BY <1>4, <2>1, <2>2, <2>3 DEF MemberRow
<1> HIDE DEF new
<1>6. IsFiniteSet(rows) /\ rows \subseteq MemberRow /\ gaps \in BOOLEAN
  BY <1>1 DEF ControlTypes
<1>7. /\ IsFiniteSet(rows')
      /\ Cardinality(rows') = IF new \in rows THEN Cardinality(rows) ELSE Cardinality(rows) + 1
  BY <1>2, <1>6, FS_AddElement
<1>8. ASSUME ~gaps'
      PROVE  {m.slot : m \in rows'} = 0..(Cardinality(rows') - 1)
  <2>1. ~gaps /\ ~(q.slot >= 0) /\ q.rows = rows
    BY <1>1, <1>2, <1>8 DEF KnowInv, Knows
  <2>2. PICK n \in Nat : n = Cardinality(rows)
    BY <1>6, FS_CardinalityType
  <2>3. {m.slot : m \in rows} = 0..(n - 1)
    BY <1>1, <2>1, <2>2, ControlCardinality DEF Control!SlotsOwn
  <2>4. new.slot = n
    BY <1>5, <2>1, <2>2
  <2>5. new \notin rows
    <3>1. n \notin 0..(n - 1)
      OBVIOUS
    <3> QED
      BY <2>3, <2>4, <3>1
  <2>6. Cardinality(rows') = n + 1
    BY <1>7, <2>2, <2>5
  <2>7. {m.slot : m \in rows'} = {m.slot : m \in rows} \union {n}
    BY <1>2, <2>4
  <2>8. 0..(n - 1) \union {n} = 0..((n + 1) - 1)
    OBVIOUS
  <2> QED
    BY <2>3, <2>6, <2>7, <2>8
<1>9. row' \in [made : BOOLEAN, exists : BOOLEAN, leader : Vehicles \union {NoVehicle}]
  BY <1>1, <1>2 DEF ControlTypes
<1>10. gaps' \in BOOLEAN
  BY <1>2, <1>6
<1>11. rows' \subseteq MemberRow
  BY <1>2, <1>5, <1>6
<1> QED
  BY <1>2, <1>7, <1>8, <1>9, <1>10, <1>11, EditCommits

LEMMA DropMemberKeeps ==
  ASSUME ControlInv, NEW c \in Clients, Control!DropMember(c)
  PROVE  ControlInv'
<1>1. ControlTypes
  BY DEF ControlInv
<1>2. PICK m : rows' = rows \ {m}
  BY DEF Control!DropMember
<1>3. /\ client[c].op = "remove" /\ client[c].pc = "commit" /\ gaps' = TRUE
      /\ Control!Commit(c, "invalidate")
      /\ row' = row /\ engines' = engines /\ outdated' = outdated /\ changes' = changes
  BY DEF Control!DropMember, Control!cache
<1>4. rows' \subseteq MemberRow /\ IsFiniteSet(rows')
  BY <1>1, <1>2, FS_RemoveElement DEF ControlTypes
<1>5. row' \in [made : BOOLEAN, exists : BOOLEAN, leader : Vehicles \union {NoVehicle}]
  BY <1>1, <1>3 DEF ControlTypes
<1> QED
  BY <1>3, <1>4, <1>5, EditCommits

LEMMA UpdateSwarmKeeps ==
  ASSUME ControlInv, NEW c \in Clients, Control!UpdateSwarm(c)
  PROVE  ControlInv'
<1>1. ControlTypes /\ Control!SlotsOwn /\ client[c] \in SwarmClient
  BY DEF ControlInv, ControlTypes
<1>2. /\ client[c].op = "update" /\ client[c].pc = "commit"
      /\ row' = [row EXCEPT !.leader = IF client[c].arg \in {NoVehicle, client[c].leader}
                                       THEN @ ELSE client[c].arg]
      /\ Control!Commit(c, "invalidate")
      /\ rows' = rows /\ engines' = engines /\ outdated' = outdated /\ changes' = changes
      /\ gaps' = gaps
  BY DEF Control!UpdateSwarm, Control!cache
<1>3. /\ row' \in [made : BOOLEAN, exists : BOOLEAN, leader : Vehicles \union {NoVehicle}]
      /\ row'.made = row.made
  BY <1>1, <1>2 DEF ControlTypes, SwarmClient
<1>4. ~gaps' => {m.slot : m \in rows'} = 0..(Cardinality(rows') - 1)
  BY <1>1, <1>2, ControlCardinality DEF Control!SlotsOwn
<1>5. rows' \subseteq MemberRow /\ IsFiniteSet(rows') /\ gaps' \in BOOLEAN
  BY <1>1, <1>2 DEF ControlTypes
<1> QED
  BY <1>2, <1>3, <1>4, <1>5, EditCommits

LEMMA DeleteSwarmKeeps ==
  ASSUME ControlInv, NEW c \in Clients, Control!DeleteSwarm(c)
  PROVE  ControlInv'
<1>1. ControlTypes
  BY DEF ControlInv
<1>2. /\ client[c].op = "delete" /\ client[c].pc = "commit"
      /\ row' = [row EXCEPT !.exists = FALSE] /\ rows' = {}
      /\ Control!Commit(c, "invalidate")
      /\ engines' = engines /\ outdated' = outdated /\ changes' = changes /\ gaps' = gaps
  BY DEF Control!DeleteSwarm, Control!cache
<1>3. /\ row' \in [made : BOOLEAN, exists : BOOLEAN, leader : Vehicles \union {NoVehicle}]
      /\ row'.made = row.made
  BY <1>1, <1>2 DEF ControlTypes
<1>4. IsFiniteSet(rows') /\ Cardinality(rows') = 0
  BY <1>2, FS_EmptySet
<1>5. {m.slot : m \in rows'} = 0..(Cardinality(rows') - 1)
  BY <1>2, <1>4
<1>6. gaps' \in BOOLEAN
  BY <1>1, <1>2 DEF ControlTypes
<1> QED
  BY <1>2, <1>3, <1>4, <1>5, <1>6, EditCommits

(* A request leaves, and with it an edit drops the engine, a failure the   *)
(* claim that the engine is current, or a reader leaves an engine behind.  *)
LEMMA LeavingKeeps ==
  ASSUME ControlInv, NEW c \in Clients, Control!Leave(c), client[c].pc # "idle",
         row' = row, rows' = rows, changes' = changes, gaps' = gaps,
         outdated' \in BOOLEAN, IsFiniteSet(engines'.members), Control!CacheFresh'
  PROVE  ControlInv'
<1>1. ControlTypes /\ MadeInv /\ KnowInv /\ Control!SlotsOwn
  BY DEF ControlInv
<1>2. /\ client' \in [Clients -> SwarmClient]
      /\ \A d \in Clients : IsFiniteSet(client'[d].rows)
      /\ overlapped' \subseteq Clients
  BY <1>1, ClientLeaves
<1>3. ControlTypes'
  BY <1>1, <1>2 DEF ControlTypes
<1>4. row.made
  BY <1>1 DEF MadeInv
<1>5. MadeInv'
  BY <1>4 DEF MadeInv
<1>6. KnowInv'
  BY <1>1, KnowsAfterLeaving
<1>7. Control!SlotsOwn'
  BY <1>1 DEF Control!SlotsOwn
<1> QED
  BY <1>3, <1>5, <1>6, <1>7 DEF ControlInv

LEMMA InvalidateKeeps ==
  ASSUME ControlInv, NEW c \in Clients, Control!Invalidate(c)
  PROVE  ControlInv'
<1>1. client[c].pc = "invalidate" /\ Control!DropsEngine(client[c].op)
  BY DEF ControlInv, KnowInv, Knows, Control!Invalidate, Control!DropsEngine
<1>2. /\ engines' = Control!NoEngine /\ outdated' \in BOOLEAN /\ Control!Leave(c)
      /\ row' = row /\ rows' = rows /\ changes' = changes /\ gaps' = gaps
  BY <1>1 DEF Control!Invalidate, Control!swarm, ControlInv, ControlTypes
<1>3. IsFiniteSet(engines'.members) /\ Control!CacheFresh'
  BY <1>2, FS_EmptySet DEF Control!CacheFresh, Control!NoEngine
<1> QED
  BY <1>1, <1>2, <1>3, LeavingKeeps

LEMMA FailKeeps ==
  ASSUME ControlInv, NEW c \in Clients, Control!Fail(c)
  PROVE  ControlInv'
<1>1. ControlTypes /\ Control!CacheFresh
  BY DEF ControlInv
<1>2. /\ client[c].pc # "idle" /\ Control!Leave(c)
      /\ outdated' = (outdated \/ (client[c].pc = "invalidate" /\ engines # Control!NoEngine))
      /\ row' = row /\ rows' = rows /\ engines' = engines /\ changes' = changes /\ gaps' = gaps
  BY DEF Control!Fail, Control!swarm
<1>3. Control!CacheFresh'
  <2>1. \A d \in Clients \ {c} : client'[d] = client[d]
    BY <1>1, <1>2, ClientLeaves
  <2> QED
    BY <1>1, <1>2, <2>1 DEF Control!CacheFresh
<1>4. outdated' \in BOOLEAN /\ IsFiniteSet(engines'.members)
  BY <1>1, <1>2 DEF ControlTypes
<1> QED
  BY <1>2, <1>3, <1>4, LeavingKeeps

LEMMA ReadStateKeeps ==
  ASSUME ControlInv, NEW c \in Clients, Control!ReadState(c)
  PROVE  ControlInv'
<1> DEFINE built == Control!Built(client[c].rows, client[c].leader)
<1>1. ControlTypes /\ KnowInv /\ Control!CacheFresh
  BY DEF ControlInv
<1>2. /\ client[c].op = "read" /\ Control!Leave(c)
      /\ engines' = IF engines # Control!NoEngine THEN engines ELSE built
      /\ outdated' = IF engines # Control!NoEngine THEN outdated ELSE c \in overlapped
      /\ row' = row /\ rows' = rows /\ changes' = changes /\ gaps' = gaps
  BY DEF Control!ReadState, Control!swarm
<1>3. client[c].pc = "commit"
  BY <1>1, <1>2 DEF KnowInv, Knows
<1>4. \A d \in Clients \ {c} : client'[d] = client[d]
  BY <1>1, <1>2, ClientLeaves
<1>5. IsFiniteSet(built.members)
  <2>1. IsFiniteSet(client[c].rows)
    BY <1>1 DEF ControlTypes
  <2> DEFINE entry(m) == [id |-> m.id, role |-> m.role, slot |-> m.slot]
             entries == {entry(m) : m \in client[c].rows}
  <2>2. IsFiniteSet(entries)
    <3>1. PICK f : f = [m \in client[c].rows |-> entry(m)]
      OBVIOUS
    <3> HIDE DEF entry
    <3>2. f \in Surjection(client[c].rows, entries)
      BY <3>1 DEF Surjection
    <3> QED
      BY <2>1, <3>2, FS_Surjection
  <2>3. built.members = entries
    BY DEF Control!Built
  <2> QED
    BY <2>2, <2>3
<1>6. Control!CacheFresh'
  <2>1. CASE engines # Control!NoEngine
    BY <1>1, <1>2, <1>3, <1>4, <2>1 DEF Control!CacheFresh
  <2>2. CASE engines = Control!NoEngine
    <3>1. c \notin overlapped => client[c].rows = rows /\ client[c].leader = row.leader
      BY <1>1, <1>3 DEF KnowInv, Knows
    <3>2. engines' = built /\ (outdated' <=> c \in overlapped)
      BY <1>2, <2>2
    <3> QED
      BY <1>2, <3>1, <3>2 DEF Control!CacheFresh
  <2> QED
    BY <2>1, <2>2
<1>7. outdated' \in BOOLEAN
  <2>1. outdated' = outdated \/ outdated' = (c \in overlapped)
    BY <1>2
  <2>2. outdated \in BOOLEAN
    BY <1>1 DEF ControlTypes
  <2>3. (c \in overlapped) \in BOOLEAN
    OBVIOUS
  <2> QED
    BY <2>1, <2>2, <2>3, Zenon
<1>8. IsFiniteSet(engines'.members)
  <2>1. CASE engines # Control!NoEngine
    BY <1>1, <1>2, <2>1 DEF ControlTypes
  <2>2. CASE engines = Control!NoEngine
    <3>1. engines' = built
      BY <1>2, <2>2
    <3> HIDE DEF built
    <3> QED
      BY <1>5, <3>1
  <2> QED
    BY <2>1, <2>2
<1> QED
  BY <1>2, <1>3, <1>6, <1>7, <1>8, LeavingKeeps

LEMMA ControlRestartKeeps ==
  ASSUME ControlInv, Control!Restart
  PROVE  ControlInv'
<1>1. ControlTypes /\ MadeInv /\ Control!SlotsOwn
  BY DEF ControlInv
<1>2. /\ engines' = Control!NoEngine /\ outdated' = FALSE /\ overlapped' = {}
      /\ client' = [c \in Clients |-> Control!Idle]
      /\ row' = row /\ rows' = rows /\ changes' = changes /\ gaps' = gaps
  BY DEF Control!Restart, Control!swarm
<1>3. client' \in [Clients -> SwarmClient] /\ \A c \in Clients : client'[c] = Control!Idle
  BY <1>2, IdleClient
<1>4. ControlTypes'
  <2>1. IsFiniteSet(engines'.members) /\ \A c \in Clients : IsFiniteSet(client'[c].rows)
    BY <1>2, <1>3, IdleClient, FS_EmptySet DEF Control!NoEngine
  <2> QED
    BY <1>1, <1>2, <1>3, <2>1 DEF ControlTypes
<1>5. MadeInv'
  BY <1>1, <1>2, <1>3, IdleClient DEF MadeInv
<1>6. KnowInv'
  BY <1>3, IdleClient DEF KnowInv, Knows
<1>7. Control!CacheFresh'
  BY <1>2 DEF Control!CacheFresh
<1>8. Control!SlotsOwn'
  BY <1>1, <1>2 DEF Control!SlotsOwn
<1> QED
  BY <1>4, <1>5, <1>6, <1>7, <1>8 DEF ControlInv

LEMMA LoadKeeps ==
  ASSUME SwarmOK, ControlInv, NEW c \in Clients,
         NEW op \in {"add", "remove", "update", "delete"},
         NEW arg \in Vehicles \union {NoVehicle}, NEW slot \in Explicit \union {-1},
         op = "add" => arg \in Vehicles, Control!Load(c, op, arg, slot)
  PROVE  ControlInv'
<1>1. slot \in Nat \union {-1}
  BY DEF SwarmOK
<1>2. changes' = changes + 1 /\ changes \in Nat
  BY DEF Control!Load, ControlInv, ControlTypes
<1>3. /\ Control!Enter(c, op, arg, slot)
      /\ row' = row /\ rows' = rows /\ engines' = engines /\ outdated' = outdated
      /\ overlapped' = overlapped /\ gaps' = gaps
  BY DEF Control!Load, Control!swarm, Control!cache
<1> QED
  BY <1>1, <1>2, <1>3, EnterKeeps

LEMMA LoadStateKeeps ==
  ASSUME ControlInv, NEW c \in Clients, Control!LoadState(c)
  PROVE  ControlInv'
<1>1. /\ Control!Enter(c, "read", NoVehicle, -1)
      /\ row' = row /\ rows' = rows /\ engines' = engines /\ outdated' = outdated
      /\ overlapped' = overlapped /\ gaps' = gaps /\ changes' = changes
  BY DEF Control!LoadState, Control!swarm, Control!cache
<1>2. changes' \in Nat
  BY <1>1 DEF ControlInv, ControlTypes
<1>3. -1 \in Nat \union {-1}
  OBVIOUS
<1> QED
  BY <1>1, <1>2, <1>3, EnterKeeps

LEMMA InitControl == Control!Init => ControlInv
<1> SUFFICES ASSUME Control!Init
             PROVE  ControlInv
  OBVIOUS
<1>1. /\ row = [made |-> FALSE, exists |-> FALSE, leader |-> NoVehicle]
      /\ rows = {} /\ engines = Control!NoEngine
      /\ client = [c \in Clients |-> Control!Idle]
      /\ changes = 0 /\ overlapped = {} /\ outdated = FALSE /\ gaps = FALSE
  BY DEF Control!Init
<1>2. client \in [Clients -> SwarmClient] /\ \A c \in Clients : client[c] = Control!Idle
  BY <1>1, IdleClient
<1>3. ControlTypes
  <2>1. IsFiniteSet(engines.members) /\ \A c \in Clients : IsFiniteSet(client[c].rows)
    BY <1>1, <1>2, IdleClient, FS_EmptySet DEF Control!NoEngine
  <2>2. IsFiniteSet(rows)
    BY <1>1, FS_EmptySet
  <2> QED
    BY <1>1, <1>2, <2>1, <2>2 DEF ControlTypes
<1>4. MadeInv
  BY <1>1, <1>2, IdleClient DEF MadeInv
<1>5. KnowInv
  BY <1>2, IdleClient DEF KnowInv, Knows
<1>6. Control!CacheFresh
  BY <1>1 DEF Control!CacheFresh
<1>7. Control!SlotsOwn
  <2>1. Cardinality(rows) = 0
    BY <1>1, FS_EmptySet
  <2>2. Control!Cardinality(rows) = 0
    BY <2>1, ControlCardinality
  <2> QED
    BY <1>1, <2>2 DEF Control!SlotsOwn
<1> QED
  BY <1>3, <1>4, <1>5, <1>6, <1>7 DEF ControlInv

LEMMA NextControl ==
  ASSUME SwarmOK, ControlInv, [Control!Next]_(Control!vars)
  PROVE  ControlInv'
<1>1. CASE UNCHANGED Control!vars
  BY <1>1 DEF Control!vars, ControlInv, ControlTypes, MadeInv, KnowInv, Knows,
              Control!CacheFresh, Control!SlotsOwn
<1>2. CASE Control!Restart
  BY <1>2, ControlRestartKeeps
<1>3. ASSUME NEW c \in Clients, NEW leader \in Vehicles, Control!CreateSwarm(c, leader)
      PROVE  ControlInv'
  BY <1>3, CreateSwarmKeeps
<1>4. ASSUME NEW c \in Clients, NEW team \in Rosters, Control!CreateMembers(c, team)
      PROVE  ControlInv'
  BY <1>4, CreateMembersKeeps
<1>5. ASSUME NEW c \in Clients, NEW v \in Vehicles, NEW slot \in Explicit \union {-1},
             Control!Load(c, "add", v, slot)
      PROVE  ControlInv'
  BY <1>5, LoadKeeps
<1>6. ASSUME NEW c \in Clients, NEW v \in Vehicles, NEW op \in {"remove", "update"},
             Control!Load(c, op, v, -1)
      PROVE  ControlInv'
  BY <1>6, LoadKeeps
<1>7. ASSUME NEW c \in Clients, Control!Load(c, "delete", NoVehicle, -1)
      PROVE  ControlInv'
  BY <1>7, LoadKeeps
<1>8. ASSUME NEW c \in Clients, NEW role \in Control!Roles, Control!AddMember(c, role)
      PROVE  ControlInv'
  BY <1>8, AddMemberKeeps
<1>9. ASSUME NEW c \in Clients,
             \/ Control!DropMember(c) \/ Control!UpdateSwarm(c) \/ Control!DeleteSwarm(c)
             \/ Control!Invalidate(c) \/ Control!Fail(c)
             \/ Control!LoadState(c) \/ Control!ReadState(c)
      PROVE  ControlInv'
  BY <1>9, DropMemberKeeps, UpdateSwarmKeeps, DeleteSwarmKeeps, InvalidateKeeps, FailKeeps,
     LoadStateKeeps, ReadStateKeeps
<1> QED
  BY <1>1, <1>2, <1>3, <1>4, <1>5, <1>6, <1>7, <1>8, <1>9 DEF Control!Next

(* What the routes report: an engine has finitely many members, and all of *)
(* them count as stale.                                                    *)
LEMMA EngineNeverConnected ==
  ASSUME ControlTypes
  PROVE  Control!NeverConnected
<1> SUFFICES ASSUME engines # Control!NoEngine
             PROVE  Control!ReportedHealth(engines) = "DISCONNECTED"
  BY DEF Control!NeverConnected
<1> DEFINE ids == {m.id : m \in engines.members}
           entry(v) == LET m == CHOOSE m \in engines.members : m.id = v
                       IN [role |-> m.role, slot |-> m.slot, at |-> 0, stale |-> TRUE, deviates |-> TRUE]
           states == [v \in ids |-> entry(v)]
<1>1. IsFiniteSet(ids)
  <2>1. PICK f : f = [m \in engines.members |-> m.id]
    OBVIOUS
  <2>2. f \in Surjection(engines.members, ids)
    BY <2>1 DEF Surjection
  <2> QED
    BY <2>2, FS_Surjection DEF ControlTypes
<1>2. DOMAIN states = ids /\ {v \in DOMAIN states : states[v].stale} = ids
  OBVIOUS
<1> HIDE DEF entry, states
<1>3. PICK n \in Nat : n = Control!Cardinality(ids)
  BY <1>1, FS_CardinalityType, ControlCardinality
<1>4. Control!Disconnected(states)
  <2>1. n = 0 \/ n >= IF n \div 2 > 1 THEN n \div 2 ELSE 1
    OBVIOUS
  <2> QED
    BY <1>2, <1>3, <2>1 DEF Control!Disconnected
<1>5. Control!ReportedHealth(engines) = Control!Health(engines.leader, states)
  BY DEF Control!ReportedHealth, states, entry
<1> QED
  BY <1>4, <1>5 DEF Control!Health

(* No small swarm that counts as healthy has an event against it.          *)
LEMMA HealthIsHonest == Control!HealthReflectsEvents
<1> SUFFICES ASSUME NEW n \in 1..2, NEW states \in Control!SmallStates(n), NEW leader \in 0..n,
                    Control!Health(leader, states) = "HEALTHY"
             PROVE  \A e \in Control!SafetyEvents(leader, states) : FALSE
  BY DEF Control!HealthReflectsEvents
<1>1. /\ DOMAIN states = 1..n
      /\ \A v \in 1..n : /\ states[v] \in [role : Control!Roles, slot : {0, 1}, at : {0, 9},
                                          stale : BOOLEAN, deviates : {FALSE}]
                         /\ states[v].stale \in BOOLEAN /\ ~states[v].deviates
  BY DEF Control!SmallStates
<1>2. /\ ~Control!Disconnected(states) /\ Control!SeparationEvents(states) = {}
      /\ leader = NoVehicle \/ Control!LeaderPresent(leader, states)
      /\ \A e \in Control!SafetyEvents(leader, states) : e.severity # "WARNING"
  BY DEF Control!Health
<1>3. \A v \in 1..n : ~states[v].stale
  <2> DEFINE silent == {v \in DOMAIN states : states[v].stale}
  <2>1. IsFiniteSet(1..n) /\ Cardinality(1..n) = n
    BY FS_Interval
  <2>2. IsFiniteSet(silent) /\ silent \subseteq 1..n /\ Cardinality(silent) \in Nat
    BY <1>1, <2>1, FS_Subset, FS_CardinalityType
  <2>3. Cardinality(silent) < 1
    <3>1. ~(Control!Cardinality(silent) >= IF n \div 2 > 1 THEN n \div 2 ELSE 1)
      BY <1>1, <1>2, <2>1, ControlCardinality DEF Control!Disconnected
    <3>2. ~(n \div 2 > 1)
      OBVIOUS
    <3> HIDE DEF silent
    <3> QED
      BY <3>1, <3>2, <2>2, ControlCardinality
  <2>4. silent = {}
    <3> HIDE DEF silent
    <3> QED
      BY <2>2, <2>3, FS_EmptySet
  <2> QED
    BY <1>1, <2>4
<1>4. Control!LeaderEvents(leader, states) = {}
  BY <1>2 DEF Control!LeaderEvents
<1>5. Control!VehicleEvents(states) = {}
  BY <1>1, <1>3 DEF Control!VehicleEvents
<1>6. Control!SafetyEvents(leader, states) = Control!SlotEvents(states)
  <2>1. DOMAIN states # {}
    <3>1. 1 \in 1..n
      OBVIOUS
    <3> QED
      BY <1>1, <3>1
  <2> QED
    BY <1>2, <1>4, <1>5, <2>1 DEF Control!SafetyEvents
<1>7. \A e \in Control!SlotEvents(states) : e.severity = "WARNING"
  BY DEF Control!SlotEvents, Control!Event
<1> QED
  BY <1>2, <1>6, <1>7

(* Nine vehicles or fewer: where the slots of a formation are.             *)
LEMMA SlotOffsets ==
  ASSUME NEW n \in 1..9, NEW k \in 0..(n - 1), k # 0
  PROVE  /\ Control!Offset("COLUMN", n, k) = [x |-> -k, y |-> 0, arc |-> 0]
         /\ Control!Offset("CIRCLE", n, k) = [x |-> 0, y |-> 0, arc |-> k]
         /\ Control!Offset("LINE", n, k) =
               [x |-> 0, y |-> (IF k % 2 = 0 THEN -1 ELSE 1) * ((k + 1) \div 2), arc |-> 0]
         /\ Control!Offset("V_FORMATION", n, k) =
               [x |-> -((k + 1) \div 2),
                y |-> -(IF k % 2 = 0 THEN -1 ELSE 1) * ((k + 1) \div 2), arc |-> 0]
         /\ Control!Offset("GRID", n, k) =
               [x |-> -(k \div Control!Columns(n)),
                y |-> (k % Control!Columns(n)) - (Control!Columns(n) \div 2), arc |-> 0]
BY DEF Control!Offset, Control!Half

LEMMA SlotZero ==
  ASSUME NEW n, NEW kind
  PROVE  Control!Offset(kind, n, 0) = [x |-> 0, y |-> 0, arc |-> 0]
BY DEF Control!Offset

LEMMA GridColumns ==
  ASSUME NEW n \in 1..9
  PROVE  Control!Columns(n) = IF n <= 4 THEN 2 ELSE 3
<1> DEFINE fits(c) == c * c >= n /\ \A d \in 2..(c - 1) : d * d < n
           best == IF n <= 4 THEN 2 ELSE 3
<1>1. best \in 2..(n + 2) /\ fits(best)
  OBVIOUS
<1>2. ASSUME NEW c \in 2..(n + 2), fits(c)
      PROVE  c = best
  <2>1. CASE c < best
    BY <1>2, <2>1
  <2>2. CASE c > best
    <3>1. best \in 2..(c - 1)
      BY <2>2
    <3>2. best * best < n
      BY <1>2, <3>1
    <3> QED
      BY <3>2
  <2> QED
    BY <2>1, <2>2
<1> QED
  BY <1>1, <1>2 DEF Control!Columns

LEMMA SlotsApart == Control!FormationApart
<1> SUFFICES ASSUME NEW kind \in Control!Formations, NEW n \in 1..9,
                    NEW j \in 0..(n - 1), NEW k \in 0..(n - 1), j < k,
                    Control!Offset(kind, n, j) = Control!Offset(kind, n, k)
             PROVE  kind = "GRID" /\ j = 0 /\ k = Control!Columns(n) \div 2
  BY DEF Control!FormationApart
<1> DEFINE half(i) == (i + 1) \div 2
           side(i) == IF i % 2 = 0 THEN -1 ELSE 1
<1>1. k # 0 /\ k \in 1..8 /\ j \in 0..8
  OBVIOUS
<1>2. half(k) >= 1 /\ side(k) * half(k) # 0
  BY <1>1
<1>3. kind \in {"LINE", "COLUMN", "V_FORMATION", "GRID", "CIRCLE"}
  BY DEF Control!Formations
<1>4. CASE j = 0
  <2>1. Control!Offset(kind, n, k) = [x |-> 0, y |-> 0, arc |-> 0]
    BY <1>4, SlotZero
  <2>2. kind # "COLUMN" /\ kind # "CIRCLE"
    BY <2>1, <1>1, SlotOffsets
  <2>3. kind # "LINE" /\ kind # "V_FORMATION"
    BY <2>1, <1>1, <1>2, SlotOffsets
  <2>4. kind = "GRID"
    BY <1>3, <2>2, <2>3
  <2>5. PICK c \in 2..3 : c = Control!Columns(n)
    BY GridColumns
  <2>6. -(k \div c) = 0 /\ (k % c) - (c \div 2) = 0
    <3>1. Control!Offset("GRID", n, k) =
             [x |-> -(k \div Control!Columns(n)),
              y |-> (k % Control!Columns(n)) - (Control!Columns(n) \div 2), arc |-> 0]
      BY <1>1, SlotOffsets
    <3>2. Control!Offset("GRID", n, k) =
             [x |-> -(k \div c), y |-> (k % c) - (c \div 2), arc |-> 0]
      BY <2>5, <3>1
    <3> QED
      BY <2>1, <2>4, <3>2
  <2>7. k = c \div 2
    BY <1>1, <2>6
  <2> QED
    BY <1>4, <2>4, <2>5, <2>7
<1>5. CASE j # 0
  <2>1. kind # "COLUMN" /\ kind # "CIRCLE"
    BY <1>1, <1>5, SlotOffsets
  <2>2. ~(half(j) = half(k) /\ side(j) * half(j) = side(k) * half(k))
    BY <1>1, <1>5
  <2>3. kind # "V_FORMATION"
    <3>1. ~(-half(j) = -half(k) /\ -side(j) * half(j) = -side(k) * half(k))
      BY <1>1, <1>5
    <3> QED
      BY <1>1, <1>5, <3>1, SlotOffsets
  <2>4. kind # "LINE"
    <3>1. side(j) * half(j) # side(k) * half(k)
      BY <1>1, <1>5
    <3> QED
      BY <1>1, <1>5, <3>1, SlotOffsets
  <2>5. kind # "GRID"
    <3>1. PICK c \in 2..3 : c = Control!Columns(n)
      BY GridColumns
    <3>2. ~(-(j \div c) = -(k \div c) /\ (j % c) - (c \div 2) = (k % c) - (c \div 2))
      BY <1>1
    <3> QED
      <4>1. ASSUME NEW i \in {j, k}
            PROVE  Control!Offset("GRID", n, i) =
                      [x |-> -(i \div Control!Columns(n)),
                       y |-> (i % Control!Columns(n)) - (Control!Columns(n) \div 2), arc |-> 0]
        BY <1>1, <1>5, SlotOffsets
      <4>2. ASSUME NEW i \in {j, k}
            PROVE  Control!Offset("GRID", n, i) =
                      [x |-> -(i \div c), y |-> (i % c) - (c \div 2), arc |-> 0]
        BY <3>1, <4>1
      <4> QED
        BY <3>2, <4>2
  <2> QED
    BY <1>3, <2>1, <2>3, <2>4, <2>5
<1> QED
  BY <1>4, <1>5

(* The invariant has what the run checks of the routes.                    *)
LEMMA ControlSound ==
  ControlInv => /\ Control!TypeOK /\ Control!CacheFresh /\ Control!SlotsOwn
                /\ Control!NeverConnected /\ Control!FormationApart /\ Control!HealthReflectsEvents
<1> SUFFICES ASSUME ControlInv
             PROVE  Control!TypeOK /\ Control!NeverConnected
  BY SlotsApart, HealthIsHonest DEF ControlInv
<1>1. Control!TypeOK
  BY DEF ControlInv, ControlTypes, MemberRow, Control!TypeOK
<1> QED
  BY <1>1, EngineNeverConnected DEF ControlInv

-----------------------------------------------------------------------------
(* The flight of a swarm *)

(* Vehicles are finitely many, places are whole metres, and the recorder   *)
(* keeps at least one snapshot.                                            *)
FlightOK ==
  /\ IsFiniteSet(Vehicles) /\ NoVehicle \notin Vehicles
  /\ Routes \subseteq Seq(Int) /\ Shifts \subseteq Int
  /\ Cooldown \in Nat /\ MaxTicks \in Nat /\ MaxSnapshots \in Nat \ {0}

Members == [id : Vehicles, role : Flight!Roles, slot : Nat]

(* A configuration: members in the order of their slots, each vehicle      *)
(* once, and one leader unless there are none.                             *)
ConfigOK(cfg) ==
  /\ cfg \in [members : Seq(Members), leader : Vehicles \union {NoVehicle}]
  /\ \A i \in 1..Len(cfg.members) : cfg.members[i].slot = i - 1
  /\ \A i, j \in 1..Len(cfg.members) : cfg.members[i].id = cfg.members[j].id => i = j
  /\ \A i \in 1..Len(cfg.members) : cfg.members[i].role = "LEADER" <=> i = 1
  /\ cfg.leader = IF cfg.members = <<>> THEN NoVehicle ELSE cfg.members[1].id

(* A set of natural numbers has a least element.                           *)
LEMMA LeastNatural ==
  ASSUME NEW S, S \subseteq Nat, S # {}
  PROVE  \E x \in S : \A y \in S : x <= y
<1>1. \E x \in S : \A y \in S : ~(<<y, x>> \in OpToRel(<, Nat))
  BY NatLessThanWellFounded, WFMin
<1>2. \A x, y \in Nat : <<y, x>> \in OpToRel(<, Nat) <=> y < x
  BY DEF OpToRel
<1>3. \E x \in S : \A y \in S : ~(y < x)
  BY <1>1, <1>2, Zenon
<1> QED
  BY <1>3

(* The fleet lists every vehicle once.                                     *)
LEMMA FleetIs ==
  ASSUME FlightOK
  PROVE  /\ Flight!Fleet \in Seq(Vehicles)
         /\ DOMAIN Flight!Fleet = 1..Len(Flight!Fleet) /\ Len(Flight!Fleet) \in Nat
         /\ \A i, j \in DOMAIN Flight!Fleet : Flight!Fleet[i] = Flight!Fleet[j] => i = j
         /\ \A v \in Vehicles : \E i \in DOMAIN Flight!Fleet : Flight!Fleet[i] = v
<1> DEFINE n == Cardinality(Vehicles)
<1>1. n \in Nat /\ ExistsBijection(1..n, Vehicles)
  BY FS_CardinalityType DEF FlightOK
<1>2. PICK f \in Bijection(1..n, Vehicles) : TRUE
  BY <1>1 DEF ExistsBijection
<1>3. f \in [1..n -> Vehicles] /\ \A i, j \in 1..n : f[i] = f[j] => i = j
  BY <1>2 DEF Bijection, Injection, IsInjective
<1>4. Flight!Cardinality(Vehicles) = n
  BY DEF Flight!Cardinality, Cardinality
<1>5. Flight!Fleet = CHOOSE g \in [1..n -> Vehicles] : Flight!IsInjective(g)
  BY <1>4 DEF Flight!Fleet, Flight!SetToSeq
<1>6. Flight!IsInjective(f)
  BY <1>3 DEF Flight!IsInjective
<1>7. Flight!Fleet \in [1..n -> Vehicles] /\ Flight!IsInjective(Flight!Fleet)
  BY <1>3, <1>5, <1>6
<1>8. \A i, j \in 1..n : Flight!Fleet[i] = Flight!Fleet[j] => i = j
  BY <1>7 DEF Flight!IsInjective
<1>9. Flight!Fleet \in Injection(1..n, Vehicles)
  BY <1>7, <1>8 DEF Injection, IsInjective
<1>10. IsFiniteSet(1..n) /\ Cardinality(1..n) = n
  BY <1>1, FS_Interval
<1>11. Flight!Fleet \in Surjection(1..n, Vehicles)
  BY <1>9, <1>10, FS_Injection DEF FlightOK
<1>12. \A v \in Vehicles : \E i \in 1..n : Flight!Fleet[i] = v
  BY <1>11 DEF Surjection
<1> HIDE DEF n
<1>13. Flight!Fleet \in Seq(Vehicles) /\ Len(Flight!Fleet) = n /\ DOMAIN Flight!Fleet = 1..n
  BY <1>1, <1>7
<1> QED
  BY <1>1, <1>8, <1>12, <1>13

(* Who joins takes the next slot, and leads when nobody was there.         *)
LEMMA Joined ==
  ASSUME FlightOK, NEW cfg, ConfigOK(cfg), NEW v \in Vehicles,
         \A i \in 1..Len(cfg.members) : cfg.members[i].id # v,
         NEW role \in Flight!Roles, role = "LEADER" <=> cfg.members = <<>>
  PROVE  LET new == Flight!RegisterMember(cfg, v, role) IN
         /\ ConfigOK(new)
         /\ new.members = Append(cfg.members, Flight!Member(v, role, Len(cfg.members)))
<1> DEFINE seats == cfg.members
           n == Len(seats)
           entry == Flight!Member(v, role, n)
           new == Flight!RegisterMember(cfg, v, role)
<1>1. seats \in Seq(Members) /\ n \in Nat /\ DOMAIN seats = 1..n /\ (n = 0 <=> seats = <<>>)
      /\ cfg.leader \in Vehicles \union {NoVehicle}
  BY LenProperties DEF ConfigOK
<1>2. v \notin Flight!Ids(cfg)
  BY <1>1 DEF Flight!Ids
<1>3. entry \in Members /\ entry.id = v /\ entry.role = role /\ entry.slot = n
  BY <1>1 DEF Flight!Member, Members
<1>4. CASE seats = <<>>
  <2>1. cfg.leader = NoVehicle /\ role = "LEADER" /\ n = 0
    BY <1>1, <1>4 DEF ConfigOK
  <2>2. new = [members |-> Append(seats, entry), leader |-> v]
    BY <1>2, <1>4, <2>1 DEF Flight!RegisterMember
  <2>3. Append(seats, entry) = <<entry>>
    BY <1>4
  <2> HIDE DEF entry, seats, n, new
  <2>4. /\ <<entry>> \in Seq(Members) /\ Len(<<entry>>) = 1 /\ <<entry>>[1] = entry
        /\ <<entry>> # <<>>
    BY <1>3
  <2>5. new.members = <<entry>> /\ new.leader = v
        /\ new \in [members : Seq(Members), leader : Vehicles \union {NoVehicle}]
    BY <2>2, <2>3, <2>4
  <2>6. \A i \in 1..Len(new.members) : i = 1 /\ new.members[i] = entry
    BY <2>4, <2>5
  <2>7. new.members # <<>> /\ new.leader = new.members[1].id
    BY <1>3, <2>4, <2>5
  <2>8. ConfigOK(new)
    BY <1>3, <2>1, <2>5, <2>6, <2>7 DEF ConfigOK
  <2> QED
    BY <2>3, <2>5, <2>8 DEF entry, seats, n, new
<1>5. CASE seats # <<>>
  <2>1. role = "FOLLOWER" /\ n > 0
    BY <1>1, <1>5 DEF Flight!Roles
  <2>2. new = [members |-> Append(seats, entry), leader |-> cfg.leader]
    BY <1>2, <1>5, <2>1 DEF Flight!RegisterMember
  <2> DEFINE X == Append(seats, entry)
  <2>3. /\ X \in Seq(Members) /\ Len(X) = n + 1
        /\ \A i \in 1..n : X[i] = seats[i]
        /\ X[n + 1] = entry
    BY <1>1, <1>3
  <2>4. /\ \A i \in 1..n : seats[i].slot = i - 1
        /\ \A i, j \in 1..n : seats[i].id = seats[j].id => i = j
        /\ \A i \in 1..n : seats[i].role = "LEADER" <=> i = 1
        /\ cfg.leader = seats[1].id
        /\ \A i \in 1..n : seats[i].id # v
    BY <1>5 DEF ConfigOK
  <2> HIDE DEF entry, seats, n, new, X
  <2>5. new.members = X /\ new.leader = cfg.leader
        /\ new \in [members : Seq(Members), leader : Vehicles \union {NoVehicle}]
    BY <1>1, <2>2, <2>3 DEF X
  <2>6. \A i \in 1..(n + 1) : i \in 1..n \/ i = n + 1
    BY <1>1
  <2>7. \A i \in 1..(n + 1) : X[i].slot = i - 1
    <3>1. X[n + 1].slot = (n + 1) - 1
      BY <1>1, <1>3, <2>3
    <3> QED
      BY <2>3, <2>4, <2>6, <3>1
  <2>8. \A i, j \in 1..(n + 1) : X[i].id = X[j].id => i = j
    BY <1>3, <2>3, <2>4, <2>6
  <2>9. \A i \in 1..(n + 1) : X[i].role = "LEADER" <=> i = 1
    <3>1. n + 1 # 1 /\ X[n + 1].role = "FOLLOWER"
      BY <1>1, <1>3, <2>1, <2>3
    <3> QED
      BY <2>3, <2>4, <2>6, <3>1
  <2>10. X # <<>> /\ X[1].id = cfg.leader
    BY <1>1, <2>1, <2>3, <2>4
  <2>11. ConfigOK(new)
    BY <2>3, <2>5, <2>7, <2>8, <2>9, <2>10 DEF ConfigOK
  <2> QED
    BY <2>5, <2>11 DEF entry, seats, n, new, X
<1> QED
  BY <1>4, <1>5

(* Enrolling the fleet one by one gives a configuration.                   *)
LEMMA FleetEnrolled ==
  ASSUME FlightOK
  PROVE  ConfigOK(Flight!Enrolled[Len(Flight!Fleet)])
<1> DEFINE F == Flight!Fleet
           L == Len(F)
           role(i) == IF i = 1 THEN "LEADER" ELSE "FOLLOWER"
           m(i) == Flight!Member(F[i], role(i), i - 1)
           g(n) == [members |-> [i \in 1..n |-> m(i)],
                    leader |-> IF n = 0 THEN NoVehicle ELSE F[1]]
<1>1. /\ F \in Seq(Vehicles) /\ DOMAIN F = 1..L /\ L \in Nat
      /\ \A i, j \in 1..L : F[i] = F[j] => i = j
      /\ \A i \in 1..L : F[i] \in Vehicles
  BY FleetIs
<1>2. \A i \in 1..L : /\ m(i) \in Members /\ m(i).id = F[i] /\ m(i).role = role(i)
                      /\ m(i).slot = i - 1
  BY <1>1 DEF Members, Flight!Member, Flight!Roles
<1> HIDE DEF F, L, m
<1>3. ASSUME NEW n \in 0..L
      PROVE  /\ ConfigOK(g(n)) /\ Len(g(n).members) = n
             /\ \A i \in 1..n : g(n).members[i] = m(i)
  <2> DEFINE X == [i \in 1..n |-> m(i)]
  <2>1. n \in Nat /\ \A i \in 1..n : i \in 1..L
    BY <1>1
  <2>2. X \in Seq(Members) /\ Len(X) = n /\ \A i \in 1..n : X[i] = m(i)
    BY <1>2, <2>1
  <2>3. X = <<>> <=> n = 0
    BY <2>1, <2>2
  <2> HIDE DEF X
  <2>4. /\ \A i \in 1..n : X[i].slot = i - 1
        /\ \A i, j \in 1..n : X[i].id = X[j].id => i = j
        /\ \A i \in 1..n : X[i].role = "LEADER" <=> i = 1
    BY <1>1, <1>2, <2>1, <2>2
  <2>5. n # 0 => X[1].id = F[1] /\ F[1] \in Vehicles
    BY <1>1, <1>2, <2>1, <2>2
  <2>6. g(n).members = X /\ g(n).leader = (IF n = 0 THEN NoVehicle ELSE F[1])
    BY DEF X
  <2>7. g(n) \in [members : Seq(Members), leader : Vehicles \union {NoVehicle}]
    BY <2>2, <2>5 DEF X
  <2> HIDE DEF g
  <2>8. ConfigOK(g(n))
    BY <2>2, <2>3, <2>4, <2>5, <2>6, <2>7 DEF ConfigOK
  <2> QED
    BY <2>2, <2>6, <2>8
<1> DEFINE step(c, n) == IF n = 0 THEN Flight!NoMembers
                         ELSE Flight!RegisterMember(c, F[n], role(n))
<1>4. g(0) = Flight!NoMembers
  <2>1. [i \in 1..0 |-> m(i)] = <<>>
    OBVIOUS
  <2> QED
    BY <2>1 DEF Flight!NoMembers
<1>5. ASSUME NEW n \in 1..L
      PROVE  Flight!RegisterMember(g(n - 1), F[n], role(n)) = g(n)
  <2>0. PICK k \in 0..L : k = n - 1 /\ n = k + 1
    BY <1>1
  <2>1. /\ ConfigOK(g(k)) /\ Len(g(k).members) = k
        /\ \A i \in 1..k : g(k).members[i] = m(i)
    BY <1>3
  <2>2. /\ ConfigOK(g(n)) /\ Len(g(n).members) = n
        /\ \A i \in 1..n : g(n).members[i] = m(i)
    BY <1>3, <2>0
  <2> DEFINE new == Flight!RegisterMember(g(k), F[n], role(n))
             r == role(n)
  <2>3. r \in Flight!Roles /\ (r = "LEADER" <=> g(k).members = <<>>)
    <3>1. g(k).members \in Seq(Members)
      BY <2>1 DEF ConfigOK
    <3> HIDE DEF g
    <3>2. g(k).members = <<>> <=> k = 0
      BY <2>1, <3>1, LenProperties
    <3> QED
      BY <2>0, <3>2 DEF Flight!Roles
  <2>4. F[n] \in Vehicles /\ \A i \in 1..Len(g(k).members) : g(k).members[i].id # F[n]
    <3> HIDE DEF g
    <3> QED
      BY <1>1, <1>2, <2>0, <2>1
  <2>5. ConfigOK(new) /\ new.members = Append(g(k).members, Flight!Member(F[n], r, k))
    <3> HIDE DEF g, r
    <3>1. new = Flight!RegisterMember(g(k), F[n], r)
      BY DEF r
    <3> HIDE DEF new
    <3> QED
      BY <2>1, <2>3, <2>4, <3>1, Joined
  <2>6. Flight!Member(F[n], r, k) = m(n)
    BY <2>0 DEF m
  <2>7. new.members = g(n).members
    <3> HIDE DEF g, r, new
    <3>1. g(k).members \in Seq(Members) /\ g(n).members \in Seq(Members) /\ m(n) \in Members
      BY <1>2, <2>1, <2>2 DEF ConfigOK
    <3> DEFINE X == g(k).members
               Y == g(n).members
    <3>a. k \in Nat /\ (\A i \in 1..k : i \in 1..n) /\ k + 1 \in 1..n /\ n = k + 1
      BY <1>1, <2>0
    <3>b. /\ \A i \in 1..k : X[i] = m(i)
          /\ \A i \in 1..n : Y[i] = m(i)
          /\ Len(X) = k /\ Len(Y) = n
      BY <2>1, <2>2
    <3>2. /\ X \in Seq(Members) /\ Y \in Seq(Members) /\ m(n) \in Members
          /\ Len(X) = k /\ Len(Y) = k + 1 /\ k \in Nat
          /\ (\A i \in 1..k : X[i] = Y[i]) /\ Y[k + 1] = m(n)
      <4> HIDE DEF X, Y
      <4> QED
        BY <3>1, <3>a, <3>b DEF X, Y
    <3> HIDE DEF X, Y
    <3>3. Append(X, m(n)) = Y
      BY <3>2
    <3> QED
      BY <2>5, <2>6, <3>3 DEF X, Y
  <2>8. new.leader = g(n).leader
    <3> HIDE DEF g, new
    <3> QED
      BY <2>2, <2>5, <2>7 DEF ConfigOK
  <2>9. new = g(n)
    <3> HIDE DEF g, new
    <3> QED
      BY <2>2, <2>5, <2>7, <2>8 DEF ConfigOK
  <2> QED
    BY <2>0, <2>9
<1> DEFINE G == [n \in 0..L |-> g(n)]
           E == Flight!Enrolled
<1>6. G = [n \in 0..L |-> step(G[n - 1], n)]
  <2>1. ASSUME NEW n \in 0..L PROVE g(n) = step(G[n - 1], n)
    <3>1. CASE n = 0
      BY <1>4, <3>1
    <3>2. CASE n # 0
      <4>1. n \in 1..L /\ n - 1 \in 0..L
        BY <1>1, <3>2
      <4>2. G[n - 1] = g(n - 1)
        BY <4>1
      <4> HIDE DEF g, G
      <4> QED
        BY <1>5, <3>2, <4>1, <4>2
    <3> QED
      BY <3>1, <3>2
  <2> QED
    BY <2>1
<1>7. E = [n \in 0..L |-> step(E[n - 1], n)]
  <2>1. E = CHOOSE f : f = [n \in 0..L |-> step(f[n - 1], n)]
    BY DEF Flight!Enrolled, F, L
  <2> HIDE DEF G, E, step
  <2> QED
    BY <1>6, <2>1
<1> HIDE DEF E
<1> DEFINE Bad == {n \in 0..L : E[n] # g(n)}
<1>8. Bad = {}
  <2> SUFFICES ASSUME Bad # {} PROVE FALSE
    OBVIOUS
  <2>1. Bad \subseteq Nat
    OBVIOUS
  <2>2. PICK n \in Bad : \A k \in Bad : n <= k
    <3> HIDE DEF Bad
    <3> QED
      BY <2>1, LeastNatural
  <2>3. n \in 0..L /\ E[n] # g(n)
    OBVIOUS
  <2>4. CASE n = 0
    BY <1>1, <1>4, <1>7, <2>3, <2>4
  <2>5. CASE n # 0
    <3>1. n - 1 \in 0..L /\ n \in 1..L /\ n - 1 < n
      BY <1>1, <2>3, <2>5
    <3>2. n - 1 \notin Bad
      <4> HIDE DEF Bad
      <4> QED
        BY <2>1, <2>2, <3>1
    <3>3. E[n - 1] = g(n - 1)
      BY <3>1, <3>2
    <3>4. E[n] = Flight!RegisterMember(E[n - 1], F[n], role(n))
      BY <1>7, <2>3, <2>5
    <3> HIDE DEF g
    <3> QED
      BY <1>5, <2>3, <3>1, <3>3, <3>4
  <2> QED
    BY <2>4, <2>5
<1>9. E[L] = g(L)
  BY <1>1, <1>8
<1>10. ConfigOK(g(L))
  <2>1. L \in 0..L
    BY <1>1
  <2> HIDE DEF g
  <2> QED
    BY <1>3, <2>1
<1> HIDE DEF g
<1> QED
  BY <1>9, <1>10 DEF E, F, L

(* The others are the members without one, in the same order.              *)
LEMMA OthersOf ==
  ASSUME NEW cfg, ConfigOK(cfg), NEW v \in Flight!Ids(cfg)
  PROVE  LET n == Len(cfg.members)
             rest == Flight!Others(cfg, v)
         IN /\ n \in Nat \ {0} /\ rest \in Seq(Members) /\ Len(rest) = n - 1
            /\ \E p \in 1..n :
                  /\ cfg.members[p].id = v
                  /\ \A i \in 1..(n - 1) : rest[i] = cfg.members[IF i < p THEN i ELSE i + 1]
<1> DEFINE X == cfg.members
           n == Len(X)
           p == Flight!PlaceOf(cfg, v)
           A == SubSeq(X, 1, p - 1)
           B == SubSeq(X, p + 1, n)
<1>1. X \in Seq(Members) /\ n \in Nat /\ DOMAIN X = 1..n
  BY LenProperties DEF ConfigOK
<1>2. p \in 1..n /\ X[p].id = v
  BY <1>1 DEF Flight!Ids, Flight!PlaceOf
<1>3. Flight!Others(cfg, v) = A \o B
  BY DEF Flight!Others, Flight!RemoveAt
<1> HIDE DEF X, n, p
<1>4. /\ A \in Seq(Members) /\ Len(A) = p - 1
      /\ \A i \in 1..(p - 1) : A[i] = X[i]
  BY <1>1, <1>2 DEF n
<1>5. /\ B \in Seq(Members) /\ Len(B) = n - p
      /\ \A i \in 1..(n - p) : B[i] = X[p + i]
  <2>1. B \in Seq(Members) /\ Len(B) = IF p + 1 <= n THEN n - (p + 1) + 1 ELSE 0
    BY <1>1, <1>2, SubSeqProperties DEF n
  <2>2. \A i \in 1..(n - p) : B[i] = X[p + 1 + i - 1]
    BY <1>1, <1>2 DEF n
  <2>3. Len(B) = n - p
    BY <1>1, <1>2, <2>1
  <2>4. \A i \in 1..(n - p) : p + 1 + i - 1 = p + i
    BY <1>1, <1>2
  <2> QED
    BY <2>1, <2>2, <2>3, <2>4
<1> HIDE DEF A, B
<1>6. /\ A \o B \in Seq(Members) /\ Len(A \o B) = n - 1
      /\ \A i \in 1..(p - 1) : (A \o B)[i] = A[i]
      /\ \A i \in 1..(n - p) : (A \o B)[(p - 1) + i] = B[i]
  <2>1. PICK a \in Nat, b \in Nat : a = p - 1 /\ b = n - p /\ a + b = n - 1
    BY <1>1, <1>2
  <2>2. Len(A) = a /\ Len(B) = b
    BY <1>4, <1>5, <2>1
  <2>3. /\ A \o B \in Seq(Members) /\ Len(A \o B) = a + b
        /\ \A i \in 1..a : (A \o B)[i] = A[i]
        /\ \A i \in 1..b : (A \o B)[a + i] = B[i]
    BY <1>4, <1>5, <2>2
  <2> QED
    BY <2>1, <2>3
<1>7. ASSUME NEW i \in 1..(n - 1)
      PROVE  (A \o B)[i] = X[IF i < p THEN i ELSE i + 1]
  <2>1. CASE i < p
    <3>1. i \in 1..(p - 1)
      BY <1>1, <1>2, <2>1
    <3> QED
      BY <1>4, <1>6, <2>1, <3>1
  <2>2. CASE ~(i < p)
    <3>1. PICK k \in 1..(n - p) : i = (p - 1) + k /\ i + 1 = p + k
      <4>1. i - p + 1 \in 1..(n - p) /\ i = (p - 1) + (i - p + 1) /\ i + 1 = p + (i - p + 1)
        BY <1>1, <1>2, <2>2
      <4> QED
        BY <4>1
    <3> QED
      BY <1>5, <1>6, <2>2, <3>1
  <2> QED
    BY <2>1, <2>2
<1>8. n # 0
  BY <1>1, <1>2
<1> QED
  BY <1>1, <1>2, <1>3, <1>6, <1>7, <1>8 DEF X, n

(* What every change of the member list comes to.                          *)
LEMMA Renumbered ==
  ASSUME NEW seats \in Seq(Members),
         \A i, j \in 1..Len(seats) : seats[i].id = seats[j].id => i = j,
         \A i \in 1..Len(seats) : seats[i].role = "LEADER" <=> i = 1
  PROVE  ConfigOK([members |-> Flight!Reindexed(seats),
                   leader |-> IF seats = <<>> THEN NoVehicle ELSE seats[1].id])
<1> DEFINE n == Len(seats)
           X == Flight!Reindexed(seats)
           cfg == [members |-> X, leader |-> IF seats = <<>> THEN NoVehicle ELSE seats[1].id]
<1>1. n \in Nat /\ DOMAIN seats = 1..n /\ \A i \in 1..n : seats[i] \in Members
  BY LenProperties
<1>2. X = [i \in 1..n |-> [seats[i] EXCEPT !.slot = i - 1]]
  BY <1>1 DEF Flight!Reindexed
<1>3. \A i \in 1..n : /\ [seats[i] EXCEPT !.slot = i - 1] \in Members
                      /\ X[i].id = seats[i].id /\ X[i].role = seats[i].role /\ X[i].slot = i - 1
  BY <1>1, <1>2 DEF Members
<1>4. X \in Seq(Members) /\ Len(X) = n
  BY <1>1, <1>2, <1>3
<1>5. X = <<>> <=> seats = <<>>
  BY <1>1, <1>4, LenProperties
<1>6. seats # <<>> => n > 0 /\ X[1].id = seats[1].id /\ seats[1].id \in Vehicles
  <2>1. seats # <<>> => n # 0
    BY LenProperties
  <2>2. seats # <<>> => n > 0 /\ 1 \in 1..n
    <3> HIDE DEF n
    <3> QED
      BY <1>1, <2>1
  <2>3. \A i \in 1..n : seats[i].id \in Vehicles
    BY <1>1 DEF Members
  <2> HIDE DEF n, X
  <2> QED
    BY <1>3, <2>2, <2>3
<1> HIDE DEF X, n
<1>7. cfg \in [members : Seq(Members), leader : Vehicles \union {NoVehicle}]
  BY <1>4, <1>6
<1>8. cfg.members = X /\ cfg.leader = IF seats = <<>> THEN NoVehicle ELSE seats[1].id
  OBVIOUS
<1> HIDE DEF cfg
<1>9. ConfigOK(cfg)
  <2>1. /\ \A i \in 1..n : X[i].id = seats[i].id /\ X[i].role = seats[i].role /\ X[i].slot = i - 1
        /\ \A i, j \in 1..n : seats[i].id = seats[j].id => i = j
        /\ \A i \in 1..n : seats[i].role = "LEADER" <=> i = 1
    BY <1>3 DEF n
  <2>2. cfg.leader = IF X = <<>> THEN NoVehicle ELSE X[1].id
    BY <1>5, <1>6, <1>8
  <2>3. Len(cfg.members) = n /\ cfg.members = X
    BY <1>4, <1>8
  <2> HIDE DEF n
  <2>4. /\ \A i \in 1..Len(cfg.members) : cfg.members[i].slot = i - 1
        /\ \A i, j \in 1..Len(cfg.members) : cfg.members[i].id = cfg.members[j].id => i = j
        /\ \A i \in 1..Len(cfg.members) : cfg.members[i].role = "LEADER" <=> i = 1
    BY <2>1, <2>3
  <2> QED
    BY <1>7, <2>2, <2>3, <2>4 DEF ConfigOK
<1> QED
  BY <1>9 DEF cfg, X

(* Removing a member closes the gap and promotes the next leader.          *)
LEMMA RemoveKeeps ==
  ASSUME NEW cfg, ConfigOK(cfg), NEW v \in Flight!Ids(cfg)
  PROVE  ConfigOK(Flight!RemoveMember(cfg, v))
<1> DEFINE X == cfg.members
           n == Len(X)
           rest == Flight!Others(cfg, v)
           crowned == IF rest = <<>> THEN <<>> ELSE [rest EXCEPT ![1].role = "LEADER"]
<1>1. PICK p \in 1..n :
        /\ X[p].id = v /\ \A i \in 1..(n - 1) : rest[i] = X[IF i < p THEN i ELSE i + 1]
        /\ n \in Nat \ {0} /\ rest \in Seq(Members) /\ Len(rest) = n - 1
  BY OthersOf
<1>2. /\ X \in Seq(Members) /\ cfg.leader = X[1].id /\ X # <<>>
      /\ \A i, j \in 1..n : X[i].id = X[j].id => i = j
      /\ \A i \in 1..n : X[i].role = "LEADER" <=> i = 1
      /\ cfg \in [members : Seq(Members), leader : Vehicles \union {NoVehicle}]
  BY <1>1, LenProperties DEF ConfigOK
<1> DEFINE old(i) == IF i < p THEN i ELSE i + 1
<1> HIDE DEF X, n, rest
<1>3. /\ \A i \in 1..(n - 1) : old(i) \in 1..n /\ rest[i] = X[old(i)]
      /\ \A i, j \in 1..(n - 1) : old(i) = old(j) => i = j
  BY <1>1
<1>4. rest = <<>> <=> n = 1
  <2>1. rest = <<>> <=> Len(rest) = 0
    BY <1>1, LenProperties
  <2> QED
    BY <1>1, <2>1
<1>5. \A i, j \in 1..(n - 1) : rest[i].id = rest[j].id => i = j
  <2> HIDE DEF old
  <2> QED
    BY <1>2, <1>3
<1>6. CASE p = 1
  <2>1. cfg.leader = v
    BY <1>1, <1>2, <1>6
  <2>2. \A i \in 1..(n - 1) : rest[i].role # "LEADER"
    BY <1>1, <1>2, <1>3, <1>6
  <2>3. /\ crowned \in Seq(Members) /\ Len(crowned) = n - 1
        /\ \A i \in 1..(n - 1) : /\ crowned[i].id = rest[i].id
                                 /\ crowned[i].role = "LEADER" <=> i = 1
        /\ crowned = <<>> <=> rest = <<>>
    <3>1. CASE rest = <<>>
      BY <1>1, <1>4, <3>1
    <3>2. CASE rest # <<>>
      <4>1. DOMAIN rest = 1..(n - 1) /\ 1 \in 1..(n - 1) /\ rest[1] \in Members
        BY <1>1, <1>4, <3>2, LenProperties
      <4>2. PICK m \in Members : m = [rest[1] EXCEPT !.role = "LEADER"] /\ m.id = rest[1].id
                                 /\ m.role = "LEADER"
        <5>1. PICK q \in Members : q = rest[1]
          BY <4>1
        <5>2. /\ [q EXCEPT !.role = "LEADER"] \in Members
              /\ [q EXCEPT !.role = "LEADER"].id = q.id
              /\ [q EXCEPT !.role = "LEADER"].role = "LEADER"
          BY DEF Members, Flight!Roles
        <5> QED
          BY <5>1, <5>2
      <4>3. crowned = [rest EXCEPT ![1] = m]
        BY <3>2, <4>2
      <4>4. /\ crowned \in Seq(Members) /\ Len(crowned) = n - 1 /\ crowned[1] = m
            /\ \A i \in 1..(n - 1) : i # 1 => crowned[i] = rest[i]
        BY <1>1, <4>1, <4>3
      <4>5. crowned # <<>>
        BY <4>1, <4>4
      <4> HIDE DEF crowned
      <4> QED
        BY <2>2, <3>2, <4>2, <4>4, <4>5
    <3> QED
      BY <3>1, <3>2
  <2>4. Flight!RemoveMember(cfg, v) =
           [members |-> Flight!Reindexed(crowned),
            leader |-> IF rest = <<>> THEN NoVehicle ELSE rest[1].id]
    BY <2>1 DEF Flight!RemoveMember, rest
  <2>5. (IF rest = <<>> THEN NoVehicle ELSE rest[1].id)
           = IF crowned = <<>> THEN NoVehicle ELSE crowned[1].id
    <3>1. rest # <<>> => 1 \in 1..(n - 1)
      BY <1>1, <1>4
    <3> HIDE DEF crowned
    <3> QED
      BY <2>3, <3>1
  <2> HIDE DEF crowned
  <2> DEFINE after == [members |-> Flight!Reindexed(crowned),
                       leader |-> IF crowned = <<>> THEN NoVehicle ELSE crowned[1].id]
  <2>6. ConfigOK(after)
    <3>1. /\ \A i, j \in 1..Len(crowned) : crowned[i].id = crowned[j].id => i = j
          /\ \A i \in 1..Len(crowned) : crowned[i].role = "LEADER" <=> i = 1
      BY <1>5, <2>3
    <3> QED
      BY <2>3, <3>1, Renumbered
  <2>7. Flight!RemoveMember(cfg, v) = after
    BY <2>4, <2>5
  <2> QED
    BY <2>6, <2>7
<1>7. CASE p # 1
  <2>1. cfg.leader # v
    <3>1. 1 \in 1..n
      BY <1>1
    <3> QED
      BY <1>1, <1>2, <1>7, <3>1
  <2>2. rest # <<>> /\ 1 \in 1..(n - 1) /\ rest[1] = X[1]
    BY <1>1, <1>3, <1>4, <1>7
  <2>3. \A i \in 1..(n - 1) : rest[i].role = "LEADER" <=> i = 1
    BY <1>1, <1>2, <1>3, <1>7
  <2>4. ConfigOK([members |-> Flight!Reindexed(rest),
                  leader |-> IF rest = <<>> THEN NoVehicle ELSE rest[1].id])
    <3>1. /\ \A i, j \in 1..Len(rest) : rest[i].id = rest[j].id => i = j
          /\ \A i \in 1..Len(rest) : rest[i].role = "LEADER" <=> i = 1
      BY <1>1, <1>5, <2>3
    <3> QED
      BY <1>1, <3>1, Renumbered
  <2>5. Flight!RemoveMember(cfg, v) =
           [members |-> Flight!Reindexed(rest),
            leader |-> IF rest = <<>> THEN NoVehicle ELSE rest[1].id]
    <3>1. Flight!RemoveMember(cfg, v) = [cfg EXCEPT !.members = Flight!Reindexed(rest)]
      BY <2>1 DEF Flight!RemoveMember, rest
    <3>2. cfg.leader = rest[1].id
      BY <1>2, <2>2
    <3> QED
      BY <1>2, <2>2, <3>1, <3>2
  <2> QED
    BY <2>4, <2>5
<1> QED
  BY <1>6, <1>7

(* A new leader takes the first slot and the others follow.                *)
LEMMA LeaderKeeps ==
  ASSUME NEW cfg, ConfigOK(cfg), NEW v \in Vehicles
  PROVE  ConfigOK(Flight!SetLeader(cfg, v))
<1>1. CASE v \notin Flight!Ids(cfg)
  BY <1>1 DEF Flight!SetLeader
<1>2. CASE v \in Flight!Ids(cfg)
  <2> DEFINE X == cfg.members
             n == Len(X)
             rest == Flight!Others(cfg, v)
             first == Flight!Member(v, "LEADER", 0)
             tail == [i \in DOMAIN rest |-> [rest[i] EXCEPT !.role = "FOLLOWER"]]
             seats == <<first>> \o tail
  <2>1. PICK p \in 1..n :
          /\ X[p].id = v /\ \A i \in 1..(n - 1) : rest[i] = X[IF i < p THEN i ELSE i + 1]
          /\ n \in Nat \ {0} /\ rest \in Seq(Members) /\ Len(rest) = n - 1
    BY <1>2, OthersOf
  <2>2. X \in Seq(Members) /\ \A i, j \in 1..n : X[i].id = X[j].id => i = j
    BY DEF ConfigOK
  <2> DEFINE old(i) == IF i < p THEN i ELSE i + 1
  <2> HIDE DEF X, n, rest
  <2>3. /\ \A i \in 1..(n - 1) : old(i) \in 1..n /\ old(i) # p /\ rest[i] = X[old(i)]
        /\ \A i, j \in 1..(n - 1) : old(i) = old(j) => i = j
    BY <2>1
  <2>4. first \in Members /\ first.id = v /\ first.role = "LEADER"
    BY DEF Flight!Member, Members, Flight!Roles
  <2>5. Flight!SetLeader(cfg, v) = [members |-> Flight!Reindexed(seats), leader |-> v]
    BY <1>2 DEF Flight!SetLeader, rest
  <2>6. DOMAIN rest = 1..(n - 1) /\ \A i \in 1..(n - 1) : rest[i] \in Members
    BY <2>1, LenProperties
  <2>7. \A i \in 1..(n - 1) : /\ rest[i].id # v
                              /\ \A j \in 1..(n - 1) : rest[i].id = rest[j].id => i = j
    <3> HIDE DEF old
    <3>1. ASSUME NEW i \in 1..(n - 1), rest[i].id = X[p].id
          PROVE  old(i) = p
      <4>1. rest[i] = X[old(i)] /\ old(i) \in 1..n
        BY <2>3
      <4>2. X[old(i)].id = X[p].id
        BY <3>1, <4>1
      <4> QED
        BY <2>2, <4>1, <4>2
    <3>2. \A i, j \in 1..(n - 1) : rest[i].id = rest[j].id => old(i) = old(j)
      BY <2>2, <2>3
    <3> QED
      BY <2>1, <2>3, <3>1, <3>2
  <2>8. /\ tail \in Seq(Members) /\ Len(tail) = n - 1
        /\ \A i \in 1..(n - 1) : tail[i].id = rest[i].id /\ tail[i].role = "FOLLOWER"
    <3>1. \A i \in 1..(n - 1) : [rest[i] EXCEPT !.role = "FOLLOWER"] \in Members
      BY <2>6 DEF Members, Flight!Roles
    <3>2. tail = [i \in 1..(n - 1) |-> [rest[i] EXCEPT !.role = "FOLLOWER"]]
      BY <2>6
    <3>3. \A i \in 1..(n - 1) : tail[i].id = rest[i].id /\ tail[i].role = "FOLLOWER"
      BY <2>6, <3>2 DEF Members
    <3>4. n - 1 \in Nat
      BY <2>1
    <3> QED
      BY <3>1, <3>2, <3>3, <3>4
  <2> HIDE DEF first, tail
  <2>9. /\ seats \in Seq(Members) /\ Len(seats) = n /\ seats[1] = first
        /\ \A i \in 1..(n - 1) : seats[i + 1] = tail[i]
    BY <2>1, <2>4, <2>8
  <2>10. \A i \in 1..n : i = 1 \/ (i - 1 \in 1..(n - 1) /\ seats[i] = tail[i - 1])
    <3>1. \A i \in 1..n : i = 1 \/ (i - 1 \in 1..(n - 1) /\ (i - 1) + 1 = i)
      BY <2>1
    <3> QED
      BY <2>9, <3>1
  <2> HIDE DEF seats
  <2>11. \A i \in 1..n : seats[i].role = "LEADER" <=> i = 1
    <3>1. \A i \in 1..n : i - 1 \in 1..(n - 1) => i # 1
      BY <2>1
    <3> QED
      BY <2>4, <2>8, <2>9, <2>10, <3>1
  <2>12. \A i, j \in 1..n : seats[i].id = seats[j].id => i = j
    <3> SUFFICES ASSUME NEW i \in 1..n, NEW j \in 1..n, seats[i].id = seats[j].id PROVE i = j
      OBVIOUS
    <3>1. CASE i = 1 /\ j = 1
      BY <3>1
    <3>5. seats[1].id = v
      BY <2>4, <2>9
    <3>6. ASSUME NEW k \in 1..n, k # 1 PROVE seats[k].id # v
      <4>1. k - 1 \in 1..(n - 1) /\ seats[k] = tail[k - 1]
        BY <2>10, <3>6
      <4>2. tail[k - 1].id = rest[k - 1].id /\ rest[k - 1].id # v
        BY <2>7, <2>8, <4>1
      <4> QED
        BY <4>1, <4>2
    <3>2. CASE i = 1 /\ j # 1
      BY <3>2, <3>5, <3>6
    <3>3. CASE i # 1 /\ j = 1
      BY <3>3, <3>5, <3>6
    <3>4. CASE i # 1 /\ j # 1
      <4>1. /\ i - 1 \in 1..(n - 1) /\ seats[i] = tail[i - 1]
            /\ j - 1 \in 1..(n - 1) /\ seats[j] = tail[j - 1]
        BY <2>10, <3>4
      <4>2. rest[i - 1].id = rest[j - 1].id
        BY <2>8, <4>1
      <4>3. i - 1 = j - 1
        BY <2>7, <4>1, <4>2
      <4> QED
        BY <4>3
    <3> QED
      BY <3>1, <3>2, <3>3, <3>4
  <2>13. seats # <<>> /\ seats[1].id = v
    BY <2>1, <2>4, <2>9
  <2>14. ConfigOK([members |-> Flight!Reindexed(seats),
                   leader |-> IF seats = <<>> THEN NoVehicle ELSE seats[1].id])
    BY <2>9, <2>11, <2>12, Renumbered
  <2> QED
    BY <2>5, <2>13, <2>14
<1> QED
  BY <1>1, <1>2

(* A configuration has one leader, and it is the one it names.             *)
LEMMA LeaderIsFirst ==
  ASSUME FlightOK, ConfigOK(config)
  PROVE  Flight!OneLeader
<1> DEFINE X == config.members
           leads == {i \in DOMAIN X : X[i].role = "LEADER"}
<1>1. X \in Seq(Members) /\ DOMAIN X = 1..Len(X) /\ Len(X) \in Nat
  BY LenProperties DEF ConfigOK
<1>2. \A i \in DOMAIN X : X[i].slot = i - 1
  BY <1>1 DEF ConfigOK
<1>3. CASE X = <<>>
  <2>1. config.leader = NoVehicle /\ leads = {}
    BY <1>1, <1>3 DEF ConfigOK
  <2>2. {X[i].id : i \in leads} = {}
    BY <2>1
  <2> QED
    BY <1>2, <1>3, <2>1, <2>2 DEF Flight!OneLeader
<1>4. CASE X # <<>>
  <2>1. 1 \in DOMAIN X
    BY <1>1, <1>4
  <2>2. config.leader = X[1].id /\ X[1].id \in Vehicles
    <3>1. config.leader = X[1].id
      BY <1>4 DEF ConfigOK
    <3>2. X[1] \in Members
      <4> HIDE DEF X
      <4> QED
        BY <1>1, <2>1
    <3> QED
      BY <3>1, <3>2 DEF Members
  <2>3. leads = {1}
    BY <1>1, <2>1 DEF ConfigOK
  <2>4. {X[i].id : i \in leads} = {X[1].id}
    BY <2>3
  <2>5. config.leader # NoVehicle
    BY <2>2 DEF FlightOK
  <2> QED
    BY <1>2, <1>4, <2>2, <2>4, <2>5 DEF Flight!OneLeader
<1> QED
  BY <1>3, <1>4

(* Where a place k of a formation other than the grid is.                  *)
LEMMA FlightOffsets ==
  ASSUME NEW n, NEW k \in Nat, k # 0
  PROVE  /\ Flight!Offset("COLUMN", n, k) = [x |-> -k, y |-> 0, arc |-> 0]
         /\ Flight!Offset("CIRCLE", n, k) = [x |-> 0, y |-> 0, arc |-> k]
         /\ Flight!Offset("LINE", n, k) =
               [x |-> 0, y |-> (IF k % 2 = 0 THEN -1 ELSE 1) * ((k + 1) \div 2), arc |-> 0]
         /\ Flight!Offset("V_FORMATION", n, k) =
               [x |-> -((k + 1) \div 2),
                y |-> -(IF k % 2 = 0 THEN -1 ELSE 1) * ((k + 1) \div 2), arc |-> 0]
BY DEF Flight!Offset, Flight!Half

(* Alternating sides, no two slots are as many places out.                 *)
LEMMA HalvesApart ==
  ASSUME NEW j \in Nat, NEW k \in Nat, j # 0, k # 0, j # k
  PROVE  /\ (IF j % 2 = 0 THEN -1 ELSE 1) * ((j + 1) \div 2)
              # (IF k % 2 = 0 THEN -1 ELSE 1) * ((k + 1) \div 2)
         /\ -(IF j % 2 = 0 THEN -1 ELSE 1) * ((j + 1) \div 2)
              # -(IF k % 2 = 0 THEN -1 ELSE 1) * ((k + 1) \div 2)
         /\ (IF k % 2 = 0 THEN -1 ELSE 1) * ((k + 1) \div 2) # 0
         /\ -((k + 1) \div 2) # 0
<1>1. PICK a \in Nat, b \in Nat : a = (j + 1) \div 2 /\ b = (k + 1) \div 2 /\ a > 0 /\ b > 0
  OBVIOUS
<1>2. /\ j % 2 = 0 => j = 2 * a
      /\ j % 2 # 0 => j = 2 * a - 1
      /\ k % 2 = 0 => k = 2 * b
      /\ k % 2 # 0 => k = 2 * b - 1
  BY <1>1
<1>3. CASE j % 2 = 0 /\ k % 2 = 0
  BY <1>1, <1>2, <1>3
<1>4. CASE j % 2 # 0 /\ k % 2 = 0
  BY <1>1, <1>2, <1>4
<1>5. CASE j % 2 = 0 /\ k % 2 # 0
  BY <1>1, <1>2, <1>5
<1>6. CASE j % 2 # 0 /\ k % 2 # 0
  BY <1>1, <1>2, <1>6
<1> QED
  BY <1>3, <1>4, <1>5, <1>6

(* But for the grid, formations give different slots different places.     *)
LEMMA FlightPlacesApart ==
  ASSUME NEW kind \in Flight!Formations \ {"GRID"}, NEW n, NEW j \in Nat, NEW k \in Nat, j # k
  PROVE  Flight!Offset(kind, n, j) # Flight!Offset(kind, n, k)
<1>1. kind \in {"LINE", "COLUMN", "V_FORMATION", "CIRCLE"}
  BY DEF Flight!Formations
<1>2. \A i \in {j, k} : i = 0 => Flight!Offset(kind, n, i) = [x |-> 0, y |-> 0, arc |-> 0]
  BY DEF Flight!Offset
<1>3. CASE j # 0 /\ k # 0
  <2> DEFINE y(i) == (IF i % 2 = 0 THEN -1 ELSE 1) * ((i + 1) \div 2)
             z(i) == -(IF i % 2 = 0 THEN -1 ELSE 1) * ((i + 1) \div 2)
             h(i) == -((i + 1) \div 2)
  <2>1. y(j) # y(k) /\ z(j) # z(k)
    BY <1>3, HalvesApart
  <2>2. \A i \in {j, k} :
          /\ Flight!Offset("COLUMN", n, i) = [x |-> -i, y |-> 0, arc |-> 0]
          /\ Flight!Offset("CIRCLE", n, i) = [x |-> 0, y |-> 0, arc |-> i]
          /\ Flight!Offset("LINE", n, i) = [x |-> 0, y |-> y(i), arc |-> 0]
          /\ Flight!Offset("V_FORMATION", n, i) = [x |-> h(i), y |-> z(i), arc |-> 0]
    BY <1>3, FlightOffsets
  <2> HIDE DEF y, z, h
  <2>3. -j # -k
    OBVIOUS
  <2> QED
    BY <1>1, <2>1, <2>2, <2>3
<1>4. ASSUME NEW i \in Nat, i # 0
      PROVE  Flight!Offset(kind, n, i) # [x |-> 0, y |-> 0, arc |-> 0]
  <2> DEFINE y == (IF i % 2 = 0 THEN -1 ELSE 1) * ((i + 1) \div 2)
             z == -(IF i % 2 = 0 THEN -1 ELSE 1) * ((i + 1) \div 2)
             h == -((i + 1) \div 2)
  <2>1. y # 0 /\ h # 0 /\ -i # 0
    <3>1. i # i + 1 /\ i + 1 # 0 /\ i + 1 \in Nat
      BY <1>4
    <3> QED
      BY <1>4, <3>1, HalvesApart
  <2>2. /\ Flight!Offset("COLUMN", n, i) = [x |-> -i, y |-> 0, arc |-> 0]
        /\ Flight!Offset("CIRCLE", n, i) = [x |-> 0, y |-> 0, arc |-> i]
        /\ Flight!Offset("LINE", n, i) = [x |-> 0, y |-> y, arc |-> 0]
        /\ Flight!Offset("V_FORMATION", n, i) = [x |-> h, y |-> z, arc |-> 0]
    BY <1>4, FlightOffsets
  <2> HIDE DEF y, z, h
  <2> QED
    BY <1>1, <1>4, <2>1, <2>2
<1>5. CASE j = 0 \/ k = 0
  BY <1>2, <1>4, <1>5
<1> QED
  BY <1>3, <1>5

(* So the routes of one mission are apart.                                 *)
LEMMA MissionPlacesApart ==
  ASSUME ConfigOK(config)
  PROVE  Flight!MissionsApart
<1> DEFINE X == config.members
           n == Len(X)
           p(v) == Flight!PlaceOf(config, v)
<1>1. /\ X \in Seq(Members) /\ DOMAIN X = 1..n /\ n \in Nat
      /\ \A i, j \in 1..n : X[i].id = X[j].id => i = j
      /\ \A i \in 1..n : X[i].slot = i - 1
  BY LenProperties DEF ConfigOK
<1>2. ASSUME NEW v \in Flight!Ids(config)
      PROVE  p(v) \in 1..n /\ X[p(v)].id = v
  BY <1>1 DEF Flight!Ids, Flight!PlaceOf
<1> SUFFICES ASSUME NEW kind \in Flight!Formations \ {"GRID"},
                    NEW v \in Flight!Ids(config), NEW w \in Flight!Ids(config), v # w
             PROVE  Flight!MissionOffsets(config, kind)[v] # Flight!MissionOffsets(config, kind)[w]
  BY DEF Flight!MissionsApart, Flight!MissionOffsets
<1>3. ASSUME NEW u \in Flight!Ids(config)
      PROVE  Flight!MissionOffsets(config, kind)[u] = Flight!Offset(kind, n, p(u) - 1)
  <2>1. Flight!MissionOffsets(config, kind)[u] = Flight!OffsetOf(Flight!Slots(kind, n), X[p(u)].slot)
    BY DEF Flight!MissionOffsets
  <2>2. X[p(u)].slot = p(u) - 1 /\ p(u) - 1 \in 0..(n - 1)
    <3> HIDE DEF X, n, p
    <3> QED
      BY <1>1, <1>2
  <2> HIDE DEF X, n, p
  <2>3. p(u) - 1 \in DOMAIN Flight!Slots(kind, n)
        /\ Flight!Slots(kind, n)[p(u) - 1] = Flight!Offset(kind, n, p(u) - 1)
    BY <2>2 DEF Flight!Slots
  <2> QED
    BY <2>1, <2>2, <2>3 DEF Flight!OffsetOf
<1> HIDE DEF X, n, p
<1>4. p(v) - 1 \in Nat /\ p(w) - 1 \in Nat /\ p(v) - 1 # p(w) - 1
  BY <1>1, <1>2
<1>5. Flight!Offset(kind, n, p(v) - 1) # Flight!Offset(kind, n, p(w) - 1)
  BY <1>4, FlightPlacesApart
<1> QED
  BY <1>3, <1>5

-----------------------------------------------------------------------------
(* The recorder, the decisions and the clock *)

Warnings == {"critical", "warning"}
TwoOf == {p \in SUBSET Vehicles : Cardinality(p) = 2}
Craft == [at : Int, target : Int, waypoints : Seq(Int), next : Nat \ {0}]
Picture == [tick : Nat, running : BOOLEAN,
            health : {"DISCONNECTED", "CRITICAL", "DEGRADED", "HEALTHY"}, alarmed : BOOLEAN,
            level : Warnings \union {"none"}, decided : BOOLEAN, completed : SUBSET Vehicles,
            number : Nat, epoch : Nat]

FlightTypes ==
  /\ clock \in [tick : Nat, running : BOOLEAN]
  /\ taken \in Nat /\ taken <= MaxTicks /\ epoch \in Nat
  /\ clock.tick <= taken
  /\ craft \in [Vehicles -> Craft]
  /\ visited \in [Vehicles -> SUBSET Nat]
  /\ triggered \in [Warnings \X TwoOf -> Nat]
  /\ recording \in Seq(Picture) /\ Len(recording) <= MaxSnapshots /\ Len(recording) <= taken
  /\ index \in Seq(Nat)
  /\ replay \in [cursor : Nat, status : {"none", "PAUSED", "PLAYING"}]

(* What the index and the cursor point at has been recorded. *)
PointersIn ==
  /\ \A k \in 1..Len(index) : index[k] < Len(recording)
  /\ IF recording = <<>> THEN replay.cursor = 0 ELSE replay.cursor < Len(recording)

(* The last snapshot is the last one taken, and of this tick unless the    *)
(* clock was started since.                                                *)
UpToDate ==
  /\ \A i \in 1..Len(recording) : recording[i].epoch <= epoch
  /\ recording # <<>> =>
        LET newest == recording[Len(recording)]
        IN /\ newest.number = taken
           /\ newest.epoch = epoch => newest.tick = clock.tick
  /\ Flight!TimeOrdered /\ Flight!IndexExact

(* A decision of this start of the clock has left its mark at its level.   *)
DecisionsMarked ==
  /\ \A i \in 1..Len(recording) : recording[i].decided =>
        /\ recording[i].level \in Warnings
        /\ recording[i].epoch = epoch =>
              \E p \in TwoOf : recording[i].tick <= triggered[<<recording[i].level, p>>]
  /\ Flight!CooldownKept

(* Until the second start of the clock, a mark after a snapshot stands for *)
(* a decision after it.                                                    *)
MarksDecided ==
  /\ epoch = 0 => clock.tick = 0 /\ ~clock.running
  /\ epoch <= 1 =>
        \A key \in Warnings \X TwoOf :
           /\ triggered[key] <= clock.tick
           /\ \A i \in 1..Len(recording) : recording[i].tick < triggered[key] =>
                 \E k \in 1..Len(recording) : i < k /\ recording[k].decided
  /\ Flight!CloseCallDecided

(* A vehicle came to every waypoint before the next. *)
PassedWaypoints == \A v \in Vehicles : 1..(craft[v].next - 1) \subseteq visited[v]

(* A pair has two vehicles.                                                *)
LEMMA PairIs ==
  ASSUME FlightOK, NEW p \in TwoOf
  PROVE  \E v, w \in p : v # w /\ p = {v, w}
<1>1. p \subseteq Vehicles /\ Cardinality(p) = 2 /\ IsFiniteSet(p)
  BY FS_Subset DEF TwoOf, FlightOK
<1>2. p # {}
  BY <1>1, FS_EmptySet
<1>3. PICK v \in p : TRUE
  BY <1>2
<1>4. IsFiniteSet(p \ {v}) /\ Cardinality(p \ {v}) = 1
  BY <1>1, <1>3, FS_RemoveElement
<1>5. PICK w : p \ {v} = {w}
  BY <1>4, FS_Singleton
<1> QED
  BY <1>3, <1>5

(* The gap of a pair is a natural number.                                  *)
LEMMA GapIs ==
  ASSUME FlightOK, NEW p \in TwoOf, NEW place \in [Vehicles -> Int]
  PROVE  Flight!Gap(place, p) \in Nat
<1>1. PICK v \in p, w \in p : v # w /\ p = {v, w}
  BY PairIs
<1>2. v \in Vehicles /\ w \in Vehicles
  BY DEF TwoOf
<1> DEFINE d == Flight!Distance(place[v], place[w])
           D == {Flight!Distance(place[a], place[b]) : a, b \in p}
<1>3. /\ d \in Nat /\ Flight!Distance(place[w], place[v]) = d
      /\ Flight!Distance(place[v], place[v]) = 0 /\ Flight!Distance(place[w], place[w]) = 0
  BY <1>2 DEF Flight!Distance
<1> HIDE DEF d
<1>4. d \in D /\ D \subseteq Nat /\ \A a, b \in p : Flight!Distance(place[a], place[b]) <= d
  <2>1. d \in D
    BY DEF d
  <2>2. \A a, b \in p : Flight!Distance(place[a], place[b]) \in {0, d}
    <3> SUFFICES ASSUME NEW a \in p, NEW b \in p
                 PROVE  Flight!Distance(place[a], place[b]) \in {0, d}
      OBVIOUS
    <3>1. (a = v \/ a = w) /\ (b = v \/ b = w)
      BY <1>1
    <3> QED
      BY <1>3, <3>1 DEF d
  <2> QED
    BY <1>3, <2>1, <2>2
<1>5. \E e \in D : \A a, b \in p : Flight!Distance(place[a], place[b]) <= e
  BY <1>4
<1>6. Flight!Gap(place, p) \in D
  BY <1>5 DEF Flight!Gap
<1> QED
  BY <1>4, <1>6

(* When a separation is too small there is a closest pair.                 *)
LEMMA ClosestIs ==
  ASSUME FlightOK, NEW place \in [Vehicles -> Int]
  PROVE  /\ Flight!SeparationLevel(place) \in Warnings \union {"none"}
         /\ Flight!SeparationLevel(place) # "none" => Flight!ClosestPair(place) \in TwoOf
<1>1. Flight!Pairs(place) = TwoOf
  BY DEF Flight!Pairs, TwoOf, Flight!Cardinality, Cardinality
<1>2. ASSUME TwoOf # {} PROVE Flight!ClosestPair(place) \in TwoOf
  <2> DEFINE S == {Flight!Gap(place, p) : p \in TwoOf}
  <2>1. S \subseteq Nat /\ S # {}
    BY <1>2, GapIs
  <2>2. \E x \in S : \A y \in S : x <= y
    <3> HIDE DEF S
    <3> QED
      BY <2>1, LeastNatural
  <2>3. \E p \in TwoOf : \A q \in TwoOf : Flight!Gap(place, p) <= Flight!Gap(place, q)
    BY <2>2
  <2> QED
    BY <1>1, <1>2, <2>3 DEF Flight!ClosestPair
<1>3. TwoOf = {} => Flight!ClosestPair(place) = {}
  BY <1>1 DEF Flight!ClosestPair
<1> QED
  BY <1>2, <1>3 DEF Flight!SeparationLevel, Warnings

(* A tick moves a vehicle, and counts a waypoint at most when it arrived.  *)
LEMMA FlownIs ==
  ASSUME NEW c \in Craft
  PROVE  LET place == Flight!Approach(c.at, c.target)
             new == Flight!Flown(c)
         IN /\ new \in Craft /\ new.at = place
            /\ new.next = c.next \/ (Flight!Arrived(c, place) /\ new.next = c.next + 1)
<1> DEFINE place == Flight!Approach(c.at, c.target)
           turns == Flight!Arrived(c, place) /\ Flight!HasNext(c)
           next == IF turns THEN c.next + 1 ELSE c.next
           target == IF turns THEN c.waypoints[next] ELSE c.target
           new == Flight!Flown(c)
<1>1. /\ c.at \in Int /\ c.target \in Int /\ c.waypoints \in Seq(Int)
      /\ c.next \in Nat \ {0}
  BY DEF Craft
<1>2. new = [c EXCEPT !.at = place, !.next = next, !.target = target]
  BY DEF Flight!Flown
<1>3. place \in Int /\ next \in Nat \ {0}
  BY <1>1 DEF Flight!Approach
<1>4. target \in Int
  <2>1. CASE turns
    <3>1. c.next < Len(c.waypoints)
      BY <2>1 DEF Flight!HasNext
    <3>2. c.next + 1 \in 1..Len(c.waypoints)
      BY <1>1, <3>1
    <3> QED
      BY <1>1, <2>1, <3>2
  <2>2. CASE ~turns
    BY <1>1, <2>2
  <2> QED
    BY <2>1, <2>2
<1>5. next = c.next \/ (Flight!Arrived(c, place) /\ next = c.next + 1)
  BY Zenon
<1> HIDE DEF place, next, target, new
<1>6. new \in Craft /\ new.at = place /\ new.next = next
  BY <1>2, <1>3, <1>4 DEF Craft
<1> QED
  BY <1>5, <1>6 DEF place, next, new

(* Who completes a route has its last waypoint behind him.                 *)
LEMMA FlownMeans ==
  ASSUME NEW c \in Craft, Flight!Completed(c)
  PROVE  Len(c.waypoints) - 1 <= c.next - 1 /\ Len(c.waypoints) \in Nat /\ c.next \in Nat
<1>1. c.waypoints \in Seq(Int) /\ c.next \in Nat
  BY DEF Craft
<1> QED
  BY <1>1 DEF Flight!Completed

(* The recorder at its limit drops the oldest snapshot. *)
LEMMA KeptIs ==
  ASSUME FlightOK, recording \in Seq(Picture), Len(recording) <= MaxSnapshots, NEW x \in Picture
  PROVE  LET n == Len(recording)
             new == Append(Flight!Kept, x)
         IN \E drop \in {0, 1} :
              /\ n \in Nat /\ Flight!Kept \in Seq(Picture) /\ Len(Flight!Kept) = n - drop
              /\ drop <= n /\ n + 1 - drop <= MaxSnapshots /\ new \in Seq(Picture)
              /\ Len(new) = n + 1 - drop /\ new[n + 1 - drop] = x
              /\ \A i \in 1..(n - drop) : new[i] = recording[i + drop]
              /\ (drop = 1 <=> n >= MaxSnapshots)
<1> DEFINE n == Len(recording)
           kept == Flight!Kept
           new == Append(kept, x)
           drop == IF n >= MaxSnapshots THEN 1 ELSE 0
<1>1. n \in Nat /\ MaxSnapshots \in Nat \ {0} /\ drop \in {0, 1}
  BY LenProperties DEF FlightOK
<1>2. drop <= n /\ n + 1 - drop <= MaxSnapshots
  BY <1>1
<1>3. /\ kept \in Seq(Picture) /\ Len(kept) = n - drop
      /\ \A i \in 1..(n - drop) : kept[i] = recording[i + drop]
  <2>1. CASE n >= MaxSnapshots
    <3>1. recording # <<>> /\ kept = Tail(recording) /\ drop = 1
      BY <1>1, <2>1 DEF Flight!Kept
    <3>2. /\ Tail(recording) \in Seq(Picture) /\ Len(Tail(recording)) = n - 1
          /\ \A i \in 1..(n - 1) : Tail(recording)[i] = recording[i + 1]
      BY <3>1, HeadTailProperties
    <3> QED
      BY <3>1, <3>2
  <2>2. CASE ~(n >= MaxSnapshots)
    <3>1. kept = recording /\ drop = 0
      BY <2>2 DEF Flight!Kept
    <3>2. \A i \in 1..(n - 0) : i + 0 = i
      OBVIOUS
    <3> QED
      BY <1>1, <3>1, <3>2
  <2> QED
    BY <2>1, <2>2
<1>4. drop = 1 <=> n >= MaxSnapshots
  OBVIOUS
<1> HIDE DEF n, kept, drop
<1>5. /\ new \in Seq(Picture) /\ Len(new) = n + 1 - drop /\ new[n + 1 - drop] = x
      /\ \A i \in 1..(n - drop) : new[i] = recording[i + drop]
  <2>1. PICK m \in Nat : m = n - drop /\ m + 1 = n + 1 - drop
    BY <1>1, <1>2
  <2>2. Len(new) = m + 1 /\ new \in Seq(Picture) /\ new[m + 1] = x /\ \A i \in 1..m : new[i] = kept[i]
    BY <1>3, <2>1
  <2> QED
    BY <1>3, <2>1, <2>2
<1> QED
  BY <1>1, <1>2, <1>3, <1>4, <1>5 DEF n, kept

(* What one tick does: it takes snapshot x, which drops so many others     *)
(* from a recording of n, and decides about the pair when it must.         *)
Recorded(x, pair, n, drop) ==
  /\ x \in Picture /\ n \in Nat /\ drop \in {0, 1} /\ drop <= n /\ n = Len(recording)
  /\ clock' = [tick |-> x.tick, running |-> clock.running]
  /\ x.tick = clock.tick + (IF x.running THEN 1 ELSE 0) /\ x.running = clock.running
  /\ x.number = taken + 1 /\ x.epoch = epoch
  /\ x.level # "none" => x.level \in Warnings /\ pair \in TwoOf
  /\ x.decided <=> x.level # "none" /\ x.tick - triggered[<<x.level, pair>>] >= Cooldown
  /\ triggered' = IF x.decided THEN [triggered EXCEPT ![<<x.level, pair>>] = x.tick]
                  ELSE triggered
  /\ recording' \in Seq(Picture) /\ Len(recording') = n + 1 - drop
  /\ n + 1 - drop <= MaxSnapshots /\ (drop = 1 <=> n >= MaxSnapshots)
  /\ recording'[n + 1 - drop] = x /\ \A i \in 1..(n - drop) : recording'[i] = recording[i + drop]
  /\ index' = IF x.alarmed THEN Append(index, n - drop) ELSE index
  /\ craft' \in [Vehicles -> Craft]
  /\ visited' \in [Vehicles -> SUBSET Nat]
  /\ taken < MaxTicks /\ taken' = taken + 1
  /\ UNCHANGED <<config, replay, epoch, asked>>

(* What a tick records, and what it drops to make room.                    *)
LEMMA TickIs ==
  ASSUME FlightOK, FlightTypes, PassedWaypoints, Flight!Tick
  PROVE  PassedWaypoints' /\ \E x, pair, n, drop : Recorded(x, pair, n, drop)
<1> DEFINE time == Flight!Ticked.tick
           flown == [v \in Vehicles |-> Flight!Flown(craft[v])]
           place == [v \in Vehicles |-> flown[v].at]
           level == Flight!SeparationLevel(place)
           pair == Flight!ClosestPair(place)
           decided == Flight!Decided(level, pair, time)
           x == Flight!Snapshot(time, clock.running, flown, config, decided)
<1>1. /\ clock' = Flight!Ticked
      /\ craft' = flown
      /\ visited' = [v \in Vehicles |->
            IF Flight!Arrived(craft[v], place[v]) THEN visited[v] \union {craft[v].next} ELSE visited[v]]
      /\ triggered' = IF decided THEN [triggered EXCEPT ![<<level, pair>>] = time] ELSE triggered
      /\ Flight!Record(x)
      /\ taken < MaxTicks /\ taken' = taken + 1
      /\ UNCHANGED <<config, replay, epoch, asked>>
  BY DEF Flight!Tick
<1>2. /\ Flight!Ticked = [tick |-> clock.tick + (IF clock.running THEN 1 ELSE 0),
                          running |-> clock.running]
      /\ time \in Nat /\ time = clock'.tick
  <2>1. clock.tick \in Nat /\ clock.running \in BOOLEAN /\ clock = [tick |-> clock.tick, running |-> clock.running]
    BY DEF FlightTypes
  <2>2. Flight!Ticked = [tick |-> clock.tick + (IF clock.running THEN 1 ELSE 0),
                         running |-> clock.running]
    BY <2>1 DEF Flight!Ticked
  <2> QED
    BY <1>1, <2>1, <2>2
<1>3. \A v \in Vehicles :
        /\ flown[v] \in Craft /\ flown[v].at = place[v] /\ place[v] \in Int
        /\ \/ flown[v].next = craft[v].next
           \/ Flight!Arrived(craft[v], place[v]) /\ flown[v].next = craft[v].next + 1
  <2> SUFFICES ASSUME NEW v \in Vehicles
               PROVE  /\ flown[v] \in Craft /\ flown[v].at = place[v] /\ place[v] \in Int
                      /\ \/ flown[v].next = craft[v].next
                         \/ Flight!Arrived(craft[v], place[v]) /\ flown[v].next = craft[v].next + 1
    OBVIOUS
  <2>1. craft[v] \in Craft /\ flown[v] = Flight!Flown(craft[v]) /\ place[v] = flown[v].at
    BY DEF FlightTypes
  <2> HIDE DEF flown, place
  <2>2. flown[v] \in Craft /\ flown[v].at = Flight!Approach(craft[v].at, craft[v].target)
    BY <2>1, FlownIs
  <2>3. flown[v].at \in Int
    BY <2>2 DEF Craft
  <2> QED
    BY <2>1, <2>2, <2>3, FlownIs
<1>4. place \in [Vehicles -> Int]
  BY <1>3
<1>5. /\ level \in Warnings \union {"none"}
      /\ level # "none" => pair \in TwoOf
  <2> HIDE DEF place
  <2> QED
    BY <1>4, ClosestIs
<1>6. /\ decided <=> level # "none" /\ time - triggered[<<level, pair>>] >= Cooldown
      /\ decided \in BOOLEAN
  BY DEF Flight!Decided, Flight!CanTrigger
<1>8. /\ x.tick = time /\ x.running = clock.running /\ x.level = level /\ x.decided = decided
      /\ x.number = taken + 1 /\ x.epoch = epoch
      /\ x \in Picture
  <2> DEFINE states == Flight!States(flown, config)
             health == Flight!Health(config.leader, states)
             alarmed == Flight!SafetyEvents(config.leader, states) # {}
             completed == {v \in Vehicles : Flight!Completed(flown[v])}
  <2>1. x = [tick |-> time, running |-> clock.running, health |-> health, alarmed |-> alarmed,
             level |-> level, decided |-> decided, completed |-> completed,
             number |-> taken + 1, epoch |-> epoch]
    BY DEF Flight!Snapshot
  <2>2. health \in {"DISCONNECTED", "CRITICAL", "DEGRADED", "HEALTHY"}
    BY DEF Flight!Health
  <2>3. alarmed \in BOOLEAN /\ completed \in SUBSET Vehicles
    OBVIOUS
  <2>4. clock.running \in BOOLEAN /\ taken + 1 \in Nat /\ epoch \in Nat
    BY DEF FlightTypes
  <2> HIDE DEF x, time, health, alarmed, level, decided, completed
  <2> QED
    BY <1>2, <1>5, <1>6, <2>1, <2>2, <2>3, <2>4 DEF Picture
<1>9. /\ recording' = Append(Flight!Kept, x)
      /\ index' = IF x.alarmed THEN Append(index, Len(Flight!Kept)) ELSE index
  BY <1>1 DEF Flight!Record
<1>10. craft' \in [Vehicles -> Craft]
  BY <1>1, <1>3
<1>11. visited' \in [Vehicles -> SUBSET Nat] /\ PassedWaypoints'
  <2> SUFFICES ASSUME NEW v \in Vehicles
               PROVE  visited'[v] \in SUBSET Nat /\ 1..(craft'[v].next - 1) \subseteq visited'[v]
    <3>1. visited' = [v \in Vehicles |-> visited'[v]]
      BY <1>1
    <3> QED
      BY <3>1 DEF PassedWaypoints
  <2> DEFINE before == craft[v].next
             after == flown[v].next
  <2>1. before \in Nat \ {0} /\ 1..(before - 1) \subseteq visited[v] /\ visited[v] \in SUBSET Nat
    BY DEF FlightTypes, PassedWaypoints, Craft
  <2>2. craft'[v].next = after
    BY <1>1
  <2>3. visited'[v] = IF Flight!Arrived(craft[v], place[v]) THEN visited[v] \union {before} ELSE visited[v]
    BY <1>1
  <2>4. after = before \/ (Flight!Arrived(craft[v], place[v]) /\ after = before + 1)
    BY <1>3
  <2> HIDE DEF before, after, flown, place
  <2>5. CASE after = before
    BY <2>1, <2>2, <2>3, <2>5
  <2>6. CASE Flight!Arrived(craft[v], place[v]) /\ after = before + 1
    <3>1. 1..(after - 1) = 1..(before - 1) \union {before}
      BY <2>1, <2>6
    <3> QED
      BY <2>1, <2>2, <2>3, <2>6, <3>1
  <2> QED
    BY <2>4, <2>5, <2>6
<1> HIDE DEF x, level, pair, time, decided
<1>12. /\ x.level # "none" => x.level \in Warnings /\ pair \in TwoOf
       /\ x.decided <=> x.level # "none" /\ x.tick - triggered[<<x.level, pair>>] >= Cooldown
       /\ triggered' = IF x.decided THEN [triggered EXCEPT ![<<x.level, pair>>] = x.tick]
                       ELSE triggered
  BY <1>1, <1>5, <1>6, <1>8
<1>13. PICK drop \in {0, 1} :
          LET n == Len(recording)
          IN  /\ n \in Nat /\ Len(Flight!Kept) = n - drop
              /\ drop <= n /\ n + 1 - drop <= MaxSnapshots /\ recording' \in Seq(Picture)
              /\ Len(recording') = n + 1 - drop /\ recording'[n + 1 - drop] = x
              /\ \A i \in 1..(n - drop) : recording'[i] = recording[i + drop]
              /\ (drop = 1 <=> n >= MaxSnapshots)
  <2>1. recording \in Seq(Picture) /\ Len(recording) <= MaxSnapshots
    BY DEF FlightTypes
  <2> QED
    BY <1>8, <1>9, <2>1, KeptIs
<1>14. /\ clock' = [tick |-> x.tick, running |-> clock.running]
       /\ x.tick = clock.tick + (IF x.running THEN 1 ELSE 0)
  BY <1>1, <1>2, <1>8
<1>15. Recorded(x, pair, Len(recording), drop)
  BY <1>1, <1>8, <1>9, <1>10, <1>11, <1>12, <1>13, <1>14 DEF Recorded
<1> QED
  BY <1>11, <1>15

(* A tick keeps the types, and index and cursor in the recording.          *)
LEMMA FlightTickTypes ==
  ASSUME FlightOK, FlightTypes, PointersIn, NEW x, NEW pair, NEW n, NEW drop,
         Recorded(x, pair, n, drop)
  PROVE  FlightTypes' /\ PointersIn'
<1>1. /\ clock \in [tick : Nat, running : BOOLEAN] /\ clock.tick \in Nat /\ clock.running \in BOOLEAN
      /\ taken \in Nat /\ taken < MaxTicks /\ epoch \in Nat /\ clock.tick <= taken
      /\ MaxTicks \in Nat /\ n <= taken
  BY DEF FlightTypes, FlightOK, Recorded
<1>2. /\ x \in Picture /\ x.tick \in Nat /\ x.level \in Warnings \union {"none"}
      /\ n \in Nat /\ drop \in {0, 1} /\ n + 1 - drop <= MaxSnapshots /\ drop <= n
      /\ x.tick = clock.tick + (IF x.running THEN 1 ELSE 0)
  BY DEF Recorded, Picture
<1>3. /\ clock' = [tick |-> x.tick, running |-> clock.running]
      /\ taken' = taken + 1 /\ epoch' = epoch /\ replay' = replay
      /\ recording' \in Seq(Picture) /\ Len(recording') = n + 1 - drop /\ Len(recording) = n
      /\ craft' \in [Vehicles -> Craft] /\ visited' \in [Vehicles -> SUBSET Nat]
  BY DEF Recorded
<1>4. x.tick <= taken + 1
  BY <1>1, <1>2
<1>5. clock' \in [tick : Nat, running : BOOLEAN] /\ clock'.tick <= taken'
  BY <1>1, <1>2, <1>3, <1>4
<1>6. triggered' \in [Warnings \X TwoOf -> Nat]
  <2>1. triggered \in [Warnings \X TwoOf -> Nat]
    BY DEF FlightTypes
  <2>2. triggered' = triggered \/ triggered' = [triggered EXCEPT ![<<x.level, pair>>] = x.tick]
    BY DEF Recorded
  <2> QED
    BY <1>2, <2>1, <2>2
<1>7. /\ index \in Seq(Nat) /\ \A k \in 1..Len(index) : index[k] < n
      /\ index' = index \/ index' = Append(index, n - drop)
  BY <1>3 DEF FlightTypes, PointersIn, Recorded
<1>8. index' \in Seq(Nat) /\ \A k \in 1..Len(index') : index'[k] < n + 1 - drop
  <2>1. CASE index' = index
    <3>1. \A k \in 1..Len(index) : index[k] \in Nat
      BY <1>7
    <3> QED
      BY <1>2, <1>7, <2>1, <3>1
  <2>2. CASE index' = Append(index, n - drop)
    <3>1. PICK m \in Nat : m = Len(index)
      BY <1>7, LenProperties
    <3>2. n - drop \in Nat /\ n - drop < n + 1 - drop
      BY <1>2
    <3>3. /\ index' \in Seq(Nat) /\ Len(index') = m + 1 /\ index'[m + 1] = n - drop
          /\ \A k \in 1..m : index'[k] = index[k] /\ index[k] \in Nat
      BY <1>7, <2>2, <3>1, <3>2
    <3>4. \A k \in 1..m : index'[k] < n + 1 - drop
      BY <1>2, <1>7, <3>1, <3>3
    <3>5. \A k \in 1..(m + 1) : k \in 1..m \/ k = m + 1
      BY <3>1
    <3> QED
      BY <3>2, <3>3, <3>4, <3>5
  <2> QED
    BY <1>7, <2>1, <2>2
<1>9. PointersIn'
  <2>1. recording' # <<>>
    <3>1. n + 1 - drop # 0
      BY <1>2
    <3> QED
      BY <1>3, <3>1
  <2>2. replay.cursor \in Nat /\ (recording # <<>> => replay.cursor < n) /\ (recording = <<>> => replay.cursor = 0)
    BY <1>3 DEF PointersIn, FlightTypes
  <2>3. replay.cursor < n + 1 - drop
    <3>1. recording = <<>> => n = 0
      BY <1>3
    <3> QED
      BY <1>2, <2>2, <3>1
  <2> QED
    BY <1>3, <1>8, <2>1, <2>3 DEF PointersIn
<1>10. taken' \in Nat /\ taken' <= MaxTicks /\ n + 1 - drop <= taken'
  BY <1>1, <1>2, <1>3
<1>11. /\ replay \in [cursor : Nat, status : {"none", "PAUSED", "PLAYING"}]
  BY DEF FlightTypes
<1> QED
  BY <1>1, <1>2, <1>3, <1>5, <1>6, <1>8, <1>9, <1>10, <1>11 DEF FlightTypes

(* A tick keeps the index exact and the times in order.                    *)
LEMMA TickUpToDate ==
  ASSUME FlightOK, FlightTypes, PointersIn, UpToDate, NEW x, NEW pair, NEW n, NEW drop,
         Recorded(x, pair, n, drop)
  PROVE  UpToDate'
<1> DEFINE R == recording
           m == n - drop
<1>1. /\ x \in Picture /\ n \in Nat /\ drop \in {0, 1} /\ drop <= n /\ n = Len(R)
      /\ x.tick = clock.tick + (IF x.running THEN 1 ELSE 0)
      /\ x.number = taken + 1 /\ x.epoch = epoch
      /\ Len(R') = n + 1 - drop /\ R'[n + 1 - drop] = x
      /\ \A i \in 1..(n - drop) : R'[i] = R[i + drop]
      /\ (drop = 1 <=> n >= MaxSnapshots)
      /\ clock'.tick = x.tick /\ epoch' = epoch /\ taken' = taken + 1
      /\ index' = IF x.alarmed THEN Append(index, n - drop) ELSE index
  BY DEF Recorded
<1>2. /\ R \in Seq(Picture) /\ n <= taken /\ taken \in Nat /\ epoch \in Nat
      /\ index \in Seq(Nat) /\ MaxSnapshots \in Nat \ {0} /\ clock.tick \in Nat
  BY <1>1 DEF FlightTypes, FlightOK
<1>3. /\ \A i \in 1..n : R[i].epoch <= epoch
      /\ n # 0 => R[n].number = taken /\ (R[n].epoch = epoch => R[n].tick = clock.tick)
      /\ Flight!TimeOrdered /\ Flight!IndexExact
  BY <1>1, <1>2 DEF UpToDate
<1>4. /\ m \in Nat /\ m + 1 = n + 1 - drop /\ Len(R') = m + 1 /\ R'[m + 1] = x
      /\ \A i \in 1..m : i + drop \in 1..n /\ R'[i] = R[i + drop]
      /\ DOMAIN R' = 1..(m + 1) /\ R' # <<>>
  <2>0. m \in Nat /\ m + 1 = n + 1 - drop /\ \A i \in 1..m : i + drop \in 1..n
    BY <1>1
  <2>1. R' \in Seq(Picture)
    BY DEF Recorded
  <2>2. Len(R') = m + 1
    BY <1>1, <2>0
  <2>3. DOMAIN R' = 1..(m + 1) /\ R' # <<>>
    <3> HIDE DEF m, R
    <3> QED
      BY <2>0, <2>1, <2>2
  <2> QED
    BY <1>1, <2>0, <2>2, <2>3
<1> HIDE DEF m, R
<1>5. \A i \in 1..(m + 1) : i \in 1..m \/ i = m + 1
  BY <1>4
<1>6. \A i \in 1..(m + 1) : R'[i].epoch <= epoch
  BY <1>1, <1>2, <1>3, <1>4, <1>5
<1>7. Flight!TimeOrdered'
  <2> DEFINE Follows(a, b) == /\ b.number = a.number + 1
                              /\ a.epoch = b.epoch => b.tick = a.tick + (IF b.running THEN 1 ELSE 0)
  <2>1. \A i \in 1..(n - 1) : Follows(R[i], R[i + 1])
    BY <1>1, <1>3 DEF Flight!TimeOrdered, R
  <2>2. ASSUME NEW i \in 1..m PROVE Follows(R'[i], R'[i + 1])
    <3>1. CASE i = m
      <4>1. R'[i] = R[n] /\ n # 0 /\ R'[i + 1] = x
        BY <1>1, <1>4, <3>1 DEF m
      <4>2. x.epoch = epoch /\ x.number = taken + 1
            /\ x.tick = clock.tick + (IF x.running THEN 1 ELSE 0)
        BY <1>1
      <4> QED
        BY <1>3, <4>1, <4>2
    <3>2. CASE i # m
      <4>1. i + 1 \in 1..m /\ i + drop \in 1..(n - 1) /\ (i + 1) + drop = (i + drop) + 1
        BY <1>1, <1>4, <3>2 DEF m
      <4>2. R'[i] = R[i + drop] /\ R'[i + 1] = R[(i + drop) + 1]
        BY <1>4, <4>1
      <4> HIDE DEF Follows
      <4> QED
        BY <2>1, <4>1, <4>2
    <3> QED
      BY <3>1, <3>2
  <2>3. Len(R') - 1 = m
    BY <1>4
  <2> QED
    BY <2>2, <2>3 DEF Flight!TimeOrdered, R
<1>8. Flight!IndexExact'
  <2> SUFFICES ASSUME taken' - Len(R') = 0
               PROVE  /\ {index'[k] + 1 : k \in DOMAIN index'} = {i \in DOMAIN R' : R'[i].alarmed}
                      /\ \A j, k \in DOMAIN index' : j < k => index'[j] < index'[k]
    BY DEF Flight!IndexExact, Flight!Dropped, R
  <2>1. taken + 1 - (m + 1) = 0
    BY <1>1, <1>2, <1>4
  <2>2. drop = 0 /\ m = n /\ taken = n
    BY <1>1, <1>2, <2>1 DEF m
  <2>3. Flight!Dropped = 0
    BY <1>1, <1>2, <2>2 DEF Flight!Dropped, R
  <2>4. /\ {index[k] + 1 : k \in DOMAIN index} = {i \in DOMAIN R : R[i].alarmed}
        /\ \A j, k \in DOMAIN index : j < k => index[j] < index[k]
    BY <1>3, <2>3 DEF Flight!IndexExact, R
  <2>5. DOMAIN R = 1..n /\ \A i \in 1..n : R'[i] = R[i]
    <3>1. \A i \in 1..n : i + 0 = i
      BY <1>1
    <3> QED
      BY <1>1, <1>2, <1>4, <2>2, <3>1
  <2>6. {i \in DOMAIN R' : R'[i].alarmed} = {i \in DOMAIN R : R[i].alarmed}
                                            \union (IF x.alarmed THEN {n + 1} ELSE {})
    <3>1. /\ DOMAIN R' = 1..(n + 1) /\ R'[n + 1] = x /\ n + 1 \notin 1..n
          /\ \A i \in 1..(n + 1) : i \in 1..n \/ i = n + 1
          /\ \A i \in 1..n : i \in 1..(n + 1)
      BY <1>1, <1>4, <2>2
    <3>2. n + 1 \in 1..(n + 1)
      BY <1>1
    <3> QED
      BY <2>5, <3>1, <3>2
  <2>7. CASE ~x.alarmed
    BY <1>1, <2>4, <2>6, <2>7
  <2>8. CASE x.alarmed
    <3>1. PICK l \in Nat : l = Len(index) /\ DOMAIN index = 1..l
      BY <1>2, LenProperties
    <3>2. index' = Append(index, n) /\ n \in Nat
      BY <1>1, <2>2, <2>8 DEF m
    <3>3. /\ DOMAIN index' = 1..(l + 1) /\ index'[l + 1] = n
          /\ \A k \in 1..l : index'[k] = index[k]
      BY <1>2, <3>1, <3>2
    <3>4. \A k \in 1..l : index[k] < n
      BY <1>1, <3>1 DEF PointersIn, R
    <3>5. /\ \A k \in 1..(l + 1) : k \in 1..l \/ k = l + 1
          /\ \A k \in 1..l : k \in 1..(l + 1) /\ k < l + 1
          /\ l + 1 \in 1..(l + 1)
      BY <3>1
    <3>6. {index'[k] + 1 : k \in DOMAIN index'} = {index[k] + 1 : k \in DOMAIN index} \union {n + 1}
      BY <3>1, <3>3, <3>5
    <3>7. \A j, k \in DOMAIN index' : j < k => index'[j] < index'[k]
      <4> SUFFICES ASSUME NEW j \in 1..(l + 1), NEW k \in 1..(l + 1), j < k
                   PROVE  index'[j] < index'[k]
        BY <3>3
      <4>1. j \in 1..l
        BY <3>1
      <4>2. CASE k \in 1..l
        BY <2>4, <3>1, <3>3, <4>1, <4>2
      <4>3. CASE k = l + 1
        BY <3>3, <3>4, <4>1, <4>3
      <4> QED
        BY <3>5, <4>2, <4>3
    <3> QED
      BY <2>4, <2>6, <2>8, <3>6, <3>7
  <2> QED
    BY <2>7, <2>8
<1> QED
  BY <1>1, <1>4, <1>6, <1>7, <1>8 DEF UpToDate, R

(* A decision of a tick is a cooldown away from those before it.           *)
LEMMA TickDecisions ==
  ASSUME FlightOK, FlightTypes, DecisionsMarked, NEW x, NEW pair, NEW n, NEW drop,
         Recorded(x, pair, n, drop)
  PROVE  DecisionsMarked'
<1> DEFINE R == recording
           m == n - drop
           Mark(q) == triggered[<<q.level, pair>>]
<1>1. /\ x \in Picture /\ n \in Nat /\ drop \in {0, 1} /\ drop <= n /\ n = Len(R)
      /\ x.epoch = epoch /\ epoch' = epoch
      /\ x.level # "none" => x.level \in Warnings /\ pair \in TwoOf
      /\ x.decided <=> x.level # "none" /\ x.tick - triggered[<<x.level, pair>>] >= Cooldown
      /\ triggered' = IF x.decided THEN [triggered EXCEPT ![<<x.level, pair>>] = x.tick]
                      ELSE triggered
      /\ R' \in Seq(Picture) /\ Len(R') = n + 1 - drop /\ R'[n + 1 - drop] = x
      /\ \A i \in 1..(n - drop) : R'[i] = R[i + drop]
  BY DEF Recorded
<1>2. /\ R \in Seq(Picture) /\ triggered \in [Warnings \X TwoOf -> Nat] /\ Cooldown \in Nat
      /\ x.tick \in Nat
  BY <1>1 DEF FlightTypes, FlightOK, Picture
<1>3. /\ \A i \in 1..n : R[i].decided =>
           /\ R[i].level \in Warnings
           /\ R[i].epoch = epoch => \E p \in TwoOf : R[i].tick <= triggered[<<R[i].level, p>>]
      /\ Flight!CooldownKept
  BY <1>1 DEF DecisionsMarked
<1>4. /\ m \in Nat /\ Len(R') = m + 1 /\ R'[m + 1] = x
      /\ \A i \in 1..m : i + drop \in 1..n /\ R'[i] = R[i + drop]
  BY <1>1
<1>5. DOMAIN R' = 1..(m + 1) /\ DOMAIN R = 1..n /\ \A i \in 1..n : R[i] \in Picture
  <2> HIDE DEF R, m
  <2> QED
    BY <1>1, <1>2, <1>4
<1> HIDE DEF m, R
<1>6. \A i \in 1..(m + 1) : i \in 1..m \/ i = m + 1
  BY <1>4
<1>7. \A l \in Warnings, p \in TwoOf :
        /\ triggered[<<l, p>>] \in Nat /\ triggered'[<<l, p>>] \in Nat
        /\ triggered'[<<l, p>>] >= triggered[<<l, p>>]
  <2> SUFFICES ASSUME NEW l \in Warnings, NEW p \in TwoOf
               PROVE  /\ triggered[<<l, p>>] \in Nat /\ triggered'[<<l, p>>] \in Nat
                      /\ triggered'[<<l, p>>] >= triggered[<<l, p>>]
    OBVIOUS
  <2>1. triggered[<<l, p>>] \in Nat
    BY <1>2
  <2>2. CASE ~x.decided
    BY <1>1, <2>1, <2>2
  <2>3. CASE x.decided
    <3>1. x.tick >= triggered[<<x.level, pair>>] + Cooldown /\ <<x.level, pair>> \in Warnings \X TwoOf
          /\ triggered[<<x.level, pair>>] \in Nat
      BY <1>1, <1>2, <2>3
    <3>2. triggered'[<<l, p>>] = IF <<l, p>> = <<x.level, pair>> THEN x.tick ELSE triggered[<<l, p>>]
      BY <1>1, <1>2, <2>3
    <3>3. CASE <<l, p>> = <<x.level, pair>>
      <4>1. triggered'[<<l, p>>] = x.tick /\ triggered[<<l, p>>] = triggered[<<x.level, pair>>]
        BY <3>2, <3>3
      <4> QED
        BY <1>2, <2>1, <3>1, <4>1
    <3>4. CASE <<l, p>> # <<x.level, pair>>
      BY <2>1, <3>2, <3>4
    <3> QED
      BY <3>3, <3>4
  <2> QED
    BY <2>2, <2>3
<1>8. ASSUME NEW i \in 1..(m + 1), R'[i].decided
      PROVE  /\ R'[i].level \in Warnings
             /\ R'[i].epoch = epoch => \E p \in TwoOf : R'[i].tick <= triggered'[<<R'[i].level, p>>]
  <2>1. CASE i = m + 1
    <3>1. R'[i] = x /\ x.level \in Warnings /\ pair \in TwoOf /\ triggered'[<<x.level, pair>>] = x.tick
      BY <1>1, <1>2, <1>4, <1>8, <2>1
    <3>2. x.tick <= triggered'[<<x.level, pair>>]
      BY <1>2, <3>1
    <3> QED
      BY <3>1, <3>2, Zenon
  <2>2. CASE i \in 1..m
    <3>1. PICK q \in Picture : q = R[i + drop] /\ q = R'[i]
      BY <1>4, <1>5, <2>2
    <3>2. q.level \in Warnings /\ (q.epoch = epoch => \E p \in TwoOf : q.tick <= triggered[<<q.level, p>>])
      <4>1. i + drop \in 1..n /\ R[i + drop] = q /\ R[i + drop].decided
        BY <1>4, <1>8, <2>2, <3>1
      <4>2. /\ R[i + drop].level \in Warnings
            /\ R[i + drop].epoch = epoch =>
                 \E p \in TwoOf : R[i + drop].tick <= triggered[<<R[i + drop].level, p>>]
        BY <1>3, <4>1
      <4>3. R[i + drop] = q
        BY <4>1
      <4> QED
        BY <4>2, <4>3
    <3>3. q.tick \in Nat
      BY DEF Picture
    <3>4. q.epoch = epoch => \E p \in TwoOf : q.tick <= triggered'[<<q.level, p>>]
      BY <1>7, <3>2, <3>3
    <3> QED
      BY <3>1, <3>2, <3>4
  <2> QED
    BY <1>6, <2>1, <2>2
<1>9. Flight!CooldownKept'
  <2> DEFINE Apart(a, b) ==
        (a.decided /\ b.decided /\ a.level = b.level /\ a.epoch = b.epoch) => b.tick - a.tick >= Cooldown
  <2> SUFFICES ASSUME Cardinality(Vehicles) = 2, NEW i \in 1..(m + 1), NEW j \in 1..(m + 1), i < j
               PROVE  Apart(R'[i], R'[j])
    <3>1. Flight!Cardinality(Vehicles) = Cardinality(Vehicles)
      BY DEF Flight!Cardinality, Cardinality
    <3> QED
      BY <1>5, <3>1 DEF Flight!CooldownKept, R
  <2>1. TwoOf = {Vehicles}
    <3>1. \A p \in TwoOf : p = Vehicles
      BY FS_Subset DEF TwoOf, FlightOK
    <3>2. Vehicles \in TwoOf
      BY DEF TwoOf
    <3> QED
      BY <3>1, <3>2
  <2>2. i \in 1..m /\ i + drop \in 1..n /\ R'[i] = R[i + drop]
    BY <1>4
  <2>3. CASE j \in 1..m
    <3>1. j + drop \in 1..n /\ R'[j] = R[j + drop] /\ i + drop < j + drop
      <4>1. i + drop < j + drop
        BY <1>1, <1>4, <2>2
      <4> QED
        BY <1>4, <2>3, <4>1
    <3>2. \A a, b \in 1..n : a < b => Apart(R[a], R[b])
      <4>1. Flight!Cardinality(Vehicles) = 2
        BY DEF Flight!Cardinality, Cardinality
      <4> QED
        BY <1>3, <1>5, <4>1 DEF Flight!CooldownKept, R
    <3> HIDE DEF Apart
    <3> QED
      BY <2>2, <3>1, <3>2
  <2>4. CASE j = m + 1
    <3> SUFFICES ASSUME R'[i].decided, x.decided, R'[i].level = x.level, R'[i].epoch = x.epoch
                 PROVE  x.tick - R'[i].tick >= Cooldown
      BY <1>4, <2>4
    <3>1. PICK q \in Picture : q = R[i + drop] /\ q = R'[i]
      BY <1>5, <2>2
    <3>2. pair = Vehicles /\ x.tick - triggered[<<x.level, Vehicles>>] >= Cooldown /\ x.level \in Warnings
      BY <1>1, <2>1
    <3>3. q.tick <= triggered[<<x.level, Vehicles>>]
      BY <1>1, <1>3, <2>1, <2>2, <3>1
    <3>4. q.tick \in Nat /\ triggered[<<x.level, Vehicles>>] \in Nat
      BY <1>7, <2>1, <3>2 DEF Picture
    <3> QED
      BY <1>2, <3>1, <3>2, <3>3, <3>4
  <2> QED
    BY <1>6, <2>3, <2>4
<1> QED
  BY <1>1, <1>4, <1>8, <1>9 DEF DecisionsMarked, R

(* A close pair is decided on, or was within the cooldown.                 *)
LEMMA TickMarks ==
  ASSUME FlightOK, FlightTypes, MarksDecided, NEW x, NEW pair, NEW n, NEW drop,
         Recorded(x, pair, n, drop)
  PROVE  MarksDecided'
<1> DEFINE R == recording
           m == n - drop
           Keys == Warnings \X TwoOf
<1>1. /\ x \in Picture /\ n \in Nat /\ drop \in {0, 1} /\ drop <= n /\ n = Len(R)
      /\ x.epoch = epoch /\ epoch' = epoch /\ clock'.tick = x.tick /\ clock'.running = clock.running
      /\ x.tick = clock.tick + (IF x.running THEN 1 ELSE 0) /\ x.running = clock.running
      /\ x.level # "none" => <<x.level, pair>> \in Keys
      /\ x.decided <=> x.level # "none" /\ x.tick - triggered[<<x.level, pair>>] >= Cooldown
      /\ triggered' = IF x.decided THEN [triggered EXCEPT ![<<x.level, pair>>] = x.tick]
                      ELSE triggered
      /\ R' \in Seq(Picture) /\ Len(R') = n + 1 - drop /\ R'[n + 1 - drop] = x
      /\ \A i \in 1..(n - drop) : R'[i] = R[i + drop]
  BY DEF Recorded
<1>2. /\ R \in Seq(Picture) /\ triggered \in [Keys -> Nat] /\ Cooldown \in Nat
      /\ x.tick \in Nat /\ clock.tick \in Nat /\ clock.running \in BOOLEAN /\ epoch \in Nat
  BY <1>1 DEF FlightTypes, FlightOK, Picture
<1>3. /\ epoch = 0 => clock.tick = 0 /\ ~clock.running
      /\ epoch <= 1 =>
           \A key \in Keys :
              /\ triggered[key] <= clock.tick
              /\ \A i \in 1..n : R[i].tick < triggered[key] =>
                    \E k \in 1..n : i < k /\ R[k].decided
      /\ Flight!CloseCallDecided
  BY <1>1 DEF MarksDecided
<1>4. /\ m \in Nat /\ Len(R') = m + 1 /\ R'[m + 1] = x
      /\ \A i \in 1..m : i + drop \in 1..n /\ R'[i] = R[i + drop]
  BY <1>1
<1>5. DOMAIN R' = 1..(m + 1) /\ DOMAIN R = 1..n /\ \A i \in 1..n : R[i] \in Picture
  <2> HIDE DEF R, m
  <2> QED
    BY <1>1, <1>2, <1>4
<1>6. /\ \A i \in 1..(m + 1) : i \in 1..m \/ i = m + 1
      /\ \A k \in 1..n : k > drop => k - drop \in 1..m /\ (k - drop) + drop = k
  BY <1>1, <1>4
<1> HIDE DEF m, R, Keys
<1>7. epoch = 0 => x.tick = 0 /\ ~x.running
  BY <1>1, <1>2, <1>3
<1>8. clock.tick <= x.tick
  BY <1>1, <1>2
<1>9. ASSUME epoch <= 1, NEW key \in Keys, NEW i \in 1..m, R'[i].tick < triggered[key]
      PROVE  \E k \in 1..m : i < k /\ R'[k].decided
  <2>1. R[i + drop].tick < triggered[key] /\ i + drop \in 1..n
    BY <1>4, <1>9
  <2>2. PICK k \in 1..n : i + drop < k /\ R[k].decided
    BY <1>3, <1>9, <2>1
  <2>3. k > drop /\ i < k - drop
    BY <1>1, <1>4, <2>2
  <2>4. k - drop \in 1..m /\ R'[k - drop].decided
    BY <1>4, <1>6, <2>2, <2>3
  <2> QED
    BY <2>3, <2>4
<1>10. ASSUME epoch <= 1, NEW key \in Keys
       PROVE  /\ triggered'[key] <= x.tick
              /\ \A i \in 1..(m + 1) : R'[i].tick < triggered'[key] =>
                    \E k \in 1..(m + 1) : i < k /\ R'[k].decided
  <2>1. triggered[key] <= clock.tick /\ triggered[key] \in Nat
    BY <1>2, <1>3, <1>10
  <2>2. triggered'[key] = triggered[key] \/ (x.decided /\ triggered'[key] = x.tick)
    <3>1. CASE ~x.decided
      BY <1>1, <3>1
    <3>2. CASE x.decided
      <4>1. triggered'[key] = IF key = <<x.level, pair>> THEN x.tick ELSE triggered[key]
        BY <1>1, <1>2, <3>2
      <4> QED
        BY <3>2, <4>1
    <3> QED
      BY <3>1, <3>2
  <2>3. triggered'[key] <= x.tick /\ triggered'[key] \in Nat
    BY <1>2, <1>8, <2>1, <2>2
  <2>4. ASSUME NEW i \in 1..(m + 1), R'[i].tick < triggered'[key]
        PROVE  \E k \in 1..(m + 1) : i < k /\ R'[k].decided
    <3>1. i \in 1..m
      <4>1. i # m + 1
        BY <1>2, <1>4, <2>3, <2>4
      <4> QED
        BY <1>6, <4>1
    <3>2. CASE triggered'[key] = triggered[key]
      <4>1. PICK k \in 1..m : i < k /\ R'[k].decided
        BY <1>9, <1>10, <2>4, <3>1, <3>2
      <4>2. k \in 1..(m + 1)
        BY <1>4
      <4> QED
        BY <4>1, <4>2
    <3>3. CASE x.decided
      <4>1. m + 1 \in 1..(m + 1) /\ i < m + 1
        BY <1>4, <3>1
      <4> QED
        BY <1>4, <3>3, <4>1
    <3> QED
      BY <2>2, <3>2, <3>3
  <2> QED
    BY <2>3, <2>4
<1>11. Flight!CloseCallDecided'
  <2> DEFINE Close(Q, i, j) == /\ Q[j].epoch <= 1
                               /\ Q[j].tick - Q[i].tick >= Cooldown
                               /\ \A k \in i..j : Q[k].level = Q[j].level
                               /\ Q[j].level # "none"
  <2>1. \A i, j \in 1..n : i < j /\ Close(R, i, j) => \E k \in i..j : R[k].decided
    BY <1>3, <1>5 DEF Flight!CloseCallDecided, R
  <2> SUFFICES ASSUME NEW i \in 1..(m + 1), NEW j \in 1..(m + 1), i < j, Close(R', i, j)
               PROVE  \E k \in i..j : R'[k].decided
    BY <1>5 DEF Flight!CloseCallDecided, R
  <2>2. i \in 1..m
    BY <1>4
  <2>3. CASE j \in 1..m
    <3>1. i + drop \in 1..n /\ j + drop \in 1..n /\ i + drop < j + drop
          /\ R'[i] = R[i + drop] /\ R'[j] = R[j + drop]
      BY <1>1, <1>4, <2>2, <2>3
    <3>2. \A k \in (i + drop)..(j + drop) : k - drop \in i..j /\ k - drop \in 1..m
                                            /\ R[k] = R'[k - drop]
      <4>1. \A k \in (i + drop)..(j + drop) : k - drop \in i..j /\ k - drop \in 1..m
                                              /\ (k - drop) + drop = k
        BY <1>1, <1>4, <2>2, <2>3
      <4> QED
        BY <1>4, <4>1
    <3>3. Close(R, i + drop, j + drop)
      BY <3>1, <3>2
    <3>4. PICK k \in (i + drop)..(j + drop) : R[k].decided
      <4> HIDE DEF Close
      <4> QED
        BY <2>1, <3>1, <3>3
    <3> QED
      BY <3>2, <3>4
  <2>4. CASE j = m + 1 /\ x.decided
    <3>1. j \in i..j
      BY <1>4, <2>2
    <3> QED
      BY <1>4, <2>4, <3>1
  <2>5. CASE j = m + 1 /\ ~x.decided
    <3>1. /\ epoch <= 1 /\ x.level # "none" /\ x.tick - R'[i].tick >= Cooldown
          /\ <<x.level, pair>> \in Keys
      BY <1>1, <1>4, <2>5
    <3>2. ~(x.tick - triggered[<<x.level, pair>>] >= Cooldown)
      BY <1>1, <2>5, <3>1
    <3>3. R'[i].tick \in Nat /\ triggered[<<x.level, pair>>] \in Nat
      <4>1. R'[i] \in Picture
        BY <1>4, <1>5, <2>2
      <4> QED
        BY <1>2, <3>1, <4>1 DEF Picture
    <3>4. R'[i].tick < triggered[<<x.level, pair>>]
      BY <1>2, <3>1, <3>2, <3>3
    <3>5. PICK k \in 1..m : i < k /\ R'[k].decided
      BY <1>9, <2>2, <3>1, <3>4
    <3>6. k \in i..j
      BY <1>4, <2>2, <2>5, <3>5
    <3> QED
      BY <3>5, <3>6
  <2> QED
    BY <1>6, <2>3, <2>4, <2>5
<1> QED
  BY <1>1, <1>4, <1>7, <1>10, <1>11 DEF MarksDecided, R, Keys

-----------------------------------------------------------------------------
(* The steps of the flight *)

FlightInv ==
  /\ FlightTypes /\ ConfigOK(config) /\ PointersIn /\ UpToDate /\ DecisionsMarked /\ MarksDecided
  /\ PassedWaypoints

(* What the recorder, the decisions and the clock hold depends on these. *)
LEMMA FlightRests ==
  ASSUME UpToDate, DecisionsMarked, MarksDecided,
         UNCHANGED <<clock, triggered, recording, index, taken, epoch>>
  PROVE  UpToDate' /\ DecisionsMarked' /\ MarksDecided'
BY DEF UpToDate, DecisionsMarked, MarksDecided, Flight!TimeOrdered, Flight!IndexExact, Flight!Dropped,
       Flight!CooldownKept, Flight!CloseCallDecided

(* start: the snapshots so far are of an earlier start. *)
LEMMA StartKeeps ==
  ASSUME FlightTypes, UpToDate, DecisionsMarked, MarksDecided, Flight!Start
  PROVE  FlightTypes' /\ UpToDate' /\ DecisionsMarked' /\ MarksDecided'
<1>1. /\ clock' = [tick |-> 0, running |-> TRUE] /\ epoch' = epoch + 1
      /\ UNCHANGED <<craft, config, triggered, recording, index, replay, taken, visited>>
  BY DEF Flight!Start
<1>2. /\ epoch \in Nat /\ epoch' \in Nat /\ recording \in Seq(Picture) /\ taken \in Nat
      /\ epoch < epoch' /\ epoch' # 0
  BY <1>1 DEF FlightTypes
<1>3. FlightTypes'
  BY <1>1, <1>2 DEF FlightTypes
<1>4. \A i \in 1..Len(recording) : recording[i].epoch \in Nat
  <2>1. \A i \in 1..Len(recording) : recording[i] \in Picture
    BY <1>2
  <2> QED
    BY <2>1 DEF Picture
<1>5. \A i \in 1..Len(recording) : recording[i].epoch <= epoch
  BY DEF UpToDate
<1>6. \A i \in 1..Len(recording) : recording[i].epoch <= epoch' /\ recording[i].epoch # epoch'
  BY <1>2, <1>4, <1>5
<1>7. UpToDate'
  <2>1. Flight!TimeOrdered' /\ Flight!IndexExact'
    BY <1>1 DEF UpToDate, Flight!TimeOrdered, Flight!IndexExact, Flight!Dropped
  <2>2. recording # <<>> => /\ recording[Len(recording)].number = taken
                            /\ Len(recording) \in 1..Len(recording)
    <3>1. recording # <<>> => Len(recording) \in 1..Len(recording)
      BY <1>2
    <3> QED
      BY <3>1 DEF UpToDate
  <2> QED
    BY <1>1, <1>6, <2>1, <2>2 DEF UpToDate
<1>8. DecisionsMarked'
  <2>1. Flight!CooldownKept'
    BY <1>1 DEF DecisionsMarked, Flight!CooldownKept
  <2>2. \A i \in 1..Len(recording) : recording[i].decided => recording[i].level \in Warnings
    BY DEF DecisionsMarked
  <2> QED
    BY <1>1, <1>6, <2>1, <2>2 DEF DecisionsMarked
<1>9. MarksDecided'
  <2>1. Flight!CloseCallDecided'
    BY <1>1 DEF MarksDecided, Flight!CloseCallDecided
  <2>2. ASSUME epoch' <= 1
        PROVE  clock'.tick = clock.tick /\ epoch <= 1
    <3>1. epoch = 0
      BY <1>1, <1>2, <2>2
    <3> QED
      BY <1>1, <3>1 DEF MarksDecided
  <2>3. ASSUME epoch' <= 1, NEW key \in Warnings \X TwoOf
        PROVE  /\ triggered[key] <= clock'.tick
               /\ \A i \in 1..Len(recording) : recording[i].tick < triggered[key] =>
                     \E k \in 1..Len(recording) : i < k /\ recording[k].decided
    BY <2>2, <2>3 DEF MarksDecided
  <2> QED
    BY <1>1, <1>2, <2>1, <2>3 DEF MarksDecided
<1> QED
  BY <1>3, <1>7, <1>8, <1>9

(* A pause only stops the clock.                                           *)
LEMMA PauseKeeps ==
  ASSUME FlightTypes, UpToDate, DecisionsMarked, MarksDecided, Flight!Pause
  PROVE  FlightTypes' /\ UpToDate' /\ DecisionsMarked' /\ MarksDecided'
<1>1. /\ UNCHANGED <<craft, config, triggered, recording, index, replay, taken, epoch, visited>>
      /\ clock' = [clock EXCEPT !.running = FALSE]
  BY DEF Flight!Pause
<1>2. clock \in [tick : Nat, running : BOOLEAN]
  BY DEF FlightTypes
<1>3. clock'.tick = clock.tick /\ clock'.running = FALSE /\ clock' \in [tick : Nat, running : BOOLEAN]
  BY <1>1, <1>2
<1>4. FlightTypes'
  BY <1>1, <1>3 DEF FlightTypes
<1>5. UpToDate'
  BY <1>1, <1>3 DEF UpToDate, Flight!TimeOrdered, Flight!IndexExact, Flight!Dropped
<1>6. DecisionsMarked'
  BY <1>1 DEF DecisionsMarked, Flight!CooldownKept
<1>7. MarksDecided'
  BY <1>1, <1>3 DEF MarksDecided, Flight!CloseCallDecided
<1> QED
  BY <1>4, <1>5, <1>6, <1>7

(* A replay request moves the cursor to a snapshot that is recorded. *)
Replaying ==
  \/ Flight!Load \/ Flight!Play \/ Flight!JumpNext \/ Flight!JumpPrevious
  \/ \E tick \in 0..MaxTicks : Flight!SeekTick(tick)
  \/ \E delta \in {-1, 1} : Flight!StepReplay(delta)

(* A replay moves nothing but its cursor, and that within the recording.   *)
LEMMA ReplayIs ==
  ASSUME FlightTypes, PointersIn, Replaying
  PROVE  /\ UNCHANGED <<clock, craft, config, triggered, recording, index, taken, epoch, visited>>
         /\ replay' \in [cursor : Nat, status : {"none", "PAUSED", "PLAYING"}]
         /\ IF recording = <<>> THEN replay'.cursor = 0 ELSE replay'.cursor < Len(recording)
<1> DEFINE Statuses == {"none", "PAUSED", "PLAYING"}
           n == Len(recording)
           In(c) == c \in Nat /\ IF recording = <<>> THEN c = 0 ELSE c < n
           Turns(c) == replay' = [replay EXCEPT !.cursor = c]
<1>1. /\ replay \in [cursor : Nat, status : Statuses] /\ In(replay.cursor)
      /\ recording \in Seq(Picture) /\ n \in Nat /\ DOMAIN recording = 1..n
      /\ index \in Seq(Nat) /\ DOMAIN index = 1..Len(index)
      /\ \A k \in 1..Len(index) : index[k] < n /\ index[k] \in Nat
  <2>1. index \in Seq(Nat) /\ recording \in Seq(Picture)
    BY DEF FlightTypes
  <2>2. \A k \in 1..Len(index) : index[k] \in Nat
    BY <2>1
  <2> QED
    BY <2>1, <2>2, LenProperties DEF FlightTypes, PointersIn
<1>2. recording = <<>> <=> n = 0
  BY <1>1
<1> HIDE DEF n
<1>3. ASSUME NEW k \in 1..Len(index) PROVE In(index[k])
  BY <1>1, <1>2, <1>3
<1>4. ASSUME NEW c, In(c), Turns(c)
      PROVE  replay' \in [cursor : Nat, status : Statuses] /\ In(replay'.cursor)
  <2>1. replay'.cursor = c /\ replay' \in [cursor : Nat, status : Statuses]
    BY <1>1, <1>4
  <2> QED
    BY <1>4, <2>1
<1>5. UNCHANGED <<clock, craft, config, triggered, recording, index, taken, epoch, visited>>
  BY DEF Replaying, Flight!Load, Flight!Play, Flight!JumpNext, Flight!JumpPrevious, Flight!SeekTick,
         Flight!StepReplay
<1> SUFFICES replay' \in [cursor : Nat, status : Statuses] /\ In(replay'.cursor)
  BY <1>5 DEF n
<1>6. CASE Flight!Load
  <2>1. replay' = [cursor |-> 0, status |-> "PAUSED"]
    BY <1>6 DEF Flight!Load
  <2> QED
    BY <1>1, <1>2, <2>1
<1>7. CASE Flight!Play
  <2>1. replay' = [replay EXCEPT !.status = "PLAYING"]
    BY <1>7 DEF Flight!Play
  <2>2. replay'.cursor = replay.cursor /\ replay' \in [cursor : Nat, status : Statuses]
    BY <1>1, <2>1
  <2> QED
    BY <1>1, <2>2
<1>8. CASE Flight!JumpNext
  <2>1. PICK k \in 1..Len(index) : Turns(index[k])
    BY <1>1, <1>8 DEF Flight!JumpNext
  <2> HIDE DEF In, Turns
  <2> QED
    BY <1>3, <1>4, <2>1
<1>9. CASE Flight!JumpPrevious
  <2>1. PICK k \in 1..Len(index) : Turns(index[k])
    BY <1>1, <1>9 DEF Flight!JumpPrevious
  <2> HIDE DEF In, Turns
  <2> QED
    BY <1>3, <1>4, <2>1
<1>10. ASSUME NEW tick, Flight!SeekTick(tick)
       PROVE  replay' \in [cursor : Nat, status : Statuses] /\ In(replay'.cursor)
  <2> DEFINE Hits == {i \in DOMAIN recording : recording[i].tick = tick}
             first == Flight!FirstOf(tick)
  <2>1. CASE Hits = {}
    <3>1. replay' = replay
      BY <1>10, <2>1 DEF Flight!SeekTick
    <3> QED
      BY <1>1, <3>1
  <2>2. CASE Hits # {}
    <3>1. Hits \subseteq 1..n
      BY <1>1
    <3>2. Hits \subseteq Nat
      BY <1>1, <3>1
    <3>3. \E i \in Hits : \A j \in Hits : i <= j
      <4> HIDE DEF Hits
      <4> QED
        BY <2>2, <3>2, LeastNatural
    <3>4. PICK i \in Hits : \A j \in Hits : i <= j
      BY <3>3
    <3>5. \A j \in 1..(i - 1) : j \notin Hits /\ j \in 1..n
      <4> HIDE DEF Hits
      <4> QED
        BY <1>1, <3>1, <3>4
    <3>6. i \in DOMAIN recording /\ recording[i].tick = tick
          /\ \A j \in 1..(i - 1) : recording[j].tick # tick
      BY <1>1, <3>5
    <3>7. first \in DOMAIN recording
      BY <3>6 DEF Flight!FirstOf
    <3>8. Turns(first - 1)
      BY <1>10, <2>2 DEF Flight!SeekTick
    <3> HIDE DEF first
    <3>9. In(first - 1)
      BY <1>1, <1>2, <3>7
    <3> HIDE DEF In, Turns
    <3> QED
      BY <1>4, <3>8, <3>9
  <2> QED
    BY <2>1, <2>2
<1>11. ASSUME NEW delta \in {-1, 1}, Flight!StepReplay(delta)
       PROVE  replay' \in [cursor : Nat, status : Statuses] /\ In(replay'.cursor)
  <2> DEFINE moved == replay.cursor + delta
             end == n - 1
             c == IF moved < 0 THEN 0 ELSE IF moved > end THEN end ELSE moved
  <2>1. recording # <<>> /\ Turns(c)
    BY <1>11 DEF Flight!StepReplay, n
  <2>2. In(c)
    BY <1>1, <1>2, <2>1
  <2> HIDE DEF In, Turns, c
  <2> QED
    BY <1>4, <2>1, <2>2
<1> QED
  BY <1>6, <1>7, <1>8, <1>9, <1>10, <1>11 DEF Replaying

(* A new route starts before its first waypoint.                           *)
LEMMA AssignKeeps ==
  ASSUME FlightOK, FlightTypes, PassedWaypoints, NEW v \in Vehicles, NEW route \in Routes,
         Flight!Assign(v, route)
  PROVE  FlightTypes' /\ PassedWaypoints'
<1> DEFINE target == IF route = <<>> THEN craft[v].target ELSE route[1]
           c == [craft[v] EXCEPT !.waypoints = route, !.next = 1, !.target = target]
<1>1. /\ craft' = [craft EXCEPT ![v] = c]
      /\ visited' = [visited EXCEPT ![v] = {}]
      /\ UNCHANGED <<clock, config, triggered, recording, index, replay, taken, epoch>>
  BY DEF Flight!Assign
<1>2. craft \in [Vehicles -> Craft] /\ visited \in [Vehicles -> SUBSET Nat] /\ craft[v] \in Craft
      /\ route \in Seq(Int)
  BY DEF FlightTypes, FlightOK
<1>3. target \in Int
  BY <1>2 DEF Craft
<1> HIDE DEF target
<1>4. c \in Craft /\ c.next = 1
  <2>1. PICK q \in Craft : q = craft[v]
    BY <1>2
  <2> DEFINE q1 == [q EXCEPT !.waypoints = route]
             q2 == [q1 EXCEPT !.next = 1]
             q3 == [q2 EXCEPT !.target = target]
  <2>2. q1 \in Craft
    BY <1>2 DEF Craft
  <2> HIDE DEF q1
  <2>3. q2 \in Craft /\ q2.next = 1
    BY <2>2 DEF Craft
  <2> HIDE DEF q2
  <2>4. q3 \in Craft /\ q3.next = 1
    BY <1>3, <2>3 DEF Craft
  <2>5. c = [q EXCEPT !.waypoints = route, !.next = 1, !.target = target]
    BY <2>1 DEF c
  <2>6. [q EXCEPT !.waypoints = route, !.next = 1, !.target = target] = q3
    BY DEF q1, q2, q3
  <2> QED
    BY <2>4, <2>5, <2>6
<1> HIDE DEF c
<1>5. FlightTypes'
  BY <1>1, <1>2, <1>4 DEF FlightTypes
<1>6. PassedWaypoints'
  <2> SUFFICES ASSUME NEW w \in Vehicles PROVE 1..(craft'[w].next - 1) \subseteq visited'[w]
    BY DEF PassedWaypoints
  <2>1. CASE w = v
    <3>1. craft'[w].next = 1
      BY <1>1, <1>2, <1>4, <2>1
    <3> QED
      BY <3>1
  <2>2. CASE w # v
    BY <1>1, <1>2, <2>2 DEF PassedWaypoints
  <2> QED
    BY <2>1, <2>2
<1> QED
  BY <1>5, <1>6

(* A vehicle that is put elsewhere keeps its route.                        *)
LEMMA ShiftKeeps ==
  ASSUME FlightOK, FlightTypes, PassedWaypoints, NEW v \in Vehicles, NEW place \in Shifts,
         Flight!Shift(v, place)
  PROVE  FlightTypes' /\ PassedWaypoints'
<1> DEFINE c == [craft[v] EXCEPT !.at = place]
<1>1. /\ craft' = [craft EXCEPT ![v] = c]
      /\ UNCHANGED <<clock, config, triggered, recording, index, replay, taken, epoch, visited>>
  BY DEF Flight!Shift
<1>2. craft \in [Vehicles -> Craft] /\ craft[v] \in Craft /\ place \in Int
  BY DEF FlightTypes, FlightOK
<1>3. c \in Craft /\ c.next = craft[v].next
  BY <1>2 DEF Craft
<1> HIDE DEF c
<1>4. FlightTypes'
  BY <1>1, <1>2, <1>3 DEF FlightTypes
<1>5. \A w \in Vehicles : craft'[w].next = craft[w].next
  BY <1>1, <1>2, <1>3
<1> QED
  BY <1>1, <1>4, <1>5 DEF PassedWaypoints

(* The simulation begins with the enrolled fleet and nothing recorded.     *)
LEMMA InitFlight ==
  ASSUME FlightOK, Flight!Init
  PROVE  FlightInv
<1>1. /\ clock = [tick |-> 0, running |-> FALSE]
      /\ craft = [v \in Vehicles |-> Flight!Parked(CHOOSE i \in DOMAIN Flight!Fleet : Flight!Fleet[i] = v)]
      /\ config = Flight!Enrolled[Len(Flight!Fleet)]
      /\ triggered = [k \in Warnings \X Flight!Pairs([v \in Vehicles |-> 0]) |-> 0]
      /\ recording = <<>> /\ index = <<>> /\ replay = Flight!NoReplay
      /\ taken = 0 /\ epoch = 0 /\ visited = [v \in Vehicles |-> {}]
  BY DEF Flight!Init, Warnings
<1>2. MaxTicks \in Nat /\ MaxSnapshots \in Nat
  BY DEF FlightOK
<1>3. /\ recording \in Seq(Picture) /\ Len(recording) = 0 /\ DOMAIN recording = {}
      /\ index \in Seq(Nat) /\ Len(index) = 0 /\ DOMAIN index = {}
  BY <1>1
<1>4. craft \in [Vehicles -> Craft] /\ \A v \in Vehicles : craft[v].next = 1
  <2> SUFFICES ASSUME NEW v \in Vehicles PROVE craft[v] \in Craft /\ craft[v].next = 1
    BY <1>1
  <2>1. PICK i \in DOMAIN Flight!Fleet :
          /\ i = CHOOSE k \in DOMAIN Flight!Fleet : Flight!Fleet[k] = v
          /\ i \in Int
    BY FleetIs
  <2>2. craft[v] = Flight!Parked(i)
    BY <1>1, <2>1
  <2>3. Flight!Spread * i \in Int
    BY <2>1 DEF Flight!Spread
  <2>4. <<>> \in Seq(Int)
    OBVIOUS
  <2> QED
    BY <2>2, <2>3, <2>4 DEF Flight!Parked, Craft
<1>5. triggered = [k \in Warnings \X TwoOf |-> 0]
  <2>1. Flight!Pairs([v \in Vehicles |-> 0]) = TwoOf
    BY DEF Flight!Pairs, TwoOf, Flight!Cardinality, Cardinality
  <2> QED
    BY <1>1, <2>1
<1>6. replay \in [cursor : Nat, status : {"none", "PAUSED", "PLAYING"}] /\ replay.cursor = 0
  BY <1>1 DEF Flight!NoReplay
<1>7. FlightTypes
  <2>1. triggered \in [Warnings \X TwoOf -> Nat]
    <3> DEFINE Keys == Warnings \X TwoOf
    <3>1. triggered = [k \in Keys |-> 0]
      BY <1>5
    <3> HIDE DEF Keys
    <3>2. triggered \in [Keys -> Nat]
      BY <3>1
    <3> QED
      BY <3>2 DEF Keys
  <2>2. visited \in [Vehicles -> SUBSET Nat] /\ clock \in [tick : Nat, running : BOOLEAN]
        /\ clock.tick = 0
    BY <1>1
  <2> QED
    BY <1>1, <1>2, <1>3, <1>4, <1>6, <2>1, <2>2 DEF FlightTypes
<1>8. ConfigOK(config)
  BY <1>1, FleetEnrolled
<1>9. PointersIn
  BY <1>1, <1>3, <1>6 DEF PointersIn
<1>10. UpToDate
  <2>1. Flight!TimeOrdered
    BY <1>3 DEF Flight!TimeOrdered
  <2>2. Flight!IndexExact
    BY <1>3 DEF Flight!IndexExact
  <2> QED
    BY <1>1, <1>3, <2>1, <2>2 DEF UpToDate
<1>11. DecisionsMarked
  BY <1>3 DEF DecisionsMarked, Flight!CooldownKept
<1>12. MarksDecided
  <2>1. \A key \in Warnings \X TwoOf : triggered[key] = 0
    BY <1>5, Zenon
  <2>3. \A key \in Warnings \X TwoOf : triggered[key] <= clock.tick
    BY <1>1, <2>1
  <2>2. Flight!CloseCallDecided
    BY <1>3 DEF Flight!CloseCallDecided
  <2> QED
    BY <1>1, <1>3, <2>2, <2>3 DEF MarksDecided
<1>13. PassedWaypoints
  <2>1. \A v \in Vehicles : 1..(craft[v].next - 1) = {}
    BY <1>4
  <2> QED
    BY <2>1 DEF PassedWaypoints
<1> QED
  BY <1>7, <1>8, <1>9, <1>10, <1>11, <1>12, <1>13 DEF FlightInv

(* Every step of the simulation keeps its invariant.                       *)
LEMMA NextFlight ==
  ASSUME FlightOK, FlightInv, [Flight!Next]_(Flight!vars)
  PROVE  FlightInv'
<1> USE DEF FlightInv
<1>1. CASE Flight!Start
  <2>1. UNCHANGED <<craft, config, recording, index, replay, visited>>
    BY <1>1 DEF Flight!Start
  <2>2. FlightTypes' /\ UpToDate' /\ DecisionsMarked' /\ MarksDecided'
    BY <1>1, StartKeeps
  <2> QED
    BY <2>1, <2>2 DEF PointersIn, PassedWaypoints
<1>2. CASE Flight!Pause
  <2>1. UNCHANGED <<craft, config, recording, index, replay, visited>>
    BY <1>2 DEF Flight!Pause
  <2>2. FlightTypes' /\ UpToDate' /\ DecisionsMarked' /\ MarksDecided'
    BY <1>2, PauseKeeps
  <2> QED
    BY <2>1, <2>2 DEF PointersIn, PassedWaypoints
<1>3. CASE Flight!Tick
  <2>1. PassedWaypoints' /\ \E x, pair, n, drop : Recorded(x, pair, n, drop)
    BY <1>3, TickIs
  <2>2. PICK x, pair, n, drop : Recorded(x, pair, n, drop)
    BY <2>1
  <2>3. FlightTypes' /\ PointersIn'
    BY <2>2, FlightTickTypes
  <2>4. UpToDate'
    BY <2>2, TickUpToDate
  <2>5. DecisionsMarked'
    BY <2>2, TickDecisions
  <2>6. MarksDecided'
    BY <2>2, TickMarks
  <2>7. ConfigOK(config)'
    BY <2>2 DEF Recorded
  <2> QED
    BY <2>1, <2>3, <2>4, <2>5, <2>6, <2>7
<1>4. CASE Replaying
  <2>1. /\ UNCHANGED <<clock, craft, config, triggered, recording, index, taken, epoch, visited>>
        /\ replay' \in [cursor : Nat, status : {"none", "PAUSED", "PLAYING"}]
        /\ IF recording = <<>> THEN replay'.cursor = 0 ELSE replay'.cursor < Len(recording)
    BY <1>4, ReplayIs
  <2>2. FlightTypes' /\ PointersIn' /\ PassedWaypoints'
    BY <2>1 DEF FlightTypes, PointersIn, PassedWaypoints
  <2>3. UpToDate' /\ DecisionsMarked' /\ MarksDecided'
    BY <2>1, FlightRests
  <2> QED
    BY <2>1, <2>2, <2>3
<1>5. ASSUME NEW v \in Vehicles, NEW route \in Routes, Flight!Assign(v, route)
      PROVE  FlightInv'
  <2>1. UNCHANGED <<clock, config, triggered, recording, index, replay, taken, epoch>>
    BY <1>5 DEF Flight!Assign
  <2>2. FlightTypes' /\ PassedWaypoints'
    BY <1>5, AssignKeeps
  <2>3. UpToDate' /\ DecisionsMarked' /\ MarksDecided'
    BY <2>1, FlightRests
  <2> QED
    BY <2>1, <2>2, <2>3 DEF PointersIn
<1>6. ASSUME NEW v \in Vehicles, NEW place \in Shifts, Flight!Shift(v, place)
      PROVE  FlightInv'
  <2>1. UNCHANGED <<clock, config, triggered, recording, index, replay, taken, epoch>>
    BY <1>6 DEF Flight!Shift
  <2>2. FlightTypes' /\ PassedWaypoints'
    BY <1>6, ShiftKeeps
  <2>3. UpToDate' /\ DecisionsMarked' /\ MarksDecided'
    BY <2>1, FlightRests
  <2> QED
    BY <2>1, <2>2, <2>3 DEF PointersIn
<1>7. ASSUME NEW v \in Vehicles, Flight!Lose(v) \/ Flight!Lead(v)
      PROVE  FlightInv'
  <2>1. UNCHANGED <<clock, craft, triggered, recording, index, replay, taken, epoch, visited>>
    BY <1>7 DEF Flight!Lose, Flight!Lead
  <2>2. ConfigOK(config)'
    <3>1. CASE Flight!Lose(v)
      <4>1. v \in Flight!Ids(config) /\ config' = Flight!RemoveMember(config, v)
        BY <3>1 DEF Flight!Lose
      <4> QED
        BY <4>1, RemoveKeeps
    <3>2. CASE Flight!Lead(v)
      <4>1. config' = Flight!SetLeader(config, v)
        BY <3>2 DEF Flight!Lead
      <4> QED
        BY <4>1, LeaderKeeps
    <3> QED
      BY <1>7, <3>1, <3>2
  <2>3. UpToDate' /\ DecisionsMarked' /\ MarksDecided'
    BY <2>1, FlightRests
  <2>4. FlightTypes' /\ PointersIn' /\ PassedWaypoints'
    BY <2>1 DEF FlightTypes, PointersIn, PassedWaypoints
  <2> QED
    BY <2>2, <2>3, <2>4
<1>8. CASE UNCHANGED Flight!vars
  <2>1. UNCHANGED <<clock, craft, config, triggered, recording, index, replay, taken, epoch, visited>>
    BY <1>8 DEF Flight!vars
  <2>2. UpToDate' /\ DecisionsMarked' /\ MarksDecided'
    BY <2>1, FlightRests
  <2>3. FlightTypes' /\ PointersIn' /\ PassedWaypoints'
    BY <2>1 DEF FlightTypes, PointersIn, PassedWaypoints
  <2> QED
    BY <2>1, <2>2, <2>3
<1> QED
  BY <1>1, <1>2, <1>3, <1>4, <1>5, <1>6, <1>7, <1>8 DEF Flight!Next, Replaying

(* The invariant has what the run checks of the simulation.                *)
LEMMA FlightInvSound ==
  ASSUME FlightOK, FlightInv
  PROVE  Flight!TypeOK /\ Flight!SimulationSound
<1> USE DEF FlightInv
<1>1. /\ clock \in [tick : Nat, running : BOOLEAN] /\ clock.tick \in Nat /\ clock.tick <= MaxTicks
      /\ config.leader \in Vehicles \union {NoVehicle}
      /\ Len(recording) <= MaxSnapshots /\ Len(recording) \in Nat
      /\ replay \in [cursor : Nat, status : {"none", "PAUSED", "PLAYING"}]
      /\ index \in Seq(Nat) /\ MaxSnapshots \in Nat \ {0} /\ MaxTicks \in Nat
  <2>1. recording \in Seq(Picture) /\ clock \in [tick : Nat, running : BOOLEAN] /\ clock.tick <= taken
        /\ taken \in Nat /\ taken <= MaxTicks /\ MaxTicks \in Nat
    BY DEF FlightTypes, FlightOK
  <2>2. clock.tick \in Nat /\ clock.tick <= MaxTicks
    BY <2>1
  <2> QED
    BY <2>1, <2>2, LenProperties DEF FlightTypes, FlightOK, ConfigOK
<1>2. /\ replay.cursor \in 0..(MaxSnapshots - 1)
      /\ recording # <<>> => replay.cursor < Len(recording)
  BY <1>1 DEF PointersIn
<1>3. \A k \in DOMAIN index : index[k] \in 0..(MaxSnapshots - 1)
  <2>1. DOMAIN index = 1..Len(index) /\ \A k \in DOMAIN index : index[k] \in Nat
    BY <1>1
  <2> QED
    BY <1>1, <2>1 DEF PointersIn
<1>4. clock \in [tick : 0..MaxTicks, running : BOOLEAN]
  BY <1>1
<1>5. Flight!TypeOK
  BY <1>1, <1>2, <1>3, <1>4 DEF Flight!TypeOK
<1>6. Flight!CompletedAfterWaypoints
  <2> SUFFICES ASSUME NEW v \in Vehicles, Flight!Completed(craft[v])
               PROVE  1..(Len(craft[v].waypoints) - 1) \subseteq visited[v]
    BY DEF Flight!CompletedAfterWaypoints
  <2>1. craft[v] \in Craft /\ 1..(craft[v].next - 1) \subseteq visited[v]
    BY DEF FlightTypes, PassedWaypoints
  <2>2. Len(craft[v].waypoints) - 1 <= craft[v].next - 1 /\ Len(craft[v].waypoints) \in Nat /\ craft[v].next \in Nat
    BY <2>1, FlownMeans
  <2>3. 1..(Len(craft[v].waypoints) - 1) \subseteq 1..(craft[v].next - 1)
    BY <2>2
  <2> QED
    BY <2>1, <2>3
<1>7. Flight!OneLeader /\ Flight!MissionsApart
  BY LeaderIsFirst, MissionPlacesApart
<1>8. Flight!CooldownKept /\ Flight!CloseCallDecided /\ Flight!IndexExact /\ Flight!TimeOrdered
  BY DEF UpToDate, DecisionsMarked, MarksDecided
<1>9. Flight!CursorInRange
  BY <1>2 DEF Flight!CursorInRange
<1> QED
  BY <1>5, <1>6, <1>7, <1>8, <1>9 DEF Flight!SimulationSound

-----------------------------------------------------------------------------
(* The composition: a step is one of the part the behaviour belongs to, or *)
(* leaves that part as it is.                                              *)
LEMMA PartStep ==
  ASSUME [Next]_vars
  PROVE  /\ part' = part
         /\ part = "scenario" => [Scenario!Next]_(Scenario!vars)
         /\ part = "mission" => [Mission!Next]_(Mission!vars)
         /\ part = "swarm" => [Control!Next]_(Control!vars)
         /\ part = "safety" => [Safety!Next]_(Safety!vars)
         /\ part = "flight" => [Flight!Next]_(Flight!vars)
<1>1. CASE UNCHANGED vars
  BY <1>1 DEF vars, scenarioVars, missionVars, swarmVars, safetyVars, flightVars,
              Scenario!vars, Mission!vars, Control!vars, Safety!vars, Flight!vars
<1>2. CASE Next
  BY <1>2 DEF Next
<1> QED
  BY <1>1, <1>2

(* However requests on a scenario overlap, and through edits and restarts: *)
(* a session that reports no error has lost no observation; and as long as *)
(* the requests do not overlap, what they leave behind is coherent.        *)
THEOREM ScenarioAlwaysSound ==
  ASSUME ScenarioOK
  PROVE  Spec => []ScenarioSound
<1> DEFINE PartInv == part = "scenario" => ScenarioInv
<1>1. PartInv => ScenarioSound
  BY ScenarioInvSound DEF ScenarioSound
<1>2. Init => PartInv
  BY InitScenario DEF Init
<1>3. PartInv /\ [Next]_vars => PartInv'
  BY PartStep, NextScenario
<1> QED
  BY <1>1, <1>2, <1>3, PTL DEF Spec

(* A mission, whatever is posted and however many requests overlap: what   *)
(* flies is the plan that was posted, in the order of its numbers; unless  *)
(* a request committed over a status it had not seen, an abort is final    *)
(* and the progress shown is the status of the row.                        *)
THEOREM MissionAlwaysSound ==
  ASSUME PayloadsOK
  PROVE  Spec => []MissionSound
<1> DEFINE PartInv == part = "mission" => MissionInv
<1>1. PartInv => MissionSound
  BY MissionInvSound DEF MissionSound
<1>2. Init => PartInv
  BY InitMission DEF Init
<1>3. PartInv /\ [Next]_vars => PartInv'
  BY PartStep, NextMission
<1> QED
  BY <1>1, <1>2, <1>3, PTL DEF Spec

(* The rows of a swarm and its cached engine, whatever members, slots and  *)
(* rosters clients ask for: an engine no overtaken request has left behind *)
(* is what the rows say, members hold slots of their own while no one asks *)
(* for another, and decisions rest on the last policy and its cooldown.    *)
THEOREM SwarmAlwaysSound ==
  ASSUME SwarmOK, CooldownsOK
  PROVE  Spec => []SwarmSound
<1> DEFINE PartInv == /\ part = "swarm" => ControlInv
                      /\ part = "safety" => SafetyInv
<1>1. PartInv => SwarmSound
  BY ControlSound, SafetyInvInductive DEF SwarmSound
<1>2. Init => PartInv
  BY InitControl, SafetyInvInductive DEF Init
<1>3. PartInv /\ [Next]_vars => PartInv'
  BY PartStep, NextControl, SafetyInvInductive
<1> QED
  BY <1>1, <1>2, <1>3, PTL DEF Spec

(* The flight of any number of vehicles, through every loss and change of  *)
(* leader, every start of the clock and every jump of a replay: one leader *)
(* with places apart behind it, decisions in time and no oftener than the  *)
(* cooldown, missions completed only past every waypoint before the last,  *)
(* and a recording that is in order, exactly indexed until it drops a      *)
(* snapshot, and holds what the replay's cursor points at.                 *)
THEOREM FlightAlwaysSound ==
  ASSUME FlightOK
  PROVE  Spec => []FlightSound
<1> DEFINE PartInv == part = "flight" => FlightInv
<1>1. PartInv => FlightSound
  BY FlightInvSound DEF FlightSound
<1>2. Init => PartInv
  BY InitFlight DEF Init
<1>3. PartInv /\ [Next]_vars => PartInv'
  BY PartStep, NextFlight
<1> QED
  BY <1>1, <1>2, <1>3, PTL DEF Spec

=============================================================================
