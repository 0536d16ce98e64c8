----------------------------- MODULE HuntProofs -----------------------------
(***************************************************************************)
(* Proofs about Hunt, for every set of rules, events and workers and every *)
(* limit.                                                                  *)
(***************************************************************************)
EXTENDS Hunt, TLAPS, FiniteSetTheorems, SequenceTheorems, WellFoundedInduction

(***************************************************************************)
(* An event is analysed once because it is ingested once.  The event of an *)
(* Agent is looked up before it is stored, and between the two no other    *)
(* request from an Agent is handled (OneAgentJob); from then on the store  *)
(* holds it.  So its ingest is the only one (OnlyIngest), and until that   *)
(* ends, the event has been learned as far as that ingest has come.        *)
(***************************************************************************)
JobShape ==
    /\ job = [w \in Worker |-> job[w]]
    /\ \A w \in Worker : job[w] # NoJob =>
          {"pc", "event", "path", "counted"} \subseteq DOMAIN job[w] /\ job[w].event \in stored

OneAgentJob ==
    \A v, w \in Worker :
        /\ job[v] # NoJob /\ job[v].path = "agent"
        /\ job[w] # NoJob /\ job[w].path = "agent"
        => v = w

OnlyIngest ==
    \A w \in Worker : job[w] # NoJob /\ job[w].event \notin byApi =>
        /\ job[w].path = "agent"
        /\ job[w].counted \in 0..Len(Increments[job[w].event])
        /\ learned[job[w].event] = LearnedTo(job[w].event, job[w].counted)
        /\ job[w].event \notin broken

NotYetIngested ==
    /\ learned = [e \in Event |-> learned[e]]
    /\ stored \subseteq Event
    /\ \A e \in Event \ stored : learned[e] = LearnedTo(e, 0) /\ e \notin broken

IngestInv == /\ JobShape
             /\ OneAgentJob
             /\ OnlyIngest
             /\ NotYetIngested
             /\ AgentEventAnalysedOnce

\* learn makes finitely many increments of an event.
LEMMA IncrementsAre ==
  ASSUME NEW e \in Event
  PROVE  Len(Increments[e]) \in Nat /\ DOMAIN Increments[e] = 1..Len(Increments[e])
<1> DEFINE F == Data[e].features
           In(scope) == [k \in DOMAIN F |-> [scope |-> scope, feature |-> F[k]]]
           asset == [of |-> "asset", key |-> Data[e].asset]
           role == [of |-> "role", key |-> Data[e].role]
           S == [scope : {asset, role}, feature : ToSet(F)]
<1>1. PICK n \in Nat : F \in [1..n -> ToSet(F)]
  <2>1. F \in Seq(ToSet(F))
    BY HuntAssumption
  <2> QED
    BY <2>1, SeqDef
<1>2. ASSUME NEW scope \in {asset, role} PROVE In(scope) \in Seq(S)
  <2>1. PICK f : f = In(scope)
    OBVIOUS
  <2>2. f \in [1..n -> S]
    BY <1>1, <2>1
  <2>3. PICK T : T = S
    OBVIOUS
  <2>4. f \in Seq(T)
    <3> HIDE DEF S
    <3>1. f \in [1..n -> T]
      BY <2>2, <2>3
    <3> QED
      BY <1>1, <3>1, SeqDef
  <2> QED
    BY <2>1, <2>3, <2>4
<1>3. Increments[e] = In(asset) \o In(role)
  BY DEF Increments
<1>4. Increments[e] \in Seq(S)
  BY <1>2, <1>3, ConcatProperties
<1> QED
  BY <1>4, LenProperties

\* learn makes the next increment and no other.
LEMMA LearnedOn ==
  ASSUME NEW e \in Event, NEW n \in 0..Len(Increments[e])
  PROVE  [i \in DOMAIN LearnedTo(e, n) |->
             IF i = n + 1 THEN LearnedTo(e, n)[i] + 1 ELSE LearnedTo(e, n)[i]] = LearnedTo(e, n + 1)
<1>1. Len(Increments[e]) \in Nat /\ DOMAIN Increments[e] = 1..Len(Increments[e])
  BY IncrementsAre
<1> QED
  BY <1>1 DEF LearnedTo

\* AgentEventAnalysedOnce, for every number of workers and posts: the lookup of
\* ingest_agent_event and learn make it so that an Agent's event is learned
\* once, however requests of both endpoints, restarts and broken ingests
\* interleave with each other and with the increments.
THEOREM AgentEventAnalysedOnceAlways == HuntSpec => []AgentEventAnalysedOnce
<1>1. HuntInit => IngestInv
  <2> SUFFICES ASSUME HuntInit PROVE IngestInv
    OBVIOUS
  <2>1. \A e \in Event : learned[e] = LearnedTo(e, 0)
    <3> TAKE e \in Event
    <3>1. Len(Increments[e]) \in Nat /\ DOMAIN Increments[e] = 1..Len(Increments[e])
      BY IncrementsAre
    <3> QED
      BY <3>1 DEF HuntInit, LearnedTo
  <2> QED
    BY <2>1 DEF HuntInit, IngestInv, JobShape, OneAgentJob, OnlyIngest, NotYetIngested,
       AgentEventAnalysedOnce
<1>2. IngestInv /\ [HuntNext]_huntVars => IngestInv'
  <2> SUFFICES ASSUME IngestInv, [HuntNext]_huntVars PROVE IngestInv'
    OBVIOUS
  <2> USE DEF IngestInv
  <2>1. ASSUME NEW w \in Worker, NEW e \in Event, NEW path \in {"agent", "api"},
               ingest(w, e, path),
               path = "agent" =>
                  /\ e \notin stored
                  /\ \A v \in Worker : job[v] # NoJob => job[v].path # "agent"
        PROVE  IngestInv'
    <3>0. PICK anomaly \in assess(e) :
            job' = [job EXCEPT ![w] =
                      [pc |-> "prune", event |-> e, path |-> path,
                       score |-> anomaly.score, lead |-> anomaly.lead,
                       kept |-> Kept(Data[e].at), from |-> emitted,
                       rule |-> 1, seen |-> <<>>, matches |-> <<>>, found |-> <<>>,
                       incident |-> None, counted |-> 0]]
      BY <2>1 DEF ingest
    <3> DEFINE j == [pc |-> "prune", event |-> e, path |-> path,
                     score |-> anomaly.score, lead |-> anomaly.lead,
                     kept |-> Kept(Data[e].at), from |-> emitted,
                     rule |-> 1, seen |-> <<>>, matches |-> <<>>, found |-> <<>>,
                     incident |-> None, counted |-> 0]
    <3>1. /\ job' = [job EXCEPT ![w] = j]
          /\ j.pc = "prune" /\ j.event = e /\ j.path = path /\ j.counted = 0
          /\ {"pc", "event", "path", "counted"} \subseteq DOMAIN j
      BY <3>0
    <3> HIDE DEF j
    <3>2. /\ job[w] = NoJob /\ stored' = stored \cup {e}
          /\ byApi' = IF path = "api" THEN byApi \cup {e} ELSE byApi
          /\ UNCHANGED <<learned, broken>>
      BY <2>1 DEF ingest
    <3>3. j # NoJob
      BY <3>1 DEF NoJob
    <3>4. JobShape'
      BY <3>1, <3>2, <3>3 DEF JobShape
    <3>5. OneAgentJob'
      BY <2>1, <3>1, <3>2, <3>3 DEF JobShape, OneAgentJob
    <3>6. OnlyIngest'
      <4>1. 0 \in 0..Len(Increments[e])
        BY IncrementsAre
      <4> QED
        BY <2>1, <3>1, <3>2, <3>3, <4>1 DEF JobShape, OnlyIngest, NotYetIngested
    <3>7. NotYetIngested'
      BY <3>2 DEF NotYetIngested
    <3>8. AgentEventAnalysedOnce'
      BY <2>1, <3>1, <3>2, <3>3 DEF JobShape, AgentEventAnalysedOnce
    <3> QED
      BY <3>4, <3>5, <3>6, <3>7, <3>8
  <2>2. ASSUME NEW w \in Worker, NEW j, job[w] # NoJob,
               job' = [job EXCEPT ![w] = j],
               j # NoJob, j.event = job[w].event, j.path = job[w].path,
               j.counted = job[w].counted, DOMAIN j = DOMAIN job[w],
               UNCHANGED <<stored, learned, byApi, broken>>
        PROVE  IngestInv'
    <3>1. JobShape'
      BY <2>2 DEF JobShape
    <3>2. OneAgentJob'
      BY <2>2 DEF JobShape, OneAgentJob
    <3>3. OnlyIngest'
      BY <2>2 DEF JobShape, OnlyIngest
    <3>4. NotYetIngested'
      BY <2>2 DEF NotYetIngested
    <3>5. AgentEventAnalysedOnce'
      BY <2>2 DEF JobShape, AgentEventAnalysedOnce
    <3> QED
      BY <3>1, <3>2, <3>3, <3>4, <3>5
  <2>3. ASSUME NEW w \in Worker, job[w] # NoJob, job' = [job EXCEPT ![w] = NoJob],
               broken' = broken \cup {job[w].event}, UNCHANGED <<stored, learned, byApi>>
        PROVE  IngestInv'
    <3>1. JobShape' /\ OneAgentJob'
      BY <2>3 DEF JobShape, OneAgentJob
    <3>2. OnlyIngest'
      BY <2>3 DEF JobShape, OneAgentJob, OnlyIngest, NotYetIngested
    <3>3. NotYetIngested'
      BY <2>3 DEF JobShape, NotYetIngested
    <3>4. AgentEventAnalysedOnce'
      BY <2>3 DEF JobShape, OneAgentJob, OnlyIngest, NotYetIngested, AgentEventAnalysedOnce
    <3> QED
      BY <3>1, <3>2, <3>3, <3>4
  <2>4. ASSUME UNCHANGED <<job, stored, learned, byApi, broken>> PROVE IngestInv'
    BY <2>4 DEF JobShape, OneAgentJob, OnlyIngest, NotYetIngested, AgentEventAnalysedOnce
  <2>5. CASE Restart
    <3>1. /\ job' = [w \in Worker |-> NoJob]
          /\ broken' = broken \cup {job[w].event : w \in {v \in Worker : job[v] # NoJob}}
          /\ UNCHANGED <<stored, learned, byApi>>
      BY <2>5 DEF Restart, tables
    <3>2. JobShape' /\ OneAgentJob' /\ OnlyIngest'
      BY <3>1 DEF JobShape, OneAgentJob, OnlyIngest
    <3>3. NotYetIngested'
      BY <3>1 DEF JobShape, NotYetIngested
    <3>4. AgentEventAnalysedOnce'
      BY <3>1 DEF OnlyIngest, AgentEventAnalysedOnce
    <3> QED
      BY <3>2, <3>3, <3>4
  <2> USE DEF tables, engine, history
  <2>6. ASSUME NEW w \in Worker, NEW e \in Event, ingest_agent_event(w, e)
        PROVE  IngestInv'
    <3>1. CASE ~Duplicate(e) /\ ingest(w, e, "agent")
      BY <2>1, <2>6, <3>1 DEF ingest_agent_event, Duplicate
    <3>2. CASE ~(~Duplicate(e) /\ ingest(w, e, "agent"))
      BY <2>4, <2>6, <3>2 DEF ingest_agent_event
    <3> QED
      BY <3>1, <3>2
  <2>7. ASSUME NEW w \in Worker, NEW e \in Event, ingest_normalized(w, e)
        PROVE  IngestInv'
    BY <2>1, <2>7 DEF ingest_normalized
  <2>8. ASSUME NEW w \in Worker, _prune_emitted(w) PROVE IngestInv'
    <3>1. job[w] # NoJob /\ {"pc", "event", "path", "counted"} \subseteq DOMAIN job[w]
      BY <2>8 DEF _prune_emitted, At, NoJob, JobShape
    <3>2. CASE job' = [job EXCEPT ![w].pc = "read", ![w].kept = {}, ![w].from = {}]
               /\ UNCHANGED broken
      <4> DEFINE j == [job[w] EXCEPT !.pc = "read", !.kept = {}, !.from = {}]
      <4>1. job' = [job EXCEPT ![w] = j]
        BY <3>2
      <4>2. j.event = job[w].event /\ j.path = job[w].path
          /\ j.counted = job[w].counted /\ DOMAIN j = DOMAIN job[w]
        BY <3>1
      <4>3. j.pc = "read"
        BY <3>1
      <4>4. UNCHANGED <<stored, learned, byApi, broken>>
        BY <2>8, <3>2 DEF _prune_emitted
      <4> HIDE DEF j
      <4> QED
        BY <2>2, <3>1, <4>1, <4>2, <4>3, <4>4 DEF NoJob
    <3>3. CASE job' = [job EXCEPT ![w] = NoJob] /\ broken' = broken \cup {job[w].event}
      BY <2>3, <2>8, <3>1, <3>3 DEF _prune_emitted
    <3> QED
      BY <2>8, <3>2, <3>3 DEF _prune_emitted
  <2>9. ASSUME NEW w \in Worker, ReadPartials(w) PROVE IngestInv'
    <3>1. job[w] # NoJob /\ {"pc", "event", "path", "counted"} \subseteq DOMAIN job[w]
      BY <2>9 DEF ReadPartials, At, NoJob, JobShape
    <3> DEFINE j == [job[w] EXCEPT !.pc = "advance", !.from = emitted,
                        !.seen = partials[job[w].rule][Group(job[w].event)]]
    <3>2. job' = [job EXCEPT ![w] = j]
      BY <2>9 DEF ReadPartials
    <3>3. j.event = job[w].event /\ j.path = job[w].path
          /\ j.counted = job[w].counted /\ DOMAIN j = DOMAIN job[w]
      BY <3>1
    <3>4. j.pc = "advance"
      BY <3>1
    <3>5. UNCHANGED <<stored, learned, byApi, broken>>
      BY <2>9 DEF ReadPartials
    <3> HIDE DEF j
    <3> QED
      BY <2>2, <3>1, <3>2, <3>3, <3>4, <3>5 DEF NoJob
  <2>10. ASSUME NEW w \in Worker, AdvancePartials(w) PROVE IngestInv'
    <3>1. job[w] # NoJob /\ {"pc", "event", "path", "counted"} \subseteq DOMAIN job[w]
      BY <2>10 DEF AdvancePartials, At, NoJob, JobShape
    <3>2. UNCHANGED <<stored, learned, byApi, broken>>
      BY <2>10 DEF AdvancePartials
    <3>3. PICK all, found :
            \/ job' = [job EXCEPT ![w].pc = "read", ![w].rule = job[w].rule + 1, ![w].from = {},
                                  ![w].seen = <<>>, ![w].matches = all]
            \/ job' = [job EXCEPT ![w].pc = "finding", ![w].from = {},
                                  ![w].seen = <<>>, ![w].matches = <<>>, ![w].found = found]
      BY <2>10 DEF AdvancePartials
    <3> DEFINE j1 == [job[w] EXCEPT !.pc = "read", !.rule = job[w].rule + 1, !.from = {},
                                    !.seen = <<>>, !.matches = all]
               j2 == [job[w] EXCEPT !.pc = "finding", !.from = {},
                                    !.seen = <<>>, !.matches = <<>>, !.found = found]
    <3>4. job' = [job EXCEPT ![w] = j1] \/ job' = [job EXCEPT ![w] = j2]
      BY <3>3
    <3>5. j1.event = job[w].event /\ j1.path = job[w].path
          /\ j1.counted = job[w].counted /\ DOMAIN j1 = DOMAIN job[w]
      BY <3>1
    <3>6. j1.pc = "read"
      BY <3>1
    <3>7. j2.event = job[w].event /\ j2.path = job[w].path
          /\ j2.counted = job[w].counted /\ DOMAIN j2 = DOMAIN job[w]
      BY <3>1
    <3>8. j2.pc = "finding"
      BY <3>1
    <3> HIDE DEF j1, j2
    <3> QED
      BY <2>2, <3>1, <3>2, <3>4, <3>5, <3>6, <3>7, <3>8 DEF NoJob
  <2>11. ASSUME NEW w \in Worker, InsertFinding(w) PROVE IngestInv'
    <3>1. job[w] # NoJob /\ {"pc", "event", "path", "counted"} \subseteq DOMAIN job[w]
      BY <2>11 DEF InsertFinding, At, NoJob, JobShape
    <3>2. PICK i : job' = [job EXCEPT ![w].pc = "upsert", ![w].incident = i]
      BY <2>11 DEF InsertFinding
    <3> DEFINE j == [job[w] EXCEPT !.pc = "upsert", !.incident = i]
    <3>3. job' = [job EXCEPT ![w] = j]
      BY <3>2
    <3>4. j.event = job[w].event /\ j.path = job[w].path
          /\ j.counted = job[w].counted /\ DOMAIN j = DOMAIN job[w]
      BY <3>1
    <3>5. j.pc = "upsert"
      BY <3>1
    <3>6. UNCHANGED <<stored, learned, byApi, broken>>
      BY <2>11 DEF InsertFinding
    <3> HIDE DEF j
    <3> QED
      BY <2>2, <3>1, <3>3, <3>4, <3>5, <3>6 DEF NoJob
  <2>12. ASSUME NEW w \in Worker, UpsertIncident(w) PROVE IngestInv'
    <3>1. job[w] # NoJob /\ {"pc", "event", "path", "counted"} \subseteq DOMAIN job[w]
      BY <2>12 DEF UpsertIncident, At, NoJob, JobShape
    <3> DEFINE j == [job[w] EXCEPT !.pc = "finding", !.found = Tail(@), !.incident = None]
    <3>2. job' = [job EXCEPT ![w] = j]
      BY <2>12 DEF UpsertIncident
    <3>3. j.event = job[w].event /\ j.path = job[w].path
          /\ j.counted = job[w].counted /\ DOMAIN j = DOMAIN job[w]
      BY <3>1
    <3>4. j.pc = "finding"
      BY <3>1
    <3>5. UNCHANGED <<stored, learned, byApi, broken>>
      BY <2>12 DEF UpsertIncident
    <3> HIDE DEF j
    <3> QED
      BY <2>2, <3>1, <3>2, <3>3, <3>4, <3>5 DEF NoJob
  <2>13. ASSUME NEW w \in Worker, learn(w) PROVE IngestInv'
    <3>1. job[w] # NoJob /\ {"pc", "event", "path", "counted"} \subseteq DOMAIN job[w]
      BY <2>13 DEF learn, At, NoJob, JobShape
    <3>2. PICK e : e = job[w].event
      OBVIOUS
    <3>3. PICK k : k = job[w].counted + 1
      OBVIOUS
    <3>4. PICK j : j = [job[w] EXCEPT !.counted = k]
      OBVIOUS
    <3>5. /\ learned' = [learned EXCEPT ![e] =
                            [i \in DOMAIN @ |-> IF i = k THEN @[i] + 1 ELSE @[i]]]
          /\ job' = [job EXCEPT ![w] = IF k < Len(Increments[e]) THEN j ELSE NoJob]
          /\ UNCHANGED <<stored, byApi, broken>>
      BY <2>13, <3>2, <3>3, <3>4 DEF learn
    <3>6. /\ j # NoJob /\ j.event = e /\ j.path = job[w].path /\ j.counted = k
          /\ DOMAIN j = DOMAIN job[w]
      BY <2>13, <3>1, <3>2, <3>4 DEF learn, At, NoJob
    <3>7. e \in Event /\ e \in stored
      BY <3>1, <3>2 DEF JobShape, NotYetIngested
    <3>8. Len(Increments[e]) \in Nat
      BY <3>7, IncrementsAre
    <3>9. e \notin byApi =>
            /\ k \in 1..(Len(Increments[e]) + 1) /\ learned'[e] = LearnedTo(e, k)
            /\ e \notin broken /\ job[w].path = "agent"
      <4> SUFFICES ASSUME e \notin byApi
                   PROVE  /\ k \in 1..(Len(Increments[e]) + 1) /\ learned'[e] = LearnedTo(e, k)
                          /\ e \notin broken /\ job[w].path = "agent"
        OBVIOUS
      <4>1. PICK n \in 0..Len(Increments[e]) : n = job[w].counted
        BY <3>1, <3>2 DEF OnlyIngest
      <4>2. k = n + 1 /\ k \in 1..(Len(Increments[e]) + 1)
        BY <3>3, <3>8, <4>1
      <4>3. learned[e] = LearnedTo(e, n) /\ e \notin broken /\ job[w].path = "agent"
        BY <3>1, <3>2, <4>1 DEF OnlyIngest
      <4>4. learned'[e] = [i \in DOMAIN learned[e] |->
                              IF i = k THEN learned[e][i] + 1 ELSE learned[e][i]]
        BY <3>5, <3>7 DEF NotYetIngested
      <4>5. learned'[e] = LearnedTo(e, k)
        BY <3>7, <4>2, <4>3, <4>4, LearnedOn
      <4> QED
        BY <4>2, <4>3, <4>5
    <3>10. \A d \in Event : d # e => learned'[d] = learned[d]
      BY <3>5, <3>7 DEF NotYetIngested
    <3>11. learned' = [d \in Event |-> learned'[d]]
      BY <3>5 DEF NotYetIngested
    <3>12. \A v \in Worker : v # w => job'[v] = job[v]
      BY <3>5 DEF JobShape
    <3>13. \A v \in Worker : v # w /\ job[v] # NoJob /\ e \notin byApi => job[v].event # e
      BY <3>1, <3>2 DEF OneAgentJob, OnlyIngest
    <3>14. NotYetIngested'
      BY <3>5, <3>7, <3>10, <3>11 DEF NotYetIngested
    <3>15. CASE k < Len(Increments[e])
      <4>1. job' = [job EXCEPT ![w] = j] /\ job'[w] = j
        BY <3>5, <3>15 DEF JobShape
      <4>2. JobShape' /\ OneAgentJob'
        BY <3>1, <3>2, <3>5, <3>6, <4>1 DEF JobShape, OneAgentJob
      <4>3. OnlyIngest'
        <5> SUFFICES ASSUME NEW v \in Worker, job'[v] # NoJob, job'[v].event \notin byApi
                     PROVE  /\ job'[v].path = "agent"
                            /\ job'[v].counted \in 0..Len(Increments[job'[v].event])
                            /\ learned'[job'[v].event] = LearnedTo(job'[v].event, job'[v].counted)
                            /\ job'[v].event \notin broken
          BY <3>5 DEF OnlyIngest
        <5>1. CASE v = w
          <6>1. k \in 0..Len(Increments[e])
            BY <3>6, <3>8, <3>9, <3>15, <4>1, <5>1
          <6> QED
            BY <3>6, <3>9, <4>1, <5>1, <6>1
        <5>2. CASE v # w
          <6>1. job'[v] = job[v] /\ job[v].event # e /\ job[v].event \in Event
            BY <3>12, <3>13, <5>2 DEF JobShape, NotYetIngested
          <6> QED
            BY <3>10, <6>1 DEF OnlyIngest
        <5> QED
          BY <5>1, <5>2
      <4>4. AgentEventAnalysedOnce'
        <5> SUFFICES ASSUME NEW d \in stored \ byApi,
                            \A v \in Worker : job'[v] # NoJob => job'[v].event # d
                     PROVE  \E n \in 0..Len(Increments[d]) :
                               /\ learned'[d] = LearnedTo(d, n)
                               /\ n = Len(Increments[d]) \/ d \in broken
          BY <3>5 DEF AgentEventAnalysedOnce
        <5>1. d # e
          BY <3>6, <4>1
        <5>2. \A v \in Worker : job[v] # NoJob => job[v].event # d
          BY <3>2, <3>12, <5>1
        <5> QED
          BY <3>10, <5>1, <5>2 DEF AgentEventAnalysedOnce, NotYetIngested
      <4> QED
        BY <3>14, <4>2, <4>3, <4>4
    <3>16. CASE ~(k < Len(Increments[e]))
      <4>1. job' = [job EXCEPT ![w] = NoJob] /\ job'[w] = NoJob
        BY <3>5, <3>16 DEF JobShape
      <4>2. JobShape' /\ OneAgentJob'
        BY <3>5, <4>1 DEF JobShape, OneAgentJob
      <4>3. OnlyIngest'
        <5> SUFFICES ASSUME NEW v \in Worker, job'[v] # NoJob, job'[v].event \notin byApi
                     PROVE  /\ job'[v].path = "agent"
                            /\ job'[v].counted \in 0..Len(Increments[job'[v].event])
                            /\ learned'[job'[v].event] = LearnedTo(job'[v].event, job'[v].counted)
                            /\ job'[v].event \notin broken
          BY <3>5 DEF OnlyIngest
        <5>1. v # w
          BY <4>1
        <5>2. job'[v] = job[v] /\ job[v].event # e /\ job[v].event \in Event
          BY <3>12, <3>13, <5>1 DEF JobShape, NotYetIngested
        <5> QED
          BY <3>10, <5>2 DEF OnlyIngest
      <4>4. AgentEventAnalysedOnce'
        <5> SUFFICES ASSUME NEW d \in stored \ byApi,
                            \A v \in Worker : job'[v] # NoJob => job'[v].event # d
                     PROVE  \E n \in 0..Len(Increments[d]) :
                               /\ learned'[d] = LearnedTo(d, n)
                               /\ n = Len(Increments[d]) \/ d \in broken
          BY <3>5 DEF AgentEventAnalysedOnce
        <5>1. CASE d = e
          <6>1. k \in Nat /\ k >= Len(Increments[e]) /\ learned'[e] = LearnedTo(e, k)
            BY <3>8, <3>9, <3>16, <5>1
          <6>2. DOMAIN Increments[e] = 1..Len(Increments[e])
            BY <3>7, IncrementsAre
          <6>3. LearnedTo(e, k) = LearnedTo(e, Len(Increments[e]))
            BY <3>8, <6>1, <6>2 DEF LearnedTo
          <6>4. Len(Increments[e]) \in 0..Len(Increments[e])
            BY <3>8
          <6> QED
            BY <5>1, <6>1, <6>3, <6>4
        <5>2. CASE d # e
          <6>1. \A v \in Worker : job[v] # NoJob => job[v].event # d
            BY <3>2, <3>12, <5>2
          <6> QED
            BY <3>10, <5>2, <6>1 DEF AgentEventAnalysedOnce, NotYetIngested
        <5> QED
          BY <5>1, <5>2
      <4> QED
        BY <3>14, <4>2, <4>3, <4>4
    <3> QED
      BY <3>15, <3>16
  <2>14. ASSUME NEW k \in DOMAIN incidents, analyze_incident(k) PROVE IngestInv'
    BY <2>4, <2>14 DEF analyze_incident
  <2>15. CASE AnalysisDone
    BY <2>4, <2>15 DEF AnalysisDone
  <2>16. CASE UNCHANGED huntVars
    BY <2>4, <2>16 DEF huntVars
  <2> QED
    BY <2>5, <2>6, <2>7, <2>8, <2>9, <2>10, <2>11, <2>12, <2>13, <2>14, <2>15, <2>16
       DEF HuntNext
<1>3. IngestInv => AgentEventAnalysedOnce
  BY DEF IngestInv
<1> QED
  BY <1>1, <1>2, <1>3, PTL DEF HuntSpec

-----------------------------------------------------------------------------
(***************************************************************************)
(* Sorting.                                                                *)
(***************************************************************************)
\* Sorted lists each member of a finite set once, the least one first.
LEMMA SortedLists ==
    ASSUME NEW S, IsFiniteSet(S), NEW R,
           \A s \in S : <<s, s>> \notin R,
           \A s, t \in S : s = t \/ <<s, t>> \in R \/ <<t, s>> \in R,
           \A s, t, u \in S : <<s, t>> \in R /\ <<t, u>> \in R => <<s, u>> \in R
    PROVE  /\ Cardinality(S) \in Nat
           /\ Sorted(S, R) \in [1..Cardinality(S) -> S]
           /\ \A i, k \in 1..Cardinality(S) : Sorted(S, R)[i] = Sorted(S, R)[k] => i = k
           /\ \A s \in S : \E k \in 1..Cardinality(S) : Sorted(S, R)[k] = s
           /\ S # {} => \E s \in S : \A t \in S : <<t, s>> \notin R
<1>1. PICK c \in Nat : c = Cardinality(S)
                       /\ IsFiniteSet(0..(c - 1)) /\ Cardinality(0..(c - 1)) = c
  <2>1. PICK c \in Nat : c = Cardinality(S)
    BY FS_CardinalityType
  <2>2. IsFiniteSet(0..(c - 1)) /\ Cardinality(0..(c - 1)) = c
    <3>1. 0 \in Int /\ c - 1 \in Int
      OBVIOUS
    <3>2. \A b \in Int : /\ IsFiniteSet(0..b)
                         /\ Cardinality(0..b) = IF 0 > b THEN 0 ELSE b - 0 + 1
      BY <3>1, FS_Interval
    <3>3. IsFiniteSet(0..(c - 1))
          /\ Cardinality(0..(c - 1)) = IF 0 > c - 1 THEN 0 ELSE (c - 1) - 0 + 1
      BY <3>1, <3>2
    <3>4. (IF 0 > c - 1 THEN 0 ELSE (c - 1) - 0 + 1) = c
      OBVIOUS
    <3> QED
      BY <3>3, <3>4
  <2> QED
    BY <2>1, <2>2
<1> DEFINE upto(s) == {t \in S : <<t, s>> \in R}
<1>2. ASSUME NEW s \in S
      PROVE  IsFiniteSet(upto(s)) /\ Cardinality(upto(s)) \in 0..(c - 1)
  <2>1. upto(s) \in SUBSET S /\ s \notin upto(s)
    OBVIOUS
  <2>2. /\ IsFiniteSet(upto(s)) /\ Cardinality(upto(s)) <= c
        /\ Cardinality(upto(s)) = c => upto(s) = S
    BY <1>1, <2>1, FS_Subset
  <2>3. Cardinality(upto(s)) \in Nat
    BY <2>2, FS_CardinalityType
  <2> QED
    BY <1>1, <2>1, <2>2, <2>3
<1>3. ASSUME NEW s \in S, NEW t \in S, <<s, t>> \in R
      PROVE  Cardinality(upto(s)) # Cardinality(upto(t))
  <2>1. upto(s) \in SUBSET upto(t) /\ s \in upto(t) /\ s \notin upto(s)
    BY <1>3
  <2> QED
    BY <1>2, <2>1, FS_Subset
<1>4. PICK rank : rank = [s \in S |-> Cardinality(upto(s))]
  OBVIOUS
<1>5. rank \in [S -> 0..(c - 1)] /\ \A s \in S : rank[s] = Cardinality(upto(s))
  BY <1>2, <1>4
<1>6. ASSUME NEW s \in S, NEW t \in S, rank[s] = rank[t] PROVE s = t
  <2>1. Cardinality(upto(s)) = Cardinality(upto(t))
    BY <1>5, <1>6
  <2> HIDE DEF upto
  <2>2. <<s, t>> \notin R /\ <<t, s>> \notin R
    BY <1>3, <2>1
  <2> QED
    BY <2>2
<1>7. rank \in Injection(S, 0..(c - 1))
  BY <1>4, <1>5, <1>6 DEF Injection, IsInjective
<1>8. rank \in Surjection(S, 0..(c - 1))
  BY <1>1, <1>7, FS_Injection
<1>9. ASSUME NEW i \in 1..c PROVE \E s \in S : Cardinality(upto(s)) = i - 1
  <2>1. i - 1 \in 0..(c - 1)
    BY <1>1
  <2> QED
    BY <1>5, <1>8, <2>1 DEF Surjection
<1>10. ASSUME NEW i \in 1..c
       PROVE  Sorted(S, R)[i] \in S /\ Cardinality(upto(Sorted(S, R)[i])) = i - 1
  <2>1. \E s \in S : Cardinality({t \in S : <<t, s>> \in R}) = i - 1
    BY <1>9
  <2>2. \A P : (\E s \in S : Cardinality({t \in S : <<t, s>> \in R}) = i - 1) /\
               P = (CHOOSE s \in S : Cardinality({t \in S : <<t, s>> \in R}) = i - 1) =>
               P \in S /\ Cardinality({t \in S : <<t, P>> \in R}) = i - 1
    OBVIOUS
  <2>3. Sorted(S, R)[i] = CHOOSE s \in S : Cardinality({t \in S : <<t, s>> \in R}) = i - 1
    BY <1>1 DEF Sorted
  <2> QED
    BY <2>1, <2>2, <2>3
<1>11. Sorted(S, R) \in [1..c -> S]
  <2> DEFINE nth(i) == CHOOSE s \in S : Cardinality({t \in S : <<t, s>> \in R}) = i - 1
  <2>0. Sorted(S, R) = [i \in 1..c |-> nth(i)]
    BY <1>1 DEF Sorted
  <2> HIDE DEF nth
  <2>1. Sorted(S, R) = [i \in 1..c |-> Sorted(S, R)[i]]
    BY <2>0
  <2> QED
    BY <1>10, <2>1
<1>12. ASSUME NEW i \in 1..c, NEW k \in 1..c, Sorted(S, R)[i] = Sorted(S, R)[k]
       PROVE  i = k
  <2>1. i - 1 = k - 1
    BY <1>10, <1>12
  <2> QED
    BY <2>1
<1>13. ASSUME NEW s \in S PROVE \E k \in 1..c : Sorted(S, R)[k] = s
  <2>1. PICK k \in 1..c : k - 1 = rank[s]
    <3>1. rank[s] \in 0..(c - 1)
      BY <1>5
    <3>2. rank[s] + 1 \in 1..c /\ (rank[s] + 1) - 1 = rank[s]
      BY <1>1, <3>1
    <3> QED
      BY <3>2
  <2>2. Sorted(S, R)[k] \in S /\ rank[Sorted(S, R)[k]] = rank[s]
    BY <1>5, <1>10, <2>1
  <2> QED
    BY <1>6, <2>2
<1>14. ASSUME S # {} PROVE \E s \in S : \A t \in S : <<t, s>> \notin R
  <2>1. 1 \in 1..c
    BY <1>1, <1>13, <1>14
  <2>2. PICK s \in S : Cardinality(upto(s)) = 0
    <3>1. PICK s \in S : Cardinality(upto(s)) = 1 - 1
      BY <1>9, <2>1
    <3>2. 1 - 1 = 0
      OBVIOUS
    <3> QED
      BY <3>1, <3>2
  <2>3. upto(s) = {}
    BY <1>2, <2>2, FS_EmptySet
  <2> QED
    BY <2>3
<1> QED
  BY <1>1, <1>11, <1>12, <1>13, <1>14

-----------------------------------------------------------------------------
(***************************************************************************)
(* Partial matches, matches and findings.                                  *)
(***************************************************************************)
\* What a step can bind a variable to.
Bound ==
    {None} \cup {get_field(e, Rules[r].bind[i][v]) :
                   e \in Event, r \in RuleIds, i \in Nat, v \in Variable}

Partial == [next : Nat, ids : Seq(Event), started : Nat, last : Nat, score : Nat,
            bindings : [Variable -> Bound]]

RuleMatch == [rule : RuleIds, ids : Seq(Event) \ {<<>>}, first : Nat, last : Nat, score : Nat]

Finding == [rule : RuleIds \cup {0}, ids : Seq(Event) \ {<<>>}, first : Nat, last : Nat,
            score : Nat]

\* The lesser of two numbers is one of them and not above either.
LEMMA MinIs ==
    ASSUME NEW a \in Nat, NEW b \in Nat
    PROVE  Min({a, b}) \in {a, b} /\ Min({a, b}) <= a /\ Min({a, b}) <= b
<1>1. \E x \in {a, b} : \A y \in {a, b} : x <= y
  OBVIOUS
<1> QED
  BY <1>1 DEF Min

\* The greater of two numbers is one of them and not below either.
LEMMA MaxIs ==
    ASSUME NEW a \in Nat, NEW b \in Nat
    PROVE  Max({a, b}) \in {a, b} /\ Max({a, b}) >= a /\ Max({a, b}) >= b
<1>1. \E x \in {a, b} : \A y \in {a, b} : x >= y
  OBVIOUS
<1> QED
  BY <1>1 DEF Max

\* What load_rules ensures of a rule, and the limits: the facts of
\* HuntAssumption that the proofs use.
LEMMA RuleFacts ==
    /\ Len(Rules) \in Nat /\ Len(Rules) > 0
    /\ \A r \in RuleIds :
          /\ Len(Rules[r].steps) \in Nat /\ Len(Rules[r].steps) >= 2
          /\ \A i \in 1..Len(Rules[r].steps) : Rules[r].within[i] \in Nat \cup {None}
          /\ Rules[r].window \in Nat
          /\ \A i \in 1..Len(Rules[r].steps) :
                \A f \in DOMAIN Rules[r].where[i] : Rules[r].where[i][f] \in Variable
          /\ Rules[r].minimum \in Nat /\ Rules[r].base_score \in Nat
    /\ \A e \in Event : Data[e].at \in Nat
    /\ MaxRisk \in Nat /\ MaxRisk > 0 /\ MaxPartials \in Nat /\ RiskBump \in Nat /\ MaxScore \in Nat
<1>1. MaxRisk \in Nat /\ MaxRisk > 0 /\ MaxPartials \in Nat /\ RiskBump \in Nat /\ MaxScore \in Nat
  BY HuntAssumption
<1>2. Len(Rules) \in Nat /\ Len(Rules) > 0
  BY HuntAssumption, EmptySeq, LenProperties
<1> QED
  BY <1>1, <1>2, HuntAssumption

\* A step binds variables to what they can be bound to.
LEMMA BindingsAre ==
    ASSUME NEW r \in RuleIds, NEW i \in Nat, NEW e \in Event, NEW bindings \in [Variable -> Bound]
    PROVE  _apply_bindings(r, i, e, bindings) \in [Variable -> Bound]
<1>1. \A v \in Variable : get_field(e, Rules[r].bind[i][v]) \in Bound /\ bindings[v] \in Bound
  BY DEF Bound
<1> QED
  BY <1>1 DEF _apply_bindings

\* The partial match that an event opens has this event only.
LEMMA OpenedIs ==
    ASSUME NEW r \in RuleIds, NEW e \in Event, NEW score \in Nat
    PROVE  /\ Opened(r, e, score) \in Partial
           /\ Opened(r, e, score).ids = <<e>> /\ Opened(r, e, score).last = Data[e].at
           /\ Opened(r, e, score).next = 2 /\ Opened(r, e, score).started = Data[e].at
           /\ Opened(r, e, score).score = score
           /\ Opened(r, e, score).bindings = _apply_bindings(r, 1, e, Unbound)
<1>1. Unbound \in [Variable -> Bound]
  BY DEF Unbound, Bound
<1>2. PICK b \in [Variable -> Bound] : b = _apply_bindings(r, 1, e, Unbound)
  BY <1>1, BindingsAre
<1>3. PICK ids \in Seq(Event) : ids = <<e>>
  <2>1. <<e>> \in Seq(Event)
    OBVIOUS
  <2> QED
    BY <2>1
<1>4. Data[e].at \in Nat
  BY RuleFacts
<1>5. Opened(r, e, score) = [next |-> 2, ids |-> ids, started |-> Data[e].at,
                             last |-> Data[e].at, score |-> score, bindings |-> b]
  BY <1>2, <1>3 DEF Opened
<1> QED
  BY <1>2, <1>3, <1>4, <1>5 DEF Partial

\* A partial match that an event continues has it as its last event, still starts
\* with the one that opened it, and has the greater of the two scores.
LEMMA AdvancedIs ==
    ASSUME NEW r \in RuleIds, NEW e \in Event, NEW p \in Partial, NEW score \in Nat
    PROVE  /\ Advanced(r, p, e, score) \in Partial
           /\ Advanced(r, p, e, score).next = p.next + 1
           /\ Advanced(r, p, e, score).ids = Append(p.ids, e)
           /\ Advanced(r, p, e, score).started = p.started
           /\ Advanced(r, p, e, score).last = Data[e].at
           /\ Advanced(r, p, e, score).score \in {p.score, score}
           /\ Advanced(r, p, e, score).score >= p.score /\ Advanced(r, p, e, score).score >= score
           /\ Advanced(r, p, e, score).bindings = _apply_bindings(r, p.next, e, p.bindings)
<1>1. PICK ids : ids = Append(p.ids, e) /\ ids \in Seq(Event)
  <2>1. p.ids \in Seq(Event)
    BY DEF Partial
  <2> QED
    BY <2>1, AppendProperties
<1>2. PICK b \in [Variable -> Bound] : b = _apply_bindings(r, p.next, e, p.bindings)
  BY BindingsAre DEF Partial
<1>3. PICK m \in Nat : /\ m = Max({p.score, score}) /\ m \in {p.score, score}
                       /\ m >= p.score /\ m >= score
  BY MaxIs DEF Partial
<1>4. Advanced(r, p, e, score) = [p EXCEPT !.next = p.next + 1, !.ids = ids, !.last = Data[e].at,
                                           !.score = m, !.bindings = b]
  BY <1>1, <1>2, <1>3 DEF Advanced
<1>5. p.next + 1 \in Nat /\ Data[e].at \in Nat
  BY RuleFacts DEF Partial
<1> QED
  BY <1>1, <1>2, <1>3, <1>4, <1>5 DEF Partial

\* What is in the list of partial matches after an event.
LEMMA AliveIs ==
    ASSUME NEW r \in RuleIds, NEW seen \in Seq(Partial), NEW e \in Event, NEW score \in Nat
    PROVE  /\ Alive(r, seen, e, score) \in Seq(Partial)
           /\ \A k \in DOMAIN Alive(r, seen, e, score) :
                 \/ Alive(r, seen, e, score)[k] = Opened(r, e, score) /\ _step_matches(r, 1, e, Unbound)
                 \/ \E i \in DOMAIN seen :
                       \/ Alive(r, seen, e, score)[k] = seen[i]
                       \/ /\ Alive(r, seen, e, score)[k] = Advanced(r, seen[i], e, score)
                          /\ Continues(r, seen[i], e)
                          /\ ~Complete(r, Advanced(r, seen[i], e, score))
           /\ \A s \in Places(r, seen, e, score) : \E k \in DOMAIN Alive(r, seen, e, score) :
                 Alive(r, seen, e, score)[k] = Placed(r, seen, e, score, s)
<1>1. PICK n \in Nat : n = Len(seen) /\ DOMAIN seen = 1..n
  OBVIOUS
<1>2. PICK S : S = Places(r, seen, e, score)
  OBVIOUS
<1>3. ASSUME NEW s \in S
      PROVE  /\ s \in 1..(2 * n + 1)
             /\ Placed(r, seen, e, score, s) \in Partial
             /\ \/ Placed(r, seen, e, score, s) = Opened(r, e, score) /\ _step_matches(r, 1, e, Unbound)
                \/ \E i \in DOMAIN seen :
                      \/ Placed(r, seen, e, score, s) = seen[i]
                      \/ /\ Placed(r, seen, e, score, s) = Advanced(r, seen[i], e, score)
                         /\ Continues(r, seen[i], e)
                         /\ ~Complete(r, Advanced(r, seen[i], e, score))
  <2>1. CASE s = 2 * n + 1 /\ _step_matches(r, 1, e, Unbound)
    <3>1. Placed(r, seen, e, score, s) = Opened(r, e, score)
      BY <1>1, <2>1 DEF Placed
    <3>2. s \in 1..(2 * n + 1)
      BY <2>1
    <3> QED
      BY <2>1, <3>1, <3>2, OpenedIs
  <2>2. CASE \E i \in DOMAIN seen : /\ s = 2 * i - 1 /\ Continues(r, seen[i], e)
                                    /\ ~Complete(r, Advanced(r, seen[i], e, score))
    <3>1. PICK i \in DOMAIN seen : /\ s = 2 * i - 1 /\ Continues(r, seen[i], e)
                                   /\ ~Complete(r, Advanced(r, seen[i], e, score))
      BY <2>2
    <3>2. s \in 1..(2 * n + 1) /\ s # 2 * n + 1 /\ s % 2 # 0 /\ (s + 1) \div 2 = i
      BY <1>1, <3>1
    <3>3. Placed(r, seen, e, score, s) = Advanced(r, seen[i], e, score)
      BY <1>1, <3>2 DEF Placed
    <3>4. seen[i] \in Partial
      OBVIOUS
    <3> QED
      BY <3>1, <3>2, <3>3, <3>4, AdvancedIs
  <2>3. CASE \E i \in DOMAIN seen : s = 2 * i
    <3>1. PICK i \in DOMAIN seen : s = 2 * i
      BY <2>3
    <3>2. s \in 1..(2 * n + 1) /\ s # 2 * n + 1 /\ s % 2 = 0 /\ s \div 2 = i
      BY <1>1, <3>1
    <3>3. Placed(r, seen, e, score, s) = seen[i]
      BY <1>1, <3>2 DEF Placed
    <3> QED
      BY <3>2, <3>3
  <2> QED
    BY <1>1, <1>2, <2>1, <2>2, <2>3 DEF Places
<1>4. IsFiniteSet(S)
  <2>1. S \subseteq 1..(2 * n + 1)
    BY <1>3
  <2>2. IsFiniteSet(1..(2 * n + 1))
    <3>1. 2 * n + 1 \in Int
      OBVIOUS
    <3> QED
      BY <3>1, FS_Interval
  <2> QED
    BY <2>1, <2>2, FS_Subset
<1>5. PICK at : at = [s \in S |-> Placed(r, seen, e, score, s).last]
  OBVIOUS
<1>6. at \in [S -> Nat] /\ \A s \in S : at[s] = Placed(r, seen, e, score, s).last
  BY <1>3, <1>5 DEF Partial
<1>7. PICK R : R = LatestFirst(r, seen, e, score, S)
  OBVIOUS
<1>8. \A s, t \in S : <<s, t>> \in R <=> at[s] > at[t] \/ (at[s] = at[t] /\ s < t)
  BY <1>6, <1>7 DEF LatestFirst
<1>9. PICK c, q : /\ c \in Nat /\ q = Sorted(S, R) /\ q \in [1..c -> S]
                  /\ \A s \in S : \E k \in 1..c : q[k] = s
  <2>0. \A s \in S : s \in Nat /\ at[s] \in Nat
    BY <1>3, <1>6
  <2>1. \A s \in S : <<s, s>> \notin R
    BY <1>8, <2>0
  <2>2. ASSUME NEW s \in S, NEW t \in S
        PROVE  s = t \/ <<s, t>> \in R \/ <<t, s>> \in R
    <3>1. s \in Nat /\ t \in Nat /\ at[s] \in Nat /\ at[t] \in Nat
      BY <2>0
    <3>2. s = t \/ (at[s] > at[t] \/ (at[s] = at[t] /\ s < t))
                \/ (at[t] > at[s] \/ (at[t] = at[s] /\ t < s))
      BY <3>1
    <3> QED
      BY <1>8, <3>2
  <2>3. \A s, t, u \in S : <<s, t>> \in R /\ <<t, u>> \in R => <<s, u>> \in R
    BY <1>8, <2>0
  <2>4. /\ Cardinality(S) \in Nat /\ Sorted(S, R) \in [1..Cardinality(S) -> S]
        /\ \A s \in S : \E k \in 1..Cardinality(S) : Sorted(S, R)[k] = s
    BY <1>4, <2>1, <2>2, <2>3, SortedLists
  <2> QED
    BY <2>4
<1>10. Alive(r, seen, e, score) = [k \in 1..c |-> Placed(r, seen, e, score, q[k])]
  BY <1>2, <1>7, <1>9 DEF Alive
<1>11. Alive(r, seen, e, score) \in [1..c -> Partial]
  BY <1>3, <1>9, <1>10
<1>12. Alive(r, seen, e, score) \in Seq(Partial)
  <2>1. PICK a : a = Alive(r, seen, e, score) /\ a \in [1..c -> Partial]
    BY <1>11
  <2> QED
    BY <1>9, <2>1, SeqDef
<1>13. \A s \in S : \E k \in DOMAIN Alive(r, seen, e, score) :
          Alive(r, seen, e, score)[k] = Placed(r, seen, e, score, s)
  BY <1>9, <1>10
<1>14. \A k \in DOMAIN Alive(r, seen, e, score) :
          \/ Alive(r, seen, e, score)[k] = Opened(r, e, score) /\ _step_matches(r, 1, e, Unbound)
          \/ \E i \in DOMAIN seen :
                \/ Alive(r, seen, e, score)[k] = seen[i]
                \/ /\ Alive(r, seen, e, score)[k] = Advanced(r, seen[i], e, score)
                   /\ Continues(r, seen[i], e)
                   /\ ~Complete(r, Advanced(r, seen[i], e, score))
  BY <1>3, <1>9, <1>10
<1> QED
  BY <1>2, <1>12, <1>13, <1>14

\* Each partial match that the event completes is among the matches.
CompletesAll(r, seen, known, e, score, new) ==
    \A i \in DOMAIN seen : Completes(r, seen[i], known, e, score) =>
        \E m \in ToSet(new) : m.rule = r /\ m.ids = Append(seen[i].ids, e)

\* Each match is of a partial match that the event completes.
ComesFrom(r, seen, known, e, score, new) ==
    \A k \in DOMAIN new :
        \E i \in DOMAIN seen :
           /\ Completes(r, seen[i], known, e, score)
           /\ new[k] = [rule |-> r, ids |-> Append(seen[i].ids, e),
                        first |-> seen[i].started, last |-> Data[e].at,
                        score |-> Advanced(r, seen[i], e, score).score]

\* No two matches are of the same events.
OfOtherEvents(new) == \A h, k \in DOMAIN new : h # k => new[h].ids # new[k].ids

\* The matches an event completes: each from a partial match of its own.
LEMMA CompletedIs ==
    ASSUME NEW r \in RuleIds, NEW seen \in Seq(Partial), NEW known, NEW e \in Event,
           NEW score \in Nat
    PROVE  /\ Completed(r, seen, known, e, score) \in Seq(RuleMatch)
           /\ ComesFrom(r, seen, known, e, score, Completed(r, seen, known, e, score))
           /\ OfOtherEvents(Completed(r, seen, known, e, score))
           /\ CompletesAll(r, seen, known, e, score, Completed(r, seen, known, e, score))
<1>1. PICK n \in Nat : n = Len(seen) /\ DOMAIN seen = 1..n
  OBVIOUS
<1> DEFINE S == {i \in DOMAIN seen :
                    /\ Completes(r, seen[i], known, e, score)
                    /\ \A h \in 1..(i - 1) :
                          Completes(r, seen[h], known, e, score) => seen[h].ids # seen[i].ids}
           R == {x \in S \X S : x[1] < x[2]}
           M(i) == [rule |-> r, ids |-> Append(seen[i].ids, e),
                    first |-> seen[i].started, last |-> Data[e].at,
                    score |-> Advanced(r, seen[i], e, score).score]
<1>2. ASSUME NEW i \in S
      PROVE  i \in 1..n /\ seen[i] \in Partial /\ M(i) \in RuleMatch
  <2>1. i \in 1..n /\ seen[i] \in Partial
    BY <1>1
  <2>2. PICK ids : ids = Append(seen[i].ids, e) /\ ids \in Seq(Event) \ {<<>>}
    <3>1. PICK q \in Seq(Event) : q = seen[i].ids
      BY <2>1 DEF Partial
    <3>2. Append(q, e) \in Seq(Event) /\ Append(q, e) # <<>>
      BY AppendProperties
    <3> QED
      BY <3>1, <3>2
  <2>3. /\ seen[i].started \in Nat /\ Data[e].at \in Nat
        /\ Advanced(r, seen[i], e, score).score \in Nat
    BY <2>1, RuleFacts, AdvancedIs DEF Partial
  <2> QED
    BY <2>1, <2>2, <2>3 DEF RuleMatch
<1>3. ASSUME NEW i \in S, NEW k \in S, i # k PROVE seen[i].ids # seen[k].ids
  <2>1. i \in Nat /\ k \in Nat /\ i >= 1 /\ k >= 1
    BY <1>2
  <2>2. i \in 1..(k - 1) \/ k \in 1..(i - 1)
    BY <1>3, <2>1
  <2> QED
    BY <2>2
<1>4. IsFiniteSet(S)
  <2>1. IsFiniteSet(1..n)
    BY FS_Interval
  <2>2. S \subseteq 1..n
    BY <1>2
  <2> QED
    BY <2>1, <2>2, FS_Subset
<1>6. PICK c, q : /\ c \in Nat /\ q = Sorted(S, R) /\ q \in [1..c -> S]
                  /\ \A i, k \in 1..c : q[i] = q[k] => i = k
                  /\ \A i \in S : \E k \in 1..c : q[k] = i
  <2>0. \A s \in S : s \in Nat
    BY <1>2
  <2>1. \A s, t \in S : <<s, t>> \in R <=> s < t
    OBVIOUS
  <2> HIDE DEF S, R
  <2>2. \A s \in S : <<s, s>> \notin R
    BY <2>0, <2>1
  <2>3. ASSUME NEW s \in S, NEW t \in S
        PROVE  s = t \/ <<s, t>> \in R \/ <<t, s>> \in R
    <3>1. s \in Nat /\ t \in Nat
      BY <2>0
    <3>2. s = t \/ s < t \/ t < s
      BY <3>1
    <3> QED
      BY <2>1, <3>2
  <2>4. \A s, t, u \in S : <<s, t>> \in R /\ <<t, u>> \in R => <<s, u>> \in R
    BY <2>0, <2>1
  <2> QED
    BY <1>4, <2>2, <2>3, <2>4, SortedLists
<1>7. Completed(r, seen, known, e, score) = [k \in 1..c |-> M(q[k])]
  <2>1. ASSUME NEW i \in S
        PROVE  LET p == Advanced(r, seen[i], e, score)
               IN  [rule |-> r, ids |-> p.ids, first |-> p.started, last |-> p.last,
                    score |-> p.score] = M(i)
    <3>1. PICK p \in Partial : p = seen[i]
      BY <1>2
    <3> HIDE DEF S
    <3>2. /\ Advanced(r, p, e, score).ids = Append(p.ids, e)
          /\ Advanced(r, p, e, score).started = p.started
          /\ Advanced(r, p, e, score).last = Data[e].at
      BY <3>1, AdvancedIs
    <3> QED
      BY <3>1, <3>2, Zenon
  <2>2. DOMAIN q = 1..c /\ \A k \in 1..c : q[k] \in S
    BY <1>6
  <2>3. Completed(r, seen, known, e, score) =
           [k \in DOMAIN q |-> LET p == Advanced(r, seen[q[k]], e, score)
                               IN  [rule |-> r, ids |-> p.ids, first |-> p.started,
                                    last |-> p.last, score |-> p.score]]
    BY <1>6 DEF Completed
  <2> HIDE DEF S, M
  <2> QED
    BY <2>1, <2>2, <2>3
<1>8. \A k \in 1..c : q[k] \in S
  BY <1>6
<1>9. Completed(r, seen, known, e, score) \in Seq(RuleMatch)
  <2>1. PICK a : a = Completed(r, seen, known, e, score) /\ a \in [1..c -> RuleMatch]
    <3> HIDE DEF S, M
    <3> QED
      BY <1>2, <1>7, <1>8
  <2> QED
    BY <1>6, <2>1, SeqDef
<1>10. DOMAIN Completed(r, seen, known, e, score) = 1..c
  BY <1>7
<1>11. ASSUME NEW h \in 1..c, NEW k \in 1..c, h # k
       PROVE  Append(seen[q[h]].ids, e) # Append(seen[q[k]].ids, e)
  <2>1. q[h] \in S /\ q[k] \in S /\ q[h] # q[k]
    BY <1>6, <1>11
  <2>2. seen[q[h]].ids # seen[q[k]].ids
    BY <1>3, <2>1
  <2>3. PICK a \in Seq(Event), b \in Seq(Event) : a = seen[q[h]].ids /\ b = seen[q[k]].ids
    <3> HIDE DEF S
    <3>1. seen[q[h]] \in Partial /\ seen[q[k]] \in Partial
      BY <1>2, <2>1
    <3> QED
      BY <3>1 DEF Partial
  <2>4. ASSUME Append(a, e) = Append(b, e) PROVE a = b
    BY <2>4, AppendInjective
  <2> QED
    BY <2>2, <2>3, <2>4
<1>12. \A k \in 1..c : Completed(r, seen, known, e, score)[k] = M(q[k])
  <2> HIDE DEF M
  <2> QED
    BY <1>7
<1>13. \A k \in DOMAIN Completed(r, seen, known, e, score) :
          \E i \in DOMAIN seen : Completes(r, seen[i], known, e, score)
                                /\ Completed(r, seen, known, e, score)[k] = M(i)
  <2>1. \A i \in S : i \in DOMAIN seen /\ Completes(r, seen[i], known, e, score)
    OBVIOUS
  <2> HIDE DEF S, M
  <2> QED
    BY <1>8, <1>10, <1>12, <2>1
<1>14. \A h, k \in DOMAIN Completed(r, seen, known, e, score) : h # k =>
          Completed(r, seen, known, e, score)[h].ids # Completed(r, seen, known, e, score)[k].ids
  <2>1. \A i : M(i).ids = Append(seen[i].ids, e)
    OBVIOUS
  <2> HIDE DEF M
  <2>2. PICK a : a = Completed(r, seen, known, e, score)
    OBVIOUS
  <2>3. \A k \in 1..c : a[k].ids = Append(seen[q[k]].ids, e)
    BY <1>12, <2>1, <2>2
  <2>4. ASSUME NEW h \in 1..c, NEW k \in 1..c, h # k PROVE a[h].ids # a[k].ids
    <3>1. Append(seen[q[h]].ids, e) # Append(seen[q[k]].ids, e)
      BY <1>11, <2>4
    <3>2. a[h].ids = Append(seen[q[h]].ids, e) /\ a[k].ids = Append(seen[q[k]].ids, e)
      BY <2>3
    <3> QED
      BY <3>1, <3>2
  <2> QED
    BY <1>10, <2>2, <2>4
\* Of the copies of a partial match the first one is taken.
<1>15. ASSUME NEW i \in DOMAIN seen, Completes(r, seen[i], known, e, score)
       PROVE  \E m \in ToSet(Completed(r, seen, known, e, score)) :
                 m.rule = r /\ m.ids = Append(seen[i].ids, e)
  <2>1. PICK T : T = {h \in DOMAIN seen :
                        Completes(r, seen[h], known, e, score) /\ seen[h].ids = seen[i].ids}
    OBVIOUS
  <2>2. PICK L : L = {x \in (1..n) \X (1..n) : x[1] < x[2]}
    OBVIOUS
  <2>3. PICK h \in T : \A t \in T : <<t, h>> \notin L
    <3>0. T \subseteq 1..n /\ T # {} /\ \A s \in T : s \in Nat
      BY <1>1, <1>15, <2>1
    <3>1. IsFiniteSet(T)
      <4>1. IsFiniteSet(1..n)
        BY FS_Interval
      <4> QED
        BY <3>0, <4>1, FS_Subset
    <3>2. \A s, t \in T : <<s, t>> \in L <=> s < t
      BY <2>2, <3>0
    <3>3. \A s \in T : <<s, s>> \notin L
      BY <3>0, <3>2
    <3>4. ASSUME NEW s \in T, NEW t \in T PROVE s = t \/ <<s, t>> \in L \/ <<t, s>> \in L
      <4>1. s \in Nat /\ t \in Nat
        BY <3>0
      <4> QED
        BY <3>2, <4>1
    <3>5. \A s, t, u \in T : <<s, t>> \in L /\ <<t, u>> \in L => <<s, u>> \in L
      BY <3>0, <3>2
    <3> QED
      BY <3>0, <3>1, <3>3, <3>4, <3>5, SortedLists
  <2>4. h \in S
    <3>1. h \in 1..n /\ Completes(r, seen[h], known, e, score) /\ seen[h].ids = seen[i].ids
      BY <1>1, <2>1, <2>3
    <3>2. ASSUME NEW g \in 1..(h - 1), Completes(r, seen[g], known, e, score)
          PROVE  seen[g].ids # seen[h].ids
      <4>1. g \in 1..n /\ g < h /\ <<g, h>> \in L
        BY <2>2, <3>1
      <4>2. g \notin T
        BY <2>3, <4>1
      <4> QED
        BY <1>1, <2>1, <3>1, <3>2, <4>1, <4>2
    <3> QED
      BY <1>1, <3>1, <3>2
  <2>5. seen[h].ids = seen[i].ids
    BY <2>1, <2>3
  <2> HIDE DEF S
  <2>6. PICK k \in 1..c : q[k] = h
    BY <1>6, <2>4
  <2>7. M(h).rule = r /\ M(h).ids = Append(seen[h].ids, e)
    OBVIOUS
  <2> HIDE DEF M
  <2>8. PICK new : new = Completed(r, seen, known, e, score)
    OBVIOUS
  <2>9. k \in DOMAIN new /\ new[k] = M(h)
    BY <1>10, <1>12, <2>6, <2>8
  <2>10. new[k] \in ToSet(new)
    BY <2>9 DEF ToSet
  <2> QED
    BY <2>5, <2>7, <2>8, <2>9, <2>10
<1>16. CompletesAll(r, seen, known, e, score, Completed(r, seen, known, e, score))
  BY <1>15, Zenon DEF CompletesAll
<1>17. ComesFrom(r, seen, known, e, score, Completed(r, seen, known, e, score))
  BY <1>13, Zenon DEF ComesFrom
<1>18. OfOtherEvents(Completed(r, seen, known, e, score))
  BY <1>14, Zenon DEF OfOtherEvents
<1> QED
  BY <1>9, <1>16, <1>17, <1>18

\* What subsumes a match that subsumes a third one subsumes the third one too.
LEMMA SubsumesOn ==
    ASSUME NEW l, NEW m, NEW n, Subsumes(l, m), Subsumes(m, n)
    PROVE  Subsumes(l, n)
BY Zenon DEF Subsumes

\* What _suppress_subsumed keeps: some of the matches, none of them twice, and
\* of each match itself or one that subsumes it.
LEMMA SuppressedIs ==
    ASSUME NEW matches \in Seq(RuleMatch)
    PROVE  /\ _suppress_subsumed(matches) \in Seq(RuleMatch)
           /\ \E at \in [DOMAIN _suppress_subsumed(matches) -> DOMAIN matches] :
                 /\ \A k \in DOMAIN _suppress_subsumed(matches) :
                       _suppress_subsumed(matches)[k] = matches[at[k]]
                 /\ \A h, k \in DOMAIN _suppress_subsumed(matches) : at[h] = at[k] => h = k
           /\ \A i \in DOMAIN matches : \E k \in DOMAIN _suppress_subsumed(matches) :
                 \/ _suppress_subsumed(matches)[k] = matches[i]
                 \/ Subsumes(_suppress_subsumed(matches)[k], matches[i])
<1>1. PICK n \in Nat : n = Len(matches) /\ DOMAIN matches = 1..n
  OBVIOUS
<1> DEFINE S == {i \in DOMAIN matches :
                    \A h \in DOMAIN matches :
                       <<h, i>> \in Before(matches) => ~Subsumes(matches[h], matches[i])}
<1>2. S \subseteq 1..n
  BY <1>1
<1>4. PICK len, risk : /\ len = [i \in 1..n |-> Len(matches[i].ids)]
                       /\ risk = [i \in 1..n |-> Rules[matches[i].rule].base_score]
  OBVIOUS
<1>5. /\ len \in [1..n -> Nat] /\ risk \in [1..n -> Nat]
      /\ \A i \in 1..n : len[i] = Len(matches[i].ids) /\ risk[i] = Rules[matches[i].rule].base_score
  <2>1. ASSUME NEW i \in 1..n
        PROVE  Len(matches[i].ids) \in Nat /\ Rules[matches[i].rule].base_score \in Nat
    <3>1. matches[i] \in RuleMatch
      BY <1>1
    <3>2. matches[i].ids \in Seq(Event) /\ matches[i].rule \in RuleIds
      BY <3>1 DEF RuleMatch
    <3> QED
      BY <3>2, RuleFacts, LenProperties
  <2> QED
    BY <1>4, <2>1
<1> DEFINE Prec(s, t) == \/ len[s] > len[t]
                         \/ len[s] = len[t] /\ risk[s] > risk[t]
                         \/ len[s] = len[t] /\ risk[s] = risk[t] /\ s < t
<1>6. \A s, t \in 1..n : <<s, t>> \in Before(matches) <=> Prec(s, t)
  <2> SUFFICES ASSUME NEW s \in 1..n, NEW t \in 1..n
               PROVE  <<s, t>> \in Before(matches) <=> Prec(s, t)
    OBVIOUS
  <2>1. Longer(matches[s], matches[t]) <=>
            len[s] > len[t] \/ (len[s] = len[t] /\ risk[s] > risk[t])
    BY <1>5 DEF Longer
  <2>2. Longer(matches[t], matches[s]) <=>
            len[t] > len[s] \/ (len[t] = len[s] /\ risk[t] > risk[s])
    BY <1>5 DEF Longer
  <2>3. <<s, t>> \in Before(matches) <=>
            \/ Longer(matches[s], matches[t])
            \/ ~Longer(matches[t], matches[s]) /\ s < t
    BY <1>1 DEF Before
  <2>4. len[s] \in Nat /\ len[t] \in Nat /\ risk[s] \in Nat /\ risk[t] \in Nat
    BY <1>5
  <2> QED
    BY <2>1, <2>2, <2>3, <2>4
<1> HIDE DEF S
<1>7. PICK R : R = Before(matches)
  OBVIOUS
\* The order is total on the matches, and so on any of them.
<1>8. ASSUME NEW T, T \subseteq 1..n
      PROVE  /\ IsFiniteSet(T)
             /\ \A s \in T : <<s, s>> \notin R
             /\ \A s, t \in T : s = t \/ <<s, t>> \in R \/ <<t, s>> \in R
             /\ \A s, t, u \in T : <<s, t>> \in R /\ <<t, u>> \in R => <<s, u>> \in R
  <2>0. \A s \in T : s \in 1..n /\ s \in Nat /\ len[s] \in Nat /\ risk[s] \in Nat
    BY <1>5, <1>8
  <2>1. IsFiniteSet(T)
    <3>1. IsFiniteSet(1..n)
      BY FS_Interval
    <3> QED
      BY <1>8, <3>1, FS_Subset
  <2>2. \A s, t \in T : <<s, t>> \in R <=> Prec(s, t)
    BY <1>6, <1>7, <2>0
  <2>3. ASSUME NEW s \in T PROVE <<s, s>> \notin R
    <3>1. ~Prec(s, s)
      BY <2>0
    <3> QED
      BY <2>2, <3>1
  <2>4. ASSUME NEW s \in T, NEW t \in T
        PROVE  s = t \/ <<s, t>> \in R \/ <<t, s>> \in R
    <3>1. /\ s \in Nat /\ len[s] \in Nat /\ risk[s] \in Nat
          /\ t \in Nat /\ len[t] \in Nat /\ risk[t] \in Nat
      BY <2>0
    <3>2. s = t \/ Prec(s, t) \/ Prec(t, s)
      BY <3>1
    <3> QED
      BY <2>2, <3>2
  <2>5. ASSUME NEW s \in T, NEW t \in T, NEW u \in T, <<s, t>> \in R, <<t, u>> \in R
        PROVE  <<s, u>> \in R
    <3>1. /\ s \in Nat /\ len[s] \in Nat /\ risk[s] \in Nat
          /\ t \in Nat /\ len[t] \in Nat /\ risk[t] \in Nat
          /\ u \in Nat /\ len[u] \in Nat /\ risk[u] \in Nat
      BY <2>0
    <3>2. Prec(s, t) /\ Prec(t, u)
      BY <2>2, <2>5
    <3>3. Prec(s, u)
      BY <3>1, <3>2
    <3> QED
      BY <2>2, <3>3
  <2> QED
    BY <2>1, <2>3, <2>4, <2>5
<1>9. PICK c, q : /\ c \in Nat /\ q = Sorted(S, R) /\ q \in [1..c -> S]
                  /\ \A i, k \in 1..c : q[i] = q[k] => i = k
                  /\ \A s \in S : \E k \in 1..c : q[k] = s
  <2>1. /\ IsFiniteSet(S)
        /\ \A s \in S : <<s, s>> \notin R
        /\ \A s, t \in S : s = t \/ <<s, t>> \in R \/ <<t, s>> \in R
        /\ \A s, t, u \in S : <<s, t>> \in R /\ <<t, u>> \in R => <<s, u>> \in R
    BY <1>2, <1>8
  <2>2. /\ Cardinality(S) \in Nat
        /\ Sorted(S, R) \in [1..Cardinality(S) -> S]
        /\ \A i, k \in 1..Cardinality(S) : Sorted(S, R)[i] = Sorted(S, R)[k] => i = k
        /\ \A s \in S : \E k \in 1..Cardinality(S) : Sorted(S, R)[k] = s
    BY <2>1, SortedLists
  <2> QED
    BY <2>2
<1>10. q \in [1..c -> DOMAIN matches]
  BY <1>1, <1>2, <1>9
<1>11. _suppress_subsumed(matches) = [k \in 1..c |-> matches[q[k]]]
  BY <1>7, <1>9 DEF _suppress_subsumed, S
<1>12. PICK a : a = _suppress_subsumed(matches)
  OBVIOUS
<1>13. a \in [1..c -> RuleMatch] /\ DOMAIN a = 1..c /\ \A k \in 1..c : a[k] = matches[q[k]]
  BY <1>10, <1>11, <1>12
<1>14. a \in Seq(RuleMatch)
  BY <1>9, <1>13, SeqDef
<1>15. \E at \in [DOMAIN a -> DOMAIN matches] :
          /\ \A k \in DOMAIN a : a[k] = matches[at[k]]
          /\ \A h, k \in DOMAIN a : at[h] = at[k] => h = k
  <2>1. q \in [DOMAIN a -> DOMAIN matches]
    BY <1>10, <1>13
  <2> WITNESS q \in [DOMAIN a -> DOMAIN matches]
  <2> QED
    BY <1>9, <1>13
\* The first of the matches that subsume a match is kept.
<1>16. ASSUME NEW i \in DOMAIN matches
       PROVE  \E k \in DOMAIN a : a[k] = matches[i] \/ Subsumes(a[k], matches[i])
  <2>1. CASE i \in S
    <3>1. PICK k \in 1..c : q[k] = i
      BY <1>9, <2>1
    <3> QED
      BY <1>13, <3>1
  <2>2. CASE i \notin S
    <3>1. PICK T : T = {h \in 1..n : <<h, i>> \in R /\ Subsumes(matches[h], matches[i])}
      OBVIOUS
    <3>2. T # {} /\ T \subseteq 1..n
      BY <1>1, <1>7, <2>2, <3>1 DEF S
    <3>3. PICK h \in T : \A t \in T : <<t, h>> \notin R
      BY <1>8, <3>2, SortedLists
    <3>4. h \in 1..n /\ <<h, i>> \in R /\ Subsumes(matches[h], matches[i])
      BY <3>1, <3>3
    <3>5. ASSUME NEW g \in 1..n, <<g, h>> \in R, Subsumes(matches[g], matches[h])
          PROVE  FALSE
      <4>1. Subsumes(matches[g], matches[i])
        BY <3>4, <3>5, SubsumesOn
      <4>2. <<g, i>> \in R
        BY <1>1, <1>8, <3>4, <3>5
      <4> QED
        BY <3>1, <3>3, <3>5, <4>1, <4>2
    <3>6. h \in S
      BY <1>1, <1>7, <3>4, <3>5 DEF S
    <3>7. PICK k \in 1..c : q[k] = h
      BY <1>9, <3>6
    <3> QED
      BY <1>13, <3>4, <3>7
  <2> QED
    BY <2>1, <2>2
<1> QED
  BY <1>12, <1>14, <1>15, <1>16

-----------------------------------------------------------------------------
(***************************************************************************)
(* The meaning of a rule, of a part of its steps.                          *)
(***************************************************************************)
OnTheWay(r, ids) ==
    /\ IsInjective(ids)
    /\ \A i \in 1..Len(ids) :
          /\ Data[ids[i]].kind \in Rules[r].steps[i]
          /\ Data[ids[i]].asset = Data[ids[1]].asset
          /\ Data[ids[i]].at \in Data[ids[1]].at .. Data[ids[1]].at + Rules[r].window
          /\ \A f \in DOMAIN Rules[r].where[i] :
                LatestBinding(r, ids, i, Rules[r].where[i][f], Data[ids[i]].field[f])
    /\ \A i \in 2..Len(ids) :
          Rules[r].within[i] # None => Data[ids[i]].at <= Data[ids[i - 1]].at + Rules[r].within[i]

\* What the run of events leaves the variable bound to.
Leaves(r, ids, v, value) ==
    \/ LatestBinding(r, ids, Len(ids) + 1, v, value)
    \/ value = None /\ \A k \in 1..Len(ids) : ~Binds(r, k, ids[k], v)

\* One of the events was given the score.
Scored(ids, score) == \E x \in ToSet(ids) : score \in assessed[x]

SoundPartial(r, g, p) ==
    /\ OnTheWay(r, p.ids) /\ p.ids # <<>> /\ ToSet(p.ids) \subseteq stored
    /\ p.next = Len(p.ids) + 1 /\ p.next <= Len(Rules[r].steps)
    /\ Data[p.ids[1]].asset = g
    /\ \A v \in Variable : Leaves(r, p.ids, v, p.bindings[v])
    /\ p.started = Data[p.ids[1]].at
    /\ p.last = Data[p.ids[Len(p.ids)]].at
    /\ Scored(p.ids, p.score)

\* What is bound before a step depends on the earlier events only.
LEMMA LatestSame ==
    ASSUME NEW r, NEW i \in Nat, NEW a, NEW b, \A k \in 1..(i - 1) : a[k] = b[k],
           NEW v, NEW value, LatestBinding(r, a, i, v, value)
    PROVE  LatestBinding(r, b, i, v, value)
<1>1. PICK j \in 1..(i - 1) :
         /\ Binds(r, j, a[j], v) /\ value = Data[a[j]].field[Rules[r].bind[j][v]]
         /\ \A k \in (j + 1)..(i - 1) : ~Binds(r, k, a[k], v)
  BY DEF LatestBinding
<1>2. \A k \in (j + 1)..(i - 1) : k \in 1..(i - 1)
  BY <1>1
<1>3. a[j] = b[j] /\ \A k \in (j + 1)..(i - 1) : a[k] = b[k]
  BY <1>1, <1>2
<1> QED
  BY <1>1, <1>3 DEF LatestBinding

\* A variable that is bound is bound to one value.
LEMMA LatestOne ==
    ASSUME NEW r, NEW i \in Nat, NEW ids, NEW v, NEW value, NEW other,
           LatestBinding(r, ids, i, v, value)
    PROVE  /\ LatestBinding(r, ids, i, v, other) => value = other
           /\ value # None
<1>1. PICK j \in 1..(i - 1) :
         /\ Binds(r, j, ids[j], v) /\ value = Data[ids[j]].field[Rules[r].bind[j][v]]
         /\ \A k \in (j + 1)..(i - 1) : ~Binds(r, k, ids[k], v)
  BY DEF LatestBinding
<1>2. value # None
  BY <1>1 DEF Binds, get_field
<1>3. ASSUME LatestBinding(r, ids, i, v, other) PROVE value = other
  <2>1. PICK h \in 1..(i - 1) :
           /\ Binds(r, h, ids[h], v) /\ other = Data[ids[h]].field[Rules[r].bind[h][v]]
           /\ \A k \in (h + 1)..(i - 1) : ~Binds(r, k, ids[k], v)
    BY <1>3 DEF LatestBinding
  <2>2. h = j \/ h \in (j + 1)..(i - 1) \/ j \in (h + 1)..(i - 1)
    <3>1. \A a, b \in 1..(i - 1) : a = b \/ a \in (b + 1)..(i - 1) \/ b \in (a + 1)..(i - 1)
      OBVIOUS
    <3> QED
      BY <3>1, <1>1, <2>1, Zenon
  <2>3. h = j
    BY <1>1, <2>1, <2>2
  <2> QED
    BY <1>1, <2>1, <2>3
<1> QED
  BY <1>2, <1>3

\* The step that an event answers leaves the variables as it binds them.
LEMMA LeavesOn ==
    ASSUME NEW r, NEW n \in Nat, NEW a, NEW b, Len(a) = n, Len(b) = n + 1,
           \A k \in 1..n : b[k] = a[k],
           NEW bindings, NEW v \in Variable, Leaves(r, a, v, bindings[v])
    PROVE  Leaves(r, b, v, _apply_bindings(r, n + 1, b[n + 1], bindings)[v])
<1>1. PICK value : value = _apply_bindings(r, n + 1, b[n + 1], bindings)[v]
  OBVIOUS
<1>2. value = IF Binds(r, n + 1, b[n + 1], v)
              THEN Data[b[n + 1]].field[Rules[r].bind[n + 1][v]] ELSE bindings[v]
  BY <1>1 DEF _apply_bindings, get_field
<1>3. /\ (n + 2) - 1 = n + 1 /\ (n + 1) + 1 = n + 2 /\ n + 1 \in 1..(n + 1) /\ (n + 1) - 1 = n
      /\ \A k : k \notin (n + 2)..(n + 1)
  OBVIOUS
<1>4. CASE Binds(r, n + 1, b[n + 1], v)
  <2>1. LatestBinding(r, b, n + 2, v, value)
    BY <1>2, <1>3, <1>4 DEF LatestBinding
  <2> QED
    BY <1>1, <1>3, <2>1 DEF Leaves
<1>5. CASE ~Binds(r, n + 1, b[n + 1], v)
  <2>1. value = bindings[v]
    BY <1>2, <1>5
  <2>2. CASE LatestBinding(r, a, n + 1, v, value)
    <3>1. LatestBinding(r, b, n + 1, v, value)
      BY <1>3, <2>2, LatestSame
    <3>2. PICK j \in 1..n :
             /\ Binds(r, j, b[j], v) /\ value = Data[b[j]].field[Rules[r].bind[j][v]]
             /\ \A k \in (j + 1)..n : ~Binds(r, k, b[k], v)
      BY <1>3, <3>1 DEF LatestBinding
    <3>3. j \in 1..(n + 1) /\ \A k \in (j + 1)..(n + 1) : k \in (j + 1)..n \/ k = n + 1
      BY <3>2
    <3>4. \A k \in (j + 1)..(n + 1) : ~Binds(r, k, b[k], v)
      BY <1>5, <3>2, <3>3
    <3>5. LatestBinding(r, b, n + 2, v, value)
      BY <1>3, <3>2, <3>3, <3>4 DEF LatestBinding
    <3> QED
      BY <1>1, <1>3, <3>5 DEF Leaves
  <2>3. CASE value = None /\ \A k \in 1..n : ~Binds(r, k, a[k], v)
    <3>1. \A k \in 1..(n + 1) : k \in 1..n \/ k = n + 1
      OBVIOUS
    <3>2. \A k \in 1..(n + 1) : ~Binds(r, k, b[k], v)
      BY <1>5, <2>3, <3>1
    <3> QED
      BY <1>1, <2>3, <3>2 DEF Leaves
  <2> QED
    BY <2>1, <2>2, <2>3 DEF Leaves
<1> QED
  BY <1>4, <1>5

\* An event that answers a rule's first step opens a partial match that is on
\* the way.
LEMMA OpenedSound ==
    ASSUME NEW r \in RuleIds, NEW e \in Event, e \in stored, NEW score \in Nat,
           score \in assessed[e], _step_matches(r, 1, e, Unbound)
    PROVE  SoundPartial(r, Group(e), Opened(r, e, score))
<1>1. PICK ids : ids = <<e>>
  OBVIOUS
<1>2. /\ ids \in Seq(Event) /\ Len(ids) = 1 /\ DOMAIN ids = 1..1 /\ ids[1] = e /\ ids # <<>>
      /\ \A i \in 1..1 : i = 1
  BY <1>1
<1>3. Data[e].kind \in Rules[r].steps[1] /\ DOMAIN Rules[r].where[1] = {}
  <2>1. 1 \in 1..Len(Rules[r].steps)
    BY RuleFacts
  <2>2. \A f \in DOMAIN Rules[r].where[1] : Rules[r].where[1][f] \in Variable
    BY <2>1, RuleFacts
  <2>3. \A f \in DOMAIN Rules[r].where[1] : Unbound[Rules[r].where[1][f]] = None
    BY <2>2 DEF Unbound
  <2> QED
    BY <2>3 DEF _step_matches, Fits
<1>4. Data[e].at \in Data[e].at .. Data[e].at + Rules[r].window
  <2>1. Data[e].at \in Nat /\ Rules[r].window \in Nat
    BY RuleFacts
  <2> QED
    BY <2>1
<1>5. OnTheWay(r, ids)
  <2>1. \A i \in 2..1 : FALSE
    OBVIOUS
  <2> QED
    BY <1>2, <1>3, <1>4, <2>1 DEF OnTheWay, IsInjective
<1>6. ToSet(ids) = {e}
  BY <1>2 DEF ToSet
<1>7. /\ Opened(r, e, score).ids = ids /\ Opened(r, e, score).next = 2
      /\ Opened(r, e, score).started = Data[e].at /\ Opened(r, e, score).last = Data[e].at
      /\ Opened(r, e, score).score = score
      /\ Opened(r, e, score).bindings = _apply_bindings(r, 1, e, Unbound)
  BY <1>1, OpenedIs
<1>8. ASSUME NEW v \in Variable PROVE Leaves(r, ids, v, _apply_bindings(r, 1, e, Unbound)[v])
  <2>1. PICK none : none = <<>> /\ Len(none) = 0 /\ \A k : k \notin 1..0
    BY EmptySeq
  <2>2. Leaves(r, none, v, Unbound[v])
    BY <2>1 DEF Leaves, Unbound
  <2>3. 0 + 1 = 1
    OBVIOUS
  <2>4. Leaves(r, ids, v, _apply_bindings(r, 0 + 1, ids[0 + 1], Unbound)[v])
    BY <1>2, <2>1, <2>2, <2>3, LeavesOn
  <2> QED
    BY <1>2, <2>3, <2>4
<1>9. Scored(ids, score)
  BY <1>6 DEF Scored
<1> QED
  <2>1. 2 = Len(ids) + 1 /\ 2 <= Len(Rules[r].steps)
    BY <1>2, RuleFacts
  <2> QED
    BY <1>2, <1>5, <1>6, <1>7, <1>8, <1>9, <2>1 DEF SoundPartial, Group

\* The event takes a sound partial match one step on.
LEMMA AdvancedSound ==
    ASSUME NEW r \in RuleIds, NEW e \in Event, e \in stored,
           NEW score \in Nat, score \in assessed[e],
           NEW p \in Partial, SoundPartial(r, Group(e), p), Continues(r, p, e)
    PROVE  LET ids == Append(p.ids, e)
           IN  /\ OnTheWay(r, ids) /\ ids \in Seq(Event) /\ ids # <<>>
               /\ ToSet(ids) \subseteq stored /\ ids[Len(ids)] = e
               /\ Len(ids) = p.next
               /\ Scored(ids, Advanced(r, p, e, score).score)
               /\ ~Complete(r, Advanced(r, p, e, score)) =>
                     SoundPartial(r, Group(e), Advanced(r, p, e, score))
               /\ Complete(r, Advanced(r, p, e, score)) => Means(r, ids)
<1>1. PICK n \in Nat : /\ n = Len(p.ids) /\ n >= 1 /\ p.ids \in Seq(Event)
                       /\ p.next = n + 1 /\ n + 1 <= Len(Rules[r].steps)
  <2>1. p.ids \in Seq(Event) /\ p.ids # <<>>
    BY DEF Partial, SoundPartial
  <2>2. Len(p.ids) \in Nat /\ Len(p.ids) >= 1
    BY <2>1, EmptySeq, LenProperties
  <2> QED
    BY <2>1, <2>2 DEF SoundPartial
<1>2. PICK ids : /\ ids = Append(p.ids, e) /\ ids \in Seq(Event)
                 /\ Len(ids) = n + 1 /\ DOMAIN ids = 1..(n + 1)
                 /\ ids[n + 1] = e /\ \A i \in 1..n : ids[i] = p.ids[i]
  <2>1. PICK q \in Seq(Event) : q = p.ids
    BY <1>1
  <2>2. PICK ids : ids = Append(q, e)
    OBVIOUS
  <2>3. /\ ids \in Seq(Event) /\ Len(ids) = Len(q) + 1
        /\ ids[Len(q) + 1] = e /\ \A i \in 1..Len(q) : ids[i] = q[i]
    BY <2>1, <2>2, AppendProperties
  <2>4. DOMAIN ids = 1..Len(ids)
    BY <2>3
  <2> QED
    BY <1>1, <2>1, <2>2, <2>3, <2>4
<1>3. ids[1] = p.ids[1] /\ \A i \in 1..n : p.ids[i] \in Event /\ ids[i] \in Event
  BY <1>1, <1>2
<1>4. \A i \in 1..(n + 1) : i \in 1..n \/ i = n + 1
  OBVIOUS
<1>5. \A i \in 1..n : p.ids[i] # e
  BY <1>1 DEF Continues, Advances, ToSet
<1>6. IsInjective(ids)
  <2>1. \A i, k \in 1..n : p.ids[i] = p.ids[k] => i = k
    BY <1>1 DEF SoundPartial, OnTheWay, IsInjective
  <2>2. \A i, k \in 1..(n + 1) : ids[i] = ids[k] => i = k
    BY <1>2, <1>4, <1>5, <2>1
  <2> QED
    BY <1>2, <2>2 DEF IsInjective
<1>7. /\ Data[e].kind \in Rules[r].steps[n + 1]
      /\ Data[e].asset = Data[ids[1]].asset
      /\ \A f \in DOMAIN Rules[r].where[n + 1] :
            LatestBinding(r, ids, n + 1, Rules[r].where[n + 1][f], Data[e].field[f])
  <2>1. _step_matches(r, n + 1, e, p.bindings)
    BY <1>1 DEF Continues, Advances
  <2>2. ASSUME NEW f \in DOMAIN Rules[r].where[n + 1]
        PROVE  LatestBinding(r, ids, n + 1, Rules[r].where[n + 1][f], Data[e].field[f])
    <3>1. PICK v \in Variable : v = Rules[r].where[n + 1][f]
      BY <1>1, RuleFacts
    <3>2. p.bindings[v] # None /\ Data[e].field[f] = p.bindings[v]
      BY <2>1, <2>2, <3>1 DEF _step_matches, get_field
    <3>3. LatestBinding(r, p.ids, n + 1, v, p.bindings[v])
      BY <1>1, <3>2 DEF SoundPartial, Leaves
    <3>4. (n + 1) - 1 = n /\ n + 1 \in Nat
      BY <1>1
    <3>5. LatestBinding(r, ids, n + 1, v, p.bindings[v])
      BY <1>2, <3>3, <3>4, LatestSame
    <3> QED
      BY <3>1, <3>2, <3>5
  <2>3. Data[e].kind \in Rules[r].steps[n + 1]
    BY <2>1 DEF _step_matches, Fits
  <2>4. Data[e].asset = Data[ids[1]].asset
    BY <1>3 DEF SoundPartial, Group
  <2> QED
    BY <2>2, <2>3, <2>4
<1>8. Data[e].at \in Data[ids[1]].at .. Data[ids[1]].at + Rules[r].window
  <2>1. p.started = Data[ids[1]].at
    BY <1>3 DEF SoundPartial
  <2>2. Data[e].at \in Nat /\ p.started \in Nat /\ Rules[r].window \in Nat
    BY RuleFacts DEF Partial
  <2>3. Data[e].at >= p.started /\ Data[e].at - p.started <= Rules[r].window
    BY DEF Continues, InWindow
  <2>4. Data[e].at \in p.started .. p.started + Rules[r].window
    BY <2>2, <2>3
  <2> QED
    BY <2>1, <2>4
<1>9. Rules[r].within[n + 1] # None =>
         Data[e].at <= Data[ids[n]].at + Rules[r].within[n + 1]
  <2>1. p.last = Data[ids[n]].at
    BY <1>1, <1>2 DEF SoundPartial
  <2> QED
    BY <1>1, <2>1 DEF Continues, Advances
<1>10. OnTheWay(r, ids)
  <2>1. ASSUME NEW i \in 1..(n + 1)
        PROVE  /\ Data[ids[i]].kind \in Rules[r].steps[i]
               /\ Data[ids[i]].asset = Data[ids[1]].asset
               /\ Data[ids[i]].at \in Data[ids[1]].at .. Data[ids[1]].at + Rules[r].window
               /\ \A f \in DOMAIN Rules[r].where[i] :
                     LatestBinding(r, ids, i, Rules[r].where[i][f], Data[ids[i]].field[f])
    <3>1. CASE i \in 1..n
      <4>1. /\ Data[p.ids[i]].kind \in Rules[r].steps[i]
            /\ Data[p.ids[i]].asset = Data[p.ids[1]].asset
            /\ Data[p.ids[i]].at \in Data[p.ids[1]].at .. Data[p.ids[1]].at + Rules[r].window
            /\ \A f \in DOMAIN Rules[r].where[i] :
                  LatestBinding(r, p.ids, i, Rules[r].where[i][f], Data[p.ids[i]].field[f])
        BY <1>1, <3>1 DEF SoundPartial, OnTheWay
      <4>2. ids[i] = p.ids[i] /\ i \in Nat /\ \A k \in 1..(i - 1) : p.ids[k] = ids[k]
        BY <1>1, <1>2, <3>1
      <4>3. \A v, value : LatestBinding(r, p.ids, i, v, value) =>
                           LatestBinding(r, ids, i, v, value)
        BY <4>2, LatestSame
      <4> QED
        BY <1>3, <4>1, <4>2, <4>3
    <3>2. CASE i = n + 1
      BY <1>2, <1>7, <1>8, <3>2
    <3> QED
      BY <1>4, <3>1, <3>2
  <2>2. \A i \in 2..(n + 1) : Rules[r].within[i] # None =>
            Data[ids[i]].at <= Data[ids[i - 1]].at + Rules[r].within[i]
    <3>1. \A i \in 2..n : Rules[r].within[i] # None =>
            Data[p.ids[i]].at <= Data[p.ids[i - 1]].at + Rules[r].within[i]
      BY <1>1 DEF SoundPartial, OnTheWay
    <3>2. \A i \in 2..n : i \in 1..n /\ i - 1 \in 1..n
      BY <1>1
    <3>3. \A i \in 2..(n + 1) : i \in 2..n \/ i = n + 1
      BY <1>1
    <3>4. (n + 1) - 1 = n
      BY <1>1
    <3> QED
      BY <1>2, <1>9, <3>1, <3>2, <3>3, <3>4
  <2> QED
    BY <1>2, <1>6, <2>1, <2>2 DEF OnTheWay
<1>11. ToSet(ids) \subseteq stored
  <2>1. \A i \in 1..n : p.ids[i] \in stored
    BY <1>1 DEF SoundPartial, ToSet
  <2> QED
    BY <1>2, <1>4, <2>1 DEF ToSet
<1>12. ids # <<>>
  BY <1>1, <1>2
<1>13. /\ Advanced(r, p, e, score).ids = ids /\ Advanced(r, p, e, score).next = n + 2
       /\ Advanced(r, p, e, score).started = p.started
       /\ Advanced(r, p, e, score).last = Data[e].at
       /\ Advanced(r, p, e, score).score \in {p.score, score}
       /\ Advanced(r, p, e, score).bindings = _apply_bindings(r, n + 1, e, p.bindings)
  <2>1. /\ Advanced(r, p, e, score).ids = Append(p.ids, e)
        /\ Advanced(r, p, e, score).next = p.next + 1
        /\ Advanced(r, p, e, score).started = p.started
        /\ Advanced(r, p, e, score).last = Data[e].at
        /\ Advanced(r, p, e, score).score \in {p.score, score}
        /\ Advanced(r, p, e, score).bindings = _apply_bindings(r, p.next, e, p.bindings)
    BY AdvancedIs
  <2>2. p.next = n + 1 /\ (n + 1) + 1 = n + 2
    BY <1>1
  <2> QED
    BY <1>2, <2>1, <2>2
<1>17. Scored(ids, Advanced(r, p, e, score).score)
  <2>1. e \in ToSet(ids) /\ ToSet(p.ids) \subseteq ToSet(ids)
    <3>1. DOMAIN p.ids = 1..n /\ n + 1 \in 1..(n + 1) /\ \A i \in 1..n : i \in 1..(n + 1)
      BY <1>1
    <3> QED
      BY <1>2, <3>1 DEF ToSet
  <2>2. Scored(p.ids, p.score)
    BY DEF SoundPartial
  <2> QED
    BY <1>13, <2>1, <2>2 DEF Scored
<1>18. \A v \in Variable : Leaves(r, ids, v, _apply_bindings(r, n + 1, e, p.bindings)[v])
  <2>1. \A v \in Variable : Leaves(r, p.ids, v, p.bindings[v])
    BY DEF SoundPartial
  <2>2. PICK a, bindings : a = p.ids /\ bindings = p.bindings
    OBVIOUS
  <2>3. Len(a) = n /\ Len(ids) = n + 1 /\ ids[n + 1] = e /\ \A k \in 1..n : ids[k] = a[k]
    BY <1>1, <1>2, <2>2
  <2>4. ASSUME NEW v \in Variable
        PROVE  Leaves(r, ids, v, _apply_bindings(r, n + 1, ids[n + 1], bindings)[v])
    <3>1. Leaves(r, a, v, bindings[v])
      BY <2>1, <2>2
    <3> QED
      BY <1>1, <2>3, <3>1, LeavesOn
  <2> QED
    BY <2>2, <2>3, <2>4
<1>14. Complete(r, Advanced(r, p, e, score)) <=> n + 1 = Len(Rules[r].steps)
  BY <1>1, <1>13, RuleFacts DEF Complete
<1>15. ~Complete(r, Advanced(r, p, e, score)) => SoundPartial(r, Group(e), Advanced(r, p, e, score))
  <2>1. ~Complete(r, Advanced(r, p, e, score)) => n + 2 <= Len(Rules[r].steps)
    <3>1. Len(Rules[r].steps) \in Nat
      BY RuleFacts
    <3>2. n + 1 # Len(Rules[r].steps) => n + 2 <= Len(Rules[r].steps)
      BY <1>1, <3>1
    <3> QED
      BY <1>14, <3>2
  <2> QED
    BY <1>2, <1>3, <1>10, <1>11, <1>12, <1>13, <1>17, <1>18, <2>1 DEF SoundPartial
<1>16. Complete(r, Advanced(r, p, e, score)) => Means(r, ids)
  BY <1>2, <1>10, <1>14 DEF OnTheWay, Means
<1> QED
  BY <1>1, <1>2, <1>10, <1>11, <1>12, <1>15, <1>16, <1>17

-----------------------------------------------------------------------------
(***************************************************************************)
(* Types.                                                                  *)
(***************************************************************************)
Mark == [rule : RuleIds, ids : Seq(Event), at : Nat]

Incident == [first : Nat, last : Nat, updated : Nat, ids : SUBSET Nat,
             entities : SUBSET UNION {Data[e].entities : e \in Event}, risk : 0..MaxRisk]

Pending == [key : Nat \cup {None}, fid : Nat, was : Incident \cup {None}]

Job == [pc : {"prune", "read", "advance", "finding", "upsert"},
        event : Event, path : {"agent", "api"}, score : Nat, lead : BOOLEAN,
        kept : SUBSET Mark, from : SUBSET Mark, rule : RuleIds,
        seen : Seq(Partial), matches : Seq(RuleMatch), found : Seq(Finding),
        incident : Pending \cup {None}, counted : Nat]

\* What a worker has in hand goes with where it is.
Stage(j) ==
    /\ j.pc \in {"prune", "read", "advance"} => j.found = <<>>
    /\ j.pc = "upsert" =>
          /\ j.found # <<>> /\ j.incident \in Pending
          /\ j.incident.fid \in DOMAIN findings
          /\ j.incident.key # None =>
                j.incident.key \in DOMAIN incidents /\ j.incident.was \in Incident

HuntTypes ==
    /\ stored \subseteq Event
    /\ partials \in [RuleIds -> [Groups -> Seq(Partial)]]
    /\ emitted \subseteq Mark
    /\ findings \in Seq(Finding)
    /\ incidents \in Seq(Incident)
    /\ analysis \in [key : Nat, was : Incident] \cup {None}
    /\ job \in [Worker -> Job \cup {NoJob}]
    /\ \A w \in Worker : job[w] # NoJob => Stage(job[w])
    /\ stamp \in Nat
    /\ assessed \in [Event -> SUBSET Nat]

\* A worker with a job is not idle.
LEMMA JobIs == ASSUME NEW j \in Job PROVE j # NoJob
BY DEF Job, NoJob

\* A worker at a step has a job of that step's shape.
LEMMA AtIs ==
    ASSUME HuntTypes, NEW w \in Worker, NEW pc, At(w, pc), pc # "idle"
    PROVE  job[w] \in Job /\ job[w] # NoJob /\ Stage(job[w]) /\ job[w].pc = pc
BY DEF HuntTypes, At, NoJob

\* There is a rule to begin with.
LEMMA RuleOne == 1 \in RuleIds
BY RuleFacts DEF RuleIds

\* The finding of the event's own assessment is a finding about this event, of
\* no rule.
LEMMA LeadIs ==
    ASSUME NEW e \in Event, NEW score \in Nat
    PROVE  Lead(e, score) \in Finding /\ Lead(e, score).rule = 0 /\ Lead(e, score).ids = <<e>>
BY RuleFacts DEF Lead, Finding

\* What ingest leaves in the worker's hands: the event and its score, at the first
\* rule, with the signatures _prune_emitted has read.
LEMMA IngestEffect ==
    ASSUME HuntTypes, NEW w \in Worker, NEW e \in Event, NEW path \in {"agent", "api"},
           ingest(w, e, path)
    PROVE  \E j \in Job :
              /\ job' = [job EXCEPT ![w] = j]
              /\ j.pc = "prune" /\ j.event = e /\ j.path = path
              /\ j.from = emitted /\ j.kept = Kept(Data[e].at)
              /\ j.rule = 1 /\ j.matches = <<>> /\ j.found = <<>>
              /\ assessed' = [assessed EXCEPT ![e] = @ \cup {j.score}]
<1>1. PICK anomaly \in assess(e) :
         /\ job' = [job EXCEPT ![w] =
                      [pc |-> "prune", event |-> e, path |-> path,
                       score |-> anomaly.score, lead |-> anomaly.lead,
                       kept |-> Kept(Data[e].at), from |-> emitted,
                       rule |-> 1, seen |-> <<>>, matches |-> <<>>, found |-> <<>>,
                       incident |-> None, counted |-> 0]]
         /\ assessed' = [assessed EXCEPT ![e] = @ \cup {anomaly.score}]
  BY DEF ingest
<1>2. anomaly.lead \in BOOLEAN /\ anomaly.score \in Nat
  BY <1>1, RuleFacts DEF assess
<1>3. emitted \subseteq Mark /\ Kept(Data[e].at) \subseteq Mark
  BY DEF HuntTypes, Kept
<1>4. PICK none : none = <<>> /\ none \in Seq(Partial) /\ none \in Seq(RuleMatch)
                  /\ none \in Seq(Finding)
  BY EmptySeq
<1> DEFINE j == [pc |-> "prune", event |-> e, path |-> path,
                 score |-> anomaly.score, lead |-> anomaly.lead,
                 kept |-> Kept(Data[e].at), from |-> emitted,
                 rule |-> 1, seen |-> none, matches |-> none, found |-> none,
                 incident |-> None, counted |-> 0]
<1>5. j \in Job
  BY <1>2, <1>3, <1>4, RuleOne DEF Job
<1>6. job' = [job EXCEPT ![w] = j]
  BY <1>1, <1>4
<1>7. /\ j.pc = "prune" /\ j.event = e /\ j.path = path
      /\ j.from = emitted /\ j.kept = Kept(Data[e].at)
      /\ j.rule = 1 /\ j.matches = <<>> /\ j.found = <<>>
      /\ assessed' = [assessed EXCEPT ![e] = @ \cup {j.score}]
  BY <1>1, <1>4
<1> HIDE DEF j
<1> QED
  BY <1>5, <1>6, <1>7

\* _prune_emitted ends the ingest with an error, or goes on to the rules; a
\* signature it removed is noted as forgotten if it was not read, is later than
\* the event, or is out of date.
LEMMA PruneEffect ==
    ASSUME HuntTypes, NEW w \in Worker, _prune_emitted(w)
    PROVE  /\ job[w] \in Job /\ job[w].pc = "prune"
           /\ \/ job' = [job EXCEPT ![w] = NoJob] /\ broken' = broken \cup {job[w].event}
                 /\ emitted' = emitted /\ forgotten' = forgotten
              \/ /\ \E j \in Job :
                       /\ job' = [job EXCEPT ![w] = j]
                       /\ j.pc = "read" /\ j.event = job[w].event /\ j.path = job[w].path /\ j.score = job[w].score
                       /\ j.matches = job[w].matches /\ j.found = job[w].found
                       /\ j.rule = job[w].rule /\ j.from = {} /\ j.kept = {}
                 /\ emitted' = job[w].kept /\ broken' = broken
                 /\ ~forgotten' => ~forgotten /\ \A m \in emitted :
                       /\ m \notin job[w].kept
                       => /\ m \in job[w].from
                          /\ ~(m.at > Data[job[w].event].at)
                          /\ Data[job[w].event].at - m.at <= Retention
<1>1. job[w] \in Job /\ job[w].pc = "prune"
  BY AtIs DEF _prune_emitted
<1>2. CASE job' = [job EXCEPT ![w] = NoJob]
           /\ broken' = broken \cup {job[w].event} /\ UNCHANGED <<emitted, forgotten>>
  BY <1>1, <1>2
<1>3. CASE /\ emitted' = job[w].kept
           /\ job' = [job EXCEPT ![w].pc = "read", ![w].kept = {}, ![w].from = {}]
           /\ forgotten' = (forgotten \/ \E m \in emitted :
                 /\ m \notin job[w].kept
                 /\ \/ m \notin job[w].from
                    \/ m.at > Data[job[w].event].at
                    \/ ~(Data[job[w].event].at - m.at <= Retention))
           /\ UNCHANGED broken
  <2> DEFINE j == [job[w] EXCEPT !.pc = "read", !.kept = {}, !.from = {}]
  <2>1. job' = [job EXCEPT ![w] = j]
    BY <1>3
  <2>2. j \in Job
    BY <1>1 DEF Job
  <2>3. /\ j.pc = "read" /\ j.event = job[w].event /\ j.path = job[w].path /\ j.score = job[w].score
        /\ j.matches = job[w].matches /\ j.found = job[w].found
        /\ j.rule = job[w].rule /\ j.from = {} /\ j.kept = {}
    BY <1>1 DEF Job
  <2>4. ~forgotten' => ~forgotten /\ \A m \in emitted :
           /\ m \notin job[w].kept
           => /\ m \in job[w].from
              /\ ~(m.at > Data[job[w].event].at)
              /\ Data[job[w].event].at - m.at <= Retention
    BY <1>3
  <2> HIDE DEF j
  <2> QED
    BY <1>1, <1>3, <2>1, <2>2, <2>3, <2>4
<1> QED
  BY <1>2, <1>3 DEF _prune_emitted

\* A worker that reads the partial matches of a rule has them as they are now.
LEMMA ReadEffect ==
    ASSUME HuntTypes, NEW w \in Worker, ReadPartials(w)
    PROVE  /\ job[w] \in Job /\ job[w].pc = "read"
           /\ \E j \in Job :
                 /\ job' = [job EXCEPT ![w] = j]
                 /\ j.pc = "advance" /\ j.event = job[w].event /\ j.path = job[w].path /\ j.score = job[w].score
                 /\ j.matches = job[w].matches /\ j.found = job[w].found
                 /\ j.rule = job[w].rule /\ j.from = emitted /\ j.kept = job[w].kept
                 /\ j.seen = partials[j.rule][Group(j.event)]
<1>1. job[w] \in Job /\ job[w].pc = "read"
  BY AtIs DEF ReadPartials
<1>2. PICK seen \in Seq(Partial) : seen = partials[job[w].rule][Group(job[w].event)]
  <2>1. job[w].rule \in RuleIds /\ Group(job[w].event) \in Groups
    BY <1>1 DEF Job, Groups
  <2> QED
    BY <2>1 DEF HuntTypes
<1> DEFINE j == [job[w] EXCEPT !.pc = "advance", !.from = emitted, !.seen = seen]
<1>3. job' = [job EXCEPT ![w] = j]
  BY <1>2 DEF ReadPartials
<1>4. emitted \subseteq Mark
  BY DEF HuntTypes
<1>5. j \in Job
  BY <1>1, <1>4 DEF Job
<1>6. /\ j.pc = "advance" /\ j.event = job[w].event /\ j.path = job[w].path /\ j.score = job[w].score
      /\ j.matches = job[w].matches /\ j.found = job[w].found
      /\ j.rule = job[w].rule /\ j.from = emitted /\ j.kept = job[w].kept
      /\ j.seen = seen
  BY <1>1 DEF Job
<1> HIDE DEF j
<1> QED
  BY <1>1, <1>2, <1>3, <1>5, <1>6

\* The limit on partial matches only drops some, and none when they are within
\* it.
LEMMA TrimmedIs ==
    ASSUME NEW alive \in Seq(Partial)
    PROVE  /\ Trimmed(alive) \in Seq(Partial)
           /\ \A k \in DOMAIN Trimmed(alive) : \E i \in DOMAIN alive : Trimmed(alive)[k] = alive[i]
           /\ Len(alive) <= MaxPartials => Trimmed(alive) = alive
<1>1. PICK n \in Nat : n = Len(alive) /\ DOMAIN alive = 1..n
  OBVIOUS
<1>2. PICK m \in Nat : m = Min({Len(alive), MaxPartials}) /\ m <= n
  BY <1>1, MinIs, RuleFacts
<1>3. /\ SubSeq(alive, 1, m) \in Seq(Partial)
      /\ Len(SubSeq(alive, 1, m)) = m
      /\ \A i \in 1..m : SubSeq(alive, 1, m)[i] = alive[i]
  <2>1. \A i \in 1..m : i \in 1..n
    BY <1>2
  <2>2. SubSeq(alive, 1, m) = [i \in 1..m |-> alive[i]]
    <3>1. \A i \in 1..m : 1 + i - 1 = i
      OBVIOUS
    <3>2. 1..(m - 1 + 1) = 1..m
      OBVIOUS
    <3> QED
      BY <1>1, <1>2, <3>1, <3>2, SubSeqProperties
  <2>3. [i \in 1..m |-> alive[i]] \in [1..m -> Partial]
    BY <1>1, <2>1
  <2>4. PICK a : a = SubSeq(alive, 1, m) /\ a \in [1..m -> Partial]
    BY <2>2, <2>3
  <2>5. a \in Seq(Partial)
    BY <2>4, SeqDef
  <2> QED
    BY <2>2, <2>4, <2>5
<1>4. Trimmed(alive) = SubSeq(alive, 1, m)
  BY <1>2 DEF Trimmed
<1>5. PICK a \in Seq(Partial) : a = Trimmed(alive) /\ Len(a) = m /\ \A i \in 1..m : a[i] = alive[i]
  BY <1>3, <1>4
<1>6. DOMAIN a = 1..m /\ \A i \in 1..m : i \in 1..n
  BY <1>2, <1>5
<1>7. ASSUME Len(alive) <= MaxPartials PROVE a = alive
  <2>1. m = n
    <3>1. m \in {n, MaxPartials} /\ m <= n /\ n <= MaxPartials
      BY <1>1, <1>2, <1>7, MinIs, RuleFacts
    <3> QED
      BY <3>1, RuleFacts
  <2> QED
    BY <1>1, <1>5, <1>6, <2>1, SeqEqual
<1> QED
  BY <1>1, <1>5, <1>6, <1>7

\* What AdvancePartials makes of the worker's job: j, with the matches all, of
\* which new are the ones that the event completes.
MatchStep(w, known, j, new, all) ==
    /\ new = Completed(job[w].rule, job[w].seen, known, job[w].event, job[w].score)
    /\ all = job[w].matches \o new
    /\ partials' = [partials EXCEPT ![job[w].rule][Group(job[w].event)] =
                      Trimmed(Alive(job[w].rule, job[w].seen, job[w].event, job[w].score))]
    /\ emitted' = {m \in emitted : \A n \in ToSet(new) : Signature(m) # Signature(n)}
                    \cup {[rule |-> n.rule, ids |-> n.ids, at |-> n.last] : n \in ToSet(new)}
    /\ ~forgotten' => ~forgotten /\ \A m \in emitted, n \in ToSet(new) :
                                       Signature(m) # Signature(n)
    /\ job' = [job EXCEPT ![w] = j]
    /\ j.event = job[w].event /\ j.path = job[w].path /\ j.score = job[w].score
    /\ j.from = {} /\ j.kept = job[w].kept
    /\ \/ /\ j.pc = "read" /\ j.matches = all /\ j.found = job[w].found
          /\ job[w].rule < Len(Rules) /\ j.rule = job[w].rule + 1 /\ order' = order
       \/ /\ j.pc = "finding" /\ j.matches = <<>>
          /\ j.found = _suppress_subsumed(all) \o
                         (IF job[w].lead THEN <<Lead(job[w].event, job[w].score)>> ELSE <<>>)
          /\ ~(job[w].rule < Len(Rules)) /\ order' = Append(order, [event |-> job[w].event, score |-> job[w].score])

\* AdvancePartials is a MatchStep; unless it disturbs the engine, it was within
\* the limit on partial matches.
LEMMA AdvanceEffect ==
    ASSUME HuntTypes, NEW w \in Worker, AdvancePartials(w)
    PROVE  /\ job[w] \in Job /\ job[w].pc = "advance"
           /\ \E known \in {job[w].from, emitted} :
              \E j \in Job, new \in Seq(RuleMatch), all \in Seq(RuleMatch) :
                 MatchStep(w, known, j, new, all)
           /\ ~disturbed' =>
                 /\ ~disturbed
                 /\ ~(Len(Alive(job[w].rule, job[w].seen, job[w].event, job[w].score)) > MaxPartials)
                 /\ \A v \in Worker \ {w} : ~At(v, "read") /\ ~At(v, "advance")
                 /\ \A d \in ToSet(order) : ~(Data[d.event].at > Data[job[w].event].at)
<1>1. /\ job[w] \in Job /\ job[w].pc = "advance"
      /\ job[w].rule \in RuleIds /\ job[w].seen \in Seq(Partial) /\ job[w].event \in Event
      /\ job[w].score \in Nat
      /\ job[w].matches \in Seq(RuleMatch)
  BY AtIs DEF AdvancePartials, Job
<1> DEFINE New(known) == Completed(job[w].rule, job[w].seen, known, job[w].event, job[w].score)
<1>2. PICK known \in {job[w].from, emitted} :
         LET j == job[w]
             r == j.rule
             e == j.event
             alive == Alive(r, j.seen, e, j.score)
             new == New(known)
             all == j.matches \o new
         IN  /\ partials' = [partials EXCEPT ![r][Group(e)] = Trimmed(alive)]
             /\ emitted' = {m \in emitted : \A n \in ToSet(new) : Signature(m) # Signature(n)}
                              \cup {[rule |-> n.rule, ids |-> n.ids, at |-> n.last] : n \in ToSet(new)}
             /\ forgotten' = (forgotten \/ \E m \in emitted, n \in ToSet(new) :
                                               Signature(m) = Signature(n))
             /\ IF r < Len(Rules)
                THEN job' = [job EXCEPT ![w].pc = "read", ![w].rule = r + 1, ![w].from = {},
                                        ![w].seen = <<>>, ![w].matches = all]
                     /\ order' = order
                ELSE job' = [job EXCEPT ![w].pc = "finding", ![w].from = {},
                                   ![w].seen = <<>>, ![w].matches = <<>>,
                                   ![w].found = _suppress_subsumed(all) \o
                                                (IF j.lead THEN <<Lead(e, j.score)>> ELSE <<>>)]
                     /\ order' = Append(order, [event |-> e, score |-> j.score])
  BY DEF AdvancePartials
<1>3. PICK new \in Seq(RuleMatch) : new = New(known)
  BY <1>1, CompletedIs
<1>4. PICK all \in Seq(RuleMatch) : all = job[w].matches \o new
  BY <1>1, ConcatProperties
<1>5. PICK found \in Seq(Finding) : found = _suppress_subsumed(all) \o
                              (IF job[w].lead THEN <<Lead(job[w].event, job[w].score)>> ELSE <<>>)
  <2>1. PICK a : a = _suppress_subsumed(all) /\ a \in Seq(RuleMatch)
    BY SuppressedIs
  <2>2. RuleMatch \subseteq Finding
    BY DEF RuleMatch, Finding
  <2>3. a \in Seq(Finding)
    BY <2>1, <2>2, SeqMonotonic
  <2>4. PICK b \in Seq(Finding) : b = IF job[w].lead THEN <<Lead(job[w].event, job[w].score)>> ELSE <<>>
    <3>1. PICK f \in Finding : f = Lead(job[w].event, job[w].score)
      BY <1>1, LeadIs
    <3>2. <<f>> \in Seq(Finding) /\ <<>> \in Seq(Finding)
      OBVIOUS
    <3> QED
      BY <3>1, <3>2
  <2>5. a \o b \in Seq(Finding)
    BY <2>3, <2>4, ConcatProperties
  <2> QED
    BY <2>1, <2>4, <2>5
<1>6. PICK none : none = <<>> /\ none \in Seq(Partial) /\ none \in Seq(RuleMatch)
  BY EmptySeq
<1> DEFINE j1 == [job[w] EXCEPT !.pc = "read", !.rule = job[w].rule + 1, !.from = {},
                                !.seen = none, !.matches = all]
           j2 == [job[w] EXCEPT !.pc = "finding", !.from = {},
                                !.seen = none, !.matches = none, !.found = found]
<1>7. job[w].rule < Len(Rules) => job' = [job EXCEPT ![w] = j1] /\ order' = order
  BY <1>2, <1>3, <1>4, <1>6
<1>8. ~(job[w].rule < Len(Rules)) =>
         job' = [job EXCEPT ![w] = j2] /\ order' = Append(order, [event |-> job[w].event, score |-> job[w].score])
  BY <1>2, <1>3, <1>4, <1>5, <1>6
<1>9. job[w].rule < Len(Rules) => job[w].rule + 1 \in RuleIds
  <2>1. PICK l \in Nat, r \in Nat : l = Len(Rules) /\ r = job[w].rule
    BY <1>1, RuleFacts DEF RuleIds
  <2>2. r < l => r + 1 \in 1..l
    OBVIOUS
  <2> QED
    BY <2>1, <2>2 DEF RuleIds
<1>10. job[w].rule < Len(Rules) => j1 \in Job
  BY <1>1, <1>6, <1>9 DEF Job
<1>11. j2 \in Job
  BY <1>1, <1>6 DEF Job
<1>12. /\ j1.event = job[w].event /\ j1.path = job[w].path /\ j1.score = job[w].score
       /\ j1.pc = "read" /\ j1.matches = all /\ j1.found = job[w].found
       /\ j1.rule = job[w].rule + 1 /\ j1.from = {} /\ j1.kept = job[w].kept
  BY <1>1 DEF Job
<1>13. /\ j2.event = job[w].event /\ j2.path = job[w].path /\ j2.score = job[w].score
       /\ j2.pc = "finding" /\ j2.matches = none /\ j2.found = found
       /\ j2.from = {} /\ j2.kept = job[w].kept
  BY <1>1 DEF Job
<1>14. ~forgotten' => ~forgotten /\ \A m \in emitted, n \in ToSet(new) :
                                         Signature(m) # Signature(n)
  BY <1>2, <1>3
<1>15. PICK j \in Job :
          /\ job' = [job EXCEPT ![w] = j]
          /\ j.event = job[w].event /\ j.path = job[w].path /\ j.score = job[w].score
          /\ j.from = {} /\ j.kept = job[w].kept
          /\ \/ /\ j.pc = "read" /\ j.matches = all /\ j.found = job[w].found
                /\ job[w].rule < Len(Rules) /\ j.rule = job[w].rule + 1 /\ order' = order
             \/ /\ j.pc = "finding" /\ j.matches = none /\ j.found = found
                /\ ~(job[w].rule < Len(Rules)) /\ order' = Append(order, [event |-> job[w].event, score |-> job[w].score])
  <2> HIDE DEF j1, j2
  <2> QED
    BY <1>7, <1>8, <1>10, <1>11, <1>12, <1>13
<1>16. /\ partials' = [partials EXCEPT ![job[w].rule][Group(job[w].event)] =
                                   Trimmed(Alive(job[w].rule, job[w].seen, job[w].event, job[w].score))]
       /\ emitted' = {m \in emitted : \A n \in ToSet(new) : Signature(m) # Signature(n)}
                       \cup {[rule |-> n.rule, ids |-> n.ids, at |-> n.last] : n \in ToSet(new)}
  BY <1>2, <1>3
<1> HIDE DEF j1, j2
<1>17. /\ new = Completed(job[w].rule, job[w].seen, known, job[w].event, job[w].score)
       /\ all = job[w].matches \o new
  BY <1>3, <1>4
<1> HIDE DEF New
<1>18. ~disturbed' =>
          /\ ~disturbed
          /\ ~(Len(Alive(job[w].rule, job[w].seen, job[w].event, job[w].score)) > MaxPartials)
          /\ \A v \in Worker \ {w} : ~At(v, "read") /\ ~At(v, "advance")
          /\ \A d \in ToSet(order) : ~(Data[d.event].at > Data[job[w].event].at)
  BY DEF AdvancePartials
<1>19. MatchStep(w, known, j, new, all)
  BY <1>5, <1>6, <1>14, <1>15, <1>16, <1>17 DEF MatchStep
<1> QED
  BY <1>1, <1>18, <1>19

\* The incident that correlate selects is one of the table's.
LEMMA SelectedIs ==
    ASSUME HuntTypes, NEW f
    PROVE  Selected(f) # None => Selected(f) \in DOMAIN incidents
<1> DEFINE Newer(k) == Cardinality({n \in DOMAIN incidents : incidents[n].updated > incidents[k].updated})
           open == {k \in DOMAIN incidents : Newer(k) < MaxOpen /\ Correlated(f, incidents[k])}
<1>1. Selected(f) = IF open = {} THEN None ELSE CHOOSE k \in open : \A n \in open : Newer(k) <= Newer(n)
  BY DEF Selected
<1>2. ASSUME NEW k \in open PROVE Newer(k) \in Nat
  <2>1. IsFiniteSet(DOMAIN incidents)
    <3>1. PICK n \in Nat : DOMAIN incidents = 1..n
      BY DEF HuntTypes
    <3> QED
      BY <3>1, FS_Interval
  <2>2. {n \in DOMAIN incidents : incidents[n].updated > incidents[k].updated}
           \in SUBSET DOMAIN incidents
    OBVIOUS
  <2> QED
    BY <2>1, <2>2, FS_Subset, FS_CardinalityType
<1>3. ASSUME open # {} PROVE \E k \in open : \A n \in open : Newer(k) <= Newer(n)
  <2> HIDE DEF open, Newer
  <2>1. PICK T : T = {Newer(k) : k \in open}
    OBVIOUS
  <2>2. T \subseteq Nat /\ T # {}
    BY <1>2, <1>3, <2>1
  <2>3. PICK x \in T : \A y \in T : ~(<<y, x>> \in OpToRel(<, Nat))
    BY <2>2, NatLessThanWellFounded, WFMin
  <2>4. ASSUME NEW y \in T PROVE x <= y
    <3>1. x \in Nat /\ y \in Nat
      BY <2>2
    <3>2. y < x => <<y, x>> \in OpToRel(<, Nat)
      BY <3>1 DEF OpToRel
    <3>3. ~(y < x)
      BY <2>3, <3>2
    <3> QED
      BY <3>1, <3>3
  <2> QED
    BY <2>1, <2>3, <2>4
<1>4. open \subseteq DOMAIN incidents
  OBVIOUS
<1> HIDE DEF open, Newer
<1>5. ASSUME open # {} PROVE (CHOOSE k \in open : \A n \in open : Newer(k) <= Newer(n)) \in open
  BY <1>3, <1>5
<1> QED
  BY <1>1, <1>4, <1>5

\* Storing a finding adds the first of those in hand to the table, and keeps
\* them in hand.
LEMMA InsertEffect ==
    ASSUME HuntTypes, NEW w \in Worker, InsertFinding(w)
    PROVE  /\ job[w] \in Job /\ job[w].pc = "finding" /\ job[w].found # <<>>
           /\ Head(job[w].found) \in Finding
           /\ findings' = Append(findings, Head(job[w].found))
           /\ \E j \in Job :
                 /\ job' = [job EXCEPT ![w] = j]
                 /\ j.pc = "upsert" /\ j.event = job[w].event /\ j.path = job[w].path /\ j.score = job[w].score
                 /\ j.matches = job[w].matches /\ j.found = job[w].found
                 /\ j.from = job[w].from /\ j.kept = job[w].kept
                 /\ j.incident \in Pending /\ j.incident.fid = Len(findings) + 1
                 /\ j.incident.key # None =>
                       j.incident.key \in DOMAIN incidents /\ j.incident.was \in Incident
<1>1. /\ job[w] \in Job /\ job[w].pc = "finding" /\ job[w].found # <<>>
      /\ job[w].found \in Seq(Finding)
  BY AtIs DEF InsertFinding, Job
<1>2. PICK f \in Finding : f = Head(job[w].found)
  BY <1>1, HeadTailProperties
<1>3. PICK k : k = Selected(f)
  OBVIOUS
<1>4. PICK i : i = [key |-> k, fid |-> Len(findings) + 1,
                    was |-> IF k = None THEN None ELSE incidents[k]]
  OBVIOUS
<1>5. k # None => k \in DOMAIN incidents /\ k \in Nat /\ incidents[k] \in Incident
  BY <1>3, SelectedIs DEF HuntTypes
<1>6. Len(findings) + 1 \in Nat
  BY DEF HuntTypes
<1>7. /\ i \in Pending /\ i.fid = Len(findings) + 1
      /\ i.key # None => i.key \in DOMAIN incidents /\ i.was \in Incident
  BY <1>4, <1>5, <1>6 DEF Pending
<1> DEFINE j == [job[w] EXCEPT !.pc = "upsert", !.incident = i]
<1>8. findings' = Append(findings, f) /\ job' = [job EXCEPT ![w] = j]
  BY <1>2, <1>3, <1>4 DEF InsertFinding
<1>9. j \in Job
  BY <1>1, <1>7 DEF Job
<1>10. /\ j.pc = "upsert" /\ j.event = job[w].event /\ j.path = job[w].path /\ j.score = job[w].score
       /\ j.matches = job[w].matches /\ j.found = job[w].found /\ j.incident = i
       /\ j.from = job[w].from /\ j.kept = job[w].kept
  BY <1>1 DEF Job
<1> HIDE DEF j
<1> QED
  BY <1>1, <1>2, <1>7, <1>8, <1>9, <1>10

\* Correlating a finding takes it from those in hand.
LEMMA UpsertEffect ==
    ASSUME HuntTypes, NEW w \in Worker, UpsertIncident(w)
    PROVE  /\ job[w] \in Job /\ job[w].pc = "upsert" /\ job[w].found # <<>>
           /\ Stage(job[w])
           /\ Head(job[w].found) \in Finding
           /\ \E j \in Job :
                 /\ job' = [job EXCEPT ![w] = j]
                 /\ j.pc = "finding" /\ j.event = job[w].event /\ j.path = job[w].path /\ j.score = job[w].score
                 /\ j.matches = job[w].matches /\ j.found = Tail(job[w].found)
                 /\ j.from = job[w].from /\ j.kept = job[w].kept
           /\ IF job[w].incident.key = None
              THEN incidents' = Append(incidents, Created(Head(job[w].found), job[w].incident.fid))
                   /\ stale' = stale /\ lost' = lost
              ELSE /\ incidents' = [incidents EXCEPT ![job[w].incident.key] =
                         Merged(job[w].incident.was, Head(job[w].found), job[w].incident.fid)]
                   /\ WrittenOver(job[w].incident.key, job[w].incident.was)
<1>1. /\ job[w] \in Job /\ job[w].pc = "upsert" /\ Stage(job[w]) /\ job[w].found # <<>>
      /\ job[w].found \in Seq(Finding)
  BY AtIs DEF UpsertIncident, Job, Stage
<1>2. Head(job[w].found) \in Finding /\ Tail(job[w].found) \in Seq(Finding)
  BY <1>1, HeadTailProperties
<1> DEFINE j == [job[w] EXCEPT !.pc = "finding", !.found = Tail(@), !.incident = None]
<1>3. job' = [job EXCEPT ![w] = j]
  BY DEF UpsertIncident
<1>4. j \in Job
  BY <1>1, <1>2 DEF Job
<1>5. /\ j.pc = "finding" /\ j.event = job[w].event /\ j.path = job[w].path /\ j.score = job[w].score
      /\ j.matches = job[w].matches /\ j.found = Tail(job[w].found)
      /\ j.from = job[w].from /\ j.kept = job[w].kept
  BY <1>1 DEF Job
<1> HIDE DEF j
<1>6. IF job[w].incident.key = None
      THEN incidents' = Append(incidents, Created(Head(job[w].found), job[w].incident.fid))
           /\ stale' = stale /\ lost' = lost
      ELSE /\ incidents' = [incidents EXCEPT ![job[w].incident.key] =
                 Merged(job[w].incident.was, Head(job[w].found), job[w].incident.fid)]
           /\ WrittenOver(job[w].incident.key, job[w].incident.was)
  BY DEF UpsertIncident
<1> QED
  BY <1>1, <1>2, <1>3, <1>4, <1>5, <1>6

\* learn ends the ingest, or goes on with it.
LEMMA LearnEffect ==
    ASSUME HuntTypes, NEW w \in Worker, learn(w)
    PROVE  /\ job[w] \in Job /\ job[w].pc = "finding" /\ job[w].found = <<>>
           /\ \E j \in Job \cup {NoJob} :
                 /\ job' = [job EXCEPT ![w] = j]
                 /\ j # NoJob =>
                       /\ j.pc = "finding" /\ j.event = job[w].event /\ j.path = job[w].path
                       /\ j.score = job[w].score
                       /\ j.matches = job[w].matches /\ j.found = job[w].found
                       /\ j.from = job[w].from /\ j.kept = job[w].kept
<1>1. job[w] \in Job /\ job[w].pc = "finding" /\ job[w].found = <<>>
  BY AtIs DEF learn
<1> DEFINE j == [job[w] EXCEPT !.counted = job[w].counted + 1]
<1>2. j \in Job
  <2>1. PICK i \in Job : i = job[w]
    BY <1>1
  <2>2. PICK n \in Nat : n = i.counted + 1
    BY DEF Job
  <2>3. j = [i EXCEPT !.counted = n]
    BY <2>1, <2>2
  <2> QED
    BY <2>3 DEF Job
<1>3. /\ j.pc = "finding" /\ j.event = job[w].event /\ j.path = job[w].path
      /\ j.score = job[w].score
      /\ j.matches = job[w].matches /\ j.found = job[w].found
      /\ j.from = job[w].from /\ j.kept = job[w].kept
  BY <1>1 DEF Job
<1>4. job' = [job EXCEPT ![w] = j] \/ job' = [job EXCEPT ![w] = NoJob]
  BY DEF learn
<1> HIDE DEF j
<1> QED
  BY <1>1, <1>2, <1>3, <1>4

-----------------------------------------------------------------------------
(***************************************************************************)
(* Incidents.                                                              *)
(***************************************************************************)
LEMMA RaisedIs ==
    ASSUME NEW risk \in 0..MaxRisk, NEW f \in Finding
    PROVE  /\ Risk(f) \in 0..MaxRisk
           /\ Raised(risk, f) \in 0..MaxRisk /\ risk <= Raised(risk, f)
<1>1. Risk(f) \in 0..MaxRisk
  <2>1. f.rule \in RuleIds \cup {0} /\ f.score \in Nat
    BY DEF Finding
  <2>2. PICK base \in Nat : base = IF f.rule = 0 THEN 1 ELSE Rules[f.rule].base_score
    BY <2>1, RuleFacts
  <2>3. PICK x : x = Min({MaxRisk, base + f.score}) /\ x \in {MaxRisk, base + f.score} /\ x <= MaxRisk
    BY <2>1, MinIs, RuleFacts
  <2>4. x \in 0..MaxRisk
    BY <2>1, <2>3, RuleFacts
  <2> QED
    BY <2>2, <2>3, <2>4 DEF Risk
<1>2. MaxRisk \in Nat /\ RiskBump \in Nat /\ risk \in Nat /\ Risk(f) \in Nat /\ risk <= MaxRisk
  BY <1>1, RuleFacts
<1>3. PICK m \in Nat : m = Max({risk, Risk(f)}) + RiskBump /\ risk <= m
  <2>1. PICK x : x = Max({risk, Risk(f)}) /\ x \in {risk, Risk(f)} /\ x >= risk
    BY <1>2, MaxIs
  <2>2. x \in Nat
    BY <1>2, <2>1
  <2> QED
    BY <1>2, <2>1, <2>2
<1>4. PICK y : y = Min({MaxRisk, m}) /\ y \in {MaxRisk, m} /\ y <= MaxRisk /\ y <= m
  BY <1>2, MinIs
<1>5. Raised(risk, f) = y
  BY <1>3, <1>4 DEF Raised
<1> QED
  BY <1>1, <1>2, <1>3, <1>4, <1>5

\* The entities of a finding are those of its events.
LEMMA EntitiesAre ==
    ASSUME NEW f \in Finding
    PROVE  Entities(f) \in SUBSET UNION {Data[e].entities : e \in Event}
<1>1. ToSet(f.ids) \subseteq Event
  BY DEF Finding, ToSet
<1> QED
  BY <1>1 DEF Entities

\* A new incident has the one finding it is opened for.
LEMMA CreatedIs ==
    ASSUME NEW f \in Finding, NEW fid \in Nat, stamp \in Nat
    PROVE  Created(f, fid) \in Incident /\ Created(f, fid).ids = {fid}
<1>1. f.first \in Nat /\ f.last \in Nat
  BY DEF Finding
<1>2. Risk(f) \in 0..MaxRisk
  <2>1. 0 \in 0..MaxRisk
    BY RuleFacts
  <2> QED
    BY <2>1, RaisedIs
<1>3. PICK entities \in SUBSET UNION {Data[e].entities : e \in Event} : entities = Entities(f)
  BY EntitiesAre
<1>4. {fid} \in SUBSET Nat /\ stamp + 1 \in Nat
  OBVIOUS
<1>5. Created(f, fid) = [first |-> f.first, last |-> f.last, updated |-> stamp + 1,
                         ids |-> {fid}, entities |-> entities, risk |-> Risk(f)]
  BY <1>3 DEF Created
<1> QED
  BY <1>1, <1>2, <1>3, <1>4, <1>5 DEF Incident

\* An incident with one more finding in it has grown.
LEMMA MergedIs ==
    ASSUME NEW i \in Incident, NEW f \in Finding, NEW fid \in Nat, stamp \in Nat
    PROVE  /\ Merged(i, f, fid) \in Incident
           /\ Merged(i, f, fid).ids = i.ids \cup {fid}
           /\ i.risk <= Merged(i, f, fid).risk
           /\ Merged(i, f, fid).first <= i.first /\ i.last <= Merged(i, f, fid).last
<1>1. /\ f.first \in Nat /\ f.last \in Nat /\ i.first \in Nat /\ i.last \in Nat
      /\ i.ids \in SUBSET Nat /\ i.risk \in 0..MaxRisk
  BY DEF Finding, Incident
<1>2. PICK first, last : /\ first = (IF f.first < i.first THEN f.first ELSE i.first)
                         /\ last = (IF f.last > i.last THEN f.last ELSE i.last)
  OBVIOUS
<1>3. first \in Nat /\ last \in Nat /\ first <= i.first /\ i.last <= last
  BY <1>1, <1>2
<1>4. PICK risk : risk = Raised(i.risk, f) /\ risk \in 0..MaxRisk /\ i.risk <= risk
  BY <1>1, RaisedIs
<1>5. PICK ids, entities :
         /\ ids = i.ids \cup {fid} /\ ids \in SUBSET Nat
         /\ entities = i.entities \cup Entities(f)
         /\ entities \in SUBSET UNION {Data[e].entities : e \in Event}
  <2>1. i.ids \cup {fid} \in SUBSET Nat
    BY <1>1
  <2>2. i.entities \in SUBSET UNION {Data[e].entities : e \in Event}
    BY DEF Incident
  <2>3. i.entities \cup Entities(f) \in SUBSET UNION {Data[e].entities : e \in Event}
    BY <2>2, EntitiesAre
  <2> QED
    BY <2>1, <2>3
<1>6. Merged(i, f, fid) = [i EXCEPT !.first = first, !.last = last, !.updated = stamp + 1,
                                    !.ids = ids, !.entities = entities, !.risk = risk]
  BY <1>2, <1>4, <1>5 DEF Merged
<1>7. stamp + 1 \in Nat
  OBVIOUS
<1> QED
  BY <1>3, <1>4, <1>5, <1>6, <1>7 DEF Incident

\* A list of incidents with one of them written back is a list of as many
\* incidents.
LEMMA ReplacedIs ==
    ASSUME NEW i \in Incident, NEW k, NEW s \in Seq(Incident)
    PROVE  [s EXCEPT ![k] = i] \in Seq(Incident) /\ DOMAIN [s EXCEPT ![k] = i] = DOMAIN s
<1>1. PICK n \in Nat : s \in [1..n -> Incident]
  BY SeqDef
<1>2. PICK t : t = [s EXCEPT ![k] = i] /\ t \in [1..n -> Incident]
  <2>1. [s EXCEPT ![k] = i] = [x \in 1..n |-> IF x = k THEN i ELSE s[x]]
    <3>1. CASE k \in 1..n
      BY <1>1, <3>1
    <3>2. CASE k \notin 1..n
      BY <1>1, <3>2
    <3> QED
      BY <3>1, <3>2
  <2>2. [x \in 1..n |-> IF x = k THEN i ELSE s[x]] \in [1..n -> Incident]
    BY <1>1
  <2> QED
    BY <2>1, <2>2
<1>3. t \in Seq(Incident)
  BY <1>2, SeqDef
<1> QED
  BY <1>1, <1>2, <1>3

\* What a step does to the other workers' stages: tables only get longer.
LEMMA StageKept ==
    ASSUME HuntTypes, NEW w \in Worker, NEW j \in Job \cup {NoJob},
           job' = [job EXCEPT ![w] = j],
           DOMAIN findings \subseteq DOMAIN findings',
           DOMAIN incidents \subseteq DOMAIN incidents',
           j # NoJob => Stage(j)'
    PROVE  /\ job' \in [Worker -> Job \cup {NoJob}]
           /\ \A v \in Worker : job'[v] # NoJob => Stage(job[v])'
<1>1. job' \in [Worker -> Job \cup {NoJob}]
  BY DEF HuntTypes
<1>2. ASSUME NEW v \in Worker, job'[v] # NoJob PROVE Stage(job[v])'
  <2>1. CASE v = w
    <3>1. job'[v] = j
      BY <2>1 DEF HuntTypes
    <3> QED
      BY <1>2, <3>1 DEF Stage
  <2>2. CASE v # w
    <3>1. job'[v] = job[v] /\ Stage(job[v])
      BY <1>2, <2>2 DEF HuntTypes
    <3> QED
      BY <3>1 DEF Stage
  <2> QED
    BY <2>1, <2>2
<1> QED
  BY <1>1, <1>2

\* Every step keeps the types of the tables and the shape of the jobs.
LEMMA HuntTypesKept == ASSUME HuntTypes, [HuntNext]_huntVars PROVE HuntTypes'
<1> USE DEF tables, engine, history
<1>1. ASSUME NEW w \in Worker, NEW e \in Event, NEW path \in {"agent", "api"},
             ingest(w, e, path)
      PROVE  HuntTypes'
  <2>1. PICK j \in Job : /\ job' = [job EXCEPT ![w] = j] /\ j.pc = "prune" /\ j.found = <<>>
                         /\ assessed' = [assessed EXCEPT ![e] = @ \cup {j.score}]
    BY <1>1, IngestEffect
  <2>2. /\ stored' = stored \cup {e}
        /\ UNCHANGED <<findings, incidents, partials, emitted, analysis, stamp>>
    BY <1>1 DEF ingest
  <2>3. Stage(j)'
    BY <2>1 DEF Stage
  <2>4. /\ job' \in [Worker -> Job \cup {NoJob}]
        /\ \A v \in Worker : job'[v] # NoJob => Stage(job[v])'
    BY <2>1, <2>2, <2>3, StageKept
  <2>5. assessed' \in [Event -> SUBSET Nat]
    <3>1. j.score \in Nat /\ assessed \in [Event -> SUBSET Nat]
      BY DEF Job, HuntTypes
    <3> QED
      BY <2>1, <3>1
  <2> QED
    BY <2>2, <2>4, <2>5 DEF HuntTypes
<1>2. ASSUME NEW w \in Worker, _prune_emitted(w) PROVE HuntTypes'
  <2>1. /\ UNCHANGED <<stored, findings, incidents, partials, analysis, stamp, assessed>>
    BY <1>2 DEF _prune_emitted
  <2>2. PICK j \in Job \cup {NoJob} :
           /\ job' = [job EXCEPT ![w] = j]
           /\ j # NoJob => j.pc = "read" /\ j.found = job[w].found
    BY <1>2, PruneEffect
  <2>3. job[w].found = <<>> /\ job[w].kept \subseteq Mark
    BY <1>2, AtIs, PruneEffect DEF _prune_emitted, Stage, Job
  <2>4. j # NoJob => Stage(j)'
    BY <2>2, <2>3 DEF Stage
  <2>5. /\ job' \in [Worker -> Job \cup {NoJob}]
        /\ \A v \in Worker : job'[v] # NoJob => Stage(job[v])'
    BY <2>1, <2>2, <2>4, StageKept
  <2>6. emitted' \subseteq Mark
    BY <1>2, <2>3, PruneEffect DEF HuntTypes
  <2> QED
    BY <2>1, <2>5, <2>6 DEF HuntTypes
<1>3. ASSUME NEW w \in Worker, ReadPartials(w) PROVE HuntTypes'
  <2>1. UNCHANGED <<stored, findings, incidents, partials, emitted, analysis, stamp, assessed>>
    BY <1>3 DEF ReadPartials
  <2>2. PICK j \in Job : /\ job' = [job EXCEPT ![w] = j]
                         /\ j.pc = "advance" /\ j.found = job[w].found
    BY <1>3, ReadEffect
  <2>3. job[w].found = <<>>
    BY <1>3, AtIs DEF ReadPartials, Stage
  <2>4. Stage(j)'
    BY <2>2, <2>3 DEF Stage
  <2>5. /\ job' \in [Worker -> Job \cup {NoJob}]
        /\ \A v \in Worker : job'[v] # NoJob => Stage(job[v])'
    BY <2>1, <2>2, <2>4, StageKept
  <2> QED
    BY <2>1, <2>5 DEF HuntTypes
<1>4. ASSUME NEW w \in Worker, AdvancePartials(w) PROVE HuntTypes'
  <2>1. UNCHANGED <<stored, findings, incidents, analysis, stamp, assessed>>
    BY <1>4 DEF AdvancePartials
  <2>2. PICK j \in Job, new \in Seq(RuleMatch) :
           /\ partials' = [partials EXCEPT ![job[w].rule][Group(job[w].event)] =
                             Trimmed(Alive(job[w].rule, job[w].seen, job[w].event, job[w].score))]
           /\ emitted' = {m \in emitted : \A n \in ToSet(new) : Signature(m) # Signature(n)}
                           \cup {[rule |-> n.rule, ids |-> n.ids, at |-> n.last] : n \in ToSet(new)}
           /\ job' = [job EXCEPT ![w] = j]
           /\ (j.pc = "read" /\ j.found = job[w].found) \/ j.pc = "finding"
    BY <1>4, AdvanceEffect DEF MatchStep
  <2>3. /\ job[w].found = <<>> /\ job[w].rule \in RuleIds /\ job[w].seen \in Seq(Partial)
        /\ job[w].event \in Event /\ job[w].score \in Nat
    BY <1>4, AtIs DEF AdvancePartials, Stage, Job
  <2>4. Stage(j)'
    BY <2>2, <2>3 DEF Stage
  <2>5. /\ job' \in [Worker -> Job \cup {NoJob}]
        /\ \A v \in Worker : job'[v] # NoJob => Stage(job[v])'
    BY <2>1, <2>2, <2>4, StageKept
  <2>6. partials' \in [RuleIds -> [Groups -> Seq(Partial)]]
    <3>1. PICK t \in Seq(Partial) : t = Trimmed(Alive(job[w].rule, job[w].seen, job[w].event, job[w].score))
      BY <2>3, AliveIs, TrimmedIs
    <3>2. partials' = [partials EXCEPT ![job[w].rule][Group(job[w].event)] = t]
      BY <2>2, <3>1
    <3> QED
      BY <2>3, <3>2 DEF HuntTypes
  <2>7. emitted' \subseteq Mark
    <3>1. ASSUME NEW n \in ToSet(new)
          PROVE  [rule |-> n.rule, ids |-> n.ids, at |-> n.last] \in Mark
      <4>1. n \in RuleMatch
        BY <3>1 DEF ToSet
      <4> QED
        BY <4>1 DEF RuleMatch, Mark
    <3> QED
      BY <2>2, <3>1 DEF HuntTypes
  <2> QED
    BY <2>1, <2>5, <2>6, <2>7 DEF HuntTypes
<1>5. ASSUME NEW w \in Worker, InsertFinding(w) PROVE HuntTypes'
  <2>1. UNCHANGED <<stored, incidents, partials, emitted, analysis, stamp, assessed>>
    BY <1>5 DEF InsertFinding
  <2>2. PICK f \in Finding : /\ f = Head(job[w].found) /\ findings' = Append(findings, f)
                             /\ job[w].found # <<>>
    BY <1>5, InsertEffect
  <2>3. PICK j \in Job : /\ job' = [job EXCEPT ![w] = j] /\ j.pc = "upsert"
                         /\ j.found = job[w].found
                         /\ j.incident \in Pending /\ j.incident.fid = Len(findings) + 1
                         /\ j.incident.key # None =>
                              j.incident.key \in DOMAIN incidents /\ j.incident.was \in Incident
    BY <1>5, InsertEffect
  <2>4. /\ findings' \in Seq(Finding) /\ DOMAIN findings \subseteq DOMAIN findings'
        /\ Len(findings) + 1 \in DOMAIN findings'
    BY <2>2, AppendProperties DEF HuntTypes
  <2>5. Stage(j)'
    BY <2>1, <2>2, <2>3, <2>4 DEF Stage
  <2>6. /\ job' \in [Worker -> Job \cup {NoJob}]
        /\ \A v \in Worker : job'[v] # NoJob => Stage(job[v])'
    BY <2>1, <2>3, <2>4, <2>5, StageKept
  <2> QED
    BY <2>1, <2>4, <2>6 DEF HuntTypes
<1>6. ASSUME NEW w \in Worker, UpsertIncident(w) PROVE HuntTypes'
  <2>1. UNCHANGED <<stored, findings, partials, emitted, analysis, assessed>> /\ stamp' = stamp + 1
    BY <1>6 DEF UpsertIncident
  <2>2. PICK j \in Job : job' = [job EXCEPT ![w] = j] /\ j.pc = "finding"
    BY <1>6, UpsertEffect
  <2>3. /\ Head(job[w].found) \in Finding /\ job[w].pc = "upsert"
        /\ job[w].incident \in Pending /\ job[w].incident.fid \in Nat /\ stamp \in Nat
        /\ job[w].incident.key # None =>
              job[w].incident.key \in DOMAIN incidents /\ job[w].incident.was \in Incident
    BY <1>6, UpsertEffect DEF Stage, Pending, HuntTypes
  <2>4. incidents' \in Seq(Incident) /\ DOMAIN incidents \subseteq DOMAIN incidents'
    <3>1. CASE job[w].incident.key = None
      <4>1. PICK i \in Incident : incidents' = Append(incidents, i)
        BY <1>6, <2>3, <3>1, UpsertEffect, CreatedIs
      <4> QED
        BY <4>1, AppendProperties DEF HuntTypes
    <3>2. CASE job[w].incident.key # None
      <4>1. PICK i \in Incident : incidents' = [incidents EXCEPT ![job[w].incident.key] = i]
        BY <1>6, <2>3, <3>2, UpsertEffect, MergedIs
      <4> QED
        BY <4>1, ReplacedIs DEF HuntTypes
    <3> QED
      BY <3>1, <3>2
  <2>5. Stage(j)'
    BY <2>2 DEF Stage
  <2>6. /\ job' \in [Worker -> Job \cup {NoJob}]
        /\ \A v \in Worker : job'[v] # NoJob => Stage(job[v])'
    BY <2>1, <2>2, <2>4, <2>5, StageKept
  <2>7. stamp' \in Nat
    BY <2>1, <2>3
  <2> QED
    BY <2>1, <2>4, <2>6, <2>7 DEF HuntTypes
<1>7. ASSUME NEW w \in Worker, learn(w) PROVE HuntTypes'
  <2>1. /\ UNCHANGED <<stored, findings, incidents, partials, emitted, analysis, stamp, assessed>>
    BY <1>7 DEF learn
  <2>2. PICK j \in Job \cup {NoJob} : /\ job' = [job EXCEPT ![w] = j]
                                      /\ j # NoJob => j.pc = "finding"
    BY <1>7, LearnEffect
  <2>3. j # NoJob => Stage(j)'
    BY <2>2 DEF Stage
  <2>4. /\ job' \in [Worker -> Job \cup {NoJob}]
        /\ \A v \in Worker : job'[v] # NoJob => Stage(job[v])'
    BY <2>1, <2>2, <2>3, StageKept
  <2> QED
    BY <2>1, <2>4 DEF HuntTypes
<1>8. ASSUME UNCHANGED <<stored, findings, partials, emitted, stamp, job, assessed>>,
             incidents' \in Seq(Incident), DOMAIN incidents' = DOMAIN incidents,
             analysis' \in [key : Nat, was : Incident] \cup {None}
      PROVE  HuntTypes'
  BY <1>8 DEF HuntTypes, Stage
<1>9. ASSUME NEW k \in DOMAIN incidents, analyze_incident(k) PROVE HuntTypes'
  <2>1. k \in Nat /\ incidents[k] \in Incident
    BY DEF HuntTypes
  <2>2. analysis' \in [key : Nat, was : Incident]
    BY <1>9, <2>1 DEF analyze_incident
  <2> QED
    BY <1>8, <1>9, <2>2 DEF analyze_incident, HuntTypes
<1>10. CASE AnalysisDone
  <2>1. analysis \in [key : Nat, was : Incident] /\ analysis' = None
    BY <1>10 DEF AnalysisDone, HuntTypes
  <2>2. incidents' \in Seq(Incident) /\ DOMAIN incidents' = DOMAIN incidents
    <3>1. CASE incidents' = incidents
      BY <3>1 DEF HuntTypes
    <3>2. CASE incidents' = [incidents EXCEPT ![analysis.key] = analysis.was]
      <4>1. analysis.was \in Incident
        BY <2>1
      <4> QED
        BY <3>2, <4>1, ReplacedIs DEF HuntTypes
    <3> QED
      BY <1>10, <3>1, <3>2 DEF AnalysisDone
  <2> QED
    BY <1>8, <1>10, <2>1, <2>2 DEF AnalysisDone
<1>11. CASE Restart
  <2>1. [r \in RuleIds |-> [g \in Groups |-> <<>>]] \in [RuleIds -> [Groups -> Seq(Partial)]]
    <3>1. PICK none : none = <<>> /\ none \in Seq(Partial)
      BY EmptySeq
    <3> QED
      BY <3>1
  <2>2. /\ UNCHANGED <<stored, findings, incidents, stamp, assessed>> /\ emitted' = {}
        /\ partials' = [r \in RuleIds |-> [g \in Groups |-> <<>>]]
        /\ job' = [w \in Worker |-> NoJob] /\ analysis' = None
    BY <1>11 DEF Restart
  <2> QED
    BY <2>1, <2>2 DEF HuntTypes
<1>12. CASE UNCHANGED huntVars
  BY <1>8, <1>12 DEF huntVars, HuntTypes
<1>13. ASSUME NEW w \in Worker, NEW e \in Event, ingest_agent_event(w, e) PROVE HuntTypes'
  <2>1. CASE ingest(w, e, "agent")
    BY <1>1, <2>1
  <2>2. CASE ~ingest(w, e, "agent")
    BY <1>8, <1>13, <2>2 DEF ingest_agent_event, HuntTypes
  <2> QED
    BY <2>1, <2>2
<1>14. ASSUME NEW w \in Worker, NEW e \in Event, ingest_normalized(w, e) PROVE HuntTypes'
  BY <1>1, <1>14 DEF ingest_normalized
<1> QED
  BY <1>2, <1>3, <1>4, <1>5, <1>6, <1>7, <1>9, <1>10, <1>11, <1>12, <1>13, <1>14 DEF HuntNext

\* The engine starts with empty tables and no job.
LEMMA HuntTypesInit == HuntInit => HuntTypes
<1>1. PICK none : none = <<>> /\ none \in Seq(Partial) /\ none \in Seq(Finding)
                  /\ none \in Seq(Incident)
  BY EmptySeq
<1> QED
  BY <1>1 DEF HuntInit, HuntTypes

-----------------------------------------------------------------------------
(***************************************************************************)
(* Sound matches.  MatchIsSound is about the findings table.  What goes    *)
(* there has passed through the partial matches in _state, the copy of     *)
(* them that a worker has read and will write back over whatever is there  *)
(* by then, and the lists of matches and findings it has in hand; all of   *)
(* them must be sound, and stay so when the tables change under them.      *)
(***************************************************************************)
SoundMatch(m) ==
    /\ ToSet(m.ids) \subseteq stored
    /\ m.rule # 0 => /\ Means(m.rule, m.ids)
                      /\ m.score >= Rules[m.rule].minimum /\ Scored(m.ids, m.score)

SoundJob(j) ==
    /\ j.event \in stored /\ j.score \in assessed[j.event]
    /\ j.pc = "advance" =>
          \A i \in DOMAIN j.seen : SoundPartial(j.rule, Group(j.event), j.seen[i])
    /\ \A i \in DOMAIN j.matches : SoundMatch(j.matches[i]) /\ Last(j.matches[i].ids) = j.event
    /\ \A i \in DOMAIN j.found : SoundMatch(j.found[i]) /\ Last(j.found[i].ids) = j.event
    /\ j.pc = "upsert" => Last(findings[j.incident.fid].ids) = j.event

SoundState ==
    \A r \in RuleIds, g \in Groups : \A i \in DOMAIN partials[r][g] :
        SoundPartial(r, g, partials[r][g][i])

SoundInv ==
    /\ SoundState
    /\ \A w \in Worker : job[w] # NoJob => SoundJob(job[w])
    /\ \A k \in DOMAIN findings : SoundMatch(findings[k])

\* What is sound stays sound when the store grows and events are assessed again.
LEMMA SoundLasts ==
    ASSUME stored \subseteq stored', \A e \in stored : assessed[e] \subseteq assessed'[e]
    PROVE  /\ \A r, g, p : SoundPartial(r, g, p) => SoundPartial(r, g, p)'
           /\ \A m : SoundMatch(m) => SoundMatch(m)'
<1>1. ASSUME NEW ids, NEW score, ToSet(ids) \subseteq stored, Scored(ids, score)
      PROVE  Scored(ids, score)'
  BY <1>1 DEF Scored
<1>2. ASSUME NEW r, NEW g, NEW p, SoundPartial(r, g, p) PROVE SoundPartial(r, g, p)'
  <2>1. OnTheWay(r, p.ids)' = OnTheWay(r, p.ids)
    BY Zenon DEF OnTheWay, LatestBinding, Binds, get_field
  <2>2. \A v : Leaves(r, p.ids, v, p.bindings[v])' = Leaves(r, p.ids, v, p.bindings[v])
    BY Zenon DEF Leaves, LatestBinding, Binds, get_field
  <2>3. OnTheWay(r, p.ids)' /\ \A v \in Variable : Leaves(r, p.ids, v, p.bindings[v])'
    BY <1>2, <2>1, <2>2, Zenon DEF SoundPartial
  <2>4. ToSet(p.ids) \subseteq stored /\ ToSet(p.ids) \subseteq stored'
    BY <1>2, Zenon DEF SoundPartial
  <2>5. Scored(p.ids, p.score)'
    BY <1>1, <1>2, <2>4, Zenon DEF SoundPartial
  <2> QED
    BY <1>2, <2>3, <2>4, <2>5, Zenon DEF SoundPartial
<1>3. ASSUME NEW m, SoundMatch(m) PROVE SoundMatch(m)'
  <2>1. Means(m.rule, m.ids)' = Means(m.rule, m.ids)
    BY Zenon DEF Means, LatestBinding, Binds, get_field
  <2>2. m.rule # 0 => Scored(m.ids, m.score)'
    BY <1>1, <1>3, Zenon DEF SoundMatch
  <2>3. ToSet(m.ids) \subseteq stored'
    BY <1>3, Zenon DEF SoundMatch
  <2> QED
    BY <1>3, <2>1, <2>2, <2>3, Zenon DEF SoundMatch
<1> QED
  BY <1>2, <1>3, Zenon

\* A step that moves one worker keeps SoundInv when what it adds to the
\* findings, to the partial matches and to its own job is sound.
LEMMA SoundKept ==
    ASSUME HuntTypes, SoundInv, NEW w \in Worker, NEW j \in Job \cup {NoJob},
           job' = [job EXCEPT ![w] = j],
           stored \subseteq stored', \A e \in Event : assessed[e] \subseteq assessed'[e],
           \A k \in DOMAIN findings : k \in DOMAIN findings' /\ findings'[k] = findings[k],
           \A k \in DOMAIN findings' \ DOMAIN findings : SoundMatch(findings[k])',
           UNCHANGED partials \/ SoundState',
           j # NoJob => SoundJob(j)'
    PROVE  SoundInv'
<1>0. \A e \in stored : e \in Event /\ assessed[e] \subseteq assessed'[e]
  BY DEF HuntTypes
<1>1. \A r, g, p : SoundPartial(r, g, p) => SoundPartial(r, g, p)'
  BY <1>0, SoundLasts
<1>2. \A m : SoundMatch(m) => SoundMatch(m)'
  BY <1>0, SoundLasts
<1>3. SoundState'
  <2>1. CASE UNCHANGED partials
    BY <1>1, <2>1 DEF SoundInv, SoundState
  <2> QED
    BY <2>1
<1>4. ASSUME NEW v \in Worker, job'[v] # NoJob PROVE SoundJob(job[v])'
  <2>1. CASE v = w
    <3>1. job'[v] = j
      BY <2>1 DEF HuntTypes
    <3> QED
      BY <1>4, <3>1 DEF SoundJob
  <2>2. CASE v # w
    <3>1. job'[v] = job[v] /\ SoundJob(job[v]) /\ Stage(job[v])
      BY <1>4, <2>2 DEF HuntTypes, SoundInv
    <3>2. PICK i : i = job[v] /\ SoundJob(i) /\ Stage(i) /\ job'[v] = i
      BY <3>1
    <3>3. i.event \in stored' /\ i.score \in assessed'[i.event]
      BY <1>0, <3>2 DEF SoundJob
    <3>4. i.pc = "advance" =>
             \A k \in DOMAIN i.seen : SoundPartial(i.rule, Group(i.event), i.seen[k])'
      BY <1>1, <3>2 DEF SoundJob
    <3>5. /\ \A k \in DOMAIN i.matches : SoundMatch(i.matches[k])' /\ Last(i.matches[k].ids) = i.event
          /\ \A k \in DOMAIN i.found : SoundMatch(i.found[k])' /\ Last(i.found[k].ids) = i.event
      BY <1>2, <3>2 DEF SoundJob
    <3>6. i.pc = "upsert" => Last(findings'[i.incident.fid].ids) = i.event
      BY <3>2 DEF SoundJob, Stage
    <3> QED
      BY <3>2, <3>3, <3>4, <3>5, <3>6 DEF SoundJob
  <2> QED
    BY <2>1, <2>2
<1>5. ASSUME NEW k \in DOMAIN findings' PROVE SoundMatch(findings[k])'
  <2>1. CASE k \in DOMAIN findings
    <3>1. SoundMatch(findings[k]) /\ findings'[k] = findings[k]
      BY <2>1 DEF SoundInv
    <3>2. PICK m : m = findings[k] /\ SoundMatch(m) /\ findings'[k] = m
      BY <3>1
    <3>3. SoundMatch(m)'
      BY <1>2, <3>2
    <3> QED
      BY <3>2, <3>3 DEF SoundMatch, Scored
  <2> QED
    BY <2>1
<1> QED
  BY <1>3, <1>4, <1>5 DEF SoundInv

\* The members of two sequences put together.
LEMMA ConcatIs ==
    ASSUME NEW S, NEW a \in Seq(S), NEW b \in Seq(S), NEW c, c = a \o b
    PROVE  /\ c \in Seq(S)
           /\ \A k \in DOMAIN c :
                 \/ k \in DOMAIN a /\ c[k] = a[k]
                 \/ \E i \in DOMAIN b : k = Len(a) + i /\ c[k] = b[i]
<1>1. PICK m \in Nat, n \in Nat : /\ m = Len(a) /\ DOMAIN a = 1..m
                                  /\ n = Len(b) /\ DOMAIN b = 1..n
  OBVIOUS
<1>2. /\ c \in Seq(S) /\ Len(c) = m + n
      /\ \A i \in 1..(m + n) : c[i] = IF i <= m THEN a[i] ELSE b[i - m]
  <2>1. /\ a \o b \in Seq(S) /\ Len(a \o b) = Len(a) + Len(b)
        /\ \A i \in 1..(Len(a) + Len(b)) :
              (a \o b)[i] = IF i <= Len(a) THEN a[i] ELSE b[i - Len(a)]
    BY ConcatProperties
  <2> QED
    BY <1>1, <2>1
<1>3. DOMAIN c = 1..(m + n)
  BY <1>2
<1>4. ASSUME NEW k \in 1..(m + n)
      PROVE  \/ k \in 1..m /\ c[k] = a[k]
             \/ \E i \in 1..n : k = m + i /\ c[k] = b[i]
  <2>1. CASE k <= m
    BY <1>2, <2>1
  <2>2. CASE ~(k <= m)
    <3>1. k - m \in 1..n /\ k = m + (k - m) /\ c[k] = b[k - m]
      BY <1>2, <2>2
    <3> QED
      BY <3>1
  <2> QED
    BY <2>1, <2>2
<1>5. ASSUME NEW k \in DOMAIN c
      PROVE  \/ k \in DOMAIN a /\ c[k] = a[k]
             \/ \E i \in DOMAIN b : k = Len(a) + i /\ c[k] = b[i]
  <2>1. k \in 1..(m + n)
    BY <1>3
  <2> QED
    BY <1>1, <1>4, <2>1, Zenon
<1> QED
  BY <1>2, <1>5

\* The matches that an event completes, and those left of them, are sound.
LEMMA AdvanceSound ==
    ASSUME HuntTypes, SoundInv, NEW w \in Worker, AdvancePartials(w)
    PROVE  SoundInv'
<1>1. PICK known \in {job[w].from, emitted}, j \in Job,
           new \in Seq(RuleMatch), all \in Seq(RuleMatch) : MatchStep(w, known, j, new, all)
  BY AdvanceEffect
<1>2. PICK r \in RuleIds, e \in Event, seen \in Seq(Partial), matches \in Seq(RuleMatch), score \in Nat :
         /\ score = job[w].score /\ score \in assessed[e]
         /\ r = job[w].rule /\ e = job[w].event /\ seen = job[w].seen
         /\ matches = job[w].matches
         /\ e \in stored
         /\ \A i \in DOMAIN seen : SoundPartial(r, Group(e), seen[i])
         /\ \A i \in DOMAIN matches : SoundMatch(matches[i]) /\ Last(matches[i].ids) = e
         /\ job[w].found = <<>>
  <2>1. job[w] \in Job /\ job[w].pc = "advance" /\ SoundJob(job[w]) /\ Stage(job[w])
    BY AtIs DEF AdvancePartials, SoundInv
  <2> QED
    BY <2>1 DEF Job, SoundJob, Stage
<1>3. /\ new = Completed(r, seen, known, e, score)
      /\ all = matches \o new
      /\ partials' = [partials EXCEPT ![r][Group(e)] = Trimmed(Alive(r, seen, e, score))]
      /\ job' = [job EXCEPT ![w] = j]
      /\ j.event = e /\ j.score = score
      /\ \/ j.pc = "read" /\ j.matches = all /\ j.found = <<>>
         \/ /\ j.pc = "finding" /\ j.matches = <<>>
            /\ j.found = _suppress_subsumed(all) \o
                           (IF job[w].lead THEN <<Lead(e, score)>> ELSE <<>>)
  BY <1>1, <1>2 DEF MatchStep
<1>4. PICK t \in Seq(Partial) : /\ t = Trimmed(Alive(r, seen, e, score))
                                /\ \A k \in DOMAIN t : SoundPartial(r, Group(e), t[k])
  <2>1. PICK alive \in Seq(Partial) :
           /\ alive = Alive(r, seen, e, score)
           /\ \A k \in DOMAIN alive :
                 \/ alive[k] = Opened(r, e, score) /\ _step_matches(r, 1, e, Unbound)
                 \/ \E i \in DOMAIN seen :
                       \/ alive[k] = seen[i]
                       \/ /\ alive[k] = Advanced(r, seen[i], e, score)
                          /\ Continues(r, seen[i], e)
                          /\ ~Complete(r, Advanced(r, seen[i], e, score))
    BY AliveIs
  <2>2. ASSUME NEW k \in DOMAIN alive PROVE SoundPartial(r, Group(e), alive[k])
    <3>1. CASE alive[k] = Opened(r, e, score) /\ _step_matches(r, 1, e, Unbound)
      BY <1>2, <3>1, OpenedSound
    <3>2. CASE \E i \in DOMAIN seen : alive[k] = seen[i]
      BY <1>2, <3>2
    <3>3. CASE \E i \in DOMAIN seen : /\ alive[k] = Advanced(r, seen[i], e, score)
                                      /\ Continues(r, seen[i], e)
                                      /\ ~Complete(r, Advanced(r, seen[i], e, score))
      <4>1. PICK i \in DOMAIN seen : /\ alive[k] = Advanced(r, seen[i], e, score)
                                     /\ Continues(r, seen[i], e)
                                     /\ ~Complete(r, Advanced(r, seen[i], e, score))
        BY <3>3
      <4>2. seen[i] \in Partial /\ SoundPartial(r, Group(e), seen[i])
        BY <1>2
      <4> QED
        BY <1>2, <4>1, <4>2, AdvancedSound
    <3> QED
      BY <2>1, <3>1, <3>2, <3>3
  <2>3. PICK t \in Seq(Partial) : /\ t = Trimmed(alive)
                                  /\ \A k \in DOMAIN t : \E i \in DOMAIN alive : t[k] = alive[i]
    BY TrimmedIs
  <2> QED
    BY <2>1, <2>2, <2>3
<1>5. UNCHANGED <<stored, findings, assessed>>
  BY DEF AdvancePartials, tables
<1>6. \A x, y, p : SoundPartial(x, y, p) => SoundPartial(x, y, p)'
  BY <1>5, SoundLasts
<1>7. \A m : SoundMatch(m) => SoundMatch(m)'
  BY <1>5, SoundLasts
<1>8. SoundState'
  <2>1. partials' = [partials EXCEPT ![r][Group(e)] = t]
    BY <1>3, <1>4
  <2>2. ASSUME NEW x \in RuleIds, NEW y \in Groups, NEW i \in DOMAIN partials'[x][y]
        PROVE  SoundPartial(x, y, partials'[x][y][i])
    <3>1. CASE x = r /\ y = Group(e)
      <4>1. partials'[x][y] = t
        BY <2>1, <3>1 DEF HuntTypes
      <4> QED
        BY <1>4, <2>2, <3>1, <4>1
    <3>2. CASE ~(x = r /\ y = Group(e))
      <4>1. partials'[x][y] = partials[x][y]
        BY <2>1, <3>2 DEF HuntTypes
      <4> QED
        BY <2>2, <4>1 DEF SoundInv, SoundState
    <3> QED
      BY <3>1, <3>2
  <2>3. ASSUME NEW x \in RuleIds, NEW y \in Groups, NEW i \in DOMAIN partials'[x][y]
        PROVE  SoundPartial(x, y, partials[x][y][i])'
    <3>1. PICK p : p = partials'[x][y][i]
      OBVIOUS
    <3>2. SoundPartial(x, y, p)'
      BY <1>6, <2>2, <3>1
    <3> QED
      BY <3>1, <3>2 DEF SoundPartial, Scored
  <2> QED
    BY <2>3 DEF SoundState
<1>9. ASSUME NEW k \in DOMAIN new PROVE SoundMatch(new[k]) /\ Last(new[k].ids) = e
  <2>0. ComesFrom(r, seen, known, e, score, new)
    BY <1>3, CompletedIs
  <2>1. PICK i \in DOMAIN seen :
           /\ Completes(r, seen[i], known, e, score)
           /\ new[k] = [rule |-> r, ids |-> Append(seen[i].ids, e),
                        first |-> seen[i].started, last |-> Data[e].at,
                        score |-> Advanced(r, seen[i], e, score).score]
    BY <1>9, <2>0 DEF ComesFrom
  <2>2. seen[i] \in Partial /\ SoundPartial(r, Group(e), seen[i])
    BY <1>2
  <2>3. PICK ids : ids = Append(seen[i].ids, e) /\ ToSet(ids) \subseteq stored
                   /\ ids[Len(ids)] = e /\ Means(r, ids)
                   /\ Scored(ids, Advanced(r, seen[i], e, score).score)
    BY <1>2, <2>1, <2>2, AdvancedSound DEF Completes
  <2>4. /\ new[k].ids = ids /\ new[k].rule = r
        /\ new[k].score = Advanced(r, seen[i], e, score).score
        /\ new[k].score >= Rules[r].minimum
    BY <2>1, <2>3 DEF Completes
  <2> QED
    BY <2>3, <2>4 DEF SoundMatch, Last
<1>10. ASSUME NEW k \in DOMAIN all PROVE SoundMatch(all[k]) /\ Last(all[k].ids) = e
  <2>1. (k \in DOMAIN matches /\ all[k] = matches[k]) \/ \E i \in DOMAIN new : all[k] = new[i]
    BY <1>3, ConcatIs
  <2> QED
    BY <1>2, <1>9, <2>1
<1>11. ASSUME j.pc = "finding", NEW k \in DOMAIN j.found
       PROVE  SoundMatch(j.found[k]) /\ Last(j.found[k].ids) = e
  <2>1. PICK a \in Seq(RuleMatch) :
           a = _suppress_subsumed(all) /\ \A i \in DOMAIN a : \E n \in DOMAIN all : a[i] = all[n]
    BY SuppressedIs
  <2>2. a \in Seq(Finding)
    <3>1. RuleMatch \subseteq Finding
      BY DEF RuleMatch, Finding
    <3> QED
      BY <3>1, SeqMonotonic
  <2>3. PICK f \in Finding : f = Lead(e, score) /\ SoundMatch(f) /\ Last(f.ids) = e
    <3>1. Lead(e, score) \in Finding /\ Lead(e, score).rule = 0 /\ Lead(e, score).ids = <<e>>
      BY LeadIs
    <3>2. ToSet(<<e>>) \subseteq stored /\ Last(<<e>>) = e
      BY <1>2 DEF ToSet, Last
    <3> QED
      BY <3>1, <3>2 DEF SoundMatch
  <2>4. PICK b \in Seq(Finding) : /\ b = (IF job[w].lead THEN <<Lead(e, score)>> ELSE <<>>)
                                  /\ \A i \in DOMAIN b : b[i] = f
    <3>1. CASE job[w].lead
      <4>1. PICK b : b = <<f>> /\ b \in Seq(Finding) /\ \A i \in DOMAIN b : b[i] = f
        <5>1. /\ <<f>> \in Seq(Finding) /\ DOMAIN <<f>> = {1} /\ <<f>>[1] = f
          OBVIOUS
        <5> QED
          BY <5>1
      <4> QED
        BY <2>3, <3>1, <4>1
    <3>2. CASE ~job[w].lead
      <4>1. PICK b : b = <<>> /\ b \in Seq(Finding) /\ DOMAIN b = {}
        <5>1. <<>> \in Seq(Finding) /\ DOMAIN <<>> = {}
          OBVIOUS
        <5> QED
          BY <5>1
      <4> QED
        BY <3>2, <4>1
    <3> QED
      BY <3>1, <3>2
  <2>5. PICK c : c = j.found /\ c = a \o b
    BY <1>3, <1>11, <2>1, <2>4
  <2>6. (k \in DOMAIN a /\ c[k] = a[k]) \/ \E i \in DOMAIN b : c[k] = b[i]
    BY <1>11, <2>2, <2>4, <2>5, ConcatIs
  <2>7. CASE k \in DOMAIN a /\ c[k] = a[k]
    <3>1. PICK n \in DOMAIN all : c[k] = all[n]
      BY <2>1, <2>7
    <3> QED
      BY <1>10, <2>5, <3>1
  <2>8. CASE \E i \in DOMAIN b : c[k] = b[i]
    BY <2>3, <2>4, <2>5, <2>8
  <2> QED
    BY <2>6, <2>7, <2>8
<1>12. SoundJob(j)'
  <2>1. j.event \in stored' /\ j.score \in assessed'[j.event] /\ j.pc # "advance" /\ j.pc # "upsert"
    BY <1>2, <1>3, <1>5
  <2>2. \A i \in DOMAIN j.matches : SoundMatch(j.matches[i])' /\ Last(j.matches[i].ids) = j.event
    <3>1. CASE j.matches = all
      <4>1. ASSUME NEW i \in DOMAIN all PROVE SoundMatch(all[i])' /\ Last(all[i].ids) = e
        <5>1. PICK m : m = all[i] /\ SoundMatch(m) /\ Last(m.ids) = e
          BY <1>10
        <5>2. SoundMatch(m)'
          BY <1>7, <5>1
        <5> QED
          BY <5>1, <5>2 DEF SoundMatch, Scored
      <4> QED
        BY <1>3, <3>1, <4>1
    <3>2. CASE j.matches = <<>>
      BY <3>2
    <3> QED
      BY <1>3, <3>1, <3>2
  <2>3. \A i \in DOMAIN j.found : SoundMatch(j.found[i])' /\ Last(j.found[i].ids) = j.event
    BY <1>3, <1>7, <1>11
  <2> QED
    BY <2>1, <2>2, <2>3 DEF SoundJob
<1> QED
  BY <1>3, <1>5, <1>8, <1>12, SoundKept

\* Every step keeps the table, the memory and the jobs sound.
LEMMA SoundInvKept ==
    ASSUME HuntTypes, SoundInv, [HuntNext]_huntVars PROVE SoundInv'
<1> USE DEF tables, engine, history
<1>1. ASSUME NEW w \in Worker, NEW e \in Event, NEW path \in {"agent", "api"},
             ingest(w, e, path)
      PROVE  SoundInv'
  <2>1. PICK j \in Job : /\ job' = [job EXCEPT ![w] = j] /\ j.pc = "prune" /\ j.event = e
                         /\ j.matches = <<>> /\ j.found = <<>>
                         /\ assessed' = [assessed EXCEPT ![e] = @ \cup {j.score}]
    BY <1>1, IngestEffect
  <2>2. stored' = stored \cup {e} /\ UNCHANGED <<findings, partials>>
    BY <1>1 DEF ingest
  <2>3. j.score \in assessed'[e] /\ \A x \in Event : assessed[x] \subseteq assessed'[x]
    BY <2>1 DEF HuntTypes
  <2>4. SoundJob(j)'
    BY <2>1, <2>2, <2>3 DEF SoundJob
  <2> QED
    BY <2>1, <2>2, <2>3, <2>4, SoundKept
\* A worker goes on with what it has.
<1>2. ASSUME NEW w \in Worker, NEW j \in Job, job[w] \in Job,
             job' = [job EXCEPT ![w] = j], UNCHANGED <<stored, partials, findings, assessed>>,
             j.event = job[w].event, j.score = job[w].score, j.matches = job[w].matches,
             j.found = job[w].found \/ (job[w].found # <<>> /\ j.found = Tail(job[w].found)),
             j.pc = "advance" => j.seen = partials[j.rule][Group(j.event)], j.pc # "upsert"
      PROVE  SoundInv'
  <2>1. PICK i \in Job : i = job[w] /\ SoundJob(i)
    BY <1>2, JobIs DEF SoundInv
  <2>2. j.event \in stored' /\ j.score \in assessed'[j.event] /\ j.event \in Event /\ j.rule \in RuleIds
    BY <1>2, <2>1 DEF SoundJob, Job
  <2>3. \A m : SoundMatch(m) => SoundMatch(m)'
    BY <1>2, SoundLasts
  <2>4. \A x, y, p : SoundPartial(x, y, p) => SoundPartial(x, y, p)'
    BY <1>2, SoundLasts
  <2>5. \A n \in DOMAIN j.matches : SoundMatch(j.matches[n])' /\ Last(j.matches[n].ids) = j.event
    BY <1>2, <2>1, <2>3 DEF SoundJob
  <2>6. ASSUME NEW n \in DOMAIN j.found
        PROVE  SoundMatch(j.found[n]) /\ Last(j.found[n].ids) = j.event
    <3>1. CASE j.found = job[w].found
      BY <1>2, <2>1, <2>6, <3>1 DEF SoundJob
    <3>2. CASE job[w].found # <<>> /\ j.found = Tail(job[w].found)
      <4>1. PICK q \in Seq(Finding) : q = i.found /\ q # <<>> /\ j.found = Tail(q)
        BY <2>1, <3>2 DEF Job
      <4>2. PICK t \in Seq(Finding) : /\ t = Tail(q) /\ Len(t) = Len(q) - 1
                                      /\ \A k \in 1..Len(t) : t[k] = q[k + 1]
        <5>1. /\ Tail(q) \in Seq(Finding) /\ Len(Tail(q)) = Len(q) - 1
              /\ \A k \in 1..Len(Tail(q)) : Tail(q)[k] = q[k + 1]
          BY <4>1, HeadTailProperties
        <5> QED
          BY <5>1
      <4>3. n \in 1..Len(t) /\ n + 1 \in 1..Len(q)
        BY <2>6, <4>1, <4>2
      <4>4. j.found[n] = q[n + 1] /\ n + 1 \in DOMAIN q
        BY <4>1, <4>2, <4>3
      <4> QED
        BY <1>2, <2>1, <4>1, <4>4 DEF SoundJob
    <3> QED
      BY <1>2, <3>1, <3>2
  <2>7. j.pc = "advance" =>
           \A n \in DOMAIN j.seen : SoundPartial(j.rule, Group(j.event), j.seen[n])'
    <3>1. Group(j.event) \in Groups
      BY <2>2 DEF Groups
    <3> QED
      BY <1>2, <2>2, <2>4, <3>1 DEF SoundInv, SoundState
  <2>8. SoundJob(j)'
    BY <1>2, <2>2, <2>3, <2>5, <2>6, <2>7 DEF SoundJob
  <2> QED
    BY <1>2, <2>8, SoundKept
<1>3. ASSUME NEW w \in Worker, job' = [job EXCEPT ![w] = NoJob],
             UNCHANGED <<stored, partials, findings, assessed>>
      PROVE  SoundInv'
  BY <1>3, SoundKept
<1>4. ASSUME UNCHANGED <<stored, partials, findings, job, assessed>> PROVE SoundInv'
  <2>1. \A x, y, p : SoundPartial(x, y, p) => SoundPartial(x, y, p)'
    BY <1>4, SoundLasts
  <2>2. \A m : SoundMatch(m) => SoundMatch(m)'
    BY <1>4, SoundLasts
  <2>3. SoundState'
    BY <1>4, <2>1 DEF SoundInv, SoundState
  <2>4. \A k \in DOMAIN findings' : SoundMatch(findings[k])'
    BY <1>4, <2>2 DEF SoundInv
  <2>5. ASSUME NEW w \in Worker, job'[w] # NoJob PROVE SoundJob(job[w])'
    BY <1>4, <2>1, <2>2, <2>5 DEF SoundInv, SoundJob
  <2> QED
    BY <2>3, <2>4, <2>5 DEF SoundInv
<1>5. ASSUME NEW w \in Worker, _prune_emitted(w) PROVE SoundInv'
  <2>1. UNCHANGED <<stored, partials, findings, assessed>>
    BY <1>5 DEF _prune_emitted
  <2>2. CASE job' = [job EXCEPT ![w] = NoJob]
    BY <1>3, <2>1, <2>2
  <2>3. CASE \E j \in Job :
               /\ job' = [job EXCEPT ![w] = j]
               /\ j.pc = "read" /\ j.event = job[w].event /\ j.path = job[w].path /\ j.score = job[w].score
               /\ j.matches = job[w].matches /\ j.found = job[w].found
    <3>1. PICK j \in Job :
             /\ job' = [job EXCEPT ![w] = j]
             /\ j.pc = "read" /\ j.event = job[w].event /\ j.score = job[w].score
             /\ j.matches = job[w].matches /\ j.found = job[w].found
      BY <2>3
    <3>2. job[w] \in Job
      BY <1>5, PruneEffect
    <3> QED
      BY <1>2, <2>1, <3>1, <3>2
  <2> QED
    BY <1>5, <2>2, <2>3, PruneEffect
<1>6. ASSUME NEW w \in Worker, ReadPartials(w) PROVE SoundInv'
  <2>1. UNCHANGED <<stored, partials, findings, assessed>>
    BY <1>6 DEF ReadPartials
  <2>2. PICK j \in Job :
           /\ job' = [job EXCEPT ![w] = j]
           /\ j.pc = "advance" /\ j.event = job[w].event /\ j.score = job[w].score
           /\ j.matches = job[w].matches /\ j.found = job[w].found
           /\ j.seen = partials[j.rule][Group(j.event)]
    BY <1>6, ReadEffect
  <2>3. job[w] \in Job
    BY <1>6, ReadEffect
  <2> QED
    BY <1>2, <2>1, <2>2, <2>3
<1>7. ASSUME NEW w \in Worker, InsertFinding(w) PROVE SoundInv'
  <2>1. UNCHANGED <<stored, partials, assessed>>
    BY <1>7 DEF InsertFinding
  <2>2. PICK f \in Finding : f = Head(job[w].found) /\ findings' = Append(findings, f)
    BY <1>7, InsertEffect
  <2>3. PICK j \in Job :
           /\ job' = [job EXCEPT ![w] = j]
           /\ j.pc = "upsert" /\ j.event = job[w].event /\ j.score = job[w].score
           /\ j.matches = job[w].matches /\ j.found = job[w].found
           /\ j.incident.fid = Len(findings) + 1
    BY <1>7, InsertEffect
  <2>4. PICK i \in Job : i = job[w] /\ SoundJob(i) /\ i.found # <<>>
    BY <1>7, InsertEffect, JobIs DEF SoundInv
  <2>5. SoundMatch(f) /\ Last(f.ids) = j.event
    <3>1. i.found \in Seq(Finding) /\ 1 \in DOMAIN i.found /\ f = i.found[1]
      BY <2>2, <2>4 DEF Job
    <3> QED
      BY <2>3, <2>4, <3>1 DEF SoundJob
  <2>6. PICK n \in Nat : /\ n = Len(findings) /\ DOMAIN findings = 1..n
                         /\ DOMAIN findings' = 1..(n + 1) /\ findings'[n + 1] = f
                         /\ \A k \in 1..n : findings'[k] = findings[k]
    <3>1. findings \in Seq(Finding)
      BY DEF HuntTypes
    <3>2. PICK n \in Nat : n = Len(findings) /\ DOMAIN findings = 1..n
      BY <3>1, LenProperties
    <3>3. findings' \in Seq(Finding) /\ Len(findings') = n + 1 /\ findings'[n + 1] = f
          /\ \A k \in 1..n : findings'[k] = findings[k]
      BY <2>2, <3>1, <3>2, AppendProperties
    <3>4. DOMAIN findings' = 1..(n + 1)
      BY <3>3
    <3> QED
      BY <3>2, <3>3, <3>4
  <2>7. \A m : SoundMatch(m) => SoundMatch(m)'
    BY <2>1, SoundLasts
  <2>8. SoundJob(j)'
    <3>1. j.event \in stored' /\ j.score \in assessed'[j.event]
      BY <2>1, <2>3, <2>4 DEF SoundJob
    <3>2. \A k \in DOMAIN j.matches : SoundMatch(j.matches[k])' /\ Last(j.matches[k].ids) = j.event
      BY <2>3, <2>4, <2>7 DEF SoundJob
    <3>3. \A k \in DOMAIN j.found : SoundMatch(j.found[k])' /\ Last(j.found[k].ids) = j.event
      BY <2>3, <2>4, <2>7 DEF SoundJob
    <3>4. Last(findings'[j.incident.fid].ids) = j.event
      BY <2>3, <2>5, <2>6
    <3> QED
      BY <2>3, <3>1, <3>2, <3>3, <3>4 DEF SoundJob
  <2>9. ASSUME NEW k \in DOMAIN findings' \ DOMAIN findings PROVE SoundMatch(findings[k])'
    <3>1. k = n + 1
      BY <2>6
    <3>2. SoundMatch(f)' /\ findings'[k] = f
      BY <2>5, <2>6, <2>7, <3>1
    <3> QED
      BY <3>2 DEF SoundMatch, Scored
  <2>10. \A k \in DOMAIN findings : k \in DOMAIN findings' /\ findings'[k] = findings[k]
    BY <2>6
  <2> QED
    BY <2>1, <2>3, <2>8, <2>9, <2>10, SoundKept
<1>8. ASSUME NEW w \in Worker, UpsertIncident(w) PROVE SoundInv'
  <2>1. UNCHANGED <<stored, partials, findings, assessed>>
    BY <1>8 DEF UpsertIncident
  <2>2. PICK j \in Job :
           /\ job' = [job EXCEPT ![w] = j]
           /\ j.pc = "finding" /\ j.event = job[w].event /\ j.score = job[w].score
           /\ j.matches = job[w].matches /\ j.found = Tail(job[w].found)
    BY <1>8, UpsertEffect
  <2>3. job[w] \in Job /\ job[w].found # <<>>
    BY <1>8, UpsertEffect
  <2> QED
    BY <1>2, <2>1, <2>2, <2>3
<1>9. ASSUME NEW w \in Worker, learn(w) PROVE SoundInv'
  <2>1. UNCHANGED <<stored, partials, findings, assessed>>
    BY <1>9 DEF learn
  <2>2. PICK j \in Job \cup {NoJob} :
           /\ job' = [job EXCEPT ![w] = j]
           /\ j # NoJob =>
                 /\ j.pc = "finding" /\ j.event = job[w].event /\ j.score = job[w].score
                 /\ j.matches = job[w].matches /\ j.found = job[w].found
    BY <1>9, LearnEffect
  <2>3. job[w] \in Job
    BY <1>9, LearnEffect
  <2> QED
    BY <1>2, <1>3, <2>1, <2>2, <2>3
<1>10. CASE Restart
  <2>1. /\ UNCHANGED <<stored, findings, assessed>> /\ job' = [w \in Worker |-> NoJob]
        /\ partials' = [r \in RuleIds |-> [g \in Groups |-> <<>>]]
    BY <1>10 DEF Restart
  <2>2. SoundState'
    BY <2>1 DEF SoundState
  <2>3. \A k \in DOMAIN findings' : SoundMatch(findings[k])'
    BY <2>1, SoundLasts DEF SoundInv
  <2> QED
    BY <2>1, <2>2, <2>3 DEF SoundInv
<1>11. ASSUME NEW w \in Worker, NEW e \in Event, ingest_agent_event(w, e) PROVE SoundInv'
  <2>1. CASE ingest(w, e, "agent")
    BY <1>1, <2>1
  <2>2. CASE ~ingest(w, e, "agent")
    BY <1>4, <1>11, <2>2 DEF ingest_agent_event
  <2> QED
    BY <2>1, <2>2
<1>12. ASSUME NEW w \in Worker, NEW e \in Event, ingest_normalized(w, e) PROVE SoundInv'
  BY <1>1, <1>12 DEF ingest_normalized
<1>13. ASSUME NEW k \in DOMAIN incidents, analyze_incident(k) PROVE SoundInv'
  BY <1>4, <1>13 DEF analyze_incident
<1>14. CASE AnalysisDone
  BY <1>4, <1>14 DEF AnalysisDone
<1>15. CASE UNCHANGED huntVars
  BY <1>4, <1>15 DEF huntVars
<1> QED
  BY <1>5, <1>6, <1>7, <1>8, <1>9, <1>10, <1>11, <1>12, <1>13, <1>14, <1>15, AdvanceSound
     DEF HuntNext

\* MatchIsSound, for every set of rules: no interleaving of workers, restart or
\* late event makes SequenceEngine.process report events that are not what the
\* rule describes, that the store does not hold, or none of which was as anomalous
\* as the rule asks.
THEOREM MatchIsSoundAlways == HuntSpec => []MatchIsSound
<1>1. HuntInit => HuntTypes /\ SoundInv
  <2>1. HuntInit => SoundInv
    BY DEF HuntInit, SoundInv, SoundState
  <2> QED
    BY <2>1, HuntTypesInit
<1>2. (HuntTypes /\ SoundInv) /\ [HuntNext]_huntVars => (HuntTypes /\ SoundInv)'
  BY HuntTypesKept, SoundInvKept
<1>3. SoundInv => MatchIsSound
  BY DEF SoundInv, SoundMatch, Scored, MatchIsSound
<1> QED
  BY <1>1, <1>2, <1>3, PTL DEF HuntSpec

-----------------------------------------------------------------------------
(***************************************************************************)
(* Incidents only grow, and lose no finding, as long as none is written    *)
(* back over a newer version: what is written is then the incident as it   *)
(* is, with one more finding in it or with a report.                       *)
(***************************************************************************)
\* What a step does to the incidents: each goes on as it was, or is merged with
\* a finding, unless it is written over.
LEMMA IncidentsEffect ==
    ASSUME HuntTypes, [HuntNext]_huntVars, NEW k \in DOMAIN incidents, k \notin stale'
    PROVE  /\ k \in DOMAIN incidents' /\ incidents[k].ids \subseteq incidents'[k].ids
           /\ incidents[k].risk <= incidents'[k].risk
           /\ incidents'[k].first <= incidents[k].first
           /\ incidents[k].last <= incidents'[k].last
<1> USE DEF tables, engine, history
<1>1. PICK n \in Nat : n = Len(incidents) /\ DOMAIN incidents = 1..n
  BY DEF HuntTypes
<1>2. /\ incidents[k] \in Incident
      /\ incidents[k].first \in Nat /\ incidents[k].last \in Nat /\ incidents[k].risk \in Nat
  <2>1. incidents[k] \in Incident
    BY DEF HuntTypes
  <2>2. incidents[k].risk \in 0..MaxRisk /\ incidents[k].first \in Nat /\ incidents[k].last \in Nat
    BY <2>1 DEF Incident
  <2> QED
    BY <2>1, <2>2, RuleFacts
<1>3. ASSUME k \in DOMAIN incidents', incidents'[k] = incidents[k]
      PROVE  /\ k \in DOMAIN incidents' /\ incidents[k].ids \subseteq incidents'[k].ids
             /\ incidents[k].risk <= incidents'[k].risk
             /\ incidents'[k].first <= incidents[k].first
             /\ incidents[k].last <= incidents'[k].last
  BY <1>2, <1>3
<1>4. ASSUME NEW w \in Worker, UpsertIncident(w)
      PROVE  /\ k \in DOMAIN incidents' /\ incidents[k].ids \subseteq incidents'[k].ids
             /\ incidents[k].risk <= incidents'[k].risk
             /\ incidents'[k].first <= incidents[k].first
             /\ incidents[k].last <= incidents'[k].last
  <2>1. PICK f \in Finding, i \in Pending :
           /\ f = Head(job[w].found) /\ i = job[w].incident
           /\ i.key # None => i.key \in DOMAIN incidents /\ i.was \in Incident
           /\ IF i.key = None
              THEN incidents' = Append(incidents, Created(f, i.fid))
              ELSE /\ incidents' = [incidents EXCEPT ![i.key] = Merged(i.was, f, i.fid)]
                   /\ stale' = IF incidents[i.key] = i.was THEN {} ELSE {i.key}
    BY <1>4, UpsertEffect DEF Stage, WrittenOver
  <2>2. CASE i.key = None
    <3>1. PICK c \in Incident : incidents' = Append(incidents, c)
      BY <2>1, <2>2, CreatedIs DEF Pending, HuntTypes
    <3>2. k \in DOMAIN incidents' /\ incidents'[k] = incidents[k]
      BY <1>1, <3>1, AppendProperties DEF HuntTypes
    <3> QED
      BY <1>3, <3>2
  <2>3. CASE i.key # None /\ i.key # k
    <3>1. PICK m : incidents' = [incidents EXCEPT ![i.key] = m]
      BY <2>1, <2>3
    <3>2. k \in DOMAIN incidents' /\ incidents'[k] = incidents[k]
      BY <2>3, <3>1 DEF HuntTypes
    <3> QED
      BY <1>3, <3>2
  <2>4. CASE i.key = k /\ i.key # None
    <3>1. incidents[k] = i.was
      BY <2>1, <2>4
    <3>2. PICK m : m = Merged(i.was, f, i.fid) /\ m.ids = i.was.ids \cup {i.fid}
                   /\ i.was.risk <= m.risk
                   /\ m.first <= i.was.first /\ i.was.last <= m.last
      BY <2>1, <2>4, MergedIs DEF Pending, HuntTypes
    <3>3. incidents' = [incidents EXCEPT ![k] = m]
      BY <2>1, <2>4, <3>2
    <3>4. k \in DOMAIN incidents' /\ incidents'[k] = m
      BY <3>3 DEF HuntTypes
    <3> QED
      BY <3>1, <3>2, <3>4
  <2> QED
    BY <2>2, <2>3, <2>4
<1>5. CASE AnalysisDone
  <2>1. CASE incidents' = incidents
    BY <1>3, <2>1
  <2>2. CASE /\ incidents' = [incidents EXCEPT ![analysis.key] = analysis.was]
             /\ stale' = IF incidents[analysis.key] = analysis.was THEN {} ELSE {analysis.key}
    <3>1. k = analysis.key => incidents[k] = analysis.was
      BY <2>2
    <3>2. PICK a, i : a = analysis.key /\ i = analysis.was
      OBVIOUS
    <3>3. incidents' = [incidents EXCEPT ![a] = i] /\ (k = a => incidents[k] = i)
      BY <2>2, <3>1, <3>2
    <3>4. k \in DOMAIN incidents' /\ incidents'[k] = incidents[k]
      BY <3>3 DEF HuntTypes
    <3> QED
      BY <1>3, <3>4
  <2> QED
    BY <1>5, <2>1, <2>2 DEF AnalysisDone, WrittenOver
<1>6. ASSUME UNCHANGED incidents
      PROVE  /\ k \in DOMAIN incidents' /\ incidents[k].ids \subseteq incidents'[k].ids
             /\ incidents[k].risk <= incidents'[k].risk
             /\ incidents'[k].first <= incidents[k].first
             /\ incidents[k].last <= incidents'[k].last
  BY <1>3, <1>6
<1>7. \/ UNCHANGED incidents
      \/ \E w \in Worker : UpsertIncident(w)
      \/ AnalysisDone
  <2>1. \A w \in Worker, e \in Event :
           ingest_agent_event(w, e) \/ ingest_normalized(w, e) => UNCHANGED incidents
    BY Zenon DEF ingest_agent_event, ingest_normalized, ingest
  <2>2. \A w \in Worker : _prune_emitted(w) \/ ReadPartials(w) => UNCHANGED incidents
    BY Zenon DEF _prune_emitted, ReadPartials
  <2>3. \A w \in Worker : AdvancePartials(w) => UNCHANGED incidents
    BY Zenon DEF AdvancePartials
  <2>4. \A w \in Worker : InsertFinding(w) \/ learn(w) => UNCHANGED incidents
    BY Zenon DEF InsertFinding, learn
  <2>5. /\ \A k1 \in DOMAIN incidents : analyze_incident(k1) => UNCHANGED incidents
        /\ Restart \/ UNCHANGED huntVars => UNCHANGED incidents
    BY Zenon DEF analyze_incident, Restart, huntVars
  <2> QED
    BY <2>1, <2>2, <2>3, <2>4, <2>5, Zenon DEF HuntNext
<1> QED
  BY <1>4, <1>5, <1>6, <1>7

\* A finding that was merged into an incident stays in it, or is one of those
\* that WrittenOver counts.
LEMMA NoFindingVanishes ==
    ASSUME HuntTypes, [HuntNext]_huntVars
    PROVE  /\ lost \subseteq lost'
           /\ \A k \in DOMAIN incidents :
                 k \in DOMAIN incidents' /\ incidents[k].ids \subseteq incidents'[k].ids \cup lost'
<1> USE DEF tables, engine, history
<1>1. ASSUME incidents' = incidents, lost' = lost
      PROVE  /\ lost \subseteq lost'
             /\ \A k \in DOMAIN incidents :
                   k \in DOMAIN incidents' /\ incidents[k].ids \subseteq incidents'[k].ids \cup lost'
  BY <1>1
\* An incident is replaced by one with all findings of the version read.
<1>2. ASSUME NEW a, NEW was, NEW m, incidents' = [incidents EXCEPT ![a] = m],
             WrittenOver(a, was), was.ids \subseteq m.ids
      PROVE  /\ lost \subseteq lost'
             /\ \A k \in DOMAIN incidents :
                   k \in DOMAIN incidents' /\ incidents[k].ids \subseteq incidents'[k].ids \cup lost'
  <2>1. lost' = lost \cup (incidents[a].ids \ was.ids)
    BY <1>2 DEF WrittenOver
  <2>2. ASSUME NEW k \in DOMAIN incidents
        PROVE  k \in DOMAIN incidents' /\ incidents'[k] = IF k = a THEN m ELSE incidents[k]
    BY <1>2, <2>2 DEF HuntTypes
  <2> QED
    BY <1>2, <2>1, <2>2
<1>3. ASSUME NEW w \in Worker, UpsertIncident(w)
      PROVE  /\ lost \subseteq lost'
             /\ \A k \in DOMAIN incidents :
                   k \in DOMAIN incidents' /\ incidents[k].ids \subseteq incidents'[k].ids \cup lost'
  <2>1. PICK f \in Finding, i \in Pending :
           /\ i.key # None => i.key \in DOMAIN incidents /\ i.was \in Incident
           /\ IF i.key = None
              THEN incidents' = Append(incidents, Created(f, i.fid)) /\ lost' = lost
              ELSE /\ incidents' = [incidents EXCEPT ![i.key] = Merged(i.was, f, i.fid)]
                   /\ WrittenOver(i.key, i.was)
    BY <1>3, UpsertEffect DEF Stage
  <2>2. CASE i.key = None
    <3>1. PICK c \in Incident : incidents' = Append(incidents, c)
      BY <2>1, <2>2, CreatedIs DEF Pending, HuntTypes
    <3>2. \A k \in DOMAIN incidents : k \in DOMAIN incidents' /\ incidents'[k] = incidents[k]
      BY <3>1, AppendProperties DEF HuntTypes
    <3> QED
      BY <2>1, <2>2, <3>2
  <2>3. CASE i.key # None
    <3>1. PICK a, was, m : /\ a = i.key /\ was = i.was /\ m = Merged(i.was, f, i.fid)
                           /\ was.ids \subseteq m.ids
      <4>1. PICK was \in Incident, x \in Nat : was = i.was /\ x = i.fid
        BY <2>1, <2>3 DEF Pending
      <4>2. stamp \in Nat
        BY DEF HuntTypes
      <4>3. Merged(was, f, x).ids = was.ids \cup {x}
        BY <4>2, MergedIs
      <4> QED
        BY <4>1, <4>3
    <3>2. incidents' = [incidents EXCEPT ![a] = m] /\ WrittenOver(a, was)
      BY <2>1, <2>3, <3>1
    <3> QED
      BY <1>2, <3>1, <3>2
  <2> QED
    BY <2>2, <2>3
<1>4. CASE AnalysisDone
  <2>1. CASE incidents' = incidents /\ lost' = lost
    BY <1>1, <2>1
  <2>2. CASE /\ incidents' = [incidents EXCEPT ![analysis.key] = analysis.was]
             /\ WrittenOver(analysis.key, analysis.was)
    <3>1. PICK a, was : a = analysis.key /\ was = analysis.was
      OBVIOUS
    <3>2. incidents' = [incidents EXCEPT ![a] = was] /\ WrittenOver(a, was)
      BY <2>2, <3>1
    <3> QED
      BY <1>2, <3>2
  <2> QED
    BY <1>4, <2>1, <2>2 DEF AnalysisDone
<1>5. \/ incidents' = incidents /\ lost' = lost
      \/ \E w \in Worker : UpsertIncident(w)
      \/ AnalysisDone
  <2>1. CASE UNCHANGED huntVars
    BY <2>1 DEF huntVars
  <2>2. ASSUME NEW w \in Worker, NEW e \in Event, NEW path, ingest(w, e, path)
        PROVE  incidents' = incidents /\ lost' = lost
    BY <2>2 DEF ingest
  <2>3. ASSUME NEW w \in Worker, NEW e \in Event, ingest_agent_event(w, e)
        PROVE  incidents' = incidents /\ lost' = lost
    BY <2>2, <2>3 DEF ingest_agent_event
  <2>4. ASSUME NEW w \in Worker, NEW e \in Event, ingest_normalized(w, e)
        PROVE  incidents' = incidents /\ lost' = lost
    BY <2>2, <2>4 DEF ingest_normalized
  <2>5. ASSUME NEW w \in Worker,
               \/ _prune_emitted(w) \/ ReadPartials(w) \/ AdvancePartials(w)
               \/ InsertFinding(w) \/ learn(w)
        PROVE  incidents' = incidents /\ lost' = lost
    <3>1. ASSUME _prune_emitted(w) PROVE incidents' = incidents /\ lost' = lost
      BY <3>1 DEF _prune_emitted
    <3>2. ASSUME ReadPartials(w) PROVE incidents' = incidents /\ lost' = lost
      BY <3>2 DEF ReadPartials
    <3>3. ASSUME AdvancePartials(w) PROVE incidents' = incidents /\ lost' = lost
      BY <3>3 DEF AdvancePartials
    <3>4. ASSUME InsertFinding(w) PROVE incidents' = incidents /\ lost' = lost
      BY <3>4 DEF InsertFinding
    <3>5. ASSUME learn(w) PROVE incidents' = incidents /\ lost' = lost
      BY <3>5 DEF learn
    <3> QED
      BY <2>5, <3>1, <3>2, <3>3, <3>4, <3>5
  <2>6. ASSUME NEW k \in DOMAIN incidents, analyze_incident(k)
        PROVE  incidents' = incidents /\ lost' = lost
    BY <2>6 DEF analyze_incident
  <2>7. CASE Restart
    BY <2>7 DEF Restart
  <2> QED
    BY <2>1, <2>3, <2>4, <2>5, <2>6, <2>7 DEF HuntNext
<1> QED
  BY <1>1, <1>3, <1>4, <1>5

\* IncidentOnlyGrows, for every number of workers and every rule: correlate and
\* analyze_incident take nothing from an incident that they do not write over
\* a newer version.
THEOREM IncidentOnlyGrowsAlways == HuntSpec => IncidentOnlyGrows
<1>1. HuntSpec => []HuntTypes
  <2>1. HuntTypes /\ [HuntNext]_huntVars => HuntTypes'
    BY HuntTypesKept
  <2> QED
    BY <2>1, HuntTypesInit, PTL DEF HuntSpec
<1>2. HuntTypes /\ [HuntNext]_huntVars =>
        [\A k \in DOMAIN incidents : k \notin stale' =>
            /\ incidents[k].ids \subseteq incidents'[k].ids
            /\ incidents[k].risk <= incidents'[k].risk
            /\ incidents'[k].first <= incidents[k].first /\ incidents[k].last <= incidents'[k].last
        ]_incidents
  BY IncidentsEffect
<1> QED
  BY <1>1, <1>2, PTL DEF HuntSpec, IncidentOnlyGrows

\* FindingIsInIncident, for every number of workers and every rule: between
\* insert_finding and the end of correlate the worker has the finding in hand,
\* and the event of a worker that a restart ends is the last of the finding's.
THEOREM FindingIsInIncidentAlways == HuntSpec => []FindingIsInIncident
<1> DEFINE Inv == HuntTypes /\ SoundInv /\ FindingIsInIncident
<1>1. HuntInit => Inv
  <2>1. HuntInit => SoundInv
    BY DEF HuntInit, SoundInv, SoundState
  <2>2. HuntInit => FindingIsInIncident
    BY DEF HuntInit, FindingIsInIncident
  <2> QED
    BY <2>1, <2>2, HuntTypesInit
<1>2. ASSUME HuntTypes, SoundInv, FindingIsInIncident, [HuntNext]_huntVars
      PROVE  FindingIsInIncident'
  <2> USE DEF tables, engine, history
  <2>1. lost \subseteq lost'
    BY <1>2, NoFindingVanishes
  <2>2. \A i \in DOMAIN incidents :
           i \in DOMAIN incidents' /\ incidents[i].ids \subseteq incidents'[i].ids \cup lost'
    BY <1>2, NoFindingVanishes
  <2>3. \A k \in Nat : (\E i \in DOMAIN incidents : k \in incidents[i].ids) =>
                       \/ \E i \in DOMAIN incidents' : k \in incidents'[i].ids
                       \/ k \in lost'
    BY <2>2
  <2>4. PICK n \in Nat : n = Len(findings) /\ DOMAIN findings = 1..n
    BY <1>2 DEF HuntTypes
  <2>5. \A k \in 1..n : \/ \E i \in DOMAIN incidents' : k \in incidents'[i].ids
                        \/ \E w \in Worker : At(w, "upsert") /\ job[w].incident.fid = k
                        \/ Last(findings[k].ids) \in broken
                        \/ k \in lost'
    BY <1>2, <2>1, <2>3, <2>4 DEF FindingIsInIncident
  \* A worker that has no finding in hand goes on.
  <2>6. ASSUME NEW w \in Worker, ~At(w, "upsert"), UNCHANGED findings,
               NEW j, job' = [job EXCEPT ![w] = j], broken \subseteq broken'
        PROVE  FindingIsInIncident'
    <3>1. \A v \in Worker : At(v, "upsert") => job'[v] = job[v]
      BY <1>2, <2>6 DEF HuntTypes, At
    <3> QED
      BY <2>4, <2>5, <2>6, <3>1 DEF FindingIsInIncident, At
  <2>7. ASSUME UNCHANGED <<findings, job, broken>> PROVE FindingIsInIncident'
    BY <2>4, <2>5, <2>7 DEF FindingIsInIncident, At
  <2>8. ASSUME NEW w \in Worker, NEW e \in Event, NEW path \in {"agent", "api"},
               ingest(w, e, path)
        PROVE  FindingIsInIncident'
    <3>1. ~At(w, "upsert") /\ UNCHANGED <<findings, broken>>
      BY <2>8 DEF ingest, At, NoJob
    <3>2. PICK j : job' = [job EXCEPT ![w] = j]
      BY <1>2, <2>8, IngestEffect
    <3> QED
      BY <2>6, <3>1, <3>2
  <2>9. ASSUME NEW w \in Worker, _prune_emitted(w) PROVE FindingIsInIncident'
    <3>1. ~At(w, "upsert") /\ UNCHANGED findings
      BY <2>9 DEF _prune_emitted, At
    <3>2. PICK j : job' = [job EXCEPT ![w] = j] /\ broken \subseteq broken'
      BY <1>2, <2>9, PruneEffect
    <3> QED
      BY <2>6, <3>1, <3>2
  <2>10. ASSUME NEW w \in Worker, ReadPartials(w) PROVE FindingIsInIncident'
    <3>1. ~At(w, "upsert") /\ UNCHANGED <<findings, broken>>
      BY <2>10 DEF ReadPartials, At
    <3>2. PICK j : job' = [job EXCEPT ![w] = j]
      BY <1>2, <2>10, ReadEffect
    <3> QED
      BY <2>6, <3>1, <3>2
  <2>11. ASSUME NEW w \in Worker, AdvancePartials(w) PROVE FindingIsInIncident'
    <3>1. ~At(w, "upsert") /\ UNCHANGED <<findings, broken>>
      BY <2>11 DEF AdvancePartials, At
    <3>2. PICK j : job' = [job EXCEPT ![w] = j]
      BY <1>2, <2>11, AdvanceEffect DEF MatchStep
    <3> QED
      BY <2>6, <3>1, <3>2
  <2>12. ASSUME NEW w \in Worker, InsertFinding(w) PROVE FindingIsInIncident'
    <3>1. ~At(w, "upsert") /\ UNCHANGED broken
      BY <2>12 DEF InsertFinding, At
    <3>2. PICK j \in Job : /\ job' = [job EXCEPT ![w] = j] /\ j.pc = "upsert"
                           /\ j.incident.fid = n + 1
      BY <1>2, <2>4, <2>12, InsertEffect
    <3>3. PICK f \in Finding : findings' = Append(findings, f)
      BY <1>2, <2>12, InsertEffect
    <3>4. DOMAIN findings' = 1..(n + 1) /\ \A k \in 1..n : findings'[k] = findings[k]
      BY <1>2, <2>4, <3>3, AppendProperties DEF HuntTypes
    <3>5. job'[w] = j /\ \A v \in Worker : At(v, "upsert") => job'[v] = job[v]
      BY <1>2, <3>1, <3>2 DEF HuntTypes, At
    <3>6. \A k \in 1..(n + 1) : k \in 1..n \/ k = n + 1
      OBVIOUS
    <3> QED
      BY <2>5, <3>1, <3>2, <3>4, <3>5, <3>6 DEF FindingIsInIncident, At
  <2>13. ASSUME NEW w \in Worker, UpsertIncident(w) PROVE FindingIsInIncident'
    <3>1. UNCHANGED <<findings, broken>>
      BY <2>13 DEF UpsertIncident
    <3>2. PICK j : job' = [job EXCEPT ![w] = j]
      BY <1>2, <2>13, UpsertEffect
    <3>3. PICK f \in Finding, p \in Pending :
             /\ f = Head(job[w].found) /\ p = job[w].incident
             /\ p.key # None => p.key \in DOMAIN incidents /\ p.was \in Incident
             /\ IF p.key = None
                THEN incidents' = Append(incidents, Created(f, p.fid))
                ELSE incidents' = [incidents EXCEPT ![p.key] = Merged(p.was, f, p.fid)]
      BY <1>2, <2>13, UpsertEffect DEF Stage
    <3>4. \E i \in DOMAIN incidents' : p.fid \in incidents'[i].ids
      <4>1. CASE p.key = None
        <5>1. PICK c \in Incident : c = Created(f, p.fid) /\ c.ids = {p.fid}
          BY <1>2, <3>3, CreatedIs DEF Pending, HuntTypes
        <5>2. /\ Len(incidents) + 1 \in DOMAIN incidents'
              /\ incidents'[Len(incidents) + 1] = c
          BY <1>2, <3>3, <4>1, <5>1, AppendProperties DEF HuntTypes
        <5> QED
          BY <5>1, <5>2
      <4>2. CASE p.key # None
        <5>1. PICK m : m = Merged(p.was, f, p.fid) /\ m.ids = p.was.ids \cup {p.fid}
          <6>1. PICK i \in Incident, x \in Nat : i = p.was /\ x = p.fid
            BY <3>3, <4>2 DEF Pending
          <6>2. stamp \in Nat
            BY <1>2 DEF HuntTypes
          <6>3. Merged(i, f, x).ids = i.ids \cup {x}
            BY <6>2, MergedIs
          <6> QED
            BY <6>1, <6>3
        <5>2. p.key \in DOMAIN incidents' /\ incidents'[p.key] = m
          BY <1>2, <3>3, <4>2, <5>1 DEF HuntTypes
        <5> QED
          BY <5>1, <5>2
      <4> QED
        BY <4>1, <4>2
    <3>5. \A v \in Worker \ {w} : job'[v] = job[v]
      BY <1>2, <3>2 DEF HuntTypes
    <3>6. ASSUME NEW k \in 1..n
          PROVE  \/ \E i \in DOMAIN incidents' : k \in incidents'[i].ids
                 \/ \E v \in Worker \ {w} : At(v, "upsert") /\ job[v].incident.fid = k
                 \/ Last(findings[k].ids) \in broken
                 \/ k \in lost'
      BY <2>5, <3>3, <3>4
    <3> QED
      BY <2>4, <3>1, <3>5, <3>6 DEF FindingIsInIncident, At
  <2>14. ASSUME NEW w \in Worker, learn(w) PROVE FindingIsInIncident'
    <3>1. ~At(w, "upsert") /\ UNCHANGED <<findings, broken>>
      BY <2>14 DEF learn, At
    <3>2. PICK j : job' = [job EXCEPT ![w] = j]
      BY <2>14 DEF learn
    <3> QED
      BY <2>6, <3>1, <3>2
  <2>15. CASE Restart
    <3>1. /\ UNCHANGED findings
          /\ broken' = broken \cup {job[w].event : w \in {v \in Worker : job[v] # NoJob}}
      BY <2>15 DEF Restart
    <3>2. ASSUME NEW w \in Worker, At(w, "upsert")
          PROVE  Last(findings[job[w].incident.fid].ids) \in broken'
      <4>1. job[w] # NoJob /\ SoundJob(job[w]) /\ job[w].pc = "upsert"
        BY <1>2, <3>2, AtIs DEF SoundInv
      <4> QED
        BY <3>1, <4>1 DEF SoundJob
    <3> QED
      BY <2>4, <2>5, <3>1, <3>2 DEF FindingIsInIncident
  <2>16. ASSUME NEW w \in Worker, NEW e \in Event, ingest_agent_event(w, e)
         PROVE  FindingIsInIncident'
    <3>1. CASE ingest(w, e, "agent")
      BY <2>8, <3>1
    <3>2. CASE ~ingest(w, e, "agent")
      BY <2>7, <2>16, <3>2 DEF ingest_agent_event
    <3> QED
      BY <3>1, <3>2
  <2>17. ASSUME NEW w \in Worker, NEW e \in Event, ingest_normalized(w, e)
         PROVE  FindingIsInIncident'
    BY <2>8, <2>17 DEF ingest_normalized
  <2>18. ASSUME NEW k \in DOMAIN incidents, analyze_incident(k) PROVE FindingIsInIncident'
    BY <2>7, <2>18 DEF analyze_incident
  <2>19. CASE AnalysisDone
    BY <2>7, <2>19 DEF AnalysisDone
  <2>20. CASE UNCHANGED huntVars
    BY <2>7, <2>20 DEF huntVars
  <2> QED
    BY <1>2, <2>9, <2>10, <2>11, <2>12, <2>13, <2>14, <2>15, <2>16, <2>17, <2>18, <2>19,
       <2>20 DEF HuntNext
<1>3. Inv /\ [HuntNext]_huntVars => Inv'
  BY <1>2, HuntTypesKept, SoundInvKept
<1> QED
  BY <1>1, <1>3, PTL DEF HuntSpec

-----------------------------------------------------------------------------
(***************************************************************************)
(* Reported once.  Until a signature is forgotten, _emitted has the        *)
(* signature of every match that is in the findings table or in the hands  *)
(* of a worker on its way there (Held), and no two of these are the same.  *)
(***************************************************************************)
Held(j) ==
    IF j = NoJob THEN <<>>
    ELSE IF j.pc = "finding" THEN j.found
    ELSE IF j.pc = "upsert" THEN Tail(j.found) ELSE j.matches

InMarks(m, E) == m.rule = 0 \/ \E x \in E : Signature(x) = Signature(m)

Fresh(m, E) == \A x \in E : Signature(x) # Signature(m)

Other(m, n) == m.rule = 0 \/ n.rule = 0 \/ Signature(m) # Signature(n)

\* F are the findings, H the matches that each worker holds, E the signatures.
Once(F, H, E) ==
    /\ \A k \in DOMAIN F : InMarks(F[k], E)
    /\ \A w \in Worker : \A i \in DOMAIN H[w] : InMarks(H[w][i], E)
    /\ \A k, n \in DOMAIN F : k # n => Other(F[k], F[n])
    /\ \A w \in Worker : \A k \in DOMAIN F, i \in DOMAIN H[w] : Other(F[k], H[w][i])
    /\ \A v, w \in Worker : \A i \in DOMAIN H[v], l \in DOMAIN H[w] :
          v # w \/ i # l => Other(H[v][i], H[w][l])

\* What _prune_emitted will keep is what is in its window.
PruneReady ==
    \A w \in Worker : At(w, "prune") =>
        \A m \in job[w].from :
            /\ ~(m.at > Data[job[w].event].at)
            /\ Data[job[w].event].at - m.at <= Retention
            => m \in job[w].kept

OnceInv ==
    /\ PruneReady
    /\ ~forgotten => Once(findings, [w \in Worker |-> Held(job[w])], emitted)

\* To be of another signature is symmetric; a lead finding shares no signature;
\* a match not in a set of signatures differs from those in it.
LEMMA OtherFacts ==
    /\ \A a, b : Other(a, b) => Other(b, a)
    /\ \A a, b : a.rule = 0 => Other(a, b) /\ Other(b, a)
    /\ \A a, b, E : Fresh(a, E) /\ InMarks(b, E) => Other(a, b) /\ Other(b, a)
    /\ \A a, E, G : InMarks(a, E) /\ E \subseteq G => InMarks(a, G)
BY DEF Other, Fresh, InMarks

\* A worker goes on with matches that it held, with others that are new, or
\* with leads.
LEMMA OnceExtends ==
    ASSUME NEW F, NEW H, NEW E, NEW G, E \subseteq G, Once(F, H, E),
           NEW w \in Worker, NEW K, \A v \in Worker \ {w} : K[v] = H[v],
           \A i \in DOMAIN K[w] : \/ \E l \in DOMAIN H[w] : K[w][i] = H[w][l]
                                  \/ K[w][i].rule = 0
                                  \/ Fresh(K[w][i], E) /\ InMarks(K[w][i], G),
           \A i, l \in DOMAIN K[w] : i # l => Other(K[w][i], K[w][l])
    PROVE  Once(F, K, G)
<1>0. PICK h : /\ h = K[w] /\ \A v \in Worker : K[v] = IF v = w THEN h ELSE H[v]
               /\ \A i \in DOMAIN h : \/ \E l \in DOMAIN H[w] : h[i] = H[w][l]
                                      \/ h[i].rule = 0
                                      \/ Fresh(h[i], E) /\ InMarks(h[i], G)
               /\ \A i, l \in DOMAIN h : i # l => Other(h[i], h[l])
  OBVIOUS
<1>1. \A k \in DOMAIN F : InMarks(F[k], G)
  BY OtherFacts DEF Once
<1>2. \A i \in DOMAIN h : InMarks(h[i], G)
  <2>1. ASSUME NEW i \in DOMAIN h PROVE InMarks(h[i], G)
    <3>1. CASE \E l \in DOMAIN H[w] : h[i] = H[w][l]
      BY <1>0, <3>1, OtherFacts DEF Once
    <3>2. CASE h[i].rule = 0
      BY <3>2 DEF InMarks
    <3> QED
      BY <1>0, <3>1, <3>2
  <2> QED
    BY <2>1
<1>3. \A v \in Worker : \A i \in DOMAIN K[v] : InMarks(K[v][i], G)
  BY <1>0, <1>2, OtherFacts DEF Once
<1>4. ASSUME NEW i \in DOMAIN h, NEW k \in DOMAIN F PROVE Other(F[k], h[i])
  <2>1. CASE \E l \in DOMAIN H[w] : h[i] = H[w][l]
    BY <2>1 DEF Once
  <2>2. CASE h[i].rule = 0
    BY <2>2, OtherFacts
  <2>3. CASE Fresh(h[i], E)
    BY <2>3, OtherFacts DEF Once
  <2> QED
    BY <1>0, <2>1, <2>2, <2>3
<1>5. ASSUME NEW i \in DOMAIN h, NEW v \in Worker, v # w, NEW l \in DOMAIN H[v]
      PROVE  Other(h[i], H[v][l]) /\ Other(H[v][l], h[i])
  <2>1. CASE \E n \in DOMAIN H[w] : h[i] = H[w][n]
    BY <1>5, <2>1 DEF Once
  <2>2. CASE h[i].rule = 0
    BY <2>2, OtherFacts
  <2>3. CASE Fresh(h[i], E)
    BY <2>3, OtherFacts DEF Once
  <2> QED
    BY <1>0, <2>1, <2>2, <2>3
<1>6. \A v \in Worker : \A k \in DOMAIN F, i \in DOMAIN K[v] : Other(F[k], K[v][i])
  BY <1>0, <1>4 DEF Once
<1>7. ASSUME NEW u \in Worker, NEW v \in Worker, NEW i \in DOMAIN K[u], NEW l \in DOMAIN K[v],
             u # v \/ i # l
      PROVE  Other(K[u][i], K[v][l])
  <2>1. CASE u = w /\ v = w
    BY <1>0, <1>7, <2>1
  <2>2. CASE u = w /\ v # w
    BY <1>0, <1>5, <2>2
  <2>3. CASE u # w /\ v = w
    BY <1>0, <1>5, <2>3
  <2>4. CASE u # w /\ v # w
    BY <1>0, <1>7, <2>4 DEF Once
  <2> QED
    BY <2>1, <2>2, <2>3, <2>4
<1>8. \A k, n \in DOMAIN F : k # n => Other(F[k], F[n])
  BY DEF Once
<1> QED
  BY <1>1, <1>3, <1>6, <1>7, <1>8 DEF Once

\* A worker puts one of the matches it holds into the findings table.
Moved(w, F, H, D, K) ==
    /\ \A v \in Worker \ {w} : K[v] = H[v]
    /\ \E x \in DOMAIN H[w] : \E y : \E at \in [DOMAIN K[w] -> DOMAIN H[w] \ {x}] :
          /\ y \notin DOMAIN F /\ DOMAIN D = DOMAIN F \cup {y}
          /\ D[y] = H[w][x] /\ \A k \in DOMAIN F : D[k] = F[k]
          /\ \A i \in DOMAIN K[w] : K[w][i] = H[w][at[i]]
          /\ \A i, l \in DOMAIN K[w] : at[i] = at[l] => i = l

\* Moving matches from one place to another, without a copy, keeps them apart.
LEMMA OnceMoves ==
    ASSUME NEW F, NEW H, NEW E, Once(F, H, E),
           NEW w \in Worker, NEW D, NEW K, Moved(w, F, H, D, K)
    PROVE  Once(D, K, E)
<1> PICK x, y, at :
       /\ x \in DOMAIN H[w] /\ at \in [DOMAIN K[w] -> DOMAIN H[w] \ {x}]
       /\ y \notin DOMAIN F /\ DOMAIN D = DOMAIN F \cup {y}
       /\ D[y] = H[w][x] /\ \A k \in DOMAIN F : D[k] = F[k]
       /\ \A i \in DOMAIN K[w] : K[w][i] = H[w][at[i]]
       /\ \A i, l \in DOMAIN K[w] : at[i] = at[l] => i = l
  BY DEF Moved
<1> PICK h : h = K[w] /\ \A v \in Worker : K[v] = IF v = w THEN h ELSE H[v]
  BY DEF Moved
<1>1. \A k \in DOMAIN D : InMarks(D[k], E)
  BY DEF Once
<1>2. \A v \in Worker : \A i \in DOMAIN K[v] : InMarks(K[v][i], E)
  BY DEF Once
<1>3. \A k, n \in DOMAIN D : k # n => Other(D[k], D[n])
  BY OtherFacts DEF Once
<1>4. ASSUME NEW v \in Worker, NEW k \in DOMAIN D, NEW i \in DOMAIN K[v]
      PROVE  Other(D[k], K[v][i])
  <2>1. CASE v = w
    <3>1. K[v][i] = H[w][at[i]] /\ at[i] \in DOMAIN H[w] /\ at[i] # x
      BY <1>4, <2>1
    <3> QED
      BY <3>1 DEF Once
  <2>2. CASE v # w
    BY <1>4, <2>2 DEF Once
  <2> QED
    BY <2>1, <2>2
<1>5. ASSUME NEW u \in Worker, NEW v \in Worker, NEW i \in DOMAIN K[u], NEW l \in DOMAIN K[v],
             u # v \/ i # l
      PROVE  Other(K[u][i], K[v][l])
  <2>1. \E a \in DOMAIN H[u] : K[u][i] = H[u][a] /\ (u = w => a = at[i]) /\ (u # w => a = i)
    BY <1>5
  <2>2. \E b \in DOMAIN H[v] : K[v][l] = H[v][b] /\ (v = w => b = at[l]) /\ (v # w => b = l)
    BY <1>5
  <2> QED
    BY <1>5, <2>1, <2>2 DEF Once
<1> QED
  BY <1>1, <1>2, <1>3, <1>4, <1>5 DEF Once

\* The worker w goes on with the job j.
LEMMA OnceGoes ==
    ASSUME HuntTypes, OnceInv, NEW w \in Worker, NEW j,
           job' = [job EXCEPT ![w] = j], UNCHANGED findings,
           ~forgotten' =>
              /\ ~forgotten /\ emitted \subseteq emitted'
              /\ \/ Held(j) = <<>>
                 \/ Held(j) = Held(job[w])
                 \/ /\ \A i \in DOMAIN Held(j) :
                          \/ \E l \in DOMAIN Held(job[w]) : Held(j)[i] = Held(job[w])[l]
                          \/ Held(j)[i].rule = 0
                          \/ Fresh(Held(j)[i], emitted) /\ InMarks(Held(j)[i], emitted')
                    /\ \A i, l \in DOMAIN Held(j) : i # l => Other(Held(j)[i], Held(j)[l]),
           j.pc = "prune" =>
              \A m \in j.from : /\ ~(m.at > Data[j.event].at)
                                /\ Data[j.event].at - m.at <= Retention
                                => m \in j.kept
    PROVE  OnceInv'
<1>1. \A v \in Worker : job'[v] = IF v = w THEN j ELSE job[v]
  BY DEF HuntTypes
<1>2. PruneReady'
  BY <1>1 DEF OnceInv, PruneReady, At
<1>3. ASSUME ~forgotten' PROVE Once(findings, [v \in Worker |-> Held(job[v])], emitted)'
  <2>1. PICK H, K, h : /\ H = [v \in Worker |-> Held(job[v])]
                       /\ K = [v \in Worker |-> Held(job'[v])]
                       /\ h = Held(j)
    OBVIOUS
  <2>2. H[w] = Held(job[w]) /\ \A v \in Worker : K[v] = IF v = w THEN h ELSE H[v]
    BY <1>1, <2>1
  <2>3. PICK F, E, G : /\ F = findings /\ E = emitted /\ G = emitted' /\ E \subseteq G
                       /\ Once(F, H, E)
    BY <1>3, <2>1 DEF OnceInv
  <2>4. /\ \A i \in DOMAIN h : \/ \E l \in DOMAIN H[w] : h[i] = H[w][l]
                               \/ h[i].rule = 0
                               \/ Fresh(h[i], E) /\ InMarks(h[i], G)
        /\ \A i, l \in DOMAIN h : i # l => Other(h[i], h[l])
    <3>1. CASE h = <<>>
      BY <3>1
    <3>2. CASE h = H[w]
      BY <2>3, <3>2 DEF Once
    <3>3. CASE /\ \A i \in DOMAIN Held(j) :
                     \/ \E l \in DOMAIN Held(job[w]) : Held(j)[i] = Held(job[w])[l]
                     \/ Held(j)[i].rule = 0
                     \/ Fresh(Held(j)[i], emitted) /\ InMarks(Held(j)[i], emitted')
               /\ \A i, l \in DOMAIN Held(j) : i # l => Other(Held(j)[i], Held(j)[l])
      BY <2>1, <2>2, <2>3, <3>3
    <3> QED
      BY <1>3, <2>1, <2>2, <3>1, <3>2, <3>3
  <2>5. Once(F, K, G)
    <3>1. K[w] = h /\ \A v \in Worker \ {w} : K[v] = H[v]
      BY <2>2
    <3>2. /\ \A i \in DOMAIN K[w] : \/ \E l \in DOMAIN H[w] : K[w][i] = H[w][l]
                                    \/ K[w][i].rule = 0
                                    \/ Fresh(K[w][i], E) /\ InMarks(K[w][i], G)
          /\ \A i, l \in DOMAIN K[w] : i # l => Other(K[w][i], K[w][l])
      BY <2>4, <3>1
    <3> QED
      BY <2>3, <3>1, <3>2, OnceExtends
  <2> QED
    BY <2>1, <2>3, <2>5
<1> QED
  BY <1>2, <1>3 DEF OnceInv

\* The matches that an event completes are new, and are marked.
LEMMA AdvanceOnce ==
    ASSUME HuntTypes, OnceInv, NEW w \in Worker, AdvancePartials(w)
    PROVE  OnceInv'
<1>1. PICK known \in {job[w].from, emitted}, j \in Job,
           new \in Seq(RuleMatch), all \in Seq(RuleMatch) : MatchStep(w, known, j, new, all)
  BY AdvanceEffect
<1>2. PICK r \in RuleIds, e \in Event, seen \in Seq(Partial), matches \in Seq(RuleMatch), score \in Nat :
         /\ score = job[w].score
         /\ r = job[w].rule /\ e = job[w].event /\ seen = job[w].seen
         /\ matches = job[w].matches /\ matches = Held(job[w])
  <2>1. job[w] \in Job /\ job[w].pc = "advance" /\ job[w] # NoJob
    BY AtIs DEF AdvancePartials
  <2>2. Held(job[w]) = job[w].matches
    BY <2>1 DEF Held
  <2> QED
    BY <2>1, <2>2 DEF Job
<1>3. /\ new = Completed(r, seen, known, e, score)
      /\ all = matches \o new
      /\ emitted' = {m \in emitted : \A n \in ToSet(new) : Signature(m) # Signature(n)}
                      \cup {[rule |-> n.rule, ids |-> n.ids, at |-> n.last] : n \in ToSet(new)}
      /\ ~forgotten' => ~forgotten /\ \A m \in emitted, n \in ToSet(new) :
                                         Signature(m) # Signature(n)
      /\ job' = [job EXCEPT ![w] = j]
      /\ \/ j.pc = "read" /\ j.matches = all
         \/ /\ j.pc = "finding"
            /\ j.found = _suppress_subsumed(all) \o
                           (IF job[w].lead THEN <<Lead(e, score)>> ELSE <<>>)
  BY <1>1, <1>2 DEF MatchStep
<1>4. UNCHANGED findings /\ j # NoJob /\ j.pc # "prune"
  BY <1>3, JobIs DEF AdvancePartials, tables
<1>5. SUFFICES ASSUME ~forgotten'
               PROVE  /\ ~forgotten /\ emitted \subseteq emitted'
                      /\ \A i \in DOMAIN Held(j) :
                            \/ \E l \in DOMAIN Held(job[w]) : Held(j)[i] = Held(job[w])[l]
                            \/ Held(j)[i].rule = 0
                            \/ Fresh(Held(j)[i], emitted) /\ InMarks(Held(j)[i], emitted')
                      /\ \A i, l \in DOMAIN Held(j) : i # l => Other(Held(j)[i], Held(j)[l])
  BY <1>3, <1>4, OnceGoes
<1>6. ~forgotten /\ emitted \subseteq emitted'
  BY <1>3, <1>5
<1>7. ASSUME NEW i \in DOMAIN new
      PROVE  Fresh(new[i], emitted) /\ InMarks(new[i], emitted')
  <2>1. new[i] \in ToSet(new)
    BY DEF ToSet
  <2>2. Fresh(new[i], emitted)
    BY <1>3, <1>5, <2>1 DEF Fresh
  <2>3. PICK m : m = [rule |-> new[i].rule, ids |-> new[i].ids, at |-> new[i].last]
    OBVIOUS
  <2>4. m \in emitted' /\ Signature(m) = Signature(new[i])
    BY <1>3, <2>1, <2>3 DEF Signature
  <2> QED
    BY <2>2, <2>4 DEF InMarks
<1>8. ASSUME NEW i \in DOMAIN matches
      PROVE  /\ InMarks(matches[i], emitted)
             /\ \A l \in DOMAIN matches : i # l => Other(matches[i], matches[l])
  <2>1. PICK H : H = [v \in Worker |-> Held(job[v])] /\ H[w] = matches
                 /\ Once(findings, H, emitted)
    BY <1>2, <1>6 DEF OnceInv
  <2> QED
    BY <2>1 DEF Once
<1>9. ASSUME NEW i \in DOMAIN new, NEW l \in DOMAIN new, i # l
      PROVE  Other(new[i], new[l])
  <2>1. OfOtherEvents(new)
    BY <1>3, CompletedIs
  <2>2. new[i].ids # new[l].ids
    BY <1>9, <2>1 DEF OfOtherEvents
  <2> QED
    BY <2>2 DEF Other, Signature
<1>10. ASSUME NEW k \in DOMAIN all
       PROVE  \/ k \in DOMAIN matches /\ all[k] = matches[k]
              \/ \E i \in DOMAIN new : k = Len(matches) + i /\ all[k] = new[i]
  <2>1. all = matches \o new
    BY <1>3
  <2>2. \A x \in DOMAIN all :
           \/ x \in DOMAIN matches /\ all[x] = matches[x]
           \/ \E i \in DOMAIN new : x = Len(matches) + i /\ all[x] = new[i]
    BY <2>1, ConcatIs
  <2> QED
    BY <2>2
<1>11. ASSUME NEW h \in DOMAIN all, NEW k \in DOMAIN all, h # k
       PROVE  Other(all[h], all[k])
  <2>1. CASE /\ h \in DOMAIN matches /\ all[h] = matches[h]
             /\ k \in DOMAIN matches /\ all[k] = matches[k]
    BY <1>8, <1>11, <2>1
  <2>2. CASE /\ h \in DOMAIN matches /\ all[h] = matches[h]
             /\ \E i \in DOMAIN new : k = Len(matches) + i /\ all[k] = new[i]
    BY <1>7, <1>8, <2>2, OtherFacts
  <2>3. CASE /\ k \in DOMAIN matches /\ all[k] = matches[k]
             /\ \E i \in DOMAIN new : h = Len(matches) + i /\ all[h] = new[i]
    BY <1>7, <1>8, <2>3, OtherFacts
  <2>4. CASE /\ \E i \in DOMAIN new : h = Len(matches) + i /\ all[h] = new[i]
             /\ \E i \in DOMAIN new : k = Len(matches) + i /\ all[k] = new[i]
    BY <1>9, <1>11, <2>4
  <2> QED
    BY <1>10, <2>1, <2>2, <2>3, <2>4
<1>12. ASSUME NEW k \in DOMAIN all
       PROVE  \/ \E l \in DOMAIN matches : all[k] = matches[l]
              \/ Fresh(all[k], emitted) /\ InMarks(all[k], emitted')
  BY <1>7, <1>10
<1>13. CASE j.pc = "read" /\ j.matches = all
  <2>1. Held(j) = all
    BY <1>4, <1>13 DEF Held
  <2> QED
    BY <1>2, <1>6, <1>11, <1>12, <2>1
<1>14. CASE j.pc = "finding" /\ j.found = _suppress_subsumed(all) \o
                                            (IF job[w].lead THEN <<Lead(e, score)>> ELSE <<>>)
  <2>1. PICK a \in Seq(RuleMatch) :
           /\ a = _suppress_subsumed(all)
           /\ \E at \in [DOMAIN a -> DOMAIN all] :
                 /\ \A k \in DOMAIN a : a[k] = all[at[k]]
                 /\ \A h, k \in DOMAIN a : at[h] = at[k] => h = k
    <3>1. /\ _suppress_subsumed(all) \in Seq(RuleMatch)
          /\ \E at \in [DOMAIN _suppress_subsumed(all) -> DOMAIN all] :
                /\ \A k \in DOMAIN _suppress_subsumed(all) :
                      _suppress_subsumed(all)[k] = all[at[k]]
                /\ \A h, k \in DOMAIN _suppress_subsumed(all) : at[h] = at[k] => h = k
      BY SuppressedIs
    <3>2. PICK a : a = _suppress_subsumed(all)
      OBVIOUS
    <3> QED
      BY <3>1, <3>2
  <2>2. PICK at \in [DOMAIN a -> DOMAIN all] :
           /\ \A k \in DOMAIN a : a[k] = all[at[k]]
           /\ \A h, k \in DOMAIN a : at[h] = at[k] => h = k
    BY <2>1
  <2>3. PICK b \in Seq(Finding) : /\ b = (IF job[w].lead THEN <<Lead(e, score)>> ELSE <<>>)
                                  /\ \A i \in DOMAIN b : b[i].rule = 0
    <3>1. CASE job[w].lead
      <4>1. PICK f \in Finding : f = Lead(e, score) /\ f.rule = 0
        BY LeadIs
      <4>2. <<f>> \in Seq(Finding) /\ DOMAIN <<f>> = {1} /\ <<f>>[1] = f
        OBVIOUS
      <4> QED
        BY <3>1, <4>1, <4>2
    <3>2. CASE ~job[w].lead
      <4>1. <<>> \in Seq(Finding) /\ DOMAIN <<>> = {}
        OBVIOUS
      <4> QED
        BY <3>2, <4>1
    <3> QED
      BY <3>1, <3>2
  <2>4. PICK c : c = Held(j) /\ c = a \o b
    BY <1>4, <1>14, <2>1, <2>3 DEF Held
  <2>5. a \in Seq(Finding)
    <3>1. RuleMatch \subseteq Finding
      BY DEF RuleMatch, Finding
    <3> QED
      BY <3>1, SeqMonotonic
  <2>6. \A k \in DOMAIN c : (k \in DOMAIN a /\ c[k] = a[k]) \/ c[k].rule = 0
    BY <2>3, <2>4, <2>5, ConcatIs
  <2>7. \A k \in DOMAIN c : \/ \E l \in DOMAIN matches : c[k] = matches[l]
                            \/ c[k].rule = 0
                            \/ Fresh(c[k], emitted) /\ InMarks(c[k], emitted')
    BY <1>12, <2>2, <2>6
  <2>8. ASSUME NEW h \in DOMAIN c, NEW k \in DOMAIN c, h # k PROVE Other(c[h], c[k])
    <3>1. CASE h \in DOMAIN a /\ c[h] = a[h] /\ k \in DOMAIN a /\ c[k] = a[k]
      <4>1. at[h] # at[k] /\ at[h] \in DOMAIN all /\ at[k] \in DOMAIN all
        BY <2>2, <2>8, <3>1
      <4> QED
        BY <1>11, <2>2, <3>1, <4>1
    <3>2. CASE c[h].rule = 0 \/ c[k].rule = 0
      BY <3>2, OtherFacts
    <3> QED
      BY <2>6, <3>1, <3>2
  <2> QED
    BY <1>2, <1>6, <2>4, <2>7, <2>8
<1> QED
  BY <1>3, <1>13, <1>14

\* insert_finding moves the first of the findings in hand to the table.
LEMMA InsertOnce ==
    ASSUME HuntTypes, OnceInv, NEW w \in Worker, InsertFinding(w)
    PROVE  OnceInv'
<1>1. PICK q \in Seq(Finding) : /\ q = job[w].found /\ q # <<>> /\ q = Held(job[w])
                                /\ findings' = Append(findings, Head(q))
                                /\ Head(q) \in Finding
  <2>1. job[w] \in Job /\ job[w].pc = "finding" /\ job[w] # NoJob
    BY AtIs DEF InsertFinding
  <2>2. Held(job[w]) = job[w].found
    BY <2>1 DEF Held
  <2> QED
    BY <2>1, <2>2, InsertEffect DEF Job
<1>2. PICK j \in Job : job' = [job EXCEPT ![w] = j] /\ j.pc = "upsert" /\ j.found = q
  <2>1. PICK j \in Job : /\ job' = [job EXCEPT ![w] = j] /\ j.pc = "upsert"
                         /\ j.found = job[w].found
    BY InsertEffect
  <2> QED
    BY <1>1, <2>1
<1>3. UNCHANGED <<emitted, forgotten>>
  BY DEF InsertFinding, engine, history
<1>4. \A v \in Worker : job'[v] = IF v = w THEN j ELSE job[v]
  BY <1>2 DEF HuntTypes
<1>5. PruneReady'
  BY <1>2, <1>4 DEF OnceInv, PruneReady, At
<1>6. ASSUME ~forgotten PROVE Once(findings, [v \in Worker |-> Held(job[v])], emitted)'
  <2>1. PICK H, K, F, D, h :
           /\ H = [v \in Worker |-> Held(job[v])] /\ K = [v \in Worker |-> Held(job'[v])]
           /\ F = findings /\ D = findings' /\ h = Tail(q)
    OBVIOUS
  <2>2. Held(j) = h
    BY <1>2, <2>1, JobIs DEF Held
  <2>3. H[w] = q /\ \A v \in Worker : K[v] = IF v = w THEN h ELSE H[v]
    BY <1>1, <1>4, <2>1, <2>2
  <2>4. PICK n \in Nat : n = Len(F) /\ DOMAIN F = 1..n /\ F \in Seq(Finding)
    BY <2>1 DEF HuntTypes
  <2>5. PICK y : /\ y = n + 1 /\ y \notin DOMAIN F /\ DOMAIN D = DOMAIN F \cup {y}
                 /\ D[y] = q[1] /\ \A k \in DOMAIN F : D[k] = F[k]
    <3>1. PICK f \in Finding : f = Head(q) /\ f = q[1]
      BY <1>1
    <3>2. D \in Seq(Finding) /\ Len(D) = n + 1 /\ D[n + 1] = f /\ \A k \in 1..n : D[k] = F[k]
      BY <1>1, <2>1, <2>4, <3>1, AppendProperties
    <3>3. DOMAIN D = 1..(n + 1)
      BY <3>2
    <3> QED
      BY <2>4, <3>1, <3>2, <3>3
  <2>6. PICK m \in Nat : m = Len(q) /\ DOMAIN q = 1..m /\ m >= 1
    BY <1>1
  <2>7. DOMAIN h = 1..(m - 1) /\ \A i \in 1..(m - 1) : h[i] = q[i + 1]
    <3>1. /\ Tail(q) \in Seq(Finding) /\ Len(Tail(q)) = Len(q) - 1
          /\ \A i \in 1..Len(Tail(q)) : Tail(q)[i] = q[i + 1]
      BY <1>1, HeadTailProperties
    <3>2. h \in Seq(Finding) /\ Len(h) = m - 1 /\ \A i \in 1..(m - 1) : h[i] = q[i + 1]
      BY <2>1, <2>6, <3>1
    <3> QED
      BY <3>2
  <2>8. PICK at : at = [i \in 1..(m - 1) |-> i + 1]
    OBVIOUS
  <2>9. /\ at \in [DOMAIN h -> DOMAIN q \ {1}]
        /\ \A i \in DOMAIN h : h[i] = q[at[i]]
        /\ \A i, l \in DOMAIN h : at[i] = at[l] => i = l
    BY <2>6, <2>7, <2>8
  <2>10. 1 \in DOMAIN H[w]
    BY <2>3, <2>6
  <2>11. PICK E : E = emitted /\ Once(F, H, E)
    BY <1>6, <2>1 DEF OnceInv
  <2>12. /\ D[y] = H[w][1] /\ at \in [DOMAIN h -> DOMAIN H[w] \ {1}]
         /\ \A i \in DOMAIN h : h[i] = H[w][at[i]]
    BY <2>3, <2>5, <2>9
  <2>13. K[w] = h /\ \A v \in Worker \ {w} : K[v] = H[v]
    BY <2>3
  <2>14. Moved(w, F, H, D, K)
    BY <2>5, <2>9, <2>10, <2>12, <2>13 DEF Moved
  <2>15. Once(D, K, E)
    BY <2>11, <2>14, OnceMoves
  <2> QED
    BY <1>3, <2>1, <2>11, <2>15
<1> QED
  BY <1>3, <1>5, <1>6 DEF OnceInv

\* Every step keeps the matches apart and their signatures in _emitted.
LEMMA OnceInvKept ==
    ASSUME HuntTypes, OnceInv, [HuntNext]_huntVars PROVE OnceInv'
<1> USE DEF tables, engine, history
<1>1. ASSUME NEW w \in Worker, NEW e \in Event, NEW path \in {"agent", "api"},
             ingest(w, e, path)
      PROVE  OnceInv'
  <2>1. PICK j \in Job : /\ job' = [job EXCEPT ![w] = j] /\ j.pc = "prune" /\ j.event = e
                         /\ j.from = emitted /\ j.kept = Kept(Data[e].at)
                         /\ j.matches = <<>>
    BY <1>1, IngestEffect
  <2>2. UNCHANGED <<findings, emitted, forgotten>>
    BY <1>1 DEF ingest
  <2>3. Held(j) = <<>>
    BY <2>1, JobIs DEF Held
  <2>4. ASSUME NEW m \in j.from, ~(m.at > Data[j.event].at),
               Data[j.event].at - m.at <= Retention
        PROVE  m \in j.kept
    <3>1. m.at \in Nat /\ Data[e].at \in Nat
      BY <2>1, RuleFacts DEF HuntTypes, Mark
    <3>2. m.at <= Data[e].at
      BY <2>1, <2>4, <3>1
    <3> QED
      BY <2>1, <2>4, <3>2 DEF Kept
  <2> QED
    BY <2>1, <2>2, <2>3, <2>4, OnceGoes
<1>2. ASSUME NEW w \in Worker, NEW j, job' = [job EXCEPT ![w] = j],
             UNCHANGED <<findings, emitted, forgotten>>,
             Held(j) = <<>> \/ Held(j) = Held(job[w]), j.pc # "prune"
      PROVE  OnceInv'
  BY <1>2, OnceGoes
<1>3. ASSUME UNCHANGED <<job, findings, emitted, forgotten>> PROVE OnceInv'
  <2>1. PruneReady'
    BY <1>3 DEF OnceInv, PruneReady, At
  <2>2. Once(findings, [w \in Worker |-> Held(job[w])], emitted)' <=>
        Once(findings, [w \in Worker |-> Held(job[w])], emitted)
    BY <1>3
  <2> QED
    BY <1>3, <2>1, <2>2 DEF OnceInv
<1>4. ASSUME NEW w \in Worker, _prune_emitted(w) PROVE OnceInv'
  <2>1. job[w] \in Job /\ job[w].pc = "prune" /\ UNCHANGED findings
    BY <1>4, PruneEffect DEF _prune_emitted
  <2>2. CASE job' = [job EXCEPT ![w] = NoJob] /\ emitted' = emitted /\ forgotten' = forgotten
    <3>1. Held(NoJob) = <<>> /\ NoJob.pc # "prune"
      BY DEF Held, NoJob
    <3> QED
      BY <1>2, <2>1, <2>2, <3>1
  <2>3. CASE /\ \E j \in Job :
                   /\ job' = [job EXCEPT ![w] = j]
                   /\ j.pc = "read" /\ j.event = job[w].event /\ j.path = job[w].path
                   /\ j.score = job[w].score
                   /\ j.matches = job[w].matches /\ j.found = job[w].found
             /\ emitted' = job[w].kept
             /\ ~forgotten' => ~forgotten /\ \A m \in emitted :
                   /\ m \notin job[w].kept
                   => /\ m \in job[w].from
                      /\ ~(m.at > Data[job[w].event].at)
                      /\ Data[job[w].event].at - m.at <= Retention
    <3>1. PICK j \in Job : /\ job' = [job EXCEPT ![w] = j] /\ j.pc = "read"
                           /\ j.matches = job[w].matches
      BY <2>3
    <3>2. Held(j) = Held(job[w])
      BY <2>1, <3>1, JobIs DEF Held
    <3>3. ~forgotten' => ~forgotten /\ emitted \subseteq emitted'
      BY <1>4, <2>3 DEF OnceInv, PruneReady, _prune_emitted
    <3> QED
      BY <2>1, <3>1, <3>2, <3>3, OnceGoes
  <2> QED
    BY <1>4, <2>2, <2>3, PruneEffect
<1>5. ASSUME NEW w \in Worker, ReadPartials(w) PROVE OnceInv'
  <2>1. job[w] \in Job /\ job[w].pc = "read" /\ UNCHANGED <<findings, emitted, forgotten>>
    BY <1>5, ReadEffect DEF ReadPartials
  <2>2. PICK j \in Job : /\ job' = [job EXCEPT ![w] = j] /\ j.pc = "advance"
                         /\ j.matches = job[w].matches
    BY <1>5, ReadEffect
  <2>3. Held(j) = Held(job[w])
    BY <2>1, <2>2, JobIs DEF Held
  <2> QED
    BY <1>2, <2>1, <2>2, <2>3
<1>6. ASSUME NEW w \in Worker, UpsertIncident(w) PROVE OnceInv'
  <2>1. job[w] \in Job /\ job[w].pc = "upsert" /\ UNCHANGED <<findings, emitted, forgotten>>
    BY <1>6, UpsertEffect DEF UpsertIncident
  <2>2. PICK j \in Job : /\ job' = [job EXCEPT ![w] = j] /\ j.pc = "finding"
                         /\ j.found = Tail(job[w].found)
    BY <1>6, UpsertEffect
  <2>3. Held(j) = Held(job[w])
    BY <2>1, <2>2, JobIs DEF Held
  <2> QED
    BY <1>2, <2>1, <2>2, <2>3
<1>7. ASSUME NEW w \in Worker, learn(w) PROVE OnceInv'
  <2>1. job[w] \in Job /\ job[w].pc = "finding" /\ UNCHANGED <<findings, emitted, forgotten>>
    BY <1>7, LearnEffect DEF learn
  <2>2. PICK j \in Job \cup {NoJob} :
           /\ job' = [job EXCEPT ![w] = j]
           /\ j # NoJob => j.pc = "finding" /\ j.found = job[w].found
    BY <1>7, LearnEffect
  <2>3. CASE j = NoJob
    <3>1. Held(NoJob) = <<>> /\ NoJob.pc # "prune"
      BY DEF Held, NoJob
    <3> QED
      BY <1>2, <2>1, <2>2, <2>3, <3>1
  <2>4. CASE j # NoJob
    <3>1. Held(j) = Held(job[w]) /\ j.pc # "prune"
      BY <2>1, <2>2, <2>4, JobIs DEF Held
    <3> QED
      BY <1>2, <2>1, <2>2, <3>1
  <2> QED
    BY <2>3, <2>4
<1>8. CASE Restart
  BY <1>8 DEF Restart, OnceInv, PruneReady, At, NoJob
<1>9. ASSUME NEW w \in Worker, NEW e \in Event, ingest_agent_event(w, e) PROVE OnceInv'
  <2>1. CASE ingest(w, e, "agent")
    BY <1>1, <2>1
  <2>2. CASE ~ingest(w, e, "agent")
    BY <1>3, <1>9, <2>2 DEF ingest_agent_event
  <2> QED
    BY <2>1, <2>2
<1>10. ASSUME NEW w \in Worker, NEW e \in Event, ingest_normalized(w, e) PROVE OnceInv'
  BY <1>1, <1>10 DEF ingest_normalized
<1>11. ASSUME NEW k \in DOMAIN incidents, analyze_incident(k) PROVE OnceInv'
  BY <1>3, <1>11 DEF analyze_incident
<1>12. CASE AnalysisDone
  BY <1>3, <1>12 DEF AnalysisDone
<1>13. CASE UNCHANGED huntVars
  BY <1>3, <1>13 DEF huntVars
<1> QED
  BY <1>4, <1>5, <1>6, <1>7, <1>8, <1>9, <1>10, <1>11, <1>12, <1>13, AdvanceOnce, InsertOnce
     DEF HuntNext

\* ReportedOnce, for every set of rules and every number of workers: as long as
\* _emitted forgets no signature, SequenceEngine.process reports the events of
\* a match once, however the workers interleave and whatever is posted again.
THEOREM ReportedOnceAlways == HuntSpec => []ReportedOnce
<1>1. HuntInit => HuntTypes /\ OnceInv
  <2>1. ASSUME HuntInit PROVE OnceInv
    <3>1. findings = <<>> /\ \A w \in Worker : job[w] = NoJob
      BY <2>1 DEF HuntInit
    <3>2. PruneReady
      BY <3>1 DEF PruneReady, At, NoJob
    <3>3. PICK H : H = [w \in Worker |-> Held(job[w])]
      OBVIOUS
    <3>4. Once(findings, H, emitted)
      <4>1. \A w \in Worker : Held(job[w]) = <<>>
        BY <3>1 DEF Held
      <4>2. \A w \in Worker : H[w] = <<>>
        BY <3>3, <4>1
      <4> QED
        BY <3>1, <4>2 DEF Once
    <3> QED
      BY <3>2, <3>3, <3>4 DEF OnceInv
  <2> QED
    BY <2>1, HuntTypesInit
<1>2. (HuntTypes /\ OnceInv) /\ [HuntNext]_huntVars => (HuntTypes /\ OnceInv)'
  BY HuntTypesKept, OnceInvKept
<1>3. OnceInv => ReportedOnce
  <2>1. ASSUME OnceInv, NEW k \in DOMAIN findings, NEW n \in DOMAIN findings, k # n,
               findings[k].rule # 0, Signature(findings[k]) = Signature(findings[n]),
               ~forgotten
        PROVE  FALSE
    <3>1. Other(findings[k], findings[n])
      BY <2>1 DEF OnceInv, Once
    <3>2. findings[n].rule = findings[k].rule
      BY <2>1 DEF Signature
    <3> QED
      BY <2>1, <3>1, <3>2 DEF Other
  <2> QED
    BY <2>1 DEF ReportedOnce
<1> QED
  BY <1>1, <1>2, <1>3, PTL DEF HuntSpec

-----------------------------------------------------------------------------
(***************************************************************************)
(* Complete matches.  While nothing is disturbed one event is matched at a *)
(* time, so for each rule the events that _state has been given are those  *)
(* of order, and the one under way when its worker is past the rule.  Of   *)
(* these, every run that is on the way through a rule has its partial      *)
(* match, or is out of its window (Tracks), and every run that a rule      *)
(* describes has a match: in the table, or in the hands of a worker, or    *)
(* suppressed by one that is (Reports).  A signature in _emitted, or in a  *)
(* copy of it, has one too: AdvancePartials leaves it alone.               *)
(***************************************************************************)
\* An event that was matched, and the score it was given.
Entry == [event : Event, score : Nat]

\* The ways to take n entries from a list, in turn.
Picks(n, list) ==
    {pos \in [1..n -> 1..Len(list)] : \A i, j \in 1..n : i < j => pos[i] < pos[j]}

Picked(list, pos) == [i \in DOMAIN pos |-> list[pos[i]].event]

Answers(f, r, ids) ==
    \/ f.rule = r /\ f.ids = ids
    \/ f.rule # 0 /\ Subsumes(f, [rule |-> r, ids |-> ids])

Accounted(F, r, ids) == \E f \in F : Answers(f, r, ids)

Tracks(r, parts, list) ==
    \A n \in 1..(Len(Rules[r].steps) - 1) : \A pos \in Picks(n, list) :
        LET ids == Picked(list, pos)
        IN  OnTheWay(r, ids) =>
              \/ \E p \in ToSet(parts[Group(ids[1])]) :
                    p.ids = ids /\ \A i \in 1..n : list[pos[i]].score <= p.score
              \/ \E d \in ToSet(list) : Data[d.event].at > Data[ids[1]].at + Rules[r].window

Reports(r, F, list) ==
    \A pos \in Picks(Len(Rules[r].steps), list) :
        /\ Means(r, Picked(list, pos))
        /\ \E i \in DOMAIN pos : list[pos[i]].score >= Rules[r].minimum
        => Accounted(F, r, Picked(list, pos))

Covers(r, parts, F, list) == Tracks(r, parts, list) /\ Reports(r, F, list)

\* The matches that are in the table or on their way to it.
InHand(j) == IF j = NoJob THEN {} ELSE ToSet(j.matches) \cup ToSet(j.found)

Found == ToSet(findings) \cup UNION {InHand(job[w]) : w \in Worker}

\* The worker has given its event to the rule.
Past(j, r) == j.pc \in {"read", "advance"} /\ j.rule > r

\* The events that a rule has been given, once it was given the worker's.
With(list, j) == Append(list, [event |-> j.event, score |-> j.score])

Given ==
    \A r \in RuleIds :
        /\ \A w \in Worker :
              Past(job[w], r) => Covers(r, partials[r], Found, With(order, job[w]))
        /\ (\A w \in Worker : ~Past(job[w], r)) => Covers(r, partials[r], Found, order)

SeenIsCurrent ==
    \A w \in Worker : At(w, "advance") =>
        job[w].seen = partials[job[w].rule][Group(job[w].event)]

MarksAccounted ==
    /\ \A m \in emitted : Accounted(Found, m.rule, m.ids)
    /\ \A w \in Worker : job[w] # NoJob =>
          \A m \in job[w].from \cup job[w].kept : Accounted(Found, m.rule, m.ids)

\* A worker starts with the first rule, has no matches in its hands once they
\* are findings, and has stored a finding before it correlates it.
Turn(j) ==
    /\ j.pc = "prune" => j.rule = 1
    /\ j.matches # <<>> => j.pc \in {"read", "advance"}
    /\ j.pc = "upsert" => Head(j.found) \in ToSet(findings)

CompleteInv ==
    /\ order \in Seq(Entry)
    /\ \A w \in Worker : job[w] # NoJob => Turn(job[w])
    /\ ~disturbed => SeenIsCurrent /\ MarksAccounted /\ Given

\* Appending puts the new one last and leaves the others in place.
LEMMA Appended ==
    ASSUME NEW S, NEW s \in Seq(S), NEW e \in S, NEW n \in Nat, n = Len(s)
    PROVE  /\ Append(s, e) \in Seq(S) /\ Len(Append(s, e)) = n + 1
           /\ Append(s, e)[n + 1] = e /\ \A i \in 1..n : Append(s, e)[i] = s[i]
           /\ ToSet(Append(s, e)) = ToSet(s) \cup {e}
<1>1. PICK t : t = Append(s, e)
  OBVIOUS
<1>2. /\ t \in Seq(S) /\ Len(t) = n + 1
      /\ t[n + 1] = e /\ \A i \in 1..n : t[i] = s[i]
  BY <1>1, AppendProperties
<1>3. DOMAIN t = 1..(n + 1) /\ DOMAIN s = 1..n
  BY <1>2
<1>4. \A x : x \in ToSet(t) <=> x \in ToSet(s) \/ x = e
  <2>1. \A i \in 1..(n + 1) : i \in 1..n \/ i = n + 1
    OBVIOUS
  <2>2. \A i \in 1..n : i \in 1..(n + 1)
    OBVIOUS
  <2>3. n + 1 \in 1..(n + 1)
    OBVIOUS
  <2> QED
    BY <1>2, <1>3, <2>1, <2>2, <2>3 DEF ToSet
<1>5. ToSet(t) = ToSet(s) \cup {e}
  BY <1>4
<1> QED
  BY <1>1, <1>2, <1>5

\* Its members are the list's and the new one.
LEMMA AppendedSet ==
    ASSUME NEW S, NEW s \in Seq(S), NEW e \in S
    PROVE  ToSet(Append(s, e)) = ToSet(s) \cup {e}
<1>1. PICK n \in Nat : n = Len(s)
  OBVIOUS
<1> QED
  BY <1>1, Appended

\* The events picked from a list are as many as the places picked, and are those
\* of its entries.
LEMMA PicksIs ==
    ASSUME NEW list \in Seq(Entry), NEW n \in Nat, NEW pos \in Picks(n, list)
    PROVE  /\ Picked(list, pos) \in Seq(Event) /\ Len(Picked(list, pos)) = n
           /\ DOMAIN pos = 1..n
           /\ \A i \in 1..n : /\ Picked(list, pos)[i] = list[pos[i]].event
                              /\ list[pos[i]] \in Entry /\ list[pos[i]] \in ToSet(list)
<1>1. DOMAIN pos = 1..n /\ \A i \in 1..n : pos[i] \in DOMAIN list
  BY DEF Picks
<1>2. PICK ids : ids = Picked(list, pos)
  OBVIOUS
<1>3. ids = [i \in 1..n |-> list[pos[i]].event]
  BY <1>1, <1>2 DEF Picked
<1>4. \A i \in 1..n : list[pos[i]] \in Entry
  BY <1>1
<1>5. ids \in [1..n -> Event]
  BY <1>3, <1>4 DEF Entry
<1>6. ids \in Seq(Event) /\ Len(ids) = n
  BY <1>5, SeqDef
<1>7. \A i \in 1..n : ids[i] = list[pos[i]].event
  BY <1>3
<1>8. \A i \in 1..n : list[pos[i]] \in ToSet(list)
  BY <1>1 DEF ToSet
<1> QED
  BY <1>1, <1>2, <1>4, <1>6, <1>7, <1>8

\* With one more entry in a list, a pick is one of the list's, or one of them and
\* then the entry.
PickOf(list, x, n, pos) ==
    \/ /\ pos \in Picks(n, list) /\ Picked(Append(list, x), pos) = Picked(list, pos)
       /\ \A i \in 1..n : Append(list, x)[pos[i]] = list[pos[i]]
    \/ \E q \in Picks(n - 1, list) :
          /\ Picked(Append(list, x), pos) = Append(Picked(list, q), x.event)
          /\ \A i \in 1..(n - 1) : Append(list, x)[pos[i]] = list[q[i]]
          /\ Append(list, x)[pos[n]] = x

\* Every pick of the longer list is one of these.
LEMMA PicksGrow ==
    ASSUME NEW list \in Seq(Entry), NEW x \in Entry, NEW n \in Nat, n >= 1,
           NEW pos \in Picks(n, Append(list, x))
    PROVE  PickOf(list, x, n, pos)
<1> USE DEF PickOf
<1>1. PICK l \in Nat : l = Len(list) /\ DOMAIN list = 1..l
  OBVIOUS
<1>2. PICK more \in Seq(Entry) :
         /\ more = Append(list, x) /\ Len(more) = l + 1
         /\ more[l + 1] = x /\ \A i \in 1..l : more[i] = list[i]
  <2>1. PICK t : t = Append(list, x)
    OBVIOUS
  <2>2. /\ t \in Seq(Entry) /\ Len(t) = l + 1
        /\ t[l + 1] = x /\ \A i \in 1..l : t[i] = list[i]
    BY <1>1, <2>1, AppendProperties
  <2> QED
    BY <2>1, <2>2
<1>3. /\ pos \in [1..n -> 1..(l + 1)] /\ DOMAIN pos = 1..n
      /\ \A i, k \in 1..n : i < k => pos[i] < pos[k]
  BY <1>2 DEF Picks
<1>4. n \in 1..n /\ pos[n] \in 1..(l + 1)
  BY <1>3
<1>5. CASE pos[n] # l + 1
  <2>1. ASSUME NEW i \in 1..n PROVE pos[i] \in 1..l
    <3>1. i = n \/ (i < n /\ pos[i] < pos[n])
      BY <1>3, <1>4
    <3>2. pos[i] \in 1..(l + 1)
      BY <1>3
    <3> QED
      BY <1>4, <1>5, <3>1, <3>2
  <2>2. pos \in Picks(n, list)
    BY <1>1, <1>3, <2>1 DEF Picks
  <2>3. \A i \in 1..n : more[pos[i]] = list[pos[i]]
    BY <1>2, <2>1
  <2>4. Picked(more, pos) = Picked(list, pos)
    BY <1>3, <2>3 DEF Picked
  <2> QED
    BY <1>2, <2>2, <2>3, <2>4
<1>6. CASE pos[n] = l + 1
  <2>1. PICK q : q = [i \in 1..(n - 1) |-> pos[i]]
    OBVIOUS
  <2>2. \A i \in 1..(n - 1) : i \in 1..n /\ i < n /\ pos[i] \in 1..l /\ q[i] = pos[i]
    <3> SUFFICES ASSUME NEW i \in 1..(n - 1)
                 PROVE  i \in 1..n /\ i < n /\ pos[i] \in 1..l /\ q[i] = pos[i]
      OBVIOUS
    <3>1. i \in 1..n /\ i < n
      OBVIOUS
    <3>2. pos[i] < l + 1 /\ pos[i] \in 1..(l + 1)
      BY <1>3, <1>4, <1>6, <3>1
    <3> QED
      BY <2>1, <3>1, <3>2
  <2>3. q \in [1..(n - 1) -> 1..l]
    BY <2>1, <2>2
  <2>4. \A i, k \in 1..(n - 1) : i < k => q[i] < q[k]
    BY <1>3, <2>2
  <2>5. q \in Picks(n - 1, list) /\ n - 1 \in Nat
    BY <1>1, <2>3, <2>4 DEF Picks
  <2>6. PICK k \in Nat : k = n - 1 /\ k + 1 = n
    OBVIOUS
  <2>7. PICK some \in Seq(Event) :
           /\ some = Picked(list, q) /\ Len(some) = k
           /\ \A i \in 1..k : some[i] = list[q[i]].event
    BY <2>5, <2>6, PicksIs
  <2>8. PICK ids \in Seq(Event) :
           /\ ids = Picked(more, pos) /\ Len(ids) = n
           /\ \A i \in 1..n : ids[i] = more[pos[i]].event
    BY <1>2, PicksIs
  <2>9. PICK t \in Seq(Event) :
           /\ t = Append(some, x.event) /\ Len(t) = n
           /\ t[n] = x.event /\ \A i \in 1..k : t[i] = some[i]
    <3>1. PICK e \in Event : e = x.event
      BY DEF Entry
    <3>2. /\ Append(some, e) \in Seq(Event) /\ Len(Append(some, e)) = k + 1
          /\ Append(some, e)[k + 1] = e /\ \A i \in 1..k : Append(some, e)[i] = some[i]
      BY <2>6, <2>7, Appended
    <3> QED
      BY <2>6, <3>1, <3>2
  <2>10. more[pos[n]] = x /\ \A i \in 1..(n - 1) : more[pos[i]] = list[q[i]]
    BY <1>2, <1>6, <2>2
  <2>11. ASSUME NEW i \in 1..n PROVE ids[i] = t[i]
    <3>1. CASE i = n
      BY <2>8, <2>9, <2>10, <3>1
    <3>2. CASE i # n
      <4>1. i \in 1..(n - 1) /\ i \in 1..k
        BY <2>6, <3>2
      <4>2. more[pos[i]] = list[q[i]]
        BY <2>10, <4>1
      <4>3. ids[i] = list[q[i]].event
        BY <2>8, <4>2
      <4>4. t[i] = list[q[i]].event
        BY <2>7, <2>9, <4>1
      <4> QED
        BY <4>3, <4>4
    <3> QED
      BY <3>1, <3>2
  <2>12. ids = t
    BY <2>8, <2>9, <2>11, SeqEqual
  <2> QED
    BY <1>2, <2>5, <2>7, <2>8, <2>9, <2>10, <2>12
<1> QED
  BY <1>5, <1>6

\* What the next event of a run is like.
LEMMA OnTheWayGrown ==
    ASSUME NEW r \in RuleIds, NEW q \in Seq(Event), NEW e \in Event,
           NEW n \in Nat, n = Len(q), n >= 1, OnTheWay(r, Append(q, e))
    PROVE  /\ OnTheWay(r, q) /\ q[1] \in Event /\ q[n] \in Event
           /\ e \notin ToSet(q)
           /\ Data[e].kind \in Rules[r].steps[n + 1]
           /\ Data[e].asset = Data[q[1]].asset
           /\ \A f \in DOMAIN Rules[r].where[n + 1] :
                 LatestBinding(r, q, n + 1, Rules[r].where[n + 1][f], Data[e].field[f])
           /\ Data[e].at \in Data[q[1]].at .. Data[q[1]].at + Rules[r].window
           /\ Rules[r].within[n + 1] # None =>
                 Data[e].at <= Data[q[n]].at + Rules[r].within[n + 1]
<1>1. PICK t \in Seq(Event) :
         /\ t = Append(q, e) /\ Len(t) = n + 1
         /\ t[n + 1] = e /\ \A i \in 1..n : t[i] = q[i]
  <2>1. PICK t : t = Append(q, e)
    OBVIOUS
  <2>2. /\ t \in Seq(Event) /\ Len(t) = n + 1
        /\ t[n + 1] = e /\ \A i \in 1..n : t[i] = q[i]
    BY <2>1, AppendProperties
  <2> QED
    BY <2>1, <2>2
<1>2. DOMAIN t = 1..(n + 1) /\ DOMAIN q = 1..n
  BY <1>1
<1>3. /\ \A i \in 1..n : i \in 1..(n + 1) /\ i # n + 1
      /\ n + 1 \in 1..(n + 1) /\ 1 \in 1..n /\ n \in 1..n /\ n + 1 \in 2..(n + 1)
      /\ (n + 1) - 1 = n
      /\ \A i \in 2..n : i \in 2..(n + 1) /\ i \in 1..n /\ i - 1 \in 1..n
  OBVIOUS
<1>4. \A i \in 1..(n + 1) :
         /\ Data[t[i]].kind \in Rules[r].steps[i]
         /\ Data[t[i]].asset = Data[t[1]].asset
         /\ \A f \in DOMAIN Rules[r].where[i] :
               LatestBinding(r, t, i, Rules[r].where[i][f], Data[t[i]].field[f])
         /\ Data[t[i]].at \in Data[t[1]].at .. Data[t[1]].at + Rules[r].window
  BY <1>1 DEF OnTheWay
<1>5. \A i \in 2..(n + 1) : Rules[r].within[i] # None =>
         Data[t[i]].at <= Data[t[i - 1]].at + Rules[r].within[i]
  BY <1>1 DEF OnTheWay
<1>6. \A i, k \in 1..(n + 1) : t[i] = t[k] => i = k
  BY <1>1, <1>2 DEF OnTheWay, IsInjective
<1>7. t[1] = q[1] /\ t[n] = q[n]
  BY <1>1, <1>3
<1>8. OnTheWay(r, q)
  <2>1. IsInjective(q)
    BY <1>1, <1>2, <1>3, <1>6 DEF IsInjective
  <2>2. \A i \in 1..n :
           /\ Data[q[i]].kind \in Rules[r].steps[i]
           /\ Data[q[i]].asset = Data[q[1]].asset
           /\ Data[q[i]].at \in Data[q[1]].at .. Data[q[1]].at + Rules[r].window
           /\ \A f \in DOMAIN Rules[r].where[i] :
                 LatestBinding(r, q, i, Rules[r].where[i][f], Data[q[i]].field[f])
    <3> SUFFICES ASSUME NEW i \in 1..n
                 PROVE  /\ Data[q[i]].kind \in Rules[r].steps[i]
                        /\ Data[q[i]].asset = Data[q[1]].asset
                        /\ Data[q[i]].at \in Data[q[1]].at .. Data[q[1]].at + Rules[r].window
                        /\ \A f \in DOMAIN Rules[r].where[i] :
                              LatestBinding(r, q, i, Rules[r].where[i][f], Data[q[i]].field[f])
      OBVIOUS
    <3>1. t[i] = q[i] /\ i \in 1..(n + 1) /\ i \in Nat
      BY <1>1, <1>3
    <3>2. \A k \in 1..(i - 1) : t[k] = q[k]
      BY <1>1
    <3>3. ASSUME NEW f \in DOMAIN Rules[r].where[i]
          PROVE  LatestBinding(r, q, i, Rules[r].where[i][f], Data[q[i]].field[f])
      <4>1. LatestBinding(r, t, i, Rules[r].where[i][f], Data[q[i]].field[f])
        BY <1>4, <3>1
      <4> QED
        BY <3>1, <3>2, <4>1, LatestSame
    <3> QED
      BY <1>4, <1>7, <3>1, <3>3
  <2>3. \A i \in 2..n : Rules[r].within[i] # None =>
           Data[q[i]].at <= Data[q[i - 1]].at + Rules[r].within[i]
    BY <1>1, <1>3, <1>5
  <2> QED
    BY <2>1, <2>2, <2>3 DEF OnTheWay
<1>9. e \notin ToSet(q)
  BY <1>1, <1>2, <1>3, <1>6 DEF ToSet
<1>10. /\ Data[e].kind \in Rules[r].steps[n + 1]
       /\ Data[e].asset = Data[q[1]].asset
       /\ Data[e].at \in Data[q[1]].at .. Data[q[1]].at + Rules[r].window
       /\ \A f \in DOMAIN Rules[r].where[n + 1] :
             LatestBinding(r, q, n + 1, Rules[r].where[n + 1][f], Data[e].field[f])
  <2>1. ASSUME NEW f \in DOMAIN Rules[r].where[n + 1]
        PROVE  LatestBinding(r, q, n + 1, Rules[r].where[n + 1][f], Data[e].field[f])
    <3>1. LatestBinding(r, t, n + 1, Rules[r].where[n + 1][f], Data[e].field[f])
      BY <1>1, <1>3, <1>4
    <3>2. \A k \in 1..((n + 1) - 1) : t[k] = q[k]
      BY <1>1
    <3>3. n + 1 \in Nat
      OBVIOUS
    <3> QED
      BY <3>1, <3>2, <3>3, LatestSame
  <2> QED
    BY <1>1, <1>3, <1>4, <1>7, <2>1
<1>11. Rules[r].within[n + 1] # None =>
          Data[e].at <= Data[q[n]].at + Rules[r].within[n + 1]
  BY <1>1, <1>3, <1>5, <1>7
<1>12. q[1] \in Event /\ q[n] \in Event
  BY <1>2, <1>3
<1> QED
  BY <1>8, <1>9, <1>10, <1>11, <1>12

\* A partial match goes on with the event that its run goes on with.
LEMMA ContinuesWith ==
    ASSUME NEW r \in RuleIds, NEW g, NEW p \in Partial, NEW e \in Event, NEW score \in Nat,
           SoundPartial(r, g, p), OnTheWay(r, Append(p.ids, e))
    PROVE  /\ Continues(r, p, e)
           /\ Complete(r, Advanced(r, p, e, score)) <=> Len(p.ids) + 1 = Len(Rules[r].steps)
<1>1. PICK q \in Seq(Event), n \in Nat :
         /\ q = p.ids /\ n = Len(q) /\ n >= 1 /\ p.next = n + 1
         /\ n + 1 <= Len(Rules[r].steps)
         /\ \A v \in Variable : Leaves(r, q, v, p.bindings[v])
         /\ p.started = Data[q[1]].at /\ p.last = Data[q[n]].at
  <2>1. PICK q \in Seq(Event) : q = p.ids /\ q # <<>>
    BY DEF Partial, SoundPartial
  <2>2. Len(q) \in Nat /\ Len(q) >= 1
    BY <2>1, EmptySeq, LenProperties
  <2> QED
    BY <2>1, <2>2 DEF SoundPartial
<1>2. /\ q[1] \in Event /\ q[n] \in Event
      /\ e \notin ToSet(q)
      /\ Data[e].kind \in Rules[r].steps[n + 1]
      /\ \A f \in DOMAIN Rules[r].where[n + 1] :
            LatestBinding(r, q, n + 1, Rules[r].where[n + 1][f], Data[e].field[f])
      /\ Data[e].at \in Data[q[1]].at .. Data[q[1]].at + Rules[r].window
      /\ Rules[r].within[n + 1] # None =>
            Data[e].at <= Data[q[n]].at + Rules[r].within[n + 1]
  BY <1>1, OnTheWayGrown
<1>3. InWindow(r, p, e)
  <2>1. Data[e].at \in Nat /\ Data[q[1]].at \in Nat /\ Rules[r].window \in Nat
    BY <1>2, RuleFacts
  <2>2. Data[e].at >= p.started /\ Data[e].at - p.started <= Rules[r].window
    BY <1>1, <1>2, <2>1
  <2> QED
    BY <2>2 DEF InWindow
<1>4. Advances(r, p, e)
  <2>1. ASSUME NEW f \in DOMAIN Rules[r].where[n + 1]
        PROVE  /\ p.bindings[Rules[r].where[n + 1][f]] # None
               /\ Data[e].field[f] = p.bindings[Rules[r].where[n + 1][f]]
    <3>1. n + 1 \in 1..Len(Rules[r].steps)
      BY <1>1, RuleFacts
    <3>2. PICK v \in Variable : v = Rules[r].where[n + 1][f]
      BY <3>1, RuleFacts
    <3>3. PICK value : value = p.bindings[v] /\ Leaves(r, q, v, value)
      BY <1>1
    <3>4. PICK other : other = Data[e].field[f] /\ LatestBinding(r, q, n + 1, v, other)
      BY <1>2, <3>2
    <3>5. LatestBinding(r, q, n + 1, v, value)
      <4>1. CASE \A k \in 1..n : ~Binds(r, k, q[k], v)
        <5>1. (n + 1) - 1 = n
          BY <1>1
        <5> QED
          BY <3>4, <4>1, <5>1 DEF LatestBinding
      <4> QED
        BY <1>1, <3>3, <4>1 DEF Leaves
    <3>6. n + 1 \in Nat
      BY <1>1
    <3>7. value = other /\ value # None
      BY <3>4, <3>5, <3>6, LatestOne
    <3> QED
      BY <3>2, <3>3, <3>4, <3>7
  <2> QED
    BY <1>1, <1>2, <2>1 DEF Advances, _step_matches, Fits, get_field
<1>5. Advanced(r, p, e, score).next = n + 2
  <2>1. Advanced(r, p, e, score).next = p.next + 1
    BY AdvancedIs
  <2>2. p.next + 1 = n + 2
    BY <1>1
  <2> QED
    BY <2>1, <2>2
<1>6. Complete(r, Advanced(r, p, e, score)) <=> n + 1 = Len(Rules[r].steps)
  <2>1. Len(Rules[r].steps) \in Nat
    BY RuleFacts
  <2> QED
    BY <1>1, <1>5, <2>1 DEF Complete
<1> QED
  BY <1>1, <1>3, <1>4, <1>6 DEF Continues

\* What the list of partial matches has after an event.
LEMMA AliveHas ==
    ASSUME NEW r \in RuleIds, NEW seen \in Seq(Partial), NEW e \in Event, NEW score \in Nat
    PROVE  /\ \A i \in DOMAIN seen : InWindow(r, seen[i], e) =>
                 seen[i] \in ToSet(Alive(r, seen, e, score))
           /\ \A i \in DOMAIN seen :
                 Continues(r, seen[i], e) /\ ~Complete(r, Advanced(r, seen[i], e, score)) =>
                 Advanced(r, seen[i], e, score) \in ToSet(Alive(r, seen, e, score))
           /\ _step_matches(r, 1, e, Unbound) => Opened(r, e, score) \in ToSet(Alive(r, seen, e, score))
<1>1. PICK n \in Nat : n = Len(seen) /\ DOMAIN seen = 1..n
  OBVIOUS
<1>2. ASSUME NEW s \in Places(r, seen, e, score)
      PROVE  Placed(r, seen, e, score, s) \in ToSet(Alive(r, seen, e, score))
  <2>1. PICK k \in DOMAIN Alive(r, seen, e, score) : Alive(r, seen, e, score)[k] = Placed(r, seen, e, score, s)
    BY AliveIs
  <2> QED
    BY <2>1 DEF ToSet
<1>3. ASSUME NEW i \in DOMAIN seen, InWindow(r, seen[i], e)
      PROVE  seen[i] \in ToSet(Alive(r, seen, e, score))
  <2>1. 2 * i \in Places(r, seen, e, score)
    BY <1>3 DEF Places
  <2>2. 2 * i # 2 * n + 1 /\ (2 * i) % 2 = 0 /\ (2 * i) \div 2 = i
    BY <1>1
  <2>3. Placed(r, seen, e, score, 2 * i) = seen[i]
    BY <1>1, <2>2 DEF Placed
  <2> QED
    BY <1>2, <2>1, <2>3
<1>4. ASSUME NEW i \in DOMAIN seen, Continues(r, seen[i], e),
             ~Complete(r, Advanced(r, seen[i], e, score))
      PROVE  Advanced(r, seen[i], e, score) \in ToSet(Alive(r, seen, e, score))
  <2>1. 2 * i - 1 \in Places(r, seen, e, score)
    BY <1>4 DEF Places
  <2>2. PICK s \in Int : s = 2 * i - 1
    BY <1>1
  <2>3. s # 2 * n + 1 /\ s % 2 # 0 /\ (s + 1) \div 2 = i
    BY <1>1, <2>2
  <2>4. Placed(r, seen, e, score, s) = Advanced(r, seen[i], e, score)
    BY <1>1, <2>3 DEF Placed
  <2> QED
    BY <1>2, <2>1, <2>2, <2>4
<1>5. ASSUME _step_matches(r, 1, e, Unbound)
      PROVE  Opened(r, e, score) \in ToSet(Alive(r, seen, e, score))
  <2>1. 2 * n + 1 \in Places(r, seen, e, score)
    BY <1>1, <1>5 DEF Places
  <2>2. Placed(r, seen, e, score, 2 * n + 1) = Opened(r, e, score)
    BY <1>1 DEF Placed
  <2> QED
    BY <1>2, <2>1, <2>2
<1> QED
  BY <1>3, <1>4, <1>5

\* Each of F is in G, or one of G subsumes it.
Keeps(F, G) ==
    \A f \in F : \E g \in G : g = f \/ (g.rule # 0 /\ Subsumes(g, f))

\* A run that some match answers for is still answered for when each match
\* stays or is subsumed by one that does.
LEMMA AccountedKept ==
    ASSUME NEW F, NEW G, Keeps(F, G), NEW r, NEW ids, Accounted(F, r, ids)
    PROVE  Accounted(G, r, ids)
<1>1. PICK f \in F : Answers(f, r, ids)
  BY DEF Accounted
<1>2. PICK g \in G : g = f \/ (g.rule # 0 /\ Subsumes(g, f))
  BY DEF Keeps
<1>3. PICK m : m = [rule |-> r, ids |-> ids]
  OBVIOUS
<1>4. m.rule = r /\ m.ids = ids
  BY <1>3
<1>5. CASE g = f
  BY <1>1, <1>5 DEF Accounted
<1>6. CASE g.rule # 0 /\ Subsumes(g, f)
  <2>1. CASE f.rule = r /\ f.ids = ids
    <3>1. Subsumes(g, m)
      BY <1>4, <1>6, <2>1 DEF Subsumes
    <3> QED
      BY <1>3, <1>6, <3>1 DEF Accounted, Answers
  <2>2. CASE Subsumes(f, m)
    <3>1. Subsumes(g, m)
      BY <1>6, <2>2, SubsumesOn
    <3> QED
      BY <1>3, <1>6, <3>1 DEF Accounted, Answers
  <2> QED
    BY <1>1, <1>3, <2>1, <2>2 DEF Answers
<1> QED
  BY <1>2, <1>5, <1>6

\* So a rule's partial matches and reports still cover its events.
LEMMA CoversKept ==
    ASSUME NEW F, NEW G, Keeps(F, G), NEW r, NEW parts, NEW list,
           Covers(r, parts, F, list)
    PROVE  Covers(r, parts, G, list)
BY AccountedKept DEF Covers, Reports

\* The rule's partial matches take in an event that is not older than those
\* before it.
LEMMA TracksGrow ==
    ASSUME NEW r \in RuleIds, NEW parts \in [Groups -> Seq(Partial)],
           NEW list \in Seq(Entry), NEW x \in Entry,
           NEW e \in Event, NEW score \in Nat, e = x.event, score = x.score,
           \A i \in DOMAIN parts[Group(e)] : SoundPartial(r, Group(e), parts[Group(e)][i]),
           \A d \in ToSet(list) : ~(Data[d.event].at > Data[e].at),
           Tracks(r, parts, list)
    PROVE  Tracks(r, [parts EXCEPT ![Group(e)] = Alive(r, parts[Group(e)], e, score)], Append(list, x))
<1>1. PICK seen \in Seq(Partial) : seen = parts[Group(e)]
  BY DEF Groups
<1>2. PICK alive \in Seq(Partial) :
         /\ alive = Alive(r, seen, e, score)
         /\ \A i \in DOMAIN seen : InWindow(r, seen[i], e) => seen[i] \in ToSet(alive)
         /\ \A i \in DOMAIN seen :
               Continues(r, seen[i], e) /\ ~Complete(r, Advanced(r, seen[i], e, score)) =>
               Advanced(r, seen[i], e, score) \in ToSet(alive)
         /\ _step_matches(r, 1, e, Unbound) => Opened(r, e, score) \in ToSet(alive)
  BY AliveIs, AliveHas
<1>3. PICK next : next = [parts EXCEPT ![Group(e)] = alive]
  OBVIOUS
<1>4. next[Group(e)] = alive /\ \A g : g # Group(e) => next[g] = parts[g]
  BY <1>3 DEF Groups
<1>5. PICK more \in Seq(Entry) : more = Append(list, x) /\ ToSet(more) = ToSet(list) \cup {x}
  <2>1. PICK l \in Nat : l = Len(list)
    OBVIOUS
  <2>2. Append(list, x) \in Seq(Entry)
    BY <2>1, AppendProperties
  <2>3. ToSet(Append(list, x)) = ToSet(list) \cup {x}
    BY AppendedSet
  <2> QED
    BY <2>2, <2>3
<1>6. PICK steps \in Nat : steps = Len(Rules[r].steps) /\ steps >= 2
  BY RuleFacts
<1>7. SUFFICES ASSUME NEW n \in 1..(steps - 1), NEW pos \in Picks(n, more),
                      NEW ids, ids = Picked(more, pos), OnTheWay(r, ids)
               PROVE  \/ \E p \in ToSet(next[Group(ids[1])]) :
                            p.ids = ids /\ \A i \in 1..n : more[pos[i]].score <= p.score
                      \/ \E d \in ToSet(more) : Data[d.event].at > Data[ids[1]].at + Rules[r].window
  BY <1>1, <1>2, <1>3, <1>5, <1>6 DEF Tracks
<1>8. n \in Nat /\ n >= 1 /\ n - 1 \in Nat /\ Rules[r].window \in Nat /\ Data[e].at \in Nat
  BY <1>6, RuleFacts
<1>9. ASSUME NEW k \in 1..(steps - 1), NEW q \in Picks(k, list), NEW some,
             some = Picked(list, q), OnTheWay(r, some)
      PROVE  \/ \E p \in ToSet(parts[Group(some[1])]) :
                   p.ids = some /\ \A i \in 1..k : list[q[i]].score <= p.score
             \/ \E d \in ToSet(list) : Data[d.event].at > Data[some[1]].at + Rules[r].window
  BY <1>6, <1>9 DEF Tracks
<1>10. CASE /\ pos \in Picks(n, list) /\ ids = Picked(list, pos)
            /\ \A i \in 1..n : more[pos[i]] = list[pos[i]]
  <2>1. \E d \in ToSet(list) : ids[1] = d.event /\ ids[1] \in Event /\ Data[ids[1]].at \in Nat
    <3>1. PICK d \in Entry : d = list[pos[1]] /\ d \in ToSet(list) /\ ids[1] = d.event
      <4>1. 1 \in 1..n
        BY <1>8
      <4> QED
        BY <1>8, <1>10, <4>1, PicksIs
    <3>2. d.event \in Event
      BY DEF Entry
    <3> QED
      BY <3>1, <3>2, RuleFacts
  <2>2. CASE \E d \in ToSet(list) : Data[d.event].at > Data[ids[1]].at + Rules[r].window
    BY <1>5, <2>2
  <2>3. CASE \E p \in ToSet(parts[Group(ids[1])]) :
                p.ids = ids /\ \A i \in 1..n : list[pos[i]].score <= p.score
    <3>1. PICK p \in ToSet(parts[Group(ids[1])]) :
             p.ids = ids /\ \A i \in 1..n : more[pos[i]].score <= p.score
      BY <1>10, <2>3
    <3>2. CASE Group(ids[1]) # Group(e)
      BY <1>4, <3>1, <3>2
    <3>3. CASE Group(ids[1]) = Group(e)
      <4>1. PICK i \in DOMAIN seen : p = seen[i]
        BY <1>1, <3>1, <3>3 DEF ToSet
      <4>2. CASE InWindow(r, p, e)
        BY <1>2, <1>4, <3>1, <3>3, <4>1, <4>2
      <4>3. CASE ~InWindow(r, p, e)
        <5>1. p.started = Data[ids[1]].at
          BY <1>1, <3>1, <4>1 DEF SoundPartial
        <5>2. ~(Data[ids[1]].at > Data[e].at)
          BY <2>1
        <5>3. PICK first \in Nat : first = Data[ids[1]].at
          BY <2>1
        <5>4. PICK now \in Nat : now = Data[e].at
          BY <1>8
        <5>5. PICK window \in Nat : window = Rules[r].window
          BY <1>8
        <5>6. ~(first > now)
          BY <5>2, <5>3, <5>4
        <5>7. ~(now >= first /\ now - first <= window)
          BY <4>3, <5>1, <5>3, <5>4, <5>5 DEF InWindow
        <5>8. now > first + window
          BY <5>6, <5>7
        <5>9. Data[e].at > Data[ids[1]].at + Rules[r].window
          BY <5>3, <5>4, <5>5, <5>8
        <5>10. x \in ToSet(more) /\ Data[x.event].at > Data[ids[1]].at + Rules[r].window
          BY <1>5, <5>9
        <5> QED
          BY <5>10
      <4> QED
        BY <4>2, <4>3
    <3> QED
      BY <3>2, <3>3
  <2> QED
    <3>1. OnTheWay(r, ids)
      BY <1>7
    <3> QED
      BY <1>9, <1>10, <2>2, <2>3, <3>1, Zenon
<1>11. CASE \E q \in Picks(n - 1, list) :
               /\ ids = Append(Picked(list, q), e)
               /\ \A i \in 1..(n - 1) : more[pos[i]] = list[q[i]]
               /\ more[pos[n]] = x
  <2>1. PICK q \in Picks(n - 1, list) :
           /\ ids = Append(Picked(list, q), e)
           /\ \A i \in 1..(n - 1) : more[pos[i]] = list[q[i]]
           /\ more[pos[n]] = x
    BY <1>11
  <2>2. PICK some \in Seq(Event), k \in Nat :
           some = Picked(list, q) /\ Len(some) = k /\ k = n - 1
    BY <1>8, PicksIs
  <2>3. /\ ids \in Seq(Event) /\ Len(ids) = n /\ ids[k + 1] = e
        /\ \A i \in 1..k : ids[i] = some[i]
    <3>1. k + 1 = n
      BY <1>8, <2>2
    <3>2. /\ Append(some, e) \in Seq(Event) /\ Len(Append(some, e)) = k + 1
          /\ Append(some, e)[k + 1] = e /\ \A i \in 1..k : Append(some, e)[i] = some[i]
      BY <2>2, Appended
    <3> QED
      BY <2>1, <2>2, <3>1, <3>2
  <2>4. CASE k = 0
    <3>1. ids = <<e>> /\ ids[1] = e
      <4>1. some = <<>>
        BY <2>2, <2>4, EmptySeq
      <4>2. Append(<<>>, e) = <<e>>
        OBVIOUS
      <4> QED
        BY <2>1, <2>2, <2>3, <2>4, <4>1, <4>2
    <3>2. /\ Data[e].kind \in Rules[r].steps[1]
          /\ \A f \in DOMAIN Rules[r].where[1] :
                LatestBinding(r, ids, 1, Rules[r].where[1][f], Data[e].field[f])
      <4>1. 1 \in 1..Len(ids)
        BY <1>8, <2>3
      <4> QED
        BY <1>7, <3>1, <4>1 DEF OnTheWay
    <3>3. \A f : f \notin DOMAIN Rules[r].where[1]
      <4>1. \A v, value : ~LatestBinding(r, ids, 1, v, value)
        BY DEF LatestBinding
      <4> QED
        BY <3>2, <4>1
    <3>4. _step_matches(r, 1, e, Unbound)
      BY <3>2, <3>3 DEF _step_matches, Fits
    <3>5. \A i \in 1..n : more[pos[i]].score <= score
      <4>1. n = 1 /\ \A i \in 1..n : i = n
        BY <1>8, <2>2, <2>4
      <4> QED
        BY <2>1, <4>1
    <3>6. PICK p \in Partial : p = Opened(r, e, score) /\ p.ids = ids /\ p.score = score
      BY <3>1, OpenedIs
    <3> QED
      BY <1>2, <1>4, <3>1, <3>4, <3>5, <3>6
  <2>5. CASE k # 0
    <3>1. k >= 1 /\ k \in 1..(steps - 1) /\ ids[1] = some[1]
      BY <1>6, <2>2, <2>3, <2>5
    <3>2. OnTheWay(r, Append(some, e))
      BY <1>7, <2>1, <2>2
    <3>3. /\ OnTheWay(r, some) /\ some[1] \in Event
          /\ Data[e].asset = Data[some[1]].asset
          /\ Data[e].at \in Data[some[1]].at .. Data[some[1]].at + Rules[r].window
      <4>1. k = Len(some) /\ k >= 1
        BY <2>2, <3>1
      <4> QED
        BY <3>2, <4>1, OnTheWayGrown
    <3>4. Data[some[1]].at \in Nat
      BY <3>3, RuleFacts
    <3>5. ASSUME NEW d \in ToSet(list), Data[d.event].at > Data[some[1]].at + Rules[r].window
          PROVE  FALSE
      <4>1. d \in Entry /\ d.event \in Event /\ Data[d.event].at \in Nat
        <5>1. PICK i \in DOMAIN list : d = list[i]
          BY <3>5 DEF ToSet
        <5>2. d \in Entry
          BY <5>1
        <5>3. d.event \in Event
          BY <5>2 DEF Entry
        <5> QED
          BY <5>2, <5>3, RuleFacts
      <4>2. ~(Data[d.event].at > Data[e].at)
        OBVIOUS
      <4>3. PICK a \in Nat, b \in Nat, c \in Nat, window \in Nat :
               /\ a = Data[some[1]].at /\ b = Data[e].at
               /\ c = Data[d.event].at /\ window = Rules[r].window
        BY <1>8, <3>4, <4>1
      <4>4. b \in a .. a + window /\ c > a + window /\ ~(c > b)
        BY <3>3, <3>5, <4>2, <4>3
      <4> QED
        BY <4>4
    <3>6. PICK p \in ToSet(parts[Group(some[1])]) :
             p.ids = some /\ \A i \in 1..k : list[q[i]].score <= p.score
      BY <1>9, <2>2, <3>1, <3>3, <3>5
    <3>7. Group(some[1]) = Group(e)
      BY <3>3 DEF Group
    <3>8. PICK i \in DOMAIN seen : p = seen[i]
      BY <1>1, <3>6, <3>7 DEF ToSet
    <3>9. p \in Partial /\ SoundPartial(r, Group(e), p)
      BY <1>1, <3>8
    <3>10. k + 1 # steps
      BY <1>6, <2>2
    <3>11. Continues(r, p, e) /\ ~Complete(r, Advanced(r, p, e, score))
      <4>1. OnTheWay(r, Append(p.ids, e)) /\ Len(p.ids) = k
        BY <2>2, <3>2, <3>6
      <4> QED
        BY <1>6, <3>9, <3>10, <4>1, ContinuesWith
    <3>12. PICK full \in Partial :
              /\ full = Advanced(r, p, e, score) /\ full.ids = Append(p.ids, e)
              /\ full.score >= p.score /\ full.score >= score
      BY <3>9, AdvancedIs
    <3>13. full \in ToSet(alive) /\ full.ids = ids
      BY <1>2, <2>1, <2>2, <3>6, <3>8, <3>11, <3>12
    <3>14. ASSUME NEW h \in 1..n PROVE more[pos[h]].score <= full.score
      <4>1. CASE h = n
        BY <2>1, <3>12, <4>1 DEF Partial
      <4>2. CASE h # n
        <5>1. h \in 1..(n - 1) /\ h \in 1..k
          BY <1>8, <2>2, <4>2
        <5>2. more[pos[h]] = list[q[h]]
          BY <2>1, <5>1
        <5>3. list[q[h]] \in Entry
          BY <2>2, <5>1, PicksIs
        <5>4. PICK m \in Nat : m = list[q[h]].score
          BY <5>3 DEF Entry
        <5>5. m <= p.score
          BY <3>6, <5>1, <5>4
        <5>6. PICK a \in Nat, b \in Nat : a = p.score /\ b = full.score
          BY <3>9 DEF Partial
        <5>7. b >= a /\ m <= a
          BY <3>12, <5>5, <5>6
        <5>8. m <= b
          BY <5>7
        <5> QED
          BY <5>2, <5>4, <5>6, <5>8
      <4> QED
        BY <4>1, <4>2
    <3> QED
      BY <1>4, <3>1, <3>7, <3>13, <3>14
  <2> QED
    BY <2>4, <2>5
<1> QED
  <2>1. pos \in Picks(n, Append(list, x)) /\ ids = Picked(Append(list, x), pos)
    BY <1>5, <1>7
  <2>2. \/ /\ pos \in Picks(n, list) /\ Picked(Append(list, x), pos) = Picked(list, pos)
           /\ \A i \in 1..n : Append(list, x)[pos[i]] = list[pos[i]]
        \/ \E q \in Picks(n - 1, list) :
              /\ Picked(Append(list, x), pos) = Append(Picked(list, q), x.event)
              /\ \A i \in 1..(n - 1) : Append(list, x)[pos[i]] = list[q[i]]
              /\ Append(list, x)[pos[n]] = x
    <3>1. PickOf(list, x, n, pos)
      BY <1>8, <2>1, PicksGrow
    <3> QED
      BY <3>1, Zenon DEF PickOf
  <2> QED
    BY <1>5, <1>10, <1>11, <2>1, <2>2

\* A run that the event completes has a partial match that it completes.
LEMMA ReportsGrow ==
    ASSUME NEW r \in RuleIds, NEW parts \in [Groups -> Seq(Partial)],
           NEW list \in Seq(Entry), NEW x \in Entry,
           NEW e \in Event, NEW score \in Nat, e = x.event, score = x.score,
           \A i \in DOMAIN parts[Group(e)] : SoundPartial(r, Group(e), parts[Group(e)][i]),
           \A d \in ToSet(list) : ~(Data[d.event].at > Data[e].at),
           NEW F, NEW G, Keeps(F, G), Covers(r, parts, F, list),
           \A i \in DOMAIN parts[Group(e)] :
              /\ Continues(r, parts[Group(e)][i], e)
              /\ Complete(r, Advanced(r, parts[Group(e)][i], e, score))
              /\ Advanced(r, parts[Group(e)][i], e, score).score >= Rules[r].minimum
              => Accounted(G, r, Append(parts[Group(e)][i].ids, e))
    PROVE  Reports(r, G, Append(list, x))
<1>1. PICK seen \in Seq(Partial) : seen = parts[Group(e)]
  BY DEF Groups
<1>2. PICK steps \in Nat : steps = Len(Rules[r].steps) /\ steps >= 2
  BY RuleFacts
<1>3. SUFFICES ASSUME NEW pos \in Picks(steps, Append(list, x)),
                      NEW ids, ids = Picked(Append(list, x), pos), Means(r, ids),
                      NEW h \in DOMAIN pos, Append(list, x)[pos[h]].score >= Rules[r].minimum
               PROVE  Accounted(G, r, ids)
  BY <1>2 DEF Reports
<1> DEFINE more == Append(list, x)
<1>4. DOMAIN pos = 1..steps
  BY DEF Picks
<1>5. CASE /\ pos \in Picks(steps, list) /\ ids = Picked(list, pos)
           /\ \A i \in 1..steps : more[pos[i]] = list[pos[i]]
  <2>1. Accounted(F, r, ids)
    <3>1. list[pos[h]].score >= Rules[r].minimum
      BY <1>3, <1>5, <1>4
    <3> QED
      BY <1>2, <1>3, <1>5, <3>1 DEF Covers, Reports
  <2> QED
    BY <2>1, AccountedKept
<1>6. CASE \E q \in Picks(steps - 1, list) :
              /\ ids = Append(Picked(list, q), e)
              /\ \A i \in 1..(steps - 1) : more[pos[i]] = list[q[i]]
              /\ more[pos[steps]] = x
  <2>1. PICK k \in Nat : k = steps - 1 /\ k + 1 = steps /\ k >= 1 /\ k \in 1..(steps - 1)
    <3>1. /\ steps - 1 \in Nat /\ (steps - 1) + 1 = steps /\ steps - 1 >= 1
          /\ steps - 1 \in 1..(steps - 1)
      BY <1>2
    <3> QED
      BY <3>1
  <2>2. PICK q \in Picks(k, list) :
           /\ ids = Append(Picked(list, q), e)
           /\ \A i \in 1..k : more[pos[i]] = list[q[i]]
           /\ more[pos[steps]] = x
    BY <1>6, <2>1
  <2>3. PICK some \in Seq(Event) : some = Picked(list, q) /\ Len(some) = k
    BY <2>1, PicksIs
  <2>4. OnTheWay(r, Append(some, e))
    <3>1. OnTheWay(r, ids)
      BY <1>3, Zenon DEF Means, OnTheWay
    <3> QED
      BY <2>2, <2>3, <3>1
  <2>5. /\ OnTheWay(r, some) /\ some[1] \in Event
        /\ Data[e].asset = Data[some[1]].asset
        /\ Data[e].at \in Data[some[1]].at .. Data[some[1]].at + Rules[r].window
    BY <2>1, <2>3, <2>4, OnTheWayGrown
  <2>6. Data[some[1]].at \in Nat /\ Data[e].at \in Nat /\ Rules[r].window \in Nat
    BY <2>5, RuleFacts
  <2>7. ASSUME NEW d \in ToSet(list), Data[d.event].at > Data[some[1]].at + Rules[r].window
        PROVE  FALSE
    <3>1. d \in Entry /\ d.event \in Event /\ Data[d.event].at \in Nat
      <4>1. PICK i \in DOMAIN list : d = list[i]
        BY <2>7 DEF ToSet
      <4>2. d \in Entry
        BY <4>1
      <4>3. d.event \in Event
        BY <4>2 DEF Entry
      <4> QED
        BY <4>2, <4>3, RuleFacts
    <3>2. ~(Data[d.event].at > Data[e].at)
      OBVIOUS
    <3>3. PICK a \in Nat, b \in Nat, c \in Nat, window \in Nat :
             /\ a = Data[some[1]].at /\ b = Data[e].at
             /\ c = Data[d.event].at /\ window = Rules[r].window
      BY <2>6, <3>1
    <3>4. b \in a .. a + window /\ c > a + window /\ ~(c > b)
      BY <2>5, <2>7, <3>2, <3>3
    <3> QED
      BY <3>4
  <2>8. PICK p \in ToSet(parts[Group(some[1])]) :
           p.ids = some /\ \A i \in 1..k : list[q[i]].score <= p.score
    BY <1>2, <2>1, <2>3, <2>5, <2>7 DEF Covers, Tracks
  <2>9. Group(some[1]) = Group(e)
    BY <2>5 DEF Group
  <2>10. PICK i \in DOMAIN seen : p = seen[i]
    BY <1>1, <2>8, <2>9 DEF ToSet
  <2>11. p \in Partial /\ SoundPartial(r, Group(e), p)
    BY <1>1, <2>10
  <2>12. Continues(r, p, e) /\ Complete(r, Advanced(r, p, e, score))
    <3>1. OnTheWay(r, Append(p.ids, e)) /\ Len(p.ids) = k
      BY <2>3, <2>4, <2>8
    <3> QED
      BY <1>2, <2>1, <2>11, <3>1, ContinuesWith
  <2>13. PICK full \in Partial :
            /\ full = Advanced(r, p, e, score)
            /\ full.score >= p.score /\ full.score >= score
    BY <2>11, AdvancedIs
  <2>14. full.score >= Rules[r].minimum
    <3>1. p.score \in Nat /\ full.score \in Nat /\ Rules[r].minimum \in Nat
      BY <2>11, RuleFacts DEF Partial
    <3>2. CASE h = steps
      <4>1. x.score >= Rules[r].minimum
        BY <1>3, <2>2, <3>2
      <4>2. full.score >= x.score /\ x.score \in Nat
        BY <2>13
      <4> QED
        BY <3>1, <4>1, <4>2
    <3>3. CASE h # steps
      <4>1. h \in 1..k
        BY <1>2, <1>4, <2>1, <3>3
      <4>2. more[pos[h]] = list[q[h]] /\ list[q[h]] \in Entry
        BY <2>1, <2>2, <4>1, PicksIs
      <4>3. PICK m \in Nat : m = list[q[h]].score
        BY <4>2 DEF Entry
      <4>4. m <= p.score /\ m >= Rules[r].minimum
        BY <1>3, <2>8, <4>1, <4>2, <4>3
      <4> QED
        BY <2>13, <3>1, <4>4
    <3> QED
      BY <3>2, <3>3
  <2>15. Accounted(G, r, Append(p.ids, e))
    BY <1>1, <2>10, <2>12, <2>13, <2>14
  <2> QED
    BY <2>2, <2>3, <2>8, <2>15
<1> QED
  <2>1. steps >= 1
    BY <1>2
  <2>2. \/ /\ pos \in Picks(steps, list) /\ Picked(more, pos) = Picked(list, pos)
           /\ \A i \in 1..steps : more[pos[i]] = list[pos[i]]
        \/ \E q \in Picks(steps - 1, list) :
              /\ Picked(more, pos) = Append(Picked(list, q), x.event)
              /\ \A i \in 1..(steps - 1) : more[pos[i]] = list[q[i]]
              /\ more[pos[steps]] = x
    <3>1. PickOf(list, x, steps, pos)
      BY <1>2, <1>3, <2>1, PicksGrow
    <3> QED
      BY <3>1, Zenon DEF PickOf
  <2> QED
    BY <1>3, <1>5, <1>6, <2>2

\* A worker's step keeps all matches found when those in its hands go to the
\* table, stay, or give way to one that subsumes them.
LEMMA FoundKept ==
    ASSUME HuntTypes, NEW w \in Worker, NEW j, job' = [job EXCEPT ![w] = j],
           ToSet(findings) \subseteq ToSet(findings'),
           \A f \in InHand(job[w]) :
              \/ f \in ToSet(findings')
              \/ \E g \in InHand(j) : g = f \/ (g.rule # 0 /\ Subsumes(g, f))
    PROVE  Keeps(Found, Found')
<1>1. job'[w] = j /\ \A v \in Worker \ {w} : job'[v] = job[v]
  BY DEF HuntTypes
<1>2. SUFFICES ASSUME NEW f \in Found
               PROVE  \E g \in Found' : g = f \/ (g.rule # 0 /\ Subsumes(g, f))
  BY DEF Keeps
<1>3. ToSet(findings') \subseteq Found' /\ \A v \in Worker : InHand(job'[v]) \subseteq Found'
  BY DEF Found
<1>4. CASE f \in ToSet(findings)
  BY <1>3, <1>4
<1>5. CASE f \in InHand(job[w])
  BY <1>1, <1>3, <1>5
<1>6. CASE \E v \in Worker \ {w} : f \in InHand(job[v])
  BY <1>1, <1>3, <1>6
<1>7. f \in ToSet(findings) \/ \E v \in Worker : f \in InHand(job[v])
  BY DEF Found
<1> QED
  BY <1>4, <1>5, <1>6, <1>7

\* A step of a worker that gives no event to a rule.
LEMMA CompleteMoves ==
    ASSUME HuntTypes, CompleteInv, NEW w \in Worker, NEW j,
           job' = [job EXCEPT ![w] = j], UNCHANGED <<order, partials, disturbed>>,
           ToSet(findings) \subseteq ToSet(findings'), j # NoJob => Turn(j)',
           Keeps(Found, Found'),
           \A r \in RuleIds : Past(j, r) <=> Past(job[w], r),
           \A r \in RuleIds : Past(j, r) => j.event = job[w].event /\ j.score = job[w].score,
           j.pc = "advance" => j.seen = partials[j.rule][Group(j.event)],
           ~disturbed => \A m \in emitted' : Accounted(Found, m.rule, m.ids),
           ~disturbed /\ j # NoJob => \A m \in j.from \cup j.kept : Accounted(Found, m.rule, m.ids)
    PROVE  CompleteInv'
<1>1. job'[w] = j /\ \A v \in Worker : v # w => job'[v] = job[v]
  BY DEF HuntTypes
<1>2. order' \in Seq(Entry)
  BY DEF CompleteInv
<1>3. ASSUME NEW v \in Worker, job'[v] # NoJob PROVE Turn(job[v])'
  <2>1. CASE v = w
    BY <1>1, <1>3, <2>1 DEF Turn
  <2>2. CASE v # w
    <3>1. job'[v] = job[v] /\ Turn(job[v])
      BY <1>1, <1>3, <2>2 DEF CompleteInv
    <3> QED
      BY <3>1 DEF Turn
  <2> QED
    BY <2>1, <2>2
<1>4. ASSUME ~disturbed' PROVE SeenIsCurrent' /\ MarksAccounted' /\ Given'
  <2>1. SeenIsCurrent /\ MarksAccounted /\ Given /\ ~disturbed
    BY <1>4 DEF CompleteInv
  <2>2. SeenIsCurrent'
    <3> SUFFICES ASSUME NEW v \in Worker, job'[v].pc = "advance"
                 PROVE  job'[v].seen = partials[job'[v].rule][Group(job'[v].event)]
      BY DEF SeenIsCurrent, At
    <3>1. CASE v = w
      BY <1>1, <3>1
    <3>2. CASE v # w
      <4>1. job'[v] = job[v]
        BY <1>1, <3>2
      <4> QED
        BY <2>1, <4>1 DEF SeenIsCurrent, At
    <3> QED
      BY <3>1, <3>2
  <2>3. \A r, ids : Accounted(Found, r, ids) => Accounted(Found', r, ids)
    BY AccountedKept
  <2>4. MarksAccounted'
    <3>1. \A m \in emitted' : Accounted(Found', m.rule, m.ids)
      BY <2>1, <2>3
    <3>2. ASSUME NEW v \in Worker, job'[v] # NoJob, NEW m \in job'[v].from \cup job'[v].kept
          PROVE  Accounted(Found', m.rule, m.ids)
      <4>1. CASE v = w
        BY <1>1, <2>1, <2>3, <3>2, <4>1
      <4>2. CASE v # w
        <5>1. job'[v] = job[v]
          BY <1>1, <4>2
        <5>2. Accounted(Found, m.rule, m.ids)
          BY <2>1, <3>2, <5>1 DEF MarksAccounted
        <5> QED
          BY <2>3, <5>2
      <4> QED
        BY <4>1, <4>2
    <3> QED
      BY <3>1, <3>2 DEF MarksAccounted
  <2>5. Given'
    <3>1. \A r, parts, list : Covers(r, parts, Found, list) => Covers(r, parts, Found', list)
      BY CoversKept
    <3>2. ASSUME NEW r \in RuleIds, NEW v \in Worker, Past(job'[v], r)
          PROVE  Covers(r, partials[r], Found', With(order, job'[v]))
      <4>1. Past(job[v], r) /\ job'[v].event = job[v].event /\ job'[v].score = job[v].score
        BY <1>1, <3>2
      <4>2. Covers(r, partials[r], Found, With(order, job[v]))
        BY <2>1, <4>1 DEF Given
      <4>3. With(order, job'[v]) = With(order, job[v])
        BY <4>1 DEF With
      <4> QED
        BY <3>1, <4>2, <4>3
    <3>3. ASSUME NEW r \in RuleIds, \A v \in Worker : ~Past(job'[v], r)
          PROVE  Covers(r, partials[r], Found', order)
      <4>1. \A v \in Worker : ~Past(job[v], r)
        BY <1>1, <3>3
      <4>2. Covers(r, partials[r], Found, order)
        BY <2>1, <4>1 DEF Given
      <4> QED
        BY <3>1, <4>2
    <3> QED
      BY <3>2, <3>3 DEF Given
  <2> QED
    BY <2>2, <2>4, <2>5
<1> QED
  BY <1>2, <1>3, <1>4 DEF CompleteInv

\* Two lists put together have the members of both.
LEMMA ConcatHas ==
    ASSUME NEW S, NEW a \in Seq(S), NEW b \in Seq(S)
    PROVE  ToSet(a) \cup ToSet(b) \subseteq ToSet(a \o b)
<1>1. PICK m \in Nat, n \in Nat : /\ m = Len(a) /\ DOMAIN a = 1..m
                                  /\ n = Len(b) /\ DOMAIN b = 1..n
  OBVIOUS
<1>2. PICK c : c = a \o b
  OBVIOUS
<1>3. /\ c \in Seq(S) /\ Len(c) = m + n
      /\ \A i \in 1..(m + n) : c[i] = IF i <= m THEN a[i] ELSE b[i - m]
  BY <1>1, <1>2, ConcatProperties
<1>4. DOMAIN c = 1..(m + n)
  BY <1>3
<1>5. ASSUME NEW i \in 1..m PROVE i \in 1..(m + n) /\ c[i] = a[i]
  BY <1>3
<1>6. ASSUME NEW i \in 1..n PROVE m + i \in 1..(m + n) /\ c[m + i] = b[i]
  <2>1. m + i \in 1..(m + n) /\ ~(m + i <= m) /\ (m + i) - m = i
    OBVIOUS
  <2> QED
    BY <1>3, <2>1
<1>7. ASSUME NEW x \in ToSet(a) \cup ToSet(b) PROVE x \in ToSet(c)
  <2>1. \A i \in DOMAIN c : c[i] \in ToSet(c)
    BY DEF ToSet
  <2>2. CASE x \in ToSet(a)
    <3>1. PICK i \in 1..m : x = a[i]
      BY <1>1, <2>2 DEF ToSet
    <3> QED
      BY <1>4, <1>5, <2>1, <3>1
  <2>3. CASE x \in ToSet(b)
    <3>1. PICK i \in 1..n : x = b[i]
      BY <1>1, <2>3 DEF ToSet
    <3> QED
      BY <1>4, <1>6, <2>1, <3>1
  <2> QED
    BY <1>7, <2>2, <2>3
<1> QED
  BY <1>2, <1>7

\* What AdvancePartials does to the matches: those the worker has in hand, and
\* the ones that are new, are in its hands, or one that subsumes them is.
LEMMA MatchesKept ==
    ASSUME HuntTypes, NEW w \in Worker, job[w] \in Job, job[w].pc = "advance",
           NEW known, NEW j, NEW new \in Seq(RuleMatch), NEW all \in Seq(RuleMatch),
           MatchStep(w, known, j, new, all), j # NoJob, UNCHANGED findings
    PROVE  /\ Keeps(Found, Found')
           /\ \A n \in ToSet(new) : Accounted(Found', n.rule, n.ids)
<1>1. PICK matches \in Seq(RuleMatch), lead \in Seq(Finding) :
         /\ matches = job[w].matches /\ job[w].found = <<>> /\ all = matches \o new
         /\ lead = (IF job[w].lead THEN <<Lead(job[w].event, job[w].score)>> ELSE <<>>)
  <2>1. /\ job[w].found = <<>> /\ job[w].matches \in Seq(RuleMatch)
        /\ job[w].event \in Event /\ job[w].score \in Nat
    BY JobIs DEF HuntTypes, Stage, Job
  <2>2. PICK f \in Finding : f = Lead(job[w].event, job[w].score)
    BY <2>1, LeadIs
  <2>3. <<f>> \in Seq(Finding) /\ <<>> \in Seq(Finding)
    OBVIOUS
  <2> QED
    BY <2>1, <2>2, <2>3 DEF MatchStep
<1>2. ToSet(matches) \subseteq ToSet(all) /\ ToSet(new) \subseteq ToSet(all)
  BY <1>1, ConcatHas
<1>3. /\ job' = [job EXCEPT ![w] = j] /\ job'[w] = j
      /\ \/ j.matches = all
         \/ j.found = _suppress_subsumed(all) \o lead
  BY <1>1 DEF MatchStep, HuntTypes
<1>4. InHand(j) = ToSet(j.matches) \cup ToSet(j.found)
  BY DEF InHand
<1>5. ASSUME NEW m \in ToSet(all)
      PROVE  \E g \in InHand(j) : g = m \/ (g.rule # 0 /\ Subsumes(g, m))
  <2>1. CASE j.matches = all
    BY <1>4, <2>1
  <2>2. CASE j.found = _suppress_subsumed(all) \o lead
    <3>1. PICK a \in Seq(RuleMatch) :
             /\ a = _suppress_subsumed(all)
             /\ \A i \in DOMAIN all : \E k \in DOMAIN a : a[k] = all[i] \/ Subsumes(a[k], all[i])
      BY SuppressedIs
    <3>2. PICK i \in DOMAIN all : m = all[i]
      BY DEF ToSet
    <3>3. PICK k \in DOMAIN a : a[k] = m \/ Subsumes(a[k], m)
      BY <3>1, <3>2
    <3>4. a[k] \in ToSet(a) /\ a[k].rule # 0
      <4>1. a[k] \in RuleMatch /\ 0 \notin RuleIds
        BY RuleFacts DEF RuleIds
      <4> QED
        BY <4>1 DEF ToSet, RuleMatch
    <3>5. a \in Seq(Finding)
      <4>1. RuleMatch \subseteq Finding
        BY DEF RuleMatch, Finding
      <4> QED
        BY <4>1, SeqMonotonic
    <3>6. ToSet(a) \subseteq ToSet(a \o lead)
      BY <3>5, ConcatHas
    <3> QED
      BY <1>4, <2>2, <3>1, <3>3, <3>4, <3>6
  <2> QED
    BY <1>3, <2>1, <2>2
<1>6. InHand(job[w]) \subseteq ToSet(matches)
  <2>1. ToSet(<<>>) = {}
    BY DEF ToSet
  <2> QED
    BY <1>1, <2>1 DEF InHand
<1>7. Keeps(Found, Found')
  <2>1. ToSet(findings) \subseteq ToSet(findings')
    OBVIOUS
  <2> QED
    BY <1>2, <1>3, <1>5, <1>6, <2>1, FoundKept
<1>8. ASSUME NEW n \in ToSet(new) PROVE Accounted(Found', n.rule, n.ids)
  <2>1. PICK g \in InHand(j) : g = n \/ (g.rule # 0 /\ Subsumes(g, n))
    BY <1>2, <1>5
  <2>2. g \in Found'
    BY <1>3 DEF Found
  <2>3. PICK m : m = [rule |-> n.rule, ids |-> n.ids]
    OBVIOUS
  <2>4. Subsumes(g, n) => Subsumes(g, m)
    BY <2>3 DEF Subsumes
  <2> QED
    BY <2>1, <2>2, <2>3, <2>4 DEF Accounted, Answers
<1> QED
  BY <1>7, <1>8

\* The worker gives its event to its rule.
LEMMA AdvanceComplete ==
    ASSUME HuntTypes, SoundInv, CompleteInv, NEW w \in Worker, AdvancePartials(w)
    PROVE  CompleteInv'
<1>1. PICK known \in {job[w].from, emitted}, j \in Job,
           new \in Seq(RuleMatch), all \in Seq(RuleMatch) : MatchStep(w, known, j, new, all)
  BY AdvanceEffect
<1>2. PICK r \in RuleIds, e \in Event, score \in Nat, seen \in Seq(Partial) :
         /\ r = job[w].rule /\ e = job[w].event /\ score = job[w].score /\ seen = job[w].seen
         /\ job[w] \in Job /\ job[w] # NoJob /\ job[w].pc = "advance"
  <2>1. job[w] \in Job /\ job[w] # NoJob /\ job[w].pc = "advance"
    BY AtIs DEF AdvancePartials
  <2> QED
    BY <2>1 DEF Job
<1>3. PICK x \in Entry : x = [event |-> e, score |-> score] /\ x.event = e /\ x.score = score
  <2>1. [event |-> e, score |-> score] \in Entry
    BY <1>2 DEF Entry
  <2> QED
    BY <2>1
<1>4. /\ new = Completed(r, seen, known, e, score)
      /\ partials' = [partials EXCEPT ![r][Group(e)] = Trimmed(Alive(r, seen, e, score))]
      /\ emitted' = {m \in emitted : \A n \in ToSet(new) : Signature(m) # Signature(n)}
                      \cup {[rule |-> n.rule, ids |-> n.ids, at |-> n.last] : n \in ToSet(new)}
      /\ job' = [job EXCEPT ![w] = j]
      /\ j.event = e /\ j.score = score /\ j.from = {} /\ j.kept = job[w].kept
      /\ \/ j.pc = "read" /\ r < Len(Rules) /\ j.rule = r + 1 /\ order' = order
         \/ /\ j.pc = "finding" /\ j.matches = <<>> /\ ~(r < Len(Rules))
            /\ order' = Append(order, x)
  BY <1>1, <1>2, <1>3 DEF MatchStep
<1>5. UNCHANGED findings /\ j # NoJob
  BY JobIs DEF AdvancePartials, tables
<1>6. job'[w] = j /\ \A v \in Worker : v # w => job'[v] = job[v]
  BY <1>4 DEF HuntTypes
<1>7. order' \in Seq(Entry)
  <2>1. order \in Seq(Entry)
    BY DEF CompleteInv
  <2>2. PICK l : l = Append(order, x) /\ l \in Seq(Entry)
    BY <2>1, AppendProperties
  <2> QED
    BY <1>4, <2>1, <2>2
<1>8. ASSUME NEW v \in Worker, job'[v] # NoJob PROVE Turn(job[v])'
  <2>1. CASE v = w
    BY <1>4, <1>6, <2>1 DEF Turn
  <2>2. CASE v # w
    <3>1. job'[v] = job[v] /\ Turn(job[v])
      BY <1>6, <1>8, <2>2 DEF CompleteInv
    <3> QED
      BY <1>5, <3>1 DEF Turn
  <2> QED
    BY <2>1, <2>2
<1>9. SUFFICES ASSUME ~disturbed' PROVE SeenIsCurrent' /\ MarksAccounted' /\ Given'
  BY <1>7, <1>8 DEF CompleteInv
<1>10. /\ ~(Len(Alive(r, seen, e, score)) > MaxPartials)
       /\ \A v \in Worker : v # w => ~(job[v].pc \in {"read", "advance"})
       /\ \A d \in ToSet(order) : ~(Data[d.event].at > Data[e].at)
       /\ SeenIsCurrent /\ MarksAccounted /\ Given
  BY <1>2, <1>9, AdvanceEffect DEF CompleteInv, At
<1>seen. \A v \in Worker : job[v].pc = "advance" =>
            job[v].seen = partials[job[v].rule][Group(job[v].event)]
  BY <1>10, Zenon DEF SeenIsCurrent, At
<1>marks. /\ \A m \in emitted : Accounted(Found, m.rule, m.ids)
          /\ \A v \in Worker : job[v] # NoJob =>
                \A m \in job[v].from \cup job[v].kept : Accounted(Found, m.rule, m.ids)
  BY <1>10, Zenon DEF MarksAccounted
<1>covers. /\ \A y \in RuleIds, v \in Worker : Past(job[v], y) =>
                 Covers(y, partials[y], Found, With(order, job[v]))
           /\ \A y \in RuleIds : (\A v \in Worker : ~Past(job[v], y)) =>
                 Covers(y, partials[y], Found, order)
  BY <1>10, Zenon DEF Given
<1>11. Keeps(Found, Found') /\ \A n \in ToSet(new) : Accounted(Found', n.rule, n.ids)
  BY <1>1, <1>2, <1>5, MatchesKept
<1>12. \A y, ids : Accounted(Found, y, ids) => Accounted(Found', y, ids)
  BY <1>11, AccountedKept
<1>13. SeenIsCurrent'
  <2>1. j.pc # "advance"
    BY <1>4
  <2>2. \A v \in Worker : job'[v].pc # "advance"
    BY <1>6, <1>10, <2>1
  <2> QED
    BY <2>2 DEF SeenIsCurrent, At
<1>14. MarksAccounted'
  <2>1. ASSUME NEW m \in emitted' PROVE Accounted(Found', m.rule, m.ids)
    <3>1. CASE m \in emitted
      BY <1>marks, <1>12, <3>1
    <3>2. CASE \E n \in ToSet(new) : m = [rule |-> n.rule, ids |-> n.ids, at |-> n.last]
      BY <1>11, <3>2
    <3> QED
      BY <1>4, <3>1, <3>2
  <2>2. ASSUME NEW v \in Worker, job'[v] # NoJob, NEW m \in job'[v].from \cup job'[v].kept
        PROVE  Accounted(Found', m.rule, m.ids)
    <3>1. m \in job[v].from \cup job[v].kept /\ job[v] # NoJob
      BY <1>2, <1>4, <1>6, <2>2
    <3>2. Accounted(Found, m.rule, m.ids)
      BY <1>marks, <3>1
    <3> QED
      BY <1>12, <3>2
  <2> QED
    BY <2>1, <2>2 DEF MarksAccounted
<1>15. PICK parts \in [Groups -> Seq(Partial)] :
          /\ parts = partials[r] /\ seen = parts[Group(e)]
          /\ \A i \in DOMAIN seen : SoundPartial(r, Group(e), seen[i])
  <2>1. Group(e) \in Groups
    BY DEF Groups
  <2>2. seen = partials[r][Group(e)]
    BY <1>2, <1>seen
  <2> QED
    BY <2>1, <2>2 DEF HuntTypes, SoundInv, SoundState
<1>16. PICK next : /\ next = [parts EXCEPT ![Group(e)] = Alive(r, seen, e, score)]
                   /\ partials'[r] = next
                   /\ \A y \in RuleIds : y # r => partials'[y] = partials[y]
  <2>1. PICK alive \in Seq(Partial) : alive = Alive(r, seen, e, score)
    BY AliveIs
  <2>2. Len(alive) <= MaxPartials
    <3>1. Len(alive) \in Nat /\ MaxPartials \in Nat
      BY RuleFacts
    <3> QED
      BY <1>10, <2>1, <3>1
  <2>3. Trimmed(alive) = alive
    BY <2>2, TrimmedIs
  <2>4. partials' = [partials EXCEPT ![r] = [parts EXCEPT ![Group(e)] = alive]]
    BY <1>4, <1>15, <2>1, <2>3
  <2> QED
    BY <2>1, <2>4 DEF HuntTypes
<1>17. /\ \A v \in Worker, y \in RuleIds : Past(job[v], y) <=> v = w /\ y < r
       /\ \A v \in Worker, y \in RuleIds : v # w => ~Past(job'[v], y)
  <2>1. ASSUME NEW y \in RuleIds PROVE Past(job[w], y) <=> y < r
    <3>1. y \in Nat /\ r \in Nat
      BY DEF RuleIds
    <3> QED
      BY <1>2, <3>1 DEF Past
  <2> QED
    BY <1>6, <1>10, <2>1 DEF Past
<1>18. Covers(r, parts, Found, order)
  <2>1. ~(r < r)
    BY DEF RuleIds
  <2> QED
    BY <1>covers, <1>15, <1>17, <2>1
\* A match that the event completes is new, or has been accounted for.
<1>19. ASSUME NEW i \in DOMAIN seen, Continues(r, seen[i], e),
              Complete(r, Advanced(r, seen[i], e, score)),
              Advanced(r, seen[i], e, score).score >= Rules[r].minimum
       PROVE  Accounted(Found', r, Append(seen[i].ids, e))
  <2>1. CASE Completes(r, seen[i], known, e, score)
    <3>1. \E m \in ToSet(new) : m.rule = r /\ m.ids = Append(seen[i].ids, e)
      <4>1. CompletesAll(r, seen, known, e, score, Completed(r, seen, known, e, score))
        BY CompletedIs
      <4> QED
        BY <1>4, <2>1, <4>1 DEF CompletesAll
    <3> QED
      BY <1>11, <3>1
  <2>2. CASE ~Completes(r, seen[i], known, e, score)
    <3>1. PICK m \in known : Signature(m) = [rule |-> r, ids |-> Advanced(r, seen[i], e, score).ids]
      BY <1>19, <2>2 DEF Completes
    <3>2. Advanced(r, seen[i], e, score).ids = Append(seen[i].ids, e)
      <4>1. PICK p \in Partial : p = seen[i]
        OBVIOUS
      <4>2. Advanced(r, p, e, score).ids = Append(p.ids, e)
        BY AdvancedIs, Zenon
      <4> QED
        BY <4>1, <4>2
    <3>3. m.rule = r /\ m.ids = Append(seen[i].ids, e)
      BY <3>1, <3>2 DEF Signature
    <3>4. Accounted(Found, m.rule, m.ids)
      BY <1>2, <1>marks, <3>3
    <3> QED
      BY <1>12, <3>3, <3>4
  <2> QED
    BY <2>1, <2>2
<1>20. PICK more : more = Append(order, x) /\ Covers(r, next, Found', more)
  <2>1. order \in Seq(Entry)
    BY DEF CompleteInv
  <2>2. Tracks(r, next, Append(order, x))
    <3>1. /\ Tracks(r, parts, order)
          /\ \A i \in DOMAIN parts[Group(e)] :
                SoundPartial(r, Group(e), parts[Group(e)][i])
      BY <1>15, <1>18 DEF Covers
    <3>2. Tracks(r, [parts EXCEPT ![Group(e)] = Alive(r, parts[Group(e)], e, score)], Append(order, x))
      BY <1>2, <1>10, <1>15, <1>3, <2>1, <3>1, TracksGrow
    <3> QED
      BY <1>15, <1>16, <3>2
  <2>3. Reports(r, Found', Append(order, x))
    BY <1>2, <1>10, <1>11, <1>15, <1>18, <1>19, <1>3, <2>1, ReportsGrow
  <2> QED
    BY <2>2, <2>3 DEF Covers
<1>21. ASSUME NEW y \in RuleIds, y < r
       PROVE  Covers(y, partials'[y], Found', more)
  <2>1. y # r
    BY <1>21 DEF RuleIds
  <2>2. Covers(y, partials[y], Found, more)
    BY <1>2, <1>covers, <1>17, <1>20, <1>21, <1>3 DEF With
  <2> QED
    BY <1>11, <1>16, <2>1, <2>2, CoversKept
<1>22. ASSUME NEW y \in RuleIds, r < y
       PROVE  Covers(y, partials'[y], Found', order)
  <2>1. y # r /\ ~(y < r)
    BY <1>22 DEF RuleIds
  <2>2. Covers(y, partials[y], Found, order)
    BY <1>covers, <1>17, <2>1
  <2> QED
    BY <1>11, <1>16, <2>1, <2>2, CoversKept
<1>23. \A y \in RuleIds : y \in Nat /\ (y < r \/ y = r \/ r < y) /\ y <= Len(Rules)
  BY DEF RuleIds
<1>24. CASE j.pc = "read" /\ j.rule = r + 1 /\ order' = order
  <2>1. \A y \in RuleIds : Past(job'[w], y) <=> y < r \/ y = r
    BY <1>6, <1>23, <1>24 DEF Past
  <2>2. With(order', job'[w]) = more
    BY <1>4, <1>6, <1>20, <1>24, <1>3 DEF With
  <2>3. ASSUME NEW v \in Worker, NEW y \in RuleIds, Past(job'[v], y)
        PROVE  Covers(y, partials'[y], Found', With(order', job'[v]))
    BY <1>16, <1>17, <1>20, <1>21, <2>1, <2>2, <2>3
  <2>4. ASSUME NEW y \in RuleIds, \A v \in Worker : ~Past(job'[v], y)
        PROVE  Covers(y, partials'[y], Found', order')
    BY <1>22, <1>23, <1>24, <2>1, <2>4
  <2>5. Given'
    BY <2>3, <2>4 DEF Given
  <2> QED
    BY <1>13, <1>14, <2>5
<1>25. CASE j.pc = "finding" /\ ~(r < Len(Rules)) /\ order' = Append(order, x)
  <2>1. ASSUME NEW v \in Worker, NEW y \in RuleIds PROVE ~Past(job'[v], y)
    BY <1>6, <1>17, <1>25 DEF Past
  <2>2. ASSUME NEW y \in RuleIds PROVE Covers(y, partials'[y], Found', order')
    <3>1. y < r \/ y = r
      <4>1. Len(Rules) \in Nat
        BY RuleFacts
      <4> QED
        BY <1>23, <1>25, <4>1
    <3> QED
      BY <1>16, <1>20, <1>21, <1>25, <3>1
  <2>3. Given'
    BY <2>1, <2>2 DEF Given
  <2> QED
    BY <1>13, <1>14, <2>3
<1> QED
  BY <1>4, <1>24, <1>25

\* A member of a list is its first, or one of the others.
LEMMA HeadOrTail ==
    ASSUME NEW S, NEW s \in Seq(S), s # <<>>, NEW x \in ToSet(s)
    PROVE  x = Head(s) \/ x \in ToSet(Tail(s))
<1>1. PICK n \in Nat : n = Len(s) /\ DOMAIN s = 1..n
  OBVIOUS
<1>2. PICK i \in 1..n : x = s[i]
  BY <1>1 DEF ToSet
<1>3. PICK t \in Seq(S) : /\ t = Tail(s) /\ Len(t) = n - 1 /\ Head(s) = s[1]
                          /\ \A k \in 1..(n - 1) : t[k] = s[k + 1]
  <2>1. PICK t : t = Tail(s)
    OBVIOUS
  <2>2. t \in Seq(S) /\ Len(t) = n - 1 /\ \A k \in 1..(n - 1) : t[k] = s[k + 1]
    BY <1>1, <2>1, HeadTailProperties
  <2>3. Head(s) = s[1]
    BY HeadTailProperties
  <2> QED
    BY <2>1, <2>2, <2>3
<1>4. CASE i = 1
  BY <1>2, <1>3, <1>4
<1>5. CASE i # 1
  <2>1. i - 1 \in 1..(n - 1) /\ (i - 1) + 1 = i
    BY <1>5
  <2>2. t[i - 1] = x /\ i - 1 \in DOMAIN t
    BY <1>2, <1>3, <2>1
  <2> QED
    BY <1>3, <2>2 DEF ToSet
<1> QED
  BY <1>4, <1>5

\* Every step keeps the engine complete while nothing is disturbed.
LEMMA CompleteInvKept ==
    ASSUME HuntTypes, SoundInv, CompleteInv, [HuntNext]_huntVars
    PROVE  CompleteInv'
<1> USE DEF tables, engine, history
\* A worker that is given no rule, and lets no match go.
<1>1. ASSUME NEW w \in Worker, NEW j, job' = [job EXCEPT ![w] = j],
             UNCHANGED <<order, partials, disturbed>>,
             ToSet(findings) \subseteq ToSet(findings'), j # NoJob => Turn(j)',
             \A f \in InHand(job[w]) : f \in ToSet(findings') \/ f \in InHand(j),
             ~(job[w].pc \in {"read", "advance"}) /\ ~(j.pc \in {"read", "advance"}),
             emitted' = emitted,
             ~disturbed /\ j # NoJob =>
                \A m \in j.from \cup j.kept : Accounted(Found, m.rule, m.ids)
      PROVE  CompleteInv'
  <2>1. Keeps(Found, Found')
    BY <1>1, FoundKept
  <2>2. \A r \in RuleIds : ~Past(job[w], r) /\ ~Past(j, r)
    BY <1>1 DEF Past
  <2>3. ~disturbed => \A m \in emitted' : Accounted(Found, m.rule, m.ids)
    BY <1>1 DEF CompleteInv, MarksAccounted
  <2>4. j.pc # "advance"
    BY <1>1
  <2> QED
    BY <1>1, <2>1, <2>2, <2>3, <2>4, CompleteMoves
<1>2. ToSet(<<>>) = {}
  BY DEF ToSet
<1>3. ASSUME NEW w \in Worker, NEW e \in Event, NEW path \in {"agent", "api"},
             ingest(w, e, path)
      PROVE  CompleteInv'
  <2>1. PICK j \in Job :
           /\ job' = [job EXCEPT ![w] = j] /\ j.pc = "prune" /\ j.event = e
           /\ j.from = emitted /\ j.kept = Kept(Data[e].at)
           /\ j.rule = 1 /\ j.matches = <<>> /\ j.found = <<>>
    BY <1>3, IngestEffect
  <2>2. job[w] = NoJob /\ UNCHANGED <<order, partials, disturbed, emitted, findings>>
    BY <1>3 DEF ingest
  <2>3. Turn(j)'
    BY <2>1 DEF Turn
  <2>4. InHand(job[w]) = {} /\ ~(job[w].pc \in {"read", "advance"})
    BY <2>2 DEF InHand, NoJob
  <2>5. ~disturbed => \A m \in j.from \cup j.kept : Accounted(Found, m.rule, m.ids)
    BY <2>1 DEF Kept, CompleteInv, MarksAccounted
  <2> QED
    BY <1>1, <2>1, <2>2, <2>3, <2>4, <2>5
<1>4. ASSUME NEW w \in Worker, _prune_emitted(w) PROVE CompleteInv'
  <2>1. UNCHANGED <<order, partials, disturbed, findings>>
    BY <1>4 DEF _prune_emitted
  <2>2. job[w] \in Job /\ job[w] # NoJob /\ job[w].pc = "prune" /\ job[w].found = <<>>
    BY <1>4, AtIs DEF _prune_emitted, Stage
  <2>3. job[w].matches = <<>> /\ job[w].rule = 1 /\ InHand(job[w]) = {}
    BY <1>2, <2>2 DEF CompleteInv, Turn, InHand
  <2>4. CASE job' = [job EXCEPT ![w] = NoJob] /\ emitted' = emitted
    <3>1. ~(NoJob.pc \in {"read", "advance"})
      BY DEF NoJob
    <3> QED
      BY <1>1, <2>1, <2>2, <2>3, <2>4, <3>1
  <2>5. ASSUME NEW j \in Job, job' = [job EXCEPT ![w] = j],
               j.pc = "read" /\ j.event = job[w].event /\ j.score = job[w].score,
               j.matches = job[w].matches /\ j.found = job[w].found,
               j.rule = job[w].rule /\ j.from = {} /\ j.kept = {},
               emitted' = job[w].kept
        PROVE  CompleteInv'
    <3>1. Turn(j)'
      BY <2>5 DEF Turn
    <3>2. Keeps(Found, Found')
      BY <2>1, <2>3, <2>5, FoundKept
    <3>3. \A r \in RuleIds : ~Past(job[w], r) /\ ~Past(j, r)
      BY <2>2, <2>3, <2>5 DEF Past, RuleIds
    <3>4. ~disturbed => \A m \in emitted' : Accounted(Found, m.rule, m.ids)
      BY <2>2, <2>5 DEF CompleteInv, MarksAccounted
    <3>5. j.pc # "advance" /\ \A m \in j.from \cup j.kept : Accounted(Found, m.rule, m.ids)
      BY <2>5
    <3> QED
      BY <2>1, <2>5, <3>1, <3>2, <3>3, <3>4, <3>5, CompleteMoves
  <2> QED
    BY <1>4, <2>4, <2>5, PruneEffect
<1>5. ASSUME NEW w \in Worker, ReadPartials(w) PROVE CompleteInv'
  <2>1. UNCHANGED <<order, partials, disturbed, findings, emitted>>
    BY <1>5 DEF ReadPartials
  <2>2. PICK j \in Job :
           /\ job' = [job EXCEPT ![w] = j]
           /\ j.pc = "advance" /\ j.event = job[w].event /\ j.score = job[w].score
           /\ j.matches = job[w].matches /\ j.found = job[w].found
           /\ j.rule = job[w].rule /\ j.from = emitted /\ j.kept = job[w].kept
           /\ j.seen = partials[j.rule][Group(j.event)]
    BY <1>5, ReadEffect
  <2>3. job[w] \in Job /\ job[w] # NoJob /\ job[w].pc = "read"
    BY <1>5, AtIs DEF ReadPartials
  <2>4. Turn(j)'
    BY <2>2 DEF Turn
  <2>5. InHand(job[w]) = InHand(j)
    BY <2>2, <2>3, JobIs DEF InHand
  <2>6. Keeps(Found, Found')
    BY <2>1, <2>2, <2>5, FoundKept
  <2>7. \A r \in RuleIds : Past(j, r) <=> Past(job[w], r)
    BY <2>2, <2>3 DEF Past
  <2>8. ~disturbed => /\ \A m \in emitted' : Accounted(Found, m.rule, m.ids)
                      /\ \A m \in j.from \cup j.kept : Accounted(Found, m.rule, m.ids)
    BY <2>1, <2>2, <2>3 DEF CompleteInv, MarksAccounted
  <2> QED
    BY <2>1, <2>2, <2>4, <2>6, <2>7, <2>8, CompleteMoves
<1>6. ASSUME NEW w \in Worker, InsertFinding(w) PROVE CompleteInv'
  <2>1. UNCHANGED <<order, partials, disturbed, emitted>>
    BY <1>6 DEF InsertFinding
  <2>2. PICK j \in Job :
           /\ job' = [job EXCEPT ![w] = j]
           /\ j.pc = "upsert" /\ j.event = job[w].event
           /\ j.matches = job[w].matches /\ j.found = job[w].found
           /\ j.from = job[w].from /\ j.kept = job[w].kept
    BY <1>6, InsertEffect
  <2>3. /\ job[w] \in Job /\ job[w] # NoJob /\ job[w].pc = "finding"
        /\ findings' = Append(findings, Head(job[w].found))
        /\ Head(job[w].found) \in Finding
    BY <1>6, AtIs, InsertEffect DEF InsertFinding
  <2>4. /\ ToSet(findings) \subseteq ToSet(findings')
        /\ Head(job[w].found) \in ToSet(findings')
    <3>1. PICK f \in Finding : f = Head(job[w].found)
      BY <2>3
    <3>2. PICK s \in Seq(Finding), n \in Nat :
             s = findings /\ n = Len(s) /\ DOMAIN s = 1..n
      BY DEF HuntTypes
    <3>3. PICK t : t = findings' /\ t = Append(s, f)
      BY <2>3, <3>1, <3>2
    <3>4. DOMAIN t = 1..(n + 1) /\ t[n + 1] = f /\ \A i \in 1..n : t[i] = s[i]
      BY <3>2, <3>3, AppendProperties
    <3>5. n + 1 \in 1..(n + 1) /\ \A i \in 1..n : i \in 1..(n + 1)
      BY <3>2
    <3>6. \A i \in DOMAIN t : t[i] \in ToSet(t)
      BY DEF ToSet
    <3>7. f \in ToSet(t)
      BY <3>4, <3>5, <3>6
    <3>8. \A i \in DOMAIN s : s[i] \in ToSet(t)
      BY <3>2, <3>4, <3>5, <3>6
    <3>9. ToSet(s) \subseteq ToSet(t)
      BY <3>8 DEF ToSet
    <3> QED
      BY <3>1, <3>2, <3>3, <3>7, <3>9
  <2>5. job[w].matches = <<>>
    BY <2>3 DEF CompleteInv, Turn
  <2>6. Turn(j)'
    BY <2>2, <2>4, <2>5 DEF Turn
  <2>7. InHand(job[w]) = InHand(j)
    BY <2>2, <2>3, JobIs DEF InHand
  <2>8. ~disturbed => \A m \in j.from \cup j.kept : Accounted(Found, m.rule, m.ids)
    BY <2>2, <2>3 DEF CompleteInv, MarksAccounted
  <2> QED
    BY <1>1, <2>1, <2>2, <2>3, <2>4, <2>6, <2>7, <2>8
<1>7. ASSUME NEW w \in Worker, UpsertIncident(w) PROVE CompleteInv'
  <2>1. UNCHANGED <<order, partials, disturbed, emitted, findings>>
    BY <1>7 DEF UpsertIncident
  <2>2. PICK j \in Job :
           /\ job' = [job EXCEPT ![w] = j]
           /\ j.pc = "finding" /\ j.event = job[w].event
           /\ j.matches = job[w].matches /\ j.found = Tail(job[w].found)
           /\ j.from = job[w].from /\ j.kept = job[w].kept
    BY <1>7, UpsertEffect
  <2>3. /\ job[w] \in Job /\ job[w] # NoJob /\ job[w].pc = "upsert"
        /\ job[w].found # <<>> /\ job[w].found \in Seq(Finding)
    BY <1>7, AtIs, UpsertEffect DEF UpsertIncident, Job
  <2>4. job[w].matches = <<>> /\ Head(job[w].found) \in ToSet(findings)
    BY <2>3 DEF CompleteInv, Turn
  <2>5. Turn(j)'
    BY <2>2, <2>4 DEF Turn
  <2>6. ASSUME NEW f \in InHand(job[w]) PROVE f \in ToSet(findings) \/ f \in InHand(j)
    <3>1. f \in ToSet(job[w].found)
      BY <1>2, <2>3, <2>4, <2>6 DEF InHand
    <3>2. f = Head(job[w].found) \/ f \in ToSet(Tail(job[w].found))
      BY <2>3, <3>1, HeadOrTail
    <3> QED
      BY <2>2, <2>4, <3>2, JobIs DEF InHand
  <2>7. ~disturbed => \A m \in j.from \cup j.kept : Accounted(Found, m.rule, m.ids)
    BY <2>2, <2>3 DEF CompleteInv, MarksAccounted
  <2> QED
    BY <1>1, <2>1, <2>2, <2>3, <2>5, <2>6, <2>7
<1>8. ASSUME NEW w \in Worker, learn(w) PROVE CompleteInv'
  <2>1. UNCHANGED <<order, partials, disturbed, emitted, findings>>
    BY <1>8 DEF learn
  <2>2. job[w] \in Job /\ job[w] # NoJob /\ job[w].pc = "finding" /\ job[w].found = <<>>
    BY <1>8, AtIs DEF learn
  <2>3. PICK j \in Job \cup {NoJob} :
           /\ job' = [job EXCEPT ![w] = j]
           /\ j # NoJob => /\ j.pc = "finding" /\ j.matches = job[w].matches
                           /\ j.from = job[w].from /\ j.kept = job[w].kept
    BY <1>8, LearnEffect
  <2>4. job[w].matches = <<>>
    BY <2>2 DEF CompleteInv, Turn
  <2>5. InHand(job[w]) = {}
    BY <1>2, <2>2, <2>4 DEF InHand
  <2>6. ~(job[w].pc \in {"read", "advance"}) /\ ~(j.pc \in {"read", "advance"})
    BY <2>2, <2>3 DEF NoJob
  <2>7. j # NoJob => Turn(j)'
    BY <2>3, <2>4 DEF Turn
  <2>8. ~disturbed /\ j # NoJob => \A m \in j.from \cup j.kept : Accounted(Found, m.rule, m.ids)
    BY <2>2, <2>3 DEF CompleteInv, MarksAccounted
  <2> QED
    BY <1>1, <2>1, <2>3, <2>5, <2>6, <2>7, <2>8
<1>9. CASE Restart
  BY <1>9 DEF Restart, CompleteInv, HuntTypes
<1>10. ASSUME UNCHANGED <<order, partials, disturbed, emitted, findings, job>>
       PROVE  CompleteInv'
  <2>1. UNCHANGED Found
    BY <1>10 DEF Found
  <2>2. \A j : Turn(j) => Turn(j)'
    BY <1>10 DEF Turn
  <2> QED
    BY <1>10, <2>1, <2>2 DEF CompleteInv, SeenIsCurrent, At, MarksAccounted, Given, Turn
<1>11. ASSUME NEW w \in Worker, NEW e \in Event, ingest_agent_event(w, e) PROVE CompleteInv'
  <2>1. CASE ~Duplicate(e) /\ ingest(w, e, "agent")
    BY <1>3, <2>1
  <2>2. CASE UNCHANGED <<tables, engine, job, analysis, stamp, history>>
    BY <1>10, <2>2
  <2> QED
    BY <1>11, <2>1, <2>2 DEF ingest_agent_event
<1>12. ASSUME NEW w \in Worker, NEW e \in Event, ingest_normalized(w, e) PROVE CompleteInv'
  BY <1>3, <1>12 DEF ingest_normalized
<1>13. ASSUME NEW k \in DOMAIN incidents, analyze_incident(k) PROVE CompleteInv'
  BY <1>10, <1>13 DEF analyze_incident
<1>14. CASE AnalysisDone
  BY <1>10, <1>14 DEF AnalysisDone
<1>15. CASE UNCHANGED huntVars
  BY <1>10, <1>15 DEF huntVars
<1> QED
  BY <1>4, <1>5, <1>6, <1>7, <1>8, <1>9, <1>11, <1>12, <1>13, <1>14, <1>15, AdvanceComplete
     DEF HuntNext

\* MatchIsComplete, for every set of rules: what SequenceEngine.process is given
\* one event at a time, in the order of observed_at, by a process that keeps
\* running and within MaxPartials, it reports, in full or by a longer match of
\* the same family, when one of the events has the score that the rule asks for.
THEOREM MatchIsCompleteAlways == HuntSpec => []MatchIsComplete
<1>1. ASSUME HuntInit PROVE HuntTypes /\ SoundInv /\ CompleteInv
  <2>1. SoundInv
    BY <1>1 DEF HuntInit, SoundInv, SoundState
  <2>2. /\ order = <<>> /\ emitted = {} /\ \A w \in Worker : job[w] = NoJob
    BY <1>1 DEF HuntInit
  <2>3. \A r : \A n \in Nat : n >= 1 => Picks(n, <<>>) = {}
    <3> SUFFICES ASSUME NEW n \in Nat, n >= 1, NEW pos \in Picks(n, <<>>) PROVE FALSE
      OBVIOUS
    <3>1. pos[1] \in 1..Len(<<>>) /\ Len(<<>>) = 0
      BY DEF Picks
    <3> QED
      BY <3>1
  <2>4. ASSUME NEW r \in RuleIds, NEW parts, NEW F PROVE Covers(r, parts, F, <<>>)
    <3>1. PICK steps \in Nat : steps = Len(Rules[r].steps) /\ steps >= 2
      BY RuleFacts
    <3>2. \A n \in 1..(steps - 1) : n \in Nat /\ n >= 1
      BY <3>1
    <3>3. steps >= 1
      BY <3>1
    <3> QED
      BY <2>3, <3>1, <3>2, <3>3 DEF Covers, Tracks, Reports
  <2>5. Given
    <3>1. \A w \in Worker, r \in RuleIds : ~Past(job[w], r)
      BY <2>2 DEF Past, NoJob
    <3> QED
      BY <2>2, <2>4, <3>1 DEF Given
  <2>6. SeenIsCurrent /\ MarksAccounted /\ order \in Seq(Entry)
    BY <2>2 DEF SeenIsCurrent, At, MarksAccounted, NoJob
  <2> QED
    BY <1>1, <2>1, <2>2, <2>5, <2>6, HuntTypesInit DEF CompleteInv
<1>2. (HuntTypes /\ SoundInv /\ CompleteInv) /\ [HuntNext]_huntVars
      => (HuntTypes /\ SoundInv /\ CompleteInv)'
  BY HuntTypesKept, SoundInvKept, CompleteInvKept
<1>3. CompleteInv => MatchIsComplete
  <2> SUFFICES ASSUME CompleteInv, ~disturbed, \A w \in Worker : job[w] = NoJob,
                      NEW r \in RuleIds, NEW pos \in [1..Len(Rules[r].steps) -> 1..Len(order)],
                      NEW ids, ids = [i \in DOMAIN pos |-> order[pos[i]].event],
                      \A i, j \in DOMAIN pos : i < j => pos[i] < pos[j], Means(r, ids),
                      \E i \in DOMAIN pos : order[pos[i]].score >= Rules[r].minimum
               PROVE  \E f \in ToSet(findings) : Answers(f, r, ids)
    BY DEF MatchIsComplete, Answers
  <2>1. \A w \in Worker : ~Past(job[w], r) /\ InHand(job[w]) = {}
    BY DEF Past, InHand, NoJob
  <2>2. Found = ToSet(findings)
    BY <2>1 DEF Found
  <2>3. Reports(r, Found, order)
    BY <2>1 DEF CompleteInv, Given, Covers
  <2>4. pos \in Picks(Len(Rules[r].steps), order) /\ ids = Picked(order, pos)
    BY DEF Picks, Picked
  <2>5. Accounted(Found, r, ids)
    BY <2>3, <2>4 DEF Reports
  <2> QED
    BY <2>2, <2>5 DEF Accounted
<1> QED
  BY <1>1, <1>2, <1>3, PTL DEF HuntSpec

=============================================================================
