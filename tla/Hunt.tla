-------------------------------- MODULE Hunt --------------------------------
(***************************************************************************)
(* The Control Plane's hunt engine: how an event is assessed, stored,      *)
(* matched against the sequence rules, made into findings and incidents    *)
(* and learned (src/ntshield/engine, storage.py and the ingest and analyze *)
(* endpoints of app.py).                                                   *)
(*                                                                         *)
(* ingest has no lock of its own.  The /v1/events endpoints run it in      *)
(* threads of the pool; /v1/agent/events runs it on the event loop, one    *)
(* request after the other.  Every SQL statement is atomic under the       *)
(* store's lock, but the engine's own dictionaries are shared between the  *)
(* threads, and an incident is read, changed and written back.             *)
(*                                                                         *)
(* What an event says is abstracted to its kind (which steps of rules it   *)
(* matches), its asset and the role of it, its observed_at, the fields     *)
(* that rules bind and compare, the features that the baseline counts and  *)
(* the entities that incidents are correlated by.                          *)
(***************************************************************************)
EXTENDS Naturals, Sequences, FiniteSets, FiniteSetsExt, SequencesExt

CONSTANTS Worker, None,
          Event,            \* event IDs
          Data,             \* per event: what it says
          Field, Value,     \* field paths, and what an event has there
          Variable,         \* the variables that rules bind
          Rules,            \* sequence of rules, in the order of their files
          MaxScore,         \* anomaly scores are 0..MaxScore
          Threshold,        \* anomaly_finding_threshold
          Warmup,           \* baseline_warmup_events
          IncidentWindow,   \* incident_window_seconds
          MaxPartials,      \* partial matches kept per rule and group (200)
          MaxOpen,          \* open incidents looked at (200)
          MaxRisk, RiskBump,
          MaxPosts          \* bound: requests that bring an event

RuleIds == 1..Len(Rules)
Group(e) == Data[e].asset
Groups == {Group(e) : e \in Event}

\* Rules as load_rules accepts them.  Of a step, steps has the kinds of events
\* that match it, bind the variables it sets and the field of each, where the
\* fields it compares and the variable of each.
ASSUME HuntAssumption ==
    /\ {MaxScore, Threshold, Warmup, IncidentWindow, RiskBump, MaxPosts} \subseteq Nat
    /\ {MaxPartials, MaxOpen, MaxRisk} \subseteq Nat \ {0}
    /\ Rules \in Seq(ToSet(Rules)) /\ Rules # <<>>
    /\ \A r \in RuleIds :
          /\ Rules[r].steps \in Seq(ToSet(Rules[r].steps)) /\ Len(Rules[r].steps) >= 2
          /\ \A i \in 1..Len(Rules[r].steps) :
                /\ Rules[r].within[i] \in Nat \cup {None}
                /\ \A v \in DOMAIN Rules[r].bind[i] : Rules[r].bind[i][v] \in Field
                /\ \A f \in DOMAIN Rules[r].where[i] : Rules[r].where[i][f] \in Variable
          /\ Rules[r].window \in Nat \ {0}
          /\ Rules[r].minimum \in Nat
          /\ Rules[r].base_score \in Nat
    /\ \A e \in Event :
          /\ Data[e].at \in Nat
          /\ Data[e].field \in [Field -> Value \cup {None}]
          /\ Data[e].features \in Seq(ToSet(Data[e].features))

VARIABLES stored,      \* events in the events table
          learned,     \* per event: how often each of its increments was made
          partials,    \* _state: per rule and group, the partial matches
          emitted,     \* _emitted: signatures and when they were emitted
          findings,    \* the findings table, by insertion
          incidents,   \* the incidents table, by creation
          job,         \* per worker: the ingest it runs, or NoJob
          analysis,    \* the incident analyze_incident has read, or None
          posts, stamp,
          assessed,    \* history: the scores each event was given
          byApi,       \* history: events that came through /v1/events
          broken,      \* history: events whose ingest ended half-way
          order,       \* history: events and their scores, by the end of
                       \* their sequence matching
          disturbed,   \* history: what the matching relies on did not hold
          forgotten,   \* history: a signature was lost from _emitted early
          stale,       \* history: the incident last written, if over a newer version
          lost         \* history: the findings merged into an incident between the
                       \* read and the write of another thread

tables == <<stored, learned, findings, incidents>>
engine == <<partials, emitted>>
history == <<assessed, byApi, broken, order, disturbed, forgotten, stale, lost>>
huntVars == <<tables, engine, job, analysis, posts, stamp, history>>

\* What learn counts of an event: each of its features in the scope of the asset,
\* then each in the scope of its role.
Increments ==
    [e \in Event |->
        LET In(scope) == [k \in DOMAIN Data[e].features |->
                            [scope |-> scope, feature |-> Data[e].features[k]]]
        IN  In([of |-> "asset", key |-> Data[e].asset]) \o In([of |-> "role", key |-> Data[e].role])]

\* The worker runs no ingest.
NoJob == [pc |-> "idle"]

HuntInit ==
    /\ stored = {} /\ learned = [e \in Event |-> [k \in DOMAIN Increments[e] |-> 0]]
    /\ partials = [r \in RuleIds |-> [g \in Groups |-> <<>>]] /\ emitted = {}
    /\ findings = <<>> /\ incidents = <<>>
    /\ job = [w \in Worker |-> NoJob] /\ analysis = None
    /\ posts = 0 /\ stamp = 0
    /\ assessed = [e \in Event |-> {}] /\ byApi = {} /\ broken = {} /\ order = <<>>
    /\ disturbed = FALSE /\ forgotten = FALSE /\ stale = {} /\ lost = {}

At(w, pc) == job[w].pc = pc

-----------------------------------------------------------------------------
(***************************************************************************)
(* The baseline: how often a feature was seen in a scope, which is the     *)
(* asset or its role.                                                      *)
(***************************************************************************)
\* What the events may add to the counts, by event and number, and how much of
\* it they have added.
Additions == UNION {{e} \X DOMAIN Increments[e] : e \in Event}
Made(additions) == MapThenSumSet(LAMBDA x : learned[x[1]][x[2]], additions)

feature_count(i) == Made({x \in Additions : Increments[x[1]][x[2]] = i})
feature_total(i) ==
    Made({x \in Additions : LET j == Increments[x[1]][x[2]]
                            IN  j.scope = i.scope /\ j.feature.name = i.feature.name})

Rare(e) == \E i \in ToSet(Increments[e]) : feature_count(i) <= 1 /\ feature_total(i) >= Warmup

\* What assess may find.  The score is a logarithm of the counts, damped for
\* features that are not warmed up, and may be any.  An event is a lead of its
\* own when it has a rare feature, which is then warmed up and so the event is
\* no cold_start, and a high score.  It need not be one although its feature is
\* rare now, because the counts are read one after the other.
assess(e) ==
    {a \in [score : 0..MaxScore, lead : BOOLEAN] : a.lead => a.score >= Threshold /\ Rare(e)}

-----------------------------------------------------------------------------
(***************************************************************************)
(* Requests.                                                               *)
(***************************************************************************)
\* Mutant of Duplicate: the event is ingested whatever the store holds.
DuplicateNever(e) == FALSE

\* The check of ingest_agent_event before it calls ingest.
Duplicate(e) == e \in stored

\* _prune_emitted keeps the signatures of the last two windows, and drops the
\* ones that are later than the event.
Retention == 2 * Max({Rules[r].window : r \in RuleIds})

\* Mutant of Kept: a signature of the event's own instant is dropped.
KeptWhenOlder(now) == {m \in emitted : m.at < now /\ now - m.at <= Retention}

Kept(now) == {m \in emitted : m.at <= now /\ now - m.at <= Retention}

\* Up to the start of the sequence matching.
ingest(w, e, path) ==
    /\ job[w] = NoJob /\ posts < MaxPosts
    /\ posts' = posts + 1
    /\ \E anomaly \in assess(e) :
          /\ job' = [job EXCEPT ![w] =
                       [pc |-> "prune", event |-> e, path |-> path,
                        score |-> anomaly.score, lead |-> anomaly.lead,
                        kept |-> Kept(Data[e].at), from |-> emitted,
                        rule |-> 1, seen |-> <<>>, matches |-> <<>>, found |-> <<>>,
                        incident |-> None, counted |-> 0]]
          /\ assessed' = [assessed EXCEPT ![e] = @ \cup {anomaly.score}]
    /\ stored' = stored \cup {e}
    /\ byApi' = IF path = "api" THEN byApi \cup {e} ELSE byApi
    /\ UNCHANGED <<learned, findings, incidents, engine, analysis, stamp,
                   broken, order, disturbed, forgotten, stale, lost>>

\* POST /v1/agent/events, on the event loop.
ingest_agent_event(w, e) ==
    /\ \A v \in Worker : job[v] # NoJob => job[v].path # "agent"
    /\ \/ ~Duplicate(e) /\ ingest(w, e, "agent")
       \/ /\ Duplicate(e) /\ job[w] = NoJob /\ posts < MaxPosts
          /\ posts' = posts + 1
          /\ UNCHANGED <<tables, engine, job, analysis, stamp, history>>

\* POST /v1/events/normalized, and the raw and bulk forms of it: the event is
\* not looked up first.
ingest_normalized(w, e) == ingest(w, e, "api")

-----------------------------------------------------------------------------
(***************************************************************************)
(* SequenceEngine.process.                                                 *)
(***************************************************************************)
\* The dictionary that was iterated over replaces _emitted.  Had a signature
\* been inserted into it meanwhile, either the iteration failed and with it
\* the request, or the signature is lost.
_prune_emitted(w) ==
    /\ At(w, "prune")
    /\ \/ /\ emitted' = job[w].kept
          /\ job' = [job EXCEPT ![w].pc = "read", ![w].kept = {}, ![w].from = {}]
          /\ forgotten' = (forgotten \/ \E m \in emitted :
                 /\ m \notin job[w].kept
                 /\ \/ m \notin job[w].from
                    \/ m.at > Data[job[w].event].at
                    \/ ~(Data[job[w].event].at - m.at <= Retention))
          /\ UNCHANGED broken
       \/ /\ emitted \ job[w].from # {}
          /\ job' = [job EXCEPT ![w] = NoJob]
          /\ broken' = broken \cup {job[w].event}
          /\ UNCHANGED <<emitted, forgotten>>
    /\ UNCHANGED <<tables, partials, analysis, posts, stamp, assessed, byApi, order, disturbed,
                   stale, lost>>

\* The partial matches of a rule are taken from _state, changed, and put back
\* in AdvancePartials; a signature is looked up in between.
ReadPartials(w) ==
    /\ At(w, "read")
    /\ job' = [job EXCEPT ![w].pc = "advance", ![w].from = emitted,
                          ![w].seen = partials[job[w].rule][Group(job[w].event)]]
    /\ UNCHANGED <<tables, engine, analysis, posts, stamp, history>>

get_field(e, f) == Data[e].field[f]

\* matches: the conditions of a step.
Fits(r, i, e) == Data[e].kind \in Rules[r].steps[i]

\* Mutant of _step_matches: the bindings are not compared.
_step_matches_any(r, i, e, bindings) == Fits(r, i, e)

\* A field that the step compares must have the value of its variable, and a
\* variable that has none has not been bound.
_step_matches(r, i, e, bindings) ==
    /\ Fits(r, i, e)
    /\ \A f \in DOMAIN Rules[r].where[i] :
          LET value == bindings[Rules[r].where[i][f]]
          IN  value # None /\ get_field(e, f) = value

Binds(r, i, e, v) ==
    v \in DOMAIN Rules[r].bind[i] /\ get_field(e, Rules[r].bind[i][v]) # None

_apply_bindings(r, i, e, bindings) ==
    [v \in Variable |->
        IF Binds(r, i, e, v) THEN get_field(e, Rules[r].bind[i][v]) ELSE bindings[v]]

\* The empty dictionary.
Unbound == [v \in Variable |-> None]

InWindow(r, p, e) ==
    Data[e].at >= p.started /\ Data[e].at - p.started <= Rules[r].window

\* Whether the event takes a partial match one step on.
Advances(r, p, e) ==
    LET within == Rules[r].within[p.next]
    IN  /\ within # None => Data[e].at <= p.last + within
        /\ e \notin ToSet(p.ids)
        /\ _step_matches(r, p.next, e, p.bindings)

\* Mutant of Advanced: only the first step binds.
AdvancedUnbound(r, p, e, score) ==
    [p EXCEPT !.next = @ + 1, !.ids = Append(@, e), !.last = Data[e].at,
              !.score = Max({@, score})]

Advanced(r, p, e, score) ==
    [p EXCEPT !.next = @ + 1, !.ids = Append(@, e), !.last = Data[e].at,
              !.score = Max({@, score}),
              !.bindings = _apply_bindings(r, p.next, e, @)]

Opened(r, e, score) ==
    [next |-> 2, ids |-> <<e>>, started |-> Data[e].at, last |-> Data[e].at,
     score |-> score, bindings |-> _apply_bindings(r, 1, e, Unbound)]

Complete(r, p) == p.next > Len(Rules[r].steps)

\* The members of S in the total order R, a set of pairs.
Sorted(S, R) ==
    [k \in 1..Cardinality(S) |->
        CHOOSE s \in S : Cardinality({t \in S : <<t, s>> \in R}) = k - 1]

\* The list after the event.  What the i-th partial match leaves has the places
\* 2i - 1, its continuation, and 2i, itself; a match that the event opens comes
\* last.  Nothing is left of a match that is out of its window.
Continues(r, p, e) == InWindow(r, p, e) /\ Advances(r, p, e)

Places(r, seen, e, score) ==
    {2 * i - 1 : i \in {k \in DOMAIN seen : /\ Continues(r, seen[k], e)
                                            /\ ~Complete(r, Advanced(r, seen[k], e, score))}}
        \cup {2 * i : i \in {k \in DOMAIN seen : InWindow(r, seen[k], e)}}
        \cup {i \in {2 * Len(seen) + 1} : _step_matches(r, 1, e, Unbound)}

Placed(r, seen, e, score, s) ==
    IF s = 2 * Len(seen) + 1 THEN Opened(r, e, score)
    ELSE IF s % 2 = 0 THEN seen[s \div 2] ELSE Advanced(r, seen[(s + 1) \div 2], e, score)

\* It is sorted, latest first; the sort is stable.
LatestFirst(r, seen, e, score, S) ==
    {x \in S \X S :
        LET p == Placed(r, seen, e, score, x[1])
            q == Placed(r, seen, e, score, x[2])
        IN  p.last > q.last \/ (p.last = q.last /\ x[1] < x[2])}

Alive(r, seen, e, score) ==
    LET S == Places(r, seen, e, score)
        sorted == Sorted(S, LatestFirst(r, seen, e, score, S))
    IN  [k \in DOMAIN sorted |-> Placed(r, seen, e, score, sorted[k])]

Signature(m) == [rule |-> m.rule, ids |-> m.ids]

\* The matches the event completes, as far as they are new and one of the events
\* was anomalous enough.  A match that was not is not kept: the event may come
\* again with a higher score.  Of several copies of a partial match the first
\* that completes is the one.
Completes(r, p, known, e, score) ==
    LET full == Advanced(r, p, e, score)
    IN  /\ Continues(r, p, e) /\ Complete(r, full)
        /\ \A m \in known : Signature(m) # [rule |-> r, ids |-> full.ids]
        /\ full.score >= Rules[r].minimum

Completed(r, seen, known, e, score) ==
    LET S == {i \in DOMAIN seen :
                 /\ Completes(r, seen[i], known, e, score)
                 /\ \A h \in 1..(i - 1) :
                       Completes(r, seen[h], known, e, score) => seen[h].ids # seen[i].ids}
        sorted == Sorted(S, {x \in S \X S : x[1] < x[2]})
    IN  [k \in DOMAIN sorted |->
            LET p == Advanced(r, seen[sorted[k]], e, score)
            IN  [rule |-> r, ids |-> p.ids, first |-> p.started, last |-> p.last, score |-> p.score]]

\* _suppress_subsumed: of the same family and with all of the other's events.
Longer(n, m) ==
    \/ Len(n.ids) > Len(m.ids)
    \/ Len(n.ids) = Len(m.ids) /\ Rules[n.rule].base_score > Rules[m.rule].base_score

Subsumes(n, m) ==
    /\ Rules[m.rule].family # None /\ Rules[m.rule].family = Rules[n.rule].family
    /\ ToSet(m.ids) \subseteq ToSet(n.ids)

\* The order in which they are considered: the longer first, a stable sort.
Before(matches) ==
    {x \in (DOMAIN matches) \X (DOMAIN matches) :
        \/ Longer(matches[x[1]], matches[x[2]])
        \/ ~Longer(matches[x[2]], matches[x[1]]) /\ x[1] < x[2]}

\* A match is dropped when one before it subsumes it.  The code asks for one that
\* is kept; there is one, because Subsumes is transitive.
_suppress_subsumed(matches) ==
    LET S == {i \in DOMAIN matches :
                 \A h \in DOMAIN matches :
                    <<h, i>> \in Before(matches) => ~Subsumes(matches[h], matches[i])}
        sorted == Sorted(S, Before(matches))
    IN  [k \in DOMAIN sorted |-> matches[sorted[k]]]

\* A finding of _finding_from_match or _finding_from_anomaly.
Lead(e, score) ==
    [rule |-> 0, ids |-> <<e>>, first |-> Data[e].at, last |-> Data[e].at, score |-> score]

\* A lead's risk is one of its score, a match's of its rule and its score; what
\* the kinds of the events and their assets add is left out.
Risk(f) == Min({MaxRisk, (IF f.rule = 0 THEN 1 ELSE Rules[f.rule].base_score) + f.score})

Trimmed(alive) == SubSeq(alive, 1, Min({Len(alive), MaxPartials}))

AdvancePartials(w) ==
    /\ At(w, "advance")
    /\ \E known \in {job[w].from, emitted} :
       LET j == job[w]
           r == j.rule
           e == j.event
           alive == Alive(r, j.seen, e, j.score)
           new == Completed(r, j.seen, known, e, j.score)
           all == j.matches \o new
       IN  /\ partials' = [partials EXCEPT ![r][Group(e)] = Trimmed(alive)]
           /\ emitted' = {m \in emitted : \A n \in ToSet(new) : Signature(m) # Signature(n)}
                            \cup {[rule |-> n.rule, ids |-> n.ids, at |-> n.last] : n \in ToSet(new)}
           /\ forgotten' = (forgotten \/ \E m \in emitted, n \in ToSet(new) :
                                             Signature(m) = Signature(n))
           /\ disturbed' = (\/ disturbed
                            \/ Len(alive) > MaxPartials
                            \/ \E v \in Worker \ {w} : At(v, "read") \/ At(v, "advance")
                            \/ \E d \in ToSet(order) : Data[d.event].at > Data[e].at)
           /\ IF r < Len(Rules)
              THEN /\ job' = [job EXCEPT ![w].pc = "read", ![w].rule = r + 1, ![w].from = {},
                                         ![w].seen = <<>>, ![w].matches = all]
                   /\ UNCHANGED order
              ELSE /\ job' = [job EXCEPT ![w].pc = "finding", ![w].from = {},
                                 ![w].seen = <<>>, ![w].matches = <<>>,
                                 ![w].found = _suppress_subsumed(all) \o
                                              (IF j.lead THEN <<Lead(e, j.score)>> ELSE <<>>)]
                   /\ order' = Append(order, [event |-> e, score |-> j.score])
    /\ UNCHANGED <<tables, analysis, posts, stamp, assessed, byApi, broken, stale, lost>>

-----------------------------------------------------------------------------
(***************************************************************************)
(* Findings and incidents.                                                 *)
(***************************************************************************)
\* _entities of the finding's events; their assets are among them, so that an
\* incident of the same asset has an entity in common.
Entities(f) == UNION {Data[e].entities : e \in ToSet(f.ids)}

\* Whether correlate takes the incident for the finding.
Correlated(f, i) ==
    /\ f.first <= i.last + IncidentWindow
    /\ Entities(f) \cap i.entities # {}

\* The newest of the open incidents that list_open_incidents returns and
\* correlate accepts, or None.
Selected(f) ==
    LET Newer(k) == Cardinality({n \in DOMAIN incidents : incidents[n].updated > incidents[k].updated})
        open == {k \in DOMAIN incidents : Newer(k) < MaxOpen /\ Correlated(f, incidents[k])}
    IN  IF open = {} THEN None ELSE CHOOSE k \in open : \A n \in open : Newer(k) <= Newer(n)

\* insert_finding, and the read of correlate.
InsertFinding(w) ==
    /\ At(w, "finding") /\ job[w].found # <<>>
    /\ LET f == Head(job[w].found)
           k == Selected(f)
       IN  /\ findings' = Append(findings, f)
           /\ job' = [job EXCEPT ![w].pc = "upsert",
                         ![w].incident = [key |-> k, fid |-> Len(findings) + 1,
                                          was |-> IF k = None THEN None ELSE incidents[k]]]
    /\ UNCHANGED <<stored, learned, incidents, engine, analysis, posts, stamp, history>>

\* Mutant of Raised: the risk is the one of the last finding.
RaisedAnew(risk, f) == Min({MaxRisk, Risk(f) + RiskBump})

Raised(risk, f) == Min({MaxRisk, Max({risk, Risk(f)}) + RiskBump})

\* Mutant of Merged: the finding is the only one the incident has.
MergedAlone(i, f, fid) ==
    [i EXCEPT !.updated = stamp + 1, !.ids = {fid}]

Merged(i, f, fid) ==
    [i EXCEPT !.first = IF f.first < @ THEN f.first ELSE @,
              !.last = IF f.last > @ THEN f.last ELSE @,
              !.updated = stamp + 1,
              !.ids = @ \cup {fid},
              !.entities = @ \cup Entities(f),
              !.risk = Raised(@, f)]

Created(f, fid) ==
    [first |-> f.first, last |-> f.last, updated |-> stamp + 1, ids |-> {fid},
     entities |-> Entities(f), risk |-> Risk(f)]

\* An incident is written that was read before.
WrittenOver(k, was) ==
    /\ stale' = IF incidents[k] = was THEN {} ELSE {k}
    /\ lost' = lost \cup (incidents[k].ids \ was.ids)

\* The rest of correlate: the incident as it was read, with the finding.
UpsertIncident(w) ==
    /\ At(w, "upsert")
    /\ LET f == Head(job[w].found)
           i == job[w].incident
       IN  /\ IF i.key = None
              THEN incidents' = Append(incidents, Created(f, i.fid)) /\ UNCHANGED <<stale, lost>>
              ELSE /\ incidents' = [incidents EXCEPT ![i.key] = Merged(i.was, f, i.fid)]
                   /\ WrittenOver(i.key, i.was)
           /\ job' = [job EXCEPT ![w].pc = "finding", ![w].found = Tail(@), ![w].incident = None]
    /\ stamp' = stamp + 1
    /\ UNCHANGED <<stored, learned, findings, engine, analysis, posts,
                   assessed, byApi, broken, order, disturbed, forgotten>>

\* One increment_feature of learn, which commits it by itself.  With the last one
\* the ingest is over.
learn(w) ==
    /\ At(w, "finding") /\ job[w].found = <<>>
    /\ LET e == job[w].event
           k == job[w].counted + 1
       IN  /\ learned' = [learned EXCEPT ![e] =
                             [i \in DOMAIN @ |-> IF i = k THEN @[i] + 1 ELSE @[i]]]
           /\ job' = [job EXCEPT ![w] = IF k < Len(Increments[e])
                                        THEN [@ EXCEPT !.counted = k] ELSE NoJob]
    /\ UNCHANGED <<stored, findings, incidents, engine, analysis, posts, stamp, history>>

\* analyze_incident reads an incident, waits for the language model, and
\* writes back what it read with the report in it, or gives up.
analyze_incident(k) ==
    /\ analysis = None
    /\ analysis' = [key |-> k, was |-> incidents[k]]
    /\ UNCHANGED <<tables, engine, job, posts, stamp, history>>

AnalysisDone ==
    /\ analysis # None /\ analysis' = None
    /\ \/ UNCHANGED <<incidents, stale, lost>>
       \/ /\ incidents' = [incidents EXCEPT ![analysis.key] = analysis.was]
          /\ WrittenOver(analysis.key, analysis.was)
    /\ UNCHANGED <<stored, learned, findings, engine, job, posts, stamp,
                   assessed, byApi, broken, order, disturbed, forgotten>>

\* The Control Plane dies and is started again; the tables survive.
Restart ==
    /\ stored # {}
    /\ partials' = [r \in RuleIds |-> [g \in Groups |-> <<>>]] /\ emitted' = {}
    /\ job' = [w \in Worker |-> NoJob] /\ analysis' = None
    /\ broken' = broken \cup {job[w].event : w \in {v \in Worker : job[v] # NoJob}}
    /\ disturbed' = TRUE /\ forgotten' = TRUE
    /\ UNCHANGED <<tables, posts, stamp, assessed, byApi, order, stale, lost>>

HuntNext ==
    \/ \E w \in Worker :
          \/ \E e \in Event : ingest_agent_event(w, e) \/ ingest_normalized(w, e)
          \/ _prune_emitted(w) \/ ReadPartials(w) \/ AdvancePartials(w)
          \/ InsertFinding(w) \/ UpsertIncident(w) \/ learn(w)
    \/ \E k \in DOMAIN incidents : analyze_incident(k)
    \/ AnalysisDone \/ Restart

HuntSpec == HuntInit /\ [][HuntNext]_huntVars

-----------------------------------------------------------------------------
(***************************************************************************)
(* Properties.                                                             *)
(***************************************************************************)
\* Before its i-th step, the run of events has bound the variable to the value: a
\* step did, and no later one bound it again.
LatestBinding(r, ids, i, v, value) ==
    \E j \in 1..(i - 1) :
        /\ Binds(r, j, ids[j], v) /\ value = Data[ids[j]].field[Rules[r].bind[j][v]]
        /\ \A k \in (j + 1)..(i - 1) : ~Binds(r, k, ids[k], v)

\* What a rule means: the events match its steps in turn, come from one asset,
\* keep to the window and to the time between steps, and a field that a step
\* compares has the value that its variable got last.
Means(r, ids) ==
    /\ Len(ids) = Len(Rules[r].steps) /\ IsInjective(ids)
    /\ \A i \in 1..Len(ids) :
          /\ Data[ids[i]].kind \in Rules[r].steps[i]
          /\ Data[ids[i]].asset = Data[ids[1]].asset
          /\ Data[ids[i]].at \in Data[ids[1]].at .. Data[ids[1]].at + Rules[r].window
          /\ \A f \in DOMAIN Rules[r].where[i] :
                LatestBinding(r, ids, i, Rules[r].where[i][f], Data[ids[i]].field[f])
    /\ \A i \in 2..Len(ids) :
          Rules[r].within[i] # None => Data[ids[i]].at <= Data[ids[i - 1]].at + Rules[r].within[i]

(***************************************************************************)
(* A match that is reported really is one: whatever threads, restarts and  *)
(* late events do to the shared partial matches, the evidence of a finding *)
(* is what its rule describes and is in the store, and one of its events   *)
(* was given the score of the finding, which is the rule's minimum or      *)
(* more.                                                                   *)
(***************************************************************************)
MatchIsSound ==
    \A k \in DOMAIN findings :
        LET f == findings[k]
        IN  f.rule # 0 =>
               /\ Means(f.rule, f.ids) /\ ToSet(f.ids) \subseteq stored
               /\ f.score >= Rules[f.rule].minimum
               /\ \E e \in ToSet(f.ids) : f.score \in assessed[e]

(***************************************************************************)
(* Nothing is missed: when the events have been matched one at a time, in  *)
(* the order of their observed_at, by a process that kept running and      *)
(* within the limit on partial matches, every run of events that a rule    *)
(* describes, one of which had the score the rule asks for, has been       *)
(* reported, by itself or by a longer match of the same family.  Each of   *)
(* the four provisos is needed: a late event throws the partial matches    *)
(* away that it is older than.                                             *)
(***************************************************************************)
MatchIsComplete ==
    ~disturbed /\ (\A w \in Worker : job[w] = NoJob) =>
        \A r \in RuleIds :
            \A pos \in [1..Len(Rules[r].steps) -> 1..Len(order)] :
                LET ids == [i \in DOMAIN pos |-> order[pos[i]].event]
                IN  /\ \A i, j \in DOMAIN pos : i < j => pos[i] < pos[j]
                    /\ Means(r, ids)
                    /\ \E i \in DOMAIN pos : order[pos[i]].score >= Rules[r].minimum
                    => \E f \in ToSet(findings) :
                            \/ f.rule = r /\ f.ids = ids
                            \/ f.rule # 0 /\ Subsumes(f, [rule |-> r, ids |-> ids])

(***************************************************************************)
(* The same events are reported once per rule, also when a client posts an *)
(* event again.  The exceptions are a signature that a restart, a racing   *)
(* thread, an event older than it or its own age removed from _emitted.    *)
(***************************************************************************)
ReportedOnce ==
    \A k, n \in DOMAIN findings :
        k # n /\ findings[k].rule # 0 /\ Signature(findings[k]) = Signature(findings[n]) => forgotten

\* The first n increments of the event have been made, once.
LearnedTo(e, n) == [k \in DOMAIN Increments[e] |-> IF k <= n THEN 1 ELSE 0]

(***************************************************************************)
(* An event from an Agent that is stored and not under way has been        *)
(* learned: each of its features is counted once in each scope.  The       *)
(* exception is an ingest that ended half-way, with the process or in      *)
(* _prune_emitted: the Agent sends the event again and is told that it is  *)
(* a duplicate, so that it stays counted as far as learn had come, for     *)
(* the asset and not for its role, say, but never twice.                   *)
(***************************************************************************)
AgentEventAnalysedOnce ==
    \A e \in stored \ byApi : (\A w \in Worker : job[w] # NoJob => job[w].event # e) =>
        \E n \in 0..Len(Increments[e]) :
            /\ learned[e] = LearnedTo(e, n)
            /\ n = Len(Increments[e]) \/ e \in broken

(***************************************************************************)
(* A finding that has been stored is in an incident as soon as its ingest  *)
(* is over.  The exceptions are an ingest that ended half-way, and a       *)
(* finding that was merged into an incident between the read and the write *)
(* of another thread or of analyze_incident: that one is lost, and no      *)
(* other.                                                                  *)
(***************************************************************************)
FindingIsInIncident ==
    \A k \in DOMAIN findings :
        \/ \E i \in DOMAIN incidents : k \in incidents[i].ids
        \/ \E w \in Worker : At(w, "upsert") /\ job[w].incident.fid = k
        \/ Last(findings[k].ids) \in broken
        \/ k \in lost

(***************************************************************************)
(* An incident only grows: it keeps its findings, its time span widens and *)
(* its risk does not fall, unless the very step writes it over a newer     *)
(* version than the one that was read.                                     *)
(***************************************************************************)
IncidentOnlyGrows ==
    [][\A k \in DOMAIN incidents : k \notin stale' =>
          /\ incidents[k].ids \subseteq incidents'[k].ids
          /\ incidents[k].risk <= incidents'[k].risk
          /\ incidents'[k].first <= incidents[k].first /\ incidents[k].last <= incidents'[k].last
      ]_incidents

=============================================================================
