# NTAgentShield: TLA+ specifications

NTAgentShield is an endpoint Agent (Go, `agent/`) and a Control Plane (Python,
`src/ntshield/`).  The Agent collects log records, keeps them as evidence, detects,
ships them to the Control Plane, applies signed policies and executes response
actions that two operators have agreed on.  The Control Plane correlates events,
distributes policies and brokers the response actions.

These modules specify the parts where the order of steps, crashes, failing file
operations and lost messages decide whether the system is right.  TLC checks them
on small instances (`tlc -config <run>.cfg <module of the run>`); TLAPS proves every
safety property of the ledger, the broker, the composed response path, the policy updater, the
telemetry path, enrollment, the response tools, the Agent's runtime, the client of Central
and the hunt engine for every instance (`tlapm <module>Proofs.tla`, see section 5).  `PROJECT.json` has
the runs, the mutants that show each property can fail, the lines each definition
models, the hazards and the findings.

## 1. Inventory

| Component | State | Operations | Works with |
|---|---|---|---|
| Replay ledger (`responseexec/ledger.go`) | map action → digest, result; its file, `path.new`, `path.bak` | Begin, Complete, prune, save, load | runner |
| Response broker (`response_broker.py`, `response_api.py`) | table `response_actions` | create, approve, next_for_agent, sign lease, complete | operators' CLI/MCP, runner over HTTP |
| Response runner (`responseexec/runner.go`, `client.go`, `lease.go`) | the lease in hand | fetch, verify, Begin, policy, tool, Complete, post | broker, ledger, policy engine, tools |
| Policy engine (`policy/engine.go`) | the loaded policy | Evaluate | runner |
| Policy distribution (`policy_distribution.py`, `policyupdate/`) | table of bundles; policy file, state file, their backups | publish, latest, fetch, apply, restore, load | policy engine at start |
| Native sources (`collector/native`) | cursor file, cursor in memory | Poll, Acknowledge, Commit | runtime |
| Runtime (`agent/runtime.go`) | loops and counters | poll, process, transport, inventory | all Agent parts |
| Evidence journal (`store/journal.go`) | hash-chained file, sequence, last hash | Open, Append, VerifyFile | runtime |
| Outbox and sender (`transport/`) | `pending/`, `dead-letter/`, time of the last look at the certificate | Enqueue, Peek, Ack, DeadLetter, Flush, maybeRenewCertificate | runtime, ingest |
| Ingest (`app.py`) and hunt engine (`engine/`, `storage.py`) | events, findings, incidents, baseline counts; partial matches and emitted signatures in memory | ingest, process, correlate, learn, analyze_incident | sender, clients of `/v1/events` |
| Enrollment and renewal (`enrollment*.py`, `app.py`, `enrollment/client.go`) | nonces, registry; key, certificate and CA files | issue, enroll, renew, revoke | sender, all authenticated handlers |
| Containment (`tools/containment_*.go`) | signed state files, firewall tables, rules and policy backup | isolate, release, block, unblock, open, close | runner |
| Quarantine (`tools/quarantine_tools.go`) | objects and signed manifests | quarantine, restore | runner, whoever uses the file |
| Drift (`detection/`, `baseline/`, `inventory/`) | previous snapshot; signed baseline file | Collect, Evaluate, Save, Load | runtime, local API |
| File tailer (`collector/filetail`) | offsets in memory | Poll | runtime |
| Central client (`central/client.go`) | channel and list in memory, key file | Enqueue, Register, heartbeat, Run | runtime |
| Local API (`api/server.go`) | none | ingest | runtime |

The rest (parsers, normalisers, redaction, schema mapping, configuration, LLM triage,
code scanner, MCP server, command lines, desktop application, installers) keeps no
state between calls or only maps text; `PROJECT.json` lists each part with the reason.

What is hard to get right, and hard to test:

* **Crashes between file steps.** Ledger, policy, policy state and cursor are replaced
  by several renames; a restart must cope with every intermediate state.
* **One of several writes failing.** Begin takes its entry back, Complete does not;
  Apply puts the old policy back; Commit removes the cursor before its second attempt;
  DeadLetter can fail after the file has moved.
* **Concurrent SQLite connections.** Each command and each request opens a store of
  its own.  A SELECT opens no transaction, so approve, complete and publish act on rows
  that may have changed.
* **An unreliable network.** Leases, results and events are lost, delayed and repeated;
  the receiver may still handle what the sender has given up.
* **Commands that act on the host.** `nft` and `netsh` fail, or are killed by the Agent's
  shutdown after they took effect, and then every later command of the call fails as well,
  its rollback included; signed ownership files and the firewall must stay together.
* **Shared memory without a lock.** The hunt engine's dictionaries and its incidents are
  read, changed and written back by threads of a pool and by a coroutine.
* **What a read of the outside can miss.** A tailed file is known by its size only, an
  inventory list whose command failed is empty.
* **Limits and times.** 4096 ledger entries, leases that expire while they are worked
  on, bundles that expire after being applied, one delivered action per poll.

What makes each part correct: the ledger lets no action run twice and forgets none;
the broker delivers nothing without two operators and nothing expired; together a tool
runs at most once and the recorded outcome is true; the policy never goes back to an
older epoch and a failed update leaves the last good policy; no log record is skipped,
events arrive in order and eventually; the journal opens again after any restart; every
tailed line and every drift is in it; a bootstrap token pays once, a renewal brings in no
new key and what an Agent has installed is accepted; a containment is owned, can be taken
back and is truthfully reported; a quarantined file is never lost; a reported match is one,
a match that happened is reported, once, and stays in its incident.

## 2. Modules and the code

Every module has its state as variables, one action per operation or per atomic step
of it, and history variables (marked so) that only properties read.  Contents are model
values: an action is its ID, a policy document its identity, an event the position of
its record.  Signatures and digests are assumed to do their job and are abstracted to
the identity of what they cover.

**`ReplayLedger`** models `ledger.go`.  `entries` is the map, `path`, `fresh` and `bak`
are the files; `saving` is the next step of `replaceLedgerFile`, `call` the pending
Begin or Complete (one mutex covers both, so there is one).  `SaveWrite`, `SaveRotate`,
`SaveInstall`, `SaveClean` succeed or fail, and `Crash` may fall between any two;
`Restart` is `load`, which reads `path` only.  When more than `MaxLedgerEntries` entries
exist, `PruneSets` deletes oldest completed ones, which entry of equal age being open.

**`ResponseBroker`** models the store and the handlers as connections `Conn`.  approve
and complete are a SELECT step and an UPDATE step, `NextDispatch` is the transaction of
`next_for_agent` with the time read earlier, `SignLease` re-reads the row.  `complete`
runs inside one event loop (one uvicorn process, as in the Dockerfile and `cli.py`)
without awaiting between its steps, so two of them do not overlap; commands of operators
are processes of their own and do.

**`ResponseExec`** composes the two with the runner.  It INSTANCEs both modules,
substitutes its own variables, and adds the runner's program counter and the results on
their way (`posts`).  `RunTool` either takes effect or fails before it; a crash after the
effect and before `Complete` is covered by `AgentCrash`.  One Agent and one payload
digest per action: a lease carries the stored arguments, so the digest does not vary.

**`PolicyUpdate`** models `publish` (SELECT MAX, then INSERT), `latest_for_agent`, and
`Manager.Apply` with `replaceFile` for the policy and then for the state file, the undo
after a failed `saveState`, and the start-up check of `loadState`.

**`Telemetry`** models a native source with its cursor, `process` (journal, then outbox),
the sender's `Flush` over the outbox, and `ingest_agent_event`.  The poll loop and the
sender are two processes over the outbox directory; the outbox's mutex makes each of
its operations one step.  A record's event ID is computed from the record, so the model
identifies them.

**`Journal`**, **`FileTail`** and **`InventoryDrift`** model the three stores of the runtime
as state and operators, and **`AgentRuntime`** composes them (EXTENDS) with the main loop
and the API handler as two workers.  A journal line is its sequence, its body and the hash
of the line before, a hash being the line it was taken of; `Write` appends to the last line
when that lacks its newline, which makes both junk.  The tailed file is a sequence of half
lines, so that a poll, a start and a rotation can fall inside a line.  An inventory item is
what the rule reports at most once, and `Collected` is every snapshot `Collect` can make of
the host.  In `AgentRuntime` each Append of `process` is a step, `Writing` is what a crash
may cut, and `After` is the order of the main loop.

**`CentralClient`** models `Run` with its bounded channel and its bounded list; `Answers` are
the ways a batch can end.

**`ToolCall`** is a call of a tool: dispatch, its context, and the ways a command ends
(`Succeeds`, `Fails`, `KilledAfterEffect`, `CleanupFails`).  **`NftContainment`**,
**`NetshContainment`** and **`Quarantine`** have one action per command or file step of a call
(`call.pc` is the next one), **`ResponseTools`** joins the three.  A firewall policy is its
default action, what the isolation lets through and the Agent's rules; a rule is named by
the call that made it, as the code's random names are.  Other processes write to, replace
and delete the quarantined path at any time.

**`AgentHost`** puts runtime, Central client and tools on one Agent.  They share no file and
no variable: `process` hands events to Central and never learns what became of them, and
the runner calls the tools.  A behaviour of `AgentHost` is therefore one of one of its
parts (`part`, and `family` for the tools), which keeps the state space a sum.

**`Enrollment`** models both sides for one Agent ID and the machines configured with it,
which the model identifies with their keys.  `enroll_agent` runs in a thread and is two
steps, `EnrollConsume` and `EnrollRegister`; `renew_agent_certificate` is a coroutine, cut at
the await of the body into `RenewRead` and `RenewRotate`.  The Agent's side sends, waits, may
give up, and installs certificate and CA one after the other.

**`Hunt`** models `ingest` as the steps between which other threads can run: assessment and
insert, the two halves of `_prune_emitted`, the read and the write of the partial matches of
each rule, each finding with the read and the write of its incident, and each increment of
learn, which `increment_feature` commits one by one (`Increments` has them in the order of the
loops over scopes and features).  Matching itself (`Alive`, `Completed`, `_suppress_subsumed`,
with the stable sort as `Sorted`) is pure.  A step may bind fields to variables and compare
fields with what the variables have (`_step_matches`, `_apply_bindings`; both per step, and a
later binding replaces an earlier one), and a rule may ask for an anomaly score: a partial match
carries the highest score of its events, and a match below the rule's `minimum` is neither
reported nor remembered.  `Means` is the reference definition matching is checked against:
it has no bindings, and asks instead for the last step before that set the variable
(`LatestBinding`).  An incident is correlated by its entities and its time.

The theorems are in **`ReplayLedgerProofs`**, **`ResponseBrokerProofs`**,
**`ResponseExecProofs`**, **`PolicyUpdateProofs`**, **`TelemetryProofs`**,
**`EnrollmentProofs`**, **`AgentHostProofs`** (the tools, then the runtime with its
stores, then the client of Central) and **`HuntProofs`**.  The `MC…` modules add symmetry sets and give structured constants their values.

## 3. Runs

| Run | Instance | Shows |
|---|---|---|
| `ledger_safe` | 2 actions, 2 digests, 2 results, capacity 1 | execution is allowed twice only after pruning or after a crash that found no ledger file; what Begin allowed is in the file; results do not change |
| `ledger_window` (violation) | 1 action | between the two renames only `path.bak` exists, `load` ignores it, and the action runs again after the restart |
| `broker_safe` | 1 action, 2 operators, 3 connections, lifetimes 1 and 2, fairness | four eyes; no lease for what was recorded as expired, not even with a poll, an early-read approval and an expiry under way at once; every approved action becomes terminal |
| `broker_terminal` (violation) | 1 action | an approval that read the row early writes `approved` over a result |
| `exec_safe` | 1 action, 2 connections, crashes, loss | at most one execution, only what was approved, and true outcomes |
| `exec_refines` | 1 action, 1 connection | every step of the composition is a step, or a stutter, of the ledger's and of the broker's own specification |
| `exec_acklost` (violation) | 1 action, fairness | a result whose POST was lost is not resent once the action has expired |
| `policy_safe` | 2 epochs, 2 documents, 2 publishers | no rollback, last-known-good and start-up, with the exceptions named below |
| `telemetry_safe` | 2 records, one refused for good, 1 crash, fairness | no record behind the cursor is lost, evidence is journaled first, events arrive in the outbox's order and eventually |
| `agent_safe` | see below | the journal opens again, tailed lines and drift are in it, Central gets events in order; containment is owned, reversible and truthfully reported; quarantined content is kept |
| `enroll_safe` | 2 hosts with one Agent ID, 2 tokens, 2 requests at once, certificates of 3 units | a token pays once, only an enrollment brings in a key, an installed certificate is accepted, the last chance to renew is taken |
| `hunt_safe` | 2 threads, 2 rules of one family, 4 events in any order, 3 posts | matches are sound and complete, reported once, learned once, and kept in incidents that only grow |

*Bounds.*  Each constant that bounds a counter says so where it is declared.  One action
is enough for the broker and the composed run because actions meet only in the ledger's
capacity, which `ledger_safe` checks with two, and in the order of delivery; expiry,
approval and results touch one row.  Capacity 1 makes pruning happen with two entries.
Two operators are a requester and an approver; three connections let a poll that is about
to sign, an approval that has read its row and a third request that changes it overlap
(with two of them the re-check of the expiry before signing is never needed).  Two epochs suffice to go back by one, with clock 2 letting the
newer bundle expire before the older.  Two records in one batch give a crash between the
first and the second, and one of them refused for good gives every branch of the sender.
The clock stops at its bound: an action still unexpired there is delivered for ever,
which is why its lifetimes end within the bound.

`agent_safe` has four set-ups of the runtime, because its faults multiply: files with two
faults (an error and a crash, or two crashes), files beside API events without, inventories
with two faults over three hosts, and inventories beside a posted one with one fault.
Three lines of two halves, a read of three halves and batches of two make a poll end inside
a line and a batch end before the read does; one rotation suffices for a file that is
shorter and, after more writes, one that is longer than the offset; line 3 is the record
that is too long.  Two services, one package and one suspicious pair with a limit of 1 give
more than the limit and every kind of list; listeners follow the rules of services.  Four
calls of the tools are block, isolate, unblock and release, the shortest history in which
an import brings a rule back.  Two events fill a queue of the Central client, four
overflow either of the two.  In `enroll_safe` two hosts with one ID are the re-enrollment of a replaced machine;
a certificate lasts 3 units, is looked at every 2 and renewed when 2 remain, so
that a look can come too late for a second one.  In `hunt_safe` three posts
complete the longer rule, and with it the shorter, whose match it subsumes, or the shorter alone,
with a late, a repeated or a concurrent event among them, and an event of another asset late
enough to age the earlier signatures out.  The longer rule binds one variable in its first step
and again in its second, and compares it in its third, as `BZH-WEB-001` binds and compares, so
that only the later of the two values is the right one; the shorter compares it too, and one event
that could open it has another value than the one that could complete it.  The shorter asks
for an anomalous event, as `09_raw_socket_trigger.yaml` does, and an event may be anomalous or not.
An event of the last kind brings a second entity; that a finding joins an incident of another
asset by it would take a fourth post, and is covered by the proofs alone.  The races inside `_prune_emitted` happen, but the second report
that can follow from one of them takes a fourth post.

`CHECK_DEADLOCK FALSE` appears where the system may stop: the log of `telemetry_safe` ends, and
the bounds on calls, lines, posts and time end the new runs; an Agent whose journal does not
verify also stays down.

*Exceptions the properties name.*  They are reachable, and each stands for a place where
the code gives up its guarantee:

* `pruned`: the ledger forgets completed actions beyond its capacity, `lost`: a crash
  found no file under the ledger's name (`ledger_window`);
* `stateLost`: the same window of the policy state file, after which an older bundle is
  accepted once the newer has expired;
* `interrupted` and `damaged` in `PolicyUpdate`: a crash inside Apply, or a failure after
  the point of no return (the undo fails, or chmod fails with the new file in place);
  the updater may then refuse to start, and the Agent with it;
* `damaged` in `Telemetry`: Commit removed the cursor file, or failed after replacing it;
* `scarred` in `Journal`: a write was cut short, Sync failed after a write, or a record is
  longer than VerifyFile reads.  The Agent does not start again until the file is repaired;
* `missed` and `dropped` in the runtime: lines that were in a rotated file or behind the
  place where a new process began, and lines that were read and not processed;
* `accepted` in `InventoryDrift`: items of a first, truncated or failed list, items past the
  limit, findings that could not be recorded, or that a posted inventory hid;
* `given` in `CentralClient`: events refused by a full queue or lost with the process;
* `unsettled` in `ToolCall`: a command killed by the shutdown, a rollback that failed, a
  listing that failed on a table that exists; `reverted`: targets whose rules the import of
  a backup changed; `reapplied`: isolate on an isolated host, which deletes the rule that
  keeps the Control Plane reachable before it adds it again; `raced`: the quarantined path
  got another file during the call, which is then removed unseen;
* `crossed` in `Enrollment`: a certificate was registered while another request was about to
  register one, so a renewal can write an old key over a new enrollment;
* in `Hunt`, `broken`: an ingest that ended half-way; the event is stored, the Agent's retry
  is answered as a duplicate, and what it did not match and count is never matched and counted.
  `disturbed`: events of a
  group matched concurrently, late, across a restart or past the limit of partial matches;
  `forgotten`: a signature that a restart, a race, a late event or its own age removed; `lost`: the
  findings that were merged into an incident between the read and the write of another thread,
  the correlator's or that of `analyze_incident`; `stale`: the incident of the latest such
  write, which excuses that step alone.
  `byApi`: events of `/v1/events`, which are not looked up first and may be learned twice.

Other behaviour the models have although no property forbids it: a Complete whose save
fails keeps its result in memory and a later Begin resends it; two publishers that read
the same MAX(epoch) insert their epochs in either order.

## 4. Fairness

Safety runs assume none.  `BrokerFairness`: time passes, the Agent's ticker keeps
polling and not every poll is dropped, a request once begun is finished or aborted.
`ExecFairness`: the same, the service manager restarts the Agent, and not every lease,
result and save is lost.  `TelemetryFairness`: the transport loop (`runTransport`, which
retries for ever with a delay of at most a minute) keeps starting Flush, a crashed Agent
is restarted, and a step tried again and again for one event, sending it or putting its
file away, succeeds some time; that last one is strong fairness per event, because the
attempts are interrupted by crashes and failures.  Nothing is assumed of operators, of
the poll loop or of the log.

## 5. Proofs

`ReplayLedgerProofs` proves, for every set of actions, digests and results and every
capacity (`LedgerAssumption`: the bounds are naturals, the marker values are no
ledger and no result):

* `LedgerTypeCorrect`: `LedgerSpec => []LedgerTypeOK`;
* `LedgerInductive`: `LedgerSpec => []LedgerIInv`;
* `LedgerGrantsOnce` and `LedgerGrantsDurable`: `NoSecondGrant` and `GrantsAreDurable`;
* `LedgerResultsAreFinal`: the action property `ResultsAreFinal`.

`NoSecondGrant` is not inductive: a second grant happens when Begin finds no entry, so
one must know that every granted action has an entry in memory; after a restart memory is
the file, so the file must know it; the file comes from the one being installed or from
the backup that a failed install puts back, so they must know it too.  `GrantsEverywhere`
says this of all four copies, `SaveWritesTheCall` that the save of a Begin carries its own
entry through the steps (the grant happens when the save ends), and `FileIsNamed` that
the ledger's name is vacant only inside a save.  One step per action shows that the
conjunction is preserved; pruning and removal use lemmas on `Set`, `Without` and
`PruneSets`.  That a Begin taken back after a failed save removes no result needs
`PendingIsStarted`: the entry that a Begin is saving holds none.

`PolicyUpdateProofs` proves, for every set of documents and publishers and every bound on
epochs and time (`PolicyAssumption`: the bounds are naturals, the installed policy is a
document, the marker of a missing file is no content):

* `PolicyTypeCorrect`: `PolicySpec => []PolicyTypeOK`;
* `PolicyNoRollback`: `NoRollback`;
* `PolicyInductive`: `PolicySpec => []PolicyIInv`, and from it `PolicyLastKnownGood` and
  `PolicyStarts`: `LastKnownGood` and `RefusedOnlyAfterTornApply`.

`NoRollback` compares the bundle with the highest epoch ever applied, the code compares it
with the epoch in memory.  `EpochsKept` closes the gap: memory, the state file and its
backup are all at or above the highest epoch, and only a crash that finds no state file
brings memory back to 0.  `NewStateInPlace` is needed at the moment the highest epoch
rises: the file is then the new state and the backup is gone.  `GoodKept` says for each
step of Apply where the last good policy and the state that vouches for it are (in place,
in the backup, or remembered in `previous`), as long as no crash and no failed undo has
disturbed it; a start-up check can then only find the pair it expects.  Each of the
actions that replace a file has a lemma on its effect by step, which the two preservation
proofs cite.

`ResponseBrokerProofs` proves, for every set of actions, operators, Agents and connections
and every lease time and lifetime (`BrokerAssumption`: the bounds are naturals, lifetimes lie
within the clock's, the markers are no operator and no row): `TwoOperatorsAlways`,
`ExpiredIsNeverLeasedAlways` and `RowsAreKept`, an action property that no run has: no row
is deleted, and its requester, expiry and approval by a second operator stay.  A row is
deliverable after an UPDATE whose guard was read earlier, so `BrokerInv` says what backs each
request under way (`RequestIsBacked`): an approval that has read a row is another operator's
than the requester, a lease about to be signed or answered is for a row with such an
approval, and `ExpiryIsPast` keeps every row recorded as expired behind the clock, which is what the
re-check before signing compares with.

`ResponseExecProofs` proves `ExecutedOnceAlways`, `ExecutedWasApprovedAlways`,
`RecordedResultIsTrueAlways` and the two refinements `UsesBrokerAlways` and `UsesLedgerAlways`
(`ExecAssumption`: what the two parts assume).  Each action of the composition is mapped to
one of the broker or of the ledger, or to a stutter; the theorems of the two parts then hold
of the composition, through INSTANCE of their proof modules with the same substitution.
`GrantInv` ties executions to the ledger's grants (a tool runs once per grant), so
`ExecutedOnce` follows from `NoSecondGrant`.  `ApprovedInv` carries the second operator's
approval with the lease through the runner.  `ResultInv` says that every copy of an outcome
is true of what ran: in the ledger's memory and its three files, in the runner's hand, in
each POST on its way, in each request the broker is handling and in its row; it needs
that what was executed stays executed (`Steady`).

`TelemetryProofs` proves `JournaledFirstAlways`, `EvidenceNotLostAlways` and
`SentInOrderAlways` (`TelemetryAssumption`: the bounds are naturals, batches are not empty).
`EvidenceNotLost` speaks of the cursor file only.  `CursorInv` says it of every cursor there
is: of the file, of memory, of the poll under way up to the record it is at, and of the
commit, which may have removed the file; and it fixes where the first initialisation was.
For the order, `FlushInOrder` says that what a Flush still has to send is older than
anything enqueued since, and `AnswerIsKnown` that the answer it holds is of the event in hand.

`EnrollmentProofs` proves `TokenUsedOnceAlways`, `KeyNeedsEnrollmentAlways`,
`InstalledIsAcceptedAlways` and the action property `LastChanceTakenAlways`, for every set of
hosts, tokens and connections and every lifetime (`EnrollmentAssumption`; of the durations it
says what section 6 says).  `RegisteredInv` is the heart: unless registrations crossed, the row
has the key of the last enrollment and outlasts every certificate that is installed, on its
way or about to be registered, and a renewal that has read the row holds the registered key.
`CheckedInv` says when a look at the certificate is remembered, from which the last chance follows.

`AgentHostProofs` proves the invariants of `agent_safe`, of any number of calls, addresses,
ports, contents, lines, items, events and faults.

* Tools (`MaxCallsAssumption`, `NoneAssumption`, `QuarantineAssumption`: the markers for
  "none" are no policy and no content): `ContainmentIsOwnedAlways`, `AnswerIsTrueAlways`,
  `IsolationIsReversibleAlways`, `ControlPathIsOpenAlways`, `ContentIsKeptAlways`.
  `ToolsInv` has one stage predicate per kind of call (`NftStage`, `IsolateStage`,
  `ReleaseStage`, `RuleStage`, `FilesStage`): what is in force, what is in the signed file and
  what is in the backup when the call is at a command, which is what its rollback relies on.
* Runtime (`RuntimeAssumption`, `FileTailAssumption`, `InventoryAssumption`: the bounds are
  naturals, limits are not 0, there are finitely many items): `JournalOpensAlways`,
  `TailedIsJournaledAlways`, `DriftIsReportedAlways`, and with the tools' half
  `HostTypeCorrect`.  `RuntimeInv` is
  - `JournalInv`: unless scarred, the file verifies, is not torn, and the open journal goes on
    at its last record (`HeadAt`), without which the next Append would break the chain;
  - `JobInv`: what a worker has in hand goes with where it is, and the API is not served before
    the first record;
  - `TailInv`: the log is lines of two halves (`LogShape`); a line that the offset cuts in two
    was missed (`CutIsMissed`), so the fragment that the next poll makes of its second half
    loses nothing; an event being inspected is in the journal, so that a failure after that
    drops nothing;
  - `DriftInv`: not only the baseline but the snapshot in memory and the one about to be saved
    hold only items that were reported, accepted or are about to be reported by a worker; the
    drift rule's memory is shared by both workers, so a finding of one may be what the other's
    snapshot relies on.

  `PollEffect` rests on three facts about the operators: `NthCounts` (`Nth` counts a finite set of
  positions, by an injection of a set into an interval of its own size), `EndsAre` (a poll takes
  a line only with all lines before it) and `FindingsAre` (a new item of a snapshot is named
  by its findings unless `Silent`).  TLC has checked `RuntimeInv` on every state of the
  runtime that `agent_safe` reaches.

* Central (`CentralAssumption`: the bounds are naturals, queues and batches not empty):
  `CentralInOrderAlways`.  `CentralInv` says that whatever `Run` still holds is not overdue
  behind something later that Central has (`Behind`), that list and channel ascend, and that the
  channel is later than all else; so a batch sent twice brings nothing new out of order.  TLC
  has checked it with a queue of 3, six events and eight deliveries.

`HuntProofs` proves `AgentEventAnalysedOnceAlways`, `MatchIsSoundAlways`,
`MatchIsCompleteAlways`, `ReportedOnceAlways`, `FindingIsInIncidentAlways` and the action
property `IncidentOnlyGrowsAlways`, for every set of events with any data, all rules and any number of
workers (`HuntAssumption`: the bounds are naturals and the rules are as `load_rules` accepts
them, with two steps at least and a window each).

* `SortedLists`: `Sorted` lists each member of a finite set once, and all of them; the other
  operators' lemmas say where what they return comes from and what they never drop:
  `AliveHas` every continuation of a partial match still in its window, `CompletedIs` that a
  match is new, has its rule's minimum and which events it is of, `SuppressedIs` every match
  but for one that another subsumes, `TrimmedIs` nothing within the limit.
* `IngestInv`: the event of a job is in the store, there is at most one job of the Agents' endpoint
  (`OneAgentJob`), an event that came through it alone is in that job and has been learned
  exactly as far as the job has come (`OnlyIngest`), and what is not in the store was never
  learned (`NotYetIngested`).  So a crash between two increments leaves a first part of them,
  each made once, which is what the property says.
* `SoundInv`: the findings table is sound because the partial matches in `_state`, the copy a
  worker has read and will write back, and the matches and findings it has in hand are
  (`OnTheWay` is what `Means` says of the first steps of a rule): a partial match holds the
  bindings that its events made last (`LeavesOn` and `AdvancedSound` show that a step keeps
  this), and a score that one of its events was given.
* `OnceInv`: until a signature is forgotten, `_emitted` has the signature of every match in the
  table or held by a worker, and no two of these are of one signature (`Once`); `PruneReady` says
  what the second half of `_prune_emitted` may still delete.
* `FindingIsInIncident` is inductive together with `SoundInv`, which ties a finding to the event
  in hand; `NoFindingVanishes` says that a step keeps every finding of an incident or puts it
  into `lost`, and `IncidentsEffect` what a step makes of an incident that it does not write
  over.

* `CompleteInv` is what `MatchIsComplete` needs.  The property only speaks of a state at rest
  and of whole runs of events, so the invariant must say, between any two steps of a worker,
  which events a rule has been given: those of `order`, and the one under way once its worker
  is past the rule (`Given`).  Of these, every run of events that is on the way through the
  rule has its partial match or is out of its window (`Tracks`), and every run that the rule
  describes has a match, in the table or in a worker's hands, in full or by one that subsumes
  it (`Reports`).  `_emitted` suppresses a match whose signature it has, so it must be known
  that this signature was reported (`MarksAccounted`); and what a worker writes back to
  `_state` must be what is there now (`SeenIsCurrent`), with the score of each event
  (`Tracks` bounds a partial match's score from below, so that a match with an event that
  reaches the rule's minimum is not withheld), and it must carry its matches on to
  the table (`Turn`).  All but `Turn` holds only while nothing is `disturbed`.

  The step that matters, `AdvanceComplete`, comes down to two lemmas without state:
  `TracksGrow` (a run ending in the new event is the event alone or a shorter run with a
  partial match, which the event continues) and `ReportsGrow` (the same for a run that the
  event completes).  What happens to a match later, the suppression, the insert and the end of
  the ingest, only has to keep it or something that subsumes it (`Keeps`), and to be subsumed is
  transitive.

TLC has checked `SoundInv`, `OnceInv` and `CompleteInv` on every state of `hunt_safe`.

Only model-checked: the liveness properties `ApprovedBecomesTerminal` and `EvidenceArrives`,
since fairness and ENABLED are beyond the proof system.  Every invariant and every action
property of the runs that pass is a theorem.

## 6. What is not modelled

* A power failure: crashes are of the process, so what was written stays.  `ledger.go`, the
  journal and the cursor sync their files; the outbox (`outbox.go:70`) and the signed
  containment states (`containment_common.go:288`) are not synced before their rename.
* Clock differences between Agent and Control Plane: one clock serves both.
* Several worker processes of the Control Plane, and `ntshield replay` beside it, which
  starts a second hunt engine on the same database.
* In the hunt engine, how a score comes about: `assess` reads the counts one after the other,
  so any score is possible and a rare feature need not make a lead; what asset criticality and
  the diversity of the events add to a risk is left out.  The conditions of a step are kinds of
  events, and the comparison of values without regard to case is the identity of values.
* Cryptography, authentication and request validation; the pinning of the broker's key on
  first use (`responseexec/client.go:109`); a result too large for the server, which is
  refused on every resend (`response_api.py:156`).
* Log rotation and over-long lines of a native source (`auditd.go:70`, `auditd.go:114`); a
  line longer than one read of the tailer, which stalls its file without an error
  (`tailer.go:112`).  `FileTail` has the rotation of a tailed file.
* A check interval longer than the time before expiry at which renewal begins, which the
  configuration allows (`config.go:429`) and `EnrollmentAssumption` excludes: a certificate can
  then expire between two looks.
* A Central server that accepts a registration without giving a key (`central/client.go:303`)
  or refuses one batch for ever: `CentralClient` has these states, but its delivery is best
  effort and no liveness is claimed.
* The stateless detection rules, the window of authentication failures, and the fields of
  events, findings and incidents beyond those named.
* The parts listed in `PROJECT.json` as not modelled.

## 7. Plan

1. `ReplayLedger`, `ResponseBroker`, `ResponseExec`, `PolicyUpdate`, `Telemetry`: done.
2. `Journal`, `FileTail`, `InventoryDrift`, `AgentRuntime`, `CentralClient`, the tools,
   `AgentHost`, `Enrollment`, `Hunt`: done for the operations above.
3. Proofs of the ledger, the policy updater, the broker, the composed response path, the
   telemetry path, enrollment, the tools, the runtime, the client of Central and the hunt
   engine: done, for every safety property.
4. Then: rotation of a native source, the window of authentication failures.
