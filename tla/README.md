# TLA+ models of GOFFY OS

GOFFY OS pairs an Android phone with a Hub (a FastAPI/asyncio process on a Mac).
The phone keeps a bearer and an approval key, opens a WebSocket to the Hub,
discovers one tool, invokes it, and signs an approval when the tool is a CONFIRM
tool. The Hub also serves tools over MCP and keeps an operator audit log. Beside
them the repository has the scripts with which an operator validates a Moto G
phone and collects the evidence that a ROM installation could be reviewed.

Two things have to be right. Authority: who may talk to the Hub, how that right
is given and withdrawn, and that a tool with effects runs once for each signed
approval. And evidence: an audit log, a READY answer, a benchmark or a
validation bundle must not say more than what happened.

This directory holds the TLA+ modules, the TLC models that check them and TLAPS
proofs about all of them. Every invariant and every action property that a run
checks is also proved. `PROJECT.json` lists the components, the runs, the source
lines behind every definition, the hazards and the theorems.

## 1. Inventory

Paths are under `src/hub/src/goffy_hub/`,
`src/android/app/src/main/java/dev/goffy/os/` and `src/scripts/`.

| Component | State | Operations | Hard behaviour | What makes it correct |
|---|---|---|---|---|
| Credential store, `credentials.py` | SQLite rows: digest, approval key, revoked_at | issue (prunes), revoke, rotate, authenticate, is_active | transactions of several worker threads; stamps read before the transaction; full table | limits hold; a dead bearer stays dead; oldest revoked rows go first |
| Hub access, `app.py`, `connections.py`, `auth.py`, `pairing_api.py` | handlers, the index of live sockets, close tasks | connect, register, recheck, self revoke, admin revoke, rotate | revocation racing a connecting socket, failing audit store, restart | nothing of a revoked credential stays open; log and answers agree with the store |
| Pairing, `pairing.py`, `pairing_api.py` | pending challenges, failure counts | begin, redeem, expire | concurrent redemptions, crash between pop and insert | one credential per challenge; a spent challenge stays spent |
| Tool protocol and approvals, `app.py`, `approval.py` | per connection: discovery, seen ids, pending approvals; shared: issued records | discover, invoke, approve, deny, discard | replay over connections, expiry, close during a send | an approval starts its tool once; no stranded record |
| Tool registry, health, `registry.py`, `tool_health.py` | definitions, health map, revision | refresh_health, discover, preflight, invoke | a health pass between check and use, a pass that fails half-way | a broken tool is not offered for ever |
| Operator audit, `operator_audit.py` | hash chain, tip, high-water mark, copy in memory | migrate, record, verify, prune, load | crash, failed write, retention against tampering | only a foreign change is called tampering; a trusted log shows the newest events |
| MCP server, `mcp_server.py` | session slots, owners, replay ring, subscriptions | create, reserve, stream, prune, terminate, replay, notify | creation racing revocation, two counters of one thing, two idle clocks, evicted cursors | no session outlives its bearer; no slot is lost or freed twice; no change is missed unawares |
| Hub ROM tools, `tools/rom_status.py` | none | status from report and checklist, next step | two reads of files that are being replaced | READY only if the files were READY together |
| ROM evidence scripts, `rom_*`, `create_rom*`, `refresh_rom0_*`, `verify_rom0_*` | the files under `.goffy-validation` | probe, record evidence, packet, refresh, checklist, gates, review | runs cut short, stale evidence, three scripts that compute one thing | packet, checklist and Hub agree; evidence counts for its own build and day |
| Device smoke, `run_moto_g_device_smoke.py` | what it has seen of the screen | install, pair, type, send, search, judge | old cards, lost focus, an operator at the same screen, adb failures | a verdict is about the card of this run; a token that went into the wrong field ends the run |
| Phone benchmarks, `run_moto_g_*benchmark.py`, `*_eval_suite.py`, `*_observation_smoke.py` | model and result files on host and phone | push, test, pull, gate | a result left by an earlier test, a model replaced meanwhile | an accepted suite measured the model it names |
| Validation bundle, `run_moto_g_usb_setup.py`, `guide_*`, `collect_*`, `verify_moto_g_validation_bundle.py` ... | the bundle directory | set up, record, collect, verify | a forced pipeline that removes what another is writing | exit 0 vouches for one record that passed |
| Task timeline, `agent/GoffyTaskReducer.kt` | entries (50), active task | submit, approve, deny, expire, apply, reject | late events, evicted entries | terminal phases are final |
| View model, `GoffyViewModel.kt` | jobs, pending execution, audit observer, link state | submit, approve, deny, cancel, scan, observe, pair, rotate, forget | jobs cancelling one another, the link's answers while an approval is awaited, process death | one outcome per execution; the phone does not stay busy |
| Gateways, `hub/OkHttp*.kt`, `phone/PhoneToolGateway.kt` | attempt, outcome, retries | execute, retry, time out | timeout against terminal event, retry of a sent invocation | a tool is not run twice |
| Phone persistence, `audit/`, `hub/AndroidHubCredentialStore.kt` | audit table (bounded), encrypted record | append, trim, load, save, clear | clock steps, failed save, death of the process | what is kept is what happened |

How they interact: `pairing_api` calls the pairing service, which calls the
store on a worker thread; after a revocation or rotation it awaits `on_revoke`,
which closes the indexed WebSockets and terminates the MCP sessions. Every
handler that changes credentials writes a fail-closed "requested" event to the
audit log first and a best-effort completion event last. The WebSocket handler
authenticates through the store, registers in the index, rechecks, and then runs
the receive loop, which shares one approval store and one health map with every
other connection. The health monitor replaces that map and has the MCP notifier
tell the sessions that listed the tools. On the phone the view model drives the
gateways and feeds their events to the reducer, whose ended entries an observer
writes to the audit table. The ROM tools of the Hub read the files that the
refresh script writes. The lab's scripts meet on one phone and one directory.

Not modelled: section 6.

## 2. Modules

| Module | Models | Composition |
|---|---|---|
| `CredentialStore` | `credentials.py` | abstract specification of the table |
| `HubConnections` | connect path, socket index, revoke and rotate handlers | extends and implements `CredentialStore` |
| `PairingService` | challenges and redemption | extends `CredentialStore` (Issue, Revoke) |
| `HubMessages` | the receive loop, approvals, admission by health | starts from accepted sockets |
| `AuditTrail`, `OperatorAudit` | abstract trail; the hash-chained log | `OperatorAudit` implements `AuditTrail` |
| `McpSessions` | slots, transports, streams, idle clocks, termination | |
| `ToolListChanges` | health monitor, notifier, replay store, reconnecting client | |
| `RomEvidence`, `RomRefresh` | what the ROM files say; the directory at work | `RomRefresh` extends `RomEvidence` |
| `MotoG` | the bench the lab's scripts share | |
| `DeviceSmoke`, `PhoneBenchmarks`, `ValidationBundle` | the lab's scripts | extend `MotoG` |
| `DeviceLab` | the lab | composes the three |
| `TaskTimeline` | the phone's reducer, as functions on a value | |
| `HubGateway` | the flows of a Mac and of a phone task, and the Hub's side of a connection | extends `TaskTimeline` |
| `PhoneTasks` | view model, approval card, jobs, audit observer and table | extends `HubGateway` |
| `HubAccessProofs` | theorems about the credential table, pairing and connections | extends `PairingService` and `HubConnections` |
| `HubMessagesProofs`, `McpSessionsProofs`, `ToolListChangesProofs`, `OperatorAuditProofs`, `RomRefreshProofs`, `DeviceLabProofs`, `PhoneTasksProofs` | theorems | each extends its module |
| `MC...` | constants for TLC | |

**Atomicity.** One asyncio loop runs all Hub handlers. A handler can be
overtaken only at an `await` that really suspends: a worker-thread call (every
store operation of the credential table) or network I/O. An action is the code
between two such points, so that a value read before an await is used one action
later. A store operation is one `BEGIN IMMEDIATE` transaction and one action.
Starlette marks a socket closed before it awaits the transport, so a close task
closes its socket in one step; a send tests that the socket is open when it
begins, and is not stopped by a close that comes later. The loop runs tasks in
the order in which they became ready: when a handler resumes from
`gather(*closes)`, the close tasks scheduled before it have run
(`CloseSessions`, `waits`). On the phone everything of the view model runs on
the main thread and a coroutine can be overtaken only where it suspends; the
gateway's listener runs on its own threads. A script is a sequence of steps,
each an adb command or the writing of a file, and may be overtaken between any two.

**CredentialStore.** `rows` maps an id to `[status, gen, revokedAt, key]`.
`gen` counts rotations, and the bearer of a credential is the pair (id, gen):
digests of 32 random bytes do not collide. Ids are naturals because SQL orders
by the id's text. `revokedAt` is any member of `Stamps` since the clock is read
before the transaction and may step back. Pruning is stated as the set of rows
that the `DELETE ... ORDER BY revoked_at, credential_id LIMIT` removes. A row is
never reused: `unused`, `active`, `revoked`, `pruned`. Rows migrated from the
first schema (`LegacyIds`) are active and have no approval key. The module has
no run of its own: its properties are checked in `pairing` and
`hub_connections`, which use its operations, and are proved.

**HubConnections.** `conn[x]` is the handler of a connection attempt (its
program point, the credential and bearer it authenticated with, whether its
socket is closed); `registry` is `WebSocketConnectionRegistry`; `closing` the
scheduled close tasks; `req[r]` the handler of a self revocation, an
administrator's revocation or a rotation; `intents` the "requested" events in
the audit log. Any store read may fail (`authenticate` then rejects, `is_active`
reads as FALSE), any audit write may fail, and `HubRestart` can come anywhere:
only the two databases survive. The MCP half of `on_revoke` may raise after the
commit (`RevokeRaises`): `gather()` hands the exception on, the route answers 500
and writes no completion event, and the close tasks run on. `Raising` bounds the
requests it happens to. The three HTTP handlers have the same shape and share
their actions.

**PairingService.** `pending[k]` is a challenge and `redeem[p]` a redemption
that is suspended between taking the challenge and the committed insert, and
again before its answer. A challenge whose audit event failed is pending and
never disclosed, so nobody can present its token. Rotation is not part of this
module (`MaxGeneration = 0`).

**HubMessages.** `principal[x]` is who a connection belongs to, a phone with an
approval key or a legacy credential without one (`Logins`); `ws[x]` is the
handler with its phase (what it awaits), the discovered tool set, the number of
messages seen; `pending[x]` and `store` are the connection's pending
confirmations and `ApprovalArtifactStore`. All refusals that only answer with an
error are one action, as are the frames that report a result. Signatures are
external: `signed` is the set of approvals the phone has signed. `executed` is a
history variable: it appears in no guard.

**OperatorAudit.** `db` is the file (schema version, rows, chain tip, high-water
mark), `mem` the process. A digest is what it commits to, the sequence of
numbered events hashed so far. A write may fail, the process may restart with
another limit, and something else than the Hub may change or delete rows or
delete metadata (`Corrupt`). A Hub may inherit a file of an older schema with up to
`MaxInherited` events. `ImplementsTrail` maps the file to the trail of
recorded events, those that can be shown, and whether they verify. As ADR 0023
says, a change that recomputes the whole chain is beyond the log; such a change
is not among the corruptions.

**McpSessions.** `slots`, `pending`, `streaming` belong to the middleware,
`sess`, `gets`, `eventStore` to the session manager; `req[h]` is an HTTP handler
and `mut[c]` a revocation or rotation of a client's credential. The second look
at the bearer of an initialize request may find it gone or fail (`BearerGone`);
both terminate the client's sessions. An idle clock is
a set of sessions whose last activity is too old (`old`) and a timer per session.
The SDK's transport is external, taken from how the manager uses it.

**ToolListChanges.** `works` is the truth about the tools, `healthy` what the
registry believes; a pass of the monitor probes, applies and notifies in separate
steps and may fail in each. `store[s]` is the bounded replay store of a session,
`stream[s]` its GET stream, `wire[s]` what is on its way, and the client's side
is its listing, its cursor and whether it was told.

**RomEvidence, RomRefresh.** A file is missing, torn or intact with the fields
that the scripts tell apart. `RomEvidence` holds what every script writes,
accepts and computes, as operators; `RomRefresh` runs them: one script at a time,
any of which may be cut short, a refresh as a list of writes (`plan`), each
truncating and then filling its file, and the Hub's status tool with its two
reads (`hub`). The removal of the old checklist may fail, and the refresh then
goes on beside it (`RemovalFails`, `unremoved`). The gates template is made from
any part of the evidence, what is not given staying blank (`CreateGates(given)`),
and the operator may type any gates at all (`EditGates`, from `TypedGates`); `edited`
and `probeAt` of a gates file and `checks`, the eligibility checks made, are history.

**MotoG, DeviceSmoke, PhoneBenchmarks, ValidationBundle, DeviceLab.** `site` is
the set of facts that hold on the bench (Hub, phone, reverse port, APK), which
`BenchChanges` changes under every script. The smoke is a list of steps with its
own continuation (`smoke`), against an app (`screen`) that runs commands, is used
by the operator and is seen through dumps that may fail or show only a part. The
field for the bearer token is whichever the geometry of the layout picks, so the
tap and the text may go to any field (`FocusToken`, `TypeToken`). The
benchmarks move files (`files`) between host and phone; `measured` is history.
The bundle has a directory (`dir`), at first missing, left without a marker or an
earlier bundle, and pipelines (`crew`). Of a forced one, the look for the
directory, the check of the marker, the listing, every unlink and the rmdir are
steps of their own. In `DeviceLab` an
operator does one job: a behaviour runs the scripts of that job, and the others
are seen by it only through the bench.

**TaskTimeline, HubGateway, PhoneTasks.** The timeline is a value
`[active, entries]` and every function of the reducer an operator on it. A flow
(`flow[t]`) has its program point, attempt, channel of emitted events not yet
collected, and both directions of its connection: what the phone sent may arrive
after the connection is gone, what the Hub sent is lost with it. `ui` is the
view model, `aud` the audit observer, which sees only the latest state after each
write, and `rows` the table, which survives `ProcessDies`. `link` says which
operation of the Hub link is under way: rotating and forgetting first cancel the
active task (`LinkOperation`), commands go on, and the answer takes away a card
that has come up since (`RotationAnswers`, `ForgetAnswers`; only the latter
cancels the active entry too, and neither touches the pending execution or a
job). The user approves and denies on the card; the timer and Cancel act on the
pending execution, with or without one. `ran` and `decided` are history;
`decided` also notes a card that a rotation has taken ("lost").

Definitions marked "Slip" are plausible faults in one operation (a dropped
guard, an off-by-one, a missing reset). No specification uses them; each stands
before the definition it would replace, and the replacement violates a property.

## 3. Runs

| Run | Bounds | Distinct states | Shows |
|---|---|---|---|
| `hub_connections` | 2 credentials, 2 sockets, 2 requests (1 may raise), table of one row, 2 generations | @HUB | revocation closes every session, at once and in the end; log and answers agree with the store; dead bearers stay dead; refinement of the table |
| `hub_rotation` (violation) | 1 socket, 1 request | | finding 1 |
| `pairing` | 2 challenges, 3 redemptions, 1 pending, 2 guesses, ttl 2, table of 2 rows | 1,297,376 | one credential per challenge, announced; spent challenges stay spent; the table's limits |
| `hub_messages` | 2 connections (phone or legacy), 2 tools, 2 approval ids, store of 1, 5 messages | 2,600,940 | approvals are used once and only by those who signed; none is stranded |
| `operator_audit` | limits 1 to 3, 4 events, 2 corruptions | 68,548 | no false alarm; the report is true; refinement of the trail |
| `mcp_sessions` | 1 client, 2 sessions, 2 handlers, 2 slots, 1 mutation | @MCP | no session outlives its bearer; slots, streams and replay stores are kept apart |
| `tool_list` | 2 tools (1 SAFE), 1 session, ring of 3, wire of 2 | 284,892 | no change is missed; an outdated listing is found out; broken tools disappear |
| `rom_refresh` | 2 builds, maximal age 0, 1 archive, 2 instants, 2 script runs, 2 faults | @ROM | READY is earned and read consistently; packet, checklist and Hub agree |
| `device_lab` | 1 smoke, 2 benchmarks, 2 jobs, 2 pipelines (1 forced), 1 change of the bench, 1 swipe, 1 foreign card, 2 models, 2 examples | @LAB | verdicts are fresh; a misplaced token ends the run; suites and bundles are genuine; scripts end |
| `phone_tasks` | 2 tasks, timeline of 1, 2 attempts, table of 1 row, 1 death | @PT | tools run once and as approved; history is true and final |
| `phone_progress` | 2 tasks, timeline of 2, 1 attempt, table of 1 row, 1 database fault | @PP | no task keeps the phone busy; ends are written or reported |
| `phone_rotation` (violation) | 1 task | | finding 2 |

Why the bounds are enough. Pruning needs a full table with a revoked row: the
table of one row (`hub_connections`) makes pairing the second device prune the
first one's revoked row while its handlers still run, and that of two (`pairing`)
fills and is pruned again. Races on the index are between a connecting socket, a
session and two mutations of one credential: two sockets and two requests give
every pair of them, and the proofs below remove the bound. Three redemptions are
two rivals after one wrong guess. Five messages are discover, invoke, approve and
a replay with one to spare, on each of two connections, and a store of one record
makes them compete for it. Four events against a limit of at most three prune,
and two corruptions can undo one another. One client with two sessions has every
race of creation, use, stream and mutation that the two counters can disagree
over; clients share nothing but the number of slots. A ring of three events is
shorter than what one stream can emit, so cursors are evicted. The ROM run
starts from what any earlier records left, so two script runs are a record and a
refresh, or two refreshes, cut short at any write; two faults are a checklist that
can neither be removed nor written. Two builds and two instants make evidence stale in either way. In the
lab one foreign card, one change of the bench and a result or model left by the
script before are what each verdict has to withstand. On the phone a timeline and
a table of one entry make the second task evict the first, two attempts are a
retry, and the second task meets everything the first one left behind.
`MaxMessages` (64), `MaxItems` (50), `MaxRows`, `MaxAttempts` (3), `MaxEvents`
and the limits of the store exist in the code with larger values;
`MaxGeneration`, `MaxTime`, `MaxRuns`, `MaxFaults`, `MaxDeaths`, `MaxFlips`,
`MaxCards`, `MaxForced`, `Raising`, `TypedGates`, `MaxMutations`, `MaxInherited` and the sets of ids bound what the code leaves open.

The link's operations multiply the phone's states, so the fault of the database
is in `phone_progress` and the death of the process in `phone_tasks`; the proofs
have both in any number. `phone_tasks` leaves out SAFE Mac tasks, which take a part of the steps of a
CONFIRM one, and `phone_progress` looks at one SAFE Mac task and one phone task
with an approval: liveness of more is out of TLC's reach in this state space.

Symmetry: in `hub_messages` the connections of one phone and the approval ids,
in `rom_refresh` the builds are interchangeable. Both runs check invariants only.

Deadlock is not checked: clients may all be gone, ids, tasks, script runs and
message budgets used up, and a system to which nothing happens is correct.

**Fairness.**

- `hub_connections` (`FairSpec`): weak fairness of `CloseSessions`, `Respond` and
  `RunClose`. All three are continuations that are ready to run in the event
  loop, which runs every ready task; none waits for a client.
- `mcp_sessions` (`McpFairSpec`): the handlers and the termination go on; the
  same argument. Clients need not send, close or delete anything.
- `tool_list` (`ToolListFairSpec`): the monitor's loop and its sends, which have
  timeouts; the Hub closes every stream after its lifetime; the client reopens
  its stream, as an MCP client does. Two strong fairness conditions say that a
  stream that is opened again and again carries an event in the end: a client
  whose connections all break before the first byte is never told anything.
- `device_lab` (`FairLabSpec`): a script that runs takes its next step: every adb
  command has a timeout, every search a number of swipes, every wait a deadline.
- `phone_progress` (`PhoneFairSpec`): one weak fairness condition, on the steps
  that tasks (`TaskProceeds`: collecting, timing out, the approval's timer) and
  the audit observer can take by themselves: the main thread does not rest while
  one of them is ready. No user decides, no Hub answers and no connection opens by
  assumption.

## 4. Proofs

`HubAccessProofs`, the credential table, for every set of ids, limits and stamps satisfying
`IdsAssumption` and `LimitsAssumption` (finitely many migrated rows within the
active limit, active limit at most the retained limit):

- `StoreTypeCorrect`: rows keep their shape.
- `StoreStaysWithinLimits`: `CapacityBounds` is inductive by itself because it
  says that the stored rows are finite. The argument is the insert: if the table
  is full, fewer than MaxActive rows are active, so some are revoked,
  `DeleteCount` is 1, the prune set has exactly that size, and what remains has
  room for the new row (`StoredCardinality`, `IssueKeepsBounds`).
- `DeadStaysDead` and `PruneIsOldestFirst`: action properties, one case per
  operation.

`HubAccessProofs`, connections, for any number of sockets, requests and credentials:

- `HubTypeCorrect`, with the auxiliary `Named` (a handler past authentication
  names a credential of the store), needed to apply the index and the rows.
- `HubImplementsStore`: every step of the handlers is a step of the credential
  table or leaves it alone; `HubStoreWithinLimits` carries the store's theorem
  over.
- `RevocationReachesAll`: the inductive invariant `AccessInv`. The property
  itself, `RevokedAccessClosed`, speaks of the end only and is not inductive.
  `Tracked` says that a socket that is being checked or served is indexed or has
  its close task scheduled; registering *before* `is_active()` is read is what
  makes it hold. `CommittedMeansInactive` keeps a revoked credential inactive,
  so that no check that comes after the commit succeeds. At the pop of the
  index, the two give `WaitsCoverLive`: every open socket of the credential is
  one the request waits for. `WaitsClose` says that what it waits for is closed
  when it resumes.
- `RevocationIsImmediate`: `RevokedAccessClosed` follows.

- `IndexIsExact`, `ChangesAreAnnounced`, `AnswersAreTrue`: the index names
  handlers that run; every change of the table was announced; answers agree with
  the table, and the 500 of an `on_revoke` that raised always follows a change.
  The last two need `CountInv`, which counts the requests of a
  credential by state: mutations plus announced requests that have not committed
  are at most the announcements, and mutations lie between the requests known to
  have committed and those that may have.

`HubAccessProofs`, pairing, from `PairingAssumption` and the store's assumptions:

- `PairingImplementsStore` and with it `PairingKeepsLimits`: the refinement once
  more, for the other user of the table.
- `PairingTypeCorrect`, `SpentStaysSpent` (an action property) and
  `ChallengeBuysOneCredential`. `OneCredentialPerChallenge` speaks of redemptions
  that have won and is not inductive: a redemption between the pop and the insert
  has not. `TakenChallenges` says that whoever took a challenge took it alone,
  `WonCredentials` that a winner took one, and `AnnouncedFirst` counts inserts
  that are still to come against the audit events.

`HubMessagesProofs`, from `MessagesAssumption` (the tools, principals and
approvals are what their names say, and `None` is not an approval):

- `MessagesTypeCorrect` and the inductive `ApprovalInv` (`ApprovalsInvariant`),
  from which `ApprovalStartsOnce`, `ConfirmToolsNeedApproval` and
  `ApprovalsAreOwned` follow. An approval is consumed before "accepted" is sent
  and counted as executed after it; `TakenIsCovered` and `TakenOnce` carry what
  was checked at the consumption over that gap, `QuietHandlers` says who has taken
  nothing, `DenialTakesRecord` covers the same gap of a denial, and
  `PendingIsOwned` and `StoredIsPending` tie the shared records to one connection.

`McpSessionsProofs`, from `McpAssumption`: the inductive invariant `McpInv`
(`McpInvariant`) and one theorem per invariant of the run.

- `SessionsEndWithBearer`: `BearerInv` says that a session a client knows, or is
  about to be told, has a current bearer, or the mutation that replaced it has
  still to look for sessions. The second check of initialize is what makes it hold.
- `ReplayStoresStayApart`: `StoreInv`, one initialize request at a time lends its
  store to the SDK.
- `StreamsKeepSessions`: `StreamInv`, the manager's table of streams, the timer
  and the middleware's count describe the same set of handlers.
- `SlotsStayAccounted`: `SlotInv`, the slot of a live session grows old only while
  a stream is counted for it, so that it is not pruned.
- `Handed` is what all of them rest on: a session is named by a handler or a
  table only after it was created.

`ToolListChangesProofs`, from `ToolListAssumption` (SAFE tools are tools, the
replay store holds an event and the response two), for any tools and sessions:

- `NoChangeIsMissed`, from `ToolListInv` (`ToolListInvariant`). `NoMissedChange`
  speaks of outdated listings and is not inductive: a session that was dropped
  from the notifier before the health changed is never sent anything. So the
  invariant asks the same of every primed client that is not registered
  (`Watched`). A send fails only when the response holds `WireSize` events it has
  not passed on, and what follows the first event of an attached stream are
  changes (`WireOK`), so the dropped client has its signal already.
- When a stream is lost, what it carried is lost: `ReplayOK` says that the store
  ends in a change during a replay, `WireOK` that otherwise the cursor lies before
  the end of the store while anything is on the wire. In both cases the cursor
  that is left makes `replay_events_after` resynchronise (`Resyncs`). A reconnect
  that is not resynchronised is of a client that had been told.
- Eviction shifts cursor, wire and replay together with the store (`ShiftFacts`,
  `ShiftAllFacts`, `WithLast`). That the events to be replayed can be put in
  order at all (`InOrder`) is shown in `EnumerationExists`, by the least number
  up to which they cannot.
- Every step of a session is stated as what it makes of the seven values the
  session keeps (`Keeps`, `Becomes`), so that one lemma, `SessionStep`, serves all.

`RomRefreshProofs`, from `RomEvidenceAssumption` and
`RomRefreshAssumption`: `RomInv`
(`RomInvariant`). `PlanInv` says what a refresh still has to write and what is on
disk meanwhile; it gives `Paired`, an intact checklist beside its own report even
in the middle of a refresh unless a removal has failed, and `Authored`, by which
also an older one was made from some report. `EarnedInv` follows a READY, and
gates nobody has typed into (`Backed`), back to a check.
`ReadyIsEarned`, `StatusLinearizes`, `ChecklistIsCurrent` and `ReviewIsBacked`
follow; the first two need no removal to succeed. `NextStepActs` and `PacketAndChecklistConcur` are
about what the scripts compute from any files.

`OperatorAuditProofs`, from `AuditAssumption`: `AuditInv` (`AuditInvariant`),
`AuditReportsTruth` and the refinement `LogImplementsTrail`. A digest is the
sequence it commits to, so a chain that verifies against a tip of n events has
those events in its rows: this is shown by induction over the rows, from the last
one backwards. The metadata is lost or names the last recorded event (`TipInv`)
whatever else changed the file; hence rows that verify are genuine
(`TrustedRows`), which the refinement needs. `WholeInv` and `HonestInv` are about
files that only the Hub wrote to.

`DeviceLabProofs`, from the assumptions that the bounds are numbers and `NoModel`
is not a model, for any models, examples, bench changes, script runs, swipes and
cards:

- `BundlesAreGenuine`, for any number of pipelines of which at most one is forced
  (`AtMostOneForced`; section 5 on two). `BundleInv`: whoever fills the directory
  does so alone, because it has no marker until it is filled (`OneWriter`), and
  nobody fills it while the forced one removes it (`RemoverAlone`). Hence the
  artifacts always show one record (`DirShowsOne`), although the pipeline that
  hashes them may not have written them. `PairInv`: until the forced pipeline has
  removed what it found, whoever works in the directory does so alone and the
  files are its own; from then on a marked directory stays (`Settled`), so that
  hashes that match when they are compared still match when the contents are read.
- `SuiteMeasuresItsModel`, from `MeasuredInv`: a result that lies on the phone or
  was pulled and is right was measured with the model and the example it names
  (`WasMeasured`), whenever that was, and the gate compares both names.
- `SmokeReportsItsOwn`, from `SmokeInv`, which says at each step of the script
  what is in the command field, how many cards the baseline counted and which
  commands have a verified card of this run's (`WaitInv`, `ProgressInv`).
- `MisplacedTokensEndRuns`, from `SmokeInv` and `TokenInv`: a token that went into
  a field other than its own leaves the app's token empty and the Debug link
  disabled, so that the run can only stay at that step or fail; only the next
  launch of the app empties the field.

`PhoneTasksProofs`, from the assumptions of `TaskTimeline`, `HubGateway` and
`PhoneTasks`, for any number of tasks, attempts, entries, rows, database faults
and deaths of the process:

- `ToolsRunOnce`, from `RunInv` (`RunInvariant`). `FlowOK` says that nothing is
  on its way to the Hub once a tool has started and that an attempt that may be
  repeated left nothing behind; `OwnersInv` that a pending execution has not
  begun and a job has; `DecidedInv` that a CONFIRM flow that has begun was
  approved and nothing else.
- `ApprovalCardsAreLive`, `HistoryStaysTrue` and the action property
  `EndsAreFinal`, from `HistInv` (`HistoryInvariant`), which rests on `RunInv`.
  None of the three is inductive. The card, the pending execution and the entry
  part ways when a link operation answers: `WaitingFacts` says that a task that
  awaits its approval has not begun and its tool cannot run yet, with or without
  a card, and `LostStays` that the exception of `ApprovalCardIsLive` is permanent.
  `ShownInv`: a task has one entry, and the
  active task's is the one that has not ended, so a late event finds no entry to
  change. `TruthInv` looks ahead: a verdict that is still in a channel comes from
  a tool that ran (`FlowTrue`), and a task reported as not approved is one whose
  tool can never run (`Stopped`), not merely one whose tool has not run yet.
  `TableInv` and `QueueInv` tie rows, entries in the observer's hand and shown
  entries together: a task is tried once, so no row is written over, and what
  `LoadAudit` restores is of tasks that are not shown.
- The steps of user, jobs, timers and gateway are all shown to be an `AgentStep`,
  which changes the entry of one task that is new or has not ended and leaves the
  audit alone (`StepKinds`); invariant and action property are then shown once for
  it and once for each step of the audit and the death of the process.

How the invariants were found: each of `AccessInv`, `CountInv`, `PairingInv`,
`ApprovalInv`, `McpInv`, `ToolListInv`, `RomInv`, `AuditInv`, `BundleInv`,
`PairInv`, `MeasuredInv`, `SmokeInv`, `TokenInv`, `RunInv` and `HistInv` was checked
by TLC as an invariant of its run before it was proved (`McpInv` also with two
clients, 14.5 million states; `SmokeInv` and `TokenInv` also with two smokes and
two foreign cards).

Induction over data. The library's induction theorems have an operator as a
parameter and cannot be used. For one fixed predicate the least number that
violates it serves instead (`LeastNumber`, from the well-foundedness of the
naturals); the rows of a chain, the events of a flow and the positions of a
replay are handled so, and
`RunsExist` shows by it that the recursive function `StatesAfter` is what its
defining equation says.

Only model-checked: all liveness under fairness, which is out of the prover's
reach, that is `RevocationReachesSessions`, `RevocationEndsSessions`,
`StaleListingIsNoticed`, `BrokenToolsDisappear`, `LabRunsEnd`, `BusyEnds` and
`AuditedOrDegraded`.

## 5. Findings

With a run each:

1. `hub_rotation`: a socket that authenticated with the old bearer and registers
   after a rotation has popped the index passes the recheck, because
   `is_active()` asks about the credential id, and is served after the rotation
   was answered. `docs/adr/0018` says old live sessions are closed. Revocation
   is not affected: there the id is inactive.
2. `phone_rotation`: commands are accepted while a rotation of the token is under
   way (the command surface asks for `!busy` only). If a task awaits its approval
   when the rotation answers, `hubRotationSucceeded` and `hubRotationFailed` take
   its card away and leave its entry; the expiry, or a cancellation, then takes
   the pending execution but returns without a card to close
   (`GoffyUiState.kt:334-354`), and the task stays AWAITING_APPROVAL and active
   until the user cancels a second time. ADR 0004 says "Denial, cancellation, and
   expiry are terminal". No tool runs without its approval by this
   (`ToolsRunOnce`); `BusyEnds` and `ApprovalCardIsLive` state the exception.

The models contain these too, without a run:

- The audit record of a refused connection (`app.py:323`) is written after
  `register()` and outside the `try/finally`; if it raises, the dead socket stays
  indexed until the credential is revoked or the process ends
  (`RefuseInactiveAuditFails`).
- A CONFIRM tool found unavailable while its approval is pending is accepted and
  started when the approval arrives (`app.py:698`), while ADR 0010 wants
  availability validated before `accepted`.
- When the signed approval cannot be sent, the attempt counts as retryable and
  the invocation is sent again (`OkHttpHubGateway.kt:404`), while ADR 0002 says
  not to replay after send. The tool does not run twice: `ToolRunsOnce` holds.
- The CHECK of the phone's audit table has no row shape for `mac.apps.open`
  (`AndroidSqliteTerminalAuditStore.kt:201`), which the typed contract lists
  (`ClosedTerminalAudit.kt:281`), so the history of that tool is never stored
  (`Storable`) and is reported as degraded.
- Two collectors that are both forced on one directory
  (`collect_moto_g_validation_bundle.py:175-179`) can spoil a bundle: the second
  passes the check of the marker, the first removes the directory and fills it
  anew, and the second's `rmtree` removes what the first is writing. TLC finds
  that exit 0 may then vouch for files of two records, or for a record that did
  not pass, when `MaxForced` is 2 and the hypothesis of `BundleIsGenuine` is
  dropped. No document speaks of collectors that run at once.
- The refresh passes over an `OSError` when it removes the old checklist
  (`refresh_rom0_action_packet.py:466-473`), and a run that ends before the new
  one is written leaves an older checklist beside the newer report
  (`ChecklistFollowsReport` states the exception). READY is still earned.
- The readiness review sees neither the eligibility check nor its date
  (`validate_manual_gates`), so gates typed by hand pass without one.
- When the Hub link is forgotten while a new command runs, the answer cancels the
  entry that is shown but not the job (`GoffyUiState.kt:268-300`): the tool of a
  task that is shown as cancelled may still end.
- After a card was taken away the pending execution stays until its timer fires,
  and the next Cancel is spent on it.
- A tool that is running, or whose "accepted" frame is being sent, is not stopped
  by a revocation. No document promises that it is.

## 6. Limits of the models

Not modelled, and why:

- Hub identity, settings and start-up: validated once, constant afterwards.
- Mac tools, Git and feature tools, the audit export endpoint: stateless readers
  around operating-system calls, and formatting.
- Training, dependency, APK, release-signing, AOSP-import and security scripts:
  one sequential check of one input each.
- The phone's link but for what rotating and forgetting do to tasks: pairing,
  restoring and storing the credential, with the pairing and operator-audit
  gateways; the memory and note tables. The link is the largest part left that
  has interleavings: a pairing after `cancelForegroundPairing` does not join its clean-up job, and
  `configureHub` cancels without joining.
- Intent router, local model runtime, QR, OCR: text patterns and camera plumbing.
  Wire protocol: the modules work with decoded messages, and a malformed one is
  a refusal. The Compose UI.

Inside the modelled parts:

- Body parsing, key decoding and argument validation are choices between success
  and refusal. In `HubConnections` and `PairingService` the audit log is a count
  of events whose writes may fail; `OperatorAudit` models it.
- MCP: the semaphore of tool calls, size limits and the audit of HTTP requests
  are left out. `NoMissedChange` speaks of clients that opened their stream
  before they listed, as ADR 0012 asks.
- ROM: the review's sections on descriptors, signing plan, signed APK and AOSP
  import are left out; the validators of a file's form are one verdict. The gates
  carry no date, and the gates step of the checklist is never DONE, so the next
  step never reaches the review; READY may rest on the report of an earlier
  refresh than the newest evidence.
- Lab: scripts of different jobs meet only through the bench. A Send
  whose tap was lost while an older card of the command was out of every dump's
  view is an exception stated in `SmokeVerdictIsFresh`. The run has two collectors, one of them forced, and
  `rmtree` meets the files in the same order whoever lists them. What the operator
  types meanwhile is confined to the wait for the pairing. The single benchmarks
  accept a result left by an earlier test; only the suite's gate tells.
- Phone: task ids are naturals drawn in any order; one wall-clock stamp is used
  in the runs, so rows are ordered by id alone, which makes the row just written
  the one that is trimmed as a clock set back would. Corrupt rows and database
  migrations are left out. The Hub's events are well formed but for
  `ProtocolFailure`, and the verification of a result succeeds. Taps act on what
  the state shows: approve and deny need the card, while the model lets a command
  be submitted and a rotation be started at any time, which the UI offers only
  when no task is active.

## 7. Plan

What would come next is the credential itself on the phone: `PhoneLink` composed
with `CredentialStore` (pair, save, failed saves, process death).
