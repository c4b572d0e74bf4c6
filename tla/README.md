# Aida agent: verification project

TLA+ models of the LiveKit telephone agent in `src/src/aida_agent` (1717 lines
of asyncio Python), the TLC runs that check them on small instances, and TLAPS
proofs of every safety property those runs check. Paths below are relative to
`src/src/aida_agent` unless they start with `src/`.

## The system

One worker process (`MonitoredAgentServer`) registers with LiveKit and is given
jobs. Each job serves one telephone call in one room: it admits the SIP
participant, redeems a one-time credential for the call's profile, starts a
voice session, announces itself ready, and talks to the caller until the PBX
integration takes the call over by server-sent packets.

| Component | State | Operations | Calls |
|---|---|---|---|
| `control.py` ControlHandler | ready, stopping, transferring, deadline, seen ids, announcement task and its timeout, stop task | receive (3 commands), activate, `_announce`, `_finish_handoff`, `_stop`, close | switches the session's audio, disconnects, shuts the job down |
| `admission.py` SipAdmission | admitted leg, `changed` event, audio flags, closed | room handlers, wait, validate, subscribe_audio, close | worker.abort |
| `worker.py` entrypoint | startup task and stage, session, aborted, cleaned | start_authorized, abort, cleanup, on_data | all the others |
| `bootstrap.py` | none | authorize (one attempt), authorized_profile | HTTP |
| `transcripts.py` stream and publisher | sequence, caller segment, queue, closed | caller, assistant, enqueue, `_run`, close | publish_data, abort |
| `transcript_history.py` | sequence, committed, pending, finals, queue, snapshots | caller, item, snapshot, get_transcript, `_publish`, close | send_text |
| `status.py`, `monitored_server.py` | connection state, socket, job counters | SDK hooks, /healthz, /readyz | SDK health |
| `platform_config.py` | environment | fetch (paged), resolve, apply | HTTP |
| `logstore.py` | environment, key file | configure, watch_server, watch, stats | third-party library |
| `cli.py`, `preview.py`, `build_info.py` | none | command dispatch, status-only server, version | `platform_config`, `worker.main` |
| `config.py` | none | parsing of JSON, profiles, settings | |

Everything of a job runs on one asyncio thread, so code between two awaits is
atomic, and the hard behaviour lies at the awaits: a room event, a packet, a
timer, an abort or the SDK's shutdown may run there. What has to be right:

* **Takeover.** Commands are duplicated, reordered and late; the statement is
  spoken by a task with a timeout of its own, which is cancelled, replaced and
  rescheduled by the commands. The caller must be listened to only while the
  agent screens, the statement must be spoken once and in full, and the agent
  must leave after an answer even if everything it awaits hangs.
* **Admission.** Two loops sleep on an event that handlers set; the participant
  may leave, be replaced or change its token at any time.
* **Startup and end of a job.** Six awaits under one deadline, each of which
  may be overtaken; `cleanup()` is called by the SDK or by the entrypoint.
* **Transcripts.** Bounded queues, failed and ambiguous deliveries, blank final
  results, turns that overlap; observers that join in the middle.
* **Authorization.** The call's credentials can be consumed once. The answer may
  be lost, late, of the wrong leg or scope, or too large, and the leg may be
  replaced while it is awaited.
* **Launch.** Settings come page by page from a table that administrators edit
  meanwhile, and replace what the environment states; the store, the disk and
  the process may fail at any point and the container restarts.
* **Status.** A readiness answer made up of values read around an await.

The full list of hazards, each with its line and the properties about it, is
`hazards` in `PROJECT.json`.

## Modules

| Module | Models |
|---|---|
| `Takeover` | abstract promise about a takeover: phase, hears, speaks |
| `Control` | ControlHandler with the worker's abort and cleanup; implements `Takeover` |
| `ControlHistory` | `Control` with history variables (what was accepted and said before) |
| `Admission` | SipAdmission and the room it observes |
| `Bootstrap` | the authorization request, the authority that redeems it, and the checks of its answer |
| `Call` | abstract promise of a job about its call: phase, authorized, talking |
| `Worker` | the entrypoint; extends `Admission`, whose abort callback is its `OnAbort`, and `Bootstrap`, whose request is one of its awaits; implements `Call` |
| `Feed` | abstract live transcript: ordered, complete until it fails |
| `Transcripts` | TranscriptStream and TranscriptPublisher; implements `Feed` |
| `History` | TranscriptHistory and the admin observer of `src/docs/TRANSCRIPT_HISTORY.md` |
| `Status` | WorkerStatus, the SDK hooks and /readyz |
| `Launch` | platform_config, `cli.main`, `worker.main`, `logstore.configure`, and the settings store |
| `ControlProofs` | types, inductive invariant and corollaries of `Control`; `Control` implements `Takeover` |
| `ControlHistoryProofs` | the deduplication memory and the single statement |
| `AdmissionProofs` | inductive invariant and corollaries of `Admission` |
| `WorkerProofs` | the same of `Worker`, on top of `AdmissionProofs`; `Worker` implements the safety part of `Call` |
| `TranscriptsProofs` | the same of `Transcripts`, which implements the safety part of `Feed` |
| `HistoryProofs` | no utterance twice, frozen pages, convergence of observers |
| `StatusProofs` | the reported connection, readiness answers, final states, counters |
| `LaunchProofs` | pages, scoped resolution and logging of a launch |
| `MC*` | constants and symmetry of the TLC runs |

`X.cfg` is a configuration of the MC module whose name it begins with
(`MCControlLateFailure.cfg` is one of `MCControlHistory`). An
operator whose comment begins with "Mutant:" is not part of a model: it is a
faulty version of the operator below it, which shows that a property depends on
that code.

### Control

`pc[t]` says where announcement task `t` is suspended: created but not entered,
awaiting `interrupt`, awaiting playout, or free. `announcement` is
`_announcement_task`. `task.cancel()` and the expiry of `asyncio.timeout` are
separate from their delivery (`cancelled`, `expired` and then `Unwind`), because
commands are processed in between: that is where an obsolete task could undo
what a later command did, and where a timeout can no longer be rescheduled. A
task cancelled before its first step never enters its body (`NeverBegins`), so
its `finally` clause does not run. `stopTask` follows `_stop_task` through
`_finish_handoff` and `_stop`. The wall clock and the loop's clock are one
`now`; 10 seconds are `Grace` ticks; the 256 entries are `SeenCap`.
`inputOn` and `outputOn` are the switches the code sets on the session. A packet
that `ControlCommand.parse` rejects changes nothing and is not a step.

`HumanAnswered` has the three outcomes of the code as disjuncts: start a missed
statement, keep the one being spoken, or stop at once. `EndCleanup` waits until
the handler's tasks are over; the two-second limit of `cleanup()` only matters
for a hanging `disconnect`, which has its own limit and whose cancellation is
`EndStop` as well.

### Admission, Bootstrap and Worker

A participant is its sid, an attribute update gives a token, a publication goes
from published to subscribed to ended. `_disconnected` may be called before or
after the SDK drops the participant (`Leave` takes either view).

`Bootstrap` has both ends of the request. `Redeem` is the authority's step: it
consumes the credentials and binds a leg, which need not be the one named, and
its answer may carry another scope or any profile. `ReadAnswer` is
`authorized_profile`, `AnswerFails` everything that ends the request without an
answer, before or after `Redeem`. Of a profile only its size is kept, because the
size limits are where the checks disagree with each other.

`Worker.stage` is the await the startup task is suspended in. Between the events
of the room and the resumption of that task anything else may run, so that the
validations after each await do real work. `AwaitLeg` sends the request in the
step that admits the leg, as the code does. `Worker` keeps of the control handler
only its three flags; that the stop task it starts disconnects and shuts down is
what `Control` shows (`TakeoverCompletes`). `phase`, at the end of the module, is
the job as its call sees it: a call taken over, or aborted before it was served,
is released when cleanup is done and the agent left the room; after a served call
the SDK, which ends the job, leaves the room.

### Transcripts, History

Revisions are numbered, texts abstract. In `Transcripts` a blank text is `""`.
`Feed` sees what is queued or being sent as pending, and a publisher that is
closed but has not looked at it yet as failing: that is when one more revision
may still be delivered. In `History` a text is the set of caller turns it quotes,
which is what "duplicate an utterance" is about. `Caller` may already be given
the next turn while the previous one is not committed. A page of `get_transcript`
is one row; replies may be lost, and a first page whose reply is lost replaces
the snapshot the observer still reads. The observer is external and does what the
doc requires of it. `frozen[o]` (what the snapshot held that `o` reads) and
`missed` (the observers present when a row was dropped or a send failed; a
rejoining observer is not among them) are history variables.

### Launch

The process is sequential, so its steps are the requests to the store and what
follows the last of them; the table is edited, and the store and the disk fail,
between any two. `rows` are the rows read, `offered` those that were in the table
at some moment of this launch, `untouched` says that nobody edited it meanwhile.
`Start` is `worker.main` with `logstore.configure`, `OtherCommand` a command of the SDK that
makes the server without them. `AIDA_LLM_MODEL` stands for the required settings:
they are checked alike and independently. A launch that stops forgets its
environment; the next one gets the container's own again.

`Resolve` is the two nested loops of `resolve` as they are written: `Pass` is the
inner one, over the rows, and `Assign` what a row does to the values. `Effective`
is what README promises of the result, and speaks of no loop.

A row that is not touched may still be skipped if another one is deleted between
two pages, and then a less specific value is used. `SettingsComeFromStore` states
what holds under edits and `QuietLaunchResolves` what holds without them.

### Status

`link` is the SDK's connection task, external. `websocket` is whether
WorkerStatus holds a socket, `socketOpen` whether that socket is still open:
`Connected` needs both. A probe awaits the health check and then answers.

## Runs

| Run | Instance | Shows |
|---|---|---|
| control | 3 ids, 3 tasks, SeenCap 2, Grace 2, clock 0..3 | what is heard and said under every order of commands and task steps, including an eviction; the inductive invariant; refinement of `Takeover` |
| control_live | 2 ids, 2 tasks | takeover and cleanup complete |
| late_failure | 2 ids | violation: an expired failure leaves the agent suspended |
| abort_speaks | 2 ids | violation: an announcement opens the output after abort |
| admission | 2 SIP participants, 1 other, 2 tokens, 2 publications | leg changes abort, only the leg's audio, no lost wake-up |
| worker | 2 SIP participants, 2 tokens, 1 publication | a ready worker serves the leg it admitted and redeemed; one request; startup ends; refinement of `Call`, so that every ending call is silenced and released |
| profile_size | prompts of 1, 12,000 and 12,001 characters of 1 to 4 bytes | violation: a profile within the contract is refused |
| transcripts | queue of 2, 5 revisions | no silent loss, closed partials, refinement of `Feed` |
| history | 2 observers, 1 slot, 2 turns, 3 revisions, 2 snapshots, queue of 1 | no duplicated utterance; a merging observer converges; pages of one snapshot only; the slot limit |
| status | 2 executors, 2 probes, 2 registrations | true readiness answers, counters, final states |
| launch | tables of up to 3 rows of 6 kinds, pages of 2, 1 edit | settings come from the store, a quiet launch applies the table, logging is on or off as a whole, the worker comes back |
| launch_logging | the same | violation: logging that cannot be set up stops a process |

**Bounds.** Two tasks are an old and a current announcement, the only pair the
code can confuse; a third shows that an older one cannot matter. Three ids are a
request, a result and a late or repeated command, and one more than the memory
of two holds. The clock passes both a request's deadline and the grace period.
Two SIP participants are what "ambiguous" and "replaced" need, and a wrong leg in
an answer; two publications an early and a late one. Queues of one or two fill
up. Three rows are a full page and one more, or an edit that moves a row across
the border of two pages; the row kinds hold a setting in two scopes, a blank, a
foreign scope, and both logging settings. `MaxSequence`, `MaxToken`, `MaxTurn`,
`MaxConnections`, `MaxTime`, `MaxRows` and `MaxEdits` only bound the state space.
Deadlock checking is off where calls end, the bounded clock stops, or numbering
is bounded; a container always restarts, so `launch` and `launch_logging` check it.

**Fairness.** The event loop resumes runnable tasks and fires timers, so time
advances, a created, cancelled or expired task runs, and a coroutine bounded by
`wait_for` or `asyncio.timeout` ends. The SDK runs the shutdown callbacks after
`ctx.shutdown`. Nothing is assumed of `interrupt`, playout, `connect`,
authorization, session start, the room's events or the PBX's commands: each may
never happen. What `Feed` and `Call` require (a pending revision is settled, an
ending call is released) follows from that: `RefinesFeed` uses only the
two-second limit of a send, `RefinesCall` the deadline, the limits of the
shutdown path and the shutdown callbacks. In `Launch` a stopped container is
restarted (`restart: unless-stopped` in `src/compose.yaml`), a request ends
within its five seconds, and code without a request runs; nothing is assumed of
the store, the disk, administrators or crashes, except what `WorkerComesBack`
itself presupposes, that in the end store, table and disk stay in order.
`History` and `Status` state safety only.

## Proofs

Every invariant and every action property of the runs, and the safety part of the
three refinements, is a theorem: for all sets of ids, tasks, participants, tokens,
publications, observers and executors, all capacities, and all values of the bounds that keep TLC
finite. Each module rests on one inductive invariant, named in the component's
module so that TLC could check it before it was proved; each step is one lemma
per action or group of actions, and the properties are its conjuncts or follow
from it.

| Module | Inductive invariant | Assumptions on constants |
|---|---|---|
| `ControlProofs` | `TypeOK`, `HandlerInv` | `NoTask` is no task; memory and grace period are positive; the clock is bounded |
| `ControlHistoryProofs` | those and `HistoryInv` | the same |
| `AdmissionProofs` | `AdmissionTypeOK`, `AdmissionInv` | nobody is neither a participant nor a record of one; no token is no token; a SIP participant is no other participant |
| `WorkerProofs` | `TypeOK`, `WorkerInv` | those; the legs of `Bootstrap` are the SIP participants |
| `TranscriptsProofs` | `TypeOK`, `TranscriptsInv` | positive capacity, bounded numbering, the blank text is not a text |
| `HistoryProofs` | `TypeOK`, `HistoryInv` | finitely many observers, positive limits |
| `StatusProofs` | `TypeOK`, `ConnectionInv`, `SessionsAddUp` | a finite pool of executors, bounded registrations |
| `LaunchProofs` | `TypeOK`, `LaunchInv` | positive page size; an environment states every setting, `""` if unset |

**Control.** The properties about audio are not inductive: that a screening agent
keeps its audio depends on no other task being the current announcement, and
that only the current task may open the output depends on every other live task
being cancelled. `HandlerInv` conjoins them with `TasksAreTracked` (the current
announcement is alive, not cancelled, and belongs to a transfer of a handler that
was ready; a free task holds no cancellation; only a takeover stops) and
`HandoffAgrees` (after a takeover the statement's timeout equals the deadline of
the handoff). `OutroNotCutShort` is an action property: a step that disturbs a
speaking statement after a takeover can only be its timeout, which
`HandoffAgrees` identifies with the deadline, or the end of the handoff, which
waits for it. `HandlerRefinesTakeover` proves that each step is a step of
`Takeover` or leaves phase, hearing and speaking alone; the invariant supplies,
for example, that a failure finds the agent suspended or screening and never
after a handoff.

For `StatementSaidOnce` the history needs `NoSecondStatement`: once the statement
has begun, an announcement that is still there is the one being spoken, and the
agent was ready, so `activate()` cannot start another. For
`ForgottenOnlyWhenFull` it needs `MemoryIsOrdered`: the memory holds its ids once
and in the order of acceptance. The id that is dropped is then followed by
`SeenCap` different ones, all accepted after it (a pigeonhole argument).

**Admission, Worker.** `AudioFollowsLeg` says how the two awaiting loops, the
admitted leg and the audio it asked for go together. The three properties of
`Admission` are inductive with it. `Worker` changes the same variables through
`OnAbort`, so its proof cites the lemmas of `AdmissionProofs` action by action.
`StartupFollowsLeg` ties each await of the startup to the state of leg, request
and session; `AnswerFollowsRequest` says that only an answer for the leg the
request named authorizes; `OvertakenIsCancelled` that an aborted, taken over or
cleaned up job has its startup cancelled, which is why none of the awaits can go
on to `ready`. `ServesAdmittedLeg`, `ServesRedeemedLeg` and `NeverReplayed`
follow. `WorkerRefinesCall` maps each step to a step of `Call`. On the way the
proof shows that in the model two of the code's checks never fail: `validate()` after
the authorization and `validate()` before readiness hold whenever the startup
gets there, because every change of the leg aborts first.

**Transcripts.** Numbers run without a gap from what was published to what is
queued (`NothingSilentlyLost`), and `SegmentsClose` says of the issued
sequence, published, in flight and queued, that every partial of an earlier
segment has its final. `TranscriptsRefineFeed` follows step by step; `closed`
with a sender that has not noticed is what makes `Feed` failing.

**History.** `UtteranceOnce` needs `RowsAreApart`: committed rows, the open row
and the finals of the next turn quote disjoint sets of turns, and segments
are numbered by the sequence. `PagesAreFrozen` needs `TransfersAgree`: what an observer has
read is a beginning of the snapshot that was frozen for it, and a token it holds
either names that snapshot or one the agent no longer has. `ObserverConverges`
needs `ObserversCatchUp`: every row an observer has, may be sent or is being sent
is superseded by, or is, a row of the conversation; it has one row per segment; and
one that missed nothing has or will get every current row. The heart is the merge:
`Newer` orders the revisions of a segment, so merging the rows in any order of
arrival ends with the current ones.

**Status.** The flag `websocket` is true only with a live registration of the
connection task, and final states are not left. `SessionsAddUp` is proved from
how each hook changes the cardinalities of the sets of jobs.

**Launch.** `RowsWereOffered` and `ReadsThePrefix` follow the pages: every row
read was in the table during this launch, and while nobody edits, the rows read
are a beginning of the table, and all of it when the loop of `fetch` ends, for
each of its reasons. `ResolveAt` says what the loops of `resolve` compute for any
table: a setting keeps the value of the last row of its most specific scope that
has one. It is proved by a minimal counterexample: of the rows after which the claim
fails there would be a first (`LeastNumber`, from the well-foundedness of the
naturals), and the row before it gives the contradiction. The recursive function
in `Pass` needs the same argument once more, to show that it exists (`PassRuns`).
`ResolvesToEffective` concludes that this is the value README promises for any table
without duplicates; without that guard the most specific row need not be unique.

**Model-checked only.** Liveness (`TakeoverCompletes`, `CleanupCompletes`,
`SoleLegIsAdmitted`, `AudioIsNoticed`, `StartupEnds`, `WorkerComesBack`) and the
fairness of `Call` and `Feed` in `RefinesCall` and `RefinesFeed` (`Safety` in
those modules is the part that is proved) need ENABLED. `Bootstrap` has no property of its own that holds: what it
contributes is proved in `WorkerProofs`.

## Findings

1. A `transfer_failed` past its deadline is accepted but skipped: `transferring`
   stays set and the agent stays muted (`control.py:99`), while
   `src/README.md:241-243` says that it keeps screening active and only does not
   speak. Run `late_failure`.
2. `abort()` leaves a running announcement alone (`worker.py:95-103`). If it awaits
   `session.interrupt` at that moment, it enables the output again
   (`control.py:149`), although
   `src/tests/test_worker.py:500` expects the session silenced. The run assumes
   that the SDK's `say()` accepts speech while the session shuts down; if it
   raises, the output is closed within the same step. Run `abort_speaks`.

3. The cap on a profile is applied to `json.dumps(profileSnapshot)`
   (`bootstrap.py:40`), which writes six bytes for each character outside ASCII
   (twelve beyond the BMP). A prompt that `src/docs/BOOTSTRAP_CONTRACT.md:171` and
   `:180` allow, 12,000 two-byte characters, is about 24 KB on the wire and 72 KB as
   measured: it is refused, after the credentials were consumed. Run `profile_size`.
4. `logstore.py:7` promises that nothing there stops the worker, and
   `src/README.md:124-125` that an image without the library leaves logging off. `mkstemp`
   (`logstore.py:43`) may raise and ends `start`; `download-files` reaches
   `watch_server` (`logstore.py:58`) without `configure()` and imports the library
   whenever the store enables logging. Run `launch_logging`.

## Not modelled

The grammars of `config.py` (UUID, E.164, URL, credential) judge single values
and keep no state. `prewarm` and `create_session` build objects. A job whose
dispatch or environment is invalid is refused before anything of the call
exists. `logstore.watch` and `stats` pass on to a third-party library. The
preview's answers, `build_info.py` and the build files are fixed texts. Who may
command and who may observe (origin of a packet, attributes of an observer) are
per-message conditions that change no state when they fail. `Worker` and
`Control` are not composed into one state space: they share three flags, and each
leaves the other's steps open at any moment its guards allow. What concerns both
(a statement that is spoken while the call is aborted or cleaned up) is stated in
`Control`, which has an abort and a cleanup of its own. Of the SDK only what the code relies on is modelled: that
`aclose()` cancels the connection task before it can register, and that no
transcript of a turn follows the commit of that turn, are assumptions which this
repository cannot settle; both are listed as hazards.

## Plan

1. *Done*: `Takeover`, `Control`, `ControlHistory`; `Admission`, `Bootstrap`,
   `Worker`, `Call`; `Transcripts`, `Feed`; `History`; `Status`; `Launch`.
2. *Done*: the safety properties of all of them as theorems, and the safety parts of
   the refinements of `Takeover`, `Call` and `Feed`.
3. *Done*: what the loops of `resolve` compute, for every table; every leaf of the
   proofs takes a small part of its prover's time limit.
4. Open: the liveness properties, once a prover supports ENABLED; a composition of
   `Worker` and `Control` in one state space.
