# TLA+ models of vh-solara

vh-solara puts a web front end, a daemon and a coordinator around OpenCode, a
coding agent that runs as a local process, and ships plugins that run inside
OpenCode. The models cover the parts in which concurrency, faults and order
decide whether a user's message, an agent's task or a screen is right: the
durable message queue of the daemon, the browser's send path and its two event
streams, and three of the `.opencode` plugins and scripts. Paths below are
relative to `src/`.

## The system and its parts

| Part | State it keeps | Operations | What is hard about it | Module |
|---|---|---|---|---|
| Queue store and registry (`pkg/web/queue.go`, `queue_escalate.go`) | `queue.json` per session; store objects | list, enqueue, remove, claim, resolve, escalate, archive | failing saves, archived objects still held, restarts in either mode, receipts that outlive items | `QueueStore`, `QueueLifecycle` |
| Custody (`queue_custody*.go`) | flock, generation file, fence generation | acquire, release, fence check, fenced writes | hand-over between daemons, stale caches, check-then-write | `QueueCustody` |
| Drain loop, executor, recovery (`queue_drain*.go`, `queue_recovery_classify.go`, `queue_msg_reconcile.go`, `queue_delivery_watch.go`, `restart_fence.go`) | token, attempt journal, budgets | tick, claim, begin, POST, record; certified and passive pass, watcher | a crash between any two of these, look-ups outside the lock, redelivery at most once, eventual settlement | `QueueDispatch` |
| Browser send path (`web/src/lib/outbox`, `lib/sendActionStatus.ts`, `components/chat/createSend.ts`) | gesture records in IndexedDB, status rows | mint, save, prune, admit, reconcile | reloads, duplicated and killed tabs, overlapping passes, lost answers | `Outbox` |
| Browser queue view (`web/src/queue.ts`, `queueDrain.ts`, `lib/queueDispatchMode.ts`, `components/chat/createQueue*.ts`) | cache, overlay of known outcomes | fetch, drain, retry, mark, escalate, remove | late and lost answers, change of the dispatching side | `QueueView` |
| Tree stream (`web/src/sync/tree-transport.ts`, `cascade.ts`, `reconcile.ts`, `stream.ts`, `health.ts`, `web/src/busy.ts`) | connection, capture owner, cursor, cascade, busy gate | connect, capture, apply, recover | asynchronous decodes under a changing connection, lost frames, restarts | `TreeSync` |
| Session stream (`web/src/sync/session-stream.ts`, `history.ts`, `reducers.ts`) | two cursors, decodes, batches, pages, transcript | resume, apply, page, delete | the same, and a remembered position that must not run ahead | `SessionStream` |
| Task registry (`.opencode/scripts/state-lib.js`) | one JSON card and one lock file per task | save, merge, ready, activate, close out, review, delete | processes killed with the lock, checks before the lock | `TaskRegistry` |
| Auto tool gate (`.opencode/plugins/auto-tool-gate.js`, `auto-gate-*.js`) | layered configuration and caches | decide and answer a permission request | edits during a read, partial failure of classifiers, lost replies | `ToolGate` |
| Session progress guard (`.opencode/plugins/session-progress.js`, `scripts/session-progress-*.js`) | rings of calls, leases, slots | record, deny, ask the judge | parallel calls around an await, eviction, late verdicts | `SessionProgress` |
| Event store and ring (`pkg/state`) | event log, ring, epoch | emit, subscribe, resume | overflow, resume across restarts | external in `TreeSync`, `SessionStream` |
| OpenCode lifecycle (`pkg/oclife`, `cmd/opencode_*.go`) | state, generation | start, stop, restart | announced against real state | part of `QueueDispatch` |

How they interact. A gesture in the browser is saved to the outbox, then POSTed
to the daemon's HTTP handlers, which admit it to the session's queue under the
store's mutex. The drain loop of the daemon that has custody, or a legacy tab's
drainer, claims items and POSTs them to OpenCode. OpenCode's events reach the
daemon's event store and from there the delivery watcher and, through the ring,
the browser's two streams. Plugins run inside OpenCode: the gate answers its
permission requests, the guard sees every tool call, the registry is called by
agents of several sessions, each a process of its own.

What makes the parts correct: an admission id means one message; a prompt is
persisted at most once and terminal states tell the truth; every dispatch is
settled; one daemon at a time owns a project's queue; text a user typed is not
lost by the outbox nor sent twice by it; a screen that is quiet shows what the
daemon has; a position remembered for later does not skip anything; a card keeps
every written change; a permission is granted only by those who were asked; a
denial rests on what happened.

## Modules

* `QueueLifecycle`: the abstract specification of the queue, one state per item
  and the steps it may take. `unknown` may be healed to `sent` or certified back
  to `dispatching`; `sent` and `failed` are final; what left never returns.
* `QueueStore`: `disk` is `queue.json`, `mem[h]` the fields of store object `h`,
  `registry` the session's entry, `born` the objects a goroutine may still hold.
  An operation is one action because it is one critical section; a save commits
  at the rename or fails and the rollback is taken. `Restart` keeps only the file
  and may change the capability. `answered` is history: the answers given.
* `QueueDispatch`: the drain loop as a program counter, the reconcilers, the
  watcher, the legacy tab, OpenCode and its lifecycle. An action is one critical
  section, one HTTP exchange or one step of OpenCode. `inflight` are prompts
  OpenCode has taken and not persisted, `committed` those it has.
* `QueueCustody`: flock, generation file, token, the loop's steps from lock to
  owner, the escalation handler between token, gate and save, the legacy handlers
  between probe and write. `queue.json` is the set of writes it carries and its
  fence generation. `acked` is history, and so is `over`: which of the four
  overlaps the code lets happen (`Overlaps`) have happened.
* `Outbox`: for one session, `store` is the IndexedDB table all tabs share,
  `flight` a send inside the single-flight region, `pass` the reconcile passes
  with the records they have read. A tab may reload (new nonce), be duplicated
  (same client id) or be killed at any point. A pass keeps what it has read
  (`seen`), and `log` is history: what is owed, and what the exceptions excuse. The daemon admits an intent once
  and is external, which `QueueStore` justifies (`AdmissionOnce`).
* `QueueView`: one tab's `cache`, `known` overlay, list answers under way
  (`lists`) and jobs (drainer, and what a person does to a chip), against a
  server whose items are recovered, dispatched by others and handed to custody.
* `TreeSync`: `cli` holds the connection, the capture owner, the frames waiting
  for it, the cascade's pass, the busy gate and the shown values; `srv` the
  daemon's values, epoch and ring. A payload is the number of changes, so newer is
  larger. One session is in the frontier, one is buried below it. `debts` is
  history: why the page may lag until the next reconnect, or rewind (`"blind"`).
* `SessionStream`: the stream of the open session. The live cursor moves when a
  frame is received, the remembered one (`mem`) when it is applied. A text is its
  length; a message is absent, live or done. `app` and `debts` are history.
* `TaskRegistry`: one card and its lock file; every session is in an operation
  that loads and checks, waits for the lock, re-reads and writes, releases.
* `ToolGate`: configuration files of three layers with modification stamps, the
  raw and merged caches, one handler per request as a program counter, one call
  per classifier leaf.
* `SessionProgress`: state objects that sessions own until they are evicted,
  calls as program counters through the hook and its awaits, the clock.
* `MC*`: instances for TLC.
* `QueueStoreProofs` (which holds those of `QueueCustody` too),
  `QueueDispatchProofs`, `QueueViewProofs`, `OutboxProofs`, `TreeSyncProofs`,
  `TaskRegistryProofs`, `ToolGateProofs`, `SessionProgressProofs`: the theorems.

Every component with a proof has a type invariant `TypeOK`, in its module or in
its proof module. It is part of the inductive invariant that is proved, and TLC
has checked it with that invariant; the runs spend their time on the other
properties. `SessionStream` is only model-checked.

Definitions preceded by "Mutant" are not part of the specifications; they replace
the definition after them when the sensitivity of a property is tested.

Left out everywhere: text, attachments, formatting, logging, diagnostics.
Assumed of OpenCode: an answer other than 2xx means that nothing was taken, a
dial error that nothing was sent, a persisted message answers the exact-ID
look-up, and what was in flight dies with the process.

## Runs

| Run | Instance | Checks |
|---|---|---|
| `store` | 2 items, 2 store objects, 2 admission ids, receipt capacity 1, caps of 1, 2 clock values | `CacheCoherent`, `AdmissionOnce`, `PolicyBytesFenced`, `TerminalBounded`, `LegacyModePreservesPolicyFile`, `ImplementsLifecycle` |
| `dispatch` | spawned OpenCode, an immediate item that may lack an agent, 2 attempts, 2 look-ups, 2 incarnations, 1 crash | `PersistedOnce`, `RedeliveryCertified`, `SentIsDelivered`, `FailedIsUndelivered`, `JournalIsHonest` |
| `dispatch_live` | fair loop, a queued item, 1 attempt, 1 look-up, 1 incarnation | `DispatchSettles`, `ImplementsLifecycle` |
| `custody` | 2 daemons (symmetric), 3 generations, 3 writes, every overlap | `OneOwner`, `NoLostUpdate`, `FenceMonotone`, `NoStaleWrite` |
| `outbox` | 2 tabs and 2 pass slots (symmetric), 2 intents of one text, 2 pages, 2 passes, 2 disturbances | `TextNeverVoid`, `OldestGoesFirst` |
| `outbox_twins` | 1 tab, 3 pages, 2 intents of one text, 3 disturbances; TLC finds the property violated | `ReadmitOnce` |
| `queue_view` | 1 tab, 1 item, 1 list under way, 1 restart into custody | `SentIsTrue`, `FailedNeverArrives`, `ViewConverges` |
| `tree` | 3 changes, 1 trouble, ring of 1 | `FrontierCurrent`, `NoRewind`, `Converges` |
| `session` | 2 changes, 1 trouble, 1 frame of backlog, ring of 2 | `MemoryIsApplied`, `TranscriptCurrent`, `DeletedStaysGone`, `StreamRecovers` |
| `registry` | 3 sessions, 2 designs, 3 operations, 1 fault, from a card that is absent or already reported on | `NoLostUpdate`, `RepeatsCounted`, `ReadyIsCertified`, `OperationsEnd` |
| `gate` | 1 request, 2 leaves, 4 configurations, 2 edits, 1 retry | `GrantIsUnanimous`, `NoSilentHang`, `CacheCoherent`, `HandlerEnds` |
| `progress` | 2 sessions over 1 state slot and 1 judge slot, 4 calls, 2 clock values | `SlotsBalanced`, `DenialsCapped`, `DenialHasEvidence` |

The bounds are those at which the interesting cases exist: two items over a cap
of one, a second store object after an archive, a full receipt log, a second
attempt after a certified requeue and a budget that runs out, a restart of
OpenCode and one of the daemon, a hand-over to the other daemon and back; two
records of one text, one of them behind a pass that has read it; a list taken
before a claim and delivered after the outcome; a ring that has dropped what the
client asks for, a frame lost, a restart or a busy operation around a decode and
its two passes; a holder killed under a lock that two others want; an edit
between a stat and its read, one leaf failing beside one that answers; an
eviction under a call that awaits its judge. "Trouble" counts everything that
disturbs a stream: faults, restarts, busy operations, hiding, leaving, paging.
The safety properties of `SessionStream` were also checked with one change and
two troubles (1.6 million states), `registry` with two sessions and four
operations (414,000 states), `QueueDispatch` with an external OpenCode that
restarts at any moment (3.9 million), and `Outbox` with three disturbances, in one
tab (2.7 million) and in two as far as 19 million. Two disturbances are a lost
answer or a refusal and a kill between put and prune, which leave twins; the third
is the refocus that starts a second pass over them. `Outbox`'s tick finds no pass
in flight: a pass is bounded by a POST of 12 seconds and a list of 10, the tick comes every
60. The item of `dispatch` is an immediate one: the two policies differ in the
idle gate, which only keeps a queued item waiting, so what a queued item can do an
immediate one can; `dispatch_live` has a queued one, for the gate. Deadlock is not
checked: every instance ends when its bounds are used up.

Properties that except something name it, and the exception is recorded by the
action that causes it, so a run shows that nothing else breaks the property:

* `BumpWhileServing`, `RestartDuringTick` (`QueueDispatch`) are off in `dispatch`:
  a restart is announced between ticks, and by the bump that follows the old
  process's exit (`opencode_owned_restart.go:350`), not the one that precedes it.
  They are on in `dispatch_live`, as with an external OpenCode, where the barrier is
  not used for redelivery.
* `over` (`QueueCustody`): `"early"` a token published before the caches are
  dropped, `"release"` a release between an escalation's gate and save,
  `"foreign"` a write of a daemon without custody, `"legacy"` a write between
  probe and lock. `OneOwner` is claimed throughout, the rest until the first.
* `log.stolen` (`TaskRegistry`): a session that judged a lock stale removes the
  live lock that took its place (`state-lib.js:455-459`). `NoLostUpdate` and
  `ReadyIsCertified` are claimed until the first.
* `debts` (`TreeSync`): `"lost"`, `"shed"` and the others that a reconnect ends
  except `FrontierCurrent`. `"blind"` excepts `NoRewind`: the page's first epoch
  came with a children bundle (Observations).
* `person` (`QueueView`), `debts` (`SessionStream`), the step
  `"stalled"` and the flag `lost` (`ToolGate`): see Observations.

## Fairness

* `DispatchSettles`: weak fairness of the drain loop's own steps (one goroutine
  on a ticker; `Fenced`, its exit, is not assumed), strong fairness of the saves
  it needs, of finding the session idle and of time passing. Nothing is assumed
  of OpenCode, browsers or the legacy tab. `PromptLoop` says that the loop
  journals what it has taken up within the stale threshold of 30 seconds; the
  steps in between touch only memory and disk. Settled means sent, failed,
  removed, or closed for the operator.
* `ViewConverges`: the poll's timer fires (weak), and a list under way arrives
  now and then (strong): the network does not fail every one.
* `Converges`: the daemon accepts and sends, decodes end, timers fire, the
  periodic resync comes (weak). Nobody has to look at the page again, which is
  why a hidden page is excepted.
* `StreamRecovers`: one weak fairness condition for everything that goes on
  without the user. It is written with its enabling condition `Due` in place of
  `ENABLED`, which TLC evaluates far faster; that the two agree was checked as an
  invariant on a smaller instance (1 change, 1 trouble).
* `OperationsEnd`, `HandlerEnds`: a live process runs on (weak, per process); a
  killed one does not.

Timing in the streams: a browser's own reconnect takes seconds, so it happens
after the decodes of its predecessor have ended; timers that guard a wait fire
only when nothing that could end the wait is deliverable. The reverse order is
possible on a very slow machine (Observations).

## Proofs

TLAPS proves, for every value of the constants:

* `QueueStoreProofs`: `TypeCorrect`, `AdmissionIsOnce`, `CacheIsCoherent`,
  `PolicyBytesAreFenced`, `LegacyModeIsHarmless`, from one inductive invariant
  `StoreInv`. `CacheCoherent` alone is not inductive: a store object nobody has
  looked up must still be new (`UnbornNew`), the registered object must be born
  and be the only one not tombstoned (`RegistryBorn`, `LiveRegistered`), and a
  missing file must be empty (`MissingFile`). `AdmissionOnce` needs that every
  answer given is still in the file (`AnswersKept`), which is where receipts that
  outlive an empty queue matter. `LegacyClean` says that a process without the
  capability never has an immediate-dispatch item in memory.
* `QueueStoreProofs`, the refinement: `StoreImplementsLifecycle`. The mapping reads an item's
  state from the file, and an absent item whose id was used as gone; each
  operation moves every item by a lifecycle step, with `FreshIds` (ids not used
  yet are absent) as the strengthening.
* `QueueStoreProofs`, custody: `CustodyTypeCorrect` and `CustodyIsExclusive`, from
  `Ownership` (flock, loop position and token agree, and the token is the
  generation on file), whatever overlaps; `NoUpdateIsLost`, `FenceNeverRetreats`
  and `NoStaleEscalation` from `SeenInv` (the owner's view holds what the file
  holds; an escalation past its gate runs under the live token), which holds as
  long as `over` is empty: `over` only grows (`OverGrows`), so a state without
  overlaps has only predecessors without (`CalmNext`, `Calm`). The module extends
  both specifications, which is why `QueueCustody` says `CustodySpec`, `SaveAs`.

Each proof module has one or two inductive invariants; TLC checked each of them
on the instance of the component's run before it was proved.

| Invariant | States |
|---|---|
| `StoreInv`, `BoundInv` | 480,676 |
| `DispatchInv` | 6,218,833, and 3,884,226 with an external OpenCode |
| `LockInv`, `CountInv` | 474,862 |
| `GateInv`, `CacheInv` | 293,087 |
| `ProgressInv` | 1,334,652 |
| `ViewInv` | 1,135,960, and 7 million of two tabs with two items |
| `OutboxInv` | 1,816,271, and 19 million with a third disturbance and a third page |
| `TreeInv` | 256,905 |
| `FlowInv` | 256,905, and 1,244,341 with 2 changes, 2 troubles and a ring of 2 |

* `QueueStoreProofs`, the caps: `TerminalItemsAreBounded` from `BoundInv`, which
  adds that the orders on file are apart. No induction is needed: the oldest item
  a save keeps has fewer than the cap above it, and the orders above it are a
  subset of those.
* `QueueDispatchProofs`. `SentOnlyIfDelivered` needs only the types: sent follows
  an exact match, and nothing takes a persisted message back. The others need
  `DispatchInv`, which follows a delivery from claim to record: one POST at most of an
  item is in flight or persisted (`OneTaken`), and none of an item whose next POST
  would be the first (`ItemInv`); what may still be persisted was journaled under
  the running incarnation (`GenInv`), and nothing is in flight while OpenCode is
  down (`OcInv`); where the loop stands says what has been posted (`LoopInv`), so
  that a 404 after a restart certifies that nothing was taken. `PersistedAtMostOnce`, `RedeliveriesAreCertified`,
  `FailuresAreUndelivered` and `JournalStaysHonest` assume `CalmRestarts`: where
  the barrier certifies redeliveries, OpenCode is not bumped while it serves and
  not restarted within a tick. The first two Observations are the code's
  behaviour without it, and `dispatch` and `dispatch_live` satisfy it.
  `DispatchImplementsLifecycle` needs no such assumption: whatever restarts, each
  step of the loop, the reconcilers, the watcher and the legacy tab leaves every
  item where it is or moves it along `QueueLifecycle`, the same abstract
  specification that `QueueStore` implements. It needs the types, and that an
  outcome is recorded only of an item that is still being dispatched or unknown.
* `QueueViewProofs`: `NoFalseSent` and `FailedIsUnposted` from `ViewInv`, an
  invariant of each item by itself. Whatever place says sent (server, cache,
  overlay, list under way, job), the message is there or a person said so
  (`SentOK`). An item somebody calls unknown is `Safe` (the server has it in a
  state that never becomes failed) or `Closed` (still dispatching, and its drainer
  can no longer report failed); one drainer at most holds an item, and one that
  may report failed has not posted it (`HoldOK`). A retry is of a safe item
  because an unknown in the cache without an overlay is the server's (`KnownOK`):
  this is where a retry that only the tab's overlay justified has to be excepted.
* `OutboxProofs`: `NoTextIsVoid` and `PassesKeepOrder` from `OutboxInv`.
  `TextNeverVoid` says that some record waits; which one, and that the next prune
  leaves it, takes the clock. Creation times are kept over re-saves and outdate
  every time held before (`Clocked`, `Aged`), so what a pass has read is never newer
  than the store (`Grown`). A gesture that is owed is backed by a waiting record at
  least as new as its save that no admission of the text outdates (`Backed`): a
  pass's time-scoped prune spares it, because it takes only what is older than an
  admission it has read. A supersede scan between put and prune deletes older
  records only, and each of them is backed by one at least as new as the scan
  itself (`ScanBacked`, `Sole`). `PassesKeepOrder` needs `LookedAt`: what a pass has
  looked at and saw waiting either claimed its text, or was too young or on a stale
  head and blocks a twin at that head too, or is no longer as it was read. The
  steps are cut once more: each action makes a `GoodStep`, which says what may
  happen to a record, a pass, a flight and the log, and a good step keeps the
  invariant.
* `TaskRegistryProofs`: `RepeatsAreCounted` from `CountInv` holds whatever happens
  to the lock: a card, and every copy a session holds, carries its history and
  its count together, and operations have ids of their own. `NoUpdateIsLost` and
  `ReadyCertifies` from `LockInv`: until a live lock is broken, who is under the
  lock owns the file (`Locked`), and the copy it read is the card on disk but for
  a hand edit or a deletion (`Seen`).
* `ToolGateProofs`: `GrantsAreUnanimous` and `NoHangIsSilent` from `GateInv`: a
  verdict is reached once, from what the handler holds then, and an answer only
  repeats it. `CachesAreCoherent` from `CacheInv`: a save takes a stamp newer than
  any that was read, and the stat comes before the read.
* `SessionProgressProofs`: `SlotsAreBalanced`, `DenialsAreCapped` and
  `DenialsHaveEvidence` from `ProgressInv`, stated of state objects, because a
  call that awaits its judge keeps the object it began with after the session
  lost it. A lease armed by a first denial stands until it expires, so the
  denials of one rule and signature within it are numbered.

* `TreeSyncProofs`: `FrontierNeverRewinds` from `FramesAreOrdered`, that is from
  `TreeInv`. What the page shows tomorrow is today in a frame on the way, a capture
  being decoded, a frame that waits for it, or the ring, so all of these are
  ordered: whatever may be applied after a value is at least that value, and so
  is all the daemon would replay from a cursor the page may reconnect with
  (`Core`). A listener's effect is cut into the steps that make it up
  (`EpochAdvanced`, `AdvanceCursor`, `Install`, `RequestRecovery` and so on), each
  of which keeps the page `Good`; what a released pass, a freed gate and deferred
  children add in turn is the same for all listeners (`Run`).
* `TreeSyncProofs`, the second part: `QuietPageIsCurrent` (`FrontierCurrent`) from
  `FlowHolds`, that is from `FlowInv`. That nothing goes back does not say that
  anything arrives. `Flow` says where the daemon's present value is while the stream
  is open: in the capture on the way with the events behind it (`Coming`), in the
  capture being decoded with the frames that wait for it and those on the way
  (`Pending`), or in what is shown with the frames on the way (`Showing`). The
  difficulty is that a capture may be discarded as stale and a frame may only move
  the cursor, so `Within` bounds all that can reach the cursor before the capture
  is applied: frames that wait, parts of the capture, a children bundle in hand.
  A debt is what breaks one of these bounds or links, and `ok` in `Sure` is that
  there is none. While the gate is closed nothing is claimed if it will end with a
  capture that has yet to be asked for (`Doomed`); `Gated` and the gate's second
  pass tell these cases apart. A blind first epoch is no exception here: the
  capture that is still to come repairs it.

The assumptions are those named in the modules: bounds and retention are natural
numbers, the distinguished values are not among the ordinary ones, the sets of
sessions, signatures, designs and items are not empty, and of the limits what the
code fixes: at least one reconcile (a constant), at least one prior match (the
clamp at `session-progress-config.js:210`). `Outbox` assumes at least one text, and
that records are not collected before they may be re-admitted.

Only model-checked: liveness, which is beyond this prover (`DispatchSettles`,
`OperationsEnd`, `HandlerEnds`, `ViewConverges`, `Converges`, `StreamRecovers`),
and the safety properties of `SessionStream` (`MemoryIsApplied`,
`TranscriptCurrent`, `DeletedStaysGone`): its batches and its flush are folds over
a list of frames, so what one step of it does is a statement about every list, an
induction over data.

## Observations

What the code does where a comment promises more, or where a window stays open.
No run claims otherwise, and `outbox_twins` shows one of them.

Queue:

* `cmd/client-daemon-vh.go:632` bumps the generation before the old OpenCode
  stops serving, so its 404 for a prompt still in flight certifies a redelivery
  (`pkg/oclife/oclife.go:156-158`: "a false bump, by contrast, cannot
  misclassify"). OpenCode upserts by message id, so the effect is a second run of
  the prompt and not a second message.
* `queue_drain_loop.go:385` reads the generation once per tick; an attempt begun
  after a restart in the same tick is journaled under the old one
  (`queue_custody.go:532-534`: "observed NOW").
* `queue_drain_loop.go:468`: the refusal of an item without an agent is a second
  save; when it is lost the item is certified never-started and dispatched by the
  resume path, which has no gate (`:55-57`: "NEVER dispatched").
* `queue.go:1653` leaves `AmbiguousDelivery` set when an exact match heals an item
  to sent (`:440-441` says it is cleared).
* `queue_custody.go:450` compares the cached document, so a legacy write after
  the owner has loaded is not seen (`queue_custody_linux.go:68-69`: "caught by
  the compare-and-fence gate").
* `queue_drain_loop.go:319` publishes the token before the caches are dropped;
  an escalation in between saves over the previous owner's writes (`:306-310`).
* An item closed because its redeliveries are used up is taken up and closed
  again by every later recovery pass.

Send path and queue view:

* Enter pressed again while the agent gate waits mints a new attempt
  (`createSend.ts:1104` against `:1571`). A crash between put and prune leaves
  twins, and `outbox/index.ts:533-537` says that one of them is admitted. Run
  `outbox_twins` refutes it: a first pass re-admits the older one, it lands, and
  the pass a refocus started confirms it from its list (`:820-825`) without
  claiming its text, and re-admits the younger one. What does hold is
  `OldestGoesFirst`: no pass goes past an older twin that still waits.
  A delete by intent id takes a record that was saved again since it was looked
  at (`:552`, `:844`, `:802`), and a twin pruned for a claimed one (`:884`) stays
  pruned when the claimed one is refused; `TextNeverVoid` excepts both.
  `markAdmitted` from a stale pass stamps a record again (`:836-838`). The
  memoized claim verdict is stale once the tab is duplicated (`:256-259`).
* A chip shows unknown before the server has recorded it; a retry in that window
  that is rejected, or finds no agent, records failed for a message that arrived
  (`createSend.ts:1857` against the comment at `:1700`). `FailedNeverArrives`
  excepts it by name.
* A refused or conflicting claim followed by a failing fetch leaves a chip hidden
  with polling stopped until focus or reconnect. Removing an item that was sent
  reports it removed and restores its text. `refreshDispatchMode` keeps the last
  answer to complete, not the last asked for.

Streams:

* A frame deferred under the busy gate's second pass is dropped until the
  periodic resync (`tree-transport.ts:290-301`, `busy.ts:103-122`; the comment
  says the final refresh catches up); in the session stream the remembered cursor
  moves over such frames.
* A gap found while a recovery is already pending is coalesced with it
  (`cascade.ts:420-437`); the first frame of a connection is never checked for one.
* A page whose first epoch comes with a children bundle takes the bundle's number
  for its cursor, whatever it has applied of the stream (`cascade.ts:560-561`,
  `reconcile.ts:394`). The bundle was read earlier than it arrives, so a reconnect
  may replay frames that were applied, and what is shown goes back until the
  replay is over. TLC's trace has 20 states. `NoRewind` excepts it.
* A children bundle moves the shared cursor and makes a capture that was already
  sent stale (`reconcile.ts:384-394`). A late answer of `/vh/tree/children`
  overwrites fresher nodes. Buried sessions are not refreshed by a capture,
  though `health.ts:450-453` speaks of a wholesale replacement.
* A superseded batch whose decode settles after its replayed copy was registered
  deletes the new entry, so later frames are claimed before the batch is staged
  (`session-stream.ts:2084`). A deletion waits for the latest batch only; an
  earlier one still decoding can bring the message back.
* Deletions that were missed are not repaired by a snapshot's merge. A resume
  from the receipt cursor may leave out a decode under way
  (`session-stream.ts:1140-1142` says so).
* When a decode outlasts the browser's own reconnect, the batch of an earlier
  lifetime is claimed under the new epoch (`:2071`, `:473`).
* A page request in flight when its session is closed and opened again deletes
  the new request's registration in its `finally` (`history.ts:285`).

Plugins and scripts:

* `auto-gate-live.js:701` clears its abort timer before the body is read, so a
  stalled body leaves the handler waiting (`:676` "a hard timeout"). A throw of
  the v2 reply's transport skips the v1 fallback. A layer that is removed has no
  modification time, so a cache from before it existed counts as current.
* `session-progress-policy.js:158` compares the adverse outcomes only, so a
  success among the latest does not reset the rule (`:153` "pairwise UNCHANGED").
  Entries by agent name have no effect while `"*"` is off
  (`session-progress.js:268-287`). The judge's body is read without a timer.
* Breaking a stale lock is a check and a removal; three sessions can end with two
  holders (`state-lib.js:455-459`). Whether a card is new is decided before the
  lock (`:4577-4578`), so a stale creating save resets a working card. Deleting
  takes no lock. A save on a card with an invalid status makes it a valid draft.

## Not modelled

The rest of the repository is rendering (`ChatView.tsx` and the other components,
`host-web`), verification scripts that run once (`.opencode/scripts/verify-*.js`),
request-response code and pure I/O (`pkg/render`, `pkg/quota`, `pkg/mcp`,
`pkg/kit`, `pkg/auth`), small stores with one writer (pins, labels, notes), and
tests. Their share of the TypeScript and JavaScript is by far the larger, which
is why the map covers about 9% of those lines, and the Go queue besides.
Within modelled parts: corrupt or newer files (refused on load); more than one
session per project in `QueueDispatch`; `recordSessionErrorSignal`;
`migrateLegacyQueue` and `clearQueueCache`; daemons without epochs, pagination of
children, pins and labels frames in `TreeSync`; `messages.error`, `part.delete`,
malformed frames, failing decodes, eviction caps and project switches in
`SessionStream`; the stores of `state-lib.js` other than task cards.

## Plan

1. The notice spool and the controller's ledger (`pkg/alerts/notify_source.go`,
   `pkg/server/notify_ledger.go`, `notify_ingest.go`): every durable notice is
   dispatched, none twice, over restarts of both.
2. The persistence of host layouts (`host-web/src/dockview/layoutPersistence.ts`)
   and the archive cascade over a tree of sessions (`pkg/web/archive*.go`).
3. The OpenCode lifecycle (`pkg/oclife`, the restart arms and the death watcher
   of `cmd/`): one live child, readiness attributed to it, bounded restarts;
   composed with `QueueDispatch` in place of its OpenCode actions.
4. The event store inside the daemon (`pkg/state`): subscriptions, hydration and
   the ring as a refinement of the log the two stream models assume.
