---------------------------- MODULE QueueDispatch ---------------------------
(***************************************************************************)
(* How a queued message reaches OpenCode: the daemon's drain loop          *)
(* (queue_drain_loop.go, queue_drain.go), the write-ahead dispatch journal *)
(* and the certified requeue (queue_custody.go), the classifier and its    *)
(* recovery pass (queue_recovery_classify.go), the passive reconciler      *)
(* (queue_msg_reconcile.go), the delivery watcher                          *)
(* (queue_delivery_watch.go), the restart fence (restart_fence.go), and    *)
(* the OpenCode process as those files use it.                             *)
(*                                                                         *)
(* The loop, the reconciler, the watcher, HTTP handlers and OpenCode run   *)
(* concurrently; each action is one critical section of the store's mutex, *)
(* one HTTP exchange or one step of the OpenCode process.  QueueStore      *)
(* shows that the store's memory is its file, so an item has one copy here *)
(* and it survives a crash of the daemon; the loop's position, the pacing  *)
(* of look-ups and the lifecycle's generation counter do not.              *)
(***************************************************************************)
EXTENDS Integers, FiniteSets

CONSTANTS
    MaxItems,           \* bound: queue items
    MaxAttempts,        \* maxCertifiedRedeliveries
    MaxReconciles,      \* reconcileMaxAttempts
    MaxGen,             \* bound: OpenCode incarnations one daemon starts
    MaxCrashes,         \* bound: crashes of the daemon
    Policies,           \* dispatch policies clients ask for: queue, now
    NoAgent,            \* items that may be captured without an agent
    BarrierCertified,   \* custodyBarrierCertified: spawned, not external
    BumpWhileServing,   \* a restart is announced while the old process serves
    RestartDuringTick,  \* a restart is announced while the loop is in a tick
    PromptLoop          \* the loop journals what it took up within 30 s

ItemIds == 1..MaxItems
Terminal == {"sent", "failed", "unknown"}
ItemStates == {"none", "pending", "dispatching", "gone"} \cup Terminal
Classes == {"open", "accepted_2xx", "connect_failed", "server_error",
            "written_unknown"}
Closings == {"no", "lookups", "rejected", "budget"}
Verdicts == {"exact", "404", "400", "transient"}
Attempts == 0..MaxAttempts      \* 0 stands for a POST by a browser tab

ASSUME BoundsAssumption ==
    /\ {MaxItems, MaxAttempts, MaxReconciles, MaxGen, MaxCrashes} \subseteq Nat
    /\ MaxAttempts >= 1 /\ MaxReconciles >= 1 /\ MaxGen >= 1
ASSUME ChoicesAssumption ==
    /\ NoAgent \subseteq ItemIds /\ Policies \subseteq {"queue", "now"}
    /\ {BarrierCertified, BumpWhileServing, RestartDuringTick, PromptLoop}
         \subseteq BOOLEAN

VARIABLES
    items,              \* queue.json
    loop,               \* the drain loop
    rec,                \* the passive reconciler's pass
    watching,           \* deliveries the watcher has matched to an item
    paced,              \* reconcileLast: items looked up in this window
    tab,                \* items a browser tab claimed and has not yet POSTed
    oc,                 \* the OpenCode process and the lifecycle's generation
    inflight,           \* accepted prompts OpenCode has not persisted yet
    committed,          \* prompts OpenCode has persisted
    crashes

vars == <<items, loop, rec, watching, paced, tab, oc, inflight, committed,
          crashes>>
-----------------------------------------------------------------------------
\* QueueItem.  Only the number of attempts and the last one are ever read.
Item == [state : ItemStates, policy : {"queue", "now"},
         custody : BOOLEAN,             \* ClaimGeneration # 0
         aged : BOOLEAN,                \* dispatch older than the threshold
         n : Attempts, oc : 0..MaxGen, class : Classes,
         requeue : BOOLEAN,             \* RequeuePending
         recs : 0..MaxReconciles,       \* ReconcileAttempts
         closed : Closings,             \* ReconcileTerminal, and by what
         ambiguous : BOOLEAN,           \* AmbiguousDelivery
         fenced : BOOLEAN]              \* RestartFenceAt # 0

NoItem == [state |-> "none", policy |-> "queue", custody |-> FALSE,
           aged |-> FALSE, n |-> 0, oc |-> 0, class |-> "open",
           requeue |-> FALSE, recs |-> 0, closed |-> "no",
           ambiguous |-> FALSE, fenced |-> FALSE]

LoopSteps == {"off", "idle", "pass", "next", "get", "act", "select", "claim",
              "refuse", "resume", "begin", "post", "record", "reject"}
Loop == [pc : LoopSteps, item : 0..MaxItems, cands : SUBSET ItemIds,
         tickGen : 0..MaxGen, passGen : 0..MaxGen, verdict : Verdicts,
         class : Classes]
LoopAt(pc) == [pc |-> pc, item |-> 0, cands |-> {}, tickGen |-> 0,
               passGen |-> 0, verdict |-> "404", class |-> "open"]

Rec == [pc : {"off", "snap", "get", "act"}, item : 0..MaxItems,
        cands : SUBSET ItemIds, verdict : Verdicts]
RecOff == [pc |-> "off", item |-> 0, cands |-> {}, verdict |-> "404"]

Phases == {"ready", "fenced", "stopping", "down", "starting"}
OC == [phase : Phases, gen : 1..MaxGen]
Serving == oc.phase \in {"ready", "fenced", "stopping"}

Deliveries(i) == {d \in inflight \cup committed : d[1] = i}
Landed(i) == {d \in committed : d[1] = i}
Oldest(S) == CHOOSE i \in S : \A j \in S : i <= j

\* One item's new value is saved, or the save fails and it is rolled back.
SetItem(i, it) == items' = [items EXCEPT ![i] = it]
-----------------------------------------------------------------------------
\* The recovery ladder.

Stale(it) == it.state = "dispatching" /\ it.aged

\* reconcileEligible, and the state test of snapshotReconcileCandidates.
ReconcileEligible(it) ==
    /\ it.closed = "no"
    /\ it.state = "unknown" \/ Stale(it)

\* Mutant: the incarnation that took the POST counts as a later one.
RestartedOrSame(it, gen) == it.n > 0 /\ it.oc # 0 /\ gen >= it.oc

\* The restart barrier's arithmetic: the attempt was journaled under an older
\* incarnation than the one now running.
Restarted(it, gen) == it.n > 0 /\ it.oc # 0 /\ gen > it.oc

\* The restart barrier: custodyBarrierCertified, and a 404 after a restart.
Barrier(it, gen, get404) == BarrierCertified /\ get404 /\ Restarted(it, gen)

\* classifyCertifiedRedelivery
Classify(it, gen, get404) ==
    CASE ~it.custody                                  -> "none"
      [] it.custody /\ it.n > 0 /\ it.class = "server_error"
                                                      -> "server_error"
      [] it.custody /\ it.n = 0                       -> "never_started"
      [] it.custody /\ it.n > 0 /\ it.class = "connect_failed"
                                                      -> "connect_failed"
      [] OTHER -> IF Barrier(it, gen, get404) THEN "restart_barrier"
                                              ELSE "ambiguous"

Redeliverable == {"never_started", "connect_failed", "restart_barrier"}

\* Mutant: the pass leaves abandoned dispatches to somebody else.
CertifyEligibleUnknownOnly(it, gen) ==
    /\ it.custody
    /\ IF it.closed # "no"
       THEN \/ Classify(it, 0, FALSE) \in {"never_started", "connect_failed"}
            \/ BarrierCertified /\ Restarted(it, gen)
       ELSE it.state = "unknown"

\* snapshotCertifyCandidates: what the recovery pass looks at.
CertifyEligible(it, gen) ==
    /\ it.custody
    /\ IF it.closed # "no"
       THEN \/ Classify(it, 0, FALSE) \in {"never_started", "connect_failed"}
            \/ BarrierCertified /\ Restarted(it, gen)
       ELSE it.state = "unknown" \/ Stale(it)

\* Mutant: a rejection that arrives late overrules the recovery to unknown.
MayResolveAny(it, target) ==
    it.state \in {"dispatching", "unknown"} /\ target \in {"sent", "failed"}

\* The matrix of Resolve(), and the fields it sets.
MayResolve(it, target) == \/ it.state = "dispatching"
                          \/ it.state = "unknown" /\ target = "sent"

Resolve(i, target) ==
    IF MayResolve(items[i], target)
    THEN \/ SetItem(i, [items[i] EXCEPT !.state = target])
         \/ UNCHANGED items
    ELSE UNCHANGED items

\* bumpReconcileAttempt: spend one look-up of the budget, and close the item
\* when it is spent, marking what may or may not have arrived.
Bumped(it) ==
    LET last == it.recs + 1 >= MaxReconciles IN
    [it EXCEPT !.recs = it.recs + 1,
               !.closed = IF last THEN "lookups" ELSE it.closed,
               !.ambiguous = it.ambiguous \/
                             (last /\ ~it.fenced /\ (it.n > 0 \/ ~it.custody))]

BumpReconcileAttempt(i) ==
    IF ReconcileEligible(items[i])
    THEN SetItem(i, Bumped(items[i])) \/ UNCHANGED items
    ELSE UNCHANGED items

\* markReconcileTerminal
MarkReconcileTerminal(i) ==
    IF ReconcileEligible(items[i])
    THEN \/ SetItem(i, [items[i] EXCEPT !.closed = "rejected"])
         \/ UNCHANGED items
    ELSE UNCHANGED items

\* RequeueForCertifiedRedelivery: back into dispatch under the same message
\* id, or closed when the attempts are used up.
Requeued(it) ==
    IF it.n >= MaxAttempts
    THEN [it EXCEPT !.state = "unknown", !.closed = "budget",
                    !.requeue = FALSE, !.ambiguous = FALSE]
    ELSE [it EXCEPT !.state = "dispatching", !.aged = FALSE, !.recs = 0,
                    !.closed = "no", !.ambiguous = FALSE, !.requeue = TRUE]

MayRequeue(it) == it.state = "unknown" \/ Stale(it)

\* The exact-ID GET: a persisted message answers with itself, OpenCode may
\* always fail to answer, and nothing answers while it is down.
GetVerdicts(i) ==
    {"transient"} \cup
    (IF ~Serving THEN {} ELSE IF Landed(i) # {} THEN {"exact"}
                              ELSE {"404", "400"})
-----------------------------------------------------------------------------
Init == /\ items = [i \in ItemIds |-> NoItem]
        /\ loop = LoopAt("off")
        /\ rec = RecOff
        /\ watching = {} /\ paced = {} /\ tab = {}
        /\ oc = [phase |-> "ready", gen |-> 1]
        /\ inflight = {} /\ committed = {}
        /\ crashes = 0

\* HTTP handlers.

\* handleQueueEnqueue (QueueStore has the admission itself).
Enqueue(i, policy) ==
    /\ items[i].state = "none"
    /\ \A j \in ItemIds : j < i => items[j].state # "none"
    /\ SetItem(i, [NoItem EXCEPT !.state = "pending", !.policy = policy])
    /\ UNCHANGED <<loop, rec, watching, paced, tab, oc, inflight, committed,
                   crashes>>

\* handleQueueRemove; also what compaction does to a terminal item once its
\* retention is over.
Remove(i) ==
    /\ items[i].state \in {"pending"} \cup Terminal
    /\ SetItem(i, [NoItem EXCEPT !.state = "gone"])
    /\ paced' = paced \ {i}
    /\ UNCHANGED <<loop, rec, watching, tab, oc, inflight, committed, crashes>>

\* handleQueueList: recover the abandoned dispatches in one save, then start a
\* reconcile pass if there is a candidate and none is running.
List ==
    LET recovered == [i \in ItemIds |->
                        IF Stale(items[i])
                        THEN [items[i] EXCEPT !.state = "unknown"]
                        ELSE items[i]]
        candidate == \E i \in ItemIds : /\ recovered[i].state = "unknown"
                                        /\ recovered[i].closed = "no"
    IN
    /\ \/ /\ items' = recovered
          /\ rec' = IF candidate /\ rec.pc = "off"
                    THEN [RecOff EXCEPT !.pc = "snap"] ELSE rec
       \/ UNCHANGED <<items, rec>>
    /\ UNCHANGED <<loop, watching, paced, tab, oc, inflight, committed, crashes>>

\* handleQueueClaim by a browser of the pre-custody era.  The custody probe in
\* front of it is advisory (the lock may be taken right after it), so the claim
\* may fall anywhere.
LegacyClaim(i) ==
    /\ items[i].state = "pending"
    /\ \A j \in ItemIds : items[j].state = "pending" => i <= j
    /\ SetItem(i, [items[i] EXCEPT !.state = "dispatching", !.aged = FALSE])
    /\ tab' = tab \cup {i}
    /\ UNCHANGED <<loop, rec, watching, paced, oc, inflight, committed, crashes>>

\* The tab's own POST, once, whatever became of the item; the tab may also die.
LegacyPost(i) ==
    /\ i \in tab
    /\ tab' = tab \ {i}
    /\ \/ inflight' = inflight \cup {<<i, 0>>} /\ Serving
       \/ UNCHANGED inflight
    /\ UNCHANGED <<items, loop, rec, watching, paced, oc, committed, crashes>>
-----------------------------------------------------------------------------
\* The passive reconciler.

\* snapshotReconcileCandidates
RecSnapshot ==
    LET eligible == {i \in ItemIds : ReconcileEligible(items[i])}
        cands == eligible \ paced
    IN
    /\ rec.pc = "snap"
    /\ rec' = IF cands = {} THEN RecOff
              ELSE [RecOff EXCEPT !.pc = "get", !.cands = cands]
    /\ paced' = eligible
    /\ UNCHANGED <<items, loop, watching, tab, oc, inflight, committed, crashes>>

\* reconcileOne: the look-up, outside the lock ...
RecGet ==
    LET i == Oldest(rec.cands) IN
    /\ rec.pc = "get"
    /\ \E v \in GetVerdicts(i) :
         rec' = [rec EXCEPT !.pc = "act", !.item = i, !.verdict = v,
                            !.cands = @ \ {i}]
    /\ UNCHANGED <<items, loop, watching, paced, tab, oc, inflight, committed,
                   crashes>>

\* ... and what is made of it, under the lock again.
RecAct ==
    /\ rec.pc = "act"
    /\ CASE rec.verdict = "exact" -> Resolve(rec.item, "sent")
         [] rec.verdict = "400"   -> MarkReconcileTerminal(rec.item)
         [] OTHER                 -> BumpReconcileAttempt(rec.item)
    /\ rec' = IF rec.cands = {} THEN RecOff
              ELSE [RecOff EXCEPT !.pc = "get", !.cands = rec.cands]
    /\ UNCHANGED <<loop, watching, paced, tab, oc, inflight, committed, crashes>>

\* The delivery watcher: a persisted user message is matched to an item in
\* flight, and the item resolved in a second critical section.
WatchMatch(i) ==
    /\ Landed(i) # {} /\ i \notin watching
    /\ items[i].state = "dispatching" /\ items[i].custody
    /\ watching' = watching \cup {i}
    /\ UNCHANGED <<items, loop, rec, paced, tab, oc, inflight, committed, crashes>>

WatchResolve(i) ==
    /\ i \in watching
    /\ Resolve(i, "sent")
    /\ watching' = watching \ {i}
    /\ UNCHANGED <<loop, rec, paced, tab, oc, inflight, committed, crashes>>
-----------------------------------------------------------------------------
\* The drain loop.

\* acquire() succeeds: the loop owns the project's custody.
LoopStart ==
    /\ loop.pc = "off"
    /\ loop' = LoopAt("idle")
    /\ UNCHANGED <<items, rec, watching, paced, tab, oc, inflight, committed,
                   crashes>>

\* tick(): the generation that will be journaled is read here.
TickStart ==
    /\ loop.pc = "idle"
    /\ loop' = [loop EXCEPT !.pc = "pass", !.tickGen = oc.gen]
    /\ UNCHANGED <<items, rec, watching, paced, tab, oc, inflight, committed,
                   crashes>>

\* certifiedRecoveryPass: snapshot the candidates.
PassStart ==
    LET eligible == {i \in ItemIds : CertifyEligible(items[i], oc.gen)}
    IN
    /\ loop.pc = "pass"
    /\ loop' = [loop EXCEPT !.pc = "next", !.passGen = oc.gen,
                            !.cands = eligible \ paced]
    /\ paced' = eligible
    /\ UNCHANGED <<items, rec, watching, tab, oc, inflight, committed, crashes>>

\* certifyItemSnapshot of the next candidate; the pass is over when there is
\* none left.
PassNext ==
    LET i == Oldest(loop.cands) IN
    /\ loop.pc = "next"
    /\ loop' = IF loop.cands = {} THEN [loop EXCEPT !.pc = "select"]
               ELSE IF items[i].state \notin {"unknown", "dispatching"}
               THEN [loop EXCEPT !.cands = @ \ {i}]
               ELSE [loop EXCEPT !.pc = "get", !.item = i, !.cands = @ \ {i}]
    /\ UNCHANGED <<items, rec, watching, paced, tab, oc, inflight, committed,
                   crashes>>

PassGet ==
    /\ loop.pc = "get"
    /\ \E v \in GetVerdicts(loop.item) :
         loop' = [loop EXCEPT !.pc = "act", !.verdict = v]
    /\ UNCHANGED <<items, rec, watching, paced, tab, oc, inflight, committed,
                   crashes>>

\* A refused or failed requeue ends the tick.
Requeue(i) ==
    \/ /\ MayRequeue(items[i])
       /\ SetItem(i, Requeued(items[i]))
       /\ paced' = paced \ {i}
       /\ loop' = [loop EXCEPT !.pc = "next", !.item = 0]
    \/ /\ loop' = LoopAt("idle")
       /\ UNCHANGED <<items, paced>>

\* The verdict on one candidate.  Its attempts are written by this loop only,
\* so the copy taken by certifyItemSnapshot still tells the class.
PassAct ==
    LET i == loop.item
        it == items[i]
        class == Classify(it, loop.passGen, loop.verdict = "404")
        next == loop' = [loop EXCEPT !.pc = "next", !.item = 0]
    IN
    /\ loop.pc = "act"
    /\ CASE loop.verdict = "exact" ->
              Resolve(i, "sent") /\ next /\ UNCHANGED paced
         [] loop.verdict # "exact" /\ class \in Redeliverable ->
              Requeue(i)
         [] loop.verdict # "exact" /\ class = "server_error" ->
              Resolve(i, "failed") /\ next /\ UNCHANGED paced
         [] loop.verdict = "400" /\ class \in {"ambiguous", "none"} ->
              MarkReconcileTerminal(i) /\ next /\ UNCHANGED paced
         [] OTHER ->
              BumpReconcileAttempt(i) /\ next /\ UNCHANGED paced
    /\ UNCHANGED <<rec, watching, tab, oc, inflight, committed, crashes>>

\* oldestDispatchable: certified redeliveries first, then pending items; the
\* idle gate holds everything but "now" while the session's tree is busy.
Select(busy) ==
    LET eligible(i) == items[i].policy = "now" \/ ~busy
        resumable == {i \in ItemIds : /\ items[i].state = "dispatching"
                                      /\ items[i].requeue /\ eligible(i)}
        pending == {i \in ItemIds : items[i].state = "pending" /\ eligible(i)}
    IN
    /\ loop.pc = "select"
    /\ loop' = IF resumable # {}
               THEN [loop EXCEPT !.pc = "resume", !.item = Oldest(resumable)]
               ELSE IF pending # {}
               THEN [loop EXCEPT !.pc = "claim", !.item = Oldest(pending)]
               ELSE LoopAt("idle")
    /\ UNCHANGED <<items, rec, watching, paced, tab, oc, inflight, committed,
                   crashes>>

\* Where the agent evidence gate sends a claimed item: the one look at its agent.
AgentGate(i) == {"begin"} \cup {pc \in {"refuse"} : i \in NoAgent}

\* ClaimPendingForCustody of exactly the selected item.
ClaimPending ==
    LET i == loop.item IN
    /\ loop.pc = "claim"
    /\ \/ /\ items[i].state = "pending"
          /\ SetItem(i, [items[i] EXCEPT !.state = "dispatching",
                                         !.aged = FALSE, !.custody = TRUE])
          /\ \E pc \in AgentGate(i) : loop' = [loop EXCEPT !.pc = pc]
       \/ loop' = LoopAt("idle") /\ UNCHANGED items
    /\ UNCHANGED <<rec, watching, paced, tab, oc, inflight, committed, crashes>>

\* The agent evidence gate of tick(): a claimed item without an agent is
\* resolved failed instead of being dispatched.
AgentGateRefuse ==
    /\ loop.pc = "refuse"
    /\ Resolve(loop.item, "failed")
    /\ loop' = LoopAt("idle")
    /\ UNCHANGED <<rec, watching, paced, tab, oc, inflight, committed, crashes>>

\* itemForResume: consume the certified-redelivery marker.
ItemForResume ==
    LET i == loop.item IN
    /\ loop.pc = "resume"
    /\ \/ /\ items[i].state = "dispatching" /\ items[i].requeue
          /\ SetItem(i, [items[i] EXCEPT !.requeue = FALSE])
          /\ loop' = [loop EXCEPT !.pc = "begin"]
       \/ loop' = LoopAt("idle") /\ UNCHANGED items
    /\ UNCHANGED <<rec, watching, paced, tab, oc, inflight, committed, crashes>>

\* Mutant: the new journal entry keeps the class of the attempt before it.
JournaledOldClass(it) == [it EXCEPT !.n = @ + 1, !.oc = loop.tickGen]

\* The journal entry of a new attempt.
Journaled(it) == [it EXCEPT !.n = @ + 1, !.oc = loop.tickGen, !.class = "open"]

\* BeginDispatchAttempt: the journal entry is durable before the POST.
BeginDispatchAttempt ==
    LET i == loop.item IN
    /\ loop.pc = "begin"
    /\ \/ /\ items[i].state = "dispatching"
          /\ SetItem(i, Journaled(items[i]))
          /\ loop' = [loop EXCEPT !.pc = "post"]
       \/ loop' = LoopAt("idle") /\ UNCHANGED items
    /\ UNCHANGED <<rec, watching, paced, tab, oc, inflight, committed, crashes>>

\* What OpenCode may do with a POST, and what classifyTransport makes of the
\* answer: a dial error wrote nothing, a non-2xx answer took nothing, any other
\* error leaves it open whether the prompt was taken.
PostOutcomes ==
    {<<"connect_failed", FALSE>>, <<"written_unknown", FALSE>>} \cup
    (IF Serving THEN {<<"accepted_2xx", TRUE>>, <<"server_error", FALSE>>,
                      <<"written_unknown", TRUE>>}
                ELSE {})

\* resumeDispatchAttempt: the last fence check, then the POST.
Post ==
    LET d == <<loop.item, items[loop.item].n>> IN
    /\ loop.pc = "post"
    /\ \E o \in PostOutcomes :
         /\ loop' = [loop EXCEPT !.pc = "record", !.class = o[1]]
         /\ inflight' = IF o[2] THEN inflight \cup {d} ELSE inflight
    /\ UNCHANGED <<items, rec, watching, paced, tab, oc, committed, crashes>>

\* FenceCheck or a fenced mutation rejects the token: the loop exits.
Fenced ==
    /\ loop.pc \in {"act", "claim", "begin", "post", "record"}
    /\ loop' = LoopAt("off")
    /\ UNCHANGED <<items, rec, watching, paced, tab, oc, inflight, committed,
                   crashes>>

\* Mutants: an accepted POST is taken for a delivery; any error is taken for a
\* rejection.
RecordedAsSent(it, class) ==
    [it EXCEPT !.class = class,
               !.state = IF class = "accepted_2xx" THEN "sent" ELSE it.state]
RecordedAsRejected(it, class) ==
    [it EXCEPT !.class = IF class = "written_unknown" THEN "server_error"
                                                      ELSE class]

\* The receipt of an attempt: the class of its answer, and no verdict.
Recorded(it, class) == [it EXCEPT !.class = class]

\* RecordAttemptOutcome, whatever state the item is in by now.
RecordAttemptOutcome ==
    LET i == loop.item IN
    /\ loop.pc = "record"
    /\ \/ /\ items[i].state \notin {"none", "gone"}
          /\ SetItem(i, Recorded(items[i], loop.class))
          /\ loop' = IF loop.class = "server_error"
                     THEN [loop EXCEPT !.pc = "reject"] ELSE LoopAt("idle")
       \/ loop' = LoopAt("idle") /\ UNCHANGED items
    /\ UNCHANGED <<rec, watching, paced, tab, oc, inflight, committed, crashes>>

\* resolveServerErrorInline
ResolveServerErrorInline ==
    /\ loop.pc = "reject"
    /\ Resolve(loop.item, "failed")
    /\ loop' = LoopAt("idle")
    /\ UNCHANGED <<rec, watching, paced, tab, oc, inflight, committed, crashes>>
-----------------------------------------------------------------------------
\* OpenCode and its lifecycle.

\* A prompt that was accepted is persisted later, by a fork of the handler ...
Commit ==
    /\ Serving
    /\ \E d \in inflight : /\ committed' = committed \cup {d}
                           /\ inflight' = inflight \ {d}
    /\ UNCHANGED <<items, loop, rec, watching, paced, tab, oc, crashes>>

\* ... or never.
Lose ==
    /\ \E d \in inflight : inflight' = inflight \ {d}
    /\ UNCHANGED <<items, loop, rec, watching, paced, tab, oc, committed, crashes>>

\* fenceInflightQueueDispatches, ahead of an operator's restart.
RestartFence ==
    /\ oc.phase = "ready"
    /\ oc' = [oc EXCEPT !.phase = "fenced"]
    /\ \/ items' = [i \in ItemIds |->
                      IF items[i].state = "dispatching"
                      THEN [items[i] EXCEPT !.fenced = TRUE] ELSE items[i]]
       \/ UNCHANGED items
    /\ UNCHANGED <<loop, rec, watching, paced, tab, inflight, committed, crashes>>

MayAnnounce == /\ oc.gen < MaxGen
               /\ RestartDuringTick \/ loop.pc \in {"off", "idle"}

\* restartOpencode tells the old process to stop; SetStarting bumps the
\* generation before that (BumpWhileServing) or once it has exited.
RestartBegin ==
    /\ oc.phase = "fenced" /\ (BumpWhileServing => MayAnnounce)
    /\ oc' = [phase |-> "stopping",
              gen |-> IF BumpWhileServing THEN oc.gen + 1 ELSE oc.gen]
    /\ UNCHANGED <<items, loop, rec, watching, paced, tab, inflight, committed,
                   crashes>>

\* The old process goes on serving until it exits, or it cannot be stopped and
\* the restart fails.
OldExit ==
    /\ oc.phase = "stopping"
    /\ \/ /\ BumpWhileServing \/ MayAnnounce
          /\ oc' = [phase |-> "starting",
                    gen |-> IF BumpWhileServing THEN oc.gen ELSE oc.gen + 1]
          /\ inflight' = {}
       \/ oc' = [oc EXCEPT !.phase = "ready"] /\ UNCHANGED inflight
    /\ UNCHANGED <<items, loop, rec, watching, paced, tab, committed, crashes>>

\* OpenCode dies by itself; the death watcher restarts it.
Die ==
    /\ Serving
    /\ oc' = [oc EXCEPT !.phase = "down"]
    /\ inflight' = {}
    /\ UNCHANGED <<items, loop, rec, watching, paced, tab, committed, crashes>>

AutoRestart ==
    /\ oc.phase = "down" /\ MayAnnounce
    /\ oc' = [phase |-> "starting", gen |-> oc.gen + 1]
    /\ UNCHANGED <<items, loop, rec, watching, paced, tab, inflight, committed,
                   crashes>>

Ready ==
    /\ oc.phase = "starting"
    /\ oc' = [oc EXCEPT !.phase = "ready"]
    /\ UNCHANGED <<items, loop, rec, watching, paced, tab, inflight, committed,
                   crashes>>

\* The daemon stops and starts again.  Its lifecycle counts from 1 again; a
\* detached OpenCode survives it, an owned one is started anew.
Crash ==
    /\ crashes < MaxCrashes
    /\ crashes' = crashes + 1
    /\ loop' = LoopAt("off") /\ rec' = RecOff
    /\ watching' = {} /\ paced' = {}
    /\ \/ /\ Serving
          /\ oc' = [phase |-> "ready", gen |-> 1]
          /\ UNCHANGED inflight
       \/ /\ oc' = [phase |-> "starting", gen |-> 1]
          /\ inflight' = {}
    /\ UNCHANGED <<items, tab, committed>>

\* Time: a dispatch outlives the stale threshold, a look-up window ends.  From
\* taking an item up to its journal entry the loop only touches memory and
\* disk; PromptLoop assumes that this is shorter than the threshold.
TakingUp == {"next", "select", "resume", "begin"}

Age(i) ==
    /\ items[i].state = "dispatching" /\ ~items[i].aged
    /\ PromptLoop => loop.pc \notin TakingUp
    /\ SetItem(i, [items[i] EXCEPT !.aged = TRUE])
    /\ UNCHANGED <<loop, rec, watching, paced, tab, oc, inflight, committed,
                   crashes>>

WindowEnd(i) ==
    /\ i \in paced
    /\ paced' = paced \ {i}
    /\ UNCHANGED <<items, loop, rec, watching, tab, oc, inflight, committed,
                   crashes>>
-----------------------------------------------------------------------------
Advance == \/ LoopStart \/ TickStart \/ PassStart \/ PassNext \/ PassGet
           \/ PassAct \/ (\E busy \in BOOLEAN : Select(busy))
           \/ ClaimPending \/ AgentGateRefuse \/ ItemForResume
           \/ BeginDispatchAttempt \/ Post \/ RecordAttemptOutcome
           \/ ResolveServerErrorInline

LoopStep == Advance \/ Fenced

Handler == \/ \E i \in ItemIds, p \in Policies : Enqueue(i, p)
           \/ \E i \in ItemIds : Remove(i) \/ LegacyClaim(i) \/ LegacyPost(i)
           \/ List

Background == \/ RecSnapshot \/ RecGet \/ RecAct
              \/ \E i \in ItemIds : WatchMatch(i) \/ WatchResolve(i)

OpenCode == Commit \/ Lose \/ RestartFence \/ RestartBegin \/ OldExit \/ Die
            \/ AutoRestart \/ Ready

Time == \E i \in ItemIds : Age(i) \/ WindowEnd(i)

Next == LoopStep \/ Handler \/ Background \/ OpenCode \/ Time \/ Crash

Spec == Init /\ [][Next]_vars

\* The loop is one goroutine that keeps running; the disk accepts a write now
\* and then; a session that keeps having something to send is idle when the
\* loop looks now and then; time passes.  Nothing is assumed of OpenCode or of
\* browsers.
Changing(A) == A /\ items' # items

Fairness ==
    /\ WF_vars(Advance)
    /\ SF_vars(Changing(PassAct)) /\ SF_vars(Changing(RecAct))
    /\ SF_vars(Changing(ItemForResume)) /\ SF_vars(Changing(BeginDispatchAttempt))
    /\ SF_vars(Select(FALSE) /\ loop'.pc # "idle")
    /\ \A i \in ItemIds : SF_vars(Age(i)) /\ WF_vars(WindowEnd(i))

FairSpec == Spec /\ Fairness
-----------------------------------------------------------------------------
\* Every variable has the shape of what it models.
TypeOK == /\ items \in [ItemIds -> Item]
          /\ loop \in Loop
          /\ rec \in Rec
          /\ watching \subseteq ItemIds /\ paced \subseteq ItemIds
          /\ tab \subseteq ItemIds
          /\ oc \in OC
          /\ inflight \subseteq ItemIds \X Attempts
          /\ committed \subseteq ItemIds \X Attempts
          /\ crashes \in 0..MaxCrashes

\* At most one POST of a message is ever persisted, so the prompt is run once,
\* however often its dispatch is recovered, certified and repeated under the
\* same message id: "redelivery cannot duplicate" of custodyBarrierCertified.
PersistedOnce ==
    \A i \in ItemIds : Cardinality(Landed(i)) <= 1

\* Whenever the loop is about to POST, no earlier POST of that message has
\* landed or can still land: "the prompt provably never durably landed", the
\* justification certifiedRecoveryPass writes on what it requeues.
RedeliveryCertified ==
    loop.pc = "post" => Deliveries(loop.item) = {}

\* An item the daemon dispatched is shown as sent only when OpenCode holds the
\* message (the exact-ID match is the only delivery claim).
SentIsDelivered ==
    \A i \in ItemIds : items[i].custody /\ items[i].state = "sent"
                         => Landed(i) # {}

\* An item reported as failed was not delivered and cannot be any more, so the
\* user may send it again.
FailedIsUndelivered ==
    \A i \in ItemIds : items[i].state = "failed" => Deliveries(i) = {}

\* An item the classifier calls never-started or connect-failed has nothing at
\* OpenCode, at any moment and not only when the pass looks.
JournalIsHonest ==
    \A i \in ItemIds :
        /\ items[i].state \in {"dispatching", "unknown"}
        /\ Classify(items[i], 0, FALSE) \in {"never_started", "connect_failed"}
        => Deliveries(i) = {}

\* What the recovery machinery may leave an item at: a final state, or closed
\* for the operator.  An explicit rejection that arrives after the item was
\* recovered to unknown stays there (Resolve refuses unknown -> failed).
Settled(i) ==
    \/ items[i].state \in {"sent", "failed", "gone"}
    \/ items[i].closed # "no"
    \/ items[i].state = "unknown" /\ items[i].class = "server_error"

\* A dispatch the daemon has started is always settled, without any browser
\* polling and whatever OpenCode does: delivered, rejected, or closed.
DispatchSettles ==
    \A i \in ItemIds : items[i].custody /\ items[i].state = "dispatching"
                         ~> Settled(i)

\* Whatever the loop, the reconciler, the watcher, browsers and crashes do to
\* an item, it only moves forward along the lifecycle of queue.go: a rejection
\* never overrules an item recovered to unknown, nothing leaves sent or failed
\* but to be removed, and no removed item comes back.
Lifecycle == INSTANCE QueueLifecycle WITH st <- [i \in ItemIds |-> items[i].state]

ImplementsLifecycle == Lifecycle!Spec
=============================================================================
