---------------------------- MODULE TaskRegistry ----------------------------
(***************************************************************************)
(* The coordination task registry (.opencode/scripts/state-lib.js): agent   *)
(* sessions are processes that share one JSON file and one lock file per    *)
(* card.  Every operation loads the card and checks its guards outside the  *)
(* lock, then re-reads, rewrites and releases under it; deletion takes no   *)
(* lock.  One card is modelled; cards meet only in the recurrence scan.     *)
(***************************************************************************)
EXTENDS Naturals, FiniteSets

CONSTANTS
    Sessions,    \* agent sessions with a bound alias
    Designs,     \* values of the digest-bearing design fields
    MaxOps,      \* operations started in a behaviour
    MaxFaults    \* kills, hand edits and turns of the pause switch, together

ASSUME RegistryAssumption ==
    /\ MaxOps \in Nat /\ MaxFaults \in Nat /\ IsFiniteSet(Sessions)
    /\ Designs # {} /\ "none" \notin Sessions

VARIABLES
    card,     \* the card's file
    lock,     \* the lock file: its creator, or NoOne
    op,       \* per session: the operation it is in
    paused,   \* the pause-new-work switch
    log       \* history: operations started, written, merged; faults; a live lock broken

vars == <<card, lock, op, paused, log>>

NoOne == "none"
NoDesign == "no design"
Absent == [status |-> "absent"]

-----------------------------------------------------------------------------
(* Cards.                                                                  *)

Statuses == {"draft", "ready", "working", "reported", "blocked", "completed",
             "cancelled"}
Closeout == {"reported", "blocked", "completed"}
Reviewable == {"reported", "blocked", "completed"}
Resumable == {"ready", "working"}
Reviewed == Statuses \ {"draft", "working"}

\* A stored card.  bad: the stored status fails validation, by a hand edit.
\* envelope: the design the F3 readiness envelope is bound to.  count: the
\* recurrence block's count.  hist: the operations in its history.
Card == [status : Statuses, bad : BOOLEAN, owner : Sessions \cup {NoOne},
         design : Designs, envelope : Designs \cup {NoDesign},
         report : BOOLEAN, count : Nat, hist : SUBSET (1..MaxOps)]

\* defaultCoordinationTaskPayload(): what a missing card reads as.
DefaultPayload ==
    [status |-> "draft", bad |-> FALSE, owner |-> NoOne,
     design |-> CHOOSE d \in Designs : TRUE, envelope |-> NoDesign,
     report |-> FALSE, count |-> 0, hist |-> {}]

\* normalizeCoordinationTaskRecord(): an invalid status reads as draft; a
\* working card that names no owner reads as ready.
Normalized(c) ==
    [c EXCEPT !.status = IF c.bad THEN "draft"
                         ELSE IF @ = "working" /\ c.owner = NoOne THEN "ready"
                         ELSE @,
              !.bad = FALSE]

Exists == card # Absent
Degraded == Exists /\ card.bad
Loaded == Normalized(card)

\* validateF3DesignReadiness(): the envelope is bound to the design's digest.
Certified(c) == c.envelope = c.design

-----------------------------------------------------------------------------
(* Operations: the guards on the load before the lock.                     *)

Kinds == {"save", "merge", "activate", "takeover", "ready", "metadata",
          "repair", "closeout", "review", "delete", "force_delete"}
Idle == [kind |-> "none", step |-> "idle", id |-> 0, created |-> FALSE,
         early |-> FALSE, count |-> 0, current |-> Absent]
\* What is left of an operation that has nothing more to decide.
At(s) == [Idle EXCEPT !.step = s]
Steps == {"idle", "wait", "stale", "held", "done", "remove", "dead"}
Op == [kind : Kinds \cup {"none"}, step : Steps, id : 0..MaxOps,
       created : BOOLEAN, early : BOOLEAN, count : Nat,
       current : Card \cup {Absent}]

\* activateCoordinationTask(): a new dispatch needs the switch off and a
\* current envelope; another session's claim needs an explicit takeover.
MayActivate(p, takeover) ==
    /\ Exists /\ Loaded.status \in Resumable
    /\ Loaded.status = "ready" => ~paused /\ Certified(Loaded)
    /\ Loaded.status = "working" /\ Loaded.owner # p => takeover

\* readyCoordinationTask(), before the lock: a degraded card is refused.
MayReady == Exists /\ ~Degraded /\ Loaded.status \in {"draft", "ready"}

\* updateCoordinationTaskMetadata(): open cards; a working one by its owner.
MayUpdate(p) ==
    /\ Exists /\ Loaded.status \notin {"completed", "cancelled"}
    /\ Loaded.status = "working" => Loaded.owner = p

\* saveCoordinationTaskCloseout(): the active owner of a working card.
MayCloseout(p) == Exists /\ Loaded.status = "working" /\ Loaded.owner = p

\* reviewCoordinationTask(): a reported card with its closeout report.
MayReview == Exists /\ Loaded.status \in Reviewable /\ Loaded.report

\* deleteCoordinationTask() reads the file itself: cards in flight are
\* protected, and a completed one is retired through the landing and decision
\* gates, which only narrow the guard.
MayDelete(forced) ==
    /\ Exists
    /\ forced \/ card.bad
       \/ card.status \notin {"working", "reported", "blocked"}

Admits(p, k) ==
    CASE k = "save" -> TRUE
      [] k = "merge" -> Exists /\ ~Degraded
      [] k = "activate" -> MayActivate(p, FALSE)
      [] k = "takeover" -> MayActivate(p, TRUE)
      [] k = "ready" -> MayReady
      [] k = "metadata" -> MayUpdate(p)
      [] k = "repair" -> Degraded
      [] k = "closeout" -> MayCloseout(p)
      [] k = "review" -> MayReview
      [] k = "delete" -> MayDelete(FALSE)
      [] k = "force_delete" -> MayDelete(TRUE)

\* An operation starts: its load, its guards, and what it keeps of the load:
\* whether a save creates the card, whether a metadata update may touch design
\* fields, and the count a merge computed.
Begin(p, k) ==
    /\ op[p].step = "idle" /\ log.ops < MaxOps /\ Admits(p, k)
    /\ op' = [op EXCEPT ![p] =
           [kind |-> k, id |-> log.ops + 1, current |-> Absent,
            step |-> IF k \in {"delete", "force_delete"} THEN "remove" ELSE "wait",
            created |-> ~Exists,
            early |-> Exists /\ Loaded.status \in {"draft", "ready"},
            count |-> IF k = "merge" THEN card.count + 1 ELSE 0]]
    /\ log' = [log EXCEPT !.ops = @ + 1,
              !.merges = IF k = "merge" THEN @ \cup {log.ops + 1} ELSE @]
    /\ UNCHANGED <<card, lock, paused>>

-----------------------------------------------------------------------------
(* withLock().                                                             *)

\* Mutant: the lock file is opened without "wx".
FreeAlways == TRUE

\* openSync(lockPath, "wx") succeeds only where there is no file.
Free == lock = NoOne

\* The lock is taken and the card read again under it.
Acquire(p) ==
    /\ op[p].step = "wait" /\ Free
    /\ lock' = p
    /\ op' = [op EXCEPT ![p].step = "held", ![p].current = card]
    /\ UNCHANGED <<card, paused, log>>

\* The lock file of a killed holder is older than STALE_LOCK_MS.
SeesStale(p) ==
    /\ op[p].step = "wait" /\ lock # NoOne /\ op[lock].step = "dead"
    /\ op' = [op EXCEPT ![p].step = "stale"]
    /\ UNCHANGED <<card, lock, paused, log>>

\* Mutant: the stale lock file is left where it is.
BreakStaleKeeps(p) ==
    /\ op[p].step = "stale"
    /\ op' = [op EXCEPT ![p].step = "wait"]
    /\ UNCHANGED <<card, lock, paused, log>>

\* unlinkSync(), whatever file is there by then; the loop goes round again.
\* History: a third session may have taken the lock meanwhile.
BreakStale(p) ==
    /\ op[p].step = "stale"
    /\ lock' = NoOne
    /\ op' = [op EXCEPT ![p].step = "wait"]
    /\ log' = [log EXCEPT !.stolen = @ \/ (lock # NoOne /\ op[lock].step # "dead")]
    /\ UNCHANGED <<card, paused>>

\* LOCK_TIMEOUT_MS passed: the operation fails.
LockTimeout(p) ==
    /\ op[p].step = "wait" /\ lock # NoOne
    /\ op' = [op EXCEPT ![p] = Idle]
    /\ UNCHANGED <<card, lock, paused, log>>

\* The finally block unlinks the lock file and the operation is over.
Release(p) ==
    /\ op[p].step = "done"
    /\ lock' = NoOne
    /\ op' = [op EXCEPT ![p] = Idle]
    /\ UNCHANGED <<card, paused, log>>

-----------------------------------------------------------------------------
(* updateCoordinationTask(): the cards an operation may write.             *)

Base(p) == IF op[p].current = Absent THEN DefaultPayload
           ELSE Normalized(op[p].current)

\* saveCoordinationTask(): a creating save, by its load before the lock, may
\* set draft or ready; an updating one keeps the status it finds.
Saved(p, s, d) == [Base(p) EXCEPT !.status = s, !.design = d]
SaveResults(p) ==
    {Saved(p, s, d) :
        s \in IF op[p].created THEN {"draft", "ready"} ELSE {Base(p).status},
        d \in Designs}

\* Mutant: the count computed before the lock is written.
MergedCountUnchecked(p) == op[p].count

\* saveCoordinationTask(), merge path: a count computed from a stale scan is
\* resolved again under the lock.
MergedCount(p) ==
    IF Base(p).count = op[p].count - 1 THEN op[p].count ELSE Base(p).count + 1

\* Mutant: the status was checked before the lock only.
ReadyGuardUnlocked(p) == TRUE

\* readyCoordinationTask(), the locked re-check of the status.
ReadyGuard(p) == Base(p).status \in {"draft", "ready"}

\* readyCoordinationTask(): design and envelope may change with it; the gate
\* runs when a draft crosses, or when an envelope is supplied.
Readied(p, d, e) ==
    [Base(p) EXCEPT !.status = "ready", !.design = d, !.envelope = e]
ReadyResults(p) ==
    {Readied(p, d, e) : d \in Designs, e \in Designs}
    \cup IF Base(p).status = "draft" THEN {}
         ELSE {[Base(p) EXCEPT !.design = d] : d \in Designs}
ReadyCards(p) ==
    {c \in ReadyResults(p) :
        (Base(p).status = "draft" \/ c.envelope # Base(p).envelope) => Certified(c)}

\* updateCoordinationTaskMetadata(): design fields only where the load found a
\* card before execution.
MetadataResults(p) ==
    {[Base(p) EXCEPT !.design = d] :
        d \in IF op[p].early THEN Designs ELSE {Base(p).design}}

\* activateCoordinationTask(): the locked write claims whatever it finds.
ActivateResults(p) == {[Base(p) EXCEPT !.status = "working", !.owner = p]}

\* repairDegradedCoordinationTaskCoreFields(): a status is supplied.
RepairResults(p) == {[Base(p) EXCEPT !.status = s] : s \in Statuses}

\* saveCoordinationTaskCloseout(): the report, the status, the claim released.
CloseoutResults(p) ==
    {[Base(p) EXCEPT !.status = s, !.owner = NoOne, !.report = TRUE] :
        s \in Closeout}

\* reviewCoordinationTask(): the review's status; the claim goes.
ReviewResults(p) ==
    {[Base(p) EXCEPT !.status = s, !.owner = NoOne] : s \in Reviewed}

Results(p) ==
    CASE op[p].kind = "save" -> SaveResults(p)
      [] op[p].kind = "merge" -> {[Base(p) EXCEPT !.count = MergedCount(p)]}
      [] op[p].kind \in {"activate", "takeover"} -> ActivateResults(p)
      [] op[p].kind = "ready" -> IF ReadyGuard(p) THEN ReadyCards(p) ELSE {}
      [] op[p].kind = "metadata" -> MetadataResults(p)
      [] op[p].kind = "repair" -> RepairResults(p)
      [] op[p].kind = "closeout" -> CloseoutResults(p)
      [] op[p].kind = "review" -> ReviewResults(p)

\* Only a save carries the core fields a vanished card lost.
Writable(p) == op[p].current # Absent \/ op[p].kind = "save"

\* The rewritten card is normalised, validated and renamed into place.
Write(p) ==
    /\ op[p].step = "held" /\ Writable(p)
    /\ \E c \in Results(p) :
        card' = [Normalized(c) EXCEPT !.hist = @ \cup {op[p].id}]
    /\ op' = [op EXCEPT ![p] = At("done")]
    /\ log' = [log EXCEPT !.written = @ \cup {op[p].id}]
    /\ UNCHANGED <<lock, paused>>

\* The update function throws: nothing is written.
Refuse(p) ==
    /\ op[p].step = "held" /\ (~Writable(p) \/ Results(p) = {})
    /\ op' = [op EXCEPT ![p] = At("done")]
    /\ UNCHANGED <<card, lock, paused, log>>

\* deleteCoordinationTask(): the card's file goes, with no lock held.
Remove(p) ==
    /\ op[p].step = "remove"
    /\ card' = Absent
    /\ op' = [op EXCEPT ![p] = Idle]
    /\ log' = [log EXCEPT !.written = {}]
    /\ UNCHANGED <<lock, paused>>

-----------------------------------------------------------------------------
(* The world.                                                              *)

\* A session's process is killed under the lock (one that waits for it leaves
\* nothing behind, like one that times out).
Crash(p) ==
    /\ op[p].step \in {"held", "done"} /\ log.faults < MaxFaults
    /\ op' = [op EXCEPT ![p] = At("dead")]
    /\ log' = [log EXCEPT !.faults = @ + 1]
    /\ UNCHANGED <<card, lock, paused>>

\* A hand edit leaves a status that fails validation.
HandEdit ==
    /\ Exists /\ ~card.bad /\ log.faults < MaxFaults
    /\ card' = [card EXCEPT !.bad = TRUE]
    /\ log' = [log EXCEPT !.faults = @ + 1]
    /\ UNCHANGED <<lock, op, paused>>

\* The pause switch is engaged or released.
Pause ==
    /\ log.faults < MaxFaults
    /\ paused' = ~paused
    /\ log' = [log EXCEPT !.faults = @ + 1]
    /\ UNCHANGED <<card, lock, op>>

\* The registry outlives the sessions: a card may be there that earlier ones
\* created, worked on and reported.
Init ==
    /\ card \in {Absent, [DefaultPayload EXCEPT !.status = "reported", !.report = TRUE]}
    /\ lock = NoOne /\ paused = FALSE
    /\ op = [p \in Sessions |-> Idle]
    /\ log = [ops |-> 0, written |-> {}, merges |-> {}, faults |-> 0, stolen |-> FALSE]

Step(p) ==
    \/ Acquire(p) \/ SeesStale(p) \/ BreakStale(p) \/ LockTimeout(p)
    \/ Write(p) \/ Refuse(p) \/ Release(p) \/ Remove(p)

Next ==
    \/ \E p \in Sessions : Step(p) \/ Crash(p) \/ \E k \in Kinds : Begin(p, k)
    \/ HandEdit \/ Pause

\* A live session runs its operation to the end.
Spec == Init /\ [][Next]_vars /\ \A p \in Sessions : WF_vars(Step(p))

-----------------------------------------------------------------------------
(* Properties.                                                             *)

\* Type invariant; a card on disk that passes validation and is being worked
\* on names who works on it.
TypeOK ==
    /\ card \in Card \cup {Absent}
    /\ Exists /\ card.status = "working" => card.owner # NoOne
    /\ lock \in Sessions \cup {NoOne}
    /\ op \in [Sessions -> Op]
    /\ paused \in BOOLEAN

\* A change that was written stays in the card's history for the card's life:
\* no session overwrites it from an earlier read.  (updateCoordinationTask
\* under withLock, with a holder killed and its lock broken; two sessions that
\* find the same stale lock, of which the slower breaks a live one, are the
\* known exception, state-lib.js:455-459.)
NoLostUpdate == Exists /\ ~log.stolen => log.written \subseteq card.hist

\* Every repeat merged into a canonical card is counted once, whatever merge,
\* save or lifecycle write came between its scan and its lock.
\* (saveCoordinationTask, the lock-time re-resolution.)
RepeatsCounted ==
    Exists => card.count = Cardinality(card.hist \cap log.merges)

\* A ready request never takes a card away from an active worker, and moves a
\* draft to ready only with an envelope for the design it writes, whatever
\* other sessions wrote after its own check.  (readyCoordinationTask, the
\* locked re-check; hand edits and deletions do not take the lock.)
ReadyIsCertified ==
    [][\A p \in Sessions :
          op[p].kind = "ready" /\ op[p].step = "held" /\ op'[p].step = "done"
          /\ card' # card /\ Exists /\ ~card.bad /\ ~log.stolen =>
             /\ Loaded.status \in {"draft", "ready"}
             /\ Loaded.status = "draft" => Certified(card')]_vars

\* An operation ends, in a write, a refusal or a lock timeout, unless its own
\* process is killed; a lock left by a killed one does not block it for good.
\* (withLock, the stale lock and the timeout.)
OperationsEnd ==
    \A p \in Sessions :
        op[p].step \in {"wait", "held", "done"} ~> op[p].step \in {"idle", "dead"}
=============================================================================
