----------------------------- MODULE QueueStore -----------------------------
(***************************************************************************)
(* The durable per-session message queue: sessionQueueStore and            *)
(* queueRegistry of pkg/web/queue.go, and the escalation of                *)
(* pkg/web/queue_escalate.go.                                              *)
(*                                                                         *)
(* Every operation runs inside one critical section of the store's mutex,  *)
(* so it is one action.  What is not atomic is modelled: a goroutine looks *)
(* a store object up in the registry and locks it later, so it may hold a  *)
(* pointer to a store that has been archived since ("handle" below); a     *)
(* save may fail at any point before the rename; the process may stop      *)
(* between any two actions and lose everything but queue.json.             *)
(*                                                                         *)
(* A missing queue.json is the document with version 0 (a saved one has    *)
(* version 1 or 2), which is what load() makes of it.                      *)
(***************************************************************************)
EXTENDS Integers, FiniteSets

CONSTANTS
    MaxItems,           \* bound: items ever admitted
    MaxClock,           \* bound: units of time that elapse
    AdmissionIds,       \* client admission ids (intentId / attemptId)
    NoId,               \* the empty admission id of a legacy enqueue
    Payloads,           \* message contents, told apart by their fingerprint
    Handles,            \* store objects one process may create
    Nil,                \* no store object in the registry
    StaleAfter,         \* staleDispatchThreshold
    TTL, Cap,           \* retention of each terminal state
    ReceiptCap          \* admissionReceiptCap

ItemIds == 1..MaxItems
Terminal == {"sent", "failed", "unknown"}
ItemStates == {"none", "pending", "dispatching"} \cup Terminal
Policies == {"queue", "now"}
Details == {"", "recovery", "escalated", "report"}

ASSUME BoundsAssumption == MaxItems \in Nat /\ MaxClock \in Nat
ASSUME RetentionAssumption == /\ StaleAfter \in Nat /\ ReceiptCap \in Nat
                              /\ TTL \in [Terminal -> Nat]
                              /\ Cap \in [Terminal -> Nat]
ASSUME NamesAssumption == /\ NoId \notin AdmissionIds /\ NoId \notin Payloads
                          /\ Nil \notin Handles

VARIABLES
    disk,               \* queue.json
    mem,                \* mem[h]: the fields of store object h
    registry,           \* the session's entry in queueRegistry.stores
    born,               \* store objects some goroutine may hold
    daemonOn,           \* daemonDispatchEnabled, fixed for a process
    clock,              \* queueNow()
    nextId,             \* newQueueID: ids are never reused
    answered            \* history: the admissions answered with an item

vars == <<disk, mem, registry, born, daemonOn, clock, nextId, answered>>
-----------------------------------------------------------------------------
\* QueueItem, reduced to what decides a transition.
Item == [state : ItemStates, policy : Policies, order : Nat,
         startedAt : Nat, resolvedAt : Nat, detail : Details]

NoItem == [state |-> "none", policy |-> "queue", order |-> 0,
           startedAt |-> 0, resolvedAt |-> 0, detail |-> ""]

\* queueAdmissionReceipt: the fingerprint and the item it admitted (0: none).
Receipt == [item : Nat, payload : Payloads \cup {NoId}, policy : Policies]
NoReceipt == [item |-> 0, payload |-> NoId, policy |-> "queue"]

\* A successful answer of enqueueAdmission to a caller that named itself.
Answer == [adm : AdmissionIds, item : Nat, payload : Payloads, policy : Policies]
AnswerOf(a, r) == [adm |-> a, item |-> r.item, payload |-> r.payload,
                   policy |-> r.policy]

Items == [ItemIds -> Item]
Receipts == [AdmissionIds -> Receipt]
NoItems == [i \in ItemIds |-> NoItem]
NoReceipts == [a \in AdmissionIds |-> NoReceipt]

\* queueFile, and sessionQueueStore.
File == [version : 0..2, order : Nat, items : Items, receipts : Receipts]
Store == [loaded : BOOLEAN, archived : BOOLEAN, version : 0..2, order : Nat,
          items : Items, receipts : Receipts]

NoFile == [version |-> 0, order |-> 0, items |-> NoItems,
           receipts |-> NoReceipts]
NewStore == [loaded |-> FALSE, archived |-> FALSE, version |-> 0, order |-> 0,
             items |-> NoItems, receipts |-> NoReceipts]

Present(items) == {i \in ItemIds : items[i].state # "none"}
InState(items, s) == {i \in ItemIds : items[i].state = s}
Receipted(receipts) == {a \in AdmissionIds : receipts[a].item # 0}
-----------------------------------------------------------------------------
\* load(): a file of schema 2 is refused while the policy scheduler is off.
\* (Item orders never exceed the file's order, so the repair of order that
\* load() ends with changes nothing.)
Loadable == disk.version < 2 \/ daemonOn

Loaded(h) ==
    IF mem[h].loaded THEN mem[h]
    ELSE [loaded |-> TRUE, archived |-> mem[h].archived,
          version |-> disk.version, order |-> disk.order,
          items |-> disk.items, receipts |-> disk.receipts]

\* The prologue of every operation: lock, refuse an archived store, load.
Usable(h) == h \in born /\ ~mem[h].archived /\ (mem[h].loaded \/ Loadable)

\* Mutant: the stamp ignores the policies.
EffectiveSchemaVersionBlind(m) == IF m.version < 1 THEN 1 ELSE m.version

\* effectiveSchemaVersionLocked: the schema a save stamps.
EffectiveSchemaVersion(m) ==
    IF \E i \in Present(m.items) : m.items[i].policy = "now" THEN 2
    ELSE IF m.version < 1 THEN 1 ELSE m.version

FileOf(m) == [version |-> m.version, order |-> m.order, items |-> m.items,
              receipts |-> m.receipts]

\* An error return: the store is left loaded and as it was.
Rollback(h) == /\ mem' = [mem EXCEPT ![h] = Loaded(h)]
               /\ UNCHANGED disk

\* save() after the store's fields became m.  The rename of writeQueueAtomic
\* is the commit point; a failure before it leaves the old bytes and the
\* caller restores the fields it had changed.
Save(h, m) ==
    LET saved == [m EXCEPT !.version = EffectiveSchemaVersion(m)] IN
    /\ disk' = FileOf(saved)
    /\ mem' = [mem EXCEPT ![h] = saved]

\* Mutant: the receipts are forgotten when the queue is empty.
PersistAfterCompactionForgets(h, m, compactChanged) ==
    IF compactChanged /\ Present(m.items) = {}
    THEN disk' = NoFile /\ mem' = [mem EXCEPT ![h] = m]
    ELSE Save(h, m)

\* persistAfterCompaction(): a queue compacted to nothing, with no receipt to
\* keep, has its file removed instead of rewritten.
PersistAfterCompaction(h, m, compactChanged) ==
    IF compactChanged /\ Present(m.items) = {} /\ Receipted(m.receipts) = {}
    THEN /\ disk' = NoFile
         /\ mem' = [mem EXCEPT ![h] = m]
    ELSE Save(h, m)

\* recoverStaleDispatchingLocked
RecoverStale(items) ==
    [i \in ItemIds |->
        IF /\ items[i].state = "dispatching"
           /\ items[i].startedAt = 0 \/ clock - items[i].startedAt > StaleAfter
        THEN [items[i] EXCEPT !.state = "unknown", !.resolvedAt = clock,
                              !.detail = "recovery"]
        ELSE items[i]]

\* compactTerminalItemsLocked: first the items past their TTL, then, of each
\* terminal state, the oldest ones over the cap.
Expired(items) ==
    {i \in ItemIds : /\ items[i].state \in Terminal
                     /\ items[i].resolvedAt > 0
                     /\ clock - items[i].resolvedAt > TTL[items[i].state]}

SortKey(it) == IF it.resolvedAt > 0 THEN it.resolvedAt ELSE clock

Older(items, i, j) ==
    \/ SortKey(items[i]) < SortKey(items[j])
    \/ /\ SortKey(items[i]) = SortKey(items[j])
       /\ items[i].order < items[j].order

\* Mutant: one more than the cap is kept.
OverCapKeepsOneMore(items) ==
    {i \in ItemIds :
        /\ items[i].state \in Terminal
        /\ LET survivors == InState(items, items[i].state) \ Expired(items)
           IN  /\ i \in survivors
               /\ Cardinality({j \in survivors : Older(items, i, j)})
                    > Cap[items[i].state]}

OverCap(items) ==
    {i \in ItemIds :
        /\ items[i].state \in Terminal
        /\ LET survivors == InState(items, items[i].state) \ Expired(items)
           IN  /\ i \in survivors
               /\ Cardinality({j \in survivors : Older(items, i, j)})
                    >= Cap[items[i].state]}

Compact(items) ==
    [i \in ItemIds |-> IF i \in Expired(items) \cup OverCap(items)
                       THEN NoItem ELSE items[i]]
-----------------------------------------------------------------------------
Init == /\ disk = NoFile
        /\ mem = [h \in Handles |-> NewStore]
        /\ registry = Nil
        /\ born = {}
        /\ daemonOn \in BOOLEAN
        /\ clock = 1
        /\ nextId = 1
        /\ answered = {}

\* queueRegistry.store(): get or create the session's store object.
LookupStore(h) ==
    /\ registry = Nil
    /\ h \notin born
    /\ registry' = h
    /\ born' = born \cup {h}
    /\ UNCHANGED <<disk, mem, daemonOn, clock, nextId, answered>>

\* List(): recover the abandoned dispatches, compact, persist if either
\* changed something.
List(h) ==
    LET m == Loaded(h)
        recovered == RecoverStale(m.items)
        compacted == Compact(recovered)
        new == [m EXCEPT !.items = compacted]
    IN
    /\ Usable(h)
    /\ IF compacted = m.items
       THEN Rollback(h)
       ELSE \/ PersistAfterCompaction(h, new, compacted # recovered)
            \/ Rollback(h)
    /\ UNCHANGED <<registry, born, daemonOn, clock, nextId, answered>>

NewItem(m, policy, detail) ==
    [state |-> "pending", policy |-> policy, order |-> m.order + 1,
     startedAt |-> 0, resolvedAt |-> 0, detail |-> detail]

\* enqueueAdmission() of an unknown admission id (or of none): the item and its
\* receipt are saved together.
Admit(h, a, payload, policy) ==
    LET m == Loaded(h)
        receipt == [item |-> nextId, payload |-> payload, policy |-> policy]
        new == [m EXCEPT
                  !.order = m.order + 1,
                  !.items[nextId] = NewItem(m, policy, ""),
                  !.receipts = IF a = NoId THEN m.receipts
                               ELSE [m.receipts EXCEPT ![a] = receipt]]
    IN
    /\ nextId \in ItemIds
    /\ Save(h, new)
    /\ nextId' = nextId + 1
    /\ answered' = answered \cup
                     (IF a = NoId THEN {} ELSE {AnswerOf(a, receipt)})

\* enqueueAdmission() of a known admission id: the receipt is the answer when
\* the fingerprint is the same, otherwise the request is a conflict.
Replay(h, a, payload, policy) ==
    LET receipt == Loaded(h).receipts[a] IN
    /\ Rollback(h)
    /\ nextId' = nextId
    /\ answered' = IF receipt.payload = payload /\ receipt.policy = policy
                   THEN answered \cup {[adm |-> a, item |-> receipt.item,
                                        payload |-> payload,
                                        policy |-> policy]}
                   ELSE answered

\* enqueueAdmission(): replay or conflict first; a new admission id at the
\* receipt capacity is refused before any effect; a save may fail.
EnqueueAdmission(h, a, payload, policy) ==
    LET receipts == Loaded(h).receipts IN
    /\ policy = "now" => daemonOn
    /\ Usable(h)
    /\ \/ a # NoId /\ receipts[a].item # 0 /\ Replay(h, a, payload, policy)
       \/ /\ a # NoId => /\ receipts[a].item = 0
                         /\ Cardinality(Receipted(receipts)) < ReceiptCap
          /\ Admit(h, a, payload, policy)
       \/ /\ a # NoId => receipts[a].item = 0
          /\ Rollback(h)
          /\ UNCHANGED <<nextId, answered>>
    /\ UNCHANGED <<registry, born, daemonOn, clock>>

\* Remove(): anything but an item in flight.
Remove(h, i) ==
    LET m == Loaded(h) IN
    /\ Usable(h)
    /\ IF m.items[i].state \in {"none", "dispatching"}
       THEN Rollback(h)
       ELSE \/ Save(h, [m EXCEPT !.items[i] = NoItem])
            \/ Rollback(h)
    /\ UNCHANGED <<registry, born, daemonOn, clock, nextId, answered>>

\* Claim() / claimItemLocked(): the oldest pending item, in admission order.
Claim(h) ==
    LET m == Loaded(h)
        pending == InState(m.items, "pending")
    IN
    /\ Usable(h)
    /\ IF pending = {}
       THEN Rollback(h)
       ELSE \/ \E i \in pending :
                 /\ \A j \in pending : i <= j
                 /\ Save(h, [m EXCEPT !.items[i].state = "dispatching",
                                      !.items[i].startedAt = clock])
            \/ Rollback(h)
    /\ UNCHANGED <<registry, born, daemonOn, clock, nextId, answered>>

\* Mutant: a late report rewrites whatever was recorded.
MayResolveAnything(cur, target) == cur \notin {"none", "pending"}

\* The matrix of Resolve(): which terminal outcome may be recorded over what.
MayResolve(cur, target) == \/ cur = "dispatching"
                           \/ cur = "unknown" /\ target = "sent"

\* Resolve(): record a terminal outcome, compact, persist.  An identical
\* re-resolve and a refused rewrite both leave the item alone.
Resolve(h, i, target) ==
    LET m == Loaded(h)
        it == m.items[i]
        resolved == [m.items EXCEPT ![i].state = target,
                                    ![i].detail = "report",
                                    ![i].resolvedAt = clock]
        compacted == Compact(resolved)
    IN
    /\ Usable(h)
    /\ IF \/ ~MayResolve(it.state, target)
          \/ it.state = target /\ it.detail = "report"
       THEN Rollback(h)
       ELSE \/ PersistAfterCompaction(h, [m EXCEPT !.items = compacted],
                                      compacted # resolved)
            \/ Rollback(h)
    /\ UNCHANGED <<registry, born, daemonOn, clock, nextId, answered>>

\* EscalatePendingToNow(): cancel and re-admit with policy "now" in one save,
\* under a fresh id, the receipts untouched.  The custody fence in front of it
\* is the subject of QueueCustody.
EscalatePendingToNow(h, i) ==
    LET m == Loaded(h)
        new == [m EXCEPT !.order = m.order + 1,
                         !.items[i] = NoItem,
                         !.items[nextId] = NewItem(m, "now", "escalated")]
    IN
    /\ daemonOn
    /\ Usable(h)
    /\ \/ /\ m.items[i].state = "pending" /\ m.items[i].policy # "now"
          /\ nextId \in ItemIds
          /\ Save(h, new)
          /\ nextId' = nextId + 1
       \/ Rollback(h) /\ UNCHANGED nextId
    /\ UNCHANGED <<registry, born, daemonOn, clock, answered>>

\* Mutant: the cleanup does not look at what it removes.
RemoveQueueFileForCleanupBlind ==
    \/ disk' = NoFile /\ answered' = {}
    \/ UNCHANGED <<disk, answered>>

\* removeQueueFileForCleanup: a policy-bearing file is preserved while the
\* scheduler is off; the result of os.Remove is ignored, so it may also fail.
RemoveQueueFileForCleanup ==
    \/ /\ daemonOn \/ disk.version < 2
       /\ disk' = NoFile
       /\ answered' = {}
    \/ UNCHANGED <<disk, answered>>

\* Mutant: the store object is forgotten without its tombstone.
DeleteStoreNoTombstone ==
    /\ RemoveQueueFileForCleanup
    /\ registry' = Nil
    /\ UNCHANGED <<mem, born, daemonOn, clock, nextId>>

\* deleteStore() (archive, session.delete, orphan reconciliation): tombstone
\* the store object, forget it, remove the file.
DeleteStore ==
    /\ RemoveQueueFileForCleanup
    /\ IF registry = Nil THEN UNCHANGED mem
       ELSE mem' = [mem EXCEPT ![registry].archived = TRUE]
    /\ registry' = Nil
    /\ UNCHANGED <<born, daemonOn, clock, nextId>>

\* The process stops and another starts, with the capability on or off.
Restart ==
    /\ mem' = [h \in Handles |-> NewStore]
    /\ registry' = Nil
    /\ born' = {}
    /\ daemonOn' \in BOOLEAN
    /\ UNCHANGED <<disk, clock, nextId, answered>>

Tick == /\ clock < MaxClock
        /\ clock' = clock + 1
        /\ UNCHANGED <<disk, mem, registry, born, daemonOn, nextId, answered>>

Operation(h) ==
    \/ List(h)
    \/ \E a \in AdmissionIds \cup {NoId}, p \in Payloads, q \in Policies :
         EnqueueAdmission(h, a, p, q)
    \/ \E i \in ItemIds : Remove(h, i)
    \/ Claim(h)
    \/ \E i \in ItemIds, t \in Terminal : Resolve(h, i, t)
    \/ \E i \in ItemIds : EscalatePendingToNow(h, i)

Next == \/ \E h \in Handles : LookupStore(h) \/ Operation(h)
        \/ DeleteStore
        \/ Restart
        \/ Tick

Spec == Init /\ [][Next]_vars
-----------------------------------------------------------------------------
\* Every variable has the shape of the field it models.
TypeOK == /\ disk \in File
          /\ mem \in [Handles -> Store]
          /\ registry \in Handles \cup {Nil}
          /\ born \subseteq Handles
          /\ daemonOn \in BOOLEAN
          /\ clock \in Nat
          /\ nextId \in 1..(MaxItems + 1)
          /\ answered \subseteq Answer

\* A store object's cache and queue.json never drift apart: whatever failed,
\* whatever was archived, the one live store object that has loaded holds what
\* the file holds, and a store whose file is gone holds nothing to lose.  (The
\* rollbacks of every operation, the archived tombstone of deleteStore.)
CacheCoherent ==
    \A h \in born :
        ~mem[h].archived =>
          /\ h = registry
          /\ mem[h].loaded =>
               IF disk.version = 0
               THEN /\ Present(mem[h].items) = {}
                    /\ Receipted(mem[h].receipts) = {}
               ELSE disk = FileOf(mem[h])

\* One admission id stands for one item with one content for as long as the
\* session's queue lives: over retries, failed saves, removals, compaction to an
\* empty queue and restarts, no caller is told two different things about it
\* (the replay and conflict contract of enqueueAdmission).
AdmissionOnce == \A r, s \in answered : r.adm = s.adm => r = s

\* Immediate-dispatch items are never in a file an older or a policy-off
\* process would read as its own (the schema ratchet of save()).
PolicyBytesFenced ==
    \A i \in Present(disk.items) :
        disk.items[i].policy = "now" => disk.version = 2

\* The file never holds more terminal items of a state than its cap, although
\* recovery and resolution create them (compactTerminalItemsLocked runs in the
\* same critical section).
TerminalBounded ==
    \A s \in Terminal : Cardinality(InState(disk.items, s)) <= Cap[s]

\* With the policy scheduler off, nothing this process does changes a
\* policy-bearing file, archiving the session included.
LegacyModePreservesPolicyFile ==
    [][~daemonOn /\ disk.version = 2 => disk' = disk]_vars

\* The durable queue implements the item lifecycle: forward only, no item
\* resurrected.
LifecycleState ==
    [i \in ItemIds |-> IF disk.items[i].state # "none"
                       THEN disk.items[i].state
                       ELSE IF i < nextId THEN "gone" ELSE "none"]

Lifecycle == INSTANCE QueueLifecycle WITH st <- LifecycleState

ImplementsLifecycle == Lifecycle!Spec
=============================================================================
