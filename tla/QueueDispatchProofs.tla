------------------------- MODULE QueueDispatchProofs -------------------------
(***************************************************************************)
(* Machine-checked proofs about QueueDispatch, for any number of items,     *)
(* attempts, look-ups, incarnations of OpenCode and crashes of the daemon.  *)
(*                                                                         *)
(* The argument follows the deliveries of an item, the POSTs of it that     *)
(* OpenCode holds or may still persist.  They are empty whenever the        *)
(* journal, the requeue marker or the loop's position says that a POST may  *)
(* follow.                                                                  *)
(***************************************************************************)
EXTENDS QueueDispatch, FiniteSetTheorems, WellFoundedInduction, TLAPS

Gone == [NoItem EXCEPT !.state = "gone"]

\* Where the loop works on one item.
AtItem == {"get", "act", "claim", "refuse", "resume", "begin", "post", "record",
           "reject"}

\* The budgets leave room for the step that spends them.
Budgets ==
    \A i \in ItemIds :
        /\ items[i].closed = "no" => items[i].recs < MaxReconciles
        /\ items[i].requeue => items[i].n < MaxAttempts
LoopTyped ==
    /\ loop.pc \in AtItem => loop.item \in ItemIds
    /\ loop.pc = "begin" =>
          items[loop.item].n < MaxAttempts /\ ~items[loop.item].requeue
    /\ loop.pc = "act" /\ loop.verdict = "exact" => Landed(loop.item) # {}
RecTyped ==
    /\ rec.pc = "act" => rec.item \in ItemIds
    /\ rec.pc = "get" => rec.cands # {}
    /\ rec.pc = "act" /\ rec.verdict = "exact" => Landed(rec.item) # {}
PendingTyped ==
    \A i \in ItemIds : items[i].state \in {"none", "pending"} =>
        items[i].n = 0 /\ ~items[i].requeue /\ ~items[i].custody
WatchTyped == \A i \in watching : Landed(i) # {}

\* The parts that speak of items, without their deliveries.
ItemsTyped == items \in [ItemIds -> Item] /\ Budgets /\ PendingTyped
Sets ==
    /\ watching \subseteq ItemIds /\ paced \subseteq ItemIds /\ tab \subseteq ItemIds
    /\ oc \in OC
    /\ inflight \subseteq ItemIds \X Attempts /\ committed \subseteq ItemIds \X Attempts
    /\ crashes \in 0..MaxCrashes

TypeInv ==
    /\ ItemsTyped /\ SentIsDelivered
    /\ loop \in Loop /\ LoopTyped
    /\ rec \in Rec /\ RecTyped
    /\ WatchTyped /\ Sets

LEMMA Limits ==
    /\ MaxItems \in Nat /\ MaxAttempts \in Nat \ {0} /\ MaxReconciles \in Nat \ {0}
    /\ MaxGen \in Nat \ {0} /\ MaxCrashes \in Nat
    /\ BarrierCertified \in BOOLEAN /\ BumpWhileServing \in BOOLEAN
    /\ RestartDuringTick \in BOOLEAN /\ PromptLoop \in BOOLEAN
  BY BoundsAssumption, ChoicesAssumption

LEMMA NoItemIs ==
    /\ NoItem \in Item /\ Gone \in Item
    /\ Gone.state = "gone" /\ ~Gone.custody /\ Gone.n = 0 /\ ~Gone.requeue
    /\ Gone.closed = "no" /\ Gone.recs = 0 /\ Gone.class = "open"
<1>1. 0 \in Attempts /\ 0 \in 0..MaxGen /\ 0 \in 0..MaxReconciles
  BY Limits DEF Attempts
<1>2. NoItem \in Item
  BY <1>1 DEF NoItem, Item, ItemStates, Classes, Closings
<1>3. Gone \in Item
  BY <1>1 DEF Gone, NoItem, Item, ItemStates, Classes, Closings
<1> QED
  BY <1>2, <1>3 DEF Gone, NoItem

\* Sets of naturals have a least element: < is well-founded.
LEMMA OldestIs == ASSUME NEW S \in SUBSET ItemIds, S # {} PROVE Oldest(S) \in S
<1>1. S \subseteq Nat
  BY Limits DEF ItemIds
<1>2. \E i \in S : \A j \in S : ~(<<j, i>> \in OpToRel(<, Nat))
  BY <1>1, NatLessThanWellFounded, WFMin
<1>3. \A i, j \in Nat : <<j, i>> \in OpToRel(<, Nat) <=> j < i
  BY DEF OpToRel
<1>4. PICK i \in S : \A j \in S : ~(<<j, i>> \in OpToRel(<, Nat))
  BY <1>2
<1>5. ASSUME NEW j \in S PROVE i <= j
  <2>1. i \in Nat /\ j \in Nat
    BY <1>1
  <2>2. ~(j < i)
    BY <1>3, <1>4, <2>1
  <2> QED
    BY <2>1, <2>2
<1> QED
  BY <1>5 DEF Oldest

-----------------------------------------------------------------------------
(* What an action does to an item.                                         *)

\* Removed, or healed, closed, aged, fenced or looked up without touching its
\* journal.
Quieter(it, jt) ==
    \/ jt = Gone
    \/ /\ jt.custody = it.custody /\ jt.n = it.n /\ jt.oc = it.oc
       /\ jt.class = it.class /\ jt.requeue = it.requeue
       /\ \/ jt.state = it.state
          \/ it.state \in {"dispatching", "unknown"} /\ jt.state \in {"unknown", "sent"}

\* No attempt is counted and no redelivery asked for.
Calm(it, jt) == \/ jt.n = it.n /\ jt.requeue = it.requeue
                \/ jt.n = 0 /\ ~jt.requeue

\* The conditions of Budgets on one item.
Budget(it) == /\ it.closed = "no" => it.recs < MaxReconciles
              /\ it.requeue => it.n < MaxAttempts

LEMMA BumpedIs ==
    ASSUME NEW it \in Item, Budget(it), it.closed = "no"
    PROVE  Bumped(it) \in Item /\ Budget(Bumped(it)) /\ Quieter(it, Bumped(it))
           /\ Bumped(it).state = it.state
<1> DEFINE last == it.recs + 1 >= MaxReconciles
           amb == it.ambiguous \/ (last /\ ~it.fenced /\ (it.n > 0 \/ ~it.custody))
           cl == IF last THEN "lookups" ELSE it.closed
           m == it.recs + 1
<1>1. m \in 0..MaxReconciles /\ it.recs \in Nat
  BY Limits DEF Budget, Item
<1>2. cl \in Closings /\ amb \in BOOLEAN
  BY DEF Item, Closings
<1>3. Bumped(it) = [it EXCEPT !.recs = m, !.closed = cl, !.ambiguous = amb]
  BY DEF Bumped
<1>4. cl = "no" => m < MaxReconciles
  BY <1>1, Limits
<1> HIDE DEF m, cl, amb
<1>5. LET jt == [it EXCEPT !.recs = m, !.closed = cl, !.ambiguous = amb] IN
      /\ jt \in Item /\ jt.recs = m /\ jt.closed = cl /\ jt.custody = it.custody
      /\ jt.n = it.n /\ jt.oc = it.oc /\ jt.class = it.class
      /\ jt.requeue = it.requeue /\ jt.state = it.state
  BY <1>1, <1>2 DEF Item
<1> QED
  BY <1>3, <1>4, <1>5 DEF Budget, Quieter

LEMMA RequeuedIs ==
    ASSUME NEW it \in Item, Budget(it)
    PROVE  LET jt == Requeued(it) IN
           /\ jt \in Item /\ Budget(jt)
           /\ jt.custody = it.custody /\ jt.n = it.n /\ jt.oc = it.oc
           /\ jt.class = it.class /\ jt.state \in {"unknown", "dispatching"}
<1>1. it.n \in Nat /\ MaxAttempts \in Nat /\ 0 \in 0..MaxReconciles
  BY Limits DEF Item, Attempts
<1>2. CASE it.n >= MaxAttempts
  <2> DEFINE jt == [it EXCEPT !.state = "unknown", !.closed = "budget",
                              !.requeue = FALSE, !.ambiguous = FALSE]
  <2>1. /\ jt \in Item /\ jt.closed = "budget" /\ jt.requeue = FALSE
        /\ jt.custody = it.custody /\ jt.n = it.n /\ jt.oc = it.oc
        /\ jt.class = it.class /\ jt.state = "unknown"
    BY DEF Item, ItemStates, Terminal, Closings
  <2>2. Requeued(it) = jt
    BY <1>2 DEF Requeued
  <2> HIDE DEF jt
  <2> QED
    BY <2>1, <2>2 DEF Budget
<1>3. CASE ~(it.n >= MaxAttempts)
  <2> DEFINE jt == [it EXCEPT !.state = "dispatching", !.aged = FALSE, !.recs = 0,
                              !.closed = "no", !.ambiguous = FALSE, !.requeue = TRUE]
  <2>1. /\ jt \in Item /\ jt.recs = 0
        /\ jt.custody = it.custody /\ jt.n = it.n /\ jt.oc = it.oc
        /\ jt.class = it.class /\ jt.state = "dispatching"
    BY <1>1 DEF Item, ItemStates, Terminal, Closings
  <2>2. Requeued(it) = jt
    BY <1>3 DEF Requeued
  <2> HIDE DEF jt
  <2> QED
    BY <1>1, <1>3, <2>1, <2>2, Limits DEF Budget
<1> QED
  BY <1>2, <1>3

-----------------------------------------------------------------------------
(* Types, and what may be called sent.                                     *)

Sound(it, i) == it.custody /\ it.state = "sent" => Landed(i) # {}

LEMMA OneItem ==
    ASSUME ItemsTyped, SentIsDelivered, NEW i \in ItemIds, NEW x \in Item, Budget(x),
           x.state \in {"none", "pending"} => x.n = 0 /\ ~x.requeue /\ ~x.custody,
           SetItem(i, x), committed' = committed, Sound(x, i)
    PROVE  ItemsTyped' /\ SentIsDelivered'
<1>1. /\ items' \in [ItemIds -> Item] /\ items'[i] = x
      /\ \A j \in ItemIds : j # i => items'[j] = items[j]
  BY DEF SetItem, ItemsTyped
<1>2. \A j \in ItemIds : Landed(j)' = Landed(j)
  BY DEF Landed
<1>3. Budgets' /\ PendingTyped'
  BY <1>1 DEF Budgets, PendingTyped, Budget, ItemsTyped
<1>4. SentIsDelivered'
  BY <1>1, <1>2 DEF SentIsDelivered, Sound
<1> QED
  BY <1>1, <1>3, <1>4 DEF ItemsTyped

LEMMA SameItems ==
    ASSUME ItemsTyped, SentIsDelivered, items' = items, committed' = committed
    PROVE  ItemsTyped' /\ SentIsDelivered'
BY DEF ItemsTyped, SentIsDelivered, Budgets, PendingTyped, Landed

LEMMA BudgetOf ==
    ASSUME ItemsTyped, NEW i \in ItemIds
    PROVE  items[i] \in Item /\ Budget(items[i])
BY DEF ItemsTyped, Budgets, Budget

\* Resolve, the passive bump and the closing mark leave quieter items.
LEMMA ResolveIs ==
    ASSUME ItemsTyped, SentIsDelivered, NEW i \in ItemIds,
           NEW target \in {"sent", "failed"}, Resolve(i, target),
           committed' = committed, target = "sent" => Landed(i) # {}
    PROVE  /\ ItemsTyped' /\ SentIsDelivered'
           /\ \A j \in ItemIds : j # i => items'[j] = items[j]
           /\ items'[i].custody = items[i].custody /\ items'[i].n = items[i].n
           /\ items'[i].oc = items[i].oc /\ items'[i].class = items[i].class
           /\ items'[i].requeue = items[i].requeue
           /\ \/ items'[i].state = items[i].state
              \/ /\ items[i].state \in {"dispatching", "unknown"}
                 /\ items'[i].state = target
<1> DEFINE it == items[i]
           x == [it EXCEPT !.state = target]
<1>1. it \in Item /\ Budget(it)
  BY BudgetOf
<1>2. /\ x \in Item /\ x.state = target /\ x.custody = it.custody /\ x.n = it.n
      /\ x.oc = it.oc /\ x.class = it.class /\ x.requeue = it.requeue
      /\ x.closed = it.closed /\ x.recs = it.recs
  BY <1>1 DEF Item, ItemStates, Terminal
<1>3. CASE items' = items
  BY <1>3, SameItems
<1>4. CASE SetItem(i, x) /\ MayResolve(it, target)
  <2> HIDE DEF x
  <2>1. items'[i] = x /\ \A j \in ItemIds : j # i => items'[j] = items[j]
    BY <1>4 DEF SetItem, ItemsTyped
  <2>2. Budget(x) /\ Sound(x, i)
    BY <1>1, <1>2 DEF Budget, Sound
  <2>3. ItemsTyped' /\ SentIsDelivered'
    BY <1>2, <1>4, <2>2, OneItem
  <2> QED
    BY <1>2, <1>4, <2>1, <2>3 DEF MayResolve
<1> QED
  BY <1>3, <1>4 DEF Resolve

LEMMA LookUpIs ==
    ASSUME ItemsTyped, SentIsDelivered, NEW i \in ItemIds,
           BumpReconcileAttempt(i) \/ MarkReconcileTerminal(i), committed' = committed
    PROVE  /\ ItemsTyped' /\ SentIsDelivered'
           /\ \A j \in ItemIds : Quieter(items[j], items'[j])
<1> DEFINE it == items[i]
           y == [it EXCEPT !.closed = "rejected"]
<1>1. it \in Item /\ Budget(it)
  BY BudgetOf
<1>2. CASE items' = items
  BY <1>2, SameItems DEF Quieter
<1>3. ASSUME NEW x \in Item, SetItem(i, x), ReconcileEligible(it), Budget(x),
             Quieter(it, x), x.state = it.state, x # Gone
      PROVE  /\ ItemsTyped' /\ SentIsDelivered'
             /\ \A j \in ItemIds : Quieter(items[j], items'[j])
  <2>1. items'[i] = x /\ \A j \in ItemIds : j # i => items'[j] = items[j]
    BY <1>3 DEF SetItem, ItemsTyped
  <2>2. it.state \in {"unknown", "dispatching"}
    BY <1>3 DEF ReconcileEligible, Stale
  <2>3. ItemsTyped' /\ SentIsDelivered'
    BY <1>3, <2>2, OneItem DEF Sound
  <2> QED
    BY <1>3, <2>1, <2>3 DEF Quieter
<1>4. CASE SetItem(i, Bumped(it)) /\ ReconcileEligible(it)
  <2>1. it.closed = "no" /\ it.state # "gone"
    BY <1>4 DEF ReconcileEligible, Stale
  <2>2. /\ Bumped(it) \in Item /\ Budget(Bumped(it)) /\ Quieter(it, Bumped(it))
        /\ Bumped(it).state = it.state
    BY <1>1, <2>1, BumpedIs
  <2>3. Bumped(it) # Gone
    BY <2>1, <2>2, NoItemIs
  <2> HIDE DEF it
  <2> QED
    BY <1>3, <1>4, <2>2, <2>3
<1>5. CASE SetItem(i, y) /\ ReconcileEligible(it)
  <2>1. it.state # "gone"
    BY <1>5 DEF ReconcileEligible, Stale
  <2>2. /\ y \in Item /\ y.state = it.state /\ y.custody = it.custody /\ y.n = it.n
        /\ y.oc = it.oc /\ y.class = it.class /\ y.requeue = it.requeue
        /\ y.closed = "rejected"
    BY <1>1 DEF Item, Closings
  <2> HIDE DEF y, it
  <2>3. Budget(y) /\ Quieter(it, y) /\ y # Gone
    BY <1>1, <2>1, <2>2, NoItemIs DEF Budget, Quieter
  <2> QED
    BY <1>3, <1>5, <2>2, <2>3
<1> QED
  BY <1>2, <1>4, <1>5 DEF BumpReconcileAttempt, MarkReconcileTerminal

LEMMA LandedGrows ==
    ASSUME committed \subseteq committed', NEW i, Landed(i) # {}
    PROVE  Landed(i)' # {}
BY DEF Landed

LEMMA LoopAtIs ==
    ASSUME NEW pc \in LoopSteps PROVE LoopAt(pc) \in Loop /\ LoopAt(pc).pc = pc
<1>1. 0 \in 0..MaxItems /\ 0 \in 0..MaxGen
  BY Limits
<1> QED
  BY <1>1 DEF LoopAt, Loop, Verdicts, Classes

\* The loop, the reconciler and the watcher while others move.
LEMMA OthersStay ==
    ASSUME TypeInv, committed \subseteq committed',
           \A j \in ItemIds : Calm(items[j], items'[j])
    PROVE  /\ loop' = loop \/ loop' = LoopAt("off") \/ loop' = LoopAt("idle") =>
                  loop' \in Loop /\ LoopTyped'
           /\ rec' = rec \/ rec' = RecOff => rec' \in Rec /\ RecTyped'
           /\ watching' \subseteq watching => WatchTyped'
<1>1. ASSUME loop' = loop PROVE loop' \in Loop /\ LoopTyped'
  <2>1. loop.pc = "begin" => loop.item \in ItemIds
    BY DEF TypeInv, LoopTyped, AtItem
  <2> QED
    BY <1>1, <2>1, LandedGrows, Limits DEF TypeInv, LoopTyped, Calm
<1>2. ASSUME loop' = LoopAt("off") \/ loop' = LoopAt("idle")
      PROVE  loop' \in Loop /\ LoopTyped'
  BY <1>2, LoopAtIs DEF LoopTyped, AtItem, LoopSteps
<1>3. ASSUME rec' = rec PROVE rec' \in Rec /\ RecTyped'
  BY <1>3, LandedGrows DEF TypeInv, RecTyped
<1>4. ASSUME rec' = RecOff PROVE rec' \in Rec /\ RecTyped'
  BY <1>4, Limits DEF RecOff, Rec, RecTyped, Verdicts
<1>5. ASSUME watching' \subseteq watching PROVE WatchTyped'
  BY <1>5, LandedGrows DEF TypeInv, WatchTyped
<1> QED
  BY <1>1, <1>2, <1>3, <1>4, <1>5

\* An action of OpenCode or the clock that leaves items alone.
LEMMA SilentType ==
    ASSUME TypeInv, items' = items, Sets', committed \subseteq committed',
           loop' = loop \/ loop' = LoopAt("off") \/ loop' = LoopAt("idle"),
           rec' = rec \/ rec' = RecOff, watching' \subseteq watching
    PROVE  TypeInv'
<1>1. ItemsTyped' /\ SentIsDelivered'
  BY LandedGrows DEF TypeInv, ItemsTyped, Budgets, PendingTyped, SentIsDelivered
<1> QED
  BY <1>1, OthersStay DEF TypeInv, Calm

\* A handler or the clock moves items one step that takes nothing from them.
LEMMA ItemsType ==
    ASSUME TypeInv, ItemsTyped', SentIsDelivered',
           \A j \in ItemIds : Calm(items[j], items'[j]),
           committed' = committed, loop' = loop, rec' = rec, watching' = watching,
           oc' = oc, inflight' \subseteq ItemIds \X Attempts, crashes' = crashes,
           paced' \subseteq ItemIds, tab' \subseteq ItemIds
    PROVE  TypeInv'
<1>1. Sets'
  BY DEF TypeInv, Sets
<1> QED
  BY <1>1, OthersStay DEF TypeInv

LEMMA HandlerTypes ==
    ASSUME TypeInv, Handler
    PROVE  TypeInv'
<1>0. ItemsTyped /\ SentIsDelivered /\ items \in [ItemIds -> Item] /\ Sets
  BY DEF TypeInv, ItemsTyped
<1>1. ASSUME NEW i \in ItemIds, NEW p \in Policies, Enqueue(i, p)
      PROVE  TypeInv'
  <2> DEFINE x == [NoItem EXCEPT !.state = "pending", !.policy = p]
  <2>1. /\ x \in Item /\ x.state = "pending" /\ ~x.custody /\ x.n = 0 /\ ~x.requeue
        /\ x.recs = 0
    <3>1. p \in {"queue", "now"}
      BY ChoicesAssumption
    <3>2. NoItem \in Item
      BY NoItemIs
    <3>3. x \in Item
      BY <3>1, <3>2 DEF Item, ItemStates
    <3> QED
      BY <3>3 DEF NoItem
  <2>2. SetItem(i, x) /\ committed' = committed
    BY <1>1 DEF Enqueue
  <2> HIDE DEF x
  <2>3. ItemsTyped' /\ SentIsDelivered'
    BY <1>0, <2>1, <2>2, OneItem, Limits DEF Budget, Sound
  <2>4. \A j \in ItemIds : Calm(items[j], items'[j])
    BY <1>0, <2>1, <2>2 DEF SetItem, Calm
  <2> QED
    BY <1>0, <1>1, <2>3, <2>4, ItemsType DEF Enqueue, Sets
<1>2. ASSUME NEW i \in ItemIds, Remove(i)
      PROVE  TypeInv'
  <2>1. SetItem(i, Gone) /\ committed' = committed
    BY <1>2 DEF Remove, Gone
  <2>2. ItemsTyped' /\ SentIsDelivered'
    BY <1>0, <2>1, NoItemIs, OneItem, Limits DEF Budget, Sound
  <2>3. \A j \in ItemIds : Calm(items[j], items'[j])
    BY <1>0, <2>1, NoItemIs DEF SetItem, Calm
  <2> QED
    BY <1>0, <1>2, <2>2, <2>3, ItemsType DEF Remove, Sets
<1>3. ASSUME NEW i \in ItemIds, LegacyClaim(i)
      PROVE  TypeInv'
  <2> DEFINE x == [items[i] EXCEPT !.state = "dispatching", !.aged = FALSE]
  <2>0. items[i] \in Item /\ Budget(items[i])
    BY <1>0, BudgetOf
  <2>1. /\ x \in Item /\ x.state = "dispatching" /\ x.custody = items[i].custody
        /\ x.n = items[i].n /\ x.requeue = items[i].requeue
        /\ x.closed = items[i].closed /\ x.recs = items[i].recs
    BY <2>0 DEF Item, ItemStates
  <2>2. SetItem(i, x) /\ committed' = committed
    BY <1>3 DEF LegacyClaim
  <2> HIDE DEF x
  <2>3. ItemsTyped' /\ SentIsDelivered'
    BY <1>0, <2>0, <2>1, <2>2, OneItem DEF Budget, Sound
  <2>4. \A j \in ItemIds : Calm(items[j], items'[j])
    BY <1>0, <2>1, <2>2 DEF SetItem, Calm
  <2> QED
    BY <1>0, <1>3, <2>3, <2>4, ItemsType DEF LegacyClaim, Sets
<1>4. ASSUME NEW i \in ItemIds, LegacyPost(i)
      PROVE  TypeInv'
  <2>1. inflight' \subseteq ItemIds \X Attempts
    BY <1>0, <1>4, Limits DEF LegacyPost, Sets, Attempts
  <2>2. Sets'
    BY <1>0, <1>4, <2>1 DEF LegacyPost, Sets
  <2> QED
    BY <1>4, <2>2, SilentType DEF LegacyPost
<1>5. CASE List
  <2> DEFINE cured(i) == [items[i] EXCEPT !.state = "unknown"]
  <2>1. ASSUME NEW i \in ItemIds
        PROVE  /\ cured(i) \in Item /\ cured(i).state = "unknown"
               /\ cured(i).n = items[i].n /\ cured(i).requeue = items[i].requeue
               /\ cured(i).closed = items[i].closed /\ cured(i).recs = items[i].recs
    BY <1>0 DEF Item, ItemStates, Terminal
  <2>2. /\ committed' = committed /\ loop' = loop /\ watching' = watching
        /\ Sets' /\ rec' \in {rec, [RecOff EXCEPT !.pc = "snap"]}
        /\ \/ items' = items
           \/ items' = [i \in ItemIds |-> IF Stale(items[i]) THEN cured(i) ELSE items[i]]
    BY <1>0, <1>5 DEF List, Sets
  <2> HIDE DEF cured
  <2>3. items' \in [ItemIds -> Item]
    BY <1>0, <2>1, <2>2
  <2>4. \A j \in ItemIds : \/ items'[j] = items[j]
                           \/ items'[j] = cured(j)
    BY <1>0, <2>2
  <2>5. ItemsTyped' /\ SentIsDelivered'
    BY <1>0, <2>1, <2>2, <2>3, <2>4
       DEF ItemsTyped, Budgets, PendingTyped, SentIsDelivered, Landed
  <2>6. \A j \in ItemIds : Calm(items[j], items'[j])
    BY <2>1, <2>4 DEF Calm
  <2>7. loop' \in Loop /\ LoopTyped' /\ WatchTyped'
    BY <2>2, <2>6, OthersStay
  <2>8. rec' \in Rec /\ RecTyped'
    <3>1. CASE rec' = rec
      BY <2>2, <2>6, <3>1, OthersStay
    <3>2. CASE rec' = [RecOff EXCEPT !.pc = "snap"]
      BY <3>2, Limits DEF RecOff, Rec, RecTyped, Verdicts
    <3> QED
      BY <2>2, <3>1, <3>2
  <2> QED
    BY <2>2, <2>5, <2>7, <2>8 DEF TypeInv
<1> QED
  BY <1>1, <1>2, <1>3, <1>4, <1>5 DEF Handler

LEMMA QuietCounts ==
    ASSUME ItemsTyped, \A j \in ItemIds : Quieter(items[j], items'[j])
    PROVE  \A j \in ItemIds : Calm(items[j], items'[j])
BY NoItemIs DEF Quieter, Calm

LEMMA ResolveCounts ==
    ASSUME TypeInv, NEW i \in ItemIds, NEW target \in {"sent", "failed"},
           Resolve(i, target), committed' = committed,
           target = "sent" => Landed(i) # {}
    PROVE  /\ ItemsTyped' /\ SentIsDelivered'
           /\ \A j \in ItemIds : Calm(items[j], items'[j])
<1>1. ItemsTyped /\ SentIsDelivered
  BY DEF TypeInv
<1> QED
  BY <1>1, ResolveIs DEF Calm

LEMMA RecNext ==
    ASSUME NEW C \in SUBSET ItemIds,
           rec' = IF C = {} THEN RecOff ELSE [RecOff EXCEPT !.pc = "get", !.cands = C]
    PROVE  rec' \in Rec /\ RecTyped'
<1>1. RecOff \in Rec /\ RecOff.pc = "off"
  BY Limits DEF Rec, RecOff, Verdicts
<1>2. CASE C = {}
  BY <1>1, <1>2 DEF RecTyped
<1>3. CASE C # {}
  <2> DEFINE r == [RecOff EXCEPT !.pc = "get", !.cands = C]
  <2>1. r \in Rec /\ r.pc = "get" /\ r.cands = C
    BY <1>1 DEF Rec, RecOff
  <2>2. rec' = r
    BY <1>3
  <2> HIDE DEF r
  <2> QED
    BY <1>3, <2>1, <2>2 DEF RecTyped
<1> QED
  BY <1>2, <1>3

LEMMA BackgroundTypes ==
    ASSUME TypeInv, Background
    PROVE  TypeInv'
<1>0. ItemsTyped /\ SentIsDelivered /\ items \in [ItemIds -> Item] /\ Sets
      /\ rec \in Rec /\ RecTyped
  BY DEF TypeInv, ItemsTyped
<1>1. CASE RecSnapshot
  <2> DEFINE cands == {i \in ItemIds : ReconcileEligible(items[i])} \ paced
  <2>1. /\ items' = items /\ committed' = committed /\ loop' = loop
        /\ watching' = watching
        /\ rec' = IF cands = {} THEN RecOff
                  ELSE [RecOff EXCEPT !.pc = "get", !.cands = cands]
    BY <1>1 DEF RecSnapshot
  <2>2. Sets'
    BY <1>0, <1>1 DEF RecSnapshot, Sets
  <2>3. cands \subseteq ItemIds
    OBVIOUS
  <2> HIDE DEF cands
  <2>4. rec' \in Rec /\ RecTyped'
    BY <2>1, <2>3, RecNext
  <2>5. ItemsTyped' /\ SentIsDelivered'
    BY <1>0, <2>1, SameItems
  <2> QED
    BY <2>1, <2>2, <2>4, <2>5, OthersStay DEF TypeInv, Calm
<1>2. CASE RecGet
  <2> DEFINE i == Oldest(rec.cands)
  <2>1. rec.cands \subseteq ItemIds /\ rec.cands # {}
    BY <1>0, <1>2 DEF RecGet, Rec, RecTyped
  <2>2. i \in ItemIds
    BY <2>1, OldestIs
  <2>3. PICK v \in GetVerdicts(i) :
            rec' = [rec EXCEPT !.pc = "act", !.item = i, !.verdict = v,
                               !.cands = rec.cands \ {i}]
    BY <1>2 DEF RecGet
  <2>4. v \in Verdicts /\ (v = "exact" => Landed(i) # {})
    BY <2>3 DEF GetVerdicts, Verdicts
  <2>5. /\ items' = items /\ committed' = committed /\ loop' = loop
        /\ watching' = watching
    BY <1>2 DEF RecGet
  <2> HIDE DEF i
  <2>6. i \in 0..MaxItems
    BY <2>2, Limits DEF ItemIds
  <2>7. /\ rec' \in Rec /\ rec'.pc = "act" /\ rec'.item = i /\ rec'.verdict = v
    BY <1>0, <2>1, <2>3, <2>4, <2>6 DEF Rec
  <2>8. RecTyped'
    BY <2>2, <2>4, <2>5, <2>7 DEF RecTyped, Landed
  <2>9. ItemsTyped' /\ SentIsDelivered' /\ Sets'
    BY <1>0, <1>2, <2>5, SameItems DEF RecGet, Sets
  <2> QED
    BY <2>5, <2>7, <2>8, <2>9, OthersStay DEF TypeInv, Calm
<1>3. CASE RecAct
  <2>1. /\ rec.item \in ItemIds /\ committed' = committed /\ loop' = loop
        /\ watching' = watching
        /\ rec.verdict = "exact" => Landed(rec.item) # {}
    BY <1>0, <1>3 DEF RecAct, RecTyped
  <2>2. \/ Resolve(rec.item, "sent") /\ rec.verdict = "exact"
        \/ MarkReconcileTerminal(rec.item) \/ BumpReconcileAttempt(rec.item)
    BY <1>3 DEF RecAct
  <2>3. /\ ItemsTyped' /\ SentIsDelivered'
        /\ \A j \in ItemIds : Calm(items[j], items'[j])
    <3>1. CASE Resolve(rec.item, "sent") /\ rec.verdict = "exact"
      BY <2>1, <3>1, ResolveCounts
    <3>2. CASE MarkReconcileTerminal(rec.item) \/ BumpReconcileAttempt(rec.item)
      BY <1>0, <2>1, <3>2, LookUpIs, QuietCounts
    <3> QED
      BY <2>2, <3>1, <3>2
  <2>4. rec' \in Rec /\ RecTyped'
    <3>1. rec' = IF rec.cands = {} THEN RecOff
                 ELSE [RecOff EXCEPT !.pc = "get", !.cands = rec.cands]
      BY <1>3 DEF RecAct
    <3>2. rec.cands \in SUBSET ItemIds
      BY <1>0 DEF Rec
    <3> QED
      BY <3>1, <3>2, RecNext
  <2>5. Sets'
    BY <1>0, <1>3 DEF RecAct, Sets
  <2> QED
    BY <2>1, <2>3, <2>4, <2>5, OthersStay DEF TypeInv
<1>4. ASSUME NEW i \in ItemIds, WatchMatch(i)
      PROVE  TypeInv'
  <2>1. ItemsTyped' /\ SentIsDelivered' /\ Sets'
    BY <1>0, <1>4, SameItems DEF WatchMatch, Sets
  <2>2. WatchTyped'
    BY <1>4 DEF WatchMatch, TypeInv, WatchTyped, Landed
  <2> QED
    BY <1>4, <2>1, <2>2, OthersStay DEF TypeInv, WatchMatch, Calm
<1>5. ASSUME NEW i \in ItemIds, WatchResolve(i)
      PROVE  TypeInv'
  <2>1. Landed(i) # {} /\ Resolve(i, "sent") /\ committed' = committed
    BY <1>5 DEF WatchResolve, TypeInv, WatchTyped
  <2>2. /\ ItemsTyped' /\ SentIsDelivered'
        /\ \A j \in ItemIds : Calm(items[j], items'[j])
    BY <2>1, ResolveCounts DEF Calm
  <2>3. Sets' /\ loop' = loop /\ rec' = rec /\ watching' \subseteq watching
    BY <1>0, <1>5 DEF WatchResolve, Sets
  <2> QED
    BY <2>1, <2>2, <2>3, OthersStay DEF TypeInv
<1> QED
  BY <1>1, <1>2, <1>3, <1>4, <1>5 DEF Background

LEMMA OpenCodeTypes ==
    ASSUME TypeInv, OpenCode \/ Crash
    PROVE  TypeInv'
<1>0. ItemsTyped /\ SentIsDelivered /\ items \in [ItemIds -> Item] /\ Sets
      /\ oc \in OC
  BY DEF TypeInv, ItemsTyped, Sets
<1>1. ASSUME NEW ph \in Phases, NEW g \in 1..MaxGen, oc' = [phase |-> ph, gen |-> g]
      PROVE  oc' \in OC
  BY <1>1 DEF OC
<1>2. ASSUME NEW ph \in Phases, oc' = [oc EXCEPT !.phase = ph]
      PROVE  oc' \in OC
  BY <1>0, <1>2 DEF OC
<1>3. oc.gen < MaxGen => oc.gen + 1 \in 1..MaxGen
  BY <1>0, Limits DEF OC
<1>4. CASE Commit \/ Lose
  BY <1>0, <1>4, SilentType DEF Commit, Lose, Sets
<1>5. CASE RestartFence
  <2> DEFINE x(i) == [items[i] EXCEPT !.fenced = TRUE]
  <2>1. oc' \in OC
    BY <1>2, <1>5 DEF RestartFence, Phases
  <2>2. ASSUME NEW i \in ItemIds
        PROVE  /\ x(i) \in Item /\ x(i).state = items[i].state
               /\ x(i).n = items[i].n /\ x(i).requeue = items[i].requeue
               /\ x(i).custody = items[i].custody
               /\ x(i).closed = items[i].closed /\ x(i).recs = items[i].recs
    BY <1>0 DEF Item
  <2>3. \/ items' = items
        \/ items' = [i \in ItemIds |-> IF items[i].state = "dispatching" THEN x(i)
                                       ELSE items[i]]
    BY <1>5 DEF RestartFence
  <2> HIDE DEF x
  <2>4. items' \in [ItemIds -> Item] /\ \A j \in ItemIds : items'[j] \in {items[j], x(j)}
    BY <1>0, <2>2, <2>3
  <2>5. committed' = committed /\ loop' = loop /\ rec' = rec /\ watching' = watching
        /\ Sets'
    BY <1>0, <1>5, <2>1 DEF RestartFence, Sets
  <2>6. ItemsTyped' /\ SentIsDelivered'
    BY <1>0, <2>2, <2>4, <2>5
       DEF ItemsTyped, Budgets, PendingTyped, SentIsDelivered, Landed
  <2>7. \A j \in ItemIds : Calm(items[j], items'[j])
    BY <2>2, <2>4 DEF Calm
  <2> QED
    BY <2>5, <2>6, <2>7, OthersStay DEF TypeInv
<1>6. CASE RestartBegin \/ OldExit \/ AutoRestart
  <2>1. BumpWhileServing \in BOOLEAN /\ oc.gen \in 1..MaxGen
    BY <1>0, ChoicesAssumption DEF OC
  <2>2. \/ \E ph \in Phases : oc' = [oc EXCEPT !.phase = ph]
        \/ \E ph \in Phases : oc' = [phase |-> ph, gen |-> oc.gen]
        \/ /\ oc.gen < MaxGen
           /\ \E ph \in Phases : oc' = [phase |-> ph, gen |-> oc.gen + 1]
    BY <1>6, <2>1 DEF RestartBegin, OldExit, AutoRestart, MayAnnounce, Phases
  <2>3. oc' \in OC
    BY <1>1, <1>2, <1>3, <2>1, <2>2
  <2>4. Sets'
    BY <1>0, <1>6, <2>3 DEF RestartBegin, OldExit, AutoRestart, Sets
  <2> QED
    BY <1>6, <2>4, SilentType DEF RestartBegin, OldExit, AutoRestart
<1>7. CASE Die \/ Ready
  <2>1. oc' \in OC
    BY <1>2, <1>7 DEF Die, Ready, Phases
  <2>2. Sets'
    BY <1>0, <1>7, <2>1 DEF Die, Ready, Sets
  <2> QED
    BY <1>7, <2>2, SilentType DEF Die, Ready
<1>8. CASE Crash
  <2>1. oc' \in OC
    BY <1>1, <1>8, Limits DEF Crash, Phases
  <2>2. crashes' \in 0..MaxCrashes
    BY <1>0, <1>8, Limits DEF Crash, Sets
  <2>3. Sets'
    BY <1>0, <1>8, <2>1, <2>2 DEF Crash, Sets
  <2> QED
    BY <1>8, <2>3, SilentType DEF Crash
<1> QED
  BY <1>4, <1>5, <1>6, <1>7, <1>8 DEF OpenCode

LEMMA TimeTypes ==
    ASSUME TypeInv, Time
    PROVE  TypeInv'
<1>0. ItemsTyped /\ SentIsDelivered /\ items \in [ItemIds -> Item] /\ Sets
  BY DEF TypeInv, ItemsTyped
<1>1. ASSUME NEW i \in ItemIds, Age(i)
      PROVE  TypeInv'
  <2> DEFINE x == [items[i] EXCEPT !.aged = TRUE]
  <2>0. items[i] \in Item /\ Budget(items[i])
    BY <1>0, BudgetOf
  <2>1. /\ x \in Item /\ x.state = items[i].state /\ x.custody = items[i].custody
        /\ x.n = items[i].n /\ x.requeue = items[i].requeue
        /\ x.closed = items[i].closed /\ x.recs = items[i].recs
    BY <2>0 DEF Item
  <2>2. SetItem(i, x) /\ committed' = committed /\ items[i].state = "dispatching"
    BY <1>1 DEF Age
  <2> HIDE DEF x
  <2>3. ItemsTyped' /\ SentIsDelivered'
    BY <1>0, <2>0, <2>1, <2>2, OneItem DEF Budget, Sound
  <2>4. \A j \in ItemIds : Calm(items[j], items'[j])
    BY <1>0, <2>1, <2>2 DEF SetItem, Calm
  <2> QED
    BY <1>0, <1>1, <2>3, <2>4, ItemsType DEF Age, Sets
<1>2. ASSUME NEW i \in ItemIds, WindowEnd(i)
      PROVE  TypeInv'
  BY <1>0, <1>2, SilentType DEF WindowEnd, Sets
<1> QED
  BY <1>1, <1>2 DEF Time

LEMMA LoopStepType ==
    ASSUME TypeInv, ItemsTyped', SentIsDelivered', loop' \in Loop, LoopTyped',
           rec' = rec, watching' = watching, committed' = committed, oc' = oc,
           tab' = tab, crashes' = crashes, paced' \subseteq ItemIds,
           inflight' \subseteq ItemIds \X Attempts
    PROVE  TypeInv'
<1>1. RecTyped' /\ rec' \in Rec
  BY DEF TypeInv, RecTyped, Landed
<1>2. WatchTyped'
  BY DEF TypeInv, WatchTyped, Landed
<1>3. Sets'
  BY DEF TypeInv, Sets
<1> QED
  BY <1>1, <1>2, <1>3 DEF TypeInv

\* The loop moves on, on the same item or another.
LEMMA MovedHere ==
    ASSUME loop \in Loop, NEW pc \in LoopSteps
    PROVE  LET r == [loop EXCEPT !.pc = pc] IN
           /\ r \in Loop /\ r.pc = pc /\ r.item = loop.item /\ r.cands = loop.cands
           /\ r.verdict = loop.verdict /\ r.class = loop.class
           /\ r.tickGen = loop.tickGen /\ r.passGen = loop.passGen
BY DEF Loop

LEMMA MovedTo ==
    ASSUME loop \in Loop, NEW pc \in LoopSteps, NEW i \in 0..MaxItems
    PROVE  LET r == [loop EXCEPT !.pc = pc, !.item = i] IN
           /\ r \in Loop /\ r.pc = pc /\ r.item = i /\ r.cands = loop.cands
           /\ r.verdict = loop.verdict /\ r.class = loop.class
           /\ r.tickGen = loop.tickGen /\ r.passGen = loop.passGen
BY DEF Loop

LEMMA Positions ==
    /\ {"off", "idle", "pass", "next", "select"} \cap AtItem = {}
    /\ AtItem \subseteq LoopSteps /\ {"off", "idle", "pass", "next", "select"} \subseteq LoopSteps
    /\ 0 \in 0..MaxItems /\ ItemIds \subseteq 0..MaxItems
BY Limits DEF AtItem, LoopSteps, ItemIds

LEMMA OutcomeIs ==
    ASSUME NEW o \in PostOutcomes
    PROVE  /\ o[1] \in Classes
           /\ o[1] \in {"connect_failed", "server_error"} => ~o[2]
           /\ o[2] => Serving
<1>1. \/ o = <<"connect_failed", FALSE>> \/ o = <<"written_unknown", FALSE>>
      \/ Serving /\ o = <<"accepted_2xx", TRUE>>
      \/ Serving /\ o = <<"server_error", FALSE>>
      \/ Serving /\ o = <<"written_unknown", TRUE>>
  BY DEF PostOutcomes
<1>2. ASSUME NEW c, NEW t, o = <<c, t>>
      PROVE  o[1] = c /\ o[2] = t
  BY <1>2
<1>3. ASSUME NEW c \in {"connect_failed", "written_unknown", "server_error"},
             o = <<c, FALSE>>
      PROVE  o[1] \in Classes /\ ~o[2]
  <2>1. o[1] = c /\ o[2] = FALSE
    BY <1>2, <1>3
  <2>2. c \in Classes
    BY DEF Classes
  <2> QED
    BY <2>1, <2>2
<1>4. ASSUME NEW c \in {"accepted_2xx", "written_unknown"}, o = <<c, TRUE>>
      PROVE  o[1] \in Classes /\ ~(o[1] \in {"connect_failed", "server_error"})
  <2>1. o[1] = c
    BY <1>2, <1>4
  <2>2. c \in Classes /\ c \notin {"connect_failed", "server_error"}
    BY DEF Classes
  <2> QED
    BY <2>1, <2>2
<1> QED
  BY <1>1, <1>3, <1>4

\* The steps that change nothing but the loop and the pacing.
LEMMA WalkTypes ==
    ASSUME TypeInv,
           \/ LoopStart \/ TickStart \/ PassStart \/ PassNext \/ PassGet \/ Fenced
           \/ Post \/ \E busy \in BOOLEAN : Select(busy)
    PROVE  TypeInv'
<1>0. ItemsTyped /\ SentIsDelivered /\ Sets /\ loop \in Loop /\ LoopTyped
      /\ items \in [ItemIds -> Item]
  BY DEF TypeInv, ItemsTyped
<1>1. CASE LoopStart \/ Fenced
  BY <1>0, <1>1, SilentType DEF LoopStart, Fenced, Sets
<1>2. ASSUME items' = items, committed' = committed, rec' = rec, watching' = watching,
             oc' = oc, tab' = tab, crashes' = crashes, paced' \subseteq ItemIds,
             inflight' \subseteq ItemIds \X Attempts, loop' \in Loop, LoopTyped'
      PROVE  TypeInv'
  BY <1>0, <1>2, SameItems, LoopStepType
<1>3. CASE TickStart
  <2>1. oc.gen \in 0..MaxGen
    BY <1>0, Limits DEF Sets, OC
  <2>2. loop' \in Loop /\ loop'.pc = "pass"
    BY <1>0, <1>3, <2>1 DEF TickStart, Loop, LoopSteps
  <2>3. LoopTyped'
    BY <2>2, Positions DEF LoopTyped, AtItem
  <2> QED
    BY <1>0, <1>2, <1>3, <2>2, <2>3 DEF TickStart, Sets
<1>4. CASE PassStart
  <2> DEFINE eligible == {i \in ItemIds : CertifyEligible(items[i], oc.gen)}
             C == eligible \ paced
  <2>1. /\ loop' = [loop EXCEPT !.pc = "next", !.passGen = oc.gen, !.cands = C]
        /\ paced' = eligible
    BY <1>4 DEF PassStart
  <2>2. C \subseteq ItemIds /\ eligible \subseteq ItemIds
    OBVIOUS
  <2> HIDE DEF C, eligible
  <2>3. oc.gen \in 0..MaxGen
    BY <1>0, Limits DEF Sets, OC
  <2>4. loop' \in Loop /\ loop'.pc = "next"
    BY <1>0, <2>1, <2>2, <2>3 DEF Loop, LoopSteps
  <2>5. LoopTyped'
    BY <2>4 DEF LoopTyped, AtItem
  <2> QED
    BY <1>0, <1>2, <1>4, <2>1, <2>2, <2>4, <2>5 DEF PassStart, Sets
<1>5. CASE PassNext
  <2> DEFINE i == Oldest(loop.cands)
             C == loop.cands \ {i}
  <2>1. C \in SUBSET ItemIds /\ loop.cands \in SUBSET ItemIds
    BY <1>0 DEF Loop
  <2>2. loop.cands # {} => i \in ItemIds
    BY <2>1, OldestIs
  <2>3. \/ loop' = [loop EXCEPT !.pc = "select"]
        \/ loop.pc = "next" /\ loop' = [loop EXCEPT !.cands = C]
        \/ loop' = [loop EXCEPT !.pc = "get", !.item = i, !.cands = C] /\ loop.cands # {}
    BY <1>5 DEF PassNext
  <2> HIDE DEF i, C
  <2>4. loop' \in Loop /\ LoopTyped'
    <3>1. CASE loop' = [loop EXCEPT !.pc = "select"]
      BY <1>0, <3>1, MovedHere, Positions DEF LoopTyped, AtItem
    <3>2. CASE loop.pc = "next" /\ loop' = [loop EXCEPT !.cands = C]
      <4>1. loop' \in Loop /\ loop'.pc = "next"
        BY <1>0, <2>1, <3>2 DEF Loop
      <4> QED
        BY <4>1 DEF LoopTyped, AtItem
    <3>3. CASE loop' = [loop EXCEPT !.pc = "get", !.item = i, !.cands = C]
               /\ loop.cands # {}
      <4>1. i \in ItemIds /\ i \in 0..MaxItems /\ "get" \in LoopSteps
        BY <2>2, <3>3, Positions DEF LoopSteps
      <4>2. loop' \in Loop /\ loop'.pc = "get" /\ loop'.item = i
        BY ONLY <1>0, <2>1, <3>3, <4>1 DEF Loop
      <4> QED
        BY <4>1, <4>2 DEF LoopTyped, AtItem
    <3> QED
      BY <2>3, <3>1, <3>2, <3>3
  <2> QED
    BY <1>0, <1>2, <1>5, <2>4 DEF PassNext, Sets
<1>6. CASE PassGet
  <2>1. PICK v \in GetVerdicts(loop.item) :
            loop' = [loop EXCEPT !.pc = "act", !.verdict = v]
    BY <1>6 DEF PassGet
  <2>2. v \in Verdicts /\ (v = "exact" => Landed(loop.item) # {})
    BY <2>1 DEF GetVerdicts, Verdicts
  <2>3. /\ loop' \in Loop /\ loop'.pc = "act" /\ loop'.item = loop.item
        /\ loop'.verdict = v
    BY <1>0, <2>1, <2>2 DEF Loop, LoopSteps
  <2>4. loop.item \in ItemIds /\ committed' = committed
    BY <1>0, <1>6 DEF PassGet, LoopTyped, AtItem
  <2>5. LoopTyped'
    BY <2>2, <2>3, <2>4 DEF LoopTyped, Landed
  <2> QED
    BY <1>0, <1>2, <1>6, <2>3, <2>5 DEF PassGet, Sets
<1>7. ASSUME NEW busy \in BOOLEAN, Select(busy)
      PROVE  TypeInv'
  <2> DEFINE eligible(i) == items[i].policy = "now" \/ ~busy
             resumable == {i \in ItemIds : /\ items[i].state = "dispatching"
                                           /\ items[i].requeue /\ eligible(i)}
             waiting == {i \in ItemIds : items[i].state = "pending" /\ eligible(i)}
  <2>1. \/ /\ resumable # {}
           /\ loop' = [loop EXCEPT !.pc = "resume", !.item = Oldest(resumable)]
        \/ waiting # {} /\ loop' = [loop EXCEPT !.pc = "claim", !.item = Oldest(waiting)]
        \/ loop' = LoopAt("idle")
    BY <1>7 DEF Select
  <2>2. resumable \in SUBSET ItemIds /\ waiting \in SUBSET ItemIds
    OBVIOUS
  <2> HIDE DEF resumable, waiting
  <2>3. ASSUME NEW i \in ItemIds, NEW pc \in {"resume", "claim"},
               loop' = [loop EXCEPT !.pc = pc, !.item = i]
        PROVE  loop' \in Loop /\ LoopTyped'
    <3>1. i \in 0..MaxItems /\ pc \in LoopSteps
      BY <2>3, Positions DEF LoopSteps
    <3>2. loop' \in Loop /\ loop'.pc = pc /\ loop'.item = i
      BY <1>0, <2>3, <3>1, MovedTo
    <3> QED
      BY <2>3, <3>2 DEF LoopTyped
  <2>4. CASE loop' = LoopAt("idle")
    BY <1>0, <1>7, <2>4, SilentType DEF Select, Sets
  <2>5. CASE loop' # LoopAt("idle")
    <3>1. loop' \in Loop /\ LoopTyped'
      BY <2>1, <2>2, <2>3, <2>5, OldestIs
    <3> QED
      BY <1>0, <1>2, <1>7, <3>1 DEF Select, Sets
  <2> QED
    BY <2>4, <2>5
<1>8. CASE Post
  <2>1. loop.item \in ItemIds
    BY <1>0, <1>8 DEF Post, LoopTyped, AtItem
  <2>2. <<loop.item, items[loop.item].n>> \in ItemIds \X Attempts
    BY <1>0, <2>1 DEF Item
  <2>3. PICK o \in PostOutcomes :
            /\ loop' = [loop EXCEPT !.pc = "record", !.class = o[1]]
            /\ inflight' = IF o[2] THEN inflight \cup {<<loop.item, items[loop.item].n>>}
                           ELSE inflight
    BY <1>8 DEF Post
  <2>4. inflight' \subseteq ItemIds \X Attempts
    BY <1>0, <2>2, <2>3 DEF Sets
  <2>5. o[1] \in Classes
    BY <2>3, OutcomeIs
  <2>6. loop' \in Loop /\ loop'.pc = "record" /\ loop'.item = loop.item
    BY <1>0, <2>3, <2>5 DEF Loop, LoopSteps
  <2>7. LoopTyped'
    BY <2>1, <2>6 DEF LoopTyped
  <2> QED
    BY <1>0, <1>2, <1>8, <2>4, <2>6, <2>7 DEF Post, Sets
<1> QED
  BY <1>1, <1>3, <1>4, <1>5, <1>6, <1>7, <1>8

\* An item is written, and the loop moves on or ends its tick.
LEMMA WorkType ==
    ASSUME TypeInv, ItemsTyped', SentIsDelivered',
           \/ loop' = LoopAt("idle")
           \/ \E pc \in LoopSteps \ {"act"} :
                /\ loop' = [loop EXCEPT !.pc = pc]
                /\ pc \in AtItem => loop.item \in ItemIds
                /\ pc = "begin" => items'[loop.item].n < MaxAttempts /\ ~items'[loop.item].requeue
           \/ loop' = [loop EXCEPT !.pc = "next", !.item = 0],
           rec' = rec, watching' = watching, committed' = committed, oc' = oc,
           tab' = tab, crashes' = crashes, paced' \subseteq paced, inflight' = inflight
    PROVE  TypeInv'
<1>0. loop \in Loop /\ Sets
  BY DEF TypeInv
<1>1. CASE loop' = LoopAt("idle")
  BY <1>0, <1>1, LoopAtIs, LoopStepType DEF Sets, LoopTyped, LoopSteps, AtItem
<1>2. ASSUME NEW pc \in LoopSteps \ {"act"}, loop' = [loop EXCEPT !.pc = pc],
             pc \in AtItem => loop.item \in ItemIds,
             pc = "begin" => items'[loop.item].n < MaxAttempts /\ ~items'[loop.item].requeue
      PROVE  TypeInv'
  <2>1. loop' \in Loop /\ loop'.pc = pc /\ loop'.item = loop.item
    BY <1>0, <1>2, MovedHere
  <2>2. LoopTyped'
    BY <1>2, <2>1 DEF LoopTyped
  <2> QED
    BY <1>0, <2>1, <2>2, LoopStepType DEF Sets
<1>3. CASE loop' = [loop EXCEPT !.pc = "next", !.item = 0]
  <2>1. loop' \in Loop /\ loop'.pc = "next"
    BY ONLY <1>0, <1>3, Positions DEF Loop, LoopSteps
  <2>2. LoopTyped'
    BY <2>1 DEF LoopTyped, AtItem
  <2> QED
    BY <1>0, <2>1, <2>2, LoopStepType DEF Sets
<1> QED
  BY <1>1, <1>2, <1>3

\* The item the loop works on, and what a save makes of it.
ClaimedOf(it) == [it EXCEPT !.state = "dispatching", !.aged = FALSE, !.custody = TRUE]
ResumedOf(it) == [it EXCEPT !.requeue = FALSE]

LEMMA SavesAre ==
    ASSUME NEW it \in Item, Budget(it)
    PROVE  /\ LET x == ClaimedOf(it) IN
              /\ x \in Item /\ Budget(x) /\ x.state = "dispatching" /\ x.custody
              /\ x.n = it.n /\ x.oc = it.oc /\ x.class = it.class
              /\ x.requeue = it.requeue
           /\ LET x == ResumedOf(it) IN
              /\ x \in Item /\ Budget(x) /\ x.state = it.state
              /\ x.custody = it.custody /\ x.n = it.n /\ x.oc = it.oc
              /\ x.class = it.class /\ ~x.requeue
<1> DEFINE c == ClaimedOf(it)
           r == ResumedOf(it)
<1>1. /\ c \in Item /\ c.state = "dispatching" /\ c.custody = TRUE
      /\ c.n = it.n /\ c.oc = it.oc /\ c.class = it.class
      /\ c.requeue = it.requeue /\ c.closed = it.closed /\ c.recs = it.recs
  BY DEF ClaimedOf, Item, ItemStates
<1>2. /\ r \in Item /\ r.state = it.state
      /\ r.custody = it.custody /\ r.n = it.n /\ r.oc = it.oc
      /\ r.class = it.class /\ r.requeue = FALSE
      /\ r.closed = it.closed /\ r.recs = it.recs
  BY DEF ResumedOf, Item
<1> HIDE DEF c, r
<1>3. Budget(c) /\ Budget(r)
  BY <1>1, <1>2 DEF Budget
<1> QED
  BY <1>1, <1>2, <1>3 DEF c, r

LEMMA JournaledIs ==
    ASSUME NEW it \in Item, Budget(it), it.n < MaxAttempts, loop \in Loop
    PROVE  LET x == Journaled(it) IN
           /\ x \in Item /\ (~it.requeue => Budget(x)) /\ x.state = it.state
           /\ x.custody = it.custody /\ x.n = it.n + 1 /\ x.oc = loop.tickGen
           /\ x.class = "open" /\ x.requeue = it.requeue
<1> DEFINE x == Journaled(it)
           m == it.n + 1
<1>1. m \in Attempts /\ loop.tickGen \in 0..MaxGen
  BY Limits DEF Item, Attempts, Loop
<1>2. x = [it EXCEPT !.n = m, !.oc = loop.tickGen, !.class = "open"]
  BY DEF Journaled
<1> HIDE DEF x
<1>3. /\ x \in Item /\ x.state = it.state /\ x.custody = it.custody /\ x.n = m
      /\ x.oc = loop.tickGen /\ x.class = "open" /\ x.requeue = it.requeue
      /\ x.closed = it.closed /\ x.recs = it.recs
  BY <1>1, <1>2 DEF Item, Classes
<1> QED
  BY <1>3 DEF Budget, x

LEMMA RecordedIs ==
    ASSUME NEW it \in Item, Budget(it), NEW c \in Classes
    PROVE  LET x == Recorded(it, c) IN
           /\ x \in Item /\ Budget(x) /\ x.state = it.state
           /\ x.custody = it.custody /\ x.n = it.n /\ x.oc = it.oc
           /\ x.class = c /\ x.requeue = it.requeue
<1> DEFINE x == Recorded(it, c)
<1>1. /\ x \in Item /\ x.state = it.state /\ x.custody = it.custody /\ x.n = it.n
      /\ x.oc = it.oc /\ x.class = c /\ x.requeue = it.requeue
      /\ x.closed = it.closed /\ x.recs = it.recs
  BY DEF Recorded, Item
<1> HIDE DEF x
<1> QED
  BY <1>1 DEF Budget, x

\* The steps that save the item the loop works on.
LEMMA WorkTypes ==
    ASSUME TypeInv,
           \/ PassAct \/ ClaimPending \/ AgentGateRefuse \/ ItemForResume
           \/ BeginDispatchAttempt \/ RecordAttemptOutcome \/ ResolveServerErrorInline
    PROVE  TypeInv'
<1> DEFINE i == loop.item
           it == items[i]
<1>0. /\ ItemsTyped /\ SentIsDelivered /\ loop \in Loop /\ LoopTyped
      /\ items \in [ItemIds -> Item]
  BY DEF TypeInv, ItemsTyped
<1>1. i \in ItemIds /\ it \in Item /\ Budget(it)
  <2>1. i \in ItemIds
    BY <1>0 DEF LoopTyped, AtItem, PassAct, ClaimPending, AgentGateRefuse, ItemForResume,
                BeginDispatchAttempt, RecordAttemptOutcome, ResolveServerErrorInline
  <2> QED
    BY <1>0, <2>1, BudgetOf
<1>2. /\ rec' = rec /\ watching' = watching /\ committed' = committed /\ oc' = oc
      /\ tab' = tab /\ crashes' = crashes /\ paced' \subseteq paced
      /\ inflight' = inflight
  BY DEF PassAct, ClaimPending, AgentGateRefuse, ItemForResume, BeginDispatchAttempt,
         RecordAttemptOutcome, ResolveServerErrorInline, Requeue
<1> DEFINE ends == \/ loop' = LoopAt("idle")
                   \/ loop' = [loop EXCEPT !.pc = "next", !.item = 0]
<1> HIDE DEF i
\* Items are written and the tick ends, or the loop moves on here.
<1>3. ASSUME ItemsTyped', SentIsDelivered', ends PROVE TypeInv'
  BY <1>2, <1>3, WorkType
<1>4. ASSUME ItemsTyped', SentIsDelivered',
             NEW pc \in {"refuse", "begin", "post", "reject"},
             loop' = [loop EXCEPT !.pc = pc],
             pc = "begin" => items'[i].n < MaxAttempts /\ ~items'[i].requeue
      PROVE  TypeInv'
  <2>1. pc \in LoopSteps \ {"act"}
    BY DEF LoopSteps
  <2> QED
    BY <1>1, <1>2, <1>4, <2>1, WorkType DEF i
<1>5. ASSUME items' = items, ends PROVE TypeInv'
  BY <1>0, <1>2, <1>3, <1>5, SameItems
<1>6. ASSUME NEW x \in Item, SetItem(i, x), Budget(x), Sound(x, i),
             x.state \in {"none", "pending"} => x.n = 0 /\ ~x.requeue /\ ~x.custody
      PROVE  ItemsTyped' /\ SentIsDelivered' /\ items'[i] = x
  BY <1>0, <1>1, <1>2, <1>6, OneItem DEF SetItem, ItemsTyped
<1>7. ASSUME NEW target \in {"sent", "failed"}, Resolve(i, target), ends,
             target = "sent" => Landed(i) # {}
      PROVE  TypeInv'
  <2>1. ItemsTyped' /\ SentIsDelivered'
    BY <1>1, <1>2, <1>7, ResolveCounts
  <2> QED
    BY <1>3, <1>7, <2>1
<1>8. ASSUME BumpReconcileAttempt(i) \/ MarkReconcileTerminal(i), ends PROVE TypeInv'
  <2>1. ItemsTyped' /\ SentIsDelivered'
    BY <1>0, <1>1, <1>2, <1>8, LookUpIs
  <2> QED
    BY <1>3, <1>8, <2>1
<1>9. CASE PassAct
  <2>1. CASE loop.verdict = "exact" /\ Resolve(i, "sent") /\ ends
    <3>1. Landed(i) # {}
      BY <1>0, <1>9, <2>1 DEF PassAct, LoopTyped, i
    <3> QED
      BY <1>7, <2>1, <3>1
  <2>2. CASE Resolve(i, "failed") /\ ends
    BY <1>7, <2>2
  <2>3. CASE Requeue(i)
    <3>1. CASE loop' = LoopAt("idle") /\ items' = items
      BY <1>5, <3>1
    <3>2. CASE SetItem(i, Requeued(it)) /\ ends
      <4>1. /\ Requeued(it) \in Item /\ Budget(Requeued(it))
            /\ Requeued(it).state \in {"unknown", "dispatching"}
        BY <1>1, RequeuedIs
      <4>2. Sound(Requeued(it), i)
        BY <4>1 DEF Sound
      <4>3. ItemsTyped' /\ SentIsDelivered'
        BY <1>6, <3>2, <4>1, <4>2
      <4> QED
        BY <1>3, <3>2, <4>3
    <3> QED
      BY <2>3, <3>1, <3>2 DEF Requeue
  <2>4. CASE (MarkReconcileTerminal(i) \/ BumpReconcileAttempt(i)) /\ ends
    BY <1>8, <2>4
  <2>5. \/ loop.verdict = "exact" /\ Resolve(i, "sent") /\ ends
        \/ Resolve(i, "failed") /\ ends
        \/ Requeue(i)
        \/ (MarkReconcileTerminal(i) \/ BumpReconcileAttempt(i)) /\ ends
    BY <1>9 DEF PassAct, i
  <2> QED
    BY <2>1, <2>2, <2>3, <2>4, <2>5
<1>10. CASE ClaimPending
  <2>1. CASE loop' = LoopAt("idle") /\ items' = items
    BY <1>5, <2>1
  <2>2. ASSUME it.state = "pending", SetItem(i, ClaimedOf(it)),
               NEW pc \in {"refuse", "begin"}, loop' = [loop EXCEPT !.pc = pc]
        PROVE  TypeInv'
    <3>1. LET x == ClaimedOf(it) IN
          /\ x \in Item /\ Budget(x) /\ x.state = "dispatching"
          /\ x.n = it.n /\ x.requeue = it.requeue
      BY <1>1, SavesAre
    <3>2. it.n = 0 /\ ~it.requeue
      BY <1>0, <1>1, <2>2 DEF ItemsTyped, PendingTyped
    <3>3. ItemsTyped' /\ SentIsDelivered' /\ items'[i] = ClaimedOf(it)
      BY <1>6, <2>2, <3>1 DEF Sound
    <3> QED
      BY <1>4, <2>2, <3>1, <3>2, <3>3, Limits
  <2>3. \/ loop' = LoopAt("idle") /\ items' = items
        \/ /\ it.state = "pending" /\ SetItem(i, ClaimedOf(it))
           /\ \E pc \in {"refuse", "begin"} : loop' = [loop EXCEPT !.pc = pc]
    BY <1>10 DEF ClaimPending, AgentGate, ClaimedOf, i
  <2> QED
    BY <2>1, <2>2, <2>3
<1>11. CASE AgentGateRefuse \/ ResolveServerErrorInline
  BY <1>7, <1>11 DEF AgentGateRefuse, ResolveServerErrorInline, i
<1>12. CASE ItemForResume
  <2>1. CASE loop' = LoopAt("idle") /\ items' = items
    BY <1>5, <2>1
  <2>2. CASE /\ it.state = "dispatching" /\ it.requeue /\ SetItem(i, ResumedOf(it))
             /\ loop' = [loop EXCEPT !.pc = "begin"]
    <3>1. LET x == ResumedOf(it) IN
          /\ x \in Item /\ Budget(x) /\ x.state = it.state
          /\ x.n = it.n /\ ~x.requeue
      BY <1>1, SavesAre
    <3>2. it.n < MaxAttempts
      BY <1>1, <2>2 DEF Budget
    <3>3. ItemsTyped' /\ SentIsDelivered' /\ items'[i] = ResumedOf(it)
      BY <1>6, <2>2, <3>1 DEF Sound
    <3> QED
      BY <1>4, <2>2, <3>1, <3>2, <3>3
  <2> QED
    BY <1>12, <2>1, <2>2 DEF ItemForResume, ResumedOf, i
<1>13. CASE BeginDispatchAttempt
  <2>1. CASE loop' = LoopAt("idle") /\ items' = items
    BY <1>5, <2>1
  <2>2. CASE /\ it.state = "dispatching" /\ SetItem(i, Journaled(it))
             /\ loop' = [loop EXCEPT !.pc = "post"]
    <3>1. it.n < MaxAttempts /\ ~it.requeue
      BY <1>0, <1>13 DEF BeginDispatchAttempt, LoopTyped, i
    <3>2. LET x == Journaled(it) IN x \in Item /\ Budget(x) /\ x.state = it.state
      BY <1>0, <1>1, <3>1, JournaledIs
    <3>3. ItemsTyped' /\ SentIsDelivered'
      BY <1>6, <2>2, <3>2 DEF Sound
    <3> QED
      BY <1>4, <2>2, <3>3
  <2> QED
    BY <1>13, <2>1, <2>2 DEF BeginDispatchAttempt, i
<1>14. CASE RecordAttemptOutcome
  <2>1. CASE loop' = LoopAt("idle") /\ items' = items
    BY <1>5, <2>1
  <2>2. CASE /\ it.state \notin {"none", "gone"} /\ SetItem(i, Recorded(it, loop.class))
             /\ \/ loop' = LoopAt("idle")
                \/ loop' = [loop EXCEPT !.pc = "reject"]
    <3>1. loop.class \in Classes
      BY <1>0 DEF Loop
    <3>2. LET x == Recorded(it, loop.class) IN
          /\ x \in Item /\ Budget(x) /\ x.state = it.state /\ x.custody = it.custody
          /\ x.n = it.n /\ x.requeue = it.requeue
      BY <1>1, <3>1, RecordedIs
    <3>3. it.state \in {"none", "pending"} => it.n = 0 /\ ~it.requeue /\ ~it.custody
      BY <1>0, <1>1 DEF ItemsTyped, PendingTyped
    <3>4. Sound(it, i)
      BY <1>0, <1>1 DEF SentIsDelivered, Sound
    <3>5. ItemsTyped' /\ SentIsDelivered'
      BY <1>6, <2>2, <3>2, <3>3, <3>4 DEF Sound
    <3> QED
      BY <1>3, <1>4, <2>2, <3>5
  <2> QED
    BY <1>14, <2>1, <2>2 DEF RecordAttemptOutcome, i
<1> QED
  BY <1>9, <1>10, <1>11, <1>12, <1>13, <1>14

LEMMA InitTypes == Init => TypeInv
<1> SUFFICES ASSUME Init PROVE TypeInv
  OBVIOUS
<1>1. items \in [ItemIds -> Item] /\ \A i \in ItemIds : items[i] = NoItem
  BY NoItemIs DEF Init
<1>2. ItemsTyped /\ SentIsDelivered
  BY <1>1, Limits DEF ItemsTyped, Budgets, PendingTyped, SentIsDelivered, NoItem
<1>3. loop \in Loop /\ LoopTyped
  BY LoopAtIs DEF Init, LoopTyped, AtItem, LoopSteps
<1>4. rec \in Rec /\ RecTyped
  BY Limits DEF Init, RecOff, Rec, RecTyped, Verdicts
<1>5. WatchTyped /\ Sets
  BY Limits DEF Init, WatchTyped, Sets, OC, Phases
<1> QED
  BY <1>2, <1>3, <1>4, <1>5 DEF TypeInv

LEMMA StepTypes == TypeInv /\ [Next]_vars => TypeInv'
<1> SUFFICES ASSUME TypeInv, [Next]_vars PROVE TypeInv'
  OBVIOUS
<1>1. CASE UNCHANGED vars
  BY <1>1 DEF vars, TypeInv, ItemsTyped, Budgets, PendingTyped, SentIsDelivered, Landed,
              LoopTyped, RecTyped, WatchTyped, Sets
<1>2. CASE Next
  BY <1>2, WalkTypes, WorkTypes, HandlerTypes, BackgroundTypes, OpenCodeTypes, TimeTypes
     DEF Next, LoopStep, Advance
<1> QED
  BY <1>1, <1>2

\* Every variable keeps its shape: no step of the loop, the reconciler, the
\* watcher, a handler or OpenCode leaves the states the program can be in.
THEOREM TypeCorrect == Spec => []TypeOK
<1>1. TypeInv => TypeOK
  BY DEF TypeInv, TypeOK, ItemsTyped, Sets
<1> QED
  BY <1>1, InitTypes, StepTypes, PTL DEF Spec

\* An item the daemon dispatched is shown as sent only when OpenCode holds the
\* message: every path that resolves to sent (certifiedRecoveryPass,
\* reconcileOne, the delivery watcher) follows an exact-ID match, whatever
\* restarts and crashes come between the match and the save.
THEOREM SentOnlyIfDelivered == Spec => []SentIsDelivered
<1>1. TypeInv => SentIsDelivered
  BY DEF TypeInv
<1> QED
  BY <1>1, InitTypes, StepTypes, PTL DEF Spec

-----------------------------------------------------------------------------
(* At most one POST of a message is ever taken.                            *)

\* What the two dispatch runs assume where the barrier is certified: a restart
\* is announced only when the old process is gone and no tick is under way.
CalmRestarts == BarrierCertified => ~BumpWhileServing /\ ~RestartDuringTick

\* An item whose next POST would be the first to be taken.
Unsent(it) == \/ it.state \in {"none", "pending", "failed"}
              \/ it.requeue
              \/ it.custody /\ (it.n = 0 \/ it.class \in {"connect_failed", "server_error"})

ItemOk(i) ==
    /\ Unsent(items[i]) \/ i \in tab => Deliveries(i) = {}
    /\ items[i].requeue \/ items[i].state = "failed" => items[i].custody
    /\ i \in tab => ~items[i].custody /\ items[i].state \notin {"none", "pending"}
ItemInv == \A i \in ItemIds : ItemOk(i)
OneTaken == \A d, e \in inflight \cup committed : d[1] = e[1] => d = e
\* What may still be persisted was journaled under the running incarnation.
GenInv == BarrierCertified =>
    \A d \in inflight : items[d[1]].custody => oc.gen <= items[d[1]].oc
OcInv == oc.phase \in {"down", "starting"} => inflight = {}

\* The loop has taken the item up, and nobody else may send it.
TakenUp ==
    loop.pc \in {"refuse", "begin", "post", "record", "reject"} =>
        /\ loop.item \notin tab
        /\ items[loop.item].state \notin {"none", "pending", "failed"}
        /\ items[loop.item].custody \/ items[loop.item].state = "gone"
        /\ ~items[loop.item].requeue
Unposted ==
    loop.pc \in {"refuse", "begin", "post", "reject"} => Deliveries(loop.item) = {}
Posting ==
    /\ loop.pc = "post" /\ items[loop.item].custody =>
         /\ items[loop.item].n > 0 /\ items[loop.item].class = "open"
         /\ BarrierCertified => oc.gen <= items[loop.item].oc
    /\ loop.pc = "record" /\ loop.class \in {"connect_failed", "server_error"} =>
         Deliveries(loop.item) = {}
\* A 404 after a restart tells that nothing was taken.
Certified ==
    /\ loop.pc \in {"next", "get", "act"} => loop.passGen <= oc.gen
    /\ BarrierCertified /\ loop.pc \notin {"off", "idle"} => loop.tickGen = oc.gen
    /\ /\ BarrierCertified /\ loop.pc = "act" /\ loop.verdict = "404"
       /\ items[loop.item].custody /\ items[loop.item].oc < loop.passGen
       => Deliveries(loop.item) = {}

LoopInv == TakenUp /\ Unposted /\ Posting /\ Certified

DispatchInv == TypeInv /\ ItemInv /\ OneTaken /\ GenInv /\ OcInv /\ LoopInv

LEMMA QuietItem ==
    ASSUME NEW i \in ItemIds, ItemOk(i), Quieter(items[i], items'[i]),
           tab' \subseteq tab, Deliveries(i)' \subseteq Deliveries(i)
    PROVE  ItemOk(i)'
<1>1. CASE items'[i] = Gone
  BY <1>1, NoItemIs DEF ItemOk, Unsent
<1>2. CASE items'[i] # Gone
  <2>1. Unsent(items'[i]) => Unsent(items[i])
    BY <1>2 DEF Quieter, Unsent
  <2> QED
    BY <1>2, <2>1 DEF Quieter, ItemOk
<1> QED
  BY <1>1, <1>2

LEMMA QuietLoop ==
    ASSUME TypeInv, LoopInv, \A j \in ItemIds : Quieter(items[j], items'[j]),
           tab' \subseteq tab, \A j \in ItemIds : Deliveries(j)' \subseteq Deliveries(j),
           loop' = loop, oc.gen <= oc'.gen, oc.gen \in Nat, oc'.gen \in Nat,
           BarrierCertified => oc'.gen = oc.gen \/ loop.pc \in {"off", "idle"}
    PROVE  LoopInv'
<1> DEFINE i == loop.item
<1>1. loop.pc \in AtItem => i \in ItemIds
  BY DEF TypeInv, LoopTyped
<1>2. loop.pc \in AtItem => Quieter(items[i], items'[i]) /\ Deliveries(i)' \subseteq Deliveries(i)
  BY <1>1
<1>3. loop \in Loop
  BY DEF TypeInv
<1>4. TakenUp'
  BY <1>1, <1>2, NoItemIs DEF LoopInv, TakenUp, Quieter, AtItem
<1>5. Unposted'
  BY <1>1, <1>2 DEF LoopInv, Unposted, AtItem
<1>6. Posting'
  <2>1. CASE loop.pc = "post" /\ items'[i].custody
    <3>1. items'[i] # Gone
      BY <2>1, NoItemIs
    <3> QED
      BY <1>2, <2>1, <3>1 DEF LoopInv, Posting, Quieter, AtItem
  <2>2. CASE ~(loop.pc = "post" /\ items'[i].custody)
    BY <1>1, <1>2, <2>2 DEF LoopInv, Posting, AtItem
  <2> QED
    BY <2>1, <2>2
<1>7. Certified'
  <2>1. loop.passGen \in Nat
    BY <1>3, Limits DEF Loop
  <2>2. loop.pc \in {"next", "get", "act"} => loop.passGen <= oc'.gen
    BY <2>1 DEF LoopInv, Certified
  <2>3. ASSUME BarrierCertified, loop.pc = "act", loop.verdict = "404",
               items'[i].custody, items'[i].oc < loop.passGen
        PROVE  Deliveries(i)' = {}
    <3>1. items'[i] # Gone
      BY <2>3, NoItemIs
    <3>2. items[i].custody /\ items[i].oc < loop.passGen
      BY <1>2, <2>3, <3>1 DEF Quieter, AtItem
    <3> QED
      BY <1>2, <2>3, <3>2 DEF LoopInv, Certified, AtItem
  <2> QED
    BY <2>2, <2>3 DEF LoopInv, Certified
<1> QED
  BY <1>4, <1>5, <1>6, <1>7 DEF LoopInv

LEMMA RestingLoop ==
    ASSUME loop' = LoopAt("off") \/ loop' = LoopAt("idle")
    PROVE  LoopInv'
BY LoopAtIs DEF LoopInv, TakenUp, Unposted, Posting, Certified, LoopSteps

\* Any step that posts nothing and writes no journal.
LEMMA QuietStep ==
    ASSUME DispatchInv, TypeInv', OcInv',
           \A j \in ItemIds : Quieter(items[j], items'[j]),
           tab' \subseteq tab, inflight' \subseteq inflight,
           committed' \subseteq inflight \cup committed,
           BarrierCertified => inflight' = {} \/ oc'.gen <= oc.gen,
           \/ loop' = LoopAt("off") \/ loop' = LoopAt("idle")
           \/ /\ loop' = loop /\ oc.gen <= oc'.gen
              /\ BarrierCertified => oc'.gen = oc.gen \/ loop.pc \in {"off", "idle"}
    PROVE  DispatchInv'
<1>1. \A j : Deliveries(j)' \subseteq Deliveries(j)
  BY DEF Deliveries
<1>2. oc.gen \in Nat /\ oc'.gen \in Nat /\ items \in [ItemIds -> Item]
  BY Limits DEF DispatchInv, TypeInv, ItemsTyped, Sets, OC
<1>3. ItemInv'
  BY <1>1, QuietItem DEF DispatchInv, ItemInv
<1>4. OneTaken'
  BY DEF DispatchInv, OneTaken
<1>5. GenInv'
  <2> SUFFICES ASSUME BarrierCertified, NEW d \in inflight', items'[d[1]].custody
               PROVE  oc'.gen <= items'[d[1]].oc
    BY DEF GenInv
  <2>1. d \in inflight /\ d[1] \in ItemIds /\ oc'.gen <= oc.gen
    BY DEF DispatchInv, TypeInv, Sets
  <2>2. items'[d[1]] # Gone
    BY NoItemIs
  <2>3. items[d[1]].custody /\ items'[d[1]].oc = items[d[1]].oc
    BY <2>1, <2>2 DEF Quieter
  <2>4. items[d[1]].oc \in Nat
    BY <1>2, <2>1, Limits DEF Item
  <2> QED
    BY <1>2, <2>1, <2>3, <2>4 DEF DispatchInv, GenInv
<1>6. LoopInv'
  BY <1>1, <1>2, QuietLoop, RestingLoop DEF DispatchInv
<1> QED
  BY <1>3, <1>4, <1>5, <1>6 DEF DispatchInv

LEMMA SentIsQuiet ==
    ASSUME TypeInv, NEW i \in ItemIds, Resolve(i, "sent"), committed' = committed,
           Landed(i) # {}
    PROVE  \A j \in ItemIds : Quieter(items[j], items'[j])
<1>1. ItemsTyped /\ SentIsDelivered
  BY DEF TypeInv
<1>2. /\ \A j \in ItemIds : j # i => items'[j] = items[j]
      /\ items'[i].custody = items[i].custody /\ items'[i].n = items[i].n
      /\ items'[i].oc = items[i].oc /\ items'[i].class = items[i].class
      /\ items'[i].requeue = items[i].requeue
      /\ \/ items'[i].state = items[i].state
         \/ items[i].state \in {"dispatching", "unknown"} /\ items'[i].state = "sent"
  BY <1>1, ResolveIs
<1> QED
  BY <1>2 DEF Quieter

\* Steps of others: neither OpenCode nor the loop's position moves.
LEMMA OthersQuiet ==
    ASSUME DispatchInv, TypeInv', \A j \in ItemIds : Quieter(items[j], items'[j]),
           tab' \subseteq tab, inflight' \subseteq inflight,
           committed' \subseteq inflight \cup committed, oc'.gen = oc.gen,
           oc'.phase = oc.phase \/ oc'.phase \in {"fenced", "ready"},
           loop' = loop \/ loop' = LoopAt("off") \/ loop' = LoopAt("idle")
    PROVE  DispatchInv'
<1>1. oc.gen \in Nat
  BY Limits DEF DispatchInv, TypeInv, Sets, OC
<1>2. OcInv'
  BY DEF DispatchInv, OcInv
<1> QED
  BY <1>1, <1>2, QuietStep

LEMMA HandlerDispatch ==
    ASSUME DispatchInv, Handler
    PROVE  DispatchInv'
<1>0. /\ TypeInv /\ TypeInv' /\ items \in [ItemIds -> Item] /\ ItemsTyped
      /\ ItemInv /\ OneTaken /\ GenInv /\ OcInv /\ LoopInv
  BY HandlerTypes DEF DispatchInv, TypeInv, ItemsTyped
\* A client writes an item nobody has sent and the loop does not work on.
<1>1. ASSUME NEW i \in ItemIds, items[i].state \in {"none", "pending"},
             NEW x, SetItem(i, x), ~x.custody, ~x.requeue,
             x.state \in {"pending", "dispatching"},
             tab' = IF x.state = "pending" THEN tab ELSE tab \cup {i},
             loop' = loop, oc' = oc, inflight' = inflight, committed' = committed
      PROVE  DispatchInv'
  <2>1. items'[i] = x /\ \A j \in ItemIds : j # i => items'[j] = items[j]
    BY <1>0, <1>1 DEF SetItem
  <2>2. \A j : Deliveries(j)' = Deliveries(j)
    BY <1>1 DEF Deliveries
  <2>3. Deliveries(i) = {} /\ i \notin tab
    BY <1>0, <1>1 DEF ItemInv, ItemOk, Unsent
  <2>4. ItemInv'
    <3> SUFFICES ASSUME NEW j \in ItemIds PROVE ItemOk(j)'
      BY DEF ItemInv
    <3>1. CASE j = i
      BY <1>1, <2>1, <2>2, <2>3, <3>1 DEF ItemOk
    <3>2. CASE j # i
      BY <1>0, <1>1, <2>1, <2>2, <3>2 DEF ItemInv, ItemOk
    <3> QED
      BY <3>1, <3>2
  <2>5. OneTaken' /\ OcInv'
    BY <1>0, <1>1 DEF OneTaken, OcInv
  <2>6. GenInv'
    <3>1. \A d \in inflight : d[1] \in ItemIds
      BY <1>0 DEF TypeInv, Sets
    <3> QED
      BY <1>0, <1>1, <2>1, <3>1 DEF GenInv
  <2>7. LoopInv'
    <3>1. loop.pc \in AtItem => loop.item \in ItemIds
      BY <1>0 DEF TypeInv, LoopTyped
    <3>2. CASE loop.item # i
      BY <1>0, <1>1, <2>1, <2>2, <3>1, <3>2
         DEF LoopInv, TakenUp, Unposted, Posting, Certified, AtItem
    <3>3. CASE loop.item = i
      <4>1. loop.pc \notin {"refuse", "begin", "post", "record", "reject"}
        BY <1>0, <1>1, <3>3 DEF LoopInv, TakenUp
      <4> QED
        BY <1>0, <1>1, <2>1, <3>3, <4>1
           DEF LoopInv, TakenUp, Unposted, Posting, Certified
    <3> QED
      BY <3>2, <3>3
  <2> QED
    BY <1>0, <2>4, <2>5, <2>6, <2>7 DEF DispatchInv
<1>2. ASSUME NEW i \in ItemIds, NEW p \in Policies, Enqueue(i, p)
      PROVE  DispatchInv'
  <2> DEFINE x == [NoItem EXCEPT !.state = "pending", !.policy = p]
  <2>1. x.state = "pending" /\ x.custody = FALSE /\ x.requeue = FALSE
    BY DEF NoItem
  <2>2. /\ SetItem(i, x) /\ items[i].state = "none" /\ tab' = tab
        /\ loop' = loop /\ oc' = oc /\ inflight' = inflight /\ committed' = committed
    BY <1>2 DEF Enqueue
  <2> HIDE DEF x
  <2> QED
    BY <1>1, <2>1, <2>2
<1>3. ASSUME NEW i \in ItemIds, LegacyClaim(i)
      PROVE  DispatchInv'
  <2> DEFINE x == [items[i] EXCEPT !.state = "dispatching", !.aged = FALSE]
  <2>1. ~items[i].custody /\ ~items[i].requeue /\ items[i].state = "pending"
    BY <1>0, <1>3 DEF LegacyClaim, ItemsTyped, PendingTyped
  <2>2. x.state = "dispatching" /\ x.custody = items[i].custody
        /\ x.requeue = items[i].requeue
    BY <1>0 DEF Item
  <2>3. /\ SetItem(i, x) /\ tab' = tab \cup {i}
        /\ loop' = loop /\ oc' = oc /\ inflight' = inflight /\ committed' = committed
    BY <1>3 DEF LegacyClaim
  <2> HIDE DEF x
  <2> QED
    BY <1>1, <2>1, <2>2, <2>3
<1>4. ASSUME NEW i \in ItemIds, Remove(i)
      PROVE  DispatchInv'
  <2>1. \A j \in ItemIds : Quieter(items[j], items'[j])
    BY <1>0, <1>4 DEF Remove, SetItem, Gone, Quieter
  <2> QED
    BY <1>0, <1>4, <2>1, OthersQuiet DEF Remove
<1>5. CASE List
  <2> DEFINE cured(i) == [items[i] EXCEPT !.state = "unknown"]
  <2>1. ASSUME NEW i \in ItemIds, Stale(items[i]) PROVE Quieter(items[i], cured(i))
    <3>1. /\ cured(i).state = "unknown" /\ cured(i).custody = items[i].custody
          /\ cured(i).n = items[i].n /\ cured(i).oc = items[i].oc
          /\ cured(i).class = items[i].class /\ cured(i).requeue = items[i].requeue
      BY <1>0 DEF Item
    <3> HIDE DEF cured
    <3> QED
      BY <2>1, <3>1 DEF Stale, Quieter
  <2>2. \/ items' = items
        \/ items' = [i \in ItemIds |-> IF Stale(items[i]) THEN cured(i) ELSE items[i]]
    BY <1>5 DEF List
  <2> HIDE DEF cured
  <2>3. \A j \in ItemIds : Quieter(items[j], items'[j])
    <3>1. \A j \in ItemIds : Quieter(items[j], items[j])
      BY DEF Quieter
    <3> QED
      BY <2>1, <2>2, <3>1
  <2> QED
    BY <1>0, <1>5, <2>3, OthersQuiet DEF List
<1>6. ASSUME NEW i \in ItemIds, LegacyPost(i)
      PROVE  DispatchInv'
  <2>1. CASE inflight' = inflight
    <3>1. \A j \in ItemIds : Quieter(items[j], items'[j])
      BY <1>6 DEF LegacyPost, Quieter
    <3> QED
      BY <1>0, <1>6, <2>1, <3>1, OthersQuiet DEF LegacyPost
  <2>2. CASE inflight' = inflight \cup {<<i, 0>>} /\ Serving
    <3> DEFINE d == <<i, 0>>
    <3>1. /\ items' = items /\ loop' = loop /\ oc' = oc /\ committed' = committed
          /\ tab' = tab \ {i} /\ i \in tab /\ inflight' = inflight \cup {d} /\ d[1] = i
      BY <1>6, <2>2 DEF LegacyPost
    <3> HIDE DEF d
    <3>2. /\ Deliveries(i) = {} /\ ~items[i].custody /\ ~items[i].requeue
          /\ items[i].state \notin {"none", "pending", "failed"}
      BY <1>0, <3>1 DEF ItemInv, ItemOk
    <3>3. \A j : j # i => Deliveries(j)' = Deliveries(j)
      BY <3>1 DEF Deliveries
    <3>4. ItemInv'
      <4> SUFFICES ASSUME NEW j \in ItemIds PROVE ItemOk(j)'
        BY DEF ItemInv
      <4>1. CASE j = i
        BY <3>1, <3>2, <4>1 DEF ItemOk, Unsent
      <4>2. CASE j # i
        BY <1>0, <3>1, <3>3, <4>2 DEF ItemInv, ItemOk
      <4> QED
        BY <4>1, <4>2
    <3>5. OneTaken'
      BY <1>0, <3>1, <3>2 DEF OneTaken, Deliveries
    <3>6. GenInv' /\ OcInv'
      BY <1>0, <2>2, <3>1, <3>2 DEF GenInv, OcInv, Serving
    <3>7. LoopInv'
      <4>1. CASE loop.item # i
        BY <1>0, <3>1, <3>3, <4>1 DEF LoopInv, TakenUp, Unposted, Posting, Certified
      <4>2. CASE loop.item = i
        BY <1>0, <3>1, <3>2, <4>2 DEF LoopInv, TakenUp, Unposted, Posting, Certified
      <4> QED
        BY <4>1, <4>2
    <3> QED
      BY <1>0, <3>4, <3>5, <3>6, <3>7 DEF DispatchInv
  <2> QED
    BY <1>6, <2>1, <2>2 DEF LegacyPost
<1> QED
  BY <1>2, <1>3, <1>4, <1>5, <1>6 DEF Handler

LEMMA BackgroundDispatch ==
    ASSUME DispatchInv, Background \/ Time
    PROVE  DispatchInv'
<1>0. /\ TypeInv /\ TypeInv' /\ items \in [ItemIds -> Item] /\ ItemsTyped
      /\ SentIsDelivered /\ RecTyped /\ WatchTyped
  BY BackgroundTypes, TimeTypes DEF DispatchInv, TypeInv, ItemsTyped
<1>1. ASSUME items' = items PROVE \A j \in ItemIds : Quieter(items[j], items'[j])
  BY <1>1 DEF Quieter
<1>2. CASE RecSnapshot \/ RecGet
  BY <1>0, <1>1, <1>2, OthersQuiet DEF RecSnapshot, RecGet
<1>3. CASE RecAct
  <2>1. /\ rec.item \in ItemIds /\ committed' = committed
        /\ rec.verdict = "exact" => Landed(rec.item) # {}
    BY <1>0, <1>3 DEF RecAct, RecTyped
  <2>2. \/ Resolve(rec.item, "sent") /\ rec.verdict = "exact"
        \/ MarkReconcileTerminal(rec.item)
        \/ BumpReconcileAttempt(rec.item)
    BY <1>3 DEF RecAct
  <2>3. \A j \in ItemIds : Quieter(items[j], items'[j])
    BY <1>0, <2>1, <2>2, SentIsQuiet, LookUpIs
  <2> QED
    BY <1>0, <1>3, <2>3, OthersQuiet DEF RecAct
<1>4. ASSUME NEW i \in ItemIds, WatchMatch(i)
      PROVE  DispatchInv'
  BY <1>0, <1>1, <1>4, OthersQuiet DEF WatchMatch
<1>5. ASSUME NEW i \in ItemIds, WatchResolve(i)
      PROVE  DispatchInv'
  <2>1. Landed(i) # {}
    BY <1>0, <1>5 DEF WatchResolve, WatchTyped
  <2>2. \A j \in ItemIds : Quieter(items[j], items'[j])
    BY <1>0, <1>5, <2>1, SentIsQuiet DEF WatchResolve
  <2> QED
    BY <1>0, <1>5, <2>2, OthersQuiet DEF WatchResolve
<1>6. ASSUME NEW i \in ItemIds, Age(i)
      PROVE  DispatchInv'
  <2> DEFINE x == [items[i] EXCEPT !.aged = TRUE]
  <2>1. /\ x.state = items[i].state /\ x.custody = items[i].custody
        /\ x.n = items[i].n /\ x.oc = items[i].oc /\ x.class = items[i].class
        /\ x.requeue = items[i].requeue
    BY <1>0 DEF Item
  <2>2. SetItem(i, x)
    BY <1>6 DEF Age
  <2> HIDE DEF x
  <2>3. \A j \in ItemIds : Quieter(items[j], items'[j])
    BY <1>0, <2>1, <2>2 DEF SetItem, Quieter
  <2> QED
    BY <1>0, <1>6, <2>3, OthersQuiet DEF Age
<1>7. ASSUME NEW i \in ItemIds, WindowEnd(i)
      PROVE  DispatchInv'
  BY <1>0, <1>1, <1>7, OthersQuiet DEF WindowEnd
<1> QED
  BY <1>2, <1>3, <1>4, <1>5, <1>6, <1>7 DEF Background, Time

\* Where the hypothesis about restarts is used.
LEMMA OpenCodeDispatch ==
    ASSUME CalmRestarts, DispatchInv, OpenCode \/ Crash
    PROVE  DispatchInv'
<1>0. /\ TypeInv /\ TypeInv' /\ items \in [ItemIds -> Item] /\ OcInv
      /\ oc \in OC /\ oc' \in OC
  BY OpenCodeTypes DEF DispatchInv, TypeInv, ItemsTyped, Sets
<1>1. ASSUME items' = items PROVE \A j \in ItemIds : Quieter(items[j], items'[j])
  BY <1>1 DEF Quieter
<1>2. /\ oc.gen \in Nat /\ oc.gen >= 1
      /\ BarrierCertified \in BOOLEAN /\ BumpWhileServing \in BOOLEAN
      /\ RestartDuringTick \in BOOLEAN
  BY <1>0, Limits DEF OC
<1>3. CASE Commit \/ Lose
  BY <1>0, <1>1, <1>3, OthersQuiet DEF Commit, Lose
<1>4. CASE RestartFence
  <2> DEFINE x(i) == [items[i] EXCEPT !.fenced = TRUE]
  <2>1. ASSUME NEW i \in ItemIds PROVE Quieter(items[i], x(i))
    <3>1. /\ x(i).state = items[i].state /\ x(i).custody = items[i].custody
          /\ x(i).n = items[i].n /\ x(i).oc = items[i].oc
          /\ x(i).class = items[i].class /\ x(i).requeue = items[i].requeue
      BY <1>0 DEF Item
    <3> HIDE DEF x
    <3> QED
      BY <3>1 DEF Quieter
  <2>2. \/ items' = items
        \/ items' = [i \in ItemIds |-> IF items[i].state = "dispatching" THEN x(i)
                                       ELSE items[i]]
    BY <1>4 DEF RestartFence
  <2> HIDE DEF x
  <2>3. \A j \in ItemIds : Quieter(items[j], items'[j])
    <3>1. \A j \in ItemIds : Quieter(items[j], items[j])
      BY DEF Quieter
    <3> QED
      BY <2>1, <2>2, <3>1
  <2>4. oc'.gen = oc.gen /\ oc'.phase = "fenced"
    BY <1>0, <1>4 DEF RestartFence, OC
  <2> QED
    BY <1>0, <1>4, <2>3, <2>4, OthersQuiet DEF RestartFence
<1>5. CASE RestartBegin \/ OldExit \/ AutoRestart
  <2>1. /\ inflight' \subseteq inflight /\ items' = items /\ committed' = committed
        /\ tab' = tab /\ loop' = loop
    BY <1>5 DEF RestartBegin, OldExit, AutoRestart
  <2>2. oc'.gen \in {oc.gen, oc.gen + 1} /\ OcInv'
    BY <1>0, <1>5 DEF OcInv, RestartBegin, OldExit, AutoRestart, OC
  <2>3. CASE oc'.gen = oc.gen
    BY <1>0, <1>1, <1>2, <2>1, <2>2, <2>3, QuietStep
  <2>4. CASE oc'.gen = oc.gen + 1
    <3>1. BarrierCertified => ~BumpWhileServing /\ loop.pc \in {"off", "idle"}
      BY <1>0, <1>2, <1>5, <2>4
         DEF CalmRestarts, RestartBegin, OldExit, AutoRestart, MayAnnounce, OC
    <3>2. BarrierCertified => inflight' = {}
      BY <1>0, <1>2, <1>5, <2>4, <3>1 DEF OcInv, RestartBegin, OldExit, AutoRestart, OC
    <3> QED
      BY <1>0, <1>1, <1>2, <2>1, <2>2, <2>4, <3>1, <3>2, QuietStep
  <2> QED
    BY <2>2, <2>3, <2>4
<1>6. CASE Die \/ Ready
  <2>1. oc'.gen = oc.gen /\ inflight' \subseteq inflight /\ items' = items
        /\ committed' = committed /\ tab' = tab /\ loop' = loop
    BY <1>0, <1>6 DEF Die, Ready, OC
  <2>2. OcInv'
    BY <1>0, <1>6 DEF OcInv, Die, Ready, OC
  <2> QED
    BY <1>0, <1>1, <1>2, <2>1, <2>2, QuietStep
<1>7. CASE Crash
  <2>1. /\ oc'.gen = 1 /\ inflight' \subseteq inflight /\ items' = items
        /\ committed' = committed /\ tab' = tab /\ loop' = LoopAt("off")
    BY <1>7 DEF Crash
  <2>2. OcInv'
    BY <1>7 DEF OcInv, Crash
  <2> QED
    BY <1>0, <1>1, <1>2, <2>1, <2>2, QuietStep
<1> QED
  BY <1>3, <1>4, <1>5, <1>6, <1>7 DEF OpenCode

-----------------------------------------------------------------------------
(* The loop.                                                               *)

\* The loop moves and writes nothing.
LEMMA LoopOnly ==
    ASSUME DispatchInv, TypeInv', LoopInv', items' = items, tab' = tab, oc' = oc,
           inflight' = inflight, committed' = committed
    PROVE  DispatchInv'
BY DEF DispatchInv, ItemInv, ItemOk, Deliveries, OneTaken, GenInv, OcInv

\* It saves one item and posts nothing.
LEMMA LoopSaves ==
    ASSUME DispatchInv, TypeInv', NEW i \in ItemIds, ItemOk(i)', LoopInv',
           \A j \in ItemIds : j # i => items'[j] = items[j],
           tab' = tab, oc' = oc, inflight' = inflight, committed' = committed,
           \/ Deliveries(i) = {}
           \/ items'[i].custody => items[i].custody /\ items'[i].oc = items[i].oc
    PROVE  DispatchInv'
<1>1. \A j : Deliveries(j)' = Deliveries(j)
  BY DEF Deliveries
<1>2. ItemInv'
  BY <1>1 DEF DispatchInv, ItemInv, ItemOk
<1>3. OneTaken' /\ OcInv'
  BY DEF DispatchInv, OneTaken, OcInv
<1>4. GenInv'
  <2>1. \A d \in inflight : d[1] \in ItemIds /\ d \in Deliveries(d[1])
    BY DEF DispatchInv, TypeInv, Sets, Deliveries
  <2> QED
    BY <2>1 DEF DispatchInv, GenInv
<1> QED
  BY <1>2, <1>3, <1>4 DEF DispatchInv

\* The steps that leave the items and OpenCode alone.
LEMMA WalkDispatch ==
    ASSUME DispatchInv,
           \/ LoopStart \/ TickStart \/ PassStart \/ PassNext \/ PassGet \/ Fenced
           \/ \E busy \in BOOLEAN : Select(busy)
    PROVE  DispatchInv'
<1>0. /\ TypeInv /\ TypeInv' /\ loop \in Loop /\ loop' \in Loop /\ LoopTyped
      /\ LoopInv /\ Certified /\ oc \in OC
  BY WalkTypes DEF DispatchInv, TypeInv, Sets, LoopInv
<1>1. /\ items' = items /\ tab' = tab /\ oc' = oc
      /\ inflight' = inflight /\ committed' = committed
  BY DEF LoopStart, TickStart, PassStart, PassNext, PassGet, Fenced, Select
<1>2. oc.gen \in Nat /\ loop.passGen \in Nat
  BY <1>0, Limits DEF Loop, OC
<1>3. ASSUME loop'.pc \in {"pass", "next", "get", "select", "resume", "claim"},
             loop'.tickGen = oc.gen \/ ~BarrierCertified,
             loop'.pc \in {"next", "get"} => loop'.passGen <= oc.gen
      PROVE  LoopInv'
  BY <1>1, <1>3 DEF LoopInv, TakenUp, Unposted, Posting, Certified
<1>4. CASE LoopStart \/ Fenced
  <2>1. loop' = LoopAt("off") \/ loop' = LoopAt("idle")
    BY <1>4 DEF LoopStart, Fenced
  <2> QED
    BY <1>0, <1>1, <2>1, RestingLoop, LoopOnly
<1>5. CASE TickStart
  <2>1. loop'.pc = "pass" /\ loop'.tickGen = oc.gen
    BY <1>0, <1>5 DEF TickStart, Loop
  <2> QED
    BY <1>0, <1>1, <1>3, <2>1, LoopOnly
<1>6. CASE PassStart
  <2>1. /\ loop'.pc = "next" /\ loop'.passGen = oc.gen /\ loop.pc = "pass"
        /\ loop'.tickGen = loop.tickGen
    BY <1>0, <1>6 DEF PassStart, Loop
  <2> QED
    BY <1>0, <1>1, <1>2, <1>3, <2>1, LoopOnly DEF Certified
<1>7. CASE PassNext
  <2>1. /\ loop'.pc \in {"next", "get", "select"} /\ loop'.passGen = loop.passGen
        /\ loop.pc = "next" /\ loop'.tickGen = loop.tickGen
    BY <1>0, <1>7 DEF PassNext, Loop
  <2> QED
    BY <1>0, <1>1, <1>3, <2>1, LoopOnly DEF Certified
<1>8. CASE PassGet
  <2> DEFINE i == loop.item
  <2>1. PICK v \in GetVerdicts(i) : loop' = [loop EXCEPT !.pc = "act", !.verdict = v]
    BY <1>8 DEF PassGet
  <2>2. /\ loop'.pc = "act" /\ loop'.item = i /\ loop'.verdict = v
        /\ loop'.passGen = loop.passGen /\ loop'.tickGen = loop.tickGen
        /\ loop.pc = "get"
    BY <1>0, <1>8, <2>1 DEF Loop, PassGet
  <2>3. i \in ItemIds
    BY <1>0, <2>2 DEF LoopTyped, AtItem
  <2>4. v = "404" => Landed(i) = {}
    BY <2>1 DEF GetVerdicts
  <2>5. ASSUME BarrierCertified, v = "404", items[i].custody, items[i].oc < loop.passGen
        PROVE  Deliveries(i) = {}
    <3>1. items[i].oc \in Nat
      BY <1>0, <2>3, Limits DEF TypeInv, ItemsTyped, Item
    <3>2. ~(oc.gen <= items[i].oc)
      BY <1>0, <1>2, <2>2, <2>5, <3>1 DEF Certified
    <3>3. \A d \in inflight : d[1] # i
      BY <2>5, <3>2 DEF DispatchInv, GenInv
    <3> QED
      BY <2>4, <2>5, <3>3 DEF Landed, Deliveries
  <2>6. \A j : Deliveries(j)' = Deliveries(j)
    BY <1>1 DEF Deliveries
  <2> HIDE DEF i
  <2>7. Certified'
    BY <1>0, <1>1, <2>2, <2>5, <2>6 DEF Certified
  <2>8. LoopInv'
    BY <2>2, <2>7 DEF LoopInv, TakenUp, Unposted, Posting
  <2> QED
    BY <1>0, <1>1, <2>8, LoopOnly
<1>9. ASSUME NEW busy \in BOOLEAN, Select(busy)
      PROVE  DispatchInv'
  <2>1. CASE loop' = LoopAt("idle")
    BY <1>0, <1>1, <2>1, RestingLoop, LoopOnly
  <2>2. CASE loop' # LoopAt("idle")
    <3>1. \E pc \in {"resume", "claim"} : \E k : loop' = [loop EXCEPT !.pc = pc, !.item = k]
      BY <1>9, <2>2 DEF Select
    <3>2. PICK pc \in {"resume", "claim"} : \E k : loop' = [loop EXCEPT !.pc = pc, !.item = k]
      BY <3>1
    <3>3. /\ loop'.pc \in {"resume", "claim"} /\ loop'.tickGen = loop.tickGen
          /\ loop.pc = "select"
      BY <1>0, <1>9, <3>2 DEF Loop, Select
    <3> QED
      BY <1>0, <1>1, <1>3, <3>3, LoopOnly DEF Certified
  <2> QED
    BY <2>1, <2>2
<1> QED
  BY <1>4, <1>5, <1>6, <1>7, <1>8, <1>9

LEMMA PostDispatch ==
    ASSUME DispatchInv, Post
    PROVE  DispatchInv'
<1> DEFINE i == loop.item
           d == <<i, items[i].n>>
<1>0. /\ TypeInv /\ TypeInv' /\ loop \in Loop /\ LoopInv /\ ItemInv /\ OneTaken
      /\ i \in ItemIds /\ items[i] \in Item /\ loop.pc = "post"
  BY WalkTypes DEF DispatchInv, TypeInv, ItemsTyped, Post, LoopTyped, AtItem
<1>1. PICK o \in PostOutcomes :
         /\ loop' = [loop EXCEPT !.pc = "record", !.class = o[1]]
         /\ inflight' = IF o[2] THEN inflight \cup {d} ELSE inflight
  BY DEF Post
<1>2. /\ o[1] \in {"connect_failed", "server_error"} => ~o[2]
      /\ o[2] => Serving
  BY OutcomeIs
<1>3. /\ items' = items /\ tab' = tab /\ oc' = oc /\ committed' = committed
  BY DEF Post
<1>4. /\ loop'.pc = "record" /\ loop'.class = o[1] /\ loop'.item = i
      /\ loop'.tickGen = loop.tickGen
  BY <1>0, <1>1 DEF Loop
<1>5. d[1] = i
  OBVIOUS
<1> HIDE DEF d, i
<1>6. /\ i \notin tab /\ items[i].state \notin {"none", "pending", "failed"}
      /\ items[i].custody \/ items[i].state = "gone"
      /\ ~items[i].requeue /\ Deliveries(i) = {}
      /\ items[i].custody => items[i].n > 0 /\ items[i].class = "open"
      /\ items[i].custody /\ BarrierCertified => oc.gen <= items[i].oc
      /\ BarrierCertified => loop.tickGen = oc.gen
  BY <1>0 DEF LoopInv, TakenUp, Unposted, Posting, Certified, i
<1>7. ~Unsent(items[i])
  <2>1. items[i].n \in Nat
    BY <1>0, Limits DEF Item, Attempts
  <2> QED
    BY <1>6, <2>1 DEF Unsent
<1>8. \A j : j # i => Deliveries(j)' = Deliveries(j)
  BY <1>1, <1>3, <1>5 DEF Deliveries
<1>9. ItemInv'
  <2> SUFFICES ASSUME NEW j \in ItemIds PROVE ItemOk(j)'
    BY DEF ItemInv
  <2>1. CASE j = i
    BY <1>3, <1>6, <1>7, <2>1 DEF ItemOk
  <2>2. CASE j # i
    BY <1>0, <1>3, <1>8, <2>2 DEF ItemInv, ItemOk
  <2> QED
    BY <2>1, <2>2
<1>10. OneTaken'
  BY <1>0, <1>1, <1>3, <1>5, <1>6 DEF OneTaken, Deliveries
<1>11. GenInv'
  BY <1>1, <1>3, <1>5, <1>6 DEF DispatchInv, GenInv
<1>12. OcInv'
  BY <1>1, <1>2, <1>3 DEF DispatchInv, OcInv, Serving
<1>13. LoopInv'
  <2>1. o[1] \in {"connect_failed", "server_error"} =>
          \A j : Deliveries(j)' = Deliveries(j)
    BY <1>1, <1>2, <1>3 DEF Deliveries
  <2> QED
    BY <1>3, <1>4, <1>6, <2>1 DEF LoopInv, TakenUp, Unposted, Posting, Certified
<1> QED
  BY <1>0, <1>9, <1>10, <1>11, <1>12, <1>13 DEF DispatchInv

\* What a verdict allows the pass to do.
LEMMA ClassIs ==
    ASSUME NEW it, NEW gen, NEW get404
    PROVE  LET class == Classify(it, gen, get404) IN
           /\ class \in Redeliverable \cup {"server_error"} => it.custody
           /\ class = "server_error" => it.class = "server_error"
           /\ class = "never_started" => it.n = 0
           /\ class = "connect_failed" => it.class = "connect_failed"
           /\ class = "restart_barrier" => Barrier(it, gen, get404)
BY DEF Classify, Redeliverable

\* The item at hand is resolved as failed, when nothing of it was taken.
LEMMA FailedStep ==
    ASSUME DispatchInv, TypeInv', LoopInv', NEW i \in ItemIds, Resolve(i, "failed"),
           Deliveries(i) = {}, items[i].state # "gone" => items[i].custody,
           tab' = tab, oc' = oc, inflight' = inflight, committed' = committed
    PROVE  DispatchInv'
<1>1. ItemsTyped /\ SentIsDelivered
  BY DEF DispatchInv, TypeInv
<1>2. /\ \A j \in ItemIds : j # i => items'[j] = items[j]
      /\ items'[i].custody = items[i].custody /\ items'[i].requeue = items[i].requeue
      /\ \/ items'[i].state = items[i].state
         \/ /\ items[i].state \in {"dispatching", "unknown"}
            /\ items'[i].state = "failed"
  BY <1>1, ResolveIs
<1>3. ItemOk(i)'
  <2>1. Deliveries(i)' = {}
    BY DEF Deliveries
  <2> QED
    BY <1>2, <2>1 DEF DispatchInv, ItemInv, ItemOk
<1> QED
  BY <1>2, <1>3, LoopSaves

LEMMA PassActDispatch ==
    ASSUME DispatchInv, PassAct
    PROVE  DispatchInv'
<1>a. TypeInv /\ TypeInv' /\ loop.pc = "act" /\ loop.item \in ItemIds
  BY WorkTypes DEF DispatchInv, PassAct, TypeInv, LoopTyped, AtItem
<1>i. PICK i \in ItemIds : i = loop.item
  BY <1>a
<1> DEFINE it == items[i]
           class == Classify(it, loop.passGen, loop.verdict = "404")
           on == loop' = [loop EXCEPT !.pc = "next", !.item = 0]
<1>0. /\ TypeInv /\ TypeInv' /\ loop \in Loop /\ loop.pc = "act"
      /\ ItemsTyped /\ SentIsDelivered /\ it \in Item /\ Budget(it) /\ ItemOk(i)
      /\ Certified /\ LoopTyped /\ items \in [ItemIds -> Item]
  BY <1>a, BudgetOf DEF DispatchInv, TypeInv, ItemInv, LoopInv, ItemsTyped
<1>1. tab' = tab /\ oc' = oc /\ inflight' = inflight /\ committed' = committed
  BY DEF PassAct
<1>2. on \/ loop' = LoopAt("idle") => LoopInv'
  <2>1. CASE on
    <3>1. /\ loop'.pc = "next" /\ loop'.passGen = loop.passGen
          /\ loop'.tickGen = loop.tickGen
      BY <1>0, <2>1 DEF Loop
    <3> QED
      BY <1>0, <1>1, <3>1 DEF LoopInv, TakenUp, Unposted, Posting, Certified
  <2> QED
    BY <2>1, RestingLoop
<1> HIDE DEF on
\* Resolved as sent, looked up or closed: quieter items.
<1>3. ASSUME on, \A j \in ItemIds : Quieter(items[j], items'[j])
      PROVE  DispatchInv'
  <2>1. \A j : Deliveries(j)' = Deliveries(j)
    BY <1>1 DEF Deliveries
  <2>2. ItemInv'
    BY <1>1, <1>3, <2>1, QuietItem DEF DispatchInv, ItemInv
  <2>3. OneTaken' /\ OcInv'
    BY <1>1 DEF DispatchInv, OneTaken, OcInv
  <2>4. GenInv'
    <3>1. ASSUME NEW d \in inflight, items'[d[1]].custody
          PROVE  items[d[1]].custody /\ items'[d[1]].oc = items[d[1]].oc
      <4>1. d[1] \in ItemIds
        BY <1>0 DEF TypeInv, Sets
      <4> QED
        BY <1>3, <3>1, <4>1, NoItemIs DEF Quieter
    <3> QED
      BY <1>1, <3>1 DEF DispatchInv, GenInv
  <2> QED
    BY <1>0, <1>2, <1>3, <2>2, <2>3, <2>4 DEF DispatchInv
<1>4. CASE loop.verdict = "exact" /\ Resolve(i, "sent") /\ on
  <2>1. Landed(i) # {}
    BY <1>0, <1>i, <1>4 DEF LoopTyped
  <2> QED
    BY <1>0, <1>1, <1>3, <1>4, <2>1, SentIsQuiet
<1>5. CASE class = "server_error" /\ Resolve(i, "failed") /\ on
  <2>1. it.custody /\ it.class = "server_error"
    BY <1>5, ClassIs
  <2>2. Deliveries(i) = {}
    BY <1>0, <2>1 DEF ItemOk, Unsent
  <2> QED
    BY <1>0, <1>1, <1>2, <1>5, <2>1, <2>2, FailedStep
<1>6. CASE class \in Redeliverable /\ Requeue(i)
  <2>1. it.custody
    BY <1>6, ClassIs
  <2>2. Deliveries(i) = {}
    <3>1. CASE class \in {"never_started", "connect_failed"}
      <4>1. it.n = 0 \/ it.class = "connect_failed"
        BY <3>1, ClassIs
      <4> QED
        BY <1>0, <2>1, <4>1 DEF ItemOk, Unsent
    <3>2. CASE class = "restart_barrier"
      <4>1. Barrier(it, loop.passGen, loop.verdict = "404")
        BY <3>2, ClassIs
      <4>2. it.oc \in Nat /\ loop.passGen \in Nat
        BY <1>0, Limits DEF Item, Loop
      <4>3. BarrierCertified /\ loop.verdict = "404" /\ it.oc < loop.passGen
        BY <4>1, <4>2 DEF Barrier, Restarted
      <4> QED
        BY <1>0, <1>i, <2>1, <4>3 DEF Certified
    <3> QED
      BY <1>6, <3>1, <3>2 DEF Redeliverable
  <2>3. CASE SetItem(i, Requeued(it)) /\ on
    <3> DEFINE x == Requeued(it)
    <3>1. /\ x.custody = it.custody /\ x.oc = it.oc
          /\ x.state \in {"unknown", "dispatching"}
      BY <1>0, RequeuedIs
    <3>2. items'[i] = x /\ \A j \in ItemIds : j # i => items'[j] = items[j]
      BY <1>0, <2>3 DEF SetItem
    <3> HIDE DEF x
    <3>3. ItemOk(i)'
      <4>1. \A j : Deliveries(j)' = Deliveries(j)
        BY <1>1 DEF Deliveries
      <4>2. i \notin tab
        BY <1>0, <2>1 DEF ItemOk
      <4> QED
        BY <1>1, <2>1, <2>2, <3>1, <3>2, <4>1, <4>2 DEF ItemOk
    <3> QED
      BY <1>0, <1>1, <1>2, <2>2, <2>3, <3>2, <3>3, LoopSaves
  <2>4. CASE loop' = LoopAt("idle") /\ items' = items
    BY <1>0, <1>1, <1>2, <2>4, LoopOnly
  <2> QED
    BY <1>6, <2>3, <2>4 DEF Requeue, on
<1>7. CASE (MarkReconcileTerminal(i) \/ BumpReconcileAttempt(i)) /\ on
  BY <1>0, <1>1, <1>3, <1>7, LookUpIs
<1>8. \/ loop.verdict = "exact" /\ Resolve(i, "sent") /\ on
      \/ class \in Redeliverable /\ Requeue(i)
      \/ class = "server_error" /\ Resolve(i, "failed") /\ on
      \/ (MarkReconcileTerminal(i) \/ BumpReconcileAttempt(i)) /\ on
  BY <1>i DEF PassAct, on
<1> QED
  BY <1>4, <1>5, <1>6, <1>7, <1>8

\* Taking an item up, and what becomes of its attempt.
LEMMA WorkDispatch ==
    ASSUME DispatchInv,
           \/ ClaimPending \/ AgentGateRefuse \/ ItemForResume
           \/ BeginDispatchAttempt \/ RecordAttemptOutcome \/ ResolveServerErrorInline
    PROVE  DispatchInv'
<1>a. TypeInv /\ TypeInv' /\ loop.item \in ItemIds
  BY WorkTypes DEF DispatchInv, TypeInv, LoopTyped, AtItem, ClaimPending, AgentGateRefuse,
     ItemForResume, BeginDispatchAttempt, RecordAttemptOutcome, ResolveServerErrorInline
<1>i. PICK i \in ItemIds : i = loop.item
  BY <1>a
<1> DEFINE it == items[i]
<1>0. /\ loop \in Loop /\ ItemsTyped /\ it \in Item /\ Budget(it) /\ ItemOk(i)
      /\ LoopTyped /\ items \in [ItemIds -> Item]
      /\ TakenUp /\ Unposted /\ Posting /\ Certified
  BY <1>a, BudgetOf DEF DispatchInv, TypeInv, ItemInv, LoopInv, ItemsTyped
<1>1. /\ tab' = tab /\ oc' = oc /\ inflight' = inflight /\ committed' = committed
      /\ \A j : Deliveries(j)' = Deliveries(j)
  BY DEF ClaimPending, AgentGateRefuse, ItemForResume, BeginDispatchAttempt,
         RecordAttemptOutcome, ResolveServerErrorInline, Deliveries
<1>2. CASE items' = items /\ loop' = LoopAt("idle")
  BY <1>a, <1>1, <1>2, RestingLoop, LoopOnly
\* Nothing of the item was taken, and the loop goes on with it or rests.
<1>3. ASSUME Deliveries(i) = {}, NEW x, SetItem(i, x), i \notin tab,
             x.custody, ~x.requeue, x.state \notin {"none", "pending", "failed"},
             NEW pc \in {"refuse", "begin", "post", "reject"},
             loop' = [loop EXCEPT !.pc = pc],
             pc = "post" => x.n > 0 /\ x.class = "open" /\ x.oc = loop.tickGen,
             loop.pc \notin {"off", "idle"}
      PROVE  DispatchInv'
  <2>1. items'[i] = x /\ \A j \in ItemIds : j # i => items'[j] = items[j]
    BY <1>0, <1>3 DEF SetItem
  <2>2. ItemOk(i)'
    BY <1>1, <1>3, <2>1 DEF ItemOk
  <2>3. /\ loop'.pc = pc /\ loop'.item = i /\ loop'.tickGen = loop.tickGen
    BY <1>0, <1>i, <1>3 DEF Loop
  <2>4. oc.gen \in Nat
    BY <1>a, Limits DEF TypeInv, Sets, OC
  <2>5. LoopInv'
    BY <1>0, <1>1, <1>3, <2>1, <2>3, <2>4
       DEF LoopInv, TakenUp, Unposted, Posting, Certified
  <2> QED
    BY <1>a, <1>1, <1>3, <2>1, <2>2, <2>5, LoopSaves
<1>4. CASE ClaimPending
  <2>1. CASE /\ it.state = "pending" /\ SetItem(i, ClaimedOf(it))
             /\ \E pc \in {"refuse", "begin"} : loop' = [loop EXCEPT !.pc = pc]
    <3>1. LET x == ClaimedOf(it) IN
          x.state = "dispatching" /\ x.custody /\ x.requeue = it.requeue
      BY <1>0, SavesAre
    <3>2. ~it.requeue /\ Deliveries(i) = {} /\ i \notin tab
      BY <1>0, <2>1 DEF ItemsTyped, PendingTyped, ItemOk, Unsent
    <3> QED
      BY <1>3, <1>4, <2>1, <3>1, <3>2 DEF ClaimPending
  <2> QED
    BY <1>i, <1>2, <1>4, <2>1 DEF ClaimPending, AgentGate, ClaimedOf
<1>5. CASE AgentGateRefuse \/ ResolveServerErrorInline
  <2>1. /\ Resolve(i, "failed") /\ loop' = LoopAt("idle")
        /\ Deliveries(i) = {}
        /\ it.custody \/ it.state = "gone"
    BY <1>0, <1>i, <1>5
       DEF AgentGateRefuse, ResolveServerErrorInline, TakenUp, Unposted
  <2>2. LoopInv'
    BY <2>1, RestingLoop
  <2>3. it.state # "gone" => it.custody
    BY <2>1
  <2> QED
    BY <1>a, <1>1, <2>1, <2>2, <2>3, FailedStep
<1>6. CASE ItemForResume
  <2>1. CASE /\ it.state = "dispatching" /\ it.requeue /\ SetItem(i, ResumedOf(it))
             /\ loop' = [loop EXCEPT !.pc = "begin"]
    <3>1. LET x == ResumedOf(it) IN
          x.state = it.state /\ x.custody = it.custody /\ ~x.requeue
      BY <1>0, SavesAre
    <3>2. it.custody /\ Deliveries(i) = {} /\ i \notin tab
      BY <1>0, <2>1 DEF ItemOk, Unsent
    <3> QED
      BY <1>3, <1>6, <2>1, <3>1, <3>2 DEF ItemForResume
  <2> QED
    BY <1>i, <1>2, <1>6, <2>1 DEF ItemForResume, ResumedOf
<1>7. CASE BeginDispatchAttempt
  <2>1. CASE /\ it.state = "dispatching" /\ SetItem(i, Journaled(it))
             /\ loop' = [loop EXCEPT !.pc = "post"]
    <3>1. it.n < MaxAttempts /\ it.n \in Nat
      BY <1>0, <1>i, <1>7, Limits DEF BeginDispatchAttempt, LoopTyped, Item, Attempts
    <3>2. LET x == Journaled(it) IN
          /\ x.state = it.state /\ x.custody = it.custody /\ x.n = it.n + 1
          /\ x.oc = loop.tickGen /\ x.class = "open" /\ x.requeue = it.requeue
      BY <1>0, <3>1, JournaledIs
    <3>3. it.custody /\ Deliveries(i) = {} /\ i \notin tab /\ ~it.requeue
      BY <1>0, <1>i, <1>7, <2>1 DEF BeginDispatchAttempt, TakenUp, Unposted
    <3>4. Journaled(it).n > 0
      BY <3>1, <3>2
    <3> QED
      BY <1>3, <1>7, <2>1, <3>2, <3>3, <3>4 DEF BeginDispatchAttempt
  <2> QED
    BY <1>i, <1>2, <1>7, <2>1 DEF BeginDispatchAttempt
<1>8. CASE RecordAttemptOutcome
  <2> DEFINE c == loop.class
             x == Recorded(it, c)
  <2>0. /\ loop.pc = "record" /\ c \in Classes
        /\ i \notin tab /\ it.state \notin {"none", "pending", "failed"}
        /\ it.custody \/ it.state = "gone"
        /\ ~it.requeue
        /\ c \in {"connect_failed", "server_error"} => Deliveries(i) = {}
    BY <1>0, <1>i, <1>8 DEF RecordAttemptOutcome, TakenUp, Posting, Loop
  <2>1. CASE /\ it.state # "gone" /\ SetItem(i, x)
             /\ IF c = "server_error" THEN loop' = [loop EXCEPT !.pc = "reject"]
                ELSE loop' = LoopAt("idle")
    <3>1. /\ x.state = it.state /\ x.custody = it.custody /\ x.n = it.n /\ x.oc = it.oc
          /\ x.class = c /\ x.requeue = it.requeue
      BY <1>0, <2>0, RecordedIs
    <3> HIDE DEF x
    <3>2. items'[i] = x /\ \A j \in ItemIds : j # i => items'[j] = items[j]
      BY <1>0, <2>1 DEF SetItem
    <3>3. CASE c = "server_error"
      BY <1>3, <2>0, <2>1, <3>1, <3>3
    <3>4. CASE c # "server_error"
      <4>1. Unsent(x) => Unsent(it) \/ c \in {"connect_failed", "server_error"}
        BY <3>1 DEF Unsent
      <4>2. ItemOk(i)'
        BY <1>0, <1>1, <2>0, <3>1, <3>2, <4>1 DEF ItemOk
      <4>3. LoopInv'
        BY <2>1, <3>4, RestingLoop
      <4> QED
        BY <1>a, <1>1, <3>1, <3>2, <4>2, <4>3, LoopSaves
    <3> QED
      BY <3>3, <3>4
  <2> QED
    BY <1>i, <1>2, <1>8, <2>0, <2>1 DEF RecordAttemptOutcome
<1> QED
  BY <1>4, <1>5, <1>6, <1>7, <1>8

LEMMA InitDispatch == Init => DispatchInv
<1> SUFFICES ASSUME Init PROVE DispatchInv
  OBVIOUS
<1>1. \A i \in ItemIds : items[i] = NoItem
  BY DEF Init
<1>2. ItemInv
  BY <1>1 DEF Init, ItemInv, ItemOk, Unsent, Deliveries, NoItem
<1>3. OneTaken /\ GenInv /\ OcInv
  BY DEF Init, OneTaken, GenInv, OcInv
<1>4. LoopInv
  BY LoopAtIs DEF Init, LoopInv, TakenUp, Unposted, Posting, Certified, LoopSteps
<1> QED
  BY <1>2, <1>3, <1>4, InitTypes DEF DispatchInv

LEMMA StepDispatch == CalmRestarts /\ DispatchInv /\ [Next]_vars => DispatchInv'
<1> SUFFICES ASSUME CalmRestarts, DispatchInv, [Next]_vars PROVE DispatchInv'
  OBVIOUS
<1>1. CASE UNCHANGED vars
  <2>1. TypeInv'
    BY <1>1, StepTypes DEF DispatchInv
  <2>2. LoopInv'
    BY <1>1 DEF vars, DispatchInv, LoopInv, TakenUp, Unposted, Posting, Certified, Deliveries
  <2> QED
    BY <1>1, <2>1, <2>2, LoopOnly DEF vars
<1>2. CASE Next
  BY <1>2, WalkDispatch, PostDispatch, PassActDispatch, WorkDispatch, HandlerDispatch,
     BackgroundDispatch, OpenCodeDispatch DEF Next, LoopStep, Advance
<1> QED
  BY <1>1, <1>2

LEMMA DispatchAlways == ASSUME CalmRestarts PROVE Spec => []DispatchInv
  BY InitDispatch, StepDispatch, PTL DEF Spec

\* At most one POST of a message is ever persisted, however often its dispatch
\* is recovered, certified and repeated: certifiedRecoveryPass requeues only
\* what no earlier POST can still deliver.  Restarts must be calm where the
\* barrier is certified.
THEOREM PersistedAtMostOnce == ASSUME CalmRestarts PROVE Spec => []PersistedOnce
<1>1. DispatchInv => PersistedOnce
  <2> SUFFICES ASSUME DispatchInv, NEW i \in ItemIds
               PROVE  Cardinality(Landed(i)) <= 1
    BY DEF PersistedOnce
  <2>1. CASE Landed(i) = {}
    BY <2>1, FS_EmptySet
  <2>2. CASE Landed(i) # {}
    <3>1. PICK d \in Landed(i) : TRUE
      BY <2>2
    <3>2. Landed(i) = {d}
      BY <3>1 DEF DispatchInv, OneTaken, Landed
    <3> QED
      BY <3>2, FS_Singleton
  <2> QED
    BY <2>1, <2>2
<1> QED
  BY <1>1, DispatchAlways, PTL

\* When the loop is about to POST (resumeDispatchAttempt), no earlier POST of
\* the message has landed or can still land.
THEOREM RedeliveriesAreCertified ==
    ASSUME CalmRestarts PROVE Spec => []RedeliveryCertified
<1>1. DispatchInv => RedeliveryCertified
  BY DEF DispatchInv, LoopInv, Unposted, RedeliveryCertified
<1> QED
  BY <1>1, DispatchAlways, PTL

\* An item reported as failed (the agent gate's refusal, a non-2xx answer) was
\* not delivered and cannot be any more.
THEOREM FailuresAreUndelivered ==
    ASSUME CalmRestarts PROVE Spec => []FailedIsUndelivered
<1>1. DispatchInv => FailedIsUndelivered
  BY DEF DispatchInv, ItemInv, ItemOk, Unsent, FailedIsUndelivered
<1> QED
  BY <1>1, DispatchAlways, PTL

\* The journal's classes "never started" and "connect failed"
\* (classifyCertifiedRedelivery) are right at every moment.
THEOREM JournalStaysHonest == ASSUME CalmRestarts PROVE Spec => []JournalIsHonest
<1>1. DispatchInv => JournalIsHonest
  <2> SUFFICES ASSUME DispatchInv, NEW i \in ItemIds,
                      Classify(items[i], 0, FALSE) \in {"never_started", "connect_failed"}
               PROVE  Deliveries(i) = {}
    BY DEF JournalIsHonest
  <2>1. /\ items[i].custody
        /\ items[i].n = 0 \/ items[i].class = "connect_failed"
    BY ClassIs DEF Redeliverable
  <2> QED
    BY <2>1 DEF DispatchInv, ItemInv, ItemOk, Unsent
<1> QED
  BY <1>1, DispatchAlways, PTL
-----------------------------------------------------------------------------
(***************************************************************************)
(* QueueDispatch implements QueueLifecycle.  A step that writes items moves  *)
(* each of them forward or leaves its state alone.                          *)
(***************************************************************************)

ItemStatesNow == [i \in ItemIds |-> items[i].state]

Onward(s, t) ==
    \/ s = t
    \/ s = "none" /\ t = "pending"
    \/ s = "pending" /\ t \in {"dispatching", "gone"}
    \/ s = "dispatching" /\ t \in Terminal \cup {"gone"}
    \/ s = "unknown" /\ t \in {"sent", "dispatching", "gone"}
    \/ s \in {"sent", "failed"} /\ t = "gone"

AllOnward == \A j \in ItemIds : Onward(items[j].state, items'[j].state)

LEMMA OnwardStep ==
    ASSUME ItemsTyped, ItemsTyped', AllOnward
    PROVE  [Lifecycle!Next]_ItemStatesNow
<1>1. \A j \in ItemIds : items'[j].state \in ItemStates
  BY DEF ItemsTyped, Item
<1>2. \A s \in ItemStates, t \in ItemStates :
          Onward(s, t) => t \in Lifecycle!Successors(s)
  BY DEF Onward, Lifecycle!Successors, Lifecycle!Terminal, ItemStates, Terminal
<1>3. \A j \in ItemIds : items[j].state \in ItemStates
  BY DEF ItemsTyped, Item
<1>4. ItemStatesNow' \in [ItemIds -> Lifecycle!ItemStates]
  BY <1>1 DEF ItemStatesNow, ItemStates, Terminal, Lifecycle!ItemStates
<1>5. \A j \in ItemIds : ItemStatesNow'[j] \in Lifecycle!Successors(ItemStatesNow[j])
  BY <1>1, <1>2, <1>3 DEF ItemStatesNow, AllOnward
<1> QED
  BY <1>4, <1>5 DEF Lifecycle!Next, ItemStatesNow

LEMMA OneOnward ==
    ASSUME ItemsTyped, NEW i \in ItemIds, NEW x, SetItem(i, x),
           Onward(items[i].state, x.state)
    PROVE  AllOnward
<1>1. items'[i] = x /\ \A j \in ItemIds : j # i => items'[j] = items[j]
  BY DEF SetItem, ItemsTyped
<1> QED
  BY <1>1 DEF AllOnward, Onward

LEMMA SameOnward == ASSUME items' = items PROVE AllOnward
BY DEF AllOnward, Onward

\* The matrix of Resolve() is inside the lifecycle.
LEMMA ResolveOnward ==
    ASSUME ItemsTyped, NEW i \in ItemIds, NEW target \in {"sent", "failed"},
           Resolve(i, target)
    PROVE  AllOnward
<1> DEFINE x == [items[i] EXCEPT !.state = target]
<1>1. x.state = target
  BY DEF ItemsTyped, Item
<1>2. CASE MayResolve(items[i], target) /\ SetItem(i, x)
  <2>1. Onward(items[i].state, x.state)
    BY <1>1, <1>2 DEF MayResolve, Onward, Terminal
  <2> QED
    BY <1>2, <2>1, OneOnward
<1> QED
  BY <1>2, SameOnward DEF Resolve

LEMMA LookUpOnward ==
    ASSUME ItemsTyped, NEW i \in ItemIds,
           BumpReconcileAttempt(i) \/ MarkReconcileTerminal(i)
    PROVE  AllOnward
<1>1. items[i] \in Item /\ Budget(items[i])
  BY BudgetOf
<1>2. CASE items' = items
  BY <1>2, SameOnward
<1>3. CASE SetItem(i, Bumped(items[i])) /\ ReconcileEligible(items[i])
  <2>1. Bumped(items[i]).state = items[i].state
    BY <1>1, <1>3, BumpedIs DEF ReconcileEligible
  <2> QED
    BY <1>3, <2>1, OneOnward DEF Onward
<1>4. CASE SetItem(i, [items[i] EXCEPT !.closed = "rejected"])
  <2>1. [items[i] EXCEPT !.closed = "rejected"].state = items[i].state
    BY <1>1 DEF Item
  <2> QED
    BY <1>4, <2>1, OneOnward DEF Onward
<1> QED
  BY <1>2, <1>3, <1>4 DEF BumpReconcileAttempt, MarkReconcileTerminal

\* A certified requeue starts from unknown or from an abandoned dispatch.
LEMMA RequeueOnward ==
    ASSUME ItemsTyped, NEW i \in ItemIds, Requeue(i)
    PROVE  AllOnward
<1>1. CASE items' = items
  BY <1>1, SameOnward
<1>2. CASE MayRequeue(items[i]) /\ SetItem(i, Requeued(items[i]))
  <2>1. items[i].state \in {"unknown", "dispatching"}
    BY <1>2 DEF MayRequeue, Stale
  <2>2. items[i] \in Item /\ Budget(items[i])
    BY BudgetOf
  <2>3. Requeued(items[i]).state \in {"unknown", "dispatching"}
    BY <2>2, RequeuedIs
  <2>4. Onward(items[i].state, Requeued(items[i]).state)
    BY <2>1, <2>3 DEF Onward, Terminal
  <2> QED
    BY <1>2, <2>4, OneOnward
<1> QED
  BY <1>1, <1>2 DEF Requeue

LEMMA HandlerOnward ==
    ASSUME ItemsTyped, Handler
    PROVE  AllOnward
<1>0. items \in [ItemIds -> Item]
  BY DEF ItemsTyped
<1>1. ASSUME NEW i \in ItemIds, NEW p \in Policies, Enqueue(i, p)
      PROVE  AllOnward
  <2>1. [NoItem EXCEPT !.state = "pending", !.policy = p].state = "pending"
    BY DEF NoItem
  <2> QED
    BY <1>1, <2>1, OneOnward DEF Enqueue, Onward
<1>2. ASSUME NEW i \in ItemIds, Remove(i)
      PROVE  AllOnward
  <2>1. SetItem(i, Gone) /\ items[i].state \in {"pending"} \cup Terminal
    BY <1>2 DEF Remove, Gone
  <2>2. Onward(items[i].state, Gone.state)
    BY <2>1, NoItemIs DEF Onward, Terminal
  <2> QED
    BY <2>1, <2>2, OneOnward
<1>3. ASSUME NEW i \in ItemIds, LegacyClaim(i)
      PROVE  AllOnward
  <2>1. [items[i] EXCEPT !.state = "dispatching", !.aged = FALSE].state = "dispatching"
    BY <1>0 DEF Item
  <2> QED
    BY <1>3, <2>1, OneOnward DEF LegacyClaim, Onward
<1>4. ASSUME NEW i \in ItemIds, LegacyPost(i)
      PROVE  AllOnward
  BY <1>4, SameOnward DEF LegacyPost
<1>5. CASE List
  <2> DEFINE cured(i) == [items[i] EXCEPT !.state = "unknown"]
  <2>1. \A i \in ItemIds : cured(i).state = "unknown"
    BY <1>0 DEF Item
  <2>2. \/ items' = items
        \/ items' = [i \in ItemIds |-> IF Stale(items[i]) THEN cured(i) ELSE items[i]]
    BY <1>5 DEF List
  <2> HIDE DEF cured
  <2>3. ASSUME NEW j \in ItemIds PROVE Onward(items[j].state, items'[j].state)
    <3>1. \/ items'[j] = items[j]
          \/ Stale(items[j]) /\ items'[j] = cured(j)
      BY <2>2
    <3> QED
      BY <2>1, <3>1 DEF Onward, Stale, Terminal
  <2> QED
    BY <2>3 DEF AllOnward
<1> QED
  BY <1>1, <1>2, <1>3, <1>4, <1>5 DEF Handler

\* The reconciler, the watcher, OpenCode, the clock and a crash.
LEMMA AroundOnward ==
    ASSUME TypeInv, Background \/ OpenCode \/ Time \/ Crash
    PROVE  AllOnward
<1>0. items \in [ItemIds -> Item] /\ ItemsTyped
  BY DEF TypeInv, ItemsTyped
<1>1. CASE RecAct
  <2>1. rec.item \in ItemIds
    BY <1>1 DEF RecAct, TypeInv, RecTyped
  <2>2. \/ Resolve(rec.item, "sent")
        \/ MarkReconcileTerminal(rec.item) \/ BumpReconcileAttempt(rec.item)
    BY <1>1 DEF RecAct
  <2> QED
    BY <1>0, <2>1, <2>2, ResolveOnward, LookUpOnward
<1>2. ASSUME NEW i \in ItemIds, WatchResolve(i)
      PROVE  AllOnward
  BY <1>0, <1>2, ResolveOnward DEF WatchResolve
<1>3. CASE RestartFence
  <2> DEFINE f(i) == [items[i] EXCEPT !.fenced = TRUE]
  <2>1. \A i \in ItemIds : f(i).state = items[i].state
    BY <1>0 DEF Item
  <2>2. \/ items' = items
        \/ items' = [i \in ItemIds |-> IF items[i].state = "dispatching"
                                       THEN f(i) ELSE items[i]]
    BY <1>3 DEF RestartFence
  <2> HIDE DEF f
  <2> QED
    BY <2>1, <2>2 DEF AllOnward, Onward
<1>4. ASSUME NEW i \in ItemIds, Age(i)
      PROVE  AllOnward
  <2>1. [items[i] EXCEPT !.aged = TRUE].state = items[i].state
    BY <1>0 DEF Item
  <2> QED
    BY <1>0, <1>4, <2>1, OneOnward DEF Age, Onward
<1>5. ASSUME \/ RecSnapshot \/ RecGet \/ (\E i \in ItemIds : WatchMatch(i) \/ WindowEnd(i))
             \/ Commit \/ Lose \/ RestartBegin \/ OldExit \/ Die \/ AutoRestart
             \/ Ready \/ Crash
      PROVE  AllOnward
  BY <1>5, SameOnward
     DEF RecSnapshot, RecGet, WatchMatch, WindowEnd, Commit, Lose, RestartBegin, OldExit,
         Die, AutoRestart, Ready, Crash
<1> QED
  BY <1>1, <1>2, <1>3, <1>4, <1>5 DEF Background, OpenCode, Time

LEMMA LoopOnward ==
    ASSUME TypeInv, LoopStep
    PROVE  AllOnward
<1> DEFINE i == loop.item
           it == items[i]
<1>0. /\ ItemsTyped /\ loop \in Loop /\ LoopTyped /\ items \in [ItemIds -> Item]
  BY DEF TypeInv, ItemsTyped
<1>1. ASSUME \/ LoopStart \/ TickStart \/ PassStart \/ PassNext \/ PassGet
             \/ (\E busy \in BOOLEAN : Select(busy)) \/ Post \/ Fenced
      PROVE  AllOnward
  BY <1>1, SameOnward
     DEF LoopStart, TickStart, PassStart, PassNext, PassGet, Select, Post, Fenced
<1>2. ASSUME \/ PassAct \/ ClaimPending \/ AgentGateRefuse \/ ItemForResume
             \/ BeginDispatchAttempt \/ RecordAttemptOutcome \/ ResolveServerErrorInline
      PROVE  i \in ItemIds /\ it \in Item /\ Budget(it)
  <2>1. i \in ItemIds
    BY <1>0, <1>2 DEF LoopTyped, AtItem, PassAct, ClaimPending, AgentGateRefuse, ItemForResume,
                BeginDispatchAttempt, RecordAttemptOutcome, ResolveServerErrorInline
  <2> QED
    BY <1>0, <2>1, BudgetOf
<1> HIDE DEF i
<1>3. CASE PassAct
  <2>1. \/ Resolve(i, "sent") \/ Resolve(i, "failed") \/ Requeue(i)
        \/ MarkReconcileTerminal(i) \/ BumpReconcileAttempt(i)
    BY <1>3 DEF PassAct, i
  <2> QED
    BY <1>0, <1>2, <1>3, <2>1, ResolveOnward, RequeueOnward, LookUpOnward
<1>4. CASE ClaimPending
  <2>1. \/ items' = items
        \/ it.state = "pending" /\ SetItem(i, ClaimedOf(it))
    BY <1>4 DEF ClaimPending, ClaimedOf, i
  <2>2. ClaimedOf(it).state = "dispatching"
    BY <1>2, <1>4, SavesAre
  <2> QED
    BY <1>0, <1>2, <1>4, <2>1, <2>2, OneOnward, SameOnward DEF Onward
<1>5. CASE AgentGateRefuse \/ ResolveServerErrorInline
  BY <1>0, <1>2, <1>5, ResolveOnward DEF AgentGateRefuse, ResolveServerErrorInline, i
<1>6. CASE ItemForResume
  <2>1. items' = items \/ SetItem(i, ResumedOf(it))
    BY <1>6 DEF ItemForResume, ResumedOf, i
  <2>2. ResumedOf(it).state = it.state
    BY <1>2, <1>6, SavesAre
  <2> QED
    BY <1>0, <1>2, <1>6, <2>1, <2>2, OneOnward, SameOnward DEF Onward
<1>7. CASE BeginDispatchAttempt
  <2>1. items' = items \/ SetItem(i, Journaled(it))
    BY <1>7 DEF BeginDispatchAttempt, i
  <2>2. it.n < MaxAttempts
    BY <1>0, <1>7 DEF BeginDispatchAttempt, LoopTyped, i
  <2>3. Journaled(it).state = it.state
    BY <1>0, <1>2, <1>7, <2>2, JournaledIs
  <2> QED
    BY <1>0, <1>2, <1>7, <2>1, <2>3, OneOnward, SameOnward DEF Onward
<1>8. CASE RecordAttemptOutcome
  <2>1. items' = items \/ SetItem(i, Recorded(it, loop.class))
    BY <1>8 DEF RecordAttemptOutcome, i
  <2>2. loop.class \in Classes
    BY <1>0 DEF Loop
  <2>3. Recorded(it, loop.class).state = it.state
    BY <1>2, <1>8, <2>2, RecordedIs
  <2> QED
    BY <1>0, <1>2, <1>8, <2>1, <2>3, OneOnward, SameOnward DEF Onward
<1> QED
  BY <1>1, <1>3, <1>4, <1>5, <1>6, <1>7, <1>8 DEF LoopStep, Advance

\* Dispatch, with its crashes, requeues, look-ups that race with one another
\* and resolutions refused or lost, implements the item lifecycle, whatever
\* the constants.
THEOREM DispatchImplementsLifecycle == Spec => ImplementsLifecycle
<1>1. Init => Lifecycle!Init
  BY DEF Init, Lifecycle!Init, NoItem
<1>2. TypeInv /\ [Next]_vars => [Lifecycle!Next]_ItemStatesNow
  <2> SUFFICES ASSUME TypeInv, [Next]_vars PROVE [Lifecycle!Next]_ItemStatesNow
    OBVIOUS
  <2>1. AllOnward
    <3>1. CASE UNCHANGED vars
      BY <3>1, SameOnward DEF vars
    <3>2. CASE Next
      BY <3>2, HandlerOnward, AroundOnward, LoopOnward DEF Next, TypeInv
    <3> QED
      BY <3>1, <3>2
  <2>2. ItemsTyped /\ ItemsTyped'
    BY StepTypes DEF TypeInv
  <2> QED
    BY <2>1, <2>2, OnwardStep
<1> QED
  BY <1>1, <1>2, InitTypes, StepTypes, PTL
     DEF Spec, ImplementsLifecycle, Lifecycle!Spec, ItemStatesNow
=============================================================================
