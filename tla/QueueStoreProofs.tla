-------------------------- MODULE QueueStoreProofs --------------------------
(***************************************************************************)
(* Theorems about QueueStore, for every number of items, store objects,    *)
(* admission ids and payloads, and every retention; and, in the last part, *)
(* about QueueCustody, the daemons that share the store's files.           *)
(*                                                                         *)
(* AdmissionOnce and CacheCoherent are not inductive: what an answered     *)
(* admission may be told again depends on the receipts in the file, what a *)
(* save writes over the file depends on the cache, and what the cache may  *)
(* hold depends on the mode of the process that loaded it.  StoreInv says  *)
(* how they hang together.                                                 *)
(***************************************************************************)
EXTENDS QueueStore, QueueCustody, FiniteSetTheorems, TLAPS

\* Nothing to lose: no item, no receipt.
Empty(m) == Present(m.items) = {} /\ Receipted(m.receipts) = {}

NowFree(items) == \A i \in ItemIds : items[i].state # "none"
                                       => items[i].policy # "now"

ReceiptOf(r) == [item |-> r.item, payload |-> r.payload, policy |-> r.policy]

\* A store object nobody has looked up yet is new.
UnbornNew == \A h \in Handles \ born : mem[h] = NewStore

\* The registered one has been looked up.
RegistryBorn == registry # Nil => registry \in born

\* The only live store object is the registered one ...
LiveRegistered == \A h \in born : ~mem[h].archived => h = registry

\* ... and what it has loaded is the file.
CacheIsFile ==
    \A h \in born : ~mem[h].archived /\ mem[h].loaded =>
        /\ disk.version = 0 => Empty(mem[h])
        /\ disk.version # 0 => disk = FileOf(mem[h])

MissingFile == disk.version = 0 => disk = NoFile

\* Every answer given is still on file as a receipt.
AnswersKept ==
    \A r \in answered : /\ disk.version # 0 /\ r.item # 0
                        /\ disk.receipts[r.adm] = ReceiptOf(r)

\* With the policy scheduler off, no store object holds immediate items.
LegacyClean ==
    ~daemonOn => \A h \in Handles :
                    mem[h].loaded => mem[h].version < 2 /\ NowFree(mem[h].items)

StoreInv == /\ TypeOK /\ UnbornNew /\ RegistryBorn /\ LiveRegistered
            /\ CacheIsFile /\ MissingFile /\ AnswersKept /\ PolicyBytesFenced
            /\ LegacyClean
-----------------------------------------------------------------------------
\* Types of the operators the actions are built from.

LEMMA NoFileType == NoFile \in File /\ NewStore \in Store /\ NoItem \in Item
  BY BoundsAssumption, NamesAssumption
     DEF NoFile, NewStore, NoItems, NoItem, NoReceipts, NoReceipt, File, Store,
         Items, Item, Receipts, Receipt, ItemStates, Terminal, Policies, Details

\* Loaded() of a store object is a loaded store that is not archived.
LEMMA LoadedType ==
    ASSUME TypeOK, NEW h \in Handles, Usable(h)
    PROVE  /\ Loaded(h) \in Store
           /\ Loaded(h).loaded /\ ~Loaded(h).archived
  BY DEF TypeOK, Usable, Loaded, Store, File

LEMMA VersionType ==
    ASSUME NEW m \in Store
    PROVE  /\ EffectiveSchemaVersion(m) \in 1..2
           /\ EffectiveSchemaVersion(m) # 0
           /\ EffectiveSchemaVersion(m) < 2 => m.version < 2 /\ NowFree(m.items)
           /\ m.version < 2 /\ NowFree(m.items) => EffectiveSchemaVersion(m) < 2
           /\ ~NowFree(m.items) => EffectiveSchemaVersion(m) = 2
  BY DEF EffectiveSchemaVersion, Store, Present, NowFree

\* What recovery and compaction make of the items are items again, and neither
\* turns one into an immediate item.
LEMMA CompactType ==
    ASSUME NEW items \in Items
    PROVE  /\ Compact(items) \in Items
           /\ NowFree(items) => NowFree(Compact(items))
  BY NoFileType DEF Compact, Items, NowFree, NoItem

LEMMA RecoverType ==
    ASSUME TypeOK, NEW items \in Items
    PROVE  /\ RecoverStale(items) \in Items
           /\ NowFree(items) => NowFree(RecoverStale(items))
<1> DEFINE r(i) == [items[i] EXCEPT !.state = "unknown", !.resolvedAt = clock,
                                    !.detail = "recovery"]
<1>1. ASSUME NEW i \in ItemIds
      PROVE  r(i) \in Item /\ r(i).policy = items[i].policy
  BY DEF TypeOK, Items, Item, ItemStates, Terminal, Details
<1>2. \A i \in ItemIds : \/ RecoverStale(items)[i] = items[i]
                         \/ /\ RecoverStale(items)[i] = r(i)
                            /\ items[i].state = "dispatching"
  BY DEF RecoverStale
<1>3. RecoverStale(items) \in Items
  BY <1>1 DEF RecoverStale, Items
<1>4. NowFree(items) => NowFree(RecoverStale(items))
  BY <1>1, <1>2 DEF NowFree
<1> QED
  BY <1>3, <1>4
-----------------------------------------------------------------------------
\* What an operation starts from: the loaded store is the file.
LEMMA LoadedIsFile ==
    ASSUME StoreInv, NEW h \in Handles, Usable(h)
    PROVE  /\ h = registry
           /\ disk.version = 0 => Empty(Loaded(h)) /\ answered = {}
           /\ disk.version # 0 => disk = FileOf(Loaded(h))
           /\ ~daemonOn => /\ Loaded(h).version < 2 /\ NowFree(Loaded(h).items)
                          /\ disk.version < 2
<1> USE DEF StoreInv
<1>1. h = registry
  BY DEF LiveRegistered, Usable
<1>2. disk.version = 0 => answered = {}
  BY DEF AnswersKept
<1>3. NowFree(disk.items) \/ disk.version = 2
  BY DEF PolicyBytesFenced, NowFree, Present
<1>4. CASE mem[h].loaded
  BY <1>1, <1>2, <1>4
     DEF Usable, Loaded, CacheIsFile, LegacyClean, TypeOK, FileOf, Store, File
<1>5. CASE ~mem[h].loaded
  <2>1. Empty(NoFile)
    BY DEF Empty, NoFile, Present, Receipted, NoItems, NoReceipts, NoItem,
           NoReceipt
  <2>2. /\ Loaded(h).version = disk.version /\ Loaded(h).order = disk.order
        /\ Loaded(h).items = disk.items /\ Loaded(h).receipts = disk.receipts
    BY <1>5 DEF Loaded
  <2>3. disk.version = 0 => Empty(Loaded(h))
    BY <2>1, <2>2 DEF MissingFile, Empty
  <2>4. disk = FileOf(Loaded(h))
    BY <2>2 DEF FileOf, TypeOK, File
  <2>5. ~daemonOn => disk.version < 2
    BY <1>5 DEF Usable, Loadable
  <2> QED
    BY <1>1, <1>2, <1>3, <2>2, <2>3, <2>4, <2>5
<1> QED
  BY <1>4, <1>5

\* A step that only leaves the store loaded.
LEMMA LoadedMemInv ==
    ASSUME StoreInv, NEW h \in Handles, Usable(h),
           mem' = [mem EXCEPT ![h] = Loaded(h)], disk' = disk,
           UNCHANGED <<registry, born, daemonOn, clock>>,
           answered' \subseteq Answer, AnswersKept',
           nextId' \in 1..(MaxItems + 1)
    PROVE  StoreInv'
<1>1. /\ Loaded(h) \in Store /\ Loaded(h).loaded /\ ~Loaded(h).archived
  BY LoadedType DEF StoreInv
<1>2. h \in born /\ mem \in [Handles -> Store] /\ born \subseteq Handles
  BY DEF Usable, StoreInv, TypeOK
<1>3. TypeOK'
  BY <1>1 DEF StoreInv, TypeOK
<1>4. UnbornNew' /\ RegistryBorn' /\ LiveRegistered'
  BY <1>1, <1>2, LoadedIsFile DEF StoreInv, UnbornNew, RegistryBorn,
                                            LiveRegistered
<1>5. CacheIsFile'
  BY <1>1, <1>2, LoadedIsFile DEF StoreInv, CacheIsFile
<1>6. MissingFile' /\ PolicyBytesFenced'
  BY DEF StoreInv, MissingFile, PolicyBytesFenced
<1>7. LegacyClean'
  BY <1>1, <1>2, LoadedIsFile DEF StoreInv, LegacyClean
<1> QED
  BY <1>3, <1>4, <1>5, <1>6, <1>7 DEF StoreInv

\* An error return, or an answer that changes nothing.
LEMMA RollbackInv ==
    ASSUME StoreInv, NEW h \in Handles, Usable(h), Rollback(h),
           UNCHANGED <<registry, born, daemonOn, clock, answered>>,
           nextId' \in 1..(MaxItems + 1)
    PROVE  StoreInv'
<1>1. answered' \subseteq Answer /\ AnswersKept'
  BY DEF Rollback, StoreInv, TypeOK, AnswersKept
<1> QED
  BY <1>1, LoadedMemInv DEF Rollback

\* A save of a document that keeps every answer given, and holds immediate
\* items only with the scheduler on.
LEMMA SaveInv ==
    ASSUME StoreInv, NEW h \in Handles, Usable(h),
           NEW m \in Store, m.loaded, ~m.archived, Save(h, m),
           ~daemonOn => m.version < 2 /\ NowFree(m.items),
           answered' \subseteq Answer,
           \A r \in answered' : r.item # 0 /\ m.receipts[r.adm] = ReceiptOf(r),
           UNCHANGED <<registry, born, daemonOn, clock>>,
           nextId' \in 1..(MaxItems + 1)
    PROVE  StoreInv'
<1> DEFINE v == EffectiveSchemaVersion(m)
           s == [m EXCEPT !.version = v]
<1>1. /\ s \in Store /\ s.loaded /\ ~s.archived /\ s.version = v
      /\ s.items = m.items /\ s.receipts = m.receipts /\ s.order = m.order
      /\ v \in 1..2
  BY VersionType DEF Store
<1>2. /\ mem' = [mem EXCEPT ![h] = s] /\ disk' = FileOf(s)
  BY DEF Save
<1>3. /\ FileOf(s) \in File /\ FileOf(s).version = v
      /\ FileOf(s).items = m.items /\ FileOf(s).receipts = m.receipts
  BY <1>1 DEF FileOf, File, Store
<1>4. h \in born /\ mem \in [Handles -> Store] /\ born \subseteq Handles
  BY DEF Usable, StoreInv, TypeOK
<1>5. mem'[h] = s /\ \A k \in Handles : k # h => mem'[k] = mem[k]
  BY <1>2, <1>4
<1>6. ~daemonOn => v < 2
  BY VersionType
<1> HIDE DEF v, s
<1>7. TypeOK'
  BY <1>1, <1>2, <1>3 DEF StoreInv, TypeOK
<1>8. UnbornNew' /\ RegistryBorn' /\ LiveRegistered'
  BY <1>4, <1>5, LoadedIsFile DEF StoreInv, UnbornNew, RegistryBorn,
                                            LiveRegistered
<1>9. CacheIsFile'
  <2> SUFFICES ASSUME NEW k \in born, ~mem'[k].archived
               PROVE  k = h
    BY <1>1, <1>2, <1>3, <1>5 DEF CacheIsFile, StoreInv
  <2> QED
    BY <1>4, <1>5, LoadedIsFile DEF StoreInv, LiveRegistered
<1>10. MissingFile' /\ AnswersKept'
  BY <1>1, <1>2, <1>3 DEF MissingFile, AnswersKept
<1>11. PolicyBytesFenced'
  BY <1>2, <1>3, VersionType DEF PolicyBytesFenced, NowFree, Present, v
<1>12. LegacyClean'
  BY <1>1, <1>4, <1>5, <1>6 DEF StoreInv, LegacyClean
<1> QED
  BY <1>7, <1>8, <1>9, <1>10, <1>11, <1>12 DEF StoreInv

\* Every answer given is in the receipts an operation works with.
LEMMA AnswersLoaded ==
    ASSUME StoreInv, NEW h \in Handles, Usable(h)
    PROVE  \A r \in answered :
               r.item # 0 /\ Loaded(h).receipts[r.adm] = ReceiptOf(r)
<1> SUFFICES ASSUME NEW r \in answered
             PROVE  r.item # 0 /\ Loaded(h).receipts[r.adm] = ReceiptOf(r)
  OBVIOUS
<1>1. /\ disk.version # 0 /\ r.item # 0
      /\ disk.receipts[r.adm] = ReceiptOf(r)
  BY DEF StoreInv, AnswersKept
<1>2. disk = FileOf(Loaded(h))
  BY <1>1, LoadedIsFile
<1> QED
  BY <1>1, <1>2 DEF FileOf

\* A rewrite after compaction, the removal of an emptied file included.
LEMMA PersistInv ==
    ASSUME StoreInv, NEW h \in Handles, Usable(h),
           NEW m \in Store, m.loaded, ~m.archived,
           NEW c, PersistAfterCompaction(h, m, c),
           m.receipts = Loaded(h).receipts,
           ~daemonOn => m.version < 2 /\ NowFree(m.items),
           UNCHANGED <<registry, born, daemonOn, clock, nextId, answered>>
    PROVE  StoreInv'
<1>0. /\ nextId' \in 1..(MaxItems + 1) /\ answered' = answered
      /\ answered \subseteq Answer
  BY DEF StoreInv, TypeOK
<1>1. CASE Save(h, m)
  BY <1>0, <1>1, AnswersLoaded, SaveInv
<1>2. CASE /\ Present(m.items) = {} /\ Receipted(m.receipts) = {}
           /\ disk' = NoFile /\ mem' = [mem EXCEPT ![h] = m]
  <2>1. answered = {}
    <3> SUFFICES ASSUME NEW r \in answered PROVE FALSE
      OBVIOUS
    <3>1. r.item # 0 /\ m.receipts[r.adm] = ReceiptOf(r)
      BY AnswersLoaded
    <3>2. r.adm \in AdmissionIds /\ ReceiptOf(r).item = r.item
      BY <1>0 DEF Answer, ReceiptOf
    <3> QED
      BY <1>2, <3>1, <3>2 DEF Receipted
  <2>2. h \in born /\ mem \in [Handles -> Store] /\ born \subseteq Handles
    BY DEF Usable, StoreInv, TypeOK
  <2>3. mem'[h] = m /\ \A k \in Handles : k # h => mem'[k] = mem[k]
    BY <1>2, <2>2
  <2>4. NoFile.version = 0 /\ Present(NoFile.items) = {}
    BY DEF NoFile, Present, NoItems, NoItem
  <2>5. TypeOK'
    BY <1>0, <1>2, <2>2, NoFileType DEF StoreInv, TypeOK
  <2>6. UnbornNew' /\ RegistryBorn' /\ LiveRegistered'
    BY <2>2, <2>3, LoadedIsFile DEF StoreInv, UnbornNew, RegistryBorn,
                                            LiveRegistered
  <2>7. CacheIsFile'
    <3> SUFFICES ASSUME NEW k \in born, ~mem'[k].archived
                 PROVE  k = h
      BY <1>2, <2>3, <2>4 DEF CacheIsFile, Empty
    <3> QED
      BY <2>2, <2>3, LoadedIsFile DEF StoreInv, LiveRegistered
  <2>8. MissingFile' /\ AnswersKept' /\ PolicyBytesFenced'
    BY <1>0, <1>2, <2>1, <2>4 DEF MissingFile, AnswersKept, PolicyBytesFenced
  <2>9. LegacyClean'
    BY <2>2, <2>3 DEF StoreInv, LegacyClean
  <2> QED
    BY <2>5, <2>6, <2>7, <2>8, <2>9 DEF StoreInv
<1> QED
  BY <1>1, <1>2 DEF PersistAfterCompaction
-----------------------------------------------------------------------------
\* One lemma per operation.

LEMMA ListInv ==
    ASSUME StoreInv, NEW h \in Handles, List(h)
    PROVE  StoreInv'
<1> DEFINE m == Loaded(h)
           recovered == RecoverStale(m.items)
           compacted == Compact(recovered)
           new == [m EXCEPT !.items = compacted]
<1>1. Usable(h) /\ UNCHANGED <<registry, born, daemonOn, clock, nextId, answered>>
  BY DEF List
<1>2. m \in Store /\ m.loaded /\ ~m.archived /\ m.items \in Items
  BY <1>1, LoadedType DEF StoreInv, Store
<1>3. recovered \in Items /\ (NowFree(m.items) => NowFree(recovered))
  BY <1>2, RecoverType DEF StoreInv
<1>4. compacted \in Items /\ (NowFree(recovered) => NowFree(compacted))
  BY <1>3, CompactType
<1>5. /\ new \in Store /\ new.loaded /\ ~new.archived /\ new.version = m.version
      /\ new.items = compacted /\ new.receipts = m.receipts
  BY <1>2, <1>4 DEF Store
<1>6. ~daemonOn => new.version < 2 /\ NowFree(new.items)
  BY <1>1, <1>3, <1>4, <1>5, LoadedIsFile
<1>7. CASE Rollback(h)
  BY <1>1, <1>7, RollbackInv DEF StoreInv, TypeOK
<1>8. CASE PersistAfterCompaction(h, new, compacted # recovered)
  BY <1>1, <1>5, <1>6, <1>8, PersistInv
<1> QED
  BY <1>7, <1>8 DEF List

\* An item that Admit or EscalatePendingToNow appends.
LEMMA NewItemType ==
    ASSUME NEW m \in Store, NEW q \in Policies, NEW d \in Details
    PROVE  /\ NewItem(m, q, d) \in Item /\ NewItem(m, q, d).policy = q
           /\ NewItem(m, q, d).state = "pending"
<1>1. m.order + 1 \in Nat
  BY DEF Store
<1> QED
  BY <1>1 DEF NewItem, Item, ItemStates

LEMMA AdmitInv ==
    ASSUME StoreInv, NEW h \in Handles, Usable(h),
           NEW a \in AdmissionIds \cup {NoId}, NEW p \in Payloads,
           NEW q \in Policies, q = "now" => daemonOn,
           a # NoId => Loaded(h).receipts[a].item = 0,
           Admit(h, a, p, q), UNCHANGED <<registry, born, daemonOn, clock>>
    PROVE  StoreInv'
<1> DEFINE m == Loaded(h)
           receipt == [item |-> nextId, payload |-> p, policy |-> q]
           receipts == IF a = NoId THEN m.receipts
                       ELSE [m.receipts EXCEPT ![a] = receipt]
           items == [m.items EXCEPT ![nextId] = NewItem(m, q, "")]
           new == [m EXCEPT !.order = m.order + 1, !.items = items,
                            !.receipts = receipts]
<1>1. /\ m \in Store /\ m.loaded /\ ~m.archived /\ m.items \in Items
      /\ m.receipts \in Receipts /\ m.order \in Nat
  BY LoadedType DEF StoreInv, Store
<1>2. /\ nextId \in ItemIds /\ nextId \in Nat /\ nextId # 0
      /\ nextId' = nextId + 1 /\ nextId' \in 1..(MaxItems + 1)
  BY BoundsAssumption DEF Admit, ItemIds
<1>3. Save(h, new)
  BY DEF Admit
<1>4. NewItem(m, q, "") \in Item /\ NewItem(m, q, "").policy = q
  BY <1>1, NewItemType DEF Details
<1>5. /\ items \in Items
      /\ NowFree(m.items) /\ q # "now" => NowFree(items)
  BY <1>1, <1>2, <1>4 DEF Items, NowFree
<1>6. receipt \in Receipt /\ receipts \in Receipts
  BY <1>1, <1>2 DEF Receipts, Receipt
<1>7. /\ new \in Store /\ new.loaded /\ ~new.archived /\ new.version = m.version
      /\ new.items = items /\ new.receipts = receipts
  <2>1. m.order + 1 \in Nat
    BY <1>1
  <2> HIDE DEF m, items, receipts
  <2> QED
    BY <1>1, <1>5, <1>6, <2>1 DEF Store
<1>8. ~daemonOn => new.version < 2 /\ NowFree(new.items)
  BY <1>5, <1>7, LoadedIsFile
<1>9. answered \subseteq Answer
  BY DEF StoreInv, TypeOK
<1>10. answered' = answered \cup (IF a = NoId THEN {} ELSE {AnswerOf(a, receipt)})
  BY DEF Admit
<1>11. a # NoId => /\ AnswerOf(a, receipt) \in Answer
                   /\ AnswerOf(a, receipt).adm = a
                   /\ AnswerOf(a, receipt).item = nextId
                   /\ ReceiptOf(AnswerOf(a, receipt)) = receipt
  BY <1>2 DEF AnswerOf, Answer, ReceiptOf
<1>12. \A r \in answered : r.item # 0 /\ m.receipts[r.adm] = ReceiptOf(r)
                            /\ r.adm \in AdmissionIds
  BY <1>9, AnswersLoaded DEF Answer
<1>13. \A r \in answered : r.adm # a
  <2> SUFFICES ASSUME NEW r \in answered, r.adm = a PROVE FALSE
    OBVIOUS
  <2>1. a # NoId /\ r.item # 0 /\ m.receipts[a] = ReceiptOf(r)
    BY <1>12, NamesAssumption
  <2> QED
    BY <2>1 DEF ReceiptOf
<1>14. answered' \subseteq Answer
  BY <1>9, <1>10, <1>11
<1>15. \A r \in answered' : r.item # 0 /\ new.receipts[r.adm] = ReceiptOf(r)
  <2> SUFFICES ASSUME NEW r \in answered'
               PROVE  r.item # 0 /\ receipts[r.adm] = ReceiptOf(r)
    BY <1>7
  <2>1. CASE r \in answered
    BY <1>1, <1>12, <1>13, <2>1 DEF Receipts
  <2>2. CASE a # NoId /\ r = AnswerOf(a, receipt)
    BY <1>1, <1>2, <1>11, <2>2 DEF Receipts
  <2> QED
    BY <1>10, <2>1, <2>2
<1> QED
  BY <1>2, <1>3, <1>7, <1>8, <1>14, <1>15, SaveInv

LEMMA EnqueueInv ==
    ASSUME StoreInv, NEW h \in Handles,
           NEW a \in AdmissionIds \cup {NoId}, NEW p \in Payloads,
           NEW q \in Policies, EnqueueAdmission(h, a, p, q)
    PROVE  StoreInv'
<1>1. Usable(h) /\ UNCHANGED <<registry, born, daemonOn, clock>>
      /\ (q = "now" => daemonOn) /\ nextId \in 1..(MaxItems + 1)
  BY DEF EnqueueAdmission, StoreInv, TypeOK
<1>2. CASE /\ a # NoId /\ Loaded(h).receipts[a].item # 0
           /\ Replay(h, a, p, q)
  <2> DEFINE receipt == Loaded(h).receipts[a]
             ans == [adm |-> a, item |-> receipt.item, payload |-> p,
                     policy |-> q]
  <2>1. a \in AdmissionIds /\ receipt \in Receipt
    BY <1>1, <1>2, LoadedType DEF StoreInv, Store, Receipts
  <2>2. CASE answered' = answered
    BY <1>1, <1>2, <2>2, RollbackInv DEF Replay
  <2>3. CASE /\ receipt.payload = p /\ receipt.policy = q
             /\ answered' = answered \cup {ans}
    <3>1. ans \in Answer /\ ans.adm = a /\ ans.item # 0
      BY <1>2, <2>1 DEF Answer, Receipt
    <3>2. ReceiptOf(ans) = receipt
      BY <2>1, <2>3 DEF ReceiptOf, Receipt
    <3>3. disk.version # 0 /\ disk.receipts[a] = receipt
      <4>1. Receipted(Loaded(h).receipts) # {}
        BY <1>2, <2>1 DEF Receipted
      <4>2. disk.version # 0
        BY <1>1, <4>1, LoadedIsFile DEF Empty
      <4> QED
        BY <1>1, <4>2, LoadedIsFile DEF FileOf
    <3>4. mem' = [mem EXCEPT ![h] = Loaded(h)] /\ disk' = disk /\ nextId' = nextId
      BY <1>2 DEF Replay, Rollback
    <3>5. AnswersKept'
      BY <2>3, <3>1, <3>2, <3>3, <3>4 DEF StoreInv, AnswersKept
    <3>6. answered' \subseteq Answer
      BY <2>3, <3>1 DEF StoreInv, TypeOK
    <3> QED
      BY <1>1, <3>4, <3>5, <3>6, LoadedMemInv
  <2> QED
    BY <1>2, <2>2, <2>3 DEF Replay
<1>3. CASE /\ a # NoId => Loaded(h).receipts[a].item = 0
           /\ Admit(h, a, p, q)
  BY <1>1, <1>3, AdmitInv
<1>4. CASE Rollback(h) /\ UNCHANGED <<nextId, answered>>
  BY <1>1, <1>4, RollbackInv
<1> QED
  BY <1>2, <1>3, <1>4 DEF EnqueueAdmission

\* A save that leaves the receipts alone.
LEMMA ItemsSaveInv ==
    ASSUME StoreInv, NEW h \in Handles, Usable(h),
           NEW m \in Store, m.loaded, ~m.archived, Save(h, m),
           m.receipts = Loaded(h).receipts, m.version = Loaded(h).version,
           ~daemonOn => (NowFree(Loaded(h).items) => NowFree(m.items)),
           UNCHANGED <<registry, born, daemonOn, clock, answered>>,
           nextId' \in 1..(MaxItems + 1)
    PROVE  StoreInv'
<1>1. answered' \subseteq Answer
  BY DEF StoreInv, TypeOK
<1>2. ~daemonOn => m.version < 2 /\ NowFree(m.items)
  BY LoadedIsFile
<1>3. \A r \in answered' : r.item # 0 /\ m.receipts[r.adm] = ReceiptOf(r)
  BY AnswersLoaded
<1> QED
  BY <1>1, <1>2, <1>3, SaveInv

LEMMA RemoveInv ==
    ASSUME StoreInv, NEW h \in Handles, NEW i \in ItemIds, Remove(h, i)
    PROVE  StoreInv'
<1> DEFINE m == Loaded(h)
           items == [m.items EXCEPT ![i] = NoItem]
           new == [m EXCEPT !.items = items]
<1>1. /\ Usable(h) /\ UNCHANGED <<registry, born, daemonOn, clock, answered>>
      /\ nextId' \in 1..(MaxItems + 1)
  BY DEF Remove, StoreInv, TypeOK
<1>2. m \in Store /\ m.loaded /\ ~m.archived /\ m.items \in Items
  BY <1>1, LoadedType DEF StoreInv, Store
<1>3. items \in Items /\ (NowFree(m.items) => NowFree(items))
  BY <1>2, NoFileType DEF Items, NowFree, NoItem
<1>4. /\ new \in Store /\ new.loaded /\ ~new.archived /\ new.version = m.version
      /\ new.items = items /\ new.receipts = m.receipts
  BY <1>2, <1>3 DEF Store
<1>5. CASE Rollback(h)
  BY <1>1, <1>5, RollbackInv
<1>6. CASE Save(h, new)
  BY <1>1, <1>3, <1>4, <1>6, ItemsSaveInv
<1> QED
  BY <1>5, <1>6 DEF Remove

LEMMA ClaimInv ==
    ASSUME StoreInv, NEW h \in Handles, Claim(h)
    PROVE  StoreInv'
<1> DEFINE m == Loaded(h)
           claimed(i) == [m.items[i] EXCEPT !.state = "dispatching",
                                            !.startedAt = clock]
           items(i) == [m.items EXCEPT ![i] = claimed(i)]
           new(i) == [m EXCEPT !.items = items(i)]
<1>1. /\ Usable(h) /\ UNCHANGED <<registry, born, daemonOn, clock, answered>>
      /\ nextId' \in 1..(MaxItems + 1) /\ clock \in Nat
  BY DEF Claim, StoreInv, TypeOK
<1>2. m \in Store /\ m.loaded /\ ~m.archived /\ m.items \in Items
  BY <1>1, LoadedType DEF StoreInv, Store
<1>3. CASE Rollback(h)
  BY <1>1, <1>3, RollbackInv
<1>4. ASSUME NEW i \in InState(m.items, "pending"),
             Save(h, [m EXCEPT !.items[i].state = "dispatching",
                               !.items[i].startedAt = clock])
      PROVE  StoreInv'
  <2>1. i \in ItemIds /\ m.items[i] \in Item /\ m.items[i].state = "pending"
    BY <1>2, <1>4 DEF InState, Items
  <2>2. claimed(i) \in Item /\ claimed(i).policy = m.items[i].policy
    BY <1>1, <2>1 DEF Item, ItemStates
  <2>3. items(i) \in Items /\ (NowFree(m.items) => NowFree(items(i)))
    BY <1>2, <2>1, <2>2 DEF Items, NowFree
  <2>4. /\ new(i) \in Store /\ new(i).loaded /\ ~new(i).archived
        /\ new(i).version = m.version
        /\ new(i).items = items(i) /\ new(i).receipts = m.receipts
    BY <1>2, <2>3 DEF Store
  <2>5. Save(h, new(i))
    <3>1. [m EXCEPT !.items[i].state = "dispatching",
                    !.items[i].startedAt = clock] = new(i)
      BY <1>2, <2>1 DEF Store, Items, Item
    <3> QED
      BY <1>4, <3>1
  <2> QED
    BY <1>1, <2>3, <2>4, <2>5, ItemsSaveInv
<1> QED
  BY <1>3, <1>4 DEF Claim

LEMMA ResolveInv ==
    ASSUME StoreInv, NEW h \in Handles, NEW i \in ItemIds, NEW t \in Terminal,
           Resolve(h, i, t)
    PROVE  StoreInv'
<1> DEFINE m == Loaded(h)
           it == [m.items[i] EXCEPT !.state = t, !.detail = "report",
                                    !.resolvedAt = clock]
           resolved == [m.items EXCEPT ![i].state = t, ![i].detail = "report",
                                       ![i].resolvedAt = clock]
           compacted == Compact(resolved)
           new == [m EXCEPT !.items = compacted]
<1>1. /\ Usable(h) /\ clock \in Nat
      /\ UNCHANGED <<registry, born, daemonOn, clock, nextId, answered>>
      /\ nextId' \in 1..(MaxItems + 1)
  BY DEF Resolve, StoreInv, TypeOK
<1>2. m \in Store /\ m.loaded /\ ~m.archived /\ m.items \in Items
  BY <1>1, LoadedType DEF StoreInv, Store
<1>3. CASE Rollback(h)
  BY <1>1, <1>3, RollbackInv
<1>4. CASE /\ MayResolve(m.items[i].state, t)
           /\ PersistAfterCompaction(h, new, compacted # resolved)
  <2>1. m.items[i] \in Item /\ m.items[i].state # "none"
    BY <1>2, <1>4 DEF Items, MayResolve
  <2>2. it \in Item /\ it.policy = m.items[i].policy
    BY <1>1, <2>1 DEF Item, ItemStates, Details
  <2>3. resolved = [m.items EXCEPT ![i] = it]
    BY <1>2, <2>1 DEF Items, Item
  <2>4. resolved \in Items /\ (NowFree(m.items) => NowFree(resolved))
    <3> HIDE DEF it, resolved
    <3> QED
      BY <1>2, <2>1, <2>2, <2>3 DEF Items, NowFree
  <2> HIDE DEF it, resolved
  <2>5. compacted \in Items /\ (NowFree(resolved) => NowFree(compacted))
    BY <2>4, CompactType
  <2>6. /\ new \in Store /\ new.loaded /\ ~new.archived
        /\ new.version = m.version
        /\ new.items = compacted /\ new.receipts = m.receipts
    BY <1>2, <2>5 DEF Store
  <2>7. ~daemonOn => new.version < 2 /\ NowFree(new.items)
    BY <1>1, <2>4, <2>5, <2>6, LoadedIsFile
  <2> QED
    BY <1>1, <1>4, <2>6, <2>7, PersistInv
<1> QED
  BY <1>3, <1>4 DEF Resolve

LEMMA EscalateInv ==
    ASSUME StoreInv, NEW h \in Handles, NEW i \in ItemIds,
           EscalatePendingToNow(h, i)
    PROVE  StoreInv'
<1> DEFINE m == Loaded(h)
           items == [m.items EXCEPT ![i] = NoItem,
                                    ![nextId] = NewItem(m, "now", "escalated")]
           new == [m EXCEPT !.order = m.order + 1, !.items = items]
<1>1. /\ Usable(h) /\ daemonOn
      /\ UNCHANGED <<registry, born, daemonOn, clock, answered>>
      /\ nextId \in 1..(MaxItems + 1)
  BY DEF EscalatePendingToNow, StoreInv, TypeOK
<1>2. /\ m \in Store /\ m.loaded /\ ~m.archived /\ m.items \in Items
      /\ m.order + 1 \in Nat
  BY <1>1, LoadedType DEF StoreInv, Store
<1>3. CASE Rollback(h) /\ UNCHANGED nextId
  BY <1>1, <1>3, RollbackInv
<1>4. CASE nextId \in ItemIds /\ Save(h, new) /\ nextId' = nextId + 1
  <2>1. nextId' \in 1..(MaxItems + 1)
    BY <1>4, BoundsAssumption DEF ItemIds
  <2>2. items \in Items
    BY <1>2, <1>4, NoFileType, NewItemType DEF Items, Policies, Details
  <2>3. /\ new \in Store /\ new.loaded /\ ~new.archived
        /\ new.version = m.version /\ new.receipts = m.receipts
    <3> HIDE DEF items, m
    <3> QED
      BY <1>2, <2>2 DEF Store
  <2> QED
    BY <1>1, <1>4, <2>1, <2>3, ItemsSaveInv
<1> QED
  BY <1>3, <1>4 DEF EscalatePendingToNow

LEMMA DeleteStoreInv ==
    ASSUME StoreInv, DeleteStore
    PROVE  StoreInv'
<1>1. /\ registry' = Nil /\ UNCHANGED <<born, daemonOn, clock, nextId>>
      /\ mem' = IF registry = Nil THEN mem
                ELSE [mem EXCEPT ![registry].archived = TRUE]
  BY DEF DeleteStore
<1>2. \/ disk' = NoFile /\ answered' = {}
      \/ disk' = disk /\ answered' = answered
  BY DEF DeleteStore, RemoveQueueFileForCleanup
<1>3. /\ mem \in [Handles -> Store] /\ registry \in Handles \cup {Nil}
      /\ born \subseteq Handles
  BY DEF StoreInv, TypeOK
<1>4. /\ mem' \in [Handles -> Store]
      /\ \A h \in Handles :
           /\ h # registry => mem'[h] = mem[h]
           /\ h = registry => mem'[h].archived
           /\ mem'[h].loaded = mem[h].loaded /\ mem'[h].version = mem[h].version
           /\ mem'[h].items = mem[h].items
  BY <1>1, <1>3, NamesAssumption DEF Store
<1>5. \A h \in born : mem'[h].archived
  BY <1>3, <1>4 DEF StoreInv, LiveRegistered
<1>6. TypeOK'
  BY <1>1, <1>2, <1>4, NoFileType DEF StoreInv, TypeOK
<1>7. UnbornNew'
  <2>1. registry \in Handles => registry \in born
    BY NamesAssumption DEF StoreInv, RegistryBorn
  <2> QED
    BY <1>1, <1>3, <1>4, <2>1 DEF StoreInv, UnbornNew
<1>8. LiveRegistered' /\ CacheIsFile' /\ RegistryBorn'
  BY <1>1, <1>5, NamesAssumption DEF LiveRegistered, CacheIsFile, RegistryBorn
<1>9. MissingFile' /\ AnswersKept' /\ PolicyBytesFenced'
  <2>1. NoFile.version = 0 /\ Present(NoFile.items) = {}
    BY DEF NoFile, NoItems, NoItem, Present
  <2>2. CASE disk' = NoFile /\ answered' = {}
    BY <2>1, <2>2 DEF MissingFile, AnswersKept, PolicyBytesFenced
  <2>3. CASE disk' = disk /\ answered' = answered
    BY <2>3 DEF StoreInv, MissingFile, AnswersKept, PolicyBytesFenced
  <2> QED
    BY <1>2, <2>2, <2>3
<1>10. LegacyClean'
  BY <1>1, <1>4 DEF StoreInv, LegacyClean
<1> QED
  BY <1>6, <1>7, <1>8, <1>9, <1>10 DEF StoreInv

LEMMA RestartInv ==
    ASSUME StoreInv, Restart
    PROVE  StoreInv'
<1>1. TypeOK'
  BY NoFileType DEF Restart, StoreInv, TypeOK
<1>2. /\ UnbornNew' /\ RegistryBorn' /\ LiveRegistered' /\ CacheIsFile'
      /\ LegacyClean'
  BY NamesAssumption
     DEF Restart, UnbornNew, RegistryBorn, LiveRegistered, CacheIsFile,
         LegacyClean, NewStore
<1>3. MissingFile' /\ AnswersKept' /\ PolicyBytesFenced'
  BY DEF Restart, StoreInv, MissingFile, AnswersKept, PolicyBytesFenced
<1> QED
  BY <1>1, <1>2, <1>3 DEF StoreInv

LEMMA TickInv ==
    ASSUME StoreInv, Tick
    PROVE  StoreInv'
<1>1. clock' \in Nat /\ UNCHANGED <<disk, mem, registry, born, daemonOn, nextId,
                                   answered>>
  BY DEF Tick, StoreInv, TypeOK
<1> QED
  BY <1>1 DEF StoreInv, TypeOK, UnbornNew, RegistryBorn, LiveRegistered,
              CacheIsFile, MissingFile, AnswersKept, PolicyBytesFenced,
              LegacyClean

LEMMA LookupStoreInv ==
    ASSUME StoreInv, NEW h \in Handles, LookupStore(h)
    PROVE  StoreInv'
<1>1. /\ registry = Nil /\ h \notin born /\ registry' = h
      /\ born' = born \cup {h}
      /\ UNCHANGED <<disk, mem, daemonOn, clock, nextId, answered>>
  BY DEF LookupStore
<1>2. ~mem[h].loaded
  <2>1. mem[h] = NewStore
    BY <1>1 DEF StoreInv, UnbornNew
  <2> QED
    BY <2>1 DEF NewStore
<1>3. \A k \in born : mem[k].archived
  BY <1>1, NamesAssumption DEF StoreInv, LiveRegistered, TypeOK
<1>4. TypeOK'
  BY <1>1 DEF StoreInv, TypeOK
<1>5. UnbornNew' /\ RegistryBorn' /\ LiveRegistered' /\ CacheIsFile'
  BY <1>1, <1>2, <1>3
     DEF StoreInv, UnbornNew, RegistryBorn, LiveRegistered, CacheIsFile
<1>6. MissingFile' /\ AnswersKept' /\ PolicyBytesFenced' /\ LegacyClean'
  BY <1>1 DEF StoreInv, MissingFile, AnswersKept, PolicyBytesFenced, LegacyClean
<1> QED
  BY <1>4, <1>5, <1>6 DEF StoreInv
-----------------------------------------------------------------------------
LEMMA InitInv == Init => StoreInv
<1> SUFFICES ASSUME Init PROVE StoreInv
  OBVIOUS
<1>1. TypeOK
  BY NoFileType, BoundsAssumption DEF Init, TypeOK
<1> QED
  BY <1>1, NamesAssumption
     DEF Init, StoreInv, UnbornNew, RegistryBorn, LiveRegistered, CacheIsFile,
         MissingFile, AnswersKept, PolicyBytesFenced, LegacyClean, NoFile,
         NoItems, NoItem, Present, NewStore

LEMMA NextInv == StoreInv /\ [Next]_vars => StoreInv'
<1> SUFFICES ASSUME StoreInv, [Next]_vars PROVE StoreInv'
  OBVIOUS
<1>1. ASSUME NEW h \in Handles, LookupStore(h) PROVE StoreInv'
  BY <1>1, LookupStoreInv
<1>2. ASSUME NEW h \in Handles, Operation(h) PROVE StoreInv'
  BY <1>2, ListInv, EnqueueInv, RemoveInv, ClaimInv, ResolveInv, EscalateInv
     DEF Operation
<1>3. CASE DeleteStore
  BY <1>3, DeleteStoreInv
<1>4. CASE Restart
  BY <1>4, RestartInv
<1>5. CASE Tick
  BY <1>5, TickInv
<1>6. CASE UNCHANGED vars
  BY <1>6 DEF vars, StoreInv, TypeOK, UnbornNew, RegistryBorn, LiveRegistered,
              CacheIsFile, MissingFile, AnswersKept, PolicyBytesFenced,
              LegacyClean
<1> QED
  BY <1>1, <1>2, <1>3, <1>4, <1>5, <1>6 DEF Next
-----------------------------------------------------------------------------
\* The file, the caches, the receipts and the answers given always fit together.
THEOREM StoreInvariant == Spec => []StoreInv
  BY InitInv, NextInv, PTL DEF Spec

\* Every variable keeps the shape of the field it models, for any number of
\* items, store objects, admission ids and payloads.
THEOREM TypeCorrect == Spec => []TypeOK
<1>1. StoreInv => TypeOK
  BY DEF StoreInv
<1> QED
  BY <1>1, StoreInvariant, PTL

\* Exactly-once admission: whatever is retried, removed, compacted, archived or
\* lost to a failed save or a restart, one admission id is answered with one
\* item of one content.
THEOREM AdmissionIsOnce == Spec => []AdmissionOnce
<1>1. StoreInv => AdmissionOnce
  <2> SUFFICES ASSUME StoreInv, NEW r \in answered, NEW s \in answered,
                      r.adm = s.adm
               PROVE  r = s
    BY DEF AdmissionOnce
  <2>1. ReceiptOf(r) = ReceiptOf(s)
    BY DEF StoreInv, AnswersKept
  <2>2. r.item = s.item /\ r.payload = s.payload /\ r.policy = s.policy
    BY <2>1 DEF ReceiptOf
  <2> QED
    BY <2>2 DEF StoreInv, TypeOK, Answer
<1> QED
  BY <1>1, StoreInvariant, PTL

\* The cache of the one live store object never drifts from queue.json.
THEOREM CacheIsCoherent == Spec => []CacheCoherent
<1>1. StoreInv => CacheCoherent
  BY DEF StoreInv, CacheCoherent, LiveRegistered, CacheIsFile, Empty
<1> QED
  BY <1>1, StoreInvariant, PTL

\* Immediate-dispatch items are only ever in a file stamped with schema 2.
THEOREM PolicyBytesAreFenced == Spec => []PolicyBytesFenced
<1>1. StoreInv => PolicyBytesFenced
  BY DEF StoreInv
<1> QED
  BY <1>1, StoreInvariant, PTL

\* With the policy scheduler off, no step changes a policy-bearing file.
THEOREM LegacyModeIsHarmless == Spec => LegacyModePreservesPolicyFile
<1>1. StoreInv /\ [Next]_vars => [~daemonOn /\ disk.version = 2 => disk' = disk]_vars
  <2> SUFFICES ASSUME StoreInv, Next, ~daemonOn, disk.version = 2
               PROVE  disk' = disk
    BY DEF vars
  <2>1. ASSUME NEW h \in Handles, Operation(h) PROVE Usable(h)
    BY <2>1 DEF Operation, List, EnqueueAdmission, Remove, Claim, Resolve,
                EscalatePendingToNow
  <2>2. ASSUME NEW h \in Handles, Operation(h) PROVE FALSE
    BY <2>1, <2>2, LoadedIsFile
  <2>3. ASSUME NEW h \in Handles, LookupStore(h) PROVE disk' = disk
    BY <2>3 DEF LookupStore
  <2>4. CASE DeleteStore
    BY <2>4 DEF DeleteStore, RemoveQueueFileForCleanup
  <2>5. CASE Restart \/ Tick
    BY <2>5 DEF Restart, Tick
  <2> QED
    BY <2>2, <2>3, <2>4, <2>5 DEF Next
<1> QED
  BY <1>1, StoreInvariant, PTL DEF Spec, LegacyModePreservesPolicyFile

-----------------------------------------------------------------------------
(***************************************************************************)
(* The caps.  TerminalBounded rests on the orders of the items: compaction  *)
(* sorts by resolution time and breaks ties by order, so that it keeps      *)
(* exactly the newest only where no two items share an order.  A counter    *)
(* over items is bounded without induction: the oldest item kept has fewer  *)
(* than the cap above it, and all others kept are among those.              *)
(***************************************************************************)

\* The items present carry orders of their own, none above the highest given.
Apart(items, top) ==
    \A i \in Present(items) :
        /\ items[i].order <= top
        /\ \A j \in Present(items) : items[i].order = items[j].order => i = j

Bounded(items) ==
    \A s \in Terminal : Cardinality(InState(items, s)) <= Cap[s]

FileBounds == Apart(disk.items, disk.order) /\ TerminalBounded

BoundInv == StoreInv /\ FileBounds

\* Sets of naturals have a least element: < is well-founded.
LEMMA Least ==
    ASSUME NEW S \in SUBSET Nat, S # {}
    PROVE  \E n \in S : \A k \in S : n <= k
<1>1. PICK n \in S : \A k \in S : ~(<<k, n>> \in OpToRel(<, Nat))
  BY NatLessThanWellFounded, WFMin
<1>2. ASSUME NEW k \in S PROVE n <= k
  <2>1. k \in Nat /\ n \in Nat
    OBVIOUS
  <2>2. <<k, n>> \in OpToRel(<, Nat) <=> k < n
    BY <2>1 DEF OpToRel
  <2>3. ~(k < n)
    BY <1>1, <2>2
  <2> QED
    BY <2>1, <2>3
<1> QED
  BY <1>2

\* Sets of items are finite.
LEMMA ItemSets ==
    ASSUME NEW S \in SUBSET ItemIds
    PROVE  IsFiniteSet(S) /\ Cardinality(S) \in Nat
<1>1. IsFiniteSet(ItemIds)
  BY BoundsAssumption, FS_Interval DEF ItemIds
<1> QED
  BY <1>1, FS_Subset, FS_CardinalityType

\* Among items apart, the order of compaction has an oldest one: no other is
\* as old.
LEMMA OldestKept ==
    ASSUME clock \in Nat, NEW items \in Items, NEW top, Apart(items, top),
           NEW K \in SUBSET Present(items), K # {}
    PROVE  \E i \in K : \A j \in K : j = i \/ Older(items, i, j)
<1> DEFINE key(i) == SortKey(items[i])
           ord(i) == items[i].order
<1>1. \A i \in ItemIds : key(i) \in Nat /\ ord(i) \in Nat
  BY DEF Items, Item, SortKey
<1>2. K \subseteq ItemIds
  BY DEF Present
<1> HIDE DEF key
<1>3. PICK a \in K : \A j \in K : key(a) <= key(j)
  <2>1. {key(i) : i \in K} \in SUBSET Nat /\ {key(i) : i \in K} # {}
    BY <1>1, <1>2
  <2>2. PICK n \in {key(i) : i \in K} : \A k \in {key(i) : i \in K} : n <= k
    BY <2>1, Least
  <2> QED
    BY <2>2
<1> DEFINE L == {i \in K : key(i) = key(a)}
<1>4. PICK b \in L : \A j \in L : ord(b) <= ord(j)
  <2>1. {ord(i) : i \in L} \in SUBSET Nat /\ {ord(i) : i \in L} # {}
    BY <1>1, <1>2
  <2>2. PICK n \in {ord(i) : i \in L} : \A k \in {ord(i) : i \in L} : n <= k
    BY <2>1, Least
  <2> QED
    BY <2>2
<1>5. ASSUME NEW j \in K, j # b PROVE Older(items, b, j)
  <2>1. key(b) = key(a) /\ key(a) <= key(j) /\ key(a) \in Nat /\ key(j) \in Nat
    BY <1>1, <1>2, <1>3, <1>4
  <2>2. key(j) = key(b) => ord(b) < ord(j)
    <3> SUFFICES ASSUME key(j) = key(b) PROVE ord(b) < ord(j)
      OBVIOUS
    <3>1. j \in L /\ ord(b) <= ord(j) /\ ord(b) \in Nat /\ ord(j) \in Nat
      BY <1>1, <1>2, <1>4, <2>1
    <3>2. ord(b) # ord(j)
      BY <1>5 DEF Apart
    <3> QED
      BY <3>1, <3>2
  <2> QED
    BY <2>1, <2>2 DEF Older, key
<1> QED
  BY <1>4, <1>5

\* What compaction keeps of a terminal state fits its cap: the oldest item kept
\* has fewer than the cap above it.
LEMMA CompactBounded ==
    ASSUME clock \in Nat, NEW items \in Items, NEW top, Apart(items, top)
    PROVE  Bounded(Compact(items)) /\ Apart(Compact(items), top)
<1> DEFINE new == Compact(items)
<1>1. \A i \in ItemIds : /\ new[i] = items[i] \/ new[i] = NoItem
                         /\ new[i].state # "none" => 
                              new[i] = items[i] /\ i \notin OverCap(items)
                              /\ i \notin Expired(items)
  BY DEF Compact, NoItem
<1>2. Apart(new, top)
  BY <1>1 DEF Apart, Present
<1>3. ASSUME NEW s \in Terminal
      PROVE  Cardinality(InState(new, s)) <= Cap[s]
  <2> DEFINE K == InState(new, s)
             survivors == InState(items, s) \ Expired(items)
             newer(i) == {j \in survivors : Older(items, i, j)}
  <2>1. Cap[s] \in Nat /\ s # "none"
    BY RetentionAssumption DEF Terminal
  <2>2. K \subseteq Present(items) /\ K \subseteq survivors
    BY <1>1, <2>1 DEF InState, Present
  <2>3. CASE K = {}
    BY <2>1, <2>3, FS_EmptySet
  <2>4. CASE K # {}
    <3>1. PICK i \in K : \A j \in K : j = i \/ Older(items, i, j)
      BY <2>2, <2>4, OldestKept
    <3>2. K \ {i} \subseteq newer(i)
      BY <2>2, <3>1
    <3>3. ~(Cardinality(newer(i)) >= Cap[s])
      <4>1. i \in ItemIds /\ items[i].state = s /\ i \notin OverCap(items)
            /\ i \in survivors
        BY <1>1, <2>1, <2>2 DEF InState
      <4> QED
        BY <4>1 DEF OverCap
    <3>4. newer(i) \subseteq ItemIds /\ K \subseteq ItemIds
      BY DEF InState
    <3> HIDE DEF newer, K
    <3>5. /\ IsFiniteSet(newer(i)) /\ Cardinality(newer(i)) \in Nat
          /\ IsFiniteSet(K) /\ Cardinality(K) \in Nat
      BY <3>4, ItemSets
    <3>6. Cardinality(K \ {i}) = Cardinality(K) - 1
      BY <3>1, <3>5, FS_RemoveElement
    <3>7. Cardinality(K \ {i}) <= Cardinality(newer(i))
      BY <3>2, <3>5, FS_Subset
    <3> QED
      BY <2>1, <3>3, <3>5, <3>6, <3>7 DEF K
  <2> QED
    BY <2>3, <2>4
<1> QED
  BY <1>2, <1>3 DEF Bounded

\* Dropping items, or moving them out of their terminal states, keeps bounds.
LEMMA ShrinkBounded ==
    ASSUME NEW items, NEW new, Bounded(items),
           \A s \in Terminal : InState(new, s) \subseteq InState(items, s)
    PROVE  Bounded(new)
<1> SUFFICES ASSUME NEW s \in Terminal
             PROVE  Cardinality(InState(new, s)) <= Cap[s]
  BY DEF Bounded
<1>1. Cap[s] \in Nat /\ Cardinality(InState(items, s)) <= Cap[s]
  BY RetentionAssumption DEF Bounded
<1>2. InState(items, s) \subseteq ItemIds /\ InState(new, s) \subseteq ItemIds
  BY DEF InState
<1>3. /\ IsFiniteSet(InState(items, s)) /\ Cardinality(InState(items, s)) \in Nat
      /\ Cardinality(InState(new, s)) \in Nat
  BY <1>2, ItemSets
<1>4. Cardinality(InState(new, s)) <= Cardinality(InState(items, s))
  BY <1>3, FS_Subset
<1> QED
  BY <1>1, <1>3, <1>4

LEMMA EmptyBounds ==
    ASSUME NEW items, NEW top, Present(items) = {}
    PROVE  Apart(items, top) /\ Bounded(items)
<1>1. Apart(items, top)
  BY DEF Apart
<1>2. \A s \in Terminal : InState(items, s) = {} /\ Cap[s] \in Nat
  BY RetentionAssumption DEF Present, InState, Terminal
<1> QED
  BY <1>1, <1>2, FS_EmptySet DEF Bounded

LEMMA NoFileBounds == Apart(NoFile.items, NoFile.order) /\ Bounded(NoFile.items)
<1>1. Present(NoFile.items) = {}
  BY DEF NoFile, NoItems, NoItem, Present
<1> QED
  BY <1>1, EmptyBounds

\* What an operation starts from is as bounded as the file.
LEMMA LoadedBounds ==
    ASSUME BoundInv, NEW h \in Handles, Usable(h)
    PROVE  /\ Apart(Loaded(h).items, Loaded(h).order)
           /\ Bounded(Loaded(h).items)
<1>1. CASE disk.version # 0
  <2>1. Loaded(h).items = disk.items /\ Loaded(h).order = disk.order
    BY <1>1, LoadedIsFile DEF BoundInv, FileOf
  <2> QED
    BY <2>1 DEF BoundInv, FileBounds, TerminalBounded, Bounded
<1>2. CASE disk.version = 0
  <2>1. Present(Loaded(h).items) = {}
    BY <1>2, LoadedIsFile DEF BoundInv, Empty
  <2> QED
    BY <2>1, EmptyBounds
<1> QED
  BY <1>1, <1>2

\* A rewritten or removed file is as bounded as the document written.
LEMMA SavedBounds ==
    ASSUME NEW h \in Handles, NEW m \in Store, NEW c,
           Save(h, m) \/ PersistAfterCompaction(h, m, c),
           Apart(m.items, m.order), Bounded(m.items)
    PROVE  FileBounds'
<1>1. CASE Save(h, m)
  <2>1. disk'.items = m.items /\ disk'.order = m.order
    BY <1>1 DEF Save, FileOf, Store
  <2> QED
    BY <2>1 DEF FileBounds, Bounded, TerminalBounded, Apart, Present, InState
<1>2. CASE disk' = NoFile
  BY <1>2, NoFileBounds DEF FileBounds, Bounded, TerminalBounded, Apart, Present, InState
<1> QED
  BY <1>1, <1>2 DEF PersistAfterCompaction

\* Nothing else moves.
LEMMA SameBounds ==
    ASSUME BoundInv, disk' = disk
    PROVE  FileBounds'
  BY DEF BoundInv, FileBounds, TerminalBounded, Apart, Present, InState

LEMMA ListBounds ==
    ASSUME BoundInv, NEW h \in Handles, List(h)
    PROVE  FileBounds'
<1> DEFINE m == Loaded(h)
           recovered == RecoverStale(m.items)
           compacted == Compact(recovered)
           new == [m EXCEPT !.items = compacted]
<1>1. Usable(h) /\ clock \in Nat
  BY DEF List, BoundInv, StoreInv, TypeOK
<1>2. m \in Store /\ m.items \in Items
  BY <1>1, LoadedType DEF BoundInv, StoreInv, Store
<1>3. recovered \in Items
  BY <1>2, RecoverType DEF BoundInv, StoreInv
<1>4. compacted \in Items
  BY <1>3, CompactType
<1>5. Apart(m.items, m.order)
  BY <1>1, LoadedBounds
<1>6. \A i \in ItemIds : /\ recovered[i].order = m.items[i].order
                         /\ recovered[i].state # "none" => m.items[i].state # "none"
  BY <1>2 DEF RecoverStale, Items, Item
<1>7. Apart(recovered, m.order)
  BY <1>5, <1>6 DEF Apart, Present
<1>8. Apart(compacted, m.order) /\ Bounded(compacted)
  BY <1>1, <1>3, <1>7, CompactBounded
<1>9. new \in Store /\ new.items = compacted /\ new.order = m.order
  BY <1>2, <1>4 DEF Store
<1>10. CASE Rollback(h)
  BY <1>10, SameBounds DEF Rollback
<1>11. CASE PersistAfterCompaction(h, new, compacted # recovered)
  BY <1>8, <1>9, <1>11, SavedBounds
<1> QED
  BY <1>10, <1>11 DEF List

LEMMA ResolveBounds ==
    ASSUME BoundInv, NEW h \in Handles, NEW i \in ItemIds, NEW t \in Terminal,
           Resolve(h, i, t)
    PROVE  FileBounds'
<1> DEFINE m == Loaded(h)
           it == [m.items[i] EXCEPT !.state = t, !.detail = "report",
                                    !.resolvedAt = clock]
           resolved == [m.items EXCEPT ![i].state = t, ![i].detail = "report",
                                       ![i].resolvedAt = clock]
           compacted == Compact(resolved)
           new == [m EXCEPT !.items = compacted]
<1>1. Usable(h) /\ clock \in Nat
  BY DEF Resolve, BoundInv, StoreInv, TypeOK
<1>2. m \in Store /\ m.items \in Items
  BY <1>1, LoadedType DEF BoundInv, StoreInv, Store
<1>3. CASE Rollback(h)
  BY <1>3, SameBounds DEF Rollback
<1>4. CASE /\ MayResolve(m.items[i].state, t)
           /\ PersistAfterCompaction(h, new, compacted # resolved)
  <2>1. resolved \in Items
    <3>1. m.items[i] \in Item
      BY <1>2 DEF Items
    <3>2. it \in Item
      BY <1>1, <3>1 DEF Item, ItemStates, Details
    <3>3. resolved = [m.items EXCEPT ![i] = it]
      BY <1>2, <3>1 DEF Items, Item
    <3> HIDE DEF it, resolved, m
    <3> QED
      BY <1>2, <3>2, <3>3 DEF Items
  <2>2. \A j \in ItemIds : /\ resolved[j].order = m.items[j].order
                           /\ resolved[j].state # "none" => m.items[j].state # "none"
    BY <1>2, <1>4 DEF Items, Item, MayResolve
  <2> HIDE DEF resolved
  <2>3. Apart(resolved, m.order)
    BY <1>1, <2>2, LoadedBounds DEF Apart, Present
  <2>4. Apart(compacted, m.order) /\ Bounded(compacted) /\ compacted \in Items
    BY <1>1, <2>1, <2>3, CompactBounded, CompactType
  <2>5. new \in Store /\ new.items = compacted /\ new.order = m.order
    BY <1>2, <2>4 DEF Store
  <2> QED
    BY <1>4, <2>4, <2>5, SavedBounds
<1> QED
  BY <1>3, <1>4 DEF Resolve

\* A save that takes items out, or moves them among the states that are not
\* terminal, and appends at most one, above all orders given.
LEMMA AppendBounds ==
    ASSUME BoundInv, NEW h \in Handles, Usable(h), NEW m \in Store, Save(h, m),
           m.order >= Loaded(h).order,
           \A i \in ItemIds :
               \/ m.items[i].state = "none"
               \/ /\ m.items[i].order = Loaded(h).items[i].order
                  /\ Loaded(h).items[i].state # "none"
                  /\ m.items[i].state \in Terminal
                        => m.items[i].state = Loaded(h).items[i].state
               \/ /\ m.order = Loaded(h).order + 1 /\ m.items[i].order = m.order
                  /\ m.items[i].state = "pending" /\ i = nextId
    PROVE  FileBounds'
<1> DEFINE old == Loaded(h)
<1>1. Apart(old.items, old.order) /\ Bounded(old.items)
  BY LoadedBounds
<1>2. old \in Store /\ old.items \in Items /\ old.order \in Nat /\ m.order \in Nat
      /\ m.items \in Items
  BY LoadedType DEF BoundInv, StoreInv, Store
<1>3. \A i \in ItemIds : old.items[i].order \in Nat /\ m.items[i].order \in Nat
  BY <1>2 DEF Items, Item
<1> HIDE DEF old
<1>4. Apart(m.items, m.order)
  BY <1>1, <1>2, <1>3 DEF Apart, Present, old
<1>5. \A s \in Terminal : InState(m.items, s) \subseteq InState(old.items, s)
  BY DEF InState, Terminal, old
<1>6. Bounded(m.items)
  BY <1>1, <1>5, ShrinkBounded
<1> QED
  BY <1>4, <1>6, SavedBounds

LEMMA EnqueueBounds ==
    ASSUME BoundInv, NEW h \in Handles,
           NEW a \in AdmissionIds \cup {NoId}, NEW p \in Payloads,
           NEW q \in Policies, EnqueueAdmission(h, a, p, q)
    PROVE  FileBounds'
<1> DEFINE m == Loaded(h)
           receipt == [item |-> nextId, payload |-> p, policy |-> q]
           receipts == IF a = NoId THEN m.receipts
                       ELSE [m.receipts EXCEPT ![a] = receipt]
           items == [m.items EXCEPT ![nextId] = NewItem(m, q, "")]
           new == [m EXCEPT !.order = m.order + 1, !.items = items,
                            !.receipts = receipts]
<1>1. /\ Usable(h)
      /\ Admit(h, a, p, q) \/ Rollback(h)
  BY DEF EnqueueAdmission, Replay
<1>2. CASE Rollback(h)
  BY <1>2, SameBounds DEF Rollback
<1>3. CASE Admit(h, a, p, q)
  <2>1. /\ m \in Store /\ m.items \in Items
        /\ m.receipts \in Receipts /\ m.order \in Nat
    BY <1>1, LoadedType DEF BoundInv, StoreInv, Store
  <2>2. nextId \in ItemIds /\ nextId \in Nat /\ Save(h, new)
    BY <1>3, BoundsAssumption DEF Admit, ItemIds
  <2>3. /\ NewItem(m, q, "") \in Item /\ NewItem(m, q, "").state = "pending"
        /\ NewItem(m, q, "").order = m.order + 1
    BY <2>1, NewItemType DEF Details, NewItem
  <2>4. items \in Items
    BY <2>1, <2>2, <2>3 DEF Items
  <2>5. receipts \in Receipts
    <3>1. receipt \in Receipt
      BY <2>2 DEF Receipt
    <3> HIDE DEF receipt, m
    <3> QED
      BY <2>1, <3>1 DEF Receipts
  <2>6. \A i \in ItemIds : IF i = nextId
                           THEN /\ items[i].order = m.order + 1
                                /\ items[i].state = "pending"
                           ELSE items[i] = m.items[i]
    BY <2>1, <2>2, <2>3 DEF Items
  <2>7. m.order + 1 \in Nat /\ m.order + 1 >= m.order
    BY <2>1
  <2> HIDE DEF m, items, receipts
  <2>8. new \in Store /\ new.items = items /\ new.order = m.order + 1
    BY <2>1, <2>4, <2>5, <2>7 DEF Store
  <2> HIDE DEF new
  <2> QED
    BY <1>1, <2>2, <2>6, <2>7, <2>8, AppendBounds DEF m
<1> QED
  BY <1>1, <1>2, <1>3

LEMMA RemoveBounds ==
    ASSUME BoundInv, NEW h \in Handles, NEW i \in ItemIds, Remove(h, i)
    PROVE  FileBounds'
<1> DEFINE m == Loaded(h)
           items == [m.items EXCEPT ![i] = NoItem]
           new == [m EXCEPT !.items = items]
<1>1. Usable(h) /\ (Rollback(h) \/ Save(h, new))
  BY DEF Remove
<1>2. m \in Store /\ m.items \in Items /\ m.order \in Nat
  BY <1>1, LoadedType DEF BoundInv, StoreInv, Store
<1>3. items \in Items
  BY <1>2, NoFileType DEF Items
<1>4. \A j \in ItemIds : items[j].state = "none" \/ items[j] = m.items[j]
  BY <1>2 DEF Items, NoItem
<1> HIDE DEF items, m
<1>5. new \in Store /\ new.items = items /\ new.order = m.order
  BY <1>2, <1>3 DEF Store
<1> HIDE DEF new
<1>6. CASE Rollback(h)
  BY <1>6, SameBounds DEF Rollback
<1>7. CASE Save(h, new)
  BY <1>1, <1>2, <1>4, <1>5, <1>7, AppendBounds DEF m
<1> QED
  BY <1>1, <1>6, <1>7

LEMMA ClaimBounds ==
    ASSUME BoundInv, NEW h \in Handles, Claim(h)
    PROVE  FileBounds'
<1> DEFINE m == Loaded(h)
           items(i) == [m.items EXCEPT ![i].state = "dispatching",
                                       ![i].startedAt = clock]
           new(i) == [m EXCEPT !.items = items(i)]
<1>1. /\ Usable(h) /\ clock \in Nat
  BY DEF Claim, BoundInv, StoreInv, TypeOK
<1>2. m \in Store /\ m.items \in Items /\ m.order \in Nat
  BY <1>1, LoadedType DEF BoundInv, StoreInv, Store
<1>3. CASE Rollback(h)
  BY <1>3, SameBounds DEF Rollback
<1>4. ASSUME NEW i \in InState(m.items, "pending"),
             Save(h, [m EXCEPT !.items[i].state = "dispatching",
                               !.items[i].startedAt = clock])
      PROVE  FileBounds'
  <2>1. i \in ItemIds /\ m.items[i] \in Item /\ m.items[i].state = "pending"
    BY <1>2, <1>4 DEF InState, Items
  <2>2. Save(h, new(i))
    <3>1. [m EXCEPT !.items[i].state = "dispatching",
                    !.items[i].startedAt = clock] = new(i)
      BY <1>2, <2>1 DEF Store, Items, Item
    <3> QED
      BY <1>4, <3>1
  <2>3. items(i) \in Items
    BY <1>1, <1>2, <2>1 DEF Items, Item, ItemStates
  <2>4. \A j \in ItemIds :
            /\ items(i)[j].order = m.items[j].order
            /\ j # i => items(i)[j] = m.items[j]
            /\ j = i => items(i)[j].state = "dispatching"
    BY <1>2, <2>1 DEF Items, Item
  <2> HIDE DEF items, m
  <2>5. new(i) \in Store /\ new(i).items = items(i) /\ new(i).order = m.order
    BY <1>2, <2>3 DEF Store
  <2> HIDE DEF new
  <2>6. new(i).order >= m.order
    BY <1>2, <2>5
  <2> QED
    BY <1>1, <2>1, <2>2, <2>4, <2>5, <2>6, AppendBounds DEF m, Terminal
<1> QED
  BY <1>3, <1>4 DEF Claim

LEMMA EscalateBounds ==
    ASSUME BoundInv, NEW h \in Handles, NEW i \in ItemIds,
           EscalatePendingToNow(h, i)
    PROVE  FileBounds'
<1> DEFINE m == Loaded(h)
           items == [m.items EXCEPT ![i] = NoItem,
                                    ![nextId] = NewItem(m, "now", "escalated")]
           new == [m EXCEPT !.order = m.order + 1, !.items = items]
<1>1. /\ Usable(h)
      /\ Rollback(h) \/ (nextId \in ItemIds /\ Save(h, new))
  BY DEF EscalatePendingToNow
<1>2. m \in Store /\ m.items \in Items /\ m.order \in Nat
  BY <1>1, LoadedType DEF BoundInv, StoreInv, Store
<1>3. CASE Rollback(h)
  BY <1>3, SameBounds DEF Rollback
<1>4. CASE nextId \in ItemIds /\ Save(h, new)
  <2>1. /\ NewItem(m, "now", "escalated") \in Item
        /\ NewItem(m, "now", "escalated").state = "pending"
        /\ NewItem(m, "now", "escalated").order = m.order + 1
    BY <1>2, NewItemType DEF Details, NewItem, Policies
  <2>2. items \in Items
    BY <1>2, <1>4, <2>1, NoFileType DEF Items
  <2>3. \A j \in ItemIds : IF j = nextId
                           THEN /\ items[j].order = m.order + 1
                                /\ items[j].state = "pending"
                           ELSE items[j].state = "none" \/ items[j] = m.items[j]
    BY <1>2, <1>4, <2>1 DEF Items, NoItem
  <2>4. m.order + 1 \in Nat /\ m.order + 1 >= m.order
    BY <1>2
  <2> HIDE DEF items, m
  <2>5. new \in Store /\ new.items = items /\ new.order = m.order + 1
    BY <1>2, <2>2, <2>4 DEF Store
  <2> HIDE DEF new
  <2> QED
    BY <1>1, <1>4, <2>3, <2>4, <2>5, AppendBounds DEF m
<1> QED
  BY <1>1, <1>3, <1>4

LEMMA InitBounds == Init => BoundInv
<1> SUFFICES ASSUME Init PROVE BoundInv
  OBVIOUS
<1>1. disk = NoFile
  BY DEF Init
<1> QED
  BY <1>1, InitInv, NoFileBounds
     DEF BoundInv, FileBounds, TerminalBounded, Bounded

LEMMA NextBounds == BoundInv /\ [Next]_vars => BoundInv'
<1> SUFFICES ASSUME BoundInv, [Next]_vars PROVE FileBounds'
  BY NextInv DEF BoundInv
<1>1. ASSUME NEW h \in Handles, Operation(h) PROVE FileBounds'
  BY <1>1, ListBounds, EnqueueBounds, RemoveBounds, ClaimBounds, ResolveBounds,
     EscalateBounds DEF Operation
<1>2. CASE disk' = disk
  BY <1>2, SameBounds
<1>3. CASE disk' = NoFile
  BY <1>3, NoFileBounds
     DEF FileBounds, Bounded, TerminalBounded, Apart, Present, InState
<1> QED
  BY <1>1, <1>2, <1>3
     DEF Next, vars, LookupStore, DeleteStore, RemoveQueueFileForCleanup,
         Restart, Tick

\* The file never holds more terminal items of a state than its cap: recovery
\* and resolution are followed by compactTerminalItemsLocked before the save,
\* and no other operation makes an item terminal.
THEOREM TerminalItemsAreBounded == Spec => []TerminalBounded
<1>1. BoundInv => TerminalBounded
  BY DEF BoundInv, FileBounds
<1> QED
  BY <1>1, InitBounds, NextBounds, PTL DEF Spec

-----------------------------------------------------------------------------
(***************************************************************************)
(* QueueStore implements QueueLifecycle: seen through LifecycleState, every *)
(* step of the durable queue moves every item forward along its lifecycle  *)
(* or leaves it where it was.                                              *)
(*                                                                         *)
(* An item that has left the file is "gone" because its id is below nextId *)
(* (newQueueID never repeats one); FreshIds is what makes that a faithful  *)
(* reading.                                                                *)
(***************************************************************************)

\* No item on file has an id that is still to be given out.
FreshIds == \A i \in ItemIds : i >= nextId => disk.items[i].state = "none"

RefinementInv == StoreInv /\ FreshIds

\* What one step may do to the durable state of an item.
Move(s, t) == \/ s = t
              \/ s = "pending" /\ t \in {"dispatching", "none"}
              \/ s = "dispatching" /\ t \in Terminal \cup {"none"}
              \/ s \in Terminal /\ t = "none"
              \/ s = "unknown" /\ t = "sent"

Moves(items, new) == \A i \in ItemIds : Move(items[i].state, new[i].state)

\* The same with one item admitted under the id nextId.
Admits(items, new) ==
    /\ nextId \in ItemIds /\ new[nextId].state = "pending"
    /\ \A i \in ItemIds : i # nextId => Move(items[i].state, new[i].state)

\* Moves and admissions are steps of the lifecycle.
LEMMA MoveStep ==
    ASSUME RefinementInv, disk' \in File,
           \/ Moves(disk.items, disk'.items) /\ nextId' = nextId
           \/ Admits(disk.items, disk'.items) /\ nextId' = nextId + 1
    PROVE  FreshIds' /\ [Lifecycle!Next]_LifecycleState
<1> USE DEF Terminal
<1>1. /\ nextId \in Nat /\ ItemIds \subseteq Nat
      /\ disk.items \in Items /\ disk'.items \in Items
  BY BoundsAssumption DEF RefinementInv, StoreInv, TypeOK, File, ItemIds
<1>2. \A i \in ItemIds : /\ disk.items[i].state \in ItemStates
                         /\ disk'.items[i].state \in ItemStates
  BY <1>1 DEF Items, Item
<1>3. FreshIds'
  BY <1>1, <1>2 DEF RefinementInv, FreshIds, Moves, Admits, Move
<1>4. ASSUME NEW i \in ItemIds
      PROVE  /\ LifecycleState[i] \in Lifecycle!ItemStates
             /\ LifecycleState'[i] \in Lifecycle!ItemStates
             /\ LifecycleState'[i] \in Lifecycle!Successors(LifecycleState[i])
  <2>1. /\ LifecycleState[i] = IF disk.items[i].state # "none"
                               THEN disk.items[i].state
                               ELSE IF i < nextId THEN "gone" ELSE "none"
        /\ LifecycleState'[i] = IF disk'.items[i].state # "none"
                                THEN disk'.items[i].state
                                ELSE IF i < nextId' THEN "gone" ELSE "none"
    BY DEF LifecycleState
  <2>2. CASE /\ Move(disk.items[i].state, disk'.items[i].state)
             /\ i < nextId <=> i < nextId'
    <3>1. disk.items[i].state # "none" => i < nextId
      BY <1>1 DEF RefinementInv, FreshIds
    <3>2. i < nextId <=> i < nextId'
      BY <2>2
    <3>3. Move(disk.items[i].state, disk'.items[i].state)
      BY <2>2
    <3>4. disk.items[i].state \in ItemStates /\ disk'.items[i].state \in ItemStates
      BY <1>2
    <3> QED
      BY ONLY <2>1, <3>1, <3>2, <3>3, <3>4
         DEF Move, Terminal, ItemStates, Lifecycle!ItemStates,
             Lifecycle!Successors, Lifecycle!Terminal
  <2>3. CASE /\ i = nextId /\ nextId' = nextId + 1
             /\ disk'.items[i].state = "pending"
    BY <1>1, <1>2, <2>1, <2>3
       DEF RefinementInv, FreshIds, ItemStates, Lifecycle!ItemStates,
           Lifecycle!Successors, Lifecycle!Terminal
  <2> QED
    BY <1>1, <2>2, <2>3 DEF Moves, Admits
<1>5. LifecycleState' \in [ItemIds -> Lifecycle!ItemStates]
  BY <1>4 DEF LifecycleState
<1> QED
  BY <1>3, <1>4, <1>5 DEF Lifecycle!Next

\* What is on file has the states an operation works with.
LEMMA LoadedStates ==
    ASSUME StoreInv, NEW h \in Handles, Usable(h)
    PROVE  \A i \in ItemIds : disk.items[i].state = Loaded(h).items[i].state
<1>1. CASE disk.version # 0
  BY <1>1, LoadedIsFile DEF FileOf
<1>2. CASE disk.version = 0
  <2>1. \A i \in ItemIds : Loaded(h).items[i].state = "none"
    BY <1>2, LoadedIsFile DEF Empty, Present
  <2>2. \A i \in ItemIds : disk.items[i].state = "none"
    <3>1. disk = NoFile
      BY <1>2 DEF StoreInv, MissingFile
    <3> QED
      BY <3>1 DEF NoFile, NoItems, NoItem
  <2> QED
    BY <2>1, <2>2
<1> QED
  BY <1>1, <1>2

\* A rewritten or removed file has the states of the document written.
LEMMA SavedStates ==
    ASSUME NEW h \in Handles, NEW m \in Store, NEW c,
           Save(h, m) \/ PersistAfterCompaction(h, m, c)
    PROVE  \A i \in ItemIds : disk'.items[i].state = m.items[i].state
<1>1. CASE Save(h, m)
  <2>1. disk'.items = m.items
    BY <1>1 DEF Save, FileOf, Store
  <2> QED
    BY <2>1
<1>2. CASE disk' = NoFile /\ Present(m.items) = {}
  BY <1>2 DEF NoFile, NoItems, NoItem, Present
<1> QED
  BY <1>1, <1>2 DEF PersistAfterCompaction

\* Recovery abandons dispatches; compaction drops terminal items.
LEMMA CompactMoves ==
    ASSUME NEW items \in Items, NEW new \in Items, Moves(items, new),
           \A i \in ItemIds : \/ items[i].state = new[i].state
                              \/ /\ items[i].state \in {"dispatching", "unknown"}
                                 /\ new[i].state \in Terminal
    PROVE  Moves(items, Compact(new))
<1> SUFFICES ASSUME NEW i \in ItemIds
             PROVE  Move(items[i].state, Compact(new)[i].state)
  BY DEF Moves
<1>1. CASE i \notin Expired(new) \cup OverCap(new)
  BY <1>1 DEF Compact, Moves
<1>2. CASE i \in Expired(new) \cup OverCap(new)
  <2>1. new[i].state \in Terminal
    BY <1>2 DEF Expired, OverCap
  <2>2. Compact(new)[i].state = "none"
    BY <1>2 DEF Compact, NoItem
  <2> QED
    BY <2>1, <2>2 DEF Move, Terminal
<1> QED
  BY <1>1, <1>2

LEMMA RecoverMoves ==
    ASSUME NEW items \in Items
    PROVE  \A i \in ItemIds :
               \/ items[i].state = RecoverStale(items)[i].state
               \/ /\ items[i].state = "dispatching"
                  /\ RecoverStale(items)[i].state = "unknown"
  BY DEF RecoverStale, Items, Item

\* Each operation of a store object moves items, or admits one.
LEMMA OperationMoves ==
    ASSUME StoreInv, NEW h \in Handles, Operation(h)
    PROVE  \/ Moves(disk.items, disk'.items) /\ nextId' = nextId
           \/ Admits(disk.items, disk'.items) /\ nextId' = nextId + 1
<1> DEFINE m == Loaded(h)
<1>0. Usable(h)
  BY DEF Operation, List, EnqueueAdmission, Remove, Claim, Resolve,
         EscalatePendingToNow
<1>1. /\ m \in Store /\ m.items \in Items /\ TypeOK
      /\ \A i \in ItemIds : m.items[i] \in Item
  BY <1>0, LoadedType DEF StoreInv, Store, Items
<1>2. \A i \in ItemIds : disk.items[i].state = m.items[i].state
  BY <1>0, LoadedStates
<1>3. ASSUME NEW n \in Store, NEW c,
             Save(h, n) \/ PersistAfterCompaction(h, n, c)
      PROVE  /\ Moves(m.items, n.items) => Moves(disk.items, disk'.items)
             /\ Admits(m.items, n.items) => Admits(disk.items, disk'.items)
  BY <1>2, <1>3, SavedStates DEF Moves, Admits
<1>4. Rollback(h) => Moves(disk.items, disk'.items)
  BY DEF Rollback, Moves, Move
<1>5. CASE List(h)
  <2> DEFINE recovered == RecoverStale(m.items)
             compacted == Compact(recovered)
             new == [m EXCEPT !.items = compacted]
  <2>1. CASE Rollback(h)
    BY <1>4, <1>5, <2>1 DEF List
  <2>2. CASE PersistAfterCompaction(h, new, compacted # recovered)
    <3>1. recovered \in Items
      BY <1>1, RecoverType
    <3>2. \A i \in ItemIds : \/ m.items[i].state = recovered[i].state
                             \/ /\ m.items[i].state = "dispatching"
                                /\ recovered[i].state = "unknown"
      BY <1>1, RecoverMoves
    <3> HIDE DEF recovered
    <3>3. Moves(m.items, recovered)
      BY <3>2 DEF Moves, Move, Terminal
    <3>4. Moves(m.items, compacted)
      BY <1>1, <3>1, <3>2, <3>3, CompactMoves DEF Terminal
    <3>5. compacted \in Items
      BY <3>1, CompactType
    <3>6. new \in Store /\ new.items = compacted
      BY <1>1, <3>5 DEF Store
    <3> QED
      BY <1>3, <1>5, <2>2, <3>4, <3>6 DEF List
  <2> QED
    BY <1>5, <2>1, <2>2 DEF List
<1>6. ASSUME NEW a \in AdmissionIds \cup {NoId}, NEW p \in Payloads,
             NEW q \in Policies, EnqueueAdmission(h, a, p, q)
      PROVE  \/ Moves(disk.items, disk'.items) /\ nextId' = nextId
             \/ Admits(disk.items, disk'.items) /\ nextId' = nextId + 1
  <2>1. CASE Rollback(h) /\ nextId' = nextId
    BY <1>4, <2>1
  <2>2. CASE Admit(h, a, p, q)
    <3> DEFINE receipt == [item |-> nextId, payload |-> p, policy |-> q]
               items == [m.items EXCEPT ![nextId] = NewItem(m, q, "")]
               receipts == IF a = NoId THEN m.receipts
                           ELSE [m.receipts EXCEPT ![a] = receipt]
               new == [m EXCEPT !.order = m.order + 1, !.items = items,
                                !.receipts = receipts]
    <3>1. /\ nextId \in ItemIds /\ nextId \in Nat /\ Save(h, new)
          /\ nextId' = nextId + 1
      BY <2>2, BoundsAssumption DEF Admit, ItemIds
    <3>2. items \in Items /\ items[nextId] = NewItem(m, q, "")
          /\ \A i \in ItemIds : i # nextId => items[i] = m.items[i]
      BY <1>1, <3>1, NewItemType DEF Items, Details
    <3>3. receipts \in Receipts /\ m.order + 1 \in Nat
      BY <1>1, <3>1 DEF Store, Receipts, Receipt
    <3>4. new \in Store /\ new.items = items
      <4> HIDE DEF items, receipts, m
      <4> QED
        BY <1>1, <3>2, <3>3 DEF Store
    <3>5. Admits(m.items, items)
      <4>1. NewItem(m, q, "").state = "pending"
        BY <1>1, NewItemType DEF Details
      <4> HIDE DEF items, m
      <4> QED
        BY <3>1, <3>2, <4>1 DEF Admits, Move
    <3> QED
      BY <1>3, <3>1, <3>4, <3>5
  <2> QED
    BY <1>6, <2>1, <2>2 DEF EnqueueAdmission, Replay
<1>7. ASSUME NEW i \in ItemIds, Remove(h, i)
      PROVE  Moves(disk.items, disk'.items) /\ nextId' = nextId
  <2> DEFINE items == [m.items EXCEPT ![i] = NoItem]
             new == [m EXCEPT !.items = items]
  <2>1. CASE Rollback(h)
    BY <1>4, <1>7, <2>1 DEF Remove
  <2>2. CASE Save(h, new) /\ m.items[i].state \notin {"none", "dispatching"}
    <3>1. items \in Items /\ items[i].state = "none"
          /\ \A j \in ItemIds : j # i => items[j] = m.items[j]
      BY <1>1, NoFileType DEF Items, NoItem
    <3>2. new \in Store /\ new.items = items
      BY <1>1, <3>1 DEF Store
    <3>3. Moves(m.items, items)
      BY <1>1, <2>2, <3>1 DEF Moves, Move, Item, ItemStates, Terminal
    <3> QED
      BY <1>3, <1>7, <2>2, <3>2, <3>3 DEF Remove
  <2> QED
    BY <1>7, <2>1, <2>2 DEF Remove
<1>8. CASE Claim(h)
  <2>1. CASE Rollback(h)
    BY <1>4, <1>8, <2>1 DEF Claim
  <2>2. ASSUME NEW i \in InState(m.items, "pending"),
               Save(h, [m EXCEPT !.items[i].state = "dispatching",
                                 !.items[i].startedAt = clock])
        PROVE  Moves(disk.items, disk'.items)
    <3> DEFINE it == [m.items[i] EXCEPT !.state = "dispatching",
                                        !.startedAt = clock]
               items == [m.items EXCEPT ![i] = it]
               new == [m EXCEPT !.items = items]
    <3>1. i \in ItemIds /\ m.items[i] \in Item /\ m.items[i].state = "pending"
      BY <1>1, <2>2 DEF InState
    <3>2. it \in Item /\ it.state = "dispatching"
      BY <1>1, <3>1 DEF Item, ItemStates, TypeOK
    <3>3. [m EXCEPT !.items[i].state = "dispatching",
                    !.items[i].startedAt = clock] = new
      BY <1>1, <3>1 DEF Store, Items, Item
    <3>4. items \in Items /\ items[i] = it
          /\ \A j \in ItemIds : j # i => items[j] = m.items[j]
      BY <1>1, <3>1, <3>2 DEF Items
    <3>5. new \in Store /\ new.items = items
      BY <1>1, <3>4 DEF Store
    <3>6. Moves(m.items, items)
      BY <3>1, <3>2, <3>4 DEF Moves, Move
    <3> QED
      BY <1>3, <2>2, <3>3, <3>5, <3>6
  <2> QED
    BY <1>8, <2>1, <2>2 DEF Claim
<1>9. ASSUME NEW i \in ItemIds, NEW t \in Terminal, Resolve(h, i, t)
      PROVE  Moves(disk.items, disk'.items) /\ nextId' = nextId
  <2> DEFINE it == [m.items[i] EXCEPT !.state = t, !.detail = "report",
                                      !.resolvedAt = clock]
             resolved == [m.items EXCEPT ![i].state = t, ![i].detail = "report",
                                         ![i].resolvedAt = clock]
             compacted == Compact(resolved)
             new == [m EXCEPT !.items = compacted]
  <2>1. CASE Rollback(h)
    BY <1>4, <1>9, <2>1 DEF Resolve
  <2>2. CASE /\ MayResolve(m.items[i].state, t)
             /\ PersistAfterCompaction(h, new, compacted # resolved)
    <3>1. it \in Item /\ it.state = t
      BY <1>1 DEF Item, ItemStates, Details, TypeOK
    <3>2. resolved = [m.items EXCEPT ![i] = it]
      BY <1>1 DEF Items, Item
    <3> HIDE DEF it, resolved
    <3>3. resolved \in Items /\ resolved[i] = it
          /\ \A j \in ItemIds : j # i => resolved[j] = m.items[j]
      BY <1>1, <3>1, <3>2 DEF Items
    <3>4. Moves(m.items, resolved)
      BY <2>2, <3>1, <3>3 DEF Moves, Move, MayResolve, Terminal
    <3>5. Moves(m.items, compacted)
      BY <1>1, <2>2, <3>1, <3>3, <3>4, CompactMoves DEF MayResolve
    <3>6. compacted \in Items
      BY <3>3, CompactType
    <3>7. new \in Store /\ new.items = compacted
      BY <1>1, <3>6 DEF Store
    <3> QED
      BY <1>3, <1>9, <2>2, <3>5, <3>7 DEF Resolve
  <2> QED
    BY <1>9, <2>1, <2>2 DEF Resolve
<1>10. ASSUME NEW i \in ItemIds, EscalatePendingToNow(h, i)
       PROVE  \/ Moves(disk.items, disk'.items) /\ nextId' = nextId
              \/ Admits(disk.items, disk'.items) /\ nextId' = nextId + 1
  <2> DEFINE items == [m.items EXCEPT ![i] = NoItem,
                         ![nextId] = NewItem(m, "now", "escalated")]
             new == [m EXCEPT !.order = m.order + 1, !.items = items]
  <2>1. CASE Rollback(h) /\ UNCHANGED nextId
    BY <1>4, <2>1
  <2>2. CASE /\ m.items[i].state = "pending" /\ nextId \in ItemIds
             /\ Save(h, new) /\ nextId' = nextId + 1
    <3>1. NewItem(m, "now", "escalated") \in Item
      BY <1>1, NewItemType DEF Policies, Details
    <3>2. items \in Items /\ items[nextId] = NewItem(m, "now", "escalated")
          /\ \A j \in ItemIds : j # nextId =>
               items[j] = IF j = i THEN NoItem ELSE m.items[j]
      BY <1>1, <2>2, <3>1, NoFileType DEF Items
    <3>3. m.order + 1 \in Nat
      BY <1>1 DEF Store
    <3>4. new \in Store /\ new.items = items
      <4> HIDE DEF items, m
      <4> QED
        BY <1>1, <3>2, <3>3 DEF Store
    <3>5. Admits(m.items, items)
      <4>1. items[nextId].state = "pending" /\ NoItem.state = "none"
        BY <1>1, <3>2, NewItemType DEF Policies, Details, NoItem
      <4> HIDE DEF items, m
      <4> QED
        BY <2>2, <3>2, <4>1 DEF Admits, Move
    <3> QED
      BY <1>3, <2>2, <3>4, <3>5
  <2> QED
    BY <1>10, <2>1, <2>2 DEF EscalatePendingToNow
<1> QED
  BY <1>5, <1>6, <1>7, <1>8, <1>9, <1>10 DEF Operation

LEMMA RefinementNext ==
    RefinementInv /\ [Next]_vars
      => RefinementInv' /\ [Lifecycle!Next]_LifecycleState
<1> SUFFICES ASSUME RefinementInv, [Next]_vars
             PROVE  FreshIds' /\ [Lifecycle!Next]_LifecycleState
  BY NextInv DEF RefinementInv
<1>0. disk' \in File
  BY NextInv DEF RefinementInv, StoreInv, TypeOK
<1>1. ASSUME disk' = disk, nextId' = nextId
      PROVE  FreshIds' /\ [Lifecycle!Next]_LifecycleState
  BY <1>1 DEF RefinementInv, FreshIds, LifecycleState
<1>2. ASSUME NEW h \in Handles, LookupStore(h)
      PROVE  FreshIds' /\ [Lifecycle!Next]_LifecycleState
  BY <1>1, <1>2 DEF LookupStore
<1>3. ASSUME NEW h \in Handles, Operation(h)
      PROVE  FreshIds' /\ [Lifecycle!Next]_LifecycleState
  BY <1>0, <1>3, OperationMoves, MoveStep DEF RefinementInv
<1>4. CASE DeleteStore
  <2>1. nextId' = nextId /\ (disk' = NoFile \/ disk' = disk)
    BY <1>4 DEF DeleteStore, RemoveQueueFileForCleanup
  <2>2. CASE disk' = NoFile
    <3>1. \A i \in ItemIds : disk'.items[i].state = "none"
      BY <2>2 DEF NoFile, NoItems, NoItem
    <3>2. \A i \in ItemIds : disk.items[i].state \in ItemStates
      BY DEF RefinementInv, StoreInv, TypeOK, File, Items, Item
    <3>3. Moves(disk.items, disk'.items)
      BY <3>1, <3>2 DEF Moves, Move, ItemStates, Terminal
    <3> QED
      BY <1>0, <2>1, <3>3, MoveStep
  <2> QED
    BY <1>1, <2>1, <2>2
<1>5. CASE Restart \/ Tick \/ UNCHANGED vars
  BY <1>1, <1>5 DEF Restart, Tick, vars
<1> QED
  BY <1>2, <1>3, <1>4, <1>5 DEF Next

\* The durable queue, with its failing saves, archives, restarts and
\* compactions, implements the item lifecycle: no item moves backward, none
\* that left the queue comes back, for any number of items and any retention.
THEOREM StoreImplementsLifecycle == Spec => ImplementsLifecycle
<1>1. Init => RefinementInv /\ Lifecycle!Init
  <2> SUFFICES ASSUME Init PROVE FreshIds /\ Lifecycle!Init
    BY InitInv DEF RefinementInv
  <2>1. disk.items = NoItems /\ nextId = 1
    BY DEF Init, NoFile
  <2>2. \A i \in ItemIds : NoItems[i].state = "none"
    BY DEF NoItems, NoItem
  <2>3. \A i \in ItemIds : i \in Nat /\ i >= 1
    BY BoundsAssumption DEF ItemIds
  <2> QED
    BY <2>1, <2>2, <2>3 DEF FreshIds, Lifecycle!Init, LifecycleState
<1> QED
  BY <1>1, RefinementNext, PTL DEF Spec, ImplementsLifecycle, Lifecycle!Spec

-----------------------------------------------------------------------------
(***************************************************************************)
(* Theorems about QueueCustody, the daemons that share the store's files,  *)
(* for any number of daemons, generations and writes.                      *)
(*                                                                         *)
(* OneOwner is proved whatever overlaps.  NoLostUpdate, FenceMonotone and  *)
(* NoStaleWrite are about executions in which none of the overlaps has     *)
(* happened: what is left to rely on is the flock, the dropped cache and   *)
(* the gate.                                                               *)
(***************************************************************************)
Holding == {"acquired", "owner"}

\* The flock and the loop's position agree, and a token is live exactly while
\* its loop is past the allocation; it is then the generation on file.
Ownership ==
    \A p \in Procs :
        /\ lock = p <=> loop[p] # "out"
        /\ IF loop[p] \in Holding THEN tok[p] = authority /\ tok[p] # 0
                                  ELSE tok[p] = 0

OwnerInv == CustodyTypeOK /\ Ownership

LEMMA LimitsOf == MaxGen \in Nat /\ MaxWrites \in Nat /\ None \notin Procs
  BY CustodyBounds, CustodyChoices

LEMMA NewWriteType == ASSUME CustodyTypeOK, CanWrite
    PROVE NewWrite \in Writes
<1>1. \E w \in Writes : w \notin acked
  BY DEF CustodyTypeOK, CanWrite
<1> QED
  BY <1>1 DEF NewWrite

LEMMA ViewType == ASSUME CustodyTypeOK, NEW p \in Procs
    PROVE View(p) \in Doc
  BY DEF CustodyTypeOK, View, Cache

LEMMA SaveType ==
    ASSUME CustodyTypeOK, CanWrite, NEW p \in Procs, NEW g \in 0..MaxGen,
           SaveAs(p, g) \/ SaveFails(p, g)
    PROVE  /\ caches' \in [Procs -> Cache] /\ file' \in Doc
           /\ acked' \subseteq Writes
<1>1. View(p) \in Doc /\ NewWrite \in Writes
  BY ViewType, NewWriteType
<1> DEFINE doc == [writes |-> View(p).writes \cup {NewWrite},
                   fence |-> g]
           kept == [View(p) EXCEPT !.fence = g]
<1>2. doc \in Doc /\ kept \in Doc
  BY <1>1 DEF Doc
<1>3. CASE SaveAs(p, g)
  <2>1. /\ file' = doc /\ acked' = acked \cup {NewWrite}
        /\ caches' = [caches EXCEPT ![p] = [loaded |-> TRUE, doc |-> doc]]
    BY <1>3 DEF SaveAs
  <2> HIDE DEF doc
  <2> QED
    BY <1>1, <1>2, <2>1 DEF CustodyTypeOK, Cache
<1>4. CASE SaveFails(p, g)
  <2>1. /\ file' = file /\ acked' = acked
        /\ caches' = [caches EXCEPT ![p] = [loaded |-> TRUE, doc |-> kept]]
    BY <1>4 DEF SaveFails
  <2> HIDE DEF kept
  <2> QED
    BY <1>2, <2>1 DEF CustodyTypeOK, Cache
<1> QED
  BY <1>3, <1>4

LEMMA OwnerInit == CustodyInit => OwnerInv
<1> SUFFICES ASSUME CustodyInit PROVE OwnerInv
  OBVIOUS
<1>0. MaxGen \in Nat /\ MaxWrites \in Nat /\ None \notin Procs
  BY CustodyBounds, CustodyChoices
<1>1. /\ NoDoc \in Doc /\ NoCache \in Cache
      /\ EscOff \in Esc
  BY <1>0
     DEF NoDoc, NoCache, EscOff, Doc, Cache,
         Esc
<1>2. CustodyTypeOK
  BY <1>1, <1>0 DEF CustodyInit, CustodyTypeOK
<1>3. Ownership
  BY <1>0 DEF CustodyInit, Ownership, Holding
<1> QED
  BY <1>2, <1>3 DEF OwnerInv

\* A step that leaves the flock, the authority, the tokens and the loops alone
\* leaves the ownership alone.
LEMMA OwnershipFrame ==
    ASSUME Ownership, UNCHANGED <<lock, authority, tok, loop>>
    PROVE  Ownership'
  BY DEF Ownership

\* Giving custody up, in whatever way.
LEMMA GiveUp ==
    ASSUME OwnerInv, NEW p \in Procs, UNCHANGED authority,
           lock' = IF lock = p THEN None ELSE lock,
           tok' = [tok EXCEPT ![p] = 0],
           loop' = [loop EXCEPT ![p] = "out"]
    PROVE  /\ Ownership' /\ lock' \in Procs \cup {None}
           /\ tok' \in [Procs -> 0..MaxGen]
           /\ loop' \in [Procs -> {"out", "locked", "acquired", "owner"}]
  BY LimitsOf
     DEF OwnerInv, CustodyTypeOK, Ownership, Holding

LEMMA OwnerNext == OwnerInv /\ [CustodyNext]_custodyVars => OwnerInv'
<1> SUFFICES ASSUME OwnerInv, [CustodyNext]_custodyVars
    PROVE CustodyTypeOK' /\ Ownership'
  BY DEF OwnerInv
<1> USE DEF OwnerInv
<1>0. NoCache \in Cache /\ EscOff \in Esc
  BY LimitsOf
     DEF NoDoc, NoCache, EscOff, Doc, Cache,
         Esc
<1>1. ASSUME NEW p \in Procs, LockAcquire(p) PROVE CustodyTypeOK' /\ Ownership'
  BY <1>1, LimitsOf DEF LockAcquire, CustodyTypeOK, Ownership, Holding
<1>2. ASSUME NEW p \in Procs, AllocateGeneration(p)
      PROVE CustodyTypeOK' /\ Ownership'
  <2>1. CASE /\ authority < MaxGen /\ authority' = authority + 1
             /\ tok' = [tok EXCEPT ![p] = authority + 1]
             /\ loop' = [loop EXCEPT ![p] = "acquired"] /\ UNCHANGED lock
    <3>1. CustodyTypeOK'
      BY <1>2, <2>1, LimitsOf DEF AllocateGeneration, CustodyTypeOK
    <3>2. \A q \in Procs : q # p => loop[q] \notin Holding
      BY <1>2 DEF AllocateGeneration, Ownership, Holding
    <3>3. Ownership'
      BY <1>2, <2>1, <3>2, LimitsOf
         DEF AllocateGeneration, CustodyTypeOK, Ownership, Holding
    <3> QED
      BY <3>1, <3>3
  <2>2. CASE /\ lock' = None /\ loop' = [loop EXCEPT ![p] = "out"]
             /\ UNCHANGED <<authority, tok>>
    BY <1>2, <2>2, LimitsOf
       DEF AllocateGeneration, CustodyTypeOK, Ownership, Holding
  <2> QED
    BY <1>2, <2>1, <2>2 DEF AllocateGeneration, NextGeneration
<1>3. ASSUME NEW p \in Procs, InvalidateLoadedCache(p)
      PROVE  CustodyTypeOK' /\ Ownership'
  <2>1. CustodyTypeOK'
    BY <1>3 DEF InvalidateLoadedCache, CustodyTypeOK, Cache
  <2>2. Ownership'
    BY <1>3 DEF InvalidateLoadedCache, CustodyTypeOK, Ownership, Holding
  <2> QED
    BY <2>1, <2>2
<1>4. ASSUME NEW p \in Procs, FencedMutation(p)
      PROVE CustodyTypeOK' /\ Ownership'
  <2>1. CASE /\ SaveAs(p, tok[p]) \/ SaveFails(p, tok[p])
             /\ UNCHANGED <<lock, tok, loop>>
    <3>1. /\ tok[p] \in 0..MaxGen /\ CanWrite
          /\ UNCHANGED <<authority, esc, probed, over>>
      BY <1>4 DEF FencedMutation, CustodyTypeOK
    <3>2. /\ caches' \in [Procs -> Cache] /\ file' \in Doc
          /\ acked' \subseteq Writes
      BY <2>1, <3>1, SaveType
    <3> QED
      BY <2>1, <3>1, <3>2, OwnershipFrame DEF CustodyTypeOK
  <2>2. CASE /\ lock' = None /\ tok' = [tok EXCEPT ![p] = 0]
             /\ loop' = [loop EXCEPT ![p] = "out"]
             /\ UNCHANGED <<caches, file, acked>>
    <3>1. lock = p /\ UNCHANGED <<authority, esc, probed, over>>
      BY <1>4 DEF FencedMutation, Ownership
    <3> QED
      BY <2>2, <3>1, GiveUp DEF CustodyTypeOK
  <2> QED
    BY <1>4, <2>1, <2>2 DEF FencedMutation
<1>5. ASSUME NEW p \in Procs, Release(p) PROVE CustodyTypeOK' /\ Ownership'
  <2>1. lock = p
    BY <1>5 DEF Release, Ownership
  <2> QED
    BY <1>5, <2>1, GiveUp
       DEF Release, Marked, Overlaps, CustodyTypeOK
<1>6. ASSUME NEW p \in Procs, EscalateToken(p)
      PROVE CustodyTypeOK' /\ Ownership'
  BY <1>6, OwnershipFrame
     DEF EscalateToken, Marked, Overlaps, CustodyTypeOK,
         Esc
<1>7. ASSUME NEW p \in Procs, EscalateGate(p)
      PROVE CustodyTypeOK' /\ Ownership'
  <2>0. /\ esc[p] \in Esc /\ esc[p].gen \in 0..MaxGen
        /\ View(p) \in Doc
    BY ViewType DEF CustodyTypeOK, Esc
  <2> DEFINE doc == [View(p) EXCEPT !.fence = esc[p].gen]
             cache == [loaded |-> TRUE, doc |-> doc]
  <2>1. doc \in Doc
    BY <2>0 DEF Doc
  <2>2. cache \in Cache /\ [esc[p] EXCEPT !.pc = "gated"] \in Esc
    <3> HIDE DEF doc
    <3> QED
      BY <2>0, <2>1 DEF Cache, Esc
  <2>3. /\ \/ caches' = [caches EXCEPT ![p] = cache]
           \/ caches' = caches
        /\ \/ esc' = [esc EXCEPT ![p] = [esc[p] EXCEPT !.pc = "gated"]]
           \/ esc' = [esc EXCEPT ![p] = EscOff]
        /\ UNCHANGED <<lock, authority, tok, loop, probed, file, acked, over>>
    BY <1>7 DEF EscalateGate
  <2> HIDE DEF cache
  <2> QED
    BY <1>0, <2>2, <2>3, OwnershipFrame DEF CustodyTypeOK
<1>8. ASSUME NEW p \in Procs, EscalateSave(p)
      PROVE CustodyTypeOK' /\ Ownership'
  <2>1. esc[p].gen \in 0..MaxGen
    BY DEF CustodyTypeOK, Esc
  <2>2. /\ caches' \in [Procs -> Cache] /\ file' \in Doc
        /\ acked' \subseteq Writes
    BY <1>8, <2>1, SaveType DEF EscalateSave
  <2> QED
    BY <1>0, <1>8, <2>2, OwnershipFrame DEF EscalateSave, CustodyTypeOK
<1>9. ASSUME NEW p \in Procs, UnfencedWrite(p) \/ LegacyWrite(p)
      PROVE  CustodyTypeOK' /\ Ownership'
  <2>1. View(p).fence \in 0..MaxGen
    BY ViewType DEF Doc
  <2>2. /\ caches' \in [Procs -> Cache] /\ file' \in Doc
        /\ acked' \subseteq Writes
    BY <1>9, <2>1, SaveType DEF UnfencedWrite, LegacyWrite
  <2> QED
    BY <1>9, <2>2, OwnershipFrame
       DEF UnfencedWrite, LegacyWrite, Marked,
           Overlaps, CustodyTypeOK
<1>10. ASSUME NEW p \in Procs, LegacyProbe(p)
       PROVE CustodyTypeOK' /\ Ownership'
  BY <1>10, OwnershipFrame DEF LegacyProbe, CustodyTypeOK
<1>11. ASSUME NEW p \in Procs, Crash(p) PROVE CustodyTypeOK' /\ Ownership'
  BY <1>0, <1>11, GiveUp DEF Crash, CustodyTypeOK
<1>12. CASE UNCHANGED custodyVars
  BY <1>12 DEF custodyVars, CustodyTypeOK, Ownership
<1> QED
  BY <1>1, <1>2, <1>3, <1>4, <1>5, <1>6, <1>7, <1>8, <1>9, <1>10, <1>11, <1>12
     DEF CustodyNext

\* The custody variables keep their types over every acquisition, hand-over,
\* failed save and crash.
THEOREM CustodyTypeCorrect == CustodySpec => []CustodyTypeOK
  BY OwnerInit, OwnerNext, PTL DEF CustodySpec, OwnerInv

\* Custody is exclusive: whatever else overlaps, a token that passes the fence
\* belongs to the one process that holds the flock.
THEOREM CustodyIsExclusive == CustodySpec => []OneOwner
<1>1. OwnerInv => OneOwner
  BY DEF OwnerInv, Ownership, OneOwner, FenceCheck, Holding,
         CustodyTypeOK
<1> QED
  BY <1>1, OwnerInit, OwnerNext, PTL DEF CustodySpec
-----------------------------------------------------------------------------
\* Before any overlap: the owner's view holds everything the file holds and is
\* not behind it in generation; an escalation past the gate runs under the
\* owner's own token, and an older token never becomes live again.
Seen(p) == /\ file.writes \subseteq View(p).writes
           /\ file.fence <= View(p).fence /\ View(p).fence <= authority

EscFenced(p) ==
    /\ esc[p].gen <= authority
    /\ esc[p].pc # "off" => esc[p].gen # 0
    /\ esc[p].pc = "token" /\ tok[p] = esc[p].gen => loop[p] = "owner"
    /\ esc[p].pc = "gated" => loop[p] = "owner" /\ tok[p] = esc[p].gen

SeenInv ==
    /\ acked \subseteq file.writes /\ file.fence <= authority
    /\ \A p \in Procs : EscFenced(p) /\ (loop[p] = "owner" => Seen(p))

Calm == over = {} => SeenInv

LEMMA SeenInit == CustodyInit => SeenInv
  BY DEF CustodyInit, SeenInv, EscFenced, EscOff, NoDoc

\* What a save, or a failed one, by the owner does to the file and the views.
LEMMA OwnerSave ==
    ASSUME OwnerInv, SeenInv, CanWrite, NEW p \in Procs, loop[p] = "owner",
           NEW g \in 0..MaxGen, file.fence <= g, g <= authority,
           SaveAs(p, g) \/ SaveFails(p, g),
           UNCHANGED <<lock, authority, tok, loop>>
    PROVE  /\ acked' \subseteq file'.writes
           /\ file.fence <= file'.fence /\ file'.fence <= authority'
           /\ \A q \in Procs : loop'[q] = "owner" => Seen(q)'
<1>1. /\ View(p) \in Doc /\ file \in Doc
      /\ authority \in Nat /\ g \in Nat
      /\ file.writes \subseteq View(p).writes /\ acked \subseteq file.writes
  BY ViewType, LimitsOf DEF OwnerInv, SeenInv, Seen, CustodyTypeOK
<1>2. \A q \in Procs : loop'[q] = "owner" => q = p
  BY DEF OwnerInv, Ownership
<1> DEFINE doc == [writes |-> View(p).writes \cup {NewWrite},
                   fence |-> g]
           kept == [View(p) EXCEPT !.fence = g]
<1>3. CASE SaveAs(p, g)
  <2>1. doc.writes = View(p).writes \cup {NewWrite} /\ doc.fence = g
    OBVIOUS
  <2>2. /\ file' = doc /\ acked' = acked \cup {NewWrite}
        /\ caches' = [caches EXCEPT ![p] = [loaded |-> TRUE, doc |-> doc]]
    BY <1>3 DEF SaveAs
  <2> HIDE DEF doc
  <2>3. View(p)' = doc
    BY <2>2 DEF View, OwnerInv, CustodyTypeOK
  <2> QED
    BY <1>1, <1>2, <2>1, <2>2, <2>3 DEF Seen
<1>4. CASE SaveFails(p, g)
  <2>1. kept.writes = View(p).writes /\ kept.fence = g
    BY <1>1 DEF Doc
  <2>2. /\ file' = file /\ acked' = acked
        /\ caches' = [caches EXCEPT ![p] = [loaded |-> TRUE, doc |-> kept]]
    BY <1>4 DEF SaveFails
  <2> HIDE DEF kept
  <2>3. View(p)' = kept
    BY <2>2 DEF View, OwnerInv, CustodyTypeOK
  <2>4. file.fence \in Nat
    BY <1>1, LimitsOf DEF Doc
  <2> QED
    BY <1>1, <1>2, <2>1, <2>2, <2>3, <2>4 DEF Seen
<1> QED
  BY <1>3, <1>4

\* Without custody there is no view to keep in step.
LEMMA SeenFrame ==
    ASSUME OwnerInv, SeenInv, UNCHANGED <<file, acked>>,
           authority' \in Nat, authority <= authority',
           \A q \in Procs : EscFenced(q)',
           \A q \in Procs : loop'[q] = "owner" =>
               loop[q] = "owner" /\ caches'[q] = caches[q]
    PROVE  SeenInv' /\ file'.fence >= file.fence
<1>1. file.fence \in Nat /\ authority \in Nat
      /\ \A q \in Procs : View(q).fence \in Nat
  BY ViewType, LimitsOf DEF OwnerInv, CustodyTypeOK, Doc
<1>2. \A q \in Procs : loop'[q] = "owner" => Seen(q)'
  BY <1>1 DEF SeenInv, Seen, View
<1> QED
  BY <1>1, <1>2 DEF SeenInv

\* An overlap stays recorded.
LEMMA OverGrows == [CustodyNext]_custodyVars => over \subseteq over'
  BY DEF CustodyNext, custodyVars, LockAcquire, AllocateGeneration,
         InvalidateLoadedCache,
         FencedMutation, Release, EscalateToken,
         EscalateGate, EscalateSave,
         UnfencedWrite, LegacyProbe, LegacyWrite,
         Crash, Marked

\* No step that is not an overlap loses a write, takes the document's generation
\* back, or saves an escalation behind a fence that has moved.
LEMMA SeenNext ==
    ASSUME over' = {}, OwnerInv, SeenInv, [CustodyNext]_custodyVars
    PROVE  SeenInv' /\ file'.fence >= file.fence
<1> DEFINE Goal == SeenInv' /\ file'.fence >= file.fence
<1>0. /\ authority \in Nat /\ authority' \in Nat /\ file.fence \in Nat
      /\ \A q \in Procs : tok[q] \in Nat /\ esc[q] \in Esc /\ esc[q].gen \in Nat
  BY OwnerNext, LimitsOf DEF OwnerInv, CustodyTypeOK, Esc, Doc
<1>1. ASSUME NEW p \in Procs, LockAcquire(p) PROVE Goal
  <2>1. \A q \in Procs : EscFenced(q)'
    BY <1>1 DEF LockAcquire, SeenInv, EscFenced, OwnerInv, CustodyTypeOK
  <2>2. \A q \in Procs : loop'[q] = "owner" => loop[q] = "owner"
    BY <1>1 DEF LockAcquire, OwnerInv, CustodyTypeOK
  <2> QED
    BY <1>0, <1>1, <2>1, <2>2, SeenFrame DEF LockAcquire
<1>2. ASSUME NEW p \in Procs, AllocateGeneration(p) PROVE Goal
  <2>1. /\ authority <= authority' /\ loop[p] = "locked"
        /\ \A q \in Procs : q # p => loop'[q] = loop[q] /\ tok'[q] = tok[q]
        /\ loop'[p] # "owner"
        /\ tok'[p] = authority + 1 \/ tok'[p] = tok[p]
        /\ UNCHANGED <<esc, probed, caches, file, acked>>
    BY <1>0, <1>2
       DEF AllocateGeneration, NextGeneration, OwnerInv, CustodyTypeOK
  <2>2. \A q \in Procs : EscFenced(q)'
    BY <1>0, <2>1 DEF SeenInv, EscFenced
  <2> QED
    BY <1>0, <2>1, <2>2, SeenFrame
<1>3. ASSUME NEW p \in Procs, InvalidateLoadedCache(p) PROVE Goal
  <2>1. /\ loop' = [loop EXCEPT ![p] = "owner"] /\ loop[p] = "acquired"
        /\ caches' = [caches EXCEPT ![p].loaded = FALSE]
        /\ UNCHANGED <<lock, authority, tok, esc, probed, file, acked>>
    BY <1>3 DEF InvalidateLoadedCache
  <2>2. \A q \in Procs : EscFenced(q)'
    BY <2>1 DEF SeenInv, EscFenced, OwnerInv, CustodyTypeOK
  <2>3. \A q \in Procs : loop'[q] = "owner" => q = p
    BY <2>1 DEF OwnerInv, CustodyTypeOK, Ownership
  <2>4. View(p)' = file'
    BY <2>1 DEF View, OwnerInv, CustodyTypeOK, Cache
  <2> QED
    BY <1>0, <2>1, <2>2, <2>3, <2>4 DEF SeenInv, Seen
<1>4. ASSUME NEW p \in Procs, loop[p] = "owner", CanWrite,
             NEW g \in 0..MaxGen, file.fence <= g, g <= authority,
             SaveAs(p, g) \/ SaveFails(p, g),
             UNCHANGED <<lock, authority, tok, loop>>,
             esc' = esc \/ esc' = [esc EXCEPT ![p] = EscOff]
      PROVE  Goal
  <2>1. \A q \in Procs : EscFenced(q)'
    BY <1>0, <1>4 DEF SeenInv, EscFenced, EscOff, OwnerInv, CustodyTypeOK
  <2>2. /\ acked' \subseteq file'.writes
        /\ file.fence <= file'.fence /\ file'.fence <= authority'
        /\ \A q \in Procs : loop'[q] = "owner" => Seen(q)'
    BY <1>4, OwnerSave
  <2>3. file'.fence \in Nat
    BY OwnerNext, LimitsOf DEF OwnerInv, CustodyTypeOK, Doc
  <2> QED
    BY <1>0, <1>4, <2>1, <2>2, <2>3 DEF SeenInv
<1>5. ASSUME NEW p \in Procs, UNCHANGED <<authority, file, acked>>,
             tok' = [tok EXCEPT ![p] = 0], loop' = [loop EXCEPT ![p] = "out"],
             \/ caches' = caches /\ esc' = esc /\ esc[p].pc # "gated"
             \/ caches' = [caches EXCEPT ![p] = NoCache]
                /\ esc' = [esc EXCEPT ![p] = EscOff]
      PROVE  Goal
  <2>1. \A q \in Procs : EscFenced(q)'
    BY <1>0, <1>5 DEF SeenInv, EscFenced, EscOff, OwnerInv, CustodyTypeOK
  <2>2. \A q \in Procs : loop'[q] = "owner" =>
            loop[q] = "owner" /\ caches'[q] = caches[q]
    BY <1>5 DEF OwnerInv, CustodyTypeOK
  <2> QED
    BY <1>0, <1>5, <2>1, <2>2, SeenFrame
<1>6. ASSUME NEW p \in Procs, FencedMutation(p) PROVE Goal
  <2>1. tok[p] = authority /\ tok[p] \in 0..MaxGen /\ file.fence <= authority
        /\ loop[p] = "owner" /\ CanWrite /\ esc[p].pc # "gated"
        /\ UNCHANGED <<authority, esc, probed>>
    BY <1>6
       DEF FencedMutation, StoreFree, OwnerInv, CustodyTypeOK,
           Ownership, Holding,
                SeenInv
  <2>2. CASE /\ SaveAs(p, tok[p]) \/ SaveFails(p, tok[p])
             /\ UNCHANGED <<lock, tok, loop>>
    BY <1>0, <1>4, <2>1, <2>2
  <2>3. CASE /\ tok' = [tok EXCEPT ![p] = 0]
             /\ loop' = [loop EXCEPT ![p] = "out"]
             /\ UNCHANGED <<caches, file, acked>>
    BY <1>5, <2>1, <2>3
  <2> QED
    BY <1>6, <2>2, <2>3 DEF FencedMutation
<1>7. ASSUME NEW p \in Procs, Release(p) \/ Crash(p) PROVE Goal
  BY <1>5, <1>7
     DEF Release, Crash, StoreFree, SeenInv, Marked
<1>8. ASSUME NEW p \in Procs, EscalateToken(p) PROVE Goal
  <2>1. /\ esc' = [esc EXCEPT ![p] = [pc |-> "token", gen |-> tok[p]]]
        /\ tok[p] # 0 /\ loop[p] = "owner" /\ tok[p] = authority
        /\ UNCHANGED <<lock, authority, tok, loop, probed, caches, file, acked>>
    BY <1>8 DEF EscalateToken, Marked, OwnerInv, Ownership, Holding
  <2>2. \A q \in Procs : EscFenced(q)'
    BY <1>0, <2>1 DEF SeenInv, EscFenced, OwnerInv, CustodyTypeOK
  <2> QED
    BY <1>0, <2>1, <2>2, SeenFrame
<1>9. ASSUME NEW p \in Procs, EscalateGate(p) PROVE Goal
  <2>0. UNCHANGED <<lock, authority, tok, loop, probed, file, acked>>
    BY <1>9 DEF EscalateGate
  <2> DEFINE g == esc[p].gen
             kept == [View(p) EXCEPT !.fence = g]
  <2>1. CASE /\ FenceGate(p, g) /\ esc[p].pc = "token"
             /\ esc' = [esc EXCEPT ![p].pc = "gated"]
             /\ caches' = [caches EXCEPT ![p] = [loaded |-> TRUE, doc |-> kept]]
    <3>1. tok[p] = g /\ authority = g /\ loop[p] = "owner" /\ g \in Nat
      BY <1>0, <2>1 DEF FenceGate, FenceCheck, SeenInv, EscFenced
    <3>2. kept.writes = View(p).writes /\ kept.fence = g
      BY ViewType DEF OwnerInv, Doc
    <3>3. SaveFails(p, g)
      BY <2>0, <2>1 DEF SaveFails
    <3>4. \A q \in Procs : EscFenced(q)'
      BY <1>0, <2>0, <2>1, <3>1
         DEF SeenInv, EscFenced, OwnerInv, CustodyTypeOK, Esc
    <3>5. \A q \in Procs : loop'[q] = "owner" => q = p
      BY <2>0, <3>1 DEF OwnerInv, Ownership
    <3> HIDE DEF kept
    <3>6. View(p)' = kept
      BY <2>1 DEF View, OwnerInv, CustodyTypeOK
    <3>7. Seen(p)'
      BY <1>0, <2>0, <3>1, <3>2, <3>6 DEF Seen, SeenInv
    <3> QED
      BY <1>0, <2>0, <3>4, <3>5, <3>7 DEF SeenInv
  <2>2. CASE esc' = [esc EXCEPT ![p] = EscOff] /\ UNCHANGED caches
    <3>1. \A q \in Procs : EscFenced(q)'
      BY <1>0, <2>0, <2>2
         DEF SeenInv, EscFenced, EscOff, OwnerInv, CustodyTypeOK
    <3> QED
      BY <1>0, <2>0, <2>2, <3>1, SeenFrame
  <2> QED
    BY <1>9, <2>1, <2>2 DEF EscalateGate
<1>10. ASSUME NEW p \in Procs, EscalateSave(p) PROVE Goal
  <2>1. loop[p] = "owner" /\ esc[p].gen = authority /\ esc[p].gen \in 0..MaxGen
        /\ file.fence <= authority
    BY <1>10
       DEF EscalateSave, SeenInv, EscFenced, OwnerInv, CustodyTypeOK,
           Ownership,
                 Holding
  <2>2. /\ CanWrite /\ esc' = [esc EXCEPT ![p] = EscOff]
        /\ SaveAs(p, esc[p].gen) \/ SaveFails(p, esc[p].gen)
        /\ UNCHANGED <<lock, authority, tok, loop, probed>>
    BY <1>10 DEF EscalateSave
  <2>3. esc[p].gen <= authority /\ file.fence <= esc[p].gen
    BY <1>0, <2>1
  <2> HIDE DEF Goal
  <2> QED
    BY <1>4, <2>1, <2>2, <2>3
<1>11. ASSUME NEW p \in Procs, UnfencedWrite(p) PROVE Goal
  <2>1. loop[p] = "owner" /\ SaveAs(p, View(p).fence) /\ CanWrite
        /\ UNCHANGED <<lock, authority, tok, loop, esc, probed>>
    BY <1>11 DEF UnfencedWrite, Marked
  <2>2. /\ View(p).fence \in 0..MaxGen
        /\ file.fence <= View(p).fence /\ View(p).fence <= authority
    BY <2>1, ViewType DEF OwnerInv, SeenInv, Seen, Doc
  <2> QED
    BY <1>4, <2>1, <2>2
<1>12. ASSUME NEW p \in Procs, LegacyProbe(p) \/ LegacyWrite(p)
       PROVE Goal
  <2>1. UNCHANGED <<lock, authority, tok, loop, esc, caches, file, acked>>
    BY <1>12 DEF LegacyProbe, LegacyWrite, Marked
  <2>2. \A q \in Procs : EscFenced(q)'
    BY <2>1 DEF SeenInv, EscFenced
  <2> QED
    BY <1>0, <2>1, <2>2, SeenFrame
<1>13. CASE UNCHANGED custodyVars
  <2>1. \A q \in Procs : EscFenced(q)'
    BY <1>13 DEF custodyVars, SeenInv, EscFenced
  <2> QED
    BY <1>0, <1>13, <2>1, SeenFrame DEF custodyVars
<1> QED
  BY <1>1, <1>2, <1>3, <1>6, <1>7, <1>8, <1>9, <1>10, <1>11, <1>12, <1>13
     DEF CustodyNext

LEMMA CalmNext ==
    OwnerInv /\ Calm /\ [CustodyNext]_custodyVars
      => OwnerInv' /\ Calm' /\ (over' = {} => file'.fence >= file.fence)
<1> SUFFICES ASSUME OwnerInv, Calm, [CustodyNext]_custodyVars
             PROVE  /\ OwnerInv'
                    /\ over' = {} => SeenInv' /\ file'.fence >= file.fence
  BY DEF Calm
<1>1. OwnerInv'
  BY OwnerNext
<1>2. ASSUME over' = {} PROVE SeenInv' /\ file'.fence >= file.fence
  <2>1. over = {}
    BY <1>2, OverGrows
  <2> QED
    BY <1>2, <2>1, SeenNext DEF Calm
<1> QED
  BY <1>1, <1>2

\* No acknowledged write is ever overwritten, by any number of hand-overs,
\* failed saves and crashes, as long as only the owner's daemon is written
\* through and nothing overlaps an acquisition or a release.
THEOREM NoUpdateIsLost == CustodySpec => []NoLostUpdate
<1>1. Calm => NoLostUpdate
  BY DEF Calm, SeenInv, NoLostUpdate
<1>2. CustodyInit => Calm
  BY SeenInit DEF Calm
<1> QED
  BY <1>1, <1>2, CalmNext, OwnerInit, PTL DEF CustodySpec

\* Under the same conditions the document's generation only grows.
THEOREM FenceNeverRetreats == CustodySpec => FenceMonotone
<1>1. OwnerInv /\ Calm /\ [CustodyNext]_custodyVars
        => OwnerInv' /\ Calm' /\ [over' = {} => file'.fence >= file.fence]_custodyVars
  BY CalmNext
<1>2. CustodyInit => Calm
  BY SeenInit DEF Calm
<1> QED
  BY <1>1, <1>2, OwnerInit, PTL DEF CustodySpec, FenceMonotone

\* Under the same conditions an escalation that saves is still the owner's:
\* the fence its gate compared has not moved since.
THEOREM NoStaleEscalation == CustodySpec => NoStaleWrite
<1> DEFINE Fresh == \A p \in Procs : EscalateSave(p) /\ file' # file /\ over = {}
                                       => FenceCheck(p, esc[p].gen)
<1>1. ASSUME OwnerInv, Calm PROVE Fresh
  BY <1>1 DEF EscalateSave, OwnerInv, Ownership, Holding, Calm, SeenInv,
              EscFenced, FenceCheck
<1>2. OwnerInv /\ Calm /\ [CustodyNext]_custodyVars
        => OwnerInv' /\ Calm' /\ [Fresh]_custodyVars
  BY <1>1, CalmNext
<1>3. CustodyInit => Calm
  BY SeenInit DEF Calm
<1> QED
  BY <1>2, <1>3, OwnerInit, PTL DEF CustodySpec, NoStaleWrite
=============================================================================
