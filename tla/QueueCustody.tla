---------------------------- MODULE QueueCustody ----------------------------
(***************************************************************************)
(* Queue custody between daemons that share a project root: the flock, the *)
(* generation authority and the compare-and-fence gate of                  *)
(* pkg/web/queue_custody.go, acquired and released by the drain loop       *)
(* (queue_drain_loop.go), used by the escalation handler                   *)
(* (queue_escalate.go), and probed, not taken, by the legacy browser       *)
(* handlers (queue_http.go).                                               *)
(*                                                                         *)
(* One session's queue.json is the set of writes it carries: a save        *)
(* replaces the file by what the writing daemon holds in memory, so a      *)
(* write is lost when a daemon saves without having seen it.               *)
(***************************************************************************)
EXTENDS Integers, FiniteSets

CONSTANTS
    Procs,              \* daemon processes opened on one project root
    None,               \* nobody holds the flock
    MaxGen,             \* bound: generations allocated
    MaxWrites           \* bound: writes to the queue

ASSUME CustodyBounds == MaxGen \in Nat /\ MaxWrites \in Nat
ASSUME CustodyChoices == None \notin Procs

VARIABLES
    lock,               \* holder of queue.custody.lock
    authority,          \* queue.custody.gen
    tok,                \* tok[p]: the generation of p's live token, 0 for none
    loop,               \* loop[p]: the drain loop's step
    esc,                \* esc[p]: the escalation handler's step and token
    probed,             \* daemons whose legacy handler found the lock free
    caches,             \* caches[p]: the store object's cache
    file,               \* queue.json
    acked,              \* history: the writes reported to their callers
    over                \* history: the overlaps that have happened

custodyVars == <<lock, authority, tok, loop, esc, probed, caches, file, acked,
          over>>

Writes == 1..MaxWrites
Doc == [writes : SUBSET Writes, fence : 0..MaxGen]
NoDoc == [writes |-> {}, fence |-> 0]
Cache == [loaded : BOOLEAN, doc : Doc]
NoCache == [loaded |-> FALSE, doc |-> NoDoc]
Esc == [pc : {"off", "token", "gated"}, gen : 0..MaxGen]
EscOff == [pc |-> "off", gen |-> 0]

\* What nothing in the code prevents:
\*   "legacy"   a legacy browser writes through a daemon that found the lock
\*              free a while ago
\*   "release"  custody is released under an escalation
\*   "early"    an escalation uses the token before the caches are dropped
\*   "foreign"  browsers enqueue, remove and list through a daemon that has no
\*              custody
Overlaps == {"legacy", "release", "early", "foreign"}
Marked(kind, harmless) == over' = IF harmless THEN over ELSE over \cup {kind}
-----------------------------------------------------------------------------
\* load(): the first use reads the file, later ones the cache.
View(p) == IF caches[p].loaded THEN caches[p].doc ELSE file

\* The escalation handler keeps the store's mutex from its gate to its save.
StoreFree(p) == esc[p].pc # "gated"

\* Mutant: a released token still passes.
FenceCheckReleased(p, g) == g # 0 /\ authority = g

\* FenceCheck of a token of generation g held by p: not released, and still
\* the generation on file.
FenceCheck(p, g) == g # 0 /\ tok[p] = g /\ authority = g

\* fenceGateLocked: FenceCheck, load, and the generation in the document.
FenceGate(p, g) == FenceCheck(p, g) /\ View(p).fence <= g

\* A write id not used yet.
NewWrite == CHOOSE w \in Writes : w \notin acked
CanWrite == acked # Writes

\* save() of p's document with one more write, stamped with generation g.
SaveAs(p, g) ==
    LET doc == [writes |-> View(p).writes \cup {NewWrite}, fence |-> g] IN
    /\ file' = doc
    /\ caches' = [caches EXCEPT ![p] = [loaded |-> TRUE, doc |-> doc]]
    /\ acked' = acked \cup {NewWrite}

\* A failed save: the caller rolls the items back, the stamp of the gate stays.
SaveFails(p, g) ==
    /\ caches' = [caches EXCEPT ![p] = [loaded |-> TRUE,
                                  doc |-> [View(p) EXCEPT !.fence = g]]]
    /\ UNCHANGED <<file, acked>>
-----------------------------------------------------------------------------
CustodyInit ==
    /\ lock = None
    /\ authority = 0
    /\ tok = [p \in Procs |-> 0]
    /\ loop = [p \in Procs |-> "out"]
    /\ esc = [p \in Procs |-> EscOff]
    /\ probed = {}
    /\ caches = [p \in Procs |-> NoCache]
    /\ file = NoDoc
    /\ acked = {}
    /\ over = {}

\* Mutant: the flock is not exclusive.
LockAcquireShared(p) ==
    /\ loop[p] = "out"
    /\ lock' = p
    /\ loop' = [loop EXCEPT ![p] = "locked"]
    /\ UNCHANGED <<authority, tok, esc, probed, caches, file, acked, over>>

\* AcquireQueueCustody: the flock first, failing at once when it is held ...
LockAcquire(p) ==
    /\ loop[p] = "out" /\ lock = None
    /\ lock' = p
    /\ loop' = [loop EXCEPT ![p] = "locked"]
    /\ UNCHANGED <<authority, tok, esc, probed, caches, file, acked, over>>

NextGeneration == authority + 1

\* ... then the next generation is written, or the lock given up.
AllocateGeneration(p) ==
    /\ loop[p] = "locked"
    /\ \/ /\ authority < MaxGen
          /\ authority' = NextGeneration
          /\ tok' = [tok EXCEPT ![p] = NextGeneration]
          /\ loop' = [loop EXCEPT ![p] = "acquired"]
          /\ UNCHANGED lock
       \/ /\ lock' = None
          /\ loop' = [loop EXCEPT ![p] = "out"]
          /\ UNCHANGED <<authority, tok>>
    /\ UNCHANGED <<esc, probed, caches, file, acked, over>>

\* Mutant: a new owner keeps its cache.
InvalidateLoadedCacheKeeps(p) ==
    /\ loop[p] = "acquired" /\ StoreFree(p)
    /\ loop' = [loop EXCEPT ![p] = "owner"]
    /\ UNCHANGED <<lock, authority, tok, esc, probed, caches, file, acked, over>>

\* acquire() goes on: invalidateStoresUnderRoot drops the cache.
InvalidateLoadedCache(p) ==
    /\ loop[p] = "acquired" /\ StoreFree(p)
    /\ caches' = [caches EXCEPT ![p].loaded = FALSE]
    /\ loop' = [loop EXCEPT ![p] = "owner"]
    /\ UNCHANGED <<lock, authority, tok, esc, probed, file, acked, over>>

\* A fenced mutation by the loop (claim, journal, receipt, requeue); a refused
\* one, or an authority that cannot be read, ends the loop.  The loop holds the
\* flock throughout, so its gate and its save are one step.
FencedMutation(p) ==
    LET g == tok[p] IN
    /\ loop[p] = "owner" /\ StoreFree(p) /\ CanWrite
    /\ \/ /\ FenceGate(p, g)
          /\ SaveAs(p, g) \/ SaveFails(p, g)
          /\ UNCHANGED <<lock, tok, loop>>
       \/ /\ lock' = None
          /\ tok' = [tok EXCEPT ![p] = 0]
          /\ loop' = [loop EXCEPT ![p] = "out"]
          /\ UNCHANGED <<caches, file, acked>>
    /\ UNCHANGED <<authority, esc, probed, over>>

\* releaseTok: the loop is stopped (project reload, shutdown).
Release(p) ==
    /\ loop[p] = "owner"
    /\ lock' = None
    /\ tok' = [tok EXCEPT ![p] = 0]
    /\ loop' = [loop EXCEPT ![p] = "out"]
    /\ Marked("release", StoreFree(p))
    /\ UNCHANGED <<authority, esc, probed, caches, file, acked>>

\* handleQueueEscalate takes a snapshot of the loop's token ...
EscalateToken(p) ==
    /\ esc[p].pc = "off" /\ tok[p] # 0
    /\ esc' = [esc EXCEPT ![p] = [pc |-> "token", gen |-> tok[p]]]
    /\ Marked("early", loop[p] = "owner")
    /\ UNCHANGED <<lock, authority, tok, loop, probed, caches, file, acked>>

\* ... passes the gate with it, or is refused ...
EscalateGate(p) ==
    LET g == esc[p].gen IN
    /\ esc[p].pc = "token"
    /\ \/ /\ FenceGate(p, g)
          /\ esc' = [esc EXCEPT ![p].pc = "gated"]
          /\ caches' = [caches EXCEPT ![p] = [loaded |-> TRUE,
                                       doc |-> [View(p) EXCEPT !.fence = g]]]
       \/ esc' = [esc EXCEPT ![p] = EscOff] /\ UNCHANGED caches
    /\ UNCHANGED <<lock, authority, tok, loop, probed, file, acked, over>>

\* ... and saves, if the item could be escalated and the disk agrees.
EscalateSave(p) ==
    /\ esc[p].pc = "gated" /\ CanWrite
    /\ SaveAs(p, esc[p].gen) \/ SaveFails(p, esc[p].gen)
    /\ esc' = [esc EXCEPT ![p] = EscOff]
    /\ UNCHANGED <<lock, authority, tok, loop, probed, over>>

\* handleQueueEnqueue, handleQueueRemove and the writes of handleQueueList are
\* neither fenced nor arbitrated, in whatever daemon they run; a save keeps the
\* generation the document was loaded with.
UnfencedWrite(p) ==
    /\ StoreFree(p) /\ CanWrite
    /\ SaveAs(p, View(p).fence)
    /\ Marked("foreign", loop[p] = "owner")
    /\ UNCHANGED <<lock, authority, tok, loop, esc, probed>>

\* handleQueueClaim and handleQueueResolve of a legacy browser probe the lock
\* (queueCustodyActive) and write later.
LegacyProbe(p) ==
    /\ p \notin probed /\ lock = None
    /\ probed' = probed \cup {p}
    /\ UNCHANGED <<lock, authority, tok, loop, esc, caches, file, acked, over>>

LegacyWrite(p) ==
    /\ p \in probed /\ StoreFree(p) /\ CanWrite
    /\ SaveAs(p, View(p).fence)
    /\ probed' = probed \ {p}
    /\ Marked("legacy", FALSE)
    /\ UNCHANGED <<lock, authority, tok, loop, esc>>

\* The daemon dies: the kernel drops its flock, memory is gone.
Crash(p) ==
    /\ lock' = IF lock = p THEN None ELSE lock
    /\ tok' = [tok EXCEPT ![p] = 0]
    /\ loop' = [loop EXCEPT ![p] = "out"]
    /\ esc' = [esc EXCEPT ![p] = EscOff]
    /\ probed' = probed \ {p}
    /\ caches' = [caches EXCEPT ![p] = NoCache]
    /\ UNCHANGED <<authority, file, acked, over>>

CustodyNext ==
    \E p \in Procs :
        \/ LockAcquire(p) \/ AllocateGeneration(p)
        \/ InvalidateLoadedCache(p) \/ FencedMutation(p) \/ Release(p)
        \/ EscalateToken(p) \/ EscalateGate(p) \/ EscalateSave(p)
        \/ UnfencedWrite(p) \/ LegacyProbe(p) \/ LegacyWrite(p) \/ Crash(p)

CustodySpec == CustodyInit /\ [][CustodyNext]_custodyVars
-----------------------------------------------------------------------------
\* Every variable has the shape of what it models.
CustodyTypeOK ==
    /\ lock \in Procs \cup {None}
    /\ authority \in 0..MaxGen
    /\ tok \in [Procs -> 0..MaxGen]
    /\ loop \in [Procs -> {"out", "locked", "acquired", "owner"}]
    /\ esc \in [Procs -> Esc]
    /\ probed \subseteq Procs
    /\ caches \in [Procs -> Cache]
    /\ file \in Doc
    /\ acked \subseteq Writes
    /\ over \subseteq Overlaps

\* A token passes the fence in one process at a time, and that process holds
\* the flock: crashes, failed allocations and hand-overs never leave two owners
\* ("No split-brain").
OneOwner ==
    \A p \in Procs : tok[p] # 0 => lock = p /\ FenceCheck(p, tok[p])

\* As long as none of the overlaps has happened:
\* a write that was reported to its caller is never undone by a save of another
\* daemon ("single-writer queue.json custody"): the cache is dropped at every
\* change of owner;
NoLostUpdate == over = {} => acked \subseteq file.writes

\* the generation in the document never goes back: a later epoch's document is
\* never replaced by an earlier epoch's;
FenceMonotone == [][over' = {} => file'.fence >= file.fence]_custodyVars

\* "the stale epoch's receipt is REJECTED and no stale write lands": whoever
\* saves behind the gate is the current owner when the save lands.
NoStaleWrite ==
    [][\A p \in Procs : EscalateSave(p) /\ file' # file /\ over = {}
                          => FenceCheck(p, esc[p].gen)]_custodyVars
=============================================================================
