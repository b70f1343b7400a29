------------------------------ MODULE TreeSync ------------------------------
(***************************************************************************)
(* The browser's tree stream (web/src/sync/tree-transport.ts, cascade.ts,   *)
(* reconcile.ts, stream.ts, health.ts and busy.ts) against one daemon's     *)
(* event store.  Captures are decoded asynchronously while live frames keep *)
(* arriving; connections drop, stall and are replaced; the daemon restarts  *)
(* with a new epoch; frames get lost; an archive operation closes the busy  *)
(* gate, under which frames only move the cursor.                           *)
(*                                                                         *)
(* A session's payload is the number of changes it has had, so "newer" is   *)
(* "larger" in every epoch.  One session is in the frontier that a capture  *)
(* carries and one is buried: a capture leaves what the client knows of it. *)
(***************************************************************************)
EXTENDS Integers, Sequences, SequencesExt

CONSTANTS
    MaxChanges,   \* changes of the sessions
    MaxTroubles,  \* faults, restarts, busy operations, hides and expansions
    RingSize      \* events the replay ring retains

ASSUME TreeAssumption ==
    MaxChanges \in Nat /\ MaxTroubles \in Nat /\ RingSize \in Nat

VARIABLES
    srv,   \* the daemon's store and its replay ring
    cli,   \* the client's modules: stores, stream, capture owner, cascade, gate
    used,  \* how much of each bound has been used
    debts  \* history: why the client may lag since the stream's capture, or rewind

vars == <<srv, cli, used, debts>>

None == [none |-> TRUE]
Sess == {"frontier", "buried"}
Larger(a, b) == IF a < b THEN b ELSE a

-----------------------------------------------------------------------------
(* The daemon: pkg/web/stream_http.go and pkg/state, as the client uses it. *)

Floor == srv.head - Len(srv.ring)
Mismatch(es) == es.epoch # 0 /\ es.epoch # srv.epoch
\* es.cursor is ?cursor= until a frame's id makes it Last-Event-ID; -1 is none.
Replays(es) == es.cursor \in Floor..srv.head /\ ~Mismatch(es)
Replayed(es) ==
    IF ~Replays(es) THEN <<>>
    ELSE [i \in 1..(srv.head - es.cursor) |->
            LET ev == srv.ring[es.cursor - Floor + i]
            IN  [k |-> "event", n |-> es.cursor + i, ord |-> i, s |-> ev.s, v |-> ev.v]]
Capture(es) ==
    LET part(k) == [k |-> k, e |-> srv.epoch, n |-> srv.head, v |-> srv.val,
                    gap |-> es.cursor >= 0 /\ ~Replays(es)]
    IN  <<part("tree"), part("detail"), part("complete")>>

-----------------------------------------------------------------------------
(* Connections.                                                            *)

\* treeGen++: the generation's continuations return at their check.  The
\* decode under way becomes c.old; the frames and children that waited for
\* the owner are gone.
Bump(c) ==
    [c EXCEPT !.own = None, !.waits = <<>>, !.deferred = None,
              !.old = IF c.dec = None THEN @ ELSE c.dec, !.dec = None]

Stream(st, cursor, epoch) ==
    [st |-> st, cursor |-> cursor, epoch |-> epoch, wire |-> <<>>,
     ord |-> 0, stalled |-> FALSE]

ConnectAs(c, fresh, upgrade) ==
    [Bump(c) EXCEPT
        !.es = Stream("connecting", IF fresh THEN -1 ELSE c.cursor,
                      IF c.epoch = 0 THEN c.boot ELSE c.epoch),
        !.ord = -1, !.backoff = FALSE, !.upgrade = FALSE,
        !.ready = upgrade /\ @]
Connect(c, fresh) == ConnectAs(c, fresh, FALSE)

Closed(c) == [Bump(c) EXCEPT !.es.st = "closed", !.es.wire = <<>>, !.backoff = TRUE,
                             !.lagging = TRUE]
Suspend(c) == [Bump(c) EXCEPT !.es = Stream("null", -1, 0), !.ord = -1, !.backoff = FALSE,
                              !.upgrade = FALSE, !.hidden = TRUE]
IsClosed(c) == c.es.st \in {"null", "closed"}
Resume(c) ==
    LET d == [c EXCEPT !.hidden = FALSE]
    IN  IF IsClosed(c) THEN Connect(d, ~c.opened) ELSE d

-----------------------------------------------------------------------------
(* The convergence cascade: at most one pass; the tree and session steps it *)
(* awaits.                                                                  *)

MaybeComplete(c) ==
    IF c.pass # None /\ c.pass.tree # "pending" /\ c.pass.session # "pending"
    THEN [c EXCEPT !.pass = None] ELSE c

Direct(c, req) ==
    CASE req.tree = "fresh" -> Connect(c, TRUE)
      [] req.tree = "resume" -> Connect(c, FALSE)
      [] OTHER -> c

StartPass(c, req, inherit) ==
    LET own(step, wanted) == IF wanted THEN "pending"
                             ELSE IF inherit # None /\ inherit[step] = "pending" THEN "pending" ELSE "no"
        tree == IF req.tree = "await" /\ c.ready THEN "converged"
                ELSE own("tree", req.tree # "no")
        pass == [epoch |-> c.epoch, tree |-> tree, session |-> own("session", req.session)]
    IN  MaybeComplete(Direct([c EXCEPT !.pass = pass], req))

\* A step the pass already has covers the request; a missing one is added and
\* its action run.
Coalesce(c, req) ==
    LET addTree == req.tree # "no" /\ c.pass.tree = "no"
        addSes  == req.session /\ c.pass.session = "no"
        d == [c EXCEPT !.pass.tree = IF addTree THEN "pending" ELSE @,
                       !.pass.session = IF addSes THEN "pending" ELSE @]
    IN  IF addTree \/ addSes THEN Direct(d, req) ELSE d

Supersedes(c, req) ==
    /\ req.loss
    /\ req.tree = "no" \/ c.pass.tree # "pending"
    /\ ~req.session \/ c.pass.session # "pending"

RequestRecovery(c, req) ==
    CASE c.pass = None -> StartPass(c, req, None)
      [] c.pass # None /\ c.pass.epoch # c.epoch -> StartPass(c, req, None)
      [] c.pass # None /\ c.pass.epoch = c.epoch /\ Supersedes(c, req) -> StartPass(c, req, c.pass)
      [] OTHER -> Coalesce(c, req)

TreeGap      == [loss |-> TRUE, tree |-> "fresh", session |-> FALSE]
TreeDrift    == [loss |-> FALSE, tree |-> "fresh", session |-> FALSE]
TreeStale    == [loss |-> FALSE, tree |-> "resume", session |-> FALSE]
AwaitTree    == [loss |-> FALSE, tree |-> "await", session |-> FALSE]
SessionGap   == [loss |-> TRUE, tree |-> "no", session |-> TRUE]

TreeConverged(c) ==
    IF c.pass # None /\ c.pass.tree = "pending"
    THEN MaybeComplete([c EXCEPT !.pass.tree = "converged"]) ELSE c

-----------------------------------------------------------------------------
(* Applying frames and captures.                                           *)

GateActive(c) == c.ref > 0 \/ c.reconciling
AdvanceCursor(c, n) == [c EXCEPT !.cursor = Larger(@, n)]
\* A frame under the gate: the cursor moves, a running reconcile is dirty.
Defer(c, n) == [AdvanceCursor(c, n) EXCEPT !.dirty = @ \/ c.reconciling]

\* tree.op and the event of one change carry one id and meet the same guards.
ApplyEvent(c, f) ==
    LET d == AdvanceCursor(c, f.n)
    IN  [d EXCEPT !.detail[f.s] = f.v,
                  !.tree[f.s] = IF f.s = "frontier" \/ @ > 0 THEN f.v ELSE @]

Frame(c, f) == IF GateActive(c) THEN Defer(c, f.n) ELSE ApplyEvent(c, f)

Verdict(c, snap, from) ==
    CASE c.epoch = 0 -> "rebaseline"
      [] snap.e = c.epoch /\ c.epoch # 0 -> IF snap.n < c.cursor THEN "stale" ELSE "apply"
      [] OTHER -> IF from = "stream" THEN "rebaseline" ELSE "foreign"

\* projectScopedPartial(): a new epoch clears everything, a ring gap what the
\* capture does not cover; the ids in scope are merged.  0 is "not held".
Project(c, snap, scope) ==
    LET changed == c.epoch # 0 /\ c.epoch # snap.e
    IN  [s \in Sess |-> IF s \in scope THEN snap.v[s]
                        ELSE IF changed \/ snap.gap THEN 0 ELSE c.detail[s]]

ApplyScoped(c, snap, scope, from) ==
    LET v == Verdict(c, snap, from)
    IN  CASE v \in {"apply", "rebaseline"} ->
               [c EXCEPT !.detail = Project(c, snap, scope), !.epoch = snap.e,
                         !.cursor = IF v = "rebaseline" THEN snap.n ELSE Larger(@, snap.n)]
          [] v = "foreign" -> RequestRecovery(c, TreeGap)
          [] OTHER -> c

\* noteEpochAdvanced(): the next page's epoch is stored; the URL of the open
\* stream may declare another one and has to be replaced.
EpochAdvanced(c, prev) ==
    [c EXCEPT !.boot = c.epoch, !.upgrade = @ \/ (c.epoch # prev /\ (prev # 0 \/ c.es.epoch \notin {0, c.epoch}))]

\* The expected capture has arrived: the reconcile's promise resolves.
Expected(c) == [c EXCEPT !.expect = FALSE, !.resolved = @ \/ c.expect]

ApplyDetailIndependent(c, snap) ==
    IF GateActive(c) /\ ~c.expect THEN Defer(c, snap.n)
    ELSE LET d == ApplyScoped(Expected(c), snap, {"frontier"}, "stream")
             took == Verdict(c, snap, "stream") # "stale"
         IN  EpochAdvanced(IF took THEN TreeConverged(d) ELSE d, c.epoch)

\* tryInstall(): the tree, the detail and the completion of one capture.
Whole(o) == o.tree # None /\ o.detail # None /\ o.complete
Install(c) ==
    LET snap == c.own.tree
        took == Verdict(c, c.own.detail, "stream") # "stale"
        d == ApplyScoped(c, c.own.detail, {"frontier"}, "stream")
        e == [AdvanceCursor(Expected(d), snap.n) EXCEPT
                !.tree = [s \in Sess |-> IF s = "frontier" THEN snap.v[s] ELSE 0],
                !.ready = TRUE, !.own = None, !.lagging = FALSE,
                !.exp = IF c.expanded /\ @.st = "idle" THEN [st |-> "sent"] ELSE @]
    IN  EpochAdvanced(IF took THEN TreeConverged(e) ELSE e, c.epoch)
TryInstall(c) == IF Whole(c.own) THEN Install(c) ELSE c

-----------------------------------------------------------------------------
(* The busy gate and what runs after a listener returns.                   *)

StartReconcile(c, second) ==
    Connect([c EXCEPT !.reconciling = TRUE, !.dirty = FALSE, !.second = second,
                      !.expect = TRUE], TRUE)

\* Mutant: no second pass for frames that came during the first.
ReconcileDoneOnce(c) == [c EXCEPT !.reconciling = FALSE, !.second = FALSE]

ReconcileDone(c) ==
    IF c.ref > 0 THEN [c EXCEPT !.reconciling = FALSE, !.second = FALSE]
    ELSE IF c.dirty /\ ~c.second THEN StartReconcile(c, TRUE)
    ELSE [c EXCEPT !.reconciling = FALSE, !.second = FALSE]

\* expandTreeNode(): detail under the HTTP guard, then the node.children op.
ApplyExpand(c, r) ==
    LET d == ApplyScoped(c, r, {"buried"}, "http")
    IN  [d EXCEPT !.tree["buried"] = r.v["buried"]]

\* Microtasks after a listener: the reconcile's continuation first, then the
\* frames and the children that waited for the owner.  The frames run one after
\* the other, so that the last one of a session stays.
Reconciled(c) == IF c.resolved THEN ReconcileDone([c EXCEPT !.resolved = FALSE]) ELSE c
Resumed(c) ==
    LET waits(s) == {i \in DOMAIN c.waits : c.waits[i].s = s}
        last(s, held) == IF waits(s) = {} THEN held ELSE c.waits[Max(waits(s))].v
        d == [c EXCEPT !.waits = <<>>,
                !.cursor = Max({@} \cup {c.waits[i].n : i \in DOMAIN c.waits})]
    IN  CASE c.own # None \/ c.waits = <<>> -> c
          [] c.own = None /\ c.waits # <<>> /\ GateActive(c) ->
               [d EXCEPT !.dirty = @ \/ c.reconciling]
          [] OTHER ->
               [d EXCEPT !.detail = [s \in Sess |-> last(s, @[s])],
                         !.tree = [s \in Sess |-> IF s = "frontier" \/ @[s] > 0
                                                  THEN last(s, @[s]) ELSE @[s]]]
Bundled(c) == IF c.own = None /\ c.deferred # None
              THEN ApplyExpand([c EXCEPT !.deferred = None], c.deferred) ELSE c

-----------------------------------------------------------------------------
(* Listeners.                                                              *)

\* A second capture while one is pending starts over; otherwise its decode
\* begins.
OnTree(c, f) ==
    IF c.own # None THEN Connect(c, TRUE)
    ELSE [c EXCEPT !.own = [tree |-> None, detail |-> None, complete |-> FALSE], !.dec = f]

OnDetail(c0, f) ==
    LET c == IF f.gap THEN RequestRecovery(c0, AwaitTree) ELSE c0
    IN  IF c.own # None THEN TryInstall([c EXCEPT !.own.detail = f])
        ELSE ApplyDetailIndependent(c, f)

OnComplete(c, f) ==
    IF c.own = None THEN c ELSE TryInstall([c EXCEPT !.own.complete = TRUE])

Gap(c, f) == c.ord >= 0 /\ f.ord > c.ord + 1

OnEvent(c0, f) ==
    LET c == IF Gap(c0, f) THEN RequestRecovery(c0, TreeGap) ELSE c0
        d == [c EXCEPT !.ord = Larger(@, f.ord)]
    IN  CASE c.es.st = "connecting" -> c
          [] c.es.st # "connecting" /\ ~GateActive(d) /\ d.own # None ->
               [d EXCEPT !.waits = Append(@, f)]
          [] OTHER -> Frame(d, f)

Listener(c, f) ==
    CASE f.k = "tree" -> OnTree(c, f)
      [] f.k = "detail" -> OnDetail(c, f)
      [] f.k = "complete" -> OnComplete(c, f)
      [] f.k = "event" -> OnEvent(c, f)

\* markOwnerLegacy(): a capture whose tree cannot be decoded.
Legacy(c0) ==
    LET c == [c0 EXCEPT !.own = None]
    IN  IF c0.own.detail # None THEN ApplyDetailIndependent(c, c0.own.detail) ELSE c

-----------------------------------------------------------------------------
(* The environment's and the daemon's steps.                               *)

Trouble == used.troubles < MaxTroubles /\ used' = [used EXCEPT !.troubles = @ + 1]
Run(c) == \E d \in {c} : \E e \in {Reconciled(d)} : \E f \in {Resumed(e)} : cli' = Bundled(f)

\* A change of a session: the store's next event, sent to an open stream.
Change(s) ==
    /\ used.changes < MaxChanges /\ used' = [used EXCEPT !.changes = @ + 1]
    /\ LET v == srv.val[s] + 1
           f == [k |-> "event", n |-> srv.head + 1, ord |-> cli.es.ord + 1, s |-> s, v |-> v]
           ring == Append(srv.ring, [s |-> s, v |-> v])
       IN  /\ srv' = [srv EXCEPT !.head = @ + 1, !.val[s] = v,
                                 !.ring = IF Len(ring) > RingSize THEN Tail(ring) ELSE ring]
           /\ cli' = IF cli.es.st = "open"
                     THEN [cli EXCEPT !.es.wire = Append(@, f), !.es.ord = @ + 1] ELSE cli
    /\ UNCHANGED <<debts>>

\* The daemon restarts: a new epoch, an empty ring, the streams cut.
Restart ==
    /\ Trouble
    /\ srv' = [srv EXCEPT !.epoch = @ + 1, !.head = 0, !.ring = <<>>]
    /\ cli' = IF cli.es.st = "open"
              THEN [cli EXCEPT !.es.st = "connecting", !.es.wire = <<>>, !.lagging = TRUE] ELSE cli
    /\ UNCHANGED <<debts>>

\* handleStream() and onopen.  A chat view reports the stream live again.
Accept ==
    /\ cli.es.st = "connecting" /\ ~cli.es.stalled
    /\ \E chat \in BOOLEAN :
         LET re == Replayed(cli.es)
             c == [cli EXCEPT !.es.st = "open", !.es.wire = re \o Capture(cli.es),
                              !.es.ord = Len(re), !.ord = -1, !.opened = TRUE, !.lagging = FALSE]
         IN  Run(IF chat /\ cli.lagging THEN RequestRecovery(c, AwaitTree) ELSE c)
    /\ debts' = debts \cap {"blind"}
    /\ UNCHANGED <<srv, used>>

\* A noticed gap that no pending step covers is the cascade's to repair.
Answered(f) ==
    /\ f.k = "event" /\ Gap(cli, f)
    /\ cli.pass = None \/ cli.pass.tree # "pending" \/ cli.pass.epoch # cli.epoch
LetGo(f) == f.k = "event" /\ cli.reconciling /\ cli.second

Deliver ==
    /\ cli.es.st = "open" /\ ~cli.es.stalled /\ cli.es.wire # <<>>
    /\ LET f == Head(cli.es.wire)
       IN  /\ Run(Listener([cli EXCEPT !.es.wire = Tail(@), !.es.cursor = f.n], f))
           /\ debts' = (debts \ {d \in {"lost"} : Answered(f)}) \cup {d \in {"shed"} : LetGo(f)}
    /\ UNCHANGED <<srv, used>>

DecodeDone ==
    /\ cli.dec # None
    /\ Run(TryInstall([cli EXCEPT !.own.tree = cli.dec, !.dec = None]))
    /\ UNCHANGED <<srv, used, debts>>

\* Mutant: the generation is not checked after the decode.
DecodeStaleInstalls ==
    /\ cli.old # None
    /\ cli' = [cli EXCEPT !.old = None, !.tree["frontier"] = cli.old.v["frontier"]]
    /\ UNCHANGED <<srv, used, debts>>

\* The decode of an earlier generation ends: finishDecode() returns at once.
DecodeStale ==
    /\ cli.old # None
    /\ cli' = [cli EXCEPT !.old = None]
    /\ UNCHANGED <<srv, used, debts>>

DecodeFails ==
    /\ Trouble /\ cli.dec # None
    /\ Run(Legacy([cli EXCEPT !.dec = None]))
    /\ debts' = debts \cup {"lost"}
    /\ UNCHANGED srv

\* Faults of the network.  The browser retries a dropped connection with the
\* same URL; a refused one, or three failures, closes the EventSource.
Drop ==
    /\ Trouble /\ cli.es.st = "open"
    /\ cli' = [cli EXCEPT !.es.st = "connecting", !.es.wire = <<>>, !.es.stalled = FALSE,
                          !.lagging = TRUE]
    /\ UNCHANGED <<srv, debts>>
Close ==
    /\ Trouble /\ cli.es.st \in {"open", "connecting"}
    /\ Run(Closed(cli))
    /\ UNCHANGED <<srv, debts>>
Stall ==
    /\ Trouble /\ cli.es.st \in {"open", "connecting"} /\ ~cli.es.stalled
    /\ cli' = [cli EXCEPT !.es.stalled = TRUE]
    /\ UNCHANGED <<srv, debts>>
Lose ==
    /\ Trouble
    /\ \E i \in DOMAIN cli.es.wire :
         LET f == cli.es.wire[i]
         IN  /\ f.k = "event"
             /\ cli' = [cli EXCEPT !.es.wire = RemoveAt(@, i)]
             /\ debts' = debts \cup {"lost"}
    /\ UNCHANGED srv

\* Timers.
Backoff ==
    /\ cli.backoff
    /\ Run(Connect(cli, FALSE))
    /\ UNCHANGED <<srv, used, debts>>
\* Mutant: only a closed stream is reopened, a silent one is not noticed.
WatchdogClosedOnly ==
    /\ ~cli.hidden /\ IsClosed(cli)
    /\ Run(Connect(cli, FALSE))
    /\ UNCHANGED <<srv, used, debts>>
Watchdog ==
    /\ ~cli.hidden
    /\ IF IsClosed(cli) THEN Run(Connect(cli, FALSE))
       ELSE /\ cli.es.stalled
            /\ Run(RequestRecovery([cli EXCEPT !.lagging = TRUE], TreeStale))
    /\ UNCHANGED <<srv, used, debts>>
FireUpgrade ==
    /\ cli.upgrade /\ cli.es.st # "null" /\ cli.own = None
    /\ IF cli.es.epoch = cli.epoch THEN cli' = [cli EXCEPT !.upgrade = FALSE]
       ELSE Run(ConnectAs(cli, FALSE, TRUE))
    /\ UNCHANGED <<srv, used, debts>>
PassTimeout ==
    /\ cli.pass # None
    /\ cli' = [cli EXCEPT !.pass = None]
    /\ UNCHANGED <<srv, used, debts>>
\* The interval is ten minutes: what was under way has arrived.
Quiet == cli.es.st = "open" /\ ~cli.es.stalled /\ cli.es.wire = <<>> /\ cli.own = None
PeriodicResync ==
    /\ ~cli.hidden /\ Quiet /\ ~cli.expect /\ ~GateActive(cli)
    /\ Run(RequestRecovery(cli, TreeDrift))
    /\ UNCHANGED <<srv, used, debts>>

\* The session stream's own recoveries share the pass.
SessionLoss ==
    /\ Trouble
    /\ Run(RequestRecovery(cli, SessionGap))
    /\ UNCHANGED <<srv, debts>>
SessionConverged ==
    /\ cli.pass # None /\ cli.pass.session = "pending"
    /\ cli' = MaybeComplete([cli EXCEPT !.pass.session = "converged"])
    /\ UNCHANGED <<srv, used, debts>>

\* The busy scope: withGlobalBusy() and runReconcile().
BusyStart ==
    /\ cli.ref = 0 /\ Trouble
    /\ cli' = [cli EXCEPT !.ref = 1]
    /\ UNCHANGED <<srv, debts>>
BusyEnd ==
    /\ cli.ref = 1
    /\ LET c == [cli EXCEPT !.ref = 0]
       IN  Run(IF c.reconciling THEN [c EXCEPT !.dirty = TRUE] ELSE StartReconcile(c, FALSE))
    /\ UNCHANGED <<srv, used, debts>>
ReconcileTimeout ==
    /\ cli.reconciling /\ cli.expect
    /\ Run(Expected(cli))
    /\ UNCHANGED <<srv, used, debts>>

\* Visibility.
Hide ==
    /\ ~cli.hidden /\ Trouble
    /\ Run(Suspend(cli))
    /\ UNCHANGED <<srv, debts>>
Reveal ==
    /\ cli.hidden
    /\ Run(Resume(cli))
    /\ UNCHANGED <<srv, used, debts>>

\* Expanding the frontier node asks for its children over HTTP.
Expand ==
    /\ cli.exp.st = "idle" /\ cli.tree["frontier"] > 0 /\ Trouble
    /\ cli' = [cli EXCEPT !.exp = [st |-> "sent"], !.expanded = TRUE]
    /\ UNCHANGED <<srv, debts>>
ExpandServe ==
    /\ cli.exp.st = "sent"
    /\ cli' = [cli EXCEPT !.exp = [st |-> "reply", e |-> srv.epoch, n |-> srv.head,
                                   v |-> srv.val, gap |-> FALSE]]
    /\ UNCHANGED <<srv, used, debts>>
\* The children are newer than a capture that has been sent and not received.
Overtakes(r) ==
    \E i \in DOMAIN cli.es.wire :
        cli.es.wire[i].k = "tree" /\ cli.es.wire[i].n < r.n
ExpandArrives ==
    /\ cli.exp.st = "reply"
    /\ LET c == [cli EXCEPT !.exp = [st |-> "idle"]]
       IN  Run(IF c.own # None THEN [c EXCEPT !.deferred = cli.exp] ELSE ApplyExpand(c, cli.exp))
    /\ debts' = debts \cup {d \in {"overtaken"} : Overtakes(cli.exp)}
                       \cup {d \in {"blind"} : cli.epoch = 0}
    /\ UNCHANGED <<srv, used>>

-----------------------------------------------------------------------------
(* A page load: the cursor and the epoch an earlier page left behind.      *)

Init ==
    /\ srv = [epoch |-> 1, head |-> 1, ring |-> <<[s |-> "frontier", v |-> 1]>>,
              val |-> [s \in Sess |-> 1]]
    /\ \E left \in {<<0, 0>>, <<1, 1>>, <<-1, 1>>} :
         cli = [es |-> Stream("connecting", -1, left[1]), epoch |-> 0, boot |-> left[1],
                cursor |-> left[2], tree |-> [s \in Sess |-> 0], detail |-> [s \in Sess |-> 0],
                own |-> None, dec |-> None, old |-> None, waits |-> <<>>, deferred |-> None,
                ord |-> -1, ready |-> FALSE, opened |-> FALSE, lagging |-> FALSE,
                backoff |-> FALSE, upgrade |-> FALSE, hidden |-> FALSE, pass |-> None,
                ref |-> 0, reconciling |-> FALSE, dirty |-> FALSE, second |-> FALSE,
                expect |-> FALSE, resolved |-> FALSE,
                expanded |-> FALSE, exp |-> [st |-> "idle"]]
    /\ used = [changes |-> 0, troubles |-> 0]
    /\ debts = {}

Next ==
    \/ \E s \in Sess : Change(s)
    \/ Restart \/ Accept \/ Deliver \/ DecodeDone \/ DecodeStale \/ DecodeFails
    \/ Drop \/ Close \/ Stall \/ Lose
    \/ Backoff \/ Watchdog \/ FireUpgrade \/ PassTimeout \/ PeriodicResync
    \/ SessionLoss \/ SessionConverged
    \/ BusyStart \/ BusyEnd \/ ReconcileTimeout
    \/ Hide \/ Reveal \/ Expand \/ ExpandServe \/ ExpandArrives

\* The daemon accepts and sends, decodes end, timers fire, an operation that
\* holds the busy scope returns.  Nobody has to look at the page again.
Progress == Accept \/ Deliver \/ DecodeDone \/ Backoff \/ FireUpgrade
Timers == Watchdog \/ PassTimeout \/ ReconcileTimeout \/ BusyEnd
Fairness == WF_vars(Progress) /\ WF_vars(Timers) /\ WF_vars(PeriodicResync)

Spec == Init /\ [][Next]_vars /\ Fairness

-----------------------------------------------------------------------------
(* Properties.                                                             *)

Current == /\ cli.tree["frontier"] = srv.val["frontier"]
           /\ cli.detail["frontier"] = srv.val["frontier"]
           /\ cli.epoch = srv.epoch
Settled == Quiet /\ ~GateActive(cli)

\* When the stream is quiet the frontier is the daemon's, in the tree and in
\* the detail.  Three debts are known and left to the next reconnect: a frame
\* lost with no later frame to show the gap, or shown while a pass already
\* awaited the tree (cascade.ts:420-437); a frame let go under the busy gate's
\* second and last pass (busy.ts:103-122); and a capture that a children
\* bundle overtook, discarded as stale (reconcile.ts:384-394).
FrontierCurrent == Settled /\ debts \subseteq {"blind"} => Current

\* Nothing the page shows of the frontier ever goes back: not by an earlier
\* generation's decode, a replay, a stale capture or a waiting frame.  The one
\* exception is a page whose first epoch came with a children bundle: the
\* bundle's sequence number becomes the cursor whatever frames have been
\* applied (cascade.ts:560-561), and a reconnect replays from there.
NoRewind ==
    [][debts \cap {"blind"} = {} =>
         /\ cli'.tree["frontier"] >= cli.tree["frontier"]
         /\ cli'.detail["frontier"] >= cli.detail["frontier"]]_vars

\* The periodic resync is a backstop: a visible page ends up current.
Converges == <>[](cli.hidden \/ Current)
=============================================================================
