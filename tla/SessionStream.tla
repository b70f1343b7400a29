---------------------------- MODULE SessionStream ---------------------------
(***************************************************************************)
(* The stream of the open session (web/src/sync/session-stream.ts, with     *)
(* history.ts, reducers.ts, lib/reduce.ts and its part of cascade.ts,       *)
(* health.ts and busy.ts).  Two positions are kept: the live cursor moves   *)
(* when a frame is received, the remembered one only when its content has   *)
(* been applied.  Snapshots and batches are decoded while frames arrive,    *)
(* connections are replaced under them, and the daemon restarts with a new  *)
(* epoch whose sequence numbers mean something else.                        *)
(*                                                                         *)
(* The transcript has a tail message, which snapshots and batches carry,    *)
(* and an older one that has to be paged in.  A text is its length.         *)
(***************************************************************************)
EXTENDS Integers, Sequences, FiniteSets, SequencesExt, FiniteSetsExt, TLC

CONSTANTS
    MaxChanges,   \* changes of the transcript
    MaxTroubles,  \* faults, restarts, busy operations, leaving, hiding, paging
    MaxBacklog,   \* frames under way when a change is made
    RingSize      \* events the replay ring retains

ASSUME SessionAssumption ==
    /\ MaxChanges \in Nat /\ MaxTroubles \in Nat /\ MaxBacklog \in Nat
    /\ RingSize \in Nat

VARIABLES
    srv,   \* the daemon's store of the session and its ring
    cli,   \* the page: connection, cursors, decodes, gate, transcript
    used   \* how much of each bound has been used

vars == <<srv, cli, used>>

None == [none |-> TRUE]
Msgs == {"old", "tail"}
Gone == [info |-> "none", len |-> 0]
Live(n) == [info |-> "live", len |-> n]
Done(n) == [info |-> "done", len |-> n]
Larger(a, b) == IF a < b THEN b ELSE a
MaxRetries == 3   \* MAX_PAGE_RETRIES

-----------------------------------------------------------------------------
(* The daemon, as the client uses it.                                      *)

Floor == srv.head - Len(srv.ring)
Replays(s) ==
    /\ s.cursor > 0 /\ s.cursor \in Floor..srv.head
    /\ s.epoch \in {0, srv.epoch}
Replayed(s) ==
    [i \in 1..(srv.head - s.cursor) |-> [srv.ring[s.cursor - Floor + i] EXCEPT !.ord = i]]
\* The window of a snapshot is the tail; a cold store has nothing yet.
Window == [m \in Msgs |-> IF m = "tail" /\ srv.loaded THEN srv.msg[m] ELSE Gone]
Snapshot(z) == [k |-> "snapshot", n |-> srv.head, ord |-> 1, e |-> srv.epoch,
                body |-> Window, z |-> z]

-----------------------------------------------------------------------------
(* The resident transcript.                                                *)

Resident(x) == x # Gone
\* prependMessagesIfAbsent(): a resident message stays as it is unless the
\* incoming one is completed, or it is a shadow (parts without the message).
Merge(store, body) ==
    [m \in Msgs |->
        LET mine == store[m]  theirs == body[m]
        IN  CASE theirs = Gone -> mine
              [] theirs # Gone /\ (~Resident(mine) \/ theirs.info = "done") -> theirs
              [] theirs.info = "live" /\ mine.info = "none" /\ Resident(mine) -> Live(mine.len)
              [] OTHER -> mine]

\* stampCompletionIfIdle(): the last message in order, if it is not completed.
Stamp(c) ==
    IF c.idle /\ c.epoch # 0 /\ c.store["tail"].info = "live"
    THEN [c EXCEPT !.store["tail"].info = "done"] ELSE c

\* projectMessageEvent().  Without a snapshot there is no transcript yet, and
\* only a batch makes one.
Reduce(c, f) ==
    CASE f.k = "batch" -> Stamp([c EXCEPT !.store = Merge(@, f.body), !.have = TRUE])
      [] f.k = "message" /\ c.have -> [c EXCEPT !.store[f.m].info = f.info]
      [] f.k = "part" /\ c.have -> [c EXCEPT !.store[f.m].len = f.len]
      [] f.k = "delete" /\ c.have -> [c EXCEPT !.store[f.m] = Gone, !.gone = @ \cup {f.m}]
      [] OTHER -> c

\* appendPartSuffix()
Suffix(x, f) == CASE x = Gone -> "mismatch"
                  [] x # Gone /\ x.info = "done" -> "skipped"
                  [] x # Gone /\ x.info # "done" /\ x.len # f.len -> "mismatch"
                  [] OTHER -> "applied"

-----------------------------------------------------------------------------
(* The remembered cursor.                                                  *)

\* noteSessionCursorApplied(): the memory of another lifetime is dropped.
Note(c, n, e) ==
    IF n <= 0 THEN c
    ELSE [c EXCEPT !.mem = IF c.memE = e THEN Larger(@, n) ELSE n, !.memE = e]

\* The producer of a message frame: the connection's last applied snapshot, or
\* the epoch the daemon checked the resumed cursor against, or unknown.
Producer(c) == IF c.prod # 0 THEN c.prod ELSE IF c.resumed THEN c.url ELSE 0

\* History: the events of this daemon lifetime whose content was applied.
Applied(c, ns, e) == IF e = srv.epoch THEN [c EXCEPT !.app = @ \cup ns] ELSE c

Below(c, n, own) ==
    LET open == c.pend \ {own}
    IN  IF open # {} /\ n >= Min(open) THEN Min(open) - 1 ELSE n

\* Mutant: the mismatch latch is not consulted.
ClaimUnlatched(c, n, own) == Note(c, Below(c, n, own), Producer(c))

\* claimSessionCursorApplied(): not while a mismatch is latched, never up to a
\* batch that is still being decoded.
Claim(c, n, own) == IF c.latched THEN c ELSE Note(c, Below(c, n, own), Producer(c))

-----------------------------------------------------------------------------
(* Connections.                                                            *)

Stream(st, cursor, epoch) ==
    [st |-> st, cursor |-> cursor, epoch |-> epoch, wire |-> <<>>, ord |-> 0,
     from |-> epoch, stalled |-> FALSE]

\* sesGen++: what was suspended under the old generation returns at its check.
\* An expected snapshot's decode still resolves the reconcile.
Dead(ws) == [i \in DOMAIN ws |-> [ws[i] EXCEPT !.dead = TRUE]]
Bump(c) ==
    LET expected(d) == d.exp
        drop(d) == [d EXCEPT !.dead = TRUE, !.held = <<>>]
        kept == SelectSeq(c.decs, expected)
    IN  [c EXCEPT !.replaced = TRUE, !.decs = [i \in DOMAIN kept |-> drop(kept[i])],
                  !.decoding = FALSE, !.fallback = -1, !.retry = FALSE, !.buf = <<>>,
                  !.batches = [i \in DOMAIN @ |-> [@[i] EXCEPT !.dead = TRUE, !.waits = Dead(@)]],
                  !.pages = [i \in DOMAIN @ |-> [@[i] EXCEPT !.ok = FALSE]],
                  !.lastOrd = -1]

CloseStream(c) ==
    [Bump(c) EXCEPT !.conn = Stream("null", 0, 0), !.sel = FALSE, !.susp = FALSE,
                    !.cur = 0, !.curE = 0,
                    !.pages = [i \in DOMAIN @ |-> [@[i] EXCEPT !.reg = FALSE]]]

\* History: what a resume from the receipt cursor leaves out.
Skips(c) == IF c.curE = srv.epoch THEN {<<"skipped", n>> : n \in (1..c.cur) \ c.app} ELSE {}

\* openSessionES(): the live cursor if its stamp pairs with the epoch this
\* open declares, else the remembered one if its stamp does.
OpenES(c, fresh) ==
    LET declared == IF c.epoch # 0 THEN c.epoch ELSE IF c.memE # 0 THEN c.memE ELSE c.boot
        remembered == IF fresh \/ c.memE # declared THEN 0 ELSE c.mem
        live == c.cur > 0 /\ c.curE = declared
        send == IF live THEN c.cur ELSE remembered
    IN  [Bump(c) EXCEPT !.conn = Stream("connecting", send, declared), !.url = declared,
                        !.prod = 0, !.resumed = send > 0, !.snapDone = FALSE,
                        !.debts = IF live THEN @ \cup Skips(c) ELSE @]

OpenFresh(c) == OpenES([CloseStream(c) EXCEPT !.sel = TRUE], TRUE)
Closed(c) == c.conn.st \in {"null", "closed"}
\* reopenSessionStreamPreservingCursor() arms the silence fallback.
Reopen(c) == LET d == OpenES(c, FALSE) IN [d EXCEPT !.fallback = d.cur]

\* The cascade's session step: a pending one covers a request of its epoch.
Covered(c) == c.pass # None /\ c.pass.epoch = c.epoch
RequestRecovery(c, mode) ==
    IF Covered(c) THEN c
    ELSE LET d == [c EXCEPT !.pass = [epoch |-> c.epoch]]
         IN  IF mode = "fresh" THEN OpenFresh(d) ELSE Reopen(d)

\* noteStoreEpochChanged(), called when a tree snapshot has set the epoch.
EpochChanged(c0, e) ==
    LET c == [c0 EXCEPT !.epoch = e, !.boot = e]
        wrong(d) == d.conn.st # "null" /\ d.sel /\ d.url # e
        upgraded(d) == IF wrong(d) THEN OpenES(d, FALSE) ELSE d
        first == [c EXCEPT !.cur = IF c.curE = 0 THEN 0 ELSE @,
                           !.mem = IF c.memE = 0 THEN 0 ELSE @]
    IN  IF c0.epoch # 0 THEN upgraded([c EXCEPT !.mem = 0, !.memE = 0, !.cur = 0, !.curE = 0])
        ELSE IF c.sel /\ c.url \notin {0, e} THEN upgraded([first EXCEPT !.cur = 0, !.curE = 0])
        ELSE first

-----------------------------------------------------------------------------
(* The busy gate.                                                          *)

GateActive(c) == c.ref > 0 \/ c.reconciling
Dirty(c) == [c EXCEPT !.dirty = @ \/ c.reconciling]

\* gateEpoch++: what was received before is discarded when it is decoded.
Stale(ws) == [i \in DOMAIN ws |-> [ws[i] EXCEPT !.stale = TRUE]]
BumpGate(c) ==
    [c EXCEPT !.decs = [i \in DOMAIN @ |-> [@[i] EXCEPT !.stale = TRUE, !.held = Stale(@)]],
              !.batches = [i \in DOMAIN @ |-> [@[i] EXCEPT !.stale = TRUE, !.waits = Stale(@)]]]

\* A frame under the gate, or decoded under a later one.  History: no pass
\* follows the second one, or one that ended before the decode did.
LetGo(c, ns) ==
    Dirty(IF (c.reconciling /\ c.second) \/ ~GateActive(c)
          THEN [c EXCEPT !.debts = @ \cup {<<"shed", n>> : n \in ns}] ELSE c)

StartReconcile(c, second) ==
    LET d == [BumpGate(c) EXCEPT !.reconciling = TRUE, !.dirty = FALSE, !.second = second,
                                 !.expTree = TRUE, !.expSes = c.sel]
    IN  IF c.sel THEN OpenFresh(d) ELSE d

\* maybeResolveReconcile(): the promise resolves; runReconcile() goes on after
\* the task.
MaybeResolve(c) == [c EXCEPT !.resolved = @ \/ (c.reconciling /\ ~c.expTree /\ ~c.expSes)]
ReconcileDone(c) ==
    IF c.ref = 0 /\ c.dirty /\ ~c.second THEN StartReconcile(c, TRUE)
    ELSE [c EXCEPT !.reconciling = FALSE, !.second = FALSE]

-----------------------------------------------------------------------------
(* Listeners.                                                              *)

\* flushAppends(): a mismatch latches the memory and asks for a snapshot.
Flush(c) ==
    LET verdict(d, f) == IF d.have THEN Suffix(d.store[f.m], f) ELSE "mismatch"
        step(acc, f) ==
            LET v == verdict(acc.c, f)
                d == IF v = "applied" THEN [acc.c EXCEPT !.store[f.m].len = @ + 1] ELSE acc.c
            IN  IF v = "mismatch" THEN [acc EXCEPT !.bad = TRUE]
                ELSE [acc EXCEPT !.c = Applied(d, {f.n}, f.e), !.top = Larger(@, f.n)]
        all == FoldLeft(step, [c |-> [c EXCEPT !.buf = <<>>], bad |-> FALSE, top |-> 0], c.buf)
        d == [all.c EXCEPT !.latched = @ \/ all.bad]
        waiting == \E i \in DOMAIN d.batches : d.batches[i].latest
    IN  CASE c.buf = <<>> -> c
          [] c.buf # <<>> /\ all.bad -> RequestRecovery(d, "fresh")
          [] OTHER -> IF all.top > 0 /\ ~waiting THEN Claim(d, all.top, 0) ELSE d

ApplyFrame(c, f) == Claim(Applied(Reduce(c, f), {f.n}, f.e), f.n, 0)

\* A frame behind the snapshot's decode: deletes and batches make a page in
\* flight dirty, a batch is decoded, the others wait for the latest batch.
Dispatch(c, f) ==
    LET d == IF f.k \in {"delete", "batch"}
             THEN [c EXCEPT !.pages = [i \in DOMAIN @ |-> [@[i] EXCEPT !.dirty = @ \/ c.pages[i].reg]]]
             ELSE c
        batch == [f |-> f, stale |-> FALSE, dead |-> FALSE, latest |-> TRUE, waits |-> <<>>]
        older == [i \in DOMAIN d.batches |-> [d.batches[i] EXCEPT !.latest = FALSE]]
        last == {i \in DOMAIN d.batches : d.batches[i].latest}
    IN  CASE f.k = "batch" -> [d EXCEPT !.batches = Append(older, batch), !.pend = @ \cup {f.n}]
          [] f.k # "batch" /\ last # {} ->
               [d EXCEPT !.batches[Max(last)].waits =
                    Append(@, [f |-> f, stale |-> FALSE, dead |-> FALSE])]
          [] OTHER -> ApplyFrame(d, f)

\* A listener past its wait for the snapshot.  Suffixes collect until the next
\* other frame or the end of the task.
Feed(c, w) ==
    CASE c.replaced -> c
      [] ~c.replaced /\ w.stale -> LetGo(c, {w.f.n})
      [] ~c.replaced /\ ~w.stale /\ w.f.k = "append" -> [c EXCEPT !.buf = Append(@, w.f)]
      [] OTHER -> LET d == Flush(c) IN IF d.replaced THEN d ELSE Dispatch(d, w.f)

\* Mutant: a gap in the delivery ordinals is not looked for.
NoGap(c, f) == FALSE
\* checkSesOrdinalGap()
Gap(c, f) == c.lastOrd >= 0 /\ f.ord > c.lastOrd + 1
GapChecked(c, f) == IF Gap(c, f) THEN RequestRecovery(c, "fresh") ELSE c

OnFrame(c, f) ==
    LET d == [c EXCEPT !.cur = Larger(@, f.n), !.curE = IF f.n > c.cur THEN Producer(c) ELSE @,
                       !.lastOrd = Larger(@, f.ord)]
        w == [f |-> f, stale |-> FALSE]
    IN  CASE GateActive(d) -> LetGo(d, {f.n})
          [] ~GateActive(d) /\ d.decoding ->
               [d EXCEPT !.decs[Len(d.decs)].held = Append(@, w)]
          [] OTHER -> Feed(d, w)

\* applySnap(): a snapshot of a lifetime the tree has not announced leaves no
\* live cursor behind.
ApplySnap(c, f) ==
    LET foreign == f.e # c.epoch
        d == [c EXCEPT !.cur = IF foreign THEN 0 ELSE @, !.curE = IF foreign THEN 0 ELSE @,
                       !.prod = f.e, !.store = Merge(@, f.body), !.have = TRUE]
        later(x) == f.e = srv.epoch /\ x[2] > f.n
    IN  [Note(Applied(Stamp(d), 1..f.n, f.e), f.n, f.e) EXCEPT
            !.latched = FALSE, !.pass = None, !.debts = {x \in @ : later(x)}]

OnSnap(c, f) ==
    LET d == [c EXCEPT !.cur = Larger(@, f.n), !.lastOrd = Larger(@, f.ord), !.snapDone = TRUE,
                       !.curE = IF f.n <= c.cur THEN @ ELSE IF f.z THEN 0 ELSE f.e]
        e == [d EXCEPT !.expSes = FALSE]
        dec == [f |-> f, stale |-> FALSE, dead |-> FALSE, exp |-> d.expSes, held |-> <<>>]
        defers == GateActive(d) /\ ~d.expSes
    IN  CASE defers -> LetGo(d, 1..f.n)
          [] ~defers /\ f.z -> [e EXCEPT !.decs = Append(@, dec), !.decoding = TRUE]
          [] OTHER -> IF d.expSes THEN MaybeResolve(ApplySnap(e, f)) ELSE ApplySnap(e, f)

\* The microtasks behind a listener.
Reconciled(c) == IF c.resolved THEN ReconcileDone([c EXCEPT !.resolved = FALSE]) ELSE c
Run(c) ==
    \E d \in {c} : \E e \in {Flush(d)} : \E f \in {Reconciled(e)} :
        cli' = [f EXCEPT !.replaced = FALSE]

-----------------------------------------------------------------------------
(* The daemon's steps.                                                     *)

Changes == /\ used.changes < MaxChanges /\ Len(cli.conn.wire) <= MaxBacklog
           /\ used' = [used EXCEPT !.changes = @ + 1]
Trouble == used.troubles < MaxTroubles /\ used' = [used EXCEPT !.troubles = @ + 1]

\* The store's next events, sent to an open stream.  The messages of a cold
\* session have none.
Emit(events, msg) ==
    LET number(i) == [events[i] EXCEPT !.n = srv.head + i, !.e = srv.epoch]
        new == [i \in DOMAIN events |-> number(i)]
        ring == srv.ring \o new
        sent == [i \in DOMAIN events |-> [new[i] EXCEPT !.ord = cli.conn.ord + i]]
        over == Larger(Len(ring) - RingSize, 0)
    IN  /\ srv' = [msg EXCEPT !.head = @ + Len(events), !.ring = SubSeq(ring, over + 1, Len(ring))]
        /\ cli' = IF cli.conn.st = "open"
                  THEN [cli EXCEPT !.conn.wire = @ \o sent, !.conn.ord = @ + Len(events)] ELSE cli

Event(k, m) == [k |-> k, n |-> 0, e |-> 0, ord |-> 0, m |-> m]
Info(m, i) == Event("message", m) @@ [info |-> i]
Text(k, m, len) == Event(k, m) @@ [len |-> len]
Told(events) == IF srv.loaded THEN events ELSE <<>>

Start ==
    /\ srv.msg["tail"] = Gone /\ "tail" \notin srv.removed /\ Changes
    /\ Emit(Told(<<Info("tail", "live"), Text("part", "tail", 1)>>),
            [srv EXCEPT !.msg["tail"] = Live(1)])
Grow ==
    /\ srv.msg["tail"].info = "live" /\ Changes
    /\ Emit(Told(<<Text("append", "tail", srv.msg["tail"].len)>>), [srv EXCEPT !.msg["tail"].len = @ + 1])
Finish ==
    /\ srv.msg["tail"].info = "live" /\ Changes
    /\ Emit(Told(<<Text("part", "tail", srv.msg["tail"].len), Info("tail", "done")>>),
            [srv EXCEPT !.msg["tail"].info = "done"])
Delete(m) ==
    /\ srv.msg[m] # Gone /\ Changes
    /\ Emit(Told(<<Event("delete", m)>>),
            [srv EXCEPT !.msg[m] = Gone, !.removed = @ \cup {m}])

\* EnsureMessagesAsync(), kicked by a snapshot of a cold session.
Load ==
    /\ srv.kicked /\ ~srv.loaded
    /\ Emit(<<Event("batch", "tail") @@ [body |-> [Window EXCEPT !["tail"] = srv.msg["tail"]]],
              Event("loaded", "tail")>>,
            [srv EXCEPT !.loaded = TRUE])
    /\ UNCHANGED used

\* A new epoch, an empty ring, no messages loaded, the stream cut.
Restart ==
    /\ Trouble
    /\ srv' = [srv EXCEPT !.epoch = @ + 1, !.head = 1, !.ring = <<>>, !.loaded = FALSE,
                          !.kicked = FALSE]
    /\ cli' = [cli EXCEPT !.conn.st = IF @ = "open" THEN "retrying" ELSE @, !.conn.wire = <<>>,
                          !.app = {}, !.debts = {}]

-----------------------------------------------------------------------------
(* The connection's steps.                                                 *)

\* GET /vh/stream and onopen: a resume the ring covers is replayed, any other
\* connection gets a snapshot, compressed when it is large.  The browser waits
\* seconds before it retries by itself: decodes are over by then.
Accept ==
    /\ ~cli.conn.stalled
    /\ \/ cli.conn.st = "connecting"
       \/ cli.conn.st = "retrying" /\ cli.decs = <<>> /\ cli.batches = <<>>
    /\ LET c == [cli EXCEPT !.conn.st = "open", !.lastOrd = -1]
           foreign == cli.conn.from # srv.epoch
       IN  \/ /\ Replays(cli.conn)
              /\ cli' = [c EXCEPT !.conn.wire = Replayed(cli.conn), !.conn.ord = srv.head - cli.conn.cursor,
                                  !.debts = @ \cup {x \in {<<"foreign", srv.head>>} : foreign}]
              /\ UNCHANGED srv
           \/ /\ ~Replays(cli.conn)
              /\ \E z \in {FALSE, Resident(Window["tail"])} : cli' = [c EXCEPT !.conn.wire = <<Snapshot(z)>>, !.conn.ord = 1]
              /\ srv' = [srv EXCEPT !.kicked = TRUE]
    /\ UNCHANGED used

\* History: a gap that is noticed, and that no pending step covers, is repaired.
Noticed(c, f) ==
    {x \in c.debts : x[1] = "lost" /\ c.lastOrd \in 0..(f.ord - 2) /\ ~Covered(c)}

Deliver ==
    /\ cli.conn.st = "open" /\ ~cli.conn.stalled /\ cli.conn.wire # <<>>
    /\ LET f == Head(cli.conn.wire)
           c == [cli EXCEPT !.conn.wire = Tail(@), !.conn.cursor = f.n, !.conn.from = f.e,
                            !.debts = @ \ Noticed(cli, f)]
       IN  \E d \in {GapChecked(c, f)} :
              Run(CASE d.replaced -> d
                    [] ~d.replaced /\ f.k = "snapshot" -> OnSnap(d, f)
                    [] OTHER -> OnFrame(d, f))
    /\ UNCHANGED <<srv, used>>

\* A snapshot has been decoded; then the frames that waited for it.
DecodeDone(i) ==
    /\ LET d == cli.decs[i]
           c == [cli EXCEPT !.decs = RemoveAt(@, i)]
           applied == IF d.stale THEN LetGo(c, 1..d.f.n) ELSE ApplySnap(c, d.f)
       IN  \E e \in {IF d.dead THEN c ELSE [applied EXCEPT !.decoding = FALSE]} :
              \E fed \in {FoldLeft(Feed, e, d.held)} : Run(IF d.exp THEN MaybeResolve(fed) ELSE fed)
    /\ UNCHANGED <<srv, used>>

Usable(b) == ~b.dead /\ ~b.stale

\* A batch has been decoded; its entry goes, whichever batch holds it by now;
\* then the frames that waited for it.
BatchDone(i) ==
    /\ LET b == cli.batches[i]
           n == b.f.n
           rest == RemoveAt(cli.batches, i)
           c == IF Usable(b) THEN Claim(Applied(Reduce(cli, b.f), {n}, b.f.e), n, n)
                ELSE IF b.dead THEN cli ELSE LetGo(cli, {n})
           robbed == {j \in DOMAIN rest : rest[j].latest \/ rest[j].f.n = n}
           raced == UNION {{<<"raced", w.f.n>> : w \in ToSet(rest[j].waits) \cup {rest[j]}} : j \in robbed}
           done == [c EXCEPT !.batches = [j \in DOMAIN rest |-> [rest[j] EXCEPT !.latest = FALSE]],
                          !.pend = @ \ {n}, !.debts = @ \cup raced, !.loose = @ \/ robbed # {}]
           resume(e, w) == CASE w.dead -> e
                             [] ~w.dead /\ w.stale -> LetGo(e, {w.f.n})
                             [] OTHER -> ApplyFrame(e, w.f)
       IN  \E d \in {done} : Run(FoldLeft(resume, d, b.waits))
    /\ UNCHANGED <<srv, used>>

\* Faults of the network.  The browser retries a dropped connection with the
\* same URL; a refused one closes the EventSource.
Drop ==
    /\ Trouble /\ cli.conn.st = "open"
    /\ cli' = [cli EXCEPT !.conn.st = "retrying", !.conn.wire = <<>>, !.conn.stalled = FALSE]
    /\ UNCHANGED srv
Close ==
    /\ Trouble /\ ~Closed(cli)
    /\ cli' = [cli EXCEPT !.conn.st = "closed", !.conn.wire = <<>>, !.retry = TRUE]
    /\ UNCHANGED srv
Stall ==
    /\ Trouble /\ ~Closed(cli) /\ ~cli.conn.stalled
    /\ cli' = [cli EXCEPT !.conn.stalled = TRUE]
    /\ UNCHANGED srv
Lose ==
    /\ Trouble
    /\ \E i \in DOMAIN cli.conn.wire :
         LET f == cli.conn.wire[i]
         IN  /\ f.k # "snapshot"
             /\ cli' = [cli EXCEPT !.conn.wire = RemoveAt(@, i), !.debts = @ \cup {<<"lost", f.n>>}]
    /\ UNCHANGED srv

-----------------------------------------------------------------------------
(* Timers and the tree's side.                                             *)

\* Timers run for seconds: nothing that could be delivered or decoded is left.
Waiting == /\ cli.conn.st # "open" \/ cli.conn.stalled \/ cli.conn.wire = <<>>
           /\ cli.decs = <<>> /\ cli.batches = <<>>

Retry ==
    /\ cli.retry /\ Waiting
    /\ Run(OpenES(cli, FALSE))
    /\ UNCHANGED <<srv, used>>
\* Mutant: a stream that is silent and not closed is left alone.
SilentClosedOnly == cli.sel /\ ~cli.susp /\ Closed(cli)
Silent == cli.sel /\ ~cli.susp /\ (Closed(cli) \/ cli.conn.stalled)
\* watchdogTick(): a silent transport is replaced; silent content only after a
\* liveness probe has failed, keeping the cursor.
Watchdog ==
    /\ Silent /\ Waiting
    /\ \/ Closed(cli) /\ Run(Reopen(cli))
       \/ ~Closed(cli) /\ \E mode \in {"fresh", "resume"} : Run(RequestRecovery(cli, mode))
    /\ UNCHANGED <<srv, used>>
FallbackFires ==
    /\ cli.fallback >= 0 /\ Waiting
    /\ Run(IF cli.snapDone \/ cli.cur # cli.fallback THEN [cli EXCEPT !.fallback = -1]
           ELSE OpenES([cli EXCEPT !.cur = 0, !.curE = 0], TRUE))
    /\ UNCHANGED <<srv, used>>
PassTimeout ==
    /\ cli.pass # None /\ Waiting
    /\ cli' = [cli EXCEPT !.pass = None]
    /\ UNCHANGED <<srv, used>>

\* A tree snapshot brings the epoch of the lifetime that captured it.
TreeEpoch ==
    /\ \E e \in (cli.epoch + 1)..srv.epoch : Run(EpochChanged(cli, e))
    /\ UNCHANGED <<srv, used>>

\* Activity comes over the tree stream: idle stamps the tail, or asks for it
\* when nothing is resident; work reopens a stream that is closed or silent.
Idle ==
    /\ srv.msg["tail"].info # "live" /\ ~cli.idle
    /\ LET c == [cli EXCEPT !.idle = TRUE]
           d == IF c.store["tail"].info = "live" THEN [c EXCEPT !.store["tail"].info = "done"] ELSE c
           missing == \A m \in Msgs : d.store[m].info = "none"
       IN  Run(IF missing /\ d.sel THEN RequestRecovery(d, "fresh") ELSE d)
    /\ UNCHANGED <<srv, used>>
Working ==
    /\ srv.msg["tail"].info = "live" /\ cli.idle
    /\ LET c == [cli EXCEPT !.idle = FALSE]
       IN  Run(IF c.sel /\ ~c.susp /\ (Closed(c) \/ c.conn.stalled) THEN OpenES(c, FALSE) ELSE c)
    /\ UNCHANGED <<srv, used>>

BusyStart ==
    /\ cli.ref = 0 /\ Trouble
    /\ cli' = [BumpGate(cli) EXCEPT !.ref = 1]
    /\ UNCHANGED srv
BusyEnd ==
    /\ cli.ref = 1
    /\ LET c == [cli EXCEPT !.ref = 0]
       IN  Run(IF c.reconciling THEN [c EXCEPT !.dirty = TRUE] ELSE StartReconcile(c, FALSE))
    /\ UNCHANGED <<srv, used>>
TreeSnap ==
    /\ cli.expTree
    /\ Run(MaybeResolve([cli EXCEPT !.expTree = FALSE]))
    /\ UNCHANGED <<srv, used>>
ReconcileTimeout ==
    /\ cli.reconciling /\ (cli.expTree \/ cli.expSes) /\ Waiting
    /\ Run(MaybeResolve([cli EXCEPT !.expTree = FALSE, !.expSes = FALSE]))
    /\ UNCHANGED <<srv, used>>

-----------------------------------------------------------------------------
(* The user.                                                               *)

Hide ==
    /\ ~cli.susp /\ Trouble
    /\ Run([Bump(cli) EXCEPT !.susp = TRUE, !.conn = Stream("null", 0, 0)])
    /\ UNCHANGED srv
Show ==
    /\ cli.susp
    /\ LET c == [cli EXCEPT !.susp = FALSE] IN Run(IF c.sel THEN OpenES(c, FALSE) ELSE c)
    /\ UNCHANGED <<srv, used>>
Leave ==
    /\ cli.sel /\ ~cli.susp /\ Trouble
    /\ Run(CloseStream(cli))
    /\ UNCHANGED srv
Select ==
    /\ ~cli.sel /\ ~cli.susp
    /\ Run(OpenES([CloseStream(cli) EXCEPT !.sel = TRUE], FALSE))
    /\ UNCHANGED <<srv, used>>

\* loadOlder(): a registered flight per session; the epoch and the generation
\* are those of the request, and frames may make it dirty.
PageStart ==
    /\ cli.sel /\ cli.store["tail"].info # "none" /\ cli.store["old"] = Gone
    /\ \A i \in DOMAIN cli.pages : ~cli.pages[i].reg
    /\ Trouble
    /\ cli' = [cli EXCEPT !.pages = Append(@, [body |-> None, e |-> 0, dirty |-> FALSE, retries |-> 0,
                                              ok |-> TRUE, epoch |-> cli.epoch, reg |-> TRUE])]
    /\ UNCHANGED srv
PageServe(i) ==
    /\ cli.pages[i].body = None
    /\ cli' = [cli EXCEPT !.pages[i].body = [old |-> srv.msg["old"], tail |-> Gone], !.pages[i].e = srv.epoch]
    /\ UNCHANGED <<srv, used>>

\* Mutant: what arrived while the page was in flight is not considered.
PageRetriesNever(p) == FALSE
PageRetries(p) == p.dirty

\* runPageFetchLoop() and applyPageMerge(); the flight that ends takes the
\* registration with it, even if a later flight holds it.
PageArrives(i) ==
    /\ cli.pages[i].body # None
    /\ LET p == cli.pages[i]
           rest == RemoveAt(cli.pages, i)
           ended == [cli EXCEPT !.pages = [j \in DOMAIN rest |-> [rest[j] EXCEPT !.reg = FALSE]],
                                !.loose = @ \/ \E j \in DOMAIN rest : rest[j].reg]
           fits == p.ok /\ p.epoch = cli.epoch /\ p.e = cli.epoch
           again == [p EXCEPT !.body = None, !.dirty = FALSE, !.retries = @ + 1]
       IN  cli' = CASE ~fits -> ended
                    [] fits /\ PageRetries(p) ->
                         IF p.retries < MaxRetries THEN [cli EXCEPT !.pages[i] = again] ELSE ended
                    [] OTHER -> [ended EXCEPT !.store = IF cli.have THEN Merge(@, p.body) ELSE @]
    /\ UNCHANGED <<srv, used>>

-----------------------------------------------------------------------------
(* A page load: the epoch an earlier page left behind, an idle session that *)
(* is loaded or a working one that is not.                                  *)

Init ==
    /\ \E warm \in BOOLEAN :
         srv = [epoch |-> 1, head |-> 1, ring |-> <<>>, removed |-> {}, loaded |-> warm, kicked |-> FALSE,
                msg |-> [old |-> Done(1), tail |-> IF warm THEN Gone ELSE Live(1)]]
    /\ \E boot \in {0, 1} :
         cli = [conn |-> Stream("null", 0, 0), url |-> 0, sel |-> FALSE, susp |-> FALSE,
                epoch |-> 0, boot |-> boot, cur |-> 0, curE |-> 0, mem |-> 0, memE |-> 0,
                prod |-> 0, resumed |-> FALSE, snapDone |-> FALSE, lastOrd |-> -1,
                decs |-> <<>>, decoding |-> FALSE, buf |-> <<>>, batches |-> <<>>, pend |-> {},
                latched |-> FALSE, pass |-> None, fallback |-> -1, retry |-> FALSE,
                ref |-> 0, reconciling |-> FALSE, dirty |-> FALSE, second |-> FALSE,
                expTree |-> FALSE, expSes |-> FALSE, resolved |-> FALSE, replaced |-> FALSE,
                pages |-> <<>>, store |-> [m \in Msgs |-> Gone], have |-> FALSE,
                idle |-> srv.msg["tail"] = Gone,
                app |-> {}, gone |-> {}, debts |-> {}, loose |-> FALSE]
    /\ used = [changes |-> 0, troubles |-> 0]

Next ==
    \/ Start \/ Grow \/ Finish \/ \E m \in Msgs : Delete(m)
    \/ Load \/ Restart \/ Accept \/ Deliver
    \/ \E i \in DOMAIN cli.decs : DecodeDone(i)
    \/ \E i \in DOMAIN cli.batches : BatchDone(i)
    \/ Drop \/ Close \/ Stall \/ Lose
    \/ Retry \/ Watchdog \/ FallbackFires \/ PassTimeout
    \/ TreeEpoch \/ Idle \/ Working \/ BusyStart \/ BusyEnd \/ TreeSnap \/ ReconcileTimeout
    \/ Hide \/ Show \/ Leave \/ Select
    \/ PageStart \/ \E i \in DOMAIN cli.pages : PageServe(i) \/ PageArrives(i)

\* What goes on without the user: the daemon answers, decodes end, timers fire,
\* a busy operation returns, the tree brings the epoch.
OnItsOwn == \/ Accept \/ Deliver \/ Load
            \/ \E i \in DOMAIN cli.decs : DecodeDone(i)
            \/ \E i \in DOMAIN cli.batches : BatchDone(i)
            \/ Retry \/ FallbackFires \/ Watchdog \/ PassTimeout
            \/ BusyEnd \/ ReconcileTimeout \/ TreeEpoch
\* When one of these can take a step.
Due ==
    \/ ~cli.conn.stalled /\ cli.conn.st \in {"connecting", "retrying"}
    \/ ~cli.conn.stalled /\ cli.conn.st = "open" /\ cli.conn.wire # <<>>
    \/ cli.decs # <<>> \/ cli.batches # <<>>
    \/ srv.kicked /\ ~srv.loaded
    \/ cli.retry \/ cli.fallback >= 0 \/ cli.pass # None
    \/ Silent \/ cli.ref = 1 \/ cli.expTree \/ cli.expSes
    \/ cli.epoch < srv.epoch

\* Weak fairness of OnItsOwn, with its enabling condition written out.
Fairness == <>[]Due => []<><<OnItsOwn>>_vars

Spec == Init /\ [][Next]_vars /\ Fairness

-----------------------------------------------------------------------------
(* Properties.                                                             *)

Owed(kinds, n) == \E k \in kinds : <<k, n>> \in cli.debts

\* The remembered cursor is what every later visit resumes from: up to it, every
\* event of this lifetime has been applied.  Known exceptions: a frame lost
\* where no ordinal showed it, or while a recovery was already pending
\* (cascade.ts:420-437); frames let go under the gate's second pass; what a
\* resume from the receipt cursor left out (session-stream.ts:1140-1142); a
\* batch whose entry another batch took away (session-stream.ts:2084).
MemoryIsApplied ==
    cli.memE = srv.epoch =>
        \A n \in 1..cli.mem :
            n \in cli.app \/ Owed({"lost", "shed", "skipped", "raced"}, n)

Quiet == /\ cli.conn.st = "open" /\ ~cli.conn.stalled /\ cli.conn.wire = <<>>
         /\ cli.decs = <<>> /\ cli.batches = <<>> /\ ~GateActive(cli)
Settled == cli.sel /\ Quiet /\ srv.loaded /\ cli.pages = <<>>

\* A finished answer is shown in full once the stream is quiet, however its
\* suffixes, snapshots and batches were interleaved or cut.
TranscriptCurrent ==
    Settled /\ cli.debts = {} /\ srv.msg["tail"].info = "done"
        => cli.store["tail"] = srv.msg["tail"]

\* A message whose deletion the page has applied does not come back: not by a
\* page requested before, nor by a batch or a snapshot decoded late.
DeletedStaysGone ==
    Settled /\ ~cli.loose => \A m \in cli.gone : cli.store[m] = Gone

\* The stream of a session that is being looked at recovers from every fault.
StreamRecovers == <>[](~cli.sel \/ cli.susp \/ Quiet)
=============================================================================
