--------------------------- MODULE TreeSyncProofs ---------------------------
(***************************************************************************)
(* Theorems about TreeSync, for every number of changes and troubles and   *)
(* every length of the replay ring.                                        *)
(*                                                                         *)
(* That the frontier never goes back is not inductive: what the page shows *)
(* tomorrow is today in a frame on the way, in a capture being decoded, in *)
(* a frame that waits for it, or in the ring, where a reconnect will find  *)
(* it.  Core orders all of these: whatever can be applied after a value is *)
(* at least that value, and so is all that the daemon would replay from a  *)
(* cursor the page may reconnect with.                                     *)
(*                                                                         *)
(* That a quiet page is current is the other half, in the second part of   *)
(* the module: the daemon's present value is among them (FlowInv).         *)
(*                                                                         *)
(* The daemon and the page are parameters, z and c, of the predicates, as  *)
(* one step of the page is several changes of it, one after the other.     *)
(***************************************************************************)
EXTENDS TreeSync, WellFoundedInduction, TLAPS

\* Frames, captures and the page's fields.
Epochs == Nat \ {0}
Part == [k : {"tree", "detail", "complete"}, e : Epochs, n : Nat, v : [Sess -> Nat],
         gap : BOOLEAN]
Event == [k : {"event"}, n : Nat, ord : Int, s : Sess, v : Nat]
Reply == [st : {"reply"}, e : Epochs, n : Nat, v : [Sess -> Nat], gap : {FALSE}]
Stored == [s : Sess, v : Nat]
Owner == [tree : Part \cup {None}, detail : Part \cup {None}, complete : BOOLEAN]
Source == [st : {"null", "connecting", "open", "closed"}, cursor : Int, epoch : Int,
           wire : Seq(Part \cup Event), ord : Int, stalled : BOOLEAN]

Fields == {"es", "epoch", "boot", "cursor", "tree", "detail", "own", "dec", "old", "waits",
           "deferred", "ord", "ready", "opened", "lagging", "backoff", "upgrade", "hidden",
           "pass", "ref", "reconciling", "dirty", "second", "expect", "resolved",
           "expanded", "exp"}

Shape(c) ==
    /\ DOMAIN c = Fields
    /\ c.es \in Source /\ c.epoch \in Nat /\ c.boot \in Int /\ c.cursor \in Int
    /\ c.tree \in [Sess -> Nat] /\ c.detail \in [Sess -> Nat]
    /\ c.own \in Owner \cup {None} /\ c.dec \in Part \cup {None}
    /\ c.waits \in Seq(Event) /\ c.deferred \in Reply \cup {None}
    /\ c.exp \in Reply \cup [st : {"idle", "sent"}]

\* The daemon's store: the ring ends at the head, and what it retains of the
\* frontier only grows, up to its present value.
Store(z) ==
    /\ z.epoch \in Epochs /\ z.head \in Nat /\ z.val \in [Sess -> Nat]
    /\ z.ring \in Seq(Stored)
    /\ DOMAIN z = {"epoch", "head", "ring", "val"}
    /\ Len(z.ring) <= z.head
    /\ \A i \in 1..Len(z.ring) : z.ring[i].s = "frontier" =>
          /\ z.ring[i].v <= z.val["frontier"]
          /\ \A j \in i..Len(z.ring) : z.ring[j].s = "frontier" => z.ring[i].v <= z.ring[j].v

\* Whether a frame says something of the frontier, and what.
Tells(f) == f.k # "event" \/ f.s = "frontier"
Says(f) == IF f.k = "event" THEN f.v ELSE f.v["frontier"]
\* All that is replayed from cursor k is at least x; f may be applied after x;
\* f is not ahead of the daemon; the frames of q may be applied in order.
After(z, x, k) ==
    \A i \in 1..Len(z.ring) :
        z.ring[i].s = "frontier" /\ k < z.head - Len(z.ring) + i => x <= z.ring[i].v
Before(z, x, f) == After(z, x, f.n) /\ (Tells(f) => x <= Says(f))
Sound(z, f) == Tells(f) => Says(f) <= z.val["frontier"] /\ After(z, Says(f), f.n)
InOrder(z, q) == \A i, j \in DOMAIN q : i < j /\ Tells(q[i]) => Before(z, Says(q[i]), q[j])

\* What the page shows of the frontier, and what it has received: the parts of
\* the pending capture and the frames that wait for it.
Shown(c) == {c.tree["frontier"], c.detail["frontier"]}
Staged(c) == (IF c.own = None THEN {} ELSE {c.own.tree, c.own.detail, c.dec}) \ {None}
Of(q) == {q[i] : i \in DOMAIN q}
Values(F) == {Says(f) : f \in {g \in F : Tells(g)}}
Past(c) == Shown(c) \cup Values(Staged(c)) \cup Values(Of(c.waits))

\* What has been received may be followed by all that is on the way or would be
\* replayed; what is shown, by all that has been received.  The last bound
\* makes the highest waiting frame well defined.
Good(z, c) ==
    /\ Shape(c)
    /\ \A x \in Past(c) :
          /\ x <= z.val["frontier"]
          /\ c.es.cursor >= 0 => After(z, x, c.es.cursor)
          /\ \A f \in Of(c.es.wire) : Before(z, x, f)
    /\ \A x \in Shown(c) : After(z, x, c.cursor) /\ \A f \in Staged(c) : Before(z, x, f)
    /\ \A x \in Shown(c) \cup Values(Staged(c)), f \in Of(c.waits) : Before(z, x, f)
    /\ InOrder(z, c.waits) /\ InOrder(z, c.es.wire)
    /\ \A f \in Staged(c) \cup Of(c.waits) \cup Of(c.es.wire) : Sound(z, f)
    /\ c.dec # None => c.own # None /\ c.own.tree = None
    /\ c.deferred # None => c.epoch # 0
    /\ \E b \in Nat : \A f \in Of(c.waits) : f.n <= b

\* A detail part comes right behind its tree part, with no frame between them.
Paired(c) ==
    \A j \in DOMAIN c.es.wire : c.es.wire[j].k = "detail" =>
        IF j = 1 THEN c.waits = <<>> ELSE c.es.wire[j - 1].k = "tree"
\* Frames and children wait for a pending capture only.
AtRest(c) == c.own = None => c.waits = <<>> /\ c.deferred = None

Core == Store(srv) /\ Good(srv, cli) /\ Paired(cli) /\ AtRest(cli)
TreeInv == "blind" \notin debts => Core

-----------------------------------------------------------------------------
\* d is c but for the flags and the pass; d is c with its connection, and what
\* the connection was in the middle of, replaced or closed.
Same(c, d) ==
    /\ DOMAIN d = Fields
    /\ d.es = c.es /\ d.epoch = c.epoch /\ d.boot \in Int /\ d.cursor = c.cursor
    /\ d.tree = c.tree /\ d.detail = c.detail /\ d.own = c.own /\ d.dec = c.dec
    /\ d.waits = c.waits /\ d.deferred = c.deferred /\ d.exp = c.exp
Cut(c, d) ==
    /\ DOMAIN d = Fields
    /\ d.es \in Source /\ d.es.wire = <<>> /\ d.es.cursor \in {-1, c.cursor, c.es.cursor}
    /\ d.epoch = c.epoch /\ d.boot \in Int /\ d.cursor = c.cursor
    /\ d.tree = c.tree /\ d.detail = c.detail
    /\ d.own = None /\ d.dec = None /\ d.waits = <<>> /\ d.deferred = None /\ d.exp = c.exp

\* From c to d, neither the tree nor the detail goes back; nothing is received.
Rises(c, d) == /\ c.tree["frontier"] <= d.tree["frontier"]
               /\ c.detail["frontier"] <= d.detail["frontier"]
Narrows(c, d) == /\ d.es.wire = c.es.wire \/ d.es.wire = <<>>
                 /\ d.waits = c.waits \/ d.waits = <<>>
Keeps(z, c, d) == Good(z, d) /\ Rises(c, d) /\ Narrows(c, d)

LEMMA Distinct ==
    None \notin Part /\ None \notin Owner /\ None \notin Reply
<1>1. DOMAIN None = {"none"}
  BY DEF None
<1>2. \A p \in Part : DOMAIN p # {"none"}
  BY DEF Part
<1>3. \A p \in Owner : DOMAIN p # {"none"}
  BY DEF Owner
<1>4. \A p \in Reply : DOMAIN p # {"none"}
  BY DEF Reply
<1> QED
  BY <1>1, <1>2, <1>3, <1>4

LEMMA AfterLater ==
    ASSUME NEW z, Store(z), NEW x \in Nat, NEW k \in Int, NEW m \in Int,
           After(z, x, k), k <= m
    PROVE  After(z, x, m)
BY DEF After, Store

LEMMA SaysNat == ASSUME NEW f \in Part \cup Event PROVE Says(f) \in Nat /\ f.n \in Nat
BY DEF Says, Part, Event, Sess

LEMMA Sets ==
    ASSUME NEW c, Shape(c)
    PROVE  /\ Staged(c) \subseteq Part /\ Of(c.waits) \subseteq Event
           /\ Of(c.es.wire) \subseteq Part \cup Event /\ Shown(c) \subseteq Nat
           /\ Past(c) \subseteq Nat
<1>1. Staged(c) \subseteq Part
  BY DEF Shape, Staged, Owner
<1>2. Of(c.waits) \subseteq Event
  BY DEF Shape, Of
<1>3. Of(c.es.wire) \subseteq Part \cup Event
  BY DEF Shape, Source, Of
<1>4. Shown(c) \subseteq Nat
  BY DEF Shape, Shown, Sess
<1> QED
  BY <1>1, <1>2, <1>3, <1>4, SaysNat DEF Past, Values

LEMMA SameKeeps ==
    ASSUME NEW z, NEW c, NEW d, Good(z, c), Same(c, d)
    PROVE  Keeps(z, c, d)
<1>1. Shape(d)
  BY DEF Good, Same, Shape
<1>2. Past(d) = Past(c) /\ Shown(d) = Shown(c) /\ Staged(d) = Staged(c)
  BY DEF Same, Past, Shown, Staged
<1>3. Good(z, d)
  BY <1>1, <1>2 DEF Good, Same
<1> QED
  BY <1>3 DEF Good, Same, Keeps, Rises, Narrows, Shape, Sess

LEMMA CutKeeps ==
    ASSUME NEW z, Store(z), NEW c, NEW d, Good(z, c), Cut(c, d)
    PROVE  Keeps(z, c, d)
<1>1. Shape(d)
  BY DEF Good, Cut, Shape
<1>2. Shown(d) = Shown(c) /\ Staged(d) = {} /\ Of(d.waits) = {} /\ Of(d.es.wire) = {}
  BY DEF Cut, Shown, Staged, Of
<1>3. Past(d) = Shown(c) /\ Shown(c) \subseteq Past(c)
  BY <1>2 DEF Past, Values
<1>4. \A x \in Shown(c) : d.es.cursor >= 0 => After(z, x, d.es.cursor)
  BY <1>3 DEF Good, Cut
<1>5. InOrder(z, d.waits) /\ InOrder(z, d.es.wire)
  BY DEF Cut, InOrder
<1>6. Values({}) = {}
  BY DEF Values
<1>7. Good(z, d)
  BY <1>1, <1>2, <1>3, <1>4, <1>5, <1>6 DEF Good, Cut
<1> QED
  BY <1>7 DEF Good, Cut, Keeps, Rises, Narrows, Shape, Sess

-----------------------------------------------------------------------------
(* Connections and the cascade.                                            *)

LEMMA BumpCuts ==
    ASSUME NEW c, Shape(c)
    PROVE  /\ DOMAIN Bump(c) = Fields
           /\ Bump(c).es = c.es /\ Bump(c).epoch = c.epoch /\ Bump(c).boot \in Int
           /\ Bump(c).cursor = c.cursor
           /\ Bump(c).tree = c.tree /\ Bump(c).detail = c.detail /\ Bump(c).exp = c.exp
           /\ Bump(c).own = None /\ Bump(c).dec = None /\ Bump(c).waits = <<>>
           /\ Bump(c).deferred = None
BY DEF Bump, Shape, Fields

LEMMA ConnectCuts ==
    ASSUME NEW c, Shape(c), NEW fresh \in BOOLEAN, NEW upgrade \in BOOLEAN
    PROVE  Cut(c, ConnectAs(c, fresh, upgrade)) /\ ConnectAs(c, fresh, upgrade).es.st = "connecting"
<1> DEFINE d == ConnectAs(c, fresh, upgrade)
           s == Stream("connecting", IF fresh THEN -1 ELSE c.cursor,
                      IF c.epoch = 0 THEN c.boot ELSE c.epoch)
<1>1. d.es = s /\ DOMAIN d = Fields
  BY BumpCuts DEF ConnectAs, Fields
<1>2. s \in Source /\ s.wire = <<>> /\ s.cursor \in {-1, c.cursor} /\ s.st = "connecting"
  BY DEF Stream, Source, Shape
<1>3. /\ d.epoch = c.epoch /\ d.boot \in Int /\ d.cursor = c.cursor
      /\ d.tree = c.tree /\ d.detail = c.detail
      /\ d.own = None /\ d.dec = None /\ d.waits = <<>> /\ d.deferred = None /\ d.exp = c.exp
  BY BumpCuts DEF ConnectAs, Fields
<1> HIDE DEF d, s
<1>4. Cut(c, d) /\ d.es.st = "connecting"
  BY <1>1, <1>2, <1>3 DEF Cut
<1> QED
  BY <1>4 DEF d

\* A request for recovery changes flags only, or reconnects.
Moved(c, d) == Same(c, d) \/ (Cut(c, d) /\ d.es.st = "connecting")

LEMMA SameShape == ASSUME NEW c, NEW d, Shape(c), Same(c, d) PROVE Shape(d)
BY DEF Shape, Same

LEMMA SelfSame == ASSUME NEW c, Shape(c) PROVE Same(c, c)
BY DEF Same, Shape

LEMMA CutShape == ASSUME NEW c, NEW d, Shape(c), Cut(c, d) PROVE Shape(d)
BY DEF Shape, Cut

LEMMA MovedOn ==
    ASSUME NEW c, NEW d, NEW e
    PROVE  /\ Same(c, d) /\ Same(d, e) => Same(c, e)
           /\ Same(c, d) /\ Moved(d, e) => Moved(c, e)
           /\ Moved(c, d) /\ Same(d, e) => Moved(c, e)
BY DEF Same, Cut, Moved

LEMMA PassSame == ASSUME NEW c, Shape(c), NEW p PROVE Same(c, [c EXCEPT !.pass = p])
BY DEF Same, Shape, Fields

LEMMA MaybeCompleteSame == ASSUME NEW c, Shape(c) PROVE Same(c, MaybeComplete(c))
BY PassSame DEF MaybeComplete, Same, Shape

LEMMA DirectMoves ==
    ASSUME NEW c, Shape(c), NEW req
    PROVE  /\ Moved(c, Direct(c, req))
           /\ req.tree \in {"no", "await"} => Same(c, Direct(c, req))
BY ConnectCuts DEF Direct, Connect, Moved, Same, Shape

LEMMA StartPassMoves ==
    ASSUME NEW c, Shape(c), NEW req, NEW inherit
    PROVE  /\ Moved(c, StartPass(c, req, inherit))
           /\ req.tree \in {"no", "await"} => Same(c, StartPass(c, req, inherit))
<1>1. PICK p : StartPass(c, req, inherit) = MaybeComplete(Direct([c EXCEPT !.pass = p], req))
  BY DEF StartPass
<1> DEFINE b == [c EXCEPT !.pass = p]
           d == Direct(b, req)
<1>2. Same(c, b) /\ Shape(b)
  BY PassSame, SameShape
<1> HIDE DEF b
<1>3. Moved(b, d) /\ (req.tree \in {"no", "await"} => Same(b, d))
  BY <1>2, DirectMoves
<1>4. Shape(d)
  BY <1>2, <1>3, SameShape, CutShape DEF Moved
<1> HIDE DEF d
<1>5. Same(d, MaybeComplete(d))
  BY <1>4, MaybeCompleteSame
<1>6. StartPass(c, req, inherit) = MaybeComplete(d)
  BY <1>1 DEF b, d
<1> QED
  BY <1>2, <1>3, <1>5, <1>6, MovedOn

LEMMA CoalesceMoves ==
    ASSUME NEW c, Shape(c), NEW req
    PROVE  /\ Moved(c, Coalesce(c, req))
           /\ req.tree \in {"no", "await"} => Same(c, Coalesce(c, req))
<1> DEFINE b == [c EXCEPT !.pass.tree = IF req.tree # "no" /\ c.pass.tree = "no" THEN "pending" ELSE @,
                          !.pass.session = IF req.session /\ c.pass.session = "no" THEN "pending" ELSE @]
<1>1. Same(c, b)
  BY DEF Same, Shape, Fields
<1>2. Shape(b)
  BY <1>1, SameShape
<1>3. Coalesce(c, req) \in {b, Direct(b, req)}
  BY DEF Coalesce
<1> HIDE DEF b
<1>5. Moved(b, Direct(b, req)) /\ (req.tree \in {"no", "await"} => Same(b, Direct(b, req)))
  BY <1>2, DirectMoves
<1> QED
  BY <1>1, <1>3, <1>5, MovedOn DEF Moved

LEMMA RecoveryMoves ==
    ASSUME NEW c, Shape(c), NEW req
    PROVE  /\ Moved(c, RequestRecovery(c, req))
           /\ req.tree \in {"no", "await"} => Same(c, RequestRecovery(c, req))
BY StartPassMoves, CoalesceMoves DEF RequestRecovery

LEMMA TreeConvergedSame == ASSUME NEW c, Shape(c) PROVE Same(c, TreeConverged(c))
<1> DEFINE b == [c EXCEPT !.pass.tree = "converged"]
<1>1. Same(c, b)
  BY DEF Same, Shape, Fields
<1>2. Shape(b)
  BY <1>1, SameShape
<1>3. TreeConverged(c) \in {c, MaybeComplete(b)}
  BY DEF TreeConverged
<1> HIDE DEF b
<1>4. Same(c, c)
  BY DEF Same, Shape
<1> QED
  BY <1>1, <1>2, <1>3, <1>4, MaybeCompleteSame, MovedOn

LEMMA MovedKeeps ==
    ASSUME NEW z, Store(z), NEW c, NEW d, Good(z, c), Moved(c, d)
    PROVE  Keeps(z, c, d)
BY SameKeeps, CutKeeps DEF Moved

LEMMA KeepsOn ==
    ASSUME NEW z, NEW c, NEW d, NEW e, Good(z, c), Keeps(z, c, d), Keeps(z, d, e)
    PROVE  Keeps(z, c, e)
<1>1. /\ c.tree["frontier"] \in Nat /\ d.tree["frontier"] \in Nat /\ e.tree["frontier"] \in Nat
      /\ c.detail["frontier"] \in Nat /\ d.detail["frontier"] \in Nat
      /\ e.detail["frontier"] \in Nat
  BY DEF Good, Keeps, Shape, Sess
<1> QED
  BY <1>1 DEF Keeps, Rises, Narrows

-----------------------------------------------------------------------------
(* Frames and captures.                                                    *)

\* Only the cursor moves on.
Ahead(c, d) ==
    /\ DOMAIN d = Fields
    /\ d.cursor \in Int /\ c.cursor <= d.cursor
    /\ d.es = c.es /\ d.epoch = c.epoch /\ d.boot \in Int
    /\ d.tree = c.tree /\ d.detail = c.detail /\ d.own = c.own /\ d.dec = c.dec
    /\ d.waits = c.waits /\ d.deferred = c.deferred /\ d.exp = c.exp

LEMMA AheadKeeps ==
    ASSUME NEW z, Store(z), NEW c, NEW d, Good(z, c), Ahead(c, d)
    PROVE  Keeps(z, c, d)
<1>1. Shape(d)
  BY DEF Good, Ahead, Shape
<1>2. Past(d) = Past(c) /\ Shown(d) = Shown(c) /\ Staged(d) = Staged(c)
  BY DEF Ahead, Past, Shown, Staged
<1>3. \A x \in Shown(c) : After(z, x, d.cursor)
  <2> TAKE x \in Shown(c)
  <2>1. After(z, x, c.cursor) /\ Shape(c)
    BY DEF Good
  <2>2. x \in Nat /\ c.cursor \in Int
    BY <2>1, Sets DEF Shape
  <2> QED
    BY <2>1, <2>2, AfterLater DEF Ahead
<1>4. Good(z, d)
  BY <1>1, <1>2, <1>3 DEF Good, Ahead
<1> QED
  BY <1>4 DEF Good, Ahead, Keeps, Rises, Narrows, Shape, Sess

LEMMA AdvanceAhead ==
    ASSUME NEW c, Shape(c), NEW n \in Int
    PROVE  Ahead(c, AdvanceCursor(c, n)) /\ n <= AdvanceCursor(c, n).cursor
BY DEF AdvanceCursor, Larger, Ahead, Shape, Fields

LEMMA DeferAhead ==
    ASSUME NEW c, Shape(c), NEW n \in Int
    PROVE  Ahead(c, Defer(c, n))
BY AdvanceAhead DEF Defer, Ahead, Fields

\* The value x, once received, is safe from the rest of the stream; a frame in
\* hand may be applied after all that has been received.
Carried(z, c, x) ==
    /\ x <= z.val["frontier"]
    /\ c.es.cursor >= 0 => After(z, x, c.es.cursor)
    /\ \A f \in Of(c.es.wire) : Before(z, x, f)
InHand(z, c, f) ==
    /\ Sound(z, f)
    /\ \A x \in Past(c) : Before(z, x, f)
    /\ Tells(f) => Carried(z, c, Says(f))

\* d shows the event f; d shows the detail part f; a part that has been received
\* and may be staged.
Applied(c, d, f) ==
    /\ DOMAIN d = Fields
    /\ d.cursor \in Int /\ c.cursor <= d.cursor /\ f.n <= d.cursor
    /\ d.es = c.es /\ d.epoch = c.epoch /\ d.boot \in Int
    /\ d.own = c.own /\ d.dec = c.dec
    /\ d.waits = c.waits /\ d.deferred = c.deferred /\ d.exp = c.exp
    /\ d.tree \in [Sess -> Nat] /\ d.detail \in [Sess -> Nat]
    /\ d.tree["frontier"] = IF Tells(f) THEN Says(f) ELSE c.tree["frontier"]
    /\ d.detail["frontier"] = IF Tells(f) THEN Says(f) ELSE c.detail["frontier"]

LEMMA EventApplied ==
    ASSUME NEW c, Shape(c), NEW f \in Event
    PROVE  Applied(c, ApplyEvent(c, f), f)
<1> DEFINE a == AdvanceCursor(c, f.n)
           d == ApplyEvent(c, f)
<1>1. Ahead(c, a) /\ f.n <= a.cursor
  BY AdvanceAhead DEF Event
<1> HIDE DEF a
<1>2. /\ a.tree \in [Sess -> Nat] /\ a.detail \in [Sess -> Nat]
      /\ f.s \in Sess /\ f.v \in Nat /\ f.k = "event" /\ f.n \in Nat
  BY <1>1 DEF Ahead, Shape, Event
<1>3. d = [a EXCEPT !.detail[f.s] = f.v,
                    !.tree[f.s] = IF f.s = "frontier" \/ @ > 0 THEN f.v ELSE @]
  BY DEF ApplyEvent, a
<1>4. /\ DOMAIN d = Fields /\ d.cursor = a.cursor /\ d.es = a.es /\ d.epoch = a.epoch
      /\ d.boot = a.boot /\ d.own = a.own /\ d.dec = a.dec /\ d.waits = a.waits
      /\ d.deferred = a.deferred /\ d.exp = a.exp
      /\ d.detail = [a.detail EXCEPT ![f.s] = f.v]
      /\ d.tree = [a.tree EXCEPT ![f.s] = IF f.s = "frontier" \/ @ > 0 THEN f.v ELSE @]
  BY <1>1, <1>3 DEF Ahead, Fields
<1> HIDE DEF d
<1>5. /\ d.tree \in [Sess -> Nat] /\ d.detail \in [Sess -> Nat]
      /\ d.tree["frontier"] = IF f.s = "frontier" THEN f.v ELSE a.tree["frontier"]
      /\ d.detail["frontier"] = IF f.s = "frontier" THEN f.v ELSE a.detail["frontier"]
  BY <1>2, <1>4 DEF Sess
<1>6. Tells(f) <=> f.s = "frontier"
  BY <1>2 DEF Tells
<1>7. Says(f) = f.v
  BY <1>2 DEF Says
<1> QED
  BY <1>1, <1>4, <1>5, <1>6, <1>7 DEF Ahead, Applied, d

\* With no capture pending, what is shown is all there is to check.
LEMMA ShowingKeeps ==
    ASSUME NEW z, NEW c, Good(z, c), NEW d, Shape(d),
           d.es = c.es, d.own = None, d.dec = None,
           d.waits = c.waits \/ d.waits = <<>>,
           d.deferred # None => d.epoch # 0,
           \A x \in Shown(d) : /\ Carried(z, c, x) /\ After(z, x, d.cursor)
                               /\ \A w \in Of(d.waits) : Before(z, x, w),
           Rises(c, d)
    PROVE  Keeps(z, c, d)
<1>1. Staged(d) = {} /\ Values({}) = {}
  BY DEF Staged, Values
<1>2. Of(d.waits) \subseteq Of(c.waits) /\ InOrder(z, d.waits)
  BY DEF Of, Good, InOrder
<1>3. Values(Of(d.waits)) \subseteq Past(c)
  BY <1>2 DEF Values, Past
<1>4. Past(d) = Shown(d) \cup Values(Of(d.waits))
  BY <1>1 DEF Past
<1>5. \A x \in Past(d) : Carried(z, c, x)
  BY <1>3, <1>4 DEF Good, Carried
<1>6. Good(z, d)
  BY <1>1, <1>2, <1>5 DEF Good, Carried
<1> QED
  BY <1>6 DEF Keeps, Narrows

LEMMA ApplyEventKeeps ==
    ASSUME NEW z, Store(z), NEW c, Good(z, c), NEW f \in Event, InHand(z, c, f),
           c.own = None, c.waits = <<>>
    PROVE  Keeps(z, c, ApplyEvent(c, f))
<1> DEFINE d == ApplyEvent(c, f)
<1>0. Shape(c)
  BY DEF Good
<1>1. Applied(c, d, f)
  BY <1>0, EventApplied
<1> HIDE DEF d
<1>2. Shape(d)
  BY <1>0, <1>1 DEF Shape, Applied
<1>3. Of(d.waits) = {} /\ Shown(c) \subseteq Past(c)
  BY <1>1 DEF Of, Past, Applied
<1>4. \A x \in Shown(d) : x \in Shown(c) \/ (Tells(f) /\ x = Says(f))
  BY <1>1 DEF Shown, Applied
<1>5. Says(f) \in Nat /\ f.n \in Nat
  BY SaysNat
<1>6. \A x \in Shown(c) : x \in Nat /\ After(z, x, c.cursor) /\ Before(z, x, f)
  BY <1>0, <1>3, Sets DEF Good, InHand
<1>7. \A x \in Shown(d) : After(z, x, d.cursor)
  <2> TAKE x \in Shown(d)
  <2>1. CASE x \in Shown(c)
    BY <2>1, <1>0, <1>1, <1>6, AfterLater DEF Shape, Applied
  <2>2. CASE Tells(f) /\ x = Says(f)
    <3>1. After(z, Says(f), f.n)
      BY <2>2 DEF InHand, Sound
    <3> QED
      BY <3>1, <2>2, <1>1, <1>5, AfterLater DEF Applied
  <2> QED
    BY <2>1, <2>2, <1>4
<1>8. \A x \in Shown(d) : Carried(z, c, x)
  BY <1>3, <1>4 DEF InHand, Good, Carried
<1>9. Rises(c, d)
  <2>1. Tells(f) => c.tree["frontier"] <= Says(f) /\ c.detail["frontier"] <= Says(f)
    BY <1>6 DEF Before, Shown
  <2> QED
    BY <2>1, <1>0, <1>1 DEF Rises, Shape, Sess, Applied
<1>10. d.deferred # None => d.epoch # 0
  BY <1>1 DEF Applied, Good
<1>11. d.es = c.es /\ d.own = None /\ d.dec = None /\ d.waits = c.waits
  BY <1>1 DEF Applied, Good
<1>12. Keeps(z, c, d)
  BY <1>2, <1>3, <1>7, <1>8, <1>9, <1>10, <1>11, ShowingKeeps
<1> QED
  BY <1>12 DEF d

Taken(c, d, f) ==
    /\ DOMAIN d = Fields
    /\ d.es = c.es /\ d.epoch = f.e /\ d.boot \in Int /\ d.tree = c.tree
    /\ d.own = c.own /\ d.dec = c.dec
    /\ d.waits = c.waits /\ d.deferred = c.deferred /\ d.exp = c.exp
    /\ d.cursor \in Int /\ f.n <= d.cursor
    /\ d.detail \in [Sess -> Nat] /\ d.detail["frontier"] = Says(f)
Fresh(z, c, f) ==
    /\ Sound(z, f) /\ Carried(z, c, Says(f))
    /\ \A x \in Shown(c) : Before(z, x, f)
    /\ \A w \in Of(c.waits) : Before(z, Says(f), w)

LEMMA PartTells ==
    ASSUME NEW f \in Part
    PROVE  /\ Tells(f) /\ Says(f) = f.v["frontier"] /\ Says(f) \in Nat
           /\ f.n \in Nat /\ f.e \in Nat /\ f.e # 0 /\ f.v \in [Sess -> Nat] /\ f.gap \in BOOLEAN
BY DEF Part, Tells, Says, Sess, Epochs

LEMMA DetailTaken ==
    ASSUME NEW c, Shape(c), NEW f \in Part
    PROVE  LET d == ApplyScoped(c, f, {"frontier"}, "stream") IN
           IF Verdict(c, f, "stream") = "stale" THEN d = c ELSE Taken(c, d, f)
<1> DEFINE v == Verdict(c, f, "stream")
           d == ApplyScoped(c, f, {"frontier"}, "stream")
           p == Project(c, f, {"frontier"})
           k == IF v = "rebaseline" THEN f.n ELSE Larger(c.cursor, f.n)
<1>1. v \in {"stale", "apply", "rebaseline"}
  BY DEF Verdict
<1>2. p \in [Sess -> Nat] /\ p["frontier"] = Says(f)
  BY PartTells DEF Project, Shape, Sess
<1>3. k \in Int /\ f.n <= k
  BY PartTells DEF Larger, Shape
<1>4. v = "stale" => d = c
  BY DEF ApplyScoped
<1>5. v # "stale" => d = [c EXCEPT !.detail = p, !.epoch = f.e, !.cursor = k]
  BY <1>1 DEF ApplyScoped
<1> HIDE DEF v, p, k, d
<1>6. ASSUME v # "stale" PROVE Taken(c, d, f)
  <2>1. DOMAIN c = Fields /\ c.boot \in Int
    BY DEF Shape
  <2>2. /\ DOMAIN d = Fields /\ d.es = c.es /\ d.epoch = f.e /\ d.boot = c.boot
        /\ d.tree = c.tree /\ d.own = c.own /\ d.dec = c.dec /\ d.waits = c.waits
        /\ d.deferred = c.deferred /\ d.exp = c.exp /\ d.cursor = k /\ d.detail = p
    <3>1. d = [c EXCEPT !.detail = p, !.epoch = f.e, !.cursor = k]
      BY <1>5, <1>6
    <3> QED
      BY ONLY <3>1, <2>1 DEF Fields
  <2>3. d.detail["frontier"] = Says(f) /\ d.detail \in [Sess -> Nat] /\ d.boot \in Int
        /\ d.cursor \in Int /\ f.n <= d.cursor
    BY <1>2, <1>3, <2>1, <2>2
  <2> QED
    BY ONLY <2>2, <2>3 DEF Taken
<1> QED
  BY <1>4, <1>6 DEF v, d

LEMMA TakenKeeps ==
    ASSUME NEW z, Store(z), NEW c, Good(z, c), NEW f \in Part, Fresh(z, c, f),
           c.own = None, NEW d, Taken(c, d, f)
    PROVE  Keeps(z, c, d)
<1>0. Shape(c) /\ c.dec = None
  BY DEF Good
<1>1. Shape(d)
  BY <1>0, PartTells DEF Shape, Taken
<1>2. Shown(d) = {c.tree["frontier"], Says(f)}
  BY DEF Shown, Taken
<1>3. c.tree["frontier"] \in Shown(c) /\ c.tree["frontier"] \in Nat /\ Shown(c) \subseteq Past(c)
  BY <1>0 DEF Shown, Shape, Sess, Past
<1>4. \A x \in Shown(d) : x \in Nat /\ After(z, x, f.n)
  BY <1>2, <1>3, PartTells DEF Fresh, Sound, Before
<1>5. \A x \in Shown(d) : After(z, x, d.cursor)
  BY <1>4, PartTells, AfterLater DEF Taken
<1>6. \A x \in Shown(d) : Carried(z, c, x) /\ \A w \in Of(d.waits) : Before(z, x, w)
  BY <1>2, <1>3 DEF Fresh, Good, Carried, Taken
<1>7. Rises(c, d)
  BY <1>0, PartTells DEF Rises, Taken, Fresh, Before, Shown, Shape, Sess
<1> QED
  BY <1>0, <1>1, <1>5, <1>6, <1>7, PartTells, ShowingKeeps DEF Taken

LEMMA EpochAdvancedSame ==
    ASSUME NEW c, Shape(c), NEW prev
    PROVE  Same(c, EpochAdvanced(c, prev))
BY DEF EpochAdvanced, Same, Shape, Fields

LEMMA ExpectedSame == ASSUME NEW c, Shape(c) PROVE Same(c, Expected(c))
BY DEF Expected, Same, Shape, Fields

LEMMA KeepsSame ==
    ASSUME NEW z, NEW c, NEW d, NEW e, Good(z, c), Keeps(z, c, d), Same(d, e)
    PROVE  Keeps(z, c, e)
<1>1. Good(z, d)
  BY DEF Keeps
<1>2. Keeps(z, d, e)
  BY <1>1, SameKeeps
<1> QED
  BY <1>2, KeepsOn

LEMMA IndependentKeeps ==
    ASSUME NEW z, Store(z), NEW c, Good(z, c), NEW f \in Part, Fresh(z, c, f), c.own = None
    PROVE  Keeps(z, c, ApplyDetailIndependent(c, f))
<1> DEFINE b == Expected(c)
           d == ApplyScoped(b, f, {"frontier"}, "stream")
           e == IF Verdict(c, f, "stream") # "stale" THEN TreeConverged(d) ELSE d
<1>0. Shape(c) /\ f.n \in Int
  BY PartTells DEF Good
<1>1. Same(c, b) /\ Shape(b)
  BY <1>0, ExpectedSame, SameShape
<1> HIDE DEF b
<1>2. Keeps(z, c, b)
  BY <1>1, SameKeeps
<1>3. Fresh(z, b, f) /\ b.own = None /\ Good(z, b)
  BY <1>1, <1>2 DEF Fresh, Same, Carried, Shown, Keeps
<1>4. Keeps(z, b, d)
  <2>1. d = b \/ Taken(b, d, f)
    BY <1>1, DetailTaken
  <2>2. Same(b, b)
    BY <1>1 DEF Same, Shape
  <2> QED
    BY <2>1, <2>2, <1>3, TakenKeeps, SameKeeps
<1>5. Keeps(z, c, d)
  BY <1>2, <1>4, KeepsOn
<1> HIDE DEF d
<1>6. Keeps(z, c, e) /\ Shape(e)
  <2>1. Shape(d) /\ Same(d, d)
    BY <1>5 DEF Keeps, Good, Same, Shape
  <2>2. Same(d, e)
    BY <2>1, TreeConvergedSame
  <2> QED
    BY <2>1, <2>2, <1>5, KeepsSame, SameShape
<1> HIDE DEF e
<1>7. Keeps(z, c, EpochAdvanced(e, c.epoch))
  BY <1>6, EpochAdvancedSame, KeepsSame
<1>8. ApplyDetailIndependent(c, f) \in {Defer(c, f.n), EpochAdvanced(e, c.epoch)}
  BY DEF ApplyDetailIndependent, b, d, e
<1>9. Keeps(z, c, Defer(c, f.n))
  BY <1>0, DeferAhead, AheadKeeps
<1> QED
  BY <1>7, <1>8, <1>9

\* What an installed capture leaves.
Installed(c, d) ==
    /\ DOMAIN d = Fields
    /\ d.es = c.es /\ d.boot \in Int /\ d.epoch \in {c.epoch, c.own.detail.e}
    /\ d.own = None /\ d.dec = c.dec /\ d.waits = c.waits /\ d.deferred = c.deferred
    /\ d.exp \in {c.exp, [st |-> "sent"]}
    /\ d.tree \in [Sess -> Nat] /\ d.tree["frontier"] = Says(c.own.tree)
    /\ d.detail \in [Sess -> Nat] /\ d.cursor \in Int /\ c.own.tree.n <= d.cursor
    /\ \/ d.detail["frontier"] = c.detail["frontier"] /\ c.cursor <= d.cursor
       \/ d.detail["frontier"] = Says(c.own.detail) /\ c.own.detail.n <= d.cursor

LEMMA InstalledShape ==
    ASSUME NEW c, Shape(c), c.own # None, c.own.tree # None, c.own.detail # None,
           NEW d, Installed(c, d)
    PROVE  Shape(d)
<1>1. c.own.tree \in Part /\ c.own.detail \in Part
  BY DEF Shape, Owner
<1>2. c.own.detail.e \in Nat
  BY <1>1, PartTells
<1>3. c.epoch \in Nat /\ c.dec \in Part \cup {None} /\ c.exp \in Reply \cup [st : {"idle", "sent"}]
  BY DEF Shape
<1>4. d.epoch \in Nat /\ d.exp \in Reply \cup [st : {"idle", "sent"}]
  BY <1>2, <1>3 DEF Installed
<1> QED
  BY <1>4 DEF Shape, Installed

LEMMA CaptureInstalled ==
    ASSUME NEW c, Shape(c), c.own # None, c.own.tree # None, c.own.detail # None
    PROVE  \E d : Installed(c, d) /\ Same(d, Install(c))
<1> DEFINE t == c.own.tree
           f == c.own.detail
           a == ApplyScoped(c, f, {"frontier"}, "stream")
           b == Expected(a)
           g == AdvanceCursor(b, t.n)
           e == [g EXCEPT !.tree = [s \in Sess |-> IF s = "frontier" THEN t.v[s] ELSE 0],
                          !.ready = TRUE, !.own = None, !.lagging = FALSE,
                          !.exp = IF c.expanded /\ @.st = "idle" THEN [st |-> "sent"] ELSE @]
           h == IF Verdict(c, f, "stream") # "stale" THEN TreeConverged(e) ELSE e
<1>1. t \in Part /\ f \in Part
  BY DEF Shape, Owner
<1>2. a = c \/ Taken(c, a, f)
  BY <1>1, DetailTaken
<1> DEFINE Tail1(d) == /\ DOMAIN d = Fields
           /\ d.es = c.es /\ d.boot \in Int /\ d.epoch \in {c.epoch, f.e}
           /\ d.dec = c.dec /\ d.waits = c.waits /\ d.deferred = c.deferred
           /\ d.exp = c.exp /\ d.detail \in [Sess -> Nat] /\ d.cursor \in Int
           /\ \/ d.detail["frontier"] = c.detail["frontier"] /\ c.cursor <= d.cursor
              \/ d.detail["frontier"] = Says(f) /\ f.n <= d.cursor
<1>3. Tail1(a) /\ Shape(a)
  <2>1. CASE a = c
    BY <2>1 DEF Shape
  <2>2. CASE Taken(c, a, f)
    BY <2>2, <1>1, PartTells DEF Taken, Shape
  <2> QED
    BY <1>2, <2>1, <2>2
<1> HIDE DEF a
<1>4. Tail1(b) /\ Shape(b)
  BY <1>3, ExpectedSame, SameShape DEF Same
<1> HIDE DEF b
<1>5. Tail1(g) /\ t.n <= g.cursor
  <2>1. Ahead(b, g) /\ t.n <= g.cursor
    BY <1>1, <1>4, PartTells, AdvanceAhead
  <2>2. t.n \in Nat /\ f.n \in Nat /\ c.cursor \in Int /\ b.cursor \in Int
    BY <1>1, <1>4, PartTells DEF Shape
  <2> HIDE DEF t, f
  <2> QED
    BY <2>1, <2>2, <1>4 DEF Ahead
<1> HIDE DEF g
<1>6. Installed(c, e)
  <2>1. [s \in Sess |-> IF s = "frontier" THEN t.v[s] ELSE 0] \in [Sess -> Nat]
    BY <1>1, PartTells
  <2>2. /\ DOMAIN e = Fields /\ e.es = g.es /\ e.boot = g.boot /\ e.epoch = g.epoch
        /\ e.own = None /\ e.dec = g.dec /\ e.waits = g.waits /\ e.deferred = g.deferred
        /\ e.exp \in {g.exp, [st |-> "sent"]} /\ e.detail = g.detail /\ e.cursor = g.cursor
        /\ e.tree = [s \in Sess |-> IF s = "frontier" THEN t.v[s] ELSE 0]
    BY <1>5 DEF Fields
  <2>3. e.tree["frontier"] = Says(t)
    BY <2>2, <1>1, PartTells DEF Sess
  <2> QED
    BY <2>1, <2>2, <2>3, <1>5 DEF Installed
<1> HIDE DEF e
<1>7. Shape(e)
  BY <1>6, InstalledShape
<1>8. Same(e, h) /\ Shape(h)
  <2>1. Same(e, h)
    BY <1>7, TreeConvergedSame, SelfSame
  <2> QED
    BY <2>1, <1>7, SameShape
<1>9. Install(c) = EpochAdvanced(h, c.epoch)
  BY DEF Install, h, e, g, b, a
<1> HIDE DEF h
<1> QED
  BY <1>6, <1>8, <1>9, EpochAdvancedSame, MovedOn

LEMMA InstallKeeps ==
    ASSUME NEW z, Store(z), NEW c, Good(z, c),
           c.own # None, c.own.tree # None, c.own.detail # None
    PROVE  Keeps(z, c, Install(c))
<1> DEFINE t == c.own.tree
           f == c.own.detail
<1>1. Shape(c) /\ c.dec = None
  BY DEF Good
<1>2. PICK d : Installed(c, d) /\ Same(d, Install(c))
  BY <1>1, CaptureInstalled
<1>3. t \in Part /\ f \in Part /\ t \in Staged(c) /\ f \in Staged(c)
  BY <1>1, Distinct DEF Shape, Owner, Staged
<1>4. Shape(d)
  BY <1>1, <1>2, InstalledShape
<1>5. Says(t) \in Values(Staged(c)) /\ Says(f) \in Values(Staged(c))
  BY <1>3, PartTells DEF Values
<1> DEFINE X == {c.detail["frontier"], Says(t), Says(f)}
<1>6. Shown(d) \subseteq X
  BY <1>2 DEF Shown, Installed
<1>7. X \subseteq Past(c)
  BY <1>5 DEF Past, Shown
<1>8. \A x \in X : Carried(z, c, x) /\ \A w \in Of(c.waits) : Before(z, x, w)
  BY <1>5, <1>7 DEF Good, Carried, Shown
<1>9. After(z, d.tree["frontier"], d.cursor)
  BY <1>2, <1>3, PartTells, AfterLater DEF Installed, Good, Sound
<1>10. After(z, d.detail["frontier"], d.cursor)
  <2>1. CASE d.detail["frontier"] = c.detail["frontier"] /\ c.cursor <= d.cursor
    <3>1. After(z, c.detail["frontier"], c.cursor) /\ c.detail["frontier"] \in Nat
      BY <1>1 DEF Good, Shown, Shape, Sess
    <3> QED
      BY <3>1, <2>1, <1>1, <1>2, AfterLater DEF Installed, Shape
  <2>2. CASE d.detail["frontier"] = Says(f) /\ f.n <= d.cursor
    BY <2>2, <1>2, <1>3, PartTells, AfterLater DEF Installed, Good, Sound
  <2> QED
    BY <2>1, <2>2, <1>2 DEF Installed
<1>11. Rises(c, d)
  <2>1. /\ c.tree["frontier"] <= Says(t) /\ c.detail["frontier"] <= Says(f)
        /\ c.detail["frontier"] \in Nat
    BY <1>1, <1>3, PartTells DEF Good, Before, Shown, Shape, Sess
  <2> QED
    BY <2>1, <1>2 DEF Rises, Installed
<1>12. \A x \in Shown(d) : /\ Carried(z, c, x) /\ After(z, x, d.cursor)
                           /\ \A w \in Of(d.waits) : Before(z, x, w)
  BY <1>2, <1>6, <1>8, <1>9, <1>10 DEF Shown, Installed
<1>13. d.es = c.es /\ d.own = None /\ d.dec = None /\ d.waits = c.waits
  BY <1>1, <1>2 DEF Installed
<1>14. d.deferred # None => d.epoch # 0
  BY <1>2, <1>3, PartTells DEF Installed, Good
<1>15. Keeps(z, c, d)
  BY <1>4, <1>11, <1>12, <1>13, <1>14, ShowingKeeps
<1> QED
  BY <1>2, <1>15, KeepsSame

LEMMA TryInstallKeeps ==
    ASSUME NEW z, Store(z), NEW c, Good(z, c), c.own # None
    PROVE  Keeps(z, c, TryInstall(c))
<1>1. Same(c, c)
  BY DEF Good, Same, Shape
<1> QED
  BY <1>1, InstallKeeps, SameKeeps DEF TryInstall, Whole

-----------------------------------------------------------------------------
(* The children bundle and what runs after a listener.                     *)

\* The stream's state, its frames dropped at most, and the children request.
Aside(c, d) ==
    /\ DOMAIN d = Fields
    /\ d.es \in Source /\ d.es.cursor = c.es.cursor /\ d.es.wire \in {c.es.wire, <<>>}
    /\ d.epoch = c.epoch /\ d.boot \in Int /\ d.cursor = c.cursor
    /\ d.tree = c.tree /\ d.detail = c.detail /\ d.own = c.own /\ d.dec = c.dec
    /\ d.waits = c.waits

LEMMA AsideKeeps ==
    ASSUME NEW z, NEW c, NEW d, Good(z, c), Aside(c, d), d.deferred \in Reply \cup {None},
           d.exp \in Reply \cup [st : {"idle", "sent"}], d.deferred # None => d.epoch # 0
    PROVE  Keeps(z, c, d)
<1>1. Shape(d)
  BY DEF Good, Aside, Shape
<1>2. Past(d) = Past(c) /\ Shown(d) = Shown(c) /\ Staged(d) = Staged(c)
  BY DEF Aside, Past, Shown, Staged
<1>3. Of(d.es.wire) \subseteq Of(c.es.wire) /\ InOrder(z, d.es.wire)
  BY DEF Aside, Of, InOrder, Good
<1>4. Good(z, d)
  BY <1>1, <1>2, <1>3 DEF Good, Aside
<1> QED
  BY <1>4 DEF Good, Aside, Keeps, Rises, Narrows, Shape, Sess

\* Only what the page shows of the buried session changes.
LEMMA BuriedKeeps ==
    ASSUME NEW z, Store(z), NEW c, Good(z, c), NEW d, Shape(d), c.own = None,
           d.es = c.es, d.own = None, d.dec = None, d.waits = c.waits,
           d.deferred = c.deferred, d.epoch = c.epoch, c.cursor <= d.cursor,
           d.tree["frontier"] = c.tree["frontier"],
           d.detail["frontier"] = c.detail["frontier"]
    PROVE  Keeps(z, c, d)
<1>1. Shown(d) = Shown(c) /\ Shown(c) \subseteq Past(c)
  BY DEF Shown, Past
<1>2. Shape(c) /\ Shown(c) \subseteq Nat
  BY Sets DEF Good
<1>3. \A x \in Shown(c) : After(z, x, d.cursor)
  BY <1>2, AfterLater DEF Good, Shape
<1>4. \A x \in Shown(d) : /\ Carried(z, c, x) /\ After(z, x, d.cursor)
                          /\ \A w \in Of(d.waits) : Before(z, x, w)
  BY <1>1, <1>3 DEF Good, Carried
<1>5. Rises(c, d) /\ (d.deferred # None => d.epoch # 0)
  BY <1>2 DEF Rises, Shape, Sess, Good
<1> QED
  BY <1>4, <1>5, ShowingKeeps

LEMMA ApplyExpandKeeps ==
    ASSUME NEW z, Store(z), NEW c, Good(z, c), NEW r \in Reply, c.own = None, c.epoch # 0
    PROVE  /\ Keeps(z, c, ApplyExpand(c, r))
           /\ ApplyExpand(c, r).own = None
           /\ ApplyExpand(c, r).deferred \in {c.deferred, None}
<1> DEFINE d == ApplyScoped(c, r, {"buried"}, "http")
           e == [d EXCEPT !.tree["buried"] = r.v["buried"]]
           p == Project(c, r, {"buried"})
           k == Larger(c.cursor, r.n)
<1>0. Shape(c) /\ c.dec = None
  BY DEF Good
<1>1. r.e \in Nat /\ r.n \in Nat /\ r.v \in [Sess -> Nat] /\ r.gap = FALSE
  BY DEF Reply, Epochs
<1>2. \/ d = c
      \/ d = RequestRecovery(c, TreeGap)
      \/ d = [c EXCEPT !.detail = p, !.epoch = r.e, !.cursor = k] /\ r.e = c.epoch
  <2> DEFINE v == Verdict(c, r, "http")
  <2>1. v \in {"apply", "stale", "foreign"} /\ (v = "apply" => r.e = c.epoch)
    BY DEF Verdict
  <2>2. /\ v = "apply" => d = [c EXCEPT !.detail = p, !.epoch = r.e, !.cursor = k]
        /\ v = "foreign" => d = RequestRecovery(c, TreeGap)
        /\ v = "stale" => d = c
    BY DEF ApplyScoped
  <2> HIDE DEF v, p, k, d
  <2> QED
    BY <2>1, <2>2
<1>3. r.e = c.epoch => p \in [Sess -> Nat] /\ p["frontier"] = c.detail["frontier"]
  BY <1>0, <1>1 DEF Project, Shape, Sess
<1>4. k \in Int /\ c.cursor <= k
  BY <1>0, <1>1 DEF Larger, Shape
<1> HIDE DEF p, k, d
<1>5. Keeps(z, c, d) /\ d.own = None /\ d.deferred \in {c.deferred, None}
  <2>1. CASE d = c
    BY <2>1, <1>0, SameKeeps DEF Same, Shape
  <2>2. CASE d = RequestRecovery(c, TreeGap)
    BY <2>2, <1>0, RecoveryMoves, MovedKeeps DEF Moved, Same, Cut
  <2>3. CASE d = [c EXCEPT !.detail = p, !.epoch = r.e, !.cursor = k] /\ r.e = c.epoch
    <3>1. /\ DOMAIN d = Fields /\ d.es = c.es /\ d.boot = c.boot /\ d.tree = c.tree
          /\ d.own = None /\ d.dec = None /\ d.waits = c.waits /\ d.deferred = c.deferred
          /\ d.exp = c.exp /\ d.detail = p /\ d.epoch = c.epoch /\ d.cursor = k
      BY <2>3, <1>0 DEF Shape, Fields
    <3>2. Shape(d)
      BY <3>1, <2>3, <1>0, <1>3, <1>4 DEF Shape
    <3>3. Keeps(z, c, d)
      BY <3>1, <3>2, <2>3, <1>3, <1>4, BuriedKeeps
    <3> QED
      BY <3>1, <3>3
  <2> QED
    BY <1>2, <2>1, <2>2, <2>3
<1>6. Good(z, d) /\ Shape(d) /\ d.dec = None
  BY <1>5 DEF Keeps, Good
<1>7. /\ DOMAIN e = Fields /\ e.es = d.es /\ e.boot = d.boot /\ e.detail = d.detail
      /\ e.own = None /\ e.dec = None /\ e.waits = d.waits /\ e.deferred = d.deferred
      /\ e.exp = d.exp /\ e.epoch = d.epoch /\ e.cursor = d.cursor
      /\ e.tree = [d.tree EXCEPT !["buried"] = r.v["buried"]]
  BY <1>5, <1>6 DEF Shape, Fields
<1> HIDE DEF e
<1>8. e.tree \in [Sess -> Nat] /\ e.tree["frontier"] = d.tree["frontier"]
  <2>1. d.tree \in [Sess -> Nat] /\ r.v["buried"] \in Nat
    BY <1>1, <1>6 DEF Shape, Sess
  <2> QED
    BY <2>1, <1>7 DEF Sess
<1>9. Shape(e) /\ d.cursor <= e.cursor
  BY <1>6, <1>7, <1>8 DEF Shape
<1>10. Keeps(z, d, e)
  BY <1>5, <1>6, <1>7, <1>8, <1>9, BuriedKeeps
<1>11. Keeps(z, c, e)
  BY <1>5, <1>10, KeepsOn
<1> QED
  BY <1>5, <1>7, <1>11 DEF ApplyExpand, d, e

\* The community module's Max is the greatest element of a bounded set.
LEMMA MaxIs ==
    ASSUME NEW S \in SUBSET Int, S # {}, NEW h \in Int, \A x \in S : x <= h
    PROVE  Max(S) \in S /\ \A x \in S : x <= Max(S)
<1>0. PICK o \in S : TRUE
  OBVIOUS
<1> DEFINE B == {b \in Nat : \A x \in S : x <= o + b}
<1>1. B \subseteq Nat /\ h - o \in B
  OBVIOUS
<1>2. PICK c \in B : \A j \in B : ~(<<j, c>> \in OpToRel(<, Nat))
  BY <1>1, NatLessThanWellFounded, WFMin
<1>3. \A i, j \in Nat : <<j, i>> \in OpToRel(<, Nat) <=> j < i
  BY DEF OpToRel
<1>4. c \in Nat /\ \A x \in S : x <= o + c
  OBVIOUS
<1>5. \A j \in B : c <= j
  <2> TAKE j \in B
  <2>1. j \in Nat /\ ~(j < c)
    BY <1>2, <1>3, <1>4
  <2> QED
    BY <2>1, <1>4
<1>6. o + c \in S
  <2> SUFFICES ASSUME o + c \notin S PROVE FALSE
    OBVIOUS
  <2>1. \A x \in S : x < o + c
    BY <1>0, <1>4
  <2>2. c # 0
    BY <1>0
  <2>3. c - 1 \in B
    BY <2>1, <2>2, <1>0, <1>4
  <2> QED
    BY <2>3, <1>4, <1>5
<1>7. \E m \in S : \A x \in S : m >= x
  BY <1>0, <1>4, <1>6
<1> QED
  BY <1>7 DEF Max

LEMMA ResumedKeeps ==
    ASSUME NEW z, Store(z), NEW c, Good(z, c)
    PROVE  /\ Keeps(z, c, Resumed(c))
           /\ Resumed(c).own = c.own /\ Resumed(c).deferred = c.deferred
           /\ Resumed(c).own = None => Resumed(c).waits = <<>>
<1> DEFINE N == {c.cursor} \cup {c.waits[i].n : i \in DOMAIN c.waits}
           W(s) == {i \in DOMAIN c.waits : c.waits[i].s = s}
           last(s, held) == IF W(s) = {} THEN held ELSE c.waits[Max(W(s))].v
           m == Max(N)
           b == [c EXCEPT !.waits = <<>>, !.cursor = m]
           g == [b EXCEPT !.dirty = @ \/ c.reconciling]
           D == [s \in Sess |-> last(s, c.detail[s])]
           T == [s \in Sess |-> IF s = "frontier" \/ c.tree[s] > 0
                                 THEN last(s, c.tree[s]) ELSE c.tree[s]]
           a == [b EXCEPT !.detail = D, !.tree = T]
<1>0. Shape(c) /\ c.waits \in Seq(Event)
  BY DEF Good, Shape
<1>1. /\ \A i \in DOMAIN c.waits : c.waits[i] \in Event /\ c.waits[i] \in Of(c.waits)
      /\ \A i \in DOMAIN c.waits : i \in 1..Len(c.waits)
  BY <1>0 DEF Of
<1>2. m \in N /\ \A x \in N : x <= m
  <2>1. PICK h \in Nat : \A f \in Of(c.waits) : f.n <= h
    BY DEF Good
  <2> DEFINE u == IF c.cursor <= h THEN h ELSE c.cursor
  <2>2. c.cursor \in Int /\ \A i \in DOMAIN c.waits : c.waits[i].n \in Nat /\ c.waits[i].n <= h
    BY <1>0, <1>1, <2>1 DEF Shape, Event
  <2>3. u \in Int /\ N \in SUBSET Int /\ N # {} /\ \A x \in N : x <= u
    BY <2>2
  <2> HIDE DEF N, u
  <2> QED
    BY <2>3, MaxIs
<1>3. m \in Int /\ c.cursor <= m /\ \A i \in DOMAIN c.waits : c.waits[i].n <= m
  <2>1. N \subseteq Int
    BY <1>0, <1>1 DEF Shape, Event
  <2>2. c.cursor \in N /\ \A i \in DOMAIN c.waits : c.waits[i].n \in N
    OBVIOUS
  <2> HIDE DEF m, N
  <2> QED
    BY <2>1, <2>2, <1>2
<1>4. \A s \in Sess : W(s) # {} => Max(W(s)) \in W(s)
  <2> TAKE s \in Sess
  <2>1. W(s) \in SUBSET Int /\ \A i \in W(s) : i <= Len(c.waits)
    BY <1>1
  <2>2. Len(c.waits) \in Int
    BY <1>0
  <2> HIDE DEF W
  <2> QED
    BY <2>1, <2>2, MaxIs
<1>5. \A s \in Sess, v \in Nat : last(s, v) \in Nat
  BY <1>1, <1>4 DEF Event
<1>6. D \in [Sess -> Nat] /\ T \in [Sess -> Nat]
  BY <1>0, <1>5 DEF Shape
<1>7. /\ T["frontier"] = last("frontier", c.tree["frontier"])
      /\ D["frontier"] = last("frontier", c.detail["frontier"])
  BY DEF Sess
<1>8. \/ W("frontier") = {}
      \/ \E f \in Of(c.waits) : /\ f \in Event /\ f.s = "frontier" /\ f.n <= m
                                /\ \A v : last("frontier", v) = f.v
  BY <1>1, <1>3, <1>4 DEF Sess
<1>9. Resumed(c) = IF c.own # None \/ c.waits = <<>> THEN c
                   ELSE IF GateActive(c) THEN g ELSE a
  BY DEF Resumed
<1> HIDE DEF N, W, m, D, T, last
<1>10. /\ DOMAIN g = Fields /\ DOMAIN a = Fields
       /\ g.tree = c.tree /\ g.detail = c.detail /\ a.tree = T /\ a.detail = D
       /\ \A d \in {a, g} : /\ d.es = c.es /\ d.epoch = c.epoch /\ d.boot = c.boot
                           /\ d.cursor = m /\ d.own = c.own /\ d.dec = c.dec
                           /\ d.waits = <<>> /\ d.deferred = c.deferred /\ d.exp = c.exp
  BY <1>0 DEF Shape, Fields
<1>11. <<>> \in Seq(Event) /\ Of(<<>>) = {}
  BY DEF Of
<1> HIDE DEF a, g
<1>12. Shape(a) /\ Shape(g)
  BY <1>0, <1>3, <1>6, <1>10, <1>11 DEF Shape
<1>13. \A x \in Shown(c) : x \in Nat /\ After(z, x, m) /\ Carried(z, c, x)
  BY <1>0, <1>3, Sets, AfterLater DEF Good, Shape, Carried, Past
<1>14. c.own = None => Keeps(z, c, g)
  <2> SUFFICES ASSUME c.own = None PROVE Keeps(z, c, g)
    OBVIOUS
  <2>1. Shown(g) = Shown(c) /\ c.dec = None
    BY <1>10 DEF Shown, Good
  <2>2. Rises(c, g)
    BY <1>0, <1>10 DEF Rises, Shape, Sess
  <2>3. \A x \in Shown(g) : /\ Carried(z, c, x) /\ After(z, x, g.cursor)
                            /\ \A w \in Of(g.waits) : Before(z, x, w)
    BY <2>1, <1>10, <1>11, <1>13
  <2>4. g.deferred # None => g.epoch # 0
    BY <1>10 DEF Good
  <2> QED
    BY <2>1, <2>2, <2>3, <2>4, <1>10, <1>12, ShowingKeeps
<1>15. c.own = None => Keeps(z, c, a)
  <2> SUFFICES ASSUME c.own = None PROVE Keeps(z, c, a)
    OBVIOUS
  <2>0. c.dec = None /\ a.own = None /\ a.dec = None /\ (a.deferred # None => a.epoch # 0)
    BY <1>10 DEF Good
  <2>1. CASE W("frontier") = {}
    <3>1. a.tree["frontier"] = c.tree["frontier"] /\ a.detail["frontier"] = c.detail["frontier"]
      BY <2>1, <1>7, <1>10 DEF last
    <3>2. Shown(a) = Shown(c) /\ Rises(c, a)
      BY <3>1, <1>0 DEF Shown, Rises, Shape, Sess
    <3>3. \A x \in Shown(a) : /\ Carried(z, c, x) /\ After(z, x, a.cursor)
                              /\ \A w \in Of(a.waits) : Before(z, x, w)
      BY <3>2, <1>10, <1>11, <1>13
    <3> QED
      BY <2>0, <3>2, <3>3, <1>10, <1>12, ShowingKeeps
  <2>2. ASSUME NEW f \in Of(c.waits), f \in Event, f.s = "frontier", f.n <= m,
               \A v : last("frontier", v) = f.v
        PROVE  Keeps(z, c, a)
    <3>1. a.tree["frontier"] = f.v /\ a.detail["frontier"] = f.v
      BY <2>2, <1>7, <1>10
    <3>2. Tells(f) /\ Says(f) = f.v /\ f.v \in Nat /\ f.n \in Nat
      BY <2>2 DEF Tells, Says, Event
    <3>3. f.v \in Past(c) /\ Shown(a) = {f.v}
      BY <3>1, <3>2 DEF Past, Values, Shown
    <3>4. Carried(z, c, f.v) /\ After(z, f.v, f.n)
      BY <3>2, <3>3 DEF Good, Carried, Sound
    <3>5. After(z, f.v, m)
      BY <2>2, <3>2, <3>4, <1>3, AfterLater
    <3>6. Rises(c, a)
      <4>1. c.tree["frontier"] <= f.v /\ c.detail["frontier"] <= f.v
        BY <3>2 DEF Good, Before, Shown
      <4> QED
        BY <4>1, <3>1 DEF Rises
    <3>7. \A x \in Shown(a) : /\ Carried(z, c, x) /\ After(z, x, a.cursor)
                              /\ \A w \in Of(a.waits) : Before(z, x, w)
      BY <3>3, <3>4, <3>5, <1>10, <1>11
    <3> QED
      BY <2>0, <3>6, <3>7, <1>10, <1>12, ShowingKeeps
  <2> QED
    BY <2>1, <2>2, <1>8
<1>16. Same(c, c)
  BY <1>0 DEF Same, Shape
<1> QED
  BY <1>9, <1>10, <1>14, <1>15, <1>16, SameKeeps

LEMMA StartReconcileMoves ==
    ASSUME NEW c, Shape(c), NEW second
    PROVE  Moved(c, StartReconcile(c, second))
<1> DEFINE b == [c EXCEPT !.reconciling = TRUE, !.dirty = FALSE, !.second = second,
                          !.expect = TRUE]
<1>1. Same(c, b)
  BY DEF Same, Shape, Fields
<1>2. StartReconcile(c, second) = ConnectAs(b, TRUE, FALSE)
  BY DEF StartReconcile, Connect
<1> HIDE DEF b
<1> QED
  BY <1>1, <1>2, SameShape, ConnectCuts, MovedOn DEF Moved

LEMMA ReconciledMoves == ASSUME NEW c, Shape(c) PROVE Moved(c, Reconciled(c))
<1> DEFINE b == [c EXCEPT !.resolved = FALSE]
           g == [b EXCEPT !.reconciling = FALSE, !.second = FALSE]
<1>1. Same(c, c) /\ Same(c, b) /\ Same(b, g)
  BY DEF Same, Shape, Fields
<1>2. ReconcileDone(b) \in {g, StartReconcile(b, TRUE)}
  BY DEF ReconcileDone
<1>3. Reconciled(c) \in {c, ReconcileDone(b)}
  BY DEF Reconciled
<1> HIDE DEF b, g
<1>4. Shape(b)
  BY <1>1, SameShape
<1> QED
  <2>1. Moved(b, StartReconcile(b, TRUE)) /\ Same(c, g)
    BY <1>1, <1>4, StartReconcileMoves, MovedOn
  <2>2. Moved(c, StartReconcile(b, TRUE)) /\ Moved(c, g) /\ Moved(c, c)
    BY <2>1, <1>1, MovedOn DEF Moved
  <2> QED
    BY <2>2, <1>2, <1>3

LEMMA BundledKeeps ==
    ASSUME NEW z, Store(z), NEW c, Good(z, c), c.own = None => c.waits = <<>>
    PROVE  Keeps(z, c, Bundled(c)) /\ AtRest(Bundled(c))
<1> DEFINE b == [c EXCEPT !.deferred = None]
<1>0. Shape(c)
  BY DEF Good
<1>1. CASE c.own = None /\ c.deferred # None
  <2>1. Aside(c, b) /\ b.deferred = None /\ b.exp = c.exp /\ b.es = c.es
    BY <1>0 DEF Aside, Shape, Fields
  <2>2. Bundled(c) = ApplyExpand(b, c.deferred)
    BY <1>1 DEF Bundled
  <2> HIDE DEF b
  <2>3. Keeps(z, c, b)
    BY <2>1, <1>0, AsideKeeps DEF Shape
  <2>4. Good(z, b) /\ b.own = None /\ b.epoch # 0 /\ c.deferred \in Reply /\ b.waits = <<>>
    BY <2>1, <2>3, <1>0, <1>1 DEF Keeps, Aside, Good, Shape
  <2>5. /\ Keeps(z, b, Bundled(c))
        /\ Bundled(c).own = None /\ Bundled(c).deferred = None
    BY <2>1, <2>2, <2>4, ApplyExpandKeeps
  <2>6. Bundled(c).waits = <<>>
    BY <2>4, <2>5 DEF Keeps, Narrows
  <2> QED
    BY <2>3, <2>5, <2>6, KeepsOn DEF AtRest
<1>2. CASE ~(c.own = None /\ c.deferred # None)
  <2>1. Bundled(c) = c /\ Same(c, c)
    BY <1>0, <1>2 DEF Bundled, Same, Shape
  <2> QED
    BY <2>1, <1>2, SameKeeps DEF AtRest
<1> QED
  BY <1>1, <1>2

LEMMA RunKeeps ==
    ASSUME NEW z, Store(z), NEW c, Good(z, c), Run(c)
    PROVE  Keeps(z, c, cli') /\ AtRest(cli')
<1> DEFINE e == Reconciled(c)
           f == Resumed(e)
<1>1. cli' = Bundled(f)
  BY DEF Run
<1> HIDE DEF e, f
<1>2. Keeps(z, c, e)
  BY ReconciledMoves, MovedKeeps DEF e, Good
<1>3. Keeps(z, e, f) /\ (f.own = None => f.waits = <<>>)
  BY <1>2, ResumedKeeps DEF f, Keeps
<1>4. Keeps(z, f, cli') /\ AtRest(cli')
  BY <1>1, <1>3, BundledKeeps DEF Keeps
<1> QED
  BY <1>2, <1>3, <1>4, KeepsOn

-----------------------------------------------------------------------------
(* Listeners.                                                              *)

\* A frame in hand is one of the stream; f is what the page has just been
\* given of it.
LEMMA SameInHand ==
    ASSUME NEW z, NEW c, NEW d, NEW f, Same(c, d), InHand(z, c, f)
    PROVE  InHand(z, d, f)
BY DEF Same, InHand, Carried, Past, Shown, Staged

LEMMA HandFresh ==
    ASSUME NEW z, NEW c, NEW f \in Part, InHand(z, c, f), c.waits = <<>>
    PROVE  Fresh(z, c, f)
<1>1. Of(c.waits) = {} /\ Shown(c) \subseteq Past(c)
  BY DEF Of, Past
<1> QED
  BY <1>1, PartTells DEF InHand, Fresh

\* The pending capture receives a part, or moves one.
Stages(c, d) ==
    /\ DOMAIN d = Fields
    /\ d.es = c.es /\ d.epoch = c.epoch /\ d.boot = c.boot /\ d.cursor = c.cursor
    /\ d.tree = c.tree /\ d.detail = c.detail /\ d.waits = c.waits
    /\ d.deferred = c.deferred /\ d.exp = c.exp
    /\ d.own \in Owner /\ d.dec \in Part \cup {None}
    /\ d.dec # None => d.own.tree = None

LEMMA StagesKeeps ==
    ASSUME NEW z, NEW c, Good(z, c), NEW d, Stages(c, d),
           \A f \in Staged(d) : f \in Staged(c) \/ Fresh(z, c, f)
    PROVE  Keeps(z, c, d)
<1>1. Shape(c) /\ Shape(d) /\ d.own # None
  BY Distinct DEF Good, Stages, Shape
<1>2. Shown(d) = Shown(c) /\ Of(d.waits) = Of(c.waits)
  BY DEF Stages, Shown
<1>3. \A x \in Values(Staged(d)) : x \in Values(Staged(c)) \/ \E f \in Staged(d) : Fresh(z, c, f) /\ x = Says(f)
  BY DEF Values
<1>4. \A x \in Past(d) : x \in Past(c) \/ \E f \in Staged(d) : Fresh(z, c, f) /\ x = Says(f)
  BY <1>2, <1>3 DEF Past
<1>5. \A x \in Past(d) : Carried(z, c, x)
  BY <1>4 DEF Good, Carried, Fresh
<1>6. \A x \in Shown(c), f \in Staged(d) : Before(z, x, f)
  BY DEF Good, Fresh
<1>7. \A x \in Values(Staged(d)), w \in Of(c.waits) : Before(z, x, w)
  BY <1>3 DEF Good, Fresh
<1>8. \A f \in Staged(d) : Sound(z, f)
  BY DEF Good, Fresh
<1>9. Good(z, d)
  BY <1>1, <1>2, <1>5, <1>6, <1>7, <1>8 DEF Good, Carried, Stages
<1> QED
  BY <1>1, <1>9 DEF Keeps, Rises, Narrows, Stages, Shape, Sess

LEMMA OnTreeKeeps ==
    ASSUME NEW z, Store(z), NEW c, Good(z, c), AtRest(c), NEW f \in Part, InHand(z, c, f)
    PROVE  Keeps(z, c, OnTree(c, f)) /\ OnTree(c, f).waits = <<>>
<1>0. Shape(c)
  BY DEF Good
<1>1. CASE c.own # None
  <2>1. OnTree(c, f) = ConnectAs(c, TRUE, FALSE)
    BY <1>1 DEF OnTree, Connect
  <2>2. Cut(c, OnTree(c, f))
    BY <2>1, <1>0, ConnectCuts
  <2> QED
    BY <2>2, CutKeeps DEF Cut
<1>2. CASE c.own = None
  <2> DEFINE o == [tree |-> None, detail |-> None, complete |-> FALSE]
             d == [c EXCEPT !.own = o, !.dec = f]
  <2>0. OnTree(c, f) = d
    BY <1>2 DEF OnTree
  <2>1. c.waits = <<>>
    BY <1>2 DEF AtRest
  <2>2. o \in Owner /\ o.tree = None /\ o.detail = None
    BY DEF Owner
  <2> HIDE DEF o
  <2>3. Stages(c, d) /\ d.own = o /\ d.dec = f
    BY <2>2, <1>0 DEF Stages, Shape, Fields
  <2> HIDE DEF d
  <2>4. \A g \in Staged(d) : g \in Staged(c) \/ g = f
    BY <2>2, <2>3 DEF Staged
  <2>5. Fresh(z, c, f)
    BY <2>1, HandFresh
  <2>6. Keeps(z, c, d)
    BY <2>3, <2>4, <2>5, StagesKeeps
  <2> QED
    BY <2>0, <2>1, <2>3, <2>6 DEF Stages
<1> QED
  BY <1>1, <1>2

LEMMA OnDetailKeeps ==
    ASSUME NEW z, Store(z), NEW c, Good(z, c), c.waits = <<>>, NEW f \in Part, InHand(z, c, f)
    PROVE  Keeps(z, c, OnDetail(c, f))
<1> DEFINE b == IF f.gap THEN RequestRecovery(c, AwaitTree) ELSE c
           d == [b EXCEPT !.own.detail = f]
<1>1. Same(c, b)
  <2>1. Shape(c) /\ AwaitTree.tree = "await"
    BY DEF Good, AwaitTree
  <2> QED
    BY <2>1, RecoveryMoves, SelfSame
<1>2. Keeps(z, c, b) /\ Good(z, b) /\ b.waits = <<>>
  BY <1>1, SameKeeps DEF Keeps, Same
<1>3. Fresh(z, b, f)
  BY <1>1, <1>2, SameInHand, HandFresh
<1>4. OnDetail(c, f) = IF b.own # None THEN TryInstall(d) ELSE ApplyDetailIndependent(b, f)
  BY DEF OnDetail
<1> HIDE DEF b
<1>5. CASE b.own = None
  <2>1. Keeps(z, b, OnDetail(c, f))
    BY <1>2, <1>3, <1>4, <1>5, IndependentKeeps
  <2> QED
    BY <2>1, <1>2, KeepsOn
<1>6. CASE b.own # None
  <2>1. Shape(b) /\ b.own \in Owner /\ (b.dec # None => b.own.tree = None)
    BY <1>2, <1>6 DEF Good, Shape
  <2> DEFINE o == [b.own EXCEPT !.detail = f]
  <2>2. o \in Owner /\ o.tree = b.own.tree /\ o.detail = f
    BY <2>1 DEF Owner
  <2>3. Stages(b, d) /\ d.own = o /\ d.dec = b.dec
    BY <2>1, <2>2 DEF Stages, Shape, Fields
  <2> HIDE DEF o, d
  <2>4. \A g \in Staged(d) : g \in Staged(b) \/ g = f
    BY <1>6, <2>2, <2>3 DEF Staged
  <2>5. Keeps(z, b, d)
    BY <1>2, <1>3, <2>3, <2>4, StagesKeeps
  <2>6. Keeps(z, d, TryInstall(d))
    BY <2>2, <2>3, <2>5, Distinct, TryInstallKeeps DEF Keeps
  <2> QED
    BY <1>2, <1>4, <1>6, <2>5, <2>6, KeepsOn
<1> QED
  BY <1>5, <1>6

LEMMA OnCompleteKeeps ==
    ASSUME NEW z, Store(z), NEW c, Good(z, c), NEW f
    PROVE  Keeps(z, c, OnComplete(c, f))
<1>0. Shape(c)
  BY DEF Good
<1>1. CASE c.own = None
  BY <1>0, <1>1, SameKeeps DEF OnComplete, Same, Shape
<1>2. CASE c.own # None
  <2> DEFINE o == [c.own EXCEPT !.complete = TRUE]
             d == [c EXCEPT !.own.complete = TRUE]
  <2>1. c.own \in Owner /\ (c.dec # None => c.own.tree = None)
    BY <1>0, <1>2 DEF Good, Shape
  <2>2. o \in Owner /\ o.tree = c.own.tree /\ o.detail = c.own.detail
    BY <2>1 DEF Owner
  <2>3. Stages(c, d) /\ d.own = o /\ d.dec = c.dec
    BY <1>0, <2>1, <2>2 DEF Stages, Shape, Fields
  <2>4. OnComplete(c, f) = TryInstall(d)
    BY <1>2 DEF OnComplete
  <2> HIDE DEF o, d
  <2>5. Staged(d) \subseteq Staged(c)
    BY <1>2, <2>2, <2>3 DEF Staged
  <2>6. Keeps(z, c, d)
    BY <2>3, <2>5, StagesKeeps
  <2>7. Keeps(z, d, TryInstall(d))
    BY <2>2, <2>3, <2>6, Distinct, TryInstallKeeps DEF Keeps
  <2> QED
    BY <2>4, <2>6, <2>7, KeepsOn
<1> QED
  BY <1>1, <1>2

LEMMA WaitingKeeps ==
    ASSUME NEW z, NEW c, Good(z, c), NEW f \in Event, InHand(z, c, f)
    PROVE  LET d == [c EXCEPT !.waits = Append(@, f)]
           IN  Good(z, d) /\ Rises(c, d) /\ d.es = c.es
<1> DEFINE d == [c EXCEPT !.waits = Append(@, f)]
           q == Append(c.waits, f)
<1>0. Shape(c) /\ c.waits \in Seq(Event) /\ f.n \in Nat
  BY SaysNat DEF Good, Shape
<1>1. /\ DOMAIN d = Fields /\ d.es = c.es /\ d.epoch = c.epoch /\ d.boot = c.boot
      /\ d.cursor = c.cursor /\ d.tree = c.tree /\ d.detail = c.detail /\ d.own = c.own
      /\ d.dec = c.dec /\ d.waits = q /\ d.deferred = c.deferred /\ d.exp = c.exp
  BY <1>0 DEF Shape, Fields
<1>2. /\ q \in Seq(Event) /\ DOMAIN q = 1..(Len(c.waits) + 1)
      /\ q[Len(c.waits) + 1] = f /\ Len(c.waits) \in Nat
      /\ \A i \in DOMAIN c.waits : i \in 1..Len(c.waits) /\ q[i] = c.waits[i]
  BY <1>0
<1> HIDE DEF d, q
<1>3. Shape(d)
  BY <1>0, <1>1, <1>2 DEF Shape
<1>4. \A g \in Of(q) : g \in Of(c.waits) \/ g = f
  BY <1>0, <1>2 DEF Of
<1>5. Shown(d) = Shown(c) /\ Staged(d) = Staged(c)
  BY <1>1 DEF Shown, Staged
<1>6. \A x \in Past(d) : x \in Past(c) \/ (Tells(f) /\ x = Says(f))
  BY <1>1, <1>4, <1>5 DEF Past, Values
<1>7. \A x \in Past(d) : Carried(z, c, x)
  BY <1>6 DEF Good, Carried, InHand
<1>8. Shown(c) \cup Values(Staged(c)) \subseteq Past(c)
  BY DEF Past
<1>9. \A x \in Shown(c) \cup Values(Staged(c)), g \in Of(q) : Before(z, x, g)
  BY <1>4, <1>8 DEF Good, InHand
<1>10. InOrder(z, q)
  <2> SUFFICES ASSUME NEW i \in DOMAIN q, NEW j \in DOMAIN q, i < j, Tells(q[i])
               PROVE  Before(z, Says(q[i]), q[j])
    BY DEF InOrder
  <2>1. i \in DOMAIN c.waits /\ q[i] = c.waits[i]
    <3>1. i \in 1..Len(c.waits)
      BY <1>2
    <3> QED
      BY <3>1, <1>0, <1>2
  <2>2. CASE j \in DOMAIN c.waits
    BY <2>1, <2>2, <1>2 DEF Good, InOrder
  <2>3. CASE j = Len(c.waits) + 1
    <3>1. Says(q[i]) \in Past(c)
      BY <2>1 DEF Past, Values, Of
    <3> QED
      BY <3>1, <2>3, <1>2 DEF InHand
  <2> QED
    BY <2>2, <2>3, <1>0, <1>2
<1>11. \A g \in Of(q) : Sound(z, g)
  BY <1>4 DEF Good, InHand
<1>12. \E b \in Nat : \A g \in Of(q) : g.n <= b
  <2>1. PICK b \in Nat : \A g \in Of(c.waits) : g.n <= b
    BY DEF Good
  <2>2. \A g \in Of(c.waits) : g.n \in Nat
    BY <1>0, Sets, SaysNat
  <2>3. \A g \in Of(q) : g.n <= b + f.n
    BY <1>0, <1>4, <2>1, <2>2
  <2> QED
    BY <2>3, <1>0
<1>13. Good(z, d)
  BY <1>1, <1>3, <1>5, <1>7, <1>9, <1>10, <1>11, <1>12 DEF Good, Carried
<1>14. Rises(c, d) /\ d.es = c.es
  BY <1>0, <1>1 DEF Rises, Shape, Sess
<1> QED
  BY <1>13, <1>14 DEF d

\* What a listener does with a frame: the rest of the stream stays or goes.
Hears(z, c, d) == Good(z, d) /\ Rises(c, d) /\ d.es.wire \in {c.es.wire, <<>>}

LEMMA OnEventHears ==
    ASSUME NEW z, Store(z), NEW c, Good(z, c), AtRest(c), NEW f \in Event, InHand(z, c, f),
           c.es.st = "open"
    PROVE  Hears(z, c, OnEvent(c, f))
<1> DEFINE b == IF Gap(c, f) THEN RequestRecovery(c, TreeGap) ELSE c
           d == [b EXCEPT !.ord = Larger(@, f.ord)]
<1>0. Shape(c) /\ f.n \in Int
  BY SaysNat DEF Good
<1>1. Moved(c, b)
  BY <1>0, RecoveryMoves, SelfSame DEF Moved
<1>2. OnEvent(c, f) = CASE b.es.st = "connecting" -> b
          [] b.es.st # "connecting" /\ ~GateActive(d) /\ d.own # None ->
               [d EXCEPT !.waits = Append(@, f)]
          [] OTHER -> Frame(d, f)
  BY DEF OnEvent
<1> HIDE DEF b
<1>3. CASE b.es.st = "connecting"
  BY <1>0, <1>1, <1>2, <1>3, MovedKeeps DEF Keeps, Narrows, Hears
<1>4. CASE b.es.st # "connecting"
  <2>1. Same(c, b) /\ Shape(b)
    BY <1>0, <1>1, <1>4, SameShape DEF Moved
  <2>2. Same(b, d)
    BY <2>1 DEF Same, Shape, Fields
  <2>3. Same(c, d)
    BY <2>1, <2>2, MovedOn
  <2> HIDE DEF d
  <2>4. Good(z, d) /\ InHand(z, d, f) /\ Keeps(z, c, d)
    BY <2>3, SameKeeps, SameInHand DEF Keeps
  <2>5. CASE ~GateActive(d) /\ d.own # None
    <3> DEFINE e == [d EXCEPT !.waits = Append(@, f)]
    <3>1. Good(z, e) /\ Rises(d, e) /\ e.es = d.es
      BY <2>4, WaitingKeeps
    <3>2. OnEvent(c, f) = e
      BY <1>2, <1>4, <2>5
    <3> HIDE DEF e
    <3>3. Rises(c, e)
      BY <2>3, <3>1 DEF Rises, Same
    <3> QED
      BY <2>3, <3>1, <3>2, <3>3 DEF Hears, Same
  <2>6. CASE GateActive(d) \/ d.own = None
    <3>1. OnEvent(c, f) = Frame(d, f)
      BY <1>2, <1>4, <2>6
    <3>2. CASE GateActive(d)
      <4>1. Ahead(d, Defer(d, f.n))
        BY <1>0, <2>4, DeferAhead DEF Good
      <4>2. Keeps(z, c, Defer(d, f.n))
        BY <4>1, <2>4, AheadKeeps, KeepsOn
      <4> QED
        BY <4>2, <3>1, <3>2 DEF Frame, Keeps, Narrows, Hears
    <3>3. CASE ~GateActive(d)
      <4>1. d.own = None /\ d.waits = <<>>
        BY <2>3, <2>6, <3>3 DEF Same, AtRest
      <4>2. Keeps(z, c, ApplyEvent(d, f))
        BY <4>1, <2>4, ApplyEventKeeps, KeepsOn
      <4> QED
        BY <4>2, <3>1, <3>3 DEF Frame, Keeps, Narrows, Hears
    <3> QED
      BY <3>2, <3>3
  <2> QED
    BY <2>5, <2>6
<1> QED
  BY <1>3, <1>4

LEMMA LegacyKeeps ==
    ASSUME NEW z, Store(z), NEW c, Good(z, c), c.own # None, c.dec = None
    PROVE  Keeps(z, c, Legacy(c))
<1> DEFINE b == [c EXCEPT !.own = None]
           f == c.own.detail
<1>0. Shape(c) /\ c.own \in Owner
  BY DEF Good, Shape
<1>1. /\ DOMAIN b = Fields /\ b.es = c.es /\ b.epoch = c.epoch /\ b.boot = c.boot
      /\ b.cursor = c.cursor /\ b.tree = c.tree /\ b.detail = c.detail /\ b.own = None
      /\ b.dec = None /\ b.waits = c.waits /\ b.deferred = c.deferred /\ b.exp = c.exp
  BY <1>0 DEF Shape, Fields
<1>2. Legacy(c) = IF f # None THEN ApplyDetailIndependent(b, f) ELSE b
  BY DEF Legacy
<1> HIDE DEF b
<1>3. Keeps(z, c, b)
  <2>1. Shape(b) /\ Shown(b) = Shown(c) /\ Shown(c) \subseteq Past(c) /\ Rises(c, b)
    BY <1>0, <1>1 DEF Shape, Shown, Rises, Sess, Past
  <2>2. \A x \in Shown(b) : /\ Carried(z, c, x) /\ After(z, x, b.cursor)
                            /\ \A w \in Of(b.waits) : Before(z, x, w)
    BY <2>1, <1>1 DEF Good, Carried
  <2>3. b.deferred # None => b.epoch # 0
    BY <1>1 DEF Good
  <2> QED
    BY <2>1, <2>2, <2>3, <1>1, ShowingKeeps
<1>4. CASE f = None
  BY <1>2, <1>3, <1>4
<1>5. CASE f # None
  <2>1. f \in Part /\ f \in Staged(c)
    BY <1>0, <1>5 DEF Owner, Staged
  <2>2. Says(f) \in Values(Staged(c)) /\ Values(Staged(c)) \subseteq Past(c)
    BY <2>1, PartTells DEF Values, Past
  <2>3. Sound(z, f) /\ Carried(z, c, Says(f))
    BY <2>1, <2>2 DEF Good, Carried
  <2>4. Fresh(z, c, f)
    BY <2>1, <2>2, <2>3 DEF Good, Fresh
  <2>5. Fresh(z, b, f)
    BY <2>4, <1>1 DEF Fresh, Carried, Shown
  <2>6. Keeps(z, b, Legacy(c))
    BY <2>1, <2>5, <1>1, <1>2, <1>3, <1>5, IndependentKeeps DEF Keeps
  <2> QED
    BY <2>6, <1>3, KeepsOn
<1> QED
  BY <1>4, <1>5

-----------------------------------------------------------------------------
(* The daemon's steps and the frames on the way.                           *)

\* The store only grows, and what it forgets cannot be replayed.
Grows(z, y) ==
    /\ Store(y) /\ z.val["frontier"] <= y.val["frontier"]
    /\ \A x \in Nat, k \in Int : x <= z.val["frontier"] /\ After(z, x, k) => After(y, x, k)

LEMMA GrowsKeeps ==
    ASSUME NEW z, Store(z), NEW y, Grows(z, y), NEW c, Good(z, c)
    PROVE  Good(y, c)
<1>0. Shape(c) /\ z.val["frontier"] \in Nat /\ y.val["frontier"] \in Nat
  BY DEF Good, Store, Sess, Grows
<1>1. /\ Past(c) \subseteq Nat /\ c.cursor \in Int /\ c.es.cursor \in Int
      /\ \A f \in Staged(c) \cup Of(c.waits) \cup Of(c.es.wire) : f.n \in Int /\ Says(f) \in Nat
  <2>1. Staged(c) \cup Of(c.waits) \cup Of(c.es.wire) \subseteq Part \cup Event
    BY <1>0, Sets
  <2>2. \A f \in Part \cup Event : f.n \in Int /\ Says(f) \in Nat
    BY SaysNat
  <2>3. Past(c) \subseteq Nat /\ c.cursor \in Int /\ c.es.cursor \in Int
    BY <1>0, Sets DEF Shape, Source
  <2> QED
    BY <2>1, <2>2, <2>3
<1>2. \A x \in Past(c) : x <= z.val["frontier"]
  BY DEF Good
<1>3. \A x \in Nat, k \in Int : x <= z.val["frontier"] /\ After(z, x, k) => After(y, x, k)
  BY DEF Grows
<1>4. \A x \in Nat, f \in Staged(c) \cup Of(c.waits) \cup Of(c.es.wire) :
          x <= z.val["frontier"] /\ Before(z, x, f) => Before(y, x, f)
  BY <1>1, <1>3 DEF Before
<1>5. \A f \in Staged(c) \cup Of(c.waits) \cup Of(c.es.wire) :
          Tells(f) => Says(f) <= z.val["frontier"]
  BY DEF Good, Sound
<1>6. \A x \in Past(c) :
          /\ x <= y.val["frontier"]
          /\ c.es.cursor >= 0 => After(y, x, c.es.cursor)
          /\ \A f \in Of(c.es.wire) : Before(y, x, f)
  <2> TAKE x \in Past(c)
  <2>1. x \in Nat /\ x <= z.val["frontier"]
    BY <1>1, <1>2
  <2>2. x <= y.val["frontier"]
    BY <2>1, <1>0 DEF Grows
  <2> QED
    BY <2>1, <2>2, <1>1, <1>3, <1>4 DEF Good
<1>7. Shown(c) \subseteq Past(c) /\ Values(Staged(c)) \subseteq Past(c)
  BY DEF Past
<1>8. \A x \in Shown(c) : After(y, x, c.cursor) /\ \A f \in Staged(c) : Before(y, x, f)
  BY <1>1, <1>2, <1>3, <1>4, <1>7 DEF Good
<1>9. \A x \in Shown(c) \cup Values(Staged(c)), f \in Of(c.waits) : Before(y, x, f)
  BY <1>1, <1>2, <1>4, <1>7 DEF Good
<1>10. InOrder(y, c.waits) /\ InOrder(y, c.es.wire)
  BY <1>1, <1>4, <1>5 DEF Good, InOrder, Of
<1>11. \A f \in Staged(c) \cup Of(c.waits) \cup Of(c.es.wire) : Sound(y, f)
  <2> TAKE f \in Staged(c) \cup Of(c.waits) \cup Of(c.es.wire)
  <2>1. Sound(z, f)
    BY DEF Good
  <2> QED
    BY <2>1, <1>0, <1>1, <1>3 DEF Sound, Grows
<1> QED
  BY <1>0, <1>6, <1>8, <1>9, <1>10, <1>11 DEF Good

\* The page's stream carries other frames, the page itself stays.
Restream(c, d) ==
    /\ DOMAIN d = Fields /\ d.es \in Source
    /\ d.epoch = c.epoch /\ d.boot \in Int /\ d.cursor = c.cursor
    /\ d.tree = c.tree /\ d.detail = c.detail /\ d.own = c.own /\ d.dec = c.dec
    /\ d.waits = c.waits /\ d.deferred = c.deferred /\ d.exp = c.exp

LEMMA RestreamGood ==
    ASSUME NEW z, NEW c, Good(z, c), NEW d, Restream(c, d), InOrder(z, d.es.wire),
           \A f \in Of(d.es.wire) : Sound(z, f),
           \A x \in Past(c) : /\ d.es.cursor >= 0 => After(z, x, d.es.cursor)
                              /\ \A f \in Of(d.es.wire) : Before(z, x, f)
    PROVE  Good(z, d) /\ Rises(c, d)
<1>1. Shape(c) /\ Shape(d)
  BY DEF Good, Shape, Restream
<1>2. Past(d) = Past(c) /\ Shown(d) = Shown(c) /\ Staged(d) = Staged(c)
  BY DEF Restream, Past, Shown, Staged
<1>3. Good(z, d)
  BY <1>1, <1>2 DEF Good, Restream
<1> QED
  BY <1>1, <1>3 DEF Rises, Restream, Shape, Sess

\* A frame is sent: it comes after all that the page knows.
Sends(c, f) == [c EXCEPT !.es.wire = Append(@, f), !.es.ord = @ + 1]

LEMMA SendsRestreams ==
    ASSUME NEW c, Shape(c), NEW f \in Event
    PROVE  /\ Restream(c, Sends(c, f)) /\ Sends(c, f).es.wire = Append(c.es.wire, f)
           /\ Sends(c, f).es.cursor = c.es.cursor
<1> DEFINE d == Sends(c, f)
           q == Append(c.es.wire, f)
           n == c.es.ord + 1
<1>1. c.es \in Source /\ c.es.wire \in Seq(Part \cup Event) /\ n \in Int
  BY DEF Shape, Source
<1>2. q \in Seq(Part \cup Event)
  BY <1>1
<1>3. d.es = [c.es EXCEPT !.wire = q, !.ord = n]
  BY DEF Shape, Fields, Sends
<1> HIDE DEF n, q
<1>4. d.es \in Source /\ d.es.wire = q /\ d.es.cursor = c.es.cursor
  BY ONLY <1>1, <1>2, <1>3 DEF Source
<1>5. Restream(c, d)
  BY <1>4 DEF Restream, Shape, Fields, Sends
<1> QED
  BY <1>4, <1>5 DEF q

LEMMA SentKeeps ==
    ASSUME NEW z, NEW c, Good(z, c), NEW f \in Event, Sound(z, f),
           \A x \in Past(c) : Before(z, x, f),
           \A g \in Of(c.es.wire) : Tells(g) => Before(z, Says(g), f)
    PROVE  Good(z, Sends(c, f)) /\ Rises(c, Sends(c, f))
<1> DEFINE d == Sends(c, f)
           q == Append(c.es.wire, f)
<1>1. Restream(c, d) /\ d.es.wire = q /\ d.es.cursor = c.es.cursor
  BY SendsRestreams DEF Good
<1>2. /\ DOMAIN q = 1..(Len(c.es.wire) + 1)
      /\ q[Len(c.es.wire) + 1] = f /\ Len(c.es.wire) \in Nat
      /\ DOMAIN c.es.wire = 1..Len(c.es.wire)
      /\ \A i \in DOMAIN c.es.wire : q[i] = c.es.wire[i]
  <2>1. c.es.wire \in Seq(Part \cup Event)
    BY DEF Good, Shape, Source
  <2> QED
    BY <2>1
<1> HIDE DEF d, q
<1>3. \A g \in Of(q) : g \in Of(c.es.wire) \/ g = f
  BY <1>2 DEF Of
<1>4. InOrder(z, q)
  <2> SUFFICES ASSUME NEW i \in DOMAIN q, NEW j \in DOMAIN q, i < j, Tells(q[i])
               PROVE  Before(z, Says(q[i]), q[j])
    BY DEF InOrder
  <2>1. i \in DOMAIN c.es.wire /\ q[i] = c.es.wire[i] /\ q[i] \in Of(c.es.wire)
    <3>1. i \in DOMAIN c.es.wire
      BY <1>2
    <3> QED
      BY <3>1, <1>2 DEF Of
  <2>2. CASE j \in DOMAIN c.es.wire
    BY <2>1, <2>2, <1>2 DEF Good, InOrder
  <2>3. CASE j = Len(c.es.wire) + 1
    BY <2>1, <2>3, <1>2
  <2> QED
    BY <2>2, <2>3, <1>2
<1>5. Good(z, d) /\ Rises(c, d)
  BY <1>1, <1>3, <1>4, RestreamGood DEF Good
<1> QED
  BY <1>5 DEF d

LEMMA ChangeGrows ==
    ASSUME Store(srv), NEW s \in Sess, Change(s)
    PROVE  /\ Grows(srv, srv')
           /\ \A x \in Nat, f \in Event :
                 x <= srv.val["frontier"] /\ f.n = srv.head + 1 /\ f.s = s
                   /\ f.v = srv.val[s] + 1 => Before(srv', x, f) /\ Sound(srv', f)
<1> DEFINE v == srv.val[s] + 1
           e == [s |-> s, v |-> v]
           q == Append(srv.ring, e)
           r == IF Len(q) > RingSize THEN Tail(q) ELSE q
           L == Len(srv.ring)
<1>0. /\ srv.ring \in Seq(Stored) /\ L \in Nat /\ srv.head \in Nat /\ L <= srv.head
      /\ srv.val \in [Sess -> Nat] /\ srv.epoch \in Epochs
      /\ DOMAIN srv = {"epoch", "head", "ring", "val"}
  BY DEF Store
<1>1. v \in Nat /\ e \in Stored
  BY <1>0 DEF Stored
<1>2. srv' = [srv EXCEPT !.head = @ + 1, !.val[s] = v, !.ring = r]
  BY DEF Change
<1>3. /\ q \in Seq(Stored) /\ Len(q) = L + 1 /\ q[L + 1] = e
      /\ \A i \in 1..L : q[i] = srv.ring[i]
  BY <1>0, <1>1
<1> HIDE DEF q, e, v
<1>4. /\ srv'.head = srv.head + 1 /\ srv'.ring = r /\ srv'.epoch = srv.epoch
      /\ srv'.val = [srv.val EXCEPT ![s] = v] /\ DOMAIN srv' = {"epoch", "head", "ring", "val"}
  BY <1>0, <1>2
<1>5. PICK k \in {0, 1} : /\ r \in Seq(Stored) /\ Len(r) = L + 1 - k
                          /\ \A i \in 1..Len(r) : r[i] = q[i + k]
  <2>1. CASE Len(q) > RingSize
    <3>1. Tail(q) \in Seq(Stored) /\ Len(Tail(q)) = L
          /\ \A i \in 1..L : Tail(q)[i] = q[i + 1]
      BY <1>0, <1>3
    <3> QED
      BY <3>1, <2>1, <1>0
  <2>2. CASE ~(Len(q) > RingSize)
    <3>1. r = q /\ \A i \in 1..Len(q) : q[i] = q[i + 0]
      BY <2>2, <1>0, <1>3
    <3> QED
      BY <3>1, <1>0, <1>3
  <2> QED
    BY <2>1, <2>2
<1> HIDE DEF r, L
<1>6. /\ e.s = s /\ e.v = v /\ srv'.val \in [Sess -> Nat]
      /\ \A i \in 1..L : srv.ring[i] \in Stored /\ srv.ring[i].v \in Nat
  <2>1. e.s = s /\ e.v = v
    BY DEF e
  <2>2. srv'.val \in [Sess -> Nat]
    BY <1>0, <1>1, <1>4
  <2>3. \A i \in 1..L : srv.ring[i] \in Stored
    BY <1>0 DEF L
  <2> QED
    BY <2>1, <2>2, <2>3 DEF Stored
<1>7. /\ s = "frontier" => v = srv.val["frontier"] + 1
      /\ srv'.val["frontier"] = IF s = "frontier" THEN v ELSE srv.val["frontier"]
      /\ srv.val["frontier"] \in Nat
  BY <1>0, <1>4 DEF Sess, v
<1>8. \A i \in 1..Len(r) : \/ i + k \in 1..L /\ r[i] = srv.ring[i + k]
                           \/ i + k = L + 1 /\ r[i] = e
  <2> TAKE i \in 1..Len(r)
  <2>1. i + k \in 1..(L + 1) /\ r[i] = q[i + k]
    BY <1>0, <1>5
  <2> QED
    BY <2>1, <1>0, <1>3 DEF L
<1>9. Store(srv')
  <2>1. Len(srv'.ring) <= srv'.head /\ srv'.head \in Nat
    BY <1>0, <1>4, <1>5
  <2>2. ASSUME NEW i \in 1..Len(r), r[i].s = "frontier"
        PROVE  r[i].v <= srv'.val["frontier"]
    <3>1. CASE i + k \in 1..L
      <4>1. r[i] = srv.ring[i + k]
        BY <3>1, <1>0, <1>8
      <4>2. r[i].v <= srv.val["frontier"] /\ r[i].v \in Nat
        BY <4>1, <2>2, <3>1, <1>6 DEF Store, L
      <4> QED
        BY <4>2, <1>1, <1>7
    <3>2. CASE r[i] = e
      BY <3>2, <2>2, <1>1, <1>6, <1>7
    <3> QED
      BY <3>1, <3>2, <1>8
  <2>3. ASSUME NEW i \in 1..Len(r), NEW j \in i..Len(r), r[i].s = "frontier", r[j].s = "frontier"
        PROVE  r[i].v <= r[j].v
    <3>0. j \in 1..Len(r) /\ i <= j
      BY <1>0, <1>5
    <3>1. CASE j + k \in 1..L
      <4>1. i + k \in 1..L /\ j + k \in (i + k)..L
        BY <3>0, <3>1, <1>0, <1>5
      <4>2. r[i] = srv.ring[i + k] /\ r[j] = srv.ring[j + k]
        BY <3>0, <3>1, <4>1, <1>0, <1>8
      <4> QED
        BY <4>1, <4>2, <2>3 DEF Store, L
    <3>2. CASE r[j] = e
      <4>1. s = "frontier" /\ r[j].v = v
        BY <3>2, <2>3, <1>6
      <4> QED
        BY <4>1, <2>2, <2>3, <1>7
    <3> QED
      BY <3>0, <3>1, <3>2, <1>8
  <2> QED
    BY <2>1, <2>2, <2>3, <1>0, <1>4, <1>5, <1>6 DEF Store
<1>10. ASSUME NEW x \in Nat, NEW m \in Int, x <= srv.val["frontier"], After(srv, x, m)
       PROVE  After(srv', x, m)
  <2> SUFFICES ASSUME NEW i \in 1..Len(r), r[i].s = "frontier",
                      m < srv'.head - Len(r) + i
               PROVE  x <= r[i].v
    BY <1>4 DEF After
  <2>1. CASE i + k \in 1..L
    <3>1. r[i] = srv.ring[i + k]
      BY <2>1, <1>0, <1>8
    <3>2. m < srv.head - L + (i + k)
      BY <1>0, <1>4, <1>5
    <3> QED
      BY <3>1, <3>2, <2>1, <1>10 DEF After, L
  <2>2. CASE r[i] = e
    BY <2>2, <1>10, <1>6, <1>7
  <2> QED
    BY <2>1, <2>2, <1>8
<1>11. \A x : After(srv', x, srv.head + 1)
  BY <1>0, <1>4, <1>5 DEF After
<1>12. srv.val["frontier"] <= srv'.val["frontier"]
  BY <1>1, <1>7
<1>13. Grows(srv, srv')
  BY <1>9, <1>10, <1>12 DEF Grows
<1>14. ASSUME NEW x \in Nat, NEW f \in Event, x <= srv.val["frontier"], f.n = srv.head + 1,
              f.s = s, f.v = v
       PROVE  Before(srv', x, f) /\ Sound(srv', f)
  <2>1. Tells(f) => s = "frontier" /\ Says(f) = v
    BY <1>14 DEF Tells, Says, Event
  <2>2. Tells(f) => x <= Says(f) /\ Says(f) <= srv'.val["frontier"]
    BY <2>1, <1>14, <1>1, <1>7
  <2> QED
    BY <2>2, <1>11, <1>14 DEF Before, Sound
<1> QED
  BY <1>13, <1>14 DEF v

LEMMA Joined ==
    ASSUME NEW S, NEW a \in Seq(S), NEW b \in Seq(S)
    PROVE  /\ a \o b \in Seq(S) /\ Len(a \o b) = Len(a) + Len(b)
           /\ \A i \in 1..Len(a) : (a \o b)[i] = a[i]
           /\ \A i \in 1..Len(b) : (a \o b)[Len(a) + i] = b[i]
<1>1. a \o b \in Seq(S) /\ Len(a \o b) = Len(a) + Len(b)
  OBVIOUS
<1>2. \A i \in 1..Len(a) : (a \o b)[i] = a[i]
  OBVIOUS
<1>3. \A i \in 1..Len(b) : (a \o b)[Len(a) + i] = b[i]
  OBVIOUS
<1> QED
  BY <1>1, <1>2, <1>3

\* What an accepted stream sends: the replay, then the capture.
Follows(z, es, q) ==
    /\ q \in Seq(Part \cup Event) /\ InOrder(z, q)
    /\ \A f \in Of(q) :
          /\ Sound(z, f)
          /\ \A x \in Nat : x <= z.val["frontier"] /\ (es.cursor >= 0 => After(z, x, es.cursor))
                             => Before(z, x, f)
    /\ \A j \in DOMAIN q : q[j].k = "detail" => j > 1 /\ q[j - 1].k = "tree"

LEMMA AcceptFollows ==
    ASSUME Store(srv), NEW es \in Source
    PROVE  /\ Follows(srv, es, Replayed(es) \o Capture(es))
           /\ Len(Replayed(es)) \in Int
<1> DEFINE re == Replayed(es)
           ca == Capture(es)
           q == re \o ca
           N == Len(re)
           L == Len(srv.ring)
           V == srv.val["frontier"]
<1>0. /\ srv.ring \in Seq(Stored) /\ L \in Nat /\ srv.head \in Nat /\ L <= srv.head
      /\ srv.val \in [Sess -> Nat] /\ V \in Nat /\ srv.epoch \in Epochs /\ es.cursor \in Int
  BY DEF Store, Sess, Source
<1>1. \A i \in 1..L : srv.ring[i] \in Stored
  BY <1>0
<1>2. /\ re \in Seq(Event)
      /\ \A i \in DOMAIN re :
            LET j == es.cursor - Floor + i IN
            /\ i \in 1..N /\ es.cursor >= 0 /\ j \in 1..L /\ re[i].n = es.cursor + i
            /\ re[i].n = Floor + j /\ re[i].s = srv.ring[j].s /\ re[i].v = srv.ring[j].v
            /\ re[i].k = "event" /\ re[i].n <= srv.head
  <2>1. CASE ~Replays(es)
    <3>1. re = <<>>
      BY <2>1 DEF Replayed
    <3> QED
      BY <3>1
  <2>2. CASE Replays(es)
    <3> DEFINE n == srv.head - es.cursor
               g(i) == [k |-> "event", n |-> es.cursor + i, ord |-> i,
                        s |-> srv.ring[es.cursor - Floor + i].s,
                        v |-> srv.ring[es.cursor - Floor + i].v]
    <3>1. Floor \in Nat /\ Floor = srv.head - L /\ Floor <= es.cursor /\ es.cursor <= srv.head
      BY <2>2, <1>0 DEF Replays, Floor
    <3>2. n \in Nat /\ es.cursor \in Nat
      BY <3>1, <1>0
    <3>3. re = [i \in 1..n |-> g(i)]
      BY <2>2 DEF Replayed
    <3>4. \A i \in 1..n : es.cursor - Floor + i \in 1..L
      BY <3>1, <3>2, <1>0
    <3>5. \A i \in 1..n : g(i) \in Event
      <4> TAKE i \in 1..n
      <4>1. srv.ring[es.cursor - Floor + i] \in Stored
        BY <3>4, <1>1
      <4> QED
        BY <4>1, <3>2 DEF Stored, Event
    <3> HIDE DEF re, g
    <3>6. re \in Seq(Event) /\ DOMAIN re = 1..n /\ N = n
      BY <3>2, <3>3, <3>5
    <3>7. \A i \in 1..n : re[i] = g(i)
      BY <3>3
    <3> SUFFICES ASSUME NEW i \in 1..n
                 PROVE  LET j == es.cursor - Floor + i IN
                        /\ i \in 1..N /\ es.cursor >= 0 /\ j \in 1..L /\ re[i].n = es.cursor + i
                        /\ re[i].n = Floor + j /\ re[i].s = srv.ring[j].s
                        /\ re[i].v = srv.ring[j].v
                        /\ re[i].k = "event" /\ re[i].n <= srv.head
      BY <3>6
    <3>8. /\ re[i].n = es.cursor + i /\ re[i].k = "event"
          /\ re[i].s = srv.ring[es.cursor - Floor + i].s
          /\ re[i].v = srv.ring[es.cursor - Floor + i].v
      <4>1. re[i] = g(i)
        BY <3>7
      <4> QED
        BY <4>1 DEF g
    <3>9. es.cursor + i = Floor + (es.cursor - Floor + i) /\ es.cursor + i <= srv.head
      BY <3>1, <3>2, <1>0
    <3> QED
      BY <3>2, <3>4, <3>6, <3>8, <3>9
  <2> QED
    BY <2>1, <2>2
<1>3. /\ ca \in Seq(Part) /\ Len(ca) = 3
      /\ ca[1].k = "tree" /\ ca[2].k = "detail" /\ ca[3].k = "complete"
      /\ \A i \in 1..3 : ca[i] \in Part /\ ca[i].n = srv.head /\ ca[i].v = srv.val
  <2> DEFINE p(k) == [k |-> k, e |-> srv.epoch, n |-> srv.head, v |-> srv.val,
                      gap |-> es.cursor >= 0 /\ ~Replays(es)]
  <2>1. ca = <<p("tree"), p("detail"), p("complete")>>
    BY DEF Capture
  <2>2. \A k \in {"tree", "detail", "complete"} :
            p(k) \in Part /\ p(k).n = srv.head /\ p(k).v = srv.val /\ p(k).k = k
    BY <1>0 DEF Part
  <2> HIDE DEF p, ca
  <2> QED
    BY <2>1, <2>2
<1> HIDE DEF re, ca
<1>4. /\ N \in Nat /\ DOMAIN re = 1..N /\ q \in Seq(Part \cup Event) /\ DOMAIN q = 1..(N + 3)
      /\ \A i \in 1..N : q[i] = re[i]
      /\ \A i \in 1..3 : q[N + i] = ca[i]
  <2>1. re \in Seq(Part \cup Event) /\ ca \in Seq(Part \cup Event)
    BY <1>2, <1>3
  <2>2. N \in Nat /\ DOMAIN re = 1..N /\ Len(ca) = 3
    BY <2>1, <1>3
  <2>3. /\ q \in Seq(Part \cup Event) /\ Len(q) = N + 3
        /\ \A i \in 1..N : q[i] = re[i]
        /\ \A i \in 1..3 : q[N + i] = ca[i]
    <3> DEFINE S == Part \cup Event
    <3>1. re \in Seq(S) /\ ca \in Seq(S)
      BY <2>1
    <3> HIDE DEF S, N
    <3>2. /\ q \in Seq(S) /\ Len(q) = Len(re) + Len(ca)
          /\ \A i \in 1..Len(re) : q[i] = re[i]
          /\ \A i \in 1..Len(ca) : q[Len(re) + i] = ca[i]
      BY <3>1, Joined
    <3> QED
      BY <2>2, <3>2 DEF N, S
  <2> QED
    BY <2>2, <2>3
<1> HIDE DEF q
<1>5. \A i \in DOMAIN q : i \in 1..N \/ \E j \in 1..3 : i = N + j
  <2> TAKE i \in DOMAIN q
  <2>1. i \in 1..N \/ i - N \in 1..3
    BY <1>4
  <2>2. i = N + (i - N)
    BY <1>4
  <2> QED
    BY <2>1, <2>2
<1>6. \A x : After(srv, x, srv.head)
  BY <1>0 DEF After
<1>7. ASSUME NEW j \in 1..3
      PROVE  /\ q[N + j] \in Part /\ Says(q[N + j]) = V /\ Sound(srv, q[N + j])
             /\ \A x \in Nat : x <= V => Before(srv, x, q[N + j])
  <2>1. q[N + j] \in Part /\ q[N + j].n = srv.head /\ Says(q[N + j]) = V
    BY <1>3, <1>4, PartTells
  <2> QED
    BY <2>1, <1>0, <1>6 DEF Before, Sound
<1>8. ASSUME NEW i \in 1..N
      PROVE  /\ Sound(srv, q[i]) /\ q[i].k = "event" /\ q[i].n \in Nat /\ Says(q[i]) \in Nat
             /\ es.cursor >= 0 /\ es.cursor <= q[i].n
             /\ \A x \in Nat : x <= V /\ After(srv, x, es.cursor) => Before(srv, x, q[i])
  <2> DEFINE j == es.cursor - Floor + i
             f == q[i]
  <2>1. /\ f = re[i] /\ f \in Event /\ f.k = "event" /\ es.cursor >= 0 /\ j \in 1..L
        /\ f.n = es.cursor + i /\ f.n = Floor + j
        /\ f.s = srv.ring[j].s /\ f.v = srv.ring[j].v
    BY <1>2, <1>4
  <2> HIDE DEF f, j
  <2>2. f.n \in Nat /\ Says(f) = f.v /\ f.v \in Nat /\ (Tells(f) <=> f.s = "frontier")
    BY <2>1 DEF Says, Tells, Event
  <2>3. j \in Int /\ Floor = srv.head - L
    BY <2>1 DEF Floor
  <2>4. Sound(srv, f)
    <3> SUFFICES ASSUME f.s = "frontier" PROVE f.v <= V /\ After(srv, f.v, f.n)
      BY <2>2 DEF Sound
    <3>1. f.v <= V
      BY <2>1 DEF Store
    <3>2. ASSUME NEW m \in 1..L, srv.ring[m].s = "frontier", f.n < srv.head - L + m
          PROVE  f.v <= srv.ring[m].v
      <4>1. m \in j..L
        BY <3>2, <2>1, <2>3, <1>0
      <4> QED
        BY <4>1, <3>2, <2>1 DEF Store
    <3> QED
      BY <3>1, <3>2 DEF After
  <2>5. ASSUME NEW x \in Nat, x <= V, After(srv, x, es.cursor)
        PROVE  Before(srv, x, f)
    <3>1. After(srv, x, f.n)
      BY <2>1, <2>2, <2>5, <1>0, AfterLater
    <3>2. f.s = "frontier" => x <= f.v
      <4>1. es.cursor < srv.head - L + j
        BY <2>1, <2>3, <1>0, <1>4
      <4> QED
        BY <4>1, <2>1, <2>5 DEF After
    <3> QED
      BY <3>1, <3>2, <2>2 DEF Before
  <2>6. es.cursor <= f.n
    BY <2>1, <1>0, <1>4
  <2> QED
    BY <2>1, <2>2, <2>4, <2>5, <2>6 DEF f
<1>9. InOrder(srv, q)
  <2> SUFFICES ASSUME NEW i \in DOMAIN q, NEW j \in DOMAIN q, i < j, Tells(q[i])
               PROVE  Before(srv, Says(q[i]), q[j])
    BY DEF InOrder
  <2>1. CASE i \in 1..N
    <3>1. Says(q[i]) \in Nat /\ Says(q[i]) <= V /\ After(srv, Says(q[i]), q[i].n)
      BY <2>1, <1>8 DEF Sound
    <3>2. CASE j \in 1..N
      <4>1. After(srv, Says(q[i]), q[j].n) /\ q[j].n >= q[i].n
        <5>1. q[i].n = es.cursor + i /\ q[j].n = es.cursor + j
          BY <2>1, <3>2, <1>2, <1>4
        <5>2. q[i].n <= q[j].n
          BY <5>1, <2>1, <3>2, <1>0, <1>4
        <5> QED
          BY <5>2, <2>1, <3>1, <3>2, <1>8, AfterLater
      <4>2. Tells(q[j]) => Says(q[i]) <= Says(q[j])
        <5> DEFINE m == es.cursor - Floor + j
        <5>1. /\ m \in 1..L /\ q[j].n = Floor + m /\ q[j].s = srv.ring[m].s
              /\ q[j].v = srv.ring[m].v /\ q[j].k = "event"
              /\ q[i].n = es.cursor + i /\ q[j].n = es.cursor + j
          BY <2>1, <3>2, <1>2, <1>4
        <5>2. q[i].n < srv.head - L + m
          BY <5>1, <2>1, <3>2, <1>0, <1>4 DEF Floor
        <5> HIDE DEF m
        <5> QED
          BY <5>1, <5>2, <3>1 DEF After, Tells, Says
      <4> QED
        BY <4>1, <4>2 DEF Before
    <3>3. CASE \E m \in 1..3 : j = N + m
      BY <3>1, <3>3, <1>7
    <3> QED
      BY <3>2, <3>3, <1>5
  <2>2. CASE \E m \in 1..3 : i = N + m
    <3>1. Says(q[i]) = V
      BY <2>2, <1>7
    <3>2. \E m \in 1..3 : j = N + m
      BY <2>2, <1>4, <1>5
    <3> QED
      BY <3>1, <3>2, <1>0, <1>7
  <2> QED
    BY <2>1, <2>2, <1>5
<1>10. ASSUME NEW j \in DOMAIN q, q[j].k = "detail"
       PROVE  j > 1 /\ q[j - 1].k = "tree"
  <2>1. PICK m \in 1..3 : j = N + m
    BY <1>5, <1>8, <1>10
  <2>2. ca[m].k = "detail"
    BY <2>1, <1>4, <1>10
  <2>3. m = 2
    BY <2>2, <1>3
  <2>4. j - 1 = N + 1 /\ j > 1
    BY <2>1, <2>3, <1>4
  <2> QED
    BY <2>4, <1>3, <1>4
<1>11. \A f \in Of(q) :
          /\ Sound(srv, f)
          /\ \A x \in Nat : x <= V /\ (es.cursor >= 0 => After(srv, x, es.cursor))
                             => Before(srv, x, f)
  BY <1>5, <1>7, <1>8 DEF Of
<1>12. Follows(srv, es, q)
  BY <1>4, <1>9, <1>10, <1>11 DEF Follows
<1> QED
  BY <1>4, <1>12 DEF q, re, ca

LEMMA AcceptGood ==
    ASSUME NEW z, NEW c, Good(z, c), NEW d, Restream(c, d), d.es.cursor = c.es.cursor,
           Follows(z, c.es, d.es.wire)
    PROVE  Good(z, d) /\ Rises(c, d) /\ Paired(d)
<1>1. Past(c) \subseteq Nat
  BY Sets DEF Good
<1>2. \A x \in Past(c) : /\ d.es.cursor >= 0 => After(z, x, d.es.cursor)
                         /\ \A f \in Of(d.es.wire) : Before(z, x, f)
  BY <1>1 DEF Good, Follows
<1>3. Good(z, d) /\ Rises(c, d)
  BY <1>2, RestreamGood DEF Follows
<1>4. d.es.wire \in Seq(Part \cup Event)
  BY DEF Follows
<1>5. Paired(d)
  BY <1>4 DEF Paired, Follows
<1> QED
  BY <1>3, <1>5

LEMMA Removed ==
    ASSUME NEW S, NEW q \in Seq(S), NEW i \in 1..Len(q)
    PROVE  /\ RemoveAt(q, i) \in Seq(S) /\ Len(RemoveAt(q, i)) = Len(q) - 1
           /\ \A j \in 1..(Len(q) - 1) : RemoveAt(q, i)[j] = IF j < i THEN q[j] ELSE q[j + 1]
<1> DEFINE a == SubSeq(q, 1, i - 1)
           b == SubSeq(q, i + 1, Len(q))
<1>1. /\ a \in Seq(S) /\ Len(a) = i - 1
      /\ \A j \in 1..(i - 1) : a[j] = q[j]
  OBVIOUS
<1>2. /\ b \in Seq(S) /\ Len(b) = Len(q) - i
      /\ \A j \in 1..(Len(q) - i) : b[j] = q[i + j]
  OBVIOUS
<1>3. RemoveAt(q, i) = a \o b
  BY DEF RemoveAt
<1> HIDE DEF a, b
<1>4. /\ a \o b \in Seq(S) /\ Len(a \o b) = Len(q) - 1
      /\ \A j \in 1..(i - 1) : (a \o b)[j] = q[j]
      /\ \A j \in 1..(Len(q) - i) : (a \o b)[i - 1 + j] = q[i + j]
  <2>1. /\ a \o b \in Seq(S) /\ Len(a \o b) = Len(a) + Len(b)
        /\ \A j \in 1..Len(a) : (a \o b)[j] = a[j]
        /\ \A j \in 1..Len(b) : (a \o b)[Len(a) + j] = b[j]
    <3>1. a \in Seq(S) /\ b \in Seq(S)
      BY <1>1, <1>2
    <3> QED
      BY ONLY <3>1, Joined
  <2>2. Len(q) \in Nat /\ i \in Int
    OBVIOUS
  <2> QED
    BY <2>1, <2>2, <1>1, <1>2
<1>5. ASSUME NEW j \in 1..(Len(q) - 1)
      PROVE  (a \o b)[j] = IF j < i THEN q[j] ELSE q[j + 1]
  <2>1. CASE j < i
    BY <2>1, <1>4
  <2>2. CASE ~(j < i)
    <3>1. j - (i - 1) \in 1..(Len(q) - i) /\ i - 1 + (j - (i - 1)) = j /\ i + (j - (i - 1)) = j + 1
      BY <2>2
    <3>2. (a \o b)[i - 1 + (j - (i - 1))] = q[i + (j - (i - 1))]
      BY <3>1, <1>4
    <3> QED
      BY <2>2, <3>1, <3>2
  <2> QED
    BY <2>1, <2>2
<1> QED
  BY <1>3, <1>4, <1>5

LEMMA LoseKeeps ==
    ASSUME NEW z, NEW c, Good(z, c), Paired(c), NEW i \in DOMAIN c.es.wire,
           c.es.wire[i].k = "event"
    PROVE  LET d == [c EXCEPT !.es.wire = RemoveAt(@, i)]
           IN  Good(z, d) /\ Rises(c, d) /\ Paired(d) /\ Restream(c, d)
<1> DEFINE d == [c EXCEPT !.es.wire = RemoveAt(@, i)]
           w == c.es.wire
           q == RemoveAt(c.es.wire, i)
<1>0. Shape(c) /\ c.es \in Source /\ w \in Seq(Part \cup Event) /\ i \in 1..Len(w)
  BY DEF Good, Shape, Source
<1>1. /\ q \in Seq(Part \cup Event) /\ Len(w) \in Nat /\ DOMAIN w = 1..Len(w)
      /\ DOMAIN q = 1..(Len(w) - 1)
      /\ \A j \in 1..(Len(w) - 1) : q[j] = IF j < i THEN w[j] ELSE w[j + 1]
  <2> DEFINE S == Part \cup Event
  <2>1. w \in Seq(S)
    BY <1>0
  <2> HIDE DEF S
  <2>2. /\ q \in Seq(S) /\ Len(q) = Len(w) - 1
        /\ \A j \in 1..(Len(w) - 1) : q[j] = IF j < i THEN w[j] ELSE w[j + 1]
    BY <2>1, <1>0, Removed
  <2> HIDE DEF q, w
  <2>3. DOMAIN q = 1..Len(q) /\ Len(w) \in Nat /\ DOMAIN w = 1..Len(w)
    BY <2>1, <2>2
  <2> QED
    BY <2>2, <2>3 DEF S
<1>2. Restream(c, d) /\ d.es.wire = q /\ d.es.cursor = c.es.cursor /\ d.waits = c.waits
  <2>1. d.es = [c.es EXCEPT !.wire = q]
    BY <1>0 DEF Shape, Fields
  <2>2. d.es \in Source /\ d.es.wire = q /\ d.es.cursor = c.es.cursor
    <3> DEFINE S == Seq(Part \cup Event)
    <3>1. c.es \in [st : {"null", "connecting", "open", "closed"}, cursor : Int,
                     epoch : Int, wire : S, ord : Int, stalled : BOOLEAN] /\ q \in S
      BY <1>0, <1>1 DEF Source
    <3> HIDE DEF q, d, S
    <3>2. /\ d.es \in [st : {"null", "connecting", "open", "closed"}, cursor : Int,
                        epoch : Int, wire : S, ord : Int, stalled : BOOLEAN]
          /\ d.es.wire = q /\ d.es.cursor = c.es.cursor
      BY ONLY <2>1, <3>1
    <3> QED
      BY ONLY <3>2 DEF Source, S
  <2> QED
    BY <2>2, <1>0 DEF Restream, Shape, Fields
<1> HIDE DEF d, q, w
<1> DEFINE o(j) == IF j < i THEN j ELSE j + 1
<1>3. \A j \in DOMAIN q : o(j) \in DOMAIN w /\ q[j] = w[o(j)] /\ o(j) \in Int
  BY <1>0, <1>1
<1>4. \A j, m \in DOMAIN q : j < m => o(j) < o(m)
  <2> TAKE j, m \in DOMAIN q
  <2>1. j \in Int /\ m \in Int /\ i \in Int
    BY <1>0, <1>1
  <2> QED
    BY <2>1
<1>5. Of(q) \subseteq Of(w) /\ InOrder(z, q)
  <2>1. InOrder(z, w)
    BY DEF Good, w
  <2> HIDE DEF o
  <2> QED
    BY <2>1, <1>3, <1>4 DEF Of, InOrder
<1>6. Good(z, d) /\ Rises(c, d)
  BY <1>2, <1>5, RestreamGood DEF Good, w
<1>7. Paired(d)
  <2> SUFFICES ASSUME NEW j \in DOMAIN q, q[j].k = "detail"
               PROVE  IF j = 1 THEN c.waits = <<>> ELSE q[j - 1].k = "tree"
    BY <1>2 DEF Paired
  <2>1. w[o(j)].k = "detail" /\ o(j) \in DOMAIN w
    BY <1>3
  <2>2. IF o(j) = 1 THEN c.waits = <<>> ELSE w[o(j) - 1].k = "tree"
    BY <2>1 DEF Paired, w
  <2>3. CASE j < i
    BY <2>2, <2>3, <1>0, <1>1
  <2>4. CASE j = i
    <3>1. w[i].k = "tree"
      BY <2>2, <2>4, <1>0, <1>1
    <3> QED
      BY <3>1 DEF w
  <2>5. CASE j > i
    <3>1. o(j) = j + 1 /\ j - 1 \in 1..(Len(w) - 1) /\ ~(j - 1 < i) /\ j # 1
      BY <2>5, <1>0, <1>1
    <3>2. w[j].k = "tree" /\ q[j - 1] = w[j]
      BY <2>2, <3>1, <1>0, <1>1
    <3> QED
      BY <3>1, <3>2
  <2> QED
    BY <2>3, <2>4, <2>5, <1>0, <1>1
<1> QED
  BY <1>2, <1>6, <1>7 DEF d

-----------------------------------------------------------------------------
(* The actions.                                                            *)

LEMMA ListenerHears ==
    ASSUME NEW z, Store(z), NEW c, Good(z, c), AtRest(c), NEW f \in Part \cup Event,
           InHand(z, c, f), c.es.st = "open", f.k = "detail" => c.waits = <<>>
    PROVE  Hears(z, c, Listener(c, f)) /\ (f.k = "tree" => Listener(c, f).waits = <<>>)
<1>1. \A d : Keeps(z, c, d) => Hears(z, c, d)
  BY DEF Keeps, Narrows, Hears
<1>2. CASE f.k = "tree"
  <2>1. f \in Part /\ Listener(c, f) = OnTree(c, f)
    BY <1>2 DEF Listener, Event
  <2> QED
    BY <2>1, <1>1, OnTreeKeeps
<1>3. CASE f.k = "detail"
  <2>1. f \in Part /\ Listener(c, f) = OnDetail(c, f)
    BY <1>3 DEF Listener, Event
  <2> QED
    BY <2>1, <1>1, <1>3, OnDetailKeeps
<1>4. CASE f.k = "complete"
  <2>1. Listener(c, f) = OnComplete(c, f)
    BY <1>4 DEF Listener
  <2> QED
    BY <2>1, <1>1, <1>4, OnCompleteKeeps
<1>5. CASE f.k = "event"
  <2>1. f \in Event /\ Listener(c, f) = OnEvent(c, f)
    BY <1>5 DEF Listener, Part
  <2> QED
    BY <2>1, <1>5, OnEventHears
<1>6. f.k \in {"tree", "detail", "complete", "event"}
  BY DEF Part, Event
<1> QED
  BY <1>2, <1>3, <1>4, <1>5, <1>6

LEMMA HeadInHand ==
    ASSUME NEW z, Store(z), NEW c, Good(z, c), c.es.wire # <<>>
    PROVE  LET f == Head(c.es.wire)
               d == [c EXCEPT !.es.wire = Tail(@), !.es.cursor = f.n]
           IN  /\ f \in Part \cup Event /\ f = c.es.wire[1] /\ 1 \in DOMAIN c.es.wire
               /\ Restream(c, d) /\ d.es.wire = Tail(c.es.wire) /\ d.es.st = c.es.st
               /\ Good(z, d) /\ Rises(c, d) /\ InHand(z, d, f)
               /\ \A j \in DOMAIN d.es.wire :
                     j \in Nat /\ j >= 1 /\ j + 1 \in DOMAIN c.es.wire
                     /\ d.es.wire[j] = c.es.wire[j + 1]
<1> DEFINE w == c.es.wire
           f == Head(w)
           q == Tail(w)
           d == [c EXCEPT !.es.wire = Tail(@), !.es.cursor = f.n]
<1>0. Shape(c) /\ c.es \in Source /\ w \in Seq(Part \cup Event) /\ w # <<>>
  BY DEF Good, Shape, Source
<1>1. /\ f \in Part \cup Event /\ f = w[1] /\ 1 \in DOMAIN w
      /\ q \in Seq(Part \cup Event)
      /\ \A j \in DOMAIN q : j \in Nat /\ j >= 1 /\ j + 1 \in DOMAIN w /\ q[j] = w[j + 1]
  <2> DEFINE S == Part \cup Event
  <2>1. w \in Seq(S) /\ w # <<>>
    BY <1>0
  <2> HIDE DEF S, w
  <2>2. f \in S /\ f = w[1] /\ Len(w) \in Nat /\ Len(w) >= 1 /\ DOMAIN w = 1..Len(w)
    BY <2>1
  <2>3. q \in Seq(S) /\ Len(q) = Len(w) - 1 /\ \A j \in 1..(Len(w) - 1) : q[j] = w[j + 1]
    BY <2>1
  <2>4. DOMAIN q = 1..(Len(w) - 1)
    BY <2>3
  <2> HIDE DEF q, f
  <2>5. ASSUME NEW j \in DOMAIN q
        PROVE  j \in Nat /\ j >= 1 /\ j + 1 \in DOMAIN w /\ q[j] = w[j + 1]
    <3>1. j \in 1..(Len(w) - 1)
      BY <2>4
    <3> QED
      BY <3>1, <2>2, <2>3
  <2>6. 1 \in DOMAIN w
    BY <2>2
  <2>7. f \in Part \cup Event /\ q \in Seq(Part \cup Event)
    BY <2>2, <2>3 DEF S
  <2> QED
    BY <2>2, <2>5, <2>6, <2>7
<1> HIDE DEF f
<1>2. f.n \in Nat /\ Says(f) \in Nat
  BY <1>1, SaysNat
<1>3. Restream(c, d) /\ d.es.wire = q /\ d.es.cursor = f.n /\ d.es.st = c.es.st
  <2>1. d.es = [c.es EXCEPT !.wire = q, !.cursor = f.n]
    BY <1>0 DEF Shape, Fields
  <2>2. d.es \in Source /\ d.es.wire = q /\ d.es.cursor = f.n /\ d.es.st = c.es.st
    <3>1. c.es \in Source /\ q \in Seq(Part \cup Event) /\ f.n \in Int
      BY <1>0, <1>1, <1>2
    <3> HIDE DEF q, d
    <3> QED
      BY <2>1, <3>1 DEF Source
  <2> QED
    BY <2>2, <1>0 DEF Restream, Shape, Fields
<1> HIDE DEF d, q
<1>4. f \in Of(w) /\ Of(q) \subseteq Of(w)
  BY <1>1 DEF Of
<1>5. InOrder(z, q) /\ \A g \in Of(q) : Tells(f) => Before(z, Says(f), g)
  <2>1. InOrder(z, w)
    BY DEF Good, w
  <2>2. \A j \in DOMAIN q : Tells(f) => Before(z, Says(f), q[j])
    <3> TAKE j \in DOMAIN q
    <3>1. 1 < j + 1 /\ j + 1 \in DOMAIN w /\ q[j] = w[j + 1]
      BY <1>1
    <3> QED
      BY <3>1, <2>1, <1>1 DEF InOrder
  <2>3. InOrder(z, q)
    <3> SUFFICES ASSUME NEW i \in DOMAIN q, NEW j \in DOMAIN q, i < j, Tells(q[i])
                 PROVE  Before(z, Says(q[i]), q[j])
      BY DEF InOrder
    <3>1. /\ i + 1 < j + 1 /\ i + 1 \in DOMAIN w /\ j + 1 \in DOMAIN w
          /\ q[i] = w[i + 1] /\ q[j] = w[j + 1]
      BY <1>1
    <3> QED
      BY <3>1, <2>1 DEF InOrder
  <2> QED
    BY <2>2, <2>3 DEF Of
<1>6. \A x \in Past(c) : Before(z, x, f) /\ After(z, x, f.n)
  BY <1>4 DEF Good, Before, w
<1>7. Good(z, d) /\ Rises(c, d)
  BY <1>3, <1>4, <1>5, <1>6, RestreamGood DEF Good, w
<1>8. Past(d) = Past(c)
  BY <1>3 DEF Restream, Past, Shown, Staged
<1>9. InHand(z, d, f)
  BY <1>3, <1>4, <1>5, <1>6, <1>8 DEF Good, InHand, Carried, Sound, w
<1> QED
  BY <1>1, <1>3, <1>7, <1>9 DEF d, f, q

LEMMA RisesOn ==
    ASSUME NEW z, NEW c, NEW d, NEW e, Good(z, c), Good(z, d), Good(z, e),
           Rises(c, d), Rises(d, e)
    PROVE  Rises(c, e)
<1>1. /\ c.tree["frontier"] \in Nat /\ d.tree["frontier"] \in Nat /\ e.tree["frontier"] \in Nat
      /\ c.detail["frontier"] \in Nat /\ d.detail["frontier"] \in Nat
      /\ e.detail["frontier"] \in Nat
  BY DEF Good, Shape, Sess
<1> QED
  BY <1>1 DEF Rises

\* What every step does, as long as no first epoch came with the children.
Onward == Core' /\ Rises(cli, cli')

LEMMA DeliverOnward == ASSUME Core, Deliver PROVE Onward
<1> DEFINE f == Head(cli.es.wire)
           c == [cli EXCEPT !.es.wire = Tail(@), !.es.cursor = f.n]
           d == Listener(c, f)
<1>0. Store(srv) /\ Good(srv, cli) /\ Paired(cli) /\ AtRest(cli)
  BY DEF Core
<1>1. cli.es.st = "open" /\ cli.es.wire # <<>> /\ Run(d) /\ srv' = srv
  BY DEF Deliver
<1>2. /\ f \in Part \cup Event /\ f = cli.es.wire[1] /\ 1 \in DOMAIN cli.es.wire
      /\ Restream(cli, c) /\ c.es.wire = Tail(cli.es.wire) /\ c.es.st = cli.es.st
      /\ Good(srv, c) /\ Rises(cli, c) /\ InHand(srv, c, f)
      /\ \A j \in DOMAIN c.es.wire :
            j \in Nat /\ j >= 1 /\ j + 1 \in DOMAIN cli.es.wire
            /\ c.es.wire[j] = cli.es.wire[j + 1]
  BY <1>0, <1>1, HeadInHand
<1> HIDE DEF f, c
<1>3. AtRest(c) /\ (f.k = "detail" => c.waits = <<>>)
  BY <1>0, <1>2 DEF AtRest, Restream, Paired
<1>4. Hears(srv, c, d) /\ (f.k = "tree" => d.waits = <<>>)
  BY <1>0, <1>1, <1>2, <1>3, ListenerHears
<1> HIDE DEF d
<1>5. Keeps(srv, d, cli') /\ AtRest(cli')
  BY <1>0, <1>1, <1>4, RunKeeps DEF Hears
<1>6. Good(srv, cli') /\ Rises(cli, cli')
  BY <1>0, <1>2, <1>4, <1>5, RisesOn DEF Hears, Keeps
<1>7. Paired(cli')
  <2> SUFFICES ASSUME NEW j \in DOMAIN cli'.es.wire, cli'.es.wire[j].k = "detail"
               PROVE  IF j = 1 THEN cli'.waits = <<>> ELSE cli'.es.wire[j - 1].k = "tree"
    BY DEF Paired
  <2>1. cli'.es.wire = c.es.wire
    <3>1. cli'.es.wire # <<>>
      OBVIOUS
    <3> QED
      BY <3>1, <1>4, <1>5 DEF Hears, Keeps, Narrows
  <2>2. j + 1 \in DOMAIN cli.es.wire /\ cli.es.wire[j + 1].k = "detail" /\ j \in Nat /\ j >= 1
    BY <2>1, <1>2
  <2>3. cli.es.wire[j].k = "tree"
    <3>1. j + 1 # 1 /\ (j + 1) - 1 = j
      BY <2>2
    <3> QED
      BY <3>1, <2>2, <1>0 DEF Paired
  <2>4. CASE j = 1
    BY <2>3, <2>4, <1>2, <1>4, <1>5 DEF Keeps, Narrows
  <2>5. CASE j # 1
    <3>1. j - 1 \in DOMAIN c.es.wire /\ (j - 1) + 1 = j
      <4>1. c.es.wire \in Seq(Part \cup Event) /\ j \in DOMAIN c.es.wire
        BY <2>1, <1>2 DEF Good, Shape, Source
      <4> QED
        BY <4>1, <2>2, <2>5
    <3> QED
      BY <3>1, <2>1, <2>3, <2>5, <1>2
  <2> QED
    BY <2>4, <2>5
<1> QED
  BY <1>0, <1>1, <1>5, <1>6, <1>7 DEF Onward, Core

\* The page changes to c and the microtasks run.
LEMMA RunOnward ==
    ASSUME Core, srv' = srv, NEW c, Keeps(srv, cli, c), Run(c)
    PROVE  Onward
<1>1. Keeps(srv, c, cli') /\ AtRest(cli')
  BY RunKeeps DEF Core, Keeps
<1>2. Keeps(srv, cli, cli')
  BY <1>1, KeepsOn DEF Core
<1>3. Paired(cli')
  BY <1>2 DEF Core, Keeps, Narrows, Paired
<1> QED
  BY <1>1, <1>2, <1>3 DEF Onward, Core, Keeps

LEMMA MovedOnward ==
    ASSUME Core, srv' = srv, NEW c, Moved(cli, c), Run(c)
    PROVE  Onward
BY MovedKeeps, RunOnward DEF Core

LEMMA CutOnward ==
    ASSUME Core, srv' = srv, NEW c, Cut(cli, c), Run(c)
    PROVE  Onward
BY CutKeeps, RunOnward DEF Core

\* Nothing runs after a step that leaves the page's data alone.
LEMMA SameOnward == ASSUME Core, srv' = srv, Same(cli, cli') PROVE Onward
<1>1. Keeps(srv, cli, cli')
  BY SameKeeps DEF Core
<1> QED
  BY <1>1 DEF Onward, Core, Keeps, Same, Paired, AtRest

LEMMA AsideOnward ==
    ASSUME Core, srv' = srv, Aside(cli, cli'), cli'.deferred = cli.deferred,
           cli'.exp \in Reply \cup [st : {"idle", "sent"}]
    PROVE  Onward
<1>1. cli.deferred \in Reply \cup {None} /\ (cli.deferred # None => cli.epoch # 0)
  BY DEF Core, Good, Shape
<1>2. cli'.deferred \in Reply \cup {None} /\ (cli'.deferred # None => cli'.epoch # 0)
  BY <1>1 DEF Aside
<1>3. Keeps(srv, cli, cli')
  BY <1>2, AsideKeeps DEF Core
<1>4. Paired(cli') /\ AtRest(cli')
  BY DEF Core, Aside, Paired, AtRest
<1> QED
  BY <1>3, <1>4 DEF Onward, Core, Keeps

LEMMA Shaped ==
    ASSUME Core
    PROVE  /\ Shape(cli) /\ cli.es \in Source /\ Same(cli, cli) /\ DOMAIN cli = Fields
           /\ cli.es.wire \in Seq(Part \cup Event)
           /\ cli.exp \in Reply \cup [st : {"idle", "sent"}]
BY DEF Core, Good, Shape, Same, Source

LEMMA ChangeOnward == ASSUME Core, NEW s \in Sess, Change(s) PROVE Onward
<1> DEFINE f == [k |-> "event", n |-> srv.head + 1, ord |-> cli.es.ord + 1, s |-> s,
                 v |-> srv.val[s] + 1]
           d == Sends(cli, f)
<1>0. Store(srv) /\ Good(srv, cli) /\ Paired(cli) /\ AtRest(cli) /\ Shape(cli)
  BY Shaped DEF Core
<1>1. /\ srv.head \in Nat /\ srv.val[s] \in Nat /\ cli.es.ord \in Int
      /\ cli.es.wire \in Seq(Part \cup Event)
  BY <1>0 DEF Store, Shape, Source
<1>2. f \in Event /\ f.n = srv.head + 1 /\ f.s = s /\ f.v = srv.val[s] + 1 /\ f.k = "event"
  BY <1>1 DEF Event
<1>3. cli' = IF cli.es.st = "open" THEN d ELSE cli
  BY DEF Change, Sends
<1> HIDE DEF f
<1>4. /\ Grows(srv, srv')
      /\ \A x \in Nat : x <= srv.val["frontier"] => Before(srv', x, f) /\ Sound(srv', f)
  BY <1>0, <1>2, ChangeGrows
<1>5. Store(srv') /\ Good(srv', cli)
  BY <1>0, <1>4, GrowsKeeps DEF Grows
<1>6. CASE cli.es.st = "open"
  <2>1. Past(cli) \subseteq Nat /\ \A x \in Past(cli) : x <= srv.val["frontier"]
    BY <1>0, Sets DEF Good
  <2>2. \A g \in Of(cli.es.wire) :
            Tells(g) => Says(g) \in Nat /\ Says(g) <= srv.val["frontier"]
    <3>1. Of(cli.es.wire) \subseteq Part \cup Event
      BY <1>0, Sets
    <3> QED
      BY <3>1, <1>0, SaysNat DEF Good, Sound
  <2>3. Sound(srv', f)
    <3>1. cli.tree["frontier"] \in Past(cli)
      BY DEF Past, Shown
    <3> QED
      BY <3>1, <2>1, <1>4
  <2>4. Good(srv', d) /\ Rises(cli, d)
    <3>1. /\ \A x \in Past(cli) : Before(srv', x, f)
          /\ \A g \in Of(cli.es.wire) : Tells(g) => Before(srv', Says(g), f)
      BY <1>4, <2>1, <2>2
    <3> QED
      BY <3>1, <1>2, <1>5, <2>3, SentKeeps
  <2>7. Restream(cli, d) /\ d.es.wire = Append(cli.es.wire, f)
    BY <1>0, <1>2, SendsRestreams
  <2> HIDE DEF d
  <2>5. AtRest(d)
    BY <2>7, <1>0 DEF AtRest, Restream
  <2>6. Paired(d)
    <3> DEFINE q == Append(cli.es.wire, f)
    <3>1. /\ DOMAIN q = 1..(Len(cli.es.wire) + 1) /\ Len(cli.es.wire) \in Nat
          /\ q[Len(cli.es.wire) + 1] = f /\ DOMAIN cli.es.wire = 1..Len(cli.es.wire)
          /\ \A i \in 1..Len(cli.es.wire) : q[i] = cli.es.wire[i]
      BY <1>1
    <3> HIDE DEF q
    <3> SUFFICES ASSUME NEW j \in DOMAIN q, q[j].k = "detail"
                 PROVE  IF j = 1 THEN cli.waits = <<>> ELSE q[j - 1].k = "tree"
      BY <2>7 DEF Paired, Restream, q
    <3>2. j \in 1..Len(cli.es.wire)
      BY <3>1, <1>2
    <3>3. IF j = 1 THEN cli.waits = <<>> ELSE cli.es.wire[j - 1].k = "tree"
      BY <3>1, <3>2, <1>0 DEF Paired
    <3>4. j # 1 => q[j - 1] = cli.es.wire[j - 1]
      BY <3>1, <3>2
    <3> QED
      BY <3>3, <3>4
  <2> QED
    BY <2>4, <2>5, <2>6, <1>3, <1>5, <1>6 DEF Onward, Core
<1>7. CASE cli.es.st # "open"
  BY <1>0, <1>3, <1>5, <1>7 DEF Onward, Core, Rises, Shape, Sess
<1> QED
  BY <1>6, <1>7

LEMMA RestartOnward == ASSUME Core, Restart PROVE Onward
<1>0. Store(srv) /\ Good(srv, cli) /\ Paired(cli) /\ AtRest(cli) /\ Shape(cli)
  BY Shaped DEF Core
<1>1. srv' = [srv EXCEPT !.epoch = @ + 1, !.head = 0, !.ring = <<>>]
  BY DEF Restart
<1>2. Store(srv') /\ srv'.val = srv.val /\ srv'.ring = <<>>
  BY <1>0, <1>1 DEF Store, Epochs
<1>3. Grows(srv, srv')
  BY <1>0, <1>2 DEF Grows, After, Store, Sess
<1>4. Good(srv', cli)
  BY <1>0, <1>3, GrowsKeeps
<1>5. CASE cli.es.st = "open"
  <2>1. cli' = [cli EXCEPT !.es.st = "connecting", !.es.wire = <<>>, !.lagging = TRUE]
    BY <1>5 DEF Restart
  <2>2. cli'.es = [cli.es EXCEPT !.st = "connecting", !.wire = <<>>]
    BY <2>1, <1>0 DEF Shape, Fields
  <2>3. cli'.es \in Source /\ cli'.es.cursor = cli.es.cursor /\ cli'.es.wire = <<>>
    <3>1. cli.es \in Source /\ <<>> \in Seq(Part \cup Event)
      BY <1>0 DEF Shape
    <3> QED
      BY ONLY <3>1, <2>2 DEF Source
  <2>4. Aside(cli, cli') /\ cli'.deferred = cli.deferred /\ cli'.exp = cli.exp
    BY <2>1, <2>3, <1>0 DEF Aside, Shape, Fields
  <2>5. Keeps(srv', cli, cli')
    BY <2>4, <1>0, <1>4, AsideKeeps DEF Good, Shape, Aside
  <2>6. Paired(cli') /\ AtRest(cli')
    BY <2>3, <2>4, <1>0 DEF Aside, Paired, AtRest
  <2> QED
    BY <2>5, <2>6, <1>2 DEF Onward, Core, Keeps
<1>6. CASE cli.es.st # "open"
  <2>1. cli' = cli
    BY <1>6 DEF Restart
  <2> QED
    BY <2>1, <1>0, <1>2, <1>4 DEF Onward, Core, Rises, Shape, Sess
<1> QED
  BY <1>5, <1>6

LEMMA LoseOnward == ASSUME Core, Lose PROVE Onward
<1>1. Core /\ Shape(cli) /\ srv' = srv
  BY Shaped DEF Lose
<1>2. PICK i \in DOMAIN cli.es.wire :
          /\ cli.es.wire[i].k = "event"
          /\ cli' = [cli EXCEPT !.es.wire = RemoveAt(@, i)]
  BY DEF Lose
<1>3. Good(srv, cli') /\ Rises(cli, cli') /\ Paired(cli') /\ Restream(cli, cli')
  BY <1>1, <1>2, LoseKeeps DEF Core
<1> QED
  BY <1>1, <1>3 DEF Onward, Core, AtRest, Restream

LEMMA AcceptOnward == ASSUME Core, Accept PROVE Onward
<1> DEFINE re == Replayed(cli.es)
           q == re \o Capture(cli.es)
           n == Len(re)
           c == [cli EXCEPT !.es.st = "open", !.es.wire = q, !.es.ord = n, !.ord = -1,
                            !.opened = TRUE, !.lagging = FALSE]
<1>0. Core /\ Shape(cli) /\ cli.es \in Source /\ srv' = srv
  BY Shaped DEF Accept
<1>1. PICK chat \in BOOLEAN :
          Run(IF chat /\ cli.lagging THEN RequestRecovery(c, AwaitTree) ELSE c)
  BY DEF Accept
<1> DEFINE d == IF chat /\ cli.lagging THEN RequestRecovery(c, AwaitTree) ELSE c
<1>2. Follows(srv, cli.es, q) /\ n \in Int
  BY <1>0, AcceptFollows DEF Core
<1> HIDE DEF q, n, re
<1>3. Restream(cli, c) /\ c.es.cursor = cli.es.cursor /\ c.es.wire = q
  <2>1. c.es = [cli.es EXCEPT !.st = "open", !.wire = q, !.ord = n]
    BY <1>0 DEF Shape, Fields
  <2>2. c.es \in Source /\ c.es.cursor = cli.es.cursor /\ c.es.wire = q
    <3>1. q \in Seq(Part \cup Event)
      BY <1>2 DEF Follows
    <3> HIDE DEF c
    <3> QED
      BY ONLY <3>1, <2>1, <1>0, <1>2 DEF Source
  <2> QED
    BY <2>2, <1>0 DEF Restream, Shape, Fields
<1> HIDE DEF c
<1>4. Good(srv, c) /\ Rises(cli, c) /\ Paired(c) /\ AtRest(c)
  BY <1>0, <1>2, <1>3, AcceptGood DEF Core, AtRest, Restream
<1>5. Same(c, d)
  <2>1. Shape(c) /\ AwaitTree.tree = "await" /\ Same(c, c)
    BY <1>4 DEF Good, AwaitTree, Same, Shape
  <2> QED
    BY <2>1, RecoveryMoves
<1>6. Run(d)
  BY <1>1
<1> HIDE DEF d
<1>7. Keeps(srv, c, d)
  BY <1>4, <1>5, SameKeeps
<1>8. Keeps(srv, d, cli') /\ AtRest(cli')
  BY <1>0, <1>6, <1>7, RunKeeps DEF Core, Keeps
<1>9. Keeps(srv, c, cli')
  BY <1>4, <1>7, <1>8, KeepsOn
<1>10. Rises(cli, cli') /\ Paired(cli')
  BY <1>0, <1>4, <1>9, RisesOn DEF Core, Keeps, Paired, Narrows
<1> QED
  BY <1>0, <1>8, <1>9, <1>10 DEF Onward, Core, Keeps

LEMMA DecodeDoneOnward == ASSUME Core, DecodeDone PROVE Onward
<1> DEFINE c == [cli EXCEPT !.own.tree = cli.dec, !.dec = None]
           o == [cli.own EXCEPT !.tree = cli.dec]
<1>1. Core /\ Shape(cli) /\ srv' = srv /\ cli.dec # None /\ Run(TryInstall(c))
  BY Shaped DEF DecodeDone
<1>2. cli.own # None /\ cli.own \in Owner /\ cli.own.tree = None /\ cli.dec \in Part
  BY <1>1 DEF Core, Good, Shape
<1>3. o \in Owner /\ o.tree = cli.dec /\ o.detail = cli.own.detail
  BY <1>2 DEF Owner
<1>4. Stages(cli, c) /\ c.own = o /\ c.dec = None
  BY <1>1, <1>3 DEF Stages, Shape, Fields
<1> HIDE DEF o, c
<1>5. \A f \in Staged(c) : f \in Staged(cli)
  BY <1>2, <1>3, <1>4 DEF Staged
<1>6. Keeps(srv, cli, c)
  BY <1>1, <1>4, <1>5, StagesKeeps DEF Core
<1>7. Keeps(srv, c, TryInstall(c))
  BY <1>1, <1>3, <1>4, <1>6, Distinct, TryInstallKeeps DEF Core, Keeps
<1>8. Keeps(srv, cli, TryInstall(c))
  BY <1>1, <1>6, <1>7, KeepsOn DEF Core
<1> QED
  BY <1>1, <1>8, RunOnward

LEMMA DecodeFailsOnward == ASSUME Core, DecodeFails PROVE Onward
<1> DEFINE c == [cli EXCEPT !.dec = None]
<1>1. Core /\ Shape(cli) /\ srv' = srv /\ cli.dec # None /\ Run(Legacy(c))
  BY Shaped DEF DecodeFails
<1>2. cli.own # None /\ cli.own \in Owner
  BY <1>1 DEF Core, Good, Shape
<1>3. Stages(cli, c) /\ c.own = cli.own /\ c.dec = None
  BY <1>1, <1>2 DEF Stages, Shape, Fields
<1> HIDE DEF c
<1>4. \A f \in Staged(c) : f \in Staged(cli)
  BY <1>2, <1>3 DEF Staged
<1>5. Keeps(srv, cli, c)
  BY <1>1, <1>3, <1>4, StagesKeeps DEF Core
<1>6. Keeps(srv, c, Legacy(c))
  BY <1>1, <1>2, <1>3, <1>5, LegacyKeeps DEF Core, Keeps
<1>7. Keeps(srv, cli, Legacy(c))
  BY <1>1, <1>5, <1>6, KeepsOn DEF Core
<1> QED
  BY <1>1, <1>7, RunOnward

LEMMA QuietOnward ==
    ASSUME Core, DecodeStale \/ PassTimeout \/ SessionConverged \/ BusyStart
    PROVE  Onward
<1>1. Core /\ Shape(cli) /\ srv' = srv
  BY Shaped DEF DecodeStale, PassTimeout, SessionConverged, BusyStart
<1>2. CASE DecodeStale
  <2>1. Same(cli, cli')
    BY <1>1, <1>2 DEF DecodeStale, Same, Shape, Fields
  <2> QED
    BY <2>1, <1>1, SameOnward
<1>3. CASE PassTimeout
  <2>1. Same(cli, cli')
    BY <1>1, <1>3, PassSame DEF PassTimeout
  <2> QED
    BY <2>1, <1>1, SameOnward
<1>4. CASE SessionConverged
  <2> DEFINE c == [cli EXCEPT !.pass.session = "converged"]
  <2>1. Same(cli, c)
    BY <1>1 DEF Same, Shape, Fields
  <2>2. cli' = MaybeComplete(c)
    BY <1>4 DEF SessionConverged
  <2> HIDE DEF c
  <2>3. Same(cli, cli')
    BY <2>1, <2>2, <1>1, SameShape, MaybeCompleteSame, MovedOn
  <2> QED
    BY <2>3, <1>1, SameOnward
<1>5. CASE BusyStart
  <2>1. Same(cli, cli')
    BY <1>1, <1>5 DEF BusyStart, Same, Shape, Fields
  <2> QED
    BY <2>1, <1>1, SameOnward
<1> QED
  BY <1>2, <1>3, <1>4, <1>5

LEMMA StreamOnward ==
    ASSUME Core, Drop \/ Stall \/ Expand \/ ExpandServe
    PROVE  Onward
<1>1. /\ Core /\ Shape(cli) /\ srv' = srv /\ cli.es \in Source
      /\ cli.exp \in Reply \cup [st : {"idle", "sent"}]
  BY Shaped DEF Drop, Stall, Expand, ExpandServe
<1>2. CASE Drop
  <2>1. cli'.es = [cli.es EXCEPT !.st = "connecting", !.wire = <<>>, !.stalled = FALSE]
    BY <1>1, <1>2 DEF Drop, Shape, Fields
  <2>2. cli'.es \in Source /\ cli'.es.cursor = cli.es.cursor /\ cli'.es.wire = <<>>
    <3>1. <<>> \in Seq(Part \cup Event)
      OBVIOUS
    <3> QED
      BY ONLY <3>1, <2>1, <1>1 DEF Source
  <2>3. Aside(cli, cli') /\ cli'.deferred = cli.deferred /\ cli'.exp = cli.exp
    BY <2>2, <1>1, <1>2 DEF Drop, Aside, Shape, Fields
  <2> QED
    BY <2>3, <1>1, AsideOnward
<1>3. CASE Stall
  <2>1. cli'.es = [cli.es EXCEPT !.stalled = TRUE]
    BY <1>1, <1>3 DEF Stall, Shape, Fields
  <2>2. cli'.es \in Source /\ cli'.es.cursor = cli.es.cursor /\ cli'.es.wire = cli.es.wire
    BY <2>1, <1>1 DEF Source
  <2>3. Aside(cli, cli') /\ cli'.deferred = cli.deferred /\ cli'.exp = cli.exp
    BY <2>2, <1>1, <1>3 DEF Stall, Aside, Shape, Fields
  <2> QED
    BY <2>3, <1>1, AsideOnward
<1>4. CASE Expand
  <2>1. Aside(cli, cli') /\ cli'.deferred = cli.deferred /\ cli'.exp = [st |-> "sent"]
    BY <1>1, <1>4 DEF Expand, Aside, Shape, Fields
  <2> QED
    BY <2>1, <1>1, AsideOnward
<1>5. CASE ExpandServe
  <2> DEFINE r == [st |-> "reply", e |-> srv.epoch, n |-> srv.head, v |-> srv.val,
                   gap |-> FALSE]
  <2>1. r \in Reply
    BY <1>1 DEF Core, Store, Reply
  <2>2. Aside(cli, cli') /\ cli'.deferred = cli.deferred /\ cli'.exp = r
    BY <1>1, <1>5 DEF ExpandServe, Aside, Shape, Fields
  <2> QED
    BY <2>1, <2>2, <1>1, AsideOnward
<1> QED
  BY <1>2, <1>3, <1>4, <1>5

LEMMA CutsShort ==
    ASSUME NEW c, Shape(c)
    PROVE  Cut(c, Closed(c)) /\ Cut(c, Suspend(c)) /\ (Same(c, Resume(c)) \/ Cut(c, Resume(c)))
<1>0. c.es \in Source /\ <<>> \in Seq(Part \cup Event)
  BY DEF Shape
<1>1. Cut(c, Closed(c))
  <2>1. Closed(c).es = [c.es EXCEPT !.st = "closed", !.wire = <<>>] /\ DOMAIN Closed(c) = Fields
    BY BumpCuts DEF Closed, Fields
  <2>2. /\ Closed(c).es \in Source /\ Closed(c).es.wire = <<>>
        /\ Closed(c).es.cursor = c.es.cursor
    BY ONLY <2>1, <1>0 DEF Source
  <2>3. /\ Closed(c).epoch = c.epoch /\ Closed(c).boot \in Int /\ Closed(c).cursor = c.cursor
        /\ Closed(c).tree = c.tree /\ Closed(c).detail = c.detail
        /\ Closed(c).own = None /\ Closed(c).dec = None /\ Closed(c).waits = <<>>
        /\ Closed(c).deferred = None /\ Closed(c).exp = c.exp
    BY BumpCuts DEF Closed, Fields
  <2> QED
    BY <2>1, <2>2, <2>3 DEF Cut
<1>2. Cut(c, Suspend(c))
  <2> DEFINE s == Stream("null", -1, 0)
  <2>1. Suspend(c).es = s /\ DOMAIN Suspend(c) = Fields
    BY BumpCuts DEF Suspend, Fields
  <2>2. s \in Source /\ s.wire = <<>> /\ s.cursor = -1
    BY <1>0 DEF Stream, Source
  <2>3. /\ Suspend(c).epoch = c.epoch /\ Suspend(c).boot \in Int
        /\ Suspend(c).cursor = c.cursor
        /\ Suspend(c).tree = c.tree /\ Suspend(c).detail = c.detail
        /\ Suspend(c).own = None /\ Suspend(c).dec = None /\ Suspend(c).waits = <<>>
        /\ Suspend(c).deferred = None /\ Suspend(c).exp = c.exp
    BY BumpCuts DEF Suspend, Fields
  <2> HIDE DEF s
  <2> QED
    BY <2>1, <2>2, <2>3 DEF Cut
<1>3. Same(c, Resume(c)) \/ Cut(c, Resume(c))
  <2> DEFINE d == [c EXCEPT !.hidden = FALSE]
  <2>1. Same(c, d)
    BY DEF Same, Shape, Fields
  <2>2. Resume(c) \in {d, ConnectAs(d, TRUE, FALSE), ConnectAs(d, FALSE, FALSE)}
    BY DEF Resume, Connect
  <2> HIDE DEF d
  <2>3. Cut(d, ConnectAs(d, TRUE, FALSE)) /\ Cut(d, ConnectAs(d, FALSE, FALSE))
    BY <2>1, SameShape, ConnectCuts
  <2> QED
    BY <2>1, <2>2, <2>3 DEF Same, Cut
<1> QED
  BY <1>1, <1>2, <1>3

LEMMA ConnectOnward ==
    ASSUME Core, Close \/ Hide \/ Reveal \/ Backoff \/ Watchdog \/ FireUpgrade
    PROVE  Onward
<1>1. Core /\ Shape(cli) /\ srv' = srv /\ Same(cli, cli)
  BY Shaped DEF Close, Hide, Reveal, Backoff, Watchdog, FireUpgrade
<1>2. CASE Close
  BY <1>1, <1>2, CutsShort, CutOnward DEF Close
<1>3. CASE Hide
  BY <1>1, <1>3, CutsShort, CutOnward DEF Hide
<1>4. CASE Reveal
  BY <1>1, <1>4, CutsShort, CutOnward, MovedOnward DEF Reveal, Moved
<1>5. CASE Backoff
  BY <1>1, <1>5, ConnectCuts, CutOnward DEF Backoff, Connect
<1>6. CASE Watchdog
  <2>1. CASE IsClosed(cli)
    BY <2>1, <1>1, <1>6, ConnectCuts, CutOnward DEF Watchdog, Connect
  <2>2. CASE ~IsClosed(cli)
    <3> DEFINE c == [cli EXCEPT !.lagging = TRUE]
    <3>1. Same(cli, c) /\ Run(RequestRecovery(c, TreeStale))
      BY <2>2, <1>1, <1>6 DEF Watchdog, Same, Shape, Fields
    <3> HIDE DEF c
    <3>2. Moved(cli, RequestRecovery(c, TreeStale))
      BY <3>1, <1>1, SameShape, RecoveryMoves, MovedOn
    <3> QED
      BY <3>1, <3>2, <1>1, MovedOnward
  <2> QED
    BY <2>1, <2>2
<1>7. CASE FireUpgrade
  <2>1. CASE cli.es.epoch = cli.epoch
    <3>1. Same(cli, cli')
      BY <2>1, <1>1, <1>7 DEF FireUpgrade, Same, Shape, Fields
    <3> QED
      BY <3>1, <1>1, SameOnward
  <2>2. CASE cli.es.epoch # cli.epoch
    BY <2>2, <1>1, <1>7, ConnectCuts, CutOnward DEF FireUpgrade
  <2> QED
    BY <2>1, <2>2
<1> QED
  BY <1>2, <1>3, <1>4, <1>5, <1>6, <1>7

LEMMA RecoveryOnward ==
    ASSUME Core, PeriodicResync \/ SessionLoss \/ BusyEnd \/ ReconcileTimeout
    PROVE  Onward
<1>1. Core /\ Shape(cli) /\ srv' = srv
  BY Shaped DEF PeriodicResync, SessionLoss, BusyEnd, ReconcileTimeout
<1>2. CASE PeriodicResync
  BY <1>1, <1>2, RecoveryMoves, MovedOnward DEF PeriodicResync
<1>3. CASE SessionLoss
  BY <1>1, <1>3, RecoveryMoves, MovedOnward DEF SessionLoss
<1>4. CASE BusyEnd
  <2> DEFINE c == [cli EXCEPT !.ref = 0]
             d == [c EXCEPT !.dirty = TRUE]
             e == IF c.reconciling THEN d ELSE StartReconcile(c, FALSE)
  <2>1. Same(cli, c) /\ Same(c, d) /\ Run(e)
    BY <1>1, <1>4 DEF BusyEnd, Same, Shape, Fields
  <2> HIDE DEF c, d
  <2>2. Moved(c, StartReconcile(c, FALSE))
    BY <2>1, <1>1, SameShape, StartReconcileMoves
  <2>3. Moved(cli, e)
    BY <2>1, <2>2, MovedOn DEF Moved
  <2> HIDE DEF e
  <2> QED
    BY <2>1, <2>3, <1>1, MovedOnward
<1>5. CASE ReconcileTimeout
  <2>1. Moved(cli, Expected(cli)) /\ Run(Expected(cli))
    BY <1>1, <1>5, ExpectedSame DEF ReconcileTimeout, Moved
  <2> QED
    BY <2>1, <1>1, MovedOnward
<1> QED
  BY <1>2, <1>3, <1>4, <1>5

LEMMA Asked ==
    ASSUME Core, ExpandArrives
    PROVE  LET c == [cli EXCEPT !.exp = [st |-> "idle"]]
           IN  /\ cli.exp \in Reply /\ srv' = srv
               /\ Aside(cli, c) /\ c.deferred = cli.deferred /\ c.exp = [st |-> "idle"]
               /\ cli.own # None => Run([c EXCEPT !.deferred = cli.exp])
               /\ cli.own = None => Run(ApplyExpand(c, cli.exp))
<1> DEFINE c == [cli EXCEPT !.exp = [st |-> "idle"]]
<1>1. Shape(cli) /\ cli.exp \in Reply \cup [st : {"idle", "sent"}]
  BY Shaped
<1>2. cli.exp.st = "reply" /\ srv' = srv
  BY DEF ExpandArrives
<1>3. cli.exp \in Reply
  BY <1>1, <1>2
<1>4. Aside(cli, c) /\ c.deferred = cli.deferred /\ c.exp = [st |-> "idle"] /\ c.own = cli.own
  BY <1>1 DEF Aside, Shape, Fields
<1>5. Run(IF c.own # None THEN [c EXCEPT !.deferred = cli.exp] ELSE ApplyExpand(c, cli.exp))
  BY DEF ExpandArrives
<1> HIDE DEF c
<1>6. /\ cli.own # None => Run([c EXCEPT !.deferred = cli.exp])
      /\ cli.own = None => Run(ApplyExpand(c, cli.exp))
  BY <1>4, <1>5
<1> QED
  BY <1>2, <1>3, <1>4, <1>6 DEF c

LEMMA ExpandOnward == ASSUME Core, ExpandArrives, cli.epoch # 0 PROVE Onward
<1> DEFINE c == [cli EXCEPT !.exp = [st |-> "idle"]]
           d == [c EXCEPT !.deferred = cli.exp]
<1>1. /\ cli.exp \in Reply /\ srv' = srv
      /\ Aside(cli, c) /\ c.deferred = cli.deferred /\ c.exp = [st |-> "idle"]
      /\ cli.own # None => Run(d)
      /\ cli.own = None => Run(ApplyExpand(c, cli.exp))
  BY Asked
<1>2. Core /\ Shape(cli)
  BY Shaped
<1> HIDE DEF c
<1>3. CASE cli.own # None
  <2>1. Aside(cli, d) /\ d.deferred = cli.exp /\ d.exp = c.exp
    BY <1>1 DEF Aside, Fields
  <2> HIDE DEF d
  <2>2. /\ d.deferred \in Reply \cup {None} /\ d.epoch # 0
        /\ d.exp \in Reply \cup [st : {"idle", "sent"}]
    BY <2>1, <1>1 DEF Aside
  <2>3. Keeps(srv, cli, d)
    BY <2>1, <2>2, <1>2, AsideKeeps DEF Core
  <2> QED
    BY <2>3, <1>1, <1>2, <1>3, RunOnward
<1>4. CASE cli.own = None
  <2>1. c.deferred # None => c.epoch # 0
    BY <1>1 DEF Aside
  <2>2. Keeps(srv, cli, c)
    BY <2>1, <1>1, <1>2, AsideKeeps DEF Core, Shape
  <2>3. Keeps(srv, c, ApplyExpand(c, cli.exp))
    BY <2>2, <1>1, <1>2, <1>4, ApplyExpandKeeps DEF Aside, Core, Keeps
  <2>4. Keeps(srv, cli, ApplyExpand(c, cli.exp))
    BY <2>2, <2>3, <1>2, KeepsOn DEF Core
  <2> QED
    BY <2>4, <1>1, <1>2, <1>4, RunOnward
<1> QED
  BY <1>3, <1>4

\* Where nothing waits, the microtasks can only open another connection.
LEMMA RestRuns ==
    ASSUME NEW c, Shape(c), AtRest(c), Run(c)
    PROVE  cli'.tree = c.tree /\ cli'.detail = c.detail
<1> DEFINE e == Reconciled(c)
<1>1. Moved(c, e)
  BY ReconciledMoves
<1>2. cli' = Bundled(Resumed(e))
  BY DEF Run
<1> HIDE DEF e
<1>3. AtRest(e) /\ e.tree = c.tree /\ e.detail = c.detail
  BY <1>1 DEF Moved, Same, Cut, AtRest
<1>4. Resumed(e) = e
  BY <1>3 DEF Resumed, AtRest
<1>5. Bundled(e) = e
  BY <1>3 DEF Bundled, AtRest
<1> QED
  BY <1>2, <1>3, <1>4, <1>5

\* A first epoch that comes with the children leaves the frontier alone.
LEMMA BlindRises == ASSUME Core, ExpandArrives, cli.epoch = 0 PROVE Rises(cli, cli')
<1> DEFINE c == [cli EXCEPT !.exp = [st |-> "idle"]]
           d == [c EXCEPT !.deferred = cli.exp]
<1>1. /\ cli.exp \in Reply
      /\ Aside(cli, c) /\ c.deferred = cli.deferred /\ c.exp = [st |-> "idle"]
      /\ cli.own # None => Run(d)
      /\ cli.own = None => Run(ApplyExpand(c, cli.exp))
  BY Asked
<1>2. Shape(cli) /\ AtRest(cli)
  BY Shaped DEF Core
<1> HIDE DEF c
<1>3. Shape(c) /\ AtRest(c)
  BY <1>1, <1>2 DEF Shape, AtRest, Aside
<1>4. \A x \in Nat : x <= x
  OBVIOUS
<1>5. CASE cli.own # None
  <2>1. /\ Shape(d) /\ d.own = cli.own /\ d.tree = cli.tree /\ d.detail = cli.detail
        /\ AtRest(d)
    BY <1>1, <1>3, <1>5 DEF Aside, Shape, Fields, AtRest
  <2> HIDE DEF d
  <2>2. cli'.tree = cli.tree /\ cli'.detail = cli.detail
    BY <2>1, <1>1, <1>5, RestRuns
  <2> QED
    BY <2>2, <1>2, <1>4 DEF Rises, Shape, Sess
<1>6. CASE cli.own = None
  <2> DEFINE r == cli.exp
             p == Project(c, r, {"buried"})
             g == [c EXCEPT !.detail = p, !.epoch = r.e, !.cursor = r.n]
             e == [g EXCEPT !.tree["buried"] = r.v["buried"]]
  <2>1. r.e \in Nat /\ r.n \in Nat /\ r.v \in [Sess -> Nat] /\ r.gap = FALSE
    BY <1>1 DEF Reply, Epochs
  <2>2. c.epoch = 0 /\ c.own = None /\ c.tree = cli.tree /\ c.detail = cli.detail
    BY <1>1, <1>6 DEF Aside
  <2>3. ApplyScoped(c, r, {"buried"}, "http") = g
    BY <2>2 DEF ApplyScoped, Verdict
  <2>4. p \in [Sess -> Nat] /\ p["frontier"] = c.detail["frontier"]
    BY <2>1, <2>2, <1>3 DEF Project, Shape, Sess
  <2>5. ApplyExpand(c, r) = e
    BY <2>3 DEF ApplyExpand
  <2> HIDE DEF p, r
  <2>6. /\ DOMAIN e = Fields /\ e.es = c.es /\ e.epoch = r.e /\ e.boot = c.boot
        /\ e.cursor = r.n /\ e.tree = [c.tree EXCEPT !["buried"] = r.v["buried"]]
        /\ e.detail = p /\ e.own = c.own /\ e.dec = c.dec /\ e.waits = c.waits
        /\ e.deferred = c.deferred /\ e.exp = c.exp
    BY <1>3 DEF Shape, Fields
  <2> HIDE DEF g, e
  <2>7. e.tree \in [Sess -> Nat] /\ e.tree["frontier"] = c.tree["frontier"]
    <3>1. c.tree \in [Sess -> Nat] /\ r.v["buried"] \in Nat
      BY <1>3, <2>1 DEF Shape, Sess
    <3> QED
      BY <3>1, <2>6 DEF Sess
  <2>8. Shape(e) /\ AtRest(e)
    BY <1>3, <2>1, <2>4, <2>6, <2>7 DEF Shape, AtRest
  <2>9. cli'.tree = e.tree /\ cli'.detail = e.detail
    BY <2>5, <2>8, <1>1, <1>6, RestRuns DEF r
  <2> QED
    BY <2>2, <2>4, <2>6, <2>7, <2>9, <1>2, <1>4 DEF Rises, Shape, Sess
<1> QED
  BY <1>5, <1>6

LEMMA NextOnward == ASSUME Core, Next PROVE Rises(cli, cli') /\ ("blind" \notin debts' => Core')
<1>1. CASE \E s \in Sess : Change(s)
  BY <1>1, ChangeOnward DEF Onward
<1>2. CASE Restart
  BY <1>2, RestartOnward DEF Onward
<1>3. CASE Accept
  BY <1>3, AcceptOnward DEF Onward
<1>4. CASE Deliver
  BY <1>4, DeliverOnward DEF Onward
<1>5. CASE DecodeDone
  BY <1>5, DecodeDoneOnward DEF Onward
<1>6. CASE DecodeFails
  BY <1>6, DecodeFailsOnward DEF Onward
<1>7. CASE DecodeStale \/ PassTimeout \/ SessionConverged \/ BusyStart
  BY <1>7, QuietOnward DEF Onward
<1>8. CASE Drop \/ Stall \/ Expand \/ ExpandServe
  BY <1>8, StreamOnward DEF Onward
<1>9. CASE Close \/ Hide \/ Reveal \/ Backoff \/ Watchdog \/ FireUpgrade
  BY <1>9, ConnectOnward DEF Onward
<1>10. CASE PeriodicResync \/ SessionLoss \/ BusyEnd \/ ReconcileTimeout
  BY <1>10, RecoveryOnward DEF Onward
<1>11. CASE Lose
  BY <1>11, LoseOnward DEF Onward
<1>12. CASE ExpandArrives
  <2>1. cli.epoch = 0 => "blind" \in debts'
    BY <1>12 DEF ExpandArrives
  <2>2. CASE cli.epoch # 0
    BY <2>2, <1>12, ExpandOnward DEF Onward
  <2>3. CASE cli.epoch = 0
    BY <2>1, <2>3, <1>12, BlindRises
  <2> QED
    BY <2>2, <2>3
<1> QED
  BY <1>1, <1>2, <1>3, <1>4, <1>5, <1>6, <1>7, <1>8, <1>9, <1>10, <1>11, <1>12 DEF Next

\* What has once been applied blindly stays so: no later step forgives it.
LEMMA BlindStays == ASSUME Next, "blind" \in debts PROVE "blind" \in debts'
BY DEF Next, Change, Restart, Accept, Deliver, DecodeDone, DecodeStale, DecodeFails,
       Drop, Close, Stall, Lose, Backoff, Watchdog, FireUpgrade, PassTimeout, PeriodicResync,
       SessionLoss, SessionConverged, BusyStart, BusyEnd, ReconcileTimeout, Hide, Reveal,
       Expand, ExpandServe, ExpandArrives

LEMMA FirstPage == Init => Core
<1> SUFFICES ASSUME Init PROVE Core
  OBVIOUS
<1>1. PICK left \in {<<0, 0>>, <<1, 1>>, <<-1, 1>>} :
         cli = [es |-> Stream("connecting", -1, left[1]), epoch |-> 0, boot |-> left[1],
                cursor |-> left[2], tree |-> [s \in Sess |-> 0], detail |-> [s \in Sess |-> 0],
                own |-> None, dec |-> None, old |-> None, waits |-> <<>>, deferred |-> None,
                ord |-> -1, ready |-> FALSE, opened |-> FALSE, lagging |-> FALSE,
                backoff |-> FALSE, upgrade |-> FALSE, hidden |-> FALSE, pass |-> None,
                ref |-> 0, reconciling |-> FALSE, dirty |-> FALSE, second |-> FALSE,
                expect |-> FALSE, resolved |-> FALSE,
                expanded |-> FALSE, exp |-> [st |-> "idle"]]
  BY DEF Init
<1>2. srv = [epoch |-> 1, head |-> 1, ring |-> <<[s |-> "frontier", v |-> 1]>>,
             val |-> [s \in Sess |-> 1]]
  BY DEF Init
<1>3. Store(srv)
  <2> DEFINE q == <<[s |-> "frontier", v |-> 1]>>
  <2>1. q \in Seq(Stored) /\ Len(q) = 1 /\ q[1].s = "frontier" /\ q[1].v = 1
    BY DEF Stored, Sess
  <2> HIDE DEF q
  <2>2. /\ srv.epoch = 1 /\ srv.head = 1 /\ srv.ring = q /\ srv.val = [s \in Sess |-> 1]
        /\ DOMAIN srv = {"epoch", "head", "ring", "val"}
    BY <1>2 DEF q
  <2>3. srv.val \in [Sess -> Nat] /\ srv.val["frontier"] = 1
    BY <2>2 DEF Sess
  <2>4. ASSUME NEW i \in 1..Len(srv.ring)
        PROVE  /\ srv.ring[i].v <= srv.val["frontier"]
               /\ \A j \in i..Len(srv.ring) : srv.ring[i].v <= srv.ring[j].v
    <3>1. i = 1 /\ srv.ring[i].v = 1 /\ \A j \in i..Len(srv.ring) : j = 1
      BY <2>1, <2>2
    <3>2. \A j \in i..Len(srv.ring) : srv.ring[j].v = 1
      BY <3>1
    <3> QED
      BY <3>1, <3>2, <2>3
  <2>5. srv.epoch \in Epochs /\ srv.head \in Nat /\ srv.ring \in Seq(Stored) /\ Len(srv.ring) <= srv.head
    BY <2>1, <2>2 DEF Epochs
  <2> QED
    BY <2>2, <2>3, <2>4, <2>5 DEF Store
<1>4. left[1] \in Int /\ left[2] \in Int
  OBVIOUS
<1>5. /\ DOMAIN cli = Fields /\ cli.es = Stream("connecting", -1, left[1]) /\ cli.epoch = 0
      /\ cli.boot = left[1] /\ cli.cursor = left[2]
      /\ cli.tree = [s \in Sess |-> 0] /\ cli.detail = [s \in Sess |-> 0]
      /\ cli.own = None /\ cli.dec = None /\ cli.waits = <<>> /\ cli.deferred = None
      /\ cli.exp = [st |-> "idle"]
  BY <1>1 DEF Fields
<1>6. cli.es \in Source /\ cli.es.wire = <<>> /\ cli.es.cursor = -1
  BY <1>4, <1>5 DEF Stream, Source
<1>7. cli.tree["frontier"] = 0 /\ cli.detail["frontier"] = 0 /\ Shape(cli)
  BY <1>4, <1>5, <1>6 DEF Shape, Sess
<1>8. /\ Shown(cli) = {0} /\ Staged(cli) = {} /\ Of(cli.waits) = {} /\ Of(cli.es.wire) = {}
      /\ Values({}) = {}
  BY <1>5, <1>6, <1>7 DEF Shown, Staged, Of, Values
<1>9. Past(cli) = {0}
  BY <1>8 DEF Past
<1>10. 0 <= srv.val["frontier"] /\ \A k \in Int : After(srv, 0, k)
  <2>1. \A i \in 1..Len(srv.ring) : srv.ring[i].v \in Nat
    <3>1. \A i \in 1..Len(srv.ring) : srv.ring[i] \in Stored
      BY <1>3 DEF Store
    <3> QED
      BY <3>1 DEF Stored
  <2> QED
    BY <2>1, <1>3 DEF After, Store, Sess
<1>11. InOrder(srv, cli.waits) /\ InOrder(srv, cli.es.wire)
  BY <1>5, <1>6 DEF InOrder
<1>12. Good(srv, cli)
  BY <1>4, <1>5, <1>6, <1>7, <1>8, <1>9, <1>10, <1>11 DEF Good
<1>13. Paired(cli) /\ AtRest(cli)
  BY <1>5, <1>6 DEF Paired, AtRest
<1> QED
  BY <1>3, <1>12, <1>13 DEF Core

LEMMA TreeInvKept == TreeInv /\ [Next]_vars => TreeInv'
<1> SUFFICES ASSUME TreeInv, [Next]_vars, "blind" \notin debts' PROVE Core'
  BY DEF TreeInv
<1>1. CASE Next
  BY <1>1, BlindStays, NextOnward DEF TreeInv
<1>2. CASE UNCHANGED vars
  BY <1>2 DEF vars, TreeInv, Core, Paired, AtRest
<1> QED
  BY <1>1, <1>2

\* Along every run, whatever is lost, cut, restarted or decoded late: all that
\* the page may still apply to the frontier is at least what it shows, unless
\* the page's first epoch came with a children bundle.
THEOREM FramesAreOrdered == Spec => []TreeInv
<1>1. Init => TreeInv
  BY FirstPage DEF TreeInv
<1> QED
  BY <1>1, TreeInvKept, PTL DEF Spec

\* Nothing the page shows of the frontier ever goes back, with the one exception
\* NoRewind names: by no step of the page, the daemon or the network.
THEOREM FrontierNeverRewinds == Spec => NoRewind
<1>1. TreeInv /\ [Next]_vars =>
        [debts \cap {"blind"} = {} =>
           /\ cli'.tree["frontier"] >= cli.tree["frontier"]
           /\ cli'.detail["frontier"] >= cli.detail["frontier"]]_vars
  <2> SUFFICES ASSUME TreeInv, Next, debts \cap {"blind"} = {}
               PROVE  /\ cli'.tree["frontier"] >= cli.tree["frontier"]
                      /\ cli'.detail["frontier"] >= cli.detail["frontier"]
    OBVIOUS
  <2>1. Rises(cli, cli')
    BY NextOnward DEF TreeInv
  <2> QED
    BY <2>1 DEF Rises
<1> QED
  BY <1>1, FramesAreOrdered, PTL DEF Spec, NoRewind

-----------------------------------------------------------------------------
(***************************************************************************)
(* That a quiet page is current follows from where the daemon's present    *)
(* value is.  It is behind the capture on the way (Coming), behind the     *)
(* capture being decoded (Pending), or behind what is shown (Showing):     *)
(* starting from the capture or from what is shown, the frames that wait   *)
(* and those on the way lead to it (Flow).  That a capture is not taken    *)
(* for stale needs bounds on the cursor, and on all that may move it       *)
(* before the capture is applied (Within).                                 *)
(***************************************************************************)

\* The frames of q behind place j take the frontier from x to y.
Moves(f) == f.k = "event" /\ f.s = "frontier"
Leads(q, j, x, y) ==
    \/ x = y /\ \A i \in DOMAIN q : i > j => ~Moves(q[i])
    \/ \E m \in DOMAIN q : /\ m > j /\ Moves(q[m]) /\ q[m].v = y
                           /\ \A i \in DOMAIN q : i > m => ~Moves(q[i])
Reaches(c, x, y) == \E m \in Nat : Leads(c.waits, 0, x, m) /\ Leads(c.es.wire, 0, m, y)

\* A reconcile waits for its capture, or has it and goes on after the listener.
Gated(c) ==
    /\ c.ref \in {0, 1}
    /\ c.reconciling <=> c.expect \/ c.resolved
    /\ ~(c.expect /\ c.resolved)
    /\ c.reconciling => c.waits = <<>>
\* The gate will end with a capture that is still to be asked for.
Doomed(c) == \/ c.ref > 0 /\ ~c.reconciling
             \/ c.reconciling /\ ~c.second /\ (c.dirty \/ c.ref > 0)

\* Nothing the page has received, nor its cursor, is past n in epoch e.
Within(e, n, c) ==
    /\ c.epoch = e => c.cursor <= n
    /\ c.epoch = e \/ (\E f \in Staged(c) : f.e = e) => \A w \in Of(c.waits) : w.n <= n
    /\ \A f \in Staged(c) : f.e = e => f.n <= n
    /\ c.deferred # None /\ c.deferred.e = e => c.deferred.n <= n

\* The parts of one capture.
Twins(f, g) == f.e = g.e /\ f.n = g.n /\ Says(f) = Says(g)
Captured(z, c) ==
    /\ \A f \in Staged(c) : c.epoch <= f.e /\ f.e <= z.epoch
    /\ \A f, g \in Staged(c) : Twins(f, g)
    /\ c.own # None => c.dec # None \/ c.own.tree # None
    /\ c.dec # None => c.own # None /\ c.own.tree = None
Stated(z, r) == r.e <= z.epoch /\ (r.e = z.epoch => r.n <= z.head)

\* One capture is on the way at most, behind the replayed frames; its detail
\* comes right behind its tree.
Trees(q) == {i \in DOMAIN q : q[i].k = "tree"}
Details(q) == {i \in DOMAIN q : q[i].k = "detail"}
Lined(z, q, F) ==
    /\ \A i \in DOMAIN q : q[i].n <= z.head /\ (q[i].k # "event" => q[i].e = z.epoch)
    /\ \A i \in Trees(q) :
          /\ i + 1 \in DOMAIN q /\ q[i + 1].k = "detail" /\ Twins(q[i], q[i + 1])
          /\ \A j \in DOMAIN q : j < i => q[j].k = "event" /\ q[j].n <= q[i].n
    /\ \A i \in Details(q) :
          IF i = 1 THEN \A f \in F : Twins(q[1], f) ELSE i - 1 \in Trees(q)
Wired(z, c) == (c.es.st # "open" => c.es.wire = <<>>) /\ Lined(z, c.es.wire, Staged(c))

\* The last bound makes the highest waiting frame well defined.
Capped(q) == \E m \in Nat : \A f \in Of(q) : f.n <= m
Bounded(z, c) ==
    /\ Shape(c) /\ Gated(c) /\ Capped(c.waits)
    /\ c.epoch <= z.epoch /\ Within(z.epoch, z.head, c) /\ Captured(z, c) /\ Wired(z, c)
    /\ c.deferred # None => Stated(z, c.deferred)
    /\ c.exp.st = "reply" => Stated(z, c.exp)

Coming(z, c) ==
    \E j \in Trees(c.es.wire) :
        /\ Within(z.epoch, c.es.wire[j].n, c)
        /\ Leads(c.es.wire, j, Says(c.es.wire[j]), z.val["frontier"])
Pending(z, c) ==
    /\ Trees(c.es.wire) = {} /\ c.own # None
    /\ Details(c.es.wire) # {} => c.own.detail = None
    /\ \A f \in Staged(c) : /\ f.e = z.epoch /\ Reaches(c, Says(f), z.val["frontier"])
                            /\ c.epoch = z.epoch => c.cursor <= f.n
Showing(z, c) ==
    /\ Trees(c.es.wire) = {} /\ Details(c.es.wire) = {} /\ c.own = None
    /\ c.epoch = z.epoch
    /\ \A x \in Shown(c) : Reaches(c, x, z.val["frontier"])
Flow(z, c) ==
    c.es.st = "open" /\ ~Doomed(c) => Coming(z, c) \/ Pending(z, c) \/ Showing(z, c)

\* ok is FALSE while a debt is open that the next connection ends.
Sure(z, c, ok) == Bounded(z, c) /\ (ok => Flow(z, c))

FlowInv ==
    /\ Store(srv) /\ AtRest(cli) /\ ~cli.resolved
    /\ Sure(srv, cli, debts \subseteq {"blind"})

-----------------------------------------------------------------------------
(* Sequences of frames.                                                    *)

\* The first frame is taken from q.
Pops(q, r, f) ==
    /\ q # <<>> /\ f = q[1] /\ r = Tail(q)
    /\ 1 \in DOMAIN q
    /\ \A i \in DOMAIN r : i \in Nat /\ i > 0 /\ i + 1 \in DOMAIN q /\ r[i] = q[i + 1]
    /\ \A i \in DOMAIN q : i \in Nat /\ i > 0 /\ (i > 1 => i - 1 \in DOMAIN r /\ r[i - 1] = q[i])

LEMMA Popping ==
    ASSUME NEW S, NEW q \in Seq(S), q # <<>>
    PROVE  Pops(q, Tail(q), Head(q)) /\ Tail(q) \in Seq(S) /\ Head(q) \in S
<1> DEFINE N == Len(q)
<1>1. /\ N \in Nat /\ N > 0 /\ DOMAIN q = 1..N /\ Head(q) = q[1] /\ Head(q) \in S
      /\ Tail(q) \in Seq(S) /\ Len(Tail(q)) = N - 1
      /\ DOMAIN Tail(q) = 1..(N - 1)
  OBVIOUS
<1>2. \A i \in 1..(N - 1) : Tail(q)[i] = q[i + 1]
  OBVIOUS
<1> HIDE DEF N
<1>3. \A i \in 1..(N - 1) : i \in Nat /\ i > 0 /\ i + 1 \in 1..N
  BY <1>1
<1>4. \A i \in 1..N : i \in Nat /\ i > 0 /\ (i > 1 => i - 1 \in 1..(N - 1) /\ i - 1 + 1 = i)
  BY <1>1
<1> QED
  BY <1>1, <1>2, <1>3, <1>4 DEF Pops

LEMMA LeadsPop ==
    ASSUME NEW q, NEW r, NEW f, Pops(q, r, f), NEW x, NEW y, Leads(q, 0, x, y)
    PROVE  Leads(r, 0, IF Moves(f) THEN f.v ELSE x, y)
<1> USE DEF Pops
<1>1. CASE x = y /\ \A i \in DOMAIN q : i > 0 => ~Moves(q[i])
  <2>1. ~Moves(f)
    BY <1>1
  <2>2. \A i \in DOMAIN r : ~Moves(r[i])
    BY <1>1
  <2> QED
    BY <1>1, <2>1, <2>2 DEF Leads
<1>2. CASE \E m \in DOMAIN q : /\ m > 0 /\ Moves(q[m]) /\ q[m].v = y
                               /\ \A i \in DOMAIN q : i > m => ~Moves(q[i])
  <2>1. PICK m \in DOMAIN q : /\ m > 0 /\ Moves(q[m]) /\ q[m].v = y
                              /\ \A i \in DOMAIN q : i > m => ~Moves(q[i])
    BY <1>2
  <2>2. CASE m = 1
    <3>1. \A i \in DOMAIN r : ~Moves(r[i])
      BY <2>1, <2>2
    <3> QED
      BY <2>1, <2>2, <3>1 DEF Leads
  <2>3. CASE m > 1
    <3>1. m - 1 \in DOMAIN r /\ m - 1 > 0 /\ r[m - 1] = q[m]
      BY <2>1, <2>3
    <3>2. \A i \in DOMAIN r : i > m - 1 => ~Moves(r[i])
      BY <2>1
    <3> QED
      BY <2>1, <3>1, <3>2 DEF Leads
  <2> QED
    BY <2>1, <2>2, <2>3
<1> QED
  BY <1>1, <1>2 DEF Leads

LEMMA LeadsShift ==
    ASSUME NEW q, NEW r, NEW f, Pops(q, r, f), NEW j \in DOMAIN q, NEW x, NEW y, Leads(q, j, x, y)
    PROVE  Leads(r, j - 1, x, y)
<1> USE DEF Pops
<1>1. CASE x = y /\ \A i \in DOMAIN q : i > j => ~Moves(q[i])
  <2>1. \A i \in DOMAIN r : i > j - 1 => ~Moves(r[i])
    BY <1>1
  <2> QED
    BY <1>1, <2>1 DEF Leads
<1>2. CASE \E m \in DOMAIN q : /\ m > j /\ Moves(q[m]) /\ q[m].v = y
                               /\ \A i \in DOMAIN q : i > m => ~Moves(q[i])
  <2>1. PICK m \in DOMAIN q : /\ m > j /\ Moves(q[m]) /\ q[m].v = y
                              /\ \A i \in DOMAIN q : i > m => ~Moves(q[i])
    BY <1>2
  <2>2. m - 1 \in DOMAIN r /\ m - 1 > j - 1 /\ r[m - 1] = q[m]
    BY <2>1
  <2>3. \A i \in DOMAIN r : i > m - 1 => ~Moves(r[i])
    BY <2>1
  <2> QED
    BY <2>1, <2>2, <2>3 DEF Leads
<1> QED
  BY <1>1, <1>2 DEF Leads

\* A frame is added at the end.
Adds(q, r, f) ==
    \E n \in Nat : /\ DOMAIN q = 1..n /\ DOMAIN r = 1..(n + 1) /\ r[n + 1] = f
                   /\ \A i \in 1..n : r[i] = q[i]

LEMMA Adding ==
    ASSUME NEW S, NEW q \in Seq(S), NEW f \in S
    PROVE  Adds(q, Append(q, f), f) /\ Append(q, f) \in Seq(S)
<1>1. /\ Len(q) \in Nat /\ DOMAIN q = 1..Len(q) /\ DOMAIN Append(q, f) = 1..(Len(q) + 1)
      /\ Append(q, f)[Len(q) + 1] = f
      /\ \A i \in 1..Len(q) : Append(q, f)[i] = q[i]
      /\ Append(q, f) \in Seq(S)
  OBVIOUS
<1> QED
  BY <1>1 DEF Adds

LEMMA LeadsAdd ==
    ASSUME NEW q, NEW r, NEW f, Adds(q, r, f), NEW j, j = 0 \/ j \in DOMAIN q, NEW x, NEW y,
           Leads(q, j, x, y)
    PROVE  Leads(r, j, x, IF Moves(f) THEN f.v ELSE y)
<1>1. PICK n \in Nat : /\ DOMAIN q = 1..n /\ DOMAIN r = 1..(n + 1) /\ r[n + 1] = f
                       /\ \A i \in 1..n : r[i] = q[i]
  BY DEF Adds
<1>2. CASE Moves(f)
  <2>1. n + 1 \in DOMAIN r /\ n + 1 > j /\ \A i \in DOMAIN r : ~(i > n + 1)
    BY <1>1
  <2> QED
    BY <1>1, <1>2, <2>1 DEF Leads
<1>3. CASE ~Moves(f)
  <2>1. CASE x = y /\ \A i \in DOMAIN q : i > j => ~Moves(q[i])
    <3>1. \A i \in DOMAIN r : i > j => ~Moves(r[i])
      BY <1>1, <1>3, <2>1
    <3> QED
      BY <1>3, <2>1, <3>1 DEF Leads
  <2>2. ASSUME NEW m \in DOMAIN q, m > j, Moves(q[m]), q[m].v = y,
               \A i \in DOMAIN q : i > m => ~Moves(q[i])
        PROVE  Leads(r, j, x, y)
    <3>1. m \in DOMAIN r /\ r[m] = q[m]
      BY <1>1
    <3>2. \A i \in DOMAIN r : i > m => ~Moves(r[i])
      BY <1>1, <1>3, <2>2
    <3> QED
      BY <2>2, <3>1, <3>2 DEF Leads
  <2> QED
    BY <1>3, <2>1, <2>2 DEF Leads
<1> QED
  BY <1>2, <1>3

LEMMA LeadsNone == ASSUME NEW x, NEW y PROVE Leads(<<>>, 0, x, y) <=> x = y
BY DEF Leads

\* A frame passes from the wire to the end of those that wait.
LEMMA ReachesOn ==
    ASSUME NEW c, NEW d, NEW f \in Event, NEW x, NEW y, Reaches(c, x, y),
           Pops(c.es.wire, d.es.wire, f), Adds(c.waits, d.waits, f)
    PROVE  Reaches(d, x, y)
<1>1. PICK m \in Nat : Leads(c.waits, 0, x, m) /\ Leads(c.es.wire, 0, m, y)
  BY DEF Reaches
<1> DEFINE k == IF Moves(f) THEN f.v ELSE m
<1>2. Leads(d.waits, 0, x, k)
  BY <1>1, LeadsAdd
<1>3. Leads(d.es.wire, 0, k, y)
  BY <1>1, LeadsPop
<1>4. k \in Nat
  BY DEF Event
<1> HIDE DEF k
<1> QED
  BY <1>2, <1>3, <1>4 DEF Reaches

-----------------------------------------------------------------------------
(* The flags of the busy gate.                                             *)

Held(c, d) ==
    d.ref = c.ref /\ d.reconciling = c.reconciling /\ d.dirty = c.dirty /\ d.second = c.second
Still(c, d) == Held(c, d) /\ d.expect = c.expect /\ d.resolved = c.resolved

LEMMA StillOn == ASSUME NEW c, NEW d, NEW e, Still(c, d), Still(d, e) PROVE Still(c, e)
BY DEF Still, Held

LEMMA ConnectStill ==
    ASSUME NEW c, Shape(c), NEW fresh, NEW upgrade
    PROVE  Still(c, ConnectAs(c, fresh, upgrade))
<1>1. DOMAIN Bump(c) = Fields /\ Still(c, Bump(c))
  BY DEF Shape, Bump, Fields, Still, Held
<1>2. Still(Bump(c), ConnectAs(c, fresh, upgrade))
  BY <1>1 DEF ConnectAs, Fields, Still, Held
<1> QED
  BY <1>1, <1>2, StillOn

LEMMA MaybeCompleteStill == ASSUME NEW c, Shape(c) PROVE Still(c, MaybeComplete(c))
BY DEF MaybeComplete, Shape, Fields, Still, Held

LEMMA DirectStill == ASSUME NEW c, Shape(c), NEW req PROVE Still(c, Direct(c, req))
<1>1. Direct(c, req) \in {c, ConnectAs(c, TRUE, FALSE), ConnectAs(c, FALSE, FALSE)}
  BY DEF Direct, Connect
<1>2. Still(c, c)
  BY DEF Still, Held
<1> QED
  BY <1>1, <1>2, ConnectStill

LEMMA RecoveryStill ==
    ASSUME NEW c, Shape(c), NEW req
    PROVE  Still(c, RequestRecovery(c, req))
<1>1. ASSUME NEW inherit PROVE Still(c, StartPass(c, req, inherit))
  <2>1. PICK p : StartPass(c, req, inherit) = MaybeComplete(Direct([c EXCEPT !.pass = p], req))
    BY DEF StartPass
  <2> DEFINE b == [c EXCEPT !.pass = p]
             d == Direct(b, req)
  <2>2. Still(c, b) /\ Same(c, b)
    BY PassSame DEF Shape, Fields, Still, Held
  <2>3. Shape(b)
    BY <2>2, SameShape
  <2>4. StartPass(c, req, inherit) = MaybeComplete(d)
    BY <2>1
  <2> HIDE DEF b
  <2>5. Still(b, d) /\ Shape(d)
    BY <2>3, DirectStill, DirectMoves, SameShape, CutShape DEF Moved
  <2> HIDE DEF d
  <2>6. Still(d, MaybeComplete(d))
    BY <2>5, MaybeCompleteStill
  <2> QED
    BY <2>2, <2>4, <2>5, <2>6, StillOn
<1>2. Still(c, Coalesce(c, req))
  <2> DEFINE b == [c EXCEPT !.pass.tree = IF req.tree # "no" /\ c.pass.tree = "no" THEN "pending" ELSE @,
                          !.pass.session = IF req.session /\ c.pass.session = "no" THEN "pending" ELSE @]
  <2>1. Same(c, b) /\ Still(c, b)
    BY DEF Same, Shape, Fields, Still, Held
  <2>2. Coalesce(c, req) \in {b, Direct(b, req)}
    BY DEF Coalesce
  <2> HIDE DEF b
  <2>3. Still(b, Direct(b, req))
    BY <2>1, SameShape, DirectStill
  <2> QED
    BY <2>1, <2>2, <2>3, StillOn
<1> QED
  BY <1>1, <1>2 DEF RequestRecovery

LEMMA TreeConvergedStill == ASSUME NEW c, Shape(c) PROVE Still(c, TreeConverged(c))
<1> DEFINE b == [c EXCEPT !.pass.tree = "converged"]
<1>1. Same(c, b) /\ Still(c, b)
  BY DEF Same, Shape, Fields, Still, Held
<1>2. TreeConverged(c) \in {c, MaybeComplete(b)}
  BY DEF TreeConverged
<1> HIDE DEF b
<1>3. Still(b, MaybeComplete(b)) /\ Still(c, c)
  BY <1>1, SameShape, MaybeCompleteStill DEF Still, Held
<1> QED
  BY <1>1, <1>2, <1>3, StillOn

LEMMA EpochAdvancedStill ==
    ASSUME NEW c, Shape(c), NEW prev
    PROVE  Still(c, EpochAdvanced(c, prev))
BY DEF EpochAdvanced, Shape, Fields, Still, Held

-----------------------------------------------------------------------------
(* Steps that change nothing the page has or will receive.                 *)

\* d is c but for the flags and the pass, the timers and what the stream
\* remembers; the gate's flags are as they were, too.
Alike(c, d) ==
    /\ DOMAIN d = Fields
    /\ d.es \in Source /\ d.es.st = c.es.st /\ d.es.wire = c.es.wire
    /\ d.epoch = c.epoch /\ d.boot \in Int /\ d.cursor = c.cursor
    /\ d.tree = c.tree /\ d.detail = c.detail /\ d.own = c.own /\ d.dec = c.dec
    /\ d.waits = c.waits /\ d.deferred = c.deferred /\ d.exp = c.exp
Like(c, d) == Alike(c, d) /\ Still(c, d)
\* d is c with its stream cut and what it was in the middle of given up.
Ended(c, d) ==
    /\ DOMAIN d = Fields
    /\ d.es \in Source /\ d.es.st # "open" /\ d.es.wire = <<>>
    /\ d.epoch = c.epoch /\ d.boot \in Int /\ d.cursor = c.cursor
    /\ d.tree = c.tree /\ d.detail = c.detail /\ d.exp = c.exp
    /\ d.own = None /\ d.dec = None /\ d.waits = <<>> /\ d.deferred = None
    /\ Gated(d)

LEMMA SameLike == ASSUME NEW c, NEW d, Shape(c), Same(c, d), Still(c, d) PROVE Like(c, d)
BY DEF Same, Like, Alike, Shape

LEMMA LikeOn == ASSUME NEW c, NEW d, NEW e, Like(c, d), Like(d, e) PROVE Like(c, e)
BY StillOn DEF Like, Alike

LEMMA LikeShape == ASSUME NEW c, NEW d, Shape(c), Like(c, d) PROVE Shape(d)
BY DEF Shape, Like, Alike

LEMMA StillGated ==
    ASSUME NEW c, NEW d, Still(c, d), Gated(c), d.waits \in {c.waits, <<>>}
    PROVE  Gated(d) /\ (Doomed(d) <=> Doomed(c)) /\ (GateActive(d) <=> GateActive(c))
BY DEF Still, Held, Gated, Doomed, GateActive

LEMMA AlikeSure ==
    ASSUME NEW z, NEW c, NEW d, NEW ok, Sure(z, c, ok), Alike(c, d), Gated(d),
           Doomed(c) => Doomed(d)
    PROVE  Sure(z, d, ok)
<1>1. Shape(c) /\ Shape(d)
  BY DEF Sure, Bounded, Shape, Alike
<1>3. Staged(d) = Staged(c) /\ Shown(d) = Shown(c) /\ \A x, y : Reaches(d, x, y) <=> Reaches(c, x, y)
  BY DEF Alike, Staged, Shown, Reaches
<1>4. \A e, n : Within(e, n, d) <=> Within(e, n, c)
  BY <1>3 DEF Within, Alike
<1>5. Captured(z, c) => Captured(z, d)
  BY <1>3 DEF Captured, Alike
<1>6. Wired(z, c) => Wired(z, d)
  BY <1>3 DEF Wired, Alike
<1>7. Bounded(z, d)
  BY <1>1, <1>4, <1>5, <1>6 DEF Sure, Bounded, Alike
<1>8. Coming(z, c) => Coming(z, d)
  BY <1>4 DEF Coming, Alike
<1>9. Pending(z, c) => Pending(z, d)
  BY <1>3 DEF Pending, Alike
<1>10. Showing(z, c) => Showing(z, d)
  BY <1>3 DEF Showing, Alike
<1> QED
  BY <1>7, <1>8, <1>9, <1>10 DEF Sure, Flow, Alike

LEMMA LikeSure ==
    ASSUME NEW z, NEW c, NEW d, NEW ok, Sure(z, c, ok), Like(c, d)
    PROVE  Sure(z, d, ok)
<1>1. Gated(c) /\ Still(c, d) /\ d.waits = c.waits /\ Alike(c, d)
  BY DEF Sure, Bounded, Like, Alike
<1>2. Gated(d) /\ (Doomed(d) <=> Doomed(c))
  BY <1>1, StillGated
<1> QED
  BY <1>1, <1>2, AlikeSure

LEMMA CappedNone == Capped(<<>>)
<1>1. Of(<<>>) = {}
  BY DEF Of
<1> QED
  BY <1>1 DEF Capped

LEMMA CappedAdds ==
    ASSUME NEW q, NEW r, NEW f, Capped(q), f.n \in Nat, \A x \in Of(q) : x.n \in Nat,
           \A x \in Of(r) : x \in Of(q) \/ x = f
    PROVE  Capped(r)
<1>1. PICK m \in Nat : \A x \in Of(q) : x.n <= m
  BY DEF Capped
<1>2. CASE m <= f.n
  <2>1. \A x \in Of(r) : x.n <= f.n
    BY <1>1, <1>2
  <2> QED
    BY <2>1 DEF Capped
<1>3. CASE ~(m <= f.n)
  <2>1. \A x \in Of(r) : x.n <= m
    BY <1>1, <1>3
  <2> QED
    BY <2>1 DEF Capped
<1> QED
  BY <1>2, <1>3

LEMMA EndedSure ==
    ASSUME NEW z, NEW c, NEW d, NEW ok, Bounded(z, c), Ended(c, d)
    PROVE  Sure(z, d, ok)
<1>1. Shape(d) /\ Gated(d) /\ d.es.st # "open"
  BY DEF Bounded, Ended, Shape
<1>2. /\ Staged(d) = {} /\ Of(d.waits) = {} /\ d.deferred = None /\ d.own = None /\ d.dec = None
      /\ d.epoch = c.epoch /\ d.cursor = c.cursor /\ d.es.wire = <<>> /\ d.exp = c.exp
  BY DEF Ended, Staged, Of
<1>3. Within(z.epoch, z.head, d)
  BY <1>2 DEF Bounded, Within
<1>4. Captured(z, d)
  BY <1>2 DEF Captured
<1>5. Wired(z, d)
  BY <1>2 DEF Wired, Lined, Trees, Details
<1>6. Bounded(z, d)
  <2>1. Capped(d.waits)
    BY CappedNone DEF Ended
  <2> QED
    BY <2>1, <1>1, <1>2, <1>3, <1>4, <1>5 DEF Bounded
<1> QED
  BY <1>1, <1>6 DEF Sure, Flow

\* A request for recovery.
LEMMA RecoverySure ==
    ASSUME NEW z, NEW c, NEW ok, Sure(z, c, ok), NEW req, NEW d, d = RequestRecovery(c, req)
    PROVE  /\ Sure(z, d, ok) /\ Still(c, d) /\ d.own \in {c.own, None}
           /\ d.waits \in {c.waits, <<>>} /\ d.deferred \in {c.deferred, None}
           /\ Like(c, d) \/ d.es.st = "connecting"
           /\ d.own = None /\ c.own # None => d.waits = <<>> /\ d.deferred = None
           /\ req.tree \in {"no", "await"} => Like(c, d)
<1>1. Shape(c) /\ Gated(c) /\ Bounded(z, c)
  BY DEF Sure, Bounded
<1>2. Moved(c, d) /\ Still(c, d)
  BY <1>1, RecoveryMoves, RecoveryStill
<1>3. CASE Same(c, d)
  <2>1. Like(c, d)
    BY <1>1, <1>2, <1>3, SameLike
  <2> QED
    BY <1>2, <2>1, LikeSure DEF Like, Alike
<1>4. CASE ~Same(c, d)
  <2>0. Cut(c, d) /\ d.es.st = "connecting"
    BY <1>2, <1>4 DEF Moved
  <2>1. Gated(d)
    BY <2>0, <1>1, <1>2, StillGated DEF Cut
  <2>2. Sure(z, d, ok)
    BY <2>0, <2>1, <1>1, EndedSure DEF Ended, Cut
  <2>3. req.tree \notin {"no", "await"}
    BY <1>1, <1>4, RecoveryMoves
  <2> QED
    BY <1>2, <2>0, <2>2, <2>3 DEF Cut
<1> QED
  BY <1>3, <1>4

LEMMA ConnectSure ==
    ASSUME NEW z, NEW c, NEW ok, Bounded(z, c), NEW fresh \in BOOLEAN, NEW upgrade \in BOOLEAN,
           NEW d, d = ConnectAs(c, fresh, upgrade)
    PROVE  Sure(z, d, ok) /\ Still(c, d) /\ Ended(c, d)
<1>1. Cut(c, d) /\ d.es.st = "connecting" /\ Still(c, d)
  BY ConnectCuts, ConnectStill DEF Bounded
<1>2. Gated(d)
  BY <1>1, StillGated DEF Bounded, Cut
<1>3. Ended(c, d)
  BY <1>1, <1>2 DEF Ended, Cut
<1> QED
  BY <1>1, <1>3, EndedSure

-----------------------------------------------------------------------------
(* Applying a capture.                                                     *)

\* The expected capture, if any, has come.
Met(c, d) == Held(c, d) /\ d.expect = FALSE /\ (d.resolved <=> c.resolved \/ c.expect)

LEMMA ExpectedMet ==
    ASSUME NEW c, Shape(c)
    PROVE  Met(c, Expected(c))
BY DEF Expected, Met, Held, Shape, Fields

LEMMA MetGated ==
    ASSUME NEW c, NEW d, Met(c, d), Gated(c), d.waits \in {c.waits, <<>>}
    PROVE  Gated(d) /\ (Doomed(d) <=> Doomed(c)) /\ (GateActive(d) <=> GateActive(c))
BY DEF Met, Held, Gated, Doomed, GateActive

LEMMA MetOn ==
    ASSUME NEW c, NEW d, NEW e
    PROVE  /\ Met(c, d) /\ Still(d, e) => Met(c, e)
           /\ Still(c, d) /\ Met(d, e) => Met(c, e)
BY DEF Met, Still, Held

\* d has taken the detail part f, which is the page's epoch from here on.
Takes(c, d, f) ==
    /\ DOMAIN d = Fields
    /\ d.es = c.es /\ d.boot \in Int /\ d.tree = c.tree /\ d.own = c.own /\ d.dec = c.dec
    /\ d.waits = c.waits /\ d.deferred = c.deferred /\ d.exp = c.exp
    /\ d.epoch = f.e
    /\ d.cursor = IF c.epoch = f.e THEN Larger(c.cursor, f.n) ELSE f.n
    /\ d.detail \in [Sess -> Nat]
    /\ d.detail["frontier"] = IF c.epoch = f.e /\ f.n < c.cursor THEN c.detail["frontier"]
                              ELSE Says(f)

LEMMA ScopedTakes ==
    ASSUME NEW c, Shape(c), NEW f \in Part
    PROVE  LET d == ApplyScoped(c, f, {"frontier"}, "stream")
           IN  Takes(c, d, f) /\ Still(c, d)
<1> DEFINE v == Verdict(c, f, "stream")
           d == ApplyScoped(c, f, {"frontier"}, "stream")
           p == Project(c, f, {"frontier"})
           k == IF v = "rebaseline" THEN f.n ELSE Larger(c.cursor, f.n)
<1>0. DOMAIN c = Fields /\ c.boot \in Int /\ c.cursor \in Int /\ c.detail \in [Sess -> Nat]
  BY DEF Shape
<1>1. /\ v = IF c.epoch = f.e THEN IF f.n < c.cursor THEN "stale" ELSE "apply"
             ELSE "rebaseline"
      /\ f.n \in Nat /\ f.e # 0
  BY PartTells DEF Verdict
<1>2. p \in [Sess -> Nat] /\ p["frontier"] = Says(f)
  BY PartTells DEF Project, Shape, Sess
<1>3. v = "stale" => d = c
  BY DEF ApplyScoped
<1>4. v # "stale" => d = [c EXCEPT !.detail = p, !.epoch = f.e, !.cursor = k]
  BY <1>1 DEF ApplyScoped
<1>5. v = "rebaseline" => k = f.n
  OBVIOUS
<1>6. v = "apply" => k = Larger(c.cursor, f.n)
  OBVIOUS
<1> HIDE DEF v, p, k, d
<1>7. CASE v = "stale"
  <2>1. d = c /\ c.epoch = f.e /\ f.n < c.cursor
    BY <1>1, <1>3, <1>7
  <2>2. Larger(c.cursor, f.n) = c.cursor
    BY <2>1, <1>0, <1>1 DEF Larger
  <2>3. Takes(c, d, f)
    BY <2>1, <2>2, <1>0 DEF Takes
  <2> QED
    BY <2>1, <2>3 DEF Still, Held, d
<1>8. CASE v # "stale"
  <2>1. d = [c EXCEPT !.detail = p, !.epoch = f.e, !.cursor = k]
    BY <1>4, <1>8
  <2>2. /\ DOMAIN d = Fields /\ d.es = c.es /\ d.boot = c.boot /\ d.tree = c.tree
        /\ d.own = c.own /\ d.dec = c.dec /\ d.waits = c.waits /\ d.deferred = c.deferred
        /\ d.exp = c.exp /\ d.epoch = f.e /\ d.cursor = k /\ d.detail = p
        /\ d.ref = c.ref /\ d.reconciling = c.reconciling /\ d.dirty = c.dirty
        /\ d.second = c.second /\ d.expect = c.expect /\ d.resolved = c.resolved
    BY ONLY <2>1, <1>0 DEF Fields
  <2>3. /\ c.epoch = f.e => ~(f.n < c.cursor) /\ k = Larger(c.cursor, f.n)
        /\ c.epoch # f.e => k = f.n
    BY <1>1, <1>5, <1>6, <1>8
  <2>4. Takes(c, d, f)
    BY <2>2, <2>3, <1>0, <1>2 DEF Takes
  <2> QED
    BY <2>2, <2>4 DEF Still, Held, d
<1> QED
  BY <1>7, <1>8 DEF d

LEMMA TakesShape ==
    ASSUME NEW c, Shape(c), NEW f \in Part, NEW d, Takes(c, d, f)
    PROVE  Shape(d)
<1>1. c.cursor \in Int /\ f.n \in Nat /\ f.e \in Nat
  BY PartTells DEF Shape
<1>2. d.cursor \in Int /\ d.epoch \in Nat
  BY <1>1 DEF Takes, Larger
<1> QED
  BY <1>2 DEF Shape, Takes

\* A detail part with no capture pending, and the gate open to it.
LEMMA AloneTakes ==
    ASSUME NEW c, Shape(c), NEW f \in Part
    PROVE  \/ /\ GateActive(c) /\ ~c.expect
              /\ ApplyDetailIndependent(c, f) = Defer(c, f.n)
           \/ \E d : /\ Takes(c, d, f) /\ Met(c, d)
                     /\ Like(d, ApplyDetailIndependent(c, f))
<1> DEFINE b == Expected(c)
           d == ApplyScoped(b, f, {"frontier"}, "stream")
           e == IF Verdict(c, f, "stream") # "stale" THEN TreeConverged(d) ELSE d
<1>1. Same(c, b) /\ Met(c, b) /\ Shape(b)
  BY ExpectedSame, ExpectedMet, SameShape
<1> HIDE DEF b
<1>2. Takes(b, d, f) /\ Still(b, d)
  BY <1>1, ScopedTakes
<1>3. Takes(c, d, f) /\ Met(c, d)
  BY <1>1, <1>2, MetOn DEF Takes, Same
<1> HIDE DEF d
<1>4. Shape(d)
  BY <1>3, TakesShape
<1>5. Like(d, e) /\ Shape(e)
  <2>1. Same(d, e) /\ Still(d, e)
    BY <1>4, TreeConvergedSame, TreeConvergedStill, SelfSame DEF Still, Held
  <2> QED
    BY <2>1, <1>4, SameLike, SameShape
<1> HIDE DEF e
<1>6. Like(e, EpochAdvanced(e, c.epoch))
  BY <1>5, EpochAdvancedSame, EpochAdvancedStill, SameLike
<1>7. Like(d, EpochAdvanced(e, c.epoch))
  BY <1>5, <1>6, LikeOn
<1>8. ApplyDetailIndependent(c, f) = IF GateActive(c) /\ ~c.expect THEN Defer(c, f.n)
                                     ELSE EpochAdvanced(e, c.epoch)
  BY DEF ApplyDetailIndependent, b, d, e
<1> QED
  BY <1>3, <1>7, <1>8

\* d shows the capture c has the parts of.
Installs(c, d) ==
    LET t == c.own.tree
        f == c.own.detail
    IN  /\ DOMAIN d = Fields
        /\ d.es = c.es /\ d.boot \in Int /\ d.own = None /\ d.dec = c.dec
        /\ d.waits = c.waits /\ d.deferred = c.deferred
        /\ d.exp \in {c.exp, [st |-> "sent"]}
        /\ d.epoch = f.e
        /\ d.cursor = Larger(IF c.epoch = f.e THEN Larger(c.cursor, f.n) ELSE f.n, t.n)
        /\ d.detail \in [Sess -> Nat]
        /\ d.detail["frontier"] = IF c.epoch = f.e /\ f.n < c.cursor
                                  THEN c.detail["frontier"] ELSE Says(f)
        /\ d.tree \in [Sess -> Nat] /\ d.tree["frontier"] = Says(t)
        /\ Met(c, d)

LEMMA InstallTakes ==
    ASSUME NEW c, Shape(c), c.own # None, c.own.tree # None, c.own.detail # None
    PROVE  \E d : Installs(c, d) /\ Shape(d) /\ Like(d, Install(c))
<1> DEFINE t == c.own.tree
           f == c.own.detail
           a == ApplyScoped(c, f, {"frontier"}, "stream")
           b == Expected(a)
           g == AdvanceCursor(b, t.n)
           e == [g EXCEPT !.tree = [s \in Sess |-> IF s = "frontier" THEN t.v[s] ELSE 0],
                          !.ready = TRUE, !.own = None, !.lagging = FALSE,
                          !.exp = IF c.expanded /\ @.st = "idle" THEN [st |-> "sent"] ELSE @]
           h == IF Verdict(c, f, "stream") # "stale" THEN TreeConverged(e) ELSE e
           A(d) == /\ d.es = c.es /\ d.dec = c.dec /\ d.waits = c.waits
                   /\ d.deferred = c.deferred /\ d.exp = c.exp /\ d.epoch = f.e
                   /\ d.detail["frontier"] = IF c.epoch = f.e /\ f.n < c.cursor
                                             THEN c.detail["frontier"] ELSE Says(f)
           k == IF c.epoch = f.e THEN Larger(c.cursor, f.n) ELSE f.n
<1>1. t \in Part /\ f \in Part
  BY DEF Shape, Owner
<1>2. Takes(c, a, f) /\ Still(c, a) /\ Shape(a)
  BY <1>1, ScopedTakes, TakesShape
<1>3. A(a) /\ a.cursor = k
  BY <1>2 DEF Takes
<1> HIDE DEF a
<1>4. Same(a, b) /\ Met(a, b) /\ Shape(b)
  BY <1>2, ExpectedSame, ExpectedMet, SameShape
<1>5. A(b) /\ b.cursor = k /\ Met(c, b)
  BY <1>2, <1>3, <1>4, MetOn DEF Same
<1> HIDE DEF b, k
<1>6. /\ DOMAIN g = Fields /\ g.cursor = Larger(k, t.n) /\ A(g) /\ g.boot = b.boot
      /\ g.detail = b.detail /\ Still(b, g)
  BY <1>4, <1>5 DEF AdvanceCursor, Shape, Fields, Still, Held
<1> HIDE DEF g
<1>7. [s \in Sess |-> IF s = "frontier" THEN t.v[s] ELSE 0] \in [Sess -> Nat]
  BY <1>1, PartTells
<1>8. /\ DOMAIN e = Fields /\ e.es = g.es /\ e.boot = g.boot /\ e.epoch = g.epoch
      /\ e.own = None /\ e.dec = g.dec /\ e.waits = g.waits /\ e.deferred = g.deferred
      /\ e.exp \in {g.exp, [st |-> "sent"]} /\ e.detail = g.detail /\ e.cursor = g.cursor
      /\ e.tree = [s \in Sess |-> IF s = "frontier" THEN t.v[s] ELSE 0]
      /\ Still(g, e)
  BY <1>6 DEF Fields, Still, Held
<1>9. e.tree["frontier"] = Says(t)
  BY <1>8, <1>1, PartTells DEF Sess
<1> HIDE DEF e
<1>10. Installs(c, e)
  <2>1. Met(c, e)
    BY <1>5, <1>6, <1>8, MetOn
  <2>2. b.boot \in Int /\ b.detail \in [Sess -> Nat]
    BY <1>4 DEF Shape
  <2>3. /\ e.boot \in Int /\ e.detail \in [Sess -> Nat] /\ e.tree \in [Sess -> Nat]
        /\ e.exp \in {c.exp, [st |-> "sent"]}
    BY <2>2, <1>6, <1>7, <1>8
  <2> QED
    BY <2>1, <2>3, <1>6, <1>8, <1>9 DEF Installs, k
<1>11. Shape(e)
  <2>1. k \in Int /\ t.n \in Nat /\ f.e \in Nat
    BY <1>1, <1>4, <1>5, PartTells DEF Shape
  <2>2. e.cursor \in Int /\ e.epoch \in Nat
    BY <2>1, <1>6, <1>8 DEF Larger
  <2> QED
    BY <2>2, <1>10 DEF Shape, Installs
<1>12. Like(e, h) /\ Shape(h)
  <2>1. Same(e, h) /\ Still(e, h)
    BY <1>11, TreeConvergedSame, TreeConvergedStill, SelfSame DEF Still, Held
  <2> QED
    BY <2>1, <1>11, SameLike, SameShape
<1>13. Install(c) = EpochAdvanced(h, c.epoch)
  BY DEF Install, h, e, g, b, a
<1> HIDE DEF h
<1>14. Like(e, Install(c))
  <2>1. Like(h, EpochAdvanced(h, c.epoch))
    BY <1>12, EpochAdvancedSame, EpochAdvancedStill, SameLike
  <2> QED
    BY <2>1, <1>12, <1>13, LikeOn
<1> QED
  BY <1>10, <1>11, <1>14

-----------------------------------------------------------------------------
(* A frame is taken from the stream.                                       *)

\* b is c with the frame f in hand.
Popped(c, b, f) ==
    /\ Pops(c.es.wire, b.es.wire, f)
    /\ DOMAIN b = Fields
    /\ b.es \in Source /\ b.es.st = c.es.st
    /\ b.epoch = c.epoch /\ b.boot \in Int /\ b.cursor = c.cursor
    /\ b.tree = c.tree /\ b.detail = c.detail /\ b.own = c.own /\ b.dec = c.dec
    /\ b.waits = c.waits /\ b.deferred = c.deferred /\ b.exp = c.exp
    /\ Still(c, b)

LEMMA PoppedLike ==
    ASSUME NEW c, NEW b, NEW d, NEW f, Popped(c, b, f), Like(b, d)
    PROVE  Popped(c, d, f)
BY StillOn DEF Popped, Like, Alike

LEMMA PoppedShape ==
    ASSUME NEW c, Shape(c), NEW b, NEW f, Popped(c, b, f)
    PROVE  Shape(b)
BY DEF Shape, Popped

\* What is left of the wire, and what is known of the frame in hand.
LEMMA LinedPop ==
    ASSUME NEW z, NEW q, NEW F, Lined(z, q, F), NEW r, NEW f, Pops(q, r, f)
    PROVE  /\ f.n <= z.head /\ (f.k # "event" => f.e = z.epoch)
           /\ f.k = "tree" => Lined(z, r, {f})
           /\ f.k # "tree" => \A G : Lined(z, r, G)
           /\ \A i \in Trees(r) : f.k = "event" /\ f.n <= r[i].n
           /\ f.k = "detail" => Details(r) = {} /\ \A g \in F : Twins(f, g)
           /\ Trees(q) = {} => Trees(r) = {}
           /\ Details(q) = {} => Details(r) = {}
<1> USE DEF Pops
<1>1. f.n <= z.head /\ (f.k # "event" => f.e = z.epoch)
  BY DEF Lined
<1>2. \A i \in DOMAIN r : r[i].n <= z.head /\ (r[i].k # "event" => r[i].e = z.epoch)
  BY DEF Lined
<1>3. ASSUME NEW i \in Trees(r)
      PROVE  /\ i + 1 \in DOMAIN r /\ r[i + 1].k = "detail" /\ Twins(r[i], r[i + 1])
             /\ \A j \in DOMAIN r : j < i => r[j].k = "event" /\ r[j].n <= r[i].n
             /\ f.k = "event" /\ f.n <= r[i].n
  <2>1. i \in DOMAIN r /\ r[i] = q[i + 1] /\ i + 1 \in Trees(q) /\ i \in Nat /\ i > 0
    BY <1>3 DEF Trees
  <2>2. /\ i + 2 \in DOMAIN q /\ q[i + 2].k = "detail" /\ Twins(q[i + 1], q[i + 2])
        /\ \A j \in DOMAIN q : j < i + 1 => q[j].k = "event" /\ q[j].n <= q[i + 1].n
    BY <2>1 DEF Lined
  <2>3. i + 1 \in DOMAIN r /\ r[i + 1] = q[i + 2]
    BY <2>1, <2>2
  <2>4. \A j \in DOMAIN r : j < i => j + 1 < i + 1 /\ r[j] = q[j + 1] /\ j + 1 \in DOMAIN q
    BY <2>1
  <2> QED
    BY <2>1, <2>2, <2>3, <2>4
<1>4. ASSUME NEW i \in Details(r)
      PROVE  IF i = 1 THEN f.k = "tree" /\ Twins(f, r[1]) ELSE i - 1 \in Trees(r)
  <2>1. i \in DOMAIN r /\ r[i] = q[i + 1] /\ i + 1 \in Details(q) /\ i \in Nat /\ i > 0
    BY <1>4 DEF Details
  <2>2. i \in Trees(q)
    BY <2>1 DEF Lined
  <2>3. q[i].k = "tree" /\ Twins(q[i], q[i + 1])
    BY <2>2 DEF Lined, Trees
  <2>4. CASE i = 1
    BY <2>1, <2>3, <2>4
  <2>5. CASE i # 1
    <3>1. i > 1 /\ i \in DOMAIN q
      BY <2>1, <2>2, <2>5 DEF Trees
    <3>2. i - 1 \in DOMAIN r /\ r[i - 1] = q[i]
      BY <3>1
    <3> QED
      BY <2>3, <2>5, <3>2 DEF Trees
  <2> QED
    BY <2>4, <2>5
<1>5. f.k # "tree" => \A G : Lined(z, r, G)
  BY <1>2, <1>3, <1>4 DEF Lined
<1>6. f.k = "tree" => Lined(z, r, {f})
  BY <1>2, <1>3, <1>4 DEF Lined, Twins
<1>7. ASSUME f.k = "detail"
      PROVE  Details(r) = {} /\ \A g \in F : Twins(f, g)
  <2>1. \A i \in Details(r) : FALSE
    BY <1>3, <1>4, <1>7
  <2>2. 1 \in Details(q)
    BY <1>7 DEF Details
  <2> QED
    BY <2>1, <2>2 DEF Lined
<1>8. \A i \in DOMAIN r : /\ i \in Trees(r) => i + 1 \in Trees(q)
                          /\ i \in Details(r) => i + 1 \in Details(q)
  BY DEF Trees, Details
<1>9. Trees(r) \subseteq DOMAIN r /\ Details(r) \subseteq DOMAIN r
  BY DEF Trees, Details
<1> QED
  BY ONLY <1>1, <1>3, <1>5, <1>6, <1>7, <1>8, <1>9

LEMMA NoTreeLeft ==
    ASSUME NEW z, NEW q, NEW F, Lined(z, q, F), NEW r, NEW f, Pops(q, r, f), f.k # "tree", NEW G
    PROVE  /\ f.n <= z.head /\ Lined(z, r, G)
           /\ Trees(q) = {} => Trees(r) = {}
           /\ Details(q) = {} => Details(r) = {}
<1>1. f.n <= z.head
  BY LinedPop
<1>2. Lined(z, r, G)
  BY LinedPop
<1>3. Trees(q) = {} => Trees(r) = {}
  BY LinedPop
<1>4. Details(q) = {} => Details(r) = {}
  BY LinedPop
<1> QED
  BY <1>1, <1>2, <1>3, <1>4

\* A capture on the way is still there behind an event.
LEMMA ComingPop ==
    ASSUME NEW z, NEW c, NEW d, NEW f, f.k = "event", Pops(c.es.wire, d.es.wire, f),
           Lined(z, c.es.wire, Staged(c)), Coming(z, c),
           \A n \in Nat : Within(z.epoch, n, c) /\ f.n <= n => Within(z.epoch, n, d),
           c.es.wire \in Seq(Part \cup Event)
    PROVE  Coming(z, d)
<1> DEFINE q == c.es.wire
           r == d.es.wire
<1>1. PICK j \in Trees(q) : /\ Within(z.epoch, q[j].n, c)
                            /\ Leads(q, j, Says(q[j]), z.val["frontier"])
  BY DEF Coming
<1>2. j \in DOMAIN q /\ q[j].k = "tree" /\ q[1] = f /\ j \in Nat /\ j > 0
  BY DEF Trees, Pops
<1>3. j > 1
  BY <1>2
<1>4. j - 1 \in DOMAIN r /\ r[j - 1] = q[j]
  BY <1>2, <1>3 DEF Pops
<1>5. q[j].n \in Nat
  BY <1>2, SaysNat
<1>6. f.n <= q[j].n
  BY <1>2, <1>3 DEF Lined, Pops
<1>7. Leads(r, j - 1, Says(q[j]), z.val["frontier"])
  BY <1>1, <1>2, LeadsShift
<1> QED
  BY <1>1, <1>2, <1>4, <1>5, <1>6, <1>7 DEF Coming, Trees

\* The values of a frame.
LEMMA EventTells ==
    ASSUME NEW f \in Event
    PROVE  f.k = "event" /\ f.n \in Nat /\ f.v \in Nat /\ f.s \in Sess /\ Says(f) = f.v
           /\ (Moves(f) <=> f.s = "frontier") /\ (Moves(f) <=> Tells(f))
BY DEF Event, Says, Moves, Tells

\* An event waits for the pending capture.
LEMMA EventWaits ==
    ASSUME NEW z, Store(z), NEW c, NEW ok, Sure(z, c, ok), NEW f \in Event,
           NEW b, Popped(c, b, f), ~GateActive(b), b.own # None
    PROVE  Sure(z, [b EXCEPT !.waits = Append(@, f)], ok)
<1> DEFINE d == [b EXCEPT !.waits = Append(@, f)]
           w == Append(b.waits, f)
<1>0. /\ Shape(c) /\ Shape(b) /\ Gated(c) /\ Lined(z, c.es.wire, Staged(c)) /\ Captured(z, c)
      /\ c.es.wire \in Seq(Part \cup Event) /\ z.head \in Nat
  BY PoppedShape DEF Sure, Bounded, Wired, Shape, Source, Store
<1>1. /\ DOMAIN d = Fields /\ d.es = b.es /\ d.epoch = c.epoch /\ d.boot = b.boot
      /\ d.cursor = c.cursor /\ d.tree = c.tree /\ d.detail = c.detail /\ d.own = c.own
      /\ d.dec = c.dec /\ d.waits = w /\ d.deferred = c.deferred /\ d.exp = c.exp /\ Still(b, d)
  BY DEF Popped, Fields, Still, Held
<1>2. Adds(c.waits, w, f) /\ w \in Seq(Event)
  BY <1>0, Adding DEF Popped, Shape
<1>3. \A x \in Of(w) : x \in Of(c.waits) \/ x = f
  BY <1>2 DEF Of, Adds
<1> HIDE DEF d, w
<1>4. Shape(d)
  BY <1>0, <1>1, <1>2 DEF Shape
<1>5. Still(c, d)
  BY <1>1, StillOn DEF Popped
<1>6. ~GateActive(d) /\ ~GateActive(c)
  BY <1>1, <1>5 DEF Still, Held, GateActive
<1>7. Gated(d) /\ (Doomed(d) <=> Doomed(c))
  BY <1>0, <1>5, <1>6 DEF Still, Held, Gated, Doomed, GateActive
<1>8. Staged(d) = Staged(c)
  BY <1>1 DEF Staged
<1>9. \A n : Within(z.epoch, n, c) /\ f.n <= n => Within(z.epoch, n, d)
  BY <1>1, <1>3, <1>8 DEF Within
<1>10. /\ f.n <= z.head /\ Lined(z, d.es.wire, Staged(d)) /\ Pops(c.es.wire, d.es.wire, f)
       /\ Trees(c.es.wire) = {} => Trees(d.es.wire) = {}
       /\ Details(c.es.wire) = {} => Details(d.es.wire) = {}
  <2>1. Pops(c.es.wire, d.es.wire, f) /\ f.k # "tree"
    BY <1>1, EventTells DEF Popped
  <2>2. Lined(z, c.es.wire, Staged(c))
    BY <1>0
  <2> QED
    BY ONLY <2>1, <2>2, NoTreeLeft
<1>11. Captured(z, d)
  BY <1>0, <1>1, <1>8 DEF Captured
<1>12. Bounded(z, d)
  <2>1. Wired(z, d)
    BY <1>10, <1>1 DEF Wired, Sure, Bounded, Popped, Pops
  <2>2. Capped(c.waits) /\ f.n \in Nat /\ \A x \in Of(c.waits) : x.n \in Nat
    BY <1>0, EventTells, Sets DEF Sure, Bounded
  <2>3. Capped(w)
    BY <2>2, <1>3, CappedAdds
  <2> QED
    BY <2>1, <2>3, <1>1, <1>4, <1>7, <1>9, <1>10, <1>11 DEF Sure, Bounded
<1>13. ASSUME ok, d.es.st = "open", ~Doomed(d)
       PROVE  Coming(z, d) \/ Pending(z, d)
  <2>1. Coming(z, c) \/ Pending(z, c) \/ Showing(z, c)
    BY <1>13, <1>1, <1>7 DEF Sure, Flow, Popped
  <2>2. CASE Coming(z, c)
    BY <2>2, <1>0, <1>9, <1>10, EventTells, ComingPop
  <2>3. CASE Pending(z, c)
    <3>1. \A x, y : Reaches(c, x, y) => Reaches(d, x, y)
      BY <1>1, <1>2, <1>10, ReachesOn
    <3> QED
      BY <2>3, <3>1, <1>1, <1>8, <1>10 DEF Pending
  <2> QED
    BY <2>1, <2>2, <2>3, <1>1 DEF Showing, Popped
<1>14. Sure(z, d, ok)
  BY <1>12, <1>13 DEF Sure, Flow
<1> QED
  BY <1>14 DEF d

\* An event is let go at the gate.  Either the gate will end with a capture, or
\* it is a reconcile's second pass and the frame is a debt.
LEMMA EventShed ==
    ASSUME NEW z, Store(z), NEW c, NEW ok, Sure(z, c, ok), NEW f \in Event,
           NEW b, Popped(c, b, f), GateActive(b), ok => ~(b.reconciling /\ b.second)
    PROVE  Sure(z, Defer(b, f.n), ok)
<1> DEFINE d == Defer(b, f.n)
<1>0. /\ Shape(c) /\ Shape(b) /\ Gated(c) /\ Lined(z, c.es.wire, Staged(c)) /\ Captured(z, c)
      /\ z.head \in Nat /\ f.n \in Nat
  BY PoppedShape, EventTells DEF Sure, Bounded, Wired, Store
<1>1. /\ DOMAIN d = Fields /\ d.es = b.es /\ d.epoch = c.epoch /\ d.boot = b.boot
      /\ d.cursor = Larger(c.cursor, f.n)
      /\ d.tree = c.tree /\ d.detail = c.detail /\ d.own = c.own
      /\ d.dec = c.dec /\ d.waits = c.waits /\ d.deferred = c.deferred /\ d.exp = c.exp
      /\ d.ref = b.ref /\ d.reconciling = b.reconciling /\ d.second = b.second
      /\ d.expect = b.expect /\ d.resolved = b.resolved
      /\ (d.dirty <=> b.dirty \/ b.reconciling)
  BY DEF Popped, Defer, AdvanceCursor, Fields
<1> HIDE DEF d
<1>2. d.cursor \in Int /\ \A n : c.cursor <= n /\ f.n <= n => d.cursor <= n
  BY <1>0, <1>1 DEF Shape, Larger
<1>3. Shape(d)
  BY <1>0, <1>1, <1>2 DEF Shape
<1>4. Gated(d)
  BY <1>0, <1>1 DEF Gated, Popped, Still, Held
<1>5. ok => Doomed(d)
  BY <1>0, <1>1, <1>4 DEF GateActive, Doomed, Gated
<1>6. Staged(d) = Staged(c)
  BY <1>1 DEF Staged
<1>7. \A n : Within(z.epoch, n, c) /\ f.n <= n => Within(z.epoch, n, d)
  BY <1>1, <1>2, <1>6 DEF Within
<1>8. f.n <= z.head /\ Lined(z, d.es.wire, Staged(d))
  <2>1. Pops(c.es.wire, d.es.wire, f) /\ f.k # "tree"
    BY <1>1, EventTells DEF Popped
  <2>2. Lined(z, c.es.wire, Staged(c))
    BY <1>0
  <2> QED
    BY ONLY <2>1, <2>2, NoTreeLeft
<1>9. Captured(z, d)
  BY <1>0, <1>1, <1>6 DEF Captured
<1>10. Wired(z, d)
  BY <1>8, <1>1 DEF Wired, Sure, Bounded, Popped, Pops
<1>11. Bounded(z, d)
  BY <1>1, <1>3, <1>4, <1>7, <1>8, <1>9, <1>10 DEF Sure, Bounded
<1>12. Sure(z, d, ok)
  BY <1>5, <1>11 DEF Sure, Flow
<1> QED
  BY <1>12 DEF d

LEMMA EventStill ==
    ASSUME NEW c, Shape(c), NEW f \in Event
    PROVE  Still(c, ApplyEvent(c, f)) /\ ApplyEvent(c, f).cursor = Larger(c.cursor, f.n)
BY DEF ApplyEvent, AdvanceCursor, Shape, Fields, Still, Held

\* An event is shown at once.
LEMMA EventShows ==
    ASSUME NEW z, Store(z), NEW c, NEW ok, Sure(z, c, ok), NEW f \in Event,
           NEW b, Popped(c, b, f), ~GateActive(b), b.own = None, b.waits = <<>>
    PROVE  Sure(z, ApplyEvent(b, f), ok)
<1> DEFINE d == ApplyEvent(b, f)
           V == z.val["frontier"]
<1>0. /\ Shape(c) /\ Shape(b) /\ Gated(c) /\ Lined(z, c.es.wire, Staged(c)) /\ Captured(z, c)
      /\ c.es.wire \in Seq(Part \cup Event) /\ z.head \in Nat /\ f.n \in Nat
      /\ f.k = "event" /\ f.v \in Nat
  BY PoppedShape, EventTells DEF Sure, Bounded, Wired, Shape, Source, Store
<1>1. Applied(b, d, f) /\ Still(b, d) /\ d.cursor = Larger(b.cursor, f.n)
  BY <1>0, EventApplied, EventStill
<1> HIDE DEF d
<1>2. d.cursor \in Int /\ \A n : c.cursor <= n /\ f.n <= n => d.cursor <= n
  BY <1>0, <1>1 DEF Shape, Larger, Popped
<1>3. Shape(d)
  BY <1>0, <1>1 DEF Shape, Applied
<1>4. Still(c, d) /\ d.waits = c.waits /\ c.waits = <<>>
  BY <1>1, StillOn DEF Popped, Applied
<1>5. Gated(d) /\ (Doomed(d) <=> Doomed(c))
  BY <1>0, <1>4, StillGated
<1>6. Staged(d) = Staged(c) /\ c.own = None
  BY <1>1 DEF Staged, Applied, Popped
<1>7. \A n : Within(z.epoch, n, c) /\ f.n <= n => Within(z.epoch, n, d)
  BY <1>1, <1>2, <1>4, <1>6 DEF Within, Applied, Popped
<1>8. /\ f.n <= z.head /\ Lined(z, d.es.wire, Staged(d)) /\ Pops(c.es.wire, d.es.wire, f)
      /\ Trees(c.es.wire) = {} => Trees(d.es.wire) = {}
      /\ Details(c.es.wire) = {} => Details(d.es.wire) = {}
  <2>1. Pops(c.es.wire, d.es.wire, f) /\ f.k # "tree"
    BY <1>0, <1>1 DEF Popped, Applied
  <2>2. Lined(z, c.es.wire, Staged(c))
    BY <1>0
  <2> QED
    BY ONLY <2>1, <2>2, NoTreeLeft
<1>9. Captured(z, d)
  BY <1>0, <1>1, <1>6 DEF Captured, Applied, Popped
<1>10. Wired(z, d)
  BY <1>8, <1>1 DEF Wired, Sure, Bounded, Popped, Pops, Applied
<1>11. Bounded(z, d)
  BY <1>1, <1>3, <1>5, <1>7, <1>8, <1>9, <1>10 DEF Sure, Bounded, Applied, Popped
<1>12. ASSUME ok, d.es.st = "open", ~Doomed(d)
       PROVE  Coming(z, d) \/ Showing(z, d)
  <2>1. Coming(z, c) \/ Pending(z, c) \/ Showing(z, c)
    BY <1>12, <1>1, <1>5 DEF Sure, Flow, Popped, Applied
  <2>2. CASE Coming(z, c)
    BY <2>2, <1>0, <1>7, <1>8, ComingPop
  <2>3. CASE Showing(z, c)
    <3>2. ASSUME NEW x \in Shown(d)
          PROVE  \E y \in Shown(c) : x = IF Moves(f) THEN f.v ELSE y
      BY <1>1, EventTells DEF Shown, Applied, Popped
    <3>3. ASSUME NEW x \in Shown(d)
          PROVE  Reaches(d, x, V)
      <4>1. PICK y \in Shown(c) : x = IF Moves(f) THEN f.v ELSE y
        BY <3>2
      <4>2. PICK m \in Nat : Leads(c.waits, 0, y, m) /\ Leads(c.es.wire, 0, m, V)
        BY <2>3 DEF Showing, Reaches
      <4>3. m = y
        BY <4>2, <1>4, LeadsNone
      <4>4. Leads(d.es.wire, 0, x, V)
        BY <4>1, <4>2, <4>3, <1>8, LeadsPop
      <4>5. Leads(d.waits, 0, x, x) /\ x \in Nat
        BY <4>1, <4>2, <4>3, <1>0, <1>4, LeadsNone
      <4> QED
        BY <4>4, <4>5 DEF Reaches
    <3> QED
      BY <2>3, <3>3, <1>1, <1>6, <1>8 DEF Showing, Applied, Popped
  <2> QED
    BY <2>1, <2>2, <2>3, <1>6 DEF Pending
<1>13. Sure(z, d, ok)
  BY <1>11, <1>12 DEF Sure, Flow
<1> QED
  BY <1>13 DEF d

LEMMA TreePop ==
    ASSUME NEW z, NEW q, NEW F, Lined(z, q, F), NEW r, NEW f, Pops(q, r, f), f.k = "tree"
    PROVE  f.n <= z.head /\ f.e = z.epoch /\ Lined(z, r, {f}) /\ Trees(r) = {}
<1>1. f.n <= z.head
  BY LinedPop
<1>2. f.e = z.epoch
  BY LinedPop
<1>3. Lined(z, r, {f})
  BY LinedPop
<1>4. ASSUME NEW i \in Trees(r) PROVE FALSE
  BY LinedPop
<1> QED
  BY <1>1, <1>2, <1>3, <1>4

\* The decode of a capture begins.
LEMMA TreeStarts ==
    ASSUME NEW z, Store(z), NEW c, NEW ok, Sure(z, c, ok), NEW f \in Part, f.k = "tree",
           NEW b, Popped(c, b, f), b.own = None, b.waits = <<>>
    PROVE  Sure(z, [b EXCEPT !.own = [tree |-> None, detail |-> None, complete |-> FALSE],
                             !.dec = f], ok)
<1> DEFINE o == [tree |-> None, detail |-> None, complete |-> FALSE]
           d == [b EXCEPT !.own = o, !.dec = f]
           V == z.val["frontier"]
           q == c.es.wire
           r == d.es.wire
<1>0. /\ Shape(c) /\ Shape(b) /\ Gated(c) /\ Lined(z, q, Staged(c)) /\ q \in Seq(Part \cup Event)
      /\ z.head \in Nat /\ f.n \in Nat /\ f.e \in Nat /\ Says(f) \in Nat
  BY PoppedShape, PartTells DEF Sure, Bounded, Wired, Shape, Source, Store
<1>1. o \in Owner /\ o.tree = None /\ o.detail = None /\ o # None
  <2>1. o \in Owner
    BY DEF Owner
  <2> QED
    BY <2>1, Distinct
<1> HIDE DEF o
<1>2. /\ DOMAIN d = Fields /\ d.es = b.es /\ d.epoch = c.epoch /\ d.boot = b.boot
      /\ d.cursor = c.cursor /\ d.tree = c.tree /\ d.detail = c.detail /\ d.own = o
      /\ d.dec = f /\ d.waits = c.waits /\ d.deferred = c.deferred /\ d.exp = c.exp
      /\ Still(b, d)
  BY DEF Popped, Fields, Still, Held
<1> HIDE DEF d, r
<1>3. Shape(d)
  BY <1>0, <1>1, <1>2 DEF Shape
<1>4. Still(c, d) /\ c.waits = <<>> /\ c.own = None
  BY <1>2, StillOn DEF Popped
<1>5. Gated(d) /\ (Doomed(d) <=> Doomed(c))
  BY <1>0, <1>2, <1>4, StillGated
<1>6. Staged(d) = {f} /\ Of(d.waits) = {}
  <2>1. f # None
    BY Distinct
  <2> QED
    BY <2>1, <1>1, <1>2, <1>4 DEF Staged, Of
<1>7. Pops(q, r, f) /\ q[1] = f /\ 1 \in Trees(q)
  <2>1. Pops(q, r, f)
    BY <1>2 DEF r, Popped
  <2>2. q[1] = f /\ 1 \in DOMAIN q
    BY <2>1 DEF Pops
  <2> QED
    BY <2>1, <2>2 DEF Trees
<1>8. f.n <= z.head /\ f.e = z.epoch /\ Lined(z, r, {f}) /\ Trees(r) = {}
  <2>1. Lined(z, q, Staged(c)) /\ Pops(q, r, f) /\ f.k = "tree"
    BY <1>0, <1>7
  <2> HIDE DEF q
  <2> QED
    BY ONLY <2>1, TreePop
<1>9. Within(z.epoch, z.head, d)
  BY <1>2, <1>6, <1>8 DEF Within, Sure, Bounded
<1>10. Captured(z, d)
  <2>1. c.epoch <= z.epoch /\ f # None
    BY Distinct DEF Sure, Bounded
  <2>2. z.epoch <= z.epoch
    BY DEF Store, Epochs
  <2> QED
    BY <2>1, <2>2, <1>1, <1>2, <1>6, <1>8 DEF Captured, Twins
<1>11. Wired(z, d)
  BY <1>2, <1>6, <1>7, <1>8 DEF r, Wired, Sure, Bounded, Popped, Pops
<1>12. Bounded(z, d)
  BY <1>2, <1>3, <1>5, <1>9, <1>10, <1>11 DEF Sure, Bounded
<1>13. ASSUME ok, d.es.st = "open", ~Doomed(d)
       PROVE  Pending(z, d)
  <2>1. Coming(z, c)
    BY <1>13, <1>2, <1>5, <1>7 DEF Sure, Flow, Popped, Pending, Showing
  <2>2. PICK j \in Trees(q) : Within(z.epoch, q[j].n, c) /\ Leads(q, j, Says(q[j]), V)
    BY <2>1 DEF Coming
  <2>3. j = 1
    <3>1. j \in DOMAIN q /\ 1 \in DOMAIN q /\ j \in Nat /\ j > 0
      BY <1>7 DEF Pops, Trees
    <3>2. 1 < j => q[1].k = "event"
      BY <3>1, <1>0 DEF Lined
    <3> QED
      BY <3>1, <3>2, <1>7
  <2>4. Leads(r, 0, Says(f), V)
    <3>1. Leads(r, 1 - 1, Says(f), V)
      BY <2>2, <2>3, <1>7, LeadsShift DEF Pops
    <3> QED
      BY <3>1
  <2>5. Reaches(d, Says(f), V)
    <3>1. Leads(d.waits, 0, Says(f), Says(f))
      BY <1>2, <1>4, LeadsNone
    <3> QED
      BY <3>1, <2>4, <1>0 DEF r, Reaches
  <2>6. c.epoch = z.epoch => c.cursor <= f.n
    BY <2>2, <2>3, <1>7 DEF Within
  <2> QED
    BY <2>5, <2>6, <1>1, <1>2, <1>6, <1>8 DEF Pending, r
<1>14. Sure(z, d, ok)
  BY <1>12, <1>13 DEF Sure, Flow
<1> QED
  BY <1>14 DEF d, o

\* The completion of a capture says nothing more.
LEMMA CompletePops ==
    ASSUME NEW z, Store(z), NEW c, NEW ok, Sure(z, c, ok), NEW f \in Part, f.k = "complete",
           NEW d, Popped(c, d, f)
    PROVE  Sure(z, d, ok)
<1> DEFINE V == z.val["frontier"]
<1>0. Shape(c) /\ Shape(d) /\ Gated(c) /\ Lined(z, c.es.wire, Staged(c)) /\ Captured(z, c)
  BY PoppedShape DEF Sure, Bounded, Wired
<1>1. Still(c, d) /\ d.waits = c.waits /\ Pops(c.es.wire, d.es.wire, f) /\ f.k # "tree"
  BY DEF Popped
<1>2. Gated(d) /\ (Doomed(d) <=> Doomed(c))
  BY <1>0, <1>1, StillGated
<1>3. Staged(d) = Staged(c) /\ Shown(d) = Shown(c)
  BY DEF Staged, Shown, Popped
<1>4. /\ Lined(z, d.es.wire, Staged(d))
      /\ Trees(c.es.wire) = {} => Trees(d.es.wire) = {}
      /\ Details(c.es.wire) = {} => Details(d.es.wire) = {}
  <2>1. Lined(z, c.es.wire, Staged(c))
    BY <1>0
  <2> QED
    BY ONLY <1>1, <2>1, NoTreeLeft
<1>5. Within(z.epoch, z.head, c) => Within(z.epoch, z.head, d)
  BY <1>3 DEF Within, Popped
<1>6. Captured(z, d)
  BY <1>0, <1>3 DEF Captured, Popped
<1>7. Wired(z, d)
  BY <1>1, <1>4 DEF Wired, Sure, Bounded, Popped, Pops
<1>8. Bounded(z, d)
  BY <1>0, <1>2, <1>5, <1>6, <1>7 DEF Sure, Bounded, Popped
<1>9. \A x : Reaches(c, x, V) => Reaches(d, x, V)
  <2> SUFFICES ASSUME NEW x, Reaches(c, x, V) PROVE Reaches(d, x, V)
    OBVIOUS
  <2>1. PICK m \in Nat : Leads(c.waits, 0, x, m) /\ Leads(c.es.wire, 0, m, V)
    BY DEF Reaches
  <2>2. Leads(d.es.wire, 0, IF Moves(f) THEN f.v ELSE m, V)
    BY <2>1, <1>1, LeadsPop
  <2>3. ~Moves(f)
    BY DEF Moves
  <2> QED
    BY <2>1, <2>2, <2>3, <1>1 DEF Reaches
<1>10. ~Coming(z, c)
  <2> SUFFICES ASSUME NEW j \in Trees(c.es.wire) PROVE FALSE
    BY DEF Coming
  <2>1. /\ j \in DOMAIN c.es.wire /\ j \in Nat /\ j > 0 /\ 1 \in DOMAIN c.es.wire
        /\ c.es.wire[1] = f /\ c.es.wire[j].k = "tree"
    BY <1>1 DEF Pops, Trees
  <2>2. 1 < j
    BY <2>1
  <2> QED
    BY <2>1, <2>2, <1>0 DEF Lined
<1>11. Pending(z, c) => Pending(z, d)
  BY <1>3, <1>4, <1>9 DEF Pending, Popped
<1>12. Showing(z, c) => Showing(z, d)
  BY <1>3, <1>4, <1>9 DEF Showing, Popped
<1> QED
  BY <1>2, <1>8, <1>10, <1>11, <1>12 DEF Sure, Flow, Popped

\* The parts of the pending capture are stored elsewhere, or it is complete.
Restages(c, d) ==
    /\ DOMAIN d = Fields
    /\ d.es = c.es /\ d.epoch = c.epoch /\ d.boot = c.boot /\ d.cursor = c.cursor
    /\ d.tree = c.tree /\ d.detail = c.detail /\ d.waits = c.waits
    /\ d.deferred = c.deferred /\ d.exp = c.exp /\ Still(c, d)
    /\ c.own # None /\ d.own \in Owner /\ d.own.detail = c.own.detail
    /\ \/ d.own.tree = c.own.tree /\ d.dec = c.dec
       \/ c.dec # None /\ d.own.tree = c.dec /\ d.dec = None

LEMMA RestagesSure ==
    ASSUME NEW z, NEW c, NEW ok, Sure(z, c, ok), NEW d, Restages(c, d)
    PROVE  Sure(z, d, ok)
<1>0. Shape(c) /\ Gated(c) /\ Captured(z, c)
  BY DEF Sure, Bounded
<1>1. Shape(d) /\ d.own # None
  BY <1>0, Distinct DEF Shape, Restages
<1>2. Gated(d) /\ (Doomed(d) <=> Doomed(c))
  BY <1>0, StillGated DEF Restages
<1>3. Staged(d) = Staged(c)
  BY <1>0, <1>1 DEF Staged, Restages, Captured
<1>4. \A x, y : Reaches(d, x, y) <=> Reaches(c, x, y)
  BY DEF Reaches, Restages
<1>5. \A n : Within(z.epoch, n, c) <=> Within(z.epoch, n, d)
  BY <1>3 DEF Within, Restages
<1>6. Captured(z, d)
  BY <1>0, <1>1, <1>3 DEF Captured, Restages
<1>7. Wired(z, c) => Wired(z, d)
  BY <1>3 DEF Wired, Restages
<1>8. Bounded(z, d)
  BY <1>1, <1>2, <1>5, <1>6, <1>7 DEF Sure, Bounded, Restages
<1>9. Coming(z, c) => Coming(z, d)
  BY <1>5 DEF Coming, Restages
<1>10. Pending(z, c) => Pending(z, d)
  BY <1>1, <1>3, <1>4 DEF Pending, Restages
<1>11. ~Showing(z, c)
  BY DEF Showing, Restages
<1> QED
  BY <1>2, <1>8, <1>9, <1>10, <1>11 DEF Sure, Flow, Restages

\* A frame that is no event leaves the frontier where it was.
LEMMA ReachesPast ==
    ASSUME NEW c, NEW d, NEW f, f.k # "event", Pops(c.es.wire, d.es.wire, f),
           d.waits = c.waits, NEW x, NEW y, Reaches(c, x, y)
    PROVE  Reaches(d, x, y)
<1>1. PICK m \in Nat : Leads(c.waits, 0, x, m) /\ Leads(c.es.wire, 0, m, y)
  BY DEF Reaches
<1>2. Leads(d.es.wire, 0, IF Moves(f) THEN f.v ELSE m, y)
  BY <1>1, LeadsPop
<1>3. ~Moves(f)
  BY DEF Moves
<1> QED
  BY <1>1, <1>2, <1>3 DEF Reaches

\* Behind a part that is no tree, no tree is on the way.
LEMMA NoTreeBehind ==
    ASSUME NEW z, NEW q, NEW F, Lined(z, q, F), NEW r, NEW f, Pops(q, r, f),
           f.k \in {"detail", "complete"}
    PROVE  Trees(q) = {} /\ Trees(r) = {} /\ f.n <= z.head /\ f.e = z.epoch
<1>1. ASSUME NEW i \in Trees(q) PROVE FALSE
  <2>1. i \in DOMAIN q /\ i \in Nat /\ i > 0 /\ 1 \in DOMAIN q /\ q[1] = f /\ q[i].k = "tree"
    BY DEF Pops, Trees
  <2>2. 1 < i
    BY <2>1
  <2> QED
    BY <2>1, <2>2 DEF Lined
<1>2. Trees(q) = {} => Trees(r) = {}
  BY LinedPop
<1>3. f.n <= z.head /\ (f.k # "event" => f.e = z.epoch)
  BY LinedPop
<1> QED
  BY <1>1, <1>2, <1>3

\* A detail part is of one capture with all that is staged.
LEMMA DetailTwins ==
    ASSUME NEW z, NEW q, NEW F, Lined(z, q, F), NEW r, NEW f, Pops(q, r, f), f.k = "detail"
    PROVE  Details(r) = {} /\ \A g \in F : Twins(f, g)
<1>1. Details(r) = {}
  BY LinedPop
<1>2. \A g \in F : Twins(f, g)
  BY LinedPop
<1> QED
  BY <1>1, <1>2

LEMMA PoppedBounded ==
    ASSUME NEW z, NEW c, Bounded(z, c), NEW f, f.k # "tree", NEW b, Popped(c, b, f)
    PROVE  Bounded(z, b)
<1>0. Shape(c) /\ Shape(b) /\ Gated(c) /\ Lined(z, c.es.wire, Staged(c)) /\ Captured(z, c)
  BY PoppedShape DEF Bounded, Wired
<1>1. Still(c, b) /\ b.waits = c.waits /\ Pops(c.es.wire, b.es.wire, f)
  BY DEF Popped
<1>2. Gated(b)
  BY <1>0, <1>1, StillGated
<1>3. Staged(b) = Staged(c)
  BY DEF Staged, Popped
<1>4. Lined(z, b.es.wire, Staged(b))
  <2>1. Lined(z, c.es.wire, Staged(c)) /\ f.k # "tree"
    BY <1>0
  <2> QED
    BY ONLY <1>1, <2>1, NoTreeLeft
<1>5. Within(z.epoch, z.head, c) => Within(z.epoch, z.head, b)
  BY <1>3 DEF Within, Popped
<1>6. Captured(z, b)
  BY <1>0, <1>3 DEF Captured, Popped
<1>7. Wired(z, b)
  BY <1>1, <1>4 DEF Wired, Bounded, Popped, Pops
<1> QED
  BY <1>0, <1>2, <1>5, <1>6, <1>7 DEF Bounded, Popped

LEMMA DeferIs ==
    ASSUME NEW b, Shape(b), NEW n, NEW d, d = Defer(b, n)
    PROVE  /\ DOMAIN d = Fields /\ d.es = b.es /\ d.epoch = b.epoch /\ d.boot = b.boot
           /\ d.cursor = Larger(b.cursor, n)
           /\ d.tree = b.tree /\ d.detail = b.detail /\ d.own = b.own
           /\ d.dec = b.dec /\ d.waits = b.waits /\ d.deferred = b.deferred /\ d.exp = b.exp
           /\ d.ref = b.ref /\ d.reconciling = b.reconciling /\ d.second = b.second
           /\ d.expect = b.expect /\ d.resolved = b.resolved
           /\ (d.dirty <=> b.dirty \/ b.reconciling)
<1> DEFINE a == [b EXCEPT !.cursor = Larger(@, n)]
<1>1. /\ DOMAIN a = Fields /\ a.es = b.es /\ a.epoch = b.epoch /\ a.boot = b.boot
      /\ a.cursor = Larger(b.cursor, n)
      /\ a.tree = b.tree /\ a.detail = b.detail /\ a.own = b.own
      /\ a.dec = b.dec /\ a.waits = b.waits /\ a.deferred = b.deferred /\ a.exp = b.exp
      /\ a.ref = b.ref /\ a.reconciling = b.reconciling /\ a.second = b.second
      /\ a.expect = b.expect /\ a.resolved = b.resolved /\ a.dirty = b.dirty
  BY DEF Fields, Shape
<1>2. d = [a EXCEPT !.dirty = @ \/ b.reconciling]
  BY DEF Defer, AdvanceCursor
<1> HIDE DEF a
<1>3. /\ DOMAIN d = Fields /\ d.es = a.es /\ d.epoch = a.epoch /\ d.boot = a.boot
      /\ d.cursor = a.cursor
      /\ d.tree = a.tree /\ d.detail = a.detail /\ d.own = a.own
      /\ d.dec = a.dec /\ d.waits = a.waits /\ d.deferred = a.deferred /\ d.exp = a.exp
      /\ d.ref = a.ref /\ d.reconciling = a.reconciling /\ d.second = a.second
      /\ d.expect = a.expect /\ d.resolved = a.resolved
  BY ONLY <1>1, <1>2 DEF Fields
<1>4. d.dirty = (a.dirty \/ b.reconciling)
  BY ONLY <1>1, <1>2 DEF Fields
<1> QED
  BY ONLY <1>1, <1>3, <1>4

\* The detail of the pending capture.
LEMMA DetailStaged ==
    ASSUME NEW z, Store(z), NEW c, NEW ok, Sure(z, c, ok), NEW f \in Part, f.k = "detail",
           NEW b, Popped(c, b, f), b.own # None
    PROVE  Sure(z, [b EXCEPT !.own.detail = f], ok)
<1> DEFINE o == [b.own EXCEPT !.detail = f]
           d == [b EXCEPT !.own.detail = f]
           V == z.val["frontier"]
<1>0. /\ Shape(c) /\ Shape(b) /\ Gated(c) /\ Lined(z, c.es.wire, Staged(c)) /\ Captured(z, c)
      /\ Bounded(z, c) /\ Bounded(z, b) /\ Pops(c.es.wire, b.es.wire, f)
  BY PoppedShape, PoppedBounded DEF Sure, Bounded, Wired, Popped
<1>1. o \in Owner /\ o.tree = c.own.tree /\ o.detail = f /\ o # None /\ f # None
  <2>1. b.own \in Owner /\ b.own = c.own
    BY <1>0 DEF Shape, Popped
  <2>2. o \in Owner /\ o.tree = c.own.tree /\ o.detail = f
    BY <2>1 DEF Owner
  <2> QED
    BY <2>2, Distinct
<1>2. /\ DOMAIN d = Fields /\ d.es = b.es /\ d.epoch = c.epoch /\ d.boot = b.boot
      /\ d.cursor = c.cursor /\ d.tree = c.tree /\ d.detail = c.detail /\ d.own = o
      /\ d.dec = c.dec /\ d.waits = c.waits /\ d.deferred = c.deferred /\ d.exp = c.exp
      /\ Still(b, d)
  BY DEF Popped, Fields, Still, Held
<1> HIDE DEF o, d
<1>3. Shape(d)
  BY <1>0, <1>1, <1>2 DEF Shape
<1>4. Still(c, d)
  BY <1>2, StillOn DEF Popped
<1>5. Gated(d) /\ (Doomed(d) <=> Doomed(c))
  BY <1>0, <1>2, <1>4, StillGated
<1>6. Trees(c.es.wire) = {} /\ Trees(b.es.wire) = {} /\ f.n <= z.head /\ f.e = z.epoch
  <2>1. Lined(z, c.es.wire, Staged(c)) /\ Pops(c.es.wire, b.es.wire, f) /\ f.k = "detail"
    BY <1>0
  <2> QED
    BY ONLY <2>1, NoTreeBehind
<1>7. Details(b.es.wire) = {} /\ \A g \in Staged(c) : Twins(f, g)
  <2>1. Lined(z, c.es.wire, Staged(c)) /\ Pops(c.es.wire, b.es.wire, f) /\ f.k = "detail"
    BY <1>0
  <2>2. Details(b.es.wire) = {}
    BY ONLY <2>1, DetailTwins
  <2>3. ASSUME NEW g \in Staged(c) PROVE Twins(f, g)
    BY ONLY <2>1, <2>3, DetailTwins
  <2> QED
    BY <2>2, <2>3
<1>8. PICK g \in Staged(c) : Twins(f, g)
  <2>1. c.own # None /\ (c.dec # None \/ c.own.tree # None)
    BY <1>0 DEF Captured, Popped
  <2>2. Staged(c) # {}
    BY <2>1 DEF Staged
  <2> QED
    BY <2>2, <1>7
<1>9. f \in Staged(d) /\ \A h \in Staged(d) : h = f \/ h \in Staged(c)
  BY <1>1, <1>2 DEF Staged, Popped
<1>10. \A n : Within(z.epoch, n, c) => Within(z.epoch, n, d)
  BY <1>2, <1>6, <1>8, <1>9 DEF Within, Twins
<1>11. Captured(z, d)
  <2>1. \A h \in Staged(d) : c.epoch <= h.e /\ h.e <= z.epoch
    BY <1>0, <1>6, <1>8, <1>9 DEF Captured, Twins
  <2>2. \A h, k \in Staged(d) : Twins(h, k)
    BY <1>0, <1>7, <1>9 DEF Captured, Twins
  <2> QED
    BY <2>1, <2>2, <1>0, <1>1, <1>2 DEF Captured, Popped
<1>12. Wired(z, d)
  <2>1. Lined(z, b.es.wire, Staged(d))
    BY <1>0, <1>6, <1>7 DEF Bounded, Wired, Lined
  <2> QED
    BY <2>1, <1>0, <1>2 DEF Wired, Bounded
<1>13. Bounded(z, d)
  BY <1>0, <1>2, <1>3, <1>5, <1>10, <1>11, <1>12 DEF Bounded
<1>14. ASSUME ok, d.es.st = "open", ~Doomed(d)
       PROVE  Pending(z, d)
  <2>1. Pending(z, c)
    BY <1>14, <1>2, <1>5, <1>6 DEF Sure, Flow, Popped, Coming, Showing
  <2>2. ASSUME NEW h \in Staged(d)
        PROVE  /\ h.e = z.epoch /\ Reaches(d, Says(h), V)
               /\ d.epoch = z.epoch => d.cursor <= h.n
    <3>1. PICK k \in Staged(c) : Twins(h, k)
      BY <1>8, <1>9 DEF Twins
    <3>2. /\ k.e = z.epoch /\ Reaches(c, Says(k), V)
          /\ c.epoch = z.epoch => c.cursor <= k.n
      BY <2>1 DEF Pending
    <3>3. Reaches(d, Says(k), V)
      BY <3>2, <1>0, <1>2, ReachesPast
    <3> QED
      BY <3>1, <3>2, <3>3, <1>2 DEF Twins
  <2> QED
    BY <2>2, <1>1, <1>2, <1>6, <1>7 DEF Pending
<1>15. Sure(z, d, ok)
  BY <1>13, <1>14 DEF Sure, Flow
<1> QED
  BY <1>15 DEF d

\* A detail part with no capture pending.
LEMMA AloneBounded ==
    ASSUME NEW z, Store(z), NEW b, Bounded(z, b), b.own = None, NEW f \in Part,
           b.epoch <= f.e, f.e <= z.epoch,
           f.e = z.epoch => f.n <= z.head /\ \A w \in Of(b.waits) : w.n <= z.head,
           NEW d, d = ApplyDetailIndependent(b, f)
    PROVE  /\ Bounded(z, d) /\ (Doomed(b) => Doomed(d))
           /\ d.own = None /\ d.waits = b.waits /\ d.deferred = b.deferred /\ d.es.st = b.es.st
<1>0. /\ Shape(b) /\ Gated(b) /\ Captured(z, b) /\ Staged(b) = {} /\ b.dec = None
      /\ b.cursor \in Int /\ f.n \in Nat /\ f.e \in Nat /\ z.head \in Nat /\ z.epoch \in Nat
      /\ Within(z.epoch, z.head, b) /\ Wired(z, b)
  BY PartTells DEF Bounded, Captured, Staged, Shape, Store, Epochs
<1>1. CASE d = Defer(b, f.n)
  <2>1. /\ DOMAIN d = Fields /\ d.es = b.es /\ d.epoch = b.epoch /\ d.boot = b.boot
        /\ d.cursor = Larger(b.cursor, f.n)
        /\ d.tree = b.tree /\ d.detail = b.detail /\ d.own = b.own
        /\ d.dec = b.dec /\ d.waits = b.waits /\ d.deferred = b.deferred /\ d.exp = b.exp
        /\ d.ref = b.ref /\ d.reconciling = b.reconciling /\ d.second = b.second
        /\ d.expect = b.expect /\ d.resolved = b.resolved
        /\ (d.dirty <=> b.dirty \/ b.reconciling)
    BY <1>0, <1>1, DeferIs
  <2> HIDE <1>1
  <2>2. d.cursor \in Int /\ (d.epoch = z.epoch => d.cursor <= z.head)
    <3>1. b.epoch = z.epoch => f.e = z.epoch /\ b.cursor <= z.head
      BY <1>0 DEF Within, Bounded
    <3> QED
      BY <2>1, <3>1, <1>0 DEF Larger
  <2>3. Shape(d)
    BY <1>0, <2>1, <2>2 DEF Shape
  <2>4. Gated(d)
    BY <1>0, <2>1 DEF Gated
  <2>5. Staged(d) = {}
    BY <1>0, <2>1 DEF Staged
  <2>6. Within(z.epoch, z.head, d)
    BY <1>0, <2>1, <2>2, <2>5 DEF Within
  <2>7. Captured(z, d) /\ Wired(z, d)
    BY <1>0, <2>1, <2>5 DEF Captured, Wired
  <2>8. Bounded(z, d)
    BY <2>1, <2>3, <2>4, <2>6, <2>7 DEF Bounded
  <2>9. Doomed(b) => Doomed(d)
    BY <2>1 DEF Doomed
  <2> QED
    BY <2>1, <2>8, <2>9
<1>2. CASE \E t : Takes(b, t, f) /\ Met(b, t) /\ Like(t, d)
  <2>1. PICK t : Takes(b, t, f) /\ Met(b, t) /\ Like(t, d)
    BY <1>2
  <2>2. Shape(t)
    BY <1>0, <2>1, TakesShape
  <2>3. Gated(t) /\ (Doomed(b) <=> Doomed(t))
    BY <1>0, <2>1, MetGated DEF Takes
  <2>4. Staged(t) = {} /\ t.epoch = f.e /\ t.waits = b.waits /\ t.deferred = b.deferred
    BY <2>1 DEF Staged, Takes
  <2>5. t.epoch = z.epoch => t.cursor <= z.head
    BY <1>0, <2>1 DEF Takes, Larger, Within
  <2>6. Within(z.epoch, z.head, t)
    BY <1>0, <2>4, <2>5 DEF Within
  <2>7. Captured(z, t) /\ Wired(z, t)
    BY <1>0, <2>1, <2>4 DEF Captured, Wired, Takes
  <2>8. Bounded(z, t)
    BY <2>1, <2>2, <2>3, <2>4, <2>6, <2>7 DEF Bounded, Takes
  <2>9. Sure(z, d, FALSE)
    BY <2>1, <2>8, LikeSure DEF Sure
  <2>10. Doomed(t) <=> Doomed(d)
    BY <2>1, <2>3, StillGated DEF Like, Alike
  <2> QED
    BY <2>1, <2>3, <2>9, <2>10 DEF Sure, Like, Alike, Takes
<1> QED
  BY <1>0, <1>1, <1>2, AloneTakes

\* Behind a capture's tree its detail cannot come alone, unless the capture was
\* given up for the gate's next one.
LEMMA DetailAlone ==
    ASSUME NEW z, Store(z), NEW c, NEW ok, Sure(z, c, ok), NEW f \in Part, f.k = "detail",
           NEW b, Popped(c, b, f), b.own = None, b.waits = <<>>,
           NEW d, d = ApplyDetailIndependent(b, f)
    PROVE  Sure(z, d, ok)
<1>0. /\ Bounded(z, c) /\ Bounded(z, b) /\ Lined(z, c.es.wire, Staged(c)) /\ Gated(c)
      /\ Pops(c.es.wire, b.es.wire, f) /\ z.epoch \in Nat
  <2>1. Bounded(z, c) /\ f.k # "tree"
    BY DEF Sure
  <2>2. Bounded(z, b)
    BY <2>1, PoppedBounded
  <2> QED
    BY <2>1, <2>2 DEF Bounded, Wired, Popped, Store, Epochs
<1>1. f.n <= z.head /\ f.e = z.epoch /\ Trees(c.es.wire) = {}
  BY <1>0, NoTreeBehind
<1>2. Doomed(b) <=> Doomed(c)
  BY <1>0, StillGated DEF Popped
<1>3. 1 \in Details(c.es.wire)
  BY <1>0 DEF Pops, Details
<1>4. ok /\ c.es.st = "open" => Doomed(c)
  BY <1>1, <1>3 DEF Sure, Flow, Coming, Pending, Showing, Popped
<1>5. b.epoch <= f.e /\ Of(b.waits) = {}
  BY <1>0, <1>1 DEF Bounded, Of
<1>6. Bounded(z, d) /\ (Doomed(b) => Doomed(d)) /\ d.es.st = b.es.st
  BY <1>0, <1>1, <1>5, AloneBounded
<1> QED
  BY <1>2, <1>4, <1>6 DEF Sure, Flow, Popped

-----------------------------------------------------------------------------
(* What a listener does.                                                   *)

\* A whole capture is shown.
LEMMA InstallSure ==
    ASSUME NEW z, Store(z), NEW c, NEW ok, Sure(z, c, ok),
           c.own # None, c.own.tree # None, c.own.detail # None,
           NEW d, d = Install(c)
    PROVE  Sure(z, d, ok) /\ d.own = None
<1> DEFINE T == c.own.tree
           f == c.own.detail
           V == z.val["frontier"]
<1>0. /\ Bounded(z, c) /\ Shape(c) /\ Gated(c) /\ Captured(z, c) /\ Wired(z, c)
      /\ c.dec = None /\ c.cursor \in Int
  BY DEF Sure, Bounded, Captured, Shape
<1>1. T \in Part /\ f \in Part /\ T \in Staged(c) /\ f \in Staged(c)
  <2>1. c.own \in Owner
    BY <1>0 DEF Shape
  <2> QED
    BY <2>1 DEF Owner, Staged
<1>2. Twins(T, f) /\ f.e <= z.epoch
  BY <1>0, <1>1 DEF Captured
<1>3. T.n \in Nat /\ f.n \in Nat /\ f.e \in Nat /\ Says(T) \in Nat /\ Says(f) \in Nat
  BY <1>1, PartTells
<1>4. PICK t : Installs(c, t) /\ Shape(t) /\ Like(t, d)
  BY <1>0, InstallTakes
<1> HIDE DEF T, f
<1>5. /\ t.es = c.es /\ t.own = None /\ t.dec = c.dec /\ t.waits = c.waits
      /\ t.deferred = c.deferred /\ t.exp \in {c.exp, [st |-> "sent"]} /\ t.epoch = f.e
      /\ t.cursor = Larger(IF c.epoch = f.e THEN Larger(c.cursor, f.n) ELSE f.n, T.n)
      /\ t.detail["frontier"] = IF c.epoch = f.e /\ f.n < c.cursor
                                THEN c.detail["frontier"] ELSE Says(f)
      /\ t.tree["frontier"] = Says(T) /\ Met(c, t)
  BY <1>4 DEF Installs, T, f
<1>6. Gated(t) /\ (Doomed(t) <=> Doomed(c))
  BY <1>0, <1>5, MetGated
<1>7. Staged(t) = {}
  BY <1>5 DEF Staged
<1>8. ASSUME NEW n, Within(z.epoch, n, c)
      PROVE  Within(z.epoch, n, t)
  <2>1. ASSUME f.e = z.epoch
        PROVE  t.cursor <= n /\ \A w \in Of(t.waits) : w.n <= n
    <3>1. T.n <= n /\ f.n <= n /\ (c.epoch = f.e => c.cursor <= n)
      BY <2>1, <1>1, <1>2, <1>8 DEF Within, Twins
    <3>2. \A w \in Of(c.waits) : w.n <= n
      BY <2>1, <1>1, <1>8 DEF Within
    <3> QED
      BY <3>1, <3>2, <1>5 DEF Larger
  <2> QED
    BY <2>1, <1>5, <1>7, <1>8 DEF Within
<1>9. Captured(z, t)
  BY <1>0, <1>5, <1>7 DEF Captured
<1>10. Wired(z, t)
  BY <1>0, <1>5, <1>7 DEF Wired, Lined
<1>11. Bounded(z, t)
  <2>1. Within(z.epoch, z.head, t)
    BY <1>0, <1>8 DEF Bounded
  <2>2. [st |-> "sent"].st # "reply"
    OBVIOUS
  <2> QED
    BY <2>1, <2>2, <1>0, <1>2, <1>4, <1>5, <1>6, <1>9, <1>10 DEF Bounded
<1>12. Coming(z, c) => Coming(z, t)
  BY <1>5, <1>8 DEF Coming
<1>13. ASSUME Pending(z, c) PROVE Showing(z, t)
  <2>1. /\ Trees(t.es.wire) = {} /\ Details(t.es.wire) = {} /\ t.own = None
        /\ f.e = z.epoch /\ Reaches(c, Says(f), V) /\ (c.epoch = z.epoch => c.cursor <= f.n)
    BY <1>1, <1>5, <1>13 DEF Pending, f
  <2>2. t.detail["frontier"] = Says(f) /\ Says(T) = Says(f)
    BY <2>1, <1>0, <1>2, <1>3, <1>5 DEF Twins
  <2>3. Reaches(t, Says(f), V)
    BY <2>1, <1>5 DEF Reaches
  <2> QED
    BY <2>1, <2>2, <2>3, <1>5 DEF Showing, Shown
<1>14. Sure(z, t, ok)
  BY <1>5, <1>6, <1>11, <1>12, <1>13 DEF Sure, Flow, Showing
<1> QED
  BY <1>4, <1>5, <1>14, LikeSure DEF Like, Alike

LEMMA TryInstallSure ==
    ASSUME NEW z, Store(z), NEW c, NEW ok, Sure(z, c, ok), c.own # None
    PROVE  Sure(z, TryInstall(c), ok)
BY InstallSure DEF TryInstall, Whole

LEMMA AwaitLike ==
    ASSUME NEW c, Shape(c)
    PROVE  Like(c, RequestRecovery(c, AwaitTree))
<1>1. Same(c, RequestRecovery(c, AwaitTree))
  BY RecoveryMoves DEF AwaitTree
<1> QED
  BY <1>1, RecoveryStill, SameLike

LEMMA OnDetailSure ==
    ASSUME NEW z, Store(z), NEW c, NEW ok, Sure(z, c, ok), AtRest(c),
           NEW f \in Part, f.k = "detail", NEW b, Popped(c, b, f)
    PROVE  Sure(z, OnDetail(b, f), ok)
<1> DEFINE a == IF f.gap THEN RequestRecovery(b, AwaitTree) ELSE b
<1>1. Shape(b)
  BY PoppedShape DEF Sure, Bounded
<1>2. Popped(c, a, f)
  BY <1>1, AwaitLike, PoppedLike
<1>3. OnDetail(b, f) = IF a.own # None THEN TryInstall([a EXCEPT !.own.detail = f])
                       ELSE ApplyDetailIndependent(a, f)
  BY DEF OnDetail
<1> HIDE DEF a
<1>4. CASE a.own # None
  <2> DEFINE e == [a EXCEPT !.own.detail = f]
  <2>1. Sure(z, e, ok)
    BY <1>2, <1>4, DetailStaged
  <2>2. e.own # None
    <3>1. a.own \in Owner /\ "own" \in DOMAIN a
      BY <1>2, <1>4, PoppedShape DEF Sure, Bounded, Shape, Fields
    <3>2. e.own \in Owner
      BY <3>1 DEF Owner
    <3> QED
      BY <3>2, Distinct
  <2>3. OnDetail(b, f) = TryInstall(e)
    BY <1>3, <1>4
  <2> HIDE DEF e
  <2> QED
    BY <2>1, <2>2, <2>3, TryInstallSure
<1>5. CASE a.own = None
  <2>1. a.waits = <<>>
    BY <1>2, <1>5 DEF Popped, AtRest
  <2> QED
    BY <2>1, <1>2, <1>3, <1>5, DetailAlone
<1> QED
  BY <1>4, <1>5

LEMMA OnTreeSure ==
    ASSUME NEW z, Store(z), NEW c, NEW ok, Sure(z, c, ok), AtRest(c),
           NEW f \in Part, f.k = "tree", NEW b, Popped(c, b, f)
    PROVE  Sure(z, OnTree(b, f), ok)
<1>1. CASE b.own # None
  <2> DEFINE d == ConnectAs(b, TRUE, FALSE)
  <2>1. OnTree(b, f) = d
    BY <1>1 DEF OnTree, Connect
  <2>2. Shape(b) /\ Gated(c) /\ Bounded(z, c)
    BY PoppedShape DEF Sure, Bounded
  <2>3. Cut(b, d) /\ d.es.st = "connecting" /\ Still(b, d)
    BY <2>2, ConnectCuts, ConnectStill
  <2> HIDE DEF d
  <2>4. Still(c, d)
    BY <2>3, StillOn DEF Popped
  <2>5. Gated(d)
    BY <2>2, <2>3, <2>4, StillGated DEF Cut
  <2>6. Ended(c, d)
    BY <2>3, <2>5 DEF Ended, Cut, Popped
  <2> QED
    BY <2>1, <2>2, <2>6, EndedSure
<1>2. CASE b.own = None
  <2>1. b.waits = <<>>
    BY <1>2 DEF Popped, AtRest
  <2> QED
    BY <2>1, <1>2, TreeStarts DEF OnTree
<1> QED
  BY <1>1, <1>2

LEMMA OnCompleteSure ==
    ASSUME NEW z, Store(z), NEW c, NEW ok, Sure(z, c, ok),
           NEW f \in Part, f.k = "complete", NEW b, Popped(c, b, f)
    PROVE  Sure(z, OnComplete(b, f), ok)
<1>1. Sure(z, b, ok)
  BY CompletePops
<1>2. CASE b.own # None
  <2> DEFINE o == [b.own EXCEPT !.complete = TRUE]
             d == [b EXCEPT !.own.complete = TRUE]
  <2>1. b.own \in Owner /\ DOMAIN b = Fields
    BY <1>1, <1>2 DEF Sure, Bounded, Shape
  <2>2. o \in Owner /\ o.detail = b.own.detail /\ o.tree = b.own.tree
    BY <2>1 DEF Owner
  <2>3. /\ DOMAIN d = Fields /\ d.es = b.es /\ d.epoch = b.epoch /\ d.boot = b.boot
        /\ d.cursor = b.cursor /\ d.tree = b.tree /\ d.detail = b.detail /\ d.own = o
        /\ d.dec = b.dec /\ d.waits = b.waits /\ d.deferred = b.deferred /\ d.exp = b.exp
        /\ Still(b, d)
    BY <2>1 DEF Fields, Still, Held
  <2>4. OnComplete(b, f) = TryInstall(d)
    BY <1>2 DEF OnComplete
  <2> HIDE DEF o, d
  <2>5. Restages(b, d)
    BY <1>2, <2>2, <2>3 DEF Restages
  <2>6. Sure(z, d, ok) /\ d.own # None
    BY <1>1, <2>2, <2>3, <2>5, RestagesSure, Distinct
  <2> QED
    BY <2>4, <2>6, TryInstallSure
<1> QED
  BY <1>1, <1>2 DEF OnComplete

\* A gap that no pending step covers is answered with a new connection.
LEMMA GapConnects ==
    ASSUME NEW c, Shape(c), c.pass = None \/ c.pass.tree # "pending" \/ c.pass.epoch # c.epoch
    PROVE  RequestRecovery(c, TreeGap).es.st = "connecting"
<1>1. ASSUME NEW inherit PROVE StartPass(c, TreeGap, inherit).es.st = "connecting"
  <2>1. PICK p : StartPass(c, TreeGap, inherit) = MaybeComplete(Direct([c EXCEPT !.pass = p], TreeGap))
    BY DEF StartPass
  <2> DEFINE b == [c EXCEPT !.pass = p]
             d == ConnectAs(b, TRUE, FALSE)
  <2>2. Shape(b)
    BY PassSame, SameShape
  <2>3. StartPass(c, TreeGap, inherit) = MaybeComplete(d)
    BY <2>1 DEF Direct, Connect, TreeGap
  <2> HIDE DEF b
  <2>4. d.es.st = "connecting" /\ Shape(d)
    BY <2>2, ConnectCuts, CutShape
  <2> HIDE DEF d
  <2>5. MaybeComplete(d).es = d.es
    BY <2>4, MaybeCompleteSame DEF Same
  <2> QED
    BY <2>3, <2>4, <2>5
<1>2. c.pass # None /\ c.pass.epoch = c.epoch => Supersedes(c, TreeGap)
  BY DEF Supersedes, TreeGap
<1> QED
  BY <1>1, <1>2 DEF RequestRecovery

LEMMA OnEventSure ==
    ASSUME NEW z, Store(z), NEW c, NEW ok, Sure(z, c, ok), AtRest(c), c.es.st = "open",
           NEW f \in Event, NEW b, Popped(c, b, f),
           NEW fine,
           fine => ok \/ (Gap(b, f) /\ (b.pass = None \/ b.pass.tree # "pending"
                                                     \/ b.pass.epoch # b.epoch)),
           fine => ~(b.reconciling /\ b.second)
    PROVE  Sure(z, OnEvent(b, f), fine)
<1> DEFINE a == IF Gap(b, f) THEN RequestRecovery(b, TreeGap) ELSE b
           d == [a EXCEPT !.ord = Larger(@, f.ord)]
<1>0. Shape(b) /\ Bounded(z, c) /\ b.es.st = "open" /\ f.k # "tree"
  BY PoppedShape, EventTells DEF Sure, Bounded, Popped
<1>1. Sure(z, b, FALSE)
  BY <1>0, PoppedBounded DEF Sure
<1>2. /\ Sure(z, a, FALSE)
      /\ Like(b, a) \/ a.es.st = "connecting"
  <2>1. CASE Gap(b, f)
    BY <2>1, <1>1, RecoverySure
  <2>2. CASE ~Gap(b, f)
    <3>1. Like(b, b)
      BY <1>0, SelfSame, SameLike DEF Still, Held
    <3> QED
      BY <2>2, <3>1, <1>1
  <2> QED
    BY <2>1, <2>2
<1>3. OnEvent(b, f) = CASE a.es.st = "connecting" -> a
                        [] a.es.st # "connecting" /\ ~GateActive(d) /\ d.own # None ->
                             [d EXCEPT !.waits = Append(@, f)]
                        [] OTHER -> Frame(d, f)
  BY DEF OnEvent
<1>4. fine /\ a.es.st # "connecting" => ok
  BY <1>0, GapConnects
<1> HIDE DEF a
<1>5. CASE a.es.st = "connecting"
  BY <1>2, <1>3, <1>5 DEF Sure, Flow
<1>6. CASE a.es.st # "connecting"
  <2>1. Like(b, a) /\ Shape(a)
    BY <1>2, <1>6 DEF Sure, Bounded
  <2>2. Same(a, d) /\ Still(a, d)
    BY <2>1 DEF Same, Shape, Fields, Still, Held
  <2>3. Like(b, d)
    BY <2>1, <2>2, SameLike, LikeOn
  <2>4. OnEvent(b, f) = IF ~GateActive(d) /\ d.own # None
                        THEN [d EXCEPT !.waits = Append(@, f)]
                        ELSE IF GateActive(d) THEN Defer(d, f.n) ELSE ApplyEvent(d, f)
    BY <1>3, <1>6 DEF Frame
  <2> HIDE DEF d
  <2>5. Popped(c, d, f)
    BY <2>3, PoppedLike
  <2>6. Sure(z, c, fine)
    BY <1>4, <1>6 DEF Sure
  <2>7. CASE ~GateActive(d) /\ d.own # None
    BY <2>4, <2>5, <2>6, <2>7, EventWaits
  <2>8. CASE GateActive(d)
    <3>1. fine => ~(d.reconciling /\ d.second)
      BY <2>3 DEF Like, Alike, Still, Held
    <3> QED
      BY <2>4, <2>5, <2>6, <2>8, <3>1, EventShed
  <2>9. CASE ~GateActive(d) /\ d.own = None
    <3>1. d.waits = <<>>
      BY <2>5, <2>9 DEF Popped, AtRest
    <3> QED
      BY <2>4, <2>5, <2>6, <2>9, <3>1, EventShows
  <2> QED
    BY <2>7, <2>8, <2>9
<1> QED
  BY <1>5, <1>6

LEMMA ListenerSure ==
    ASSUME NEW z, Store(z), NEW c, NEW ok, Sure(z, c, ok), AtRest(c), c.es.st = "open",
           NEW f \in Part \cup Event, NEW b, Popped(c, b, f),
           NEW fine,
           fine => ok \/ (f.k = "event" /\ Gap(b, f)
                          /\ (b.pass = None \/ b.pass.tree # "pending" \/ b.pass.epoch # b.epoch)),
           fine /\ f.k = "event" => ~(b.reconciling /\ b.second)
    PROVE  Sure(z, Listener(b, f), fine)
<1>1. CASE f \in Event
  <2>1. f.k = "event"
    BY <1>1, EventTells
  <2>2. Listener(b, f) = OnEvent(b, f)
    BY <2>1 DEF Listener
  <2> QED
    BY <1>1, <2>1, <2>2, OnEventSure
<1>2. CASE f \in Part
  <2>1. f.k \in {"tree", "detail", "complete"}
    BY <1>2 DEF Part
  <2>2. Sure(z, c, fine)
    BY <2>1 DEF Sure
  <2>3. CASE f.k = "tree"
    BY <1>2, <2>2, <2>3, OnTreeSure DEF Listener
  <2>4. CASE f.k = "detail"
    BY <1>2, <2>2, <2>4, OnDetailSure DEF Listener
  <2>5. CASE f.k = "complete"
    BY <1>2, <2>2, <2>5, OnCompleteSure DEF Listener
  <2> QED
    BY <2>1, <2>3, <2>4, <2>5
<1> QED
  BY <1>1, <1>2

-----------------------------------------------------------------------------
(* What runs when a listener has returned.                                 *)

LEMMA StartReconcileEnds ==
    ASSUME NEW c, Shape(c), c.ref \in {0, 1}, ~c.resolved, NEW second,
           NEW d, d = StartReconcile(c, second)
    PROVE  Ended(c, d) /\ ~d.resolved
<1> DEFINE b == [c EXCEPT !.reconciling = TRUE, !.dirty = FALSE, !.second = second,
                          !.expect = TRUE]
<1>1. Same(c, b) /\ b.ref = c.ref /\ b.reconciling /\ b.expect /\ b.resolved = c.resolved
  BY DEF Same, Shape, Fields
<1>2. d = ConnectAs(b, TRUE, FALSE)
  BY DEF StartReconcile, Connect
<1> HIDE DEF b
<1>3. Shape(b)
  BY <1>1, SameShape
<1>4. Cut(b, d) /\ d.es.st = "connecting" /\ Still(b, d)
  BY <1>2, <1>3, ConnectCuts, ConnectStill
<1>5. Gated(d) /\ ~d.resolved
  BY <1>1, <1>4 DEF Still, Held, Gated, Cut
<1> QED
  BY <1>1, <1>4, <1>5 DEF Ended, Cut, Same

LEMMA SelfLike == ASSUME NEW c, Shape(c) PROVE Like(c, c)
BY SelfSame, SameLike DEF Still, Held

\* A reconcile goes on when its capture has come.
LEMMA ReconciledSure ==
    ASSUME NEW z, NEW c, NEW ok, Sure(z, c, ok), NEW d, d = Reconciled(c)
    PROVE  Sure(z, d, ok) /\ ~d.resolved
<1> DEFINE b == [c EXCEPT !.resolved = FALSE]
           g == [b EXCEPT !.reconciling = FALSE, !.second = FALSE]
<1>0. Shape(c) /\ Gated(c) /\ Bounded(z, c)
  BY DEF Sure, Bounded
<1>1. CASE c.resolved
  <2>1. /\ Same(c, b) /\ Same(c, g) /\ Shape(b) /\ ~b.resolved /\ ~g.resolved
        /\ b.ref = c.ref /\ g.ref = c.ref /\ b.dirty = c.dirty /\ b.second = c.second
        /\ g.reconciling = FALSE /\ g.expect = c.expect
    BY <1>0 DEF Same, Shape, Fields
  <2>2. c.reconciling /\ ~c.expect /\ c.waits = <<>> /\ c.ref \in {0, 1}
    BY <1>0, <1>1 DEF Gated
  <2>3. d = IF c.ref > 0 THEN g ELSE IF c.dirty /\ ~c.second THEN StartReconcile(b, TRUE) ELSE g
    BY <1>1, <2>1 DEF Reconciled, ReconcileDone
  <2> HIDE DEF b, g
  <2>4. Gated(g) /\ Alike(c, g)
    BY <2>1, <2>2, <1>0 DEF Gated, Same, Alike, Shape
  <2>5. CASE ~(c.ref > 0) /\ c.dirty /\ ~c.second
    <3>1. d = StartReconcile(b, TRUE)
      BY <2>3, <2>5
    <3>2. Ended(b, d) /\ ~d.resolved
      BY <3>1, <2>1, <2>2, StartReconcileEnds
    <3>3. Ended(c, d)
      BY <3>2, <2>1 DEF Ended, Same
    <3> QED
      BY <3>2, <3>3, <1>0, EndedSure
  <2>6. CASE c.ref > 0 \/ ~(c.dirty /\ ~c.second)
    <3>1. Doomed(c) => Doomed(g)
      BY <2>1, <2>2, <2>6 DEF Doomed
    <3>2. d = g
      BY <2>3, <2>6
    <3> QED
      BY <3>1, <3>2, <2>1, <2>4, AlikeSure
  <2> QED
    BY <2>5, <2>6
<1>2. CASE ~c.resolved
  BY <1>2 DEF Reconciled
<1> QED
  BY <1>1, <1>2

\* The value the last of the waiting frames leaves.
Turns(q) == {i \in DOMAIN q : q[i].s = "frontier"}
Left(q, x) == IF Turns(q) = {} THEN x ELSE q[Max(Turns(q))].v

LEMMA LeadsLast ==
    ASSUME NEW q \in Seq(Event), NEW x, NEW y, Leads(q, 0, x, y)
    PROVE  y = Left(q, x)
<1> DEFINE W == Turns(q)
<1>0. \A i \in DOMAIN q : /\ i \in Nat /\ i > 0 /\ i <= Len(q) /\ q[i] \in Event
                          /\ (Moves(q[i]) <=> i \in W)
  <2>1. \A i \in DOMAIN q : i \in Nat /\ i > 0 /\ i <= Len(q) /\ q[i] \in Event
    OBVIOUS
  <2>2. \A i \in DOMAIN q : Moves(q[i]) <=> i \in W
    BY <2>1, EventTells DEF Turns
  <2> HIDE DEF W
  <2> QED
    BY <2>1, <2>2
<1>4. W \subseteq DOMAIN q
  BY DEF Turns
<1>5. Left(q, x) = IF W = {} THEN x ELSE q[Max(W)].v
  BY DEF Left
<1> HIDE DEF W
<1>1. W # {} => Max(W) \in W /\ \A i \in W : i <= Max(W)
  <2>1. W \in SUBSET Int /\ \A i \in W : i <= Len(q)
    BY <1>0, <1>4
  <2>2. Len(q) \in Int
    OBVIOUS
  <2> QED
    BY <2>1, <2>2, MaxIs
<1>2. CASE x = y /\ \A i \in DOMAIN q : i > 0 => ~Moves(q[i])
  BY <1>0, <1>2, <1>4, <1>5
<1>3. CASE \E m \in DOMAIN q : /\ m > 0 /\ Moves(q[m]) /\ q[m].v = y
                               /\ \A i \in DOMAIN q : i > m => ~Moves(q[i])
  <2>1. PICK m \in DOMAIN q : /\ m > 0 /\ Moves(q[m]) /\ q[m].v = y
                              /\ \A i \in DOMAIN q : i > m => ~Moves(q[i])
    BY <1>3
  <2>2. m \in W /\ Max(W) \in W /\ m <= Max(W) /\ Max(W) \in DOMAIN q
    BY <2>1, <1>0, <1>1, <1>4
  <2>3. ~(Max(W) > m)
    BY <2>1, <2>2, <1>0
  <2>4. Max(W) = m
    BY <2>2, <2>3, <1>0
  <2> QED
    BY <2>1, <2>2, <2>4, <1>5
<1> QED
  BY <1>2, <1>3 DEF Leads

\* The waiting frames are let go at the gate, or shown one after the other.
LEMMA ResumedIs ==
    ASSUME NEW c, Shape(c), Capped(c.waits), c.own = None, c.waits # <<>>,
           NEW d, d = Resumed(c)
    PROVE  /\ DOMAIN d = Fields
           /\ d.es = c.es /\ d.epoch = c.epoch /\ d.boot = c.boot /\ d.own = None
           /\ d.dec = c.dec /\ d.waits = <<>> /\ d.deferred = c.deferred /\ d.exp = c.exp
           /\ d.cursor \in Int
           /\ \A n : c.cursor <= n /\ (\A w \in Of(c.waits) : w.n <= n) => d.cursor <= n
           /\ d.detail \in [Sess -> Nat] /\ d.tree \in [Sess -> Nat]
           /\ d.ref = c.ref /\ d.reconciling = c.reconciling /\ d.second = c.second
           /\ d.expect = c.expect /\ d.resolved = c.resolved
           /\ ~c.reconciling => (d.dirty <=> c.dirty)
           /\ ~GateActive(c) => \A x \in Shown(d) : \E y \in Shown(c) : x = Left(c.waits, y)
<1> DEFINE N == {c.cursor} \cup {c.waits[i].n : i \in DOMAIN c.waits}
           U(s) == {i \in DOMAIN c.waits : c.waits[i].s = s}
           last(s, held) == IF U(s) = {} THEN held ELSE c.waits[Max(U(s))].v
           m == Max(N)
           b == [c EXCEPT !.waits = <<>>, !.cursor = m]
           g == [b EXCEPT !.dirty = @ \/ c.reconciling]
           D == [s \in Sess |-> last(s, c.detail[s])]
           T == [s \in Sess |-> IF s = "frontier" \/ c.tree[s] > 0
                                 THEN last(s, c.tree[s]) ELSE c.tree[s]]
           a == [b EXCEPT !.detail = D, !.tree = T]
<1>0. c.waits \in Seq(Event) /\ c.cursor \in Int
  BY DEF Shape
<1>1. \A i \in DOMAIN c.waits : /\ c.waits[i] \in Event /\ c.waits[i] \in Of(c.waits)
                                /\ i \in 1..Len(c.waits)
  BY <1>0 DEF Of
<1>2. m \in N /\ \A x \in N : x <= m
  <2>1. PICK h \in Nat : \A f \in Of(c.waits) : f.n <= h
    BY DEF Capped
  <2> DEFINE u == IF c.cursor <= h THEN h ELSE c.cursor
  <2>2. \A i \in DOMAIN c.waits : c.waits[i].n \in Nat /\ c.waits[i].n <= h
    BY <1>1, <2>1 DEF Event
  <2>3. u \in Int /\ N \in SUBSET Int /\ N # {} /\ \A x \in N : x <= u
    BY <1>0, <2>2
  <2> HIDE DEF N, u
  <2> QED
    BY <2>3, MaxIs
<1>3. N \subseteq Int /\ \A x \in N : x = c.cursor \/ \E w \in Of(c.waits) : x = w.n
  BY <1>0, <1>1 DEF Event
<1>4. m \in Int /\ \A n : c.cursor <= n /\ (\A w \in Of(c.waits) : w.n <= n) => m <= n
  <2> HIDE DEF m, N
  <2> QED
    BY <1>2, <1>3
<1>5. \A s \in Sess : U(s) # {} => Max(U(s)) \in U(s)
  <2> TAKE s \in Sess
  <2>1. U(s) \in SUBSET Int /\ \A i \in U(s) : i <= Len(c.waits)
    BY <1>1
  <2>2. Len(c.waits) \in Int
    BY <1>0
  <2> HIDE DEF U
  <2> QED
    BY <2>1, <2>2, MaxIs
<1>6. \A s \in Sess, v \in Nat : last(s, v) \in Nat
  BY <1>1, <1>5 DEF Event
<1>7. D \in [Sess -> Nat] /\ T \in [Sess -> Nat]
  BY <1>6 DEF Shape
<1>8. /\ T["frontier"] = last("frontier", c.tree["frontier"])
      /\ D["frontier"] = last("frontier", c.detail["frontier"])
  BY DEF Sess
<1>9. d = IF GateActive(c) THEN g ELSE a
  BY DEF Resumed
<1>11. \A v : last("frontier", v) = Left(c.waits, v)
  BY DEF Left, Turns
<1> HIDE DEF N, U, m, D, T, last
<1>12. /\ \A x \in {a, g} : /\ DOMAIN x = Fields
                           /\ x.es = c.es /\ x.epoch = c.epoch /\ x.boot = c.boot
                           /\ x.cursor = m /\ x.own = c.own /\ x.dec = c.dec
                           /\ x.waits = <<>> /\ x.deferred = c.deferred /\ x.exp = c.exp
                           /\ x.ref = c.ref /\ x.reconciling = c.reconciling
                           /\ x.second = c.second /\ x.expect = c.expect
                           /\ x.resolved = c.resolved
       /\ g.tree = c.tree /\ g.detail = c.detail /\ a.tree = T /\ a.detail = D
  BY DEF Shape, Fields
<1>13. a.dirty = c.dirty
  BY DEF Shape, Fields
<1>14. g.dirty = (c.dirty \/ c.reconciling)
  BY DEF Shape, Fields
<1> HIDE DEF a, g
<1>15. d \in {a, g} /\ (~GateActive(c) => d = a) /\ (GateActive(c) => d = g)
  BY <1>9
<1>16. d.detail \in [Sess -> Nat] /\ d.tree \in [Sess -> Nat]
  BY <1>7, <1>12, <1>15 DEF Shape
<1>17. ASSUME ~GateActive(c), NEW x \in Shown(d)
       PROVE  \E y \in Shown(c) : x = Left(c.waits, y)
  <2>1. /\ d.tree["frontier"] = Left(c.waits, c.tree["frontier"])
        /\ d.detail["frontier"] = Left(c.waits, c.detail["frontier"])
    BY <1>8, <1>11, <1>12, <1>15, <1>17
  <2> QED
    BY <2>1, <1>17 DEF Shown
<1>18. ~c.reconciling => (d.dirty <=> c.dirty)
  BY <1>13, <1>14, <1>15
<1> QED
  BY <1>4, <1>12, <1>15, <1>16, <1>17, <1>18

LEMMA ResumedSure ==
    ASSUME NEW z, Store(z), NEW c, NEW ok, Sure(z, c, ok), ~c.resolved, NEW d, d = Resumed(c)
    PROVE  /\ Sure(z, d, ok) /\ ~d.resolved
           /\ d.own = c.own /\ d.deferred = c.deferred /\ (d.own = None => d.waits = <<>>)
<1> DEFINE V == z.val["frontier"]
<1>1. CASE c.own # None \/ c.waits = <<>>
  BY <1>1 DEF Resumed
<1>2. CASE c.own = None /\ c.waits # <<>>
  <2>0. /\ Shape(c) /\ Gated(c) /\ Bounded(z, c) /\ Captured(z, c) /\ Wired(z, c)
        /\ Capped(c.waits) /\ Within(z.epoch, z.head, c) /\ c.waits \in Seq(Event)
    BY DEF Sure, Bounded, Shape
  <2>1. /\ DOMAIN d = Fields
        /\ d.es = c.es /\ d.epoch = c.epoch /\ d.boot = c.boot /\ d.own = None
        /\ d.dec = c.dec /\ d.waits = <<>> /\ d.deferred = c.deferred /\ d.exp = c.exp
        /\ d.cursor \in Int
        /\ d.detail \in [Sess -> Nat] /\ d.tree \in [Sess -> Nat]
        /\ d.ref = c.ref /\ d.reconciling = c.reconciling /\ d.second = c.second
        /\ d.expect = c.expect /\ d.resolved = c.resolved
        /\ ~c.reconciling => (d.dirty <=> c.dirty)
    BY <1>2, <2>0, ResumedIs
  <2>2. \A n : c.cursor <= n /\ (\A w \in Of(c.waits) : w.n <= n) => d.cursor <= n
    BY <1>2, <2>0, ResumedIs
  <2>3. ASSUME ~GateActive(c), NEW x \in Shown(d)
        PROVE  \E y \in Shown(c) : x = Left(c.waits, y)
    BY <1>2, <2>0, <2>3, ResumedIs
  <2>4. ~c.reconciling
    BY <1>2, <2>0 DEF Gated
  <2>5. Gated(d) /\ (Doomed(d) <=> Doomed(c))
    BY <2>0, <2>1, <2>4 DEF Gated, Doomed
  <2>6. Staged(c) = {} /\ Staged(d) = {} /\ Of(d.waits) = {}
    BY <1>2, <2>1 DEF Staged, Of
  <2>7. \A n : Within(z.epoch, n, c) => Within(z.epoch, n, d)
    BY <2>1, <2>2, <2>6 DEF Within
  <2>8. Shape(d)
    BY <2>0, <2>1 DEF Shape
  <2>9. Captured(z, d) /\ Wired(z, d)
    BY <1>2, <2>0, <2>1, <2>6 DEF Captured, Wired
  <2>10. Bounded(z, d)
    BY <2>0, <2>1, <2>5, <2>7, <2>8, <2>9, CappedNone DEF Bounded
  <2>11. Coming(z, c) => Coming(z, d)
    BY <2>1, <2>7 DEF Coming
  <2>12. ASSUME Showing(z, c), ~Doomed(c) PROVE Showing(z, d)
    <3>1. ~GateActive(c)
      BY <2>0, <2>4, <2>12 DEF GateActive, Doomed, Gated
    <3>2. ASSUME NEW x \in Shown(d) PROVE Reaches(d, x, V)
      <4>1. PICK y \in Shown(c) : x = Left(c.waits, y)
        BY <2>3, <3>1
      <4>2. PICK m \in Nat : Leads(c.waits, 0, y, m) /\ Leads(c.es.wire, 0, m, V)
        BY <2>12 DEF Showing, Reaches
      <4>3. m = x
        BY <2>0, <4>1, <4>2, LeadsLast
      <4>4. Leads(d.waits, 0, x, x) /\ x \in Nat
        BY <2>1, <4>2, <4>3, LeadsNone
      <4> QED
        BY <2>1, <4>2, <4>3, <4>4 DEF Reaches
    <3> QED
      BY <2>1, <2>12, <3>2 DEF Showing
  <2>13. Sure(z, d, ok)
    BY <1>2, <2>1, <2>5, <2>10, <2>11, <2>12 DEF Sure, Flow, Pending
  <2> QED
    BY <1>2, <2>1, <2>13
<1> QED
  BY <1>1, <1>2

\* The children asked for change hands.
Hands(c, d) ==
    /\ DOMAIN d = Fields
    /\ d.es \in Source /\ d.es.st = c.es.st /\ d.es.wire = c.es.wire
    /\ d.epoch = c.epoch /\ d.boot \in Int /\ d.cursor = c.cursor
    /\ d.tree = c.tree /\ d.detail = c.detail /\ d.own = c.own /\ d.dec = c.dec
    /\ d.waits = c.waits /\ Still(c, d)
    /\ d.deferred \in Reply \cup {None}
    /\ d.exp \in Reply \cup [st : {"idle", "sent"}]
\* The children r are not newer than a capture that is on the way.
Behind(z, c, r) == \A j \in Trees(c.es.wire) : r.e = z.epoch => r.n <= c.es.wire[j].n

LEMMA HandsSure ==
    ASSUME NEW z, NEW c, NEW ok, Sure(z, c, ok), NEW d, Hands(c, d),
           d.deferred \in {None, c.deferred}
              \/ (Stated(z, d.deferred) /\ (ok => Behind(z, c, d.deferred))),
           d.exp.st = "reply" => Stated(z, d.exp)
    PROVE  Sure(z, d, ok)
<1>1. Shape(c) /\ Gated(c) /\ Shape(d)
  BY DEF Sure, Bounded, Shape, Hands
<1>2. Gated(d) /\ (Doomed(d) <=> Doomed(c))
  BY <1>1, StillGated DEF Hands
<1>3. Staged(d) = Staged(c) /\ Shown(d) = Shown(c) /\ \A x, y : Reaches(d, x, y) <=> Reaches(c, x, y)
  BY DEF Hands, Staged, Shown, Reaches
<1>4. \A n : Within(z.epoch, n, c)
             /\ (d.deferred # None /\ d.deferred # c.deferred /\ d.deferred.e = z.epoch
                    => d.deferred.n <= n) => Within(z.epoch, n, d)
  BY <1>3 DEF Within, Hands
<1>5. Captured(z, c) => Captured(z, d)
  BY <1>3 DEF Captured, Hands
<1>6. Wired(z, c) => Wired(z, d)
  BY <1>3 DEF Wired, Hands
<1>7. Within(z.epoch, z.head, d) /\ (d.deferred # None => Stated(z, d.deferred))
  BY <1>4 DEF Sure, Bounded, Stated
<1>8. Bounded(z, d)
  BY <1>1, <1>2, <1>5, <1>6, <1>7 DEF Sure, Bounded, Hands
<1>9. ok /\ Coming(z, c) => Coming(z, d)
  <2> SUFFICES ASSUME ok, Coming(z, c) PROVE Coming(z, d)
    OBVIOUS
  <2>1. PICK j \in Trees(c.es.wire) :
          /\ Within(z.epoch, c.es.wire[j].n, c)
          /\ Leads(c.es.wire, j, Says(c.es.wire[j]), z.val["frontier"])
    BY DEF Coming
  <2>2. Within(z.epoch, c.es.wire[j].n, d)
    BY <2>1, <1>4 DEF Behind
  <2> QED
    BY <2>1, <2>2 DEF Coming, Hands
<1>10. Pending(z, c) => Pending(z, d)
  BY <1>3 DEF Pending, Hands
<1>11. Showing(z, c) => Showing(z, d)
  BY <1>3 DEF Showing, Hands
<1> QED
  BY <1>2, <1>8, <1>9, <1>10, <1>11 DEF Sure, Flow, Hands

\* A part of the page that is not the frontier, and with it the cursor.
LEMMA BesideSure ==
    ASSUME NEW z, Store(z), NEW c, NEW ok, Sure(z, c, ok), c.own = None, c.waits = <<>>,
           NEW d, DOMAIN d = Fields,
           d.es = c.es, d.boot \in Int, d.cursor \in Int, d.epoch \in Nat,
           d.tree \in [Sess -> Nat], d.tree["frontier"] = c.tree["frontier"],
           d.detail \in [Sess -> Nat], d.detail["frontier"] = c.detail["frontier"],
           d.own = None, d.dec = c.dec, d.waits = c.waits, d.deferred = c.deferred,
           d.exp = c.exp, Still(c, d),
           d.epoch <= z.epoch, c.epoch = z.epoch => d.epoch = z.epoch,
           d.epoch = z.epoch => d.cursor <= z.head,
           ok => \A j \in Trees(c.es.wire) : d.epoch = z.epoch =>
                    d.cursor <= c.es.wire[j].n \/ (c.epoch = z.epoch /\ d.cursor <= c.cursor)
    PROVE  Sure(z, d, ok)
<1>1. Shape(c) /\ Gated(c) /\ Shape(d) /\ Captured(z, c) /\ Bounded(z, c)
  BY DEF Sure, Bounded, Shape
<1>2. Gated(d) /\ (Doomed(d) <=> Doomed(c))
  BY <1>1, StillGated
<1>3. /\ Staged(d) = {} /\ Staged(c) = {} /\ Of(d.waits) = {} /\ Shown(d) = Shown(c)
      /\ \A x, y : Reaches(d, x, y) <=> Reaches(c, x, y)
  BY DEF Staged, Shown, Reaches, Of
<1>4. \A n : Within(z.epoch, n, c) /\ (d.epoch = z.epoch => d.cursor <= n) => Within(z.epoch, n, d)
  BY <1>3 DEF Within
<1>5. Captured(z, d)
  BY <1>1, <1>3 DEF Captured
<1>6. Wired(z, c) => Wired(z, d)
  BY <1>3 DEF Wired
<1>7. Bounded(z, d)
  BY <1>1, <1>2, <1>4, <1>5, <1>6 DEF Bounded
<1>8. ok /\ Coming(z, c) => Coming(z, d)
  <2> SUFFICES ASSUME ok, Coming(z, c) PROVE Coming(z, d)
    OBVIOUS
  <2>1. PICK j \in Trees(c.es.wire) :
          /\ Within(z.epoch, c.es.wire[j].n, c)
          /\ Leads(c.es.wire, j, Says(c.es.wire[j]), z.val["frontier"])
    BY DEF Coming
  <2>2. c.cursor \in Int /\ c.es.wire[j].n \in Int
    <3>1. c.es.wire \in Seq(Part \cup Event) /\ j \in DOMAIN c.es.wire
      BY <1>1 DEF Shape, Source, Trees
    <3>2. c.es.wire[j] \in Part \cup Event
      BY <3>1
    <3> QED
      BY <3>2, SaysNat, <1>1 DEF Shape
  <2>3. d.epoch = z.epoch => d.cursor <= c.es.wire[j].n
    BY <2>1, <2>2 DEF Within
  <2>4. Within(z.epoch, c.es.wire[j].n, d)
    BY <2>1, <2>3, <1>4
  <2> QED
    BY <2>1, <2>4 DEF Coming
<1>9. Showing(z, c) => Showing(z, d)
  BY <1>3 DEF Showing
<1> QED
  BY <1>2, <1>7, <1>8, <1>9 DEF Sure, Flow, Pending

LEMMA ApplyExpandSure ==
    ASSUME NEW z, Store(z), NEW c, NEW ok, Sure(z, c, ok), c.own = None, c.waits = <<>>,
           NEW r \in Reply, Stated(z, r),
           ok /\ c.es.st = "open" /\ ~Doomed(c) => Behind(z, c, r),
           NEW d, d = ApplyExpand(c, r)
    PROVE  /\ Sure(z, d, ok) /\ d.own = None /\ d.waits = <<>> /\ d.resolved = c.resolved
           /\ d.deferred \in {c.deferred, None}
<1> DEFINE a == ApplyScoped(c, r, {"buried"}, "http")
           e == [a EXCEPT !.tree["buried"] = r.v["buried"]]
           p == Project(c, r, {"buried"})
           k == IF c.epoch = 0 THEN r.n ELSE Larger(c.cursor, r.n)
           go == ok /\ c.es.st = "open" /\ ~Doomed(c)
<1>0. /\ Shape(c) /\ Gated(c) /\ Bounded(z, c) /\ c.cursor \in Int
      /\ z.epoch \in Nat /\ z.epoch # 0 /\ z.head \in Nat
  BY DEF Sure, Bounded, Shape, Store, Epochs
<1>1. r.e \in Nat /\ r.e # 0 /\ r.n \in Nat /\ r.v \in [Sess -> Nat] /\ r.gap = FALSE
  BY DEF Reply, Epochs
<1>2. \/ a = c
      \/ a = RequestRecovery(c, TreeGap)
      \/ a = [c EXCEPT !.detail = p, !.epoch = r.e, !.cursor = k] /\ c.epoch \in {0, r.e}
  <2> DEFINE v == Verdict(c, r, "http")
  <2>1. /\ v = "apply" => r.e = c.epoch /\ c.epoch # 0
        /\ v = "rebaseline" => c.epoch = 0
        /\ v \in {"apply", "stale", "foreign", "rebaseline"}
    BY DEF Verdict
  <2>2. /\ v = "apply" => a = [c EXCEPT !.detail = p, !.epoch = r.e, !.cursor = Larger(@, r.n)]
        /\ v = "rebaseline" => a = [c EXCEPT !.detail = p, !.epoch = r.e, !.cursor = r.n]
        /\ v = "foreign" => a = RequestRecovery(c, TreeGap)
        /\ v = "stale" => a = c
    BY DEF ApplyScoped
  <2> HIDE DEF v, p, a
  <2> QED
    BY <2>1, <2>2
<1>3. c.epoch \in {0, r.e} => p \in [Sess -> Nat] /\ p["frontier"] = c.detail["frontier"]
  BY <1>0, <1>1 DEF Project, Shape, Sess
<1>4. k \in Int /\ (\A n : r.n <= n /\ (c.epoch # 0 => c.cursor <= n) => k <= n)
  BY <1>0, <1>1 DEF Larger
<1> HIDE DEF p, k, a
<1>5. /\ Sure(z, a, ok) /\ a.own = None /\ a.waits = <<>> /\ a.resolved = c.resolved
      /\ a.deferred \in {c.deferred, None}
  <2>1. CASE a = c
    BY <2>1
  <2>2. CASE a = RequestRecovery(c, TreeGap)
    <3>1. /\ Sure(z, a, ok) /\ Still(c, a) /\ a.own \in {c.own, None}
          /\ a.waits \in {c.waits, <<>>} /\ a.deferred \in {c.deferred, None}
      BY <2>2, RecoverySure
    <3> QED
      BY <3>1 DEF Still
  <2>3. CASE a = [c EXCEPT !.detail = p, !.epoch = r.e, !.cursor = k] /\ c.epoch \in {0, r.e}
    <3>1. /\ DOMAIN a = Fields /\ a.es = c.es /\ a.boot = c.boot /\ a.tree = c.tree
          /\ a.own = None /\ a.dec = c.dec /\ a.waits = c.waits /\ a.deferred = c.deferred
          /\ a.exp = c.exp /\ a.detail = p /\ a.epoch = r.e /\ a.cursor = k /\ Still(c, a)
      BY <2>3, <1>0 DEF Shape, Fields, Still, Held
    <3>2. a.epoch <= z.epoch /\ (c.epoch = z.epoch => a.epoch = z.epoch)
      BY <3>1, <2>3, <1>0 DEF Stated
    <3>3. a.epoch = z.epoch => a.cursor <= z.head
      <4>1. c.epoch # 0 /\ a.epoch = z.epoch => c.cursor <= z.head
        BY <2>3, <3>1, <1>0 DEF Bounded, Within
      <4> QED
        BY <4>1, <3>1, <1>4 DEF Stated
    <3>4. ASSUME go, NEW j \in Trees(c.es.wire), a.epoch = z.epoch
          PROVE  a.cursor <= c.es.wire[j].n \/ (c.epoch = z.epoch /\ a.cursor <= c.cursor)
      <4>1. r.n <= c.es.wire[j].n /\ c.es.wire[j].n \in Int
        <5>1. c.es.wire \in Seq(Part \cup Event) /\ j \in DOMAIN c.es.wire
          BY <1>0 DEF Shape, Source, Trees
        <5>2. c.es.wire[j] \in Part \cup Event
          BY <5>1
        <5> QED
          BY <5>2, <3>1, <3>4, SaysNat DEF Behind
      <4>2. CASE c.epoch = 0
        BY <4>1, <4>2, <3>1, <1>4
      <4>3. CASE c.epoch # 0
        <5>1. c.epoch = z.epoch /\ a.cursor = Larger(c.cursor, r.n)
          BY <2>3, <3>1, <3>4, <4>3 DEF k
        <5> QED
          BY <5>1, <4>1, <1>0, <1>1 DEF Larger
      <4> QED
        BY <4>2, <4>3
    <3>5. Sure(z, c, go)
      BY DEF Sure
    <3> HIDE DEF go
    <3>6. /\ a.boot \in Int /\ a.cursor \in Int /\ a.epoch \in Nat /\ a.tree \in [Sess -> Nat]
          /\ a.tree["frontier"] = c.tree["frontier"] /\ a.detail \in [Sess -> Nat]
          /\ a.detail["frontier"] = c.detail["frontier"]
      BY <3>1, <2>3, <1>0, <1>1, <1>3, <1>4 DEF Shape
    <3>7. Sure(z, a, go)
      BY <3>1, <3>2, <3>3, <3>4, <3>5, <3>6, BesideSure
    <3>8. Doomed(a) <=> Doomed(c)
      BY <3>1, <1>0, StillGated
    <3> QED
      BY <3>1, <3>7, <3>8 DEF Sure, Flow, Still, go
  <2> QED
    BY <1>2, <2>1, <2>2, <2>3
<1>6. Shape(a)
  BY <1>5 DEF Sure, Bounded
<1>7. /\ DOMAIN e = Fields /\ e.es = a.es /\ e.boot = a.boot /\ e.detail = a.detail
      /\ e.own = a.own /\ e.dec = a.dec /\ e.waits = a.waits /\ e.deferred = a.deferred
      /\ e.exp = a.exp /\ e.epoch = a.epoch /\ e.cursor = a.cursor /\ Still(a, e)
      /\ e.tree = [a.tree EXCEPT !["buried"] = r.v["buried"]]
  BY <1>6 DEF Shape, Fields, Still, Held
<1>8. d = e
  BY DEF ApplyExpand, e, a
<1> HIDE DEF e
<1>9. e.tree \in [Sess -> Nat] /\ e.tree["frontier"] = a.tree["frontier"]
  <2>1. a.tree \in [Sess -> Nat] /\ r.v["buried"] \in Nat
    BY <1>1, <1>6 DEF Shape, Sess
  <2> QED
    BY <2>1, <1>7 DEF Sess
<1>10. /\ a.boot \in Int /\ a.cursor \in Int /\ a.epoch \in Nat /\ a.detail \in [Sess -> Nat]
       /\ a.epoch <= z.epoch /\ (a.epoch = z.epoch => a.cursor <= z.head) /\ a.cursor <= a.cursor
  BY <1>5, <1>6 DEF Shape, Sure, Bounded, Within
<1>11. Sure(z, e, ok)
  BY <1>5, <1>7, <1>9, <1>10, BesideSure
<1> QED
  BY <1>5, <1>7, <1>8, <1>11 DEF Still

LEMMA BundledSure ==
    ASSUME NEW z, Store(z), NEW c, NEW ok, Sure(z, c, ok), ~c.resolved,
           c.own = None => c.waits = <<>>, NEW d, d = Bundled(c)
    PROVE  Sure(z, d, ok) /\ AtRest(d) /\ ~d.resolved
<1> DEFINE b == [c EXCEPT !.deferred = None]
           r == c.deferred
<1>0. Shape(c) /\ Gated(c) /\ Bounded(z, c)
  BY DEF Sure, Bounded
<1>1. CASE c.own = None /\ c.deferred # None
  <2>1. Hands(c, b) /\ b.deferred = None /\ b.exp = c.exp /\ b.resolved = c.resolved
    BY <1>0 DEF Hands, Shape, Fields, Still, Held
  <2>2. d = ApplyExpand(b, r) /\ r \in Reply /\ Stated(z, r)
    BY <1>0, <1>1 DEF Bundled, Shape, Bounded
  <2> HIDE DEF b
  <2>3. Sure(z, b, ok)
    BY <2>1, HandsSure DEF Sure, Bounded
  <2>4. ASSUME ok, b.es.st = "open", ~Doomed(b) PROVE Behind(z, b, r)
    <3>1. ~Doomed(c) /\ c.es.st = "open" /\ b.es.wire = c.es.wire
      BY <2>1, <2>4, <1>0, StillGated DEF Hands
    <3>2. CASE Trees(c.es.wire) = {}
      BY <3>1, <3>2 DEF Behind
    <3>3. CASE Coming(z, c)
      <4>1. PICK j \in Trees(c.es.wire) : Within(z.epoch, c.es.wire[j].n, c)
        BY <3>3 DEF Coming
      <4>2. r.e = z.epoch => r.n <= c.es.wire[j].n
        BY <4>1, <1>1 DEF Within
      <4>3. \A i \in Trees(c.es.wire) : i = j
        <5> SUFFICES ASSUME NEW i \in Trees(c.es.wire) PROVE i = j
          OBVIOUS
        <5>1. c.es.wire \in Seq(Part \cup Event) /\ Lined(z, c.es.wire, Staged(c))
          BY <1>0 DEF Shape, Source, Bounded, Wired
        <5>2. i \in Int /\ j \in Int
          BY <5>1 DEF Trees
        <5>3. ~(i < j) /\ ~(j < i)
          BY <5>1, <5>2 DEF Lined, Trees
        <5> QED
          BY <5>2, <5>3
      <4> QED
        BY <3>1, <4>2, <4>3 DEF Behind
    <3> QED
      BY <2>4, <3>1, <3>2, <3>3 DEF Sure, Flow, Pending, Showing
  <2>5. b.own = None /\ b.waits = <<>>
    BY <1>1, <2>1 DEF Hands
  <2>6. /\ Sure(z, d, ok) /\ d.own = None /\ d.waits = <<>> /\ d.resolved = b.resolved
        /\ d.deferred \in {b.deferred, None}
    BY <2>2, <2>3, <2>4, <2>5, ApplyExpandSure
  <2> QED
    BY <2>1, <2>6 DEF AtRest
<1>2. CASE ~(c.own = None /\ c.deferred # None)
  BY <1>2 DEF Bundled, AtRest
<1> QED
  BY <1>1, <1>2

LEMMA RunSure ==
    ASSUME NEW z, Store(z), NEW c, NEW ok, Sure(z, c, ok), Run(c)
    PROVE  Sure(z, cli', ok) /\ AtRest(cli') /\ ~cli'.resolved
<1> DEFINE e == Reconciled(c)
           f == Resumed(e)
<1>1. cli' = Bundled(f)
  BY DEF Run
<1> HIDE DEF e, f
<1>2. Sure(z, e, ok) /\ ~e.resolved
  BY ReconciledSure DEF e
<1>3. Sure(z, f, ok) /\ ~f.resolved /\ (f.own = None => f.waits = <<>>)
  BY <1>2, ResumedSure DEF f
<1> QED
  BY <1>1, <1>3, BundledSure

-----------------------------------------------------------------------------
(* The actions.                                                            *)

\* Whether the debts are such that a quiet page is current.
Fine == debts \subseteq {"blind"}

LEMMA FlowFacts ==
    ASSUME FlowInv
    PROVE  /\ Store(srv) /\ AtRest(cli) /\ ~cli.resolved /\ Sure(srv, cli, Fine)
           /\ Bounded(srv, cli) /\ Shape(cli) /\ Gated(cli) /\ DOMAIN cli = Fields
           /\ cli.es \in Source /\ cli.es.wire \in Seq(Part \cup Event)
BY DEF FlowInv, Fine, Sure, Bounded, Shape, Source

LEMMA RunFlows ==
    ASSUME FlowInv, srv' = srv, NEW c, Sure(srv, c, Fine'), Run(c)
    PROVE  FlowInv'
<1>1. Sure(srv, cli', Fine') /\ AtRest(cli') /\ ~cli'.resolved
  BY FlowFacts, RunSure
<1>2. Store(srv')
  BY FlowFacts
<1>3. Sure(srv', cli', Fine')
  BY <1>1
<1> QED
  BY <1>1, <1>2, <1>3 DEF FlowInv, Fine

LEMMA LikeFlows ==
    ASSUME FlowInv, srv' = srv, debts' = debts, Like(cli, cli')
    PROVE  FlowInv'
<1>1. Sure(srv', cli', Fine')
  BY FlowFacts, LikeSure DEF Fine
<1>2. AtRest(cli') /\ ~cli'.resolved
  BY FlowFacts DEF AtRest, Like, Alike, Still
<1> QED
  BY <1>1, <1>2, FlowFacts DEF FlowInv, Fine

LEMMA EndedFlows ==
    ASSUME FlowInv, srv' = srv, NEW c, Ended(cli, c), Run(c)
    PROVE  FlowInv'
<1>1. Sure(srv, c, Fine')
  BY FlowFacts, EndedSure
<1> QED
  BY <1>1, RunFlows

LEMMA RecoveryFlows ==
    ASSUME FlowInv, srv' = srv, debts' = debts, NEW c, Like(cli, c), NEW req,
           Run(RequestRecovery(c, req))
    PROVE  FlowInv'
<1>1. Sure(srv, c, Fine')
  BY FlowFacts, LikeSure DEF Fine
<1>2. Sure(srv, RequestRecovery(c, req), Fine')
  BY <1>1, RecoverySure
<1> QED
  BY <1>2, RunFlows

LEMMA ConnectFlows ==
    ASSUME FlowInv, srv' = srv, NEW c, Like(cli, c), NEW fresh \in BOOLEAN,
           NEW upgrade \in BOOLEAN, Run(ConnectAs(c, fresh, upgrade))
    PROVE  FlowInv'
<1>1. Sure(srv, c, FALSE)
  BY FlowFacts, LikeSure DEF Sure
<1>2. Sure(srv, ConnectAs(c, fresh, upgrade), Fine')
  BY <1>1, ConnectSure DEF Sure
<1> QED
  BY <1>2, RunFlows

\* A field is set that none of this is about.
LEMMA FlagsLike ==
    ASSUME NEW c, Shape(c), NEW b
    PROVE  /\ Like(c, [c EXCEPT !.hidden = b]) /\ Like(c, [c EXCEPT !.lagging = b])
           /\ Like(c, [c EXCEPT !.upgrade = b]) /\ Like(c, [c EXCEPT !.old = b])
           /\ Like(c, [c EXCEPT !.pass = b])
<1>1. Like(c, [c EXCEPT !.hidden = b])
  BY DEF Like, Alike, Still, Held, Shape, Fields
<1>2. Like(c, [c EXCEPT !.lagging = b])
  BY DEF Like, Alike, Still, Held, Shape, Fields
<1>3. Like(c, [c EXCEPT !.upgrade = b])
  BY DEF Like, Alike, Still, Held, Shape, Fields
<1>4. Like(c, [c EXCEPT !.old = b])
  BY DEF Like, Alike, Still, Held, Shape, Fields
<1>5. Like(c, [c EXCEPT !.pass = b])
  BY DEF Like, Alike, Still, Held, Shape, Fields
<1> QED
  BY <1>1, <1>2, <1>3, <1>4, <1>5

LEMMA TimersFlow ==
    ASSUME FlowInv, DecodeStale \/ PassTimeout \/ SessionConverged \/ Stall
    PROVE  FlowInv'
<1>0. Shape(cli) /\ DOMAIN cli = Fields /\ cli.es \in Source
  BY FlowFacts
<1>1. srv' = srv /\ debts' = debts
  BY DEF DecodeStale, PassTimeout, SessionConverged, Stall
<1>2. CASE DecodeStale \/ PassTimeout
  <2>1. cli' = [cli EXCEPT !.old = None] \/ cli' = [cli EXCEPT !.pass = None]
    BY <1>2 DEF DecodeStale, PassTimeout
  <2>2. Like(cli, [cli EXCEPT !.old = None]) /\ Like(cli, [cli EXCEPT !.pass = None])
    BY <1>0, FlagsLike
  <2>3. Like(cli, cli')
    BY <2>1, <2>2
  <2> QED
    BY <1>1, <2>3, LikeFlows
<1>3. CASE SessionConverged
  <2> DEFINE b == [cli EXCEPT !.pass.session = "converged"]
  <2>1. Like(cli, b) /\ Shape(b)
    BY <1>0 DEF Like, Alike, Still, Held, Shape, Fields
  <2>2. cli' = MaybeComplete(b)
    BY <1>3 DEF SessionConverged
  <2> HIDE DEF b
  <2>3. Like(b, cli')
    BY <2>1, <2>2, MaybeCompleteSame, MaybeCompleteStill, SameLike
  <2>4. Like(cli, cli')
    BY <2>1, <2>3, LikeOn
  <2> QED
    BY <1>1, <2>4, LikeFlows
<1>4. CASE Stall
  <2>1. cli' = [cli EXCEPT !.es.stalled = TRUE]
    BY <1>4 DEF Stall
  <2>2. cli'.es = [cli.es EXCEPT !.stalled = TRUE]
    BY <2>1, <1>0 DEF Fields
  <2>3. cli'.es \in Source /\ cli'.es.st = cli.es.st /\ cli'.es.wire = cli.es.wire
    BY ONLY <2>2, <1>0 DEF Source
  <2>4. Like(cli, cli')
    BY <2>1, <2>3, <1>0 DEF Like, Alike, Still, Held, Shape, Fields
  <2> QED
    BY <1>1, <2>4, LikeFlows
<1> QED
  BY <1>2, <1>3, <1>4

\* A stream that is cut leaves what the page has received.
Severed(c, d) ==
    /\ DOMAIN d = Fields
    /\ d.es \in Source /\ d.es.st # "open" /\ d.es.wire = <<>>
    /\ d.epoch = c.epoch /\ d.boot \in Int /\ d.cursor = c.cursor
    /\ d.tree = c.tree /\ d.detail = c.detail /\ d.own = c.own /\ d.dec = c.dec
    /\ d.waits = c.waits /\ d.deferred = c.deferred /\ d.exp = c.exp
    /\ Still(c, d)
\* What is known of the store z holds of the store y.
Passes(z, y) ==
    /\ Store(y) /\ z.epoch <= y.epoch
    /\ z.epoch = y.epoch => z.head <= y.head

LEMMA ReplyTells ==
    ASSUME NEW r \in Reply
    PROVE  r.e \in Nat /\ r.e # 0 /\ r.n \in Nat
BY DEF Reply, Epochs

LEMMA SeveredSure ==
    ASSUME NEW z, Store(z), NEW y, Passes(z, y), NEW c, Bounded(z, c), NEW d, Severed(c, d),
           NEW ok
    PROVE  Sure(y, d, ok)
<1>0. /\ Shape(c) /\ Gated(c) /\ Captured(z, c) /\ z.epoch \in Int /\ y.epoch \in Int
      /\ z.head \in Int /\ y.head \in Int /\ c.cursor \in Int /\ c.epoch \in Nat
  BY DEF Bounded, Shape, Store, Epochs, Passes
<1>1. Shape(d)
  BY <1>0 DEF Shape, Severed
<1>2. Gated(d)
  BY <1>0, StillGated DEF Severed
<1>3. Staged(d) = Staged(c)
  BY DEF Staged, Severed
<1>4. /\ \A f \in Staged(c) : f.e \in Int /\ f.n \in Int /\ c.epoch <= f.e /\ f.e <= z.epoch
      /\ \A w \in Of(c.waits) : w.n \in Int
      /\ c.deferred # None => c.deferred.e \in Int /\ c.deferred.n \in Int
      /\ c.exp.st = "reply" => c.exp.e \in Int /\ c.exp.n \in Int
  <2>1. \A f \in Staged(c) : f \in Part
    BY <1>0, Sets
  <2>2. \A w \in Of(c.waits) : w \in Event
    BY <1>0, Sets
  <2>3. c.deferred # None => c.deferred \in Reply
    BY <1>0 DEF Shape
  <2>4. c.exp.st = "reply" => c.exp \in Reply
    BY <1>0 DEF Shape
  <2>5. ASSUME NEW f \in Staged(c)
        PROVE  f.e \in Int /\ f.n \in Int /\ c.epoch <= f.e /\ f.e <= z.epoch
    <3>1. c.epoch <= f.e /\ f.e <= z.epoch
      BY <1>0 DEF Captured
    <3>2. f \in Part
      BY <2>1
    <3> QED
      BY <3>1, <3>2, PartTells
  <2>6. ASSUME NEW w \in Of(c.waits) PROVE w.n \in Int
    BY <2>2, EventTells
  <2>7. c.deferred # None => c.deferred.e \in Int /\ c.deferred.n \in Int
    BY <2>3, ReplyTells
  <2>8. c.exp.st = "reply" => c.exp.e \in Int /\ c.exp.n \in Int
    BY <2>4, ReplyTells
  <2> QED
    BY ONLY <2>5, <2>6, <2>7, <2>8
<1>5. Within(y.epoch, y.head, d)
  <2>1. CASE z.epoch = y.epoch
    <3>1. Within(z.epoch, z.head, c) /\ z.head <= y.head
      BY <2>1 DEF Bounded, Passes
    <3> QED
      BY <3>1, <2>1, <1>0, <1>3, <1>4 DEF Within, Severed
  <2>2. CASE z.epoch # y.epoch
    <3>1. z.epoch < y.epoch /\ c.epoch # y.epoch
      BY <2>2, <1>0 DEF Passes, Bounded
    <3>2. \A f \in Staged(c) : f.e # y.epoch
      BY <3>1, <1>0, <1>4
    <3>3. c.deferred # None => c.deferred.e # y.epoch
      BY <3>1, <1>0, <1>4 DEF Bounded, Stated
    <3> QED
      BY <3>1, <3>2, <3>3, <1>3 DEF Within, Severed
  <2> QED
    BY <2>1, <2>2
<1>6. \A r : r.e \in Int /\ r.n \in Int /\ Stated(z, r) => Stated(y, r)
  BY <1>0 DEF Stated, Passes
<1>7. Captured(y, d)
  <2>1. \A f \in Staged(c) : f.e <= y.epoch
    BY <1>0, <1>4 DEF Passes
  <2> QED
    BY <2>1, <1>0, <1>3 DEF Captured, Severed
<1>8. Wired(y, d)
  BY DEF Wired, Lined, Trees, Details, Severed
<1>9. d.epoch <= y.epoch
  BY <1>0 DEF Passes, Severed, Bounded
<1>10. Bounded(y, d)
  BY <1>1, <1>2, <1>4, <1>5, <1>6, <1>7, <1>8, <1>9 DEF Bounded, Severed
<1> QED
  BY <1>10 DEF Sure, Flow, Severed

LEMMA SeverFlows ==
    ASSUME FlowInv, Restart \/ Drop
    PROVE  FlowInv'
<1>0. /\ Store(srv) /\ AtRest(cli) /\ ~cli.resolved /\ Bounded(srv, cli) /\ Shape(cli)
      /\ cli.es \in Source /\ <<>> \in Seq(Part \cup Event) /\ DOMAIN cli = Fields
  BY FlowFacts
<1>1. Passes(srv, srv')
  <2>1. CASE Restart
    <3>1. srv' = [srv EXCEPT !.epoch = @ + 1, !.head = 0, !.ring = <<>>]
      BY <2>1 DEF Restart
    <3>2. /\ srv'.epoch = srv.epoch + 1 /\ srv.epoch \in Nat /\ srv.epoch # 0
          /\ srv'.head = 0 /\ srv'.ring = <<>> /\ srv'.val = srv.val
          /\ DOMAIN srv' = {"epoch", "head", "ring", "val"}
      BY <3>1, <1>0 DEF Store, Epochs
    <3>3. Store(srv')
      BY <3>2, <1>0 DEF Store, Epochs
    <3> QED
      BY <3>2, <3>3 DEF Passes
  <2>2. CASE Drop
    BY <2>2, <1>0 DEF Drop, Passes, Store, Epochs
  <2> QED
    BY <2>1, <2>2
<1>2. Severed(cli, cli')
  <2>1. CASE Restart /\ cli.es.st # "open"
    <3>1. cli' = cli
      BY <2>1 DEF Restart
    <3>2. cli.es.wire = <<>>
      BY <2>1, <1>0 DEF Bounded, Wired
    <3> QED
      BY <2>1, <3>1, <3>2, <1>0 DEF Severed, Shape, Still, Held
  <2>2. CASE Restart /\ cli.es.st = "open"
    <3>1. cli' = [cli EXCEPT !.es.st = "connecting", !.es.wire = <<>>, !.lagging = TRUE]
      BY <2>2 DEF Restart
    <3>2. cli'.es = [cli.es EXCEPT !.st = "connecting", !.wire = <<>>]
      BY <3>1, <1>0 DEF Fields
    <3>3. cli'.es \in Source /\ cli'.es.st = "connecting" /\ cli'.es.wire = <<>>
      BY ONLY <3>2, <1>0 DEF Source
    <3> QED
      BY <3>1, <3>3, <1>0 DEF Severed, Shape, Fields, Still, Held
  <2>3. CASE Drop
    <3>1. cli' = [cli EXCEPT !.es.st = "connecting", !.es.wire = <<>>, !.es.stalled = FALSE,
                             !.lagging = TRUE]
      BY <2>3 DEF Drop
    <3>2. cli'.es = [cli.es EXCEPT !.st = "connecting", !.wire = <<>>, !.stalled = FALSE]
      BY <3>1, <1>0 DEF Fields
    <3>3. cli'.es \in Source /\ cli'.es.st = "connecting" /\ cli'.es.wire = <<>>
      BY ONLY <3>2, <1>0 DEF Source
    <3> QED
      BY <3>1, <3>3, <1>0 DEF Severed, Shape, Fields, Still, Held
  <2> QED
    BY <2>1, <2>2, <2>3
<1>3. Sure(srv', cli', Fine')
  BY <1>0, <1>1, <1>2, SeveredSure
<1>4. AtRest(cli') /\ ~cli'.resolved
  BY <1>0, <1>2 DEF AtRest, Severed, Still
<1> QED
  BY <1>1, <1>3, <1>4 DEF FlowInv, Fine, Passes

LEMMA StopsEnded ==
    ASSUME NEW c, Shape(c), Gated(c)
    PROVE  Ended(c, Closed(c)) /\ Ended(c, Suspend(c))
<1>1. /\ DOMAIN Bump(c) = Fields /\ Still(c, Bump(c)) /\ Bump(c).es = c.es
      /\ DOMAIN c.es = {"st", "cursor", "epoch", "wire", "ord", "stalled"}
  BY BumpCuts DEF Shape, Bump, Fields, Still, Held, Source
<1>2. Still(c, Closed(c)) /\ Closed(c).es.st = "closed"
  BY <1>1 DEF Closed, Fields, Still, Held
<1>3. Still(c, Suspend(c)) /\ Suspend(c).es.st = "null"
  BY <1>1 DEF Suspend, Stream, Fields, Still, Held
<1>4. ASSUME NEW d, Cut(c, d), Still(c, d), d.es.st # "open" PROVE Ended(c, d)
  <2>1. Gated(d)
    BY <1>4, StillGated DEF Cut
  <2> QED
    BY <2>1, <1>4 DEF Cut, Ended
<1> QED
  BY <1>2, <1>3, <1>4, CutsShort

LEMMA StopsFlow ==
    ASSUME FlowInv, Close \/ Hide
    PROVE  FlowInv'
<1>1. Ended(cli, Closed(cli)) /\ Ended(cli, Suspend(cli)) /\ srv' = srv
  BY FlowFacts, StopsEnded DEF Close, Hide
<1>2. Run(Closed(cli)) \/ Run(Suspend(cli))
  BY DEF Close, Hide
<1> QED
  BY <1>1, <1>2, EndedFlows

LEMMA ConnectsFlow ==
    ASSUME FlowInv, Reveal \/ Backoff \/ Watchdog \/ FireUpgrade
    PROVE  FlowInv'
<1>0. Shape(cli) /\ Like(cli, cli)
  BY FlowFacts, SelfLike
<1>1. srv' = srv /\ debts' = debts
  BY DEF Reveal, Backoff, Watchdog, FireUpgrade
<1>2. CASE Reveal
  <2> DEFINE b == [cli EXCEPT !.hidden = FALSE]
  <2>1. Like(cli, b)
    BY <1>0, FlagsLike
  <2>2. Run(IF IsClosed(cli) THEN ConnectAs(b, ~cli.opened, FALSE) ELSE b)
    BY <1>2 DEF Reveal, Resume, Connect
  <2> HIDE DEF b
  <2>3. CASE IsClosed(cli)
    <3>1. ConnectAs(b, ~cli.opened, FALSE) \in {ConnectAs(b, TRUE, FALSE), ConnectAs(b, FALSE, FALSE)}
      BY DEF ConnectAs
    <3>2. Run(ConnectAs(b, TRUE, FALSE)) \/ Run(ConnectAs(b, FALSE, FALSE))
      BY <2>2, <2>3, <3>1
    <3> QED
      BY <1>1, <2>1, <3>2, ConnectFlows
  <2>4. CASE ~IsClosed(cli)
    <3>1. Sure(srv, b, Fine')
      BY <1>1, <2>1, FlowFacts, LikeSure DEF Fine
    <3> QED
      BY <1>1, <2>2, <2>4, <3>1, RunFlows
  <2> QED
    BY <2>3, <2>4
<1>3. CASE Backoff
  <2>1. Run(ConnectAs(cli, FALSE, FALSE))
    BY <1>3 DEF Backoff, Connect
  <2> QED
    BY <1>0, <1>1, <2>1, ConnectFlows
<1>4. CASE Watchdog
  <2> DEFINE b == [cli EXCEPT !.lagging = TRUE]
  <2>1. Like(cli, b)
    BY <1>0, FlagsLike
  <2>2. Run(ConnectAs(cli, FALSE, FALSE)) \/ Run(RequestRecovery(b, TreeStale))
    BY <1>4 DEF Watchdog, Connect
  <2> HIDE DEF b
  <2>3. CASE Run(ConnectAs(cli, FALSE, FALSE))
    BY <1>0, <1>1, <2>3, ConnectFlows
  <2>4. CASE Run(RequestRecovery(b, TreeStale))
    BY <1>1, <2>1, <2>4, RecoveryFlows
  <2> QED
    BY <2>2, <2>3, <2>4
<1>5. CASE FireUpgrade
  <2>1. CASE Run(ConnectAs(cli, FALSE, TRUE))
    BY <1>0, <1>1, <2>1, ConnectFlows
  <2>2. CASE cli' = [cli EXCEPT !.upgrade = FALSE]
    BY <1>0, <1>1, <2>2, FlagsLike, LikeFlows
  <2> QED
    BY <1>5, <2>1, <2>2 DEF FireUpgrade
<1> QED
  BY <1>2, <1>3, <1>4, <1>5

LEMMA RequestsFlow ==
    ASSUME FlowInv, PeriodicResync \/ SessionLoss
    PROVE  FlowInv'
<1>1. srv' = srv /\ debts' = debts /\ Like(cli, cli)
  BY FlowFacts, SelfLike DEF PeriodicResync, SessionLoss
<1>2. Run(RequestRecovery(cli, TreeDrift)) \/ Run(RequestRecovery(cli, SessionGap))
  BY DEF PeriodicResync, SessionLoss
<1> QED
  BY <1>1, <1>2, RecoveryFlows

LEMMA BusyStartFlows == ASSUME FlowInv, BusyStart PROVE FlowInv'
<1>0. Shape(cli) /\ Gated(cli) /\ Sure(srv, cli, Fine) /\ Store(srv) /\ AtRest(cli) /\ ~cli.resolved
  BY FlowFacts
<1>1. /\ srv' = srv /\ debts' = debts /\ cli.ref = 0
      /\ cli' = [cli EXCEPT !.ref = 1]
  BY DEF BusyStart
<1>2. /\ Alike(cli, cli') /\ cli'.ref = 1 /\ cli'.reconciling = cli.reconciling
      /\ cli'.second = cli.second /\ cli'.dirty = cli.dirty /\ cli'.expect = cli.expect
      /\ cli'.resolved = cli.resolved /\ cli'.waits = cli.waits
  BY <1>0, <1>1 DEF Alike, Shape, Fields
<1>3. Gated(cli') /\ (Doomed(cli) => Doomed(cli'))
  BY <1>0, <1>1, <1>2 DEF Gated, Doomed
<1>4. Sure(srv', cli', Fine')
  BY <1>0, <1>1, <1>2, <1>3, AlikeSure DEF Fine
<1>5. AtRest(cli') /\ ~cli'.resolved
  BY <1>0, <1>2 DEF AtRest, Alike
<1> QED
  BY <1>0, <1>1, <1>4, <1>5 DEF FlowInv, Fine

LEMMA BusyEndFlows == ASSUME FlowInv, BusyEnd PROVE FlowInv'
<1> DEFINE b == [cli EXCEPT !.ref = 0]
           a == [b EXCEPT !.dirty = TRUE]
<1>0. Shape(cli) /\ Gated(cli) /\ Sure(srv, cli, Fine) /\ ~cli.resolved /\ Bounded(srv, cli)
  BY FlowFacts
<1>1. /\ srv' = srv /\ debts' = debts /\ cli.ref = 1
      /\ Run(IF b.reconciling THEN a ELSE StartReconcile(b, FALSE))
  BY DEF BusyEnd
<1>2. /\ Alike(cli, b) /\ b.ref = 0 /\ b.reconciling = cli.reconciling
      /\ b.second = cli.second /\ b.expect = cli.expect
      /\ b.resolved = cli.resolved /\ b.waits = cli.waits /\ Shape(b)
  BY <1>0, <1>1 DEF Alike, Shape, Fields
<1>3. CASE cli.reconciling
  <2>1. /\ Alike(cli, a) /\ a.ref = 0 /\ a.reconciling = cli.reconciling
        /\ a.second = cli.second /\ a.dirty = TRUE /\ a.expect = cli.expect
        /\ a.resolved = cli.resolved /\ a.waits = cli.waits
    BY <1>0, <1>1 DEF Alike, Shape, Fields
  <2>2. Run(a)
    BY <1>1, <1>2, <1>3
  <2> HIDE DEF a, b
  <2>3. Gated(a) /\ (Doomed(cli) => Doomed(a))
    BY <1>0, <1>1, <1>3, <2>1 DEF Gated, Doomed
  <2>4. Sure(srv, a, Fine')
    BY <1>0, <1>1, <2>1, <2>3, AlikeSure DEF Fine
  <2> QED
    BY <1>1, <2>2, <2>4, RunFlows
<1>4. CASE ~cli.reconciling
  <2> DEFINE d == StartReconcile(b, FALSE)
  <2>1. Run(d)
    BY <1>1, <1>2, <1>4
  <2> HIDE DEF b
  <2>2. Ended(b, d)
    BY <1>0, <1>2, StartReconcileEnds
  <2> HIDE DEF d
  <2>3. Ended(cli, d)
    BY <1>2, <2>2 DEF Ended, Alike
  <2> QED
    BY <1>1, <2>1, <2>3, EndedFlows
<1> QED
  BY <1>3, <1>4

LEMMA ReconcileTimeoutFlows == ASSUME FlowInv, ReconcileTimeout PROVE FlowInv'
<1> DEFINE b == Expected(cli)
<1>0. Shape(cli) /\ Gated(cli) /\ Sure(srv, cli, Fine) /\ ~cli.resolved
  BY FlowFacts
<1>1. srv' = srv /\ debts' = debts /\ Run(b)
  BY DEF ReconcileTimeout
<1>2. Alike(cli, b) /\ b.waits = cli.waits
  BY <1>0 DEF Expected, Alike, Shape, Fields
<1>3. Met(cli, b)
  BY <1>0, ExpectedMet
<1> HIDE DEF b
<1>4. Gated(b) /\ (Doomed(b) <=> Doomed(cli))
  BY <1>0, <1>2, <1>3, MetGated
<1>5. Sure(srv, b, Fine')
  BY <1>0, <1>1, <1>2, <1>4, AlikeSure DEF Fine
<1> QED
  BY <1>1, <1>5, RunFlows

LEMMA ExpandFlows == ASSUME FlowInv, Expand \/ ExpandServe PROVE FlowInv'
<1>0. Shape(cli) /\ Sure(srv, cli, Fine) /\ ~cli.resolved /\ AtRest(cli) /\ Store(srv) /\ Bounded(srv, cli)
  BY FlowFacts
<1>1. srv' = srv /\ debts' = debts
  BY DEF Expand, ExpandServe
<1>2. /\ Hands(cli, cli') /\ cli'.deferred = cli.deferred /\ cli'.resolved = cli.resolved
      /\ cli'.exp.st = "reply" => Stated(srv, cli'.exp)
  <2>1. CASE Expand
    <3>1. cli' = [cli EXCEPT !.exp = [st |-> "sent"], !.expanded = TRUE]
      BY <2>1 DEF Expand
    <3> QED
      BY <1>0, <3>1 DEF Hands, Shape, Fields, Still, Held
  <2>2. CASE ExpandServe
    <3> DEFINE r == [st |-> "reply", e |-> srv.epoch, n |-> srv.head, v |-> srv.val,
                     gap |-> FALSE]
    <3>1. r \in Reply /\ Stated(srv, r)
      BY <1>0 DEF Reply, Stated, Store, Epochs
    <3>2. cli' = [cli EXCEPT !.exp = r]
      BY <2>2 DEF ExpandServe
    <3> HIDE DEF r
    <3> QED
      BY <1>0, <3>1, <3>2 DEF Hands, Shape, Fields, Still, Held
  <2> QED
    BY <2>1, <2>2
<1>3. Sure(srv', cli', Fine')
  BY <1>0, <1>1, <1>2, HandsSure DEF Fine
<1>4. AtRest(cli')
  BY <1>0, <1>2 DEF AtRest, Hands
<1> QED
  BY <1>0, <1>1, <1>2, <1>3, <1>4 DEF FlowInv, Fine

LEMMA ExpandArrivesFlows == ASSUME FlowInv, ExpandArrives PROVE FlowInv'
<1> DEFINE c == [cli EXCEPT !.exp = [st |-> "idle"]]
           d == [c EXCEPT !.deferred = cli.exp]
<1>0. /\ Shape(cli) /\ Sure(srv, cli, Fine) /\ AtRest(cli) /\ Store(srv) /\ Bounded(srv, cli)
      /\ cli.es.wire \in Seq(Part \cup Event)
  BY FlowFacts
<1>1. /\ srv' = srv /\ cli.exp.st = "reply"
      /\ cli.own # None => Run(d)
      /\ cli.own = None => Run(ApplyExpand(c, cli.exp))
      /\ debts' = debts \cup {x \in {"overtaken"} : Overtakes(cli.exp)}
                        \cup {x \in {"blind"} : cli.epoch = 0}
  BY <1>0 DEF ExpandArrives, Shape, Fields
<1>2. cli.exp \in Reply /\ Stated(srv, cli.exp)
  BY <1>0, <1>1 DEF Shape, Bounded
<1>3. Fine' => Fine /\ ~Overtakes(cli.exp)
  BY <1>1 DEF Fine
<1>4. ~Overtakes(cli.exp) => Behind(srv, cli, cli.exp)
  <2> SUFFICES ASSUME ~Overtakes(cli.exp), NEW j \in Trees(cli.es.wire)
               PROVE  cli.exp.n <= cli.es.wire[j].n
    BY DEF Behind
  <2>1. j \in DOMAIN cli.es.wire /\ cli.es.wire[j].k = "tree"
    BY DEF Trees
  <2>2. cli.es.wire[j].n \in Nat
    BY <1>0, <2>1, SaysNat
  <2>3. ~(cli.es.wire[j].n < cli.exp.n)
    BY <2>1 DEF Overtakes
  <2>4. cli.exp.n \in Nat
    BY <1>2, ReplyTells
  <2> QED
    BY <2>2, <2>3, <2>4
<1>5. Sure(srv, cli, Fine')
  BY <1>0, <1>3 DEF Sure
<1>6. CASE cli.own # None
  <2>1. Hands(cli, d) /\ d.deferred = cli.exp /\ d.exp = [st |-> "idle"]
    BY <1>0, <1>2 DEF Hands, Shape, Fields, Still, Held
  <2>2. Run(d)
    BY <1>1, <1>6
  <2> HIDE DEF d
  <2>3. Sure(srv, d, Fine')
    BY <2>1, <1>2, <1>3, <1>4, <1>5, HandsSure
  <2> QED
    BY <1>1, <2>2, <2>3, RunFlows
<1>7. CASE cli.own = None
  <2>1. Hands(cli, c) /\ c.deferred = cli.deferred /\ c.exp = [st |-> "idle"]
    BY <1>0 DEF Hands, Shape, Fields, Still, Held
  <2>2. Run(ApplyExpand(c, cli.exp))
    BY <1>1, <1>7
  <2> HIDE DEF c
  <2>3. Sure(srv, c, Fine')
    BY <2>1, <1>5, HandsSure
  <2>4. c.own = None /\ c.waits = <<>> /\ c.es.wire = cli.es.wire
    BY <1>0, <1>7, <2>1 DEF Hands, AtRest
  <2>5. Fine' => Behind(srv, c, cli.exp)
    BY <1>3, <1>4, <2>4 DEF Behind
  <2>6. Sure(srv, ApplyExpand(c, cli.exp), Fine')
    BY <1>0, <1>2, <2>3, <2>4, <2>5, ApplyExpandSure
  <2> QED
    BY <1>1, <2>2, <2>6, RunFlows
<1> QED
  BY <1>6, <1>7

LEMMA DecodeDoneFlows == ASSUME FlowInv, DecodeDone PROVE FlowInv'
<1> DEFINE b == [cli EXCEPT !.own.tree = cli.dec, !.dec = None]
<1>0. Shape(cli) /\ Sure(srv, cli, Fine) /\ Store(srv) /\ Captured(srv, cli)
  BY FlowFacts DEF Bounded
<1>1. srv' = srv /\ debts' = debts /\ cli.dec # None /\ Run(TryInstall(b))
  BY DEF DecodeDone
<1>2. cli.own # None /\ cli.dec \in Part /\ cli.own \in Owner
  BY <1>0, <1>1 DEF Captured, Shape
<1>3. b.own = [cli.own EXCEPT !.tree = cli.dec] /\ b.own \in Owner
  BY <1>0, <1>2 DEF Shape, Fields, Owner
<1>4. b.own.detail = cli.own.detail /\ b.own.tree = cli.dec
  BY <1>2, <1>3 DEF Owner
<1>5. Restages(cli, b)
  BY <1>0, <1>1, <1>2, <1>3, <1>4 DEF Restages, Shape, Fields, Still, Held
<1> HIDE DEF b
<1>6. Sure(srv, b, Fine')
  BY <1>0, <1>1, <1>5, RestagesSure DEF Fine
<1>7. b.own # None
  BY <1>3, Distinct
<1>8. Sure(srv, TryInstall(b), Fine')
  BY <1>0, <1>6, <1>7, TryInstallSure
<1> QED
  BY <1>1, <1>8, RunFlows

LEMMA DecodeFailsFlows == ASSUME FlowInv, DecodeFails PROVE FlowInv'
<1> DEFINE b == [cli EXCEPT !.dec = None]
           a == [b EXCEPT !.own = None]
           f == cli.own.detail
<1>0. /\ Shape(cli) /\ Gated(cli) /\ Store(srv) /\ Bounded(srv, cli) /\ Captured(srv, cli)
      /\ srv.epoch \in Nat /\ srv.head \in Nat
  BY FlowFacts DEF Bounded, Store, Epochs
<1>1. srv' = srv /\ ~Fine' /\ cli.dec # None /\ Run(Legacy(b))
  BY DEF DecodeFails, Fine
<1>2. cli.own # None /\ cli.own \in Owner
  BY <1>0, <1>1 DEF Captured, Shape
<1>3. /\ b.own = cli.own
      /\ DOMAIN a = Fields /\ a.es = cli.es /\ a.epoch = cli.epoch /\ a.boot = cli.boot
      /\ a.cursor = cli.cursor /\ a.tree = cli.tree /\ a.detail = cli.detail /\ a.own = None
      /\ a.dec = None /\ a.waits = cli.waits /\ a.deferred = cli.deferred /\ a.exp = cli.exp
      /\ Still(cli, a)
  BY <1>0 DEF Shape, Fields, Still, Held
<1>4. Run(IF f # None THEN ApplyDetailIndependent(a, f) ELSE a)
  BY <1>1, <1>3 DEF Legacy
<1> HIDE DEF a, b
<1>5. Bounded(srv, a)
  <2>1. Shape(a) /\ Gated(a) /\ Staged(a) = {}
    BY <1>0, <1>3, StillGated DEF Shape, Staged
  <2>2. Captured(srv, a)
    BY <1>3, <2>1 DEF Captured
  <2>3. Within(srv.epoch, srv.head, a)
    BY <1>0, <1>3, <2>1 DEF Bounded, Within
  <2>4. Wired(srv, a)
    <3>1. \A G : Lined(srv, cli.es.wire, Staged(cli)) /\ G \subseteq Staged(cli)
                   => Lined(srv, cli.es.wire, G)
      BY DEF Lined
    <3> QED
      BY <1>0, <1>3, <2>1, <3>1 DEF Bounded, Wired
  <2> QED
    BY <1>0, <1>3, <2>1, <2>2, <2>3, <2>4 DEF Bounded
<1>6. CASE f # None
  <2>1. f \in Staged(cli) /\ f \in Part
    BY <1>2, <1>6 DEF Staged, Owner
  <2>2. a.epoch <= f.e /\ f.e <= srv.epoch
    BY <1>0, <1>3, <2>1 DEF Captured
  <2>3. f.e = srv.epoch => f.n <= srv.head /\ \A w \in Of(a.waits) : w.n <= srv.head
    BY <1>0, <1>3, <2>1 DEF Bounded, Within
  <2>4. Bounded(srv, ApplyDetailIndependent(a, f))
    BY <1>0, <1>3, <1>5, <2>1, <2>2, <2>3, AloneBounded
  <2> QED
    BY <1>1, <1>4, <1>6, <2>4, RunFlows DEF Sure
<1>7. CASE f = None
  BY <1>1, <1>4, <1>5, <1>7, RunFlows DEF Sure
<1> QED
  BY <1>6, <1>7

LEMMA DeliverFlows == ASSUME FlowInv, Deliver PROVE FlowInv'
<1> DEFINE f == Head(cli.es.wire)
           b == [cli EXCEPT !.es.wire = Tail(@), !.es.cursor = f.n]
<1>0. /\ Shape(cli) /\ Sure(srv, cli, Fine) /\ Store(srv) /\ AtRest(cli) /\ DOMAIN cli = Fields
      /\ cli.es \in Source /\ cli.es.wire \in Seq(Part \cup Event)
  BY FlowFacts
<1>1. /\ srv' = srv /\ cli.es.st = "open" /\ cli.es.wire # <<>> /\ Run(Listener(b, f))
      /\ debts' = (debts \ {x \in {"lost"} : Answered(f)}) \cup {x \in {"shed"} : LetGo(f)}
  BY DEF Deliver
<1>2. /\ Pops(cli.es.wire, Tail(cli.es.wire), f) /\ Tail(cli.es.wire) \in Seq(Part \cup Event)
      /\ f \in Part \cup Event
  BY <1>0, <1>1, Popping
<1>3. f.n \in Int
  BY <1>2, SaysNat
<1> HIDE DEF f
<1>4. b.es = [cli.es EXCEPT !.wire = Tail(cli.es.wire), !.cursor = f.n]
  BY <1>0 DEF Fields
<1> HIDE DEF b
<1>5. b.es \in Source /\ b.es.st = cli.es.st /\ b.es.wire = Tail(cli.es.wire)
  BY ONLY <1>0, <1>2, <1>3, <1>4 DEF Source
<1>6. /\ Popped(cli, b, f) /\ b.pass = cli.pass /\ b.ord = cli.ord /\ b.epoch = cli.epoch
      /\ b.reconciling = cli.reconciling /\ b.second = cli.second
  BY <1>0, <1>2, <1>5 DEF Popped, Shape, Fields, Still, Held, b
<1>7. Fine' => Fine \/ Answered(f)
  BY <1>1 DEF Fine
<1>8. Fine' => ~LetGo(f)
  BY <1>1 DEF Fine
<1>9. Fine' => Fine \/ (f.k = "event" /\ Gap(b, f)
                        /\ (b.pass = None \/ b.pass.tree # "pending" \/ b.pass.epoch # b.epoch))
  BY <1>6, <1>7 DEF Answered, Gap
<1>10. Fine' /\ f.k = "event" => ~(b.reconciling /\ b.second)
  BY <1>6, <1>8 DEF LetGo
<1>11. Sure(srv, Listener(b, f), Fine')
  BY <1>0, <1>1, <1>2, <1>6, <1>9, <1>10, ListenerSure
<1> QED
  BY <1>1, <1>11, RunFlows

\* One event is lost, those behind it move up.
LEMMA LoseLined ==
    ASSUME NEW z, NEW S, NEW q \in Seq(S), NEW F, Lined(z, q, F), NEW i \in DOMAIN q,
           q[i].k = "event"
    PROVE  Lined(z, RemoveAt(q, i), F)
<1> DEFINE r == RemoveAt(q, i)
           back(j) == IF j < i THEN j ELSE j + 1
<1>0. Len(q) \in Nat /\ DOMAIN q = 1..Len(q) /\ i \in 1..Len(q)
  OBVIOUS
<1>1. /\ Len(q) \in Nat /\ DOMAIN q = 1..Len(q) /\ i \in 1..Len(q)
      /\ r \in Seq(S) /\ Len(r) = Len(q) - 1 /\ DOMAIN r = 1..(Len(q) - 1)
      /\ \A j \in 1..(Len(q) - 1) : r[j] = IF j < i THEN q[j] ELSE q[j + 1]
  <2>1. /\ r \in Seq(S) /\ Len(r) = Len(q) - 1
        /\ \A j \in 1..(Len(q) - 1) : r[j] = IF j < i THEN q[j] ELSE q[j + 1]
    BY <1>0, Removed
  <2> HIDE DEF r
  <2> QED
    BY <1>0, <2>1
<1> HIDE DEF r
<1>2. \A j \in DOMAIN r : j \in Int /\ back(j) \in DOMAIN q /\ r[j] = q[back(j)] /\ back(j) # i
  BY <1>1
<1>3. \A j \in DOMAIN r : r[j].n <= z.head /\ (r[j].k # "event" => r[j].e = z.epoch)
  BY <1>2 DEF Lined
<1>4. ASSUME NEW j \in Trees(r)
      PROVE  /\ j + 1 \in DOMAIN r /\ r[j + 1].k = "detail" /\ Twins(r[j], r[j + 1])
             /\ \A k \in DOMAIN r : k < j => r[k].k = "event" /\ r[k].n <= r[j].n
  <2>1. /\ j \in DOMAIN r /\ back(j) \in Trees(q) /\ r[j] = q[back(j)]
    BY <1>2 DEF Trees
  <2>2. /\ back(j) + 1 \in DOMAIN q /\ q[back(j) + 1].k = "detail"
        /\ Twins(q[back(j)], q[back(j) + 1])
        /\ \A k \in DOMAIN q : k < back(j) => q[k].k = "event" /\ q[k].n <= q[back(j)].n
    BY <2>1 DEF Lined
  <2>3. back(j) + 1 # i
    BY <2>2
  <2>4. j + 1 \in DOMAIN r /\ back(j + 1) = back(j) + 1
    BY <1>1, <2>1, <2>2, <2>3
  <2>5. r[j + 1] = q[back(j) + 1]
    BY <1>2, <2>4
  <2>6. ASSUME NEW k \in DOMAIN r, k < j PROVE r[k].k = "event" /\ r[k].n <= r[j].n
    <3>1. back(k) \in DOMAIN q /\ back(k) < back(j) /\ r[k] = q[back(k)]
      BY <1>1, <1>2, <2>1, <2>6
    <3> QED
      BY <2>1, <2>2, <3>1
  <2> QED
    BY <2>1, <2>2, <2>4, <2>5, <2>6
<1>5. ASSUME NEW j \in Details(r)
      PROVE  IF j = 1 THEN \A f \in F : Twins(r[1], f) ELSE j - 1 \in Trees(r)
  <2>1. j \in DOMAIN r /\ back(j) \in Details(q) /\ r[j] = q[back(j)]
    BY <1>2 DEF Details
  <2>2. IF back(j) = 1 THEN \A f \in F : Twins(q[1], f) ELSE back(j) - 1 \in Trees(q)
    BY <2>1 DEF Lined
  <2>3. CASE back(j) = 1
    <3>1. j = 1
      BY <1>1, <2>1, <2>3
    <3> QED
      BY <2>1, <2>2, <2>3, <3>1
  <2>4. CASE back(j) # 1
    <3>1. back(j) - 1 \in DOMAIN q /\ q[back(j) - 1].k = "tree"
      BY <2>2, <2>4 DEF Trees
    <3>2. back(j) - 1 # i
      BY <3>1
    <3>3. j # 1 /\ j - 1 \in DOMAIN r /\ back(j - 1) = back(j) - 1
      BY <1>1, <2>1, <2>4, <3>1, <3>2
    <3>4. r[j - 1] = q[back(j) - 1]
      BY <1>2, <3>3
    <3> QED
      BY <3>1, <3>3, <3>4 DEF Trees
  <2> QED
    BY <2>3, <2>4
<1> QED
  BY <1>3, <1>4, <1>5 DEF Lined, r

LEMMA LoseFlows == ASSUME FlowInv, Lose PROVE FlowInv'
<1>0. /\ Shape(cli) /\ Gated(cli) /\ Bounded(srv, cli) /\ Store(srv) /\ AtRest(cli) /\ ~cli.resolved
      /\ DOMAIN cli = Fields /\ cli.es \in Source /\ cli.es.wire \in Seq(Part \cup Event)
  BY FlowFacts
<1>1. srv' = srv /\ ~Fine'
  BY DEF Lose, Fine
<1>2. PICK i \in DOMAIN cli.es.wire : /\ cli.es.wire[i].k = "event"
                                      /\ cli' = [cli EXCEPT !.es.wire = RemoveAt(@, i)]
  BY DEF Lose
<1> DEFINE r == RemoveAt(cli.es.wire, i)
<1>3. r \in Seq(Part \cup Event)
  BY <1>0, Removed
<1>4. Lined(srv, r, Staged(cli))
  BY <1>0, <1>2, LoseLined DEF Bounded, Wired
<1>5. cli' = [cli EXCEPT !.es.wire = r]
  BY <1>2
<1> HIDE DEF r
<1>6. cli'.es = [cli.es EXCEPT !.wire = r]
  BY <1>0, <1>5 DEF Fields
<1>7. cli'.es \in Source /\ cli'.es.st = cli.es.st /\ cli'.es.wire = r
  BY ONLY <1>0, <1>3, <1>6 DEF Source
<1>8. /\ DOMAIN cli' = Fields /\ cli'.epoch = cli.epoch /\ cli'.boot = cli.boot
      /\ cli'.cursor = cli.cursor /\ cli'.tree = cli.tree /\ cli'.detail = cli.detail
      /\ cli'.own = cli.own /\ cli'.dec = cli.dec /\ cli'.waits = cli.waits
      /\ cli'.deferred = cli.deferred /\ cli'.exp = cli.exp /\ Still(cli, cli')
  BY <1>0, <1>5 DEF Fields, Still, Held
<1>9. cli.es.wire # <<>> /\ cli.es.st = "open"
  BY <1>0, <1>2 DEF Bounded, Wired
<1>10. Shape(cli') /\ Gated(cli')
  BY <1>0, <1>7, <1>8, StillGated DEF Shape
<1>11. Staged(cli') = Staged(cli)
  BY <1>8 DEF Staged
<1>12. Within(srv.epoch, srv.head, cli') /\ Captured(srv, cli') /\ Wired(srv, cli')
  BY <1>0, <1>4, <1>7, <1>8, <1>9, <1>11 DEF Bounded, Within, Captured, Wired
<1>13. Bounded(srv, cli')
  BY <1>0, <1>8, <1>10, <1>12 DEF Bounded
<1>14. Sure(srv', cli', Fine')
  BY <1>1, <1>13 DEF Sure
<1>15. AtRest(cli') /\ ~cli'.resolved
  BY <1>0, <1>8 DEF AtRest, Still
<1>16. Store(srv')
  BY <1>0, <1>1
<1> QED
  BY <1>14, <1>15, <1>16 DEF FlowInv, Fine

\* An event is sent behind what is on the way.
LEMMA LinedAdd ==
    ASSUME NEW z, Store(z), NEW y, Passes(z, y), y.epoch = z.epoch, NEW q, NEW r, NEW f,
           q \in Seq(Part \cup Event), Adds(q, r, f), f.k = "event", f.n <= y.head,
           NEW F, Lined(z, q, F)
    PROVE  Lined(y, r, F) /\ Trees(r) = Trees(q) /\ Details(r) = Details(q)
<1>1. PICK n \in Nat : /\ DOMAIN q = 1..n /\ DOMAIN r = 1..(n + 1) /\ r[n + 1] = f
                       /\ \A i \in 1..n : r[i] = q[i]
  BY DEF Adds
<1>2. Trees(r) = Trees(q) /\ Details(r) = Details(q)
  BY <1>1 DEF Trees, Details
<1>3. \A i \in DOMAIN r : r[i].n <= y.head /\ (r[i].k # "event" => r[i].e = y.epoch)
  <2> TAKE i \in DOMAIN r
  <2>1. CASE i \in 1..n
    <3>1. q[i].n <= z.head /\ (q[i].k # "event" => q[i].e = z.epoch)
      BY <1>1, <2>1 DEF Lined
    <3>2. q[i].n \in Nat /\ z.head \in Nat /\ y.head \in Nat /\ z.head <= y.head
      BY <1>1, <2>1, SaysNat DEF Passes, Store
    <3> QED
      BY <1>1, <2>1, <3>1, <3>2
  <2>2. CASE r[i] = f
    BY <2>2
  <2> QED
    BY <1>1, <2>1, <2>2
<1>4. ASSUME NEW i \in Trees(r)
      PROVE  /\ i + 1 \in DOMAIN r /\ r[i + 1].k = "detail" /\ Twins(r[i], r[i + 1])
             /\ \A j \in DOMAIN r : j < i => r[j].k = "event" /\ r[j].n <= r[i].n
  <2>1. /\ i \in 1..n /\ i + 1 \in 1..n /\ q[i + 1].k = "detail" /\ Twins(q[i], q[i + 1])
        /\ \A j \in 1..n : j < i => q[j].k = "event" /\ q[j].n <= q[i].n
    BY <1>1, <1>2 DEF Lined, Trees
  <2>2. \A j \in DOMAIN r : j < i => j \in 1..n
    BY <1>1, <2>1
  <2> QED
    BY <1>1, <2>1, <2>2
<1>5. ASSUME NEW i \in Details(r)
      PROVE  IF i = 1 THEN \A g \in F : Twins(r[1], g) ELSE i - 1 \in Trees(r)
  <2>1. /\ i \in 1..n
        /\ IF i = 1 THEN \A g \in F : Twins(q[1], g) ELSE i - 1 \in Trees(q)
    BY <1>1, <1>2 DEF Lined, Details
  <2> QED
    BY <1>1, <1>2, <2>1
<1> QED
  BY <1>2, <1>3, <1>4, <1>5 DEF Lined

LEMMA ReachesSent ==
    ASSUME NEW c, NEW d, NEW f, d.waits = c.waits, Adds(c.es.wire, d.es.wire, f),
           NEW x, NEW y, Reaches(c, x, y), NEW w, w = IF Moves(f) THEN f.v ELSE y
    PROVE  Reaches(d, x, w)
<1>1. PICK m \in Nat : Leads(c.waits, 0, x, m) /\ Leads(c.es.wire, 0, m, y)
  BY DEF Reaches
<1>2. Leads(d.es.wire, 0, m, w)
  BY <1>1, LeadsAdd
<1> QED
  BY <1>1, <1>2 DEF Reaches

LEMMA SentSure ==
    ASSUME NEW z, Store(z), NEW y, Passes(z, y), y.epoch = z.epoch, NEW c, NEW ok,
           Sure(z, c, ok), c.es.st = "open", NEW f \in Event, f.n <= y.head,
           y.val["frontier"] = IF Moves(f) THEN f.v ELSE z.val["frontier"],
           NEW d, Restream(c, d), Still(c, d), d.es.st = "open",
           d.es.wire = Append(c.es.wire, f)
    PROVE  Sure(y, d, ok)
<1>0. /\ Shape(c) /\ Gated(c) /\ Bounded(z, c) /\ Captured(z, c) /\ f.k = "event"
      /\ c.es.wire \in Seq(Part \cup Event) /\ z.epoch \in Nat /\ z.head \in Nat /\ y.head \in Nat
      /\ z.head <= y.head /\ c.cursor \in Int
  BY DEF Sure, Bounded, Shape, Source, Store, Epochs, Passes, Event
<1>1. Adds(c.es.wire, d.es.wire, f)
  <2> DEFINE S == Part \cup Event
  <2>1. f \in S /\ c.es.wire \in Seq(S)
    BY <1>0
  <2> HIDE DEF S
  <2> QED
    BY <2>1, Adding
<1>2. Shape(d)
  BY <1>0 DEF Shape, Restream
<1>3. Gated(d) /\ (Doomed(d) <=> Doomed(c))
  BY <1>0, StillGated DEF Restream
<1>4. /\ Staged(d) = Staged(c) /\ Shown(d) = Shown(c) /\ d.waits = c.waits
      /\ \A n : Within(z.epoch, n, c) => Within(z.epoch, n, d)
  BY DEF Staged, Shown, Within, Restream
<1>5. Within(z.epoch, z.head, c) => Within(z.epoch, y.head, c)
  <2> SUFFICES ASSUME Within(z.epoch, z.head, c) PROVE Within(z.epoch, y.head, c)
    OBVIOUS
  <2>1. \A g \in Staged(c) : g.n \in Nat
    BY <1>0, Sets, PartTells
  <2>2. \A w \in Of(c.waits) : w.n \in Nat
    BY <1>0, Sets, EventTells
  <2>3. c.deferred # None => c.deferred.n \in Nat
    BY <1>0, ReplyTells DEF Shape
  <2> QED
    BY <1>0, <2>1, <2>2, <2>3 DEF Within
<1>6. Within(y.epoch, y.head, d)
  BY <1>0, <1>4, <1>5 DEF Bounded, Within, Restream
<1>7. Captured(y, d)
  BY <1>0, <1>4 DEF Captured, Restream
<1>8. /\ Lined(y, d.es.wire, Staged(d)) /\ Trees(d.es.wire) = Trees(c.es.wire)
      /\ Details(d.es.wire) = Details(c.es.wire)
  <2>1. Lined(z, c.es.wire, Staged(c))
    BY <1>0 DEF Bounded, Wired
  <2> QED
    BY <1>0, <1>1, <1>4, <2>1, LinedAdd
<1>9. \A r \in Reply : Stated(z, r) => Stated(y, r)
  <2> SUFFICES ASSUME NEW r \in Reply, Stated(z, r) PROVE Stated(y, r)
    OBVIOUS
  <2>1. r.n \in Nat
    BY ReplyTells
  <2> QED
    BY <1>0, <2>1 DEF Stated
<1>10. /\ d.deferred # None => d.deferred \in Reply /\ Stated(z, d.deferred)
       /\ d.exp.st = "reply" => d.exp \in Reply /\ Stated(z, d.exp)
  BY <1>0 DEF Bounded, Shape, Restream
<1>11. Bounded(y, d)
  BY <1>0, <1>2, <1>3, <1>4, <1>6, <1>7, <1>8, <1>9, <1>10 DEF Bounded, Wired, Restream
<1>12. ASSUME Coming(z, c) PROVE Coming(y, d)
  <2>1. PICK j \in Trees(c.es.wire) :
          /\ Within(z.epoch, c.es.wire[j].n, c)
          /\ Leads(c.es.wire, j, Says(c.es.wire[j]), z.val["frontier"])
    BY <1>12 DEF Coming
  <2>2. j \in DOMAIN c.es.wire /\ j \in Trees(d.es.wire)
    BY <1>8 DEF Trees
  <2>3. d.es.wire[j] = c.es.wire[j]
    BY <1>1, <2>2 DEF Adds
  <2>4. Leads(d.es.wire, j, Says(d.es.wire[j]), y.val["frontier"])
    BY <1>1, <2>1, <2>2, <2>3, LeadsAdd
  <2>5. Within(y.epoch, d.es.wire[j].n, d)
    BY <1>4, <2>1, <2>3
  <2> QED
    BY <2>2, <2>4, <2>5 DEF Coming
<1>13. ASSUME NEW x, Reaches(c, x, z.val["frontier"]) PROVE Reaches(d, x, y.val["frontier"])
  BY ONLY <1>1, <1>4, <1>13, ReachesSent, y.val["frontier"] = IF Moves(f) THEN f.v ELSE z.val["frontier"]
<1>14. Pending(z, c) => Pending(y, d)
  BY <1>4, <1>8, <1>13 DEF Pending, Restream
<1>15. Showing(z, c) => Showing(y, d)
  BY <1>4, <1>8, <1>13 DEF Showing, Restream
<1> QED
  BY <1>3, <1>11, <1>12, <1>14, <1>15 DEF Sure, Flow

LEMMA ChangeFlows == ASSUME FlowInv, NEW s \in Sess, Change(s) PROVE FlowInv'
<1> DEFINE f == [k |-> "event", n |-> srv.head + 1, ord |-> cli.es.ord + 1, s |-> s,
                 v |-> srv.val[s] + 1]
           d == Sends(cli, f)
<1>0. /\ Shape(cli) /\ Sure(srv, cli, Fine) /\ Store(srv) /\ AtRest(cli) /\ ~cli.resolved
      /\ DOMAIN cli = Fields /\ Bounded(srv, cli)
      /\ srv.head \in Nat /\ srv.val[s] \in Nat /\ cli.es.ord \in Int
      /\ srv.val \in [Sess -> Nat] /\ cli.es \in Source
  BY FlowFacts DEF Store, Source
<1>1. f \in Event /\ f.n = srv.head + 1 /\ f.s = s /\ f.v = srv.val[s] + 1 /\ f.k = "event"
  BY <1>0 DEF Event
<1>2. /\ cli' = IF cli.es.st = "open" THEN d ELSE cli
      /\ debts' = debts /\ Store(srv')
  BY <1>0, ChangeGrows DEF Change, Sends, Grows
<1> HIDE DEF f
<1>3. /\ srv'.epoch = srv.epoch /\ srv'.head = srv.head + 1
      /\ srv'.val = [srv.val EXCEPT ![s] = srv.val[s] + 1]
  BY <1>0 DEF Change, Store
<1>4. Passes(srv, srv')
  BY <1>0, <1>2, <1>3 DEF Passes, Store, Epochs
<1>5. srv'.val["frontier"] = IF Moves(f) THEN f.v ELSE srv.val["frontier"]
  BY <1>0, <1>1, <1>3 DEF Moves, Sess
<1>6. CASE cli.es.st = "open"
  <2>1. Restream(cli, d) /\ d.es.wire = Append(cli.es.wire, f)
    BY <1>0, <1>1, SendsRestreams
  <2>2. Still(cli, d)
    BY <1>0 DEF Sends, Fields, Still, Held
  <2>3. d.es = [cli.es EXCEPT !.wire = Append(@, f), !.ord = @ + 1]
    BY <1>0 DEF Sends, Fields
  <2> HIDE DEF d
  <2>4. d.es.st = "open"
    BY ONLY <2>3, <1>6, <1>0 DEF Source
  <2>5. f.n <= srv'.head
    BY <1>0, <1>1, <1>3
  <2>6. Sure(srv', d, Fine)
    <3>1. Store(srv) /\ Sure(srv, cli, Fine) /\ f \in Event /\ srv'.epoch = srv.epoch
      BY <1>0, <1>1, <1>3
    <3> QED
      BY ONLY <3>1, <1>4, <1>5, <1>6, <2>1, <2>2, <2>4, <2>5, SentSure
  <2>7. AtRest(d) /\ ~d.resolved
    BY <1>0, <2>1, <2>2 DEF AtRest, Restream, Still
  <2> QED
    BY <1>2, <1>6, <2>6, <2>7 DEF FlowInv, Fine
<1>7. CASE cli.es.st # "open"
  <2>1. cli' = cli /\ cli.es.wire = <<>>
    BY <1>0, <1>2, <1>7 DEF Bounded, Wired
  <2>2. Severed(cli, cli)
    BY <1>0, <1>7, <2>1 DEF Severed, Shape, Still, Held
  <2>3. Sure(srv', cli, Fine)
    BY <1>0, <1>4, <2>2, SeveredSure
  <2> QED
    BY <1>0, <1>2, <2>1, <2>3 DEF FlowInv, Fine
<1> QED
  BY <1>6, <1>7

\* What a stream sends first: frames that are not past the daemon, and one
\* capture of what the daemon has now.
Opens(z, q) ==
    \E n \in Nat :
        /\ DOMAIN q = 1..(n + 3)
        /\ \A i \in 1..n : q[i].k = "event" /\ q[i].n <= z.head
        /\ q[n + 1].k = "tree" /\ q[n + 2].k = "detail" /\ q[n + 3].k = "complete"
        /\ \A i \in 1..3 : /\ q[n + i].e = z.epoch /\ q[n + i].n = z.head
                           /\ Says(q[n + i]) = z.val["frontier"]

LEMMA AcceptOpens ==
    ASSUME Store(srv), NEW es \in Source
    PROVE  Opens(srv, Replayed(es) \o Capture(es)) /\ Len(Replayed(es)) \in Int
<1> DEFINE re == Replayed(es)
           ca == Capture(es)
           q == re \o ca
           N == Len(re)
           L == Len(srv.ring)
<1>0. /\ srv.ring \in Seq(Stored) /\ L \in Nat /\ srv.head \in Nat /\ L <= srv.head
      /\ srv.val \in [Sess -> Nat] /\ srv.epoch \in Epochs /\ es.cursor \in Int
  BY DEF Store, Source
<1>1. re \in Seq(Event) /\ \A i \in DOMAIN re : re[i].k = "event" /\ re[i].n <= srv.head
  <2>1. CASE ~Replays(es)
    <3>1. re = <<>>
      BY <2>1 DEF Replayed
    <3> QED
      BY <3>1
  <2>2. CASE Replays(es)
    <3> DEFINE n == srv.head - es.cursor
               g(i) == [k |-> "event", n |-> es.cursor + i, ord |-> i,
                        s |-> srv.ring[es.cursor - Floor + i].s,
                        v |-> srv.ring[es.cursor - Floor + i].v]
    <3>1. Floor \in Nat /\ Floor = srv.head - L /\ Floor <= es.cursor /\ es.cursor <= srv.head
      BY <2>2, <1>0 DEF Replays, Floor
    <3>2. n \in Nat /\ es.cursor \in Nat
      BY <3>1, <1>0
    <3>3. re = [i \in 1..n |-> g(i)]
      BY <2>2 DEF Replayed
    <3>4. \A i \in 1..n : es.cursor - Floor + i \in 1..L
      BY <3>1, <3>2, <1>0
    <3>5. \A i \in 1..n : g(i) \in Event /\ g(i).k = "event" /\ g(i).n <= srv.head
      <4> TAKE i \in 1..n
      <4>1. srv.ring[es.cursor - Floor + i] \in Stored
        BY <3>4, <1>0
      <4>2. es.cursor + i <= srv.head
        BY <3>2, <1>0
      <4> QED
        BY <4>1, <4>2, <3>2 DEF Stored, Event
    <3> HIDE DEF re, g
    <3> QED
      BY <3>2, <3>3, <3>5
  <2> QED
    BY <2>1, <2>2
<1>2. /\ ca \in Seq(Part) /\ Len(ca) = 3
      /\ ca[1].k = "tree" /\ ca[2].k = "detail" /\ ca[3].k = "complete"
      /\ \A i \in 1..3 : /\ ca[i] \in Part /\ ca[i].n = srv.head /\ ca[i].v = srv.val
                         /\ ca[i].e = srv.epoch
  <2> DEFINE p(k) == [k |-> k, e |-> srv.epoch, n |-> srv.head, v |-> srv.val,
                      gap |-> es.cursor >= 0 /\ ~Replays(es)]
  <2>1. ca = <<p("tree"), p("detail"), p("complete")>>
    BY DEF Capture
  <2>2. \A k \in {"tree", "detail", "complete"} :
            /\ p(k) \in Part /\ p(k).n = srv.head /\ p(k).v = srv.val /\ p(k).k = k
            /\ p(k).e = srv.epoch
    BY <1>0 DEF Part
  <2> HIDE DEF p, ca
  <2> QED
    BY <2>1, <2>2
<1> HIDE DEF re, ca
<1>3. /\ N \in Nat /\ DOMAIN re = 1..N /\ DOMAIN q = 1..(N + 3)
      /\ \A i \in 1..N : q[i] = re[i]
      /\ \A i \in 1..3 : q[N + i] = ca[i]
  <2> DEFINE S == Part \cup Event
  <2>1. re \in Seq(S) /\ ca \in Seq(S)
    BY <1>1, <1>2
  <2> HIDE DEF S, N
  <2>2. /\ q \in Seq(S) /\ Len(q) = Len(re) + Len(ca)
        /\ \A i \in 1..Len(re) : q[i] = re[i]
        /\ \A i \in 1..Len(ca) : q[Len(re) + i] = ca[i]
    BY <2>1, Joined
  <2>3. N \in Nat /\ DOMAIN re = 1..N
    BY <2>1 DEF N
  <2> HIDE DEF q
  <2> QED
    BY <2>2, <2>3, <1>2 DEF N
<1> HIDE DEF q
<1>4. \A i \in 1..N : q[i].k = "event" /\ q[i].n <= srv.head
  BY <1>1, <1>3
<1>5. ASSUME NEW i \in 1..3
      PROVE  q[N + i].e = srv.epoch /\ q[N + i].n = srv.head /\ Says(q[N + i]) = srv.val["frontier"]
  <2>1. q[N + i] = ca[i] /\ ca[i] \in Part
    BY <1>2, <1>3
  <2> QED
    BY <1>2, <2>1, PartTells
<1>6. q[N + 1].k = "tree" /\ q[N + 2].k = "detail" /\ q[N + 3].k = "complete"
  BY <1>2, <1>3
<1>7. Opens(srv, q)
  BY <1>3, <1>4, <1>5, <1>6 DEF Opens
<1> QED
  BY <1>3, <1>7 DEF q, re, ca

\* A stream that opens brings the page what the daemon has, whatever the page
\* was in the middle of.
LEMMA OpenedSure ==
    ASSUME NEW z, Store(z), NEW c, Bounded(z, c), NEW d, Restream(c, d), Still(c, d),
           d.es.st = "open", Opens(z, d.es.wire)
    PROVE  Sure(z, d, TRUE)
<1> DEFINE q == d.es.wire
           V == z.val["frontier"]
<1>0. /\ Shape(c) /\ Gated(c) /\ Captured(z, c) /\ Within(z.epoch, z.head, c)
      /\ z.head \in Nat
  BY DEF Bounded, Store
<1>1. PICK n \in Nat :
        /\ DOMAIN q = 1..(n + 3)
        /\ \A i \in 1..n : q[i].k = "event" /\ q[i].n <= z.head
        /\ q[n + 1].k = "tree" /\ q[n + 2].k = "detail" /\ q[n + 3].k = "complete"
        /\ \A i \in 1..3 : q[n + i].e = z.epoch /\ q[n + i].n = z.head /\ Says(q[n + i]) = V
  BY DEF Opens
<1>2. Shape(d) /\ Gated(d)
  BY <1>0, StillGated DEF Shape, Restream
<1>3. Staged(d) = Staged(c) /\ \A m : Within(z.epoch, m, c) => Within(z.epoch, m, d)
  BY DEF Staged, Within, Restream
<1> HIDE DEF q, V
<1>4. /\ q[n + 1].e = z.epoch /\ q[n + 1].n = z.head /\ Says(q[n + 1]) = V
      /\ q[n + 2].e = z.epoch /\ q[n + 2].n = z.head /\ Says(q[n + 2]) = V
      /\ q[n + 3].e = z.epoch /\ q[n + 3].n = z.head
  BY <1>1
<1>5. \A i \in DOMAIN q : i \in 1..n \/ i = n + 1 \/ i = n + 2 \/ i = n + 3
  BY <1>1
<1>6. Trees(q) = {n + 1} /\ Details(q) = {n + 2}
  BY <1>1, <1>5 DEF Trees, Details
<1>7. Lined(z, q, Staged(d))
  <2>1. \A i \in DOMAIN q : q[i].n <= z.head /\ (q[i].k # "event" => q[i].e = z.epoch)
    BY <1>0, <1>1, <1>4, <1>5
  <2>2. n + 1 + 1 = n + 2 /\ n + 2 \in DOMAIN q /\ n + 2 # 1 /\ n + 2 - 1 = n + 1
    BY <1>1
  <2>3. \A j \in DOMAIN q : j < n + 1 => j \in 1..n
    BY <1>1
  <2>4. Twins(q[n + 1], q[n + 2])
    BY <1>4 DEF Twins
  <2> QED
    BY <1>1, <1>4, <1>6, <2>1, <2>2, <2>3, <2>4 DEF Lined
<1>8. Captured(z, d)
  BY <1>0, <1>3 DEF Captured, Restream
<1>9. Bounded(z, d)
  BY <1>0, <1>2, <1>3, <1>7, <1>8 DEF Bounded, Wired, Restream, q
<1>10. Coming(z, d)
  <2>1. Leads(q, n + 1, Says(q[n + 1]), V)
    <3>1. \A i \in DOMAIN q : i > n + 1 => i = n + 2 \/ i = n + 3
      BY <1>1
    <3>2. \A i \in DOMAIN q : i > n + 1 => ~Moves(q[i])
      BY <1>1, <3>1 DEF Moves
    <3> QED
      BY <1>4, <3>2 DEF Leads
  <2>2. Within(z.epoch, q[n + 1].n, d)
    BY <1>0, <1>3, <1>4
  <2> QED
    BY <1>6, <2>1, <2>2 DEF Coming, q, V
<1> QED
  BY <1>9, <1>10 DEF Sure, Flow

LEMMA AcceptFlows == ASSUME FlowInv, Accept PROVE FlowInv'
<1> DEFINE re == Replayed(cli.es)
           q == re \o Capture(cli.es)
           n == Len(re)
           c == [cli EXCEPT !.es.st = "open", !.es.wire = q, !.es.ord = n, !.ord = -1,
                            !.opened = TRUE, !.lagging = FALSE]
<1>0. /\ Shape(cli) /\ cli.es \in Source /\ srv' = srv /\ Store(srv) /\ Bounded(srv, cli)
      /\ DOMAIN cli = Fields
  BY FlowFacts DEF Accept
<1>1. PICK chat \in BOOLEAN :
          Run(IF chat /\ cli.lagging THEN RequestRecovery(c, AwaitTree) ELSE c)
  BY DEF Accept
<1>2. Opens(srv, q) /\ n \in Int /\ q \in Seq(Part \cup Event)
  BY <1>0, AcceptFollows, AcceptOpens DEF Follows
<1> HIDE DEF q, n, re
<1>3. Restream(cli, c) /\ c.es.wire = q /\ Still(cli, c) /\ c.es.st = "open"
  <2>1. c.es = [cli.es EXCEPT !.st = "open", !.wire = q, !.ord = n]
    BY <1>0 DEF Fields
  <2>2. c.es \in Source /\ c.es.wire = q /\ c.es.st = "open"
    <3> HIDE DEF c
    <3> QED
      BY ONLY <2>1, <1>0, <1>2 DEF Source
  <2> QED
    BY <2>2, <1>0 DEF Restream, Shape, Fields, Still, Held
<1> HIDE DEF c
<1>4. Sure(srv, c, TRUE)
  BY <1>0, <1>2, <1>3, OpenedSure
<1>5. Shape(c)
  BY <1>4 DEF Sure, Bounded
<1>6. Sure(srv, RequestRecovery(c, AwaitTree), TRUE)
  BY <1>4, <1>5, AwaitLike, LikeSure
<1>7. Sure(srv, c, Fine') /\ Sure(srv, RequestRecovery(c, AwaitTree), Fine')
  BY <1>4, <1>6 DEF Sure
<1> QED
  BY <1>0, <1>1, <1>7, RunFlows

LEMMA FlowStarts == Init => FlowInv
<1> SUFFICES ASSUME Init PROVE FlowInv
  OBVIOUS
<1>1. Core
  BY FirstPage
<1>2. /\ Store(srv) /\ Shape(cli) /\ AtRest(cli) /\ srv.epoch \in Nat /\ srv.epoch = 1
      /\ srv.head = 1
  BY <1>1, Shaped DEF Core, Store, Epochs, Init
<1>3. PICK left \in {<<0, 0>>, <<1, 1>>, <<-1, 1>>} :
         cli = [es |-> Stream("connecting", -1, left[1]), epoch |-> 0, boot |-> left[1],
                cursor |-> left[2], tree |-> [s \in Sess |-> 0], detail |-> [s \in Sess |-> 0],
                own |-> None, dec |-> None, old |-> None, waits |-> <<>>, deferred |-> None,
                ord |-> -1, ready |-> FALSE, opened |-> FALSE, lagging |-> FALSE,
                backoff |-> FALSE, upgrade |-> FALSE, hidden |-> FALSE, pass |-> None,
                ref |-> 0, reconciling |-> FALSE, dirty |-> FALSE, second |-> FALSE,
                expect |-> FALSE, resolved |-> FALSE,
                expanded |-> FALSE, exp |-> [st |-> "idle"]]
  BY DEF Init
<1>4. /\ cli.es = Stream("connecting", -1, left[1]) /\ cli.epoch = 0 /\ cli.own = None
      /\ cli.waits = <<>> /\ cli.deferred = None /\ cli.exp.st = "idle" /\ cli.ref = 0
      /\ cli.reconciling = FALSE /\ cli.expect = FALSE /\ cli.resolved = FALSE /\ cli.dec = None
  BY <1>3
<1>5. cli.es.st = "connecting" /\ cli.es.wire = <<>>
  BY <1>4 DEF Stream
<1>6. Gated(cli) /\ Capped(cli.waits) /\ Staged(cli) = {}
  BY <1>4, CappedNone DEF Gated, Staged
<1>7. Captured(srv, cli) /\ Within(srv.epoch, srv.head, cli)
  BY <1>2, <1>4, <1>6 DEF Captured, Within, Of
<1>8. Wired(srv, cli)
  BY <1>5 DEF Wired, Lined, Trees, Details
<1>9. Bounded(srv, cli)
  BY <1>2, <1>4, <1>6, <1>7, <1>8 DEF Bounded
<1>10. Sure(srv, cli, Fine)
  BY <1>5, <1>9 DEF Sure, Flow
<1> QED
  BY <1>2, <1>4, <1>10 DEF FlowInv, Fine

LEMMA FlowKept == FlowInv /\ [Next]_vars => FlowInv'
<1> SUFFICES ASSUME FlowInv, [Next]_vars PROVE FlowInv'
  OBVIOUS
<1>1. CASE Next
  <2>1. CASE \E s \in Sess : Change(s)
    BY <2>1, ChangeFlows
  <2>2. CASE Restart \/ Drop
    BY <2>2, SeverFlows
  <2>3. CASE Accept
    BY <2>3, AcceptFlows
  <2>4. CASE Deliver
    BY <2>4, DeliverFlows
  <2>5. CASE DecodeDone
    BY <2>5, DecodeDoneFlows
  <2>6. CASE DecodeFails
    BY <2>6, DecodeFailsFlows
  <2>7. CASE DecodeStale \/ PassTimeout \/ SessionConverged \/ Stall
    BY <2>7, TimersFlow
  <2>8. CASE Close \/ Hide
    BY <2>8, StopsFlow
  <2>9. CASE Lose
    BY <2>9, LoseFlows
  <2>10. CASE Reveal \/ Backoff \/ Watchdog \/ FireUpgrade
    BY <2>10, ConnectsFlow
  <2>11. CASE PeriodicResync \/ SessionLoss
    BY <2>11, RequestsFlow
  <2>12. CASE BusyStart
    BY <2>12, BusyStartFlows
  <2>13. CASE BusyEnd
    BY <2>13, BusyEndFlows
  <2>14. CASE ReconcileTimeout
    BY <2>14, ReconcileTimeoutFlows
  <2>15. CASE Expand \/ ExpandServe
    BY <2>15, ExpandFlows
  <2>16. CASE ExpandArrives
    BY <2>16, ExpandArrivesFlows
  <2> QED
    BY <1>1, <2>1, <2>2, <2>3, <2>4, <2>5, <2>6, <2>7, <2>8, <2>9, <2>10, <2>11, <2>12, <2>13,
       <2>14, <2>15, <2>16 DEF Next
<1>2. CASE UNCHANGED vars
  <2>1. srv' = srv /\ cli' = cli /\ debts' = debts
    BY <1>2 DEF vars
  <2>2. Sure(srv', cli', debts' \subseteq {"blind"})
    BY <2>1 DEF FlowInv
  <2> QED
    BY <2>1, <2>2 DEF FlowInv
<1> QED
  BY <1>1, <1>2

LEMMA FlowShows == FlowInv => FrontierCurrent
<1> SUFFICES ASSUME FlowInv, Settled, Fine PROVE Current
  BY DEF FrontierCurrent, Fine
<1>1. /\ cli.es.st = "open" /\ cli.es.wire = <<>> /\ cli.own = None /\ ~GateActive(cli)
  BY DEF Settled, Quiet
<1>2. ~Doomed(cli) /\ cli.waits = <<>>
  BY <1>1, FlowFacts DEF GateActive, Doomed, AtRest
<1>3. Trees(cli.es.wire) = {}
  BY <1>1 DEF Trees
<1>4. Showing(srv, cli)
  BY <1>1, <1>2, <1>3, FlowFacts DEF Sure, Flow, Coming, Pending
<1>5. ASSUME NEW x, Reaches(cli, x, srv.val["frontier"]) PROVE x = srv.val["frontier"]
  <2>1. PICK m \in Nat : Leads(<<>>, 0, x, m) /\ Leads(<<>>, 0, m, srv.val["frontier"])
    BY <1>1, <1>2, <1>5 DEF Reaches
  <2> QED
    BY <2>1, LeadsNone
<1>6. \A x \in Shown(cli) : x = srv.val["frontier"]
  BY <1>4, <1>5 DEF Showing
<1> QED
  BY <1>4, <1>6 DEF Showing, Shown, Current

\* Along every run, also one that is blind: where the daemon's value of the
\* frontier is, on the way, being decoded or shown, once the stream is open and
\* no debt is left.
THEOREM FlowHolds == Spec => []FlowInv
BY FlowStarts, FlowKept, PTL DEF Spec

\* A page whose stream is quiet and whose gate is open shows the frontier as the
\* daemon has it, in the tree and in the detail, unless one of the known debts
\* is open: for any number of changes, faults and ring positions.
THEOREM QuietPageIsCurrent == Spec => []FrontierCurrent
BY FlowHolds, FlowShows, PTL
=============================================================================
