------------------------------- MODULE Outbox -------------------------------
(***************************************************************************)
(* The browser's durable send path, for one session: the composer gesture   *)
(* (components/chat/createSend.ts), its retained status rows               *)
(* (lib/sendActionStatus.ts), the IndexedDB outbox shared by every tab      *)
(* (lib/outbox) and the reconcile passes that re-admit what a tab left      *)
(* behind.  The daemon's queue is external here: it admits an intent id     *)
(* once and answers a repeat with its receipt (module QueueStore).          *)
(***************************************************************************)
EXTENDS Naturals, FiniteSetsExt

CONSTANTS
    Tabs,        \* browser tabs that may ever be open
    Slots,       \* reconcile passes that may be in flight at once
    MaxIntents,  \* gestures minted in a behaviour
    Texts,       \* message texts
    MinAge,      \* READMIT_MIN_AGE_MS, in ticks
    GcAge,       \* OUTBOX_GC_MS, in ticks
    MaxTicks, MaxHead, MaxPages, MaxPasses,
    MaxFaults    \* disturbances: faults, dismissals, and further pages,
                 \* passes and ticks

ASSUME OutboxAssumption ==
    /\ MaxIntents \in Nat \ {0} /\ MinAge \in Nat \ {0} /\ GcAge \in Nat
    /\ MinAge <= GcAge /\ MaxTicks \in Nat /\ MaxHead \in Nat
    /\ MaxPages \in Nat /\ MaxPasses \in Nat /\ MaxFaults \in Nat
    /\ Texts # {}

Intents == 1..MaxIntents
NoIntent == 0
NoHead == MaxHead + 1
Heads == 0..NoHead

VARIABLES
    store,     \* the gesture records in IndexedDB
    page,      \* per tab: the page evaluation it runs
    rows,      \* per tab and intent: the stage of its status row
    flight,    \* per tab: the send inside the single-flight region
    pass,      \* the reconcile passes in flight
    wire,      \* intents whose admission POST the network still holds
    server,    \* per intent: what the daemon's queue holds
    head,      \* messages in the conversation
    tick,      \* time, in units of the ages above
    minted,    \* intents handed out
    log        \* history: saves, settlements, re-admissions, faults

vars == <<store, page, rows, flight, pass, wire, server, head,
          tick, minted, log>>

-----------------------------------------------------------------------------
(* Types.                                                                  *)

Status == {"saved", "admitted"}
Rec == [intent : Intents, text : Texts, created : Nat, born : Nat,
        status : Status, head : Heads, hold : BOOLEAN, client : Nat,
        nonce : Nat, admittedAt : Nat]
\* "refused" stands for the definitive stages blocked and rejected, which the
\* next mint of the owner finishes.  (conflict needs a changed payload under
\* one attempt id, which immutable attempts exclude.)
Stages == {"none", "preparing", "admitting", "uncertain", "refused"}
Failure == [intent : Intents \cup {NoIntent}, head : Heads]
Page == [open : BOOLEAN, client : Nat, nonce : Nat,
         memo : {"unasked", "yes", "no"}, failure : Failure]
Steps == {"idle", "prune", "post"}
Flight == [step : Steps, intent : Intents \cup {NoIntent},
           todo : SUBSET Intents, retrySave : BOOLEAN, at : Nat]
Server == {"none", "queued", "sent", "gone"}

AnyText == CHOOSE x \in Texts : TRUE
NoFailure == [intent |-> NoIntent, head |-> NoHead]
NoFlight == [step |-> "idle", intent |-> NoIntent, todo |-> {},
             retrySave |-> FALSE, at |-> 0]
NoPage == [open |-> FALSE, client |-> 0, nonce |-> 0, memo |-> "unasked",
           failure |-> NoFailure]
NoPass == [tab |-> "none"]

RecordOf(i) == CHOOSE r \in store : r.intent = i
Recorded(i) == \E r \in store : r.intent = i
Open(t) == page[t].open
Faulty == log.faults < MaxFaults

\* A POST leaves; one the daemon already holds the intent of changes nothing.
Sent(i) == IF server[i] = "none" THEN wire \cup {i} ELSE wire

\* Date.now(): later than every time some record, snapshot or gesture holds.
Held == store \cup UNION {pass[s].seen : s \in {q \in Slots : pass[q] # NoPass}}
Stamps == {r.created : r \in Held} \cup {r.admittedAt : r \in Held}
             \cup {flight[t].at : t \in Tabs}
Now == 1 + Max(Stamps \cup {0})

\* History: an admission of one of these texts, or its explicit release,
\* accounts for every gesture saved with it so far.
Settled(X) == [log EXCEPT !.owed = {o \in @ : log.text[o.intent] \notin X}]
Owe(i) == [intent |-> i, at |-> Now]

\* History: a delete by intent id takes a record that was saved again after
\* the one that was looked at.
Resaved(i, at) ==
    \E q \in store : q.intent = i /\ q.status = "saved" /\ q.created > at
Blind(l, i, at) ==
    IF Resaved(i, at) THEN [l EXCEPT !.blind = @ \cup {log.text[i]}] ELSE l

-----------------------------------------------------------------------------
(* The store.                                                              *)

\* put(): one readwrite transaction replaces the record.
Put(r) ==
    store' = {x \in store : x.intent # r.intent} \cup {r}

\* delete(): the same transaction shape.
Delete(i) ==
    store' = {x \in store : x.intent # i}

\* uncontendedClaim(): the who-has handshake.  Every open page under the same
\* client id objects; the verdict is kept for the page's life.
Objected(t) ==
    \E u \in Tabs \ {t} : Open(u) /\ page[u].client = page[t].client
Claim(t) ==
    IF page[t].memo # "unasked" THEN page[t].memo
    ELSE IF Objected(t) THEN "no" ELSE "yes"

-----------------------------------------------------------------------------
(* The status rows of a tab.                                               *)

\* finishSendAttempt(): the row goes.
Finish(rs, i) == [rs EXCEPT ![i] = "none"]

\* updateSendAction(): a write to a finished row is a no-op.
Patch(rs, i, stage) == IF rs[i] = "none" THEN rs ELSE [rs EXCEPT ![i] = stage]

\* ensureSendActionRecord(): a row is patched, or made for an old intent.
Ensure(rs, i, stage) == [rs EXCEPT ![i] = stage]

\* mintSendAttempt(): a fresh row; the owner's preparing, blocked and rejected
\* rows are finished, the uncertain ones kept for a retry.
Mint(rs, i) ==
    [j \in Intents |-> IF j = i THEN "preparing"
                       ELSE IF rs[j] \in {"preparing", "refused"}
                            THEN "none" ELSE rs[j]]

\* findReusableSendAttempt(): the uncertain rows with this text.
Reusable(t, x) ==
    {i \in Intents : rows[t][i] = "uncertain" /\ log.text[i] = x}

\* classifyAdmissionFailure(), response-less branch: a fresh list that shows
\* the item proves custody; otherwise the outcome stays unknown.
ClassifyLost(confirmed) == IF confirmed THEN "none" ELSE "uncertain"

-----------------------------------------------------------------------------
Init ==
    /\ store = {}
    /\ \E first \in Tabs :
        page = [t \in Tabs |->
            IF t = first THEN [NoPage EXCEPT !.open = TRUE, !.client = 1,
                                             !.nonce = 1]
            ELSE NoPage]
    /\ rows = [t \in Tabs |-> [i \in Intents |-> "none"]]
    /\ flight = [t \in Tabs |-> NoFlight]
    /\ pass = [s \in Slots |-> NoPass]
    /\ wire = {}
    /\ server = [i \in Intents |-> "none"]
    /\ head = 0
    /\ tick = 0
    /\ minted = 0
    /\ log = [text |-> [i \in Intents |-> AnyText], owed |-> {}, blind |-> {},
              auto |-> {}, faults |-> 0, pages |-> 1, passes |-> 0]

-----------------------------------------------------------------------------
(* The gesture: runGesture, sendText.                                      *)

\* runGesture(): the attempt of a tap with text x.  A retained uncertain attempt
\* of the same text is retried under its own id, otherwise one is minted.
Attempt(t, x, i) ==
    /\ Open(t) /\ flight[t].step = "idle"
    /\ IF Reusable(t, x) # {} THEN i \in Reusable(t, x)
       ELSE i = minted + 1 /\ i <= MaxIntents
    /\ minted' = IF i <= minted THEN minted ELSE i
TapRows(t, i) == IF i <= minted THEN rows[t] ELSE Mint(rows[t], i)

\* admission(): the agent gate and the attachment gates end the gesture before
\* anything is saved, with a definitive row.
PrepareFails(t, x, i) ==
    /\ Faulty /\ Attempt(t, x, i)
    /\ rows' = [rows EXCEPT ![t] = Patch(TapRows(t, i), i, "refused")]
    /\ log' = [log EXCEPT !.faults = @ + 1, !.text[i] = x]
    /\ UNCHANGED <<store, page, flight, pass, wire, server, head, tick>>

\* The record a page writes for an intent: saveGesture keeps the creation time
\* and the status of the record it re-saves.
GestureRecord(t, i, x, h, hold) ==
    LET old == Recorded(i) /\ ~hold IN
    [intent |-> i, text |-> x,
     created |-> IF old THEN RecordOf(i).created ELSE Now,
     born |-> IF old THEN RecordOf(i).born ELSE tick,
     status |-> IF old THEN RecordOf(i).status ELSE "saved",
     head |-> h, hold |-> hold /\ h = NoHead,
     client |-> page[t].client, nonce |-> page[t].nonce,
     admittedAt |-> 0]

\* pruneSupersededOwnTab(), the scan: the saved same-text records this client
\* id wrote under another intent.
Superseded(t, i, x) ==
    {r.intent : r \in {q \in store : /\ q.status = "saved" /\ q.intent # i
                                     /\ q.text = x
                                     /\ q.client = page[t].client}}

\* The save is through once its scan is done: the banner of this intent clears;
\* a gesture goes on to its admission POST, the banner's own retry ends.
AfterSave(t, f) ==
    IF f.todo # {}
    THEN /\ flight' = [flight EXCEPT ![t] = f]
         /\ UNCHANGED wire
    ELSE /\ flight' = [flight EXCEPT ![t] =
                          IF f.retrySave THEN NoFlight
                          ELSE [f EXCEPT !.step = "post"]]
         /\ wire' = IF f.retrySave THEN wire ELSE Sent(f.intent)
Cleared(failure, f) ==
    IF f.todo = {} /\ (f.retrySave \/ failure.intent = f.intent)
    THEN NoFailure ELSE failure

\* sendText() and saveGesture(): stage admitting, the head captured once (an
\* unhydrated transcript has none), and the put commits before anything else
\* is touched; a first save then scans for what it supersedes.
SaveGesture(t, x, i) ==
    /\ Attempt(t, x, i)
    /\ \E h \in {head, NoHead} :
        LET missed == h = NoHead
            f == [NoFlight EXCEPT !.step = "prune", !.intent = i, !.at = Now,
                     !.todo = IF Recorded(i) THEN {} ELSE Superseded(t, i, x)] IN
        /\ Put(GestureRecord(t, i, x, h, FALSE))
        /\ rows' = [rows EXCEPT ![t] = Patch(TapRows(t, i), i, "admitting")]
        /\ missed => Faulty
        /\ log' = [log EXCEPT !.owed = IF Recorded(i) THEN @ ELSE @ \cup {Owe(i)},
                              !.text[i] = x,
                              !.faults = IF missed THEN @ + 1 ELSE @]
        /\ page' = [page EXCEPT ![t].failure = Cleared(@, f)]
        /\ AfterSave(t, f)
    /\ UNCHANGED <<pass, server, head, tick>>

\* saveGesture() with the put refused: nothing was mutated; the banner keeps
\* the payload and the tap-time head, the row blocks.
SaveFails(t, x, i) ==
    /\ Faulty /\ Attempt(t, x, i)
    /\ \E h \in {head, NoHead} :
        page' = [page EXCEPT ![t].failure = [intent |-> i, head |-> h]]
    /\ rows' = [rows EXCEPT ![t] = Patch(TapRows(t, i), i, "refused")]
    /\ log' = [log EXCEPT !.faults = @ + 1, !.text[i] = x]
    /\ UNCHANGED <<store, flight, pass, wire, server, head, tick>>

\* retryFailedSave(): the banner's retry re-commits with the tap-time head, or
\* holds the record for an explicit tap when there was none.
RetryFailedSave(t) ==
    /\ Open(t) /\ flight[t].step = "idle" /\ page[t].failure.intent # NoIntent
    /\ LET b == page[t].failure
           x == log.text[b.intent]
           f == [step |-> "prune", intent |-> b.intent, retrySave |-> TRUE,
                 todo |-> Superseded(t, b.intent, x), at |-> Now] IN
       /\ Put([GestureRecord(t, b.intent, x, b.head, TRUE)
               EXCEPT !.created = Now, !.born = tick])
       /\ log' = [log EXCEPT !.owed = @ \cup {Owe(b.intent)}]
       /\ page' = [page EXCEPT ![t].failure = Cleared(@, f)]
       /\ AfterSave(t, f)
    /\ UNCHANGED <<rows, pass, server, head, minted, tick>>

\* pruneSupersededOwnTab(), the ownership test: this evaluation's record, or an
\* earlier evaluation's when no live page objects.
MayPrune(t, r) == r.nonce = page[t].nonce \/ Claim(t) = "yes"

\* pruneSupersededOwnTab(), one scanned record.  The scan was a snapshot: the
\* record is deleted whatever became of it since.
PruneOne(t, i) ==
    /\ Open(t) /\ flight[t].step = "prune" /\ i \in flight[t].todo
    /\ IF Recorded(i) => MayPrune(t, RecordOf(i))
       THEN Delete(i) /\ log' = Blind(log, i, flight[t].at)
       ELSE UNCHANGED <<store, log>>
    /\ LET f == [flight[t] EXCEPT !.todo = @ \ {i}]
           asked == Recorded(i) /\ RecordOf(i).nonce # page[t].nonce IN
       /\ page' = [page EXCEPT ![t].memo = IF asked THEN Claim(t) ELSE @,
                               ![t].failure = Cleared(@, f)]
       /\ AfterSave(t, f)
    /\ UNCHANGED <<rows, pass, server, head, tick, minted>>

\* markAdmitted(): links the record to its item, unless it is gone.
MarkAdmitted(i) ==
    IF Recorded(i)
    THEN Put([RecordOf(i) EXCEPT !.status = "admitted",
                                 !.admittedAt = Now])
    ELSE UNCHANGED store
MarkedLog(i) == IF Recorded(i) THEN Settled({log.text[i]}) ELSE log

\* sendText(), a receipt: the row is finished and the record linked.
Admitted(t) ==
    /\ Open(t) /\ flight[t].step = "post" /\ server[flight[t].intent] # "none"
    /\ rows' = [rows EXCEPT ![t] = Finish(@, flight[t].intent)]
    /\ MarkAdmitted(flight[t].intent)
    /\ flight' = [flight EXCEPT ![t] = NoFlight]
    /\ log' = MarkedLog(flight[t].intent)
    /\ UNCHANGED <<page, pass, wire, server, head, minted, tick>>

\* classifyAdmissionFailure(), an answered refusal: conflict, full or other.
\* The outbox record is left to the reconcile passes.
Refused(t) ==
    /\ Open(t) /\ flight[t].step = "post" /\ Faulty
    /\ flight[t].intent \in wire /\ server[flight[t].intent] = "none"
    /\ wire' = wire \ {flight[t].intent}
    /\ rows' = [rows EXCEPT ![t] = Patch(@, flight[t].intent, "refused")]
    /\ flight' = [flight EXCEPT ![t] = NoFlight]
    /\ log' = [log EXCEPT !.faults = @ + 1]
    /\ UNCHANGED <<store, page, pass, server, head, tick, minted>>

\* classifyAdmissionFailure(), no answer: reconcile first.  The list may fail
\* too; the POST may still be on the wire.
Unanswered(t) ==
    /\ Open(t) /\ flight[t].step = "post" /\ Faulty
    /\ \E answered \in BOOLEAN :
        LET i == flight[t].intent
            confirmed == answered /\ server[i] \in {"queued", "sent"} IN
        /\ rows' = [rows EXCEPT ![t] = Patch(@, i, ClassifyLost(confirmed))]
        /\ IF confirmed THEN MarkAdmitted(i) ELSE UNCHANGED store
        /\ log' = [(IF confirmed THEN MarkedLog(i) ELSE log) EXCEPT !.faults = @ + 1]
    /\ flight' = [flight EXCEPT ![t] = NoFlight]
    /\ UNCHANGED <<page, pass, wire, server, head, minted, tick>>

-----------------------------------------------------------------------------
(* reconcileOutboxSession.                                                 *)

\* A pass starts with a snapshot of the records, of the admission times in it
\* and of the time; the list is still to come.
PassStart(s, t) ==
    /\ pass[s] = NoPass /\ Open(t) /\ store # {}
    /\ log.passes < MaxPasses /\ (log.passes = 0 \/ Faulty)
    /\ pass' = [pass EXCEPT ![s] =
           [tab |-> t, now |-> tick, todo |-> store,
            admitted |-> {r \in store : r.status = "admitted"},
            seen |-> store, answered |-> FALSE, list |-> [i \in {} |-> "none"],
            null |-> FALSE, texts |-> {}, current |-> NoIntent]]
    /\ log' = [log EXCEPT !.passes = @ + 1,
                          !.faults = IF log.passes = 0 THEN @ ELSE @ + 1]
    /\ UNCHANGED <<store, page, rows, flight, wire, server, head,
                   tick, minted>>

Live(s) == pass[s] # NoPass /\ Open(pass[s].tab)

\* deps.fetchList(): the queue as the daemon holds it now, or no answer.
PassList(s) ==
    /\ Live(s) /\ ~pass[s].answered
    /\ \/ /\ pass' = [pass EXCEPT ![s].answered = TRUE,
                   ![s].list = [i \in {j \in Intents :
                                  server[j] \in {"queued", "sent"}} |-> server[i]]]
          /\ UNCHANGED log
       \/ /\ Faulty
          /\ pass' = [pass EXCEPT ![s].answered = TRUE, ![s].null = TRUE]
          /\ log' = [log EXCEPT !.faults = @ + 1]
    /\ UNCHANGED <<store, page, rows, flight, wire, server, head,
                   tick, minted>>

\* Mutant: the records are looked at in the order the store lists them.
TurnUnsorted(s, r) ==
    /\ Live(s) /\ pass[s].answered /\ pass[s].current = NoIntent
    /\ r \in pass[s].todo

\* The oldest record the pass has not looked at.
Turn(s, r) ==
    /\ Live(s) /\ pass[s].answered /\ pass[s].current = NoIntent
    /\ r \in pass[s].todo
    /\ \A q \in pass[s].todo : r.created <= q.created

Listed(s, r) == r.intent \in DOMAIN pass[s].list
Old(s, r) == pass[s].now - r.born > GcAge
Young(s, r) == pass[s].now - r.born < MinAge

\* Mutant: any admitted record of the text makes a saved one a residual.
ResidualAnyTime(s, r) == \E q \in pass[s].admitted : q.text = r.text

\* The admitted twin in the snapshot makes an older saved record a residual.
Residual(s, r) ==
    \E q \in pass[s].admitted : q.text = r.text /\ r.created < q.admittedAt

\* headIsStale(): an unknown head proves nothing.
HeadIsStale(h) == h # NoHead /\ h # head

\* A held record, or one the conversation moved past, waits for the operator.
WaitsForTap(r) == r.hold \/ HeadIsStale(r.head)

\* reAdmitting: the intents this page has a re-admission in flight for.
ReAdmitting(t) ==
    {pass[s].current : s \in {q \in Slots : pass[q] # NoPass /\ pass[q].tab = t}}

\* A pass that has nothing left to look at or wait for is over.
PassIs(s, p) ==
    [pass EXCEPT ![s] =
        IF p.answered /\ p.todo = {} /\ p.current = NoIntent THEN NoPass ELSE p]
Without(s, r) == [pass[s] EXCEPT !.todo = @ \ {r}]
Looked(s, r) == PassIs(s, Without(s, r))

\* A record past its week, an admitted record whose item was delivered or is
\* gone from an answered list, and a residual twin: pruned.
PassDelete(s, r) ==
    /\ Turn(s, r)
    /\ \/ Old(s, r)
       \/ /\ ~Old(s, r) /\ r.status = "admitted" /\ ~pass[s].null
          /\ Listed(s, r) => pass[s].list[r.intent] = "sent"
       \/ /\ ~Old(s, r) /\ r.status = "saved" /\ ~Listed(s, r) /\ ~Young(s, r)
          /\ Residual(s, r)
    /\ Delete(r.intent)
    /\ pass' = Looked(s, r)
    /\ log' = Blind(IF Old(s, r) THEN Settled({r.text}) ELSE log, r.intent, r.created)
    /\ UNCHANGED <<page, rows, flight, wire, server, head, tick, minted>>

\* A younger twin of a text the pass has already claimed: pruned.  History: the
\* text is the claimed record's to answer for.
PassSuppress(s, r) ==
    /\ Turn(s, r) /\ ~Old(s, r) /\ r.status = "saved" /\ ~Listed(s, r)
    /\ ~Young(s, r) /\ ~Residual(s, r) /\ ~WaitsForTap(r)
    /\ r.text \in pass[s].texts
    /\ Delete(r.intent)
    /\ pass' = Looked(s, r)
    /\ log' = Settled({r.text})
    /\ UNCHANGED <<page, rows, flight, wire, server, head, tick, minted>>

\* A saved record the list shows: the admission had landed.
PassConfirm(s, r) ==
    /\ Turn(s, r) /\ ~Old(s, r) /\ r.status = "saved" /\ Listed(s, r)
    /\ MarkAdmitted(r.intent)
    /\ log' = MarkedLog(r.intent)
    /\ pass' = Looked(s, r)
    /\ UNCHANGED <<page, rows, flight, wire, server, head, minted, tick>>

\* The text of a record that is being re-admitted elsewhere is claimed.
Claimed(s, r) == PassIs(s, [Without(s, r) EXCEPT !.texts = @ \cup {r.text}])

\* Kept for another pass: an admitted record still in custody (or no answer),
\* a young one, and one whose re-admission another pass of this page runs.
PassKeep(s, r) ==
    /\ Turn(s, r) /\ ~Old(s, r)
    /\ \/ /\ r.status = "admitted"
          /\ \/ pass[s].null
             \/ Listed(s, r) /\ pass[s].list[r.intent] = "queued"
          /\ pass' = Looked(s, r)
       \/ /\ r.status = "saved" /\ ~Listed(s, r) /\ Young(s, r)
          /\ pass' = Looked(s, r)
       \/ /\ r.status = "saved" /\ ~Listed(s, r) /\ ~Young(s, r) /\ ~Residual(s, r)
          /\ ~WaitsForTap(r) /\ r.text \notin pass[s].texts
          /\ r.intent \in ReAdmitting(pass[s].tab)
          /\ pass' = Claimed(s, r)
    /\ UNCHANGED <<store, page, rows, flight, wire, server, head,
                   tick, minted, log>>

\* surfaceBlockedGesture(): the visible row of such a record; it is kept.
PassBlocked(s, r) ==
    /\ Turn(s, r) /\ ~Old(s, r) /\ r.status = "saved" /\ ~Listed(s, r)
    /\ ~Young(s, r) /\ ~Residual(s, r) /\ WaitsForTap(r)
    /\ rows' = [rows EXCEPT ![pass[s].tab] = Ensure(@, r.intent, "refused")]
    /\ pass' = Looked(s, r)
    /\ UNCHANGED <<store, page, flight, wire, server, head, tick,
                   minted, log>>

\* At most one re-admission per text per pass, and per intent per page.
MayReAdmit(s, r) ==
    /\ r.text \notin pass[s].texts
    /\ r.intent \notin ReAdmitting(pass[s].tab)

\* The re-admission POST, under the gesture's own intent id.
PassPost(s, r) ==
    /\ Turn(s, r) /\ ~Old(s, r) /\ r.status = "saved" /\ ~Listed(s, r)
    /\ ~Young(s, r) /\ ~Residual(s, r) /\ ~WaitsForTap(r) /\ MayReAdmit(s, r)
    /\ wire' = Sent(r.intent)
    /\ pass' = PassIs(s, [Without(s, r) EXCEPT !.texts = @ \cup {r.text},
                                               !.current = r.intent])
    /\ log' = [log EXCEPT !.auto = @ \cup
           {[intent |-> r.intent,
             beside |-> {q.intent : q \in
                   {p \in pass[s].todo \ {r} :
                       /\ p.status = "saved" /\ p.text = r.text
                       /\ ~p.hold /\ p.head = r.head /\ ~Young(s, p)}}]}]
    /\ UNCHANGED <<store, page, rows, flight, server, head, tick,
                   minted>>

\* The receipt of a re-admission.
PassAdmitted(s) ==
    /\ Live(s) /\ pass[s].current # NoIntent
    /\ server[pass[s].current] # "none"
    /\ MarkAdmitted(pass[s].current)
    /\ rows' = [rows EXCEPT ![pass[s].tab] = Finish(@, pass[s].current)]
    /\ log' = MarkedLog(pass[s].current)
    /\ pass' = PassIs(s, [pass[s] EXCEPT !.current = NoIntent])
    /\ UNCHANGED <<page, flight, wire, server, head, minted, tick>>

\* A definitive refusal: a visible row, and the record goes unless the queue
\* was merely full.
PassRefused(s) ==
    /\ Live(s) /\ pass[s].current # NoIntent /\ Faulty
    /\ pass[s].current \in wire /\ server[pass[s].current] = "none"
    /\ wire' = wire \ {pass[s].current}
    /\ rows' = [rows EXCEPT ![pass[s].tab] = Ensure(@, pass[s].current, "refused")]
    /\ \/ UNCHANGED store /\ log' = [log EXCEPT !.faults = @ + 1]
       \/ /\ Delete(pass[s].current)
          /\ log' = [Settled({log.text[pass[s].current]}) EXCEPT !.faults = @ + 1]
    /\ pass' = PassIs(s, [pass[s] EXCEPT !.current = NoIntent])
    /\ UNCHANGED <<page, flight, server, head, tick, minted>>

\* No answer to a re-admission: the record is kept for the next pass.
PassUnanswered(s) ==
    /\ Live(s) /\ pass[s].current # NoIntent /\ Faulty
    /\ pass' = PassIs(s, [pass[s] EXCEPT !.current = NoIntent])
    /\ log' = [log EXCEPT !.faults = @ + 1]
    /\ UNCHANGED <<store, page, rows, flight, wire, server, head,
                   tick, minted>>

-----------------------------------------------------------------------------
(* Pages, and the world outside.                                           *)

\* A page evaluation starts: its passes, rows and flight start
\* empty; only the store and the client id outlive it.
Boot(t, client) ==
    /\ page' = [page EXCEPT ![t] =
           [open |-> TRUE, client |-> client, nonce |-> log.pages + 1,
            memo |-> "unasked", failure |-> NoFailure]]
    /\ rows' = [rows EXCEPT ![t] = [i \in Intents |-> "none"]]
    /\ flight' = [flight EXCEPT ![t] = NoFlight]
    /\ pass' = [s \in Slots |->
           IF pass[s] # NoPass /\ pass[s].tab = t THEN NoPass ELSE pass[s]]
    /\ log' = [log EXCEPT !.pages = @ + 1, !.faults = @ + 1]

\* A tab is reloaded (the client id survives in sessionStorage), opened anew,
\* or duplicated from an open one, which copies its sessionStorage.
OpenPage(t) ==
    /\ log.pages < MaxPages /\ Faulty
    /\ \/ Open(t) /\ Boot(t, page[t].client)
       \/ ~Open(t) /\ Boot(t, log.pages + 1)
       \/ /\ ~Open(t)
          /\ \E u \in Tabs : Open(u) /\ Boot(t, page[u].client)
    /\ UNCHANGED <<store, wire, server, head, tick, minted>>

\* A tab is closed or killed at any point.
ClosePage(t) ==
    /\ Open(t) /\ Faulty
    /\ page' = [page EXCEPT ![t] = NoPage]
    /\ rows' = [rows EXCEPT ![t] = [i \in Intents |-> "none"]]
    /\ flight' = [flight EXCEPT ![t] = NoFlight]
    /\ pass' = [s \in Slots |->
           IF pass[s] # NoPass /\ pass[s].tab = t THEN NoPass ELSE pass[s]]
    /\ log' = [log EXCEPT !.faults = @ + 1]
    /\ UNCHANGED <<store, wire, server, head, tick, minted>>

\* The browser evicts the whole database.
Evict ==
    /\ Faulty /\ store # {}
    /\ store' = {}
    /\ log' = [Settled(Texts) EXCEPT !.faults = @ + 1]
    /\ UNCHANGED <<page, rows, flight, pass, wire, server, head, tick,
                   minted>>

\* The daemon admits what the network delivers; a repeat changes nothing.
Land(i) ==
    /\ i \in wire
    /\ wire' = wire \ {i}
    /\ server' = [server EXCEPT ![i] = IF @ = "none" THEN "queued" ELSE @]
    /\ log' = IF server[i] = "none" THEN Settled({log.text[i]}) ELSE log
    /\ UNCHANGED <<store, page, rows, flight, pass, head, tick,
                   minted>>

\* The daemon delivers an item, which adds a message to the conversation.
Deliver(i) ==
    /\ server[i] = "queued"
    /\ server' = [server EXCEPT ![i] = "sent"]
    /\ head' = IF head < MaxHead THEN head + 1 ELSE head
    /\ UNCHANGED <<store, page, rows, flight, pass, wire, tick,
                   minted, log>>

\* The item leaves the list: dismissed, archived or compacted.
Dismiss(i) ==
    /\ server[i] \in {"queued", "sent"} /\ Faulty
    /\ server' = [server EXCEPT ![i] = "gone"]
    /\ log' = [log EXCEPT !.faults = @ + 1]
    /\ UNCHANGED <<store, page, rows, flight, pass, wire, head, tick, minted>>

\* Time passes in units no wait of the admission funnel reaches (12 s a POST,
\* 10 s a list, against a minute): a gesture past its save is over before its
\* record ages, and so is a pass over as few records as MaxIntents.
Tick ==
    /\ tick < MaxTicks /\ (tick = 0 \/ Faulty)
    /\ \A t \in Tabs : flight[t].step \notin {"prune", "post"}
    /\ \A s \in Slots : pass[s] = NoPass
    /\ tick' = tick + 1
    /\ log' = [log EXCEPT !.faults = IF tick = 0 THEN @ ELSE @ + 1]
    /\ UNCHANGED <<store, page, rows, flight, pass, wire, server, head, minted>>

TabNext(t) ==
    \/ \E x \in Texts, i \in Intents :
          PrepareFails(t, x, i) \/ SaveGesture(t, x, i) \/ SaveFails(t, x, i)
    \/ RetryFailedSave(t) \/ \E i \in Intents : PruneOne(t, i)
    \/ Admitted(t) \/ Refused(t) \/ Unanswered(t)
    \/ OpenPage(t) \/ ClosePage(t)

PassNext(s) ==
    \/ \E t \in Tabs : PassStart(s, t)
    \/ PassList(s)
    \/ pass[s] # NoPass /\ \E r \in pass[s].todo :
          \/ PassDelete(s, r) \/ PassSuppress(s, r) \/ PassConfirm(s, r)
          \/ PassKeep(s, r)
          \/ PassBlocked(s, r) \/ PassPost(s, r)
    \/ PassAdmitted(s) \/ PassRefused(s) \/ PassUnanswered(s)

Next ==
    \/ \E t \in Tabs : TabNext(t)
    \/ \E s \in Slots : PassNext(s)
    \/ Evict \/ Tick
    \/ \E i \in Intents : Land(i) \/ Deliver(i) \/ Dismiss(i)

Spec == Init /\ [][Next]_vars

-----------------------------------------------------------------------------
(* Properties.                                                             *)

TypeOK ==
    /\ store \subseteq Rec
    /\ \A r, q \in store : r.intent = q.intent => r = q
    /\ page \in [Tabs -> Page]
    /\ rows \in [Tabs -> [Intents -> Stages]]
    /\ flight \in [Tabs -> Flight]
    /\ server \in [Intents -> Server]

\* A gesture's committed save is not voided: it reached the daemon, was released
\* by an explicit verdict, or a record of the same text still waits.  Two
\* exceptions are left: a delete by intent id that takes a record saved again
\* since it was looked at (index.ts:552, 843), and the text of a twin pruned in
\* favour of the record its pass had claimed (index.ts:884).
\* (saveGesture's put-confirm-then-prune and the scoping of
\* pruneSupersededOwnTab over reloads, duplicated tabs and kills in between;
\* the time-scoped twin prune of reconcileOutboxSession.)
TextNeverVoid ==
    \A o \in log.owed :
        \/ log.text[o.intent] \in log.blind
        \/ server[o.intent] # "none"
        \/ \E r \in store : r.text = log.text[o.intent]

\* A pass never re-admits a record past an older twin that it has read and
\* that still waits as it was read, whichever passes of whichever pages are
\* working on the twin.  (The order of the pass, the same-text suppression and
\* the in-flight claim of reconcileOutboxSession.)
ReAdmits(s, r) == /\ pass[s].current = NoIntent
                  /\ pass'[s] # NoPass /\ pass'[s].current = r.intent
Twins(r, q) == q.text = r.text /\ q.head = r.head /\ ~q.hold
OldestGoesFirst ==
    [][\A s \in Slots : pass[s] # NoPass =>
          \A r \in pass[s].todo : ReAdmits(s, r) =>
             ~\E q \in pass[s].seen \cap store :
                  q.status = "saved" /\ q.created < r.created /\ Twins(r, q)]_vars

\* What reconcile's same-text suppression is said to do (index.ts:533-537): of
\* two records of one text left waiting together at the same head by a crash
\* between the put and the prune, one is admitted.
ReadmitOnce ==
    \A a, b \in log.auto : b.intent \notin a.beside

=============================================================================
