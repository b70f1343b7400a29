----------------------------- MODULE QueueView -----------------------------
(***************************************************************************)
(* The browser's view of a session queue (web/src/queue.ts, queueDrain.ts,  *)
(* lib/queueDispatchMode.ts, chat/createQueueSync.ts, createQueueRecovery.ts *)
(* and the queue parts of createSend.ts): a cache of the server's items, an *)
(* overlay of outcomes the tab knows of, the drainer that dispatches in     *)
(* legacy mode, and what a person does to a chip.  Answers of the server    *)
(* arrive late, out of order or not at all; the daemon takes dispatch over  *)
(* when it restarts with custody.                                           *)
(***************************************************************************)
EXTENDS Naturals, FiniteSets

CONSTANTS
    Tabs, Items,
    MaxLists,     \* bound: list answers in flight per tab
    MaxFlips,     \* bound: restarts that change who dispatches
    MaxWrites,    \* MAX_ATTEMPTS of resolveWithRetry
    Custody       \* whether the first daemon dispatches itself

ASSUME ViewAssumption ==
    /\ IsFiniteSet(Tabs) /\ IsFiniteSet(Items) /\ Items # {}
    /\ MaxLists \in Nat \ {0} /\ MaxFlips \in Nat /\ MaxWrites \in Nat \ {0}
    /\ Custody \in BOOLEAN

VARIABLES
    srv,        \* external: state of every item at the server
    custody,    \* external: a daemon holds custody
    flips,      \* restarts so far
    delivered,  \* external: items OpenCode has persisted
    flying,     \* external: items with a cut POST that may still land
    person,     \* history: what a person declared sent, or retried while
                \* only the tab knew of the unknown outcome
    cache,      \* per tab: queues[session], the state of its items
    msgid,      \* per tab: cached items that carry their OpenCode message id
    known,      \* per tab: knownOutcomes
    lists,      \* per tab: list answers under way
    mode,       \* per tab: queueDispatchMode's latches
    job         \* per tab: the drainer, and what a person does to a chip

server == <<srv, custody, flips, delivered, flying>>
vars == <<srv, custody, flips, delivered, flying, person, cache, msgid, known,
          lists, mode, job>>

Live == {"pending", "dispatching"}
Terminal == {"sent", "failed", "unknown"}
States == Live \cup Terminal
Idle == [kind |-> "none", item |-> CHOOSE i \in Items : TRUE, step |-> "none",
         out |-> "none", tries |-> 0]
Job(k, i, s) == [Idle EXCEPT !.kind = k, !.item = i, !.step = s]

-----------------------------------------------------------------------------
(* The cache and the overlay.                                              *)

\* The server's list; an item not in it, removed or never there, is "none".
Listed == [i \in Items |-> IF srv[i] = "gone" THEN "none" ELSE srv[i]]

\* fetchQueue(): the answer replaces the cache; a known outcome covers an item
\* the server still has open and is dropped once the server has its own.
Covered(l, k, i) == l[i] \in Live /\ k[i] # "none"
Reconciled(l, k) == [i \in Items |-> IF Covered(l, k, i) THEN k[i] ELSE l[i]]
Outstanding(l, k) == [i \in Items |-> IF l[i] \in Terminal THEN "none" ELSE k[i]]

\* Mutant: only waiting items keep the poll going.
HasPending(t) == \E i \in Items : cache[t][i] = "pending"

\* hasQueueState(): what keeps the poll going.
HasQueueState(t) == \E i \in Items : cache[t][i] \in States \ {"sent"}

\* enqueue()'s upsert never moves an item back.
Rank(s) == CASE s \in Terminal -> 3 [] s = "dispatching" -> 2
             [] s = "pending" -> 1 [] OTHER -> 0
Upsert(cur, s) == IF Rank(cur) >= Rank(s) THEN cur ELSE s

\* dispatchMode().
Modern(t) == mode[t].capable \/ mode[t].refused
DispatchMode(t) == IF Modern(t) THEN "modern"
                   ELSE IF mode[t].established THEN "legacy-confirmed" ELSE "unknown"

\* A probe's answer; "fail" is an error, a bad status or bad JSON.
Probed(m, a) ==
    IF a = "fail" THEN [m EXCEPT !.established = FALSE]
    ELSE [m EXCEPT !.capable = a = "custody", !.established = TRUE]
Answer == IF custody THEN "custody" ELSE "legacy"

-----------------------------------------------------------------------------
(* Reads: createQueueSync's effects and the fetches after other calls.     *)

Fetch(t) ==
    /\ Cardinality(lists[t]) < MaxLists
    /\ lists' = [lists EXCEPT ![t] = @ \cup {Listed}]
    /\ UNCHANGED <<server, person, cache, msgid, known, mode, job>>

\* The poll runs while there is something to show.
Poll(t) == HasQueueState(t) /\ Fetch(t)

FetchArrives(t) ==
    \E l \in lists[t] :
        /\ lists' = [lists EXCEPT ![t] = @ \ {l}]
        /\ cache' = [cache EXCEPT ![t] = Reconciled(l, known[t])]
        /\ msgid' = [msgid EXCEPT ![t] = {i \in Items : l[i] \notin {"none", "pending"}}]
        /\ known' = [known EXCEPT ![t] = Outstanding(l, @)]
        /\ UNCHANGED <<server, person, mode, job>>

FetchFails(t) ==
    \E l \in lists[t] :
        /\ lists' = [lists EXCEPT ![t] = @ \ {l}]
        /\ UNCHANGED <<server, person, cache, msgid, known, mode, job>>

\* refreshDispatchMode() of a session's opening.
Refresh(t) ==
    /\ \E a \in {Answer, "fail"} : mode' = [mode EXCEPT ![t] = Probed(@, a)]
    /\ UNCHANGED <<server, person, cache, msgid, known, lists, job>>

\* noteDeliveredUserMessage(): the dispatching item with this message id.
EchoMatches(t, i) == cache[t][i] = "dispatching" /\ i \in msgid[t]

\* The stream shows the delivered message; without a match a later fetch tells.
Echo(t, i) ==
    /\ i \in delivered /\ EchoMatches(t, i)
    /\ cache' = [cache EXCEPT ![t][i] = "sent"]
    /\ known' = [known EXCEPT ![t][i] = "sent"]
    /\ UNCHANGED <<server, person, msgid, lists, mode, job>>

-----------------------------------------------------------------------------
(* Dispatch and its record: the drainer, and a chip's retry and mark-sent.  *)

Who == {"drain", "chip"}
Set(t, w, j) == job' = [job EXCEPT ![t][w] = j]

\* drain(): the server moves the oldest pending item to dispatching, or
\* refuses because the daemon dispatches, or has none; then the answer comes.
Drain(t) ==
    /\ ~Modern(t) /\ job[t]["drain"] = Idle
    /\ \E i \in Items : cache[t][i] = "pending"
    /\ \/ /\ custody
          /\ Set(t, "drain", Job("claim", Idle.item, "refused")) /\ UNCHANGED srv
       \/ /\ ~custody
          /\ \E i \in Items :
                /\ srv[i] = "pending"
                /\ srv' = [srv EXCEPT ![i] = "dispatching"]
                /\ Set(t, "drain", Job("claim", i, "won"))
    /\ UNCHANGED <<custody, flips, delivered, flying, person, cache, msgid, known, lists, mode>>

\* claimQueued(): a refusal is latched; the claimed state is written over the
\* cached one, the message id comes only with an item that was not cached.
Claimed(t) ==
    /\ job[t]["drain"].kind = "claim"
    /\ LET j == job[t]["drain"] IN
       \/ /\ j.step = "refused"
          /\ mode' = [mode EXCEPT ![t].refused = TRUE]
          /\ Set(t, "drain", Idle) /\ UNCHANGED <<cache, msgid>>
       \/ /\ j.step = "won"
          /\ cache' = [cache EXCEPT ![t][j.item] = "dispatching"]
          /\ msgid' = IF cache[t][j.item] = "none"
                      THEN [msgid EXCEPT ![t] = @ \cup {j.item}] ELSE msgid
          /\ Set(t, "drain", Job("drain", j.item, "gate")) /\ UNCHANGED mode
    /\ UNCHANGED <<server, person, known, lists>>

\* The claim's answer is lost: the drain is over.
ClaimLost(t) ==
    /\ job[t]["drain"].kind = "claim" /\ Set(t, "drain", Idle)
    /\ UNCHANGED <<server, person, cache, msgid, known, lists, mode>>

\* retryQueuedItem(): the click, with its probe on the way to the server.
Retry(t, i) ==
    /\ cache[t][i] = "unknown" /\ i \in msgid[t] /\ ~Modern(t) /\ job[t]["chip"] = Idle
    /\ Set(t, "chip", [Job("retry", i, "probe") EXCEPT !.out = Answer])
    /\ person' = person \cup {<<"early", j>> : j \in {k \in {i} : known[t][k] # "none"}}
    /\ UNCHANGED <<server, cache, msgid, known, lists, mode>>

\* The mode read after the probe.
Confirmed(m) == ~m.capable /\ ~m.refused /\ m.established

RetryProbed(t) ==
    /\ job[t]["chip"].step = "probe"
    /\ \E a \in {job[t]["chip"].out, "fail"} :
        LET m == Probed(mode[t], a) IN
        /\ mode' = [mode EXCEPT ![t] = m]
        /\ Set(t, "chip", IF Confirmed(m)
                          THEN [job[t]["chip"] EXCEPT !.step = "gate", !.out = a]
                          ELSE Idle)
    /\ UNCHANGED <<server, person, cache, msgid, known, lists>>

\* Mutant: an aborted POST counts as accepted.
PostEffectsHopeful ==
    {[out |-> "sent", lands |-> w] : w \in {"now", "later", "never"}}

\* Mutant: a POST cut by the timer counts as rejected.
PostEffectsBleak ==
    {[out |-> "sent", lands |-> "now"]}
    \cup {[out |-> "failed", lands |-> w] : w \in {"now", "later", "never"}}

\* What a POST to prompt_async did, and what the tab makes of its answer
\* (dispatchQueuedItem): only a rejection is known not to land.
PostEffects ==
    {[out |-> "sent", lands |-> "now"], [out |-> "failed", lands |-> "never"]}
    \cup {[out |-> "unknown", lands |-> w] : w \in {"now", "later", "never"}}

\* The pre-POST guard of a retry; the drainer holds a claim and has none.
MayPost(t, w) == w = "drain" \/ DispatchMode(t) = "legacy-confirmed"

\* The agent gate is passed and the POST goes out; the guard refuses, and
\* nothing is sent or resolved; or no agent is found.
Post(t, w) ==
    /\ job[t][w].step = "gate"
    /\ LET j == job[t][w] IN
       \/ /\ MayPost(t, w)
          /\ \E e \in PostEffects :
                /\ Set(t, w, [j EXCEPT !.step = "posted", !.out = e.out])
                /\ delivered' = delivered \cup (IF e.lands = "now" THEN {j.item} ELSE {})
                /\ flying' = flying \cup (IF e.lands = "later" THEN {j.item} ELSE {})
       \/ /\ ~MayPost(t, w) /\ Set(t, w, Idle)
          /\ UNCHANGED <<delivered, flying>>
       \/ /\ Set(t, w, [j EXCEPT !.step = "unsent", !.out = "failed"])
          /\ UNCHANGED <<delivered, flying>>
    /\ UNCHANGED <<srv, custody, flips, person, cache, msgid, known, lists, mode>>

\* applyOutcome(): the outcome shows at once and is remembered.
Outcome(t, w) ==
    /\ job[t][w].step \in {"posted", "unsent"}
    /\ LET j == job[t][w] IN
       /\ cache' = [cache EXCEPT ![t][j.item] = IF @ = "none" THEN @ ELSE j.out]
       /\ known' = [known EXCEPT ![t][j.item] = j.out]
       /\ Set(t, w, [j EXCEPT !.step = "write", !.tries = 1])
    /\ UNCHANGED <<server, person, msgid, lists, mode>>

\* markSent(): a person declares an unknown item sent.
MarkSent(t, i) ==
    /\ cache[t][i] = "unknown" /\ job[t]["chip"] = Idle
    /\ person' = person \cup {<<"sent", i>>}
    /\ cache' = [cache EXCEPT ![t][i] = "sent"]
    /\ known' = [known EXCEPT ![t][i] = "sent"]
    /\ Set(t, "chip", [Job("mark", i, "write") EXCEPT !.out = "sent", !.tries = 1])
    /\ UNCHANGED <<server, msgid, lists, mode>>

\* External: Resolve() at the server.
Resolves(i, s) == srv[i] = "dispatching" \/ (srv[i] = "unknown" /\ s = "sent")
Verdict(i, s) ==
    CASE custody -> "refused"
      [] ~custody /\ (Resolves(i, s) \/ srv[i] = s) -> "recorded"
      [] ~custody /\ ~Resolves(i, s) /\ srv[i] \in Terminal \ {s} -> "conflict"
      [] OTHER -> "error"

\* resolveWithRetry(): one write; its answer comes, or is lost.
Write(t, w) ==
    /\ job[t][w].step = "write"
    /\ LET j == job[t][w]  v == Verdict(j.item, j.out) IN
       /\ srv' = IF ~custody /\ Resolves(j.item, j.out)
                 THEN [srv EXCEPT ![j.item] = j.out] ELSE srv
       /\ \/ Set(t, w, [j EXCEPT !.step = v])
          \/ Set(t, w, [j EXCEPT !.step = "error"])
    /\ UNCHANGED <<custody, flips, delivered, flying, person, cache, msgid, known, lists, mode>>

\* The server has its own truth: the overlay gives way.
OverlayDropped(k, i) == [k EXCEPT ![i] = "none"]

\* resolveQueued() on the answer: the echoed state is shown; a conflict or a
\* refusal drops the overlay (a fetch follows); an error is tried again, and
\* at last left to the overlay.
Written(t, w) ==
    /\ job[t][w].step \in {"recorded", "conflict", "refused", "error"}
    /\ job[t][w].kind # "claim"
    /\ LET j == job[t][w] IN
       /\ cache' = IF j.step = "recorded" /\ cache[t][j.item] # "none"
                   THEN [cache EXCEPT ![t][j.item] = j.out] ELSE cache
       /\ known' = IF j.step \in {"conflict", "refused"}
                   THEN [known EXCEPT ![t] = OverlayDropped(@, j.item)] ELSE known
       /\ mode' = IF j.step = "refused" THEN [mode EXCEPT ![t].refused = TRUE] ELSE mode
       /\ Set(t, w, IF j.step = "error" /\ j.tries < MaxWrites
                    THEN [j EXCEPT !.step = "write", !.tries = @ + 1] ELSE Idle)
    /\ UNCHANGED <<server, person, msgid, lists>>

-----------------------------------------------------------------------------
(* The other operations on a chip.                                         *)

\* enqueue(): admitted at the server, the item is on its way back.
Enqueue(t, i) ==
    /\ srv[i] = "none" /\ job[t]["chip"] = Idle
    /\ srv' = [srv EXCEPT ![i] = "pending"]
    /\ Set(t, "chip", [Job("enqueue", i, "reply") EXCEPT !.out = "pending"])
    /\ UNCHANGED <<custody, flips, delivered, flying, person, cache, msgid, known, lists, mode>>

\* escalateQueued(): only a pending item, and only under the scheduler.
Escalate(t, i) ==
    /\ cache[t][i] = "pending" /\ mode[t].capable /\ job[t]["chip"] = Idle
    /\ custody /\ srv[i] = "pending"
    /\ Set(t, "chip", [Job("escalate", i, "reply") EXCEPT !.out = "pending"])
    /\ UNCHANGED <<server, person, cache, msgid, known, lists, mode>>

\* removeQueued(), of a retraction or a dismissal: anything not in flight.
Remove(t, i) ==
    /\ cache[t][i] \in States \ {"dispatching"} /\ job[t]["chip"] = Idle
    /\ srv[i] \in States \ {"dispatching"}
    /\ srv' = [srv EXCEPT ![i] = "gone"]
    /\ Set(t, "chip", [Job("remove", i, "reply") EXCEPT !.out = "none"])
    /\ UNCHANGED <<custody, flips, delivered, flying, person, cache, msgid, known, lists, mode>>

\* The answer: enqueue merges it, escalate and remove write it over the cache.
Reply(t) ==
    /\ job[t]["chip"].step = "reply"
    /\ LET j == job[t]["chip"] IN
       /\ cache' = [cache EXCEPT ![t][j.item] =
                    IF j.kind = "enqueue" THEN Upsert(@, j.out) ELSE j.out]
       /\ msgid' = IF j.kind = "enqueue" THEN msgid
                   ELSE [msgid EXCEPT ![t] = @ \ {j.item}]
    /\ Set(t, "chip", Idle)
    /\ UNCHANGED <<server, person, known, lists, mode>>

ReplyLost(t) ==
    /\ job[t]["chip"].step = "reply" /\ Set(t, "chip", Idle)
    /\ UNCHANGED <<server, person, cache, msgid, known, lists, mode>>

-----------------------------------------------------------------------------
(* External: the daemon and OpenCode.                                      *)

\* A cut POST lands after all.
Lands(i) ==
    /\ i \in flying
    /\ delivered' = delivered \cup {i} /\ flying' = flying \ {i}
    /\ UNCHANGED <<srv, custody, flips, person, cache, msgid, known, lists, mode, job>>

\* The custody owner dispatches, or without one another client's drainer.
OtherDispatch(i) ==
    /\ srv[i] = "pending"
    /\ srv' = [srv EXCEPT ![i] = "dispatching"]
    /\ delivered' \in {delivered, delivered \cup {i}}
    /\ UNCHANGED <<custody, flips, flying, person, cache, msgid, known, lists, mode, job>>

\* A stale dispatch becomes unknown, an exact match sent.
Recover(i) ==
    /\ \/ srv[i] = "dispatching" /\ srv' = [srv EXCEPT ![i] = "unknown"]
       \/ /\ srv[i] \in {"dispatching", "unknown"} /\ i \in delivered
          /\ srv' = [srv EXCEPT ![i] = "sent"]
    /\ UNCHANGED <<custody, flips, delivered, flying, person, cache, msgid, known, lists, mode, job>>

\* The daemon restarts with the other dispatch setting.
Flip ==
    /\ flips < MaxFlips
    /\ flips' = flips + 1 /\ custody' = ~custody
    /\ UNCHANGED <<srv, delivered, flying, person, cache, msgid, known, lists, mode, job>>

-----------------------------------------------------------------------------
Empty == [i \in Items |-> "none"]
Init ==
    /\ srv = Empty /\ custody = Custody /\ flips = 0
    /\ delivered = {} /\ flying = {} /\ person = {}
    /\ cache = [t \in Tabs |-> Empty] /\ known = [t \in Tabs |-> Empty]
    /\ lists = [t \in Tabs |-> {}] /\ msgid = [t \in Tabs |-> {}]
    /\ mode = [t \in Tabs |->
                 [capable |-> FALSE, refused |-> FALSE, established |-> FALSE]]
    /\ job = [t \in Tabs |-> [w \in Who |-> Idle]]

Next ==
    \/ \E t \in Tabs :
        \/ Fetch(t) \/ FetchArrives(t) \/ FetchFails(t) \/ Refresh(t)
        \/ Drain(t) \/ Claimed(t) \/ ClaimLost(t) \/ RetryProbed(t)
        \/ Reply(t) \/ ReplyLost(t)
        \/ \E w \in Who : Post(t, w) \/ Outcome(t, w) \/ Write(t, w) \/ Written(t, w)
        \/ \E i \in Items : \/ Echo(t, i) \/ Retry(t, i) \/ MarkSent(t, i)
                             \/ Enqueue(t, i) \/ Escalate(t, i) \/ Remove(t, i)
    \/ \E i \in Items : Lands(i) \/ OtherDispatch(i) \/ Recover(i)
    \/ Flip

\* The poll's timer fires, and the network does not fail every list.
Spec ==
    /\ Init /\ [][Next]_vars
    /\ \A t \in Tabs : WF_vars(Poll(t)) /\ SF_vars(FetchArrives(t))

-----------------------------------------------------------------------------
(* Properties.                                                             *)

\* A chip disappears as sent, and an item is recorded sent, only when the
\* message is in the transcript or a person said so: no lost answer, late
\* list or overlay hides a message that never left.  (noteDeliveredUserMessage,
\* dispatchQueuedItem, resolveQueued, fetchQueue.)
SentIsTrue ==
    \A i \in Items : i \notin delivered /\ <<"sent", i>> \notin person =>
        srv[i] # "sent" /\ \A t \in Tabs : cache[t][i] # "sent" /\ known[t][i] # "sent"

\* The server records failed, which lets the text be sent anew, only for a
\* message that did not arrive and cannot any more, unless a person retried it
\* while only the tab knew its outcome (createSend.ts:1857).
\* (dispatchQueuedItem's classes against Resolve's matrix.)
FailedNeverArrives ==
    \A i \in Items : srv[i] = "failed" /\ <<"early", i>> \notin person
                        => i \notin delivered \cup flying

\* What the server has settled for good, no tab shows as waiting or sending
\* for good: polls repair what late claims, escalations and stale lists wrote
\* over.  (createQueueSync's poll, hasQueueState, fetchQueue.)
ViewConverges ==
    \A i \in Items, t \in Tabs :
        <>[](srv[i] \in Terminal) => <>[](cache[t][i] \notin Live)
=============================================================================
