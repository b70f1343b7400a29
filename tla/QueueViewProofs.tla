--------------------------- MODULE QueueViewProofs ---------------------------
(***************************************************************************)
(* Proofs about the browser's view of a queue: what the tabs show and what  *)
(* the server records of an outcome is true of the message, whatever the    *)
(* number of tabs and items, of lists in flight and of restarts.            *)
(***************************************************************************)
EXTENDS QueueView, TLAPS

(***************************************************************************)
(* Types.                                                                  *)
(***************************************************************************)

Recording == {"write", "recorded", "conflict", "refused", "error"}
Dispatching == {"gate", "posted", "unsent"} \cup Recording
Steps == {"none", "won", "probe", "reply"} \cup Dispatching
Kinds == {"none", "claim", "drain", "retry", "mark", "enqueue", "escalate", "remove"}
Outs == Terminal \cup {"none", "pending", "custody", "legacy", "fail"}
Jobs == [kind : Kinds, item : Items, step : Steps, out : Outs, tries : 0..MaxWrites]

\* A job is at a step its kind has; its outcome is decided once it has posted.
KindsOf(w) == IF w = "drain" THEN {"none", "claim", "drain"} ELSE Kinds \ {"claim", "drain"}
StepsOf(kind) == CASE kind = "none" -> {"none"}
                   [] kind = "claim" -> {"refused", "won"}
                   [] kind = "drain" -> Dispatching
                   [] kind = "retry" -> {"probe"} \cup Dispatching
                   [] kind = "mark" -> Recording
                   [] OTHER -> {"reply"}
Decided(j) == j.kind \in {"drain", "retry", "mark"} /\ j.step \notin {"probe", "gate"}
Shaped(w, j) == /\ j.kind \in KindsOf(w) /\ j.step \in StepsOf(j.kind)
                /\ j.out \in Terminal <=> Decided(j)
                /\ j.kind = "mark" => j.out = "sent"
                /\ j.step = "reply" => j.out \in {"pending", "none"}

Modes == [capable : BOOLEAN, refused : BOOLEAN, established : BOOLEAN]
Views == [Items -> States \cup {"none"}]

\* Every variable has the shape of what it models, and a job is at a step its
\* kind has.  (queue.ts, queueDrain.ts, createSend.ts.)
TypeOK ==
    /\ srv \in [Items -> States \cup {"none", "gone"}]
    /\ custody \in BOOLEAN /\ flips \in 0..MaxFlips
    /\ delivered \subseteq Items /\ flying \subseteq Items
    /\ person \subseteq {"early", "sent"} \X Items
    /\ cache \in [Tabs -> Views]
    /\ known \in [Tabs -> [Items -> Terminal \cup {"none"}]]
    /\ msgid \in [Tabs -> SUBSET Items]
    /\ lists \in [Tabs -> SUBSET Views]
    /\ mode \in [Tabs -> Modes]
    /\ job \in [Tabs -> [Who -> Jobs]]
    /\ \A t \in Tabs, w \in Who : Shaped(w, job[t][w])

LEMMA WhoIs ==
    /\ "drain" \in Who /\ "chip" \in Who
    /\ \A w \in Who : w = "drain" \/ w = "chip"
    /\ KindsOf("drain") = {"none", "claim", "drain"}
    /\ KindsOf("chip") = {"none", "retry", "mark", "enqueue", "escalate", "remove"}
  BY DEF Who, KindsOf, Kinds

LEMMA IdleIs ==
    /\ Idle \in Jobs /\ Idle.kind = "none" /\ Idle.step = "none" /\ Idle.out = "none"
    /\ Idle.item \in Items
    /\ \A w \in Who : Shaped(w, Idle)
<1>1. (CHOOSE i \in Items : TRUE) \in Items
  BY ViewAssumption
<1>2. 0 \in 0..MaxWrites
  BY ViewAssumption
<1>3. /\ Idle \in Jobs /\ Idle.kind = "none" /\ Idle.step = "none" /\ Idle.out = "none"
      /\ Idle.item \in Items
  BY <1>1, <1>2 DEF Idle, Jobs, Kinds, Steps, Outs
<1> QED
  BY <1>3, WhoIs DEF Shaped, StepsOf, Decided, Terminal

\* A job that begins.
LEMMA JobIs ==
    ASSUME NEW k \in Kinds, NEW i \in Items, NEW s \in Steps
    PROVE  /\ Job(k, i, s) \in Jobs /\ Job(k, i, s).kind = k
           /\ Job(k, i, s).item = i /\ Job(k, i, s).step = s
           /\ Job(k, i, s).out = "none" /\ Job(k, i, s).tries = 0
<1>1. Idle \in Jobs /\ Idle.out = "none" /\ Idle.tries = 0
  BY IdleIs DEF Idle
<1> QED
  BY <1>1 DEF Job, Jobs

\* Tab t's w is at k from now on, and no other job moves.
Moved(t, w, k) ==
    /\ k \in Jobs /\ Shaped(w, k)
    /\ \A u \in Tabs, x \in Who :
         job'[u][x] = IF u = t /\ x = w THEN k ELSE job[u][x]

LEMMA SetIs ==
    ASSUME TypeOK, NEW t \in Tabs, NEW w \in Who, NEW k, k \in Jobs, Shaped(w, k),
           Set(t, w, k)
    PROVE  /\ job' \in [Tabs -> [Who -> Jobs]] /\ Moved(t, w, k)
           /\ \A u \in Tabs, x \in Who : Shaped(x, job'[u][x])
<1>1. job \in [Tabs -> [Who -> Jobs]] /\ \A u \in Tabs, x \in Who : Shaped(x, job[u][x])
  BY DEF TypeOK
<1>2. job' = [job EXCEPT ![t][w] = k]
  BY DEF Set
<1>3. /\ job' \in [Tabs -> [Who -> Jobs]]
      /\ \A u \in Tabs, x \in Who :
           job'[u][x] = IF u = t /\ x = w THEN k ELSE job[u][x]
  BY <1>1, <1>2
<1> QED
  BY <1>1, <1>3 DEF Moved

LEMMA IdleMoves ==
    ASSUME TypeOK, NEW t \in Tabs, NEW w \in Who, Set(t, w, Idle)
    PROVE  /\ job' \in [Tabs -> [Who -> Jobs]] /\ Moved(t, w, Idle)
           /\ \A u \in Tabs, x \in Who : Shaped(x, job'[u][x])
  BY SetIs, IdleIs
-----------------------------------------------------------------------------
(* What each action does, and that it keeps the types.                     *)

\* A status changes at one place of a tab.
LEMMA PlaceIs ==
    ASSUME NEW S, NEW f \in [Tabs -> [Items -> S]], NEW t \in Tabs, NEW i \in Items,
           NEW s \in S, NEW g, g = [f EXCEPT ![t][i] = s]
    PROVE  /\ g \in [Tabs -> [Items -> S]]
           /\ \A u \in Tabs, x \in Items :
                g[u][x] = IF u = t /\ x = i THEN s ELSE f[u][x]
  OBVIOUS

\* The tab's own list of the server is what the server has.
LEMMA ListedIs ==
    ASSUME TypeOK
    PROVE  /\ Listed \in Views
           /\ \A i \in Items, s \in Terminal : Listed[i] = s => srv[i] = s
  BY DEF TypeOK, Listed, Views, States, Terminal

LEMMA FetchDoes ==
    ASSUME TypeOK, NEW t \in Tabs, Fetch(t)
    PROVE  /\ TypeOK'
           /\ \A u \in Tabs : \A l \in lists'[u] : l \in lists[u] \/ l = Listed
<1>1. lists \in [Tabs -> SUBSET Views] /\ Listed \in Views
  BY ListedIs DEF TypeOK
<1>2. lists' = [lists EXCEPT ![t] = @ \cup {Listed}]
  BY DEF Fetch
<1>3. /\ lists' \in [Tabs -> SUBSET Views]
      /\ \A u \in Tabs : \A l \in lists'[u] : l \in lists[u] \/ l = Listed
  BY <1>1, <1>2
<1> QED
  BY <1>3 DEF Fetch, TypeOK, server

LEMMA ListGone ==
    ASSUME TypeOK, NEW t \in Tabs, NEW l, lists' = [lists EXCEPT ![t] = @ \ {l}]
    PROVE  lists' \in [Tabs -> SUBSET Views] /\ \A u \in Tabs : lists'[u] \subseteq lists[u]
  BY DEF TypeOK

LEMMA FetchFailsDoes ==
    ASSUME TypeOK, NEW t \in Tabs, FetchFails(t)
    PROVE  TypeOK' /\ \A u \in Tabs : lists'[u] \subseteq lists[u]
<1>1. PICK l \in lists[t] : lists' = [lists EXCEPT ![t] = @ \ {l}]
  BY DEF FetchFails
<1>2. lists' \in [Tabs -> SUBSET Views] /\ \A u \in Tabs : lists'[u] \subseteq lists[u]
  BY <1>1, ListGone
<1> QED
  BY <1>2 DEF FetchFails, TypeOK, server

\* An item's place after the list l: the overlay's state where the server's is
\* open, and then the overlay stays; else the list's.
LEMMA FetchArrivesDoes ==
    ASSUME TypeOK, NEW t \in Tabs, FetchArrives(t)
    PROVE  /\ TypeOK'
           /\ \A u \in Tabs : lists'[u] \subseteq lists[u]
           /\ \A u \in Tabs \ {t} : cache'[u] = cache[u] /\ known'[u] = known[u]
           /\ \E l \in lists[t] : \A x \in Items :
                /\ \/ cache'[t][x] = l[x]
                   \/ /\ cache'[t][x] = known[t][x]
                      /\ known'[t][x] = known[t][x] /\ known[t][x] # "none"
                /\ known'[t][x] \in {"none", known[t][x]}
<1>1. PICK l \in lists[t] :
        /\ lists' = [lists EXCEPT ![t] = @ \ {l}]
        /\ cache' = [cache EXCEPT ![t] = Reconciled(l, known[t])]
        /\ msgid' = [msgid EXCEPT ![t] = {i \in Items : l[i] \notin {"none", "pending"}}]
        /\ known' = [known EXCEPT ![t] = Outstanding(l, @)]
        /\ UNCHANGED <<server, person, mode, job>>
  BY DEF FetchArrives
<1>2. lists' \in [Tabs -> SUBSET Views] /\ \A u \in Tabs : lists'[u] \subseteq lists[u]
  BY <1>1, ListGone
<1>3. /\ cache \in [Tabs -> Views] /\ l \in Views
      /\ known \in [Tabs -> [Items -> Terminal \cup {"none"}]]
      /\ msgid \in [Tabs -> SUBSET Items]
  BY DEF TypeOK
<1>4. /\ Reconciled(l, known[t]) \in Views
      /\ \A x \in Items : Reconciled(l, known[t])[x] =
                            IF Covered(l, known[t], x) THEN known[t][x] ELSE l[x]
  BY <1>3 DEF Reconciled, Views, States
<1>5. /\ Outstanding(l, known[t]) \in [Items -> Terminal \cup {"none"}]
      /\ \A x \in Items : Outstanding(l, known[t])[x] =
                            IF l[x] \in Terminal THEN "none" ELSE known[t][x]
  BY <1>3 DEF Outstanding
<1>6. /\ cache' \in [Tabs -> Views] /\ cache'[t] = Reconciled(l, known[t])
      /\ \A u \in Tabs \ {t} : cache'[u] = cache[u]
  BY <1>1, <1>3, <1>4
<1>7. /\ known' \in [Tabs -> [Items -> Terminal \cup {"none"}]]
      /\ known'[t] = Outstanding(l, known[t])
      /\ \A u \in Tabs \ {t} : known'[u] = known[u]
  BY <1>1, <1>3, <1>5
<1>8. msgid' \in [Tabs -> SUBSET Items]
  BY <1>1, <1>3
<1>9. TypeOK'
  BY <1>1, <1>2, <1>6, <1>7, <1>8 DEF TypeOK, server
<1>10. ASSUME NEW x \in Items
       PROVE  /\ \/ cache'[t][x] = l[x]
                 \/ /\ cache'[t][x] = known[t][x]
                    /\ known'[t][x] = known[t][x] /\ known[t][x] # "none"
              /\ known'[t][x] \in {"none", known[t][x]}
  <2>1. Covered(l, known[t], x) => l[x] \notin Terminal /\ known[t][x] # "none"
    BY DEF Covered, Live, Terminal
  <2> QED
    BY <2>1, <1>4, <1>5, <1>6, <1>7
<1> QED
  BY <1>2, <1>6, <1>7, <1>9, <1>10

\* A probe leaves a refusal latched.
LEMMA ProbedIs ==
    ASSUME NEW m \in Modes, NEW a
    PROVE  Probed(m, a) \in Modes /\ Probed(m, a).refused = m.refused
  BY DEF Modes, Probed

LEMMA ModeIs ==
    ASSUME TypeOK, NEW t \in Tabs, NEW m \in Modes, mode' = [mode EXCEPT ![t] = m],
           mode[t].refused => m.refused
    PROVE  /\ mode' \in [Tabs -> Modes]
           /\ \A u \in Tabs : mode[u].refused => mode'[u].refused
  BY DEF TypeOK

LEMMA RefreshDoes ==
    ASSUME TypeOK, NEW t \in Tabs, Refresh(t)
    PROVE  TypeOK' /\ \A u \in Tabs : mode[u].refused => mode'[u].refused
<1>1. PICK a \in {Answer, "fail"} : mode' = [mode EXCEPT ![t] = Probed(mode[t], a)]
  BY DEF Refresh
<1>2. mode[t] \in Modes
  BY DEF TypeOK
<1>3. /\ mode' \in [Tabs -> Modes]
      /\ \A u \in Tabs : mode[u].refused => mode'[u].refused
  BY <1>1, <1>2, ProbedIs, ModeIs
<1> QED
  BY <1>3 DEF Refresh, TypeOK, server

LEMMA EchoDoes ==
    ASSUME TypeOK, NEW t \in Tabs, NEW i \in Items, Echo(t, i)
    PROVE  /\ TypeOK' /\ i \in delivered
           /\ \A u \in Tabs, x \in Items :
                /\ cache'[u][x] = IF u = t /\ x = i THEN "sent" ELSE cache[u][x]
                /\ known'[u][x] = IF u = t /\ x = i THEN "sent" ELSE known[u][x]
<1>1. /\ cache' = [cache EXCEPT ![t][i] = "sent"] /\ known' = [known EXCEPT ![t][i] = "sent"]
      /\ i \in delivered
  BY DEF Echo
<1>2. /\ cache \in [Tabs -> [Items -> States \cup {"none"}]]
      /\ known \in [Tabs -> [Items -> Terminal \cup {"none"}]]
      /\ "sent" \in Terminal /\ "sent" \in States
  BY DEF TypeOK, Views, States, Terminal
<1>3. /\ cache' \in [Tabs -> [Items -> States \cup {"none"}]]
      /\ \A u \in Tabs, x \in Items :
           cache'[u][x] = IF u = t /\ x = i THEN "sent" ELSE cache[u][x]
  BY <1>1, <1>2, PlaceIs
<1>4. /\ known' \in [Tabs -> [Items -> Terminal \cup {"none"}]]
      /\ \A u \in Tabs, x \in Items :
           known'[u][x] = IF u = t /\ x = i THEN "sent" ELSE known[u][x]
  BY <1>1, <1>2, PlaceIs
<1> QED
  BY <1>1, <1>3, <1>4 DEF Echo, TypeOK, server, Views

\* The drainer's claim: refused by the daemon, or the item is this tab's.
LEMMA DrainDoes ==
    ASSUME TypeOK, NEW t \in Tabs, Drain(t)
    PROVE  /\ TypeOK' /\ job[t]["drain"] = Idle
           /\ \E i \in Items, k \in Jobs :
                /\ Moved(t, "drain", k)
                /\ k.kind = "claim" /\ k.out = "none" /\ k.item = i
                /\ \/ k.step = "refused" /\ srv' = srv
                   \/ /\ k.step = "won" /\ srv[i] = "pending"
                      /\ srv' = [srv EXCEPT ![i] = "dispatching"]
<1>1. /\ job[t]["drain"] = Idle
      /\ \E i \in Items, s \in {"refused", "won"} :
           /\ Set(t, "drain", Job("claim", i, s))
           /\ \/ s = "refused" /\ srv' = srv
              \/ /\ s = "won" /\ srv[i] = "pending"
                 /\ srv' = [srv EXCEPT ![i] = "dispatching"]
  BY IdleIs DEF Drain
<1>2. PICK i \in Items, s \in {"refused", "won"} :
           /\ Set(t, "drain", Job("claim", i, s))
           /\ \/ s = "refused" /\ srv' = srv
              \/ /\ s = "won" /\ srv[i] = "pending"
                 /\ srv' = [srv EXCEPT ![i] = "dispatching"]
  BY <1>1
<1> DEFINE k == Job("claim", i, s)
<1>3. /\ k \in Jobs /\ k.kind = "claim" /\ k.item = i /\ k.step = s /\ k.out = "none"
  BY JobIs DEF Kinds, Steps, Dispatching, Recording
<1>4. Shaped("drain", k)
  BY ONLY <1>3, WhoIs DEF Shaped, StepsOf, Decided, Terminal
<1>5. Set(t, "drain", k)
  BY <1>2
<1> HIDE DEF k
<1>6. /\ job' \in [Tabs -> [Who -> Jobs]] /\ Moved(t, "drain", k)
      /\ \A u \in Tabs, x \in Who : Shaped(x, job'[u][x])
  BY <1>3, <1>4, <1>5, SetIs, WhoIs
<1>7. srv' \in [Items -> States \cup {"none", "gone"}]
  BY <1>2 DEF TypeOK, States, Live
<1>8. TypeOK'
  BY <1>6, <1>7 DEF Drain, TypeOK
<1> QED
  BY <1>1, <1>2, <1>3, <1>6, <1>8

LEMMA ClaimLostDoes ==
    ASSUME TypeOK, NEW t \in Tabs, ClaimLost(t)
    PROVE  TypeOK' /\ Moved(t, "drain", Idle)
  BY IdleMoves, WhoIs DEF ClaimLost, TypeOK, server

\* The claim's answer: a refusal latched, or the dispatch begins.
LEMMA ClaimedDoes ==
    ASSUME TypeOK, NEW t \in Tabs, Claimed(t)
    PROVE  /\ TypeOK' /\ \A u \in Tabs : mode[u].refused => mode'[u].refused
           /\ \/ Moved(t, "drain", Idle) /\ cache' = cache
              \/ \E k \in Jobs :
                   /\ Moved(t, "drain", k) /\ job[t]["drain"].kind = "claim"
                   /\ job[t]["drain"].step = "won" /\ k.item = job[t]["drain"].item
                   /\ k.kind = "drain" /\ k.step = "gate" /\ k.out = "none"
                   /\ \A u \in Tabs, x \in Items :
                        cache'[u][x] = IF u = t /\ x = k.item THEN "dispatching"
                                       ELSE cache[u][x]
<1> DEFINE j == job[t]["drain"]
<1>1. j \in Jobs /\ j.item \in Items /\ "drain" \in Who
  BY WhoIs DEF TypeOK, Jobs
<1>2. /\ mode \in [Tabs -> Modes] /\ msgid \in [Tabs -> SUBSET Items]
      /\ cache \in [Tabs -> [Items -> States \cup {"none"}]]
  BY DEF TypeOK, Views
<1>3. CASE /\ mode' = [mode EXCEPT ![t].refused = TRUE]
           /\ Set(t, "drain", Idle) /\ UNCHANGED <<cache, msgid>>
  <2>1. /\ mode' \in [Tabs -> Modes]
        /\ \A u \in Tabs : mode[u].refused => mode'[u].refused
    BY <1>2, <1>3 DEF Modes
  <2>2. /\ job' \in [Tabs -> [Who -> Jobs]] /\ Moved(t, "drain", Idle)
        /\ \A u \in Tabs, x \in Who : Shaped(x, job'[u][x])
    BY <1>3, IdleMoves, WhoIs
  <2> QED
    BY <1>3, <2>1, <2>2 DEF Claimed, TypeOK, server
<1>4. CASE /\ j.kind = "claim" /\ j.step = "won"
           /\ cache' = [cache EXCEPT ![t][j.item] = "dispatching"]
           /\ msgid' = IF cache[t][j.item] = "none"
                       THEN [msgid EXCEPT ![t] = @ \cup {j.item}] ELSE msgid
           /\ Set(t, "drain", Job("drain", j.item, "gate")) /\ UNCHANGED mode
  <2> DEFINE k == Job("drain", j.item, "gate")
  <2>1. /\ k \in Jobs /\ k.kind = "drain" /\ k.item = j.item /\ k.step = "gate"
        /\ k.out = "none"
    BY <1>1, JobIs DEF Kinds, Steps, Dispatching, Recording
  <2>2. Shaped("drain", k)
    BY ONLY <2>1, WhoIs DEF Shaped, StepsOf, Decided, Terminal, Dispatching
  <2>3. Set(t, "drain", k)
    BY <1>4
  <2>4. msgid' \in [Tabs -> SUBSET Items]
    BY <1>1, <1>2, <1>4
  <2>5. /\ cache' \in [Tabs -> [Items -> States \cup {"none"}]]
        /\ \A u \in Tabs, x \in Items :
             cache'[u][x] = IF u = t /\ x = j.item THEN "dispatching" ELSE cache[u][x]
    <3>1. "dispatching" \in States \cup {"none"}
      BY DEF States, Live
    <3> QED
      BY <1>1, <1>2, <1>4, <3>1, PlaceIs
  <2> HIDE DEF k
  <2>6. /\ job' \in [Tabs -> [Who -> Jobs]] /\ Moved(t, "drain", k)
        /\ \A u \in Tabs, x \in Who : Shaped(x, job'[u][x])
    BY <2>1, <2>2, <2>3, SetIs, WhoIs
  <2>7. TypeOK'
    BY <1>4, <2>4, <2>5, <2>6 DEF Claimed, TypeOK, server, Views
  <2> QED
    BY <1>4, <2>1, <2>5, <2>6, <2>7
<1> QED
  BY <1>3, <1>4 DEF Claimed

\* A click begins a retry of an item shown as unknown; where only the tab knew
\* of it, that is recorded.
LEMMA RetryDoes ==
    ASSUME TypeOK, NEW t \in Tabs, NEW i \in Items, Retry(t, i)
    PROVE  /\ TypeOK' /\ cache[t][i] = "unknown" /\ ~mode[t].refused
           /\ person \subseteq person'
           /\ known[t][i] # "none" => <<"early", i>> \in person'
           /\ \E k \in Jobs :
                /\ Moved(t, "chip", k)
                /\ k.kind = "retry" /\ k.item = i /\ k.step = "probe"
                /\ k.out \in {"custody", "legacy"}
<1> DEFINE k == [Job("retry", i, "probe") EXCEPT !.out = Answer]
<1>1. k \in Jobs /\ k.kind = "retry" /\ k.item = i /\ k.step = "probe" /\ k.out = Answer
  <2>1. LET j == Job("retry", i, "probe") IN
        j \in Jobs /\ j.kind = "retry" /\ j.item = i /\ j.step = "probe"
    BY JobIs DEF Kinds, Steps
  <2>2. Answer \in Outs
    BY DEF Answer, Outs
  <2> QED
    BY <2>1, <2>2 DEF Jobs
<1>2. Answer \in {"custody", "legacy"}
  BY DEF Answer
<1>3. Set(t, "chip", k)
  BY DEF Retry
<1> HIDE DEF k
<1>4. Shaped("chip", k)
  BY ONLY <1>1, <1>2, WhoIs DEF Shaped, StepsOf, Decided, Terminal
<1>5. /\ job' \in [Tabs -> [Who -> Jobs]] /\ Moved(t, "chip", k)
      /\ \A u \in Tabs, x \in Who : Shaped(x, job'[u][x])
  BY <1>1, <1>3, <1>4, SetIs, WhoIs
<1>6. /\ person \subseteq person' /\ person' \subseteq {"early", "sent"} \X Items
      /\ known[t][i] # "none" => <<"early", i>> \in person'
  BY DEF Retry, TypeOK
<1>7. TypeOK'
  BY <1>5, <1>6 DEF Retry, TypeOK, server
<1> QED
  BY <1>1, <1>2, <1>5, <1>6, <1>7 DEF Retry, Modern

\* The probe's answer: the retry goes on, or is over.
LEMMA RetryProbedDoes ==
    ASSUME TypeOK, NEW t \in Tabs, RetryProbed(t)
    PROVE  /\ TypeOK' /\ \A u \in Tabs : mode[u].refused => mode'[u].refused
           /\ \E k \in Jobs :
                /\ Moved(t, "chip", k)
                /\ \/ k = Idle
                   \/ /\ job[t]["chip"].kind = "retry" /\ k.kind = "retry"
                      /\ k.item = job[t]["chip"].item /\ k.step = "gate"
                      /\ k.out \notin Terminal
<1> DEFINE j == job[t]["chip"]
<1>1. PICK a \in {j.out, "fail"} :
        /\ mode' = [mode EXCEPT ![t] = Probed(mode[t], a)]
        /\ Set(t, "chip", IF Confirmed(Probed(mode[t], a))
                          THEN [j EXCEPT !.step = "gate", !.out = a] ELSE Idle)
  BY DEF RetryProbed
<1>2. j \in Jobs /\ Shaped("chip", j) /\ j.step = "probe"
  BY WhoIs DEF TypeOK, RetryProbed
<1>3. j.kind = "retry" /\ j.out \notin Terminal
  BY ONLY <1>2, WhoIs DEF Shaped, StepsOf, Decided, Recording
<1>4. /\ mode' \in [Tabs -> Modes]
      /\ \A u \in Tabs : mode[u].refused => mode'[u].refused
  <2>1. mode[t] \in Modes
    BY DEF TypeOK
  <2> QED
    BY <1>1, <2>1, ProbedIs, ModeIs
<1>5. CASE Set(t, "chip", Idle)
  <2>1. /\ job' \in [Tabs -> [Who -> Jobs]] /\ Moved(t, "chip", Idle)
        /\ \A u \in Tabs, x \in Who : Shaped(x, job'[u][x])
    BY <1>5, IdleMoves, WhoIs
  <2>2. TypeOK'
    BY <1>4, <2>1 DEF RetryProbed, TypeOK, server
  <2> QED
    BY <1>4, <2>1, <2>2, IdleIs
<1>6. CASE Set(t, "chip", [j EXCEPT !.step = "gate", !.out = a])
  <2> DEFINE k == [j EXCEPT !.step = "gate", !.out = a]
  <2>1. k \in Jobs /\ k.kind = "retry" /\ k.item = j.item /\ k.step = "gate" /\ k.out = a
    <3>1. a \in Outs /\ "gate" \in Steps
      BY <1>2 DEF Jobs, Outs, Steps, Dispatching
    <3> QED
      BY <1>2, <1>3, <3>1 DEF Jobs
  <2>2. Set(t, "chip", k)
    BY <1>6
  <2> HIDE DEF k
  <2>3. a \notin Terminal
    BY <1>3 DEF Terminal
  <2>4. Shaped("chip", k)
    BY ONLY <2>1, <2>3, WhoIs DEF Shaped, StepsOf, Decided, Dispatching
  <2>5. /\ job' \in [Tabs -> [Who -> Jobs]] /\ Moved(t, "chip", k)
        /\ \A u \in Tabs, x \in Who : Shaped(x, job'[u][x])
    BY <2>1, <2>2, <2>4, SetIs, WhoIs
  <2>6. TypeOK'
    BY <1>4, <2>5 DEF RetryProbed, TypeOK, server
  <2> QED
    BY <1>3, <1>4, <2>1, <2>3, <2>5, <2>6
<1> QED
  BY <1>1, <1>5, <1>6

\* A job that goes on to another step, with the outcome o.
LEMMA StepIs ==
    ASSUME NEW w \in Who, NEW j \in Jobs, j.kind \in {"drain", "retry", "mark"},
           j.kind \in KindsOf(w), NEW s \in Recording \cup {"posted", "unsent"},
           s \in StepsOf(j.kind), NEW o \in Terminal, j.kind = "mark" => o = "sent",
           NEW k \in Jobs, k.kind = j.kind, k.step = s, k.out = o
    PROVE  Shaped(w, k)
<1>1. s \notin {"probe", "gate", "reply"}
  BY DEF Recording
<1> QED
  BY <1>1 DEF Shaped, Decided

LEMMA GateIs ==
    ASSUME NEW w \in Who, NEW j \in Jobs, Shaped(w, j), j.step \in {"gate", "posted", "unsent"}
    PROVE  /\ j.kind = IF w = "drain" THEN "drain" ELSE "retry"
           /\ {"posted", "unsent", "write"} \subseteq StepsOf(j.kind)
           /\ j.step # "gate" => j.out \in Terminal
           /\ j.step = "gate" => j.out \notin Terminal
  BY ONLY WhoIs, w \in Who, Shaped(w, j), j.step \in {"gate", "posted", "unsent"}
     DEF Shaped, StepsOf, Decided, Dispatching, Recording

\* A POST: only a rejection is known to reach nothing, and only an accepted
\* message is known to be there.
LEMMA PostDoes ==
    ASSUME TypeOK, NEW t \in Tabs, NEW w \in Who, Post(t, w)
    PROVE  /\ TypeOK' /\ job[t][w].step = "gate"
           /\ job[t][w].kind = IF w = "drain" THEN "drain" ELSE "retry"
           /\ job[t][w].out \notin Terminal
           /\ \/ Moved(t, w, Idle) /\ delivered' = delivered /\ flying' = flying
              \/ \E k \in Jobs :
                   /\ Moved(t, w, k) /\ k.kind = job[t][w].kind
                   /\ k.item = job[t][w].item /\ k.step \in {"posted", "unsent"}
                   /\ k.out \in Terminal
                   /\ k.out = "sent" => k.item \in delivered'
                   /\ k.out = "failed" => delivered' = delivered /\ flying' = flying
                   /\ delivered \subseteq delivered' /\ flying \subseteq flying'
                   /\ \A x \in Items \ {k.item} :
                        x \in delivered' \cup flying' => x \in delivered \cup flying
<1> DEFINE j == job[t][w]
<1>1. j \in Jobs /\ Shaped(w, j) /\ j.step = "gate" /\ j.item \in Items
  <2>1. j \in Jobs /\ Shaped(w, j)
    BY DEF TypeOK
  <2>2. j.item \in Items
    BY <2>1 DEF Jobs
  <2> QED
    BY <2>1, <2>2 DEF Post
<1>2. /\ j.kind = IF w = "drain" THEN "drain" ELSE "retry"
      /\ j.out \notin Terminal /\ {"posted", "unsent", "write"} \subseteq StepsOf(j.kind)
      /\ j.kind \in {"drain", "retry"} /\ j.kind \in KindsOf(w)
  BY <1>1, GateIs DEF Shaped
<1>3. delivered \subseteq Items /\ flying \subseteq Items
  BY DEF TypeOK
<1>4. CASE Set(t, w, Idle) /\ UNCHANGED <<delivered, flying>>
  <2>1. /\ job' \in [Tabs -> [Who -> Jobs]] /\ Moved(t, w, Idle)
        /\ \A u \in Tabs, x \in Who : Shaped(x, job'[u][x])
    BY <1>4, IdleMoves
  <2>2. TypeOK'
    BY <1>4, <2>1 DEF Post, TypeOK
  <2> QED
    BY <1>1, <1>2, <1>4, <2>1, <2>2
<1>5. ASSUME NEW s \in {"posted", "unsent"}, NEW o \in Terminal,
             Set(t, w, [j EXCEPT !.step = s, !.out = o]),
             NEW D \in SUBSET {j.item}, NEW F \in SUBSET {j.item},
             delivered' = delivered \cup D, flying' = flying \cup F,
             o = "sent" => j.item \in D, o = "failed" => D = {} /\ F = {}
      PROVE  /\ TypeOK'
             /\ \E k \in Jobs :
                   /\ Moved(t, w, k) /\ k.kind = j.kind
                   /\ k.item = j.item /\ k.step \in {"posted", "unsent"}
                   /\ k.out \in Terminal
                   /\ k.out = "sent" => k.item \in delivered'
                   /\ k.out = "failed" => delivered' = delivered /\ flying' = flying
                   /\ delivered \subseteq delivered' /\ flying \subseteq flying'
                   /\ \A x \in Items \ {k.item} :
                        x \in delivered' \cup flying' => x \in delivered \cup flying
  <2> DEFINE k == [j EXCEPT !.step = s, !.out = o]
  <2>1. k \in Jobs /\ k.kind = j.kind /\ k.item = j.item /\ k.step = s /\ k.out = o
    BY <1>1 DEF Jobs, Steps, Dispatching, Outs
  <2>2. Set(t, w, k)
    BY <1>5
  <2> HIDE DEF k
  <2>3. Shaped(w, k)
    BY <1>1, <1>2, <2>1, StepIs
  <2>4. /\ job' \in [Tabs -> [Who -> Jobs]] /\ Moved(t, w, k)
        /\ \A u \in Tabs, x \in Who : Shaped(x, job'[u][x])
    BY <2>1, <2>2, <2>3, SetIs
  <2>5. delivered' \subseteq Items /\ flying' \subseteq Items
    BY <1>1, <1>3, <1>5
  <2>6. TypeOK'
    BY <2>4, <2>5 DEF Post, TypeOK
  <2> QED
    BY <1>5, <2>1, <2>4, <2>6
<1>6. CASE \E e \in PostEffects :
             /\ Set(t, w, [j EXCEPT !.step = "posted", !.out = e.out])
             /\ delivered' = delivered \cup (IF e.lands = "now" THEN {j.item} ELSE {})
             /\ flying' = flying \cup (IF e.lands = "later" THEN {j.item} ELSE {})
  <2>1. PICK e \in PostEffects :
             /\ Set(t, w, [j EXCEPT !.step = "posted", !.out = e.out])
             /\ delivered' = delivered \cup (IF e.lands = "now" THEN {j.item} ELSE {})
             /\ flying' = flying \cup (IF e.lands = "later" THEN {j.item} ELSE {})
    BY <1>6
  <2>2. /\ e.out \in Terminal
        /\ e.out = "sent" => e.lands = "now"
        /\ e.out = "failed" => e.lands = "never"
    BY DEF PostEffects, Terminal
  <2> DEFINE D == IF e.lands = "now" THEN {j.item} ELSE {}
             F == IF e.lands = "later" THEN {j.item} ELSE {}
  <2>3. /\ D \in SUBSET {j.item} /\ F \in SUBSET {j.item}
        /\ e.out = "sent" => j.item \in D
        /\ e.out = "failed" => D = {} /\ F = {}
    BY <2>2
  <2> QED
    BY <1>1, <1>2, <1>5, <2>1, <2>2, <2>3
<1>7. CASE Set(t, w, [j EXCEPT !.step = "unsent", !.out = "failed"])
           /\ UNCHANGED <<delivered, flying>>
  <2>1. "failed" \in Terminal /\ {} \in SUBSET {j.item}
        /\ delivered' = delivered \cup {} /\ flying' = flying \cup {}
    BY <1>7 DEF Terminal
  <2> QED
    BY <1>1, <1>2, <1>5, <1>7, <2>1
<1> QED
  BY <1>4, <1>6, <1>7 DEF Post

\* The outcome shows at once, and is remembered.
LEMMA OutcomeDoes ==
    ASSUME TypeOK, NEW t \in Tabs, NEW w \in Who, Outcome(t, w)
    PROVE  /\ TypeOK'
           /\ job[t][w].kind = IF w = "drain" THEN "drain" ELSE "retry"
           /\ job[t][w].out \in Terminal
           /\ \A u \in Tabs, x \in Items :
                /\ cache'[u][x] = IF u = t /\ x = job[t][w].item /\ cache[u][x] # "none"
                                  THEN job[t][w].out ELSE cache[u][x]
                /\ known'[u][x] = IF u = t /\ x = job[t][w].item
                                  THEN job[t][w].out ELSE known[u][x]
           /\ \E k \in Jobs :
                /\ Moved(t, w, k) /\ k.kind = job[t][w].kind
                /\ k.item = job[t][w].item /\ k.step = "write" /\ k.out = job[t][w].out
<1> DEFINE j == job[t][w]
<1>1. j \in Jobs /\ Shaped(w, j) /\ j.step \in {"posted", "unsent"} /\ j.item \in Items
  BY DEF TypeOK, Outcome, Jobs
<1>2. /\ j.kind = IF w = "drain" THEN "drain" ELSE "retry"
      /\ j.out \in Terminal /\ {"posted", "unsent", "write"} \subseteq StepsOf(j.kind)
      /\ j.kind \in {"drain", "retry"} /\ j.kind \in KindsOf(w)
  BY <1>1, GateIs DEF Shaped
<1>3. /\ cache \in [Tabs -> [Items -> States \cup {"none"}]]
      /\ known \in [Tabs -> [Items -> Terminal \cup {"none"}]]
      /\ j.out \in States
  BY <1>2 DEF TypeOK, Views, States
<1> DEFINE s == IF cache[t][j.item] = "none" THEN "none" ELSE j.out
<1>4. /\ cache' = [cache EXCEPT ![t][j.item] = s]
      /\ known' = [known EXCEPT ![t][j.item] = j.out]
      /\ s \in States \cup {"none"}
  BY <1>1, <1>3 DEF Outcome
<1>5. /\ cache' \in [Tabs -> [Items -> States \cup {"none"}]]
      /\ \A u \in Tabs, x \in Items :
           cache'[u][x] = IF u = t /\ x = j.item THEN s ELSE cache[u][x]
  <2> HIDE DEF s
  <2> QED
    BY <1>1, <1>3, <1>4, PlaceIs
<1>6. /\ known' \in [Tabs -> [Items -> Terminal \cup {"none"}]]
      /\ \A u \in Tabs, x \in Items :
           known'[u][x] = IF u = t /\ x = j.item THEN j.out ELSE known[u][x]
  BY <1>1, <1>2, <1>3, <1>4, PlaceIs
<1> DEFINE k == [j EXCEPT !.step = "write", !.tries = 1]
<1>7. /\ k \in Jobs /\ k.kind = j.kind /\ k.item = j.item /\ k.step = "write"
      /\ k.out = j.out
  <2>1. 1 \in 0..MaxWrites /\ "write" \in Steps
    BY ViewAssumption DEF Steps, Dispatching, Recording
  <2> QED
    BY <1>1, <2>1 DEF Jobs
<1>8. Set(t, w, k)
  BY DEF Outcome
<1> HIDE DEF k
<1>9. Shaped(w, k)
  BY <1>1, <1>2, <1>7, StepIs DEF Recording
<1>10. /\ job' \in [Tabs -> [Who -> Jobs]] /\ Moved(t, w, k)
       /\ \A u \in Tabs, x \in Who : Shaped(x, job'[u][x])
  BY <1>7, <1>8, <1>9, SetIs
<1>11. TypeOK'
  BY <1>5, <1>6, <1>10 DEF Outcome, TypeOK, server, Views
<1> QED
  BY <1>2, <1>5, <1>6, <1>7, <1>10, <1>11

\* A person's word that a message was sent.
LEMMA MarkSentDoes ==
    ASSUME TypeOK, NEW t \in Tabs, NEW i \in Items, MarkSent(t, i)
    PROVE  /\ TypeOK' /\ person \subseteq person' /\ <<"sent", i>> \in person'
           /\ \A u \in Tabs, x \in Items :
                /\ cache'[u][x] = IF u = t /\ x = i THEN "sent" ELSE cache[u][x]
                /\ known'[u][x] = IF u = t /\ x = i THEN "sent" ELSE known[u][x]
           /\ \E k \in Jobs :
                /\ Moved(t, "chip", k) /\ k.kind = "mark" /\ k.item = i
                /\ k.step = "write" /\ k.out = "sent"
<1>1. /\ cache' = [cache EXCEPT ![t][i] = "sent"] /\ known' = [known EXCEPT ![t][i] = "sent"]
      /\ person' = person \cup {<<"sent", i>>}
  BY DEF MarkSent
<1>2. /\ cache \in [Tabs -> [Items -> States \cup {"none"}]]
      /\ known \in [Tabs -> [Items -> Terminal \cup {"none"}]]
      /\ "sent" \in Terminal /\ "sent" \in States
  BY DEF TypeOK, Views, States, Terminal
<1>3. /\ cache' \in [Tabs -> [Items -> States \cup {"none"}]]
      /\ \A u \in Tabs, x \in Items :
           cache'[u][x] = IF u = t /\ x = i THEN "sent" ELSE cache[u][x]
  BY <1>1, <1>2, PlaceIs
<1>4. /\ known' \in [Tabs -> [Items -> Terminal \cup {"none"}]]
      /\ \A u \in Tabs, x \in Items :
           known'[u][x] = IF u = t /\ x = i THEN "sent" ELSE known[u][x]
  BY <1>1, <1>2, PlaceIs
<1>5. person' \subseteq {"early", "sent"} \X Items
  BY <1>1 DEF TypeOK
<1> DEFINE b == Job("mark", i, "write")
           k == [b EXCEPT !.out = "sent", !.tries = 1]
<1>6. b \in Jobs /\ b.kind = "mark" /\ b.item = i /\ b.step = "write"
  BY JobIs DEF Kinds, Steps, Dispatching, Recording
<1>7. k \in Jobs /\ k.kind = "mark" /\ k.item = i /\ k.step = "write" /\ k.out = "sent"
  <2> HIDE DEF b
  <2>1. 1 \in 0..MaxWrites /\ "sent" \in Outs
    BY ViewAssumption DEF Outs, Terminal
  <2> QED
    BY <1>6, <2>1 DEF Jobs
<1>8. Set(t, "chip", k)
  BY DEF MarkSent
<1> HIDE DEF k, b
<1>9. /\ b.kind \in {"drain", "retry", "mark"} /\ b.kind \in KindsOf("chip")
      /\ "write" \in Recording /\ "write" \in StepsOf(b.kind)
  BY <1>6, WhoIs DEF StepsOf, Recording
<1>10. Shaped("chip", k)
  BY <1>2, <1>6, <1>7, <1>9, StepIs, WhoIs
<1>11. /\ job' \in [Tabs -> [Who -> Jobs]] /\ Moved(t, "chip", k)
       /\ \A u \in Tabs, x \in Who : Shaped(x, job'[u][x])
  BY <1>7, <1>8, <1>10, SetIs, WhoIs
<1>12. TypeOK'
  BY <1>3, <1>4, <1>5, <1>11 DEF MarkSent, TypeOK, server, Views
<1> QED
  BY <1>1, <1>3, <1>4, <1>7, <1>11, <1>12

LEMMA RecordingIs ==
    ASSUME NEW w \in Who, NEW j \in Jobs, Shaped(w, j), j.step \in Recording, j.kind # "claim"
    PROVE  /\ j.kind \in {"drain", "retry", "mark"} /\ j.kind \in KindsOf(w)
           /\ w = "drain" => j.kind = "drain"
           /\ w = "chip" => j.kind \in {"retry", "mark"}
           /\ j.out \in Terminal /\ Recording \subseteq StepsOf(j.kind)
           /\ j.kind = "mark" => j.out = "sent"
  BY ONLY WhoIs, w \in Who, Shaped(w, j), j.step \in Recording, j.kind # "claim"
     DEF Shaped, StepsOf, Decided, Dispatching, Recording

\* A write of the outcome: the server resolves or not, and the verdict or an
\* error is the answer.
LEMMA WriteDoes ==
    ASSUME TypeOK, NEW t \in Tabs, NEW w \in Who, Write(t, w)
    PROVE  /\ TypeOK' /\ job[t][w].step = "write"
           /\ w = "drain" <=> job[t][w].kind = "drain"
           /\ job[t][w].kind \in {"drain", "retry", "mark"}
           /\ job[t][w].kind = "mark" => job[t][w].out = "sent"
           /\ job[t][w].out \in Terminal /\ job[t][w].item \in Items
           /\ srv' = IF ~custody /\ Resolves(job[t][w].item, job[t][w].out)
                     THEN [srv EXCEPT ![job[t][w].item] = job[t][w].out] ELSE srv
           /\ \E k \in Jobs :
                /\ Moved(t, w, k) /\ k.kind = job[t][w].kind
                /\ k.item = job[t][w].item /\ k.out = job[t][w].out
                /\ k.step \in {"error", Verdict(k.item, k.out)}
<1> DEFINE j == job[t][w]
<1>1. j \in Jobs /\ Shaped(w, j) /\ j.step = "write" /\ j.item \in Items
  <2>1. j \in Jobs /\ Shaped(w, j)
    BY DEF TypeOK
  <2>2. j.item \in Items
    BY <2>1 DEF Jobs
  <2> QED
    BY <2>1, <2>2 DEF Write
<1>2. "write" \in StepsOf("claim") => FALSE
  BY DEF StepsOf
<1>3. /\ j.kind \in {"drain", "retry", "mark"} /\ j.kind \in KindsOf(w)
      /\ w = "drain" <=> j.kind = "drain"
      /\ j.out \in Terminal /\ Recording \subseteq StepsOf(j.kind)
      /\ j.kind = "mark" => j.out = "sent"
  <2>1. j.step \in Recording /\ j.kind # "claim"
    BY <1>1, <1>2 DEF Recording, Shaped
  <2> QED
    BY <1>1, <2>1, RecordingIs, WhoIs
<1> DEFINE v == Verdict(j.item, j.out)
<1>4. PICK s \in {"error", v} : Set(t, w, [j EXCEPT !.step = s])
  BY DEF Write
<1>5. s \in Recording
  BY DEF Recording, Verdict
<1> HIDE DEF v
<1> DEFINE k == [j EXCEPT !.step = s]
<1>6. /\ k \in Jobs /\ k.kind = j.kind /\ k.item = j.item /\ k.step = s /\ k.out = j.out
  BY <1>1, <1>5 DEF Jobs, Steps, Dispatching
<1>7. Set(t, w, k)
  BY <1>4
<1> HIDE DEF k
<1>8. Shaped(w, k)
  BY <1>1, <1>3, <1>5, <1>6, StepIs
<1>9. /\ job' \in [Tabs -> [Who -> Jobs]] /\ Moved(t, w, k)
      /\ \A u \in Tabs, x \in Who : Shaped(x, job'[u][x])
  BY <1>6, <1>7, <1>8, SetIs
<1>10. srv' = IF ~custody /\ Resolves(j.item, j.out)
              THEN [srv EXCEPT ![j.item] = j.out] ELSE srv
  BY DEF Write
<1>11. srv' \in [Items -> States \cup {"none", "gone"}]
  BY <1>3, <1>10 DEF TypeOK, States
<1>12. TypeOK'
  BY <1>9, <1>11 DEF Write, TypeOK
<1>13. k.step \in {"error", Verdict(k.item, k.out)}
  BY <1>6 DEF v
<1> QED
  BY <1>1, <1>3, <1>6, <1>9, <1>10, <1>12, <1>13

\* The answer of a write: shown, or the overlay gives way, or tried again.
LEMMA WrittenDoes ==
    ASSUME TypeOK, NEW t \in Tabs, NEW w \in Who, Written(t, w)
    PROVE  /\ TypeOK' /\ job[t][w].kind \in {"drain", "retry", "mark"}
           /\ w = "drain" => job[t][w].kind = "drain"
           /\ \A u \in Tabs : mode[u].refused => mode'[u].refused
           /\ job[t][w].step = "refused" => mode'[t].refused
           /\ \A u \in Tabs, x \in Items :
                /\ cache'[u][x] =
                     IF u = t /\ x = job[t][w].item /\ job[t][w].step = "recorded"
                        /\ cache[u][x] # "none"
                     THEN job[t][w].out ELSE cache[u][x]
                /\ known'[u][x] =
                     IF u = t /\ x = job[t][w].item /\ job[t][w].step \in {"conflict", "refused"}
                     THEN "none" ELSE known[u][x]
           /\ \E k \in Jobs :
                /\ Moved(t, w, k)
                /\ \/ k = Idle
                   \/ /\ k.kind = job[t][w].kind /\ k.item = job[t][w].item
                      /\ k.step = "write" /\ k.out = job[t][w].out
<1> DEFINE j == job[t][w]
<1>1. j \in Jobs /\ Shaped(w, j) /\ j.step \in Recording /\ j.kind # "claim" /\ j.item \in Items
  <2>1. j \in Jobs /\ Shaped(w, j)
    BY DEF TypeOK
  <2>2. j.item \in Items
    BY <2>1 DEF Jobs
  <2> QED
    BY <2>1, <2>2 DEF Written, Recording
<1>2. /\ j.kind \in {"drain", "retry", "mark"} /\ j.kind \in KindsOf(w)
      /\ w = "drain" => j.kind = "drain"
      /\ j.out \in Terminal /\ Recording \subseteq StepsOf(j.kind)
      /\ j.kind = "mark" => j.out = "sent"
  BY <1>1, RecordingIs
<1>3. /\ cache' = IF j.step = "recorded" /\ cache[t][j.item] # "none"
                  THEN [cache EXCEPT ![t][j.item] = j.out] ELSE cache
      /\ known' = IF j.step \in {"conflict", "refused"}
                  THEN [known EXCEPT ![t] = OverlayDropped(@, j.item)] ELSE known
      /\ mode' = IF j.step = "refused" THEN [mode EXCEPT ![t].refused = TRUE] ELSE mode
      /\ Set(t, w, IF j.step = "error" /\ j.tries < MaxWrites
                   THEN [j EXCEPT !.step = "write", !.tries = @ + 1] ELSE Idle)
  BY DEF Written
<1>4. /\ cache \in [Tabs -> [Items -> States \cup {"none"}]]
      /\ known \in [Tabs -> [Items -> Terminal \cup {"none"}]]
      /\ mode \in [Tabs -> Modes] /\ j.out \in States
  BY <1>2 DEF TypeOK, Views, States
<1>5. /\ cache' \in [Tabs -> [Items -> States \cup {"none"}]]
      /\ \A u \in Tabs, x \in Items :
           cache'[u][x] = IF u = t /\ x = j.item /\ j.step = "recorded" /\ cache[u][x] # "none"
                          THEN j.out ELSE cache[u][x]
  <2>1. CASE j.step = "recorded" /\ cache[t][j.item] # "none"
    <3>1. /\ cache' \in [Tabs -> [Items -> States \cup {"none"}]]
          /\ \A u \in Tabs, x \in Items :
               cache'[u][x] = IF u = t /\ x = j.item THEN j.out ELSE cache[u][x]
      BY <1>1, <1>3, <1>4, <2>1, PlaceIs
    <3> QED
      BY <2>1, <3>1
  <2>2. CASE ~(j.step = "recorded" /\ cache[t][j.item] # "none")
    BY <1>3, <1>4, <2>2
  <2> QED
    BY <2>1, <2>2
<1>6. /\ known' \in [Tabs -> [Items -> Terminal \cup {"none"}]]
      /\ \A u \in Tabs, x \in Items :
           known'[u][x] = IF u = t /\ x = j.item /\ j.step \in {"conflict", "refused"}
                          THEN "none" ELSE known[u][x]
  BY <1>1, <1>3, <1>4 DEF OverlayDropped
<1>7. /\ mode' \in [Tabs -> Modes] /\ \A u \in Tabs : mode[u].refused => mode'[u].refused
      /\ j.step = "refused" => mode'[t].refused
  BY <1>3, <1>4 DEF Modes
<1>8. \E k \in Jobs :
        /\ Set(t, w, k) /\ Shaped(w, k)
        /\ \/ k = Idle
           \/ /\ k.kind = j.kind /\ k.item = j.item
              /\ k.step = "write" /\ k.out = j.out
  <2>1. CASE j.step = "error" /\ j.tries < MaxWrites
    <3> DEFINE k == [j EXCEPT !.step = "write", !.tries = j.tries + 1]
    <3>1. j.tries + 1 \in 0..MaxWrites /\ "write" \in Steps
      BY <1>1, <2>1, ViewAssumption DEF Jobs, Steps, Dispatching, Recording
    <3>2. k \in Jobs /\ k.kind = j.kind /\ k.item = j.item /\ k.step = "write" /\ k.out = j.out
      BY <1>1, <3>1 DEF Jobs
    <3>3. Set(t, w, k)
      BY <1>3, <2>1
    <3> HIDE DEF k
    <3>4. Shaped(w, k)
      BY <1>1, <1>2, <3>2, StepIs DEF Recording
    <3> QED
      BY <3>2, <3>3, <3>4
  <2>2. CASE ~(j.step = "error" /\ j.tries < MaxWrites)
    BY <1>3, <2>2, IdleIs
  <2> QED
    BY <2>1, <2>2
<1>9. PICK k \in Jobs :
        /\ Set(t, w, k) /\ Shaped(w, k)
        /\ \/ k = Idle
           \/ /\ k.kind = j.kind /\ k.item = j.item
              /\ k.step = "write" /\ k.out = j.out
  BY <1>8
<1>10. /\ job' \in [Tabs -> [Who -> Jobs]] /\ Moved(t, w, k)
       /\ \A u \in Tabs, x \in Who : Shaped(x, job'[u][x])
  BY <1>9, SetIs
<1>11. TypeOK'
  BY <1>5, <1>6, <1>7, <1>10 DEF Written, TypeOK, server, Views
<1> QED
  BY <1>2, <1>5, <1>6, <1>7, <1>9, <1>10, <1>11

\* A chip's call that waits for its reply.
LEMMA CallIs ==
    ASSUME TypeOK, NEW t \in Tabs, NEW i \in Items,
           NEW kind \in {"enqueue", "escalate", "remove"}, NEW o \in {"pending", "none"},
           NEW k, k = [Job(kind, i, "reply") EXCEPT !.out = o], Set(t, "chip", k)
    PROVE  /\ job' \in [Tabs -> [Who -> Jobs]]
           /\ \A u \in Tabs, x \in Who : Shaped(x, job'[u][x])
           /\ k \in Jobs /\ Moved(t, "chip", k) /\ k.step = "reply"
<1> DEFINE b == Job(kind, i, "reply")
<1>1. b \in Jobs /\ b.kind = kind /\ b.item = i /\ b.step = "reply"
  BY JobIs DEF Kinds, Steps
<1>2. k = [b EXCEPT !.out = o]
  OBVIOUS
<1> HIDE DEF b
<1>3. k \in Jobs /\ k.kind = kind /\ k.item = i /\ k.step = "reply" /\ k.out = o
  <2>1. o \in Outs
    BY DEF Outs
  <2> QED
    BY ONLY <1>1, <1>2, <2>1 DEF Jobs
<1>4. Shaped("chip", k)
  BY <1>3, WhoIs DEF Shaped, StepsOf, Decided, Terminal
<1> QED
  BY <1>3, <1>4, SetIs, WhoIs

LEMMA EnqueueDoes ==
    ASSUME TypeOK, NEW t \in Tabs, NEW i \in Items, Enqueue(t, i)
    PROVE  /\ TypeOK' /\ srv[i] = "none" /\ srv' = [srv EXCEPT ![i] = "pending"]
           /\ \E k \in Jobs : Moved(t, "chip", k) /\ k.step = "reply"
<1>1. /\ srv[i] = "none" /\ srv' = [srv EXCEPT ![i] = "pending"]
      /\ Set(t, "chip", [Job("enqueue", i, "reply") EXCEPT !.out = "pending"])
  BY DEF Enqueue
<1>2. srv' \in [Items -> States \cup {"none", "gone"}]
  BY <1>1 DEF TypeOK, States, Live
<1>3. /\ job' \in [Tabs -> [Who -> Jobs]]
      /\ \A u \in Tabs, x \in Who : Shaped(x, job'[u][x])
      /\ \E k \in Jobs : Moved(t, "chip", k) /\ k.step = "reply"
  <2> DEFINE k == [Job("enqueue", i, "reply") EXCEPT !.out = "pending"]
  <2>1. Set(t, "chip", k)
    BY DEF Enqueue
  <2> QED
    BY <2>1, CallIs
<1> QED
  BY <1>1, <1>2, <1>3 DEF Enqueue, TypeOK

LEMMA EscalateDoes ==
    ASSUME TypeOK, NEW t \in Tabs, NEW i \in Items, Escalate(t, i)
    PROVE  TypeOK' /\ \E k \in Jobs : Moved(t, "chip", k) /\ k.step = "reply"
<1>1. /\ job' \in [Tabs -> [Who -> Jobs]]
      /\ \A u \in Tabs, x \in Who : Shaped(x, job'[u][x])
      /\ \E k \in Jobs : Moved(t, "chip", k) /\ k.step = "reply"
  <2> DEFINE k == [Job("escalate", i, "reply") EXCEPT !.out = "pending"]
  <2>1. Set(t, "chip", k)
    BY DEF Escalate
  <2> QED
    BY <2>1, CallIs
<1> QED
  BY <1>1 DEF Escalate, TypeOK, server

LEMMA RemoveDoes ==
    ASSUME TypeOK, NEW t \in Tabs, NEW i \in Items, Remove(t, i)
    PROVE  /\ TypeOK' /\ srv' = [srv EXCEPT ![i] = "gone"]
           /\ \E k \in Jobs : Moved(t, "chip", k) /\ k.step = "reply"
<1>1. /\ srv' = [srv EXCEPT ![i] = "gone"]
      /\ Set(t, "chip", [Job("remove", i, "reply") EXCEPT !.out = "none"])
  BY DEF Remove
<1>2. srv' \in [Items -> States \cup {"none", "gone"}]
  BY <1>1 DEF TypeOK
<1>3. /\ job' \in [Tabs -> [Who -> Jobs]]
      /\ \A u \in Tabs, x \in Who : Shaped(x, job'[u][x])
      /\ \E k \in Jobs : Moved(t, "chip", k) /\ k.step = "reply"
  <2> DEFINE k == [Job("remove", i, "reply") EXCEPT !.out = "none"]
  <2>1. Set(t, "chip", k)
    BY DEF Remove
  <2> QED
    BY <2>1, CallIs
<1> QED
  BY <1>1, <1>2, <1>3 DEF Remove, TypeOK

\* A reply shows an item as waiting or as gone, never as settled.
LEMMA ReplyDoes ==
    ASSUME TypeOK, NEW t \in Tabs, Reply(t)
    PROVE  /\ TypeOK' /\ Moved(t, "chip", Idle)
           /\ \A u \in Tabs, x \in Items :
                cache'[u][x] \in {"pending", "none", cache[u][x]}
<1> DEFINE j == job[t]["chip"]
<1>1. j \in Jobs /\ Shaped("chip", j) /\ j.step = "reply" /\ j.item \in Items
  <2>1. j \in Jobs /\ Shaped("chip", j)
    BY WhoIs DEF TypeOK
  <2>2. j.item \in Items
    BY <2>1 DEF Jobs
  <2> QED
    BY <2>1, <2>2 DEF Reply
<1>2. j.out \in {"pending", "none"}
  BY <1>1 DEF Shaped
<1> DEFINE s == IF j.kind = "enqueue" THEN Upsert(cache[t][j.item], j.out) ELSE j.out
<1>3. /\ cache' = [cache EXCEPT ![t][j.item] = s]
      /\ msgid' = IF j.kind = "enqueue" THEN msgid ELSE [msgid EXCEPT ![t] = @ \ {j.item}]
      /\ Set(t, "chip", Idle)
  BY DEF Reply
<1>4. s \in {"pending", "none", cache[t][j.item]}
  BY <1>2 DEF Upsert
<1> HIDE DEF s
<1>5. /\ cache \in [Tabs -> [Items -> States \cup {"none"}]]
      /\ msgid \in [Tabs -> SUBSET Items] /\ "pending" \in States
  BY DEF TypeOK, Views, States, Live
<1>6. /\ cache' \in [Tabs -> [Items -> States \cup {"none"}]]
      /\ \A u \in Tabs, x \in Items :
           cache'[u][x] = IF u = t /\ x = j.item THEN s ELSE cache[u][x]
  <2>1. s \in States \cup {"none"}
    BY <1>1, <1>4, <1>5
  <2> QED
    BY <1>1, <1>3, <1>5, <2>1, PlaceIs
<1>7. msgid' \in [Tabs -> SUBSET Items]
  BY <1>3, <1>5
<1>8. /\ job' \in [Tabs -> [Who -> Jobs]] /\ Moved(t, "chip", Idle)
      /\ \A u \in Tabs, x \in Who : Shaped(x, job'[u][x])
  BY <1>3, IdleMoves, WhoIs
<1>9. TypeOK'
  BY <1>6, <1>7, <1>8 DEF Reply, TypeOK, server, Views
<1> QED
  BY <1>4, <1>6, <1>8, <1>9

LEMMA ReplyLostDoes ==
    ASSUME TypeOK, NEW t \in Tabs, ReplyLost(t)
    PROVE  TypeOK' /\ Moved(t, "chip", Idle)
  BY IdleMoves, WhoIs DEF ReplyLost, TypeOK, server

LEMMA OutsideDoes ==
    ASSUME TypeOK, NEW i \in Items, Lands(i) \/ OtherDispatch(i) \/ Recover(i) \/ Flip
    PROVE  TypeOK'
<1>1. CASE Lands(i)
  BY <1>1 DEF TypeOK, Lands
<1>2. CASE OtherDispatch(i)
  BY <1>2 DEF TypeOK, OtherDispatch, States, Live
<1>3. CASE Recover(i)
  BY <1>3 DEF TypeOK, Recover, States, Live, Terminal
<1>4. CASE Flip
  <2>1. flips' \in 0..MaxFlips /\ custody' \in BOOLEAN
    BY <1>4, ViewAssumption DEF TypeOK, Flip
  <2> QED
    BY <1>4, <2>1 DEF TypeOK, Flip
<1> QED
  BY <1>1, <1>2, <1>3, <1>4

(***************************************************************************)
(* The invariant, item by item.                                            *)
(***************************************************************************)

\* Out of reach of a failure report: the server has left dispatching for a
\* state it never leaves for failed, or the exception has been recorded.
Safe(i) == srv[i] \in {"unknown", "sent", "gone"} \/ <<"early", i>> \in person
True(i) == i \in delivered \/ <<"sent", i>> \in person
Posted == delivered \cup flying

\* Some place says s of item i.
Says(i, s) ==
    \/ srv[i] = s
    \/ \E t \in Tabs : \/ cache[t][i] = s
                       \/ known[t][i] = s
                       \/ \E l \in lists[t] : l[i] = s
                       \/ \E w \in Who : job[t][w].item = i /\ job[t][w].out = s

\* The drainer's job has claimed item i ...
Holds(j, i) ==
    j.item = i /\ (j.kind = "drain" \/ (j.kind = "claim" /\ j.step = "won"))
\* ... and may still, or does, report it failed.
Chance(j) == j.kind = "claim" \/ j.step = "gate" \/ j.out = "failed"
Closed(i) ==
    /\ srv[i] = "dispatching"
    /\ \A t \in Tabs : Holds(job[t]["drain"], i) => ~Chance(job[t]["drain"])

\* Every sent is true; unknown is said where nobody can report failed any more.
SentOK(i) == Says(i, "sent") => True(i)
DoubtOK(i) == Says(i, "unknown") => Safe(i) \/ Closed(i)
\* Where the tab's unknown has no overlay, it is the server's too.
ListOK(i) == \A t \in Tabs : \A l \in lists[t] : l[i] = "unknown" => Safe(i)
KnownOK(i) ==
    \A t \in Tabs :
        cache[t][i] = "unknown" => \/ known[t][i] # "none"
                                   \/ mode[t].refused
                                   \/ Safe(i)
\* What waits, or failed, has not been posted.
FreshOK(i) == srv[i] \in {"none", "pending", "failed"} => i \notin Posted \/ Safe(i)
\* One drainer at most holds an item, and one that may report failed has not
\* posted it.
HoldOK(i) ==
    \A t \in Tabs :
        Holds(job[t]["drain"], i) =>
            /\ srv[i] \notin {"none", "pending"}
            /\ \A u \in Tabs : Holds(job[u]["drain"], i) => u = t
            /\ Chance(job[t]["drain"]) => i \notin Posted \/ Safe(i)
            /\ srv[i] = "failed" => job[t]["drain"].out = "failed" \/ Safe(i)
\* A retry is of an item nobody can fail; what a write's answer says.
JobGood(j, s, safe) ==
    /\ j.kind = "retry" => safe
    /\ j.kind # "claim" /\ j.step = "recorded" /\ j.out = "unknown" => safe
    /\ j.step = "conflict" => safe \/ s = "failed"
JobOK(i) ==
    \A t \in Tabs, w \in Who :
        job[t][w].item = i => JobGood(job[t][w], srv[i], Safe(i))

ItemInv(i) == /\ SentOK(i) /\ DoubtOK(i) /\ ListOK(i) /\ KnownOK(i)
              /\ FreshOK(i) /\ HoldOK(i) /\ JobOK(i)
ViewInv == TypeOK /\ \A i \in Items : ItemInv(i)

\* What a step says of an item was said before, or is true.
Heard(i, s) == Says(i, s) \/ (s = "sent" /\ True(i)')
Quiet(i) == \A s \in {"sent", "unknown"} : Says(i, s)' => Heard(i, s)
\* A drainer's next job holds no more, and may fail no more, than the last.
Follows(j, k, i) ==
    Holds(k, i) => /\ Holds(j, i) /\ (Chance(k) => Chance(j))
                   /\ j.out = "failed" => k.out = "failed"
Followed(i) == \A t \in Tabs : Follows(job[t]["drain"], job'[t]["drain"], i)
GoodJobs(i) ==
    \A t \in Tabs, w \in Who :
        \/ job'[t][w] = job[t][w]
        \/ job'[t][w].item = i => JobGood(job'[t][w], srv'[i], Safe(i)')
Grows == delivered \subseteq delivered' /\ person \subseteq person'

\* What holds of item i goes on to, unless a step touches it at the server.
LEMMA Kept ==
    ASSUME NEW i \in Items, ItemInv(i), Grows, srv'[i] = srv[i],
           i \in Posted' => i \in Posted,
           Quiet(i), ListOK(i)', KnownOK(i)', Followed(i), GoodJobs(i)
    PROVE  ItemInv(i)'
<1>1. (Safe(i) => Safe(i)') /\ (True(i) => True(i)')
  BY DEF Safe, True, Grows
<1>2. SentOK(i)'
  BY <1>1 DEF ItemInv, SentOK, Quiet, Heard
<1>3. ASSUME NEW t \in Tabs, Holds(job'[t]["drain"], i)
      PROVE  /\ Holds(job[t]["drain"], i)
             /\ Chance(job'[t]["drain"]) => Chance(job[t]["drain"])
             /\ job[t]["drain"].out = "failed" => job'[t]["drain"].out = "failed"
  BY ONLY <1>3, Followed(i) DEF Followed, Follows
<1>4. DoubtOK(i)'
  <2>1. Closed(i) => Closed(i)'
    BY ONLY <1>3, srv'[i] = srv[i] DEF Closed
  <2> QED
    BY <1>1, <2>1 DEF ItemInv, DoubtOK, Quiet, Heard
<1>5. FreshOK(i)'
  BY <1>1 DEF ItemInv, FreshOK
<1>6. HoldOK(i)'
  <2> SUFFICES ASSUME NEW t \in Tabs, Holds(job'[t]["drain"], i)
               PROVE  /\ srv'[i] \notin {"none", "pending"}
                      /\ \A u \in Tabs : Holds(job'[u]["drain"], i) => u = t
                      /\ Chance(job'[t]["drain"]) => i \notin Posted' \/ Safe(i)'
                      /\ srv'[i] = "failed" => job'[t]["drain"].out = "failed" \/ Safe(i)'
    BY DEF HoldOK
  <2>1. /\ srv[i] \notin {"none", "pending"}
        /\ \A u \in Tabs : Holds(job[u]["drain"], i) => u = t
        /\ Chance(job[t]["drain"]) => i \notin Posted \/ Safe(i)
        /\ srv[i] = "failed" => job[t]["drain"].out = "failed" \/ Safe(i)
    BY <1>3 DEF ItemInv, HoldOK
  <2> QED
    BY <1>1, <1>3, <2>1
<1>7. JobOK(i)'
  <2> SUFFICES ASSUME NEW t \in Tabs, NEW w \in Who, job'[t][w].item = i
               PROVE  JobGood(job'[t][w], srv'[i], Safe(i)')
    BY DEF JobOK
  <2>1. CASE job'[t][w] = job[t][w]
    <3>1. JobGood(job[t][w], srv[i], Safe(i))
      BY <2>1 DEF ItemInv, JobOK
    <3> QED
      BY <1>1, <2>1, <3>1 DEF JobGood
  <2>2. CASE job'[t][w].item = i => JobGood(job'[t][w], srv'[i], Safe(i)')
    BY <2>2
  <2> QED
    BY <2>1, <2>2 DEF GoodJobs
<1> QED
  BY <1>2, <1>4, <1>5, <1>6, <1>7 DEF ItemInv

LEMMA StillJobs ==
    ASSUME job' = job, NEW i \in Items
    PROVE  Followed(i) /\ GoodJobs(i)
  BY DEF Followed, Follows, GoodJobs

LEMMA MovedJobs ==
    ASSUME NEW t \in Tabs, NEW w \in Who, NEW k \in Jobs, Moved(t, w, k),
           NEW i \in Items, w = "drain" => Follows(job[t][w], k, i),
           k.item = i => JobGood(k, srv'[i], Safe(i)')
    PROVE  Followed(i) /\ GoodJobs(i)
<1>1. ASSUME NEW u \in Tabs, NEW x \in Who
      PROVE  job'[u][x] = IF u = t /\ x = w THEN k ELSE job[u][x]
  BY DEF Moved
<1>2. ASSUME NEW u \in Tabs PROVE Follows(job[u]["drain"], job'[u]["drain"], i)
  <2>1. CASE u = t /\ w = "drain"
    BY <1>1, <2>1
  <2>2. CASE ~(u = t /\ w = "drain")
    <3>1. job'[u]["drain"] = job[u]["drain"]
      BY <1>1, <2>2, WhoIs
    <3> QED
      BY <3>1 DEF Follows
  <2> QED
    BY <2>1, <2>2
<1>3. GoodJobs(i)
  <2> SUFFICES ASSUME NEW u \in Tabs, NEW x \in Who
               PROVE  \/ job'[u][x] = job[u][x]
                      \/ job'[u][x].item = i => JobGood(job'[u][x], srv'[i], Safe(i)')
    BY DEF GoodJobs
  <2> QED
    BY <1>1
<1> QED
  BY <1>2, <1>3 DEF Followed

\* A job that is over claims nothing and says nothing.
LEMMA IdleJobs ==
    ASSUME NEW t \in Tabs, NEW w \in Who, Moved(t, w, Idle), NEW i \in Items
    PROVE  Followed(i) /\ GoodJobs(i)
<1>1. Follows(job[t][w], Idle, i) /\ JobGood(Idle, srv'[i], Safe(i)')
  BY IdleIs DEF Follows, Holds, JobGood
<1> QED
  BY <1>1, IdleIs, MovedJobs

\* A move of jobs says nothing new, if the next job says nothing new.
LEMMA MovedSays ==
    ASSUME NEW t \in Tabs, NEW w \in Who, NEW k, Moved(t, w, k),
           NEW i \in Items, NEW s, k.item = i /\ k.out = s => Says(i, s),
           NEW u \in Tabs, NEW x \in Who, job'[u][x].item = i, job'[u][x].out = s
    PROVE  Says(i, s)
  BY DEF Moved, Says

SrvQuiet(i) == \A s \in {"sent", "unknown"} : srv'[i] = s => Heard(i, s)
CacheQuiet(i) ==
    \A s \in {"sent", "unknown"}, t \in Tabs : cache'[t][i] = s => Heard(i, s)
KnownQuiet(i) ==
    \A s \in {"sent", "unknown"}, t \in Tabs : known'[t][i] = s => Heard(i, s)
ListQuiet(i) ==
    \A s \in {"sent", "unknown"}, t \in Tabs : \A l \in lists'[t] : l[i] = s => Heard(i, s)
JobQuiet(i) ==
    \A s \in {"sent", "unknown"}, t \in Tabs, w \in Who :
        job'[t][w].item = i /\ job'[t][w].out = s => Heard(i, s)

LEMMA QuietIs ==
    ASSUME NEW i \in Items, SrvQuiet(i), CacheQuiet(i), KnownQuiet(i), ListQuiet(i), JobQuiet(i)
    PROVE  Quiet(i)
  BY DEF Quiet, Says, SrvQuiet, CacheQuiet, KnownQuiet, ListQuiet, JobQuiet

\* What stays as it was is heard.
LEMMA StillHeard ==
    ASSUME NEW i \in Items
    PROVE  /\ srv'[i] = srv[i] => SrvQuiet(i)
           /\ cache' = cache => CacheQuiet(i)
           /\ known' = known => KnownQuiet(i)
           /\ (\A t \in Tabs : lists'[t] \subseteq lists[t]) => ListQuiet(i)
           /\ lists' = lists => ListQuiet(i)
           /\ job' = job => JobQuiet(i)
  BY DEF Heard, Says, SrvQuiet, CacheQuiet, KnownQuiet, ListQuiet, JobQuiet

LEMMA MovedHeard ==
    ASSUME NEW t \in Tabs, NEW w \in Who, NEW k, Moved(t, w, k), NEW i \in Items,
           \A s \in {"sent", "unknown"} : k.item = i /\ k.out = s => Heard(i, s)
    PROVE  JobQuiet(i)
  BY DEF Moved, Says, Heard, JobQuiet

\* Lists and overlay of an item that a step leaves alone.
LEMMA StillViews ==
    ASSUME NEW i \in Items, ItemInv(i), Grows, srv'[i] = srv[i]
    PROVE  /\ (\A t \in Tabs : lists'[t] \subseteq lists[t]) => ListOK(i)'
           /\ (\A t \in Tabs : /\ cache'[t][i] = cache[t][i] \/ cache'[t][i] # "unknown"
                               /\ known'[t][i] = known[t][i] \/ cache'[t][i] # "unknown"
                               /\ mode[t].refused => mode'[t].refused) => KnownOK(i)'
<1>1. Safe(i) => Safe(i)'
  BY DEF Safe, Grows
<1> QED
  BY <1>1 DEF ItemInv, ListOK, KnownOK

\* A step of a tab alone: the server keeps what it has.
TabOnly == srv' = srv /\ delivered' = delivered /\ flying' = flying /\ person \subseteq person'

LEMMA TabKeeps ==
    ASSUME NEW i \in Items, ItemInv(i), TabOnly, Quiet(i), ListOK(i)', KnownOK(i)',
           Followed(i), GoodJobs(i)
    PROVE  ItemInv(i)'
  BY Kept DEF TabOnly, Grows, Posted

-----------------------------------------------------------------------------
(* Reads.                                                                  *)

LEMMA FetchKeeps ==
    ASSUME ViewInv, NEW t \in Tabs, Fetch(t) PROVE ViewInv'
<1>1. TypeOK' /\ \A u \in Tabs : \A l \in lists'[u] : l \in lists[u] \/ l = Listed
  BY FetchDoes DEF ViewInv
<1>2. TabOnly /\ UNCHANGED <<cache, known, mode, job>>
  BY DEF Fetch, server, TabOnly
<1> SUFFICES ASSUME NEW i \in Items PROVE ItemInv(i)'
  BY <1>1 DEF ViewInv
<1>3. ItemInv(i) /\ Grows /\ srv'[i] = srv[i]
  BY <1>2 DEF ViewInv, TabOnly, Grows
<1>4. \A s \in Terminal : Listed[i] = s => srv[i] = s
  BY ListedIs DEF ViewInv
<1>5. Quiet(i)
  <2>1. ASSUME NEW s \in {"sent", "unknown"}, NEW u \in Tabs, NEW l \in lists'[u], l[i] = s
        PROVE  Heard(i, s)
    <3>1. CASE l \in lists[u]
      BY <2>1, <3>1 DEF Heard, Says
    <3>2. CASE l = Listed
      BY <1>4, <2>1, <3>2 DEF Heard, Says, Terminal
    <3> QED
      BY <1>1, <3>1, <3>2
  <2>2. ListQuiet(i)
    BY <2>1 DEF ListQuiet
  <2> QED
    BY <1>2, <1>3, <2>2, QuietIs, StillHeard
<1>6. ListOK(i)'
  <2>1. ASSUME NEW u \in Tabs, NEW l \in lists'[u], l[i] = "unknown" PROVE Safe(i)'
    <3>1. Safe(i)
      BY <1>1, <1>3, <1>4, <2>1 DEF ItemInv, ListOK, Safe, Terminal
    <3> QED
      BY <1>3, <3>1 DEF Safe, Grows
  <2> QED
    BY <2>1 DEF ListOK
<1>7. KnownOK(i)'
  BY <1>2, <1>3, StillViews
<1> QED
  BY <1>2, <1>3, <1>5, <1>6, <1>7, StillJobs, TabKeeps

LEMMA FetchFailsKeeps ==
    ASSUME ViewInv, NEW t \in Tabs, FetchFails(t) PROVE ViewInv'
<1>1. TypeOK' /\ \A u \in Tabs : lists'[u] \subseteq lists[u]
  BY FetchFailsDoes DEF ViewInv
<1>2. TabOnly /\ UNCHANGED <<cache, known, mode, job>>
  BY DEF FetchFails, server, TabOnly
<1> SUFFICES ASSUME NEW i \in Items PROVE ItemInv(i)'
  BY <1>1 DEF ViewInv
<1>3. ItemInv(i) /\ Grows /\ srv'[i] = srv[i]
  BY <1>2 DEF ViewInv, TabOnly, Grows
<1>4. Quiet(i)
  BY <1>1, <1>2, <1>3, QuietIs, StillHeard
<1>5. ListOK(i)' /\ KnownOK(i)'
  BY <1>1, <1>2, <1>3, StillViews
<1> QED
  BY <1>2, <1>3, <1>4, <1>5, StillJobs, TabKeeps

\* An answer that arrives late: an unknown it brings is the server's own, one
\* that the overlay puts over it keeps the overlay.
LEMMA FetchArrivesKeeps ==
    ASSUME ViewInv, NEW t \in Tabs, FetchArrives(t) PROVE ViewInv'
<1>1. /\ TypeOK'
      /\ \A u \in Tabs : lists'[u] \subseteq lists[u]
      /\ \A u \in Tabs \ {t} : cache'[u] = cache[u] /\ known'[u] = known[u]
  BY FetchArrivesDoes DEF ViewInv
<1>2. PICK l \in lists[t] : \A x \in Items :
        /\ \/ cache'[t][x] = l[x]
           \/ /\ cache'[t][x] = known[t][x]
              /\ known'[t][x] = known[t][x] /\ known[t][x] # "none"
        /\ known'[t][x] \in {"none", known[t][x]}
  BY FetchArrivesDoes DEF ViewInv
<1>3. TabOnly /\ UNCHANGED <<mode, job>>
  BY DEF FetchArrives, server, TabOnly
<1> SUFFICES ASSUME NEW i \in Items PROVE ItemInv(i)'
  BY <1>1 DEF ViewInv
<1>4. ItemInv(i) /\ Grows /\ srv'[i] = srv[i]
  BY <1>3 DEF ViewInv, TabOnly, Grows
<1>5. Quiet(i)
  <2>1. ASSUME NEW s \in {"sent", "unknown"}, NEW u \in Tabs
        PROVE  /\ cache'[u][i] = s => Heard(i, s)
               /\ known'[u][i] = s => Heard(i, s)
    <3>1. CASE u = t
      BY <1>2, <2>1, <3>1 DEF Heard, Says
    <3>2. CASE u # t
      BY <1>1, <2>1, <3>2 DEF Heard, Says
    <3> QED
      BY <3>1, <3>2
  <2>2. CacheQuiet(i) /\ KnownQuiet(i)
    BY <2>1 DEF CacheQuiet, KnownQuiet
  <2> QED
    BY <1>1, <1>3, <1>4, <2>2, QuietIs, StillHeard
<1>6. ListOK(i)'
  BY <1>1, <1>4, StillViews
<1>7. KnownOK(i)'
  <2>1. ASSUME NEW u \in Tabs, cache'[u][i] = "unknown"
        PROVE  known'[u][i] # "none" \/ mode'[u].refused \/ Safe(i)'
    <3>1. CASE u = t
      <4>1. l[i] = "unknown" => Safe(i)'
        BY <1>4, StillViews DEF ItemInv, ListOK, Safe, Grows
      <4> QED
        BY <1>2, <2>1, <3>1, <4>1
    <3>2. CASE u # t
      BY <1>1, <1>3, <1>4, <2>1, <3>2 DEF ItemInv, KnownOK, Safe, Grows
    <3> QED
      BY <3>1, <3>2
  <2> QED
    BY <2>1 DEF KnownOK
<1> QED
  BY <1>3, <1>4, <1>5, <1>6, <1>7, StillJobs, TabKeeps

LEMMA RefreshKeeps ==
    ASSUME ViewInv, NEW t \in Tabs, Refresh(t) PROVE ViewInv'
<1>1. TypeOK' /\ \A u \in Tabs : mode[u].refused => mode'[u].refused
  BY RefreshDoes DEF ViewInv
<1>2. TabOnly /\ UNCHANGED <<cache, known, lists, job>>
  BY DEF Refresh, server, TabOnly
<1> SUFFICES ASSUME NEW i \in Items PROVE ItemInv(i)'
  BY <1>1 DEF ViewInv
<1>3. ItemInv(i) /\ Grows /\ srv'[i] = srv[i]
  BY <1>2 DEF ViewInv, TabOnly, Grows
<1>4. Quiet(i)
  BY <1>1, <1>2, <1>3, QuietIs, StillHeard
<1>5. ListOK(i)' /\ KnownOK(i)'
  BY <1>1, <1>2, <1>3, StillViews
<1> QED
  BY <1>2, <1>3, <1>4, <1>5, StillJobs, TabKeeps

\* The stream's echo is the message itself.
LEMMA EchoKeeps ==
    ASSUME ViewInv, NEW t \in Tabs, NEW e \in Items, Echo(t, e) PROVE ViewInv'
<1>1. /\ TypeOK' /\ e \in delivered
      /\ \A u \in Tabs, x \in Items :
           /\ cache'[u][x] = IF u = t /\ x = e THEN "sent" ELSE cache[u][x]
           /\ known'[u][x] = IF u = t /\ x = e THEN "sent" ELSE known[u][x]
  BY EchoDoes DEF ViewInv
<1>2. TabOnly /\ UNCHANGED <<mode, lists, job>>
  BY DEF Echo, server, TabOnly
<1> SUFFICES ASSUME NEW i \in Items PROVE ItemInv(i)'
  BY <1>1 DEF ViewInv
<1>3. ItemInv(i) /\ Grows /\ srv'[i] = srv[i]
  BY <1>2 DEF ViewInv, TabOnly, Grows
<1>4. Quiet(i)
  <2>1. i = e => Heard(i, "sent")
    BY <1>1, <1>2 DEF Heard, True, TabOnly
  <2>2. ASSUME NEW s \in {"sent", "unknown"}, NEW u \in Tabs
        PROVE  /\ cache'[u][i] = s => Heard(i, s)
               /\ known'[u][i] = s => Heard(i, s)
    BY <1>1, <2>1 DEF Heard, Says
  <2>3. CacheQuiet(i) /\ KnownQuiet(i)
    BY <2>2 DEF CacheQuiet, KnownQuiet
  <2> QED
    BY <1>2, <1>3, <2>3, QuietIs, StillHeard
<1>5. ListOK(i)' /\ KnownOK(i)'
  BY <1>1, <1>2, <1>3, StillViews
<1> QED
  BY <1>2, <1>3, <1>4, <1>5, StillJobs, TabKeeps

-----------------------------------------------------------------------------
(* Jobs of a tab alone.                                                    *)

\* A job that is over, in a tab that shows nothing new.
LEMMA OverKeeps ==
    ASSUME ViewInv, TypeOK', NEW t \in Tabs, NEW w \in Who, Moved(t, w, Idle), TabOnly,
           \A u \in Tabs, x \in Items : cache'[u][x] \in {"pending", "none", "dispatching", cache[u][x]},
           \A u \in Tabs : mode[u].refused => mode'[u].refused,
           UNCHANGED <<known, lists>>
    PROVE  ViewInv'
<1> SUFFICES ASSUME NEW i \in Items PROVE ItemInv(i)'
  BY DEF ViewInv
<1>1. ItemInv(i) /\ Grows /\ srv'[i] = srv[i]
  BY DEF ViewInv, TabOnly, Grows
<1>2. CacheQuiet(i)
  BY DEF CacheQuiet, Heard, Says
<1>3. JobQuiet(i)
  BY IdleIs, MovedHeard
<1>4. Quiet(i)
  BY <1>1, <1>2, <1>3, QuietIs, StillHeard
<1>5. ListOK(i)' /\ KnownOK(i)'
  BY <1>1, StillViews
<1> QED
  BY <1>1, <1>4, <1>5, IdleJobs, TabKeeps

LEMMA ClaimLostKeeps ==
    ASSUME ViewInv, NEW t \in Tabs, ClaimLost(t) PROVE ViewInv'
<1>1. TypeOK' /\ Moved(t, "drain", Idle)
  BY ClaimLostDoes DEF ViewInv
<1>2. TabOnly /\ UNCHANGED <<cache, known, lists, mode>>
  BY DEF ClaimLost, server, TabOnly
<1> QED
  BY <1>1, <1>2, OverKeeps, WhoIs

LEMMA ReplyKeeps ==
    ASSUME ViewInv, NEW t \in Tabs, Reply(t) \/ ReplyLost(t) PROVE ViewInv'
<1>1. /\ TypeOK' /\ Moved(t, "chip", Idle)
      /\ \A u \in Tabs, x \in Items : cache'[u][x] \in {"pending", "none", cache[u][x]}
  BY ReplyDoes, ReplyLostDoes DEF ViewInv, ReplyLost
<1>2. TabOnly /\ UNCHANGED <<known, lists, mode>>
  BY DEF Reply, ReplyLost, server, TabOnly
<1> QED
  BY <1>1, <1>2, OverKeeps, WhoIs

\* A claim won becomes the dispatch of the same item.
LEMMA ClaimedKeeps ==
    ASSUME ViewInv, NEW t \in Tabs, Claimed(t) PROVE ViewInv'
<1>1. /\ TypeOK' /\ \A u \in Tabs : mode[u].refused => mode'[u].refused
      /\ \/ Moved(t, "drain", Idle) /\ cache' = cache
         \/ \E k \in Jobs :
              /\ Moved(t, "drain", k) /\ job[t]["drain"].kind = "claim"
              /\ job[t]["drain"].step = "won" /\ k.item = job[t]["drain"].item
              /\ k.kind = "drain" /\ k.step = "gate" /\ k.out = "none"
              /\ \A u \in Tabs, x \in Items :
                   cache'[u][x] = IF u = t /\ x = k.item THEN "dispatching" ELSE cache[u][x]
  BY ClaimedDoes DEF ViewInv
<1>2. TabOnly /\ UNCHANGED <<known, lists>>
  BY DEF Claimed, server, TabOnly
<1>3. CASE Moved(t, "drain", Idle) /\ cache' = cache
  BY <1>1, <1>2, <1>3, OverKeeps, WhoIs
<1>4. CASE \E k \in Jobs :
              /\ Moved(t, "drain", k) /\ job[t]["drain"].kind = "claim"
              /\ job[t]["drain"].step = "won" /\ k.item = job[t]["drain"].item
              /\ k.kind = "drain" /\ k.step = "gate" /\ k.out = "none"
              /\ \A u \in Tabs, x \in Items :
                   cache'[u][x] = IF u = t /\ x = k.item THEN "dispatching" ELSE cache[u][x]
  <2>1. PICK k \in Jobs :
              /\ Moved(t, "drain", k) /\ job[t]["drain"].kind = "claim"
              /\ job[t]["drain"].step = "won" /\ k.item = job[t]["drain"].item
              /\ k.kind = "drain" /\ k.step = "gate" /\ k.out = "none"
              /\ \A u \in Tabs, x \in Items :
                   cache'[u][x] = IF u = t /\ x = k.item THEN "dispatching" ELSE cache[u][x]
    BY <1>4
  <2>2. job[t]["drain"].out # "failed"
    BY <2>1, WhoIs DEF ViewInv, TypeOK, Shaped, Decided, Terminal
  <2> SUFFICES ASSUME NEW i \in Items PROVE ItemInv(i)'
    BY <1>1 DEF ViewInv
  <2>3. ItemInv(i) /\ Grows /\ srv'[i] = srv[i]
    BY <1>2 DEF ViewInv, TabOnly, Grows
  <2>4. CacheQuiet(i)
    BY <2>1 DEF CacheQuiet, Heard, Says
  <2>5. JobQuiet(i)
    BY <2>1, MovedHeard, WhoIs
  <2>6. Quiet(i)
    BY <1>2, <2>3, <2>4, <2>5, QuietIs, StillHeard
  <2>7. ListOK(i)' /\ KnownOK(i)'
    <3>1. \A u \in Tabs : cache'[u][i] = cache[u][i] \/ cache'[u][i] # "unknown"
      BY <2>1
    <3> QED
      BY <1>1, <1>2, <2>3, <3>1, StillViews
  <2>8. Follows(job[t]["drain"], k, i)
    BY <2>1, <2>2 DEF Follows, Holds, Chance
  <2>9. JobGood(k, srv'[i], Safe(i)')
    BY <2>1 DEF JobGood
  <2>10. Followed(i) /\ GoodJobs(i)
    BY <2>1, <2>8, <2>9, MovedJobs, WhoIs
  <2> QED
    BY <1>2, <2>3, <2>6, <2>7, <2>10, TabKeeps
<1> QED
  BY <1>1, <1>3, <1>4

\* A person's retry: the server has the item as unknown, or else only the tab
\* knows of it, and that is recorded.
LEMMA RetryKeeps ==
    ASSUME ViewInv, NEW t \in Tabs, NEW r \in Items, Retry(t, r) PROVE ViewInv'
<1>1. /\ TypeOK' /\ cache[t][r] = "unknown" /\ ~mode[t].refused
      /\ person \subseteq person'
      /\ known[t][r] # "none" => <<"early", r>> \in person'
      /\ \E k \in Jobs :
           /\ Moved(t, "chip", k)
           /\ k.kind = "retry" /\ k.item = r /\ k.step = "probe"
           /\ k.out \in {"custody", "legacy"}
  BY RetryDoes DEF ViewInv
<1>2. PICK k \in Jobs :
        /\ Moved(t, "chip", k)
        /\ k.kind = "retry" /\ k.item = r /\ k.step = "probe"
        /\ k.out \in {"custody", "legacy"}
  BY <1>1
<1>3. TabOnly /\ UNCHANGED <<cache, known, lists, mode>>
  BY <1>1 DEF Retry, server, TabOnly
<1>4. Safe(r)'
  <2>1. known[t][r] # "none" \/ Safe(r)
    BY <1>1 DEF ViewInv, ItemInv, KnownOK
  <2> QED
    BY <1>1, <1>3, <2>1 DEF Safe, TabOnly
<1> SUFFICES ASSUME NEW i \in Items PROVE ItemInv(i)'
  BY <1>1 DEF ViewInv
<1>5. ItemInv(i) /\ Grows /\ srv'[i] = srv[i]
  BY <1>3 DEF ViewInv, TabOnly, Grows
<1>6. JobQuiet(i)
  BY <1>2, MovedHeard, WhoIs
<1>7. Quiet(i)
  BY <1>3, <1>5, <1>6, QuietIs, StillHeard
<1>8. ListOK(i)' /\ KnownOK(i)'
  BY <1>3, <1>5, StillViews
<1>9. k.item = i => JobGood(k, srv'[i], Safe(i)')
  BY <1>2, <1>4 DEF JobGood
<1>10. Followed(i) /\ GoodJobs(i)
  BY <1>2, <1>9, MovedJobs, WhoIs
<1> QED
  BY <1>3, <1>5, <1>7, <1>8, <1>10, TabKeeps

LEMMA RetryProbedKeeps ==
    ASSUME ViewInv, NEW t \in Tabs, RetryProbed(t) PROVE ViewInv'
<1>1. TypeOK' /\ \A u \in Tabs : mode[u].refused => mode'[u].refused
  BY RetryProbedDoes DEF ViewInv
<1>2. PICK k \in Jobs :
        /\ Moved(t, "chip", k)
        /\ \/ k = Idle
           \/ /\ job[t]["chip"].kind = "retry" /\ k.kind = "retry"
              /\ k.item = job[t]["chip"].item /\ k.step = "gate"
              /\ k.out \notin Terminal
  BY RetryProbedDoes DEF ViewInv
<1>3. TabOnly /\ UNCHANGED <<cache, known, lists>>
  BY DEF RetryProbed, server, TabOnly
<1>4. CASE k = Idle
  BY <1>1, <1>2, <1>3, <1>4, OverKeeps, WhoIs
<1>5. CASE /\ job[t]["chip"].kind = "retry" /\ k.kind = "retry"
           /\ k.item = job[t]["chip"].item /\ k.step = "gate"
           /\ k.out \notin Terminal
  <2> SUFFICES ASSUME NEW i \in Items PROVE ItemInv(i)'
    BY <1>1 DEF ViewInv
  <2>1. ItemInv(i) /\ Grows /\ srv'[i] = srv[i]
    BY <1>3 DEF ViewInv, TabOnly, Grows
  <2>2. JobQuiet(i)
    BY <1>2, <1>5, MovedHeard, WhoIs DEF Terminal
  <2>3. Quiet(i)
    BY <1>3, <2>1, <2>2, QuietIs, StillHeard
  <2>4. ListOK(i)' /\ KnownOK(i)'
    BY <1>1, <1>3, <2>1, StillViews
  <2>5. k.item = i => JobGood(k, srv'[i], Safe(i)')
    <3>1. k.item = i => Safe(i)
      BY <1>5, <2>1, WhoIs DEF ItemInv, JobOK, JobGood
    <3> QED
      BY <1>5, <2>1, <3>1 DEF JobGood, Safe, Grows
  <2>6. Followed(i) /\ GoodJobs(i)
    BY <1>2, <2>5, MovedJobs, WhoIs
  <2> QED
    BY <1>3, <2>1, <2>3, <2>4, <2>6, TabKeeps
<1> QED
  BY <1>2, <1>4, <1>5

LEMMA EscalateKeeps ==
    ASSUME ViewInv, NEW t \in Tabs, NEW e \in Items, Escalate(t, e) PROVE ViewInv'
<1>1. TypeOK' /\ \E k \in Jobs : Moved(t, "chip", k) /\ k.step = "reply"
  BY EscalateDoes DEF ViewInv
<1>2. PICK k \in Jobs : Moved(t, "chip", k) /\ k.step = "reply"
  BY <1>1
<1>3. TabOnly /\ UNCHANGED <<cache, known, lists, mode>>
  BY DEF Escalate, server, TabOnly
<1>4. k.kind \in {"enqueue", "escalate", "remove"} /\ k.out \in {"pending", "none"}
  BY <1>2, WhoIs DEF Moved, Shaped, StepsOf, Dispatching, Recording
<1> SUFFICES ASSUME NEW i \in Items PROVE ItemInv(i)'
  BY <1>1 DEF ViewInv
<1>5. ItemInv(i) /\ Grows /\ srv'[i] = srv[i]
  BY <1>3 DEF ViewInv, TabOnly, Grows
<1>6. JobQuiet(i)
  BY <1>2, <1>4, MovedHeard, WhoIs
<1>7. Quiet(i)
  BY <1>3, <1>5, <1>6, QuietIs, StillHeard
<1>8. ListOK(i)' /\ KnownOK(i)'
  BY <1>3, <1>5, StillViews
<1>9. JobGood(k, srv'[i], Safe(i)')
  BY <1>2, <1>4 DEF JobGood
<1>10. Followed(i) /\ GoodJobs(i)
  BY <1>2, <1>9, MovedJobs, WhoIs
<1> QED
  BY <1>3, <1>5, <1>7, <1>8, <1>10, TabKeeps

\* The outcome is what the job said; it shows with its overlay.
LEMMA OutcomeKeeps ==
    ASSUME ViewInv, NEW t \in Tabs, NEW w \in Who, Outcome(t, w) PROVE ViewInv'
<1> DEFINE j == job[t][w]
<1>1. /\ TypeOK' /\ j.kind = (IF w = "drain" THEN "drain" ELSE "retry") /\ j.out \in Terminal
      /\ \A u \in Tabs, x \in Items :
           /\ cache'[u][x] = IF u = t /\ x = j.item /\ cache[u][x] # "none"
                             THEN j.out ELSE cache[u][x]
           /\ known'[u][x] = IF u = t /\ x = j.item THEN j.out ELSE known[u][x]
      /\ \E k \in Jobs :
           /\ Moved(t, w, k) /\ k.kind = j.kind
           /\ k.item = j.item /\ k.step = "write" /\ k.out = j.out
  BY OutcomeDoes DEF ViewInv
<1>2. PICK k \in Jobs :
        /\ Moved(t, w, k) /\ k.kind = j.kind
        /\ k.item = j.item /\ k.step = "write" /\ k.out = j.out
  BY <1>1
<1>3. TabOnly /\ UNCHANGED <<lists, mode>>
  BY DEF Outcome, server, TabOnly
<1> HIDE DEF j
<1> SUFFICES ASSUME NEW i \in Items PROVE ItemInv(i)'
  BY <1>1 DEF ViewInv
<1>4. ItemInv(i) /\ Grows /\ srv'[i] = srv[i]
  BY <1>3 DEF ViewInv, TabOnly, Grows
<1>5. \A s \in {"sent", "unknown"} : j.item = i /\ j.out = s => Heard(i, s)
  BY DEF j, Heard, Says
<1>6. CacheQuiet(i) /\ KnownQuiet(i)
  <2>1. ASSUME NEW s \in {"sent", "unknown"}, NEW u \in Tabs
        PROVE  /\ cache'[u][i] = s => Heard(i, s)
               /\ known'[u][i] = s => Heard(i, s)
    BY <1>1, <1>5 DEF Heard, Says
  <2> QED
    BY <2>1 DEF CacheQuiet, KnownQuiet
<1>7. JobQuiet(i)
  BY <1>2, <1>5, MovedHeard
<1>8. Quiet(i)
  BY <1>3, <1>4, <1>6, <1>7, QuietIs, StillHeard
<1>9. ListOK(i)'
  BY <1>3, <1>4, StillViews
<1>10. KnownOK(i)'
  <2>1. ASSUME NEW u \in Tabs, cache'[u][i] = "unknown"
        PROVE  known'[u][i] # "none" \/ mode'[u].refused \/ Safe(i)'
    <3>1. CASE u = t /\ i = j.item
      BY <1>1, <3>1 DEF Terminal
    <3>2. CASE ~(u = t /\ i = j.item)
      BY <1>1, <1>3, <1>4, <2>1, <3>2 DEF ItemInv, KnownOK, Safe, Grows
    <3> QED
      BY <3>1, <3>2
  <2> QED
    BY <2>1 DEF KnownOK
<1>11. w = "drain" => Follows(j, k, i)
  BY <1>1, <1>2 DEF Follows, Holds, Chance
<1>12. k.item = i => JobGood(k, srv'[i], Safe(i)')
  <2>1. j.item = i => JobGood(j, srv[i], Safe(i))
    BY <1>4 DEF j, ItemInv, JobOK
  <2> QED
    BY <1>2, <1>4, <2>1 DEF JobGood, Safe, Grows
<1>13. Followed(i) /\ GoodJobs(i)
  BY <1>2, <1>11, <1>12, MovedJobs DEF j
<1> QED
  BY <1>3, <1>4, <1>8, <1>9, <1>10, <1>13, TabKeeps

LEMMA MarkSentKeeps ==
    ASSUME ViewInv, NEW t \in Tabs, NEW m \in Items, MarkSent(t, m) PROVE ViewInv'
<1>1. /\ TypeOK' /\ person \subseteq person' /\ <<"sent", m>> \in person'
      /\ \A u \in Tabs, x \in Items :
           /\ cache'[u][x] = IF u = t /\ x = m THEN "sent" ELSE cache[u][x]
           /\ known'[u][x] = IF u = t /\ x = m THEN "sent" ELSE known[u][x]
      /\ \E k \in Jobs :
           /\ Moved(t, "chip", k) /\ k.kind = "mark" /\ k.item = m
           /\ k.step = "write" /\ k.out = "sent"
  BY MarkSentDoes DEF ViewInv
<1>2. PICK k \in Jobs :
        /\ Moved(t, "chip", k) /\ k.kind = "mark" /\ k.item = m
        /\ k.step = "write" /\ k.out = "sent"
  BY <1>1
<1>3. TabOnly /\ UNCHANGED <<mode, lists>>
  BY <1>1 DEF MarkSent, server, TabOnly
<1> SUFFICES ASSUME NEW i \in Items PROVE ItemInv(i)'
  BY <1>1 DEF ViewInv
<1>4. ItemInv(i) /\ Grows /\ srv'[i] = srv[i]
  BY <1>3 DEF ViewInv, TabOnly, Grows
<1>5. i = m => Heard(i, "sent")
  BY <1>1 DEF Heard, True
<1>6. CacheQuiet(i) /\ KnownQuiet(i)
  <2>1. ASSUME NEW s \in {"sent", "unknown"}, NEW u \in Tabs
        PROVE  /\ cache'[u][i] = s => Heard(i, s)
               /\ known'[u][i] = s => Heard(i, s)
    BY <1>1, <1>5 DEF Heard, Says
  <2> QED
    BY <2>1 DEF CacheQuiet, KnownQuiet
<1>7. JobQuiet(i)
  BY <1>2, <1>5, MovedHeard, WhoIs
<1>8. Quiet(i)
  BY <1>3, <1>4, <1>6, <1>7, QuietIs, StillHeard
<1>9. ListOK(i)' /\ KnownOK(i)'
  BY <1>1, <1>3, <1>4, StillViews
<1>10. JobGood(k, srv'[i], Safe(i)')
  BY <1>2 DEF JobGood
<1>11. Followed(i) /\ GoodJobs(i)
  BY <1>2, <1>10, MovedJobs, WhoIs
<1> QED
  BY <1>3, <1>4, <1>8, <1>9, <1>11, TabKeeps

\* The answer of a write: an unknown recorded is the server's, a refusal is
\* latched, and a conflict leaves an unknown only where the server has it.
LEMMA WrittenKeeps ==
    ASSUME ViewInv, NEW t \in Tabs, NEW w \in Who, Written(t, w) PROVE ViewInv'
<1> DEFINE j == job[t][w]
<1>1. /\ TypeOK' /\ j.kind \in {"drain", "retry", "mark"}
      /\ w = "drain" => j.kind = "drain"
      /\ \A u \in Tabs : mode[u].refused => mode'[u].refused
      /\ j.step = "refused" => mode'[t].refused
      /\ \A u \in Tabs, x \in Items :
           /\ cache'[u][x] =
                IF u = t /\ x = j.item /\ j.step = "recorded" /\ cache[u][x] # "none"
                THEN j.out ELSE cache[u][x]
           /\ known'[u][x] =
                IF u = t /\ x = j.item /\ j.step \in {"conflict", "refused"}
                THEN "none" ELSE known[u][x]
      /\ \E k \in Jobs :
           /\ Moved(t, w, k)
           /\ \/ k = Idle
              \/ /\ k.kind = j.kind /\ k.item = j.item
                 /\ k.step = "write" /\ k.out = j.out
  BY WrittenDoes DEF ViewInv
<1>2. PICK k \in Jobs :
        /\ Moved(t, w, k)
        /\ \/ k = Idle
           \/ /\ k.kind = j.kind /\ k.item = j.item
              /\ k.step = "write" /\ k.out = j.out
  BY <1>1
<1>3. TabOnly /\ UNCHANGED lists
  BY DEF Written, server, TabOnly
<1> HIDE DEF j
<1> SUFFICES ASSUME NEW i \in Items PROVE ItemInv(i)'
  BY <1>1 DEF ViewInv
<1>4. ItemInv(i) /\ Grows /\ srv'[i] = srv[i] /\ (Safe(i) => Safe(i)')
  BY <1>3 DEF ViewInv, TabOnly, Grows, Safe
<1>5. \A s \in {"sent", "unknown"} : j.item = i /\ j.out = s => Heard(i, s)
  BY DEF j, Heard, Says
<1>6. CacheQuiet(i) /\ KnownQuiet(i)
  <2>1. ASSUME NEW s \in {"sent", "unknown"}, NEW u \in Tabs
        PROVE  /\ cache'[u][i] = s => Heard(i, s)
               /\ known'[u][i] = s => Heard(i, s)
    BY <1>1, <1>5 DEF Heard, Says
  <2> QED
    BY <2>1 DEF CacheQuiet, KnownQuiet
<1>7. JobQuiet(i)
  BY <1>2, <1>5, IdleIs, MovedHeard
<1>8. Quiet(i)
  BY <1>3, <1>4, <1>6, <1>7, QuietIs, StillHeard
<1>9. ListOK(i)'
  BY <1>3, <1>4, StillViews
<1>10. j.item = i => JobGood(j, srv[i], Safe(i))
  BY <1>4 DEF j, ItemInv, JobOK
<1>11. KnownOK(i)'
  <2>1. ASSUME NEW u \in Tabs, cache'[u][i] = "unknown"
        PROVE  known'[u][i] # "none" \/ mode'[u].refused \/ Safe(i)'
    <3>1. CASE u = t /\ i = j.item /\ j.step = "recorded" /\ cache[u][i] # "none"
      BY <1>1, <1>4, <1>10, <2>1, <3>1 DEF JobGood
    <3>2. CASE u = t /\ i = j.item /\ j.step = "refused"
      BY <1>1, <3>2
    <3>3. CASE u = t /\ i = j.item /\ j.step = "conflict"
      <4>1. Safe(i) \/ srv[i] = "failed"
        BY <1>10, <3>3 DEF JobGood
      <4>2. cache[u][i] = "unknown"
        BY <1>1, <2>1, <3>3
      <4>3. Safe(i) \/ Closed(i)
        BY <1>4, <4>2 DEF ItemInv, DoubtOK, Says
      <4> QED
        BY <1>4, <4>1, <4>3 DEF Closed
    <3>4. CASE cache'[u][i] = cache[u][i] /\ known'[u][i] = known[u][i]
      BY <1>1, <1>4, <2>1, <3>4 DEF ItemInv, KnownOK
    <3> QED
      BY <1>1, <3>1, <3>2, <3>3, <3>4
  <2> QED
    BY <2>1 DEF KnownOK
<1>12. CASE k = Idle
  <2>1. Followed(i) /\ GoodJobs(i)
    BY <1>2, <1>12, IdleJobs
  <2> QED
    BY <1>3, <1>4, <1>8, <1>9, <1>11, <2>1, TabKeeps
<1>13. CASE k.kind = j.kind /\ k.item = j.item /\ k.step = "write" /\ k.out = j.out
  <2>1. w = "drain" => Follows(j, k, i)
    BY <1>1, <1>13 DEF Follows, Holds, Chance
  <2>2. k.item = i => JobGood(k, srv'[i], Safe(i)')
    BY <1>4, <1>10, <1>13 DEF JobGood
  <2>3. Followed(i) /\ GoodJobs(i)
    BY <1>2, <2>1, <2>2, MovedJobs DEF j
  <2> QED
    BY <1>3, <1>4, <1>8, <1>9, <1>11, <2>3, TabKeeps
<1> QED
  BY <1>2, <1>12, <1>13

-----------------------------------------------------------------------------
(* What the server and OpenCode do.                                        *)

\* The part of the invariant about the tabs' views, where they stay.
LEMMA ViewsKept ==
    ASSUME NEW i \in Items, ItemInv(i), Grows, Quiet(i), Safe(i) => Safe(i)',
           UNCHANGED <<cache, known, lists, mode>>
    PROVE  SentOK(i)' /\ ListOK(i)' /\ KnownOK(i)'
<1>1. True(i) => True(i)'
  BY DEF True, Grows
<1> QED
  BY <1>1 DEF ItemInv, SentOK, ListOK, KnownOK, Quiet, Heard

\* A step that changes the server's state of item d, with a move of one job,
\* does not touch another item.
LEMMA OtherItem ==
    ASSUME NEW i \in Items, ItemInv(i), Grows, srv'[i] = srv[i],
           i \in Posted' => i \in Posted, Followed(i), GoodJobs(i), JobQuiet(i),
           UNCHANGED <<cache, known, lists, mode>>
    PROVE  ItemInv(i)'
<1>1. Quiet(i)
  BY QuietIs, StillHeard
<1>2. ListOK(i)' /\ KnownOK(i)'
  BY StillViews
<1> QED
  BY <1>1, <1>2, Kept

\* A claim: nobody else has the item, and it has not been posted.
LEMMA DrainKeeps ==
    ASSUME ViewInv, NEW t \in Tabs, Drain(t) PROVE ViewInv'
<1>1. /\ TypeOK' /\ job[t]["drain"] = Idle
      /\ \E d \in Items, k \in Jobs :
           /\ Moved(t, "drain", k)
           /\ k.kind = "claim" /\ k.out = "none" /\ k.item = d
           /\ \/ k.step = "refused" /\ srv' = srv
              \/ /\ k.step = "won" /\ srv[d] = "pending"
                 /\ srv' = [srv EXCEPT ![d] = "dispatching"]
  BY DrainDoes DEF ViewInv
<1>2. PICK d \in Items, k \in Jobs :
        /\ Moved(t, "drain", k)
        /\ k.kind = "claim" /\ k.out = "none" /\ k.item = d
        /\ \/ k.step = "refused" /\ srv' = srv
           \/ /\ k.step = "won" /\ srv[d] = "pending"
              /\ srv' = [srv EXCEPT ![d] = "dispatching"]
  BY <1>1
<1>3. UNCHANGED <<delivered, flying, person, cache, known, lists, mode>>
  BY DEF Drain
<1> SUFFICES ASSUME NEW i \in Items PROVE ItemInv(i)'
  BY <1>1 DEF ViewInv
<1>4. /\ ItemInv(i) /\ Grows /\ Posted' = Posted
      /\ srv \in [Items -> States \cup {"none", "gone"}]
  BY <1>3 DEF ViewInv, TypeOK, Grows, Posted
<1>5. JobQuiet(i)
  BY <1>2, MovedHeard, WhoIs
<1>6. CASE k.step = "refused" \/ i # d
  <2>1. srv'[i] = srv[i]
    BY <1>2, <1>4, <1>6
  <2>2. Follows(job[t]["drain"], k, i) /\ JobGood(k, srv'[i], Safe(i)')
    BY <1>2, <1>6 DEF Follows, Holds, JobGood
  <2>3. Followed(i) /\ GoodJobs(i)
    BY <1>2, <2>2, MovedJobs, WhoIs
  <2> QED
    BY <1>3, <1>4, <1>5, <2>1, <2>3, OtherItem
<1>7. CASE k.step = "won" /\ i = d
  <2>1. srv[i] = "pending" /\ srv'[i] = "dispatching"
    BY <1>2, <1>4, <1>7
  <2>2. Safe(i) => Safe(i)'
    BY <1>3, <2>1 DEF Safe
  <2>3. Quiet(i)
    <3>1. SrvQuiet(i)
      BY <2>1 DEF SrvQuiet
    <3> QED
      BY <1>3, <1>5, <3>1, QuietIs, StillHeard
  <2>4. SentOK(i)' /\ ListOK(i)' /\ KnownOK(i)'
    BY <1>3, <1>4, <2>2, <2>3, ViewsKept
  <2>5. DoubtOK(i)' /\ FreshOK(i)'
    BY <1>4, <2>1, <2>2, <2>3 DEF ItemInv, DoubtOK, Closed, FreshOK, Quiet, Heard
  <2>6. \A u \in Tabs : ~Holds(job[u]["drain"], i)
    BY <1>4, <2>1 DEF ItemInv, HoldOK
  <2>7. \A u \in Tabs : Holds(job'[u]["drain"], i) => u = t
    BY <1>2, <2>6, WhoIs DEF Moved
  <2>8. HoldOK(i)'
    <3>1. i \notin Posted' \/ Safe(i)'
      BY <1>4, <2>1, <2>2 DEF ItemInv, FreshOK
    <3> QED
      BY <2>1, <2>7, <3>1 DEF HoldOK
  <2>9. JobOK(i)'
    <3> SUFFICES ASSUME NEW u \in Tabs, NEW x \in Who, job'[u][x].item = i
                 PROVE  JobGood(job'[u][x], srv'[i], Safe(i)')
      BY DEF JobOK
    <3>1. CASE u = t /\ x = "drain"
      <4>1. job'[u][x] = k
        BY <1>2, <3>1 DEF Moved
      <4> QED
        BY <1>2, <1>7, <4>1 DEF JobGood
    <3>2. CASE ~(u = t /\ x = "drain")
      <4>1. job'[u][x] = job[u][x]
        BY <1>2, <3>2 DEF Moved
      <4>2. JobGood(job[u][x], srv[i], Safe(i))
        BY <1>4, <4>1 DEF ItemInv, JobOK
      <4> QED
        BY <2>1, <2>2, <4>1, <4>2 DEF JobGood
    <3> QED
      BY <3>1, <3>2
  <2> QED
    BY <2>4, <2>5, <2>8, <2>9 DEF ItemInv
<1> QED
  BY <1>2, <1>6, <1>7

\* A step in which the server's state of item d becomes s, and no drainer takes
\* or begins what it did not have.
LEMMA ServerKeeps ==
    ASSUME ViewInv, TypeOK', NEW d \in Items, NEW s, srv' = [srv EXCEPT ![d] = s],
           \/ s \in {"unknown", "sent", "gone"}
           \/ s = "pending" /\ srv[d] = "none" /\ Posted' = Posted
           \/ s = "dispatching" /\ srv[d] = "pending",
           srv[d] \in {"unknown", "sent", "gone"} => s \in {"sent", "gone"},
           s = "sent" => True(d)',
           Grows, \A i \in Items \ {d} : i \in Posted' => i \in Posted,
           \A i \in Items : Followed(i) /\ GoodJobs(i) /\ JobQuiet(i),
           UNCHANGED <<cache, known, lists, mode>>
    PROVE  ViewInv'
<1> SUFFICES ASSUME NEW i \in Items PROVE ItemInv(i)'
  BY DEF ViewInv
<1>1. ItemInv(i) /\ srv \in [Items -> States \cup {"none", "gone"}]
  BY DEF ViewInv, TypeOK
<1>2. CASE i # d
  <2>1. srv'[i] = srv[i]
    BY <1>1, <1>2
  <2> QED
    BY <1>1, <1>2, <2>1, OtherItem
<1>3. CASE i = d
  <2>1. srv'[i] = s
    BY <1>1, <1>3
  <2>2. /\ Safe(i) => Safe(i)'
        /\ s \in {"unknown", "sent", "gone"} => Safe(i)'
    BY <1>3, <2>1 DEF Safe, Grows
  <2>3. True(i) => True(i)'
    BY DEF True, Grows
  <2>4. Says(i, "sent")' => True(i)'
    <3>1. Says(i, "sent")' => Says(i, "sent") \/ True(i)' \/ s = "sent"
      BY <2>1 DEF CacheQuiet, KnownQuiet, ListQuiet, JobQuiet, Says, Heard
    <3> QED
      BY <1>1, <1>3, <2>3, <3>1 DEF ItemInv, SentOK
  <2>5. Says(i, "unknown")' => Says(i, "unknown") \/ s = "unknown"
    BY <2>1 DEF JobQuiet, Says, Heard
  <2>6. srv[i] \in {"none", "pending"} =>
          /\ Says(i, "unknown") => Safe(i)
          /\ \A t \in Tabs : ~Holds(job[t]["drain"], i)
    BY <1>1 DEF ItemInv, DoubtOK, Closed, HoldOK
  <2>7. ListOK(i)' /\ KnownOK(i)'
    BY <1>1, <2>2 DEF ItemInv, ListOK, KnownOK
  <2>8. DoubtOK(i)'
    BY <1>3, <2>2, <2>5, <2>6 DEF DoubtOK
  <2>9. FreshOK(i)'
    BY <1>1, <1>3, <2>1, <2>2 DEF ItemInv, FreshOK
  <2>10. ASSUME NEW t \in Tabs, Holds(job'[t]["drain"], i)
         PROVE  Holds(job[t]["drain"], i)
    BY <2>10 DEF Followed, Follows
  <2>11. HoldOK(i)'
    <3> SUFFICES ASSUME NEW t \in Tabs, Holds(job'[t]["drain"], i)
                 PROVE  /\ srv'[i] \notin {"none", "pending"}
                        /\ \A u \in Tabs : Holds(job'[u]["drain"], i) => u = t
                        /\ Chance(job'[t]["drain"]) => i \notin Posted' \/ Safe(i)'
                        /\ srv'[i] = "failed" => job'[t]["drain"].out = "failed" \/ Safe(i)'
      BY DEF HoldOK
    <3>1. Holds(job[t]["drain"], i)
      BY <2>10
    <3>2. srv[i] \notin {"none", "pending"} /\ \A u \in Tabs : Holds(job[u]["drain"], i) => u = t
      BY <1>1, <3>1 DEF ItemInv, HoldOK
    <3>3. Safe(i)' /\ s \notin {"none", "pending", "failed"}
      BY <1>3, <2>2, <3>2
    <3> QED
      BY <2>1, <2>10, <3>2, <3>3
  <2>12. JobOK(i)'
    <3> SUFFICES ASSUME NEW t \in Tabs, NEW w \in Who, job'[t][w].item = i
                 PROVE  JobGood(job'[t][w], srv'[i], Safe(i)')
      BY DEF JobOK
    <3>1. CASE job'[t][w] = job[t][w]
      <4>1. JobGood(job[t][w], srv[i], Safe(i))
        BY <1>1, <3>1 DEF ItemInv, JobOK
      <4>2. srv[i] = "failed" => Safe(i)'
        BY <1>3, <2>2
      <4> QED
        BY <2>2, <3>1, <4>1, <4>2 DEF JobGood
    <3>2. CASE job'[t][w].item = i => JobGood(job'[t][w], srv'[i], Safe(i)')
      BY <3>2
    <3> QED
      BY <3>1, <3>2 DEF GoodJobs
  <2> QED
    BY <2>4, <2>7, <2>8, <2>9, <2>11, <2>12 DEF ItemInv, SentOK
<1> QED
  BY <1>2, <1>3

\* A chip's call to the server that waits for its reply.
LEMMA CallJobs ==
    ASSUME TypeOK, NEW t \in Tabs, NEW k \in Jobs, Moved(t, "chip", k), k.step = "reply",
           NEW i \in Items
    PROVE  Followed(i) /\ GoodJobs(i) /\ JobQuiet(i)
<1>1. k.kind \in {"enqueue", "escalate", "remove"} /\ k.out \in {"pending", "none"}
  BY WhoIs DEF Moved, Shaped, StepsOf, Dispatching, Recording
<1>2. JobQuiet(i)
  BY <1>1, MovedHeard, WhoIs
<1>3. JobGood(k, srv'[i], Safe(i)')
  BY <1>1 DEF JobGood
<1> QED
  BY <1>2, <1>3, MovedJobs, WhoIs

LEMMA EnqueueKeeps ==
    ASSUME ViewInv, NEW t \in Tabs, NEW d \in Items, Enqueue(t, d) PROVE ViewInv'
<1>1. /\ TypeOK' /\ srv[d] = "none" /\ srv' = [srv EXCEPT ![d] = "pending"]
      /\ \E k \in Jobs : Moved(t, "chip", k) /\ k.step = "reply"
  BY EnqueueDoes DEF ViewInv
<1>2. /\ UNCHANGED <<cache, known, lists, mode>>
      /\ Grows /\ Posted' = Posted
  BY DEF Enqueue, Grows, Posted
<1>3. \A i \in Items : Followed(i) /\ GoodJobs(i) /\ JobQuiet(i)
  BY <1>1, CallJobs DEF ViewInv
<1> QED
  BY <1>1, <1>2, <1>3, ServerKeeps

LEMMA RemoveKeeps ==
    ASSUME ViewInv, NEW t \in Tabs, NEW d \in Items, Remove(t, d) PROVE ViewInv'
<1>1. /\ TypeOK' /\ srv' = [srv EXCEPT ![d] = "gone"]
      /\ \E k \in Jobs : Moved(t, "chip", k) /\ k.step = "reply"
  BY RemoveDoes DEF ViewInv
<1>2. /\ UNCHANGED <<cache, known, lists, mode>>
      /\ Grows /\ Posted' = Posted
  BY DEF Remove, Grows, Posted
<1>3. \A i \in Items : Followed(i) /\ GoodJobs(i) /\ JobQuiet(i)
  BY <1>1, CallJobs DEF ViewInv
<1> QED
  BY <1>1, <1>2, <1>3, ServerKeeps

LEMMA StandingJobs ==
    ASSUME job' = job, NEW i \in Items PROVE Followed(i) /\ GoodJobs(i) /\ JobQuiet(i)
  BY StillJobs, StillHeard

LEMMA OtherDispatchKeeps ==
    ASSUME ViewInv, NEW d \in Items, OtherDispatch(d) PROVE ViewInv'
<1>1. TypeOK'
  BY OutsideDoes DEF ViewInv
<1>2. /\ srv[d] = "pending" /\ srv' = [srv EXCEPT ![d] = "dispatching"]
      /\ UNCHANGED <<cache, known, lists, mode, job>>
      /\ Grows /\ \A i \in Items \ {d} : i \in Posted' => i \in Posted
  BY DEF OtherDispatch, Grows, Posted
<1> QED
  BY <1>1, <1>2, StandingJobs, ServerKeeps

LEMMA RecoverKeeps ==
    ASSUME ViewInv, NEW d \in Items, Recover(d) PROVE ViewInv'
<1>1. TypeOK'
  BY OutsideDoes DEF ViewInv
<1>2. /\ UNCHANGED <<cache, known, lists, mode, job>>
      /\ Grows /\ Posted' = Posted
  BY DEF Recover, Grows, Posted
<1>3. PICK s \in {"unknown", "sent"} :
        /\ srv' = [srv EXCEPT ![d] = s]
        /\ srv[d] \in {"dispatching", "unknown"}
        /\ s = "unknown" => srv[d] = "dispatching"
        /\ s = "sent" => d \in delivered
  BY DEF Recover
<1>4. s = "sent" => True(d)'
  BY <1>2, <1>3 DEF Grows, True
<1> QED
  BY <1>1, <1>2, <1>3, <1>4, StandingJobs, ServerKeeps

LEMMA LandsKeeps ==
    ASSUME ViewInv, NEW d \in Items, Lands(d) PROVE ViewInv'
<1>1. TypeOK'
  BY OutsideDoes DEF ViewInv
<1>2. /\ UNCHANGED <<srv, cache, known, lists, mode, job>>
      /\ Grows /\ Posted' = Posted
  BY DEF Lands, Grows, Posted
<1> SUFFICES ASSUME NEW i \in Items PROVE ItemInv(i)'
  BY <1>1 DEF ViewInv
<1> QED
  BY <1>2, StandingJobs, OtherItem DEF ViewInv

LEMMA FlipKeeps ==
    ASSUME ViewInv, Flip PROVE ViewInv'
<1>1. /\ UNCHANGED <<srv, cache, known, lists, mode, job>>
      /\ Grows /\ Posted' = Posted
  BY DEF Flip, Grows, Posted
<1>2. TypeOK'
  BY ViewAssumption, OutsideDoes DEF ViewInv
<1> SUFFICES ASSUME NEW i \in Items PROVE ItemInv(i)'
  BY <1>2 DEF ViewInv
<1> QED
  BY <1>1, StandingJobs, OtherItem DEF ViewInv

-----------------------------------------------------------------------------
(* The POST and the write of its outcome.                                  *)

\* The item a job is about to post: it is the holder's, or safe.
LEMMA GateItem ==
    ASSUME ViewInv, NEW t \in Tabs, NEW w \in Who, job[t][w].step = "gate",
           job[t][w].kind = (IF w = "drain" THEN "drain" ELSE "retry"),
           job[t][w].out \notin Terminal,
           NEW i \in Items, job[t][w].item = i
    PROVE  \/ Safe(i)
           \/ /\ w = "drain" /\ srv[i] = "dispatching" /\ ~Says(i, "unknown")
              /\ \A u \in Tabs : Holds(job[u]["drain"], i) => u = t
<1>1. ItemInv(i) /\ srv[i] \in States \cup {"none", "gone"}
  BY DEF ViewInv, TypeOK
<1>2. CASE w = "chip"
  <2>1. JobGood(job[t][w], srv[i], Safe(i))
    BY <1>1 DEF ItemInv, JobOK
  <2> QED
    BY <1>2, <2>1, WhoIs DEF JobGood
<1>3. CASE w = "drain"
  <2>1. Holds(job[t]["drain"], i) /\ Chance(job[t]["drain"])
    BY <1>3 DEF Holds, Chance
  <2>2. /\ srv[i] \notin {"none", "pending"}
        /\ \A u \in Tabs : Holds(job[u]["drain"], i) => u = t
        /\ srv[i] = "failed" => job[t]["drain"].out = "failed" \/ Safe(i)
    BY <1>1, <2>1 DEF ItemInv, HoldOK
  <2>3. Safe(i) \/ srv[i] = "dispatching"
    BY <1>1, <1>3, <2>2 DEF Safe, States, Live, Terminal
  <2>4. Says(i, "unknown") => Safe(i)
    BY <1>1, <2>1 DEF ItemInv, DoubtOK, Closed
  <2> QED
    BY <1>3, <2>2, <2>3, <2>4
<1> QED
  BY <1>2, <1>3, WhoIs

LEMMA PostKeeps ==
    ASSUME ViewInv, NEW t \in Tabs, NEW w \in Who, Post(t, w) PROVE ViewInv'
<1> DEFINE j == job[t][w]
<1>1. /\ TypeOK' /\ j.step = "gate" /\ j.kind = (IF w = "drain" THEN "drain" ELSE "retry")
      /\ j.out \notin Terminal
      /\ \/ Moved(t, w, Idle) /\ delivered' = delivered /\ flying' = flying
         \/ \E k \in Jobs :
              /\ Moved(t, w, k) /\ k.kind = j.kind
              /\ k.item = j.item /\ k.step \in {"posted", "unsent"}
              /\ k.out \in Terminal
              /\ k.out = "sent" => k.item \in delivered'
              /\ k.out = "failed" => delivered' = delivered /\ flying' = flying
              /\ delivered \subseteq delivered' /\ flying \subseteq flying'
              /\ \A x \in Items \ {k.item} :
                   x \in delivered' \cup flying' => x \in delivered \cup flying
  BY PostDoes DEF ViewInv
<1>2. UNCHANGED <<srv, person, cache, known, lists, mode>>
  BY DEF Post
<1> HIDE DEF j
<1>3. CASE Moved(t, w, Idle) /\ delivered' = delivered /\ flying' = flying
  <2>1. TabOnly
    BY <1>2, <1>3 DEF TabOnly
  <2> QED
    BY <1>1, <1>2, <1>3, <2>1, OverKeeps
<1>4. CASE \E k \in Jobs :
              /\ Moved(t, w, k) /\ k.kind = j.kind
              /\ k.item = j.item /\ k.step \in {"posted", "unsent"}
              /\ k.out \in Terminal
              /\ k.out = "sent" => k.item \in delivered'
              /\ k.out = "failed" => delivered' = delivered /\ flying' = flying
              /\ delivered \subseteq delivered' /\ flying \subseteq flying'
              /\ \A x \in Items \ {k.item} :
                   x \in delivered' \cup flying' => x \in delivered \cup flying
  <2>1. PICK k \in Jobs :
              /\ Moved(t, w, k) /\ k.kind = j.kind
              /\ k.item = j.item /\ k.step \in {"posted", "unsent"}
              /\ k.out \in Terminal
              /\ k.out = "sent" => k.item \in delivered'
              /\ k.out = "failed" => delivered' = delivered /\ flying' = flying
              /\ delivered \subseteq delivered' /\ flying \subseteq flying'
              /\ \A x \in Items \ {k.item} :
                   x \in delivered' \cup flying' => x \in delivered \cup flying
    BY <1>4
  <2> SUFFICES ASSUME NEW i \in Items PROVE ItemInv(i)'
    BY <1>1 DEF ViewInv
  <2>2. ItemInv(i) /\ Grows /\ srv'[i] = srv[i] /\ (Safe(i) <=> Safe(i)')
    BY <1>2, <2>1 DEF ViewInv, Grows, Safe
  <2>3. w = "drain" => Follows(j, k, i)
    BY <1>1, <2>1 DEF Follows, Holds, Chance, Terminal
  <2>4. k.item = i => JobGood(k, srv'[i], Safe(i)')
    <3>1. j.item = i => JobGood(j, srv[i], Safe(i))
      BY <2>2 DEF j, ItemInv, JobOK
    <3> QED
      BY <2>1, <2>2, <3>1 DEF JobGood
  <2>5. Followed(i) /\ GoodJobs(i)
    BY <2>1, <2>3, <2>4, MovedJobs DEF j
  <2>6. ASSUME NEW s \in {"sent", "unknown"}, ~(s = "unknown" /\ k.item = i)
        PROVE  Says(i, s)' => Heard(i, s)
    <3>1. k.item = i /\ k.out = s => Heard(i, s)
      BY <2>1, <2>6 DEF Heard, True
    <3>2. ASSUME NEW u \in Tabs, NEW x \in Who, job'[u][x].item = i, job'[u][x].out = s
          PROVE  Heard(i, s)
      BY <2>1, <3>1, <3>2 DEF Moved, Heard, Says
    <3> QED
      BY <1>2, <3>2 DEF Says, Heard
  <2>7. CASE i # j.item
    <3>1. Quiet(i)
      BY <2>1, <2>6, <2>7 DEF Quiet
    <3>2. ListOK(i)' /\ KnownOK(i)'
      BY <1>2, <2>2, StillViews
    <3>3. i \in Posted' => i \in Posted
      BY <2>1, <2>7 DEF Posted
    <3> QED
      BY <2>2, <2>5, <3>1, <3>2, <3>3, Kept
  <2>8. CASE i = j.item
    <3>1. \/ Safe(i)
          \/ /\ w = "drain" /\ srv[i] = "dispatching" /\ ~Says(i, "unknown")
             /\ \A u \in Tabs : Holds(job[u]["drain"], i) => u = t
      BY <1>1, <2>8, GateItem DEF j
    <3>2. SentOK(i)'
      <4>1. Says(i, "sent")' => Heard(i, "sent")
        BY <2>6
      <4>2. True(i) => True(i)'
        BY <2>2 DEF True, Grows
      <4> QED
        BY <2>2, <4>1, <4>2 DEF ItemInv, SentOK, Heard
    <3>3. ListOK(i)' /\ KnownOK(i)'
      BY <1>2, <2>2, StillViews
    <3>4. w = "drain" => job'[t]["drain"] = k
      BY <2>1 DEF Moved
    <3>5. ASSUME NEW u \in Tabs, Holds(job'[u]["drain"], i)
          PROVE  /\ Holds(job[u]["drain"], i)
                 /\ Chance(job'[u]["drain"]) => Chance(job[u]["drain"])
                 /\ job[u]["drain"].out = "failed" => job'[u]["drain"].out = "failed"
      BY ONLY <2>5, <3>5 DEF Followed, Follows
    <3>6. DoubtOK(i)'
      <4>1. CASE Safe(i)
        BY <2>2, <4>1 DEF DoubtOK
      <4>2. CASE ~Safe(i)
        <5>1. /\ w = "drain" /\ srv[i] = "dispatching" /\ ~Says(i, "unknown")
              /\ \A u \in Tabs : Holds(job[u]["drain"], i) => u = t
          BY <3>1, <4>2
        <5>2. CASE k.out = "unknown"
          <6>1. ~Chance(k)
            BY <1>1, <2>1, <5>1, <5>2 DEF Chance
          <6> QED
            BY <2>2, <3>4, <3>5, <5>1, <6>1 DEF DoubtOK, Closed
        <5>3. CASE k.out # "unknown"
          <6>1. ~Says(i, "unknown")'
            <7>1. ASSUME NEW u \in Tabs, NEW x \in Who, job'[u][x].item = i,
                         job'[u][x].out = "unknown"
                  PROVE  Says(i, "unknown")
              BY <2>1, <5>3, <7>1 DEF Moved, Says
            <7> QED
              BY <1>2, <5>1, <7>1 DEF Says
          <6> QED
            BY <6>1 DEF DoubtOK
        <5> QED
          BY <5>2, <5>3
      <4> QED
        BY <4>1, <4>2
    <3>7. FreshOK(i)'
      BY <2>2, <3>1 DEF FreshOK
    <3>8. HoldOK(i)'
      <4> SUFFICES ASSUME NEW u \in Tabs, Holds(job'[u]["drain"], i)
                   PROVE  /\ srv'[i] \notin {"none", "pending"}
                          /\ \A v \in Tabs : Holds(job'[v]["drain"], i) => v = u
                          /\ Chance(job'[u]["drain"]) => i \notin Posted' \/ Safe(i)'
                          /\ srv'[i] = "failed" => job'[u]["drain"].out = "failed" \/ Safe(i)'
        BY DEF HoldOK
      <4>1. /\ srv[i] \notin {"none", "pending"}
            /\ \A v \in Tabs : Holds(job[v]["drain"], i) => v = u
            /\ Chance(job[u]["drain"]) => i \notin Posted \/ Safe(i)
            /\ srv[i] = "failed" => job[u]["drain"].out = "failed" \/ Safe(i)
        BY <2>2, <3>5 DEF ItemInv, HoldOK
      <4>2. Chance(job'[u]["drain"]) => i \notin Posted' \/ Safe(i)'
        <5>1. CASE Safe(i)
          BY <2>2, <5>1
        <5>2. CASE ~Safe(i)
          <6>1. w = "drain" /\ u = t
            BY <3>1, <3>5, <5>2
          <6>2. Chance(k) => k.out = "failed"
            BY <1>1, <2>1, <6>1 DEF Chance
          <6> QED
            BY <2>1, <3>4, <3>5, <4>1, <5>2, <6>1, <6>2 DEF Posted
        <5> QED
          BY <5>1, <5>2
      <4> QED
        BY <2>2, <3>5, <4>1, <4>2
    <3>9. JobOK(i)'
      <4> SUFFICES ASSUME NEW u \in Tabs, NEW x \in Who, job'[u][x].item = i
                   PROVE  JobGood(job'[u][x], srv'[i], Safe(i)')
        BY DEF JobOK
      <4>1. CASE job'[u][x] = job[u][x]
        <5>1. JobGood(job[u][x], srv[i], Safe(i))
          BY <2>2, <4>1 DEF ItemInv, JobOK
        <5> QED
          BY <2>2, <4>1, <5>1 DEF JobGood
      <4>2. CASE job'[u][x].item = i => JobGood(job'[u][x], srv'[i], Safe(i)')
        BY <4>2
      <4> QED
        BY <2>5, <4>1, <4>2 DEF GoodJobs
    <3> QED
      BY <3>2, <3>3, <3>6, <3>7, <3>8, <3>9 DEF ItemInv
  <2> QED
    BY <2>7, <2>8
<1> QED
  BY <1>1, <1>3, <1>4

\* A write: an outcome the server takes from dispatching is the holder's or of
\* a safe item, so failed is recorded only of what has not been posted.
LEMMA WriteKeeps ==
    ASSUME ViewInv, NEW t \in Tabs, NEW w \in Who, Write(t, w) PROVE ViewInv'
<1>0. PICK j \in Jobs, d \in Items : j = job[t][w] /\ d = j.item
  BY DEF ViewInv, TypeOK, Jobs
<1> DEFINE Resolved == ~custody /\ Resolves(d, j.out)
<1>1. /\ TypeOK' /\ j.step = "write" /\ (w = "drain" <=> j.kind = "drain")
      /\ j.kind \in {"drain", "retry", "mark"}
      /\ j.kind = "mark" => j.out = "sent"
      /\ j.out \in Terminal /\ d \in Items
      /\ srv' = IF Resolved THEN [srv EXCEPT ![d] = j.out] ELSE srv
      /\ \E k \in Jobs :
           /\ Moved(t, w, k) /\ k.kind = j.kind /\ k.item = d /\ k.out = j.out
           /\ k.step \in {"error", Verdict(k.item, k.out)}
  BY <1>0, WriteDoes DEF ViewInv
<1>2. PICK k \in Jobs :
           /\ Moved(t, w, k) /\ k.kind = j.kind /\ k.item = d /\ k.out = j.out
           /\ k.step \in {"error", Verdict(k.item, k.out)}
  BY <1>1
<1>3. UNCHANGED <<delivered, flying, person, cache, known, lists, mode>>
  BY DEF Write
<1>4. Grows /\ Posted' = Posted
  BY <1>3 DEF Grows, Posted
<1>5. Says(d, j.out)
  BY <1>0 DEF Says
<1>6. /\ ItemInv(d) /\ srv \in [Items -> States \cup {"none", "gone"}]
      /\ JobGood(j, srv[d], Safe(d))
  BY <1>0, <1>1 DEF ViewInv, TypeOK, ItemInv, JobOK
<1>7. w = "drain" => j = job[t]["drain"]
  BY <1>0
<1>8. \A i \in Items : JobQuiet(i)
  BY <1>2, <1>5, MovedHeard DEF Heard
<1>9. \A i \in Items : Follows(j, k, i)
  <2>1. k.step # "gate" /\ k.kind # "claim"
    BY <1>1, <1>2 DEF Verdict
  <2> QED
    BY ONLY <1>0, <1>1, <1>2, <2>1 DEF Follows, Holds, Chance
<1>10. w = "drain" => \A i \in Items : Follows(job[t][w], k, i)
  BY <1>7, <1>9
<1>11. ASSUME NEW i \in Items, k.item = i => JobGood(k, srv'[i], Safe(i)')
       PROVE  Followed(i) /\ GoodJobs(i)
  BY <1>2, <1>10, <1>11, MovedJobs
<1>12. CASE ~Resolved
  <2>1. srv' = srv
    BY <1>1, <1>12
  <2>2. JobGood(k, srv[d], Safe(d))
    <3>1. k.step = "recorded" /\ k.out = "unknown" => Safe(d)
      BY <1>2, <1>12 DEF Verdict, Safe
    <3>2. k.step = "conflict" => Safe(d) \/ srv[d] = "failed"
      BY <1>2 DEF Verdict, Safe, Terminal
    <3> QED
      BY <1>2, <1>6, <3>1, <3>2 DEF JobGood
  <2> SUFFICES ASSUME NEW i \in Items PROVE ItemInv(i)'
    BY <1>1 DEF ViewInv
  <2>3. k.item = i => JobGood(k, srv'[i], Safe(i)')
    BY <1>2, <1>3, <2>1, <2>2 DEF Safe
  <2>4. ItemInv(i) /\ srv'[i] = srv[i]
    BY <2>1 DEF ViewInv
  <2> QED
    BY <1>3, <1>4, <1>8, <1>11, <2>3, <2>4, OtherItem
<1>13. CASE Resolved /\ j.out # "failed"
  <2>1. /\ srv' = [srv EXCEPT ![d] = j.out] /\ j.out \in {"unknown", "sent"}
        /\ srv'[d] = j.out
    BY <1>1, <1>6, <1>13 DEF Terminal
  <2>2. Safe(d)'
    BY <2>1 DEF Safe
  <2>3. j.out = "sent" => True(d)'
    BY <1>3, <1>5, <1>6 DEF ItemInv, SentOK, True
  <2>4. srv[d] \in {"unknown", "sent", "gone"} => j.out \in {"sent", "gone"}
    BY <1>13 DEF Resolves
  <2>5. \A i \in Items : Followed(i) /\ GoodJobs(i) /\ JobQuiet(i)
    <3>1. JobGood(k, srv'[d], Safe(d)')
      BY <2>2 DEF JobGood
    <3> QED
      BY <1>2, <1>8, <1>11, <3>1
  <2> QED
    BY <1>1, <1>3, <1>4, <2>1, <2>3, <2>4, <2>5, ServerKeeps
<1>14. CASE Resolved /\ j.out = "failed"
  <2>1. /\ srv' = [srv EXCEPT ![d] = "failed"] /\ srv[d] = "dispatching"
        /\ srv'[d] = "failed"
    BY <1>1, <1>6, <1>14 DEF Resolves
  <2>2. Safe(d) <=> Safe(d)'
    BY <1>3, <2>1 DEF Safe
  <2>3. \/ Safe(d)
        \/ /\ w = "drain" /\ Holds(job[t]["drain"], d) /\ job[t]["drain"].out = "failed"
    BY <1>0, <1>1, <1>6, <1>7, <1>14 DEF JobGood, Holds
  <2>4. JobGood(k, srv'[d], Safe(d)')
    BY <1>2, <1>6, <1>14, <2>1, <2>2 DEF JobGood
  <2>5. ASSUME NEW i \in Items PROVE Followed(i) /\ GoodJobs(i)
    <3>1. k.item = i => JobGood(k, srv'[i], Safe(i)')
      BY <1>2, <2>4
    <3> QED
      BY <1>11, <3>1
  <2> SUFFICES ASSUME NEW i \in Items PROVE ItemInv(i)'
    BY <1>1 DEF ViewInv
  <2>6. CASE i # d
    <3>1. ItemInv(i) /\ srv'[i] = srv[i]
      BY <1>6, <2>1, <2>6 DEF ViewInv
    <3> QED
      BY <1>3, <1>4, <1>8, <2>5, <3>1, OtherItem
  <2>7. CASE i = d
    <3>1. Quiet(d)
      <4>1. SrvQuiet(d)
        BY <2>1 DEF SrvQuiet
      <4> QED
        BY <1>1, <1>3, <1>8, <4>1, QuietIs, StillHeard
    <3>2. SentOK(d)' /\ ListOK(d)' /\ KnownOK(d)'
      BY <1>1, <1>3, <1>4, <1>6, <2>2, <3>1, ViewsKept
    <3>3. DoubtOK(d)'
      <4>1. Says(d, "unknown")' => Safe(d) \/ Closed(d)
        BY <1>6, <3>1 DEF ItemInv, DoubtOK, Quiet, Heard
      <4>2. Closed(d) => Safe(d)
        BY <2>3 DEF Closed, Chance
      <4> QED
        BY <2>2, <4>1, <4>2 DEF DoubtOK
    <3>4. FreshOK(d)'
      <4>1. d \notin Posted \/ Safe(d)
        BY <1>6, <2>3 DEF ItemInv, HoldOK, Chance
      <4> QED
        BY <1>4, <2>2, <4>1 DEF FreshOK
    <3>5. HoldOK(d)'
      <4> SUFFICES ASSUME NEW u \in Tabs, Holds(job'[u]["drain"], d)
                   PROVE  /\ srv'[d] \notin {"none", "pending"}
                          /\ \A v \in Tabs : Holds(job'[v]["drain"], d) => v = u
                          /\ Chance(job'[u]["drain"]) => d \notin Posted' \/ Safe(d)'
                          /\ srv'[d] = "failed" => job'[u]["drain"].out = "failed" \/ Safe(d)'
        BY DEF HoldOK
      <4>1. ASSUME NEW v \in Tabs, Holds(job'[v]["drain"], d)
            PROVE  /\ Holds(job[v]["drain"], d)
                   /\ Chance(job'[v]["drain"]) => Chance(job[v]["drain"])
                   /\ job[v]["drain"].out = "failed" => job'[v]["drain"].out = "failed"
        <5>1. Followed(d)
          BY <1>1, <2>5
        <5> QED
          BY ONLY <4>1, <5>1 DEF Followed, Follows
      <4>2. /\ \A v \in Tabs : Holds(job[v]["drain"], d) => v = u
            /\ Chance(job[u]["drain"]) => d \notin Posted \/ Safe(d)
        BY <1>6, <4>1 DEF ItemInv, HoldOK
      <4> QED
        BY <1>4, <2>1, <2>2, <2>3, <4>1, <4>2
    <3>6. JobOK(d)'
      <4> SUFFICES ASSUME NEW u \in Tabs, NEW x \in Who, job'[u][x].item = d
                   PROVE  JobGood(job'[u][x], srv'[d], Safe(d)')
        BY DEF JobOK
      <4>1. CASE job'[u][x] = job[u][x]
        <5>1. JobGood(job[u][x], srv[d], Safe(d))
          BY <1>6, <4>1 DEF ItemInv, JobOK
        <5> QED
          BY <2>1, <2>2, <4>1, <5>1 DEF JobGood
      <4>2. CASE job'[u][x].item = d => JobGood(job'[u][x], srv'[d], Safe(d)')
        BY <4>2
      <4>3. GoodJobs(d)
        BY <1>1, <2>5
      <4> QED
        BY <4>1, <4>2, <4>3 DEF GoodJobs
    <3> QED
      BY <2>7, <3>2, <3>3, <3>4, <3>5, <3>6 DEF ItemInv
  <2> QED
    BY <2>6, <2>7
<1> QED
  BY <1>12, <1>13, <1>14

(***************************************************************************)
(* The theorems.                                                           *)
(***************************************************************************)

LEMMA InitView == Init => ViewInv
<1> SUFFICES ASSUME Init PROVE ViewInv
  OBVIOUS
<1>1. TypeOK
  BY ViewAssumption, IdleIs
     DEF Init, TypeOK, Empty, Views, Modes, States, Live, Terminal
<1> SUFFICES ASSUME NEW i \in Items PROVE ItemInv(i)
  BY <1>1 DEF ViewInv
<1>2. /\ srv[i] = "none" /\ delivered = {} /\ flying = {}
      /\ \A t \in Tabs : cache[t][i] = "none" /\ known[t][i] = "none" /\ lists[t] = {}
      /\ \A t \in Tabs, w \in Who : job[t][w] = Idle
  BY DEF Init, Empty
<1>3. \A s \in {"sent", "unknown"} : ~Says(i, s)
  BY <1>2, IdleIs DEF Says
<1>4. SentOK(i) /\ DoubtOK(i) /\ ListOK(i) /\ KnownOK(i) /\ FreshOK(i)
  BY <1>2, <1>3 DEF SentOK, DoubtOK, ListOK, KnownOK, FreshOK, Posted
<1>5. HoldOK(i) /\ JobOK(i)
  BY <1>2, IdleIs, WhoIs DEF HoldOK, Holds, JobOK, JobGood
<1> QED
  BY <1>4, <1>5 DEF ItemInv

LEMMA StutterView == ASSUME ViewInv, UNCHANGED vars PROVE ViewInv'
<1>1. TypeOK'
  BY DEF ViewInv, TypeOK, vars
<1>2. /\ UNCHANGED <<srv, cache, known, lists, mode, job>> /\ Grows /\ Posted' = Posted
  BY DEF vars, Grows, Posted
<1> SUFFICES ASSUME NEW i \in Items PROVE ItemInv(i)'
  BY <1>1 DEF ViewInv
<1> QED
  BY <1>2, StandingJobs, OtherItem DEF ViewInv

LEMMA StepView == ViewInv /\ [Next]_vars => ViewInv'
<1> SUFFICES ASSUME ViewInv, [Next]_vars PROVE ViewInv'
  OBVIOUS
<1>1. CASE UNCHANGED vars
  BY <1>1, StutterView
<1>2. ASSUME NEW t \in Tabs,
             \/ Fetch(t) \/ FetchArrives(t) \/ FetchFails(t) \/ Refresh(t)
             \/ Drain(t) \/ Claimed(t) \/ ClaimLost(t) \/ RetryProbed(t)
             \/ Reply(t) \/ ReplyLost(t)
      PROVE  ViewInv'
  BY <1>2, FetchKeeps, FetchArrivesKeeps, FetchFailsKeeps, RefreshKeeps, DrainKeeps,
     ClaimedKeeps, ClaimLostKeeps, RetryProbedKeeps, ReplyKeeps
<1>3. ASSUME NEW t \in Tabs, NEW w \in Who,
             Post(t, w) \/ Outcome(t, w) \/ Write(t, w) \/ Written(t, w)
      PROVE  ViewInv'
  BY <1>3, PostKeeps, OutcomeKeeps, WriteKeeps, WrittenKeeps
<1>4. ASSUME NEW t \in Tabs, NEW i \in Items,
             \/ Echo(t, i) \/ Retry(t, i) \/ MarkSent(t, i)
             \/ Enqueue(t, i) \/ Escalate(t, i) \/ Remove(t, i)
      PROVE  ViewInv'
  BY <1>4, EchoKeeps, RetryKeeps, MarkSentKeeps, EnqueueKeeps, EscalateKeeps, RemoveKeeps
<1>5. ASSUME NEW i \in Items, Lands(i) \/ OtherDispatch(i) \/ Recover(i)
      PROVE  ViewInv'
  BY <1>5, LandsKeeps, OtherDispatchKeeps, RecoverKeeps
<1>6. CASE Flip
  BY <1>6, FlipKeeps
<1> QED
  BY <1>1, <1>2, <1>3, <1>4, <1>5, <1>6 DEF Next

\* The invariant holds in every state.
LEMMA ViewHolds == Spec => []ViewInv
  BY InitView, StepView, PTL DEF Spec

\* The types of the view's state, and the steps a job can be at: the drainer's
\* outcome is undecided until its POST, a mark is always of sent.
\* (queue.ts, queueDrain.ts, createSend.ts.)
THEOREM TypeCorrect == Spec => []TypeOK
<1>1. ViewInv => TypeOK
  BY DEF ViewInv
<1> QED
  BY <1>1, ViewHolds, PTL

\* No tab shows sent, and the server records none, of a message that is not in
\* the transcript and that nobody declared sent: whatever answers are lost, late
\* or reordered, and however often the daemon takes dispatch over.
\* (noteDeliveredUserMessage, dispatchQueuedItem, resolveQueued, fetchQueue.)
THEOREM NoFalseSent == Spec => []SentIsTrue
<1>1. ViewInv => SentIsTrue
  <2> SUFFICES ASSUME ViewInv, NEW i \in Items, ~True(i)
               PROVE  /\ srv[i] # "sent"
                      /\ \A t \in Tabs : cache[t][i] # "sent" /\ known[t][i] # "sent"
    BY DEF SentIsTrue, True
  <2>1. ~Says(i, "sent")
    BY DEF ViewInv, ItemInv, SentOK
  <2> QED
    BY <2>1 DEF Says
<1> QED
  BY <1>1, ViewHolds, PTL

\* What the server has as failed, so that its text may be sent anew, has not
\* been posted and cannot land any more, unless a person retried it while only
\* the tab knew its outcome.  (dispatchQueuedItem's classes against Resolve's
\* matrix.)
THEOREM FailedIsUnposted == Spec => []FailedNeverArrives
<1>1. ViewInv => FailedNeverArrives
  <2> SUFFICES ASSUME ViewInv, NEW i \in Items, srv[i] = "failed",
                      <<"early", i>> \notin person
               PROVE  i \notin delivered \cup flying
    BY DEF FailedNeverArrives
  <2> QED
    BY DEF ViewInv, ItemInv, FreshOK, Posted, Safe
<1> QED
  BY <1>1, ViewHolds, PTL
=============================================================================
