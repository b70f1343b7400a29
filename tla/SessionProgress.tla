-------------------------- MODULE SessionProgress --------------------------
(***************************************************************************)
(* The session-progress plugin (.opencode/plugins/session-progress.js and   *)
(* its policy, judge and config scripts): a tool.execute.before hook that   *)
(* may deny a repeated failing call.  Calls of one session run in parallel  *)
(* and of several sessions interleave; a call that asks the judge awaits    *)
(* the history and the answer while others record, arm and consume leases,  *)
(* and the process-memory state of its session may be evicted meanwhile.    *)
(***************************************************************************)
EXTENDS Naturals, FiniteSets, Sequences

CONSTANTS
    Sessions, Sigs,      \* sessions; exact call signatures
    Exempt,              \* status polls, and calls without a usable signature
    Adverse,             \* failing outcomes, by their digest
    AgentOf,             \* the agent that acts in a session
    Entries,             \* cfg.agents: mode by agent name, and by "*"
    MaxCalls, MaxTime,   \* bounds: hook invocations, clock
    MaxParallel,         \* bound: calls open at a time
    Threshold, Window,   \* mechanical.repeat_threshold, window_seconds
    PriorMatches,        \* semantic.prior_matches
    LeaseTime, MaxDenials,  \* per rule: lease_seconds, max_denials
    MinInterval, MinAccrued,  \* cadence
    Deadline,            \* judge.timeout_ms
    Freshness,           \* ATTRIBUTION_FRESH_MS
    Global, MaxSessions, RingMax  \* concurrency.global, state.*

Rules == {"mechanical", "semantic"}

ASSUME ProgressAssumption ==
    /\ IsFiniteSet(Sessions) /\ IsFiniteSet(Sigs)
    /\ Sessions # {} /\ Sigs # {} /\ {"none", "unknown"} \cap Adverse = {}
    /\ {MaxCalls, MaxTime, MaxParallel, Threshold, Window, PriorMatches, MinInterval,
        MinAccrued, Deadline, Freshness, Global, MaxSessions, RingMax} \subseteq Nat
    /\ "*" \in DOMAIN Entries /\ MaxSessions > 0 /\ RingMax > 0
    /\ PriorMatches > 0
    /\ LeaseTime \in [Rules -> Nat] /\ MaxDenials \in [Rules -> Nat \ {0}]

VARIABLES
    now,      \* the clock
    sess,     \* _sessions: the state object of a session, 0 when it has none
    obj,      \* the state objects made so far
    call,     \* per invocation: its observation and where its hook stands
    busy,     \* _globalInFlight
    denials   \* history: the denials thrown

vars == <<now, sess, obj, call, busy, denials>>

Calls == 1..MaxCalls
NoLease == [hits |-> 0, until |-> 0, armed |-> FALSE]

\* newSessionState().
NewObject(t) ==
    [ring |-> <<>>, lease |-> [r \in Rules |-> [g \in Sigs |-> NoLease]],
     accrued |-> 0, last |-> t, seen |-> t, flight |-> FALSE,
     agent |-> "none", bound |-> 0]

\* An observation and its call: known is the recorded outcome, result
\* the real one.
NoCall == [s |-> CHOOSE s \in Sessions : TRUE, obj |-> 0, sig |-> CHOOSE g \in Sigs : TRUE,
           ts |-> 0, own |-> FALSE, known |-> "none", result |-> "none", step |-> "none",
           until |-> 0, can |-> FALSE]

-----------------------------------------------------------------------------
(* Policy.                                                                 *)

\* resolveMode(): specific entries need an attribution that is fresh; without
\* it the wildcard's mode applies and nothing may be denied.
NeedsAttribution == DOMAIN Entries # {"*"}
Attributed(o, t) == o.agent # "none" /\ t <= o.bound + Freshness
ModeFor(agent) == IF agent \in DOMAIN Entries THEN Entries[agent] ELSE Entries["*"]
Mode(o, t) == IF NeedsAttribution /\ Attributed(o, t) THEN ModeFor(o.agent)
              ELSE Entries["*"]
CanDeny(o, t) == /\ Mode(o, t) = "enforce"
                 /\ NeedsAttribution => Attributed(o, t)

\* boundRing().
Bounded(ring) ==
    IF Len(ring) > RingMax THEN SubSeq(ring, Len(ring) - RingMax + 1, Len(ring)) ELSE ring

\* evaluateMechanical(): the unbroken trailing run of a signature.
TrailingRun(ring, g) ==
    {j \in 1..Len(ring) : \A k \in j..Len(ring) :
        call[ring[k]].sig = g /\ g \notin Exempt /\ ~call[ring[k]].own}

\* outcomesUnchangedAdverse(): the adverse ones are enough and the same.
Unchanged(cs, least) ==
    LET real == {c \in cs : call[c].known \in Adverse}
    IN /\ Cardinality(real) >= least
       /\ \A c, d \in real : call[c].known = call[d].known

\* ring is the one before the current call's observation.
Mechanical(ring, g, t) ==
    LET run == TrailingRun(ring, g)
        prior == {ring[j] : j \in run}
        outs == {c \in prior : call[c].known # "none"}
    IN /\ Cardinality(prior) + 1 >= Threshold
       /\ \E j \in run : /\ \A k \in run : j <= k
                         /\ t <= call[ring[j]].ts + Window
       /\ Cardinality(outs) + 1 >= Cardinality(prior)
       /\ Cardinality(outs) >= 2 /\ Unchanged(outs, 2)

\* Mutant: anything but a success counts as a failure.
SemanticUnknown(o, g, t) ==
    LET prior == {c \in {o.ring[j] : j \in 1..Len(o.ring)} :
                    /\ call[c].sig = g /\ ~call[c].own
                    /\ call[c].known \notin {"none", "ok"} /\ t <= call[c].ts + Window}
    IN Cardinality(prior) >= PriorMatches

\* evaluateSemantic(): a looping verdict counts only with local corroboration.
Semantic(o, g, t) ==
    LET prior == {c \in {o.ring[j] : j \in 1..Len(o.ring)} :
                    /\ call[c].sig = g /\ ~call[c].own
                    /\ call[c].known \in Adverse /\ t <= call[c].ts + Window}
    IN Cardinality(prior) >= PriorMatches /\ Unchanged(prior, PriorMatches)

\* Mutant: one denial beyond the cap.
CappedLate(l, r) == l.armed /\ l.hits > MaxDenials[r]

\* leaseDecision().
Expired(l, t) == l.armed /\ t >= l.until
Capped(l, r) == l.armed /\ l.hits >= MaxDenials[r]
Denies(l, r, t) == l.armed /\ ~Expired(l, t) /\ ~Capped(l, r)

\* The first rule whose lease denies; the scan drops expired leases.
Scan(o, g, t) ==
    [o EXCEPT !.lease = [r \in Rules |->
        [o.lease[r] EXCEPT ![g] = IF Expired(@, t) THEN NoLease ELSE @]]]
Leased(o, g, t) == {r \in Rules : Denies(o.lease[r][g], r, t)}

\* spendGateOpen() and the busy checks.
MayAssess(o, t) ==
    /\ t >= o.last + MinInterval /\ o.accrued >= MinAccrued
    /\ ~o.flight /\ busy < Global

\* applyDeny(): the deciding lease is consumed, or a new one takes its first hit.
Hit(o, r, g, t, leased) ==
    IF leased THEN [o.lease[r][g] EXCEPT !.hits = @ + 1]
    ELSE [hits |-> 1, until |-> t + LeaseTime[r], armed |-> TRUE]
Armed(o, r, g, t, leased) ==
    [o EXCEPT !.lease[r][g] = Hit(o, r, g, t, leased),
              !.accrued = IF @ = 0 THEN 0 ELSE @ - 1]

-----------------------------------------------------------------------------
(* The hook.                                                               *)

\* sessionState(): at capacity the least recently seen state goes.
Live == {s \in Sessions : sess[s] # 0}
Evicted(s) ==
    IF sess[s] # 0 \/ Cardinality(Live) < MaxSessions THEN {0}
    ELSE {v \in Live : \A w \in Live : obj[sess[v]].seen <= obj[sess[w]].seen}
Rooms(s, v) ==
    [w \in Sessions |-> IF w = s /\ sess[s] = 0 THEN Len(obj) + 1
                        ELSE IF w = v THEN 0 ELSE sess[w]]
Current(s) == IF sess[s] = 0 THEN NewObject(now)
              ELSE [obj[sess[s]] EXCEPT !.seen = now]
Store(s, o) ==
    obj' = IF sess[s] = 0 THEN Append(obj, o) ELSE [obj EXCEPT ![sess[s]] = o]

Denied(c, i, r, g, lease) == denials' = denials \cup
    {[obj |-> i, rule |-> r, sig |-> g, at |-> now, call |-> c, hit |-> lease.hits]}

\* The mechanical rule rests while its lease is there, capped or not.
MechOpen(o, g) == ~o.lease["mechanical"][g].armed

\* The synchronous part of the hook, up to its return, its throw or its await.
Invoke(c, s, g) ==
    /\ call[c].step = "none" /\ \A d \in Calls : d < c => call[d].step # "none"
    /\ Cardinality({d \in Calls : call[d].step \notin {"none", "denied", "ran"}})
       < MaxParallel
    /\ \E v \in Evicted(s) : sess' = Rooms(s, v)
    /\ LET plain == g \notin Exempt
           here == Current(s)
           id == IF sess[s] = 0 THEN Len(obj) + 1 ELSE sess[s]
           off == Mode(here, now) = "off"
           seen == [here EXCEPT !.ring = Bounded(Append(@, c)),
                                !.accrued = IF plain THEN @ + 1 ELSE @]
           o == Scan(seen, g, now)
           can == CanDeny(here, now)
           leased == Leased(o, g, now)
           before == SubSeq(seen.ring, 1, Len(seen.ring) - 1)
           mech == MechOpen(o, g) /\ Mechanical(before, g, now)
           obs == [NoCall EXCEPT !.obj = id, !.sig = g, !.ts = now]
       IN \/ /\ off \/ ~plain
             /\ Store(s, IF off THEN here ELSE seen)
             /\ call' = [call EXCEPT ![c] = [obs EXCEPT !.step = "allowed",
                                                        !.obj = IF off THEN 0 ELSE id]]
             /\ UNCHANGED <<busy, denials>>
          \/ /\ ~off /\ plain /\ (leased # {} \/ mech)
             /\ LET r == IF leased = {} \/ "mechanical" \in leased
                         THEN "mechanical" ELSE "semantic"
                IN /\ Store(s, IF can THEN Armed(o, r, g, now, leased # {}) ELSE o)
                   /\ IF can THEN Denied(c, id, r, g, Hit(o, r, g, now, leased # {}))
                      ELSE UNCHANGED denials
             /\ call' = [call EXCEPT ![c] =
                    [obs EXCEPT !.step = IF can THEN "denied" ELSE "allowed",
                                !.own = can]]
             /\ UNCHANGED busy
          \/ /\ ~off /\ plain /\ leased = {} /\ ~mech /\ ~MayAssess(o, now)
             /\ Store(s, o)
             /\ call' = [call EXCEPT ![c] = [obs EXCEPT !.step = "allowed"]]
             /\ UNCHANGED <<busy, denials>>
          \/ /\ ~off /\ plain /\ leased = {} /\ ~mech /\ MayAssess(o, now)
             /\ Store(s, [o EXCEPT !.last = now, !.accrued = 0, !.flight = TRUE])
             /\ call' = [call EXCEPT ![c] =
                    [obs EXCEPT !.step = "history", !.until = now + Deadline,
                                !.s = s, !.can = can]]
             /\ busy' = busy + 1
             /\ UNCHANGED denials
    /\ UNCHANGED now

\* classifyHistoryPart(): a call still running reads as unknown, if it shows.
Shown(d, lag) ==
    IF call[d].result # "none" THEN call[d].result
    ELSE IF lag THEN "none" ELSE "unknown"

\* enrichFromHistory(): outcomes that are still open are filled in once, and
\* the session's agent is bound.
Enriched(c, lag) ==
    LET ring == obj[call[c].obj].ring IN
    [d \in Calls |->
        IF /\ \E j \in 1..Len(ring) : ring[j] = d
           /\ call[d].known = "none" /\ call[d].sig \notin Exempt /\ ~call[d].own
        THEN [call[d] EXCEPT !.known = Shown(d, lag)] ELSE call[d]]

\* The history arrived, or nothing did by the deadline; the judge is called
\* while there is budget and a target.
History(c, ok, lag) ==
    /\ call[c].step = "history" /\ now <= call[c].until
    /\ call' = [IF ok THEN Enriched(c, lag) ELSE call EXCEPT
                    ![c].step = IF now < call[c].until THEN "judge" ELSE "leave"]
    /\ obj' = IF ok THEN [obj EXCEPT ![call[c].obj].agent = AgentOf[call[c].s],
                                     ![call[c].obj].bound = now]
              ELSE obj
    /\ UNCHANGED <<now, sess, busy, denials>>

\* Mutant: the slot is given back only by a call that reached the judge's
\* answer.
FreedOnVerdict(c) ==
    IF call[c].step = "judge" THEN busy - 1 ELSE busy

\* The finally block gives the slots back, on every way out.
Freed(c) == busy - 1

\* The hook's frame is gone; the observation stays.
Back(c, how) ==
    [call[c] EXCEPT !.step = how, !.s = NoCall.s, !.until = 0, !.can = FALSE]

\* No verdict (deadline, error, no target) or one that is not a loop: allow.
Leave(c) ==
    /\ call[c].step \in {"judge", "leave"}
    /\ call' = [call EXCEPT ![c] = Back(c, "allowed")]
    /\ obj' = [obj EXCEPT ![call[c].obj].flight = FALSE]
    /\ busy' = Freed(c)
    /\ UNCHANGED <<now, sess, denials>>

\* No second semantic lease beside the first, expired or not.
SemOpen(o, g) == ~o.lease["semantic"][g].armed

\* A looping verdict in time, corroborated by the ring as it is now.
Looping(c) ==
    /\ call[c].step = "judge"
    /\ LET i == call[c].obj  g == call[c].sig  o == obj[i] IN
       /\ Semantic(o, g, now) /\ SemOpen(o, g)
       /\ obj' = [obj EXCEPT ![i] =
            [IF call[c].can THEN Armed(o, "semantic", g, now, FALSE) ELSE o
             EXCEPT !.flight = FALSE]]
       /\ IF call[c].can THEN Denied(c, i, "semantic", g, Hit(o, "semantic", g, now, FALSE))
          ELSE UNCHANGED denials
    /\ call' = [call EXCEPT ![c] =
            IF call[c].can THEN [Back(c, "denied") EXCEPT !.own = TRUE]
            ELSE Back(c, "allowed")]
    /\ busy' = Freed(c)
    /\ UNCHANGED <<now, sess>>

\* An allowed call runs and ends in a result.
Run(c) ==
    /\ call[c].step = "allowed"
    /\ \E r \in Adverse \cup {"ok"} :
        call' = [call EXCEPT ![c].step = "ran", ![c].result = r]
    /\ UNCHANGED <<now, sess, obj, busy, denials>>

\* Time passes, never beyond the deadline of a call that waits.
Tick ==
    /\ now < MaxTime
    /\ \A c \in Calls : call[c].step \in {"history", "judge"} => now < call[c].until
    /\ now' = now + 1
    /\ UNCHANGED <<sess, obj, call, busy, denials>>

Init ==
    /\ now = 0 /\ busy = 0 /\ denials = {} /\ obj = <<>>
    /\ sess = [s \in Sessions |-> 0]
    /\ call = [c \in Calls |-> NoCall]

HookStep(c) ==
    \/ \E ok, lag \in BOOLEAN : History(c, ok, lag)
    \/ Leave(c) \/ Looping(c)

Next ==
    \/ Tick
    \/ \E c \in Calls :
        \/ \E s \in Sessions, g \in Sigs : Invoke(c, s, g)
        \/ HookStep(c) \/ Run(c)

Spec == Init /\ [][Next]_vars

-----------------------------------------------------------------------------
(* Properties.                                                             *)

InFlight(c) == call[c].step \in {"history", "judge", "leave"}

\* Type invariant.
TypeOK ==
    /\ now \in 0..MaxTime /\ busy \in 0..Global
    /\ \A s \in Sessions : sess[s] \in 0..Len(obj)
    /\ \A i \in DOMAIN obj : Len(obj[i].ring) <= RingMax
    /\ \A c \in Calls : call[c].known \in Adverse \cup {"none", "ok", "unknown"}

\* The process-wide slots are exactly the calls on the slow path, and a session
\* state's own slot exactly its one call there, also after its eviction and on
\* every way out.  (tool.execute.before, the finally block.)
SlotsBalanced ==
    /\ busy = Cardinality({c \in Calls : InFlight(c)})
    /\ \A i \in DOMAIN obj :
        obj[i].flight <=> Cardinality({c \in Calls : InFlight(c) /\ call[c].obj = i}) = 1

\* Within one lease a rule denies a signature at most max_denials times, and a
\* lease is not armed again before it expired, whatever verdict arrives late.
\* (leaseDecision, createLease, the lease-window checks.)
DenialsCapped ==
    \A d \in denials :
        /\ d.hit <= MaxDenials[d.rule]
        /\ \A e \in denials :
            d.call # e.call /\ d.obj = e.obj /\ d.rule = e.rule /\ d.sig = e.sig
            /\ d.hit = 1 /\ e.hit = 1 /\ d.at <= e.at => e.at >= d.at + LeaseTime[d.rule]

\* A lease is armed only when enough earlier calls of the signature really ran
\* and really failed in the same way: denied, running or unknown ones are no
\* evidence.  (evaluateMechanical, evaluateSemantic, enrichFromHistory.)
DenialHasEvidence ==
    \A d \in denials : d.hit = 1 =>
        \E f \in Adverse :
            Cardinality({c \in Calls : /\ call[c].obj = d.obj /\ call[c].sig = d.sig
                                      /\ call[c].result = f /\ call[c].ts <= d.at})
            >= IF d.rule = "mechanical" THEN 2 ELSE PriorMatches

=============================================================================
