------------------------------ MODULE ToolGate ------------------------------
(***************************************************************************)
(* The auto tool gate (.opencode/plugins/auto-tool-gate.js and its verdict,  *)
(* live and tiered parts): a plugin that answers OpenCode's permission      *)
(* requests.  Handlers of several requests interleave at their awaits; the  *)
(* layered configuration files are edited under them and cached by mtime;   *)
(* classifier calls time out, fail and are retried; the reply may be lost,  *)
(* or a person may answer first.                                            *)
(***************************************************************************)
EXTENDS Naturals, FiniteSets

CONSTANTS
    Asks,        \* permission requests
    Leaves,      \* classifier endpoints an LLM configuration may list
    Bodies,      \* configuration objects: partial functions on Fields
    MaxEdits,    \* edits of the configuration files
    MaxRetries   \* maxRetries: attempts after the first

ASSUME GateAssumption ==
    /\ MaxEdits \in Nat /\ MaxRetries \in Nat
    /\ IsFiniteSet(Asks) /\ IsFiniteSet(Leaves) /\ Leaves # {}

VARIABLES
    file,     \* the plugin's configuration file of every layer
    llm,      \* the well-formed leaves of the LLM configuration
    raw,      \* the per-file parse caches
    merged,   \* the merged configuration's cache
    ask,      \* per request: its handler
    answer,   \* per request: what OpenCode was told
    edits     \* edits so far; the next file stamp

vars == <<file, llm, raw, merged, ask, answer, edits>>

-----------------------------------------------------------------------------
(* Layered configuration.                                                  *)

Layers == {"user", "project", "local"}
Above(l) == CASE l = "user" -> {"project", "local"}
              [] l = "project" -> {"local"}
              [] l = "local" -> {}

\* DEFAULT_PLUGIN_CONFIG and the values normalizePluginConfig() accepts.
Default == [enabled |-> "yes", mode |-> "audit", stub |-> "block",
            replyMode |-> "once", onUncertain |-> "reject"]
Fields == DOMAIN Default
Valid == [enabled |-> {"yes", "no"},
          mode |-> {"audit", "enforce", "live", "live-tiered"},
          stub |-> {"allow", "block", "fail"},
          replyMode |-> {"once", "always"},
          onUncertain |-> {"reject", "passthrough"}]

Nothing == [f \in {} |-> ""]
Stamps(fs) == [l \in Layers |-> IF fs[l].kind = "missing" THEN 0 ELSE fs[l].stamp]

\* The spread of the layers' raw objects over the defaults, then one
\* normalization: an invalid value hides the layers below and reads as default.
Merge(rs) ==
    [f \in Fields |->
        LET has == {l \in Layers : f \in DOMAIN rs[l]}
            top == CHOOSE l \in has : Above(l) \cap has = {}
        IN IF has # {} /\ rs[top][f] \in Valid[f] THEN rs[top][f] ELSE Default[f]]

\* What the files say now.
Effective(fs) ==
    Merge([l \in Layers |-> IF fs[l].kind = "object" THEN fs[l].body ELSE Nothing])

\* Mutant: the parse cache is used without comparing the mtime.
RawHitAnyStamp(fs, l) == fs[l].kind # "missing" /\ raw[l].good

\* _readRawJsonConfig(): the cached object while its mtime stands and the last
\* read was good; a missing or invalid file contributes nothing.
RawHit(fs, l) ==
    fs[l].kind # "missing" /\ raw[l].good /\ raw[l].stamp = fs[l].stamp
Raws(fs) ==
    [l \in Layers |-> IF RawHit(fs, l) THEN raw[l].body
                      ELSE IF fs[l].kind = "object" THEN fs[l].body ELSE Nothing]
RawsAfter(fs) ==
    [l \in Layers |->
        CASE RawHit(fs, l) -> raw[l]
          [] ~RawHit(fs, l) /\ fs[l].kind = "object" ->
                [stamp |-> fs[l].stamp, body |-> fs[l].body, good |-> TRUE]
          [] fs[l].kind = "invalid" \/ (fs[l].kind = "missing" /\ l = "project") ->
                [raw[l] EXCEPT !.good = FALSE]
          [] OTHER -> raw[l]]

\* _readLayeredConfig(): every mtime is the one of the last merge.
FastPath(fs) == merged.set /\ merged.stamps = Stamps(fs)

\* readConfig(), synchronous, but its files may be saved between the stat of
\* the fast path and the reads: before, after are the files at those times.
Config(before, after) ==
    IF FastPath(before) THEN merged.cfg ELSE Merge(Raws(after))
Caches(before, after) ==
    IF FastPath(before) THEN UNCHANGED <<raw, merged>>
    ELSE /\ raw' = RawsAfter(after)
         /\ merged' = [set |-> TRUE, stamps |-> Stamps(before), at |-> edits,
                       cfg |-> Merge(Raws(after))]

\* The files one save later.
Put(l, k, b) == [file EXCEPT ![l] = [kind |-> k, stamp |-> edits + 1, body |-> b]]
Saved ==
    {Put(l, "object", b) : l \in Layers, b \in Bodies}
    \cup {Put(l, k, Nothing) : l \in Layers, k \in {"invalid", "missing"}}

Reads(after) ==
    /\ file' = after
    /\ \/ after = file /\ edits' = edits
       \/ after \in Saved /\ edits < MaxEdits /\ edits' = edits + 1
    /\ Caches(file, after)

\* An operator saves or removes a layer's file.
Edit ==
    /\ edits < MaxEdits
    /\ \E fs \in Saved : file' = fs
    /\ edits' = edits + 1
    /\ UNCHANGED <<llm, raw, merged, ask, answer>>

EditLlm ==
    /\ edits < MaxEdits
    /\ llm' \in (SUBSET Leaves) \ {llm}
    /\ edits' = edits + 1
    /\ UNCHANGED <<file, raw, merged, ask, answer>>

\* tool.execute.before: reads the configuration, logs, never blocks.
Observe(after) ==
    /\ Reads(after)
    /\ UNCHANGED <<llm, ask, answer>>

-----------------------------------------------------------------------------
(* The decision.                                                           *)

\* What one classifier attempt ends in (_attemptFetchParse): a <block> tag, text
\* without one, a transient failure (timeout, transport, 5xx, no content) or a
\* permanent one (4xx, malformed JSON, and before the call a missing endpoint,
\* model, key or prompt).
Outcomes == {"no", "yes", "noise", "transient", "permanent"}
Retryable == {"transient"}

\* The retry loop goes round again.
Again(o, attempt) == o \in Retryable /\ attempt <= MaxRetries

\* decidePermission() on the classifier's text, then normalizeLeafOutcome():
\* only an anchored <block>no is an allow, only <block>yes a judged denial.
LeafOutcome(o) == CASE o = "no" -> "allow" [] o = "yes" -> "deny" [] OTHER -> "fail"

\* Mutant: leaves that failed are left out of the count.
AggregateAnswered(outs) ==
    LET votes == {l \in DOMAIN outs : LeafOutcome(outs[l]) # "fail"}
    IN IF votes # {} /\ \A l \in votes : LeafOutcome(outs[l]) = "allow"
       THEN "allow" ELSE "deny"

\* aggregateLeafOutcomes(): unanimous, at least one leaf, no failures.
Aggregate(outs) ==
    IF DOMAIN outs # {} /\ \A l \in DOMAIN outs : LeafOutcome(outs[l]) = "allow"
    THEN "allow" ELSE "deny"

\* stubEvaluate() through the same matrix.
StubStatus(cfg) == IF cfg.stub = "allow" THEN "allow" ELSE "deny"

\* The leaves a mode asks: mode live has one endpoint.
Single == CHOOSE l \in Leaves : TRUE
Panel(cfg) == IF cfg.mode = "live" THEN llm \cap {Single} ELSE llm

-----------------------------------------------------------------------------
(* The event hook.                                                         *)

Fresh == [step |-> "none", cfg |-> Default, call |-> Nothing, outs |-> Nothing,
          verdict |-> "none", lost |-> FALSE]

\* OpenCode publishes permission.asked and waits for an answer.
Ask(a) ==
    /\ ask[a].step = "none"
    /\ ask' = [ask EXCEPT ![a].step = "asked"]
    /\ UNCHANGED <<file, llm, raw, merged, answer, edits>>

\* handleUncertain().
Uncertain(cfg) ==
    IF cfg.onUncertain = "passthrough" THEN [step |-> "done", verdict |-> "pass"]
    ELSE [step |-> "v2", verdict |-> "deny"]

\* A decided request is replied to: a rejection carries a reason (v2 first).
Decided(s) == IF s = "allow" THEN [step |-> "v1", verdict |-> "allow"]
              ELSE [step |-> "v2", verdict |-> "deny"]

\* The handler's synchronous part, up to its first await.
Start(cfg) ==
    CASE cfg.enabled = "no" -> [step |-> "done", verdict |-> "off"]
      [] cfg.enabled = "yes" /\ cfg.mode = "audit" ->
            [step |-> "done", verdict |-> "audit"]
      [] cfg.enabled = "yes" /\ cfg.mode = "enforce" -> Decided(StubStatus(cfg))
      [] OTHER -> IF Panel(cfg) = {} THEN Uncertain(cfg)
                  ELSE [step |-> "transcript", verdict |-> "none"]

Handle(a, after) ==
    /\ ask[a].step = "asked"
    /\ Reads(after)
    /\ LET cfg == Config(file, after) IN
       ask' = [ask EXCEPT ![a].cfg = cfg,
                          ![a].step = Start(cfg).step,
                          ![a].verdict = Start(cfg).verdict,
                          ![a].call = [l \in Panel(cfg) |-> 1]]
    /\ UNCHANGED <<llm, answer>>

\* The transcript arrived, or its fetch failed: the calls start either way.
Transcript(a) ==
    /\ ask[a].step = "transcript"
    /\ ask' = [ask EXCEPT ![a].step = "calls"]
    /\ UNCHANGED <<file, llm, raw, merged, answer, edits>>

\* A leaf's attempt ends; the loop retries it or the leaf is settled.
Settle(a, l, o) ==
    /\ ask[a].step = "calls" /\ l \in DOMAIN ask[a].call
    /\ l \notin DOMAIN ask[a].outs
    /\ ask' = IF Again(o, ask[a].call[l])
              THEN [ask EXCEPT ![a].call[l] = @ + 1]
              ELSE [ask EXCEPT ![a].outs =
                       [k \in DOMAIN @ \cup {l} |-> IF k = l THEN o ELSE @[k]]]
    /\ UNCHANGED <<file, llm, raw, merged, answer, edits>>

\* The headers arrived, which stops the timer, and the body never does.
Stall(a, l) ==
    /\ ask[a].step = "calls"
    /\ l \in DOMAIN ask[a].call \ DOMAIN ask[a].outs
    /\ ask' = [ask EXCEPT ![a].step = "stalled"]
    /\ UNCHANGED <<file, llm, raw, merged, answer, edits>>

\* Mutant: a failed leaf rejects Promise.all() and with it the handler.
ConcludeRejects(a) ==
    /\ ask[a].step = "calls" /\ DOMAIN ask[a].outs = DOMAIN ask[a].call
    /\ \A l \in DOMAIN ask[a].outs : LeafOutcome(ask[a].outs[l]) # "fail"
    /\ LET d == Decided(Aggregate(ask[a].outs)) IN
       ask' = [ask EXCEPT ![a].step = d.step, ![a].verdict = d.verdict]
    /\ UNCHANGED <<file, llm, raw, merged, answer, edits>>

\* Promise.all() is settled.
Conclude(a) ==
    /\ ask[a].step = "calls" /\ DOMAIN ask[a].outs = DOMAIN ask[a].call
    /\ LET d == Decided(Aggregate(ask[a].outs)) IN
       ask' = [ask EXCEPT ![a].step = d.step, ![a].verdict = d.verdict]
    /\ UNCHANGED <<file, llm, raw, merged, answer, edits>>

-----------------------------------------------------------------------------
(* reply().                                                                *)

\* OpenCode resolves the request it is still waiting on.
Resolve(a) == answer' = [answer EXCEPT ![a] = IF @ = "none" THEN ask[a].verdict ELSE @]

\* Mutant: an error of the v2 route ends the reply.
ReplyV2Gives(a) ==
    /\ ask[a].step = "v2"
    /\ \/ /\ answer[a] = "none" /\ Resolve(a)
          /\ ask' = [ask EXCEPT ![a].step = "done"]
       \/ ask' = [ask EXCEPT ![a].step = "done"] /\ UNCHANGED answer
       \/ ask' = [ask EXCEPT ![a].step = "done", ![a].lost = TRUE]
          /\ UNCHANGED answer
    /\ UNCHANGED <<file, llm, raw, merged, edits>>

\* The v2 route, with the reason: accepted; or an error, and v1 is tried; or
\* the transport throws, which the catch around both routes ends.
ReplyV2(a) ==
    /\ ask[a].step = "v2"
    /\ \/ /\ answer[a] = "none" /\ Resolve(a)
          /\ ask' = [ask EXCEPT ![a].step = "done"]
       \/ ask' = [ask EXCEPT ![a].step = "v1"] /\ UNCHANGED answer
       \/ ask' = [ask EXCEPT ![a].step = "done", ![a].lost = TRUE]
          /\ UNCHANGED answer
    /\ UNCHANGED <<file, llm, raw, merged, edits>>

\* The v1 route: its failure is logged.
ReplyV1(a) ==
    /\ ask[a].step = "v1"
    /\ \/ /\ answer[a] = "none" /\ Resolve(a)
          /\ ask' = [ask EXCEPT ![a].step = "done"]
       \/ ask' = [ask EXCEPT ![a].step = "done", ![a].lost = TRUE]
          /\ UNCHANGED answer
    /\ UNCHANGED <<file, llm, raw, merged, edits>>

\* A person answers a pending request.
Person(a) ==
    /\ ask[a].step # "none" /\ answer[a] = "none"
    /\ answer' = [answer EXCEPT ![a] = "person"]
    /\ UNCHANGED <<file, llm, raw, merged, ask, edits>>

-----------------------------------------------------------------------------
Init ==
    /\ file = [l \in Layers |-> [kind |-> "missing", stamp |-> 0, body |-> Nothing]]
    /\ llm = Leaves
    /\ raw = [l \in Layers |-> [stamp |-> 0, body |-> Nothing, good |-> FALSE]]
    /\ merged = [set |-> FALSE, stamps |-> Stamps(file), at |-> 0,
                 cfg |-> Default]
    /\ ask = [a \in Asks |-> Fresh]
    /\ answer = [a \in Asks |-> "none"]
    /\ edits = 0

HandlerStep(a) ==
    \/ \E after \in Saved \cup {file} : Handle(a, after)
    \/ Transcript(a) \/ Conclude(a) \/ ReplyV2(a) \/ ReplyV1(a)
    \/ \E l \in Leaves, o \in Outcomes : Settle(a, l, o)

Next ==
    \/ Edit \/ EditLlm
    \/ \E after \in Saved \cup {file} : Observe(after)
    \/ \E a \in Asks : Ask(a) \/ HandlerStep(a) \/ Person(a)
                       \/ \E l \in Leaves : Stall(a, l)

\* The runtime runs a handler on; a call ends in an answer, an error or the
\* abort of its timer, save for a stalled body.
Spec == Init /\ [][Next]_vars /\ \A a \in Asks : WF_vars(HandlerStep(a))

-----------------------------------------------------------------------------
(* Properties.                                                             *)

\* Type invariant.
TypeOK ==
    /\ \A l \in Layers : file[l].kind \in {"missing", "invalid", "object"}
    /\ llm \subseteq Leaves /\ edits \in 0..MaxEdits
    /\ \A a \in Asks :
        /\ ask[a].step \in {"none", "asked", "transcript", "calls", "stalled",
                            "v2", "v1", "done"}
        /\ \A f \in Fields : ask[a].cfg[f] \in Valid[f]
        /\ DOMAIN ask[a].outs \subseteq DOMAIN ask[a].call
        /\ answer[a] \in {"none", "allow", "deny", "person"}

\* The gate grants a request only on the stub's configured allow, or on an
\* allow judged by every leaf it asked, and it asked at least one: no failure,
\* retry, edit or late result turns into a grant.  (the event hook,
\* decidePermission, aggregateLeafOutcomes.)
GrantIsUnanimous ==
    \A a \in Asks : answer[a] = "allow" =>
        /\ ask[a].cfg.enabled = "yes"
        /\ \/ ask[a].cfg.mode = "enforce" /\ ask[a].cfg.stub = "allow"
           \/ /\ ask[a].cfg.mode \in {"live", "live-tiered"}
              /\ DOMAIN ask[a].call # {}
              /\ \A l \in DOMAIN ask[a].call :
                    l \in DOMAIN ask[a].outs /\ ask[a].outs[l] = "no"

\* A handler that is over leaves the request unanswered only where it is meant
\* to (gate off, audit, passthrough) or where its last reply call was lost.
\* (reply and handleUncertain: the v2 route's error falls back to v1.)
NoSilentHang ==
    \A a \in Asks : ask[a].step = "done" /\ answer[a] = "none" =>
        ask[a].lost \/ ask[a].verdict \in {"off", "audit", "pass"}

\* While every file has the mtime of the merge, the cached configuration is
\* what the files say, whatever was saved during the read that filled it; a
\* layer removed since then is set apart, because absence has no mtime.
\* (_readLayeredConfig and _readRawJsonConfig: stat first, read after.)
CacheCoherent ==
    /\ merged.set /\ merged.stamps = Stamps(file)
    /\ \A l \in Layers : file[l].kind = "missing" => file[l].stamp <= merged.at
    => merged.cfg = Effective(file)

\* Every request's handler comes to an end: timeouts and bounded retries leave
\* no request waiting on a classifier.  (_classifyLiveCore and the hook's
\* promise that autonomous modes reply; a response whose body stalls after its
\* headers is the known exception, auto-gate-live.js:701.)
HandlerEnds ==
    \A a \in Asks : ask[a].step = "asked" ~> ask[a].step \in {"done", "stalled"}
=============================================================================
