--------------------------- MODULE ToolGateProofs ---------------------------
(***************************************************************************)
(* Machine-checked proofs about ToolGate, for any requests, classifier      *)
(* leaves, configuration objects, edits and retries.                       *)
(*                                                                         *)
(* A handler's verdict is decided once, from what it holds then, and an     *)
(* answer only repeats it (GateInv).  The caches are right because a save   *)
(* takes a stamp newer than any that was read, and the stat comes before    *)
(* the read (CacheInv).                                                     *)
(***************************************************************************)
EXTENDS ToolGate, TLAPS

Cfg == [enabled : {"yes", "no"},
        mode : {"audit", "enforce", "live", "live-tiered"},
        stub : {"allow", "block", "fail"},
        replyMode : {"once", "always"},
        onUncertain : {"reject", "passthrough"}]
Contents == Bodies \cup {Nothing}
File == [kind : {"missing", "invalid", "object"}, stamp : Nat, body : Contents]
Raw == [stamp : Nat, body : Contents, good : BOOLEAN]
Handler ==
    [step : {"none", "asked", "transcript", "calls", "stalled", "v2", "v1", "done"},
     cfg : Cfg,
     call : UNION {[S -> Nat] : S \in SUBSET Leaves},
     outs : UNION {[S -> Outcomes] : S \in SUBSET Leaves},
     verdict : {"none", "off", "audit", "pass", "allow", "deny"},
     lost : BOOLEAN]

TypeInv ==
    /\ file \in [Layers -> File] /\ llm \subseteq Leaves
    /\ raw \in [Layers -> Raw]
    /\ merged \in [set : BOOLEAN, stamps : [Layers -> Nat], at : Nat, cfg : Cfg]
    /\ ask \in [Asks -> Handler]
    /\ answer \in [Asks -> {"none", "allow", "deny", "person"}]
    /\ edits \in 0..MaxEdits

-----------------------------------------------------------------------------
(* Handlers.                                                               *)

\* The grounds of a grant.
Granted(h) ==
    /\ h.cfg.enabled = "yes"
    /\ \/ h.cfg.mode = "enforce" /\ h.cfg.stub = "allow"
       \/ /\ h.cfg.mode \in {"live", "live-tiered"}
          /\ DOMAIN h.call # {} /\ DOMAIN h.outs = DOMAIN h.call
          /\ \A l \in DOMAIN h.call : h.outs[l] = "no"

\* A handler has no verdict before it decides and keeps the one it reached; it
\* asks classifiers only in a live mode, and at least one.
HandlerOK(h) ==
    /\ h.step \in {"none", "asked"} => DOMAIN h.outs = {}
    /\ h.step \in {"none", "asked", "transcript", "calls", "stalled"} <=>
           h.verdict = "none"
    /\ h.step \in {"transcript", "calls", "stalled"} =>
           /\ h.cfg.enabled = "yes" /\ h.cfg.mode \in {"live", "live-tiered"}
           /\ DOMAIN h.call # {}
    /\ h.step \in {"v1", "v2"} => h.verdict \in {"allow", "deny"}
    /\ DOMAIN h.outs \subseteq DOMAIN h.call
    /\ h.verdict = "allow" => Granted(h)

\* OpenCode was told the verdict, or a person's answer; and a handler that is
\* over and was not meant to keep quiet told it, or lost its last call.
AnswerOK(h, r) ==
    /\ r \in {"allow", "deny"} => h.verdict = r
    /\ h.step = "done" /\ r = "none" =>
           h.lost \/ h.verdict \in {"off", "audit", "pass"}

GateInv ==
    /\ TypeInv
    /\ \A a \in Asks : HandlerOK(ask[a]) /\ AnswerOK(ask[a], answer[a])

-----------------------------------------------------------------------------
(* Configurations.                                                         *)

LEMMA FieldsAre ==
    Fields = {"enabled", "mode", "stub", "replyMode", "onUncertain"}
  BY DEF Fields, Default

\* Whatever the files hold, the merged configuration has valid values.
LEMMA MergeValid == ASSUME NEW rs PROVE \A f \in Fields : Merge(rs)[f] \in Valid[f]
<1>1. \A f \in Fields : Default[f] \in Valid[f]
  BY FieldsAre DEF Default, Valid
<1> QED
  BY <1>1 DEF Merge

LEMMA MergeCfg == ASSUME NEW rs PROVE Merge(rs) \in Cfg
<1>1. Merge(rs) \in [Fields -> {Merge(rs)[f] : f \in Fields}]
  BY DEF Merge
<1>2. /\ Merge(rs)["enabled"] \in {"yes", "no"}
      /\ Merge(rs)["mode"] \in {"audit", "enforce", "live", "live-tiered"}
      /\ Merge(rs)["stub"] \in {"allow", "block", "fail"}
      /\ Merge(rs)["replyMode"] \in {"once", "always"}
      /\ Merge(rs)["onUncertain"] \in {"reject", "passthrough"}
  BY MergeValid, FieldsAre DEF Valid
<1> QED
  BY <1>1, <1>2, FieldsAre DEF Cfg

LEMMA DefaultCfg == Default \in Cfg
  BY DEF Default, Cfg

\* A configuration's values are valid field by field.
LEMMA CfgValid == ASSUME NEW c \in Cfg PROVE \A f \in Fields : c[f] \in Valid[f]
  BY FieldsAre DEF Cfg, Valid

\* A save replaces one layer's file by one with a new stamp.
LEMMA SavedFile ==
    ASSUME TypeInv, NEW fs \in Saved
    PROVE  \E l \in Layers, k \in {"missing", "invalid", "object"},
              b \in Contents : fs = Put(l, k, b)
  BY DEF Saved, Contents

LEMMA SavedType == ASSUME TypeInv, NEW fs \in Saved PROVE fs \in [Layers -> File]
<1>1. PICK l \in Layers, k \in {"missing", "invalid", "object"}, b \in Contents :
          fs = Put(l, k, b)
  BY SavedFile
<1>2. [kind |-> k, stamp |-> edits + 1, body |-> b] \in File
  BY DEF File, TypeInv
<1> QED
  BY <1>1, <1>2 DEF Put, TypeInv

\* Reading the configuration keeps the files and the caches well formed, and
\* yields valid values.
LEMMA ReadsType ==
    ASSUME TypeInv, NEW after \in Saved \cup {file}, Reads(after)
    PROVE  /\ file' \in [Layers -> File] /\ raw' \in [Layers -> Raw]
           /\ merged' \in [set : BOOLEAN, stamps : [Layers -> Nat], at : Nat,
                           cfg : Cfg]
           /\ edits' \in 0..MaxEdits
           /\ Config(file, after) \in Cfg
<1> USE GateAssumption
<1>1. after \in [Layers -> File]
  BY SavedType DEF TypeInv
<1>2. file' = after /\ edits' \in 0..MaxEdits
  BY DEF Reads, TypeInv
<1>3. RawsAfter(after) \in [Layers -> Raw]
  <2>1. ASSUME NEW l \in Layers PROVE RawsAfter(after)[l] \in Raw
    <3>1. raw[l] \in Raw /\ after[l] \in File
      BY <1>1 DEF TypeInv
    <3>2. /\ [raw[l] EXCEPT !.good = FALSE] \in Raw
          /\ [stamp |-> after[l].stamp, body |-> after[l].body, good |-> TRUE] \in Raw
      BY <3>1 DEF Raw, File
    <3> QED
      BY <3>1, <3>2 DEF RawsAfter
  <2> QED
    BY <2>1 DEF RawsAfter
<1>4. Stamps(file) \in [Layers -> Nat]
  BY DEF Stamps, TypeInv, File
<1>5. Merge(Raws(after)) \in Cfg
  BY MergeCfg
<1>6. CASE FastPath(file)
  BY <1>1, <1>2, <1>6 DEF Reads, Caches, Config, TypeInv
<1>7. CASE ~FastPath(file)
  <2>1. raw' = RawsAfter(after)
        /\ merged' = [set |-> TRUE, stamps |-> Stamps(file), at |-> edits,
                      cfg |-> Merge(Raws(after))]
    BY <1>7 DEF Reads, Caches
  <2> QED
    BY <1>1, <1>2, <1>3, <1>4, <1>5, <1>7, <2>1 DEF Config, TypeInv
<1> QED
  BY <1>6, <1>7

-----------------------------------------------------------------------------
(* The gate's decision.                                                    *)

LEMMA NoLeaves ==
    /\ Nothing \in UNION {[S -> Nat] : S \in SUBSET Leaves}
    /\ Nothing \in UNION {[S -> Outcomes] : S \in SUBSET Leaves}
    /\ DOMAIN Nothing = {}
<1>1. Nothing \in [{} -> Nat] /\ Nothing \in [{} -> Outcomes]
  BY DEF Nothing
<1> QED
  BY <1>1 DEF Nothing

LEMMA GateInit == Init => GateInv
<1> SUFFICES ASSUME Init PROVE GateInv
  OBVIOUS
<1> USE GateAssumption
<1>1. Fresh \in Handler
  BY NoLeaves, DefaultCfg DEF Fresh, Handler
<1>2. file \in [Layers -> File] /\ raw \in [Layers -> Raw]
  BY DEF Init, File, Raw, Contents
<1>3. Stamps(file) \in [Layers -> Nat]
  BY <1>2 DEF Stamps, File
<1>4. TypeInv
  <2>1. merged \in [set : BOOLEAN, stamps : [Layers -> Nat], at : Nat, cfg : Cfg]
    BY <1>3, DefaultCfg DEF Init
  <2>2. /\ ask \in [Asks -> Handler] /\ edits \in 0..MaxEdits
        /\ answer \in [Asks -> {"none", "allow", "deny", "person"}]
    BY <1>1 DEF Init
  <2> QED
    BY <1>2, <2>1, <2>2 DEF Init, TypeInv
<1>5. HandlerOK(Fresh) /\ AnswerOK(Fresh, "none")
  BY NoLeaves DEF Fresh, HandlerOK, AnswerOK
<1> QED
  BY <1>4, <1>5 DEF Init, GateInv

\* An allow is unanimous over at least one leaf.
LEMMA AggregateAllows ==
    ASSUME NEW outs, Aggregate(outs) = "allow"
    PROVE  DOMAIN outs # {} /\ \A l \in DOMAIN outs : outs[l] = "no"
  BY DEF Aggregate, LeafOutcome

\* The handler after its synchronous part.
LEMMA StartOK ==
    ASSUME TypeInv, NEW h \in Handler, HandlerOK(h), h.step = "asked",
           NEW c \in Cfg
    PROVE  LET n == [h EXCEPT !.cfg = c, !.step = Start(c).step,
                              !.verdict = Start(c).verdict,
                              !.call = [l \in Panel(c) |-> 1]]
           IN  /\ n \in Handler /\ HandlerOK(n) /\ n.lost = h.lost
               /\ n.step = "done" => n.verdict \in {"off", "audit", "pass"}
<1> DEFINE s == Start(c).step
           v == Start(c).verdict
           call == [l \in Panel(c) |-> 1]
           n == [h EXCEPT !.cfg = c, !.step = s, !.verdict = v, !.call = call]
<1>1. Panel(c) \subseteq Leaves
  BY DEF Panel, TypeInv
<1>2. call \in UNION {[S -> Nat] : S \in SUBSET Leaves} /\ DOMAIN call = Panel(c)
  <2>1. call \in [Panel(c) -> Nat]
    OBVIOUS
  <2> QED
    BY <1>1, <2>1
<1>3. \/ s = "done" /\ v \in {"off", "audit", "pass"}
      \/ s = "v2" /\ v = "deny"
      \/ /\ s = "v1" /\ v = "allow" /\ c.enabled = "yes"
         /\ c.mode = "enforce" /\ c.stub = "allow"
      \/ /\ s = "transcript" /\ v = "none" /\ c.enabled = "yes"
         /\ c.mode \in {"live", "live-tiered"} /\ Panel(c) # {}
  BY DEF Start, Decided, StubStatus, Uncertain, Cfg
<1> HIDE DEF s, v, call
<1>4. n \in Handler
  BY <1>2, <1>3 DEF Handler
<1>5. /\ n.step = s /\ n.verdict = v /\ n.cfg = c /\ n.call = call
      /\ n.outs = h.outs /\ n.lost = h.lost
  BY DEF Handler
<1> HIDE DEF n
<1>6. HandlerOK(n)
  BY <1>2, <1>3, <1>5 DEF HandlerOK, Granted
<1> QED
  BY <1>3, <1>4, <1>5, <1>6 DEF n, s, v, call

\* The step of one handler: what it becomes and what OpenCode is told.
LEMMA HandlerStepOK ==
    ASSUME GateInv, NEW a \in Asks,
           Ask(a) \/ Transcript(a) \/ Conclude(a) \/ ReplyV2(a) \/ ReplyV1(a)
           \/ (\E l \in Leaves, o \in Outcomes : Settle(a, l, o))
           \/ (\E l \in Leaves : Stall(a, l))
    PROVE  /\ ask' = [ask EXCEPT ![a] = ask'[a]] /\ ask'[a] \in Handler
           /\ answer' = [answer EXCEPT ![a] = answer'[a]]
           /\ answer'[a] \in {"none", "allow", "deny", "person"}
           /\ HandlerOK(ask'[a]) /\ AnswerOK(ask'[a], answer'[a])
<1> DEFINE h == ask[a]
           r == answer[a]
<1>0. /\ h \in Handler /\ HandlerOK(h) /\ AnswerOK(h, r)
      /\ r \in {"none", "allow", "deny", "person"}
      /\ ask \in [Asks -> Handler]
      /\ answer \in [Asks -> {"none", "allow", "deny", "person"}]
  BY DEF GateInv, TypeInv
<1>1. ASSUME NEW s \in {"asked", "calls", "stalled"},
             ask' = [ask EXCEPT ![a].step = s], answer' = answer,
             \/ h.step = "none" /\ s = "asked"
             \/ h.step \in {"transcript", "calls"} /\ s \in {"calls", "stalled"}
      PROVE  /\ ask' = [ask EXCEPT ![a] = ask'[a]] /\ ask'[a] \in Handler
             /\ HandlerOK(ask'[a]) /\ AnswerOK(ask'[a], answer'[a])
  <2>1. /\ ask' = [ask EXCEPT ![a] = ask'[a]] /\ ask'[a] = [h EXCEPT !.step = s]
    BY <1>0, <1>1
  <2>2. /\ ask'[a] \in Handler /\ ask'[a].step = s /\ ask'[a].verdict = h.verdict
        /\ ask'[a].cfg = h.cfg /\ ask'[a].call = h.call /\ ask'[a].outs = h.outs
    BY <1>0, <2>1 DEF Handler
  <2> QED
    BY <1>0, <1>1, <2>1, <2>2 DEF HandlerOK, Granted, AnswerOK
<1>2. CASE Ask(a)
  BY <1>0, <1>1, <1>2 DEF Ask
<1>3. CASE Transcript(a)
  BY <1>0, <1>1, <1>3 DEF Transcript
<1>4. CASE \E l \in Leaves : Stall(a, l)
  BY <1>0, <1>1, <1>4 DEF Stall
<1>5. ASSUME NEW l \in Leaves, NEW o \in Outcomes, Settle(a, l, o)
      PROVE  /\ ask' = [ask EXCEPT ![a] = ask'[a]] /\ ask'[a] \in Handler
             /\ HandlerOK(ask'[a]) /\ AnswerOK(ask'[a], answer[a])
  <2>1. h.step = "calls" /\ l \in DOMAIN h.call /\ l \notin DOMAIN h.outs
    BY <1>5 DEF Settle
  <2>2. CASE ask' = [ask EXCEPT ![a].call[l] = @ + 1]
    <3> DEFINE c == [h.call EXCEPT ![l] = @ + 1]
    <3>1. PICK S \in SUBSET Leaves : h.call \in [S -> Nat]
      BY <1>0 DEF Handler
    <3>2. c \in [S -> Nat] /\ DOMAIN c = DOMAIN h.call
      BY <2>1, <3>1
    <3>3. /\ ask' = [ask EXCEPT ![a] = ask'[a]]
          /\ ask'[a] = [h EXCEPT !.call = c]
      BY <1>0, <2>2
    <3> HIDE DEF c
    <3>4. /\ ask'[a] \in Handler /\ ask'[a].step = h.step
          /\ ask'[a].verdict = h.verdict /\ ask'[a].cfg = h.cfg
          /\ ask'[a].call = c /\ ask'[a].outs = h.outs
      BY <1>0, <3>2, <3>3 DEF Handler
    <3> QED
      BY <1>0, <2>1, <3>2, <3>3, <3>4 DEF HandlerOK, AnswerOK
  <2>3. CASE ask' = [ask EXCEPT ![a].outs =
                       [k \in DOMAIN @ \cup {l} |-> IF k = l THEN o ELSE @[k]]]
    <3> DEFINE c == [k \in DOMAIN h.outs \cup {l} |-> IF k = l THEN o ELSE h.outs[k]]
    <3>1. PICK S \in SUBSET Leaves : h.outs \in [S -> Outcomes]
      BY <1>0 DEF Handler
    <3>2. c \in [S \cup {l} -> Outcomes] /\ DOMAIN c = DOMAIN h.outs \cup {l}
      BY <2>1, <3>1
    <3>3. /\ ask' = [ask EXCEPT ![a] = ask'[a]]
          /\ ask'[a] = [h EXCEPT !.outs = c]
      BY <1>0, <2>3
    <3> HIDE DEF c
    <3>4. /\ ask'[a] \in Handler /\ ask'[a].step = h.step
          /\ ask'[a].verdict = h.verdict /\ ask'[a].cfg = h.cfg
          /\ ask'[a].call = h.call /\ ask'[a].outs = c
      BY <1>0, <3>2, <3>3 DEF Handler
    <3> QED
      BY <1>0, <2>1, <3>2, <3>3, <3>4 DEF HandlerOK, AnswerOK
  <2> QED
    BY <1>5, <2>2, <2>3 DEF Settle
<1>6. CASE Conclude(a)
  <2> DEFINE d == Decided(Aggregate(h.outs))
  <2>1. /\ h.step = "calls" /\ DOMAIN h.outs = DOMAIN h.call
        /\ ask' = [ask EXCEPT ![a].step = d.step, ![a].verdict = d.verdict]
        /\ answer' = answer
    BY <1>6 DEF Conclude
  <2>2. \/ d.step = "v2" /\ d.verdict = "deny"
        \/ d.step = "v1" /\ d.verdict = "allow" /\ Aggregate(h.outs) = "allow"
    BY DEF Decided
  <2> HIDE DEF d
  <2>3. /\ ask' = [ask EXCEPT ![a] = ask'[a]]
        /\ ask'[a] = [h EXCEPT !.step = d.step, !.verdict = d.verdict]
    BY <1>0, <2>1
  <2>4. /\ ask'[a] \in Handler /\ ask'[a].step = d.step
        /\ ask'[a].verdict = d.verdict /\ ask'[a].cfg = h.cfg
        /\ ask'[a].call = h.call /\ ask'[a].outs = h.outs
    BY <1>0, <2>2, <2>3 DEF Handler
  <2>5. d.verdict = "allow" => \A l \in DOMAIN h.outs : h.outs[l] = "no"
    BY <2>2, AggregateAllows
  <2>6. HandlerOK(ask'[a]) /\ AnswerOK(ask'[a], answer'[a])
    BY <1>0, <2>1, <2>2, <2>4, <2>5 DEF HandlerOK, AnswerOK, Granted
  <2> QED
    BY <1>0, <2>1, <2>3, <2>4, <2>6
<1>7. CASE ReplyV2(a) \/ ReplyV1(a)
  <2>1. h.step \in {"v1", "v2"} /\ h.verdict \in {"allow", "deny"}
    BY <1>0, <1>7, SMTT(20) DEF ReplyV2, ReplyV1, HandlerOK
  <2>2. PICK s \in {"done", "v1"}, x \in BOOLEAN :
          /\ ask'[a] = [h EXCEPT !.step = s, !.lost = x]
          /\ ask' = [ask EXCEPT ![a] = ask'[a]]
          /\ answer' = [answer EXCEPT ![a] = answer'[a]]
          /\ \/ answer'[a] = r /\ (s = "done" => x)
             \/ r = "none" /\ answer'[a] = h.verdict
    <3>1. CASE answer' = [answer EXCEPT ![a] = h.verdict] /\ r = "none"
               /\ ask' = [ask EXCEPT ![a].step = "done"]
      <4>1. ask'[a] = [h EXCEPT !.step = "done", !.lost = h.lost]
        BY <1>0, <3>1 DEF Handler
      <4> QED
        BY <1>0, <3>1, <4>1 DEF Handler
    <3>2. CASE ask' = [ask EXCEPT ![a].step = "v1"] /\ answer' = answer
      <4>1. ask'[a] = [h EXCEPT !.step = "v1", !.lost = h.lost]
        BY <1>0, <3>2 DEF Handler
      <4> QED
        BY <1>0, <3>2, <4>1 DEF Handler
    <3>3. CASE ask' = [ask EXCEPT ![a].step = "done", ![a].lost = TRUE]
               /\ answer' = answer
      <4>1. ask'[a] = [h EXCEPT !.step = "done", !.lost = TRUE]
        BY <1>0, <3>3 DEF Handler
      <4> QED
        BY <1>0, <3>3, <4>1
    <3> QED
      BY <1>0, <1>7, <3>1, <3>2, <3>3 DEF ReplyV2, ReplyV1, Resolve
  <2>3. /\ ask'[a] \in Handler /\ ask'[a].step = s /\ ask'[a].lost = x
        /\ ask'[a].verdict = h.verdict /\ ask'[a].cfg = h.cfg
        /\ ask'[a].call = h.call /\ ask'[a].outs = h.outs
    BY <1>0, <2>2 DEF Handler
  <2>4. HandlerOK(ask'[a])
    BY <1>0, <2>1, <2>3 DEF HandlerOK, Granted
  <2>5. AnswerOK(ask'[a], answer'[a])
    BY <1>0, <2>1, <2>2, <2>3 DEF AnswerOK
  <2> QED
    BY <1>0, <2>1, <2>2, <2>3, <2>4, <2>5
<1>8. CASE \E l \in Leaves, o \in Outcomes : Settle(a, l, o)
  <2>1. answer' = answer
    BY <1>8 DEF Settle
  <2> QED
    BY <1>0, <1>5, <1>8, <2>1
<1> QED
  BY <1>0, <1>2, <1>3, <1>4, <1>6, <1>7, <1>8

LEMMA GateNext == GateInv /\ [Next]_vars => GateInv'
<1> DEFINE Rest == /\ ask' \in [Asks -> Handler]
                   /\ answer' \in [Asks -> {"none", "allow", "deny", "person"}]
                   /\ \A a \in Asks :
                         HandlerOK(ask'[a]) /\ AnswerOK(ask'[a], answer'[a])
           World == /\ file' \in [Layers -> File] /\ raw' \in [Layers -> Raw]
                    /\ merged' \in [set : BOOLEAN, stamps : [Layers -> Nat],
                                    at : Nat, cfg : Cfg]
                    /\ edits' \in 0..MaxEdits /\ llm' \subseteq Leaves
<1> SUFFICES ASSUME GateInv, [Next]_vars PROVE Rest /\ World
  BY DEF GateInv, TypeInv
<1> USE GateAssumption
<1>0. /\ TypeInv /\ ask \in [Asks -> Handler]
      /\ answer \in [Asks -> {"none", "allow", "deny", "person"}]
      /\ \A a \in Asks : HandlerOK(ask[a]) /\ AnswerOK(ask[a], answer[a])
  BY DEF GateInv, TypeInv
<1>1. CASE Edit \/ EditLlm \/ UNCHANGED vars
  <2>1. Rest
    BY <1>0, <1>1 DEF Edit, EditLlm, vars
  <2>2. World
    <3>1. CASE Edit
      BY <1>0, <3>1, SavedType DEF Edit, TypeInv
    <3>2. CASE EditLlm
      BY <1>0, <3>2 DEF EditLlm, TypeInv
    <3>3. CASE UNCHANGED vars
      BY <1>0, <3>3 DEF vars, TypeInv
    <3> QED
      BY <1>1, <3>1, <3>2, <3>3
  <2> QED
    BY <2>1, <2>2
<1>2. ASSUME NEW after \in Saved \cup {file}, Observe(after) PROVE Rest /\ World
  <2>1. Rest
    BY <1>0, <1>2 DEF Observe
  <2>2. World
    BY <1>0, <1>2, ReadsType DEF Observe, TypeInv
  <2> QED
    BY <2>1, <2>2
<1>3. ASSUME NEW a \in Asks, NEW after \in Saved \cup {file}, Handle(a, after)
      PROVE  Rest /\ World
  <2> DEFINE c == Config(file, after)
             n == [ask[a] EXCEPT !.cfg = c, !.step = Start(c).step,
                                 !.verdict = Start(c).verdict,
                                 !.call = [l \in Panel(c) |-> 1]]
  <2>1. /\ ask[a].step = "asked" /\ Reads(after) /\ UNCHANGED <<llm, answer>>
        /\ ask' = [ask EXCEPT ![a] = n]
    BY <1>0, <1>3 DEF Handle
  <2>2. World /\ c \in Cfg
    BY <1>0, <2>1, ReadsType DEF TypeInv
  <2>3. /\ n \in Handler /\ HandlerOK(n)
        /\ n.step = "done" => n.verdict \in {"off", "audit", "pass"}
    BY <1>0, <2>1, <2>2, StartOK
  <2>4. AnswerOK(n, answer[a])
    <3>1. answer[a] \in {"none", "person"}
      BY <1>0, <2>1 DEF HandlerOK, AnswerOK
    <3> QED
      BY <2>3, <3>1 DEF AnswerOK
  <2> HIDE DEF n
  <2>5. Rest
    BY <1>0, <2>1, <2>3, <2>4
  <2> QED
    BY <2>2, <2>5
<1>4. ASSUME NEW a \in Asks,
             Ask(a) \/ Transcript(a) \/ Conclude(a) \/ ReplyV2(a) \/ ReplyV1(a)
             \/ (\E l \in Leaves, o \in Outcomes : Settle(a, l, o))
             \/ (\E l \in Leaves : Stall(a, l))
      PROVE  Rest /\ World
  <2>1. UNCHANGED <<file, llm, raw, merged, edits>>
    BY <1>4 DEF Ask, Transcript, Conclude, ReplyV2, ReplyV1, Settle, Stall
  <2>2. World
    BY <1>0, <2>1 DEF TypeInv
  <2>3. /\ ask' = [ask EXCEPT ![a] = ask'[a]] /\ ask'[a] \in Handler
        /\ answer' = [answer EXCEPT ![a] = answer'[a]]
        /\ answer'[a] \in {"none", "allow", "deny", "person"}
        /\ HandlerOK(ask'[a]) /\ AnswerOK(ask'[a], answer'[a])
    BY <1>4, HandlerStepOK
  <2>4. Rest
    BY <1>0, <2>3
  <2> QED
    BY <2>2, <2>4
<1>5. ASSUME NEW a \in Asks, Person(a) PROVE Rest /\ World
  <2>1. World
    BY <1>0, <1>5 DEF Person, TypeInv
  <2>2. AnswerOK(ask[a], "person")
    BY DEF AnswerOK
  <2>3. Rest
    BY <1>0, <1>5, <2>2 DEF Person
  <2> QED
    BY <2>1, <2>3
<1> QED
  BY <1>1, <1>2, <1>3, <1>4, <1>5 DEF Next, HandlerStep

LEMMA GateInvariant == Spec => []GateInv
  BY GateInit, GateNext, PTL DEF Spec

\* The type invariant, with every configuration a handler works with valid
\* whatever the files hold.
THEOREM TypeCorrect == Spec => []TypeOK
<1>1. GateInv => TypeOK
  BY CfgValid DEF GateInv, TypeInv, TypeOK, HandlerOK, Handler, File
<1> QED
  BY <1>1, GateInvariant, PTL

\* The gate grants only on the stub's configured allow or on an allow of every
\* leaf it asked: no failure, retry, edit of the configuration or late result
\* becomes a grant.
THEOREM GrantsAreUnanimous == Spec => []GrantIsUnanimous
<1>1. GateInv => GrantIsUnanimous
  BY DEF GateInv, HandlerOK, AnswerOK, Granted, GrantIsUnanimous
<1> QED
  BY <1>1, GateInvariant, PTL

\* A handler that is over told OpenCode its verdict, was meant to keep quiet,
\* or lost its last reply call.
THEOREM NoHangIsSilent == Spec => []NoSilentHang
<1>1. GateInv => NoSilentHang
  BY DEF GateInv, AnswerOK, NoSilentHang
<1> QED
  BY <1>1, GateInvariant, PTL

-----------------------------------------------------------------------------
(* The caches.                                                             *)

\* Stamps in use are at most the number of edits: a save's is new.
Stamped ==
    /\ merged.at <= edits
    /\ \A l \in Layers :
        file[l].stamp <= edits /\ raw[l].stamp <= edits /\ merged.stamps[l] <= edits

\* A parse cache that would be hit holds what the file holds.
RawCoherent(fs) ==
    \A l \in Layers : RawHit(fs, l) =>
        fs[l].kind = "object" /\ raw[l].body = fs[l].body

CacheInv == TypeInv /\ Stamped /\ RawCoherent(file) /\ CacheCoherent

LEMMA CacheInit == Init => CacheInv
<1> SUFFICES ASSUME Init PROVE CacheInv
  OBVIOUS
<1>1. TypeInv
  BY GateInit DEF GateInv
<1>2. Stamped
  BY DEF Init, Stamped, Stamps
<1> QED
  BY <1>1, <1>2 DEF Init, CacheInv, RawCoherent, RawHit, CacheCoherent

\* What is read through coherent parse caches is what the files say.
LEMMA RawsAreFiles ==
    ASSUME NEW fs, RawCoherent(fs)
    PROVE  Merge(Raws(fs)) = Effective(fs)
<1>1. Raws(fs) = [l \in Layers |-> IF fs[l].kind = "object" THEN fs[l].body
                                   ELSE Nothing]
  BY DEF Raws, RawCoherent
<1> QED
  BY <1>1 DEF Effective

\* One save later: the saved layer's stamp is newer than every cache's.
LEMMA SavedIsNew ==
    ASSUME CacheInv, NEW fs \in Saved
    PROVE  \E l \in Layers :
              /\ fs[l].stamp = edits + 1
              /\ \A k \in Layers : k # l => fs[k] = file[k]
<1>1. TypeInv
  BY DEF CacheInv
<1>2. PICK l \in Layers, k \in {"missing", "invalid", "object"}, b \in Contents :
          fs = Put(l, k, b)
  BY <1>1, SavedFile
<1> QED
  BY <1>1, <1>2 DEF Put, TypeInv

LEMMA SavedCoherent ==
    ASSUME CacheInv, NEW fs \in Saved \cup {file} PROVE RawCoherent(fs)
<1>1. CASE fs = file
  BY <1>1 DEF CacheInv
<1>2. CASE fs \in Saved
  <2>1. PICK l \in Layers : /\ fs[l].stamp = edits + 1
                            /\ \A k \in Layers : k # l => fs[k] = file[k]
    BY <1>2, SavedIsNew
  <2>2. raw[l].stamp <= edits /\ raw[l].stamp \in Nat /\ edits \in Nat
    BY DEF CacheInv, Stamped, TypeInv, Raw
  <2>3. ~RawHit(fs, l)
    BY <2>1, <2>2 DEF RawHit
  <2> QED
    BY <2>1, <2>3 DEF CacheInv, RawCoherent, RawHit
<1> QED
  BY <1>1, <1>2

\* After a save the merged cache is not taken for the files: the saved layer's
\* mtime differs, or its removal is set apart.
LEMMA SavedIsSeen ==
    ASSUME TypeInv, NEW m \in [set : BOOLEAN, stamps : [Layers -> Nat],
                               at : Nat, cfg : Cfg],
           m.at <= edits, \A l \in Layers : m.stamps[l] <= edits,
           NEW fs, NEW l \in Layers, fs[l].stamp = edits + 1
    PROVE  ~(/\ m.stamps = Stamps(fs)
             /\ \A k \in Layers : fs[k].kind = "missing" => fs[k].stamp <= m.at)
<1> SUFFICES ASSUME m.stamps = Stamps(fs),
                    \A k \in Layers : fs[k].kind = "missing" => fs[k].stamp <= m.at
             PROVE  FALSE
  OBVIOUS
<1>1. edits \in Nat /\ m.at \in Nat /\ m.stamps[l] \in Nat
  BY DEF TypeInv
<1>2. CASE fs[l].kind = "missing"
  BY <1>1, <1>2
<1>3. CASE fs[l].kind # "missing"
  <2>1. m.stamps[l] = edits + 1
    BY <1>3 DEF Stamps
  <2> QED
    BY <1>1, <2>1
<1> QED
  BY <1>2, <1>3

\* The stamps of the files after a read or a save.
LEMMA StampsGrow ==
    ASSUME CacheInv, NEW after \in Saved \cup {file},
           edits' = IF after = file THEN edits ELSE edits + 1
    PROVE  edits' \in Nat /\ edits <= edits'
           /\ \A l \in Layers : after[l].stamp \in Nat /\ after[l].stamp <= edits'
<1>1. /\ edits \in Nat /\ file \in [Layers -> File] /\ after \in [Layers -> File]
      /\ \A l \in Layers : file[l].stamp \in Nat /\ file[l].stamp <= edits
  BY SavedType DEF CacheInv, TypeInv, Stamped, File
<1>2. CASE after = file
  BY <1>1, <1>2
<1>3. CASE after \in Saved /\ after # file
  <2>1. PICK l \in Layers : /\ after[l].stamp = edits + 1
                            /\ \A k \in Layers : k # l => after[k] = file[k]
    BY <1>3, SavedIsNew
  <2> QED
    BY <1>1, <1>3, <2>1
<1> QED
  BY <1>2, <1>3

LEMMA NewIsNotFile == ASSUME CacheInv PROVE file \notin Saved
<1> SUFFICES ASSUME file \in Saved PROVE FALSE
  OBVIOUS
<1>1. PICK l \in Layers : file[l].stamp = edits + 1
  BY SavedIsNew
<1> QED
  BY <1>1 DEF CacheInv, Stamped, TypeInv, File

LEMMA CacheSave ==
    ASSUME CacheInv, NEW after \in Saved, file' = after, edits' = edits + 1,
           UNCHANGED <<raw, merged>>
    PROVE  Stamped' /\ RawCoherent(file)' /\ CacheCoherent'
<1>0. TypeInv /\ Stamped
  BY DEF CacheInv
<1>1. Stamped'
  <2>1. \A l \in Layers : after[l].stamp <= edits'
    BY NewIsNotFile, StampsGrow
  <2> QED
    BY <1>0, <2>1 DEF Stamped, TypeInv, Raw
<1>2. RawCoherent(file)'
  BY SavedCoherent DEF RawCoherent, RawHit
<1>3. PICK l \in Layers : after[l].stamp = edits + 1
  BY SavedIsNew
<1>4. ~(/\ merged.stamps = Stamps(after)
        /\ \A k \in Layers : after[k].kind = "missing" => after[k].stamp <= merged.at)
  BY <1>0, <1>3, SavedIsSeen DEF Stamped, TypeInv
<1>5. CacheCoherent'
  BY <1>4 DEF CacheCoherent
<1> QED
  BY <1>1, <1>2, <1>5

LEMMA CacheReads ==
    ASSUME CacheInv, NEW after \in Saved \cup {file}, Reads(after)
    PROVE  Stamped' /\ RawCoherent(file)' /\ CacheCoherent'
<1>0. TypeInv /\ Stamped /\ RawCoherent(file) /\ CacheCoherent
  BY DEF CacheInv
<1>1. file' = after /\ edits' = IF after = file THEN edits ELSE edits + 1
  BY NewIsNotFile DEF Reads
<1>2. CASE FastPath(file)
  <2>1. UNCHANGED <<raw, merged>>
    BY <1>2 DEF Reads, Caches
  <2>2. CASE after = file
    BY <1>0, <1>1, <2>1, <2>2 DEF Stamped, RawCoherent, RawHit, CacheCoherent,
                                  Effective, Stamps
  <2>3. CASE after # file
    BY <1>1, <2>1, <2>3, CacheSave
  <2> QED
    BY <2>2, <2>3
<1>3. CASE ~FastPath(file)
  <2>1. /\ raw' = RawsAfter(after)
        /\ merged' = [set |-> TRUE, stamps |-> Stamps(file), at |-> edits,
                      cfg |-> Merge(Raws(after))]
    BY <1>3 DEF Reads, Caches
  <2>2. after \in [Layers -> File]
    BY <1>0, SavedType DEF TypeInv
  <2>3. ASSUME NEW l \in Layers
        PROVE  \/ raw'[l] = raw[l] /\ (RawHit(after, l) \/ after[l].kind = "missing")
               \/ raw'[l] = [raw[l] EXCEPT !.good = FALSE]
               \/ /\ raw'[l] = [stamp |-> after[l].stamp, body |-> after[l].body,
                                good |-> TRUE]
                  /\ after[l].kind = "object"
    <3>1. after[l].kind \in {"missing", "invalid", "object"}
      BY <2>2 DEF File
    <3>2. raw'[l] = CASE RawHit(after, l) -> raw[l]
          [] ~RawHit(after, l) /\ after[l].kind = "object" ->
                [stamp |-> after[l].stamp, body |-> after[l].body, good |-> TRUE]
          [] after[l].kind = "invalid"
             \/ (after[l].kind = "missing" /\ l = "project") ->
                [raw[l] EXCEPT !.good = FALSE]
          [] OTHER -> raw[l]
      BY <2>1 DEF RawsAfter
    <3> QED
      BY <3>1, <3>2 DEF RawHit
  <2>4. Stamped'
    <3>1. /\ edits' \in Nat /\ edits <= edits' /\ edits \in Nat
          /\ \A l \in Layers : after[l].stamp \in Nat /\ after[l].stamp <= edits'
      BY <1>0, <1>1, StampsGrow DEF TypeInv
    <3>2. ASSUME NEW l \in Layers PROVE raw'[l].stamp <= edits'
      <4>1. raw[l] \in Raw /\ raw[l].stamp \in Nat /\ raw[l].stamp <= edits
        BY <1>0 DEF Stamped, TypeInv, Raw
      <4>2. raw'[l].stamp \in {raw[l].stamp, after[l].stamp}
        <5>1. [raw[l] EXCEPT !.good = FALSE].stamp = raw[l].stamp
          BY <4>1 DEF Raw
        <5>2. \/ raw'[l] = raw[l] \/ raw'[l] = [raw[l] EXCEPT !.good = FALSE]
              \/ raw'[l] = [stamp |-> after[l].stamp, body |-> after[l].body,
                            good |-> TRUE]
          BY <2>3
        <5>3. CASE raw'[l] = [stamp |-> after[l].stamp, body |-> after[l].body,
                              good |-> TRUE]
          BY <5>3
        <5> QED
          BY <5>1, <5>2, <5>3
      <4> QED
        BY <3>1, <4>1, <4>2
    <3>3. merged'.at <= edits' /\ \A l \in Layers : merged'.stamps[l] <= edits'
      BY <1>0, <2>1, <3>1 DEF Stamped, Stamps, TypeInv, File
    <3> QED
      BY <1>1, <3>1, <3>2, <3>3 DEF Stamped
  <2>5. RawCoherent(file)'
    <3>1. RawCoherent(after)
      BY SavedCoherent
    <3>2. ASSUME NEW l \in Layers, after[l].kind # "missing", raw'[l].good,
                 raw'[l].stamp = after[l].stamp
          PROVE  after[l].kind = "object" /\ raw'[l].body = after[l].body
      <4>1. raw[l] \in Raw
        BY <1>0 DEF TypeInv
      <4>2. CASE raw'[l] = raw[l] /\ RawHit(after, l)
        BY <3>1, <4>2 DEF RawCoherent
      <4>3. CASE raw'[l] = [raw[l] EXCEPT !.good = FALSE]
        BY <3>2, <4>1, <4>3 DEF Raw
      <4>4. CASE /\ raw'[l] = [stamp |-> after[l].stamp, body |-> after[l].body,
                               good |-> TRUE]
                 /\ after[l].kind = "object"
        BY <4>4
      <4> QED
        BY <2>3, <3>2, <4>2, <4>3, <4>4
    <3> QED
      BY <1>1, <3>2 DEF RawCoherent, RawHit
  <2>6. CacheCoherent'
    <3>1. merged'.cfg = Effective(after)
      BY <2>1, SavedCoherent, RawsAreFiles
    <3> QED
      BY <1>1, <3>1 DEF CacheCoherent, Effective
  <2> QED
    BY <2>4, <2>5, <2>6
<1> QED
  BY <1>2, <1>3

LEMMA CacheNext == CacheInv /\ GateInv /\ [Next]_vars => CacheInv'
<1> SUFFICES ASSUME CacheInv, GateInv, [Next]_vars
             PROVE  Stamped' /\ RawCoherent(file)' /\ CacheCoherent'
  BY GateNext DEF CacheInv, GateInv
<1>1. CASE Edit
  BY <1>1, CacheSave DEF Edit
<1>2. ASSUME NEW after \in Saved \cup {file}, Reads(after)
      PROVE  Stamped' /\ RawCoherent(file)' /\ CacheCoherent'
  BY <1>2, CacheReads
<1>3. CASE UNCHANGED <<file, raw, merged>> /\ (edits' = edits \/ edits' = edits + 1)
  <2>1. Stamped'
    BY <1>3 DEF CacheInv, Stamped, TypeInv, File, Raw
  <2> QED
    BY <1>3, <2>1 DEF CacheInv, RawCoherent, RawHit, CacheCoherent, Effective, Stamps
<1>4. \/ Edit \/ (\E after \in Saved \cup {file} : Reads(after))
      \/ UNCHANGED <<file, raw, merged>> /\ (edits' = edits \/ edits' = edits + 1)
  <2>1. CASE EditLlm \/ UNCHANGED vars
    BY <2>1 DEF EditLlm, vars
  <2>2. ASSUME NEW a \in Asks,
               Ask(a) \/ Transcript(a) \/ Conclude(a) \/ ReplyV2(a) \/ ReplyV1(a)
               \/ Person(a) \/ (\E l \in Leaves, o \in Outcomes : Settle(a, l, o))
               \/ (\E l \in Leaves : Stall(a, l))
        PROVE  UNCHANGED <<file, raw, merged, edits>>
    BY <2>2 DEF Ask, Transcript, Conclude, ReplyV2, ReplyV1, Settle, Stall, Person
  <2>3. ASSUME NEW after \in Saved \cup {file},
               Observe(after) \/ (\E a \in Asks : Handle(a, after))
        PROVE  Reads(after)
    BY <2>3 DEF Observe, Handle
  <2> QED
    BY <2>1, <2>2, <2>3 DEF Next, HandlerStep
<1> QED
  BY <1>1, <1>2, <1>3, <1>4

\* The cached configuration is what the files say whenever the fast path takes
\* it, whatever was saved during the read that filled it.
THEOREM CachesAreCoherent == Spec => []CacheCoherent
<1>1. CacheInv => CacheCoherent
  BY DEF CacheInv
<1> QED
  BY <1>1, CacheInit, CacheNext, GateInvariant, PTL DEF Spec
=============================================================================
