---------------------------- MODULE OutboxProofs ----------------------------
(***************************************************************************)
(* Machine-checked proofs about Outbox, for any number of tabs, passes,     *)
(* gestures, texts and faults.                                              *)
(*                                                                         *)
(* The clock orders what was saved: a record's creation time is kept over   *)
(* re-saves and outdates every time held before it.  A gesture that is owed *)
(* is backed by a waiting record at least as new as its save that no known  *)
(* admission of the text outdates, and a scan that still deletes is backed  *)
(* by one at least as new as itself.  A pass leaves behind, of what it has  *)
(* looked at, only what a younger twin cannot pass.                         *)
(***************************************************************************)
EXTENDS Outbox, WellFoundedInduction, TLAPS

Lists == UNION {[D -> Server] : D \in SUBSET Intents}
PassRec ==
    [tab : Tabs, now : Nat, todo : SUBSET Rec, admitted : SUBSET Rec,
     seen : SUBSET Rec, answered : BOOLEAN, list : Lists, null : BOOLEAN,
     texts : SUBSET Texts, current : Intents \cup {NoIntent}]
Log ==
    [text : [Intents -> Texts],
     owed : SUBSET [intent : Intents, at : Nat], blind : SUBSET Texts,
     auto : SUBSET [intent : Intents, beside : SUBSET Intents],
     faults : Nat, pages : Nat, passes : Nat]

Typed ==
    /\ store \in SUBSET Rec /\ page \in [Tabs -> Page]
    /\ rows \in [Tabs -> [Intents -> Stages]] /\ flight \in [Tabs -> Flight]
    /\ pass \in [Slots -> PassRec \cup {NoPass}] /\ wire \in SUBSET Intents
    /\ server \in [Intents -> Server] /\ head \in 0..MaxHead /\ tick \in Nat
    /\ minted \in 0..MaxIntents /\ log \in Log

\* One record per intent, in the store and in what a pass has read.
Distinct(S) == \A r, q \in S : r.intent = q.intent => r = q
Read ==
    /\ Distinct(store)
    /\ \A s \in Slots : pass[s] # NoPass =>
          /\ pass[s].todo \subseteq pass[s].seen
          /\ pass[s].admitted \subseteq pass[s].seen
          /\ Distinct(pass[s].seen)

\* What has an intent was minted, and carries the gesture's text.
Known(i) == i <= minted
TextOf(o) == log.text[o.intent]
Texted ==
    /\ \A r \in Held : Known(r.intent) /\ r.text = TextOf(r)
    /\ \A o \in log.owed : Known(o.intent)
    /\ \A t \in Tabs :
          /\ Known(flight[t].intent)
          /\ flight[t].step # "idle" => flight[t].intent # NoIntent
          /\ \A j \in flight[t].todo :
                /\ flight[t].step = "prune"
                /\ Known(j) /\ j # flight[t].intent
                /\ log.text[j] = log.text[flight[t].intent]
Named ==
    /\ \A t \in Tabs : /\ Known(page[t].failure.intent)
                       /\ \A i \in Intents : rows[t][i] # "none" => Known(i)
    /\ \A s \in Slots : pass[s] # NoPass => Known(pass[s].current)

\* There is a latest time.
Clocked == \E b \in Nat : \A x \in Stamps : x <= b

\* A record is not older than what a pass has read of its intent, and an
\* admitted one of the same creation stays admitted.
GrownFrom(r) ==
    \A q \in store : q.intent = r.intent =>
        /\ r.created <= q.created
        /\ (r.created = q.created /\ r.status = "admitted") => q.status = "admitted"
Grown == \A s \in Slots : pass[s] # NoPass => \A r \in pass[s].seen : GrownFrom(r)

\* The creation time a scan started at is its own record's.
Sole ==
    \A t \in Tabs : flight[t].step = "prune" =>
        \A q \in store : q.created = flight[t].at => q.intent = flight[t].intent

\* Later records were saved later, and none at a head still to come.
Reached(h) == h = NoHead \/ h <= head
Aged ==
    /\ \A p, q \in Held : p.created < q.created => p.born <= q.born
    /\ \A q \in Held : q.born <= tick /\ Reached(q.head)
Facing == \A t \in Tabs : Reached(page[t].failure.head)

\* A record of the text waits, saved at n or later, and no admission outdates it.
Waits(x, n) ==
    \E r \in store :
        /\ r.status = "saved" /\ r.text = x /\ n <= r.created
        /\ \A q \in Held : q.text = x => q.admittedAt < r.created
Excused(o) == TextOf(o) \in log.blind \/ server[o.intent] # "none"
Backed == \A o \in log.owed : Excused(o) \/ Waits(TextOf(o), o.at)
ScanBacked ==
    \A t \in Tabs : flight[t].step = "prune" =>
        \A o \in log.owed :
            (TextOf(o) = log.text[flight[t].intent] /\ o.at <= flight[t].at)
                => Excused(o) \/ Waits(TextOf(o), flight[t].at)

\* What a pass has looked at and saw waiting: no younger twin of it may pass.
Past(q) ==
    \A p \in store : p.intent = q.intent =>
        p.created > q.created \/ p.status = "admitted"
Overtaken(s, q) ==
    \/ q.hold \/ q.text \in pass[s].texts \/ Young(s, q)
    \/ HeadIsStale(q.head) \/ Past(q)
LookedAt ==
    \A s \in Slots : pass[s] # NoPass =>
        \A q \in pass[s].seen \ pass[s].todo :
            q.status = "saved" => Overtaken(s, q)

OutboxInv ==
    /\ Typed /\ Read /\ Texted /\ Named /\ Clocked /\ Grown /\ Sole /\ Aged
    /\ Facing /\ Backed /\ ScanBacked /\ LookedAt

-----------------------------------------------------------------------------
(* What a step may do, part by part.                                       *)

\* A record is kept, whatever it is re-saved or admitted as, or is new.
Kept(q, p) ==
    /\ p.intent = q.intent /\ p.text = q.text
    /\ p.created = q.created /\ p.born = q.born
    /\ q.status = "admitted" => p.status = "admitted"
    /\ p.head = q.head \/ Reached(p.head)
    /\ \/ p.admittedAt \in {0, q.admittedAt}
       \/ p.admittedAt = Now /\ \A o \in log'.owed : log'.text[o.intent] # p.text
Fresh(p) ==
    /\ p.created = Now /\ p.born = tick /\ p.admittedAt = 0 /\ p.status = "saved"
    /\ Reached(p.head) /\ p.intent <= minted' /\ p.text = log'.text[p.intent]
StoreStep ==
    /\ Distinct(store)'
    /\ \A p \in store' : (\E q \in store : Kept(q, p)) \/ Fresh(p)

\* A pass goes on, having settled what it no longer looks at, or starts.
GoesOn(s) ==
    /\ pass[s] # NoPass
    /\ pass'[s].seen = pass[s].seen /\ pass'[s].admitted = pass[s].admitted
    /\ pass'[s].todo \subseteq pass[s].todo
    /\ pass[s].texts \subseteq pass'[s].texts /\ pass'[s].now = pass[s].now
    /\ \/ pass'[s].current \in {pass[s].current, NoIntent}
       \/ \E r \in pass[s].todo : PassPost(s, r) /\ pass'[s].current = r.intent
    /\ \A q \in pass[s].todo :
          (q \notin pass'[s].todo /\ q.status = "saved") => Overtaken(s, q)'
Starts(s) ==
    /\ pass[s] = NoPass /\ store' = store /\ pass'[s].seen = store /\ pass'[s].todo = store
    /\ pass'[s].admitted \subseteq store
PassStep == \A s \in Slots : pass'[s] # NoPass => GoesOn(s) \/ Starts(s)

\* A gesture goes on, ends, or is a new one whose record was put.
Scans(t) ==
    /\ flight[t].step = "prune" /\ flight'[t].step \in {"prune", "post"}
    /\ flight'[t].intent = flight[t].intent /\ flight'[t].at = flight[t].at
    /\ flight'[t].todo \subseteq flight[t].todo
    /\ flight'[t].step = "post" => flight'[t].todo = {}
Taps(t) ==
    /\ flight'[t].at = Now /\ flight'[t].intent # NoIntent
    /\ flight'[t].intent <= minted'
    /\ flight'[t].todo # {} => flight'[t].step = "prune"
    /\ \A j \in flight'[t].todo :
          j # flight'[t].intent /\ \E q \in store :
              q.intent = j /\ q.text = log'.text[flight'[t].intent]
    /\ flight'[t].step = "prune" =>
          \E p \in store' : Fresh(p) /\ p.intent = flight'[t].intent
    /\ \A p \in store' : p.created = Now => p.intent = flight'[t].intent
FlightStep ==
    \A t \in Tabs : \/ flight'[t] = flight[t] \/ flight'[t] = NoFlight
                   \/ Scans(t) \/ Taps(t)

\* What is owed was owed before, or has just been saved.
LogStep ==
    /\ minted <= minted' /\ log.blind \subseteq log'.blind
    /\ \A i \in Intents : Known(i) => log'.text[i] = log.text[i]
    /\ \A i \in Intents : server[i] # "none" => server'[i] # "none"
    /\ \A o \in log'.owed : \/ o \in log.owed
                            \/ o.at = Now /\ \E p \in store' :
                                   Fresh(p) /\ p.intent = o.intent

\* A waiting record goes only if as new a one of its text stays, or nobody
\* owed depends on it.
Leaves ==
    \A o \in log.owed, r \in store :
        /\ o \in log'.owed /\ ~Excused(o)'
        /\ r.status = "saved" /\ r.text = TextOf(o) /\ o.at <= r.created
        /\ \A q \in Held : q.text = r.text => q.admittedAt < r.created
        => \E p \in store' : /\ p.status = "saved" /\ p.text = r.text
                             /\ r.created <= p.created

WorldStep == tick <= tick' /\ head <= head' /\ Facing' /\ Named'

GoodStep ==
    /\ Typed' /\ StoreStep /\ PassStep /\ FlightStep /\ LogStep /\ Leaves
    /\ WorldStep

-----------------------------------------------------------------------------
(* The clock.                                                              *)

\* Max is what its name says: a bounded set of naturals has a greatest element.
LEMMA MaxIs ==
    ASSUME NEW S \in SUBSET Nat, S # {}, \E b \in Nat : \A x \in S : x <= b
    PROVE  Max(S) \in S /\ \A x \in S : x <= Max(S)
<1> DEFINE B == {b \in Nat : \A x \in S : x <= b}
<1>1. B \subseteq Nat /\ B # {}
  OBVIOUS
<1>2. \E c \in B : \A j \in B : ~(<<j, c>> \in OpToRel(<, Nat))
  BY <1>1, NatLessThanWellFounded, WFMin
<1>3. \A i, j \in Nat : <<j, i>> \in OpToRel(<, Nat) <=> j < i
  BY DEF OpToRel
<1>4. PICK c \in B : \A j \in B : ~(<<j, c>> \in OpToRel(<, Nat))
  BY <1>2
<1>5. c \in Nat /\ \A x \in S : x <= c
  OBVIOUS
<1>6. \A j \in B : c <= j
  <2> SUFFICES ASSUME NEW j \in B PROVE c <= j
    OBVIOUS
  <2>1. j \in Nat /\ ~(j < c)
    BY <1>3, <1>4, <1>5
  <2> QED
    BY <2>1, <1>5
<1>7. c \in S
  <2>1. PICK x \in S : TRUE
    OBVIOUS
  <2> SUFFICES ASSUME c \notin S PROVE FALSE
    OBVIOUS
  <2>2. \A y \in S : y \in Nat /\ y <= c /\ y # c
    BY <1>5
  <2>3. c - 1 \in Nat /\ \A y \in S : y <= c - 1
    BY <2>1, <2>2, <1>5
  <2>4. c - 1 \in B
    BY <2>3
  <2> QED
    BY <2>4, <1>5, <1>6
<1>8. \A x \in S : c >= x
  BY <1>5
<1> QED
  BY <1>7, <1>8 DEF Max

LEMMA HeldIs ==
    \A r : r \in Held <=> \/ r \in store
                         \/ \E s \in Slots : pass[s] # NoPass /\ r \in pass[s].seen
BY DEF Held

LEMMA HeldTyped == ASSUME Typed PROVE Held \subseteq Rec
<1>1. \A s \in Slots : pass[s] # NoPass => pass[s].seen \subseteq Rec
  BY DEF Typed, PassRec
<1> QED
  BY <1>1, HeldIs DEF Typed

LEMMA HeldTypedNext == ASSUME Typed' PROVE Held' \subseteq Rec
<1>1. \A s \in Slots : pass'[s] # NoPass => pass'[s].seen \subseteq Rec
  BY DEF Typed, PassRec
<1> QED
  BY <1>1 DEF Held, Typed

\* Now outdates every time that is held.
LEMMA NowIs ==
    ASSUME Typed, Clocked
    PROVE  /\ Now \in Nat \ {0}
           /\ \A r \in Held : r.created < Now /\ r.admittedAt < Now
           /\ \A t \in Tabs : flight[t].at < Now
<1>1. /\ \A r \in Held : r.created \in Nat /\ r.admittedAt \in Nat
      /\ \A t \in Tabs : flight[t].at \in Nat
  BY HeldTyped DEF Rec, Typed, Flight
<1>2. Stamps \subseteq Nat
  BY <1>1 DEF Stamps
<1>3. PICK b \in Nat : \A x \in Stamps : x <= b
  BY DEF Clocked
<1> DEFINE S == Stamps \cup {0}
<1>4. S \in SUBSET Nat /\ S # {} /\ \A x \in S : x <= b
  BY <1>2, <1>3
<1> HIDE DEF S
<1>5. Max(S) \in Nat /\ \A x \in S : x <= Max(S)
  BY <1>4, MaxIs
<1>6. Now = 1 + Max(S)
  BY DEF Now, S
<1>7. /\ \A r \in Held : r.created \in S /\ r.admittedAt \in S
      /\ \A t \in Tabs : flight[t].at \in S
  BY DEF S, Stamps
<1> HIDE DEF Now
<1> QED
  BY <1>1, <1>5, <1>6, <1>7

-----------------------------------------------------------------------------
(* Such a step keeps the invariant.                                        *)

LEMMA HeldStep ==
    ASSUME StoreStep, PassStep, NEW p \in Held'
    PROVE  p \in Held \/ (\E q \in Held : Kept(q, p)) \/ Fresh(p)
<1>1. CASE p \in store'
  BY <1>1, HeldIs DEF StoreStep
<1>2. ASSUME NEW s \in Slots, pass'[s] # NoPass, p \in pass'[s].seen
      PROVE  p \in Held
  BY <1>2, HeldIs DEF PassStep, GoesOn, Starts
<1> QED
  BY <1>1, <1>2 DEF Held

LEMMA ReadKept == ASSUME OutboxInv, GoodStep PROVE Read'
BY DEF OutboxInv, GoodStep, Read, StoreStep, PassStep, GoesOn, Starts, Distinct

LEMMA TextKept ==
    ASSUME OutboxInv, GoodStep, NEW i \in Intents, Known(i)
    PROVE  log'.text[i] = log.text[i] /\ i <= minted'
BY DEF OutboxInv, GoodStep, LogStep, Typed, Known, Intents

LEMMA TextedKept == ASSUME OutboxInv, GoodStep PROVE Texted'
<1> USE DEF NoIntent
<1>1. /\ Typed /\ Typed' /\ Texted /\ StoreStep /\ PassStep /\ FlightStep /\ LogStep
  BY DEF OutboxInv, GoodStep
<1>2. ASSUME NEW p \in Held' PROVE Known(p.intent)' /\ (p.text = TextOf(p))'
  <2>1. ASSUME NEW q \in Held
        PROVE  q.intent <= minted' /\ q.text = log'.text[q.intent]
    <3>1. q.intent \in Intents /\ Known(q.intent) /\ q.text = log.text[q.intent]
      BY <1>1, HeldTyped DEF Rec, Texted, TextOf
    <3> QED
      BY <3>1, TextKept
  <2>2. p.intent <= minted' /\ p.text = log'.text[p.intent]
    BY <1>1, <2>1, HeldStep DEF Kept, Fresh
  <2> QED
    BY <2>2 DEF Known, TextOf
<1>3. ASSUME NEW o \in log'.owed PROVE Known(o.intent)'
  <2>1. CASE o \in log.owed
    <3>1. o.intent \in Intents /\ Known(o.intent)
      BY <1>1, <2>1 DEF Typed, Log, Texted
    <3> QED
      BY <3>1, TextKept DEF Known
  <2>2. CASE \E p \in store' : Fresh(p) /\ p.intent = o.intent
    BY <2>2 DEF Fresh, Known
  <2> QED
    BY <1>1, <2>1, <2>2 DEF LogStep
<1>4. ASSUME NEW t \in Tabs
      PROVE  /\ Known(flight[t].intent)'
             /\ flight'[t].step # "idle" => flight'[t].intent # NoIntent
             /\ \A j \in flight'[t].todo :
                   /\ flight'[t].step = "prune"
                   /\ j <= minted' /\ j # flight'[t].intent
                   /\ log'.text[j] = log'.text[flight'[t].intent]
  <2>0. /\ flight[t] \in Flight /\ Known(flight[t].intent)
        /\ flight[t].step # "idle" => flight[t].intent # NoIntent
        /\ \A j \in flight[t].todo :
              /\ flight[t].step = "prune"
              /\ Known(j) /\ j # flight[t].intent
              /\ log.text[j] = log.text[flight[t].intent]
    BY <1>1 DEF Typed, Texted
  <2>1. \A i \in Intents \cup {NoIntent} : Known(i) => i <= minted'
    BY <1>1, TextKept DEF Typed
  <2>2. \A j \in flight[t].todo :
           /\ j \in Intents /\ flight[t].intent \in Intents
           /\ log'.text[j] = log.text[j]
           /\ log'.text[flight[t].intent] = log.text[flight[t].intent]
    BY <2>0, TextKept DEF Flight
  <2>3. CASE flight'[t] = flight[t]
    BY <2>0, <2>1, <2>2, <2>3 DEF Known, Flight
  <2>4. CASE flight'[t] = NoFlight
    BY <2>1, <2>4, <1>1 DEF Known, NoFlight, Typed
  <2>5. CASE Scans(t)
    BY <2>0, <2>1, <2>2, <2>5 DEF Known, Scans, Flight
  <2>6. CASE Taps(t)
    <3>1. ASSUME NEW j \in flight'[t].todo
          PROVE  /\ flight'[t].step = "prune"
                 /\ j <= minted' /\ j # flight'[t].intent
                 /\ log'.text[j] = log'.text[flight'[t].intent]
      <4>1. PICK q \in store : q.intent = j /\ q.text = log'.text[flight'[t].intent]
        BY <2>6 DEF Taps
      <4>2. q \in Held /\ q.intent \in Intents
        BY <1>1, HeldIs, HeldTyped DEF Rec
      <4>3. Known(j) /\ q.text = log.text[j] /\ j \in Intents
        BY <1>1, <4>1, <4>2 DEF Texted, TextOf
      <4> QED
        BY <2>6, <4>1, <4>3, TextKept DEF Taps
    <3> QED
      BY <2>6, <3>1 DEF Taps, Known
  <2> QED
    BY <1>1, <2>3, <2>4, <2>5, <2>6 DEF FlightStep
<1> QED
  BY <1>2, <1>3, <1>4 DEF Texted, Known

LEMMA ClockedKept == ASSUME OutboxInv, GoodStep PROVE Clocked'
<1>1. Typed /\ Clocked /\ StoreStep /\ PassStep /\ FlightStep
  BY DEF OutboxInv, GoodStep
<1>2. /\ Now \in Nat
      /\ \A r \in Held : /\ r.created \in Nat /\ r.admittedAt \in Nat
                         /\ r.created <= Now /\ r.admittedAt <= Now
      /\ \A t \in Tabs : flight[t].at \in Nat /\ flight[t].at <= Now
  BY <1>1, NowIs, HeldTyped DEF Rec, Typed, Flight
<1> HIDE DEF Now
<1>3. ASSUME NEW p \in Held' PROVE p.created <= Now /\ p.admittedAt <= Now
  BY <1>1, <1>2, HeldStep DEF Kept, Fresh
<1>4. ASSUME NEW t \in Tabs PROVE flight'[t].at <= Now
  BY <1>1, <1>2 DEF FlightStep, NoFlight, Scans, Taps
<1>5. \A x \in Stamps' : x <= Now
  BY <1>3, <1>4 DEF Stamps
<1> QED
  BY <1>2, <1>5 DEF Clocked

LEMMA GrownKept == ASSUME OutboxInv, GoodStep PROVE Grown'
<1>1. Typed /\ Clocked /\ Read /\ Grown /\ StoreStep /\ PassStep
  BY DEF OutboxInv, GoodStep
<1> SUFFICES ASSUME NEW s \in Slots, pass'[s] # NoPass, NEW r \in pass'[s].seen,
                    NEW p \in store', p.intent = r.intent
             PROVE  /\ r.created <= p.created
                    /\ (r.created = p.created /\ r.status = "admitted")
                          => p.status = "admitted"
  BY DEF Grown, GrownFrom
<1>2. CASE GoesOn(s)
  <2>1. r \in Held /\ r.created \in Nat /\ GrownFrom(r)
    BY <1>1, <1>2, HeldIs, HeldTyped DEF Grown, GoesOn, Rec
  <2>2. r.created < Now /\ Now \in Nat
    BY <1>1, <2>1, NowIs
  <2> QED
    BY <1>1, <2>1, <2>2 DEF GrownFrom, StoreStep, Kept, Fresh
<1>3. CASE Starts(s)
  <2>1. r \in store /\ p \in store /\ r = p
    BY <1>1, <1>3 DEF Starts, Read, Distinct
  <2> QED
    BY <2>1, <1>1 DEF Typed, Rec
<1> QED
  BY <1>1, <1>2, <1>3 DEF PassStep

LEMMA SoleKept == ASSUME OutboxInv, GoodStep PROVE Sole'
<1>1. Typed /\ Clocked /\ Sole /\ StoreStep /\ FlightStep
  BY DEF OutboxInv, GoodStep
<1> SUFFICES ASSUME NEW t \in Tabs, flight'[t].step = "prune", NEW p \in store',
                    p.created = flight'[t].at
             PROVE  p.intent = flight'[t].intent
  BY DEF Sole
<1>2. CASE flight'[t] = flight[t] \/ Scans(t)
  <2>1. /\ flight[t].step = "prune" /\ flight'[t].at = flight[t].at
        /\ flight'[t].intent = flight[t].intent
    BY <1>2 DEF Scans
  <2>2. flight[t].at < Now /\ Now \in Nat /\ flight[t].at \in Nat
    BY <1>1, NowIs DEF Typed, Flight
  <2>3. p.created # Now
    BY <2>1, <2>2
  <2> QED
    BY <1>1, <2>1, <2>3 DEF StoreStep, Kept, Fresh, Sole
<1>3. CASE Taps(t)
  BY <1>3 DEF Taps
<1> QED
  BY <1>1, <1>2, <1>3 DEF FlightStep, NoFlight

LEMMA AgedKept == ASSUME OutboxInv, GoodStep PROVE Aged'
<1>1. /\ Typed /\ Clocked /\ Aged /\ StoreStep /\ PassStep
      /\ tick <= tick' /\ head <= head' /\ Typed'
  BY DEF OutboxInv, GoodStep, WorldStep
<1>2. /\ \A r \in Held : /\ r.created \in Nat /\ r.created < Now
                         /\ r.born \in Nat /\ r.head \in Heads
      /\ Now \in Nat /\ tick \in Nat /\ tick' \in Nat /\ head \in Nat /\ head' \in Nat
  BY <1>1, NowIs, HeldTyped DEF Rec, Typed
<1>3. \A r \in Held : r.born <= tick /\ Reached(r.head)
  BY <1>1 DEF Aged
<1> HIDE DEF Now
<1>4. ASSUME NEW p \in Held'
      PROVE  \/ \E q \in Held : q.created = p.created /\ q.born = p.born
             \/ p.created = Now /\ p.born = tick
  BY <1>1, HeldStep DEF Kept, Fresh
<1>5. ASSUME NEW p \in Held', NEW q \in Held', p.created < q.created
      PROVE  p.born <= q.born
  BY <1>1, <1>2, <1>3, <1>4, <1>5 DEF Aged
<1>6. ASSUME NEW p \in Held' PROVE p.born <= tick' /\ Reached(p.head)'
  <2>1. p.born <= tick'
    BY <1>1, <1>2, <1>3, <1>4
  <2>2. p.head \in Heads /\ (p.head = NoHead \/ p.head \in Nat)
    BY <1>1, HeldTypedNext, OutboxAssumption DEF Rec, Heads, NoHead
  <2>3. Reached(p.head)
    BY <1>1, <1>3, HeldStep DEF Kept, Fresh
  <2> QED
    BY <1>1, <1>2, <2>1, <2>2, <2>3 DEF Reached
<1> QED
  BY <1>5, <1>6 DEF Aged

\* What is owed still has its text, and an excuse lasts.
LEMMA OwedKept ==
    ASSUME OutboxInv, GoodStep, NEW o \in log.owed
    PROVE  /\ log'.text[o.intent] = log.text[o.intent]
           /\ Excused(o) => Excused(o)'
<1>1. o.intent \in Intents /\ Known(o.intent)
  BY DEF OutboxInv, Typed, Log, Texted
<1>2. log'.text[o.intent] = log.text[o.intent]
  BY <1>1, TextKept
<1>3. /\ log.blind \subseteq log'.blind
      /\ server[o.intent] # "none" => server'[o.intent] # "none"
  BY <1>1 DEF GoodStep, LogStep
<1> QED
  BY <1>2, <1>3 DEF Excused, TextOf

\* A record that backs a gesture goes on doing so, or leaves another that does.
LEMMA WaitsKept ==
    ASSUME OutboxInv, GoodStep, NEW o \in log.owed, o \in log'.owed, ~Excused(o)',
           NEW n \in Nat, o.at <= n, Waits(log.text[o.intent], n)
    PROVE  Waits(log.text[o.intent], n)'
<1> DEFINE x == log.text[o.intent]
<1>1. /\ Typed /\ Typed' /\ Clocked /\ StoreStep /\ PassStep /\ Leaves
      /\ log'.text[o.intent] = x /\ o.at \in Nat
  BY OwedKept DEF OutboxInv, GoodStep, Typed, Log
<1>2. PICK r \in store :
         /\ r.status = "saved" /\ r.text = x /\ n <= r.created
         /\ \A q \in Held : q.text = x => q.admittedAt < r.created
  BY DEF Waits
<1>3. /\ r.created \in Nat /\ r \in Held /\ o.at <= r.created
      /\ \A q \in Held : q.admittedAt \in Nat
  BY <1>1, <1>2, HeldIs, HeldTyped DEF Rec
<1>4. PICK p \in store' : p.status = "saved" /\ p.text = x /\ r.created <= p.created
  BY <1>1, <1>2, <1>3 DEF Leaves, TextOf
<1>5. p.created \in Nat /\ n <= p.created
  BY <1>1, <1>2, <1>3, <1>4 DEF Typed, Rec
<1>6. r.created > 0
  BY <1>2, <1>3
<1>7. ASSUME NEW q \in Held', q.text = x PROVE q.admittedAt < p.created
  <2>1. q.admittedAt < r.created
    <3>1. CASE q \in Held
      BY <1>2, <1>7, <3>1
    <3>2. ASSUME NEW k \in Held, Kept(k, q) PROVE q.admittedAt < r.created
      BY <1>1, <1>2, <1>3, <1>6, <1>7, <3>2 DEF Kept
    <3>3. CASE Fresh(q)
      BY <1>6, <3>3 DEF Fresh
    <3> QED
      BY <1>1, <3>1, <3>2, <3>3, HeldStep
  <2>2. q.admittedAt \in Nat
    BY <1>1, HeldTypedNext DEF Rec
  <2> QED
    BY <1>3, <1>4, <1>5, <2>1, <2>2
<1> QED
  BY <1>1, <1>4, <1>5, <1>7 DEF Waits

\* A record just saved backs the gestures with its text.
LEMMA FreshWaits ==
    ASSUME OutboxInv, GoodStep, NEW o \in log'.owed, NEW p \in store', Fresh(p),
           p.text = log'.text[o.intent], NEW n \in Nat, n = Now
    PROVE  Waits(log.text[o.intent], n)'
<1>1. /\ Typed /\ Clocked /\ StoreStep /\ PassStep /\ Now \in Nat \ {0}
      /\ \A q \in Held : q.admittedAt < Now /\ q.admittedAt \in Nat
  BY NowIs, HeldTyped DEF OutboxInv, GoodStep, Rec
<1>2. p.status = "saved" /\ p.created = n /\ n <= p.created
  BY DEF Fresh
<1>3. ASSUME NEW q \in Held', q.text = p.text PROVE q.admittedAt < n
  BY <1>1, <1>3, HeldStep DEF Kept, Fresh
<1> QED
  BY <1>2, <1>3 DEF Waits

LEMMA BackedKept == ASSUME OutboxInv, GoodStep PROVE Backed'
<1> SUFFICES ASSUME NEW o \in log'.owed, ~Excused(o)'
             PROVE  Waits(log.text[o.intent], o.at)'
  BY DEF Backed, TextOf
<1>1. CASE o \in log.owed
  <2>1. o.at \in Nat /\ o.at <= o.at
    BY <1>1 DEF OutboxInv, Typed, Log
  <2>2. Waits(log.text[o.intent], o.at)
    BY <1>1, OwedKept DEF OutboxInv, Backed, TextOf
  <2> QED
    BY <1>1, <2>1, <2>2, WaitsKept
<1>2. ASSUME o.at = Now, NEW p \in store', Fresh(p), p.intent = o.intent
      PROVE  Waits(log.text[o.intent], o.at)'
  <2>1. o.at \in Nat /\ p.text = log'.text[o.intent]
    BY <1>2 DEF GoodStep, Typed, Log, Fresh
  <2> QED
    BY <1>2, <2>1, FreshWaits
<1> QED
  BY <1>1, <1>2 DEF GoodStep, LogStep

LEMMA ScanBackedKept == ASSUME OutboxInv, GoodStep PROVE ScanBacked'
<1>0. Typed /\ Typed' /\ Clocked /\ Texted /\ ScanBacked /\ FlightStep /\ LogStep
  BY DEF OutboxInv, GoodStep
<1> SUFFICES ASSUME NEW t \in Tabs, flight'[t].step = "prune",
                    NEW o \in log'.owed, ~Excused(o)',
                    log'.text[o.intent] = log'.text[flight'[t].intent],
                    o.at <= flight'[t].at
             PROVE  Waits(log.text[o.intent], flight[t].at)'
  BY DEF ScanBacked, TextOf
<1>1. flight'[t].at \in Nat
  BY <1>0 DEF Typed, Flight
<1>2. CASE flight'[t] = flight[t] \/ Scans(t)
  <2>1. /\ flight[t].step = "prune" /\ flight'[t].at = flight[t].at
        /\ flight'[t].intent = flight[t].intent
    BY <1>2 DEF Scans
  <2>2. flight[t].at < Now /\ Now \in Nat /\ flight[t].at \in Nat
    BY <1>0, NowIs DEF Typed, Flight
  <2>3. o.at # Now
    BY <2>1, <2>2
  <2>4. o \in log.owed
    BY <1>0, <2>3 DEF LogStep
  <2>5. flight[t].intent \in Intents /\ Known(flight[t].intent)
    BY <1>0, <2>1 DEF Typed, Flight, Texted
  <2>6. log.text[o.intent] = log.text[flight[t].intent] /\ ~Excused(o)
    BY <2>1, <2>4, <2>5, OwedKept, TextKept
  <2>7. o.at <= flight[t].at /\ Waits(log.text[o.intent], flight[t].at)
    BY <1>0, <2>1, <2>4, <2>6 DEF ScanBacked, TextOf
  <2>8. PICK n \in Nat : n = flight[t].at /\ n = flight'[t].at
    BY <2>1, <2>2
  <2>9. Waits(log.text[o.intent], n)'
    BY <2>4, <2>7, <2>8, WaitsKept
  <2> QED
    BY <2>8, <2>9 DEF Waits
<1>3. CASE Taps(t)
  <2>1. PICK p \in store' : Fresh(p) /\ p.intent = flight'[t].intent
    BY <1>3 DEF Taps
  <2>2. p.text = log'.text[o.intent]
    BY <2>1 DEF Fresh
  <2>3. PICK n \in Nat : n = Now /\ n = flight'[t].at
    BY <1>1, <1>3 DEF Taps
  <2>4. Waits(log.text[o.intent], n)'
    BY <2>1, <2>2, <2>3, FreshWaits
  <2> QED
    BY <2>3, <2>4 DEF Waits
<1> QED
  BY <1>0, <1>2, <1>3 DEF FlightStep, NoFlight

LEMMA LookedAtKept == ASSUME OutboxInv, GoodStep PROVE LookedAt'
<1>1. /\ Typed /\ Typed' /\ Clocked /\ Aged /\ LookedAt /\ StoreStep /\ PassStep
      /\ head <= head'
  BY DEF OutboxInv, GoodStep, WorldStep
<1> SUFFICES ASSUME NEW s \in Slots, pass'[s] # NoPass, NEW q \in pass'[s].seen,
                    q \notin pass'[s].todo, q.status = "saved"
             PROVE  Overtaken(s, q)'
  BY DEF LookedAt
<1>2. CASE Starts(s)
  BY <1>2 DEF Starts
<1>3. CASE GoesOn(s) /\ q \in pass[s].todo
  BY <1>3 DEF GoesOn
<1>4. CASE GoesOn(s) /\ q \notin pass[s].todo
  <2>1. q \in Held /\ q \in Rec /\ Overtaken(s, q)
    BY <1>1, <1>4, HeldIs, HeldTyped DEF GoesOn, LookedAt
  <2>2. CASE q.hold \/ q.text \in pass[s].texts \/ Young(s, q)
    BY <1>4, <2>2 DEF GoesOn, Overtaken, Young
  <2>3. CASE HeadIsStale(q.head)
    <3>1. q.head # NoHead /\ q.head # head /\ q.head <= head
      BY <1>1, <2>1, <2>3 DEF Aged, Reached, HeadIsStale
    <3>2. q.head \in Nat /\ head \in Nat /\ head' \in Nat
      BY <1>1, <2>1, OutboxAssumption DEF Typed, Rec, Heads, NoHead
    <3>3. HeadIsStale(q.head)'
      BY <1>1, <3>1, <3>2 DEF HeadIsStale, NoHead
    <3> QED
      BY <3>3 DEF Overtaken
  <2>4. CASE Past(q)
    <3>1. q.created < Now /\ q.created \in Nat
      BY <1>1, <2>1, NowIs DEF Rec
    <3>2. Past(q)'
      BY <1>1, <2>4, <3>1 DEF Past, StoreStep, Kept, Fresh
    <3> QED
      BY <3>2 DEF Overtaken
  <2> QED
    BY <2>1, <2>2, <2>3, <2>4 DEF Overtaken
<1> QED
  BY <1>1, <1>2, <1>3, <1>4 DEF PassStep

LEMMA StepKeeps == ASSUME OutboxInv, GoodStep PROVE OutboxInv'
<1>1. Typed' /\ Named' /\ Facing'
  BY DEF GoodStep, WorldStep
<1> QED
  BY <1>1, ReadKept, TextedKept, ClockedKept, GrownKept, SoleKept, AgedKept,
     BackedKept, ScanBackedKept, LookedAtKept DEF OutboxInv

-----------------------------------------------------------------------------
(* Actions that leave a part as it is.                                     *)

QuietPass == \A s \in Slots : pass'[s] \in {pass[s], NoPass}
QuietFlight == \A t \in Tabs : flight'[t] \in {flight[t], NoFlight}
QuietWorld == /\ \A i \in Intents : server[i] # "none" => server'[i] # "none"
              /\ tick <= tick' /\ head <= head'
QuietLog == /\ minted <= minted'
            /\ \A i \in Intents : Known(i) => log'.text[i] = log.text[i]
            /\ log'.owed \subseteq log.owed /\ log.blind \subseteq log'.blind

LEMMA DropStore == ASSUME OutboxInv, store' \subseteq store PROVE StoreStep
BY DEF OutboxInv, Read, Distinct, StoreStep, Kept

LEMMA KeepLeaves == ASSUME OutboxInv, store \subseteq store' PROVE Leaves
<1>1. \A r \in store : r.created \in Nat
  BY DEF OutboxInv, Typed, Rec
<1> QED
  BY <1>1 DEF Leaves

LEMMA QuietPassStep == ASSUME QuietPass PROVE PassStep
BY DEF QuietPass, PassStep, GoesOn

LEMMA QuietFlightStep == ASSUME QuietFlight PROVE FlightStep
BY DEF QuietFlight, FlightStep

LEMMA QuietLogStep == ASSUME QuietLog, QuietWorld PROVE LogStep
BY DEF QuietLog, QuietWorld, LogStep

LEMMA QuietStep ==
    ASSUME OutboxInv, Typed', Named', Facing', store' = store,
           QuietPass, QuietFlight, QuietLog, QuietWorld
    PROVE  GoodStep
BY DropStore, KeepLeaves, QuietPassStep, QuietFlightStep, QuietLogStep
   DEF GoodStep, WorldStep, QuietWorld

LEMMA StaysWhole ==
    /\ UNCHANGED pass => QuietPass
    /\ UNCHANGED flight => QuietFlight
    /\ Typed /\ UNCHANGED <<server, tick, head>> => QuietWorld
    /\ Typed /\ UNCHANGED <<minted, log>> => QuietLog
BY DEF QuietPass, QuietFlight, QuietWorld, QuietLog, Typed

-----------------------------------------------------------------------------
(* The operators the actions are built from.                               *)

\* What has an intent and is recorded under it.
LEMMA RecordIs ==
    ASSUME OutboxInv, NEW i, Recorded(i)
    PROVE  /\ RecordOf(i) \in store /\ RecordOf(i).intent = i /\ i \in Intents
           /\ Known(i) /\ RecordOf(i).text = log.text[i]
<1>1. RecordOf(i) \in store /\ RecordOf(i).intent = i
  BY DEF Recorded, RecordOf
<1>2. RecordOf(i) \in Held
  BY <1>1, HeldIs
<1> HIDE DEF RecordOf
<1> QED
  BY <1>1, <1>2 DEF OutboxInv, Typed, Rec, Texted, TextOf

LEMMA SettledIs ==
    ASSUME log \in Log, NEW X
    PROVE  /\ Settled(X) \in Log /\ Settled(X).text = log.text
           /\ Settled(X).blind = log.blind
           /\ Settled(X).owed = {o \in log.owed : log.text[o.intent] \notin X}
BY DEF Settled, Log

LEMMA BlindIs ==
    ASSUME log \in Log, NEW l \in Log, l.text = log.text, NEW i \in Intents, NEW at
    PROVE  /\ Blind(l, i, at) \in Log /\ Blind(l, i, at).text = l.text
           /\ Blind(l, i, at).owed = l.owed /\ l.blind \subseteq Blind(l, i, at).blind
           /\ Resaved(i, at) => log.text[i] \in Blind(l, i, at).blind
<1>1. log.text[i] \in Texts
  BY DEF Log
<1> QED
  BY <1>1 DEF Blind, Log

\* One more fault, and nothing else, is a log again.
LEMMA FaultIs ==
    ASSUME NEW l \in Log
    PROVE  LET f == [l EXCEPT !.faults = @ + 1] IN
           f \in Log /\ f.text = l.text /\ f.owed = l.owed /\ f.blind = l.blind
BY DEF Log

LEMMA RowsAre ==
    ASSUME NEW rs \in [Intents -> Stages], NEW i \in Intents, NEW stage \in Stages
    PROVE  /\ Patch(rs, i, stage) \in [Intents -> Stages]
           /\ Ensure(rs, i, stage) \in [Intents -> Stages]
           /\ Mint(rs, i) \in [Intents -> Stages]
           /\ Finish(rs, i) \in [Intents -> Stages]
           /\ \A j \in Intents : /\ Patch(rs, i, stage)[j] # "none" => rs[j] # "none"
                                 /\ Finish(rs, i)[j] # "none" => rs[j] # "none"
                                 /\ \/ Ensure(rs, i, stage)[j] = rs[j] \/ j = i
                                 /\ Mint(rs, i)[j] # "none" => rs[j] # "none" \/ j = i
BY DEF Patch, Ensure, Mint, Finish, Stages

\* The record becomes admitted, and what is owed of its text is settled.
LEMMA MarkIs ==
    ASSUME OutboxInv, NEW i \in Intents, MarkAdmitted(i),
           Recorded(i) => \A o \in log'.owed : /\ log'.text[o.intent] # log.text[i]
                                               /\ log.text[o.intent] # log.text[i]
    PROVE  /\ store' \subseteq Rec /\ StoreStep /\ Leaves
           /\ \A p \in store' : p.intent = i => p.status = "admitted"
<1>1. CASE ~Recorded(i)
  <2>1. store' = store
    BY <1>1 DEF MarkAdmitted
  <2>2. \A p \in store' : p.intent # i
    BY <1>1, <2>1 DEF Recorded
  <2> QED
    BY <2>1, <2>2, DropStore, KeepLeaves DEF OutboxInv, Typed
<1>2. CASE Recorded(i)
  <2> DEFINE k == RecordOf(i)
             p == [k EXCEPT !.status = "admitted", !.admittedAt = Now]
  <2>1. k \in store /\ k.intent = i /\ k.text = log.text[i] /\ k \in Rec
    BY <1>2, RecordIs DEF OutboxInv, Typed
  <2>2. store' = {x \in store : x.intent # p.intent} \cup {p}
    BY <1>2 DEF MarkAdmitted, Put
  <2>3. Now \in Nat
    BY NowIs DEF OutboxInv
  <2> HIDE DEF k, Now
  <2>4. /\ p \in Rec /\ p.intent = i /\ p.text = k.text /\ p.created = k.created
        /\ p.born = k.born /\ p.status = "admitted" /\ p.head = k.head
        /\ p.admittedAt = Now
    BY <2>1, <2>3 DEF Rec, Status
  <2> HIDE DEF p
  <2>5. Kept(k, p)
    BY <1>2, <2>1, <2>4 DEF Kept
  <2>6. \A x \in store' : x = p \/ (x \in store /\ x.intent # i /\ Kept(x, x))
    BY <2>2, <2>4 DEF Kept
  <2>7. Distinct(store)'
    BY <2>2, <2>4 DEF OutboxInv, Read, Distinct
  <2>8. StoreStep
    BY <2>1, <2>5, <2>6, <2>7 DEF StoreStep
  <2>9. Leaves
    <3> SUFFICES ASSUME NEW o \in log.owed, NEW r \in store, o \in log'.owed,
                        r.text = TextOf(o)
                 PROVE  r \in store' /\ r.created <= r.created
      BY DEF Leaves
    <3>1. r.text # log.text[i] /\ r.created \in Nat
      BY <1>2 DEF TextOf, OutboxInv, Typed, Rec
    <3>2. r.intent # i
      BY <3>1, <2>1 DEF OutboxInv, Read, Distinct
    <3> QED
      BY <2>2, <2>4, <3>1, <3>2
  <2> QED
    BY <2>2, <2>4, <2>6, <2>8, <2>9 DEF OutboxInv, Typed
<1> QED
  BY <1>1, <1>2

\* A pass goes on to p, or is over.
LEMMA PassGoesOn ==
    ASSUME OutboxInv, NEW s \in Slots, pass[s] # NoPass, NEW p \in PassRec,
           pass' = PassIs(s, p), p.seen = pass[s].seen, p.admitted = pass[s].admitted,
           p.todo \subseteq pass[s].todo, pass[s].texts \subseteq p.texts,
           p.now = pass[s].now,
           \/ p.current \in {pass[s].current, NoIntent}
           \/ \E r \in pass[s].todo : PassPost(s, r) /\ p.current = r.intent,
           pass'[s] = p => \A q \in pass[s].todo :
                              (q \notin p.todo /\ q.status = "saved") => Overtaken(s, q)'
    PROVE  /\ PassStep /\ pass' \in [Slots -> PassRec \cup {NoPass}]
           /\ \A u \in Slots : pass'[u] # NoPass => Known(pass'[u].current)
<1>1. /\ pass'[s] \in {p, NoPass}
      /\ \A u \in Slots : u # s => pass'[u] = pass[u]
      /\ pass' \in [Slots -> PassRec \cup {NoPass}]
  BY DEF PassIs, OutboxInv, Typed
<1>2. pass'[s] = p => GoesOn(s)
  BY DEF GoesOn
<1>3. \A u \in Slots : (u # s /\ pass'[u] # NoPass) => GoesOn(u)
  BY <1>1 DEF GoesOn
<1>4. PassStep
  BY <1>1, <1>2, <1>3 DEF PassStep
<1>5. Known(p.current)
  <2>1. pass[s] \in PassRec /\ pass[s].todo \subseteq pass[s].seen
    BY DEF OutboxInv, Typed, Read
  <2>2. \A r \in pass[s].todo : Known(r.intent)
    BY <2>1, HeldIs DEF OutboxInv, Texted
  <2>3. Known(NoIntent) /\ Known(pass[s].current)
    BY DEF OutboxInv, Typed, Known, NoIntent, Named
  <2> QED
    BY <2>2, <2>3
<1> QED
  BY <1>1, <1>4, <1>5 DEF OutboxInv, Named

-----------------------------------------------------------------------------
(* The world outside, and pages.                                           *)

LEMMA EvictStep == ASSUME OutboxInv, Evict PROVE GoodStep
<1> DEFINE l == Settled(Texts)
<1>1. /\ log \in Log /\ l \in Log /\ l.text = log.text /\ l.blind = log.blind
      /\ l.owed = {o \in log.owed : log.text[o.intent] \notin Texts}
  BY SettledIs DEF OutboxInv, Typed
<1>2. /\ store' = {} /\ log' = [l EXCEPT !.faults = @ + 1]
      /\ UNCHANGED <<page, rows, flight, pass, wire, server, head, tick, minted>>
  BY DEF Evict
<1> HIDE DEF l
<1>3. log' \in Log /\ log'.text = l.text /\ log'.owed = l.owed /\ log'.blind = l.blind
  BY <1>1, <1>2, FaultIs
<1>4. \A o \in log.owed : log.text[o.intent] \in Texts
  BY <1>1 DEF Log
<1>5. Leaves
  BY <1>1, <1>3, <1>4 DEF Leaves
<1>6. Typed' /\ Named' /\ Facing'
  BY <1>2, <1>3 DEF OutboxInv, Typed, Named, Facing, Known, Reached
<1>7. QuietLog
  BY <1>1, <1>2, <1>3 DEF QuietLog, OutboxInv, Typed
<1> QED
  BY <1>2, <1>5, <1>6, <1>7, StaysWhole, DropStore, QuietPassStep, QuietFlightStep,
     QuietLogStep DEF GoodStep, WorldStep, QuietWorld, OutboxInv

LEMMA TickStep == ASSUME OutboxInv, Tick PROVE GoodStep
<1>1. /\ tick' = tick + 1
      /\ UNCHANGED <<store, page, rows, flight, pass, wire, server, head, minted>>
      /\ log' = [log EXCEPT !.faults = IF tick = 0 THEN @ ELSE @ + 1]
      /\ log \in Log
  BY DEF Tick, OutboxInv, Typed
<1>0. /\ log' \in Log /\ log'.text = log.text /\ log'.owed = log.owed
      /\ log'.blind = log.blind
  BY <1>1 DEF Log
<1>2. Typed' /\ Named' /\ Facing'
  BY <1>0, <1>1 DEF OutboxInv, Typed, Named, Facing, Known, Reached
<1>3. QuietLog /\ QuietWorld
  BY <1>0, <1>1 DEF QuietLog, QuietWorld, OutboxInv, Typed
<1> QED
  BY <1>1, <1>2, <1>3, StaysWhole, QuietStep

LEMMA LandStep == ASSUME OutboxInv, NEW i \in Intents, Land(i) PROVE GoodStep
<1>1. /\ server' \in [Intents -> Server] /\ wire' \in SUBSET Intents
      /\ \A j \in Intents : server[j] # "none" => server'[j] # "none"
      /\ UNCHANGED <<store, page, rows, flight, pass, head, tick, minted>>
  BY DEF Land, OutboxInv, Typed, Server
<1>2. /\ log' \in Log /\ log'.text = log.text /\ log'.owed \subseteq log.owed
      /\ log'.blind = log.blind
  BY SettledIs DEF Land, OutboxInv, Typed
<1>3. Typed' /\ Named' /\ Facing'
  BY <1>1, <1>2 DEF OutboxInv, Typed, Named, Facing, Known, Reached
<1>4. QuietLog /\ QuietWorld
  BY <1>1, <1>2 DEF QuietLog, QuietWorld, OutboxInv, Typed
<1> QED
  BY <1>1, <1>3, <1>4, StaysWhole, QuietStep

LEMMA DeliverStep == ASSUME OutboxInv, NEW i \in Intents, Deliver(i) PROVE GoodStep
<1>1. /\ server' \in [Intents -> Server]
      /\ \A j \in Intents : server[j] # "none" => server'[j] # "none"
      /\ head' \in 0..MaxHead /\ head <= head'
      /\ UNCHANGED <<store, page, rows, flight, pass, wire, tick, minted, log>>
  BY OutboxAssumption DEF Deliver, OutboxInv, Typed, Server
<1>2. \A t \in Tabs : page[t].failure.head \in Heads
  BY DEF OutboxInv, Typed, Page, Failure
<1>3. Facing'
  <2> SUFFICES ASSUME NEW t \in Tabs PROVE Reached(page[t].failure.head)'
    BY DEF Facing
  <2>1. Reached(page[t].failure.head) /\ page[t].failure.head \in Heads
    BY <1>2 DEF OutboxInv, Facing
  <2>2. page'[t].failure.head = page[t].failure.head
    BY <1>1
  <2> QED
    BY <1>1, <2>1, <2>2, OutboxAssumption DEF Reached, Heads, NoHead, OutboxInv, Typed
<1>4. Typed' /\ Named'
  BY <1>1 DEF OutboxInv, Typed, Named, Known
<1>5. QuietWorld
  BY <1>1 DEF QuietWorld, OutboxInv, Typed
<1> QED
  BY <1>1, <1>3, <1>4, <1>5, StaysWhole, QuietStep DEF OutboxInv

LEMMA DismissStep == ASSUME OutboxInv, NEW i \in Intents, Dismiss(i) PROVE GoodStep
<1>1. /\ server' \in [Intents -> Server]
      /\ \A j \in Intents : server[j] # "none" => server'[j] # "none"
      /\ UNCHANGED <<store, page, rows, flight, pass, wire, head, tick, minted>>
  BY DEF Dismiss, OutboxInv, Typed, Server
<1>2. /\ log' \in Log /\ log'.text = log.text /\ log'.owed = log.owed
      /\ log'.blind = log.blind
  BY FaultIs DEF Dismiss, OutboxInv, Typed
<1>3. Typed' /\ Named' /\ Facing'
  BY <1>1, <1>2 DEF OutboxInv, Typed, Named, Facing, Known, Reached
<1>4. QuietLog /\ QuietWorld
  BY <1>1, <1>2 DEF QuietLog, QuietWorld, OutboxInv, Typed
<1> QED
  BY <1>1, <1>3, <1>4, StaysWhole, QuietStep

\* A page starts or ends: nothing of it is left but what was stored.
LEMMA PageStep ==
    ASSUME OutboxInv, NEW t \in Tabs, NEW p \in Page, p.failure = NoFailure,
           page' = [page EXCEPT ![t] = p],
           rows' = [rows EXCEPT ![t] = [i \in Intents |-> "none"]],
           flight' = [flight EXCEPT ![t] = NoFlight],
           pass' = [s \in Slots |->
               IF pass[s] # NoPass /\ pass[s].tab = t THEN NoPass ELSE pass[s]],
           log' \in Log, log'.text = log.text, log'.owed = log.owed,
           log'.blind = log.blind,
           UNCHANGED <<store, wire, server, head, tick, minted>>
    PROVE  GoodStep
<1>1. QuietPass /\ pass' \in [Slots -> PassRec \cup {NoPass}]
  BY DEF QuietPass, OutboxInv, Typed
<1>2. NoFlight \in Flight /\ [i \in Intents |-> "none"] \in [Intents -> Stages]
  BY DEF NoFlight, Flight, Steps, Stages
<1>3. QuietFlight /\ flight' \in [Tabs -> Flight]
  BY <1>2 DEF QuietFlight, OutboxInv, Typed
<1>4. page' \in [Tabs -> Page] /\ rows' \in [Tabs -> [Intents -> Stages]]
  BY <1>2 DEF OutboxInv, Typed
<1>5. Typed'
  BY <1>1, <1>3, <1>4 DEF OutboxInv, Typed
<1>6. Facing'
  BY DEF OutboxInv, Typed, Facing, Reached, NoFailure
<1>7. Named'
  <2>1. ASSUME NEW u \in Tabs
        PROVE  Known(page[u].failure.intent)' /\
               \A i \in Intents : rows'[u][i] # "none" => i <= minted'
    BY DEF OutboxInv, Typed, Named, Known, NoFailure, NoIntent
  <2>2. \A s \in Slots : pass'[s] # NoPass => Known(pass'[s].current)
    BY <1>1 DEF OutboxInv, Named, QuietPass
  <2> QED
    BY <2>1, <2>2 DEF Named, Known
<1>8. QuietLog /\ QuietWorld
  BY DEF QuietLog, QuietWorld, OutboxInv, Typed
<1> QED
  BY <1>1, <1>3, <1>5, <1>6, <1>7, <1>8, QuietStep

LEMMA ClosePageStep == ASSUME OutboxInv, NEW t \in Tabs, ClosePage(t) PROVE GoodStep
<1>1. NoPage \in Page /\ NoPage.failure = NoFailure
  BY OutboxAssumption DEF NoPage, Page, Failure, NoFailure, NoIntent, NoHead, Heads
<1>2. /\ log' \in Log /\ log'.text = log.text /\ log'.owed = log.owed
      /\ log'.blind = log.blind
  BY FaultIs DEF ClosePage, OutboxInv, Typed
<1> QED
  BY <1>1, <1>2, PageStep DEF ClosePage

LEMMA OpenPageStep == ASSUME OutboxInv, NEW t \in Tabs, OpenPage(t) PROVE GoodStep
<1>1. PICK client \in Nat : Boot(t, client)
  BY DEF OpenPage, OutboxInv, Typed, Page, Log
<1> DEFINE p == [open |-> TRUE, client |-> client, nonce |-> log.pages + 1,
                 memo |-> "unasked", failure |-> NoFailure]
<1>2. p \in Page /\ p.failure = NoFailure
  BY OutboxAssumption
     DEF Page, Failure, NoFailure, NoIntent, NoHead, Heads, OutboxInv, Typed, Log
<1>3. page' = [page EXCEPT ![t] = p]
  BY <1>1 DEF Boot
<1>4. /\ log' \in Log /\ log'.text = log.text /\ log'.owed = log.owed
      /\ log'.blind = log.blind
  <2>1. log' = [log EXCEPT !.pages = @ + 1, !.faults = @ + 1] /\ log \in Log
    BY <1>1 DEF Boot, OutboxInv, Typed
  <2> DEFINE m == [log EXCEPT !.pages = @ + 1]
  <2>2. m \in Log /\ m.text = log.text /\ m.owed = log.owed /\ m.blind = log.blind
    BY <2>1 DEF Log
  <2>3. log' = [m EXCEPT !.faults = @ + 1]
    BY <2>1 DEF Log
  <2> HIDE DEF m
  <2> QED
    BY <2>2, <2>3, FaultIs
<1> HIDE DEF p
<1> QED
  BY <1>1, <1>2, <1>3, <1>4, PageStep DEF Boot, OpenPage

-----------------------------------------------------------------------------
(* The gesture.                                                            *)

LEMMA TextIs ==
    ASSUME NEW l \in Log, NEW i \in Intents, NEW x \in Texts
    PROVE  LET m == [l EXCEPT !.text[i] = x] IN
           /\ m \in Log /\ m.text = [l.text EXCEPT ![i] = x]
           /\ m.owed = l.owed /\ m.blind = l.blind
BY DEF Log

\* One row of a tab is written, for an intent that is known by now.
LEMMA RowsKnown ==
    ASSUME OutboxInv, NEW t \in Tabs, NEW rs \in [Intents -> Stages],
           minted \in Nat, minted' \in Nat, minted <= minted',
           rows' = [rows EXCEPT ![t] = rs],
           \A j \in Intents : rs[j] # "none" => rows[t][j] # "none" \/ j <= minted'
    PROVE  /\ rows' \in [Tabs -> [Intents -> Stages]]
           /\ \A u \in Tabs : \A j \in Intents : rows'[u][j] # "none" => j <= minted'
<1>1. rows' \in [Tabs -> [Intents -> Stages]]
  BY DEF OutboxInv, Typed
<1>2. \A u \in Tabs, j \in Intents : rows[u][j] # "none" => j <= minted
  BY DEF OutboxInv, Named, Known
<1>3. \A j \in Intents : j \in Nat
  BY DEF Intents
<1> QED
  BY <1>1, <1>2, <1>3 DEF OutboxInv, Typed

LEMMA AttemptIs ==
    ASSUME OutboxInv, NEW t \in Tabs, NEW x \in Texts, NEW i \in Intents,
           Attempt(t, x, i), NEW stage \in Stages,
           rows' = [rows EXCEPT ![t] = Patch(TapRows(t, i), i, stage)]
    PROVE  /\ minted' \in 0..MaxIntents /\ minted <= minted' /\ i <= minted'
           /\ Known(i) => log.text[i] = x
           /\ rows' \in [Tabs -> [Intents -> Stages]]
           /\ \A u \in Tabs : \A j \in Intents : rows'[u][j] # "none" => j <= minted'
<1>1. /\ i \in Nat /\ i <= MaxIntents /\ minted \in Nat /\ minted <= MaxIntents
      /\ rows[t] \in [Intents -> Stages]
      /\ \A j \in Intents : rows[t][j] # "none" => j <= minted
  BY OutboxAssumption DEF OutboxInv, Typed, Intents, Named, Known
<1>2. minted' \in 0..MaxIntents /\ minted <= minted' /\ i <= minted'
  BY <1>1, OutboxAssumption DEF Attempt
<1>3. Known(i) => log.text[i] = x
  BY <1>1 DEF Attempt, Reusable, Known
<1>4. /\ TapRows(t, i) \in [Intents -> Stages]
      /\ \A j \in Intents : TapRows(t, i)[j] # "none" => rows[t][j] # "none" \/ j = i
  <2>1. "none" \in Stages
    BY DEF Stages
  <2>2. /\ Mint(rows[t], i) \in [Intents -> Stages]
        /\ \A j \in Intents : Mint(rows[t], i)[j] # "none" => rows[t][j] # "none" \/ j = i
    BY <1>1, <2>1, RowsAre
  <2> QED
    BY <1>1, <2>2, Zenon DEF TapRows
<1> DEFINE rs == Patch(TapRows(t, i), i, stage)
<1>5. /\ rs \in [Intents -> Stages]
      /\ \A j \in Intents : rs[j] # "none" => rows[t][j] # "none" \/ j = i
  BY <1>4, RowsAre
<1> HIDE DEF rs
<1>6. rows' = [rows EXCEPT ![t] = rs]
  BY DEF rs
<1>7. \A j \in Intents : rs[j] # "none" => rows[t][j] # "none" \/ j <= minted'
  BY <1>2, <1>5
<1>8. minted' \in Nat
  BY <1>2
<1> QED
  BY <1>1, <1>2, <1>3, <1>5, <1>6, <1>7, <1>8, RowsKnown

LEMMA PrepareFailsStep ==
    ASSUME OutboxInv, NEW t \in Tabs, NEW x \in Texts, NEW i \in Intents,
           PrepareFails(t, x, i) \/ SaveFails(t, x, i)
    PROVE  GoodStep
<1>1. /\ Attempt(t, x, i)
      /\ rows' = [rows EXCEPT ![t] = Patch(TapRows(t, i), i, "refused")]
      /\ log' = [log EXCEPT !.faults = @ + 1, !.text[i] = x]
      /\ UNCHANGED <<store, flight, pass, wire, server, head, tick>>
      /\ \/ UNCHANGED page
         \/ \E h \in {head, NoHead} :
               page' = [page EXCEPT ![t].failure = [intent |-> i, head |-> h]]
  BY DEF PrepareFails, SaveFails
<1>2. /\ minted' \in 0..MaxIntents /\ minted <= minted' /\ i <= minted'
      /\ Known(i) => log.text[i] = x
      /\ rows' \in [Tabs -> [Intents -> Stages]]
      /\ \A u \in Tabs : \A j \in Intents : rows'[u][j] # "none" => j <= minted'
  BY <1>1, AttemptIs DEF Stages
<1>3. /\ log' \in Log /\ log'.text = [log.text EXCEPT ![i] = x]
      /\ log'.owed = log.owed /\ log'.blind = log.blind
  <2> DEFINE m == [log EXCEPT !.faults = @ + 1]
  <2>1. /\ m \in Log /\ m.text = log.text /\ m.owed = log.owed /\ m.blind = log.blind
    BY FaultIs DEF OutboxInv, Typed
  <2>2. log' = [m EXCEPT !.text[i] = x]
    BY <1>1 DEF OutboxInv, Typed, Log
  <2> HIDE DEF m
  <2> QED
    BY <2>1, <2>2, TextIs
<1>4. /\ page' \in [Tabs -> Page]
      /\ \A u \in Tabs : /\ page'[u].failure.intent <= minted'
                         /\ Reached(page'[u].failure.head)
  <2>1. /\ page \in [Tabs -> Page] /\ head \in Nat /\ head \in Heads /\ NoHead \in Heads
        /\ \A u \in Tabs : /\ page[u].failure.intent <= minted
                           /\ Reached(page[u].failure.head)
    BY OutboxAssumption DEF OutboxInv, Typed, Facing, Named, Known, Heads, NoHead
  <2>2. /\ \A u \in Tabs : page[u].failure.intent \in Nat
        /\ minted \in Nat /\ minted' \in Nat
    BY <1>2, <2>1 DEF Page, Failure, Intents, NoIntent, OutboxInv, Typed
  <2>3. CASE UNCHANGED page
    BY <1>2, <2>1, <2>2, <2>3
  <2>4. ASSUME NEW h \in {head, NoHead},
               page' = [page EXCEPT ![t].failure = [intent |-> i, head |-> h]]
        PROVE  /\ page' \in [Tabs -> Page]
               /\ \A u \in Tabs : /\ page'[u].failure.intent <= minted'
                                  /\ Reached(page'[u].failure.head)
    <3>1. Reached(h) /\ h \in Heads
      BY <2>1 DEF Reached
    <3>2. [intent |-> i, head |-> h] \in Failure
      BY <3>1 DEF Failure
    <3>3. page' \in [Tabs -> Page]
      BY <2>1, <2>4, <3>2 DEF Page
    <3>4. /\ page'[t].failure.intent = i /\ page'[t].failure.head = h
          /\ \A u \in Tabs : u # t => page'[u] = page[u]
      BY <2>1, <2>4 DEF Page
    <3> QED
      BY <1>2, <2>1, <2>2, <3>1, <3>3, <3>4
  <2> QED
    BY <1>1, <2>3, <2>4
<1>5. Typed'
  BY <1>1, <1>2, <1>3, <1>4 DEF OutboxInv, Typed
<1>6. Named' /\ Facing'
  <2>1. \A s \in Slots : pass[s] # NoPass => pass[s].current <= minted'
    BY <1>2 DEF OutboxInv, Typed, Named, Known, PassRec, Intents, NoIntent
  <2> QED
    BY <1>1, <1>2, <1>4, <2>1 DEF Named, Facing, Known, Reached
<1>7. QuietLog
  <2>1. \A j \in Intents : Known(j) => log'.text[j] = log.text[j]
    BY <1>2, <1>3 DEF OutboxInv, Typed, Log
  <2> QED
    BY <1>2, <1>3, <2>1 DEF QuietLog
<1> QED
  BY <1>1, <1>5, <1>6, <1>7, StaysWhole, QuietStep DEF OutboxInv

\* A gesture that is past its save ends: its row is written, its record linked
\* or left.
LEMMA GestureEnds ==
    ASSUME OutboxInv, NEW t \in Tabs, flight[t].step # "idle",
           NEW rs \in [Intents -> Stages], rows' = [rows EXCEPT ![t] = rs],
           \A j \in Intents : rs[j] # "none" => rows[t][j] # "none",
           flight' = [flight EXCEPT ![t] = NoFlight], wire' \in SUBSET Intents,
           log' \in Log, log'.text = log.text, log'.owed \subseteq log.owed,
           log'.blind = log.blind, UNCHANGED <<page, pass, server, head, minted, tick>>,
           \/ store' = store
           \/ /\ MarkAdmitted(flight[t].intent)
              /\ Recorded(flight[t].intent) =>
                    \A o \in log'.owed :
                        log.text[o.intent] # log.text[flight[t].intent]
    PROVE  GoodStep
<1>1. flight[t].intent \in Intents
  BY DEF OutboxInv, Typed, Flight, Texted
<1>2. /\ rows' \in [Tabs -> [Intents -> Stages]]
      /\ \A u \in Tabs : \A j \in Intents : rows'[u][j] # "none" => j <= minted'
  <2>1. minted \in Nat /\ minted' \in Nat /\ minted <= minted'
    BY DEF OutboxInv, Typed
  <2> QED
    BY <2>1, RowsKnown
<1>3. store' \subseteq Rec /\ StoreStep /\ Leaves
  BY <1>1, MarkIs, DropStore, KeepLeaves DEF OutboxInv, Typed
<1>4. QuietFlight /\ flight' \in [Tabs -> Flight]
  BY DEF QuietFlight, OutboxInv, Typed, NoFlight, Flight, Steps
<1>5. Typed'
  BY <1>2, <1>3, <1>4 DEF OutboxInv, Typed
<1>6. Named' /\ Facing'
  BY <1>2 DEF OutboxInv, Named, Known, Facing, Reached
<1>7. QuietLog
  BY DEF QuietLog, OutboxInv, Typed
<1> QED
  BY <1>3, <1>4, <1>5, <1>6, <1>7, StaysWhole, QuietPassStep, QuietFlightStep,
     QuietLogStep DEF GoodStep, WorldStep, QuietWorld, OutboxInv

LEMMA MarkedLogIs ==
    ASSUME OutboxInv, NEW i
    PROVE  /\ MarkedLog(i) \in Log /\ MarkedLog(i).text = log.text
           /\ MarkedLog(i).owed \subseteq log.owed /\ MarkedLog(i).blind = log.blind
           /\ Recorded(i) => \A o \in MarkedLog(i).owed :
                                 log.text[o.intent] # log.text[i]
BY SettledIs DEF MarkedLog, OutboxInv, Typed

LEMMA AdmittedStep == ASSUME OutboxInv, NEW t \in Tabs, Admitted(t) PROVE GoodStep
<1> DEFINE i == flight[t].intent
<1>1. i \in Intents /\ rows[t] \in [Intents -> Stages] /\ flight[t].step # "idle"
  BY DEF Admitted, OutboxInv, Typed, Flight, Texted
<1> DEFINE rs == Finish(rows[t], i)
<1>2. /\ rs \in [Intents -> Stages]
      /\ \A j \in Intents : rs[j] # "none" => rows[t][j] # "none"
  BY <1>1, RowsAre DEF Stages
<1>3. rows' = [rows EXCEPT ![t] = rs]
  BY DEF Admitted
<1> HIDE DEF rs
<1>4. wire' \in SUBSET Intents
  BY DEF Admitted, OutboxInv, Typed
<1>5. /\ log' \in Log /\ log'.text = log.text /\ log'.owed \subseteq log.owed
      /\ log'.blind = log.blind
      /\ Recorded(i) => \A o \in log'.owed : log.text[o.intent] # log.text[i]
  BY MarkedLogIs DEF Admitted
<1>6. /\ MarkAdmitted(i) /\ flight' = [flight EXCEPT ![t] = NoFlight]
      /\ UNCHANGED <<page, pass, server, head, minted, tick>>
  BY DEF Admitted
<1> QED
  BY <1>1, <1>2, <1>3, <1>4, <1>5, <1>6, GestureEnds

LEMMA RefusedStep == ASSUME OutboxInv, NEW t \in Tabs, Refused(t) PROVE GoodStep
<1> DEFINE i == flight[t].intent
<1>1. i \in Intents /\ rows[t] \in [Intents -> Stages] /\ flight[t].step # "idle"
  BY DEF Refused, OutboxInv, Typed, Flight, Texted
<1> DEFINE rs == Patch(rows[t], i, "refused")
<1>2. /\ rs \in [Intents -> Stages]
      /\ \A j \in Intents : rs[j] # "none" => rows[t][j] # "none"
  BY <1>1, RowsAre DEF Stages
<1>3. rows' = [rows EXCEPT ![t] = rs]
  BY DEF Refused
<1> HIDE DEF rs
<1>4. /\ log' \in Log /\ log'.text = log.text /\ log'.owed = log.owed
      /\ log'.blind = log.blind
  BY FaultIs DEF Refused, OutboxInv, Typed
<1>5. wire' \in SUBSET Intents
  BY DEF Refused, OutboxInv, Typed
<1> QED
  BY <1>1, <1>2, <1>3, <1>4, <1>5, GestureEnds DEF Refused

LEMMA UnansweredStep == ASSUME OutboxInv, NEW t \in Tabs, Unanswered(t) PROVE GoodStep
<1> DEFINE i == flight[t].intent
<1>1. i \in Intents /\ rows[t] \in [Intents -> Stages] /\ flight[t].step # "idle"
  BY DEF Unanswered, OutboxInv, Typed, Flight, Texted
<1>2. PICK c \in BOOLEAN :
         /\ rows' = [rows EXCEPT ![t] = Patch(@, i, ClassifyLost(c))]
         /\ IF c THEN MarkAdmitted(i) ELSE UNCHANGED store
         /\ log' = [(IF c THEN MarkedLog(i) ELSE log) EXCEPT !.faults = @ + 1]
  BY DEF Unanswered
<1> DEFINE rs == Patch(rows[t], i, ClassifyLost(c))
<1>3. /\ rs \in [Intents -> Stages]
      /\ \A j \in Intents : rs[j] # "none" => rows[t][j] # "none"
  BY <1>1, RowsAre DEF Stages, ClassifyLost
<1>4. rows' = [rows EXCEPT ![t] = rs]
  BY <1>2
<1> HIDE DEF rs
<1> DEFINE l == IF c THEN MarkedLog(i) ELSE log
<1>5. /\ l \in Log /\ l.text = log.text /\ l.owed \subseteq log.owed
      /\ l.blind = log.blind
      /\ c /\ Recorded(i) => \A o \in l.owed : log.text[o.intent] # log.text[i]
  BY MarkedLogIs DEF OutboxInv, Typed
<1>6. log' = [l EXCEPT !.faults = @ + 1]
  BY <1>2
<1> HIDE DEF l
<1>7. /\ log' \in Log /\ log'.text = l.text /\ log'.owed = l.owed
      /\ log'.blind = l.blind
  BY <1>5, <1>6, FaultIs
<1>8. wire' \in SUBSET Intents
  BY DEF Unanswered, OutboxInv, Typed
<1>9. /\ log' \in Log /\ log'.text = log.text /\ log'.owed \subseteq log.owed
      /\ log'.blind = log.blind
      /\ \/ store' = store
         \/ /\ MarkAdmitted(i)
            /\ Recorded(i) => \A o \in log'.owed : log.text[o.intent] # log.text[i]
  BY <1>2, <1>5, <1>7
<1>10. /\ flight' = [flight EXCEPT ![t] = NoFlight]
       /\ UNCHANGED <<page, pass, server, head, minted, tick>>
  BY DEF Unanswered
<1> QED
  BY <1>1, <1>3, <1>4, <1>8, <1>9, <1>10, GestureEnds

\* The record of a save takes the place of the one of its intent, of which it
\* keeps what backs a gesture.
LEMMA PutIs ==
    ASSUME OutboxInv, NEW p \in Rec, Put(p),
           Fresh(p) \/ \E q \in store : Kept(q, p),
           \A r \in store : (r.intent = p.intent /\ r.status = "saved") =>
               p.status = "saved" /\ p.text = r.text /\ r.created <= p.created
    PROVE  /\ store' \subseteq Rec /\ StoreStep /\ Leaves /\ p \in store'
           /\ \A q \in store' : q = p \/ q.created # Now
<1>1. store' = {x \in store : x.intent # p.intent} \cup {p}
  BY DEF Put
<1>2. store' \subseteq Rec /\ p \in store' /\ \A q \in store' : q = p \/ q \in store
  BY <1>1 DEF OutboxInv, Typed
<1>3. \A q \in store : Kept(q, q)
  BY DEF Kept
<1>4. Distinct(store)'
  BY <1>1 DEF OutboxInv, Read, Distinct
<1>5. StoreStep
  BY <1>2, <1>3, <1>4 DEF StoreStep
<1>6. \A q \in store : q.created \in Nat /\ q.created < Now /\ Now \in Nat
  BY NowIs, HeldIs, HeldTyped DEF OutboxInv, Rec
<1>7. Leaves
  <2> SUFFICES ASSUME NEW r \in store, r.status = "saved"
               PROVE  \E q \in store' : /\ q.status = "saved" /\ q.text = r.text
                                        /\ r.created <= q.created
    BY DEF Leaves
  <2>1. CASE r.intent = p.intent
    BY <1>2, <2>1
  <2>2. CASE r.intent # p.intent
    BY <1>1, <1>6, <2>2
  <2> QED
    BY <2>1, <2>2
<1> HIDE DEF Now
<1> QED
  BY <1>2, <1>5, <1>6, <1>7

\* A record of the gesture, as new as an earlier one or just made.
IsGesture(r, i, x, h) ==
    r \in Rec /\ r.intent = i /\ r.text = x /\ r.head = h /\ r.admittedAt = 0
IsAsOld(r, q) == r.created = q.created /\ r.born = q.born /\ r.status = q.status
IsNew(r) == r.created = Now /\ r.born = tick /\ r.status = "saved"

LEMMA GestureRecordIs ==
    ASSUME OutboxInv, NEW t \in Tabs, NEW i \in Intents, NEW x \in Texts,
           NEW h \in Heads
    PROVE  /\ IsGesture(GestureRecord(t, i, x, h, FALSE), i, x, h)
           /\ IsGesture(GestureRecord(t, i, x, h, TRUE), i, x, h)
           /\ Recorded(i) => IsAsOld(GestureRecord(t, i, x, h, FALSE), RecordOf(i))
           /\ ~Recorded(i) => IsNew(GestureRecord(t, i, x, h, FALSE))
           /\ IsNew(GestureRecord(t, i, x, h, TRUE))
<1>1. /\ page[t].client \in Nat /\ page[t].nonce \in Nat /\ tick \in Nat
      /\ Now \in Nat
  BY NowIs DEF OutboxInv, Typed, Page
<1>2. Recorded(i) => /\ RecordOf(i).created \in Nat /\ RecordOf(i).born \in Nat
                     /\ RecordOf(i).status \in Status
  BY RecordIs DEF OutboxInv, Typed, Rec
<1> HIDE DEF Now, RecordOf
<1>3. (h = NoHead) \in BOOLEAN
  OBVIOUS
<1>4. CASE Recorded(i)
  BY <1>1, <1>2, <1>3, <1>4 DEF GestureRecord, Rec, Status, IsGesture, IsAsOld, IsNew
<1>5. CASE ~Recorded(i)
  BY <1>1, <1>3, <1>5 DEF GestureRecord, Rec, Status, IsGesture, IsNew
<1> QED
  BY <1>4, <1>5

LEMMA AfterSaveIs ==
    ASSUME OutboxInv, NEW t \in Tabs, NEW f \in Flight, f.intent \in Intents,
           f.step = "prune", AfterSave(t, f)
    PROVE  /\ wire' \in SUBSET Intents /\ flight' \in [Tabs -> Flight]
           /\ \A u \in Tabs \ {t} : flight'[u] = flight[u]
           /\ \/ flight'[t] = NoFlight
              \/ /\ flight'[t].intent = f.intent /\ flight'[t].at = f.at
                 /\ flight'[t].todo = f.todo
                 /\ \/ flight'[t].step = "prune" /\ f.todo # {}
                    \/ flight'[t].step = "post" /\ f.todo = {}
<1>1. wire' \in SUBSET Intents
  BY DEF AfterSave, Sent, OutboxInv, Typed
<1>2. NoFlight \in Flight
  BY DEF NoFlight, Flight, Steps
<1> DEFINE g == [f EXCEPT !.step = "post"]
<1>3. /\ g \in Flight /\ g.intent = f.intent /\ g.at = f.at /\ g.todo = f.todo
      /\ g.step = "post"
  BY DEF Flight, Steps
<1>4. \/ flight' = [flight EXCEPT ![t] = f] /\ f.todo # {}
      \/ flight' = [flight EXCEPT ![t] = NoFlight]
      \/ flight' = [flight EXCEPT ![t] = g] /\ f.todo = {}
  BY DEF AfterSave
<1>5. flight \in [Tabs -> Flight]
  BY DEF OutboxInv, Typed
<1> HIDE DEF g
<1> QED
  BY <1>1, <1>2, <1>3, <1>4, <1>5

\* The banner of a tab clears or stays.
LEMMA ClearedIs ==
    ASSUME OutboxInv, NEW t \in Tabs, NEW f, NEW m \in {"unasked", "yes", "no"},
           page' = [page EXCEPT ![t].memo = m, ![t].failure = Cleared(@, f)]
           \/ page' = [page EXCEPT ![t].failure = Cleared(@, f)],
           minted' \in Nat, minted <= minted', head' = head
    PROVE  /\ page' \in [Tabs -> Page] /\ Facing'
           /\ \A u \in Tabs : Known(page[u].failure.intent)'
<1>1. /\ page \in [Tabs -> Page] /\ Facing /\ minted \in Nat
      /\ \A u \in Tabs : page[u].failure.intent <= minted
  BY OutboxAssumption DEF OutboxInv, Typed, Named, Known
<1>2. NoFailure \in Failure /\ NoFailure.intent = 0 /\ NoFailure.head = NoHead
  BY OutboxAssumption DEF NoFailure, Failure, NoIntent, NoHead, Heads
<1>3. /\ \A u \in Tabs \ {t} : page'[u] = page[u]
      /\ page'[t].failure \in {page[t].failure, NoFailure}
      /\ page' \in [Tabs -> Page]
  BY <1>1, <1>2 DEF Cleared, Page
<1>4. \A u \in Tabs : \/ page'[u].failure = page[u].failure
                      \/ page'[u].failure = NoFailure
  BY <1>3
<1>5. \A u \in Tabs : page[u].failure.intent \in Nat
  BY <1>1 DEF Page, Failure, Intents, NoIntent
<1>6. \A u \in Tabs : page'[u].failure.intent <= minted'
  BY <1>1, <1>2, <1>4, <1>5
<1>7. Facing'
  BY <1>1, <1>2, <1>4 DEF Facing, Reached
<1> QED
  BY <1>3, <1>6, <1>7 DEF Known

\* A save: the record is put, what it supersedes is about to be pruned.
LEMMA SaveStep ==
    ASSUME OutboxInv, NEW t \in Tabs, NEW p \in Rec, NEW f \in Flight,
           NEW i \in Intents, p.intent = i, f.intent = i, f.step = "prune",
           f.at = Now, Put(p), AfterSave(t, f),
           page' = [page EXCEPT ![t].failure = Cleared(@, f)],
           Fresh(p) \/ \E q \in store : Kept(q, p),
           \A r \in store : (r.intent = i /\ r.status = "saved") =>
               p.status = "saved" /\ p.text = r.text /\ r.created <= p.created,
           f.todo # {} => Fresh(p), f.todo \subseteq Superseded(t, i, p.text),
           minted' \in 0..MaxIntents, minted <= minted', i <= minted',
           log' \in Log, log'.text[i] = p.text, log'.blind = log.blind,
           \A j \in Intents : Known(j) => log'.text[j] = log.text[j],
           \/ log'.owed \subseteq log.owed
           \/ Fresh(p) /\ (log'.owed = log.owed \cup {Owe(i)}),
           rows' \in [Tabs -> [Intents -> Stages]],
           \A u \in Tabs : \A j \in Intents : rows'[u][j] # "none" => j <= minted',
           UNCHANGED <<pass, server, head, tick>>
    PROVE  GoodStep
<1>1. /\ store' \subseteq Rec /\ StoreStep /\ Leaves /\ p \in store'
      /\ \A q \in store' : q = p \/ q.created # Now
  BY PutIs
<1>2. /\ wire' \in SUBSET Intents /\ flight' \in [Tabs -> Flight]
      /\ \A u \in Tabs \ {t} : flight'[u] = flight[u]
      /\ \/ flight'[t] = NoFlight
         \/ /\ flight'[t].intent = i /\ flight'[t].at = Now
            /\ flight'[t].todo = f.todo
            /\ \/ flight'[t].step = "prune" /\ f.todo # {}
               \/ flight'[t].step = "post" /\ f.todo = {}
  BY AfterSaveIs
<1>3. /\ page' \in [Tabs -> Page] /\ Facing'
      /\ \A u \in Tabs : Known(page[u].failure.intent)'
  <2>1. minted' \in Nat
    BY OutboxAssumption
  <2> QED
    BY <2>1, ClearedIs
<1>4. Typed'
  BY <1>1, <1>2, <1>3 DEF OutboxInv, Typed
<1>5. Named'
  <2>1. \A s \in Slots : pass[s] # NoPass => pass[s].current <= minted'
    BY DEF OutboxInv, Typed, Named, Known, PassRec, Intents, NoIntent
  <2> QED
    BY <1>3, <2>1 DEF Named, Known
<1>6. FlightStep
  <2>1. CASE flight'[t] # NoFlight
    <3>1. \A j \in f.todo : /\ j # i
                            /\ \E q \in store : q.intent = j /\ q.text = log'.text[i]
      BY DEF Superseded
    <3>2. i # NoIntent
      BY DEF Intents, NoIntent
    <3>3. Taps(t)
      BY <1>1, <1>2, <2>1, <3>1, <3>2 DEF Taps
    <3> QED
      BY <1>2, <3>3 DEF FlightStep
  <2>2. CASE flight'[t] = NoFlight
    BY <1>2, <2>2 DEF FlightStep
  <2> QED
    BY <2>1, <2>2
<1>7. LogStep
  <2>1. \A o \in log'.owed : \/ o \in log.owed
                             \/ o.at = Now /\ \E q \in store' :
                                    Fresh(q) /\ q.intent = o.intent
    BY <1>1 DEF Owe
  <2> QED
    BY <2>1 DEF LogStep
<1>8. QuietPass /\ QuietWorld
  BY StaysWhole DEF OutboxInv
<1> QED
  BY <1>1, <1>3, <1>4, <1>5, <1>6, <1>7, <1>8, QuietPassStep
     DEF GoodStep, WorldStep, QuietWorld

LEMMA SaveGestureStep ==
    ASSUME OutboxInv, NEW t \in Tabs, NEW x \in Texts, NEW i \in Intents,
           SaveGesture(t, x, i)
    PROVE  GoodStep
<1> DEFINE f == [NoFlight EXCEPT !.step = "prune", !.intent = i, !.at = Now,
                     !.todo = IF Recorded(i) THEN {} ELSE Superseded(t, i, x)]
<1>1. PICK h \in {head, NoHead} :
        /\ Put(GestureRecord(t, i, x, h, FALSE))
        /\ rows' = [rows EXCEPT ![t] = Patch(TapRows(t, i), i, "admitting")]
        /\ log' = [log EXCEPT !.owed = IF Recorded(i) THEN @ ELSE @ \cup {Owe(i)},
                              !.text[i] = x,
                              !.faults = IF h = NoHead THEN @ + 1 ELSE @]
        /\ page' = [page EXCEPT ![t].failure = Cleared(@, f)]
        /\ AfterSave(t, f)
  BY DEF SaveGesture
<1>2. /\ Attempt(t, x, i) /\ UNCHANGED <<pass, server, head, tick>>
  BY DEF SaveGesture
<1> DEFINE p == GestureRecord(t, i, x, h, FALSE)
<1>3. h \in Heads /\ Reached(h) /\ Now \in Nat
  BY OutboxAssumption, NowIs DEF OutboxInv, Typed, Heads, NoHead, Reached
<1>4. /\ p \in Rec /\ p.intent = i /\ p.text = x /\ p.head = h /\ p.admittedAt = 0
      /\ Recorded(i) => IsAsOld(p, RecordOf(i))
      /\ ~Recorded(i) => IsNew(p)
  <2>1. /\ IsGesture(p, i, x, h)
        /\ Recorded(i) => IsAsOld(p, RecordOf(i))
        /\ ~Recorded(i) => IsNew(p)
    BY <1>3, GestureRecordIs
  <2> QED
    BY <2>1 DEF IsGesture
<1>5. Superseded(t, i, x) \subseteq Intents
  BY DEF Superseded, OutboxInv, Typed, Rec
<1>6. /\ f \in Flight /\ f.intent = i /\ f.step = "prune" /\ f.at = Now
      /\ f.todo = IF Recorded(i) THEN {} ELSE Superseded(t, i, x)
  BY <1>3, <1>5 DEF NoFlight, Flight, Steps
<1>7. /\ Put(p) /\ AfterSave(t, f) /\ page' = [page EXCEPT ![t].failure = Cleared(@, f)]
  BY <1>1
<1> HIDE DEF f, p, Now
<1>8. /\ minted' \in 0..MaxIntents /\ minted <= minted' /\ i <= minted'
      /\ Known(i) => log.text[i] = x
      /\ rows' \in [Tabs -> [Intents -> Stages]]
      /\ \A u \in Tabs : \A j \in Intents : rows'[u][j] # "none" => j <= minted'
  BY <1>1, <1>2, AttemptIs DEF Stages
<1>9. /\ log' \in Log /\ log'.text = [log.text EXCEPT ![i] = x]
      /\ log'.blind = log.blind
      /\ log'.owed = IF Recorded(i) THEN log.owed ELSE log.owed \cup {Owe(i)}
  <2>1. log \in Log /\ Owe(i) \in [intent : Intents, at : Nat]
    BY <1>3 DEF OutboxInv, Typed, Owe
  <2> DEFINE ow == IF Recorded(i) THEN log.owed ELSE log.owed \cup {Owe(i)}
             m == [log EXCEPT !.owed = ow]
             k == [m EXCEPT !.text[i] = x]
  <2>2. ow \in SUBSET [intent : Intents, at : Nat]
    BY <2>1 DEF Log
  <2> HIDE DEF ow
  <2>3. m \in Log /\ m.text = log.text /\ m.owed = ow /\ m.blind = log.blind
    BY <2>1, <2>2 DEF Log
  <2>4. log' = [k EXCEPT !.faults = IF h = NoHead THEN @ + 1 ELSE @]
    BY <1>1, <2>1 DEF Log, ow
  <2> HIDE DEF m
  <2>5. /\ k \in Log /\ k.text = [log.text EXCEPT ![i] = x] /\ k.owed = ow
        /\ k.blind = log.blind
    BY <2>3, TextIs
  <2> HIDE DEF k
  <2>6. /\ log' \in Log /\ log'.text = k.text /\ log'.owed = k.owed
        /\ log'.blind = k.blind
    BY <2>4, <2>5 DEF Log
  <2> QED
    BY <2>5, <2>6 DEF ow
<1>10. /\ log'.text[i] = x
       /\ \A j \in Intents : Known(j) => log'.text[j] = log.text[j]
  BY <1>8, <1>9 DEF OutboxInv, Typed, Log
<1>11. CASE Recorded(i)
  <2>1. /\ RecordOf(i) \in store /\ RecordOf(i).intent = i /\ RecordOf(i).text = x
        /\ RecordOf(i).created \in Nat
    BY <1>8, <1>11, RecordIs DEF OutboxInv, Typed, Rec
  <2> HIDE DEF RecordOf
  <2>2. Kept(RecordOf(i), p)
    BY <1>3, <1>4, <1>11, <2>1 DEF Kept, IsAsOld
  <2>3. \A r \in store : r.intent = i => r = RecordOf(i)
    BY <2>1 DEF OutboxInv, Read, Distinct
  <2>4. \A r \in store : (r.intent = i /\ r.status = "saved") =>
            p.status = "saved" /\ p.text = r.text /\ r.created <= p.created
    BY <1>4, <1>11, <2>1, <2>3 DEF IsAsOld
  <2>5. f.todo = {} /\ log'.owed \subseteq log.owed
    BY <1>6, <1>9, <1>11
  <2>6. p.text = x
    BY <1>4
  <2> QED
    BY <1>2, <1>4, <1>6, <1>7, <1>8, <1>9, <1>10, <2>1, <2>2, <2>4, <2>5, <2>6, SaveStep
<1>12. CASE ~Recorded(i)
  <2>1. Fresh(p)
    BY <1>3, <1>4, <1>8, <1>10, <1>12 DEF Fresh, IsNew
  <2>2. \A r \in store : r.intent # i
    BY <1>12 DEF Recorded
  <2>3. f.todo \subseteq Superseded(t, i, p.text)
        /\ log'.owed = log.owed \cup {Owe(i)}
    BY <1>4, <1>6, <1>9, <1>12
  <2> QED
    BY <1>2, <1>4, <1>6, <1>7, <1>8, <1>9, <1>10, <2>1, <2>2, <2>3, SaveStep
<1> QED
  BY <1>11, <1>12

LEMMA RetryFailedSaveStep ==
    ASSUME OutboxInv, NEW t \in Tabs, RetryFailedSave(t) PROVE GoodStep
<1> DEFINE b == page[t].failure
           i == b.intent
           x == log.text[i]
           r == GestureRecord(t, i, x, b.head, TRUE)
           p == [r EXCEPT !.created = Now, !.born = tick]
           f == [step |-> "prune", intent |-> i, retrySave |-> TRUE,
                 todo |-> Superseded(t, i, x), at |-> Now]
<1>1. /\ i \in Intents /\ Known(i) /\ x \in Texts /\ b.head \in Heads
      /\ Reached(b.head) /\ Now \in Nat /\ tick \in Nat
  BY NowIs
     DEF RetryFailedSave, OutboxInv, Typed, Page, Failure, Log, Named, Facing
<1>2. /\ r \in Rec /\ r.intent = i /\ r.text = x /\ r.head = b.head
      /\ r.admittedAt = 0 /\ r.status = "saved"
  <2>1. IsGesture(r, i, x, b.head) /\ IsNew(r)
    BY <1>1, GestureRecordIs
  <2> QED
    BY <2>1 DEF IsGesture, IsNew
<1>3. /\ Put(p) /\ AfterSave(t, f) /\ page' = [page EXCEPT ![t].failure = Cleared(@, f)]
      /\ log' = [log EXCEPT !.owed = @ \cup {Owe(i)}]
      /\ UNCHANGED <<rows, pass, server, head, minted, tick>>
  BY DEF RetryFailedSave
<1>4. Superseded(t, i, x) \subseteq Intents
  BY DEF Superseded, OutboxInv, Typed, Rec
<1>5. /\ f \in Flight /\ f.intent = i /\ f.step = "prune" /\ f.at = Now
      /\ f.todo = Superseded(t, i, x)
  BY <1>1, <1>4 DEF Flight, Steps
<1>6. Owe(i) \in [intent : Intents, at : Nat]
  BY <1>1 DEF Owe
<1>7. /\ log' \in Log /\ log'.text = log.text /\ log'.blind = log.blind
      /\ log'.owed = log.owed \cup {Owe(i)}
  BY <1>3, <1>6 DEF OutboxInv, Typed, Log
<1> HIDE DEF r, f, Now
<1>8. /\ p \in Rec /\ p.intent = i /\ p.text = x /\ p.created = Now /\ p.born = tick
      /\ p.admittedAt = 0 /\ p.status = "saved" /\ p.head = b.head
  BY <1>1, <1>2 DEF Rec
<1> HIDE DEF p
<1>9. Fresh(p)
  BY <1>1, <1>3, <1>7, <1>8 DEF Fresh, Known
<1>10. \A q \in store : q.intent = i => q.text = x /\ q.created <= p.created
  <2> SUFFICES ASSUME NEW q \in store, q.intent = i
               PROVE  q.text = x /\ q.created <= p.created
    OBVIOUS
  <2>1. q \in Held /\ q.created \in Nat
    BY HeldIs DEF OutboxInv, Typed, Rec
  <2>2. q.created < Now
    BY <2>1, NowIs DEF OutboxInv
  <2> QED
    BY <1>1, <1>8, <2>1, <2>2 DEF OutboxInv, Texted, TextOf
<1>11. /\ minted' \in 0..MaxIntents /\ minted <= minted' /\ i <= minted'
       /\ rows' \in [Tabs -> [Intents -> Stages]]
       /\ \A u \in Tabs : \A j \in Intents : rows'[u][j] # "none" => j <= minted'
  BY <1>1, <1>3 DEF OutboxInv, Typed, Named, Known
<1>12. /\ log'.text[i] = p.text
       /\ \A j \in Intents : Known(j) => log'.text[j] = log.text[j]
       /\ f.todo \subseteq Superseded(t, i, p.text)
       /\ UNCHANGED <<pass, server, head, tick>>
  BY <1>3, <1>5, <1>7, <1>8
<1>13. \A q \in store : (q.intent = i /\ q.status = "saved") =>
           p.status = "saved" /\ p.text = q.text /\ q.created <= p.created
  BY <1>8, <1>10
<1> QED
  BY <1>1, <1>3, <1>5, <1>7, <1>8, <1>9, <1>11, <1>12, <1>13, SaveStep

\* A delete by intent id: what it takes backs nobody, or another record does.
LEMMA PruneOneStep ==
    ASSUME OutboxInv, NEW t \in Tabs, NEW i \in Intents, PruneOne(t, i)
    PROVE  GoodStep
<1> DEFINE f == [flight[t] EXCEPT !.todo = @ \ {i}]
           x == log.text[flight[t].intent]
<1>1. /\ flight[t] \in Flight /\ flight[t].step = "prune" /\ i \in flight[t].todo
      /\ flight[t].intent \in Intents /\ Known(i) /\ i # flight[t].intent
      /\ log.text[i] = x
  BY DEF PruneOne, OutboxInv, Typed, Texted, Flight
<1>2. /\ f \in Flight /\ f.step = "prune" /\ f.intent = flight[t].intent
      /\ f.at = flight[t].at /\ f.todo \subseteq flight[t].todo
  BY <1>1 DEF Flight
<1>3. /\ AfterSave(t, f)
      /\ \E m \in {"unasked", "yes", "no"} :
            page' = [page EXCEPT ![t].memo = m, ![t].failure = Cleared(@, f)]
      /\ UNCHANGED <<rows, pass, server, head, tick, minted>>
  <2>1. page[t].memo \in {"unasked", "yes", "no"}
    BY DEF OutboxInv, Typed, Page
  <2>2. Claim(t) \in {"unasked", "yes", "no"}
    BY <2>1 DEF Claim
  <2>3. PICK m \in {"unasked", "yes", "no"} :
           page' = [page EXCEPT ![t].memo = m, ![t].failure = Cleared(@, f)]
    BY <2>1, <2>2 DEF PruneOne
  <2> QED
    BY <2>3 DEF PruneOne
<1>4. \/ /\ store' = {r \in store : r.intent # i}
         /\ log' = Blind(log, i, flight[t].at)
      \/ store' = store /\ log' = log
  BY DEF PruneOne, Delete
<1> HIDE DEF f
<1>5. /\ log \in Log /\ log' \in Log /\ log'.text = log.text /\ log'.owed = log.owed
      /\ log.blind \subseteq log'.blind
      /\ store' # store /\ Resaved(i, flight[t].at) => log.text[i] \in log'.blind
  BY <1>1, <1>4, BlindIs DEF OutboxInv, Typed
<1>6. /\ wire' \in SUBSET Intents /\ flight' \in [Tabs -> Flight]
      /\ \A u \in Tabs \ {t} : flight'[u] = flight[u]
      /\ \/ flight'[t] = NoFlight
         \/ /\ flight'[t].intent = f.intent /\ flight'[t].at = f.at
            /\ flight'[t].todo = f.todo
            /\ \/ flight'[t].step = "prune" /\ f.todo # {}
               \/ flight'[t].step = "post" /\ f.todo = {}
  BY <1>1, <1>2, <1>3, AfterSaveIs
<1>7. FlightStep
  <2>1. flight'[t] = NoFlight \/ Scans(t)
    BY <1>1, <1>2, <1>6 DEF Scans
  <2> QED
    BY <1>6, <2>1 DEF FlightStep
<1>8. /\ page' \in [Tabs -> Page] /\ Facing'
      /\ \A u \in Tabs : Known(page[u].failure.intent)'
  <2>1. minted \in Nat /\ minted' \in Nat /\ minted <= minted' /\ head' = head
    BY <1>3 DEF OutboxInv, Typed
  <2>2. PICK m \in {"unasked", "yes", "no"} :
           page' = [page EXCEPT ![t].memo = m, ![t].failure = Cleared(@, f)]
    BY <1>3
  <2> QED
    BY <2>1, <2>2, ClearedIs
<1>9. Typed' /\ Named'
  <2>1. Typed'
    BY <1>3, <1>4, <1>5, <1>6, <1>8 DEF OutboxInv, Typed
  <2> QED
    BY <1>3, <1>8, <2>1 DEF OutboxInv, Named, Known
<1>10. Leaves
  <2> SUFFICES ASSUME NEW o \in log.owed, NEW r \in store, o \in log'.owed, ~Excused(o)',
                      r.status = "saved", r.text = TextOf(o), o.at <= r.created,
                      store' = {q \in store : q.intent # i}, r.intent = i, store' # store
               PROVE  \E p \in store' : /\ p.status = "saved" /\ p.text = r.text
                                        /\ r.created <= p.created
    <3>1. \A r \in store : r.created <= r.created
      BY DEF OutboxInv, Typed, Rec
    <3> QED
      BY <1>4, <3>1 DEF Leaves
  <2>1. /\ TextOf(o) = x /\ o.at \in Nat /\ o.intent \in Intents
        /\ r.created \in Nat /\ flight[t].at \in Nat /\ Texted
    <3>1. r \in Held
      BY HeldIs
    <3> QED
      BY <1>1, <3>1 DEF OutboxInv, Texted, TextOf, Typed, Log, Rec, Flight
  <2>2. ~Excused(o) /\ TextOf(o) \notin log'.blind
    BY <1>3, <1>5 DEF Excused, TextOf
  <2>3. r.created <= flight[t].at /\ o.at <= flight[t].at
    <3>1. ~Resaved(i, flight[t].at)
      BY <1>1, <1>5, <2>1, <2>2
    <3>2. ~(r.created > flight[t].at)
      BY <3>1 DEF Resaved
    <3> QED
      BY <2>1, <3>2
  <2>4. PICK p \in store : p.status = "saved" /\ p.text = x /\ flight[t].at <= p.created
    BY <1>1, <2>1, <2>2, <2>3 DEF OutboxInv, ScanBacked, Waits
  <2>5. p.created \in Nat
    BY DEF OutboxInv, Typed, Rec
  <2>6. p.intent # i
    <3> SUFFICES ASSUME p.intent = i PROVE FALSE
      OBVIOUS
    <3>1. p = r
      BY DEF OutboxInv, Read, Distinct
    <3>2. p.created = flight[t].at
      BY <2>1, <2>3, <2>4, <3>1
    <3> QED
      BY <1>1, <3>2 DEF OutboxInv, Sole
  <2> QED
    BY <2>1, <2>3, <2>4, <2>5, <2>6
<1>11. StoreStep /\ QuietPass /\ QuietWorld
  <2>1. store' \subseteq store
    BY <1>4
  <2> QED
    BY <1>3, <2>1, DropStore, StaysWhole DEF OutboxInv
<1>12. LogStep
  BY <1>3, <1>5, <1>11, QuietLogStep DEF QuietLog, OutboxInv, Typed
<1> QED
  BY <1>7, <1>8, <1>9, <1>10, <1>11, <1>12, QuietPassStep
     DEF GoodStep, WorldStep, QuietWorld

-----------------------------------------------------------------------------
(* The reconcile passes.                                                   *)

LEMMA PassStartStep ==
    ASSUME OutboxInv, NEW s \in Slots, NEW t \in Tabs, PassStart(s, t) PROVE GoodStep
<1> DEFINE p == [tab |-> t, now |-> tick, todo |-> store,
                 admitted |-> {r \in store : r.status = "admitted"},
                 seen |-> store, answered |-> FALSE, list |-> [i \in {} |-> "none"],
                 null |-> FALSE, texts |-> {}, current |-> NoIntent]
<1>1. [i \in {} |-> "none"] \in Lists
  <2>1. [i \in {} |-> "none"] \in [{} -> Server] /\ {} \in SUBSET Intents
    OBVIOUS
  <2> QED
    BY <2>1 DEF Lists
<1>2. store \in SUBSET Rec /\ tick \in Nat
  BY DEF OutboxInv, Typed
<1>3. /\ p \in PassRec /\ p.seen = store /\ p.todo = store
      /\ p.admitted \subseteq store /\ p.current = NoIntent
  BY <1>1, <1>2 DEF PassRec
<1>4. /\ pass' = [pass EXCEPT ![s] = p] /\ pass[s] = NoPass
      /\ log' = [log EXCEPT !.passes = @ + 1,
                            !.faults = IF log.passes = 0 THEN @ ELSE @ + 1]
      /\ UNCHANGED <<store, page, rows, flight, wire, server, head, tick, minted>>
  BY DEF PassStart
<1> HIDE DEF p
<1>5. /\ log' \in Log /\ log'.text = log.text /\ log'.owed = log.owed
      /\ log'.blind = log.blind
  <2> DEFINE m == [log EXCEPT !.passes = @ + 1]
  <2>1. log \in Log
    BY DEF OutboxInv, Typed
  <2>2. /\ m \in Log /\ m.text = log.text /\ m.owed = log.owed /\ m.blind = log.blind
    BY <2>1 DEF Log
  <2>3. log' = [m EXCEPT !.faults = IF log.passes = 0 THEN @ ELSE @ + 1]
    BY <1>4, <2>1 DEF Log
  <2> HIDE DEF m
  <2> QED
    BY <2>2, <2>3 DEF Log
<1>6. pass \in [Slots -> PassRec \cup {NoPass}]
  BY DEF OutboxInv, Typed
<1>7. /\ pass' \in [Slots -> PassRec \cup {NoPass}] /\ pass'[s] = p
      /\ \A u \in Slots : u # s => pass'[u] = pass[u]
  BY <1>3, <1>4, <1>6
<1>8. PassStep
  <2>1. Starts(s)
    BY <1>3, <1>4, <1>7 DEF Starts
  <2>2. \A u \in Slots : (u # s /\ pass'[u] # NoPass) => GoesOn(u)
    BY <1>7 DEF GoesOn
  <2> QED
    BY <2>1, <2>2 DEF PassStep
<1>9. Typed'
  BY <1>4, <1>5, <1>7 DEF OutboxInv, Typed
<1>10. Named' /\ Facing'
  <2>1. 0 <= minted
    BY DEF OutboxInv, Typed
  <2>2. \A u \in Slots : pass'[u] # NoPass => pass'[u].current <= minted
    BY <1>3, <1>7, <2>1 DEF OutboxInv, Named, Known, NoIntent
  <2> QED
    BY <1>4, <2>2 DEF OutboxInv, Named, Known, Facing, Reached
<1>11. QuietLog /\ QuietWorld
  BY <1>4, <1>5, StaysWhole DEF QuietLog, OutboxInv, Typed
<1> QED
  BY <1>4, <1>8, <1>9, <1>10, <1>11, DropStore, KeepLeaves, StaysWhole,
     QuietFlightStep, QuietLogStep DEF GoodStep, WorldStep, QuietWorld

LEMMA PassListStep == ASSUME OutboxInv, NEW s \in Slots, PassList(s) PROVE GoodStep
<1> DEFINE list == [i \in {j \in Intents : server[j] \in {"queued", "sent"}} |-> server[i]]
           a == [pass[s] EXCEPT !.answered = TRUE, !.list = list]
           n == [pass[s] EXCEPT !.answered = TRUE, !.null = TRUE]
<1>0. /\ pass[s] # NoPass /\ pass \in [Slots -> PassRec \cup {NoPass}]
      /\ pass[s] \in PassRec /\ server \in [Intents -> Server]
  BY DEF PassList, Live, OutboxInv, Typed
<1>1. list \in Lists
  <2> DEFINE D == {j \in Intents : server[j] \in {"queued", "sent"}}
  <2>1. list \in [D -> Server] /\ D \in SUBSET Intents
    BY <1>0
  <2> QED
    BY <2>1 DEF Lists
<1> HIDE DEF list
<1>2. /\ a \in PassRec /\ a.seen = pass[s].seen /\ a.todo = pass[s].todo
      /\ a.admitted = pass[s].admitted /\ a.texts = pass[s].texts
      /\ a.now = pass[s].now /\ a.current = pass[s].current
  BY <1>0, <1>1 DEF PassRec
<1>3. /\ n \in PassRec /\ n.seen = pass[s].seen /\ n.todo = pass[s].todo
      /\ n.admitted = pass[s].admitted /\ n.texts = pass[s].texts
      /\ n.now = pass[s].now /\ n.current = pass[s].current
  BY <1>0 DEF PassRec
<1>4. /\ pass' = [pass EXCEPT ![s] = a] \/ pass' = [pass EXCEPT ![s] = n]
      /\ log' = log \/ log' = [log EXCEPT !.faults = @ + 1]
      /\ UNCHANGED <<store, page, rows, flight, wire, server, head, tick, minted>>
  BY DEF PassList, list
<1> HIDE DEF a, n
<1>5. PICK p \in PassRec :
         /\ p.seen = pass[s].seen /\ p.todo = pass[s].todo
         /\ p.admitted = pass[s].admitted /\ p.texts = pass[s].texts
         /\ p.now = pass[s].now /\ p.current = pass[s].current
         /\ pass' = [pass EXCEPT ![s] = p]
  BY <1>2, <1>3, <1>4
<1>6. /\ pass' \in [Slots -> PassRec \cup {NoPass}] /\ pass'[s] = p
      /\ \A u \in Slots : u # s => pass'[u] = pass[u]
  BY <1>0, <1>5
<1>7. PassStep
  <2>1. GoesOn(s)
    BY <1>0, <1>5, <1>6 DEF GoesOn
  <2>2. \A u \in Slots : (u # s /\ pass'[u] # NoPass) => GoesOn(u)
    BY <1>6 DEF GoesOn
  <2> QED
    BY <2>1, <2>2 DEF PassStep
<1>8. /\ log' \in Log /\ log'.text = log.text /\ log'.owed = log.owed
      /\ log'.blind = log.blind
  BY <1>4, FaultIs DEF OutboxInv, Typed
<1>9. Typed'
  BY <1>4, <1>6, <1>8 DEF OutboxInv, Typed
<1>10. Named' /\ Facing'
  BY <1>0, <1>4, <1>5, <1>6 DEF OutboxInv, Named, Known, Facing, Reached
<1>11. QuietLog /\ QuietWorld
  BY <1>4, <1>8, StaysWhole DEF QuietLog, OutboxInv, Typed
<1> QED
  BY <1>4, <1>7, <1>9, <1>10, <1>11, DropStore, KeepLeaves, StaysWhole,
     QuietFlightStep, QuietLogStep DEF GoodStep, WorldStep, QuietWorld

LEMMA TurnIs ==
    ASSUME OutboxInv, NEW s \in Slots, NEW r, Turn(s, r)
    PROVE  /\ pass[s] \in PassRec /\ pass[s] # NoPass /\ pass[s].tab \in Tabs
           /\ r \in pass[s].todo /\ r \in pass[s].seen /\ r \in Rec /\ r \in Held
           /\ r.intent \in Intents /\ Known(r.intent) /\ r.text = log.text[r.intent]
           /\ \A q \in store : q.intent = r.intent => q.text = r.text
<1>1. pass[s] # NoPass /\ pass[s] \in PassRec /\ r \in pass[s].todo
  BY DEF Turn, Live, OutboxInv, Typed
<1>2. r \in pass[s].seen /\ r \in Rec /\ pass[s].tab \in Tabs
  BY <1>1 DEF OutboxInv, Read, PassRec
<1>3. r \in Held /\ \A q \in store : q \in Held
  BY <1>1, <1>2, HeldIs
<1>4. r.intent \in Intents
  BY <1>2 DEF Rec
<1> QED
  BY <1>1, <1>2, <1>3, <1>4 DEF OutboxInv, Texted, TextOf

\* What a pass becomes that has looked at r: with a text claimed, perhaps, and a
\* re-admission under way.
LEMMA LookedIs ==
    ASSUME OutboxInv, NEW s \in Slots, NEW r, Turn(s, r)
    PROVE  LET p == Without(s, r)
               c == [p EXCEPT !.texts = @ \cup {r.text}]
               a == [p EXCEPT !.texts = @ \cup {r.text}, !.current = r.intent] IN
           /\ \A k \in {p, c, a} :
                 /\ k \in PassRec /\ k.seen = pass[s].seen
                 /\ k.admitted = pass[s].admitted /\ k.now = pass[s].now
                 /\ k.todo = pass[s].todo \ {r} /\ pass[s].texts \subseteq k.texts
           /\ p.current = pass[s].current /\ c.current = pass[s].current
           /\ a.current = r.intent /\ r.text \in c.texts /\ r.text \in a.texts
<1>1. pass[s] \in PassRec /\ r \in Rec
  BY TurnIs
<1> DEFINE p == Without(s, r)
           c == [p EXCEPT !.texts = @ \cup {r.text}]
           a == [c EXCEPT !.current = r.intent]
<1>2. /\ p \in PassRec /\ p.seen = pass[s].seen /\ p.admitted = pass[s].admitted
      /\ p.now = pass[s].now /\ p.todo = pass[s].todo \ {r}
      /\ p.texts = pass[s].texts /\ p.current = pass[s].current
  BY <1>1 DEF Without, PassRec
<1> HIDE DEF p
<1>3. /\ c \in PassRec /\ c.seen = p.seen /\ c.admitted = p.admitted
      /\ c.now = p.now /\ c.todo = p.todo /\ c.texts = p.texts \cup {r.text}
      /\ c.current = p.current
  BY <1>1, <1>2 DEF PassRec, Rec
<1> HIDE DEF c
<1>4. /\ a \in PassRec /\ a.seen = c.seen /\ a.admitted = c.admitted
      /\ a.now = c.now /\ a.todo = c.todo /\ a.texts = c.texts
      /\ a.current = r.intent
  BY <1>1, <1>3 DEF PassRec, Rec
<1> HIDE DEF a
<1>5. /\ \A k \in {p, c, a} :
            /\ k \in PassRec /\ k.seen = pass[s].seen
            /\ k.admitted = pass[s].admitted /\ k.now = pass[s].now
            /\ k.todo = pass[s].todo \ {r} /\ pass[s].texts \subseteq k.texts
      /\ p.current = pass[s].current /\ c.current = pass[s].current
      /\ a.current = r.intent /\ r.text \in c.texts /\ r.text \in a.texts
  BY <1>2, <1>3, <1>4
<1> QED
  BY <1>5 DEF p, c, a

\* A pass has looked at r and goes on to k: what it saw waiting, no younger twin
\* of it may pass.
LEMMA TurnEnds ==
    ASSUME OutboxInv, NEW s \in Slots, NEW r, Turn(s, r), NEW k \in PassRec,
           pass' = PassIs(s, k), k.seen = pass[s].seen,
           k.admitted = pass[s].admitted, k.now = pass[s].now,
           k.todo = pass[s].todo \ {r}, pass[s].texts \subseteq k.texts,
           \/ k.current \in {pass[s].current, NoIntent}
           \/ PassPost(s, r) /\ k.current = r.intent,
           r.status = "saved" =>
               r.text \in k.texts \/ Young(s, r) \/ WaitsForTap(r) \/ Past(r)',
           head' = head
    PROVE  /\ PassStep /\ pass' \in [Slots -> PassRec \cup {NoPass}]
           /\ \A u \in Slots : pass'[u] # NoPass => Known(pass'[u].current)
<1>1. pass[s] # NoPass /\ r \in pass[s].todo
  BY TurnIs
<1>2. ASSUME pass'[s] = k, NEW q \in pass[s].todo, q \notin k.todo, q.status = "saved"
      PROVE  Overtaken(s, q)'
  <2>1. q = r
    BY <1>2
  <2>2. CASE r.text \in k.texts \/ Past(r)'
    BY <1>2, <2>1, <2>2 DEF Overtaken
  <2>3. CASE Young(s, r)
    BY <1>2, <2>1, <2>3 DEF Overtaken, Young
  <2>4. CASE WaitsForTap(r)
    BY <2>1, <2>4 DEF Overtaken, WaitsForTap, HeadIsStale
  <2> QED
    BY <1>2, <2>1, <2>2, <2>3, <2>4
<1>3. k.todo \subseteq pass[s].todo
  OBVIOUS
<1>4. \/ k.current \in {pass[s].current, NoIntent}
      \/ \E q \in pass[s].todo : PassPost(s, q) /\ k.current = q.intent
  BY <1>1
<1> QED
  BY <1>1, <1>2, <1>3, <1>4, PassGoesOn

\* A turn that leaves the world, and what waits to be sent, as it is.
LEMMA TurnStep ==
    ASSUME OutboxInv, PassStep, pass' \in [Slots -> PassRec \cup {NoPass}],
           \A u \in Slots : pass'[u] # NoPass => Known(pass'[u].current),
           store' \subseteq Rec, StoreStep, Leaves, wire' \in SUBSET Intents,
           rows' \in [Tabs -> [Intents -> Stages]],
           \A u \in Tabs : \A j \in Intents : rows'[u][j] # "none" => j <= minted',
           log' \in Log, log'.text = log.text, log'.owed \subseteq log.owed,
           log.blind \subseteq log'.blind,
           UNCHANGED <<page, flight, server, head, tick, minted>>
    PROVE  GoodStep
<1>1. Typed'
  BY DEF OutboxInv, Typed
<1>2. Named' /\ Facing'
  BY DEF OutboxInv, Named, Known, Facing, Reached
<1>3. QuietLog
  BY DEF QuietLog, OutboxInv, Typed
<1>4. QuietFlight /\ QuietWorld
  BY StaysWhole DEF OutboxInv
<1> QED
  BY <1>1, <1>2, <1>3, <1>4, QuietFlightStep, QuietLogStep
     DEF GoodStep, WorldStep, QuietWorld

LEMMA SameRows ==
    ASSUME OutboxInv, UNCHANGED <<rows, minted>>
    PROVE  /\ rows' \in [Tabs -> [Intents -> Stages]]
           /\ \A u \in Tabs : \A j \in Intents : rows'[u][j] # "none" => j <= minted'
BY DEF OutboxInv, Typed, Named, Known

LEMMA DeletePasses ==
    ASSUME OutboxInv, NEW s \in Slots, NEW r, Turn(s, r), Delete(r.intent),
           pass' = Looked(s, r), log' \in Log, log'.text = log.text,
           log'.owed \subseteq log.owed, log.blind \subseteq log'.blind,
           UNCHANGED <<page, rows, flight, wire, server, head, tick, minted>>,
           \A o \in log'.owed, k \in store :
               ~ /\ o \in log.owed /\ ~Excused(o)'
                 /\ k.intent = r.intent /\ k.status = "saved" /\ k.text = TextOf(o)
                 /\ \A q \in Held : q.text = k.text => q.admittedAt < k.created
    PROVE  GoodStep
<1>1. store' = {x \in store : x.intent # r.intent}
  BY DEF Delete
<1>2. Past(r)'
  BY <1>1 DEF Past
<1> DEFINE k == Without(s, r)
<1>3. /\ k \in PassRec /\ k.seen = pass[s].seen /\ k.admitted = pass[s].admitted
      /\ k.now = pass[s].now /\ k.todo = pass[s].todo \ {r}
      /\ pass[s].texts \subseteq k.texts /\ k.current = pass[s].current
  BY LookedIs
<1>4. pass' = PassIs(s, k)
  BY DEF Looked
<1> HIDE DEF k
<1>5. /\ PassStep /\ pass' \in [Slots -> PassRec \cup {NoPass}]
      /\ \A u \in Slots : pass'[u] # NoPass => Known(pass'[u].current)
  BY <1>2, <1>3, <1>4, TurnEnds
<1>6. Leaves
  <2> SUFFICES ASSUME NEW o \in log.owed, NEW q \in store, o \in log'.owed,
                      ~Excused(o)', q.status = "saved", q.text = TextOf(o),
                      \A h \in Held : h.text = q.text => h.admittedAt < q.created
               PROVE  q \in store' /\ q.created <= q.created
    BY DEF Leaves
  <2>1. q.intent # r.intent
    OBVIOUS
  <2> QED
    BY <1>1, <2>1 DEF OutboxInv, Typed, Rec
<1>7. store' \subseteq Rec /\ StoreStep /\ wire' \in SUBSET Intents
  <2>1. store' \subseteq store
    BY <1>1
  <2> QED
    BY <2>1, DropStore DEF OutboxInv, Typed
<1> QED
  BY <1>5, <1>6, <1>7, SameRows, TurnStep

LEMMA PassDeleteStep ==
    ASSUME OutboxInv, NEW s \in Slots, NEW r, PassDelete(s, r) PROVE GoodStep
<1>1. /\ Turn(s, r) /\ Delete(r.intent) /\ pass' = Looked(s, r)
      /\ UNCHANGED <<page, rows, flight, wire, server, head, tick, minted>>
      /\ \/ Old(s, r)
         \/ ~Old(s, r) /\ r.status = "admitted"
         \/ ~Old(s, r) /\ r.status = "saved" /\ Residual(s, r)
  BY DEF PassDelete
<1>2. /\ r.intent \in Intents /\ r.text = log.text[r.intent] /\ r.created \in Nat
      /\ r \in pass[s].seen /\ pass[s] # NoPass
      /\ \A q \in store : q.intent = r.intent => q.text = r.text
  BY <1>1, TurnIs DEF Rec
<1> DEFINE l == IF Old(s, r) THEN Settled({r.text}) ELSE log
<1>3. /\ log \in Log /\ l \in Log /\ l.text = log.text /\ l.blind = log.blind
      /\ l.owed \subseteq log.owed
      /\ Old(s, r) => \A o \in l.owed : log.text[o.intent] # r.text
  BY SettledIs DEF OutboxInv, Typed
<1>4. log' = Blind(l, r.intent, r.created)
  BY DEF PassDelete
<1> HIDE DEF l
<1>5. /\ log' \in Log /\ log'.text = log.text /\ log'.owed = l.owed
      /\ log.blind \subseteq log'.blind
      /\ Resaved(r.intent, r.created) => log.text[r.intent] \in log'.blind
  BY <1>2, <1>3, <1>4, BlindIs
<1>6. ASSUME NEW o \in log'.owed, NEW k \in store, o \in log.owed, ~Excused(o)',
             k.intent = r.intent, k.status = "saved", k.text = TextOf(o),
             \A q \in Held : q.text = k.text => q.admittedAt < k.created
      PROVE  FALSE
  <2>1. k.text = r.text /\ log.text[o.intent] = r.text
    BY <1>2, <1>6 DEF TextOf
  <2>2. ~Old(s, r)
    BY <1>3, <1>5, <2>1
  <2>3. log.text[r.intent] \notin log'.blind
    BY <1>2, <1>5, <1>6, <2>1 DEF Excused, TextOf
  <2>4. k.created \in Nat /\ ~(k.created > r.created)
    BY <1>5, <1>6, <2>3 DEF Resaved, OutboxInv, Typed, Rec
  <2>5. /\ r.created <= k.created
        /\ (r.created = k.created /\ r.status = "admitted") => k.status = "admitted"
    BY <1>2, <1>6 DEF OutboxInv, Grown, GrownFrom
  <2>6. r.created = k.created
    BY <1>2, <2>4, <2>5
  <2>7. Residual(s, r)
    BY <1>1, <1>6, <2>2, <2>5, <2>6
  <2>8. PICK q \in pass[s].admitted : q.text = r.text /\ r.created < q.admittedAt
    BY <2>7 DEF Residual
  <2>9. q \in Held /\ q.admittedAt \in Nat
    BY <1>2, HeldIs, HeldTyped DEF OutboxInv, Read, Rec
  <2> QED
    BY <1>2, <1>6, <2>1, <2>6, <2>8, <2>9
<1> QED
  BY <1>1, <1>3, <1>5, <1>6, DeletePasses

LEMMA PassSuppressStep ==
    ASSUME OutboxInv, NEW s \in Slots, NEW r, PassSuppress(s, r) PROVE GoodStep
<1>1. /\ Turn(s, r) /\ Delete(r.intent) /\ pass' = Looked(s, r)
      /\ UNCHANGED <<page, rows, flight, wire, server, head, tick, minted>>
      /\ log' = Settled({r.text})
  BY DEF PassSuppress
<1>2. /\ log' \in Log /\ log'.text = log.text /\ log'.blind = log.blind
      /\ log'.owed \subseteq log.owed
      /\ \A o \in log'.owed : log.text[o.intent] # r.text
  BY <1>1, SettledIs DEF OutboxInv, Typed
<1>3. \A k \in store : k.intent = r.intent => k.text = r.text
  BY <1>1, TurnIs
<1> QED
  BY <1>1, <1>2, <1>3, DeletePasses DEF TextOf

LEMMA PassConfirmStep ==
    ASSUME OutboxInv, NEW s \in Slots, NEW r, PassConfirm(s, r) PROVE GoodStep
<1> DEFINE i == r.intent
           k == Without(s, r)
<1>1. /\ Turn(s, r) /\ MarkAdmitted(i) /\ log' = MarkedLog(i) /\ pass' = PassIs(s, k)
      /\ UNCHANGED <<page, rows, flight, wire, server, head, minted, tick>>
  BY DEF PassConfirm, Looked
<1>2. i \in Intents
  BY <1>1, TurnIs
<1>3. /\ log' \in Log /\ log'.text = log.text /\ log'.owed \subseteq log.owed
      /\ log'.blind = log.blind
      /\ Recorded(i) => \A o \in log'.owed : log.text[o.intent] # log.text[i]
  BY <1>1, MarkedLogIs
<1>4. /\ store' \subseteq Rec /\ StoreStep /\ Leaves
      /\ \A p \in store' : p.intent = i => p.status = "admitted"
  BY <1>1, <1>2, <1>3, MarkIs
<1>5. Past(r)'
  BY <1>4 DEF Past
<1>6. /\ k \in PassRec /\ k.seen = pass[s].seen /\ k.admitted = pass[s].admitted
      /\ k.now = pass[s].now /\ k.todo = pass[s].todo \ {r}
      /\ pass[s].texts \subseteq k.texts /\ k.current = pass[s].current
  BY <1>1, LookedIs
<1> HIDE DEF k
<1>7. /\ PassStep /\ pass' \in [Slots -> PassRec \cup {NoPass}]
      /\ \A u \in Slots : pass'[u] # NoPass => Known(pass'[u].current)
  BY <1>1, <1>5, <1>6, TurnEnds
<1>8. wire' \in SUBSET Intents
  BY <1>1 DEF OutboxInv, Typed
<1> QED
  BY <1>1, <1>3, <1>4, <1>7, <1>8, SameRows, TurnStep

LEMMA SameStore ==
    ASSUME OutboxInv, store' = store PROVE store' \subseteq Rec /\ StoreStep /\ Leaves
BY DropStore, KeepLeaves DEF OutboxInv, Typed

LEMMA PassKeepStep ==
    ASSUME OutboxInv, NEW s \in Slots, NEW r, PassKeep(s, r) PROVE GoodStep
<1> DEFINE p == Without(s, r)
           c == [p EXCEPT !.texts = @ \cup {r.text}]
<1>1. /\ Turn(s, r)
      /\ UNCHANGED <<store, page, rows, flight, wire, server, head, tick, minted, log>>
      /\ \/ pass' = PassIs(s, p) /\ (r.status = "admitted" \/ Young(s, r))
         \/ pass' = PassIs(s, c)
  BY DEF PassKeep, Looked, Claimed
<1>2. /\ p \in PassRec /\ p.seen = pass[s].seen /\ p.admitted = pass[s].admitted
      /\ p.now = pass[s].now /\ p.todo = pass[s].todo \ {r}
      /\ pass[s].texts \subseteq p.texts /\ p.current = pass[s].current
  BY <1>1, LookedIs
<1>3. /\ c \in PassRec /\ c.seen = pass[s].seen /\ c.admitted = pass[s].admitted
      /\ c.now = pass[s].now /\ c.todo = pass[s].todo \ {r}
      /\ pass[s].texts \subseteq c.texts /\ c.current = pass[s].current
      /\ r.text \in c.texts
  BY <1>1, LookedIs
<1> HIDE DEF p, c
<1>4. PICK k \in {p, c} :
         /\ pass' = PassIs(s, k)
         /\ r.status = "saved" => r.text \in k.texts \/ Young(s, r)
  BY <1>1, <1>3
<1>5. /\ PassStep /\ pass' \in [Slots -> PassRec \cup {NoPass}]
      /\ \A u \in Slots : pass'[u] # NoPass => Known(pass'[u].current)
  BY <1>1, <1>2, <1>4, <1>3, TurnEnds
<1>6. wire' \in SUBSET Intents /\ log' \in Log
  BY <1>1 DEF OutboxInv, Typed
<1> QED
  BY <1>1, <1>5, <1>6, SameRows, SameStore, TurnStep

\* A pass writes the row of an intent it knows.
LEMMA RowWritten ==
    ASSUME OutboxInv, NEW t \in Tabs, NEW i \in Intents, Known(i), minted' = minted,
           \/ rows' = [rows EXCEPT ![t] = Ensure(@, i, "refused")]
           \/ rows' = [rows EXCEPT ![t] = Finish(@, i)]
    PROVE  /\ rows' \in [Tabs -> [Intents -> Stages]]
           /\ \A u \in Tabs : \A j \in Intents : rows'[u][j] # "none" => j <= minted'
<1>1. /\ rows[t] \in [Intents -> Stages] /\ rows \in [Tabs -> [Intents -> Stages]]
      /\ minted \in Nat /\ minted <= minted' /\ "refused" \in Stages
  BY DEF OutboxInv, Typed, Stages
<1> DEFINE e == Ensure(rows[t], i, "refused")
           f == Finish(rows[t], i)
<1>2. /\ e \in [Intents -> Stages] /\ f \in [Intents -> Stages]
      /\ \A j \in Intents : /\ e[j] = rows[t][j] \/ j = i
                            /\ f[j] # "none" => rows[t][j] # "none"
  BY <1>1 DEF Ensure, Finish, Stages
<1>3. rows' = [rows EXCEPT ![t] = e] \/ rows' = [rows EXCEPT ![t] = f]
  OBVIOUS
<1> HIDE DEF e, f
<1>4. PICK rs \in {e, f} : rows' = [rows EXCEPT ![t] = rs]
  BY <1>3
<1>5. /\ rs \in [Intents -> Stages]
      /\ \A j \in Intents : rs[j] # "none" => rows[t][j] # "none" \/ j <= minted'
  BY <1>1, <1>2 DEF Known
<1> QED
  BY <1>1, <1>4, <1>5, RowsKnown

LEMMA PassBlockedStep ==
    ASSUME OutboxInv, NEW s \in Slots, NEW r, PassBlocked(s, r) PROVE GoodStep
<1> DEFINE k == Without(s, r)
           t == pass[s].tab
<1>1. /\ Turn(s, r) /\ WaitsForTap(r) /\ pass' = PassIs(s, k)
      /\ rows' = [rows EXCEPT ![t] = Ensure(@, r.intent, "refused")]
      /\ UNCHANGED <<store, page, flight, wire, server, head, tick, minted, log>>
  BY DEF PassBlocked, Looked
<1>2. t \in Tabs /\ r.intent \in Intents /\ Known(r.intent)
  BY <1>1, TurnIs
<1>3. /\ rows' \in [Tabs -> [Intents -> Stages]]
      /\ \A u \in Tabs : \A j \in Intents : rows'[u][j] # "none" => j <= minted'
  BY <1>1, <1>2, RowWritten
<1>4. /\ k \in PassRec /\ k.seen = pass[s].seen /\ k.admitted = pass[s].admitted
      /\ k.now = pass[s].now /\ k.todo = pass[s].todo \ {r}
      /\ pass[s].texts \subseteq k.texts /\ k.current = pass[s].current
  BY <1>1, LookedIs
<1> HIDE DEF k
<1>5. /\ PassStep /\ pass' \in [Slots -> PassRec \cup {NoPass}]
      /\ \A u \in Slots : pass'[u] # NoPass => Known(pass'[u].current)
  BY <1>1, <1>4, TurnEnds
<1>6. wire' \in SUBSET Intents /\ log' \in Log
  BY <1>1 DEF OutboxInv, Typed
<1> QED
  BY <1>1, <1>3, <1>5, <1>6, SameStore, TurnStep

LEMMA PassPostStep ==
    ASSUME OutboxInv, NEW s \in Slots, NEW r, PassPost(s, r) PROVE GoodStep
<1> DEFINE p == Without(s, r)
           a == [p EXCEPT !.texts = @ \cup {r.text}, !.current = r.intent]
           beside == {q.intent : q \in {w \in pass[s].todo \ {r} :
                         /\ w.status = "saved" /\ w.text = r.text
                         /\ ~w.hold /\ w.head = r.head /\ ~Young(s, w)}}
<1>1. /\ Turn(s, r) /\ wire' = Sent(r.intent) /\ pass' = PassIs(s, a)
      /\ log' = [log EXCEPT !.auto = @ \cup {[intent |-> r.intent, beside |-> beside]}]
      /\ UNCHANGED <<store, page, rows, flight, server, head, tick, minted>>
  BY DEF PassPost
<1>2. /\ r.intent \in Intents /\ pass[s] \in PassRec
  BY <1>1, TurnIs
<1>3. /\ a \in PassRec /\ a.seen = pass[s].seen /\ a.admitted = pass[s].admitted
      /\ a.now = pass[s].now /\ a.todo = pass[s].todo \ {r}
      /\ pass[s].texts \subseteq a.texts /\ a.current = r.intent
      /\ r.text \in a.texts
  BY <1>1, LookedIs
<1>4. beside \in SUBSET Intents
  BY <1>2 DEF PassRec, Rec
<1> HIDE DEF a, beside
<1>5. /\ PassStep /\ pass' \in [Slots -> PassRec \cup {NoPass}]
      /\ \A u \in Slots : pass'[u] # NoPass => Known(pass'[u].current)
  BY <1>1, <1>3, TurnEnds
<1>6. /\ log' \in Log /\ log'.text = log.text /\ log'.owed = log.owed
      /\ log'.blind = log.blind
  <2>1. [intent |-> r.intent, beside |-> beside]
            \in [intent : Intents, beside : SUBSET Intents]
    BY <1>2, <1>4
  <2> QED
    BY <1>1, <2>1 DEF OutboxInv, Typed, Log
<1>7. wire' \in SUBSET Intents
  BY <1>1, <1>2 DEF Sent, OutboxInv, Typed
<1> QED
  BY <1>1, <1>5, <1>6, <1>7, SameRows, SameStore, TurnStep

\* A re-admission ends.
LEMMA ReadmitEnds ==
    ASSUME OutboxInv, NEW s \in Slots, pass[s] # NoPass,
           pass' = PassIs(s, [pass[s] EXCEPT !.current = NoIntent])
    PROVE  /\ PassStep /\ pass' \in [Slots -> PassRec \cup {NoPass}]
           /\ \A u \in Slots : pass'[u] # NoPass => Known(pass'[u].current)
<1> DEFINE k == [pass[s] EXCEPT !.current = NoIntent]
<1>1. /\ k \in PassRec /\ k.seen = pass[s].seen /\ k.admitted = pass[s].admitted
      /\ k.now = pass[s].now /\ k.todo = pass[s].todo /\ k.texts = pass[s].texts
      /\ k.current = NoIntent
  BY DEF OutboxInv, Typed, PassRec
<1>2. pass' = PassIs(s, k)
  OBVIOUS
<1> HIDE DEF k
<1> QED
  BY <1>1, <1>2, PassGoesOn

LEMMA CurrentIs ==
    ASSUME OutboxInv, NEW s \in Slots, Live(s), pass[s].current # NoIntent
    PROVE  /\ pass[s] # NoPass /\ pass[s].tab \in Tabs
           /\ pass[s].current \in Intents /\ Known(pass[s].current)
<1>1. pass[s] # NoPass /\ pass[s] \in PassRec
  BY DEF Live, OutboxInv, Typed
<1> QED
  BY <1>1 DEF PassRec, OutboxInv, Named

LEMMA PassAdmittedStep ==
    ASSUME OutboxInv, NEW s \in Slots, PassAdmitted(s) PROVE GoodStep
<1> DEFINE i == pass[s].current
           t == pass[s].tab
<1>1. /\ Live(s) /\ i # NoIntent /\ MarkAdmitted(i) /\ log' = MarkedLog(i)
      /\ rows' = [rows EXCEPT ![t] = Finish(@, i)]
      /\ pass' = PassIs(s, [pass[s] EXCEPT !.current = NoIntent])
      /\ UNCHANGED <<page, flight, wire, server, head, minted, tick>>
  BY DEF PassAdmitted
<1>2. pass[s] # NoPass /\ t \in Tabs /\ i \in Intents /\ Known(i)
  BY <1>1, CurrentIs
<1>3. /\ log' \in Log /\ log'.text = log.text /\ log'.owed \subseteq log.owed
      /\ log'.blind = log.blind
      /\ Recorded(i) => \A o \in log'.owed : log.text[o.intent] # log.text[i]
  BY <1>1, MarkedLogIs
<1>4. store' \subseteq Rec /\ StoreStep /\ Leaves
  BY <1>1, <1>2, <1>3, MarkIs
<1>5. /\ rows' \in [Tabs -> [Intents -> Stages]]
      /\ \A u \in Tabs : \A j \in Intents : rows'[u][j] # "none" => j <= minted'
  BY <1>1, <1>2, RowWritten
<1>6. wire' \in SUBSET Intents
  BY <1>1 DEF OutboxInv, Typed
<1> QED
  BY <1>1, <1>2, <1>3, <1>4, <1>5, <1>6, ReadmitEnds, TurnStep

LEMMA PassRefusedStep ==
    ASSUME OutboxInv, NEW s \in Slots, PassRefused(s) PROVE GoodStep
<1> DEFINE i == pass[s].current
           t == pass[s].tab
           l == Settled({log.text[i]})
<1>1. /\ Live(s) /\ i # NoIntent /\ wire' = wire \ {i}
      /\ rows' = [rows EXCEPT ![t] = Ensure(@, i, "refused")]
      /\ pass' = PassIs(s, [pass[s] EXCEPT !.current = NoIntent])
      /\ \/ store' = store /\ log' = [log EXCEPT !.faults = @ + 1]
         \/ Delete(i) /\ log' = [l EXCEPT !.faults = @ + 1]
      /\ UNCHANGED <<page, flight, server, head, tick, minted>>
  BY DEF PassRefused
<1>2. /\ pass[s] # NoPass /\ t \in Tabs /\ i \in Intents /\ Known(i)
      /\ log \in Log
  BY <1>1, CurrentIs DEF OutboxInv, Typed
<1>3. /\ l \in Log /\ l.text = log.text /\ l.blind = log.blind
      /\ l.owed \subseteq log.owed
      /\ \A o \in l.owed : log.text[o.intent] # log.text[i]
  BY <1>2, SettledIs
<1> HIDE DEF l
<1>4. /\ log' \in Log /\ log'.text = log.text /\ log'.owed \subseteq log.owed
      /\ log'.blind = log.blind
      /\ store' = store \/ log'.owed = l.owed
  BY <1>1, <1>2, <1>3, FaultIs
<1>5. /\ rows' \in [Tabs -> [Intents -> Stages]]
      /\ \A u \in Tabs : \A j \in Intents : rows'[u][j] # "none" => j <= minted'
  BY <1>1, <1>2, RowWritten
<1>6. store' \subseteq Rec /\ StoreStep /\ Leaves
  <2>1. CASE store' = store
    BY <2>1, SameStore
  <2>2. CASE Delete(i) /\ store' # store
    <3>1. store' = {x \in store : x.intent # i} /\ store' \subseteq store
      BY <2>2 DEF Delete
    <3>2. \A k \in store : k.intent = i => k.text = log.text[i]
      BY HeldIs DEF OutboxInv, Texted, TextOf
    <3>3. \A k \in store : k.created <= k.created
      BY DEF OutboxInv, Typed, Rec
    <3>4. \A o \in log'.owed, k \in store : k.text = TextOf(o) => k \in store'
      BY <1>3, <1>4, <2>2, <3>1, <3>2 DEF TextOf
    <3>5. Leaves
      BY <3>3, <3>4 DEF Leaves
    <3> QED
      BY <3>1, <3>5, DropStore DEF OutboxInv, Typed
  <2> QED
    BY <1>1, <2>1, <2>2
<1>7. wire' \in SUBSET Intents
  BY <1>1 DEF OutboxInv, Typed
<1> QED
  BY <1>1, <1>2, <1>4, <1>5, <1>6, <1>7, ReadmitEnds, TurnStep

LEMMA PassUnansweredStep ==
    ASSUME OutboxInv, NEW s \in Slots, PassUnanswered(s) PROVE GoodStep
<1>1. /\ pass[s] # NoPass
      /\ pass' = PassIs(s, [pass[s] EXCEPT !.current = NoIntent])
      /\ log' = [log EXCEPT !.faults = @ + 1]
      /\ UNCHANGED <<store, page, rows, flight, wire, server, head, tick, minted>>
  BY DEF PassUnanswered, Live
<1>2. /\ log' \in Log /\ log'.text = log.text /\ log'.owed = log.owed
      /\ log'.blind = log.blind
  BY <1>1, FaultIs DEF OutboxInv, Typed
<1>3. wire' \in SUBSET Intents
  BY <1>1 DEF OutboxInv, Typed
<1> QED
  BY <1>1, <1>2, <1>3, ReadmitEnds, SameRows, SameStore, TurnStep

-----------------------------------------------------------------------------
(* The theorems.                                                           *)

LEMMA InitInv == ASSUME Init PROVE OutboxInv
<1>1. AnyText \in Texts
  BY OutboxAssumption DEF AnyText
<1>2. PICK first \in Tabs :
        page = [t \in Tabs |->
            IF t = first THEN [NoPage EXCEPT !.open = TRUE, !.client = 1, !.nonce = 1]
            ELSE NoPage]
  BY DEF Init
<1> DEFINE p == [NoPage EXCEPT !.open = TRUE, !.client = 1, !.nonce = 1]
<1>3. NoPage \in Page /\ NoPage.failure = NoFailure
  BY OutboxAssumption DEF NoPage, Page, Failure, NoFailure, NoIntent, NoHead, Heads
<1>4. p \in Page /\ p.failure = NoFailure
  BY <1>3 DEF Page
<1> HIDE DEF p
<1>5. page \in [Tabs -> Page] /\ \A t \in Tabs : page[t].failure = NoFailure
  BY <1>2, <1>3, <1>4 DEF p
<1>6. NoFlight \in Flight
  BY DEF NoFlight, Flight, Steps
<1>7. /\ store = {} /\ rows = [t \in Tabs |-> [i \in Intents |-> "none"]]
      /\ flight = [t \in Tabs |-> NoFlight] /\ pass = [s \in Slots |-> NoPass]
      /\ wire = {} /\ server = [i \in Intents |-> "none"] /\ head = 0 /\ tick = 0
      /\ minted = 0
      /\ log = [text |-> [i \in Intents |-> AnyText], owed |-> {}, blind |-> {},
                auto |-> {}, faults |-> 0, pages |-> 1, passes |-> 0]
  BY DEF Init
<1>8. log \in Log /\ log.owed = {}
  BY <1>1, <1>7 DEF Log
<1>9. Typed
  BY <1>5, <1>6, <1>7, <1>8, OutboxAssumption DEF Typed, Stages, Server
<1>10. Held = {}
  BY <1>7 DEF Held
<1>11. \A t \in Tabs : /\ flight[t].step = "idle" /\ flight[t].intent = 0
                       /\ flight[t].todo = {} /\ flight[t].at = 0
  BY <1>7 DEF NoFlight, NoIntent
<1>12. Clocked
  BY <1>10, <1>11 DEF Clocked, Stamps
<1>13. Named /\ Facing
  BY <1>5, <1>7 DEF Named, Facing, Known, Reached, NoFailure, NoIntent
<1>14. Read /\ Texted /\ Grown /\ Sole /\ Aged /\ Backed /\ ScanBacked /\ LookedAt
  BY <1>7, <1>8, <1>10, <1>11 DEF Read, Distinct, Texted, Grown, Sole, Aged, Backed,
     ScanBacked, LookedAt, Known
<1> QED
  BY <1>9, <1>12, <1>13, <1>14 DEF OutboxInv

LEMMA SameStep == ASSUME OutboxInv, UNCHANGED vars PROVE GoodStep
<1>1. UNCHANGED <<store, page, rows, flight, pass, wire, server, head, tick, minted, log>>
  BY DEF vars
<1>2. Typed' /\ Named' /\ Facing'
  BY <1>1 DEF OutboxInv, Typed, Named, Facing, Known, Reached
<1> QED
  BY <1>1, <1>2, StaysWhole, QuietStep DEF OutboxInv

\* Every action keeps to its part.
LEMMA NextStep == ASSUME OutboxInv, [Next]_vars PROVE GoodStep
<1>1. ASSUME NEW t \in Tabs, TabNext(t) PROVE GoodStep
  BY <1>1, PrepareFailsStep, SaveGestureStep, RetryFailedSaveStep, PruneOneStep,
     AdmittedStep, RefusedStep, UnansweredStep, OpenPageStep, ClosePageStep DEF TabNext
<1>2. ASSUME NEW s \in Slots, PassNext(s) PROVE GoodStep
  BY <1>2, PassStartStep, PassListStep, PassDeleteStep, PassSuppressStep,
     PassConfirmStep, PassKeepStep, PassBlockedStep, PassPostStep, PassAdmittedStep,
     PassRefusedStep, PassUnansweredStep DEF PassNext
<1>3. ASSUME NEW i \in Intents, Land(i) \/ Deliver(i) \/ Dismiss(i) PROVE GoodStep
  BY <1>3, LandStep, DeliverStep, DismissStep
<1>4. CASE Evict \/ Tick
  BY <1>4, EvictStep, TickStep
<1>5. CASE UNCHANGED vars
  BY <1>5, SameStep
<1> QED
  BY <1>1, <1>2, <1>3, <1>4, <1>5 DEF Next

LEMMA Invariance == Spec => []OutboxInv
<1>1. ASSUME OutboxInv, [Next]_vars PROVE OutboxInv'
  BY <1>1, NextStep, StepKeeps
<1> QED
  BY InitInv, <1>1, PTL DEF Spec

\* The variables keep to their types, and the store holds one record per intent:
\* put() and delete() are by intent id (lib/outbox/store.ts).
THEOREM TypeCorrect == Spec => []TypeOK
<1>1. ASSUME OutboxInv PROVE TypeOK
  BY <1>1 DEF OutboxInv, Typed, Read, Distinct, TypeOK
<1> QED
  BY <1>1, Invariance, PTL

\* No interleaving of gestures, prunes, passes, reloads, duplicated tabs, kills
\* and lost answers voids a saved text: the supersede prune of saveGesture and the
\* prunes of reconcileOutboxSession leave a record of it or take one that is
\* settled, but for the two deletes TextNeverVoid names.
THEOREM NoTextIsVoid == Spec => []TextNeverVoid
<1>1. ASSUME OutboxInv PROVE TextNeverVoid
  BY <1>1 DEF OutboxInv, Backed, Excused, Waits, TextOf, TextNeverVoid
<1> QED
  BY <1>1, Invariance, PTL

\* A pass that posts goes past no older twin: it has looked at the twin before,
\* and what it then saw waiting would have claimed the text or blocked both.
LEMMA PostsOldest ==
    ASSUME OutboxInv, NEW s \in Slots, NEW r, PassPost(s, r),
           NEW q \in pass[s].seen \cap store, q.status = "saved",
           q.created < r.created, Twins(r, q)
    PROVE  FALSE
<1>1. /\ Turn(s, r) /\ ~Young(s, r) /\ ~WaitsForTap(r) /\ r.text \notin pass[s].texts
  BY DEF PassPost, MayReAdmit
<1>2. /\ pass[s] \in PassRec /\ pass[s] # NoPass /\ r \in Held /\ r \in Rec
  BY <1>1, TurnIs
<1>3. q \in Held /\ q \in Rec
  BY HeldIs DEF OutboxInv, Typed
<1>4. /\ q.created \in Nat /\ r.created \in Nat /\ q.born \in Nat /\ r.born \in Nat
      /\ pass[s].now \in Nat /\ MinAge \in Nat
  BY <1>2, <1>3, OutboxAssumption DEF Rec, PassRec
<1>5. q \notin pass[s].todo
  BY <1>1, <1>4 DEF Turn
<1>6. Overtaken(s, q)
  BY <1>2, <1>5 DEF OutboxInv, LookedAt
<1>7. q.born <= r.born
  BY <1>2, <1>3 DEF OutboxInv, Aged
<1>8. ~Young(s, q)
  BY <1>1, <1>4, <1>7 DEF Young
<1>9. ~Past(q)
  BY <1>4 DEF Past
<1> QED
  BY <1>1, <1>6, <1>8, <1>9 DEF Overtaken, Twins, WaitsForTap, HeadIsStale

\* Two waiting records of one text at one head are re-admitted oldest first, over
\* overlapping passes of one page and of several (the sort, the same-text
\* suppression and the in-flight claim of reconcileOutboxSession).
THEOREM PassesKeepOrder == Spec => OldestGoesFirst
<1>1. ASSUME OutboxInv, [Next]_vars,
             NEW s \in Slots, pass[s] # NoPass, NEW r \in pass[s].todo, ReAdmits(s, r)
      PROVE  ~\E q \in pass[s].seen \cap store :
                 q.status = "saved" /\ q.created < r.created /\ Twins(r, q)
  <2>1. /\ pass[s] \in PassRec /\ pass[s].todo \subseteq pass[s].seen
        /\ Distinct(pass[s].seen)
    BY <1>1 DEF OutboxInv, Typed, Read
  <2>2. r.intent \in Intents /\ r.intent # NoIntent
    BY <2>1 DEF PassRec, Rec, Intents, NoIntent
  <2>3. GoesOn(s)
    BY <1>1, NextStep DEF GoodStep, PassStep, ReAdmits, Starts
  <2>4. PICK w \in pass[s].todo : PassPost(s, w) /\ pass'[s].current = w.intent
    BY <1>1, <2>2, <2>3 DEF GoesOn, ReAdmits
  <2>5. w = r
    BY <1>1, <2>1, <2>4 DEF ReAdmits, Distinct
  <2> QED
    BY <1>1, <2>4, <2>5, PostsOldest
<1>2. ASSUME OutboxInv, [Next]_vars
      PROVE  [\A s \in Slots : pass[s] # NoPass =>
                \A r \in pass[s].todo : ReAdmits(s, r) =>
                   ~\E q \in pass[s].seen \cap store :
                        q.status = "saved" /\ q.created < r.created /\ Twins(r, q)]_vars
  BY <1>1, <1>2
<1> QED
  BY <1>2, Invariance, PTL DEF Spec, OldestGoesFirst

=============================================================================
