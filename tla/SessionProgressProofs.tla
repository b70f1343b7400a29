------------------------ MODULE SessionProgressProofs ------------------------
(***************************************************************************)
(* Machine-checked proofs about SessionProgress, for any sessions,          *)
(* signatures, agents, bounds and configured limits.                       *)
(*                                                                         *)
(* A state object outlives its session's entry: a call on the slow path     *)
(* keeps working on the object it started with, so the slots, the leases   *)
(* and the evidence are all invariants of objects, not of sessions.        *)
(***************************************************************************)
EXTENDS SessionProgress, FiniteSetTheorems, SequenceTheorems, TLAPS

Lease == [hits : Nat, until : Nat, armed : BOOLEAN]
Agents == {"none"} \cup {AgentOf[s] : s \in Sessions}
Object == [ring : Seq(Calls), lease : [Rules -> [Sigs -> Lease]], accrued : Nat,
           last : Nat, seen : Nat, flight : BOOLEAN, agent : Agents, bound : Nat]
CallSteps == {"none", "allowed", "denied", "ran", "history", "judge", "leave"}
CallRec == [s : Sessions, obj : Nat, sig : Sigs, ts : Nat, own : BOOLEAN,
            known : Adverse \cup {"none", "ok", "unknown"},
            result : Adverse \cup {"none", "ok"}, step : CallSteps,
            until : Nat, can : BOOLEAN]
Denial == [obj : Nat, rule : Rules, sig : Sigs, at : Nat, call : Calls, hit : Nat]

Types ==
    /\ now \in 0..MaxTime /\ busy \in 0..Global
    /\ obj \in Seq(Object) /\ call \in [Calls -> CallRec]
    /\ sess \in [Sessions -> 0..Len(obj)]
    /\ denials \subseteq Denial

\* An outcome that was recorded as a failure is the real one, and a call that
\* has not run has no result.
KnownOK ==
    \A c \in Calls : /\ call[c].known \in Adverse => call[c].result = call[c].known
                     /\ call[c].step # "ran" => call[c].result = "none"

\* A ring holds calls that were observed into this object.
RingOK ==
    \A i \in 1..Len(obj) :
        /\ Len(obj[i].ring) <= RingMax
        /\ \A j \in 1..Len(obj[i].ring) :
            LET x == call[obj[i].ring[j]]
            IN  x.step # "none" /\ x.obj = i /\ x.ts <= now

\* The calls on the slow path are the slots taken, one object each.
SlotOK ==
    /\ busy = Cardinality({c \in Calls : InFlight(c)})
    /\ \A c \in Calls : InFlight(c) =>
          call[c].obj \in 1..Len(obj) /\ obj[call[c].obj].flight
    /\ \A c, d \in Calls :
          InFlight(c) /\ InFlight(d) /\ call[c].obj = call[d].obj => c = d
    /\ \A i \in 1..Len(obj) : obj[i].flight =>
          \E c \in Calls : InFlight(c) /\ call[c].obj = i

\* An armed lease has been hit.
LeaseOK ==
    \A i \in 1..Len(obj), r \in Rules, g \in Sigs :
        obj[i].lease[r][g].armed => obj[i].lease[r][g].hits >= 1

\* The lease that a first denial armed stands until it expires.
Standing(d, l, t) ==
    d.hit = 1 => \/ d.at + LeaseTime[d.rule] <= t
                 \/ l.armed /\ l.until = d.at + LeaseTime[d.rule]
DenialOK ==
    /\ \A d \in denials :
          /\ d.obj \in 1..Len(obj) /\ d.at <= now
          /\ Standing(d, obj[d.obj].lease[d.rule][d.sig], now)
    /\ DenialsCapped

ProgressInv ==
    /\ Types /\ KnownOK /\ RingOK /\ SlotOK /\ LeaseOK /\ DenialOK
    /\ DenialHasEvidence

LEMMA Limits ==
    /\ MaxCalls \in Nat /\ MaxTime \in Nat /\ Global \in Nat /\ RingMax \in Nat \ {0}
    /\ PriorMatches \in Nat \ {0} /\ Deadline \in Nat
    /\ \A r \in Rules : LeaseTime[r] \in Nat /\ MaxDenials[r] \in Nat \ {0}
  BY ProgressAssumption

-----------------------------------------------------------------------------
(* Effects of a step.                                                      *)

\* Object i becomes, or is created as, o.
Updated(i, o) ==
    /\ obj' \in Seq(Object) /\ Len(obj') \in Nat
    /\ 1..Len(obj') = 1..Len(obj) \cup {i} /\ Len(obj) <= Len(obj')
    /\ obj'[i] = o
    /\ \A j \in 1..Len(obj) : j # i => obj'[j] = obj[j]

\* Every call but c stays as it is, save that its outcome may be filled in.
Kept(x, y) ==
    /\ y.obj = x.obj /\ y.sig = x.sig /\ y.ts = x.ts /\ y.result = x.result
    /\ y.step = x.step
    /\ y.known \in {x.known, x.result, "unknown", "none"}
Evolved(c) ==
    /\ call' \in [Calls -> CallRec]
    /\ \A d \in Calls : d # c => Kept(call[d], call'[d])

LEMMA UpdateObject ==
    ASSUME obj \in Seq(Object), NEW i \in 1..Len(obj), NEW o \in Object,
           obj' = [obj EXCEPT ![i] = o]
    PROVE  Updated(i, o)
<1>1. /\ obj' \in Seq(Object) /\ Len(obj') = Len(obj) /\ Len(obj) \in Nat
      /\ \A j \in 1..Len(obj) : obj'[j] = IF j = i THEN o ELSE obj[j]
  BY ExceptSeq, LenProperties
<1> QED
  BY <1>1 DEF Updated

LEMMA AppendObject ==
    ASSUME obj \in Seq(Object), NEW o \in Object, obj' = Append(obj, o)
    PROVE  Updated(Len(obj) + 1, o)
<1>1. /\ obj' \in Seq(Object) /\ Len(obj') = Len(obj) + 1 /\ Len(obj) \in Nat
      /\ \A j \in 1..Len(obj) : obj'[j] = obj[j]
      /\ obj'[Len(obj) + 1] = o
  BY AppendProperties, LenProperties
<1> QED
  BY <1>1 DEF Updated

-----------------------------------------------------------------------------
(* Slots.                                                                  *)

LEMMA FiniteCalls == ASSUME NEW S \in SUBSET Calls PROVE IsFiniteSet(S)
<1>1. IsFiniteSet(Calls)
  BY ProgressAssumption, FS_Interval DEF Calls
<1> QED
  BY <1>1, FS_Subset

\* A step that takes no slot and gives none back.
LEMMA SlotFrame ==
    ASSUME SlotOK, Types, NEW c \in Calls, NEW i, NEW o, Updated(i, o), Evolved(c),
           ~InFlight(c) \/ (InFlight(c) /\ call'[c].obj = call[c].obj),
           call'[c].step \in {"history", "judge", "leave"} <=> InFlight(c),
           busy' = busy,
           i \in 1..Len(obj) => o.flight = obj[i].flight,
           i \notin 1..Len(obj) => ~o.flight
    PROVE  SlotOK'
<1>1. \A d \in Calls : InFlight(d)' <=> InFlight(d)
  BY DEF InFlight, Evolved, Kept
<1>2. \A d \in Calls : InFlight(d) => call'[d].obj = call[d].obj
  BY DEF Evolved, Kept
<1>3. {d \in Calls : InFlight(d)'} = {d \in Calls : InFlight(d)}
  BY <1>1
<1>4. \A j \in 1..Len(obj) : obj'[j].flight = obj[j].flight
  BY DEF Updated
<1>5. \A j \in 1..Len(obj') : obj'[j].flight => j \in 1..Len(obj)
  BY DEF Updated
<1>6. 1..Len(obj) \subseteq 1..Len(obj')
  BY DEF Updated
<1>7. \A d \in Calls : InFlight(d)' =>
          call'[d].obj \in 1..Len(obj') /\ obj'[call'[d].obj].flight
  BY <1>1, <1>2, <1>4, <1>6 DEF SlotOK
<1>8. \A d, e \in Calls :
          InFlight(d)' /\ InFlight(e)' /\ call'[d].obj = call'[e].obj => d = e
  BY <1>1, <1>2 DEF SlotOK
<1>9. \A j \in 1..Len(obj') : obj'[j].flight =>
          \E d \in Calls : InFlight(d)' /\ call'[d].obj = j
  BY <1>1, <1>2, <1>4, <1>5 DEF SlotOK
<1>10. busy' = Cardinality({d \in Calls : InFlight(d)'})
  BY <1>3 DEF SlotOK
<1> QED
  BY <1>7, <1>8, <1>9, <1>10 DEF SlotOK

\* Call c takes the process-wide slot and its object's.
LEMMA SlotEnter ==
    ASSUME SlotOK, Types, NEW c \in Calls, NEW i, NEW o, Updated(i, o), Evolved(c),
           ~InFlight(c), call'[c].step = "history", call'[c].obj = i,
           busy' = busy + 1, o.flight,
           i \in 1..Len(obj) => ~obj[i].flight
    PROVE  SlotOK'
<1>1. \A d \in Calls : InFlight(d)' <=> InFlight(d) \/ d = c
  BY DEF InFlight, Evolved, Kept
<1>2. \A d \in Calls : InFlight(d) => call'[d].obj = call[d].obj
  BY DEF Evolved, Kept
<1> DEFINE F == {d \in Calls : InFlight(d)}
<1>3. {d \in Calls : InFlight(d)'} = F \cup {c} /\ c \notin F
  BY <1>1
<1>4. busy' = Cardinality({d \in Calls : InFlight(d)'})
  <2>1. IsFiniteSet(F)
    BY FiniteCalls
  <2>2. Cardinality(F \cup {c}) = Cardinality(F) + 1
    BY <1>3, <2>1, FS_AddElement
  <2> QED
    BY <1>3, <2>2 DEF SlotOK
<1>5. \A d \in Calls : InFlight(d) => call[d].obj \in 1..Len(obj) /\ call[d].obj # i
                                      /\ obj[call[d].obj].flight
  BY DEF SlotOK
<1>6. i \in 1..Len(obj') /\ obj'[i] = o /\ 1..Len(obj) \subseteq 1..Len(obj')
      /\ \A j \in 1..Len(obj') : j # i => j \in 1..Len(obj) /\ obj'[j] = obj[j]
  BY DEF Updated
<1>7. \A d \in Calls : InFlight(d)' =>
          call'[d].obj \in 1..Len(obj') /\ obj'[call'[d].obj].flight
  BY <1>1, <1>2, <1>5, <1>6
<1>8. \A d, e \in Calls :
          InFlight(d)' /\ InFlight(e)' /\ call'[d].obj = call'[e].obj => d = e
  BY <1>1, <1>2, <1>5 DEF SlotOK
<1>9. \A j \in 1..Len(obj') : obj'[j].flight =>
          \E d \in Calls : InFlight(d)' /\ call'[d].obj = j
  BY <1>1, <1>2, <1>6 DEF SlotOK
<1> QED
  BY <1>4, <1>7, <1>8, <1>9 DEF SlotOK

\* Call c gives both back.
LEMMA SlotLeave ==
    ASSUME SlotOK, Types, NEW c \in Calls, NEW o, Updated(call[c].obj, o), Evolved(c),
           InFlight(c), call'[c].step \notin {"history", "judge", "leave"},
           busy' = busy - 1, ~o.flight
    PROVE  SlotOK' /\ busy >= 1
<1> DEFINE F == {d \in Calls : InFlight(d)}
           i == call[c].obj
<1>1. \A d \in Calls : InFlight(d)' <=> InFlight(d) /\ d # c
  BY DEF InFlight, Evolved, Kept
<1>2. \A d \in Calls : InFlight(d) /\ d # c =>
          call'[d].obj = call[d].obj /\ call[d].obj # i
  BY DEF Evolved, Kept, SlotOK
<1>3. {d \in Calls : InFlight(d)'} = F \ {c} /\ c \in F
  BY <1>1
<1>4. busy' = Cardinality({d \in Calls : InFlight(d)'}) /\ busy >= 1
  <2>1. IsFiniteSet(F) /\ F # {}
    BY <1>3, FiniteCalls
  <2>2. Cardinality(F \ {c}) = Cardinality(F) - 1
    BY <1>3, <2>1, FS_RemoveElement
  <2>3. Cardinality(F) # 0 /\ Cardinality(F) \in Nat
    BY <2>1, FS_EmptySet, FS_CardinalityType
  <2>4. busy = Cardinality(F)
    BY DEF SlotOK
  <2> HIDE DEF F
  <2>5. busy' = Cardinality(F \ {c}) /\ busy >= 1
    BY <2>2, <2>3, <2>4
  <2> QED
    BY <1>3, <2>5
<1>5. i \in 1..Len(obj)
  BY DEF SlotOK
<1>6. 1..Len(obj') = 1..Len(obj) /\ obj'[i] = o
      /\ \A j \in 1..Len(obj) : j # i => obj'[j] = obj[j]
  BY <1>5 DEF Updated
<1>7. \A d \in Calls : InFlight(d)' =>
          call'[d].obj \in 1..Len(obj') /\ obj'[call'[d].obj].flight
  BY <1>1, <1>2, <1>6 DEF SlotOK
<1>8. \A d, e \in Calls :
          InFlight(d)' /\ InFlight(e)' /\ call'[d].obj = call'[e].obj => d = e
  BY <1>1, <1>2 DEF SlotOK
<1>9. \A j \in 1..Len(obj') : obj'[j].flight =>
          \E d \in Calls : InFlight(d)' /\ call'[d].obj = j
  BY <1>1, <1>2, <1>6 DEF SlotOK
<1> QED
  BY <1>4, <1>7, <1>8, <1>9 DEF SlotOK

-----------------------------------------------------------------------------
(* Rings, outcomes and evidence.                                           *)

Older(i, x) ==
    i \in 1..Len(obj) /\ \E k \in 1..Len(obj[i].ring) : x = obj[i].ring[k]

LEMMA RingStep ==
    ASSUME RingOK, Types, NEW c \in Calls, NEW i, NEW o \in Object, Updated(i, o),
           Evolved(c), now' = now,
           call[c].step # "none" =>
               /\ call'[c].step # "none" /\ call'[c].obj = call[c].obj
               /\ call'[c].ts = call[c].ts,
           Len(o.ring) <= RingMax,
           \A j \in 1..Len(o.ring) :
               \/ Older(i, o.ring[j])
               \/ /\ o.ring[j] = c /\ call'[c].step # "none"
                  /\ call'[c].obj = i /\ call'[c].ts <= now
    PROVE  RingOK'
<1>1. ASSUME NEW j \in 1..Len(obj), NEW k \in 1..Len(obj[j].ring)
      PROVE  LET x == call'[obj[j].ring[k]]
             IN  x.step # "none" /\ x.obj = j /\ x.ts <= now
  <2> DEFINE d == obj[j].ring[k]
  <2>1. obj[j] \in Object
    BY ElementOfSeq DEF Types
  <2>2. d \in Calls
    BY <2>1, ElementOfSeq DEF Object
  <2>3. call[d].step # "none" /\ call[d].obj = j /\ call[d].ts <= now
    BY DEF RingOK
  <2>4. /\ call'[d].step # "none" /\ call'[d].obj = call[d].obj
        /\ call'[d].ts = call[d].ts
    BY <2>2, <2>3 DEF Evolved, Kept
  <2> QED
    BY <2>3, <2>4
<1>2. ASSUME NEW j \in 1..Len(o.ring)
      PROVE  LET x == call'[o.ring[j]]
             IN  x.step # "none" /\ x.obj = i /\ x.ts <= now
  BY <1>1 DEF Older
<1>3. ASSUME NEW j \in 1..Len(obj')
      PROVE  /\ Len(obj'[j].ring) <= RingMax
             /\ \A k \in 1..Len(obj'[j].ring) :
                   LET x == call'[obj'[j].ring[k]]
                   IN  x.step # "none" /\ x.obj = j /\ x.ts <= now'
  <2>1. CASE j = i
    BY <1>2, <2>1 DEF Updated
  <2>2. CASE j # i
    <3>1. j \in 1..Len(obj) /\ obj'[j] = obj[j]
      BY <2>2 DEF Updated
    <3> QED
      BY <1>1, <3>1 DEF RingOK
  <2> QED
    BY <2>1, <2>2
<1> QED
  BY <1>3 DEF RingOK

LEMMA KnownStep ==
    ASSUME KnownOK, NEW c \in Calls, Evolved(c),
           call'[c].known \in Adverse => call'[c].result = call'[c].known,
           call'[c].step # "ran" => call'[c].result = "none"
    PROVE  KnownOK'
<1>1. ASSUME NEW d \in Calls, d # c
      PROVE  /\ call'[d].known \in Adverse => call'[d].result = call'[d].known
             /\ call'[d].step # "ran" => call'[d].result = "none"
  BY <1>1, ProgressAssumption DEF KnownOK, Evolved, Kept
<1> QED
  BY <1>1 DEF KnownOK

\* The calls of signature g in object i that ran by t and failed with f.
Failed(i, g, t, f) ==
    {c \in Calls : /\ call[c].obj = i /\ call[c].sig = g
                   /\ call[c].result = f /\ call[c].ts <= t}
Evidence(i, g, t, n) == \E f \in Adverse : Cardinality(Failed(i, g, t, f)) >= n
Needed(r) == IF r = "mechanical" THEN 2 ELSE PriorMatches

LEMMA EvidenceIs ==
    DenialHasEvidence <=>
        \A d \in denials : d.hit = 1 => Evidence(d.obj, d.sig, d.at, Needed(d.rule))
  BY DEF DenialHasEvidence, Evidence, Failed, Needed

\* What ran stays evidence.
LEMMA EvidenceGrows ==
    ASSUME NEW c \in Calls, Evolved(c), call[c].result = "none",
           NEW i, NEW g, NEW t, NEW n \in Nat, Evidence(i, g, t, n)
    PROVE  Evidence(i, g, t, n)'
<1>1. PICK f \in Adverse : Cardinality(Failed(i, g, t, f)) >= n
  BY DEF Evidence
<1>2. Failed(i, g, t, f) \subseteq Failed(i, g, t, f)'
  BY ProgressAssumption DEF Failed, Evolved, Kept
<1>3. IsFiniteSet(Failed(i, g, t, f)) /\ IsFiniteSet(Failed(i, g, t, f)')
  BY FiniteCalls DEF Failed
<1>4. /\ Cardinality(Failed(i, g, t, f)) <= Cardinality(Failed(i, g, t, f)')
      /\ Cardinality(Failed(i, g, t, f)) \in Nat
      /\ Cardinality(Failed(i, g, t, f)') \in Nat
  BY <1>2, <1>3, FS_Subset, FS_CardinalityType
<1>5. Cardinality(Failed(i, g, t, f)') >= n
  BY <1>1, <1>4
<1> QED
  BY <1>5 DEF Evidence

\* Calls of one object and signature that failed alike are evidence.
LEMMA RealEvidence ==
    ASSUME Types, KnownOK, NEW i, NEW g, NEW n \in Nat \ {0}, NEW cs \in SUBSET Calls,
           \A c \in cs : call[c].obj = i /\ call[c].sig = g /\ call[c].ts <= now,
           Unchanged(cs, n)
    PROVE  Evidence(i, g, now, n)
<1> DEFINE real == {c \in cs : call[c].known \in Adverse}
<1>1. Cardinality(real) >= n /\ \A c, d \in real : call[c].known = call[d].known
  BY DEF Unchanged
<1>2. IsFiniteSet(real)
  BY FiniteCalls
<1>3. real # {}
  BY <1>1, FS_EmptySet
<1>4. PICK b \in real : TRUE
  BY <1>3
<1> DEFINE f == call[b].known
<1>5. f \in Adverse /\ real \subseteq Failed(i, g, now, f)
  BY <1>1, <1>4 DEF KnownOK, Failed
<1>6. IsFiniteSet(Failed(i, g, now, f))
  BY FiniteCalls DEF Failed
<1>7. /\ Cardinality(real) <= Cardinality(Failed(i, g, now, f))
      /\ Cardinality(real) \in Nat /\ Cardinality(Failed(i, g, now, f)) \in Nat
  BY <1>2, <1>5, <1>6, FS_Subset, FS_CardinalityType
<1>8. Cardinality(Failed(i, g, now, f)) >= n
  BY <1>1, <1>7
<1> QED
  BY <1>5, <1>8 DEF Evidence

-----------------------------------------------------------------------------
(* Leases and denials.                                                     *)

\* A lease that has not expired stays armed, to the same end.
Stands(l, m) == l.armed /\ now < l.until => m.armed /\ m.until = l.until
HitOnce(l) == l.armed => l.hits >= 1

\* A denial e on object i, whose leases become those of o; a first denial finds
\* no lease in force.
NewDenial(e, i, o) ==
    /\ e \in Denial /\ e.obj = i /\ e.at = now
    /\ e.hit >= 1 /\ e.hit <= MaxDenials[e.rule]
    /\ e.hit = 1 =>
        /\ o.lease[e.rule][e.sig].armed
        /\ o.lease[e.rule][e.sig].until = now + LeaseTime[e.rule]
        /\ i \in 1..Len(obj) =>
              LET l == obj[i].lease[e.rule][e.sig] IN ~(l.armed /\ now < l.until)

LEMMA LeaseStep ==
    ASSUME LeaseOK, NEW i, NEW o, Updated(i, o),
           \A r \in Rules, g \in Sigs : HitOnce(o.lease[r][g])
    PROVE  LeaseOK'
<1>1. \A j \in 1..Len(obj') : j # i => j \in 1..Len(obj) /\ obj'[j] = obj[j]
  BY DEF Updated
<1>2. obj'[i] = o
  BY DEF Updated
<1> QED
  BY <1>1, <1>2 DEF LeaseOK, HitOnce

\* Old denials keep their lease for as long as it was to stand.
LEMMA OldDenials ==
    ASSUME Types, DenialOK, NEW i, NEW o, Updated(i, o), now' = now,
           i \in 1..Len(obj) => \A r \in Rules, g \in Sigs :
               Stands(obj[i].lease[r][g], o.lease[r][g]),
           NEW d \in denials
    PROVE  /\ d.obj \in 1..Len(obj') /\ d.at <= now
           /\ Standing(d, obj'[d.obj].lease[d.rule][d.sig], now)
<1>1. d \in Denial /\ d.rule \in Rules /\ d.sig \in Sigs /\ d.at \in Nat
      /\ LeaseTime[d.rule] \in Nat /\ now \in Nat
  <2>1. d \in Denial /\ now \in Nat
    BY Limits DEF Types
  <2> QED
    BY <2>1, Limits DEF Denial
<1>2. /\ d.obj \in 1..Len(obj) /\ d.at <= now
      /\ Standing(d, obj[d.obj].lease[d.rule][d.sig], now)
  BY DEF DenialOK
<1>3. d.obj \in 1..Len(obj')
  BY <1>2 DEF Updated
<1>4. CASE d.obj = i
  <2>1. Stands(obj[i].lease[d.rule][d.sig], o.lease[d.rule][d.sig])
    BY <1>1, <1>2, <1>4
  <2>2. obj'[i] = o
    BY DEF Updated
  <2> QED
    BY <1>1, <1>2, <1>3, <1>4, <2>1, <2>2 DEF Stands, Standing
<1>5. CASE d.obj # i
  BY <1>2, <1>3, <1>5 DEF Updated
<1> QED
  BY <1>4, <1>5

LEMMA DenialStep ==
    ASSUME Types, DenialOK, NEW i, NEW o, Updated(i, o), now' = now,
           i \in 1..Len(obj) => \A r \in Rules, g \in Sigs :
               Stands(obj[i].lease[r][g], o.lease[r][g]),
           \/ denials' = denials
           \/ \E e : NewDenial(e, i, o) /\ denials' = denials \cup {e}
    PROVE  DenialOK' /\ denials' \subseteq Denial
<1>1. \A d \in denials : /\ d.obj \in 1..Len(obj') /\ d.at <= now'
                         /\ Standing(d, obj'[d.obj].lease[d.rule][d.sig], now')
  <2> SUFFICES ASSUME NEW d \in denials
               PROVE  /\ d.obj \in 1..Len(obj') /\ d.at <= now'
                      /\ Standing(d, obj'[d.obj].lease[d.rule][d.sig], now')
    OBVIOUS
  <2>1. /\ d.obj \in 1..Len(obj') /\ d.at <= now
        /\ Standing(d, obj'[d.obj].lease[d.rule][d.sig], now)
    BY OldDenials
  <2> QED
    BY <2>1 DEF Standing
<1>2. CASE denials' = denials
  BY <1>1, <1>2, SMTT(20) DEF DenialOK, DenialsCapped, Types
<1>3. ASSUME NEW e, NewDenial(e, i, o), denials' = denials \cup {e}
      PROVE  DenialOK' /\ denials' \subseteq Denial
  <2>0. e \in Denial /\ e.at = now /\ now \in Nat /\ e.rule \in Rules
        /\ LeaseTime[e.rule] \in Nat
    <3>1. e \in Denial /\ e.at = now
      BY <1>3 DEF NewDenial
    <3>2. now \in Nat
      BY Limits DEF Types
    <3> QED
      BY <3>1, <3>2, Limits DEF Denial
  <2>1. /\ e.obj \in 1..Len(obj') /\ e.at <= now'
        /\ Standing(e, obj'[e.obj].lease[e.rule][e.sig], now')
    <3>1. e.obj = i /\ i \in 1..Len(obj') /\ obj'[i] = o
      BY <1>3 DEF NewDenial, Updated
    <3>2. e.hit = 1 => /\ o.lease[e.rule][e.sig].armed
                       /\ o.lease[e.rule][e.sig].until = now + LeaseTime[e.rule]
      BY <1>3 DEF NewDenial
    <3> QED
      BY <2>0, <3>1, <3>2 DEF Standing
  <2>2. ASSUME NEW d \in denials, d.hit = 1, e.hit = 1, d.obj = e.obj,
               d.rule = e.rule, d.sig = e.sig
        PROVE  d.at \in Nat /\ d.at + LeaseTime[d.rule] <= now
    <3>1. d \in Denial /\ d.at \in Nat
      BY DEF Types, Denial
    <3>2. /\ d.obj \in 1..Len(obj)
          /\ Standing(d, obj[d.obj].lease[d.rule][d.sig], now)
      BY DEF DenialOK
    <3>3. LET l == obj[i].lease[e.rule][e.sig] IN ~(l.armed /\ now < l.until)
      BY <1>3, <2>2, <3>2 DEF NewDenial
    <3>4. d.obj = i
      BY <1>3, <2>2 DEF NewDenial
    <3> QED
      BY <2>0, <2>2, <3>1, <3>2, <3>3, <3>4 DEF Standing
  <2>3. DenialsCapped'
    <3> SUFFICES ASSUME NEW x \in denials'
                 PROVE  /\ x.hit <= MaxDenials[x.rule]
                        /\ \A y \in denials' :
                             x.call # y.call /\ x.obj = y.obj /\ x.rule = y.rule
                             /\ x.sig = y.sig /\ x.hit = 1 /\ y.hit = 1
                             /\ x.at <= y.at => y.at >= x.at + LeaseTime[x.rule]
      BY DEF DenialsCapped
    <3>1. x.hit <= MaxDenials[x.rule]
      BY <1>3 DEF NewDenial, DenialOK, DenialsCapped
    <3>2. ASSUME NEW y \in denials', x.call # y.call, x.obj = y.obj,
                 x.rule = y.rule, x.sig = y.sig, x.hit = 1, y.hit = 1, x.at <= y.at
          PROVE  y.at >= x.at + LeaseTime[x.rule]
      <4>1. CASE x \in denials /\ y \in denials
        BY <3>2, <4>1 DEF DenialOK, DenialsCapped
      <4>2. CASE x \in denials /\ y = e
        BY <2>0, <2>2, <3>2, <4>2
      <4>3. CASE x = e /\ y \in denials
        BY <2>0, <2>2, <3>2, <4>3
      <4>4. CASE x = e /\ y = e
        BY <3>2, <4>4
      <4> QED
        BY <1>3, <4>1, <4>2, <4>3, <4>4
    <3> QED
      BY <3>1, <3>2
  <2> QED
    BY <1>1, <1>3, <2>0, <2>1, <2>3 DEF DenialOK, Types
<1> QED
  BY <1>2, <1>3

-----------------------------------------------------------------------------
(* The policy's operators.                                                 *)

LEMMA NoLeaseIs == NoLease \in Lease /\ ~NoLease.armed
  BY DEF NoLease, Lease

LEMMA NewObjectIs ==
    ASSUME NEW t \in Nat
    PROVE  /\ NewObject(t) \in Object /\ NewObject(t).ring = <<>>
           /\ NewObject(t).flight = FALSE
           /\ \A r \in Rules, g \in Sigs : NewObject(t).lease[r][g] = NoLease
<1>1. <<>> \in Seq(Calls)
  BY EmptySeq
<1> QED
  BY <1>1, NoLeaseIs DEF NewObject, Object, Agents

Id(s) == IF sess[s] = 0 THEN Len(obj) + 1 ELSE sess[s]

\* The object a hook finds: the session's own, or a new one.
LEMMA CurrentIs ==
    ASSUME Types, NEW s \in Sessions
    PROVE  /\ Current(s) \in Object
           /\ Id(s) \in 1..Len(obj) =>
                /\ Current(s).ring = obj[Id(s)].ring
                /\ Current(s).lease = obj[Id(s)].lease
                /\ Current(s).flight = obj[Id(s)].flight
           /\ Id(s) \notin 1..Len(obj) =>
                /\ Current(s).ring = <<>> /\ ~Current(s).flight
                /\ \A r \in Rules, g \in Sigs : ~Current(s).lease[r][g].armed
<1>0. now \in Nat /\ sess[s] \in 0..Len(obj) /\ Len(obj) \in Nat
  BY Limits, LenProperties DEF Types
<1>1. CASE sess[s] = 0
  <2>1. Current(s) = NewObject(now) /\ Id(s) \notin 1..Len(obj)
    BY <1>0, <1>1 DEF Current, Id
  <2> QED
    BY <1>0, <2>1, NewObjectIs, NoLeaseIs
<1>2. CASE sess[s] # 0
  <2>1. /\ Id(s) = sess[s] /\ Id(s) \in 1..Len(obj)
        /\ Current(s) = [obj[Id(s)] EXCEPT !.seen = now]
    BY <1>0, <1>2 DEF Current, Id
  <2>2. obj[Id(s)] \in Object
    BY <2>1, ElementOfSeq DEF Types
  <2> HIDE DEF Id
  <2> QED
    BY <1>0, <2>1, <2>2 DEF Object
<1> QED
  BY <1>1, <1>2

LEMMA StoreUpdates ==
    ASSUME Types, NEW s \in Sessions, NEW o \in Object, Store(s, o)
    PROVE  Updated(Id(s), o)
<1>0. sess[s] \in 0..Len(obj) /\ Len(obj) \in Nat /\ obj \in Seq(Object)
  BY LenProperties DEF Types
<1>1. CASE sess[s] = 0
  <2>1. obj' = Append(obj, o) /\ Id(s) = Len(obj) + 1
    BY <1>1 DEF Store, Id
  <2> QED
    BY <1>0, <2>1, AppendObject
<1>2. CASE sess[s] # 0
  <2>1. obj' = [obj EXCEPT ![Id(s)] = o] /\ Id(s) \in 1..Len(obj)
    BY <1>0, <1>2 DEF Store, Id
  <2> QED
    BY <1>0, <2>1, UpdateObject
<1> QED
  BY <1>1, <1>2

\* The ring with the current call in it: bounded, the call last, the rest old.
LEMMA BoundedRing ==
    ASSUME NEW ring \in Seq(Calls), NEW c \in Calls
    PROVE  LET b == Bounded(Append(ring, c))
           IN  /\ b \in Seq(Calls) /\ Len(b) >= 1 /\ Len(b) <= RingMax
               /\ b[Len(b)] = c
               /\ \A j \in 1..(Len(b) - 1) :
                     \E k \in 1..Len(ring) : b[j] = ring[k]
<1> DEFINE a == Append(ring, c)
           n == Len(ring)
<1>1. /\ a \in Seq(Calls) /\ Len(a) = n + 1 /\ n \in Nat
      /\ \A k \in 1..n : a[k] = ring[k]
      /\ a[n + 1] = c
  BY AppendProperties, LenProperties
<1>2. RingMax \in Nat \ {0}
  BY Limits
<1> HIDE DEF a, n
<1>3. CASE Len(a) > RingMax
  <2> DEFINE m == Len(a) - RingMax + 1
             b == SubSeq(a, m, Len(a))
  <2>1. m \in 1..Len(a) /\ Len(a) - m + 1 = RingMax /\ Len(a) \in Nat
    BY <1>1, <1>2, <1>3
  <2>2. \A k \in m..Len(a) : a[k] \in Calls
    BY <1>1, <2>1, ElementOfSeq
  <2>3. /\ b \in Seq(Calls) /\ Len(b) = RingMax
        /\ \A j \in 1..RingMax : b[j] = a[m + j - 1]
    <3> HIDE DEF m
    <3>1. /\ SubSeq(a, m, Len(a)) \in Seq(Calls)
          /\ Len(SubSeq(a, m, Len(a))) = IF m <= Len(a) THEN Len(a) - m + 1 ELSE 0
          /\ \A j \in 1..(Len(a) - m + 1) : SubSeq(a, m, Len(a))[j] = a[m + j - 1]
      BY <2>1, <2>2, SubSeqProperties
    <3> QED
      BY <2>1, <3>1
  <2>4. b[RingMax] = c
    BY <1>1, <1>2, <2>3
  <2>5. \A j \in 1..(RingMax - 1) : \E k \in 1..n : b[j] = ring[k]
    <3> SUFFICES ASSUME NEW j \in 1..(RingMax - 1)
                 PROVE  \E k \in 1..n : b[j] = ring[k]
      OBVIOUS
    <3>1. m + j - 1 \in 1..n /\ j \in 1..RingMax
      BY <1>1, <1>2, <1>3
    <3> QED
      BY <1>1, <2>3, <3>1
  <2>6. Bounded(a) = b
    BY <1>3 DEF Bounded
  <2> HIDE DEF b
  <2> QED
    BY <1>2, <2>3, <2>4, <2>5, <2>6 DEF a, n
<1>4. CASE ~(Len(a) > RingMax)
  <2>1. Bounded(a) = a
    BY <1>4 DEF Bounded
  <2> QED
    BY <1>1, <1>2, <1>4, <2>1 DEF a, n
<1> QED
  BY <1>3, <1>4

\* The scan drops the expired leases of the signature and nothing else.
LEMMA ScanIs ==
    ASSUME NEW o \in Object, NEW g \in Sigs, NEW t \in Nat
    PROVE  /\ Scan(o, g, t) \in Object /\ Scan(o, g, t).ring = o.ring
           /\ Scan(o, g, t).flight = o.flight
           /\ \A r \in Rules, h \in Sigs :
                Scan(o, g, t).lease[r][h] =
                    IF h = g /\ Expired(o.lease[r][g], t) THEN NoLease
                    ELSE o.lease[r][h]
<1> DEFINE L == [r \in Rules |->
                   [o.lease[r] EXCEPT ![g] = IF Expired(o.lease[r][g], t) THEN NoLease
                                             ELSE o.lease[r][g]]]
<1>1. o.lease \in [Rules -> [Sigs -> Lease]]
  BY DEF Object
<1>2. L \in [Rules -> [Sigs -> Lease]]
  BY <1>1, NoLeaseIs
<1>3. \A r \in Rules, h \in Sigs :
          L[r][h] = IF h = g /\ Expired(o.lease[r][g], t) THEN NoLease
                    ELSE o.lease[r][h]
  BY <1>1
<1>4. Scan(o, g, t) = [o EXCEPT !.lease = L]
  BY DEF Scan
<1> HIDE DEF L
<1> QED
  BY <1>2, <1>3, <1>4 DEF Object

\* A denial changes the lease of its rule and signature and nothing else of
\* the ring, the slot or the leases.
LEMMA ArmedIs ==
    ASSUME NEW o \in Object, NEW r \in Rules, NEW g \in Sigs, NEW t \in Nat,
           NEW leased \in BOOLEAN
    PROVE  LET a == Armed(o, r, g, t, leased) IN
           /\ a \in Object /\ a.ring = o.ring /\ a.flight = o.flight
           /\ Hit(o, r, g, t, leased) \in Lease
           /\ \A q \in Rules, h \in Sigs :
                a.lease[q][h] = IF q = r /\ h = g THEN Hit(o, r, g, t, leased)
                                ELSE o.lease[q][h]
<1> DEFINE l == Hit(o, r, g, t, leased)
           L == [o.lease EXCEPT ![r][g] = l]
           n == IF o.accrued = 0 THEN 0 ELSE o.accrued - 1
<1>1. o.lease \in [Rules -> [Sigs -> Lease]] /\ o.accrued \in Nat
  BY DEF Object
<1>2. l \in Lease
  <2>1. o.lease[r][g] \in Lease /\ LeaseTime[r] \in Nat
    BY <1>1, Limits
  <2> QED
    BY <2>1 DEF Hit, Lease
<1> HIDE DEF l
<1>3. /\ L \in [Rules -> [Sigs -> Lease]]
      /\ \A q \in Rules, h \in Sigs :
            L[q][h] = IF q = r /\ h = g THEN l ELSE o.lease[q][h]
  BY <1>1, <1>2
<1>4. n \in Nat
  BY <1>1
<1>5. Armed(o, r, g, t, leased) = [o EXCEPT !.lease = L, !.accrued = n]
  BY DEF Armed, l
<1> HIDE DEF L, n
<1>6. LET a == [o EXCEPT !.lease = L, !.accrued = n]
      IN  a \in Object /\ a.ring = o.ring /\ a.flight = o.flight /\ a.lease = L
  BY <1>3, <1>4 DEF Object
<1> QED
  BY <1>2, <1>3, <1>5, <1>6 DEF l

-----------------------------------------------------------------------------
(* Steps.                                                                  *)

\* What every step of a hook does to call c and object i, which becomes o; the
\* slots are left to the lemmas above.
Effect(c, i, o) ==
    /\ o \in Object /\ Updated(i, o) /\ Evolved(c) /\ now' = now
    /\ sess' \in [Sessions -> 0..Len(obj')]
    /\ call[c].step # "ran" /\ call'[c].step \notin {"none", "ran"}
    /\ call'[c].result = "none" /\ call'[c].known \notin Adverse
    /\ call[c].step # "none" =>
          call'[c].obj = call[c].obj /\ call'[c].ts = call[c].ts
    /\ Len(o.ring) <= RingMax
    /\ \A j \in 1..Len(o.ring) :
          \/ Older(i, o.ring[j])
          \/ o.ring[j] = c /\ call'[c].obj = i /\ call'[c].ts <= now
    /\ \A r \in Rules, g \in Sigs :
          /\ i \in 1..Len(obj) => Stands(obj[i].lease[r][g], o.lease[r][g])
          /\ HitOnce(o.lease[r][g])
    /\ \/ denials' = denials
       \/ \E e : /\ NewDenial(e, i, o) /\ denials' = denials \cup {e}
                 /\ e.hit = 1 => Evidence(e.obj, e.sig, e.at, Needed(e.rule))

LEMMA EffectKeeps ==
    ASSUME ProgressInv, NEW c \in Calls, NEW i, NEW o, Effect(c, i, o),
           busy' \in 0..Global, SlotOK'
    PROVE  ProgressInv'
<1>0. /\ Types /\ KnownOK /\ RingOK /\ LeaseOK /\ DenialOK /\ DenialHasEvidence
  BY DEF ProgressInv
<1>1. /\ o \in Object /\ Updated(i, o) /\ Evolved(c) /\ now' = now
      /\ call[c].result = "none"
  BY <1>0 DEF Effect, KnownOK
<1>2. KnownOK'
  BY <1>0, <1>1, KnownStep DEF Effect
<1>3. RingOK'
  <2>1. /\ call[c].step # "none" =>
               /\ call'[c].step # "none" /\ call'[c].obj = call[c].obj
               /\ call'[c].ts = call[c].ts
        /\ Len(o.ring) <= RingMax
        /\ \A j \in 1..Len(o.ring) :
               \/ Older(i, o.ring[j])
               \/ /\ o.ring[j] = c /\ call'[c].step # "none"
                  /\ call'[c].obj = i /\ call'[c].ts <= now
    BY DEF Effect
  <2> QED
    BY <1>0, <1>1, <2>1, RingStep
<1>4. LeaseOK'
  BY <1>0, <1>1, LeaseStep DEF Effect
<1>5. DenialOK' /\ denials' \subseteq Denial
  BY <1>0, <1>1, DenialStep DEF Effect
<1>6. DenialHasEvidence'
  <2>1. ASSUME NEW d \in Denial, Evidence(d.obj, d.sig, d.at, Needed(d.rule))
        PROVE  Evidence(d.obj, d.sig, d.at, Needed(d.rule))'
    <3>1. Needed(d.rule) \in Nat
      BY Limits DEF Needed
    <3> QED
      BY <1>1, <2>1, <3>1, EvidenceGrows
  <2>2. \A d \in denials' : d.hit = 1 => Evidence(d.obj, d.sig, d.at, Needed(d.rule))
    BY <1>0, EvidenceIs DEF Effect
  <2>3. \A d \in denials' : d.hit = 1 => Evidence(d.obj, d.sig, d.at, Needed(d.rule))'
    BY <1>5, <2>1, <2>2
  <2>4. DenialHasEvidence' <=>
           \A d \in denials' : d.hit = 1 => Evidence(d.obj, d.sig, d.at, Needed(d.rule))'
    BY DEF DenialHasEvidence, Evidence, Failed, Needed
  <2> QED
    BY <2>3, <2>4
<1>7. Types'
  BY <1>0, <1>1, <1>5 DEF Types, Effect, Updated, Evolved
<1> QED
  BY <1>2, <1>3, <1>4, <1>5, <1>6, <1>7 DEF ProgressInv

\* What a hook's synchronous part leaves behind: its session's object as x and
\* its call as n.
Leaves(c, s, x, n) ==
    /\ call[c].step = "none" /\ now' = now /\ \E v : sess' = Rooms(s, v)
    /\ x \in Object /\ Store(s, x)
    /\ n \in CallRec /\ call' = [call EXCEPT ![c] = n]
    /\ n.step \in {"allowed", "denied", "history"} /\ n.known = "none"
    /\ n.result = "none" /\ n.ts = now
    /\ \/ x.ring = Current(s).ring
       \/ x.ring = Bounded(Append(Current(s).ring, c)) /\ n.obj = Id(s)
    /\ \A r \in Rules, g \in Sigs :
          Stands(Current(s).lease[r][g], x.lease[r][g]) /\ HitOnce(x.lease[r][g])
    /\ \/ denials' = denials
       \/ \E e : /\ NewDenial(e, Id(s), x) /\ denials' = denials \cup {e}
                 /\ e.hit = 1 => Evidence(e.obj, e.sig, e.at, Needed(e.rule))

LEMMA InvokeEffect ==
    ASSUME ProgressInv, NEW c \in Calls, NEW s \in Sessions, NEW x, NEW n,
           Leaves(c, s, x, n)
    PROVE  Effect(c, Id(s), x) /\ call'[c] = n
<1>a. /\ call[c].step = "none" /\ now' = now /\ \E v : sess' = Rooms(s, v)
       /\ x \in Object /\ Store(s, x)
       /\ n \in CallRec /\ call' = [call EXCEPT ![c] = n]
       /\ n.step \in {"allowed", "denied", "history"} /\ n.known = "none"
       /\ n.result = "none" /\ n.ts = now
       /\ \/ x.ring = Current(s).ring
          \/ x.ring = Bounded(Append(Current(s).ring, c)) /\ n.obj = Id(s)
       /\ \A r \in Rules, g \in Sigs :
             Stands(Current(s).lease[r][g], x.lease[r][g]) /\ HitOnce(x.lease[r][g])
       /\ \/ denials' = denials
          \/ \E e : /\ NewDenial(e, Id(s), x) /\ denials' = denials \cup {e}
                    /\ e.hit = 1 => Evidence(e.obj, e.sig, e.at, Needed(e.rule))
  BY DEF Leaves
<1> USE <1>a
<1> DEFINE i == Id(s)
<1>0. Types /\ RingOK /\ call \in [Calls -> CallRec] /\ sess \in [Sessions -> 0..Len(obj)]
      /\ Len(obj) \in Nat /\ now \in Nat
  BY LenProperties, Limits DEF ProgressInv, Types
<1>1. Updated(i, x)
  BY <1>0, StoreUpdates
<1>2. call'[c] = n /\ Evolved(c)
  BY <1>0 DEF Evolved, Kept
<1>3. sess' \in [Sessions -> 0..Len(obj')]
  <2>0. PICK v : sess' = Rooms(s, v)
    OBVIOUS
  <2>1. 0..Len(obj) \subseteq 0..Len(obj') /\ (sess[s] = 0 => Len(obj) + 1 \in 0..Len(obj'))
    BY <1>0, <1>1 DEF Updated, Id
  <2> QED
    BY <1>0, <2>0, <2>1 DEF Rooms
<1>4. /\ Current(s) \in Object
      /\ i \in 1..Len(obj) => /\ Current(s).ring = obj[i].ring
                              /\ Current(s).lease = obj[i].lease
      /\ i \notin 1..Len(obj) => Current(s).ring = <<>>
  BY <1>0, CurrentIs
<1>5. Len(Current(s).ring) \in Nat /\ Current(s).ring \in Seq(Calls)
  BY <1>4, LenProperties DEF Object
<1> HIDE DEF i
<1>6. /\ Len(Current(s).ring) <= RingMax
      /\ \A k \in 1..Len(Current(s).ring) : Older(i, Current(s).ring[k])
  <2>1. CASE i \in 1..Len(obj)
    BY <1>0, <1>4, <2>1 DEF RingOK, Older
  <2>2. CASE i \notin 1..Len(obj)
    <3>1. Len(Current(s).ring) = 0
      BY <1>4, <2>2, EmptySeq
    <3> QED
      BY <3>1, Limits
  <2> QED
    BY <2>1, <2>2
<1>7. /\ Len(x.ring) <= RingMax
      /\ \A j \in 1..Len(x.ring) :
            Older(i, x.ring[j]) \/ (x.ring[j] = c /\ n.obj = i)
  <2>1. CASE x.ring = Current(s).ring
    BY <1>6, <2>1
  <2>2. CASE x.ring = Bounded(Append(Current(s).ring, c)) /\ n.obj = i
    <3> DEFINE b == Bounded(Append(Current(s).ring, c))
    <3>1. /\ Len(b) <= RingMax /\ b[Len(b)] = c
          /\ b \in Seq(Calls) /\ Len(b) >= 1
          /\ \A j \in 1..(Len(b) - 1) :
                \E k \in 1..Len(Current(s).ring) : b[j] = Current(s).ring[k]
      BY <1>5, BoundedRing
    <3>2. Len(b) \in Nat
      BY <3>1, LenProperties
    <3> HIDE DEF b
    <3>3. \A j \in 1..Len(b) : j = Len(b) \/ j \in 1..(Len(b) - 1)
      BY <3>2
    <3>4. \A j \in 1..Len(b) : Older(i, b[j]) \/ b[j] = c
      BY <1>6, <3>1, <3>3
    <3> QED
      BY <2>2, <3>1, <3>4 DEF b
  <2> QED
    BY <2>1, <2>2 DEF i
<1>8. \A r \in Rules, g \in Sigs :
          /\ i \in 1..Len(obj) => Stands(obj[i].lease[r][g], x.lease[r][g])
          /\ HitOnce(x.lease[r][g])
  BY <1>4
<1>9. "none" \notin Adverse
  BY ProgressAssumption
<1>10. \A j \in 1..Len(x.ring) :
          \/ Older(i, x.ring[j])
          \/ x.ring[j] = c /\ call'[c].obj = i /\ call'[c].ts <= now
  BY <1>0, <1>2, <1>7
<1>11. /\ call[c].step = "none" /\ now' = now /\ x \in Object
       /\ call'[c].step \notin {"none", "ran"}
       /\ call'[c].result = "none" /\ call'[c].known \notin Adverse
  BY <1>2, <1>9
<1>12. \/ denials' = denials
       \/ \E e : /\ NewDenial(e, i, x) /\ denials' = denials \cup {e}
                 /\ e.hit = 1 => Evidence(e.obj, e.sig, e.at, Needed(e.rule))
  BY ONLY Leaves(c, s, x, n) DEF Leaves, i
<1>13. Effect(c, i, x)
  BY ONLY <1>1, <1>2, <1>3, <1>7, <1>8, <1>10, <1>11, <1>12 DEF Effect
<1> QED
  BY ONLY <1>2, <1>13 DEF i

\* The object with the call in its ring, and what the lease scan leaves of it.
Seen(c, s, g) ==
    [Current(s) EXCEPT !.ring = Bounded(Append(@, c)),
                       !.accrued = IF g \notin Exempt THEN @ + 1 ELSE @]
Found(c, s, g) == Scan(Seen(c, s, g), g, now)
Obs(s, g) == [NoCall EXCEPT !.obj = Id(s), !.sig = g, !.ts = now]

LEMMA SeenIs ==
    ASSUME Types, NEW c \in Calls, NEW s \in Sessions, NEW g \in Sigs
    PROVE  /\ Seen(c, s, g) \in Object
           /\ Seen(c, s, g).ring = Bounded(Append(Current(s).ring, c))
           /\ Seen(c, s, g).lease = Current(s).lease
           /\ Seen(c, s, g).flight = Current(s).flight
<1>1. Current(s) \in Object
  BY CurrentIs
<1>2. Current(s).ring \in Seq(Calls) /\ Current(s).accrued \in Nat
  BY <1>1 DEF Object
<1> DEFINE b == Bounded(Append(Current(s).ring, c))
           a == IF g \notin Exempt THEN Current(s).accrued + 1 ELSE Current(s).accrued
<1>3. b \in Seq(Calls) /\ a \in Nat
  <2>1. b \in Seq(Calls)
    BY <1>2, BoundedRing
  <2>2. a \in Nat
    BY <1>2
  <2> QED
    BY <2>1, <2>2
<1>4. Seen(c, s, g) = [Current(s) EXCEPT !.ring = b, !.accrued = a]
  BY DEF Seen
<1> HIDE DEF a, b
<1>5. /\ Seen(c, s, g) \in Object /\ Seen(c, s, g).ring = b
      /\ Seen(c, s, g).lease = Current(s).lease
      /\ Seen(c, s, g).flight = Current(s).flight
  BY <1>1, <1>3, <1>4 DEF Object
<1> QED
  BY <1>5 DEF b

\* Every lease a hook finds has been hit.
LEMMA CurrentLease ==
    ASSUME Types, LeaseOK, NEW s \in Sessions, NEW r \in Rules, NEW g \in Sigs
    PROVE  Current(s).lease[r][g] \in Lease /\ HitOnce(Current(s).lease[r][g])
<1>1. Current(s) \in Object
  BY CurrentIs
<1>2. Current(s).lease[r][g] \in Lease
  BY <1>1 DEF Object
<1>3. CASE Id(s) \in 1..Len(obj)
  BY <1>2, <1>3, CurrentIs DEF LeaseOK, HitOnce
<1>4. CASE Id(s) \notin 1..Len(obj)
  BY <1>2, <1>4, CurrentIs DEF HitOnce
<1> QED
  BY <1>2, <1>3, <1>4

LEMMA FoundIs ==
    ASSUME Types, LeaseOK, NEW c \in Calls, NEW s \in Sessions, NEW g \in Sigs
    PROVE  /\ Found(c, s, g) \in Object
           /\ Found(c, s, g).ring = Bounded(Append(Current(s).ring, c))
           /\ Found(c, s, g).flight = Current(s).flight
           /\ \A r \in Rules, h \in Sigs :
                /\ Stands(Current(s).lease[r][h], Found(c, s, g).lease[r][h])
                /\ HitOnce(Found(c, s, g).lease[r][h])
           /\ \A r \in Rules :
                /\ ~Found(c, s, g).lease[r][g].armed =>
                       ~(/\ Current(s).lease[r][g].armed
                         /\ now < Current(s).lease[r][g].until)
                /\ Found(c, s, g).lease[r][g].armed =>
                       Found(c, s, g).lease[r][g] = Current(s).lease[r][g]
<1>0. now \in Nat
  BY Limits DEF Types
<1>1. /\ Found(c, s, g) \in Object
      /\ Found(c, s, g).ring = Bounded(Append(Current(s).ring, c))
      /\ Found(c, s, g).flight = Current(s).flight
      /\ \A r \in Rules, h \in Sigs :
            Found(c, s, g).lease[r][h] =
                IF h = g /\ Expired(Current(s).lease[r][g], now) THEN NoLease
                ELSE Current(s).lease[r][h]
  BY <1>0, SeenIs, ScanIs DEF Found
<1>2. \A r \in Rules, h \in Sigs :
          Current(s).lease[r][h] \in Lease /\ HitOnce(Current(s).lease[r][h])
  BY CurrentLease
<1>3. \A r \in Rules, h \in Sigs : Current(s).lease[r][h].until \in Nat
  BY <1>2 DEF Lease
<1>4. \A r \in Rules, h \in Sigs :
          /\ Stands(Current(s).lease[r][h], Found(c, s, g).lease[r][h])
          /\ HitOnce(Found(c, s, g).lease[r][h])
  BY <1>0, <1>1, <1>2, <1>3, NoLeaseIs DEF Stands, HitOnce, Expired
<1>5. \A r \in Rules :
          /\ ~Found(c, s, g).lease[r][g].armed =>
                ~(Current(s).lease[r][g].armed /\ now < Current(s).lease[r][g].until)
          /\ Found(c, s, g).lease[r][g].armed =>
                Found(c, s, g).lease[r][g] = Current(s).lease[r][g]
  BY <1>0, <1>1, <1>3, NoLeaseIs DEF Expired
<1> QED
  BY <1>1, <1>4, <1>5

LEMMA ObsIs ==
    ASSUME Types, NEW s \in Sessions, NEW g \in Sigs
    PROVE  /\ Obs(s, g) \in CallRec /\ Obs(s, g).known = "none"
           /\ Obs(s, g).result = "none" /\ Obs(s, g).ts = now /\ Obs(s, g).obj = Id(s)
<1>1. NoCall \in CallRec /\ NoCall.known = "none" /\ NoCall.result = "none"
  BY ProgressAssumption DEF NoCall, CallRec, CallSteps
<1>2. Id(s) \in Nat /\ now \in Nat
  BY LenProperties, Limits DEF Id, Types
<1> QED
  BY <1>1, <1>2 DEF Obs, CallRec

\* A hook that returns or throws without waiting.
LEMMA InvokeQuick ==
    ASSUME ProgressInv, NEW c \in Calls, NEW s \in Sessions, call[c].step = "none",
           NEW i, i = Id(s), NEW n, NEW x, Effect(c, i, x), call'[c] = n,
           n.step \in {"allowed", "denied"}, x.flight = Current(s).flight,
           busy' = busy
    PROVE  ProgressInv'
<1>1. Types /\ SlotOK
  BY DEF ProgressInv
<1>2. /\ i \in 1..Len(obj) => x.flight = obj[i].flight
      /\ i \notin 1..Len(obj) => ~x.flight
  BY <1>1, CurrentIs
<1>3. ~InFlight(c) /\ call'[c].step \notin {"history", "judge", "leave"}
  BY DEF InFlight
<1>4. SlotOK'
  BY <1>1, <1>2, <1>3, SlotFrame DEF Effect
<1>5. busy' \in 0..Global
  BY <1>1 DEF Types
<1> QED
  BY <1>4, <1>5, EffectKeeps

\* The prior run of a signature that the mechanical rule saw fail is evidence.
LEMMA MechEvidence ==
    ASSUME ProgressInv, NEW c \in Calls, NEW s \in Sessions, NEW g \in Sigs,
           NEW b, b = Bounded(Append(Current(s).ring, c)),
           Mechanical(SubSeq(b, 1, Len(b) - 1), g, now)
    PROVE  Evidence(Id(s), g, now, 2)
<1> DEFINE a == SubSeq(b, 1, Len(b) - 1)
           i == Id(s)
<1>1. Types /\ KnownOK /\ RingOK
  BY DEF ProgressInv
<1>2. Current(s) \in Object /\ Current(s).ring \in Seq(Calls)
  BY <1>1, CurrentIs DEF Object
<1>3. /\ b \in Seq(Calls) /\ Len(b) >= 1 /\ Len(b) \in Nat
      /\ \A j \in 1..(Len(b) - 1) :
            \E k \in 1..Len(Current(s).ring) : b[j] = Current(s).ring[k]
  <2>1. /\ b \in Seq(Calls) /\ Len(b) >= 1
        /\ \A j \in 1..(Len(b) - 1) :
              \E k \in 1..Len(Current(s).ring) : b[j] = Current(s).ring[k]
    BY <1>2, BoundedRing
  <2> QED
    BY <2>1, LenProperties
<1>4. Len(a) = Len(b) - 1 /\ \A j \in 1..Len(a) : a[j] = b[j]
  <2> DEFINE m == Len(b) - 1
  <2>1. m \in Nat /\ m <= Len(b) /\ \A k \in 1..m : b[k] \in Calls
    BY <1>3, ElementOfSeq
  <2>2. /\ Len(SubSeq(b, 1, m)) = IF 1 <= m THEN m - 1 + 1 ELSE 0
        /\ \A j \in 1..(m - 1 + 1) : SubSeq(b, 1, m)[j] = b[1 + j - 1]
    <3> HIDE DEF m
    <3> QED
      BY <2>1, SubSeqProperties
  <2>3. \A j \in 1..m : 1 + j - 1 = j
    BY <2>1
  <2> HIDE DEF m
  <2>4. Len(SubSeq(b, 1, m)) = m /\ \A j \in 1..m : SubSeq(b, 1, m)[j] = b[j]
    BY <2>1, <2>2, <2>3
  <2> QED
    BY <2>4 DEF m
<1>5. ASSUME NEW j \in 1..Len(a)
      PROVE  /\ a[j] \in Calls /\ call[a[j]].obj = i /\ call[a[j]].ts <= now
  <2>1. PICK k \in 1..Len(Current(s).ring) : a[j] = Current(s).ring[k]
    BY <1>3, <1>4
  <2>2. Current(s).ring[k] \in Calls
    BY <1>2, ElementOfSeq
  <2>3. CASE i \in 1..Len(obj)
    <3>1. Current(s).ring = obj[i].ring
      BY <1>1, <2>3, CurrentIs
    <3> QED
      BY <1>1, <2>1, <2>2, <2>3, <3>1, SMTT(20) DEF RingOK
  <2>4. CASE i \notin 1..Len(obj)
    <3>1. Current(s).ring = <<>>
      BY <1>1, <2>4, CurrentIs
    <3>2. Len(Current(s).ring) = 0
      BY <3>1, EmptySeq
    <3> QED
      BY <3>2
  <2> QED
    BY <2>3, <2>4
<1> HIDE DEF a
<1> DEFINE run == TrailingRun(a, g)
           outs == {d \in {a[j] : j \in run} : call[d].known # "none"}
<1>6. Unchanged(outs, 2)
  BY DEF Mechanical, a
<1>7. \A j \in run : j \in 1..Len(a) /\ call[a[j]].sig = g
  <2>1. Len(a) \in Nat
    BY <1>3, <1>4
  <2> QED
    BY <2>1 DEF TrailingRun
<1>8. outs \subseteq Calls
  BY <1>5, <1>7
<1>9. \A d \in outs : call[d].obj = i /\ call[d].sig = g /\ call[d].ts <= now
  BY <1>5, <1>7
<1> HIDE DEF outs, run, i
<1>10. Evidence(i, g, now, 2)
  BY <1>1, <1>6, <1>8, <1>9, RealEvidence
<1> QED
  BY <1>10 DEF i

\* The lease in which a denial of a hook's synchronous part is counted.
LEMMA DenyLease ==
    ASSUME ProgressInv, NEW c \in Calls, NEW s \in Sessions, NEW g \in Sigs,
           NEW o, o = Found(c, s, g), NEW r \in Rules, NEW leased \in BOOLEAN,
           leased => Denies(o.lease[r][g], r, now),
           ~leased => /\ r = "mechanical" /\ MechOpen(o, g)
                      /\ Mechanical(SubSeq(Seen(c, s, g).ring, 1,
                                           Len(Seen(c, s, g).ring) - 1), g, now)
    PROVE  LET l == Hit(o, r, g, now, leased)
               x == Armed(o, r, g, now, leased)
               e == [obj |-> Id(s), rule |-> r, sig |-> g, at |-> now, call |-> c,
                     hit |-> l.hits]
           IN  /\ x \in Object /\ x.ring = o.ring /\ x.flight = o.flight
               /\ \A q \in Rules, h \in Sigs :
                     /\ Stands(Current(s).lease[q][h], x.lease[q][h])
                     /\ HitOnce(x.lease[q][h])
               /\ NewDenial(e, Id(s), x)
               /\ e.hit = 1 => Evidence(e.obj, e.sig, e.at, Needed(e.rule))
<1> DEFINE l == Hit(o, r, g, now, leased)
           x == Armed(o, r, g, now, leased)
           e == [obj |-> Id(s), rule |-> r, sig |-> g, at |-> now, call |-> c,
                 hit |-> l.hits]
           cur == Current(s).lease[r][g]
<1>0. Types /\ LeaseOK /\ now \in Nat /\ Id(s) \in Nat /\ LeaseTime[r] \in Nat
      /\ MaxDenials[r] \in Nat \ {0}
  BY Limits, LenProperties DEF ProgressInv, Types, Id
<1>1. /\ o \in Object
      /\ \A q \in Rules, h \in Sigs :
           /\ Stands(Current(s).lease[q][h], o.lease[q][h])
           /\ HitOnce(o.lease[q][h])
      /\ ~o.lease[r][g].armed => ~(cur.armed /\ now < cur.until)
  BY <1>0, FoundIs
<1>2. /\ x \in Object /\ x.ring = o.ring /\ x.flight = o.flight /\ l \in Lease
      /\ \A q \in Rules, h \in Sigs :
            x.lease[q][h] = IF q = r /\ h = g THEN l ELSE o.lease[q][h]
  <2>1. o \in Object /\ now \in Nat
    BY <1>0, <1>1
  <2> QED
    BY ONLY <2>1, r \in Rules, g \in Sigs, leased \in BOOLEAN, ArmedIs
<1>3. o.lease[r][g] \in Lease
  BY <1>1 DEF Object
<1>4. CASE leased
  <2>1. l = [o.lease[r][g] EXCEPT !.hits = @ + 1]
    BY <1>4 DEF Hit
  <2>2. /\ o.lease[r][g].armed /\ o.lease[r][g].hits < MaxDenials[r]
        /\ o.lease[r][g].hits \in Nat
    BY <1>0, <1>3, <1>4 DEF Denies, Capped, Lease
  <2>3. o.lease[r][g].hits >= 1
    BY <1>1, <2>2 DEF HitOnce
  <2>4. /\ l.hits >= 2 /\ l.hits <= MaxDenials[r] /\ l.hits \in Nat
        /\ l.armed = o.lease[r][g].armed /\ l.until = o.lease[r][g].until
    <3> DEFINE k == o.lease[r][g]
    <3> HIDE DEF l, k
    <3>1. /\ l.hits = k.hits + 1 /\ l.armed = k.armed /\ l.until = k.until
      BY <1>3, <2>1 DEF k, Lease
    <3>2. k.hits \in Nat /\ k.hits >= 1 /\ k.hits < MaxDenials[r]
      BY <2>2, <2>3 DEF k
    <3> QED
      BY <1>0, <3>1, <3>2 DEF k
  <2> HIDE DEF l, x
  <2>5. \A q \in Rules, h \in Sigs :
            /\ Stands(Current(s).lease[q][h], x.lease[q][h])
            /\ HitOnce(x.lease[q][h])
    BY <1>1, <1>2, <2>4 DEF Stands, HitOnce
  <2>6. NewDenial(e, Id(s), x) /\ e.hit # 1
    <3>1. e \in Denial /\ e.obj = Id(s) /\ e.at = now /\ e.hit = l.hits /\ e.rule = r
      BY <1>0, <2>4 DEF Denial
    <3> QED
      BY <2>4, <3>1 DEF NewDenial
  <2> QED
    BY <1>2, <2>5, <2>6 DEF l, x
<1>5. CASE ~leased
  <2>1. l = [hits |-> 1, until |-> now + LeaseTime[r], armed |-> TRUE]
    BY <1>5 DEF Hit
  <2>2. l.hits = 1 /\ l.until = now + LeaseTime[r] /\ l.armed
    BY <2>1
  <2>3. r = "mechanical" /\ ~o.lease[r][g].armed
    BY <1>5 DEF MechOpen
  <2> HIDE DEF l, x
  <2>4. \A q \in Rules, h \in Sigs :
            /\ Stands(Current(s).lease[q][h], x.lease[q][h])
            /\ HitOnce(x.lease[q][h])
    BY <1>1, <1>2, <2>2, <2>3 DEF Stands, HitOnce
  <2>5. /\ e \in Denial /\ e.obj = Id(s) /\ e.at = now /\ e.hit = 1 /\ e.rule = r
        /\ e.sig = g
    BY <1>0, <2>2 DEF Denial
  <2>6. Id(s) \in 1..Len(obj) => obj[Id(s)].lease[r][g] = cur
    BY <1>0, CurrentIs
  <2>7. NewDenial(e, Id(s), x)
    BY <1>0, <1>1, <1>2, <2>2, <2>3, <2>5, <2>6 DEF NewDenial
  <2>8. Evidence(Id(s), g, now, 2)
    <3>1. Seen(c, s, g).ring = Bounded(Append(Current(s).ring, c))
      BY <1>0, SeenIs
    <3> QED
      BY <1>5, <3>1, MechEvidence
  <2>9. Evidence(e.obj, e.sig, e.at, Needed(e.rule))
    BY <2>3, <2>5, <2>8 DEF Needed
  <2> QED
    BY <1>2, <2>4, <2>7, <2>9 DEF l, x
<1> QED
  BY <1>4, <1>5

LEMMA InvokeStep ==
    ASSUME ProgressInv, NEW c \in Calls, NEW s \in Sessions, NEW g \in Sigs,
           Invoke(c, s, g)
    PROVE  ProgressInv'
<1> DEFINE seen == Seen(c, s, g)
           o == Found(c, s, g)
           can == CanDeny(Current(s), now)
           off == Mode(Current(s), now) = "off"
           leased == Leased(o, g, now)
           mech == MechOpen(o, g) /\ Mechanical(SubSeq(seen.ring, 1, Len(seen.ring) - 1),
                                                g, now)
           obs == Obs(s, g)
           n1 == [obs EXCEPT !.step = "allowed", !.obj = IF off THEN 0 ELSE Id(s)]
           r == IF leased = {} \/ "mechanical" \in leased THEN "mechanical" ELSE "semantic"
           n2 == [obs EXCEPT !.step = IF can THEN "denied" ELSE "allowed", !.own = can]
           n3 == [obs EXCEPT !.step = "allowed"]
           n4 == [obs EXCEPT !.step = "history", !.until = now + Deadline,
                             !.s = s, !.can = can]
           x4 == [o EXCEPT !.last = now, !.accrued = 0, !.flight = TRUE]
<1>0. Types /\ LeaseOK /\ SlotOK /\ now \in Nat /\ Deadline \in Nat /\ Id(s) \in Nat
  BY Limits, LenProperties DEF ProgressInv, Types, Id
<1>1. call[c].step = "none" /\ now' = now /\ \E v : sess' = Rooms(s, v)
  BY DEF Invoke
<1>3. \/ /\ Store(s, IF off THEN Current(s) ELSE seen)
         /\ call' = [call EXCEPT ![c] = n1] /\ busy' = busy /\ denials' = denials
      \/ /\ leased # {} \/ mech
         /\ Store(s, IF can THEN Armed(o, r, g, now, leased # {}) ELSE o)
         /\ IF can THEN Denied(c, Id(s), r, g, Hit(o, r, g, now, leased # {}))
            ELSE denials' = denials
         /\ call' = [call EXCEPT ![c] = n2] /\ busy' = busy
      \/ /\ Store(s, o) /\ call' = [call EXCEPT ![c] = n3]
         /\ busy' = busy /\ denials' = denials
      \/ /\ MayAssess(o, now) /\ Store(s, x4) /\ call' = [call EXCEPT ![c] = n4]
         /\ busy' = busy + 1 /\ denials' = denials
  BY DEF Invoke, Seen, Found, Obs, Id
<1>4. /\ Current(s) \in Object
      /\ \A q \in Rules, h \in Sigs : HitOnce(Current(s).lease[q][h])
  BY <1>0, CurrentIs, CurrentLease
<1>5. /\ seen \in Object /\ seen.lease = Current(s).lease
      /\ seen.ring = Bounded(Append(Current(s).ring, c))
      /\ seen.flight = Current(s).flight
  BY <1>0, SeenIs
<1>6. /\ o \in Object /\ o.ring = Bounded(Append(Current(s).ring, c))
      /\ o.flight = Current(s).flight
      /\ \A q \in Rules, h \in Sigs :
            /\ Stands(Current(s).lease[q][h], o.lease[q][h])
            /\ HitOnce(o.lease[q][h])
  BY <1>0, FoundIs
<1>7. /\ obs \in CallRec /\ obs.known = "none" /\ obs.result = "none"
      /\ obs.ts = now /\ obs.obj = Id(s)
  BY <1>0, ObsIs
<1>8. can \in BOOLEAN /\ off \in BOOLEAN /\ (leased # {}) \in BOOLEAN
  BY DEF CanDeny
<1> HIDE DEF can, off, obs, seen, o
<1>9. /\ n1 \in CallRec /\ n1.known = "none" /\ n1.result = "none" /\ n1.ts = now
      /\ n1.step = "allowed" /\ (~off => n1.obj = Id(s))
  BY <1>0, <1>7 DEF CallRec, CallSteps
<1>10. /\ n2 \in CallRec /\ n2.known = "none" /\ n2.result = "none" /\ n2.ts = now
       /\ n2.step \in {"allowed", "denied"} /\ n2.obj = Id(s)
  BY <1>0, <1>7, <1>8 DEF CallRec, CallSteps
<1>11. /\ n3 \in CallRec /\ n3.known = "none" /\ n3.result = "none" /\ n3.ts = now
       /\ n3.step = "allowed" /\ n3.obj = Id(s)
  BY <1>0, <1>7 DEF CallRec, CallSteps
<1>12. /\ n4 \in CallRec /\ n4.known = "none" /\ n4.result = "none" /\ n4.ts = now
       /\ n4.step = "history" /\ n4.obj = Id(s)
  <2>1. now + Deadline \in Nat
    BY <1>0
  <2> QED
    BY <1>7, <1>8, <2>1 DEF CallRec, CallSteps
<1>13. x4 \in Object /\ x4.ring = o.ring /\ x4.lease = o.lease /\ x4.flight
  BY <1>0, <1>6 DEF Object
<1> HIDE DEF n1, n2, n3, n4, x4, mech, leased, r
<1>14. CASE /\ Store(s, IF off THEN Current(s) ELSE seen)
            /\ call' = [call EXCEPT ![c] = n1] /\ busy' = busy /\ denials' = denials
  <2> DEFINE x == IF off THEN Current(s) ELSE seen
  <2>1. /\ x \in Object /\ x.flight = Current(s).flight /\ x.lease = Current(s).lease
        /\ \/ x.ring = Current(s).ring
           \/ x.ring = Bounded(Append(Current(s).ring, c)) /\ n1.obj = Id(s)
    BY <1>4, <1>5, <1>9
  <2>2. \A q \in Rules, h \in Sigs :
            Stands(Current(s).lease[q][h], x.lease[q][h]) /\ HitOnce(x.lease[q][h])
    BY <1>4, <2>1 DEF Stands
  <2>3. Store(s, x)
    BY <1>14
  <2> HIDE DEF x
  <2>4. Effect(c, Id(s), x) /\ call'[c] = n1
    <3>9. Leaves(c, s, x, n1)
      BY <1>1, <1>9, <1>14, <2>1, <2>2, <2>3 DEF Leaves
    <3> QED
      BY <3>9, InvokeEffect
  <2> QED
    BY <1>1, <1>9, <1>14, <2>1, <2>4, InvokeQuick
<1>15. CASE /\ leased # {} \/ mech
            /\ Store(s, IF can THEN Armed(o, r, g, now, leased # {}) ELSE o)
            /\ IF can THEN Denied(c, Id(s), r, g, Hit(o, r, g, now, leased # {}))
               ELSE denials' = denials
            /\ call' = [call EXCEPT ![c] = n2] /\ busy' = busy
  <2>1. CASE can
    <3> DEFINE yes == leased # {}
               l == Hit(o, r, g, now, yes)
               x == Armed(o, r, g, now, yes)
               e == [obj |-> Id(s), rule |-> r, sig |-> g, at |-> now, call |-> c,
                     hit |-> l.hits]
    <3>1. /\ r \in Rules /\ (yes => r \in leased) /\ (~yes => r = "mechanical")
          /\ leased \subseteq Rules
      BY DEF r, leased, Leased, Rules
    <3>2. yes => Denies(o.lease[r][g], r, now)
      BY <3>1 DEF leased, Leased
    <3>3. ~yes => /\ r = "mechanical" /\ MechOpen(o, g)
                  /\ Mechanical(SubSeq(seen.ring, 1, Len(seen.ring) - 1), g, now)
      BY <1>15, <3>1 DEF mech
    <3>4. /\ x \in Object /\ x.ring = o.ring /\ x.flight = o.flight
          /\ \A q \in Rules, h \in Sigs :
                /\ Stands(Current(s).lease[q][h], x.lease[q][h])
                /\ HitOnce(x.lease[q][h])
          /\ NewDenial(e, Id(s), x)
          /\ e.hit = 1 => Evidence(e.obj, e.sig, e.at, Needed(e.rule))
      <4>1. yes \in BOOLEAN
        OBVIOUS
      <4> HIDE DEF yes
      <4> QED
        BY <3>1, <3>2, <3>3, <4>1, DenyLease DEF o, seen
    <3>5. Store(s, x) /\ denials' = denials \cup {e}
      BY <1>15, <2>1 DEF Denied
    <3> HIDE DEF x, e
    <3>6. \E f : /\ NewDenial(f, Id(s), x) /\ denials' = denials \cup {f}
                 /\ f.hit = 1 => Evidence(f.obj, f.sig, f.at, Needed(f.rule))
      BY <3>4, <3>5
    <3>7. Effect(c, Id(s), x) /\ call'[c] = n2
      <4>1. /\ n2.step \in {"allowed", "denied", "history"}
            /\ \/ x.ring = Current(s).ring
               \/ x.ring = Bounded(Append(Current(s).ring, c)) /\ n2.obj = Id(s)
        BY <1>6, <1>10, <3>4
      <4>9. Leaves(c, s, x, n2)
        BY <1>1, <1>10, <1>15, <3>4, <3>5, <3>6, <4>1 DEF Leaves
      <4> QED
        BY <4>9, InvokeEffect
    <3> QED
      BY <1>1, <1>6, <1>10, <1>15, <3>4, <3>7, InvokeQuick
  <2>2. CASE ~can
    <3>1. Store(s, o) /\ denials' = denials
      BY <1>15, <2>2
    <3>2. Effect(c, Id(s), o) /\ call'[c] = n2
      <4>1. /\ n2.step \in {"allowed", "denied", "history"}
            /\ \/ o.ring = Current(s).ring
               \/ o.ring = Bounded(Append(Current(s).ring, c)) /\ n2.obj = Id(s)
        BY <1>6, <1>10
      <4>9. Leaves(c, s, o, n2)
        BY <1>1, <1>6, <1>10, <1>15, <3>1, <4>1 DEF Leaves
      <4> QED
        BY <4>9, InvokeEffect
    <3> QED
      BY <1>1, <1>6, <1>10, <1>15, <3>2, InvokeQuick
  <2> QED
    BY <2>1, <2>2
<1>16. CASE /\ Store(s, o) /\ call' = [call EXCEPT ![c] = n3]
            /\ busy' = busy /\ denials' = denials
  <2>1. Effect(c, Id(s), o) /\ call'[c] = n3
    <3>1. /\ n3.step \in {"allowed", "denied", "history"}
          /\ \/ o.ring = Current(s).ring
             \/ o.ring = Bounded(Append(Current(s).ring, c)) /\ n3.obj = Id(s)
      BY <1>6, <1>11
    <3>9. Leaves(c, s, o, n3)
      BY <1>1, <1>6, <1>11, <1>16, <3>1 DEF Leaves
    <3> QED
      BY <3>9, InvokeEffect
  <2> QED
    BY <1>1, <1>6, <1>11, <1>16, <2>1, InvokeQuick
<1>17. CASE /\ MayAssess(o, now) /\ Store(s, x4) /\ call' = [call EXCEPT ![c] = n4]
            /\ busy' = busy + 1 /\ denials' = denials
  <2>1. ~o.flight /\ busy < Global
    BY <1>17 DEF MayAssess
  <2>2. busy' \in 0..Global
    BY <1>0, <1>17, <2>1, Limits DEF Types
  <2>3. Effect(c, Id(s), x4) /\ call'[c] = n4
    <3>1. /\ n4.step \in {"allowed", "denied", "history"}
          /\ \/ x4.ring = Current(s).ring
             \/ x4.ring = Bounded(Append(Current(s).ring, c)) /\ n4.obj = Id(s)
      BY <1>6, <1>12, <1>13
    <3>2. \A q \in Rules, h \in Sigs :
            Stands(Current(s).lease[q][h], x4.lease[q][h]) /\ HitOnce(x4.lease[q][h])
      BY <1>6, <1>13
    <3>9. Leaves(c, s, x4, n4)
      BY <1>1, <1>12, <1>13, <1>17, <3>1, <3>2 DEF Leaves
    <3> QED
      BY <3>9, InvokeEffect
  <2>4. Id(s) \in 1..Len(obj) => ~obj[Id(s)].flight
    BY <1>0, <1>6, <2>1, CurrentIs
  <2>5. ~InFlight(c)
    BY <1>1 DEF InFlight
  <2>6. SlotOK'
    BY <1>0, <1>12, <1>13, <1>17, <2>3, <2>4, <2>5, SlotEnter DEF Effect
  <2> QED
    BY <2>2, <2>3, <2>6, EffectKeeps
<1> QED
  BY <1>3, <1>14, <1>15, <1>16, <1>17

\* The object a call on the slow path works on is there, and the call has
\* neither run nor got a failure recorded.
LEMMA SlowCall ==
    ASSUME ProgressInv, NEW c \in Calls, InFlight(c)
    PROVE  /\ call[c].obj \in 1..Len(obj) /\ obj[call[c].obj] \in Object
           /\ call[c] \in CallRec
           /\ call[c].result = "none" /\ call[c].known \notin Adverse
           /\ call[c].step \notin {"none", "ran"}
<1>1. call[c].obj \in 1..Len(obj) /\ call[c] \in CallRec /\ obj \in Seq(Object)
  BY DEF ProgressInv, SlotOK, Types
<1>2. obj[call[c].obj] \in Object
  BY <1>1, ElementOfSeq
<1>3. call[c].step \notin {"none", "ran"}
  BY DEF InFlight
<1>4. call[c].result = "none" /\ call[c].known \notin Adverse
  BY <1>3, ProgressAssumption DEF ProgressInv, KnownOK
<1> QED
  BY <1>1, <1>2, <1>3, <1>4

\* What a later step of a hook leaves behind: its object as x.
Resumes(c, x) ==
    /\ x \in Object /\ obj' = [obj EXCEPT ![call[c].obj] = x]
    /\ Evolved(c) /\ now' = now /\ sess' = sess
    /\ call'[c].step \notin {"none", "ran"} /\ call'[c].result = "none"
    /\ call'[c].known \notin Adverse
    /\ call'[c].obj = call[c].obj /\ call'[c].ts = call[c].ts
    /\ x.ring = obj[call[c].obj].ring
    /\ \A r \in Rules, g \in Sigs :
          /\ Stands(obj[call[c].obj].lease[r][g], x.lease[r][g])
          /\ HitOnce(x.lease[r][g])
    /\ \/ denials' = denials
       \/ \E e : /\ NewDenial(e, call[c].obj, x) /\ denials' = denials \cup {e}
                 /\ e.hit = 1 => Evidence(e.obj, e.sig, e.at, Needed(e.rule))

LEMMA ResumeEffect ==
    ASSUME ProgressInv, NEW c \in Calls, InFlight(c), NEW x, Resumes(c, x)
    PROVE  Effect(c, call[c].obj, x)
<1> DEFINE i == call[c].obj
<1>1. /\ i \in 1..Len(obj) /\ obj[i] \in Object /\ call[c].step \notin {"none", "ran"}
  BY SlowCall
<1>2. Types /\ RingOK /\ obj \in Seq(Object)
  BY DEF ProgressInv, Types
<1>3. x \in Object /\ obj' = [obj EXCEPT ![i] = x] /\ x.ring = obj[i].ring
  BY DEF Resumes
<1> HIDE DEF i
<1>4. Updated(i, x)
  BY <1>1, <1>2, <1>3, UpdateObject
<1>5. sess' \in [Sessions -> 0..Len(obj')]
  <2>1. sess' = sess /\ Len(obj) \in Nat /\ 0..Len(obj) \subseteq 0..Len(obj')
    BY <1>2, <1>4, LenProperties DEF Resumes, Updated
  <2> QED
    BY <1>2, <2>1 DEF Types
<1>6. /\ Len(x.ring) <= RingMax
      /\ \A j \in 1..Len(x.ring) : Older(i, x.ring[j])
  BY <1>1, <1>2, <1>3 DEF RingOK, Older
<1>7. \A r \in Rules, g \in Sigs :
          Stands(obj[i].lease[r][g], x.lease[r][g]) /\ HitOnce(x.lease[r][g])
  BY DEF Resumes, i
<1>8. /\ Evolved(c) /\ now' = now
      /\ call'[c].step \notin {"none", "ran"} /\ call'[c].result = "none"
      /\ call'[c].known \notin Adverse
      /\ call'[c].obj = call[c].obj /\ call'[c].ts = call[c].ts
  BY DEF Resumes
<1>9. \/ denials' = denials
      \/ \E e : /\ NewDenial(e, i, x) /\ denials' = denials \cup {e}
                /\ e.hit = 1 => Evidence(e.obj, e.sig, e.at, Needed(e.rule))
  BY DEF Resumes, i
<1>10. Effect(c, i, x)
  BY ONLY <1>1, <1>3, <1>4, <1>5, <1>6, <1>7, <1>8, <1>9 DEF Effect
<1> QED
  BY ONLY <1>10 DEF i

\* What the history tells of other calls only fills in their outcome.
LEMMA EnrichedIs ==
    ASSUME Types, NEW c \in Calls, NEW lag \in BOOLEAN
    PROVE  /\ Enriched(c, lag) \in [Calls -> CallRec]
           /\ \A d \in Calls :
                /\ Kept(call[d], Enriched(c, lag)[d])
                /\ \E k : Enriched(c, lag)[d] = [call[d] EXCEPT !.known = k]
<1> DEFINE ring == obj[call[c].obj].ring
           E == Enriched(c, lag)
           open(d) == /\ \E j \in 1..Len(ring) : ring[j] = d
                      /\ call[d].known = "none" /\ call[d].sig \notin Exempt
                      /\ ~call[d].own
<1>1. E = [d \in Calls |-> IF open(d) THEN [call[d] EXCEPT !.known = Shown(d, lag)]
                           ELSE call[d]]
  BY DEF Enriched
<1> HIDE DEF E, open
<1>2. ASSUME NEW d \in Calls
      PROVE  /\ E[d] \in CallRec /\ Kept(call[d], E[d])
             /\ \E k : E[d] = [call[d] EXCEPT !.known = k]
  <2>1. call[d] \in CallRec
    BY DEF Types
  <2>2. Shown(d, lag) \in {call[d].result, "none", "unknown"}
    BY DEF Shown
  <2>3. Shown(d, lag) \in Adverse \cup {"none", "ok", "unknown"}
    BY <2>1, <2>2 DEF CallRec
  <2>4. CASE open(d)
    <3>1. E[d] = [call[d] EXCEPT !.known = Shown(d, lag)]
      BY <1>1, <2>4
    <3>2. E[d] \in CallRec
      BY <2>1, <2>3, <3>1 DEF CallRec
    <3>3. Kept(call[d], E[d])
      BY <2>1, <2>2, <3>1 DEF CallRec, Kept
    <3> QED
      BY <3>1, <3>2, <3>3
  <2>5. CASE ~open(d)
    <3>1. E[d] = call[d]
      BY <1>1, <2>5
    <3>2. call[d] = [call[d] EXCEPT !.known = call[d].known]
      BY <2>1 DEF CallRec
    <3> QED
      BY <2>1, <3>1, <3>2 DEF Kept
  <2> QED
    BY <2>4, <2>5
<1>3. E \in [Calls -> CallRec]
  BY <1>1, <1>2
<1> QED
  BY <1>2, <1>3 DEF E

LEMMA HistoryStep ==
    ASSUME ProgressInv, NEW c \in Calls, NEW ok \in BOOLEAN, NEW lag \in BOOLEAN,
           History(c, ok, lag)
    PROVE  ProgressInv'
<1> DEFINE i == call[c].obj
           base == IF ok THEN Enriched(c, lag) ELSE call
           x == IF ok THEN [obj[i] EXCEPT !.agent = AgentOf[call[c].s], !.bound = now]
                ELSE obj[i]
           step == IF now < call[c].until THEN "judge" ELSE "leave"
<1>0. Types /\ LeaseOK /\ SlotOK /\ now \in Nat /\ obj \in Seq(Object)
  BY Limits DEF ProgressInv, Types
<1>1. InFlight(c)
  BY DEF History, InFlight
<1>2. /\ i \in 1..Len(obj) /\ obj[i] \in Object /\ call[c] \in CallRec
      /\ call[c].result = "none" /\ call[c].known \notin Adverse
  BY <1>1, SlowCall
<1>3. /\ base \in [Calls -> CallRec] /\ \A d \in Calls : Kept(call[d], base[d])
  BY <1>0, EnrichedIs DEF Types, Kept
<1>4. call' = [base EXCEPT ![c].step = step]
  BY DEF History
<1>5. /\ call' \in [Calls -> CallRec] /\ \A d \in Calls : d # c => call'[d] = base[d]
      /\ call'[c] = [base[c] EXCEPT !.step = step]
  <2>1. base[c] \in CallRec /\ step \in CallSteps
    BY <1>3 DEF CallSteps
  <2> HIDE DEF base, step
  <2>2. [base[c] EXCEPT !.step = step] \in CallRec
    BY <2>1 DEF CallRec
  <2> QED
    BY <1>3, <1>4, <2>2
<1>6. /\ call'[c].step \in {"judge", "leave"} /\ call'[c].obj = call[c].obj
      /\ call'[c].ts = call[c].ts /\ call'[c].result = call[c].result
      /\ call'[c].known \in {call[c].known, call[c].result, "unknown", "none"}
  <2>1. base[c] \in CallRec /\ step \in {"judge", "leave"} /\ Kept(call[c], base[c])
    BY <1>3
  <2> HIDE DEF base, step
  <2> QED
    BY <1>5, <2>1 DEF CallRec, Kept
<1>7. Evolved(c)
  <2> HIDE DEF base
  <2> QED
    BY <1>3, <1>5 DEF Evolved
<1>8. call'[c].known \notin Adverse
  BY <1>2, <1>6, ProgressAssumption
<1>9. /\ x \in Object /\ x.ring = obj[i].ring /\ x.lease = obj[i].lease
      /\ x.flight = obj[i].flight
  <2>1. AgentOf[call[c].s] \in Agents
    BY <1>2 DEF Agents, CallRec
  <2> DEFINE y == obj[i]
             a == AgentOf[call[c].s]
  <2>2. y \in Object /\ a \in Agents
    BY <1>2, <2>1
  <2> HIDE DEF y, a
  <2>3. LET z == [y EXCEPT !.agent = a, !.bound = now]
        IN z \in Object /\ z.ring = y.ring /\ z.lease = y.lease /\ z.flight = y.flight
    BY <1>0, <2>2 DEF Object
  <2> QED
    BY <1>2, <2>3 DEF y, a
<1>10. obj' = [obj EXCEPT ![i] = x]
  <2>1. obj \in [1..Len(obj) -> Object]
    BY <1>0, LenProperties
  <2>2. CASE ok
    BY <1>2, <2>1, <2>2 DEF History
  <2>3. CASE ~ok
    BY <1>2, <2>1, <2>3 DEF History
  <2> QED
    BY <2>2, <2>3
<1>11. denials' = denials /\ busy' = busy /\ sess' = sess /\ now' = now
  BY DEF History
<1> HIDE DEF x, base, step
<1>12. \A r \in Rules, g \in Sigs :
          Stands(obj[i].lease[r][g], x.lease[r][g]) /\ HitOnce(x.lease[r][g])
  BY <1>0, <1>2, <1>9 DEF Stands, HitOnce, LeaseOK
<1>13. Resumes(c, x)
  BY <1>2, <1>6, <1>7, <1>8, <1>9, <1>10, <1>11, <1>12 DEF Resumes
<1>14. Effect(c, i, x)
  BY <1>1, <1>13, ResumeEffect
<1>15. SlotOK'
  BY <1>0, <1>1, <1>2, <1>6, <1>9, <1>11, <1>14, SlotFrame DEF Effect
<1> QED
  BY <1>0, <1>11, <1>14, <1>15, EffectKeeps DEF Types

\* The call record with its frame gone.
LEMMA BackIs ==
    ASSUME ProgressInv, NEW c \in Calls, InFlight(c), NEW own \in BOOLEAN,
           NEW how \in {"allowed", "denied"}, NEW n,
           n = Back(c, how) \/ n = [Back(c, how) EXCEPT !.own = own],
           call' = [call EXCEPT ![c] = n]
    PROVE  /\ Evolved(c) /\ call'[c].step = how /\ call'[c].result = "none"
           /\ call'[c].known \notin Adverse
           /\ call'[c].obj = call[c].obj /\ call'[c].ts = call[c].ts
<1>1. call \in [Calls -> CallRec]
  BY DEF ProgressInv, Types
<1>2. /\ call[c] \in CallRec /\ call[c].result = "none" /\ call[c].known \notin Adverse
  BY SlowCall
<1>3. NoCall.s \in Sessions
  BY ProgressAssumption DEF NoCall
<1> DEFINE b == Back(c, how)
           x == call[c]
           s == NoCall.s
<1>4. b = [x EXCEPT !.step = how, !.s = s, !.until = 0, !.can = FALSE]
  BY DEF Back
<1>5. x \in CallRec /\ s \in Sessions /\ how \in CallSteps
  BY <1>2, <1>3 DEF CallSteps
<1> HIDE DEF b, x, s
<1>6. /\ b \in CallRec /\ b.step = how /\ b.result = x.result /\ b.known = x.known
      /\ b.obj = x.obj /\ b.ts = x.ts
  BY <1>4, <1>5 DEF CallRec
<1>7. n = b \/ n = [b EXCEPT !.own = own]
  BY DEF b
<1>8. /\ n \in CallRec /\ n.step = how /\ n.result = x.result /\ n.known = x.known
      /\ n.obj = x.obj /\ n.ts = x.ts
  BY <1>6, <1>7 DEF CallRec
<1>9. call'[c] = n /\ Evolved(c)
  BY <1>1, <1>8 DEF Evolved, Kept
<1> QED
  BY <1>2, <1>8, <1>9 DEF x

LEMMA LeaveStep ==
    ASSUME ProgressInv, NEW c \in Calls, Leave(c)
    PROVE  ProgressInv'
<1> DEFINE i == call[c].obj
           x == [obj[i] EXCEPT !.flight = FALSE]
<1>0. Types /\ LeaseOK /\ SlotOK /\ obj \in Seq(Object)
  BY DEF ProgressInv, Types
<1>1. InFlight(c)
  BY DEF Leave, InFlight
<1>2. i \in 1..Len(obj) /\ obj[i] \in Object
  BY <1>1, SlowCall
<1>3. /\ Evolved(c) /\ call'[c].step = "allowed" /\ call'[c].result = "none"
      /\ call'[c].known \notin Adverse
      /\ call'[c].obj = call[c].obj /\ call'[c].ts = call[c].ts
  BY <1>1, BackIs DEF Leave
<1>4. /\ x \in Object /\ x.ring = obj[i].ring /\ x.lease = obj[i].lease /\ ~x.flight
  BY <1>2 DEF Object
<1>5. obj' = [obj EXCEPT ![i] = x] /\ busy' = busy - 1
      /\ denials' = denials /\ sess' = sess /\ now' = now
  BY DEF Leave, Freed
<1> HIDE DEF x
<1>6. \A r \in Rules, g \in Sigs :
          Stands(obj[i].lease[r][g], x.lease[r][g]) /\ HitOnce(x.lease[r][g])
  BY <1>0, <1>2, <1>4 DEF Stands, HitOnce, LeaseOK
<1>7. Resumes(c, x)
  BY <1>3, <1>4, <1>5, <1>6 DEF Resumes
<1>8. Effect(c, i, x)
  BY <1>1, <1>7, ResumeEffect
<1>9. SlotOK' /\ busy >= 1
  BY <1>0, <1>1, <1>3, <1>4, <1>5, <1>8, SlotLeave DEF Effect
<1>10. busy' \in 0..Global
  BY <1>0, <1>5, <1>9, Limits DEF Types
<1> QED
  BY <1>8, <1>9, <1>10, EffectKeeps

\* The earlier failures behind a corroborated verdict are evidence.
LEMMA SemEvidence ==
    ASSUME ProgressInv, NEW i \in 1..Len(obj), NEW g \in Sigs,
           Semantic(obj[i], g, now)
    PROVE  Evidence(i, g, now, PriorMatches)
<1> DEFINE ring == obj[i].ring
           prior == {d \in {ring[j] : j \in 1..Len(ring)} :
                       /\ call[d].sig = g /\ ~call[d].own
                       /\ call[d].known \in Adverse /\ now <= call[d].ts + Window}
<1>1. Types /\ KnownOK /\ RingOK /\ PriorMatches \in Nat \ {0}
  BY Limits DEF ProgressInv
<1>2. obj[i] \in Object
  BY <1>1, ElementOfSeq DEF Types
<1>3. ring \in Seq(Calls)
  BY <1>2 DEF Object
<1>4. Unchanged(prior, PriorMatches)
  BY DEF Semantic
<1>5. \A j \in 1..Len(ring) :
          ring[j] \in Calls /\ call[ring[j]].obj = i /\ call[ring[j]].ts <= now
  BY <1>1, <1>3, ElementOfSeq DEF RingOK
<1>6. prior \in SUBSET Calls
  BY <1>5
<1>7. \A d \in prior : call[d].obj = i /\ call[d].sig = g /\ call[d].ts <= now
  BY <1>5
<1> HIDE DEF prior
<1> QED
  BY <1>1, <1>4, <1>6, <1>7, RealEvidence

LEMMA LoopingStep ==
    ASSUME ProgressInv, NEW c \in Calls, Looping(c)
    PROVE  ProgressInv'
<1> DEFINE i == call[c].obj
           g == call[c].sig
           o == obj[i]
           can == call[c].can
           l == Hit(o, "semantic", g, now, FALSE)
           a == IF can THEN Armed(o, "semantic", g, now, FALSE) ELSE o
           x == [a EXCEPT !.flight = FALSE]
           e == [obj |-> i, rule |-> "semantic", sig |-> g, at |-> now, call |-> c,
                 hit |-> l.hits]
<1>0. Types /\ LeaseOK /\ SlotOK /\ obj \in Seq(Object) /\ now \in Nat
  BY Limits DEF ProgressInv, Types
<1>1. InFlight(c)
  BY DEF Looping, InFlight
<1>2. /\ i \in 1..Len(obj) /\ o \in Object /\ call[c] \in CallRec /\ i \in Nat
      /\ g \in Sigs /\ can \in BOOLEAN
  BY <1>1, SlowCall DEF CallRec
<1>3. /\ Semantic(o, g, now) /\ ~o.lease["semantic"][g].armed
      /\ obj' = [obj EXCEPT ![i] = x]
      /\ IF can THEN denials' = denials \cup {e} ELSE denials' = denials
      /\ call' = [call EXCEPT ![c] = IF can THEN [Back(c, "denied") EXCEPT !.own = TRUE]
                                     ELSE Back(c, "allowed")]
      /\ busy' = busy - 1 /\ now' = now /\ sess' = sess
  BY DEF Looping, SemOpen, Denied, Freed
<1>4. /\ Evolved(c) /\ call'[c].step \in {"allowed", "denied"}
      /\ call'[c].result = "none" /\ call'[c].known \notin Adverse
      /\ call'[c].obj = call[c].obj /\ call'[c].ts = call[c].ts
  <2>1. CASE can
    <3>1. call' = [call EXCEPT ![c] = [Back(c, "denied") EXCEPT !.own = TRUE]]
      BY <1>3, <2>1
    <3> QED
      BY <1>1, <3>1, BackIs
  <2>2. CASE ~can
    <3>1. call' = [call EXCEPT ![c] = Back(c, "allowed")]
      BY <1>3, <2>2
    <3> QED
      BY <1>1, <3>1, BackIs
  <2> QED
    BY <2>1, <2>2
<1>5. l.hits = 1 /\ l.armed /\ l.until = now + LeaseTime["semantic"]
  BY DEF Hit
<1>6. /\ a \in Object /\ a.ring = o.ring
      /\ ~can => a = o
      /\ can => \A q \in Rules, h \in Sigs :
                   a.lease[q][h] = IF q = "semantic" /\ h = g THEN l ELSE o.lease[q][h]
  <2>1. "semantic" \in Rules
    BY DEF Rules
  <2>2. LET b == Armed(o, "semantic", g, now, FALSE) IN
        /\ b \in Object /\ b.ring = o.ring
        /\ \A q \in Rules, h \in Sigs :
              b.lease[q][h] = IF q = "semantic" /\ h = g THEN l ELSE o.lease[q][h]
    <3> HIDE DEF o, g
    <3>1. ASSUME NEW y \in BOOLEAN
          PROVE  /\ Armed(o, "semantic", g, now, y) \in Object
                 /\ Armed(o, "semantic", g, now, y).ring = o.ring
                 /\ \A q \in Rules, h \in Sigs :
                      Armed(o, "semantic", g, now, y).lease[q][h] =
                          IF q = "semantic" /\ h = g THEN Hit(o, "semantic", g, now, y)
                          ELSE o.lease[q][h]
      <4>1. o \in Object /\ g \in Sigs
        BY <1>2
      <4> QED
        BY <1>0, <2>1, <4>1, ArmedIs
    <3>2. FALSE \in BOOLEAN
      OBVIOUS
    <3> QED
      BY <3>1, <3>2
  <2> HIDE DEF o, l
  <2> QED
    BY <1>2, <2>2
<1> HIDE DEF a, l
<1>7. x \in Object /\ x.ring = o.ring /\ x.lease = a.lease /\ ~x.flight
  BY <1>6 DEF Object
<1> HIDE DEF x
<1>8. \A q \in Rules, h \in Sigs : HitOnce(o.lease[q][h])
  BY <1>0, <1>2 DEF LeaseOK, HitOnce
<1>9. \A q \in Rules, h \in Sigs :
          Stands(o.lease[q][h], x.lease[q][h]) /\ HitOnce(x.lease[q][h])
  <2> HIDE DEF o, g, can
  <2> QED
    BY <1>3, <1>5, <1>6, <1>7, <1>8 DEF Stands, HitOnce
<1>10. can => /\ NewDenial(e, i, x)
              /\ Evidence(e.obj, e.sig, e.at, Needed(e.rule))
  <2> SUFFICES ASSUME can PROVE NewDenial(e, i, x)
                                /\ Evidence(e.obj, e.sig, e.at, Needed(e.rule))
    OBVIOUS
  <2>1. MaxDenials["semantic"] \in Nat \ {0}
    BY Limits DEF Rules
  <2>2. /\ e \in Denial /\ e.obj = i /\ e.at = now /\ e.hit = 1 /\ e.rule = "semantic"
        /\ e.sig = g
    BY <1>0, <1>2, <1>5 DEF Denial, Rules
  <2>3. x.lease["semantic"][g] = l
    BY <1>2, <1>6, <1>7, SMTT(20) DEF Rules
  <2> HIDE DEF e
  <2>4. NewDenial(e, i, x)
    BY <1>3, <1>5, <2>1, <2>2, <2>3 DEF NewDenial
  <2>5. Evidence(i, g, now, PriorMatches)
    BY <1>2, <1>3, SemEvidence
  <2> QED
    BY <2>2, <2>4, <2>5 DEF Needed
<1> HIDE DEF e
<1>11. \/ denials' = denials
       \/ \E d : /\ NewDenial(d, i, x) /\ denials' = denials \cup {d}
                 /\ d.hit = 1 => Evidence(d.obj, d.sig, d.at, Needed(d.rule))
  BY <1>2, <1>3, <1>10
<1>12. call'[c].step \notin {"none", "ran"} /\ call'[c].step \notin {"history", "judge", "leave"}
  BY <1>4
<1>13. Resumes(c, x)
  BY <1>3, <1>4, <1>7, <1>9, <1>11, <1>12 DEF Resumes
<1>14. Effect(c, i, x)
  BY <1>1, <1>13, ResumeEffect
<1>15. SlotOK' /\ busy >= 1
  BY <1>0, <1>1, <1>3, <1>4, <1>7, <1>12, <1>14, SlotLeave DEF Effect
<1>16. busy' \in 0..Global
  BY <1>0, <1>3, <1>15, Limits DEF Types
<1> QED
  BY <1>14, <1>15, <1>16, EffectKeeps

LEMMA RunStep ==
    ASSUME ProgressInv, NEW c \in Calls, Run(c)
    PROVE  ProgressInv'
<1>0. /\ Types /\ KnownOK /\ RingOK /\ SlotOK /\ LeaseOK /\ DenialOK /\ DenialHasEvidence
      /\ call \in [Calls -> CallRec]
  BY DEF ProgressInv, Types
<1>1. PICK r \in Adverse \cup {"ok"} :
          call' = [call EXCEPT ![c].step = "ran", ![c].result = r]
  BY DEF Run
<1>2. /\ call[c].step = "allowed" /\ now' = now /\ sess' = sess /\ obj' = obj
      /\ busy' = busy /\ denials' = denials
  BY DEF Run
<1> DEFINE x == call[c]
           n == [x EXCEPT !.step = "ran", !.result = r]
<1>3. x \in CallRec
  BY <1>0
<1>4. call' = [call EXCEPT ![c] = n]
  BY <1>0, <1>1, <1>3
<1> HIDE DEF x
<1>5. /\ n \in CallRec /\ n.step = "ran" /\ n.obj = x.obj /\ n.ts = x.ts
      /\ n.known = x.known
  BY <1>3 DEF CallRec, CallSteps
<1> HIDE DEF n
<1>6. call'[c] = n /\ Evolved(c)
  BY <1>0, <1>4, <1>5 DEF Evolved, Kept
<1>7. call[c].result = "none" /\ call[c].known \notin Adverse
  BY <1>0, <1>2, ProgressAssumption DEF KnownOK
<1>8. KnownOK'
  BY <1>0, <1>5, <1>6, <1>7, KnownStep DEF x
<1>9. \A d \in Calls : /\ InFlight(d)' <=> InFlight(d)
                       /\ call'[d].obj = call[d].obj /\ call'[d].ts = call[d].ts
                       /\ call'[d].step # "none" <=> call[d].step # "none"
  BY <1>2, <1>5, <1>6 DEF InFlight, Evolved, Kept, x
<1>10. SlotOK'
  <2>1. {d \in Calls : InFlight(d)'} = {d \in Calls : InFlight(d)}
    BY <1>9
  <2>2. busy' = Cardinality({d \in Calls : InFlight(d)'})
    BY <1>0, <1>2, <2>1 DEF SlotOK
  <2>3. /\ \A d \in Calls : InFlight(d)' =>
              call'[d].obj \in 1..Len(obj') /\ obj'[call'[d].obj].flight
        /\ \A d, e \in Calls :
              InFlight(d)' /\ InFlight(e)' /\ call'[d].obj = call'[e].obj => d = e
        /\ \A i \in 1..Len(obj') : obj'[i].flight =>
              \E d \in Calls : InFlight(d)' /\ call'[d].obj = i
    BY <1>0, <1>2, <1>9 DEF SlotOK
  <2> QED
    BY <2>2, <2>3 DEF SlotOK
<1>11. RingOK'
  <2> SUFFICES ASSUME NEW i \in 1..Len(obj)
               PROVE  /\ Len(obj[i].ring) <= RingMax
                      /\ \A j \in 1..Len(obj[i].ring) :
                            LET y == call'[obj[i].ring[j]]
                            IN  y.step # "none" /\ y.obj = i /\ y.ts <= now
    BY <1>2 DEF RingOK
  <2>1. obj[i].ring \in Seq(Calls)
    <3>1. obj[i] \in Object
      BY <1>0, ElementOfSeq DEF Types
    <3> QED
      BY <3>1 DEF Object
  <2>2. \A j \in 1..Len(obj[i].ring) : obj[i].ring[j] \in Calls
    BY <2>1, ElementOfSeq
  <2> QED
    BY <1>0, <1>9, <2>2, SMTT(20) DEF RingOK
<1>12. LeaseOK' /\ DenialOK'
  BY <1>0, <1>2 DEF LeaseOK, DenialOK, Standing, DenialsCapped
<1>13. DenialHasEvidence'
  <2>1. ASSUME NEW d \in denials, d.hit = 1
        PROVE  Evidence(d.obj, d.sig, d.at, Needed(d.rule))'
    <3>1. Evidence(d.obj, d.sig, d.at, Needed(d.rule))
      BY <1>0, <2>1, EvidenceIs
    <3>2. Needed(d.rule) \in Nat
      BY Limits DEF Needed
    <3> QED
      BY <1>6, <1>7, <3>1, <3>2, EvidenceGrows
  <2>2. DenialHasEvidence' <=>
           \A d \in denials' : d.hit = 1 => Evidence(d.obj, d.sig, d.at, Needed(d.rule))'
    BY DEF DenialHasEvidence, Evidence, Failed, Needed
  <2> QED
    BY <1>2, <2>1, <2>2
<1>14. Types'
  BY <1>0, <1>2, <1>6 DEF Types, Evolved
<1> QED
  BY <1>8, <1>10, <1>11, <1>12, <1>13, <1>14 DEF ProgressInv

LEMMA TickStep ==
    ASSUME ProgressInv, Tick
    PROVE  ProgressInv'
<1>0. /\ Types /\ KnownOK /\ RingOK /\ SlotOK /\ LeaseOK /\ DenialOK /\ DenialHasEvidence
      /\ now \in Nat
  BY Limits DEF ProgressInv, Types
<1>1. /\ now < MaxTime /\ now' = now + 1 /\ sess' = sess /\ obj' = obj /\ call' = call
      /\ busy' = busy /\ denials' = denials
  BY DEF Tick
<1>2. Types'
  BY <1>0, <1>1, Limits DEF Types
<1>3. KnownOK' /\ SlotOK' /\ LeaseOK' /\ DenialHasEvidence' /\ DenialsCapped'
  BY <1>0, <1>1 DEF KnownOK, SlotOK, InFlight, LeaseOK, DenialHasEvidence, DenialOK,
                    DenialsCapped
<1>4. RingOK'
  <2> SUFFICES ASSUME NEW i \in 1..Len(obj), NEW j \in 1..Len(obj[i].ring)
               PROVE  call[obj[i].ring[j]].ts <= now + 1
    BY <1>0, <1>1 DEF RingOK
  <2>1. call[obj[i].ring[j]] \in CallRec
    <3>1. obj[i] \in Object
      BY <1>0, ElementOfSeq DEF Types
    <3>2. obj[i].ring[j] \in Calls
      BY <3>1, ElementOfSeq DEF Object
    <3> QED
      BY <1>0, <3>2 DEF Types
  <2>2. call[obj[i].ring[j]].ts <= now /\ call[obj[i].ring[j]].ts \in Nat
    BY <1>0, <2>1 DEF RingOK, CallRec
  <2> QED
    BY <1>0, <2>2
<1>5. \A d \in denials : /\ d.obj \in 1..Len(obj) /\ d.at <= now + 1
                         /\ Standing(d, obj[d.obj].lease[d.rule][d.sig], now + 1)
  <2> SUFFICES ASSUME NEW d \in denials
               PROVE  /\ d.obj \in 1..Len(obj) /\ d.at <= now + 1
                      /\ Standing(d, obj[d.obj].lease[d.rule][d.sig], now + 1)
    OBVIOUS
  <2>1. d.at \in Nat /\ LeaseTime[d.rule] \in Nat
    BY <1>0, Limits DEF Types, Denial
  <2>2. /\ d.obj \in 1..Len(obj) /\ d.at <= now
        /\ Standing(d, obj[d.obj].lease[d.rule][d.sig], now)
    BY <1>0 DEF DenialOK
  <2> QED
    BY <1>0, <2>1, <2>2 DEF Standing
<1>6. DenialOK'
  BY <1>1, <1>3, <1>5 DEF DenialOK
<1> QED
  BY <1>2, <1>3, <1>4, <1>6 DEF ProgressInv

-----------------------------------------------------------------------------
(* Theorems.                                                               *)

LEMMA InitHolds == Init => ProgressInv
<1> SUFFICES ASSUME Init PROVE ProgressInv
  OBVIOUS
<1>1. /\ now = 0 /\ busy = 0 /\ denials = {} /\ obj = <<>>
      /\ sess = [s \in Sessions |-> 0] /\ call = [c \in Calls |-> NoCall]
  BY DEF Init
<1>2. /\ NoCall \in CallRec /\ NoCall.known = "none" /\ NoCall.result = "none"
      /\ NoCall.step = "none"
  BY ProgressAssumption DEF NoCall, CallRec, CallSteps
<1>3. obj \in Seq(Object) /\ Len(obj) = 0
  BY <1>1, EmptySeq
<1>4. Types
  BY <1>1, <1>2, <1>3, Limits DEF Types
<1>5. KnownOK
  BY <1>1, <1>2, ProgressAssumption DEF KnownOK
<1>6. RingOK /\ LeaseOK
  BY <1>3 DEF RingOK, LeaseOK
<1>7. SlotOK
  <2>1. \A c \in Calls : ~InFlight(c)
    BY <1>1, <1>2 DEF InFlight
  <2>2. {c \in Calls : InFlight(c)} = {}
    BY <2>1
  <2>3. busy = Cardinality({c \in Calls : InFlight(c)})
    BY <1>1, <2>2, FS_EmptySet
  <2> QED
    BY <1>3, <2>1, <2>3 DEF SlotOK
<1>8. DenialOK /\ DenialHasEvidence
  BY <1>1 DEF DenialOK, DenialsCapped, DenialHasEvidence
<1> QED
  BY <1>4, <1>5, <1>6, <1>7, <1>8 DEF ProgressInv

LEMMA NextKeeps == ProgressInv /\ [Next]_vars => ProgressInv'
<1> SUFFICES ASSUME ProgressInv, [Next]_vars PROVE ProgressInv'
  OBVIOUS
<1>1. CASE Tick
  BY <1>1, TickStep
<1>2. ASSUME NEW c \in Calls, NEW s \in Sessions, NEW g \in Sigs, Invoke(c, s, g)
      PROVE  ProgressInv'
  BY <1>2, InvokeStep
<1>3. ASSUME NEW c \in Calls, HookStep(c)
      PROVE  ProgressInv'
  <2>1. CASE \E ok, lag \in BOOLEAN : History(c, ok, lag)
    <3>1. PICK ok \in BOOLEAN, lag \in BOOLEAN : History(c, ok, lag)
      BY <2>1
    <3> QED
      BY <3>1, HistoryStep
  <2>2. CASE Leave(c)
    BY <2>2, LeaveStep
  <2>3. CASE Looping(c)
    BY <2>3, LoopingStep
  <2> QED
    BY <1>3, <2>1, <2>2, <2>3 DEF HookStep
<1>4. ASSUME NEW c \in Calls, Run(c)
      PROVE  ProgressInv'
  BY <1>4, RunStep
<1>5. CASE UNCHANGED vars
  <2>0. KnownOK' /\ RingOK'
    BY <1>5 DEF vars, ProgressInv, KnownOK, RingOK
  <2>1. Types'
    BY <1>5 DEF vars, ProgressInv, Types
  <2>2. SlotOK'
    BY <1>5 DEF vars, ProgressInv, SlotOK, InFlight
  <2>3. LeaseOK'
    BY <1>5 DEF vars, ProgressInv, LeaseOK
  <2>4. DenialOK'
    BY <1>5 DEF vars, ProgressInv, DenialOK, Standing, DenialsCapped
  <2>5. DenialHasEvidence'
    BY <1>5 DEF vars, ProgressInv, DenialHasEvidence
  <2> QED
    BY <2>0, <2>1, <2>2, <2>3, <2>4, <2>5 DEF ProgressInv
<1> QED
  BY <1>1, <1>2, <1>3, <1>4, <1>5 DEF Next

LEMMA AlwaysProgressInv == Spec => []ProgressInv
  BY InitHolds, NextKeeps, PTL DEF Spec

\* Every state is of the declared types: the clock and the slots stay within
\* their bounds, a session's entry points to a state object, and no ring
\* outgrows ring_max. (session-progress.js, boundRing.)
THEOREM TypeCorrect == Spec => []TypeOK
<1>1. ProgressInv => TypeOK
  <2> SUFFICES ASSUME ProgressInv PROVE TypeOK
    OBVIOUS
  <2>1. Types /\ RingOK
    BY DEF ProgressInv
  <2>2. DOMAIN obj = 1..Len(obj)
    BY <2>1, LenProperties DEF Types
  <2>3. \A c \in Calls : call[c].known \in Adverse \cup {"none", "ok", "unknown"}
    BY <2>1 DEF Types, CallRec
  <2> QED
    BY <2>1, <2>2, <2>3 DEF Types, RingOK, TypeOK
<1> QED
  BY <1>1, AlwaysProgressInv, PTL

\* The process-wide slots are exactly the calls on the slow path, and a state
\* object's own slot is taken exactly while one call is there for it, evicted
\* or not. (tool.execute.before, its finally block.)
THEOREM SlotsAreBalanced == Spec => []SlotsBalanced
<1>1. ProgressInv => SlotsBalanced
  <2> SUFFICES ASSUME ProgressInv PROVE SlotsBalanced
    OBVIOUS
  <2>1. SlotOK /\ DOMAIN obj = 1..Len(obj)
    BY LenProperties DEF ProgressInv, Types
  <2>2. ASSUME NEW i \in DOMAIN obj
        PROVE  obj[i].flight <=>
                   Cardinality({c \in Calls : InFlight(c) /\ call[c].obj = i}) = 1
    <3> DEFINE S == {c \in Calls : InFlight(c) /\ call[c].obj = i}
    <3>1. CASE obj[i].flight
      <4>1. PICK c \in Calls : InFlight(c) /\ call[c].obj = i
        BY <2>1, <3>1 DEF SlotOK
      <4>2. S = {c}
        BY <2>1, <4>1 DEF SlotOK
      <4> QED
        BY <3>1, <4>2, FS_Singleton
    <3>2. CASE ~obj[i].flight
      <4>1. S = {}
        BY <2>1, <3>2 DEF SlotOK
      <4>2. Cardinality(S) = 0
        BY <4>1, FS_EmptySet
      <4> QED
        BY <3>2, <4>2
    <3> QED
      BY <3>1, <3>2
  <2> QED
    BY <2>1, <2>2 DEF SlotOK, SlotsBalanced
<1> QED
  BY <1>1, AlwaysProgressInv, PTL

\* No lease denies more than max_denials calls, and a rule arms no second lease
\* for a signature before the first expired, however late a verdict arrives.
\* (leaseDecision, createLease, the lease-window checks.)
THEOREM DenialsAreCapped == Spec => []DenialsCapped
<1>1. ProgressInv => DenialsCapped
  BY DEF ProgressInv, DenialOK
<1> QED
  BY <1>1, AlwaysProgressInv, PTL

\* A first denial rests on enough earlier calls of the signature that ran in
\* the same state object and failed in the same way. (evaluateMechanical,
\* evaluateSemantic, enrichFromHistory.)
THEOREM DenialsHaveEvidence == Spec => []DenialHasEvidence
<1>1. ProgressInv => DenialHasEvidence
  BY DEF ProgressInv
<1> QED
  BY <1>1, AlwaysProgressInv, PTL
=============================================================================
