------------------------- MODULE TaskRegistryProofs -------------------------
(***************************************************************************)
(* Machine-checked proofs about TaskRegistry, for any number of sessions,  *)
(* designs, operations and faults.                                         *)
(*                                                                         *)
(* RepeatsCounted holds whatever happens to the lock: a card carries its   *)
(* count and its history together, and so does every copy a session holds. *)
(* NoLostUpdate and ReadyIsCertified rest on the lock: until a live one is  *)
(* broken, the copy under the lock is the card on disk, but for a hand edit *)
(* or a deletion, which take no lock.                                      *)
(***************************************************************************)
EXTENDS TaskRegistry, FiniteSetTheorems, TLAPS

\* Steps of an operation that may still write.
Active == {"wait", "stale", "held"}
Writers == Kinds \ {"delete", "force_delete"}

LogOK ==
    log \in [ops : 0..MaxOps, written : SUBSET (1..MaxOps),
             merges : SUBSET (1..MaxOps), faults : Nat, stolen : BOOLEAN]

\* What an operation is decides how far it can be.
Phases ==
    \A p \in Sessions :
        /\ op[p].step \in Active => op[p].kind \in Writers
        /\ op[p].step \in {"idle", "done", "dead"} => op[p].kind = "none"
        /\ op[p].kind # "none" => op[p].id \in 1..MaxOps

\* Every operation under way has an id of its own, listed as a merge exactly
\* when it is one.
IdsOK(o, l) ==
    /\ l.merges \subseteq 1..l.ops
    /\ \A p \in Sessions : o[p].kind # "none" =>
           /\ o[p].id \in 1..l.ops
           /\ o[p].id \in l.merges <=> o[p].kind = "merge"
           /\ \A q \in Sessions :
                 q # p /\ o[q].kind # "none" => o[q].id # o[p].id

\* A copy of the card counts the merges of its own history, and holds no
\* operation that is still under way.
CopyOK(c, o, l) ==
    c # Absent =>
        /\ c.hist \subseteq 1..l.ops
        /\ \A p \in Sessions : o[p].kind # "none" => o[p].id \notin c.hist
        /\ c.count = Cardinality(c.hist \cap l.merges)

Copies ==
    /\ CopyOK(card, op, log)
    /\ \A q \in Sessions : CopyOK(op[q].current, op, log)

\* Until a live lock is broken, who is under the lock owns the lock file.
Locked ==
    ~log.stolen =>
        \A p \in Sessions : op[p].step \in {"held", "done"} => lock = p

\* Until then the card a holder read is the card on disk, unless it was edited
\* by hand or deleted since.
Seen ==
    ~log.stolen =>
        \A p \in Sessions : op[p].step = "held" /\ Exists =>
            /\ op[p].current # Absent
            /\ card \in {op[p].current, [op[p].current EXCEPT !.bad = TRUE]}

\* A deleted card takes its writes with it.
Gone == ~Exists => log.written = {}

TypeInv == TypeOK /\ LogOK /\ Phases
CountInv == TypeInv /\ IdsOK(op, log) /\ Copies
LockInv == TypeInv /\ Locked /\ Seen /\ Gone /\ NoLostUpdate

-----------------------------------------------------------------------------
(* What the operators on cards return.                                     *)

LEMMA AbsentIsNoCard == Absent \notin Card
<1> SUFFICES ASSUME Absent \in Card PROVE FALSE
  OBVIOUS
<1>1. Absent.status \in Statuses
  BY DEF Card
<1> QED
  BY <1>1 DEF Absent, Statuses

\* Normalising keeps everything but the status and the mark of a bad one, and
\* leaves no working card without an owner.
LEMMA NormalizedCard ==
    ASSUME NEW c \in Card
    PROVE  /\ Normalized(c) \in Card
           /\ Normalized(c).hist = c.hist /\ Normalized(c).count = c.count
           /\ Normalized(c).design = c.design
           /\ Normalized(c).envelope = c.envelope
           /\ Normalized(c).status = "working" => Normalized(c).owner # NoOne
  BY DEF Normalized, Card, Statuses

LEMMA DefaultCard ==
    /\ DefaultPayload \in Card /\ DefaultPayload.hist = {}
    /\ DefaultPayload.count = 0
<1>1. (CHOOSE d \in Designs : TRUE) \in Designs
  BY RegistryAssumption
<1> QED
  BY <1>1 DEF DefaultPayload, Card, Statuses

LEMMA BaseCard ==
    ASSUME TypeOK, NEW p \in Sessions
    PROVE  /\ Base(p) \in Card
           /\ op[p].current = Absent => Base(p).hist = {} /\ Base(p).count = 0
           /\ op[p].current # Absent =>
                /\ Base(p).hist = op[p].current.hist
                /\ Base(p).count = op[p].current.count
<1>1. op[p].current \in Card \cup {Absent}
  BY DEF TypeOK, Op
<1>2. CASE op[p].current = Absent
  BY <1>2, DefaultCard DEF Base
<1>3. CASE op[p].current # Absent
  BY <1>1, <1>3, NormalizedCard DEF Base
<1> QED
  BY <1>2, <1>3

\* A merge adds one to the count it finds under the lock.
LEMMA MergeAddsOne ==
    ASSUME TypeOK, NEW p \in Sessions
    PROVE  MergedCount(p) = Base(p).count + 1
<1>1. Base(p).count \in Nat /\ op[p].count \in Nat
  BY BaseCard DEF Card, TypeOK, Op
<1> QED
  BY <1>1 DEF MergedCount

\* Every card an operation may write keeps the history it found, and only a
\* merge counts.
LEMMA ResultsCard ==
    ASSUME TypeOK, Phases, NEW p \in Sessions, op[p].step = "held",
           NEW c \in Results(p)
    PROVE  /\ c \in Card /\ c.hist = Base(p).hist
           /\ c.count = IF op[p].kind = "merge" THEN Base(p).count + 1
                                                ELSE Base(p).count
<1>1. Base(p) \in Card /\ Base(p).count \in Nat
  BY BaseCard DEF Card
<1>2. op[p].kind \in Writers
  BY DEF Phases, Active
<1>3. CASE op[p].kind = "save"
  <2>1. c \in SaveResults(p)
    BY <1>3 DEF Results
  <2>2. Base(p).status \in Statuses /\ {"draft", "ready"} \subseteq Statuses
    BY <1>1 DEF Card, Statuses
  <2>3. PICK s \in Statuses, d \in Designs : c = Saved(p, s, d)
    BY <2>1, <2>2 DEF SaveResults
  <2> QED
    BY <1>1, <1>3, <2>3 DEF Saved, Card
<1>4. CASE op[p].kind = "merge"
  <2>1. c = [Base(p) EXCEPT !.count = Base(p).count + 1]
    BY <1>4, MergeAddsOne DEF Results
  <2> QED
    BY <1>1, <1>4, <2>1 DEF Card
<1>5. CASE op[p].kind \in {"activate", "takeover"}
  <2>1. c = [Base(p) EXCEPT !.status = "working", !.owner = p]
    BY <1>5 DEF Results, ActivateResults
  <2> QED
    BY <1>1, <1>5, <2>1 DEF Card, Statuses
<1>6. CASE op[p].kind = "ready"
  <2>1. c \in ReadyResults(p)
    BY <1>6 DEF Results, ReadyCards
  <2>2. ASSUME NEW d \in Designs, NEW e \in Designs, c = Readied(p, d, e)
        PROVE  c \in Card /\ c.hist = Base(p).hist /\ c.count = Base(p).count
    BY <1>1, <2>2 DEF Readied, Card, Statuses
  <2>3. ASSUME NEW d \in Designs, c = [Base(p) EXCEPT !.design = d]
        PROVE  c \in Card /\ c.hist = Base(p).hist /\ c.count = Base(p).count
    BY <1>1, <2>3 DEF Card
  <2> QED
    BY <1>6, <2>1, <2>2, <2>3 DEF ReadyResults
<1>7. CASE op[p].kind = "metadata"
  <2>1. PICK d \in Designs : c = [Base(p) EXCEPT !.design = d]
    BY <1>1, <1>7 DEF Results, MetadataResults, Card
  <2> QED
    BY <1>1, <1>7, <2>1 DEF Card
<1>8. CASE op[p].kind = "repair"
  <2>1. PICK s \in Statuses : c = [Base(p) EXCEPT !.status = s]
    BY <1>8 DEF Results, RepairResults
  <2> QED
    BY <1>1, <1>8, <2>1 DEF Card
<1>9. CASE op[p].kind = "closeout"
  <2>1. PICK s \in Closeout :
            c = [Base(p) EXCEPT !.status = s, !.owner = NoOne, !.report = TRUE]
    BY <1>9 DEF Results, CloseoutResults
  <2> QED
    BY <1>1, <1>9, <2>1 DEF Card, Statuses, Closeout
<1>10. CASE op[p].kind = "review"
  <2>1. PICK s \in Reviewed : c = [Base(p) EXCEPT !.status = s, !.owner = NoOne]
    BY <1>10 DEF Results, ReviewResults
  <2> QED
    BY <1>1, <1>10, <2>1 DEF Card, Statuses, Reviewed
<1> QED
  BY <1>2, <1>3, <1>4, <1>5, <1>6, <1>7, <1>8, <1>9, <1>10 DEF Writers, Kinds

\* The card an operation writes.
LEMMA WrittenCard ==
    ASSUME TypeOK, Phases, NEW p \in Sessions, Write(p)
    PROVE  /\ card' \in Card
           /\ card'.status = "working" => card'.owner # NoOne
           /\ card'.hist = Base(p).hist \cup {op[p].id}
           /\ card'.count = IF op[p].kind = "merge" THEN Base(p).count + 1
                                                    ELSE Base(p).count
<1>1. PICK c \in Results(p) :
          card' = [Normalized(c) EXCEPT !.hist = @ \cup {op[p].id}]
  BY DEF Write
<1>2. op[p].step = "held" /\ op[p].id \in 1..MaxOps
  BY DEF Write, Phases, Active, Writers, Kinds
<1>3. /\ c \in Card /\ c.hist = Base(p).hist
      /\ c.count = IF op[p].kind = "merge" THEN Base(p).count + 1
                                           ELSE Base(p).count
  BY <1>2, ResultsCard
<1> QED
  BY <1>1, <1>2, <1>3, NormalizedCard DEF Card

-----------------------------------------------------------------------------
(* Types.                                                                  *)

LEMMA IdleOp == Idle \in Op /\ At("idle") = Idle /\ \A s \in Steps : At(s) \in Op
<1>1. Idle \in Op /\ Idle.step = "idle"
  BY RegistryAssumption DEF Idle, Op, Steps
<1> QED
  BY <1>1 DEF At, Op

LEMMA TypeInit == Init => TypeInv
<1> SUFFICES ASSUME Init PROVE TypeInv
  OBVIOUS
<1>1. card \in Card \cup {Absent}
      /\ (Exists /\ card.status = "working" => card.owner # NoOne)
  BY DefaultCard DEF Init, Card, Statuses, Exists
<1>2. Idle \in Op
  BY IdleOp DEF Steps
<1>3. TypeOK
  BY <1>1, <1>2 DEF Init, TypeOK
<1>4. LogOK
  BY RegistryAssumption DEF Init, LogOK
<1>5. Phases
  BY DEF Init, Phases, Active, Idle
<1> QED
  BY <1>3, <1>4, <1>5 DEF TypeInv

\* An operation that moves between the steps of a writer.
LEMMA MoveType ==
    ASSUME TypeInv, NEW p \in Sessions, NEW s \in Active,
           op[p].step \in Active, NEW c \in Card \cup {Absent},
           op' = [op EXCEPT ![p].step = s, ![p].current = c]
    PROVE  op' \in [Sessions -> Op] /\ Phases'
<1>1. op \in [Sessions -> Op] /\ Phases
  BY DEF TypeInv, TypeOK
<1> DEFINE o == [op[p] EXCEPT !.step = s, !.current = c]
<1>2. /\ o \in Op /\ o.kind = op[p].kind /\ o.id = op[p].id /\ o.step = s
      /\ op' = [op EXCEPT ![p] = o]
  BY <1>1 DEF Op, Steps, Active
<1> HIDE DEF o
<1>3. op' \in [Sessions -> Op]
  BY <1>1, <1>2
<1>4. /\ op'[p].kind = op[p].kind /\ op'[p].id = op[p].id
      /\ op'[p].step \in Active
      /\ \A q \in Sessions : q # p => op'[q] = op[q]
  BY <1>1, <1>2
<1>5. Phases'
  BY <1>1, <1>4 DEF Phases, Active
<1> QED
  BY <1>3, <1>5

\* An operation that has nothing more to decide.
LEMMA EndType ==
    ASSUME TypeInv, NEW p \in Sessions, NEW s \in {"idle", "done", "dead"},
           op' = [op EXCEPT ![p] = At(s)]
    PROVE  op' \in [Sessions -> Op] /\ Phases'
<1>1. At(s) \in Op
  BY IdleOp DEF Steps
<1>2. op' \in [Sessions -> Op]
  BY <1>1 DEF TypeInv, TypeOK
<1>3. Phases'
  BY DEF TypeInv, TypeOK, Phases, Active, At, Idle
<1> QED
  BY <1>2, <1>3

LEMMA TypeNext == TypeInv /\ [Next]_vars => TypeInv'
<1> SUFFICES ASSUME TypeInv, [Next]_vars PROVE TypeOK' /\ LogOK' /\ Phases'
  BY DEF TypeInv
<1> USE RegistryAssumption
<1>0. TypeOK /\ LogOK /\ Phases
  BY DEF TypeInv
<1>1. ASSUME NEW p \in Sessions, NEW k \in Kinds, Begin(p, k)
      PROVE  TypeOK' /\ LogOK' /\ Phases'
  <2> DEFINE o == op'[p]
  <2>1. /\ log.ops + 1 \in 1..MaxOps
        /\ log' = [log EXCEPT !.ops = @ + 1,
                   !.merges = IF k = "merge" THEN @ \cup {log.ops + 1} ELSE @]
    BY <1>0, <1>1 DEF Begin, LogOK
  <2>2. k = "merge" => card.count \in Nat
    BY <1>0, <1>1 DEF Begin, Admits, TypeOK, Exists, Card
  <2>3. /\ op' = [op EXCEPT ![p] = o] /\ o \in Op /\ o.id = log.ops + 1
        /\ o.kind = k
        /\ o.step = IF k \in {"delete", "force_delete"} THEN "remove" ELSE "wait"
    BY <1>0, <1>1, <2>1, <2>2 DEF Begin, TypeOK, Op, Steps, Kinds
  <2>4. LogOK'
    <3> DEFINE m == IF k = "merge" THEN log.merges \cup {log.ops + 1}
                                   ELSE log.merges
               n == log.ops + 1
    <3>1. n \in 0..MaxOps /\ m \in SUBSET (1..MaxOps)
      BY <1>0, <2>1 DEF LogOK
    <3>2. log' = [log EXCEPT !.ops = n, !.merges = m]
      BY <2>1
    <3> HIDE DEF m, n
    <3> QED
      BY <1>0, <3>1, <3>2 DEF LogOK
  <2>5. TypeOK'
    BY <1>0, <1>1, <2>3 DEF Begin, TypeOK, Exists
  <2>6. Phases'
    BY <1>0, <2>1, <2>3 DEF TypeOK, Phases, Active, Writers, Kinds
  <2> QED
    BY <2>4, <2>5, <2>6
<1>2. ASSUME NEW p \in Sessions, Acquire(p) PROVE TypeOK' /\ LogOK' /\ Phases'
  <2>1. op' \in [Sessions -> Op] /\ Phases'
    BY <1>0, <1>2, MoveType DEF Acquire, TypeOK, Active
  <2> QED
    BY <1>0, <1>2, <2>1 DEF Acquire, TypeOK, LogOK, Exists
<1>3. ASSUME NEW p \in Sessions, SeesStale(p) PROVE TypeOK' /\ LogOK' /\ Phases'
  <2>1. op' \in [Sessions -> Op] /\ Phases'
    BY <1>0, <1>3 DEF SeesStale, TypeOK, Op, Steps, Phases, Active
  <2> QED
    BY <1>0, <1>3, <2>1 DEF SeesStale, TypeOK, LogOK, Exists
<1>4. ASSUME NEW p \in Sessions, BreakStale(p) PROVE TypeOK' /\ LogOK' /\ Phases'
  <2>1. op' \in [Sessions -> Op] /\ Phases'
    BY <1>0, <1>4 DEF BreakStale, TypeOK, Op, Steps, Phases, Active
  <2>2. LogOK'
    BY <1>0, <1>4 DEF BreakStale, LogOK
  <2> QED
    BY <1>0, <1>4, <2>1, <2>2 DEF BreakStale, TypeOK, Exists
<1>5. ASSUME NEW p \in Sessions, LockTimeout(p) \/ Release(p) \/ Remove(p)
      PROVE  TypeOK' /\ LogOK' /\ Phases'
  <2>1. op' \in [Sessions -> Op] /\ Phases'
    BY <1>5, IdleOp, EndType DEF LockTimeout, Release, Remove
  <2>2. LogOK'
    BY <1>0, <1>5 DEF LockTimeout, Release, Remove, LogOK
  <2> QED
    BY <1>0, <1>5, <2>1, <2>2 DEF LockTimeout, Release, Remove, TypeOK, Exists
<1>6. ASSUME NEW p \in Sessions, Write(p) PROVE TypeOK' /\ LogOK' /\ Phases'
  <2>1. op' \in [Sessions -> Op] /\ Phases'
    BY <1>6, EndType DEF Write
  <2>2. op[p].id \in 1..MaxOps
    BY <1>0, <1>6 DEF Write, Phases, Active, Writers, Kinds
  <2>3. LogOK'
    BY <1>0, <1>6, <2>2 DEF Write, LogOK
  <2> QED
    BY <1>0, <1>6, <2>1, <2>3, WrittenCard DEF Write, TypeOK
<1>7. ASSUME NEW p \in Sessions, Refuse(p) \/ Crash(p)
      PROVE  TypeOK' /\ LogOK' /\ Phases'
  <2>1. op' \in [Sessions -> Op] /\ Phases'
    BY <1>7, EndType DEF Refuse, Crash
  <2>2. LogOK'
    BY <1>0, <1>7 DEF Refuse, Crash, LogOK
  <2> QED
    BY <1>0, <1>7, <2>1, <2>2 DEF Refuse, Crash, TypeOK, Exists
<1>8. ASSUME HandEdit \/ Pause PROVE TypeOK' /\ LogOK' /\ Phases'
  <2>1. LogOK' /\ Phases'
    BY <1>0, <1>8 DEF HandEdit, Pause, LogOK, Phases
  <2>2. CASE HandEdit
    <3>1. /\ card' \in Card /\ card'.status = card.status
          /\ card'.owner = card.owner
      BY <1>0, <2>2 DEF HandEdit, TypeOK, Card, Exists
    <3> QED
      BY <1>0, <2>1, <2>2, <3>1 DEF HandEdit, TypeOK, Exists
  <2>3. CASE Pause
    BY <1>0, <2>1, <2>3 DEF Pause, TypeOK, Exists
  <2> QED
    BY <1>8, <2>2, <2>3
<1>9. CASE UNCHANGED vars
  BY <1>0, <1>9 DEF vars, TypeOK, LogOK, Phases, Exists
<1> QED
  BY <1>1, <1>2, <1>3, <1>4, <1>5, <1>6, <1>7, <1>8, <1>9 DEF Next, Step

\* The type invariant: a card on disk is a card, and one that is being worked
\* on names its worker, whatever the sessions do.
THEOREM TypeCorrect == Spec => []TypeOK
<1>1. TypeInv => TypeOK
  BY DEF TypeInv
<1> QED
  BY <1>1, TypeInit, TypeNext, PTL DEF Spec

-----------------------------------------------------------------------------
(* The lock.                                                               *)

LEMMA LockInit == Init => LockInv
<1> SUFFICES ASSUME Init PROVE LockInv
  OBVIOUS
<1>1. Locked /\ Seen /\ Gone /\ NoLostUpdate
  BY DEF Init, Locked, Seen, Gone, NoLostUpdate, Idle
<1> QED
  BY <1>1, TypeInit DEF LockInv

\* A step of p that leaves the card, and what is known of it, alone.
LEMMA LockFrame ==
    ASSUME LockInv, NEW p \in Sessions, card' = card,
           \A q \in Sessions : q # p => op'[q] = op[q],
           op'[p].step # "held",
           log'.written = log.written, ~log'.stolen => ~log.stolen
    PROVE  Seen' /\ Gone' /\ NoLostUpdate'
<1>1. Seen'
  BY DEF LockInv, Seen, Exists
<1> QED
  BY <1>1 DEF LockInv, Gone, NoLostUpdate, Exists

LEMMA LockNext == LockInv /\ [Next]_vars => LockInv'
<1> SUFFICES ASSUME LockInv, [Next]_vars
             PROVE  Locked' /\ Seen' /\ Gone' /\ NoLostUpdate'
  BY TypeNext DEF LockInv
<1> USE RegistryAssumption
<1>0. TypeOK /\ LogOK /\ Phases /\ Locked /\ Seen /\ Gone /\ NoLostUpdate
  BY DEF LockInv, TypeInv
<1>1. ASSUME NEW p \in Sessions, NEW k \in Kinds, Begin(p, k)
      PROVE  Locked' /\ Seen' /\ Gone' /\ NoLostUpdate'
  <2>1. /\ op'[p].step \notin {"held", "done"} /\ card' = card /\ lock' = lock
        /\ \A q \in Sessions : q # p => op'[q] = op[q]
        /\ log'.written = log.written /\ log'.stolen = log.stolen
    BY <1>0, <1>1 DEF Begin, TypeOK, LogOK
  <2> QED
    BY <1>0, <2>1, LockFrame DEF Locked
<1>2. ASSUME NEW p \in Sessions, Acquire(p)
      PROVE  Locked' /\ Seen' /\ Gone' /\ NoLostUpdate'
  <2>1. /\ op'[p].step = "held" /\ op'[p].current = card /\ lock' = p
        /\ \A q \in Sessions : q # p => op'[q] = op[q]
        /\ lock = NoOne /\ UNCHANGED <<card, log>>
    BY <1>0, <1>2 DEF Acquire, Free, TypeOK, Op
  <2>2. ~log.stolen => \A q \in Sessions : op[q].step \notin {"held", "done"}
    BY <1>0, <2>1 DEF Locked, NoOne
  <2>3. Locked' /\ Seen'
    BY <2>1, <2>2 DEF Locked, Seen, Exists
  <2> QED
    BY <1>0, <2>1, <2>3 DEF Gone, NoLostUpdate, Exists
<1>3. ASSUME NEW p \in Sessions, SeesStale(p) \/ BreakStale(p) \/ LockTimeout(p)
      PROVE  Locked' /\ Seen' /\ Gone' /\ NoLostUpdate'
  <2>1. /\ op'[p].step \notin {"held", "done"} /\ card' = card
        /\ \A q \in Sessions : q # p => op'[q] = op[q]
        /\ log'.written = log.written
    BY <1>0, <1>3 DEF SeesStale, BreakStale, LockTimeout, Idle, TypeOK, Op, LogOK
  <2>2. /\ ~log'.stolen => ~log.stolen
        /\ ~log'.stolen => \/ lock' = lock
                           \/ lock = NoOne \/ op[lock].step = "dead"
    BY <1>0, <1>3 DEF SeesStale, BreakStale, LockTimeout, LogOK
  <2>3. Locked'
    BY <1>0, <2>1, <2>2 DEF Locked, NoOne
  <2> QED
    BY <2>1, <2>2, <2>3, LockFrame
<1>4. ASSUME NEW p \in Sessions, Write(p)
      PROVE  Locked' /\ Seen' /\ Gone' /\ NoLostUpdate'
  <2>1. /\ op'[p].step = "done" /\ lock' = lock /\ op[p].step = "held"
        /\ \A q \in Sessions : q # p => op'[q] = op[q]
        /\ log'.written = log.written \cup {op[p].id} /\ log'.stolen = log.stolen
    BY <1>0, <1>4 DEF Write, At, Idle, TypeOK, Op, LogOK
  <2>2. card' \in Card /\ card'.hist = Base(p).hist \cup {op[p].id}
    BY <1>0, <1>4, WrittenCard
  <2>3. ~log.stolen => \A q \in Sessions : q # p => op[q].step # "held"
    BY <1>0, <2>1 DEF Locked
  <2>4. Exists'
    BY <2>2, AbsentIsNoCard DEF Exists
  <2>5. ~log.stolen => log.written \subseteq Base(p).hist
    <3>1. CASE ~Exists
      BY <1>0, <3>1 DEF Gone
    <3>2. CASE Exists /\ ~log.stolen
      <4>1. /\ op[p].current # Absent
            /\ card \in {op[p].current, [op[p].current EXCEPT !.bad = TRUE]}
        BY <1>0, <2>1, <3>2 DEF Seen
      <4>2. op[p].current \in Card
        BY <1>0, <4>1 DEF TypeOK, Op
      <4>3. card.hist = op[p].current.hist
        BY <4>1, <4>2 DEF Card
      <4> QED
        BY <1>0, <3>2, <4>1, <4>3, BaseCard DEF NoLostUpdate
    <3> QED
      BY <3>1, <3>2
  <2>6. Locked' /\ Seen'
    BY <1>0, <2>1, <2>3 DEF Locked, Seen
  <2> QED
    BY <2>1, <2>2, <2>4, <2>5, <2>6 DEF Gone, NoLostUpdate
<1>5. ASSUME NEW p \in Sessions, Refuse(p) \/ Crash(p)
      PROVE  Locked' /\ Seen' /\ Gone' /\ NoLostUpdate'
  <2>1. /\ op'[p].step \in {"done", "dead"} /\ card' = card /\ lock' = lock
        /\ op[p].step \in {"held", "done"}
        /\ \A q \in Sessions : q # p => op'[q] = op[q]
        /\ log'.written = log.written /\ log'.stolen = log.stolen
    BY <1>0, <1>5 DEF Refuse, Crash, At, Idle, TypeOK, Op, LogOK
  <2> QED
    BY <1>0, <2>1, LockFrame DEF Locked
<1>6. ASSUME NEW p \in Sessions, Release(p)
      PROVE  Locked' /\ Seen' /\ Gone' /\ NoLostUpdate'
  <2>1. /\ op'[p].step = "idle" /\ op[p].step = "done" /\ UNCHANGED <<card, log>>
        /\ \A q \in Sessions : q # p => op'[q] = op[q]
    BY <1>0, <1>6 DEF Release, Idle, TypeOK
  <2>2. Locked'
    BY <1>0, <2>1 DEF Locked
  <2> QED
    BY <2>1, <2>2, LockFrame
<1>7. ASSUME NEW p \in Sessions, Remove(p)
      PROVE  Locked' /\ Seen' /\ Gone' /\ NoLostUpdate'
  <2>1. /\ op'[p].step = "idle" /\ lock' = lock /\ card' = Absent
        /\ \A q \in Sessions : q # p => op'[q] = op[q]
        /\ log'.written = {} /\ log'.stolen = log.stolen
    BY <1>0, <1>7 DEF Remove, Idle, TypeOK, LogOK
  <2> QED
    BY <1>0, <2>1 DEF Locked, Seen, Gone, NoLostUpdate, Exists
<1>8. ASSUME HandEdit PROVE Locked' /\ Seen' /\ Gone' /\ NoLostUpdate'
  <2>1. /\ card \in Card /\ card' = [card EXCEPT !.bad = TRUE]
        /\ UNCHANGED <<lock, op>>
        /\ log'.written = log.written /\ log'.stolen = log.stolen
    BY <1>0, <1>8 DEF HandEdit, TypeOK, Exists, LogOK
  <2>2. card' \in Card /\ card'.hist = card.hist
    BY <2>1 DEF Card
  <2>3. Exists /\ Exists'
    BY <2>1, <2>2, AbsentIsNoCard DEF Exists
  <2>4. ASSUME NEW p \in Sessions, op[p].step = "held", ~log.stolen
        PROVE  /\ op[p].current # Absent
               /\ card' = [op[p].current EXCEPT !.bad = TRUE]
    <3>1. /\ op[p].current # Absent
          /\ card \in {op[p].current, [op[p].current EXCEPT !.bad = TRUE]}
      BY <1>0, <2>3, <2>4 DEF Seen
    <3>2. op[p].current \in Card
      BY <1>0, <3>1 DEF TypeOK, Op
    <3> QED
      BY <2>1, <3>1, <3>2 DEF Card
  <2>5. Seen'
    BY <2>1, <2>4 DEF Seen
  <2> QED
    BY <1>0, <2>1, <2>2, <2>3, <2>5 DEF Locked, Gone, NoLostUpdate
<1>9. ASSUME Pause \/ UNCHANGED vars
      PROVE  Locked' /\ Seen' /\ Gone' /\ NoLostUpdate'
  <2>1. /\ UNCHANGED <<card, lock, op>>
        /\ log'.written = log.written /\ log'.stolen = log.stolen
    BY <1>0, <1>9 DEF Pause, vars, LogOK
  <2> QED
    BY <1>0, <2>1 DEF Locked, Seen, Gone, NoLostUpdate, Exists
<1> QED
  BY <1>1, <1>2, <1>3, <1>4, <1>5, <1>6, <1>7, <1>8, <1>9 DEF Next, Step

LEMMA LockInvariant == Spec => []LockInv
  BY LockInit, LockNext, PTL DEF Spec

\* No session overwrites a change from an earlier read: while no live lock was
\* broken, what updateCoordinationTask wrote stays in the card's history until
\* the card is deleted, whoever was killed under the lock.
THEOREM NoUpdateIsLost == Spec => []NoLostUpdate
<1>1. LockInv => NoLostUpdate
  BY DEF LockInv
<1> QED
  BY <1>1, LockInvariant, PTL

-----------------------------------------------------------------------------
(* readyCoordinationTask().                                                *)

\* What a ready request may write, by the status it finds under the lock.
LEMMA ReadyWrites ==
    ASSUME TypeOK, NEW p \in Sessions, op[p].kind = "ready",
           NEW c \in Results(p)
    PROVE  /\ Base(p).status \in {"draft", "ready"}
           /\ Base(p).status = "draft" => Certified(c)
<1>1. ReadyGuard(p) /\ c \in ReadyCards(p)
  BY DEF Results
<1> QED
  BY <1>1 DEF ReadyGuard, ReadyCards

LEMMA ReadyStep ==
    ASSUME LockInv, LockInv', [Next]_vars, NEW p \in Sessions,
           op[p].kind = "ready", op[p].step = "held", op'[p].step = "done",
           card' # card, Exists, ~card.bad, ~log.stolen
    PROVE  /\ Loaded.status \in {"draft", "ready"}
           /\ Loaded.status = "draft" => Certified(card')
<1>0. TypeOK /\ Phases /\ Seen
  BY DEF LockInv, TypeInv
<1>1. Write(p)
  <2>1. (\E q \in Sessions : Write(q) \/ Remove(q)) \/ HandEdit
    BY DEF Next, Step, vars, Begin, Acquire, SeesStale, BreakStale, LockTimeout,
           Refuse, Release, Crash, Pause
  <2>2. ~HandEdit
    BY DEF HandEdit
  <2>3. ASSUME NEW q \in Sessions, Remove(q) PROVE FALSE
    BY <1>0, <2>3 DEF Remove, TypeOK, Idle
  <2>4. ASSUME NEW q \in Sessions, q # p, Write(q) PROVE FALSE
    BY <1>0, <2>4 DEF Write, TypeOK
  <2> QED
    BY <2>1, <2>2, <2>3, <2>4
<1>2. Base(p) = Loaded
  <2>1. /\ op[p].current # Absent
        /\ card \in {op[p].current, [op[p].current EXCEPT !.bad = TRUE]}
    BY <1>0 DEF Seen
  <2>2. op[p].current \in Card
    BY <1>0, <2>1 DEF TypeOK, Op
  <2>3. card = op[p].current
    BY <2>1, <2>2 DEF Card
  <2> QED
    BY <2>1, <2>3 DEF Base, Loaded
<1>3. PICK c \in Results(p) :
          card' = [Normalized(c) EXCEPT !.hist = @ \cup {op[p].id}]
  BY <1>1 DEF Write
<1>4. c \in Card
  BY <1>0, <1>1, ResultsCard DEF Write
<1>5. Certified(c) => Certified(card')
  BY <1>3, <1>4, NormalizedCard DEF Certified, Card
<1> QED
  BY <1>0, <1>2, <1>3, <1>5, ReadyWrites

\* A ready request never takes a card from an active worker, and certifies a
\* draft it moves to ready for the design it writes: readyCoordinationTask's
\* re-check under the lock.
THEOREM ReadyCertifies == Spec => ReadyIsCertified
<1>1. LockInv /\ LockInv' /\ [Next]_vars =>
      [\A p \in Sessions :
          op[p].kind = "ready" /\ op[p].step = "held" /\ op'[p].step = "done"
          /\ card' # card /\ Exists /\ ~card.bad /\ ~log.stolen =>
             /\ Loaded.status \in {"draft", "ready"}
             /\ Loaded.status = "draft" => Certified(card')]_vars
  BY ReadyStep
<1> QED
  BY <1>1, LockInvariant, PTL DEF Spec, ReadyIsCertified

-----------------------------------------------------------------------------
(* The count.                                                              *)

LEMMA CountInit == Init => CountInv
<1> SUFFICES ASSUME Init PROVE CountInv
  OBVIOUS
<1>1. IdsOK(op, log)
  BY DEF Init, IdsOK, Idle
<1>2. card = Absent \/ (card.hist = {} /\ card.count = 0)
  BY DefaultCard DEF Init, Card
<1>3. CopyOK(card, op, log)
  <2>1. {} \cap log.merges = {}
    OBVIOUS
  <2> QED
    BY <1>2, <2>1, FS_EmptySet DEF CopyOK, Init, Idle
<1>4. \A q \in Sessions : CopyOK(op[q].current, op, log)
  BY DEF Init, Idle, CopyOK
<1> QED
  BY <1>1, <1>3, <1>4, TypeInit DEF CountInv, Copies

\* The operations of o are still under way in n, or over.
Shrinks(o, n) == \A q \in Sessions :
    n[q].kind = "none" \/ (n[q].kind = o[q].kind /\ n[q].id = o[q].id)

\* Operations that go on or end keep their ids and every copy's account.
LEMMA IdsFrame ==
    ASSUME NEW o, NEW n, NEW l, NEW m, IdsOK(o, l), Shrinks(o, n),
           m.ops = l.ops, m.merges = l.merges
    PROVE  IdsOK(n, m)
  BY DEF IdsOK, Shrinks

LEMMA CopyFrame ==
    ASSUME NEW o, NEW n, NEW l, NEW m, NEW c, CopyOK(c, o, l), Shrinks(o, n),
           m.ops = l.ops, m.merges = l.merges
    PROVE  CopyOK(c, n, m)
  BY DEF CopyOK, Shrinks

\* A step of p that starts no operation and keeps or drops p's copy.
LEMMA CountFrame ==
    ASSUME CountInv, NEW p \in Sessions,
           \A q \in Sessions : q # p => op'[q] = op[q],
           \/ op'[p].kind = "none"
           \/ op'[p].kind = op[p].kind /\ op'[p].id = op[p].id,
           op'[p].current \in {Absent, card, op[p].current},
           log'.ops = log.ops, log'.merges = log.merges
    PROVE  /\ IdsOK(op', log') /\ CopyOK(card, op', log')
           /\ \A q \in Sessions : CopyOK(op'[q].current, op', log')
<1>1. Shrinks(op, op')
  BY DEF Shrinks
<1>2. IdsOK(op, log) /\ CopyOK(card, op, log)
      /\ \A q \in Sessions : CopyOK(op[q].current, op, log)
  BY DEF CountInv, Copies
<1>3. IdsOK(op', log')
  BY <1>1, <1>2, IdsFrame
<1>4. \A c : CopyOK(c, op, log) => CopyOK(c, op', log')
  BY <1>1, CopyFrame
<1>5. CopyOK(Absent, op', log')
  BY DEF CopyOK
<1>6. \A q \in Sessions : CopyOK(op'[q].current, op', log')
  BY <1>2, <1>4, <1>5
<1> QED
  BY <1>2, <1>3, <1>4, <1>6

\* The history of a copy is finite, and so are the merges in it.
LEMMA FiniteMerges ==
    ASSUME TypeInv, NEW c \in Card
    PROVE  IsFiniteSet(c.hist \cap log.merges)
<1>1. IsFiniteSet(1..MaxOps)
  BY RegistryAssumption, FS_Interval
<1>2. c.hist \cap log.merges \in SUBSET (1..MaxOps)
  BY DEF Card
<1> QED
  BY <1>1, <1>2, FS_Subset

\* A new operation is in no copy's history.
LEMMA CopyBegin ==
    ASSUME TypeInv, NEW c, CopyOK(c, op, log), NEW p \in Sessions, NEW n, NEW m,
           \A q \in Sessions : q # p => n[q] = op[q], n[p].id = log.ops + 1,
           m.ops = log.ops + 1, m.merges \subseteq log.merges \cup {log.ops + 1},
           log.merges \subseteq m.merges
    PROVE  CopyOK(c, n, m)
<1> SUFFICES ASSUME c # Absent PROVE CopyOK(c, n, m)
  BY DEF CopyOK
<1>1. /\ log.ops \in Nat /\ c.hist \subseteq 1..log.ops
      /\ c.count = Cardinality(c.hist \cap log.merges)
      /\ \A q \in Sessions : op[q].kind # "none" => op[q].id \notin c.hist
  BY DEF CopyOK, TypeInv, LogOK
<1>2. log.ops + 1 \notin c.hist /\ c.hist \subseteq 1..m.ops
  BY <1>1
<1>3. c.hist \cap m.merges = c.hist \cap log.merges
  BY <1>2
<1> QED
  BY <1>1, <1>2, <1>3 DEF CopyOK

LEMMA CountBegin ==
    ASSUME CountInv, NEW p \in Sessions, NEW k \in Kinds, Begin(p, k)
    PROVE  IdsOK(op', log') /\ CopyOK(card', op', log')
           /\ \A q \in Sessions : CopyOK(op'[q].current, op', log')
<1>1. TypeInv /\ IdsOK(op, log) /\ CopyOK(card, op, log)
      /\ \A q \in Sessions : CopyOK(op[q].current, op, log)
  BY DEF CountInv, Copies
<1>2. /\ op'[p].id = log.ops + 1 /\ op'[p].current = Absent /\ op'[p].kind = k
      /\ \A q \in Sessions : q # p => op'[q] = op[q]
      /\ card' = card /\ log'.ops = log.ops + 1 /\ log.ops \in Nat
      /\ log'.merges = IF k = "merge" THEN log.merges \cup {log.ops + 1}
                                      ELSE log.merges
  BY <1>1 DEF Begin, TypeInv, TypeOK, LogOK
<1>3. IdsOK(op', log')
  BY <1>1, <1>2 DEF IdsOK
<1>4. \A c : CopyOK(c, op, log) => CopyOK(c, op', log')
  BY <1>1, <1>2, CopyBegin
<1>5. CopyOK(Absent, op', log')
  BY DEF CopyOK
<1> QED
  BY <1>1, <1>2, <1>3, <1>4, <1>5

\* The written card counts the operation exactly when it is a merge.
LEMMA CountWrite ==
    ASSUME CountInv, NEW p \in Sessions, Write(p)
    PROVE  CopyOK(card', op', log')
<1> DEFINE i == op[p].id
           b == Base(p)
<1>1. TypeInv /\ TypeOK /\ Phases /\ IdsOK(op, log) /\ LogOK
      /\ CopyOK(op[p].current, op, log)
  BY DEF CountInv, TypeInv, Copies
<1>2. /\ card' \in Card /\ card'.hist = b.hist \cup {i}
      /\ card'.count = IF op[p].kind = "merge" THEN b.count + 1 ELSE b.count
  BY <1>1, WrittenCard
<1>3. /\ op'[p].kind = "none" /\ \A q \in Sessions : q # p => op'[q] = op[q]
      /\ log'.ops = log.ops /\ log'.merges = log.merges
      /\ op[p].kind \in Writers
  BY <1>1 DEF Write, At, Idle, TypeOK, LogOK, Phases, Active
<1>4. /\ i \in 1..log.ops
      /\ i \in log.merges <=> op[p].kind = "merge"
      /\ \A q \in Sessions : q # p /\ op[q].kind # "none" => op[q].id # i
  BY <1>1, <1>3 DEF IdsOK, Writers, Kinds
<1>5. /\ b \in Card /\ b.hist \subseteq 1..log.ops /\ i \notin b.hist
      /\ \A q \in Sessions : op[q].kind # "none" => op[q].id \notin b.hist
      /\ b.count = Cardinality(b.hist \cap log.merges)
  <2>1. CASE op[p].current = Absent
    <3>1. b \in Card /\ b.hist = {} /\ b.count = 0 /\ {} \cap log.merges = {}
      BY <1>1, <2>1, BaseCard
    <3> QED
      BY <3>1, FS_EmptySet
  <2>2. CASE op[p].current # Absent
    BY <1>1, <1>3, <2>2, BaseCard DEF CopyOK, Writers, Kinds
  <2> QED
    BY <2>1, <2>2
<1> HIDE DEF b, i
<1>6. card'.count = Cardinality(card'.hist \cap log.merges)
  <2>1. IsFiniteSet(b.hist \cap log.merges)
    BY <1>1, <1>5, FiniteMerges
  <2>2. CASE op[p].kind = "merge"
    <3>1. card'.hist \cap log.merges = (b.hist \cap log.merges) \cup {i}
      BY <1>2, <1>4, <2>2
    <3>2. i \notin b.hist \cap log.merges
      BY <1>5
    <3>3. Cardinality((b.hist \cap log.merges) \cup {i})
            = Cardinality(b.hist \cap log.merges) + 1
      BY <2>1, <3>2, FS_AddElement
    <3> QED
      BY <1>2, <1>5, <2>2, <3>1, <3>3
  <2>3. CASE op[p].kind # "merge"
    <3>1. card'.hist \cap log.merges = b.hist \cap log.merges
      BY <1>2, <1>4, <2>3
    <3> QED
      BY <1>2, <1>5, <2>3, <3>1
  <2> QED
    BY <2>2, <2>3
<1>7. card'.hist \subseteq 1..log'.ops
  BY <1>2, <1>3, <1>4, <1>5
<1>8. \A q \in Sessions : op'[q].kind # "none" => op'[q].id \notin card'.hist
  BY <1>2, <1>3, <1>4, <1>5
<1> QED
  BY <1>3, <1>6, <1>7, <1>8 DEF CopyOK

LEMMA CountNext == CountInv /\ [Next]_vars => CountInv'
<1> DEFINE Goal == IdsOK(op', log') /\ CopyOK(card', op', log')
                   /\ \A q \in Sessions : CopyOK(op'[q].current, op', log')
<1> SUFFICES ASSUME CountInv, [Next]_vars PROVE Goal
  BY TypeNext DEF CountInv, Copies
<1>0. TypeOK /\ LogOK /\ CopyOK(card, op, log)
  BY DEF CountInv, TypeInv, Copies
<1>1. ASSUME NEW p \in Sessions, NEW k \in Kinds, Begin(p, k) PROVE Goal
  BY <1>1, CountBegin
<1>2. ASSUME NEW p \in Sessions,
             Acquire(p) \/ SeesStale(p) \/ BreakStale(p) \/ LockTimeout(p)
             \/ Refuse(p) \/ Release(p) \/ Remove(p) \/ Crash(p) \/ Write(p)
      PROVE  /\ \A q \in Sessions : q # p => op'[q] = op[q]
             /\ \/ op'[p].kind = "none"
                \/ op'[p].kind = op[p].kind /\ op'[p].id = op[p].id
             /\ op'[p].current \in {Absent, card, op[p].current}
             /\ log'.ops = log.ops /\ log'.merges = log.merges
  <2>1. CASE Acquire(p)
    BY <1>0, <2>1 DEF Acquire, TypeOK, Op
  <2>2. CASE SeesStale(p) \/ BreakStale(p)
    BY <1>0, <2>2 DEF SeesStale, BreakStale, TypeOK, Op, LogOK
  <2>3. CASE LockTimeout(p) \/ Release(p) \/ Remove(p)
    BY <1>0, <2>3 DEF LockTimeout, Release, Remove, Idle, TypeOK, LogOK
  <2>4. CASE Refuse(p) \/ Crash(p) \/ Write(p)
    BY <1>0, <2>4 DEF Refuse, Crash, Write, At, Idle, TypeOK, LogOK
  <2> QED
    BY <1>2, <2>1, <2>2, <2>3, <2>4
<1>3. ASSUME NEW p \in Sessions,
             Acquire(p) \/ SeesStale(p) \/ BreakStale(p) \/ LockTimeout(p)
             \/ Refuse(p) \/ Release(p) \/ Crash(p)
      PROVE  Goal
  <2>1. card' = card
    BY <1>3 DEF Acquire, SeesStale, BreakStale, LockTimeout, Refuse, Release, Crash
  <2> QED
    BY <1>2, <1>3, <2>1, CountFrame
<1>4. ASSUME NEW p \in Sessions, Remove(p) PROVE Goal
  <2>1. card' = Absent
    BY <1>4 DEF Remove
  <2> QED
    BY <1>2, <1>4, <2>1, CountFrame DEF CopyOK
<1>5. ASSUME NEW p \in Sessions, Write(p) PROVE Goal
  BY <1>2, <1>5, CountFrame, CountWrite
<1>6. ASSUME HandEdit \/ Pause \/ UNCHANGED vars PROVE Goal
  <2>1. /\ op' = op /\ log'.ops = log.ops /\ log'.merges = log.merges
        /\ card' # Absent => card # Absent /\ card'.hist = card.hist
                             /\ card'.count = card.count
    BY <1>0, <1>6 DEF HandEdit, Pause, vars, TypeOK, Card, Exists, LogOK
  <2>2. IdsOK(op, log) /\ \A q \in Sessions : CopyOK(op[q].current, op, log)
    BY DEF CountInv, Copies
  <2> QED
    BY <1>0, <2>1, <2>2 DEF IdsOK, CopyOK
<1> QED
  BY <1>1, <1>3, <1>4, <1>5, <1>6 DEF Next, Step

\* Every repeat merged into a card is counted once, whatever write came between
\* the merge's scan and its lock, and even where a live lock was broken: the
\* count and the history a session re-reads are one card.
THEOREM RepeatsAreCounted == Spec => []RepeatsCounted
<1>1. CountInv => RepeatsCounted
  BY DEF CountInv, Copies, CopyOK, RepeatsCounted, Exists
<1> QED
  BY <1>1, CountInit, CountNext, PTL DEF Spec
=============================================================================
