---------------------------- MODULE ThreadProofs ----------------------------
(***************************************************************************)
(* What threads that share a little state keep between them: the order of  *)
(* the collector's mutexes, however many threads of each kind there are;   *)
(* the evidence of the C1 probe, whoever uses the engine beside it; what   *)
(* the client has on screen, however fast its keys and answers come; the   *)
(* watch of a bench, for every plan and any number of strangers.           *)
(***************************************************************************)
EXTENDS LockOrder, C1Probe, Screen, BenchWatch, NumberLemmas, SequenceTheorems

-----------------------------------------------------------------------------
(***************************************************************************)
(* The mutexes: a thread that waits holds only earlier ones                *)
(***************************************************************************)
\* What the order is kept by: a mutex that is taken inside of another is a later one.
LEMMA InnerIsLater ==
    ASSUME NEW t \in Threads, NEW h \in Locks, NEW l \in Locks, <<h, l>> \in Inner(t)
    PROVE  Rank[h] < Rank[l]
BY DEF Inner, Rank, Locks

\* A name of a mutex is never the name of none.
LEMMA NamesAreLocks == NoLock \notin Locks
BY DEF NoLock, Locks

\* The types are kept.
THEOREM TypeCorrect == Spec => []TypeOK
<1>1. Init => TypeOK
  BY DEF Init, TypeOK
<1>2. TypeOK /\ [Next]_vars => TypeOK'
  <2> SUFFICES ASSUME TypeOK, [Next]_vars PROVE TypeOK'
    OBVIOUS
  <2>1. ASSUME NEW t \in Threads, Acquire(t) PROVE TypeOK'
    BY <2>1 DEF Acquire, TypeOK
  <2>2. ASSUME NEW t \in Threads, NEW l \in Locks, Lock(t, l) PROVE TypeOK'
    BY <2>2 DEF Lock, TypeOK
  <2>3. ASSUME NEW t \in Threads, NEW l \in Locks, LockInside(t, l) PROVE TypeOK'
    BY <2>3 DEF LockInside, TypeOK
  <2>4. ASSUME NEW t \in Threads, NEW l \in Locks, Unlock(t, l) PROVE TypeOK'
    BY <2>4 DEF Unlock, TypeOK
  <2>5. CASE UNCHANGED vars
    BY <2>5 DEF vars, TypeOK
  <2> QED
    BY <2>1, <2>2, <2>3, <2>4, <2>5 DEF Next
<1> QED
  BY <1>1, <1>2, PTL DEF Spec

\* The order is inductive: lock() is called with nothing held, or inside a guard of an
\* earlier mutex, and nothing is taken while waiting.
THEOREM OrderKept == Spec => []Ordered
<1>1. Init => Ordered
  BY DEF Init, Ordered
<1>2. TypeOK /\ Ordered /\ [Next]_vars => Ordered'
  <2> SUFFICES ASSUME TypeOK, Ordered, [Next]_vars PROVE Ordered'
    OBVIOUS
  <2>1. ASSUME NEW t \in Threads, Acquire(t) PROVE Ordered'
    BY <2>1, ThreadsAssumption DEF Acquire, TypeOK, Ordered
  <2>2. ASSUME NEW t \in Threads, NEW l \in Locks, Lock(t, l) PROVE Ordered'
    BY <2>2 DEF Lock, Held, TypeOK, Ordered
  <2>3. ASSUME NEW t \in Threads, NEW l \in Locks, LockInside(t, l) PROVE Ordered'
    <3>1. PICK h \in Locks : Held(t) = {h} /\ <<h, l>> \in Inner(t)
      BY <2>3 DEF LockInside
    <3>2. \A k \in Locks : holder[k] = t => Rank[k] < Rank[l]
      BY <3>1, InnerIsLater DEF Held
    <3> QED
      BY <2>3, <3>2 DEF LockInside, TypeOK, Ordered
  <2>4. ASSUME NEW t \in Threads, NEW l \in Locks, Unlock(t, l) PROVE Ordered'
    BY <2>4, ThreadsAssumption DEF Unlock, TypeOK, Ordered
  <2>5. CASE UNCHANGED vars
    BY <2>5 DEF vars, Ordered
  <2> QED
    BY <2>1, <2>2, <2>3, <2>4, <2>5 DEF Next
<1> QED
  BY <1>1, <1>2, TypeCorrect, PTL DEF Spec

\* Each link of a chain of waiting threads wants a later mutex than the one before, and
\* there are three: a chain that never ends, as in a circle, cannot be.
LEMMA OrderedIsAcyclic == TypeOK /\ Ordered => NoCircularWait
<1> SUFFICES ASSUME TypeOK, Ordered,
                    NEW s \in SUBSET Threads, s # {},
                    \A t \in s : \E u \in s : WaitsFor(t, u)
             PROVE  FALSE
  BY DEF NoCircularWait
<1>1. \A t, u \in s : WaitsFor(t, u) /\ wants[u] # NoLock => Rank[wants[t]] < Rank[wants[u]]
  BY DEF WaitsFor, Ordered, TypeOK
<1>2. \A t \in s : wants[t] \in Locks
  BY DEF WaitsFor, TypeOK
<1>3. \A t \in s : wants[t] # NoLock
  BY <1>2, NamesAreLocks
<1>4. PICK a \in s, b \in s : WaitsFor(a, b)
  OBVIOUS
<1>5. PICK c \in s : WaitsFor(b, c)
  OBVIOUS
<1>6. PICK d \in s : WaitsFor(c, d)
  OBVIOUS
<1>7. \A t \in s : Rank[wants[t]] \in 1 .. 3
  BY <1>2 DEF Rank, Locks
<1> QED
  BY <1>1, <1>3, <1>4, <1>5, <1>6, <1>7

\* main.rs:56: with the declared order kept, no thread waits for a thread that waits for it.
THEOREM NobodyWaitsInACircle == Spec => []NoCircularWait
BY TypeCorrect, OrderKept, OrderedIsAcyclic, PTL

-----------------------------------------------------------------------------
(***************************************************************************)
(* The C1 probe                                                            *)
(***************************************************************************)
Readings == [load: Nat, requests: Nat, tokens: Nat, prompts: Nat]

ReadNames == {"engine", "gate"} \X {"before", "after"}

Evidences ==
    [before: Readings, after: Readings, admitted_before: Nat, admitted_after: Nat,
     read: SUBSET ReadNames, plausible: BOOLEAN]

Totals == [admitted: Nat, requests: Nat, tokens: Nat, prompts: Nat]

Records == [status: {"none", "ok", "skipped_busy", "error"}, valid: BOOLEAN, unverified: BOOLEAN]

ProbeType ==
    /\ site \in Places
    /\ fate \in [Others -> {"out", "running", "alike", "unlike"}]
    /\ totals \in Totals
    /\ own \in {"none", "running", "over", "counted"}
    /\ pc \in {"asleep", "deciding", "engine_read", "gate_read", "sent", "ended", "settled"}
    /\ evidence \in Evidences
    /\ probe_record \in Records
    /\ beside \subseteq Others /\ early \subseteq Others /\ still \subseteq Others
    /\ regated \in BOOLEAN /\ uncounted \in BOOLEAN

\* How far the probe's own request is when the thread is where it is.
OwnGoesAlong ==
    /\ pc \in {"asleep", "settled"} => own # "running"
    /\ pc \in {"deciding", "engine_read", "gate_read"} => own \in {"none", "counted"}
    /\ pc = "sent" => own = "running"
    /\ pc = "ended" => own \in {"over", "counted"}
    /\ pc \in {"deciding", "engine_read", "gate_read"} => beside = {}

\* What has been read by then.
ReadSoFar ==
    /\ pc = "asleep" \/ pc = "deciding" \/ <<"engine", "before">> \in evidence.read
    /\ pc \in {"deciding", "engine_read", "gate_read", "sent", "ended"}
          => <<"engine", "after">> \notin evidence.read
    /\ pc \in {"deciding", "engine_read"} => <<"gate", "before">> \notin evidence.read
    /\ pc # "asleep" => <<"gate", "after">> \notin evidence.read
    /\ <<"gate", "before">> \in evidence.read => site.gateway

\* What an engine has counted between reading b and reading t: nothing, one request, or more.
\* The one is the probe's, or somebody else's, who then is all that is over beside the probe.
Tally(b, t, fates, counted, over) ==
    /\ t.requests >= b.requests
    /\ t.requests = b.requests =>
          ~counted /\ over = {} /\ t.tokens = b.tokens /\ t.prompts = b.prompts
    /\ t.requests = b.requests + 1 =>
          \/ counted /\ over = {}
          \/ /\ ~counted
             /\ \E size \in Sizes :
                   /\ t.tokens = b.tokens + size.tokens
                   /\ t.prompts = b.prompts + size.prompt
                   /\ \A r \in over : /\ over = {r}
                                      /\ size = OwnSize => fates[r] = "alike"

TallyKept ==
    /\ pc \in {"engine_read", "gate_read"} => Tally(evidence.before, totals, fate, FALSE, {})
    /\ pc \in {"sent", "ended"} =>
          Tally(evidence.before, totals, fate, own = "counted", beside \ Running)
    /\ pc = "settled" /\ <<"engine", "after">> \in evidence.read =>
          Tally(evidence.before, evidence.after, fate, ~uncounted, beside \ still)

\* Those beside the probe have come; when the engine has been read again, those that were
\* not running then are over, and the gauge told how many were.
BesideHaveCome ==
    /\ pc \in {"sent", "ended"} => \A r \in beside : fate[r] # "out"
    /\ pc = "settled" => \A r \in beside \ still : fate[r] \in {"alike", "unlike"}
    /\ pc = "settled" /\ <<"engine", "after">> \in evidence.read /\ site.reports_load =>
          evidence.after.load = Cardinality(still) + (IF uncounted THEN 1 ELSE 0)

\* The gate counts the probe's own request, and whoever came after it was read.
GateTally ==
    <<"gate", "before">> \in evidence.read /\ ~regated =>
        /\ pc = "gate_read" =>
              /\ totals.admitted >= evidence.admitted_before
              /\ Running \ early # {} => totals.admitted > evidence.admitted_before
        /\ pc \in {"sent", "ended", "settled"} =>
              /\ totals.admitted > evidence.admitted_before
              /\ beside \ early # {} => totals.admitted > evidence.admitted_before + 1

ProbeInv ==
    ProbeType /\ OwnGoesAlong /\ ReadSoFar /\ TallyKept /\ BesideHaveCome /\ GateTally
        /\ ReadingRanAlone

\* A finite set of at most one member: whoever is in it is the same.
LEMMA AtMostOne ==
    ASSUME NEW S, IsFiniteSet(S), Cardinality(S) <= 1
    PROVE  \A a, b \in S : a = b
<1> SUFFICES ASSUME NEW a \in S, NEW b \in S, a # b PROVE FALSE
  OBVIOUS
<1>1. Cardinality({a, b}) = 2
  <2>1. {a, b} = {a} \cup {b} /\ b \notin {a}
    OBVIOUS
  <2>2. IsFiniteSet({a}) /\ Cardinality({a}) = 1
    BY FS_Singleton
  <2> QED
    BY <2>1, <2>2, FS_AddElement
<1>2. Cardinality({a, b}) <= Cardinality(S)
  BY FS_Subset
<1>3. Cardinality(S) \in Nat
  BY FS_CardinalityType
<1> QED
  BY <1>1, <1>2, <1>3

\* A set whose members are all the same has none or one.
LEMMA OneOrNone ==
    ASSUME NEW S, \A a, b \in S : a = b
    PROVE  IsFiniteSet(S) /\ Cardinality(S) \in {0, 1} /\ (S = {} <=> Cardinality(S) = 0)
<1>1. CASE S = {}
  BY <1>1, FS_EmptySet
<1>2. CASE S # {}
  <2>1. PICK a \in S : S = {a}
    BY <1>2
  <2> QED
    BY <2>1, FS_Singleton
<1> QED
  BY <1>1, <1>2

\* The requests of the others that run can be counted,
LEMMA RunningIsFinite == IsFiniteSet(Running) /\ Cardinality(Running) \in Nat
BY FS_Subset, FS_CardinalityType, ProbeAssumption DEF Running

\* and what the engine shows of them is a reading.
LEMMA LoadIsAReading == ASSUME ProbeType PROVE Load \in Readings
<1>1. Load.load \in Nat
  <2>1. Cardinality(Running) \in Nat
    BY RunningIsFinite
  <2>2. Cardinality(Running) + 1 \in Nat /\ Cardinality(Running) + 0 \in Nat
    BY <2>1
  <2> QED
    BY <2>2 DEF Load
<1>2. Load.requests \in Nat /\ Load.tokens \in Nat /\ Load.prompts \in Nat
  BY DEF ProbeType, Totals, Load
<1> QED
  BY <1>1, <1>2 DEF Load, Readings

\* What is done to records keeps their types.
LEMMA EvidenceKept ==
    ASSUME NEW e \in Evidences, NEW reading \in Readings, NEW n \in Nat, NEW name \in ReadNames,
           NEW yes \in BOOLEAN, NEW f,
           \/ f = e
           \/ f = [e EXCEPT !.before = reading, !.read = @ \cup {name}]
           \/ f = [e EXCEPT !.after = reading, !.read = @ \cup {name}]
           \/ f = [e EXCEPT !.admitted_before = n, !.read = @ \cup {name}]
           \/ f = [e EXCEPT !.admitted_after = n, !.read = @ \cup {name}]
           \/ f = [e EXCEPT !.plausible = yes]
    PROVE  f \in Evidences
<1>1. /\ [e EXCEPT !.before = reading, !.read = @ \cup {name}] \in Evidences
      /\ [e EXCEPT !.after = reading, !.read = @ \cup {name}] \in Evidences
  BY DEF Evidences
<1>2. /\ [e EXCEPT !.admitted_before = n, !.read = @ \cup {name}] \in Evidences
      /\ [e EXCEPT !.admitted_after = n, !.read = @ \cup {name}] \in Evidences
  BY DEF Evidences
<1>3. [e EXCEPT !.plausible = yes] \in Evidences
  BY DEF Evidences
<1> QED
  BY <1>1, <1>2, <1>3

\* So do the counters that grow, or start again.
LEMMA TotalsKept ==
    ASSUME NEW t \in Totals, NEW n \in Nat, NEW m \in Nat
    PROVE  /\ [t EXCEPT !.admitted = @ + 1] \in Totals
           /\ [t EXCEPT !.admitted = 0] \in Totals
           /\ [t EXCEPT !.requests = @ + 1, !.tokens = @ + n, !.prompts = @ + m] \in Totals
<1>1. /\ t.admitted + 1 \in Nat /\ t.requests + 1 \in Nat /\ t.tokens + n \in Nat
      /\ t.prompts + m \in Nat
  BY DEF Totals
<1> QED
  BY <1>1 DEF Totals

\* What the engine has counted after one request more.
LEMMA CountedIsTotals ==
    ASSUME ProbeType, NEW size, size \in Sizes \/ size = OwnSize
    PROVE  Counted(size) \in Totals
<1>1. size.tokens \in Nat /\ size.prompt \in Nat
  BY ProbeAssumption DEF OwnSize
<1> QED
  BY <1>1, TotalsKept DEF Counted, ProbeType

\* The records that are written, whatever was read, are records.
LEMMA RecordsAreRecords ==
    /\ Skipped \in Records /\ Failed \in Records /\ NoEvidence \in Evidences
    /\ \A e : Validated(e) \in Records
BY DEF Skipped, Failed, Records, NoEvidence, Unread, Evidences, Readings, Validated

\* The names of the four readings.
LEMMA NamesOfReads ==
    /\ <<"engine", "before">> \in ReadNames /\ <<"engine", "after">> \in ReadNames
    /\ <<"gate", "before">> \in ReadNames /\ <<"gate", "after">> \in ReadNames
BY DEF ReadNames

\* Every step keeps the types, one by one.
LEMMA ProbeTypeKept == ASSUME ProbeType, ProbeNext PROVE ProbeType'
<1> USE TotalsKept, RecordsAreRecords DEF ProbeType
<1>0. Running \subseteq Others /\ totals.admitted \in Nat
  BY DEF Running, Totals
<1>1. CASE Look
  BY <1>1 DEF Look, Record
<1>2. CASE ReadEngine
  <2>1. evidence' \in Evidences
    BY <1>2, EvidenceKept, LoadIsAReading, NamesOfReads DEF ReadEngine, ProbeType
  <2> QED
    BY <1>2, <2>1 DEF ReadEngine, Record
<1>3. CASE ReadGate
  <2>1. evidence' \in Evidences
    BY <1>3, <1>0, EvidenceKept, LoadIsAReading, NamesOfReads DEF ReadGate, ProbeType
  <2> QED
    BY <1>3, <1>0, <2>1 DEF ReadGate
<1>4. CASE Send
  BY <1>4, <1>0 DEF Send, Record
<1>5. CASE StreamEnds
  BY <1>5, EvidenceKept, 0 \in Nat, LoadIsAReading, NamesOfReads DEF StreamEnds, Record
<1>6. CASE ReadSettled
  <2>1. evidence' \in Evidences
    BY <1>6, EvidenceKept, LoadIsAReading, NamesOfReads DEF ReadSettled, ProbeType
  <2> QED
    BY <1>6, <1>0, <2>1 DEF ReadSettled
<1>7. CASE Judge
  <2>1. evidence' \in Evidences
    BY <1>7, <1>0, EvidenceKept, LoadIsAReading, NamesOfReads DEF Judge, ProbeType
  <2> QED
    BY <1>7, <2>1 DEF Judge, Record
<1>8. CASE CountOwn
  BY <1>8, CountedIsTotals DEF CountOwn
<1>9. CASE GateRestarts
  BY <1>9 DEF GateRestarts
<1>10. CASE PollWrites
  BY <1>10 DEF PollWrites
<1>11. ASSUME NEW r \in Others, Arrive(r) PROVE ProbeType'
  BY <1>11 DEF Arrive
<1>12. ASSUME NEW r \in Others, Finish(r) PROVE ProbeType'
  BY <1>12, CountedIsTotals DEF Finish
<1> QED
  BY <1>1, <1>2, <1>3, <1>4, <1>5, <1>6, <1>7, <1>8, <1>9, <1>10, <1>11, <1>12 DEF ProbeNext

\* The probe's own request goes along with the thread that sent it.
LEMMA OwnKept == ASSUME ProbeType, OwnGoesAlong, ProbeNext PROVE OwnGoesAlong'
<1> USE DEF OwnGoesAlong
<1>0. own \in {"none", "running", "over", "counted"}
  BY DEF ProbeType
<1>1. CASE Look
  BY <1>0, <1>1 DEF Look, Record
<1>2. CASE ReadEngine
  BY <1>2 DEF ReadEngine, Record
<1>3. CASE ReadGate
  BY <1>3 DEF ReadGate, Record
<1>4. CASE Send
  BY <1>4 DEF Send, Record
<1>5. CASE StreamEnds
  BY <1>5 DEF StreamEnds, Record
<1>6. CASE ReadSettled
  BY <1>6 DEF ReadSettled, Record
<1>7. CASE Judge
  BY <1>7 DEF Judge, Record
<1>8. CASE CountOwn
  BY <1>8 DEF CountOwn, Record
<1>9. CASE GateRestarts
  BY <1>9 DEF GateRestarts, Record
<1>10. CASE PollWrites
  BY <1>10 DEF PollWrites, Record
<1>11. ASSUME NEW r \in Others, Arrive(r) PROVE OwnGoesAlong'
  BY <1>11 DEF Arrive
<1>12. ASSUME NEW r \in Others, Finish(r) PROVE OwnGoesAlong'
  BY <1>12 DEF Finish
<1> QED
  BY <1>1, <1>2, <1>3, <1>4, <1>5, <1>6, <1>7, <1>8, <1>9, <1>10, <1>11, <1>12 DEF ProbeNext

\* What a reading leaves of the evidence, field by field.
LEMMA EngineFirstRead ==
    ASSUME ProbeType, ReadEngine
    PROVE  pc' = "asleep" \/ /\ pc' = "engine_read" /\ evidence'.before = Load
                             /\ evidence'.read = evidence.read \cup {<<"engine", "before">>}
BY DEF ReadEngine, Record, ProbeType, Evidences

\* The gate's counter before the request.
LEMMA GateFirstRead ==
    ASSUME ProbeType, ReadGate
    PROVE  /\ evidence'.before = evidence.before
           /\ \/ evidence' = evidence
              \/ /\ site.gateway /\ evidence'.admitted_before = totals.admitted
                 /\ evidence'.read = evidence.read \cup {<<"gate", "before">>}
BY DEF ReadGate, ProbeType, Evidences

\* The engine, after the settling time.
LEMMA EngineReadAgain ==
    ASSUME ProbeType, ReadSettled
    PROVE  /\ evidence'.before = evidence.before
           /\ evidence'.admitted_before = evidence.admitted_before
           /\ \/ evidence' = evidence
              \/ /\ evidence'.after = Load
                 /\ evidence'.read = evidence.read \cup {<<"engine", "after">>}
BY DEF ReadSettled, ProbeType, Evidences

\* The gate, when the verdict is made.
LEMMA GateReadAgain ==
    ASSUME ProbeType, Judge
    PROVE  /\ evidence'.before = evidence.before /\ evidence'.after = evidence.after
           /\ evidence'.admitted_before = evidence.admitted_before
           /\ evidence'.plausible = evidence.plausible
           /\ \/ evidence' = evidence
              \/ /\ site.gateway /\ evidence'.admitted_after = totals.admitted
                 /\ evidence'.read = evidence.read \cup {<<"gate", "after">>}
BY DEF Judge, Record, ProbeType, Evidences

\* The stream itself: only whether its numbers are plausible is kept.
LEMMA StreamRead ==
    ASSUME ProbeType, StreamEnds
    PROVE  /\ evidence'.before = evidence.before /\ evidence'.read = evidence.read
           /\ evidence'.admitted_before = evidence.admitted_before
BY DEF StreamEnds, Record, ProbeType, Evidences

\* The readings are taken in order, each one once.
LEMMA ReadKept == ASSUME ProbeType, ReadSoFar, ProbeNext PROVE ReadSoFar'
<1> USE DEF ReadSoFar, ProbeType, Evidences, NoEvidence
<1>1. CASE Look
  BY <1>1 DEF Look, Record
<1>2. CASE ReadEngine
  BY <1>2, EngineFirstRead DEF ReadEngine, Record
<1>3. CASE ReadGate
  BY <1>3, GateFirstRead DEF ReadGate
<1>4. CASE Send
  BY <1>4 DEF Send, Record
<1>5. CASE StreamEnds
  BY <1>5 DEF StreamEnds, Record
<1>6. CASE ReadSettled
  BY <1>6, EngineReadAgain DEF ReadSettled
<1>7. CASE Judge
  BY <1>7 DEF Judge, Record
<1>8. CASE CountOwn
  BY <1>8 DEF CountOwn, Record
<1>9. CASE GateRestarts
  BY <1>9 DEF GateRestarts, Record
<1>10. CASE PollWrites
  BY <1>10 DEF PollWrites, Record
<1>11. ASSUME NEW r \in Others, Arrive(r) PROVE ReadSoFar'
  BY <1>11 DEF Arrive
<1>12. ASSUME NEW r \in Others, Finish(r) PROVE ReadSoFar'
  BY <1>12 DEF Finish
<1> QED
  BY <1>1, <1>2, <1>3, <1>4, <1>5, <1>6, <1>7, <1>8, <1>9, <1>10, <1>11, <1>12 DEF ProbeNext

\* What a request that ends does to the tally, the probe's own and another one, and that
\* nothing else does anything.
LEMMA TallyStays ==
    ASSUME NEW b, NEW t, NEW u, NEW fates, NEW fates2, NEW counted, NEW over,
           Tally(b, t, fates, counted, over),
           u.requests = t.requests, u.tokens = t.tokens, u.prompts = t.prompts,
           \A r \in over : fates2[r] = fates[r]
    PROVE  Tally(b, u, fates2, counted, over)
BY DEF Tally

\* The probe's own request is counted: it is the one.
LEMMA TallyOfOwn ==
    ASSUME NEW b, NEW t, NEW u, NEW fates, NEW over, b.requests \in Nat, t.requests \in Nat,
           Tally(b, t, fates, FALSE, over), u.requests = t.requests + 1
    PROVE  Tally(b, u, fates, TRUE, over)
<1>1. t.requests >= b.requests
  BY DEF Tally
<1>2. u.requests >= b.requests /\ u.requests # b.requests
  BY <1>1
<1>3. u.requests = b.requests + 1 => over = {}
  <2>1. u.requests = b.requests + 1 => t.requests = b.requests
    OBVIOUS
  <2> QED
    BY <2>1 DEF Tally
<1> QED
  BY <1>2, <1>3 DEF Tally

\* Another one is counted: it is the one, or there are more than one.
LEMMA TallyOfAnother ==
    ASSUME NEW b, NEW t, NEW u, NEW fates, NEW fates2, NEW counted \in BOOLEAN, NEW over, NEW over2,
           NEW size \in Sizes, NEW r, b.requests \in Nat, t.requests \in Nat,
           Tally(b, t, fates, counted, over), u.requests = t.requests + 1,
           u.tokens = t.tokens + size.tokens, u.prompts = t.prompts + size.prompt,
           over2 \subseteq over \cup {r}, fates2[r] = IF size = OwnSize THEN "alike" ELSE "unlike"
    PROVE  Tally(b, u, fates2, counted, over2)
<1>1. t.requests >= b.requests
  BY DEF Tally
<1>2. u.requests >= b.requests /\ u.requests # b.requests
  BY <1>1
<1>3. ASSUME u.requests = b.requests + 1
      PROVE  /\ ~counted /\ over2 \subseteq {r}
             /\ u.tokens = b.tokens + size.tokens /\ u.prompts = b.prompts + size.prompt
  <2>1. t.requests = b.requests
    BY <1>3
  <2> QED
    BY <2>1 DEF Tally
<1> QED
  BY <1>2, <1>3 DEF Tally

\* Nothing was counted yet when the engine is read for the first time.
LEMMA TallyBegins ==
    ASSUME ProbeType PROVE Tally(Load, totals, fate, FALSE, {})
BY DEF Tally, Load, ProbeType, Totals

\* What counting a request adds, field by field.
LEMMA CountedGrows ==
    ASSUME ProbeType, NEW size
    PROVE  /\ Counted(size).requests = totals.requests + 1
           /\ Counted(size).tokens = totals.tokens + size.tokens
           /\ Counted(size).prompts = totals.prompts + size.prompt
           /\ Counted(size).admitted = totals.admitted
BY DEF Counted, ProbeType, Totals

\* The gate's counter is none of the engine's.
LEMMA AdmittedCountsNothing ==
    ASSUME ProbeType, NEW n, totals' = [totals EXCEPT !.admitted = n]
    PROVE  /\ totals'.requests = totals.requests /\ totals'.tokens = totals.tokens
           /\ totals'.prompts = totals.prompts /\ totals'.admitted = n
BY DEF ProbeType, Totals

\* Every step keeps the tally.
LEMMA TallyStep ==
    ASSUME ProbeType, OwnGoesAlong, ReadSoFar, BesideHaveCome, TallyKept, ProbeNext
    PROVE  TallyKept'
<1>0. /\ totals.requests \in Nat /\ evidence.before.requests \in Nat /\ totals.admitted \in Nat
      /\ fate \in [Others -> {"out", "running", "alike", "unlike"}] /\ beside \subseteq Others
  BY DEF ProbeType, Totals, Evidences, Readings
<1>1. CASE Look
  BY <1>1 DEF Look, Record, TallyKept
<1>2. CASE ReadEngine
  <2>1. CASE pc' = "asleep"
    BY <2>1 DEF TallyKept
  <2>2. CASE pc' = "engine_read"
    <3>1. totals' = totals /\ fate' = fate /\ evidence'.before = Load
      BY <1>2, <2>2, EngineFirstRead DEF ReadEngine
    <3> QED
      BY <2>2, <3>1, TallyBegins DEF TallyKept
  <2> QED
    BY <1>2, <2>1, <2>2, EngineFirstRead
<1>3. CASE ReadGate
  <2>1. evidence'.before = evidence.before /\ UNCHANGED <<totals, fate>>
        /\ pc = "engine_read" /\ pc' = "gate_read"
    BY <1>3, GateFirstRead DEF ReadGate
  <2> QED
    BY <2>1 DEF TallyKept
<1>4. CASE Send
  <2>1. CASE pc' = "asleep"
    BY <2>1 DEF TallyKept
  <2>2. CASE pc' = "sent"
    <3>1. /\ pc = "gate_read" /\ own' = "running" /\ beside' = Running /\ fate' = fate
          /\ evidence' = evidence /\ totals' = [totals EXCEPT !.admitted = totals.admitted + 1]
      BY <1>4, <2>2 DEF Send, Record
    <3>2. beside' \ Running' = {}
      BY <3>1 DEF Running
    <3>3. /\ totals'.requests = totals.requests /\ totals'.tokens = totals.tokens
          /\ totals'.prompts = totals.prompts
      BY <3>1, AdmittedCountsNothing
    <3>4. Tally(evidence.before, totals', fate, FALSE, {})
      BY <3>1, <3>3, TallyStays DEF TallyKept
    <3> QED
      BY <2>2, <3>1, <3>2, <3>4 DEF TallyKept
  <2> QED
    BY <1>4, <2>1, <2>2 DEF Send, Record
<1>5. CASE StreamEnds
  <2>1. CASE pc' = "asleep"
    BY <2>1 DEF TallyKept
  <2>2. CASE pc' = "ended"
    <3>1. /\ pc = "sent" /\ own = "running" /\ own' = "over"
          /\ UNCHANGED <<totals, fate, beside, Running>>
      BY <1>5, <2>2 DEF StreamEnds, OwnGoesAlong, Running
    <3> QED
      BY <1>5, <2>2, <3>1, StreamRead DEF TallyKept
  <2> QED
    BY <1>5, <2>1, <2>2 DEF StreamEnds, Record
<1>6. CASE ReadSettled
  <2>1. /\ pc = "ended" /\ pc' = "settled" /\ UNCHANGED <<totals, fate, beside, own>>
        /\ still' = Running /\ uncounted' = (own # "counted")
    BY <1>6 DEF ReadSettled
  <2>2. CASE evidence' = evidence
    BY <2>1, <2>2 DEF TallyKept, ReadSoFar
  <2>3. CASE evidence'.after = Load /\ evidence'.before = evidence.before
    <3>1. /\ Load.requests = totals.requests /\ Load.tokens = totals.tokens
          /\ Load.prompts = totals.prompts
      BY DEF Load
    <3>2. Tally(evidence.before, Load, fate, own = "counted", beside \ Running)
      BY <2>1, <3>1, TallyStays DEF TallyKept
    <3>3. (~uncounted') <=> (own = "counted")
      BY <2>1
    <3> QED
      BY <2>1, <2>3, <3>2, <3>3 DEF TallyKept
  <2> QED
    BY <1>6, <2>2, <2>3, EngineReadAgain
<1>7. CASE Judge
  BY <1>7 DEF Judge, Record, TallyKept
<1>8. CASE CountOwn
  <2>1. /\ own = "over" /\ own' = "counted" /\ totals' = Counted(OwnSize)
        /\ UNCHANGED <<fate, pc, evidence, beside, still, uncounted, Running>>
    BY <1>8 DEF CountOwn, Running
  <2>2. CASE pc = "ended"
    <3>1. Tally(evidence.before, totals, fate, FALSE, beside \ Running)
      BY <2>1, <2>2 DEF TallyKept
    <3>2. Tally(evidence.before, totals', fate, TRUE, beside \ Running)
      BY <1>0, <2>1, <3>1, CountedGrows, TallyOfOwn
    <3> QED
      BY <2>1, <2>2, <3>2 DEF TallyKept
  <2>3. CASE pc # "ended"
    BY <2>1, <2>3 DEF TallyKept, OwnGoesAlong
  <2> QED
    BY <2>2, <2>3
<1>9. CASE GateRestarts
  <2>1. /\ totals' = [totals EXCEPT !.admitted = 0]
        /\ UNCHANGED <<fate, own, pc, evidence, beside, still, uncounted, Running>>
    BY <1>9 DEF GateRestarts, Running
  <2>2. /\ totals'.requests = totals.requests /\ totals'.tokens = totals.tokens
        /\ totals'.prompts = totals.prompts
    BY <2>1, AdmittedCountsNothing
  <2> QED
    BY <2>1, <2>2, TallyStays DEF TallyKept
<1>10. CASE PollWrites
  BY <1>10 DEF PollWrites, TallyKept, Running
<1>11. ASSUME NEW r \in Others, Arrive(r) PROVE TallyKept'
  <2>1. /\ fate[r] = "out" /\ fate' = [fate EXCEPT ![r] = "running"]
        /\ totals' = [totals EXCEPT !.admitted = totals.admitted + 1]
        /\ beside' = IF pc = "sent" THEN beside \cup {r} ELSE beside
        /\ UNCHANGED <<own, pc, evidence, still, uncounted>>
    BY <1>11 DEF Arrive
  <2>2. /\ totals'.requests = totals.requests /\ totals'.tokens = totals.tokens
        /\ totals'.prompts = totals.prompts
    BY <2>1, AdmittedCountsNothing
  <2>3. /\ Running' = Running \cup {r}
        /\ pc \in {"sent", "ended"} => r \notin beside
        /\ pc = "settled" => r \notin beside \ still
    BY <1>0, <2>1 DEF Running, BesideHaveCome
  <2>4. pc \in {"sent", "ended"} => beside' \ Running' = beside \ Running
    BY <2>1, <2>3
  <2>5. CASE pc \in {"engine_read", "gate_read"}
    BY <2>1, <2>2, <2>5, TallyStays DEF TallyKept
  <2>6. CASE pc \in {"sent", "ended"}
    <3>1. \A q \in beside \ Running : fate'[q] = fate[q]
      BY <1>0, <2>1, <2>3, <2>6
    <3>2. Tally(evidence.before, totals', fate', own = "counted", beside \ Running)
      BY <2>2, <2>6, <3>1, TallyStays DEF TallyKept
    <3> QED
      BY <2>1, <2>4, <2>6, <3>2 DEF TallyKept
  <2>7. CASE pc = "settled"
    <3>1. \A q \in beside \ still : fate'[q] = fate[q]
      BY <1>0, <2>1, <2>3, <2>7
    <3>2. <<"engine", "after">> \in evidence.read =>
            Tally(evidence.before, evidence.after, fate', ~uncounted, beside \ still)
      BY <2>7, <3>1, TallyStays DEF TallyKept
    <3> QED
      BY <2>1, <2>7, <3>2 DEF TallyKept
  <2> QED
    BY <2>1, <2>5, <2>6, <2>7 DEF TallyKept
<1>12. ASSUME NEW r \in Others, Finish(r) PROVE TallyKept'
  <2>1. PICK size \in Sizes :
          /\ fate[r] = "running" /\ totals' = Counted(size)
          /\ fate' = [fate EXCEPT ![r] = IF size = OwnSize THEN "alike" ELSE "unlike"]
          /\ UNCHANGED <<own, pc, evidence, beside, still, uncounted>>
    BY <1>12 DEF Finish
  <2>2. /\ Running' = Running \ {r} /\ r \in Running
        /\ fate'[r] = IF size = OwnSize THEN "alike" ELSE "unlike"
    BY <1>0, <2>1 DEF Running
  <2>6. /\ totals'.requests = totals.requests + 1 /\ totals'.tokens = totals.tokens + size.tokens
        /\ totals'.prompts = totals.prompts + size.prompt
    BY <2>1, CountedGrows
  <2>7. ASSUME NEW counted \in BOOLEAN, NEW over, NEW over2,
               Tally(evidence.before, totals, fate, counted, over), over2 \subseteq over \cup {r}
        PROVE  Tally(evidence.before, totals', fate', counted, over2)
    <3> HIDE <1>12
    <3> QED
      BY <1>0, <2>2, <2>6, <2>7, TallyOfAnother
  <2>3. CASE pc \in {"engine_read", "gate_read"}
    <3>1. Tally(evidence.before, totals', fate', FALSE, {})
      BY <2>3, <2>7 DEF TallyKept
    <3> QED
      BY <2>1, <2>3, <3>1 DEF TallyKept
  <2>4. CASE pc \in {"sent", "ended"}
    <3>1. beside' \ Running' \subseteq (beside \ Running) \cup {r}
      BY <2>1, <2>2
    <3>2. Tally(evidence.before, totals, fate, own = "counted", beside \ Running)
      BY <2>4 DEF TallyKept
    <3>3. Tally(evidence.before, totals', fate', own = "counted", beside' \ Running')
      BY <2>7, <3>1, <3>2
    <3> QED
      BY <2>1, <2>4, <3>3 DEF TallyKept
  <2>5. CASE pc = "settled"
    <3>1. \A q \in beside \ still : fate'[q] = fate[q]
      BY <1>0, <2>1, <2>5 DEF BesideHaveCome
    <3>2. <<"engine", "after">> \in evidence.read =>
            Tally(evidence.before, evidence.after, fate', ~uncounted, beside \ still)
      BY <2>5, <3>1, TallyStays DEF TallyKept
    <3> QED
      BY <2>1, <2>5, <3>2 DEF TallyKept
  <2> QED
    BY <2>1, <2>3, <2>4, <2>5 DEF TallyKept
<1> QED
  BY <1>1, <1>2, <1>3, <1>4, <1>5, <1>6, <1>7, <1>8, <1>9, <1>10, <1>11, <1>12 DEF ProbeNext

\* Every step keeps what is known of those beside the probe.
LEMMA BesideStep ==
    ASSUME ProbeType, OwnGoesAlong, ReadSoFar, BesideHaveCome, ProbeNext
    PROVE  BesideHaveCome'
<1> USE DEF BesideHaveCome
<1>0. fate \in [Others -> {"out", "running", "alike", "unlike"}] /\ beside \subseteq Others
      /\ own \in {"none", "running", "over", "counted"}
  BY DEF ProbeType
<1>1. CASE Look
  BY <1>1 DEF Look, Record
<1>2. CASE ReadEngine
  BY <1>2 DEF ReadEngine, Record
<1>3. CASE ReadGate
  BY <1>3 DEF ReadGate
<1>4. CASE Send
  BY <1>4 DEF Send, Record, Running
<1>5. CASE StreamEnds
  BY <1>5 DEF StreamEnds, Record
<1>6. CASE ReadSettled
  <2>1. /\ pc = "ended" /\ pc' = "settled" /\ UNCHANGED <<fate, beside, own, site>>
        /\ still' = Running /\ uncounted' = (own # "counted")
    BY <1>6 DEF ReadSettled
  <2>2. \A r \in beside \ Running : fate[r] \in {"alike", "unlike"}
    BY <1>0, <2>1 DEF Running
  <2>3. <<"engine", "after">> \in evidence'.read => evidence'.after = Load
    BY <2>1, <1>6, EngineReadAgain DEF ReadSoFar
  <2>4. site.reports_load =>
          Load.load = Cardinality(Running) + (IF own # "counted" THEN 1 ELSE 0)
    BY <1>0, <2>1 DEF Load, OwnGoesAlong
  <2> QED
    BY <2>1, <2>2, <2>3, <2>4
<1>7. CASE Judge
  BY <1>7 DEF Judge, Record
<1>8. CASE CountOwn
  BY <1>8 DEF CountOwn
<1>9. CASE GateRestarts
  BY <1>9 DEF GateRestarts
<1>10. CASE PollWrites
  BY <1>10 DEF PollWrites
<1>11. ASSUME NEW r \in Others, Arrive(r) PROVE BesideHaveCome'
  BY <1>0, <1>11 DEF Arrive
<1>12. ASSUME NEW r \in Others, Finish(r) PROVE BesideHaveCome'
  BY <1>0, <1>12 DEF Finish
<1> QED
  BY <1>1, <1>2, <1>3, <1>4, <1>5, <1>6, <1>7, <1>8, <1>9, <1>10, <1>11, <1>12 DEF ProbeNext

\* Every step keeps what the gate's counter says.
LEMMA GateStep ==
    ASSUME ProbeType, OwnGoesAlong, ReadSoFar, GateTally, ProbeNext
    PROVE  GateTally'
<1> USE DEF GateTally
<1>0. /\ fate \in [Others -> {"out", "running", "alike", "unlike"}] /\ beside \subseteq Others
      /\ totals.admitted \in Nat /\ evidence.admitted_before \in Nat /\ regated \in BOOLEAN
  BY DEF ProbeType, Totals, Evidences
<1>1. CASE Look
  BY <1>1 DEF Look, Record
<1>2. CASE ReadEngine
  BY <1>2 DEF ReadEngine, Record
<1>3. CASE ReadGate
  <2>1. /\ pc = "engine_read" /\ pc' = "gate_read" /\ early' = Running
        /\ UNCHANGED <<fate, totals, Running>>
    BY <1>3 DEF ReadGate, Running
  <2>2. <<"gate", "before">> \in evidence'.read => evidence'.admitted_before = totals.admitted
    BY <2>1, <1>3, GateFirstRead DEF ReadSoFar
  <2> QED
    BY <1>0, <2>1, <2>2
<1>4. CASE Send
  <2>1. CASE pc' = "asleep"
    BY <2>1
  <2>2. CASE pc' = "sent"
    <3>1. /\ pc = "gate_read" /\ beside' = Running
          /\ UNCHANGED <<evidence, early, regated>>
          /\ totals' = [totals EXCEPT !.admitted = totals.admitted + 1]
      BY <1>4, <2>2 DEF Send, Record
    <3>2. totals'.admitted = totals.admitted + 1
      BY <3>1, AdmittedCountsNothing
    <3> QED
      BY <1>0, <2>2, <3>1, <3>2
  <2> QED
    BY <1>4, <2>1, <2>2 DEF Send, Record
<1>5. CASE StreamEnds
  BY <1>5, StreamRead DEF StreamEnds, Record
<1>6. CASE ReadSettled
  <2>1. pc = "ended" /\ pc' = "settled" /\ UNCHANGED <<totals, beside, early, regated>>
    BY <1>6 DEF ReadSettled
  <2>2. /\ evidence'.admitted_before = evidence.admitted_before
        /\ <<"gate", "before">> \in evidence'.read => <<"gate", "before">> \in evidence.read
    BY <1>6, EngineReadAgain
  <2> QED
    BY <2>1, <2>2
<1>7. CASE Judge
  BY <1>7 DEF Judge, Record
<1>8. CASE CountOwn
  <2>1. totals' = Counted(OwnSize) /\ UNCHANGED <<pc, evidence, beside, early, regated, Running>>
    BY <1>8 DEF CountOwn, Running
  <2>2. totals'.admitted = totals.admitted
    BY <2>1, CountedGrows
  <2> QED
    BY <2>1, <2>2
<1>9. CASE GateRestarts
  <2>1. /\ regated' = (regated \/ pc # "asleep") /\ pc' = pc
    BY <1>9 DEF GateRestarts
  <2> QED
    BY <2>1
<1>10. CASE PollWrites
  BY <1>10 DEF PollWrites, Running
<1>11. ASSUME NEW r \in Others, Arrive(r) PROVE GateTally'
  <2>1. /\ totals' = [totals EXCEPT !.admitted = totals.admitted + 1]
        /\ pc # "sent" => beside' = beside
        /\ UNCHANGED <<pc, evidence, early, regated>>
    BY <1>11 DEF Arrive
  <2>2. totals'.admitted = totals.admitted + 1
    BY <2>1, AdmittedCountsNothing
  <2>3. CASE pc \in {"ended", "settled"}
    BY <1>0, <2>1, <2>2, <2>3
  <2>4. CASE pc \notin {"ended", "settled"}
    BY <1>0, <2>1, <2>2, <2>4
  <2> QED
    BY <2>3, <2>4
<1>12. ASSUME NEW r \in Others, Finish(r) PROVE GateTally'
  <2>1. PICK size \in Sizes :
          /\ totals' = Counted(size)
          /\ fate' = [fate EXCEPT ![r] = IF size = OwnSize THEN "alike" ELSE "unlike"]
          /\ UNCHANGED <<pc, evidence, beside, early, regated>>
    BY <1>12 DEF Finish
  <2>2. totals'.admitted = totals.admitted
    BY <2>1, CountedGrows
  <2>3. Running' \subseteq Running
    BY <1>0, <2>1 DEF Running
  <2> QED
    BY <2>1, <2>2, <2>3
<1> QED
  BY <1>1, <1>2, <1>3, <1>4, <1>5, <1>6, <1>7, <1>8, <1>9, <1>10, <1>11, <1>12 DEF ProbeNext

\* What validate makes of a tally: with one request counted at most, and no other tokens
\* than the probe's, nobody who is over ran beside it, but for one that was as large while
\* the probe's own was not counted yet.
LEMMA TallyJudged ==
    ASSUME NEW b \in Readings, NEW t \in Readings, NEW fates, NEW counted \in BOOLEAN, NEW over,
           Tally(b, t, fates, counted, over),
           ~(t.requests - b.requests > 1), ~(t.prompts - b.prompts > 0),
           t.tokens - b.tokens \in {0, OwnTokens} \/ t.tokens - b.tokens <= 0
    PROVE  /\ counted => over = {}
           /\ \A r \in over : over = {r} /\ fates[r] = "alike"
<1>0. /\ b.requests \in Nat /\ t.requests \in Nat /\ b.tokens \in Nat /\ t.tokens \in Nat
      /\ b.prompts \in Nat /\ t.prompts \in Nat /\ OwnTokens \in Nat
  BY ProbeAssumption DEF Readings
<1>1. t.requests = b.requests \/ t.requests = b.requests + 1
  BY <1>0 DEF Tally
<1>2. CASE t.requests = b.requests
  BY <1>2 DEF Tally
<1>3. CASE t.requests = b.requests + 1 /\ counted
  BY <1>3 DEF Tally
<1>4. CASE t.requests = b.requests + 1 /\ ~counted
  <2>1. PICK size \in Sizes :
          /\ t.tokens = b.tokens + size.tokens /\ t.prompts = b.prompts + size.prompt
          /\ \A r \in over : over = {r} /\ (size = OwnSize => fates[r] = "alike")
    BY <1>4 DEF Tally
  <2>2. size \in [tokens: Nat \ {0}, prompt: Nat]
    BY ProbeAssumption
  <2>3. size.tokens = OwnTokens /\ size.prompt = 0
    <3>1. size.tokens \in Nat /\ size.tokens # 0 /\ size.prompt \in Nat
      BY <2>2
    <3>2. t.tokens - b.tokens = size.tokens /\ t.prompts - b.prompts = size.prompt
      BY <1>0, <2>1, <3>1
    <3>3. size.tokens \in {0, OwnTokens} \/ size.tokens <= 0
      BY <3>2
    <3>4. ~(size.prompt > 0)
      BY <3>2
    <3> QED
      BY <3>1, <3>3, <3>4
  <2>4. size = OwnSize
    BY <2>2, <2>3 DEF OwnSize
  <2> QED
    BY <1>4, <2>1, <2>4
<1> QED
  BY <1>1, <1>2, <1>3, <1>4

\* evaluate: a verdict that counts the reading is true when it is made.
LEMMA VerdictIsTrue ==
    ASSUME ProbeType, OwnGoesAlong, ReadSoFar, TallyKept, BesideHaveCome, GateTally, Judge
    PROVE  ReadingRanAlone'
<1>1. /\ pc = "settled" /\ pc' = "asleep" /\ probe_record' = Validated(evidence')
      /\ UNCHANGED <<site, fate, totals, own, beside, early, still, regated, uncounted>>
  BY DEF Judge, Record
<1> SUFFICES ASSUME probe_record'.valid, ~probe_record'.unverified
             PROVE  /\ Cardinality(still \cap beside) <= 1
                    /\ site.counts => /\ Cardinality(beside) <= 1
                                      /\ \A r \in beside \ still : uncounted /\ fate[r] = "alike"
                    /\ site.gateway /\ ~regated => beside \subseteq early
  BY <1>1 DEF ReadingRanAlone
<1>2. /\ EngineWasIdle(evidence') /\ GateWasQuiet(evidence') /\ site.reports_load
  <2>1. Validated(evidence').valid /\ ~Validated(evidence').unverified
    BY <1>1
  <2>2. EngineWasIdle(evidence') /\ GateWasQuiet(evidence') /\ site'.reports_load
    BY <1>1, <2>1 DEF Validated, EngineWasIdle, GateWasQuiet
  <2> QED
    BY <1>1, <2>2
<1>3. /\ evidence'.before = evidence.before /\ evidence'.after = evidence.after
      /\ <<"engine", "before">> \in evidence.read
      /\ <<"engine", "after">> \in evidence.read /\ evidence.after.load <= 1
      /\ <<"engine", "before">> \in evidence'.read /\ <<"engine", "after">> \in evidence'.read
  <2>1. <<"engine", "after">> \in evidence'.read /\ evidence'.after.load <= 1
    BY <1>2 DEF EngineWasIdle
  <2> QED
    BY <1>1, <2>1, GateReadAgain DEF ReadSoFar
<1>4. evidence.before \in Readings /\ evidence.after \in Readings /\ uncounted \in BOOLEAN
      /\ still \subseteq Others /\ beside \subseteq Others
  BY DEF ProbeType, Evidences
<1>5. IsFiniteSet(still) /\ Cardinality(still) \in Nat
  BY <1>4, ProbeAssumption, FS_Subset, FS_CardinalityType
<1>6. evidence.after.load = Cardinality(still) + (IF uncounted THEN 1 ELSE 0)
  BY <1>1, <1>2, <1>3 DEF BesideHaveCome
<1>7. Cardinality(still) <= 1 /\ (uncounted => Cardinality(still) = 0)
  BY <1>3, <1>5, <1>6
<1>8. (\A a, b \in still : a = b) /\ (uncounted => still = {})
  BY <1>5, <1>7, AtMostOne, FS_EmptySet
<1>9. Cardinality(still \cap beside) <= 1
  <2>1. Cardinality(still \cap beside) \in {0, 1}
    BY <1>8, OneOrNone
  <2> QED
    BY <2>1
<1>10. ASSUME site.counts
       PROVE  /\ Cardinality(beside) <= 1
              /\ \A r \in beside \ still : uncounted /\ fate[r] = "alike"
  <2> DEFINE over == beside \ still
             b == evidence.before
             t == evidence.after
  <2>1. Tally(b, t, fate, ~uncounted, over)
    BY <1>1, <1>3 DEF TallyKept
  <2>2. /\ ~(t.requests - b.requests > 1) /\ ~(t.prompts - b.prompts > 0)
        /\ t.tokens - b.tokens \in {0, OwnTokens} \/ t.tokens - b.tokens <= 0
    <3>1. site'.counts /\ BothRead(evidence', "engine")
      BY <1>1, <1>3, <1>10 DEF BothRead
    <3>2. /\ ~OthersFinished(evidence') /\ ~OthersGenerated(evidence')
          /\ Grown(evidence', "prompts") = 0
      BY <1>1, <1>2, <1>10, <3>1 DEF EngineWasIdle
    <3>3. /\ t.prompts \in Nat /\ b.prompts \in Nat /\ t.tokens \in Nat /\ b.tokens \in Nat
      BY <1>4 DEF Readings
    <3> QED
      BY <1>3, <3>2, <3>3 DEF OthersFinished, Grown, OthersGenerated
  <2>3. (~uncounted => over = {}) /\ \A r \in over : over = {r} /\ fate[r] = "alike"
    <3> HIDE DEF over, b, t
    <3>1. b \in Readings /\ t \in Readings
      BY <1>4 DEF b, t
    <3> QED
      BY <1>4, <2>1, <2>2, <3>1, TallyJudged
  <2>4. \A r, q \in beside : r = q
    BY <1>4, <1>8, <2>3
  <2>5. Cardinality(beside) \in {0, 1}
    BY <2>4, OneOrNone
  <2>6. \A r \in beside \ still : uncounted /\ fate[r] = "alike"
    BY <1>4, <2>3
  <2> QED
    BY <2>5, <2>6
<1>11. ASSUME site.gateway, ~regated PROVE beside \subseteq early
  <2>1. /\ BothRead(evidence', "gate")
        /\ evidence'.admitted_after - evidence'.admitted_before \in {0, 1}
    BY <1>1, <1>2, <1>11 DEF GateWasQuiet
  <2>2. <<"gate", "after">> \in evidence'.read /\ <<"gate", "before">> \in evidence'.read
    BY <2>1 DEF BothRead
  <2>3. /\ evidence'.admitted_after = totals.admitted
        /\ evidence'.admitted_before = evidence.admitted_before
        /\ <<"gate", "before">> \in evidence.read
    BY <1>1, <2>2, GateReadAgain DEF ReadSoFar
  <2>4. totals.admitted \in Nat /\ evidence.admitted_before \in Nat
    BY DEF ProbeType, Totals, Evidences
  <2>5. ~(totals.admitted > evidence.admitted_before + 1)
    BY <2>1, <2>3, <2>4
  <2> QED
    BY <1>1, <1>11, <2>3, <2>5 DEF GateTally
<1> QED
  BY <1>9, <1>10, <1>11
\* A verdict that was true stays true until the next probe begins.
LEMMA VerdictStep ==
    ASSUME ProbeType, OwnGoesAlong, ReadSoFar, TallyKept, BesideHaveCome, GateTally,
           ReadingRanAlone, ProbeNext
    PROVE  ReadingRanAlone'
<1>0. fate \in [Others -> {"out", "running", "alike", "unlike"}]
      /\ beside \subseteq Others /\ still \subseteq Others
  BY DEF ProbeType
<1> DEFINE Frozen == UNCHANGED <<site, probe_record, beside, early, still, regated, uncounted>>
<1>a. ASSUME Frozen, pc' = "asleep" => pc = "asleep",
             \A r \in Others : fate[r] = "alike" => fate'[r] = "alike"
      PROVE  ReadingRanAlone'
  BY <1>0, <1>a DEF ReadingRanAlone
<1>b. ASSUME pc' = "asleep" => ~probe_record'.valid PROVE ReadingRanAlone'
  BY <1>b DEF ReadingRanAlone
<1>1. CASE Look
  BY <1>1, <1>b DEF Look, Record, Skipped
<1>2. CASE ReadEngine
  <2>1. (pc = "deciding" /\ beside = {} /\ Frozen) \/ ~probe_record'.valid
    BY <1>2 DEF ReadEngine, Record, Skipped, OwnGoesAlong
  <2>2. ASSUME beside = {}, Frozen PROVE ReadingRanAlone'
    <3>1. beside' = {} /\ Cardinality(beside') = 0 /\ Cardinality(still' \cap beside') = 0
      BY <2>2, FS_EmptySet
    <3> QED
      BY <3>1 DEF ReadingRanAlone
  <2> QED
    BY <2>1, <2>2, <1>b
<1>3. CASE ReadGate
  BY <1>3, <1>b DEF ReadGate
<1>4. CASE Send
  BY <1>4, <1>b DEF Send, Record, Failed
<1>5. CASE StreamEnds
  BY <1>5, <1>b DEF StreamEnds, Record, Failed
<1>6. CASE ReadSettled
  BY <1>6, <1>b DEF ReadSettled
<1>7. CASE Judge
  BY <1>7, VerdictIsTrue
<1>8. CASE CountOwn
  BY <1>8, <1>a DEF CountOwn
<1>9. CASE GateRestarts
  <2>1. CASE pc = "asleep"
    <3>1. regated' = regated
      BY <1>9, <2>1 DEF GateRestarts, ProbeType
    <3> QED
      BY <1>9, <3>1, <1>a DEF GateRestarts
  <2>2. CASE pc # "asleep"
    BY <1>9, <2>2, <1>b DEF GateRestarts
  <2> QED
    BY <2>1, <2>2
<1>10. CASE PollWrites
  BY <1>10, <1>a DEF PollWrites
<1>11. ASSUME NEW r \in Others, Arrive(r) PROVE ReadingRanAlone'
  <2>1. CASE pc = "asleep"
    <3>1. Frozen /\ \A q \in Others : fate[q] = "alike" => fate'[q] = "alike"
      BY <1>0, <1>11, <2>1 DEF Arrive
    <3> QED
      BY <1>11, <2>1, <3>1, <1>a
  <2>2. CASE pc # "asleep"
    BY <1>11, <2>2, <1>b DEF Arrive
  <2> QED
    BY <2>1, <2>2
<1>12. ASSUME NEW r \in Others, Finish(r) PROVE ReadingRanAlone'
  <2>1. Frozen /\ pc' = pc /\ \A q \in Others : fate[q] = "alike" => fate'[q] = "alike"
    BY <1>0, <1>12 DEF Finish
  <2> QED
    BY <2>1, <1>a
<1> QED
  BY <1>1, <1>2, <1>3, <1>4, <1>5, <1>6, <1>7, <1>8, <1>9, <1>10, <1>11, <1>12 DEF ProbeNext

\* All of it holds before the first probe.
LEMMA ProbeBegins == ASSUME NEW where \in Places, ProbeInit(where) PROVE ProbeInv
<1>1. ProbeType
  BY RecordsAreRecords, ProbeAssumption
     DEF ProbeInit, ProbeType, Totals, NoRecord, Records
<1>2. ReadingRanAlone
  BY DEF ProbeInit, ReadingRanAlone, NoRecord
<1> QED
  BY <1>1, <1>2 DEF ProbeInit, ProbeInv, OwnGoesAlong, ReadSoFar, TallyKept, BesideHaveCome,
                    GateTally, NoEvidence

\* What is kept while the probe's thread, the other users, the poll loop and the gate step.
THEOREM ProbeIsConsistent == ProbeSpec => []ProbeInv
<1>1. (\E where \in Places : ProbeInit(where)) => ProbeInv
  BY ProbeBegins
<1>2. ProbeInv /\ [ProbeNext]_probe_vars => ProbeInv'
  <2>1. ASSUME ProbeInv, ProbeNext PROVE ProbeInv'
    BY <2>1, ProbeTypeKept, OwnKept, ReadKept, TallyStep, BesideStep, GateStep, VerdictStep
       DEF ProbeInv
  <2>2. ASSUME ProbeInv, UNCHANGED probe_vars PROVE ProbeInv'
    BY <2>2 DEF probe_vars, ProbeInv, ProbeType, OwnGoesAlong, ReadSoFar, TallyKept, Tally,
                BesideHaveCome, GateTally, ReadingRanAlone, Running
  <2> QED
    BY <2>1, <2>2
<1> QED
  BY <1>1, <1>2, PTL DEF ProbeSpec

\* probe_run.rs:127: a reading that counts ran alone, but in the two ways named there.
THEOREM ReadingsRanAlone == ProbeSpec => []ReadingRanAlone
<1>1. ProbeInv => ReadingRanAlone
  BY DEF ProbeInv
<1> QED
  BY <1>1, ProbeIsConsistent, PTL

-----------------------------------------------------------------------------
(***************************************************************************)
(* The client's screen                                                     *)
(***************************************************************************)
Wants == [page: Pages \cup {NoPage}, range: Int]
Answers == [from: Int, page: Pages \cup {NoPage}, range: Int, ctx: Int]

\* An answer names the collector it came from, and was read with its context or with none.
OwnAnswers == {a \in Answers : a.ctx \in {NoServer, a.from}}

\* A message names the collector its answer came from.
Messages ==
    {m \in [kind: {"failed", "status", "page"}, from: Int, answer: OwnAnswers] :
        m.answer.from = m.from}

\* App, with any view.
IsApp(a) ==
    /\ a = [url |-> a.url, status |-> a.status, error |-> a.error, view |-> a.view,
            range_idx |-> a.range_idx, page_data |-> a.page_data,
            bench_prompt |-> a.bench_prompt, bench_local |-> a.bench_local,
            bench_message |-> a.bench_message]
    /\ a.url \in Int /\ a.range_idx \in Int /\ a.bench_prompt \in BOOLEAN
    /\ a.status \in OwnAnswers /\ a.page_data \in OwnAnswers

\* All on screen is one server's: what was answered there, and what is asked about it.
OneServers(a) ==
    /\ a.status.from \in {NoServer, a.url} /\ a.error \in {NoServer, a.url}
    /\ a.bench_message \in {NoServer, a.url} /\ a.page_data.from \in {NoServer, a.url}
    /\ a.bench_local = (a.url \in Local)

\* The fetch thread's own variables.
Fetchers ==
    [pc: {"current", "status", "wanted", "page"}, url: Int, ctx: Int, asked: BOOLEAN,
     last_page: Wants, want: Wants]

ScreenType ==
    /\ IsApp(app) /\ addr \in Int /\ wanted \in Wants /\ channel \in Seq(Messages)
    /\ fetcher \in Fetchers /\ prompted \in Int

\* The inductive invariant: all on screen is one server's, each message is one server's, the
\* fetch thread has no context but that of the server it asks, and an open prompt was opened
\* for the server on screen.
ScreenInv ==
    /\ ScreenType /\ OneServers(app)
    /\ fetcher.ctx \in {NoServer, fetcher.url}
    /\ app.bench_prompt => prompted = app.url
    /\ \A p \in posted : p[1] = p[2] /\ p[1] \in Local

\* What a key leaves of the screen when it neither switches servers nor opens the prompt:
\* all but the page and the range, and perhaps the prompt.
Same(a, b) ==
    /\ IsApp(b)
    /\ b.url = a.url /\ b.status = a.status /\ b.error = a.error
    /\ b.page_data = a.page_data /\ b.bench_local = a.bench_local
    /\ b.bench_message = a.bench_message
    /\ b.bench_prompt => a.bench_prompt

\* Going to another page, or to the next one, leaves what is shown of the server.
LEMMA PagesAreTheSame ==
    ASSUME NEW a, IsApp(a)
    PROVE  /\ Same(a, a) /\ Same(a, Overview(a)) /\ \A page : Same(a, Opened(a, page))
           /\ \A beyond, nearest : Same(a, Step(a, beyond, nearest))
           /\ Same(a, NextInRing(a)) /\ Same(a, PrevInRing(a))
           /\ \A view : Same(a, [a EXCEPT !.view = view])
           /\ \A n \in Int : Same(a, [a EXCEPT !.range_idx = n])
<1>1. Same(a, a)
  BY DEF Same
<1>2. ASSUME NEW view PROVE Same(a, [a EXCEPT !.view = view])
  BY DEF Same, IsApp
<1>3. ASSUME NEW n \in Int PROVE Same(a, [a EXCEPT !.range_idx = n])
  BY DEF Same, IsApp
<1>4. Same(a, Overview(a))
  BY <1>2 DEF Overview
<1>5. ASSUME NEW page PROVE Same(a, Opened(a, page))
  <2> DEFINE open == a.view = page /\ a.bench_prompt
             b == [a EXCEPT !.view = page, !.bench_prompt = open]
  <2>1. /\ IsApp(b) /\ b.url = a.url /\ b.status = a.status /\ b.error = a.error
        /\ b.page_data = a.page_data /\ b.bench_local = a.bench_local
        /\ b.bench_message = a.bench_message /\ b.bench_prompt = open
    <3> DEFINE c(prompt) == [a EXCEPT !.view = page, !.bench_prompt = prompt]
    <3>1. ASSUME NEW prompt \in BOOLEAN
          PROVE  IsApp(c(prompt))
      <4> DEFINE d == [a EXCEPT !.view = page]
      <4>1. IsApp(d)
        BY DEF IsApp
      <4>2. IsApp([d EXCEPT !.bench_prompt = prompt])
        <5> HIDE DEF d
        <5> QED
          BY <4>1 DEF IsApp
      <4> QED
        BY <4>2
    <3>2. ASSUME NEW prompt \in BOOLEAN
          PROVE  /\ IsApp(c(prompt)) /\ c(prompt).url = a.url /\ c(prompt).status = a.status
                 /\ c(prompt).error = a.error /\ c(prompt).page_data = a.page_data
                 /\ c(prompt).bench_local = a.bench_local
                 /\ c(prompt).bench_message = a.bench_message /\ c(prompt).bench_prompt = prompt
      BY <3>1 DEF IsApp
    <3>3. b = c(open) /\ open \in BOOLEAN
      BY DEF IsApp
    <3> HIDE DEF b, c, open
    <3> QED
      BY <3>2, <3>3, Zenon
  <2>2. b.bench_prompt => a.bench_prompt
    <3> HIDE DEF b
    <3> QED
      BY <2>1, Zenon
  <2>3. Same(a, b)
    BY <2>1, <2>2, Zenon DEF Same
  <2> QED
    BY <1>1, <2>3 DEF Opened
<1>6. ASSUME NEW beyond, NEW nearest PROVE Same(a, Step(a, beyond, nearest))
  BY <1>1, <1>4, <1>5 DEF Step
<1>7. Same(a, NextInRing(a)) /\ Same(a, PrevInRing(a))
  BY <1>6 DEF NextInRing, PrevInRing
<1> QED
  BY <1>1, <1>2, <1>3, <1>4, <1>5, <1>6, <1>7

\* What is one server's stays so, if it stays the same.
LEMMA SameIsOneServers ==
    ASSUME NEW a, NEW b, IsApp(a), OneServers(a), Same(a, b)
    PROVE  OneServers(b)
BY DEF OneServers, Same

\* The values that stand for nothing are of their types.
LEMMA NothingIsTyped ==
    /\ Nothing \in Wants /\ NoAnswer \in OwnAnswers /\ NoServer \in Int
BY DEF Nothing, Wants, NoAnswer, OwnAnswers, Answers, NoServer

\* A key that keeps the server.
LEMMA KeyKeepsScreen ==
    ASSUME ScreenInv, Same(app, app'), UNCHANGED <<addr, prompted, posted, channel, fetcher>>,
           wanted' \in Wants
    PROVE  ScreenInv'
BY SameIsOneServers DEF ScreenInv, ScreenType, Same

\* Every step of the two threads keeps the invariant.
LEMMA ScreenKeeps ==
    ASSUME ScreenInv, ScreenNext
    PROVE  ScreenInv'
<1>0. /\ IsApp(app) /\ wanted \in Wants /\ channel \in Seq(Messages) /\ fetcher \in Fetchers
  BY DEF ScreenInv, ScreenType
<1>1. CASE Receive
  <2>1. /\ channel # <<>> /\ channel' = Tail(channel)
        /\ UNCHANGED <<addr, wanted, fetcher, prompted, posted>>
    BY <1>1 DEF Receive
  <2>2. Head(channel) \in Messages /\ Tail(channel) \in Seq(Messages)
    BY <1>0, <2>1, HeadTailProperties
  <2>3. /\ IsApp(app') /\ OneServers(app')
        /\ app'.bench_prompt = app.bench_prompt /\ app'.url = app.url
    <3> DEFINE m == Head(channel)
    <3>1. /\ m.answer \in OwnAnswers /\ m.answer.from = m.from
          /\ m.kind \in {"failed", "status", "page"}
      BY <2>2 DEF Messages
    <3>2. \/ app' = app
          \/ m.from = app.url /\ app' = [app EXCEPT !.error = m.answer.from]
          \/ m.from = app.url /\ app' = [app EXCEPT !.status = m.answer, !.error = NoServer]
          \/ m.from = app.url /\ app' = [app EXCEPT !.page_data = m.answer]
      BY <1>1, <3>1 DEF Receive, IsOurs
    <3>3. IsApp(app') /\ app'.bench_prompt = app.bench_prompt /\ app'.url = app.url
      BY <1>0, <3>1, <3>2 DEF IsApp
    <3>4. OneServers(app')
      BY <1>0, <3>1, <3>2 DEF IsApp, OneServers, ScreenInv
    <3> QED
      BY <3>3, <3>4
  <2> QED
    BY <2>1, <2>2, <2>3 DEF ScreenInv, ScreenType
<1>2. CASE Draw \/ NoKey
  BY <1>0, <1>2, PagesAreTheSame, KeyKeepsScreen DEF Draw, NoKey
<1>3. CASE TellWanted
  <2>1. Wanted(app) \in Wants
    BY <1>0, NothingIsTyped DEF Wanted, Wants, IsApp
  <2> QED
    BY <1>0, <1>3, <2>1, PagesAreTheSame, KeyKeepsScreen DEF TellWanted
<1>4. CASE PageKey \/ TabKey \/ BackTabKey \/ OverviewKey \/ FleetKey \/ WatchKey \/ RangeKey
  <2>1. Same(app, app')
    <3>1. (app.range_idx + 1) % NRanges \in Int
      BY <1>0, ScreenAssumption DEF IsApp
    <3>2. /\ Same(app, NextInRing(app)) /\ Same(app, PrevInRing(app)) /\ Same(app, Overview(app))
          /\ \A page : Same(app, Opened(app, page))
          /\ \A view : Same(app, [app EXCEPT !.view = view])
          /\ Same(app, [app EXCEPT !.range_idx = (app.range_idx + 1) % NRanges])
      BY <1>0, <3>1, PagesAreTheSame, Zenon
    <3>3. \/ \E page : app' = Opened(app, page)
          \/ app' \in {NextInRing(app), PrevInRing(app), Overview(app)}
          \/ \E view : app' = [app EXCEPT !.view = view]
          \/ app' = [app EXCEPT !.range_idx = (app.range_idx + 1) % NRanges]
      BY <1>4
         DEF PageKey, TabKey, BackTabKey, OverviewKey, FleetKey, WatchKey, RangeKey,
             Ordinary, Pressed
    <3> QED
      BY <3>2, <3>3, Zenon
  <2>2. UNCHANGED <<addr, wanted, channel, fetcher, prompted, posted>>
    BY <1>4 DEF PageKey, TabKey, BackTabKey, OverviewKey, FleetKey, WatchKey, RangeKey,
                Ordinary, Pressed
  <2> QED
    BY <1>0, <2>1, <2>2, KeyKeepsScreen
<1>5. CASE SwitchKey
  <2>1. PICK step \in {-1, 1} : app' = Switched(app, step)
    BY <1>5 DEF SwitchKey, Pressed
  <2>2. /\ ~app.bench_prompt /\ addr' = app'.url
        /\ UNCHANGED <<wanted, channel, fetcher, prompted, posted>>
    BY <1>5 DEF SwitchKey, Pressed
  <2>3. (app.url + step) % NServers \in Int
    BY <1>0, ScreenAssumption DEF IsApp
  <2>4. IsApp(app') /\ OneServers(app') /\ app'.bench_prompt = app.bench_prompt
    BY <1>0, <2>1, <2>3, NothingIsTyped DEF Switched, IsApp, OneServers, NoAnswer
  <2> QED
    BY <2>2, <2>4 DEF ScreenInv, ScreenType, IsApp
<1>6. CASE BenchKey
  <2>1. /\ app' = [app EXCEPT !.bench_prompt = TRUE, !.bench_message = NoServer]
        /\ prompted' = app.url /\ UNCHANGED <<addr, wanted, channel, fetcher, posted>>
    BY <1>6 DEF BenchKey, Pressed
  <2>2. IsApp(app') /\ app'.url = app.url
    BY <1>0, <2>1 DEF IsApp
  <2>3. OneServers(app')
    BY <1>0, <2>1 DEF IsApp, OneServers, ScreenInv
  <2> QED
    BY <2>1, <2>2, <2>3 DEF ScreenInv, ScreenType, IsApp
<1>7. CASE PromptKey
  <2>1. /\ app.bench_prompt /\ UNCHANGED <<addr, wanted, channel, fetcher, prompted>>
        /\ \/ /\ app.bench_local /\ posted' = posted \cup {<<app.url, prompted>>}
              /\ app' = [app EXCEPT !.bench_prompt = FALSE, !.bench_message = app.url]
           \/ app' = [app EXCEPT !.bench_prompt = FALSE] /\ posted' = posted
    BY <1>7 DEF PromptKey, Pressed
  <2>2. IsApp(app') /\ ~app'.bench_prompt
    BY <1>0, <2>1 DEF IsApp
  <2>3. OneServers(app')
    BY <1>0, <2>1 DEF IsApp, OneServers, ScreenInv
  <2>4. \A p \in posted' : p[1] = p[2] /\ p[1] \in Local
    <3>1. ASSUME app.bench_local, posted' = posted \cup {<<app.url, prompted>>}
          PROVE  \A p \in posted' : p[1] = p[2] /\ p[1] \in Local
      <4>1. app.url \in Local /\ prompted = app.url
        BY <2>1, <3>1, Zenon DEF ScreenInv, OneServers
      <4>2. <<app.url, prompted>>[1] = app.url /\ <<app.url, prompted>>[2] = prompted
        OBVIOUS
      <4>3. \A p \in posted : p[1] = p[2] /\ p[1] \in Local
        BY DEF ScreenInv
      <4> QED
        BY <3>1, <4>1, <4>2, <4>3, Zenon
    <3> QED
      BY <2>1, <3>1 DEF ScreenInv
  <2> QED
    BY <2>1, <2>2, <2>3, <2>4 DEF ScreenInv, ScreenType
<1>8. CASE ReadAddr
  <2>1. UNCHANGED <<app, addr, wanted, channel, prompted, posted>>
    BY <1>8 DEF ReadAddr
  <2>2. fetcher' \in Fetchers /\ fetcher'.ctx \in {NoServer, fetcher'.url}
    BY <1>0, <1>8, NothingIsTyped DEF ReadAddr, Restarted, Fetchers, ScreenInv, ScreenType
  <2> QED
    BY <2>1, <2>2 DEF ScreenInv, ScreenType
<1>9. CASE FetchStatus
  <2>1. UNCHANGED <<app, addr, wanted, prompted, posted>>
    BY <1>9 DEF FetchStatus
  <2>2. fetcher' \in Fetchers /\ fetcher'.ctx \in {NoServer, fetcher'.url}
    BY <1>0, <1>9 DEF FetchStatus, Fetchers, ScreenInv
  <2>3. PICK m : channel' = Append(channel, m) /\ m \in Messages
    <3>1. [NoAnswer EXCEPT !.from = fetcher.url] \in OwnAnswers
          /\ [NoAnswer EXCEPT !.from = fetcher.url].from = fetcher.url
      BY <1>0 DEF NoAnswer, OwnAnswers, Answers, Fetchers, NoServer
    <3> DEFINE answer == [NoAnswer EXCEPT !.from = fetcher.url]
               m(kind) == [kind |-> kind, from |-> fetcher.url, answer |-> answer]
    <3>2. m("status") \in Messages /\ m("failed") \in Messages
      BY <1>0, <3>1 DEF Messages, Fetchers
    <3>3. channel' = Append(channel, m("status")) \/ channel' = Append(channel, m("failed"))
      BY <1>9 DEF FetchStatus, Tell
    <3> HIDE DEF m
    <3> QED
      BY <3>2, <3>3
  <2> QED
    BY <1>0, <2>1, <2>2, <2>3, AppendProperties DEF ScreenInv, ScreenType
<1>10. CASE StatusNotDue \/ ReadWanted \/ PageNotDue
  <2>1. UNCHANGED <<app, addr, wanted, channel, prompted, posted>>
    BY <1>10 DEF StatusNotDue, ReadWanted, PageNotDue
  <2>2. fetcher' \in Fetchers /\ fetcher'.ctx \in {NoServer, fetcher'.url}
    BY <1>0, <1>10, NothingIsTyped DEF StatusNotDue, ReadWanted, PageNotDue, Fetchers, ScreenInv
  <2> QED
    BY <2>1, <2>2 DEF ScreenInv, ScreenType
<1>11. CASE FetchPage
  <2>1. UNCHANGED <<app, addr, wanted, prompted, posted>>
    BY <1>11 DEF FetchPage
  <2>2. fetcher' \in Fetchers /\ fetcher'.ctx \in {NoServer, fetcher'.url}
    BY <1>0, <1>11 DEF FetchPage, Fetchers, ScreenInv
  <2>3. PICK m : channel' = Append(channel, m) /\ m \in Messages
    <3>1. [from |-> fetcher.url, page |-> fetcher.want.page,
           range |-> fetcher.want.range, ctx |-> fetcher.ctx] \in OwnAnswers
      BY <1>0 DEF OwnAnswers, Answers, Fetchers, Wants, ScreenInv
    <3> QED
      BY <1>0, <1>11, <3>1 DEF FetchPage, Tell, Messages, Fetchers
  <2> QED
    BY <1>0, <2>1, <2>2, <2>3, AppendProperties DEF ScreenInv, ScreenType
<1> QED
  BY <1>1, <1>2, <1>3, <1>4, <1>5, <1>6, <1>7, <1>8, <1>9, <1>10, <1>11 DEF ScreenNext

\* What is kept while the two threads of the screen step.
THEOREM ScreenIsConsistent == ScreenSpec => []ScreenInv
<1>1. ScreenInit => ScreenInv
  BY NothingIsTyped
     DEF ScreenInit, ScreenInv, ScreenType, IsApp, OneServers, Fetchers, NoAnswer, NoServer
<1>2. ScreenInv /\ [ScreenNext]_screen_vars => ScreenInv'
  <2>1. ASSUME ScreenInv, UNCHANGED screen_vars PROVE ScreenInv'
    BY <2>1 DEF screen_vars, ScreenInv, ScreenType
  <2> QED
    BY <2>1, ScreenKeeps
<1> QED
  BY <1>1, <1>2, PTL DEF ScreenSpec

\* What is on screen is the server's that the header names, and a bench is posted where its
\* prompt was opened, however fast the servers are switched and the answers come
\* (main.rs:651, ui/mod.rs:356).
THEOREM ScreenIsAlwaysOneServers == ScreenSpec => []ScreenIsOneServers
<1>1. ScreenInv => ScreenIsOneServers
  <2> SUFFICES ASSUME ScreenInv PROVE ScreenIsOneServers
    OBVIOUS
  <2>1. app.page_data.ctx \in {NoServer, app.url}
    BY DEF ScreenInv, ScreenType, IsApp, OwnAnswers, OneServers
  <2>2. Drawn /\ app.view \notin Rangeless => app.page_data.range = app.range_idx
    BY DEF Drawn, IsFor
  <2> QED
    BY <2>1, <2>2 DEF ScreenIsOneServers, ScreenInv, OneServers
<1> QED
  BY <1>1, ScreenIsConsistent, PTL

-----------------------------------------------------------------------------
(***************************************************************************)
(* Tab and Shift-Tab.  A ring is what is visible of the pages, in the      *)
(* order of a key, and the overview between the last and the first.  A     *)
(* place has as rank the number of visible pages that are not beyond it:   *)
(* a step adds one to it, or begins again, and no two stops have the same. *)
(***************************************************************************)
Beyond(key, seen, spot) == {p \in seen : spot \in Pages => key[p] > key[spot]}
Behind(key, seen, spot) == {p \in seen : spot \in Pages /\ key[p] <= key[spot]}
RankOf(key, seen, spot) == Cardinality(Behind(key, seen, spot))

LeadsTo(key, seen, spot, to) ==
    IF Beyond(key, seen, spot) = {} THEN to = "overview"
    ELSE to \in Beyond(key, seen, spot) /\ \A p \in Beyond(key, seen, spot) : key[to] <= key[p]

\* The keys of pages are numbers, and no two are equal.
IsKey(key) ==
    /\ key \in [Pages -> Int]
    /\ \A p, q \in Pages : key[p] = key[q] => p = q

\* The stops of a ring, and the places it can be entered from.
Stops(seen) == seen \cup {"overview"}
Spots == Pages \cup {"overview"}

\* The visible pages are finitely many, and so are those that are not beyond a place.
LEMMA RankIs ==
    ASSUME NEW seen \in SUBSET Pages, IsFiniteSet(seen), NEW key, NEW spot
    PROVE  /\ RankOf(key, seen, spot) \in 0 .. Cardinality(seen) /\ Cardinality(seen) \in Nat
           /\ IsFiniteSet(Behind(key, seen, spot))
           /\ RankOf(key, seen, spot) = Cardinality(seen) <=> Behind(key, seen, spot) = seen
           /\ RankOf(key, seen, spot) = 0 <=> Behind(key, seen, spot) = {}
<1> DEFINE S == Behind(key, seen, spot)
<1>1. S \subseteq seen
  BY DEF Behind
<1>2. /\ IsFiniteSet(S) /\ Cardinality(S) <= Cardinality(seen)
      /\ Cardinality(S) = Cardinality(seen) => S = seen
  <2> HIDE DEF S
  <2> QED
    BY <1>1, FS_Subset
<1>3. Cardinality(S) \in Nat /\ Cardinality(seen) \in Nat /\ (Cardinality(S) = 0 <=> S = {})
  <2> HIDE DEF S
  <2> QED
    BY <1>2, FS_CardinalityType, FS_EmptySet
<1> QED
  BY <1>2, <1>3 DEF RankOf

\* A step leads to a stop, and adds one to the rank or begins again.
LEMMA RankOfNext ==
    ASSUME NEW seen \in SUBSET Pages, IsFiniteSet(seen), NEW key, IsKey(key),
           NEW spot \in Spots, NEW to, LeadsTo(key, seen, spot, to)
    PROVE  /\ to \in Stops(seen)
           /\ RankOf(key, seen, to) = IF RankOf(key, seen, spot) = Cardinality(seen) THEN 0
                                    ELSE RankOf(key, seen, spot) + 1
<1> DEFINE B == Behind(key, seen, spot)
<1>0. /\ "overview" \notin Pages
      /\ \A p \in Pages : key[p] \in Int
  BY ScreenAssumption DEF Pages, IsKey
<1>1. CASE Beyond(key, seen, spot) = {}
  <2>1. to = "overview"
    BY <1>1 DEF LeadsTo
  <2>2. B = seen
    BY <1>0, <1>1 DEF Beyond, Behind, Spots
  <2>3. Behind(key, seen, to) = {}
    BY <1>0, <2>1 DEF Behind
  <2> QED
    BY <2>1, <2>2, <2>3, RankIs DEF Stops
<1>2. CASE Beyond(key, seen, spot) # {}
  <2>1. /\ to \in Beyond(key, seen, spot)
        /\ \A p \in Beyond(key, seen, spot) : key[to] <= key[p]
    BY <1>2 DEF LeadsTo
  <2>2. to \in seen /\ to \in Pages /\ to \notin B
    BY <1>0, <2>1 DEF Beyond, Behind
  <2>3. Behind(key, seen, to) = B \cup {to}
    <3>1. ASSUME NEW p \in Behind(key, seen, to) PROVE p \in B \cup {to}
      <4>1. p \in seen /\ key[p] <= key[to]
        BY <3>1 DEF Behind
      <4>2. CASE p \in Beyond(key, seen, spot)
        <5>1. key[p] = key[to]
          BY <1>0, <2>1, <2>2, <4>1, <4>2
        <5> QED
          BY <2>2, <4>1, <5>1 DEF IsKey
      <4>3. CASE p \notin Beyond(key, seen, spot)
        BY <1>0, <4>1, <4>3 DEF Beyond, Behind
      <4> QED
        BY <4>2, <4>3
    <3>2. ASSUME NEW p \in B PROVE p \in Behind(key, seen, to)
      <4>1. p \in seen /\ spot \in Pages /\ key[p] <= key[spot] /\ key[spot] < key[to]
        BY <2>1 DEF Behind, Beyond
      <4> QED
        BY <1>0, <2>2, <4>1 DEF Behind
    <3>3. to \in Behind(key, seen, to)
      BY <1>0, <2>2 DEF Behind
    <3> QED
      BY <3>1, <3>2, <3>3
  <2>4. IsFiniteSet(B) /\ Cardinality(B) \in Nat /\ Cardinality(B) # Cardinality(seen)
    <3>1. B # seen
      BY <2>2
    <3> QED
      BY <3>1, RankIs DEF RankOf
  <2>5. Cardinality(B \cup {to}) = Cardinality(B) + 1
    <3> HIDE DEF B
    <3> QED
      BY <2>2, <2>4, FS_AddElement
  <2> QED
    BY <2>2, <2>3, <2>4, <2>5 DEF RankOf, Stops
<1> QED
  BY <1>1, <1>2

\* Two stops of one rank are one.
LEMMA RankTells ==
    ASSUME NEW seen \in SUBSET Pages, IsFiniteSet(seen), NEW key, IsKey(key),
           NEW v \in Stops(seen), NEW w \in Stops(seen), RankOf(key, seen, v) = RankOf(key, seen, w)
    PROVE  v = w
<1>0. /\ "overview" \notin Pages
      /\ \A p \in Pages : key[p] \in Int
  BY ScreenAssumption DEF Pages, IsKey
<1>1. ASSUME NEW p \in seen PROVE RankOf(key, seen, p) # 0 /\ RankOf(key, seen, "overview") = 0
  <2>1. p \in Behind(key, seen, p) /\ Behind(key, seen, "overview") = {}
    BY <1>0 DEF Behind
  <2> QED
    BY <2>1, RankIs
<1>2. ASSUME NEW p \in seen, NEW q \in seen, key[p] < key[q]
      PROVE  RankOf(key, seen, p) # RankOf(key, seen, q)
  <2> DEFINE S == Behind(key, seen, p)
             T == Behind(key, seen, q)
  <2>1. S \subseteq T /\ q \in T /\ q \notin S
    BY <1>0, <1>2 DEF Behind
  <2>2. IsFiniteSet(T)
    BY RankIs
  <2> HIDE DEF S, T
  <2>3. Cardinality(S) = Cardinality(T) => S = T
    BY <2>1, <2>2, FS_Subset
  <2> QED
    BY <2>1, <2>3 DEF RankOf, S, T
<1>3. CASE v \in seen /\ w \in seen
  <2>1. ~(key[v] < key[w]) /\ ~(key[w] < key[v])
    BY <1>2, <1>3
  <2>2. key[v] = key[w]
    BY <1>0, <1>3, <2>1
  <2> QED
    BY <1>3, <2>2 DEF IsKey
<1>4. CASE v = "overview" \/ w = "overview"
  BY <1>1, <1>4 DEF Stops
<1> QED
  BY <1>3, <1>4 DEF Stops

\* A walk of n steps.
Walks(w, key, seen, n) == \A i \in 1 .. n : LeadsTo(key, seen, w[i - 1], w[i])

\* The rank of the place a walk comes to after i steps.
Round(r, c, i) == IF r + i <= c THEN r + i ELSE r + i - (c + 1)
RankAfter(w, key, seen, i) == Round(RankOf(key, seen, w[0]), Cardinality(seen), i)

\* The ranks of a walk go up by one and around.
LEMMA RanksOfWalk ==
    ASSUME NEW seen \in SUBSET Pages, IsFiniteSet(seen), NEW key, IsKey(key),
           NEW w \in [0 .. Cardinality(seen) + 1 -> Spots],
           Walks(w, key, seen, Cardinality(seen) + 1)
    PROVE  \A i \in 0 .. Cardinality(seen) + 1 :
               RankOf(key, seen, w[i]) = RankAfter(w, key, seen, i)
<1> DEFINE n == Cardinality(seen) + 1
           Good(i) == RankOf(key, seen, w[i]) = RankAfter(w, key, seen, i)
           T == {i \in Nat : i \in 0 .. n => Good(i)}
<1>1. Cardinality(seen) \in Nat /\ \A i \in 0 .. n : RankOf(key, seen, w[i]) \in 0 .. Cardinality(seen)
  BY RankIs
<1>2. 0 \in T
  <2>1. 0 \in 0 .. n
    BY <1>1
  <2>2. RankOf(key, seen, w[0]) \in 0 .. Cardinality(seen)
    BY <1>1, <2>1
  <2> QED
    BY <1>1, <2>2 DEF RankAfter, Round
<1>3. ASSUME NEW i \in Nat, i \in T PROVE i + 1 \in T
  <2> SUFFICES ASSUME i + 1 \in 0 .. n PROVE Good(i + 1)
    OBVIOUS
  <2>1. i \in 0 .. n /\ i + 1 \in 1 .. n /\ (i + 1) - 1 = i /\ 0 \in 0 .. n
    BY <1>1
  <2>2. LeadsTo(key, seen, w[i], w[i + 1]) /\ w[i] \in Spots
    BY <2>1 DEF Walks
  <2>3. RankOf(key, seen, w[i + 1]) = IF RankOf(key, seen, w[i]) = Cardinality(seen) THEN 0
                                    ELSE RankOf(key, seen, w[i]) + 1
    BY <2>2, RankOfNext
  <2>4. RankOf(key, seen, w[i]) = RankAfter(w, key, seen, i)
    BY <1>3, <2>1
  <2>5. RankOf(key, seen, w[0]) \in 0 .. Cardinality(seen)
    BY <1>1, <2>1
  <2> DEFINE r == RankOf(key, seen, w[0])
             c == Cardinality(seen)
  <2>6. c \in Nat /\ r \in 0 .. c /\ i \in 0 .. c
    BY <1>1, <2>1, <2>5
  <2> HIDE DEF r, c
  <2>7. Round(r, c, i + 1) = IF Round(r, c, i) = c THEN 0 ELSE Round(r, c, i) + 1
    BY <2>6 DEF Round
  <2>8. RankAfter(w, key, seen, i) = Round(r, c, i)
        /\ RankAfter(w, key, seen, i + 1) = Round(r, c, i + 1)
    BY DEF RankAfter, r, c
  <2>9. RankOf(key, seen, w[i + 1]) = IF Round(r, c, i) = c THEN 0 ELSE Round(r, c, i) + 1
    BY <2>3, <2>4, <2>8 DEF c
  <2> QED
    BY <2>7, <2>8, <2>9
<1>4. Nat \subseteq T
  <2> HIDE DEF T
  <2> QED
    BY <1>2, <1>3, NumbersAreReached
<1>5. ASSUME NEW i \in 0 .. Cardinality(seen) + 1
      PROVE  RankOf(key, seen, w[i]) = RankAfter(w, key, seen, i)
  BY <1>1, <1>4
<1> QED
  BY <1>5

\* A walk with one step for each stop meets all of them, and nothing else.
LEMMA WalkMeetsAll ==
    ASSUME NEW seen \in SUBSET Pages, IsFiniteSet(seen), NEW key, IsKey(key),
           NEW w \in [0 .. Cardinality(seen) + 1 -> Spots],
           Walks(w, key, seen, Cardinality(seen) + 1)
    PROVE  {w[i] : i \in 1 .. Cardinality(seen) + 1} = Stops(seen)
<1> DEFINE c == Cardinality(seen)
           r == RankOf(key, seen, w[0])
<1>1. c \in Nat /\ r \in 0 .. c
  BY RankIs
<1>2. ASSUME NEW i \in 1 .. c + 1 PROVE w[i] \in Stops(seen)
  <2>1. i - 1 \in 0 .. c + 1
    BY <1>1
  <2>2. w[i - 1] \in Spots /\ LeadsTo(key, seen, w[i - 1], w[i])
    BY <2>1 DEF Walks
  <2> QED
    BY <2>2, RankOfNext
<1>3. ASSUME NEW s \in Stops(seen) PROVE \E i \in 1 .. c + 1 : s = w[i]
  <2> DEFINE t == RankOf(key, seen, s)
             i == IF t > r THEN t - r ELSE t - r + (c + 1)
  <2>1. t \in 0 .. c
    BY RankIs
  <2>2. i \in 1 .. c + 1 /\ Round(r, c, i) = t
    <3> HIDE DEF t, r, c
    <3> QED
      BY <1>1, <2>1 DEF Round
  <2>3. i \in 0 .. Cardinality(seen) + 1
    BY <1>1, <2>2
  <2>4. RankOf(key, seen, w[i]) = RankAfter(w, key, seen, i)
    <3> HIDE DEF i
    <3> QED
      BY <2>3, RanksOfWalk
  <2>5. RankAfter(w, key, seen, i) = t
    <3> HIDE DEF i, t
    <3> QED
      BY <2>2 DEF RankAfter
  <2>6. w[i] \in Stops(seen)
    BY <1>2, <2>2
  <2>7. s = w[i]
    <3> HIDE DEF i
    <3> QED
      BY <2>4, <2>5, <2>6, RankTells
  <2> QED
    BY <2>2, <2>7
<1> QED
  BY <1>2, <1>3

\* A step back undoes a step from a stop.
LEMMA BackUndoes ==
    ASSUME NEW seen \in SUBSET Pages, NEW up, NEW down, IsKey(up),
           \A p \in Pages : down[p] = -up[p],
           NEW v \in Stops(seen), NEW to, LeadsTo(up, seen, v, to),
           NEW back, LeadsTo(down, seen, to, back)
    PROVE  back = v
<1>0. /\ "overview" \notin Pages
      /\ \A p \in Pages : up[p] \in Int /\ down[p] = -up[p]
      /\ \A p, q \in Pages : up[p] = up[q] => p = q
      /\ seen \subseteq Pages
  BY ScreenAssumption DEF Pages, IsKey
<1>1. CASE Beyond(up, seen, v) = {}
  <2>1. to = "overview"
    BY <1>1 DEF LeadsTo
  <2>2. Beyond(down, seen, to) = seen
    BY <1>0, <2>1 DEF Beyond
  <2>3. CASE v = "overview"
    <3>1. seen = {}
      BY <1>0, <1>1, <2>3 DEF Beyond
    <3> QED
      BY <2>2, <2>3, <3>1 DEF LeadsTo
  <2>4. CASE v \in seen
    <3>1. back \in seen /\ down[back] <= down[v]
      BY <2>2, <2>4 DEF LeadsTo
    <3>2. up[back] <= up[v]
      BY <1>0, <1>1, <2>4, <3>1 DEF Beyond
    <3>3. up[v] <= up[back]
      BY <1>0, <2>4, <3>1
    <3> QED
      BY <1>0, <2>4, <3>1, <3>2, <3>3
  <2> QED
    BY <2>3, <2>4 DEF Stops
<1>2. CASE Beyond(up, seen, v) # {}
  <2>1. to \in Beyond(up, seen, v) /\ \A p \in Beyond(up, seen, v) : up[to] <= up[p]
    BY <1>2 DEF LeadsTo
  <2>2. to \in seen /\ to \in Pages /\ up[to] \in Int
    BY <1>0, <2>1 DEF Beyond
  <2>3. Beyond(down, seen, to) = {p \in seen : up[p] < up[to]}
    BY <1>0, <2>2 DEF Beyond
  <2>4. CASE v = "overview"
    <3>1. Beyond(up, seen, v) = seen
      BY <1>0, <2>4 DEF Beyond
    <3>2. Beyond(down, seen, to) = {}
      BY <1>0, <2>1, <2>2, <2>3, <3>1
    <3> QED
      BY <2>4, <3>2 DEF LeadsTo
  <2>5. CASE v \in seen
    <3>1. up[v] < up[to]
      BY <1>0, <2>1, <2>5 DEF Beyond
    <3>2. v \in Beyond(down, seen, to)
      BY <2>3, <2>5, <3>1
    <3>3. back \in Beyond(down, seen, to) /\ down[back] <= down[v]
      BY <3>2 DEF LeadsTo
    <3>4. back \in seen /\ up[back] < up[to] /\ up[v] <= up[back]
      BY <1>0, <2>3, <2>5, <3>3
    <3>5. ~(up[back] > up[v])
      BY <1>0, <2>1, <2>2, <2>5, <3>4 DEF Beyond
    <3> QED
      BY <1>0, <2>5, <3>4, <3>5
  <2> QED
    BY <2>4, <2>5 DEF Stops
<1> QED
  BY <1>1, <1>2

\* The keys of the two directions.
Up == [p \in Pages |-> Number[p]]
Down == [p \in Pages |-> -Number[p]]

\* Each page has one number, and they are finitely many.
LEMMA NumbersOfPages ==
    /\ \A p \in Pages : Number[p] \in 1 .. Len(PageIds) /\ PageIds[Number[p]] = p
    /\ Len(PageIds) \in Nat /\ IsFiniteSet(Pages)
    /\ IsKey(Up) /\ IsKey(Down) /\ \A p \in Pages : Down[p] = -Up[p]
<1>1. Len(PageIds) \in Nat /\ DOMAIN PageIds = 1 .. Len(PageIds)
  BY ScreenAssumption
<1>2. ASSUME NEW p \in Pages
      PROVE  Number[p] \in 1 .. Len(PageIds) /\ PageIds[Number[p]] = p
  <2>1. \E i \in DOMAIN PageIds : PageIds[i] = p
    BY DEF Pages, ToSet
  <2> QED
    BY <1>1, <2>1 DEF Number
<1>3. IsFiniteSet(Pages)
  <2> DEFINE s == [i \in 1 .. Len(PageIds) |-> PageIds[i]]
  <2>1. Pages = {s[i] : i \in 1 .. Len(PageIds)}
    BY <1>1 DEF Pages, ToSet
  <2>2. IsFiniteSet(1 .. Len(PageIds))
    BY <1>1, FS_Interval
  <2>3. s = [i \in 1 .. Len(PageIds) |-> s[i]]
    OBVIOUS
  <2> HIDE DEF s
  <2> QED
    BY <2>1, <2>2, <2>3, FiniteImage
<1>4. IsKey(Up) /\ IsKey(Down) /\ \A p \in Pages : Down[p] = -Up[p]
  <2>1. \A p \in Pages : Up[p] = Number[p] /\ Down[p] = -Number[p] /\ Number[p] \in Int
    BY <1>2 DEF Up, Down
  <2>2. \A p, q \in Pages : Number[p] = Number[q] => p = q
    BY <1>2
  <2>3. Up \in [Pages -> Int] /\ Down \in [Pages -> Int]
    BY <2>1 DEF Up, Down
  <2>4. \A p, q \in Pages : -Number[p] = -Number[q] => p = q
    BY <2>1, <2>2
  <2> QED
    BY <2>1, <2>2, <2>3, <2>4 DEF IsKey
<1> QED
  BY <1>1, <1>2, <1>3, <1>4

\* The nearest page on either side is one.
LEMMA NearestIsOne ==
    ASSUME NEW pages \in SUBSET Pages, pages # {}
    PROVE  /\ FirstOf(pages) \in pages /\ \A q \in pages : Number[FirstOf(pages)] <= Number[q]
           /\ LastOf(pages) \in pages /\ \A q \in pages : Number[q] <= Number[LastOf(pages)]
<1> DEFINE T == {Number[p] : p \in pages}
<1>1. T \subseteq 0 .. Len(PageIds) /\ T # {} /\ T \in SUBSET Nat /\ Len(PageIds) \in Nat
  BY NumbersOfPages
<1>2. PICK m \in T : \A k \in T : m <= k
  <2> HIDE DEF T
  <2> QED
    BY <1>1, LeastExists
<1>3. \E p \in pages : \A q \in pages : Number[p] <= Number[q]
  BY <1>2
<1>4. \E n \in T : \A k \in T : k <= n
  <2> HIDE DEF T
  <2> QED
    BY <1>1, LargestExists
<1>5. \E p \in pages : \A q \in pages : Number[q] <= Number[p]
  BY <1>4
<1> QED
  BY <1>3, <1>5 DEF FirstOf, LastOf

\* Where the keys lead: to the page, or to the overview.
Visible == VisiblePages(GateAbsent)

\* What the two kinds of step show.
LEMMA ViewOf ==
    ASSUME NEW a, IsApp(a)
    PROVE  /\ Overview(a).view = "overview"
           /\ \A page \in Visible : Opened(a, page).view = page
<1>1. Overview(a).view = "overview"
  BY DEF Overview, IsApp
<1>2. ASSUME NEW page \in Visible PROVE Opened(a, page).view = page
  <2> DEFINE open == a.view = page /\ a.bench_prompt
             b(prompt) == [a EXCEPT !.view = page, !.bench_prompt = prompt]
  <2>1. ASSUME NEW prompt PROVE b(prompt).view = page
    BY DEF IsApp
  <2>2. Opened(a, page) = b(open)
    BY DEF Opened, Visible
  <2> HIDE DEF b, open
  <2> QED
    BY <2>1, <2>2, Zenon
<1> QED
  BY <1>1, <1>2

\* Tab leads to the next stop in the order of the keys, Shift-Tab in the order against them.
LEMMA KeysLead ==
    ASSUME NEW a, IsApp(a), a.view \in Spots
    PROVE  /\ LeadsTo(Up, Visible, a.view, NextInRing(a).view)
           /\ LeadsTo(Down, Visible, a.view, PrevInRing(a).view)
<1> DEFINE on == {p \in Visible : a.view \in Pages => Number[p] > Number[a.view]}
           back == {p \in Visible : a.view \in Pages => Number[p] < Number[a.view]}
<1>0. /\ Visible \subseteq Pages
      /\ \A p \in Pages : Number[p] \in Int /\ Up[p] = Number[p] /\ Down[p] = -Number[p]
  BY NumbersOfPages DEF Visible, VisiblePages, Up, Down
<1>1. on = Beyond(Up, Visible, a.view) /\ back = Beyond(Down, Visible, a.view)
  BY <1>0 DEF Beyond
<1>2. ASSUME NEW beyond, NEW nearest
      PROVE  Step(a, beyond, nearest) = IF beyond = {} THEN Overview(a) ELSE Opened(a, nearest)
  BY DEF Step, Spots
<1>3. LeadsTo(Up, Visible, a.view, NextInRing(a).view)
  <2>1. NextInRing(a) = Step(a, on, FirstOf(on))
    BY DEF NextInRing, Visible
  <2>2. CASE on = {}
    <3>1. NextInRing(a) = Overview(a)
      <4> HIDE DEF on
      <4> QED
        BY <1>2, <2>1, <2>2
    <3> QED
      BY <1>1, <2>2, <3>1, ViewOf DEF LeadsTo
  <2>3. CASE on # {}
    <3>1. NextInRing(a) = Opened(a, FirstOf(on))
      <4> HIDE DEF on
      <4> QED
        BY <1>2, <2>1, <2>3
    <3>2. FirstOf(on) \in on /\ \A q \in on : Number[FirstOf(on)] <= Number[q]
      <4>1. on \in SUBSET Pages
        BY <1>0
      <4> HIDE DEF on
      <4> QED
        BY <2>3, <4>1, NearestIsOne
    <3>3. on \subseteq Visible
      OBVIOUS
    <3> HIDE DEF on
    <3>4. NextInRing(a).view = FirstOf(on)
      BY <3>1, <3>2, <3>3, ViewOf
    <3> QED
      BY <1>0, <1>1, <2>3, <3>2, <3>3, <3>4 DEF LeadsTo
  <2> QED
    BY <2>2, <2>3
<1>4. LeadsTo(Down, Visible, a.view, PrevInRing(a).view)
  <2>1. PrevInRing(a) = Step(a, back, LastOf(back))
    BY DEF PrevInRing, Visible
  <2>2. CASE back = {}
    <3>1. PrevInRing(a) = Overview(a)
      <4> HIDE DEF back
      <4> QED
        BY <1>2, <2>1, <2>2
    <3> QED
      BY <1>1, <2>2, <3>1, ViewOf DEF LeadsTo
  <2>3. CASE back # {}
    <3>1. PrevInRing(a) = Opened(a, LastOf(back))
      <4> HIDE DEF back
      <4> QED
        BY <1>2, <2>1, <2>3
    <3>2. LastOf(back) \in back /\ \A q \in back : Number[q] <= Number[LastOf(back)]
      <4>1. back \in SUBSET Pages
        BY <1>0
      <4> HIDE DEF back
      <4> QED
        BY <2>3, <4>1, NearestIsOne
    <3>3. back \subseteq Visible
      OBVIOUS
    <3> HIDE DEF back
    <3>4. PrevInRing(a).view = LastOf(back)
      BY <3>1, <3>2, <3>3, ViewOf
    <3> QED
      BY <1>0, <1>1, <2>3, <3>2, <3>3, <3>4 DEF LeadsTo
  <2> QED
    BY <2>2, <2>3
<1> QED
  BY <1>3, <1>4

\* What a walk by the keys makes of the screen.
OnTheWay ==
    [url: Int, status: OwnAnswers, error: {app.error}, view: Spots, range_idx: Int,
     page_data: OwnAnswers, bench_prompt: BOOLEAN, bench_local: {app.bench_local},
     bench_message: {app.bench_message}]

\* Leads goes from place to place as the key says.
GoesBy(key, a, b) == b \in OnTheWay /\ LeadsTo(key, Visible, a.view, b.view)

\* Both keys go by their order, and leave the screen on the way.
LEMMA KeysGo ==
    ASSUME NEW a \in OnTheWay
    PROVE  IsApp(a) /\ GoesBy(Up, a, NextInRing(a)) /\ GoesBy(Down, a, PrevInRing(a))
<1>1. IsApp(a) /\ a.view \in Spots
  BY DEF OnTheWay, IsApp
<1>2. Same(a, NextInRing(a)) /\ Same(a, PrevInRing(a))
  BY <1>1, PagesAreTheSame
<1>3. /\ LeadsTo(Up, Visible, a.view, NextInRing(a).view)
      /\ LeadsTo(Down, Visible, a.view, PrevInRing(a).view)
  BY <1>1, KeysLead
<1>4. Visible \in SUBSET Pages /\ IsFiniteSet(Visible) /\ IsKey(Up) /\ IsKey(Down)
  <2>1. Visible \in SUBSET Pages
    BY DEF Visible, VisiblePages
  <2> QED
    BY <2>1, NumbersOfPages, FS_Subset
<1>5. NextInRing(a).view \in Spots /\ PrevInRing(a).view \in Spots
  <2>1. NextInRing(a).view \in Stops(Visible) /\ PrevInRing(a).view \in Stops(Visible)
    BY <1>1, <1>3, <1>4, RankOfNext
  <2> QED
    BY <1>4, <2>1 DEF Stops, Spots
<1>6. ASSUME NEW b, Same(a, b), b.view \in Spots PROVE b \in OnTheWay
  <2>1. b = [url |-> b.url, status |-> b.status, error |-> b.error, view |-> b.view,
             range_idx |-> b.range_idx, page_data |-> b.page_data,
             bench_prompt |-> b.bench_prompt, bench_local |-> b.bench_local,
             bench_message |-> b.bench_message]
    BY <1>6 DEF Same, IsApp
  <2>2. /\ b.url \in Int /\ b.range_idx \in Int /\ b.bench_prompt \in BOOLEAN
        /\ b.status \in OwnAnswers /\ b.page_data \in OwnAnswers
    BY <1>6 DEF Same, IsApp
  <2>3. /\ b.error \in {app.error} /\ b.bench_local \in {app.bench_local}
        /\ b.bench_message \in {app.bench_message}
    BY <1>6 DEF Same, OnTheWay
  <2> QED
    BY <1>6, <2>1, <2>2, <2>3 DEF OnTheWay
<1> QED
  BY <1>1, <1>2, <1>3, <1>5, <1>6 DEF GoesBy

\* There is a path of n steps by a function of the screen.
IsPath(f, n, base, next) == f[0] = base /\ \A i \in 1 .. n : f[i] = next[f[i - 1]]

\* There is such a path.
LEMMA PathExists ==
    ASSUME NEW D, NEW next \in [D -> D], NEW base \in D, NEW n \in Nat
    PROVE  \E f \in [0 .. n -> D] : IsPath(f, n, base, next)
<1> DEFINE step == [p \in (1 .. n) \X D |-> next[p[2]]]
<1>1. step \in [(1 .. n) \X D -> D]
  OBVIOUS
<1>2. PICK f \in [0 .. n -> D] : RecursesUp(f, n, base, step)
  <2> HIDE DEF step
  <2> QED
    BY <1>1, RecursionExists
<1>3. ASSUME NEW i \in 1 .. n PROVE f[i] = next[f[i - 1]]
  <2>1. i - 1 \in 0 .. n
    OBVIOUS
  <2>2. f[i - 1] \in D
    BY <1>2, <2>1
  <2>3. f[i] = step[<<i, f[i - 1]>>]
    <3> HIDE DEF step
    <3> QED
      BY <1>2 DEF RecursesUp
  <2> QED
    BY <2>2, <2>3
<1> QED
  BY <1>2, <1>3 DEF RecursesUp, IsPath

\* A path that goes by a key meets all stops.
LEMMA PathMeetsAll ==
    ASSUME NEW key, IsKey(key), NEW w, w[0] \in OnTheWay,
           \A i \in 1 .. Cardinality(Stops(Visible)) :
               w[i - 1] \in OnTheWay => GoesBy(key, w[i - 1], w[i])
    PROVE  {w[i].view : i \in 1 .. Cardinality(Stops(Visible))} = Stops(Visible)
<1>1. Visible \in SUBSET Pages /\ IsFiniteSet(Visible) /\ Cardinality(Visible) \in Nat
  <2>1. Visible \in SUBSET Pages
    BY DEF Visible, VisiblePages
  <2> QED
    BY <2>1, NumbersOfPages, FS_Subset, FS_CardinalityType
<1>2. Cardinality(Stops(Visible)) = Cardinality(Visible) + 1
  <2>1. "overview" \notin Visible
    BY <1>1, ScreenAssumption DEF Pages
  <2> QED
    BY <1>1, <2>1, FS_AddElement DEF Stops
<1> DEFINE n == Cardinality(Visible) + 1
           T == {i \in Nat : i \in 0 .. n => w[i] \in OnTheWay}
<1>3. 0 \in T
  OBVIOUS
<1>4. ASSUME NEW i \in Nat, i \in T PROVE i + 1 \in T
  <2> SUFFICES ASSUME i + 1 \in 0 .. n PROVE w[i + 1] \in OnTheWay
    OBVIOUS
  <2>1. i \in 0 .. n /\ i + 1 \in 1 .. n /\ (i + 1) - 1 = i
    BY <1>1
  <2>2. GoesBy(key, w[i], w[i + 1])
    BY <1>2, <1>4, <2>1
  <2> QED
    BY <2>2 DEF GoesBy
<1>5. Nat \subseteq T
  <2> HIDE DEF T
  <2> QED
    BY <1>3, <1>4, NumbersAreReached
<1>6. \A i \in 0 .. n : w[i] \in OnTheWay
  BY <1>1, <1>5
<1> DEFINE v == [i \in 0 .. n |-> w[i].view]
<1>7. v \in [0 .. n -> Spots]
  BY <1>6 DEF OnTheWay
<1>8. Walks(v, key, Visible, n)
  <2>1. ASSUME NEW i \in 1 .. n PROVE LeadsTo(key, Visible, v[i - 1], v[i])
    <3>1. i - 1 \in 0 .. n /\ i \in 0 .. n
      BY <1>1
    <3>2. v[i - 1] = w[i - 1].view /\ v[i] = w[i].view
      BY <3>1
    <3>3. GoesBy(key, w[i - 1], w[i])
      BY <1>2, <1>6, <3>1
    <3> HIDE DEF v
    <3> QED
      BY <3>2, <3>3 DEF GoesBy
  <2> HIDE DEF v, n
  <2> QED
    BY <2>1 DEF Walks
<1>9. {v[i] : i \in 1 .. n} = Stops(Visible)
  <2> HIDE DEF v
  <2> QED
    BY <1>1, <1>7, <1>8, WalkMeetsAll
<1>10. \A i \in 1 .. n : v[i] = w[i].view
  BY <1>1
<1> HIDE DEF v
<1> QED
  BY <1>2, <1>9, <1>10

\* The walk of Tab meets all stops ...
LEMMA TabMeetsAll ==
    ASSUME app \in OnTheWay
    PROVE  Walk(NextInRing, app, Cardinality(Stops(Visible))) = Stops(Visible)
<1> DEFINE n == Cardinality(Stops(Visible))
           P(h) == h = [i \in 0 .. n |-> IF i = 0 THEN app ELSE NextInRing(h[i - 1])]
           iter == CHOOSE h : P(h)
           next == [a \in OnTheWay |-> NextInRing(a)]
<1>1. n \in Nat
  <2>1. Visible \subseteq Pages
    BY DEF Visible, VisiblePages
  <2>2. IsFiniteSet(Stops(Visible))
    BY <2>1, NumbersOfPages, FS_Subset, FS_AddElement DEF Stops
  <2> QED
    BY <2>2, FS_CardinalityType
<1>2. next \in [OnTheWay -> OnTheWay]
  BY KeysGo DEF GoesBy
<1>3. PICK f \in [0 .. n -> OnTheWay] : IsPath(f, n, app, next)
  <2> HIDE DEF next, n
  <2> QED
    BY <1>1, <1>2, PathExists
<1>4. ASSUME NEW i \in 1 .. n PROVE f[i] = NextInRing(f[i - 1])
  <2>1. f[i - 1] \in OnTheWay
    <3>1. i - 1 \in 0 .. n
      BY <1>1
    <3> QED
      BY <3>1
  <2> QED
    BY <1>3, <2>1 DEF IsPath
<1>5. P(f)
  <2>1. f = [i \in 0 .. n |-> f[i]]
    BY <1>3
  <2>2. ASSUME NEW i \in 0 .. n PROVE f[i] = IF i = 0 THEN app ELSE NextInRing(f[i - 1])
    BY <1>1, <1>3, <1>4 DEF IsPath
  <2> HIDE DEF n
  <2> QED
    BY <2>1, <2>2
<1>6. P(iter)
  <2> HIDE DEF P
  <2> QED
    BY <1>5, Zenon
<1>7. Walk(NextInRing, app, n) = {iter[i].view : i \in 1 .. n}
  BY DEF Walk
<1> HIDE DEF iter
<1>8. iter[0] = app /\ \A i \in 1 .. n : iter[i] = NextInRing(iter[i - 1])
  <2> HIDE DEF n
  <2>1. 0 \in 0 .. n /\ \A i \in 1 .. n : i \in 0 .. n /\ i # 0
    BY <1>1
  <2> QED
    BY <1>6, <2>1
<1>9. ASSUME NEW i \in 1 .. n, iter[i - 1] \in OnTheWay PROVE GoesBy(Up, iter[i - 1], iter[i])
  BY <1>8, <1>9, KeysGo
<1>10. {iter[i].view : i \in 1 .. n} = Stops(Visible)
  BY <1>8, <1>9, NumbersOfPages, PathMeetsAll
<1> QED
  BY <1>7, <1>10

\* ... and that of Shift-Tab does.
LEMMA BackTabMeetsAll ==
    ASSUME app \in OnTheWay
    PROVE  Walk(PrevInRing, app, Cardinality(Stops(Visible))) = Stops(Visible)
<1> DEFINE n == Cardinality(Stops(Visible))
           P(h) == h = [i \in 0 .. n |-> IF i = 0 THEN app ELSE PrevInRing(h[i - 1])]
           iter == CHOOSE h : P(h)
           next == [a \in OnTheWay |-> PrevInRing(a)]
<1>1. n \in Nat
  <2>1. Visible \subseteq Pages
    BY DEF Visible, VisiblePages
  <2>2. IsFiniteSet(Stops(Visible))
    BY <2>1, NumbersOfPages, FS_Subset, FS_AddElement DEF Stops
  <2> QED
    BY <2>2, FS_CardinalityType
<1>2. next \in [OnTheWay -> OnTheWay]
  BY KeysGo DEF GoesBy
<1>3. PICK f \in [0 .. n -> OnTheWay] : IsPath(f, n, app, next)
  <2> HIDE DEF next, n
  <2> QED
    BY <1>1, <1>2, PathExists
<1>4. ASSUME NEW i \in 1 .. n PROVE f[i] = PrevInRing(f[i - 1])
  <2>1. f[i - 1] \in OnTheWay
    <3>1. i - 1 \in 0 .. n
      BY <1>1
    <3> QED
      BY <3>1
  <2> QED
    BY <1>3, <2>1 DEF IsPath
<1>5. P(f)
  <2>1. f = [i \in 0 .. n |-> f[i]]
    BY <1>3
  <2>2. ASSUME NEW i \in 0 .. n PROVE f[i] = IF i = 0 THEN app ELSE PrevInRing(f[i - 1])
    BY <1>1, <1>3, <1>4 DEF IsPath
  <2> HIDE DEF n
  <2> QED
    BY <2>1, <2>2
<1>6. P(iter)
  <2> HIDE DEF P
  <2> QED
    BY <1>5, Zenon
<1>7. Walk(PrevInRing, app, n) = {iter[i].view : i \in 1 .. n}
  BY DEF Walk
<1> HIDE DEF iter
<1>8. iter[0] = app /\ \A i \in 1 .. n : iter[i] = PrevInRing(iter[i - 1])
  <2> HIDE DEF n
  <2>1. 0 \in 0 .. n /\ \A i \in 1 .. n : i \in 0 .. n /\ i # 0
    BY <1>1
  <2> QED
    BY <1>6, <2>1
<1>9. ASSUME NEW i \in 1 .. n, iter[i - 1] \in OnTheWay PROVE GoesBy(Down, iter[i - 1], iter[i])
  BY <1>8, <1>9, KeysGo
<1>10. {iter[i].view : i \in 1 .. n} = Stops(Visible)
  BY <1>8, <1>9, NumbersOfPages, PathMeetsAll
<1> QED
  BY <1>7, <1>10

\* Tab and Shift-Tab lead on from every place of the ring: a walk of as many steps as there
\* are stops meets each of them, the page where it began may be hidden by now, and from a
\* stop Shift-Tab undoes Tab (ui/mod.rs:417).
THEOREM TabAlwaysLeadsOn == ScreenSpec => []TabLeadsOn
<1>1. ScreenInv => TabLeadsOn
  <2> SUFFICES ASSUME ScreenInv, app.view \in Spots PROVE TabLeadsOn
    BY DEF TabLeadsOn, Spots
  <2>1. IsApp(app)
    BY DEF ScreenInv, ScreenType
  <2>2. app \in OnTheWay
    BY <2>1 DEF IsApp, OnTheWay
  <2>3. app.view \in Stops(Visible) => PrevInRing(NextInRing(app)).view = app.view
    <3> SUFFICES ASSUME app.view \in Stops(Visible)
                 PROVE  PrevInRing(NextInRing(app)).view = app.view
      OBVIOUS
    <3>1. GoesBy(Up, app, NextInRing(app))
      BY <2>2, KeysGo
    <3>2. GoesBy(Down, NextInRing(app), PrevInRing(NextInRing(app)))
      BY <3>1, KeysGo DEF GoesBy
    <3>3. Visible \in SUBSET Pages
      BY DEF Visible, VisiblePages
    <3> QED
      BY <3>1, <3>2, <3>3, NumbersOfPages, BackUndoes DEF GoesBy
  <2>4. Walk(NextInRing, app, Cardinality(Stops(Visible))) = Stops(Visible)
    BY <2>2, TabMeetsAll
  <2>5. Walk(PrevInRing, app, Cardinality(Stops(Visible))) = Stops(Visible)
    BY <2>2, BackTabMeetsAll
  <2> QED
    BY <2>3, <2>4, <2>5 DEF TabLeadsOn, Stops, Visible
<1> QED
  BY <1>1, ScreenIsConsistent, PTL

-----------------------------------------------------------------------------
(***************************************************************************)
(* The watch of a bench                                                    *)
(***************************************************************************)
MineType == [streams: Nat, asked: Nat, shown: Nat, left: Nat]
OwnType == [inflight: Nat, grace: BOOLEAN, abandoned: Nat]

\* The types of what a look is taken at, and of the rest.
WorldType ==
    /\ setup \in Setups /\ strangers \in [Ways -> Nat] /\ mine \in MineType /\ plan \in Plans

WatchType ==
    /\ WorldType
    /\ at \in Nat
    /\ watch_pc \in {"between", "harness", "settling", "quiet", "waiting", "ended"}
    /\ waiting \in [unanswered: Nat, timeouts: Nat]
    /\ own_load \in OwnType
    /\ sampler \in [looked: BOOLEAN, traffic: BOOLEAN, weakest: 0 .. 3]
    /\ unsettled \in BOOLEAN /\ forgotten \in BOOLEAN /\ overlooked \in BOOLEAN

\* Where the run is in its plan.
AtStep ==
    /\ watch_pc \in {"harness", "settling", "quiet", "waiting"} => at \in DOMAIN plan
    /\ watch_pc = "harness" => plan[at].kind = "harness"
    /\ watch_pc = "waiting" => plan[at].kind # "harness"
    /\ watch_pc \in {"settling", "quiet"} => plan[at].kind # "request"

\* The harness has no more streams there than it was told to launch, and none once the
\* engine was seen quiet.
StreamsAllowed ==
    IF watch_pc \in {"harness", "settling", "quiet"} /\ plan[at].kind = "harness"
    THEN plan[at].n ELSE 0

StreamsCounted == ~setup.under_load /\ ~unsettled => mine.streams <= StreamsAllowed

\* The requests of a step are counted while it waits for them.
RequestsCounted ==
    IF watch_pc = "waiting"
    THEN /\ own_load.inflight = plan[at].n /\ mine.asked <= waiting.unanswered
         /\ waiting.unanswered + waiting.timeouts <= plan[at].n
    ELSE own_load.inflight = 0 /\ mine.asked = 0

\* So are those that were given up and may still run.
AbandonedCounted ==
    ~forgotten => mine.left <= own_load.abandoned
                               + (IF watch_pc = "waiting" THEN waiting.timeouts ELSE 0)

\* What holds until the run ends.
LoadCounted ==
    /\ step_end # "traffic" /\ AtStep /\ StreamsCounted /\ RequestsCounted /\ AbandonedCounted

\* Whoever was overlooked was so where the total has no say.
QuietIsHonest ==
    overlooked => /\ sampler.looked
                  /\ Class = "Quiet" => ~CountsEverybody /\ ~Watched

\* The inductive invariant.
WatchInv ==
    /\ WatchType
    /\ watch_pc # "ended" => LoadCounted
    /\ QuietIsHonest

\* What a plan says of a step.
LEMMA StepsOfPlans ==
    ASSUME NEW p \in Plans
    PROVE  /\ Len(p) \in Nat
           /\ \A i \in 1 .. Len(p) : p[i].kind \in StepKinds /\ p[i].n \in Nat \ {0}
           /\ DOMAIN p = 1 .. Len(p)
<1> DEFINE S == [kind: StepKinds, n: Nat \ {0}]
<1>1. p \in Seq(S)
  BY WatchAssumption
<1>2. Len(p) \in Nat /\ DOMAIN p = 1 .. Len(p)
  BY <1>1, LenProperties
<1>3. ASSUME NEW i \in 1 .. Len(p) PROVE p[i] \in S
  BY <1>1, <1>3, ElementOfSeq
<1> QED
  BY <1>2, <1>3

\* The sums that are made of the engine's load are numbers.
LEMMA SumsOfWorld ==
    ASSUME WorldType
    PROVE  /\ strangers.public \in Nat /\ strangers.trusted \in Nat /\ strangers.direct \in Nat
           /\ mine.streams \in Nat /\ mine.asked \in Nat /\ mine.shown \in Nat /\ mine.left \in Nat
           /\ Everybody \in Nat /\ MyRequests \in Nat /\ Mine \in Nat
           /\ InLane("public") \in Nat /\ InLane("trusted") \in Nat
BY DEF WorldType, Ways, MineType, Everybody, MyRequests, Mine, InLane

\* What the two lanes show: everybody, if the engine has the lanes and the one for requests
\* without a lane is one of the two.
LEMMA LanesOfWorld ==
    ASSUME WorldType
    PROVE  /\ setup.lanes = "none" => InLane("public") = 0 /\ InLane("trusted") = 0
           /\ setup.lanes = "trusted" =>
                 /\ InLane("public") = strangers.public
                 /\ InLane("trusted") = strangers.trusted + strangers.direct + Mine
           /\ setup.lanes = "public" =>
                 /\ InLane("public") = strangers.public + strangers.direct + mine.streams
                                       + (IF ThroughGateway THEN 0 ELSE MyRequests)
                 /\ InLane("trusted") = strangers.trusted
                                        + (IF ThroughGateway THEN MyRequests ELSE 0)
           /\ setup.lanes = "neither" =>
                 /\ InLane("public") = strangers.public
                 /\ InLane("trusted") = strangers.trusted
                                        + (IF ThroughGateway THEN MyRequests ELSE 0)
BY SumsOfWorld DEF InLane, OwnLane, Mine

\* Each number of a look comes from the engine or from the gateway, or was not read.
LEMMA SeenNumbers ==
    ASSUME WorldType, NEW engine \in BOOLEAN, NEW table \in BOOLEAN,
           NEW queued \in 0 .. Everybody + Mine
    PROVE  LET o == Seen(engine, table, queued)
           IN  /\ engine => /\ o.running = Everybody + Mine - queued /\ o.running \in Nat
                            /\ o.public = InLane("public") /\ o.trusted = InLane("trusted")
                            /\ o.running # NotRead /\ o.public # NotRead /\ o.trusted # NotRead
               /\ ~engine => o.running = NotRead /\ o.public = NotRead /\ o.trusted = NotRead
               /\ table => o.users = strangers.public + strangers.trusted /\ o.users # NotRead
               /\ ~table => o.users = NotRead
BY SumsOfWorld DEF Seen, NotRead

\* Watch::observe, foreign_now: where the sources say that nobody else is there and somebody
\* is, not everybody was counted, and the total says that the run must stop.
LEMMA OverlookedIsHeard ==
    ASSUME WorldType, NEW engine \in BOOLEAN, NEW table \in BOOLEAN,
           NEW queued \in 0 .. Everybody + Mine, NEW allowed \in Nat,
           table => setup.gateway = "table",
           Unnoticed(Seen(engine, table, queued), allowed, queued),
           Foreign(Seen(engine, table, queued), allowed).rank >= 2,
           ~(Foreign(Seen(engine, table, queued), allowed).n > 0)
    PROVE  ~CountsEverybody /\ MustAbort(Seen(engine, table, queued), allowed)
<1> DEFINE o == Seen(engine, table, queued)
<1>1. /\ engine => /\ o.running = Everybody + Mine - queued /\ o.running \in Nat
                   /\ o.public = InLane("public") /\ o.trusted = InLane("trusted")
                   /\ o.running # NotRead /\ o.public # NotRead /\ o.trusted # NotRead
      /\ ~engine => o.running = NotRead /\ o.public = NotRead /\ o.trusted = NotRead
      /\ table => o.users = strangers.public + strangers.trusted /\ o.users # NotRead
      /\ ~table => o.users = NotRead
  BY SeenNumbers
<1> HIDE DEF o
<1>2. CASE table
  <2>1. Foreign(o, allowed).n = strangers.public + strangers.trusted
    BY <1>1, <1>2 DEF Foreign
  <2>2. ~CountsEverybody
    BY <1>2 DEF CountsEverybody
  <2>3. engine /\ Everybody > allowed - Mine + queued
    BY <1>1, <1>2, <2>1, <2>2, SumsOfWorld DEF Unnoticed, o
  <2>4. MustAbort(o, allowed)
    BY <1>1, <2>3, SumsOfWorld DEF MustAbort
  <2> QED
    BY <2>2, <2>4 DEF o
<1>3. CASE ~table /\ engine
  <2>1. Foreign(o, allowed).n =
            IF OwnLane = "trusted" THEN InLane("public") + Less(InLane("trusted"), allowed)
            ELSE IF OwnLane = "public" THEN Less(InLane("public"), allowed) + InLane("trusted")
            ELSE InLane("public") + InLane("trusted")
    BY <1>1, <1>3 DEF Foreign
  <2>2. Everybody > allowed - Mine + (IF CountsEverybody THEN 0 ELSE queued)
    BY <1>1, <1>3 DEF Unnoticed, o
  <2>3. ~CountsEverybody
    <3> SUFFICES ASSUME CountsEverybody PROVE FALSE
      OBVIOUS
    <3>1. Everybody > allowed - Mine
      BY <2>2, SumsOfWorld
    <3>2. ~(Foreign(o, allowed).n > 0)
      BY DEF o
    <3>3. CASE setup.lanes = "trusted"
      <4>1. ~(InLane("public") + Less(InLane("trusted"), allowed) > 0)
        BY <2>1, <3>2, <3>3 DEF OwnLane
      <4>2. /\ InLane("public") = strangers.public
            /\ InLane("trusted") = strangers.trusted + strangers.direct + Mine
        BY <3>3, LanesOfWorld
      <4> QED
        BY <3>1, <4>1, <4>2, SumsOfWorld DEF Less, Everybody
    <3>4. CASE setup.lanes = "public"
      <4>1. ~(Less(InLane("public"), allowed) + InLane("trusted") > 0)
        BY <2>1, <3>2, <3>4 DEF OwnLane
      <4>2. InLane("public") + InLane("trusted") = Everybody + Mine
        BY <3>4, LanesOfWorld, SumsOfWorld DEF Everybody, Mine
      <4>3. /\ Less(InLane("public"), allowed) \in Int
            /\ InLane("public") - allowed <= Less(InLane("public"), allowed)
        BY SumsOfWorld DEF Less
      <4> QED
        BY <3>1, <4>1, <4>2, <4>3, SumsOfWorld
    <3> QED
      BY <3>3, <3>4 DEF CountsEverybody
  <2>4. o.running > allowed
    BY <1>1, <1>3, <2>2, <2>3, SumsOfWorld
  <2> QED
    BY <1>1, <1>3, <2>3, <2>4 DEF MustAbort, o
<1>4. CASE ~table /\ ~engine
  BY <1>1, <1>4 DEF Foreign, o
<1> QED
  BY <1>2, <1>3, <1>4

\* abort_reason: with nobody else there, a look says stop only because of the bench's own.
LEMMA OwnOnly ==
    ASSUME WorldType, NEW engine \in BOOLEAN, NEW table \in BOOLEAN,
           NEW queued \in 0 .. Everybody + Mine, NEW allowed \in Nat,
           Everybody = 0, MustAbort(Seen(engine, table, queued), allowed),
           ~(ThroughGateway /\ OwnLane # "trusted" /\ MyRequests > 0)
    PROVE  Mine > allowed
<1> DEFINE o == Seen(engine, table, queued)
<1>1. /\ engine => /\ o.running = Everybody + Mine - queued /\ o.running \in Nat
                   /\ o.public = InLane("public") /\ o.trusted = InLane("trusted")
                   /\ o.running # NotRead /\ o.public # NotRead /\ o.trusted # NotRead
      /\ ~engine => o.running = NotRead /\ o.public = NotRead /\ o.trusted = NotRead
      /\ table => o.users = strangers.public + strangers.trusted /\ o.users # NotRead
      /\ ~table => o.users = NotRead
  BY SeenNumbers
<1>2. MustAbort(o, allowed)
  OBVIOUS
<1> HIDE DEF o
<1>3. strangers.public = 0 /\ strangers.trusted = 0 /\ strangers.direct = 0
  BY SumsOfWorld DEF Everybody
<1>4. CASE o.running # NotRead /\ o.running > allowed
  BY <1>1, <1>4, SumsOfWorld
<1>5. CASE Foreign(o, allowed).rank >= 2 /\ Foreign(o, allowed).n > 0
  <2>1. ~table
    BY <1>1, <1>3, <1>5 DEF Foreign
  <2>2. engine
    BY <1>1, <1>5, <2>1 DEF Foreign
  <2>3. Foreign(o, allowed).n =
            IF OwnLane = "trusted" THEN InLane("public") + Less(InLane("trusted"), allowed)
            ELSE IF OwnLane = "public" THEN Less(InLane("public"), allowed) + InLane("trusted")
            ELSE InLane("public") + InLane("trusted")
    BY <1>1, <2>1, <2>2 DEF Foreign
  <2>4. setup.lanes \in {"public", "trusted", "neither", "none"}
    BY DEF WorldType, Setups
  <2>5. CASE setup.lanes = "none"
    BY <1>5, <2>3, <2>5, LanesOfWorld DEF OwnLane, Less
  <2>6. CASE setup.lanes = "trusted"
    BY <1>3, <1>5, <2>3, <2>6, LanesOfWorld, SumsOfWorld DEF OwnLane, Less
  <2>7. CASE setup.lanes = "public"
    BY <1>3, <1>5, <2>3, <2>7, LanesOfWorld, SumsOfWorld DEF OwnLane, Less, Mine
  <2>8. CASE setup.lanes = "neither"
    BY <1>3, <1>5, <2>3, <2>8, LanesOfWorld, SumsOfWorld DEF OwnLane
  <2> QED
    BY <2>4, <2>5, <2>6, <2>7, <2>8
<1> QED
  BY <1>2, <1>4, <1>5 DEF MustAbort

\* LoadSampler::push: a look that overlooks somebody spoils the sample, or was no judge.
LEMMA LookKeepsQuiet ==
    ASSUME WatchType, step_end # "traffic", QuietIsHonest,
           NEW engine \in BOOLEAN, NEW table \in BOOLEAN,
           NEW queued \in 0 .. Everybody + Mine, NEW allowed \in Nat,
           table => setup.gateway = "table", setup' = setup,
           sampler' = Pushed(sampler, Foreign(Seen(engine, table, queued), allowed)),
           overlooked' = (overlooked \/ Unnoticed(Seen(engine, table, queued), allowed, queued)),
           step_end' = IF ~setup.under_load /\ MustAbort(Seen(engine, table, queued), allowed)
                       THEN "traffic" ELSE step_end
    PROVE  QuietIsHonest'
<1> DEFINE f == Foreign(Seen(engine, table, queued), allowed)
<1>1. f.rank \in 0 .. 3
  BY DEF Foreign
<1>2. /\ sampler'.looked /\ (sampler'.traffic <=> sampler.traffic \/ f.n > 0)
      /\ sampler'.weakest = IF sampler.looked THEN Weaker(sampler.weakest, f.rank) ELSE f.rank
  BY DEF Pushed
<1> SUFFICES ASSUME overlooked', Class' = "Quiet" PROVE (~CountsEverybody /\ ~Watched)'
  BY <1>2 DEF QuietIsHonest
<1> HIDE DEF f
<1>3. /\ ~sampler.traffic /\ ~(f.n > 0) /\ f.rank >= 2 /\ (sampler.looked => sampler.weakest >= 2)
  BY <1>1, <1>2 DEF Class, WatchType, Weaker
<1>4. CASE Unnoticed(Seen(engine, table, queued), allowed, queued)
  <2>1. ~CountsEverybody /\ MustAbort(Seen(engine, table, queued), allowed)
    BY <1>3, <1>4, OverlookedIsHeard DEF f, WatchType
  <2> QED
    BY <2>1 DEF CountsEverybody, Watched
<1>5. CASE overlooked
  <2>1. Class = "Quiet"
    BY <1>3, <1>5 DEF Class, WatchType, QuietIsHonest
  <2> QED
    BY <1>5, <2>1 DEF QuietIsHonest, CountsEverybody, Watched
<1> QED
  BY <1>4, <1>5

\* All but a look leave what was seen as it is, and stop nothing for traffic.
LEMMA OthersKeepQuiet ==
    ASSUME QuietIsHonest, UNCHANGED <<setup, sampler, overlooked>>,
           step_end # "traffic" \/ step_end' = step_end
    PROVE  QuietIsHonest'
BY DEF QuietIsHonest, Class, CountsEverybody, Watched

\* What a look reckons.
LEMMA CountOfOwn ==
    ASSUME WatchType, AtStep, watch_pc \in {"harness", "settling", "waiting"}, NEW running
    PROVE  /\ Settled(own_load, running) \in OwnType
           /\ Settled(own_load, running).inflight = own_load.inflight
           /\ Settled(own_load, running).grace = own_load.grace
           /\ Settled(own_load, running).abandoned \in {own_load.abandoned, 0}
           /\ Count(Settled(own_load, running)) \in Nat
           /\ MaxConcurrency \in Nat
<1> DEFINE c == Settled(own_load, running)
<1>1. /\ c \in OwnType /\ c.inflight = own_load.inflight /\ c.grace = own_load.grace
      /\ c.abandoned \in {own_load.abandoned, 0}
  BY DEF Settled, OwnType, WatchType
<1> HIDE DEF c
<1>2. Count(c) \in Nat
  BY <1>1 DEF Count, OwnType
<1>3. MaxConcurrency \in Nat
  BY StepsOfPlans DEF MaxConcurrency, AtStep, WatchType, WorldType, StepKinds
<1> QED
  BY <1>1, <1>2, <1>3 DEF c

\* What it allows for is what the bench can have there, and one more where one is counted twice.
LEMMA AllowedIs ==
    ASSUME WatchType, AtStep, RequestsCounted, watch_pc \in {"harness", "settling", "waiting"},
           NEW running
    PROVE  MaxConcurrency + Count(Settled(own_load, running))
             = BenchHas(Settled(own_load, running).abandoned)
<1> DEFINE c == Settled(own_load, running)
<1>1. /\ c \in OwnType /\ c.inflight = own_load.inflight /\ c.grace = own_load.grace
  BY CountOfOwn
<1>2. plan[at].kind \in StepKinds /\ plan[at].n \in Nat \ {0}
  BY StepsOfPlans DEF AtStep, WatchType, WorldType
<1>3. c.inflight \in Nat /\ c.abandoned \in Nat /\ c.grace \in BOOLEAN
  BY <1>1 DEF OwnType
<1> HIDE DEF c
<1>4. CASE watch_pc = "waiting"
  <2>1. plan[at].kind \in {"request", "parallel"} /\ c.inflight = plan[at].n
    BY <1>1, <1>2, <1>4 DEF AtStep, RequestsCounted, StepKinds
  <2> QED
    BY <1>2, <1>3, <1>4, <2>1 DEF MaxConcurrency, Count, BenchHas, StepHas, OneMore, c
<1>5. CASE watch_pc # "waiting"
  <2>1. plan[at].kind \in {"harness", "parallel"} /\ c.inflight = 0
    BY <1>1, <1>2, <1>5 DEF AtStep, RequestsCounted, StepKinds
  <2>2. plan[at].kind = "parallel" => watch_pc = "settling"
    BY <1>5 DEF AtStep
  <2> QED
    BY <1>1, <1>2, <1>3, <1>5, <2>1, <2>2
       DEF MaxConcurrency, Count, BenchHas, StepHas, OneMore, c
<1> QED
  BY <1>4, <1>5

\* A look, and what it leaves alone.
LEMMA WatchLookKeeps ==
    ASSUME WatchInv, WatchLook
    PROVE  WatchInv'
<1>0. /\ WatchType /\ LoadCounted /\ QuietIsHonest
      /\ watch_pc \in {"harness", "settling", "waiting"}
      /\ AtStep
  BY DEF WatchInv, WatchLook, LoadCounted
<1>1. PICK engine \in BOOLEAN, table \in IF setup.gateway = "table" THEN BOOLEAN ELSE {FALSE},
           queued \in 0 .. Everybody + Mine :
          LET seen == Seen(engine, table, queued)
              counted == Settled(own_load, seen.running)
              allowed == MaxConcurrency + Count(counted)
              stop == ~setup.under_load /\ MustAbort(seen, allowed)
          IN  /\ own_load' = counted
              /\ sampler' = Pushed(sampler, Foreign(seen, allowed))
              /\ forgotten' = \/ forgotten
                              \/ counted.abandoned < own_load.abandoned /\ mine.left > 0
              /\ overlooked' = \/ overlooked
                               \/ Unnoticed(seen, BenchHas(counted.abandoned), queued)
              /\ step_end' = IF stop THEN "traffic" ELSE step_end
              /\ watch_pc' = IF stop THEN "ended"
                             ELSE IF watch_pc # "settling" THEN watch_pc
                             ELSE IF setup.under_load THEN "between" ELSE "quiet"
  BY DEF WatchLook
<1> DEFINE seen == Seen(engine, table, queued)
           allowed == MaxConcurrency + Count(Settled(own_load, seen.running))
<1>2. UNCHANGED <<setup, strangers, plan, mine, at, waiting, unsettled>>
  BY DEF WatchLook, WorldStays
<1>3. /\ Settled(own_load, seen.running) \in OwnType
      /\ Settled(own_load, seen.running).inflight = own_load.inflight
      /\ Settled(own_load, seen.running).grace = own_load.grace
      /\ Settled(own_load, seen.running).abandoned \in {own_load.abandoned, 0}
      /\ allowed \in Nat
  BY <1>0, CountOfOwn
<1>4. QuietIsHonest'
  <2>1. table \in BOOLEAN /\ (table => setup.gateway = "table") /\ step_end # "traffic"
    BY <1>0 DEF LoadCounted
  <2>2. /\ sampler' = Pushed(sampler, Foreign(seen, allowed))
        /\ overlooked' = (overlooked \/ Unnoticed(seen, allowed, queued))
        /\ step_end' = IF ~setup.under_load /\ MustAbort(seen, allowed) THEN "traffic" ELSE step_end
    <3>1. allowed = BenchHas(Settled(own_load, seen.running).abandoned)
      BY <1>0, AllowedIs DEF LoadCounted
    <3> QED
      BY <1>1, <3>1
  <2> QED
    BY <1>0, <1>2, <1>3, <2>1, <2>2, LookKeepsQuiet
<1>5. WatchType'
  <2>1. sampler' \in [looked: BOOLEAN, traffic: BOOLEAN, weakest: 0 .. 3]
    <3>1. sampler' = Pushed(sampler, Foreign(seen, allowed))
      BY <1>1
    <3>2. Foreign(seen, allowed).rank \in 0 .. 3
      BY DEF Foreign
    <3>3. (sampler.traffic \/ Foreign(seen, allowed).n > 0) \in BOOLEAN
      BY <1>0 DEF WatchType
    <3>4. (IF sampler.looked THEN Weaker(sampler.weakest, Foreign(seen, allowed).rank)
           ELSE Foreign(seen, allowed).rank) \in 0 .. 3
      BY <1>0, <3>2 DEF WatchType, Weaker
    <3> HIDE DEF seen, allowed
    <3> QED
      BY <3>1, <3>3, <3>4 DEF Pushed
  <2>2. own_load' \in OwnType
    BY <1>1, <1>3
  <2>3. watch_pc' \in {"between", "harness", "settling", "quiet", "waiting", "ended"}
    BY <1>0, <1>1
  <2>4. forgotten' \in BOOLEAN /\ overlooked' \in BOOLEAN
    BY <1>0, <1>1 DEF WatchType, Unnoticed, BenchHas
  <2> QED
    BY <1>0, <1>2, <2>1, <2>2, <2>3, <2>4 DEF WatchType, WorldType
<1>6. watch_pc' # "ended" => LoadCounted'
  <2> SUFFICES ASSUME watch_pc' # "ended" PROVE LoadCounted'
    OBVIOUS
  <2>1. /\ step_end' = step_end
        /\ watch_pc' = IF watch_pc # "settling" THEN watch_pc
                       ELSE IF setup.under_load THEN "between" ELSE "quiet"
    BY <1>1
  <2>2. /\ own_load' = Settled(own_load, seen.running)
        /\ forgotten' = \/ forgotten
                        \/ own_load'.abandoned < own_load.abandoned /\ mine.left > 0
    BY <1>1
  <2> HIDE DEF seen
  <2>3. AtStep'
    BY <1>0, <1>2, <2>1 DEF AtStep
  <2>4. StreamsCounted'
    BY <1>0, <1>2, <2>1 DEF StreamsCounted, StreamsAllowed, LoadCounted
  <2>5. RequestsCounted'
    BY <1>0, <1>2, <1>3, <2>1, <2>2 DEF RequestsCounted, LoadCounted
  <2>6. AbandonedCounted'
    BY <1>0, <1>2, <1>3, <2>1, <2>2
       DEF AbandonedCounted, LoadCounted, WatchType, WorldType, MineType, OwnType
  <2> QED
    BY <1>0, <2>1, <2>3, <2>4, <2>5, <2>6 DEF LoadCounted
<1> QED
  BY <1>4, <1>5, <1>6 DEF WatchInv

\* A step that begins, or that is waited for no longer.
LEMMA StepKeeps ==
    ASSUME WatchInv,
           \/ BeginStep \/ HarnessExits \/ SeenQuiet \/ NotQuiet \/ SettledAnyway \/ StepAnswered
    PROVE  WatchInv'
<1>0. WatchType /\ LoadCounted /\ QuietIsHonest /\ watch_pc # "ended"
  BY DEF WatchInv, BeginStep, HarnessExits, SeenQuiet, NotQuiet, SettledAnyway, StepAnswered
<1>1. /\ UNCHANGED <<setup, strangers, plan, mine, sampler, step_end, forgotten, overlooked>>
  BY DEF BeginStep, HarnessExits, SeenQuiet, NotQuiet, SettledAnyway, StepAnswered, WorldStays,
         history_vars
<1>2. QuietIsHonest'
  BY <1>0, <1>1, OthersKeepQuiet
<1>3. CASE BeginStep
  <2>1. /\ watch_pc = "between" /\ at + 1 \in 1 .. Len(plan) /\ at' = at + 1
        /\ unsettled' = unsettled /\ plan \in Plans
    BY <1>0, <1>3, StepsOfPlans DEF BeginStep, WatchType, WorldType, history_vars
  <2>2. /\ at' \in DOMAIN plan' /\ plan'[at'] = plan[at + 1]
        /\ plan'[at'].kind \in StepKinds /\ plan'[at'].n \in Nat \ {0}
    BY <1>1, <2>1, StepsOfPlans
  <2>3. CASE plan[at + 1].kind = "harness"
    <3>1. watch_pc' = "harness" /\ UNCHANGED <<waiting, own_load>>
      BY <1>3, <2>3 DEF BeginStep
    <3>2. WatchType'
      BY <1>0, <1>1, <2>1, <3>1 DEF WatchType, WorldType
    <3>3. LoadCounted'
      BY <1>0, <1>1, <2>1, <2>2, <2>3, <3>1
         DEF LoadCounted, AtStep, StreamsCounted, StreamsAllowed, RequestsCounted, AbandonedCounted,
             WatchType, WorldType, MineType
    <3> QED
      BY <1>2, <3>2, <3>3 DEF WatchInv
  <2>4. CASE plan[at + 1].kind # "harness"
    <3>1. /\ watch_pc' = "waiting" /\ waiting' = [unanswered |-> plan[at + 1].n, timeouts |-> 0]
          /\ own_load' = [own_load EXCEPT !.inflight = plan[at + 1].n]
      BY <1>3, <2>4 DEF BeginStep
    <3>2. own_load' \in OwnType /\ own_load'.inflight = plan[at + 1].n
          /\ own_load'.abandoned = own_load.abandoned
      BY <1>0, <1>1, <2>2, <3>1 DEF WatchType, OwnType
    <3>3. waiting' \in [unanswered: Nat, timeouts: Nat]
      BY <1>1, <2>2, <3>1
    <3>4. WatchType'
      BY <1>0, <1>1, <2>1, <3>1, <3>2, <3>3 DEF WatchType, WorldType
    <3>5. LoadCounted'
      BY <1>0, <1>1, <2>1, <2>2, <2>4, <3>1, <3>2
         DEF LoadCounted, AtStep, StreamsCounted, StreamsAllowed, RequestsCounted, AbandonedCounted,
             WatchType, WorldType, MineType, OwnType
    <3> QED
      BY <1>2, <3>4, <3>5 DEF WatchInv
  <2> QED
    BY <2>3, <2>4
<1>4. CASE HarnessExits
  <2>1. /\ watch_pc = "harness" /\ watch_pc' = "settling"
        /\ UNCHANGED <<at, waiting, own_load, unsettled>>
    BY <1>4 DEF HarnessExits, history_vars
  <2> QED
    BY <1>0, <1>1, <1>2, <2>1
       DEF WatchInv, WatchType, WorldType, LoadCounted, AtStep, StreamsCounted, StreamsAllowed,
           RequestsCounted, AbandonedCounted
<1>5. CASE SeenQuiet
  <2>1. /\ watch_pc = "quiet" /\ watch_pc' = "between" /\ Quiet
        /\ UNCHANGED <<at, waiting, own_load, unsettled>>
    BY <1>5 DEF SeenQuiet, history_vars
  <2>2. mine.streams = 0
    BY <1>0, <2>1, SumsOfWorld DEF Quiet, Mine, WatchType
  <2> QED
    BY <1>0, <1>1, <1>2, <2>1, <2>2
       DEF WatchInv, WatchType, WorldType, LoadCounted, AtStep, StreamsCounted, StreamsAllowed,
           RequestsCounted, AbandonedCounted
<1>6. CASE NotQuiet
  <2>1. /\ watch_pc = "quiet" /\ watch_pc' = "settling"
        /\ UNCHANGED <<at, waiting, own_load, unsettled>>
    BY <1>6 DEF NotQuiet, history_vars
  <2> QED
    BY <1>0, <1>1, <1>2, <2>1
       DEF WatchInv, WatchType, WorldType, LoadCounted, AtStep, StreamsCounted, StreamsAllowed,
           RequestsCounted, AbandonedCounted
<1>7. CASE SettledAnyway
  <2>1. /\ watch_pc = "quiet" /\ watch_pc' = "between" /\ unsettled' = TRUE
        /\ UNCHANGED <<at, waiting, own_load>>
    BY <1>7 DEF SettledAnyway
  <2> QED
    BY <1>0, <1>1, <1>2, <2>1
       DEF WatchInv, WatchType, WorldType, LoadCounted, AtStep, StreamsCounted, StreamsAllowed,
           RequestsCounted, AbandonedCounted
<1>8. CASE StepAnswered
  <2>1. /\ watch_pc = "waiting" /\ waiting.unanswered = 0
        /\ own_load' = Finished(own_load, waiting.timeouts)
        /\ watch_pc' = IF plan[at].kind = "parallel" THEN "settling" ELSE "between"
        /\ UNCHANGED <<at, waiting, unsettled>>
    BY <1>8 DEF StepAnswered, history_vars
  <2>2. /\ own_load' \in OwnType /\ own_load'.inflight = 0
        /\ own_load'.abandoned = own_load.abandoned + waiting.timeouts
    BY <1>0, <2>1 DEF Finished, OwnType, WatchType
  <2>3. WatchType'
    BY <1>0, <1>1, <2>1, <2>2 DEF WatchType, WorldType
  <2>4. AtStep' /\ StreamsCounted'
    BY <1>0, <1>1, <2>1 DEF LoadCounted, AtStep, StreamsCounted, StreamsAllowed
  <2>5. RequestsCounted' /\ AbandonedCounted'
    BY <1>0, <1>1, <2>1, <2>2
       DEF LoadCounted, RequestsCounted, AbandonedCounted, WatchType, WorldType, MineType, OwnType
  <2> QED
    BY <1>0, <1>1, <1>2, <2>3, <2>4, <2>5 DEF WatchInv, LoadCounted
<1> QED
  BY <1>3, <1>4, <1>5, <1>6, <1>7, <1>8

\* The end of the run, or of the grace for what was answered last.
LEMMA EndKeeps ==
    ASSUME WatchInv, RunEnds \/ GracePasses
    PROVE  WatchInv'
<1>0. WatchType /\ QuietIsHonest
  BY DEF WatchInv
<1>1. CASE RunEnds
  <2>1. /\ UNCHANGED <<setup, strangers, plan, mine, at, waiting, own_load, sampler, history_vars>>
        /\ watch_pc' = "ended" /\ watch_pc # "ended"
    BY <1>1 DEF RunEnds, WorldStays
  <2>2. QuietIsHonest'
    BY <1>0, <2>1, OthersKeepQuiet DEF history_vars, WatchInv, LoadCounted
  <2> QED
    BY <1>0, <2>1, <2>2 DEF WatchInv, WatchType, WorldType, history_vars
<1>2. CASE GracePasses
  <2>1. /\ UNCHANGED <<setup, strangers, plan, mine, at, watch_pc, waiting, sampler>>
        /\ UNCHANGED <<step_end, history_vars>>
        /\ own_load' = [own_load EXCEPT !.grace = FALSE]
    BY <1>2 DEF GracePasses, WorldStays
  <2>2. /\ own_load' \in OwnType /\ own_load'.inflight = own_load.inflight
        /\ own_load'.abandoned = own_load.abandoned
    BY <1>0, <2>1 DEF WatchType, OwnType
  <2>3. QuietIsHonest'
    BY <1>0, <2>1, OthersKeepQuiet DEF history_vars
  <2> QED
    BY <1>0, <2>1, <2>2, <2>3
       DEF WatchInv, WatchType, WorldType, history_vars, LoadCounted, AtStep, StreamsCounted,
           StreamsAllowed, RequestsCounted, AbandonedCounted
<1> QED
  BY <1>1, <1>2

\* What the engine does changes what the bench has there, within what is counted.
LEMMA EngineKeeps ==
    ASSUME WatchInv,
           \/ Launch \/ Admit \/ Answer \/ ClientTimesOut \/ GaugeFalls
           \/ \E way \in Ways : StrangerComes(way) \/ StrangerGoes(way)
    PROVE  WatchInv'
<1>0. WatchType /\ LoadCounted /\ QuietIsHonest /\ watch_pc # "ended" /\ AtStep
  BY DEF WatchInv, LoadCounted, Launch, Admit, Answer, ClientTimesOut, GaugeFalls, StrangerComes,
         StrangerGoes
<1>1. UNCHANGED <<setup, plan, at, watch_pc, own_load, sampler, step_end, history_vars>>
  BY DEF Engine, Launch, Admit, Answer, ClientTimesOut, GaugeFalls, StrangerComes, StrangerGoes
<1>2. QuietIsHonest'
  BY <1>0, <1>1, OthersKeepQuiet DEF history_vars
<1>3. AtStep'
  BY <1>0, <1>1 DEF AtStep
<1> SUFFICES
      /\ strangers' \in [Ways -> Nat] /\ mine' \in MineType
      /\ waiting' \in [unanswered: Nat, timeouts: Nat]
      /\ StreamsCounted' /\ RequestsCounted' /\ AbandonedCounted'
  BY <1>0, <1>1, <1>2, <1>3 DEF WatchInv, WatchType, WorldType, LoadCounted, history_vars
<1>4. CASE Launch
  <2>1. /\ watch_pc = "harness" /\ mine.streams < plan[at].n /\ UNCHANGED <<strangers, waiting>>
        /\ mine' = [mine EXCEPT !.streams = mine.streams + 1]
    BY <1>4 DEF Launch
  <2>2. plan[at].kind = "harness" /\ plan[at].n \in Nat
    BY <1>0, <2>1, StepsOfPlans DEF AtStep, WatchType, WorldType
  <2>3. /\ mine' \in MineType /\ mine'.streams = mine.streams + 1 /\ mine'.asked = mine.asked
        /\ mine'.left = mine.left /\ mine.streams \in Nat
    BY <1>0, <2>1 DEF WatchType, WorldType, MineType
  <2> QED
    BY <1>0, <1>1, <2>1, <2>2, <2>3
       DEF WatchType, WorldType, LoadCounted, StreamsCounted, StreamsAllowed, RequestsCounted,
           AbandonedCounted, history_vars
<1>5. CASE Admit
  <2>1. /\ watch_pc = "waiting" /\ mine.asked < waiting.unanswered
        /\ UNCHANGED <<strangers, waiting>> /\ mine' = [mine EXCEPT !.asked = mine.asked + 1]
    BY <1>5 DEF Admit
  <2>2. /\ mine' \in MineType /\ mine'.asked = mine.asked + 1 /\ mine'.streams = mine.streams
        /\ mine'.left = mine.left
    BY <1>0, <2>1 DEF WatchType, WorldType, MineType
  <2> QED
    BY <1>0, <1>1, <2>1, <2>2
       DEF WatchType, WorldType, MineType, LoadCounted, StreamsCounted, StreamsAllowed,
           RequestsCounted, AbandonedCounted, history_vars
<1>6. CASE Answer \/ ClientTimesOut
  <2>1. /\ watch_pc = "waiting" /\ waiting.unanswered > 0 /\ UNCHANGED strangers
        /\ waiting'.unanswered = waiting.unanswered - 1
        /\ waiting' \in [unanswered: Nat, timeouts: Nat]
    BY <1>0, <1>6 DEF Answer, ClientTimesOut, WatchType
  <2> DEFINE Ended(as) ==
               /\ mine.asked > 0
               /\ mine' = [mine EXCEPT !.asked = mine.asked - 1, ![as] = mine[as] + 1]
  <2>2. waiting'.timeouts = waiting.timeouts + (IF ClientTimesOut THEN 1 ELSE 0)
    <3>1. CASE ClientTimesOut
      BY <3>1 DEF ClientTimesOut
    <3>2. CASE Answer /\ ~ClientTimesOut
      BY <1>0, <3>2 DEF Answer, WatchType
    <3> QED
      BY <1>6, <3>1, <3>2
  <2>3. \/ Ended("shown")
        \/ /\ Ended("left")
           /\ ClientTimesOut
        \/ mine.asked < waiting.unanswered /\ UNCHANGED mine
    BY <1>6 DEF Answer, ClientTimesOut
  <2>8. /\ mine \in MineType /\ mine.asked <= waiting.unanswered
        /\ waiting \in [unanswered: Nat, timeouts: Nat]
    BY <1>0, <2>1 DEF LoadCounted, RequestsCounted, WatchType, WorldType
  <2>9. /\ mine' \in MineType /\ mine'.streams = mine.streams
        /\ mine'.asked <= waiting'.unanswered
        /\ mine'.left <= mine.left + (IF ClientTimesOut THEN 1 ELSE 0)
    <3>1. CASE Ended("shown")
      <4> DEFINE d == [mine EXCEPT !.asked = mine.asked - 1]
      <4>1. /\ d \in MineType /\ d.asked = mine.asked - 1 /\ d.streams = mine.streams
            /\ d.left = mine.left /\ d.shown = mine.shown
        BY <2>8, <3>1 DEF MineType
      <4>2. mine' = [d EXCEPT !.shown = d.shown + 1]
        BY <3>1, <4>1
      <4> HIDE DEF d
      <4>3. /\ mine' \in MineType /\ mine'.asked = d.asked /\ mine'.streams = d.streams
            /\ mine'.left = d.left
        BY <4>1, <4>2 DEF MineType
      <4> QED
        BY <2>1, <2>8, <4>1, <4>3 DEF MineType
    <3>2. CASE /\ Ended("left")
               /\ ClientTimesOut
      <4> DEFINE d == [mine EXCEPT !.asked = mine.asked - 1]
      <4>1. /\ d \in MineType /\ d.asked = mine.asked - 1 /\ d.streams = mine.streams
            /\ d.left = mine.left
        BY <2>8, <3>2 DEF MineType
      <4>2. mine' = [d EXCEPT !.left = d.left + 1]
        BY <3>2, <4>1
      <4> HIDE DEF d
      <4>3. /\ mine' \in MineType /\ mine'.asked = d.asked /\ mine'.streams = d.streams
            /\ mine'.left = d.left + 1
        BY <4>1, <4>2 DEF MineType
      <4> QED
        BY <2>1, <2>8, <3>2, <4>1, <4>3 DEF MineType
    <3>3. CASE mine.asked < waiting.unanswered /\ UNCHANGED mine
      BY <2>1, <2>8, <3>3 DEF MineType
    <3> QED
      BY <2>3, <3>1, <3>2, <3>3
  <2>4. plan[at].n \in Nat
    BY <1>0, <2>1, StepsOfPlans DEF AtStep, WatchType, WorldType
  <2>5. StreamsCounted'
    BY <1>0, <1>1, <2>1, <2>9 DEF LoadCounted, StreamsCounted, StreamsAllowed, history_vars
  <2>6. RequestsCounted'
    BY <1>0, <1>1, <2>1, <2>2, <2>4, <2>8, <2>9 DEF LoadCounted, RequestsCounted
  <2>7. AbandonedCounted'
    BY <1>0, <1>1, <2>1, <2>2, <2>8, <2>9
       DEF LoadCounted, AbandonedCounted, WatchType, WorldType, MineType, OwnType, history_vars
  <2> QED
    BY <1>0, <2>1, <2>5, <2>6, <2>7, <2>9 DEF WatchType, WorldType
<1>7. CASE GaugeFalls
  <2>1. PICK what \in {"streams", "shown", "left"} :
            mine[what] > 0 /\ mine' = [mine EXCEPT ![what] = mine[what] - 1]
    BY <1>7 DEF GaugeFalls
  <2>2. UNCHANGED <<strangers, waiting>>
    BY <1>7 DEF GaugeFalls
  <2>3. /\ mine' \in MineType /\ mine'.asked = mine.asked
        /\ mine'.streams <= mine.streams /\ mine'.left <= mine.left
    <3>0. mine \in MineType
      BY <1>0 DEF WatchType, WorldType
    <3>1. CASE what = "streams"
      BY <2>1, <3>0, <3>1 DEF MineType
    <3>2. CASE what = "shown"
      BY <2>1, <3>0, <3>2 DEF MineType
    <3>3. CASE what = "left"
      BY <2>1, <3>0, <3>3 DEF MineType
    <3> QED
      BY <3>1, <3>2, <3>3
  <2>4. StreamsAllowed \in Nat
    BY <1>0, StepsOfPlans DEF StreamsAllowed, AtStep, WatchType, WorldType
  <2>5. StreamsCounted'
    BY <1>0, <1>1, <2>3, <2>4
       DEF LoadCounted, StreamsCounted, StreamsAllowed, WatchType, WorldType, MineType, history_vars
  <2>6. RequestsCounted' /\ AbandonedCounted'
    BY <1>0, <1>1, <2>2, <2>3
       DEF LoadCounted, RequestsCounted, AbandonedCounted, WatchType, WorldType, MineType, OwnType,
           history_vars
  <2> QED
    BY <1>0, <2>2, <2>3, <2>5, <2>6 DEF WatchType, WorldType
<1>8. ASSUME NEW way \in Ways, StrangerComes(way) \/ StrangerGoes(way)
      PROVE  /\ strangers' \in [Ways -> Nat] /\ mine' \in MineType
             /\ waiting' \in [unanswered: Nat, timeouts: Nat]
             /\ StreamsCounted' /\ RequestsCounted' /\ AbandonedCounted'
  <2>1. strangers' \in [Ways -> Nat] /\ UNCHANGED <<mine, waiting>>
    BY <1>0, <1>8 DEF StrangerComes, StrangerGoes, WatchType, WorldType
  <2> QED
    BY <1>0, <1>1, <2>1
       DEF WatchType, WorldType, LoadCounted, StreamsCounted, StreamsAllowed, RequestsCounted,
           AbandonedCounted, history_vars
<1> QED
  BY <1>4, <1>5, <1>6, <1>7, <1>8

\* What is kept while the run's thread, the engine and the others step.
THEOREM WatchIsConsistent == WatchSpec => []WatchInv
<1>1. ASSUME NEW where \in Setups, NEW steps \in Plans, WatchInit(where, steps) PROVE WatchInv
  <2>1. WatchType
    <3>1. WorldType
      BY <1>1 DEF WatchInit, WorldType, MineType
    <3>2. /\ waiting \in [unanswered: Nat, timeouts: Nat] /\ own_load \in OwnType
          /\ sampler \in [looked: BOOLEAN, traffic: BOOLEAN, weakest: 0 .. 3]
      BY <1>1 DEF WatchInit, OwnType
    <3> QED
      BY <1>1, <3>1, <3>2 DEF WatchInit, WatchType
  <2>2. LoadCounted
    BY <1>1 DEF WatchInit, LoadCounted, AtStep, StreamsCounted, StreamsAllowed, RequestsCounted,
                AbandonedCounted
  <2> QED
    BY <1>1, <2>1, <2>2 DEF WatchInit, WatchInv, QuietIsHonest
<1>2. WatchInv /\ [WatchNext]_watch_vars => WatchInv'
  <2>1. ASSUME WatchInv, UNCHANGED watch_vars PROVE WatchInv'
    <3>1. QuietIsHonest'
      BY <2>1, OthersKeepQuiet DEF watch_vars, history_vars, WatchInv
    <3> QED
      BY <2>1, <3>1
         DEF watch_vars, history_vars, WatchInv, WatchType, WorldType, LoadCounted, AtStep,
             StreamsCounted, StreamsAllowed, RequestsCounted, AbandonedCounted
  <2> QED
    BY <2>1, WatchLookKeeps, StepKeeps, EndKeeps, EngineKeeps DEF WatchNext
<1>3. (\E where \in Setups, steps \in Plans : WatchInit(where, steps)) => WatchInv
  BY <1>1
<1> QED
  BY <1>2, <1>3, PTL DEF WatchSpec

\* A scorecard that says quiet was measured so (bench.rs:822), for every plan and every
\* number of strangers.
THEOREM QuietRunsWereAlone == WatchSpec => []QuietWasAlone
<1>1. WatchInv => QuietWasAlone
  BY DEF WatchInv, QuietIsHonest, QuietWasAlone
<1> QED
  BY <1>1, WatchIsConsistent, PTL

\* What the bench has on the engine beyond what a look allows for is one of the exceptions.
LEMMA MineIsAllowedFor ==
    ASSUME WatchInv, WatchLook, ~setup.under_load,
           NEW c, c = own_load', c \in OwnType, c.inflight = own_load.inflight,
           c.grace = own_load.grace, c.abandoned \in {own_load.abandoned, 0},
           forgotten' = \/ forgotten
                        \/ c.abandoned < own_load.abandoned /\ mine.left > 0,
           Mine > MaxConcurrency + Count(c)
    PROVE  MistakenForOthers
<1>0. /\ WatchType /\ LoadCounted /\ watch_pc \in {"harness", "settling", "waiting"} /\ AtStep
      /\ StreamsCounted /\ RequestsCounted /\ AbandonedCounted
  BY DEF WatchInv, LoadCounted, WatchLook
<1> SUFFICES ASSUME ~ShownUncounted, ~(forgotten' /\ mine.left > c.abandoned),
                    ~(unsettled /\ mine.streams > 0)
             PROVE  FALSE
  BY DEF MistakenForOthers
<1>1. /\ mine.streams \in Nat /\ mine.asked \in Nat /\ mine.shown \in Nat /\ mine.left \in Nat
      /\ Mine = mine.streams + mine.asked + mine.shown + mine.left
  BY <1>0, SumsOfWorld DEF WatchType, Mine, MyRequests
<1>2. /\ own_load.inflight \in Nat /\ own_load.abandoned \in Nat /\ own_load.grace \in BOOLEAN
      /\ waiting.timeouts \in Nat /\ waiting.unanswered \in Nat
  BY <1>0 DEF WatchType, OwnType
<1>3. plan[at].n \in Nat \ {0} /\ plan[at].kind \in StepKinds
  BY <1>0, StepsOfPlans DEF AtStep, WatchType, WorldType
<1>4. mine.streams <= StreamsAllowed
  BY <1>0, <1>1, <1>3 DEF StreamsCounted, StreamsAllowed, WatchType
<1>5. mine.left <= c.abandoned + (IF watch_pc = "waiting" THEN waiting.timeouts ELSE 0)
  BY <1>0, <1>1, <1>2 DEF AbandonedCounted, WatchType
<1>6. mine.shown <= IF plan[at].kind = "request" THEN 1
                    ELSE IF own_load.inflight = 0 /\ own_load.grace THEN 1 ELSE 0
  BY <1>1 DEF ShownUncounted
<1>7. CASE watch_pc = "waiting"
  <2>1. mine.asked + waiting.timeouts <= own_load.inflight /\ own_load.inflight > 0
    BY <1>0, <1>1, <1>2, <1>3, <1>7 DEF RequestsCounted
  <2>2. /\ ~(forgotten' /\ mine.left > c.abandoned)
        /\ ~forgotten' => mine.left <= c.abandoned + waiting.timeouts
    BY <1>5, <1>7
  <2>3. mine.streams = 0
    BY <1>0, <1>1, <1>4, <1>7 DEF StreamsAllowed
  <2>4. mine.shown <= MaxConcurrency
    BY <1>0, <1>2, <1>3, <1>6, <1>7, <2>1 DEF MaxConcurrency, StepKinds, AtStep
  <2>5. MaxConcurrency \in Nat
    BY <1>3 DEF MaxConcurrency, StepKinds
  <2> QED
    BY <1>1, <1>2, <1>5, <1>7, <2>1, <2>3, <2>4, <2>5 DEF Count
<1>8. CASE watch_pc # "waiting"
  <2>1. mine.asked = 0 /\ own_load.inflight = 0
    BY <1>0, <1>8 DEF RequestsCounted
  <2>2. plan[at].kind # "request"
    BY <1>0, <1>8 DEF AtStep
  <2>3. mine.streams <= MaxConcurrency /\ MaxConcurrency \in Nat
    BY <1>0, <1>1, <1>3, <1>4, <1>8, <2>2 DEF MaxConcurrency, StreamsAllowed, StepKinds
  <2> QED
    BY <1>1, <1>2, <1>5, <1>6, <1>8, <2>1, <2>2, <2>3 DEF Count
<1> QED
  BY <1>7, <1>8

\* A run is stopped for somebody's traffic, but in the four named ways (bench.rs:583,
\* bench_run.rs:714).
THEOREM RunsStopForOthers == WatchSpec => StopsForOthers
<1>1. WatchInv /\ [WatchNext]_watch_vars
        => [step_end' = "traffic" /\ step_end # "traffic"
              => Everybody > 0 \/ MistakenForOthers]_watch_vars
  <2> SUFFICES ASSUME WatchInv, WatchNext, step_end' = "traffic", step_end # "traffic",
                      ~(Everybody > 0)
               PROVE  MistakenForOthers
    OBVIOUS
  <2>1. WatchLook
    BY DEF WatchNext, BeginStep, HarnessExits, SeenQuiet, NotQuiet, SettledAnyway, StepAnswered,
           RunEnds, GracePasses, Launch, Admit, Answer, ClientTimesOut, GaugeFalls, StrangerComes,
           StrangerGoes, Engine
  <2>0. /\ WatchType /\ watch_pc \in {"harness", "settling", "waiting"} /\ AtStep
    BY <2>1 DEF WatchInv, WatchLook, LoadCounted
  <2>2. PICK engine \in BOOLEAN, table \in IF setup.gateway = "table" THEN BOOLEAN ELSE {FALSE},
             queued \in 0 .. Everybody + Mine :
            LET seen == Seen(engine, table, queued)
                counted == Settled(own_load, seen.running)
                allowed == MaxConcurrency + Count(counted)
                stop == ~setup.under_load /\ MustAbort(seen, allowed)
            IN  /\ own_load' = counted
                /\ sampler' = Pushed(sampler, Foreign(seen, allowed))
                /\ forgotten' = \/ forgotten
                                \/ counted.abandoned < own_load.abandoned /\ mine.left > 0
                /\ overlooked' = \/ overlooked
                                 \/ Unnoticed(seen, BenchHas(counted.abandoned), queued)
                /\ step_end' = IF stop THEN "traffic" ELSE step_end
                /\ watch_pc' = IF stop THEN "ended"
                               ELSE IF watch_pc # "settling" THEN watch_pc
                               ELSE IF setup.under_load THEN "between" ELSE "quiet"
    BY <2>1 DEF WatchLook
  <2> DEFINE seen == Seen(engine, table, queued)
             counted == Settled(own_load, seen.running)
             allowed == MaxConcurrency + Count(counted)
  <2>3. /\ counted \in OwnType /\ counted.inflight = own_load.inflight
        /\ counted.grace = own_load.grace /\ counted.abandoned \in {own_load.abandoned, 0}
        /\ allowed \in Nat
    BY <2>0, CountOfOwn
  <2>4. ~setup.under_load /\ MustAbort(seen, allowed)
    BY <2>2
  <2>5. CASE ThroughGateway /\ OwnLane # "trusted" /\ MyRequests > 0
    BY <2>5 DEF MistakenForOthers
  <2>6. CASE ~(ThroughGateway /\ OwnLane # "trusted" /\ MyRequests > 0)
    <3>0. WorldType /\ table \in BOOLEAN
      BY <2>0 DEF WatchType
    <3>1. Everybody = 0
      BY <3>0, SumsOfWorld
    <3>2. Mine > allowed
      BY <2>3, <2>4, <2>6, <3>0, <3>1, OwnOnly
    <3>3. /\ counted = own_load'
          /\ forgotten' = \/ forgotten
                          \/ counted.abandoned < own_load.abandoned /\ mine.left > 0
      BY <2>2
    <3> HIDE DEF counted
    <3> QED
      BY <2>1, <2>3, <2>4, <3>2, <3>3, MineIsAllowedFor
  <2> QED
    BY <2>5, <2>6
<1> QED
  BY <1>1, WatchIsConsistent, PTL DEF WatchSpec, StopsForOthers

=============================================================================
