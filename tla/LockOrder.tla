------------------------------ MODULE LockOrder -----------------------------
(***************************************************************************)
(* The long-lived mutexes of the collector and the threads that take them  *)
(* (crates/lss-collector/src: main.rs, http.rs, bench_run.rs, alert.rs,    *)
(* probe_run.rs).  What a thread does under a lock is left out; what it    *)
(* may take while it holds one is kept.  A std::sync::Mutex is not         *)
(* reentrant and not fair.                                                 *)
(***************************************************************************)
EXTENDS Naturals

CONSTANTS
    Threads,    \* the threads of one collector
    Kind,       \* what each of them runs
    Nobody      \* not a thread

Kinds == {"main", "listener", "run", "worker", "probe", "names", "backfill"}
Locks == {"db", "shared", "tailscale"}
NoLock == "none"

ASSUME ThreadsAssumption == Kind \in [Threads -> Kinds] /\ Nobody \notin Threads

VARIABLES
    holder,     \* per mutex: the thread whose guard lives
    wants       \* per thread: the mutex it waits for

vars == <<holder, wants>>

\* The mutexes a thread takes while it holds none.
Outer(t) ==
    CASE Kind[t] = "main" -> {"db", "shared"}
      [] Kind[t] \in {"listener", "run"} -> {"db", "shared"}
      [] Kind[t] \in {"worker", "backfill"} -> {"db"}
      [] Kind[t] = "probe" -> {"shared"}
      [] Kind[t] = "names" -> {"tailscale"}

\* Mutant: the guard of the idle check lives on while the run is recorded.
InnerUnderCheck(t) ==
    CASE Kind[t] = "main" -> {<<"db", "shared">>, <<"db", "tailscale">>}
      [] Kind[t] = "listener" -> {<<"shared", "db">>}
      [] OTHER -> {}

\* Those it takes while it holds another: the poll loop keeps the guard of the
\* database through most of a cycle.  Every other guard is dropped first.
Inner(t) ==
    IF Kind[t] = "main" THEN {<<"db", "shared">>, <<"db", "tailscale">>} ELSE {}

Held(t) == {l \in Locks : holder[l] = t}

Init ==
    /\ holder = [l \in Locks |-> Nobody]
    /\ wants = [t \in Threads |-> NoLock]

\* lock() is called: outside of every guard ...
Lock(t, l) ==
    /\ wants[t] = NoLock /\ Held(t) = {} /\ l \in Outer(t)
    /\ wants' = [wants EXCEPT ![t] = l]
    /\ UNCHANGED holder

\* ... or inside of another.
LockInside(t, l) ==
    /\ wants[t] = NoLock
    /\ \E h \in Locks : Held(t) = {h} /\ <<h, l>> \in Inner(t)
    /\ wants' = [wants EXCEPT ![t] = l]
    /\ UNCHANGED holder

\* lock() returns.
Acquire(t) ==
    /\ wants[t] # NoLock /\ holder[wants[t]] = Nobody
    /\ holder' = [holder EXCEPT ![wants[t]] = t]
    /\ wants' = [wants EXCEPT ![t] = NoLock]

\* A guard is dropped, at the end of its block or by a panic.
Unlock(t, l) ==
    /\ wants[t] = NoLock /\ holder[l] = t
    /\ holder' = [holder EXCEPT ![l] = Nobody]
    /\ UNCHANGED wants

Next ==
    \E t \in Threads :
        \/ Acquire(t)
        \/ \E l \in Locks : Lock(t, l) \/ LockInside(t, l) \/ Unlock(t, l)

Spec == Init /\ [][Next]_vars

-----------------------------------------------------------------------------
TypeOK ==
    /\ holder \in [Locks -> Threads \cup {Nobody}]
    /\ wants \in [Threads -> Locks \cup {NoLock}]

WaitsFor(t, u) == wants[t] # NoLock /\ holder[wants[t]] = u

\* No group of threads waits for itself, a thread for itself included: somebody can
\* always go on.  main.rs:56 states the order this rests on, main.rs:69 the hang that
\* its inversion was.
NoCircularWait ==
    \A s \in SUBSET Threads : s # {} => \E t \in s : \A u \in s : ~WaitsFor(t, u)

\* The declared order: `db` -> `shared` -> `tailscale`.
Rank == [db |-> 1, shared |-> 2, tailscale |-> 3]

\* A thread that waits holds only earlier mutexes.
Ordered ==
    \A t \in Threads, l \in Locks :
        (wants[t] # NoLock /\ holder[l] = t) => Rank[l] < Rank[wants[t]]

=============================================================================
