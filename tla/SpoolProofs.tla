----------------------------- MODULE SpoolProofs -----------------------------
(***************************************************************************)
(* What holds of the delivery of alerts for any number of alerts, prompts  *)
(* and seconds, with a lock or without: types, that rows and mails are as  *)
(* they are told, and that a mail leaves the spool of AlertSpool.tla only  *)
(* when it got through or was crowded out by newer ones.                   *)
(***************************************************************************)
EXTENDS AlertSpool, NumberLemmas, SequenceTheorems

-----------------------------------------------------------------------------
(***************************************************************************)
(* The inductive invariant                                                 *)
(***************************************************************************)
\* Where a run has a listing of the spool that it has not done with, and where it notes and
\* removes what got through.
Noting == {"note", "open", "write", "remove"}
Listing == {"read", "hand"} \cup Noting

\* Where a run has an alert of its own, and where its alert has been given no file yet.
Numbering == {"empty", "number", "tmp"}
Placing == {"seq"} \cup Numbering
Own == {"dedupe", "deliver", "move", "count", "oldest", "drop", "banner"} \cup Placing
Unnamed(r) == r.job \in Alerts /\ r.pc \in {"dedupe", "lock", "list", "deliver"} \cup Listing \cup Placing

\* The files whose text a run has in hand.
InHand(r) == r.list \ r.unread

\* What a run must have where it is.
RunInOrder(r) ==
    /\ r.pc # "none" => r.job \in Jobs
    /\ r.pc \in Own => r.job \in Alerts
    /\ IF r.pc \in Listing THEN r.list # {} ELSE r.list = {} /\ r.text = {}
    /\ r.unread \subseteq r.list
    /\ r.pc = "read" => r.unread # {}
    /\ r.pc \in {"open", "write"} => r.id \in Alerts
    /\ r.pc \in {"hand"} \cup Noting =>
          /\ r.digest => r.unread = {}
          /\ ~r.digest => InHand(r) = {r.file}
    /\ r.pc \in Noting => r.file \in InHand(r)
    /\ r.pc = "read" /\ ~r.digest => r.list = r.unread /\ r.text = {}

\* The files of ids are there for whoever has them open.
IdsInOrder ==
    /\ worker = "read" => taken # Absent
    /\ \A p \in Scripts : /\ s[p].fd = "ids" => ids # Absent
                          /\ s[p].fd = "taken" => taken # Absent

SpoolShape == SpoolTypeOK /\ (\A p \in Scripts : RunInOrder(s[p])) /\ IdsInOrder

\* The alerts of the queue, each once and in their order, all that are to come after them.
QueueInOrder ==
    /\ \A i \in 1 .. Len(queue) : queue[i] <= sent
    /\ \A i, j \in 1 .. Len(queue) :
           i < j /\ {queue[i], queue[j]} \subseteq Alerts => queue[i] < queue[j]

\* An alert that the worker has begun with, whatever became of it.
Past(id, upTo, waiting) ==
    id <= upTo /\ \A i \in 1 .. Len(waiting) : waiting[i] \in Alerts => id < waiting[i]

Begun(id) == Past(id, sent, queue)

OnlyBegun ==
    /\ \A x \in named : Begun(x[2])
    /\ \A id \in inbox : Begun(id)
    /\ \A p \in Scripts : s[p].job \in Alerts => Begun(s[p].job)

\* A file is named after the alert it is of, and an alert has one file at most.
FilesAreNamed ==
    /\ \A f \in DOMAIN spool : <<f, spool[f]>> \in named
    /\ \A f \in DOMAIN tmp : <<f, tmp[f]>> \in named
    /\ \A x, y \in named : x[2] = y[2] => x = y

RunIsNamed(r) ==
    /\ r.pc = "move" => <<r.file, r.job>> \in named
    /\ \A f \in r.list : \E x \in named : x[1] = f
    /\ r.pc \in {"read", "hand"} => \A id \in r.text : \E f \in InHand(r) : <<f, id>> \in named
    /\ Unnamed(r) => \A x \in named : x[2] # r.job

\* No two runs are about one alert.
RunsDiffer ==
    \A p \in Scripts : \A q \in Scripts \ {p} : s[p].job \in Alerts => s[q].job # s[p].job

AllNamed ==
    QueueInOrder /\ OnlyBegun /\ FilesAreNamed /\ RunsDiffer /\ \A p \in Scripts : RunIsNamed(s[p])

\* A .tmp file takes the place of no file that is there, and of none that a run has listed, but
\* for mails of one name.
TmpIsNew ==
    \A f \in DOMAIN tmp :
        tmp[f] \in Clashed \/ (f \notin DOMAIN spool /\ \A p \in Scripts : f \notin s[p].list)

\* What is in a file that a run has in hand is what it has read; once it was handed over, what
\* got through.
HandedOver(r) ==
    /\ \A f \in InHand(r) \cap DOMAIN spool :
          spool[f] \in Clashed \cup (IF r.pc \in Noting THEN inbox ELSE r.text)
    /\ r.pc \in {"open", "write"} => r.id \in inbox \cup Clashed

\* What a run says of its alert is so.
SaysWhatItDid(r) ==
    /\ r.mail = "OK" => r.job \in inbox
    /\ r.banner => r.job \in shown

\* What is written down as delivered was delivered.
NotedArrived ==
    (ids \ Absent) \cup (taken \ Absent) \cup late \cup marked \subseteq inbox \cup shown \cup Clashed

AllArrived ==
    TmpIsNew /\ NotedArrived /\ \A p \in Scripts : HandedOver(s[p]) /\ SaysWhatItDid(s[p])

\* Only the worker raises alerts while the collector lives, one at a time; whoever is past the
\* lock has it.
OneRaises ==
    /\ worker # "running" => s["worker"].pc = "none"
    /\ deaths = 0 => /\ \A p \in Scripts \ {"worker"} : s[p].job \notin Alerts
                     /\ s["orphan"].pc = "none"

PastLock == {"list", "deliver", "move", "count", "oldest", "drop", "banner"} \cup Listing \cup Placing
LockIsHeld == ~unlocked => \A p \in Scripts : s[p].pc \in PastLock => lock = p

\* As long as runs are one after the other, each file has a number of its own, higher than the
\* ones before it.
OneAfterOther == ~unlocked \/ deaths = 0

NumbersGrow ==
    OneAfterOther =>
        /\ \A p \in Scripts : \A q \in Scripts \ {p} :
              s[p].pc \in Placing => s[q].pc \notin Placing
        /\ \A x, y \in named : x[1][1] = y[1][1] => x = y
        /\ \A p \in Scripts : s[p].pc \in Numbering => \A x \in named : x[1][1] < s[p].number
        /\ \A p \in Scripts : s[p].pc = "tmp" => counter = s[p].number
        /\ (\E p \in Scripts : s[p].pc = "number") \/ \A x \in named : x[1][1] <= counter

Serial == OneRaises /\ LockIsHeld /\ NumbersGrow

\* Oldest first, while the collector lives.
Ascending == \A x, y \in named : x[2] < y[2] => x[1][1] < y[1][1]

WaitingIsLater == \A f \in DOMAIN spool : spool[f] \in inbox \/ \A early \in inbox : early < spool[f]

\* The worker's alert, until its file is in its place, is the newest.
Pending(r) == Unnamed(r) \/ r.pc = "move"
OwnIsNewest(r) ==
    Pending(r) =>
        /\ \A x \in named : x[2] < r.job \/ (r.pc = "move" /\ x[2] = r.job)
        /\ \A early \in inbox : early <= r.job
        /\ r.pc \in Listing => DOMAIN spool \subseteq r.list
        /\ r.pc = "deliver" => DOMAIN spool = {}

\* What a run has read is older than what it has not read, and what it has listed older than
\* what came since; and it is not lost.
ListIsOldest(r) ==
    /\ \A f \in r.list, g \in DOMAIN spool \ r.list : Before(f, g)
    /\ \A f \in InHand(r), g \in r.unread : Before(f, g)
    /\ r.pc \in {"read", "hand"} => r.text \subseteq inbox \cup dropped \cup {spool[f] : f \in DOMAIN spool}

Orderly ==
    Ascending /\ WaitingIsLater /\ \A p \in Scripts : OwnIsNewest(s[p]) /\ ListIsOldest(s[p])

InOrder == deaths = 0 => Orderly

SpoolInv == SpoolShape /\ AllNamed /\ AllArrived /\ Serial /\ InOrder

-----------------------------------------------------------------------------
(***************************************************************************)
(* Numbers, names and lists                                                *)
(***************************************************************************)
\* Alerts are numbers from 1 on, and what a job is otherwise is none of them.
LEMMA AlertsAreNumbers ==
    /\ Len(Severity) \in Nat /\ Alerts \subseteq Nat \ {0}
    /\ Flush \notin Alerts /\ Nothing \notin Alerts /\ Flush \in Int /\ Nothing \in Int
    /\ Flush # Nothing
<1>1. Len(Severity) \in Nat
  BY SpoolAssumption, LenProperties
<1> QED
  BY <1>1 DEF Alerts, Flush, Nothing

\* The names are pairs of numbers.
LEMMA NamesAreNumbers ==
    /\ NoName \in Names
    /\ \A f \in Names : f[1] \in Nat /\ f[2] \in Nat /\ f = <<f[1], f[2]>>
BY SpoolAssumption DEF Names, NoName

\* Of a set of names there is an oldest.
LEMMA OldestIs ==
    ASSUME NEW S \in SUBSET Names, S # {}
    PROVE  Oldest(S) \in S /\ \A g \in S : g = Oldest(S) \/ Before(Oldest(S), g)
<1> DEFINE numbers == {f[1] : f \in S}
<1>1. numbers \in SUBSET Nat /\ numbers # {}
  BY NamesAreNumbers
<1>2. PICK n \in numbers : \A k \in numbers : n <= k
  <2> HIDE DEF numbers
  <2> QED
    BY <1>1, LeastExists
<1> DEFINE least == {f \in S : f[1] = n}
           seconds == {f[2] : f \in least}
<1>3. seconds \in SUBSET Nat /\ seconds # {}
  BY NamesAreNumbers
<1>4. PICK m \in seconds : \A k \in seconds : m <= k
  <2> HIDE DEF seconds
  <2> QED
    BY <1>3, LeastExists
<1>5. PICK f \in S : f[1] = n /\ f[2] = m
  OBVIOUS
<1>6. \A g \in S : f = g \/ Before(f, g)
  <2> TAKE g \in S
  <2>1. g[1] \in numbers /\ g[1] \in Nat /\ g[2] \in Nat /\ n \in Nat /\ m \in Nat /\ n <= g[1]
    BY <1>1, <1>2, <1>3, <1>4, NamesAreNumbers
  <2>2. g[1] = n => m <= g[2]
    BY <1>4
  <2>3. f = <<f[1], f[2]>> /\ g = <<g[1], g[2]>>
    BY NamesAreNumbers
  <2> HIDE DEF numbers, least, seconds
  <2>4. CASE g[1] = n /\ g[2] = m
    BY <1>5, <2>3, <2>4
  <2>5. CASE ~(g[1] = n /\ g[2] = m)
    BY <1>5, <2>1, <2>2, <2>5 DEF Before
  <2> QED
    BY <2>4, <2>5
<1>7. \E h \in S : \A g \in S : h = g \/ Before(h, g)
  BY <1>6
<1> QED
  BY <1>7 DEF Oldest

\* Of two names only one can be before the other.
LEMMA BeforeIs ==
    ASSUME NEW f \in Names, NEW g \in Names, Before(f, g)
    PROVE  ~Before(g, f) /\ f # g /\ f[1] <= g[1]
<1>1. f[1] \in Nat /\ f[2] \in Nat /\ g[1] \in Nat /\ g[2] \in Nat
  BY NamesAreNumbers
<1> QED
  BY <1>1 DEF Before

-----------------------------------------------------------------------------
(***************************************************************************)
(* What each step of a run of the script makes of it                       *)
(***************************************************************************)
\* Only run p moved, and it is r now.
Moved(p, r) == s' \in [Scripts -> Runs] /\ s'[p] = r /\ \A q \in Scripts \ {p} : s'[q] = s[q]

\* Two runs that are about the same alert and have told the same about it.
Alike(a, b) == b.job = a.job /\ b.mail = a.mail /\ b.banner = a.banner

\* Two runs that have listed and read the same.
SameList(a, b) == b.list = a.list /\ b.unread = a.unread /\ b.text = a.text /\ b.digest = a.digest

\* A run that has no list.
Emptied(r) == r.list = {} /\ r.unread = {} /\ r.text = {}

\* A run that moves is a run.
LEMMA MoveIs ==
    ASSUME s \in [Scripts -> Runs], NEW p \in Scripts, NEW r \in Runs, Move(p, r)
    PROVE  Moved(p, r)
BY DEF Move, Moved

\* A run that goes on changes its place only.
LEMMA GoOnIs ==
    ASSUME s \in [Scripts -> Runs], NEW p \in Scripts, NEW pc, GoOn(p, pc)
    PROVE  Move(p, [s[p] EXCEPT !.pc = pc])
BY DEF Move, GoOn

\* What there is of a run, and of the spool.
LEMMA RunIs ==
    ASSUME SpoolShape, NEW p \in Scripts
    PROVE  /\ s[p] \in Runs /\ s \in [Scripts -> Runs] /\ RunInOrder(s[p])
           /\ s[p].list \in SUBSET Names /\ s[p].unread \in SUBSET Names /\ s[p].file \in Names
           /\ s[p].text \subseteq Alerts /\ s[p].digest \in BOOLEAN
           /\ s[p].elapsed \in Nat /\ s[p].number \in Nat
           /\ s[p].job \in Jobs \cup {Nothing} /\ s[p].id \in Alerts \cup {Nothing}
           /\ s[p].banner \in BOOLEAN /\ s[p].mail \in {"FAIL", "OK", "SPOOLED", "SKIP"}
           /\ s[p].fd \in {"none", "ids", "taken", "unlinked"}
BY DEF SpoolShape, SpoolTypeOK, Runs

\* The spool and its .tmp files have names of files, and alerts in them.
LEMMA SpoolIs ==
    ASSUME SpoolShape
    PROVE  /\ DOMAIN spool \in SUBSET Names /\ \A f \in DOMAIN spool : spool[f] \in Alerts
           /\ DOMAIN tmp \in SUBSET Names /\ \A f \in DOMAIN tmp : tmp[f] \in Alerts
           /\ \A f : Content(f) \subseteq Alerts
BY DEF SpoolShape, SpoolTypeOK, Content

\* deliver_mail answers yes or no, after a while; what it says was handed over was.
LEMMA OutcomesAre ==
    ASSUME NEW o \in Outcomes
    PROVE  o.ok \in BOOLEAN /\ o.got \in BOOLEAN /\ o.wait \in Nat /\ (o.ok => o.got)
<1>0. AgentWait \in Nat
  BY DEF AgentWait
<1>1. CASE seat = "idle"
  <2>1. o = [ok |-> TRUE, got |-> TRUE, wait |-> 0]
    BY <1>1 DEF Outcomes
  <2> QED
    BY <2>1
<1>2. CASE seat = "busy"
  <2>1. \/ o = [ok |-> TRUE, got |-> TRUE, wait |-> AgentWait]
        \/ o = [ok |-> FALSE, got |-> FALSE, wait |-> AgentWait]
    BY <1>2 DEF Outcomes
  <2>2. CASE o = [ok |-> TRUE, got |-> TRUE, wait |-> AgentWait]
    BY <1>0, <2>2
  <2>3. CASE o = [ok |-> FALSE, got |-> FALSE, wait |-> AgentWait]
    BY <1>0, <2>3
  <2> QED
    BY <2>1, <2>2, <2>3
<1>3. CASE seat \notin {"idle", "busy"}
  <2>1. PICK got \in BOOLEAN : o = [ok |-> FALSE, got |-> got, wait |-> 0]
    BY <1>3 DEF Outcomes
  <2> QED
    BY <2>1
<1> QED
  BY <1>1, <1>2, <1>3

\* A run that has not begun.
LEMMA GoneIs ==
    /\ Gone \in Runs /\ RunInOrder(Gone) /\ Emptied(Gone) /\ Gone.pc = "none"
    /\ Gone.job = Nothing /\ Gone.mail = "FAIL" /\ ~Gone.banner /\ Gone.fd = "none"
BY NamesAreNumbers DEF Gone, Runs, Emptied, RunInOrder, Listing, Noting, Own, Placing, Numbering

\* A run that is done with the spool goes on with its own alert, or exits.
LEMMA ThroughIs ==
    ASSUME NEW r \in Runs, r.job \in Jobs, NEW pc, pc \in {AfterFlush(r), AfterFailure(r)}
    PROVE  /\ Through(r, pc) \in Runs /\ RunInOrder(Through(r, pc)) /\ Emptied(Through(r, pc))
           /\ Alike(r, Through(r, pc)) /\ Through(r, pc).pc = pc /\ Through(r, pc).fd = r.fd
           /\ pc \in {"exit", "deliver", "seq"}
<1>1. pc \in {"exit", "deliver", "seq"} /\ (pc # "exit" => r.job \in Alerts)
  BY DEF AfterFlush, AfterFailure, Jobs
<1> DEFINE t == Through(r, pc)
<1>2. t \in Runs /\ t.pc = pc /\ t.job = r.job /\ t.fd = r.fd /\ Emptied(t) /\ Alike(r, t)
  BY <1>1, NamesAreNumbers DEF Through, Runs, Emptied, Alike
<1> HIDE DEF t
<1>3. RunInOrder(t)
  BY <1>1, <1>2 DEF Emptied, RunInOrder, Listing, Noting, Own, Placing, Numbering
<1> QED
  BY <1>1, <1>2, <1>3 DEF t

\* The duplicate check: the run is over, or goes on to the lock.
LEMMA DedupeMoves ==
    ASSUME SpoolShape, NEW p \in Scripts, Dedupe(p)
    PROVE  \E r \in Runs : /\ Moved(p, r) /\ RunInOrder(r) /\ Emptied(r)
                           /\ r.job = s[p].job /\ r.fd = s[p].fd
                           /\ r.banner = s[p].banner /\ r.mail \in {s[p].mail, "SKIP"}
                           /\ r.pc \in {"exit", "lock"}
<1>0. /\ s[p] \in Runs /\ s \in [Scripts -> Runs] /\ RunInOrder(s[p]) /\ s[p].pc = "dedupe"
  BY RunIs DEF Dedupe, AtStep
<1>1. PICK r \in {[s[p] EXCEPT !.pc = "exit", !.mail = "SKIP"], [s[p] EXCEPT !.pc = "lock"]} : Move(p, r)
  BY <1>0, GoOnIs DEF Dedupe
<1>2. r \in Runs /\ r.pc \in {"exit", "lock"} /\ r.mail \in {s[p].mail, "SKIP"} /\ r.job = s[p].job
      /\ r.fd = s[p].fd /\ r.banner = s[p].banner /\ SameList(s[p], r)
  <2>1. CASE r = [s[p] EXCEPT !.pc = "exit", !.mail = "SKIP"]
    <3>1. r \in Runs
      BY <1>0, <2>1 DEF Runs
    <3> QED
      BY <1>0, <2>1, <3>1 DEF Runs, SameList
  <2>2. CASE r = [s[p] EXCEPT !.pc = "lock"]
    <3>1. r \in Runs
      BY <1>0, <2>2 DEF Runs
    <3> QED
      BY <1>0, <2>2, <3>1 DEF Runs, SameList
  <2> QED
    BY <1>1, <2>1, <2>2
<1>3. RunInOrder(r) /\ Emptied(r)
  BY <1>0, <1>2 DEF SameList, Emptied, RunInOrder, Listing, Noting, Own, Placing, Numbering
<1> QED
  BY <1>0, <1>1, <1>2, <1>3, MoveIs

\* take_lock: the run goes on to the spool, with the lock or without.
LEMMA TakeLockMoves ==
    ASSUME SpoolShape, NEW p \in Scripts, TakeLock(p)
    PROVE  \E r \in Runs : /\ Moved(p, r) /\ RunInOrder(r) /\ Emptied(r) /\ Alike(s[p], r)
                           /\ r.fd = s[p].fd /\ r.pc = "list"
<1>0. /\ s[p] \in Runs /\ s \in [Scripts -> Runs] /\ RunInOrder(s[p]) /\ s[p].pc = "lock"
      /\ s[p].elapsed \in Nat
  BY RunIs DEF TakeLock, AtStep
<1>1. PICK w \in Nat : Move(p, [s[p] EXCEPT !.pc = "list", !.elapsed = w])
  <2>1. CASE Move(p, [s[p] EXCEPT !.pc = "list", !.elapsed = @ + LockWait])
    <3>1. s[p].elapsed + LockWait \in Nat
      BY <1>0 DEF LockWait
    <3> QED
      BY <2>1, <3>1
  <2>2. CASE GoOn(p, "list")
    <3>1. [s[p] EXCEPT !.pc = "list"] = [s[p] EXCEPT !.pc = "list", !.elapsed = s[p].elapsed]
      BY <1>0 DEF Runs
    <3>2. Move(p, [s[p] EXCEPT !.pc = "list"])
      BY <1>0, <2>2, GoOnIs
    <3> QED
      BY <1>0, <3>1, <3>2
  <2> QED
    BY <2>1, <2>2 DEF TakeLock
<1> DEFINE r == [s[p] EXCEPT !.pc = "list", !.elapsed = w]
<1>2. r \in Runs /\ r.pc = "list" /\ r.fd = s[p].fd /\ SameList(s[p], r) /\ Alike(s[p], r)
  BY <1>0 DEF Runs, SameList, Alike
<1>3. Moved(p, r)
  BY <1>0, <1>1, <1>2, MoveIs
<1> HIDE DEF r
<1>4. RunInOrder(r) /\ Emptied(r)
  BY <1>0, <1>2 DEF SameList, Alike, Emptied, RunInOrder, Listing, Noting, Own, Placing, Numbering
<1> QED
  BY <1>2, <1>3, <1>4

\* flush_spool lists the spool: there is something to try, or the run's own mail is next.
LEMMA ListSpoolMoves ==
    ASSUME SpoolShape, NEW p \in Scripts, ListSpool(p)
    PROVE  \E r \in Runs :
              /\ Moved(p, r) /\ RunInOrder(r) /\ Alike(s[p], r) /\ r.fd = s[p].fd
              /\ \/ DOMAIN spool = {} /\ Emptied(r) /\ r.pc = AfterFlush(s[p])
                 \/ /\ r.pc = "read" /\ r.list = DOMAIN spool /\ r.unread = DOMAIN spool
                    /\ r.text = {}
<1>0. /\ s[p] \in Runs /\ s \in [Scripts -> Runs] /\ RunInOrder(s[p]) /\ s[p].pc = "list"
      /\ s[p].job \in Jobs /\ s[p].text = {}
  BY RunIs DEF ListSpool, AtStep, RunInOrder, Listing, Noting
<1>1. CASE DOMAIN spool = {}
  <2>1. Move(p, Through(s[p], AfterFlush(s[p])))
    BY <1>1 DEF ListSpool
  <2> QED
    BY <1>0, <1>1, <2>1, ThroughIs, MoveIs
<1>2. CASE DOMAIN spool # {}
  <2> DEFINE d == Cardinality(DOMAIN spool) > DIGEST_OVER
             r == [s[p] EXCEPT !.pc = "read", !.list = DOMAIN spool, !.unread = DOMAIN spool,
                               !.digest = d]
  <2>1. Move(p, r)
    BY <1>2 DEF ListSpool
  <2>2. d \in BOOLEAN /\ DOMAIN spool \in SUBSET Names
    BY SpoolIs
  <2> HIDE DEF d
  <2>3. /\ r \in Runs /\ r.pc = "read" /\ r.list = DOMAIN spool /\ r.unread = DOMAIN spool
        /\ r.text = {} /\ r.fd = s[p].fd /\ Alike(s[p], r) /\ r.job = s[p].job
    BY <1>0, <2>2 DEF Runs, Alike
  <2>4. Moved(p, r)
    BY <1>0, <2>1, <2>3, MoveIs
  <2> HIDE DEF r
  <2>5. RunInOrder(r)
    BY <1>0, <1>2, <2>3 DEF RunInOrder, Listing, Noting, Own, Placing, Numbering
  <2> QED
    BY <2>3, <2>4, <2>5
<1> QED
  BY <1>1, <1>2

\* The oldest file that was not read yet is read.
LEMMA ReadFileMoves ==
    ASSUME SpoolShape, NEW p \in Scripts, ReadFile(p)
    PROVE  \E r \in Runs, f \in s[p].unread :
              /\ Moved(p, r) /\ RunInOrder(r) /\ Alike(s[p], r) /\ r.fd = s[p].fd
              /\ r.pc \in {"read", "hand"} /\ r.list = s[p].list /\ r.unread = s[p].unread \ {f}
              /\ InHand(r) = InHand(s[p]) \cup {f} /\ r.text = s[p].text \cup Content(f)
              /\ \A g \in s[p].unread : g = f \/ Before(f, g)
<1>0. /\ s[p] \in Runs /\ s \in [Scripts -> Runs] /\ RunInOrder(s[p]) /\ s[p].pc = "read"
      /\ s[p].unread \in SUBSET Names /\ s[p].unread # {} /\ s[p].unread \subseteq s[p].list
      /\ s[p].digest \in BOOLEAN /\ s[p].job \in Jobs /\ s[p].list # {}
  BY RunIs DEF ReadFile, AtStep, RunInOrder, Listing
<1> DEFINE f == Oldest(s[p].unread)
           rest == s[p].unread \ {f}
           pc == IF s[p].digest /\ rest # {} THEN "read" ELSE "hand"
           more == Content(f)
           r == [s[p] EXCEPT !.pc = pc, !.file = f, !.unread = rest, !.text = @ \cup more]
<1>1. f \in s[p].unread /\ f \in Names /\ \A g \in s[p].unread : g = f \/ Before(f, g)
  BY <1>0, OldestIs
<1>2. pc \in {"read", "hand"} /\ (pc = "read" => s[p].digest /\ rest # {})
      /\ (pc = "hand" => ~s[p].digest \/ rest = {})
  OBVIOUS
<1>3. Move(p, r) /\ more \subseteq Alerts
  BY SpoolIs DEF ReadFile
<1>4. rest = s[p].unread \ {f} /\ rest \in SUBSET Names
  BY <1>0
<1> HIDE DEF f, rest, pc, more
<1>5. /\ r \in Runs /\ r.pc = pc /\ r.list = s[p].list /\ r.unread = rest /\ r.file = f
      /\ r.text = s[p].text \cup more /\ r.fd = s[p].fd /\ Alike(s[p], r) /\ r.job = s[p].job
      /\ r.digest = s[p].digest
  BY <1>0, <1>1, <1>2, <1>3, <1>4 DEF Runs, Alike
<1>6. Moved(p, r)
  BY <1>0, <1>3, <1>5, MoveIs
<1> HIDE DEF r
<1>7. InHand(r) = InHand(s[p]) \cup {f}
  BY <1>0, <1>1, <1>4, <1>5 DEF InHand
<1>8. ~s[p].digest => InHand(s[p]) = {}
  BY <1>0 DEF RunInOrder, InHand
<1>9. RunInOrder(r)
  BY <1>0, <1>1, <1>2, <1>4, <1>5, <1>7, <1>8 DEF RunInOrder, Listing, Noting, Own, Placing, Numbering
<1> QED
  BY <1>1, <1>2, <1>4, <1>5, <1>6, <1>7, <1>9 DEF more

\* What the run has in hand is handed over: it is noted next, or the flush is over.
LEMMA HandOverMoves ==
    ASSUME SpoolShape, NEW p \in Scripts, HandOver(p)
    PROVE  \E r \in Runs, got \in BOOLEAN :
              /\ Moved(p, r) /\ RunInOrder(r) /\ Alike(s[p], r) /\ r.fd = s[p].fd
              /\ inbox' = IF got THEN inbox \cup s[p].text ELSE inbox
              /\ \/ got /\ r.pc = "note" /\ SameList(s[p], r)
                 \/ Emptied(r) /\ r.pc = AfterFailure(s[p])
<1>0. /\ s[p] \in Runs /\ s \in [Scripts -> Runs] /\ RunInOrder(s[p]) /\ s[p].pc = "hand"
      /\ s[p].list \in SUBSET Names /\ s[p].list # {} /\ s[p].digest \in BOOLEAN
      /\ s[p].file \in Names /\ s[p].elapsed \in Nat /\ s[p].job \in Jobs
  BY RunIs DEF HandOver, AtStep, RunInOrder, Listing
<1>1. PICK o \in Outcomes : /\ Move(p, Tried(s[p], o))
                            /\ inbox' = IF o.got THEN inbox \cup s[p].text ELSE inbox
  BY DEF HandOver
<1>2. o.ok \in BOOLEAN /\ o.got \in BOOLEAN /\ o.wait \in Nat /\ (o.ok => o.got)
  BY OutcomesAre
<1> DEFINE w == s[p].elapsed + o.wait
<1>3. w \in Nat
  BY <1>0, <1>2
<1>4. CASE o.ok
  <2> DEFINE f == IF s[p].digest THEN Oldest(s[p].list) ELSE s[p].file
             r == [s[p] EXCEPT !.pc = "note", !.elapsed = w, !.file = f]
  <2>1. Move(p, r)
    BY <1>1, <1>4 DEF Tried
  <2>2. Oldest(s[p].list) \in s[p].list
    BY <1>0, OldestIs
  <2>3. f \in InHand(s[p]) /\ f \in Names /\ (~s[p].digest => f = s[p].file)
    BY <1>0, <2>2 DEF RunInOrder, InHand
  <2> HIDE DEF f, w
  <2>4. /\ r \in Runs /\ r.pc = "note" /\ r.file = f /\ r.fd = s[p].fd /\ Alike(s[p], r)
        /\ SameList(s[p], r) /\ r.job = s[p].job
    BY <1>0, <1>3, <2>3 DEF Runs, Alike, SameList
  <2>5. Moved(p, r)
    BY <1>0, <2>1, <2>4, MoveIs
  <2> HIDE DEF r
  <2>6. InHand(r) = InHand(s[p])
    BY <2>4 DEF InHand, SameList
  <2>7. RunInOrder(r)
    BY <1>0, <2>3, <2>4, <2>6 DEF SameList, RunInOrder, Listing, Noting, Own, Placing, Numbering
  <2> QED
    BY <1>1, <1>2, <1>4, <2>4, <2>5, <2>7
<1>5. CASE ~o.ok
  <2> DEFINE t == Through(s[p], AfterFailure(s[p]))
             r == [t EXCEPT !.elapsed = w]
  <2>1. /\ t \in Runs /\ RunInOrder(t) /\ Emptied(t) /\ Alike(s[p], t) /\ t.fd = s[p].fd
        /\ t.pc = AfterFailure(s[p])
    BY <1>0, ThroughIs
  <2>2. t.elapsed = s[p].elapsed
    BY <1>0 DEF Through, Runs
  <2> HIDE DEF t, w
  <2>3. /\ r \in Runs /\ Emptied(r) /\ Alike(t, r) /\ r.fd = t.fd /\ r.pc = t.pc
        /\ r.job = t.job /\ SameList(t, r) /\ r.id = t.id /\ r.file = t.file
    BY <1>3, <2>1 DEF Runs, Emptied, Alike, SameList
  <2>4. InHand(r) = InHand(t)
    BY <2>3 DEF InHand, SameList
  <2>5. RunInOrder(r)
    BY <2>1, <2>3, <2>4 DEF SameList, RunInOrder
  <2>6. Move(p, r)
    BY <1>1, <1>5, <2>2 DEF Tried, t, w
  <2>7. Moved(p, r)
    BY <1>0, <2>3, <2>6, MoveIs
  <2> HIDE DEF r
  <2> QED
    BY <1>1, <1>2, <2>1, <2>3, <2>5, <2>7 DEF Alike
<1> QED
  BY <1>4, <1>5

\* mark_delivered: the id is read, if the mail's file is still there.
LEMMA NoteIdMoves ==
    ASSUME SpoolShape, NEW p \in Scripts, NoteId(p)
    PROVE  \E r \in Runs :
              /\ Moved(p, r) /\ RunInOrder(r) /\ Alike(s[p], r) /\ r.fd = s[p].fd
              /\ SameList(s[p], r) /\ r.file = s[p].file
              /\ IF s[p].file \in DOMAIN spool THEN r.pc = "open" /\ r.id = spool[s[p].file]
                                               ELSE r.pc = "remove"
<1>0. s[p] \in Runs /\ s \in [Scripts -> Runs] /\ RunInOrder(s[p]) /\ s[p].pc = "note"
  BY RunIs DEF NoteId, AtStep
<1>1. PICK r \in Runs :
         /\ Move(p, r) /\ Alike(s[p], r) /\ r.fd = s[p].fd /\ SameList(s[p], r)
         /\ r.file = s[p].file
         /\ IF s[p].file \in DOMAIN spool THEN r.pc = "open" /\ r.id = spool[s[p].file]
                                          ELSE r.pc = "remove"
  <2>1. CASE s[p].file \in DOMAIN spool
    <3> DEFINE id == spool[s[p].file]
               r == [s[p] EXCEPT !.pc = "open", !.id = id]
    <3>1. Move(p, r) /\ id \in Alerts
      BY <2>1, SpoolIs DEF NoteId
    <3> HIDE DEF id
    <3>2. /\ r \in Runs /\ r.pc = "open" /\ r.id = id /\ r.fd = s[p].fd /\ r.file = s[p].file
          /\ Alike(s[p], r) /\ SameList(s[p], r)
      BY <1>0, <3>1 DEF Runs, Alike, SameList
    <3> HIDE DEF r
    <3> QED
      BY <2>1, <3>1, <3>2 DEF id
  <2>2. CASE s[p].file \notin DOMAIN spool
    <3> DEFINE r == [s[p] EXCEPT !.pc = "remove"]
    <3>1. Move(p, r)
      BY <2>2 DEF NoteId
    <3>2. /\ r \in Runs /\ r.pc = "remove" /\ r.fd = s[p].fd /\ r.file = s[p].file
          /\ Alike(s[p], r) /\ SameList(s[p], r)
      BY <1>0 DEF Runs, Alike, SameList
    <3> HIDE DEF r
    <3> QED
      BY <2>2, <3>1, <3>2
  <2> QED
    BY <2>1, <2>2
<1>2. Moved(p, r)
  BY <1>0, <1>1, MoveIs
<1>3. InHand(r) = InHand(s[p]) /\ (r.pc = "open" => r.id \in Alerts)
  BY <1>1, SpoolIs DEF InHand, SameList
<1>4. RunInOrder(r)
  BY <1>0, <1>1, <1>3 DEF Alike, SameList, RunInOrder, Listing, Noting, Own, Placing, Numbering
<1> QED
  BY <1>1, <1>2, <1>4

\* The file of ids is open.
LEMMA OpenIdsMoves ==
    ASSUME SpoolShape, NEW p \in Scripts, OpenIds(p)
    PROVE  \E r \in Runs :
              /\ Moved(p, r) /\ RunInOrder(r) /\ Alike(s[p], r) /\ SameList(s[p], r)
              /\ r.file = s[p].file /\ r.id = s[p].id /\ r.fd = "ids" /\ r.pc = "write"
<1>0. s[p] \in Runs /\ s \in [Scripts -> Runs] /\ RunInOrder(s[p]) /\ s[p].pc = "open"
  BY RunIs DEF OpenIds, AtStep
<1> DEFINE r == [s[p] EXCEPT !.pc = "write", !.fd = "ids"]
<1>1. /\ r \in Runs /\ Alike(s[p], r) /\ SameList(s[p], r) /\ r.file = s[p].file
      /\ r.id = s[p].id /\ r.fd = "ids" /\ r.pc = "write"
  BY <1>0 DEF Runs, Alike, SameList
<1>2. Moved(p, r)
  BY <1>0, <1>1, MoveIs DEF OpenIds
<1> HIDE DEF r
<1>3. InHand(r) = InHand(s[p])
  BY <1>1 DEF InHand, SameList
<1>4. RunInOrder(r)
  BY <1>0, <1>1, <1>3 DEF Alike, SameList, RunInOrder, Listing, Noting, Own, Placing, Numbering
<1> QED
  BY <1>1, <1>2, <1>4

\* The id is written.
LEMMA WriteIdMoves ==
    ASSUME SpoolShape, NEW p \in Scripts, WriteId(p)
    PROVE  \E r \in Runs :
              /\ Moved(p, r) /\ RunInOrder(r) /\ Alike(s[p], r) /\ SameList(s[p], r)
              /\ r.file = s[p].file /\ r.fd = "none" /\ r.pc = "remove"
<1>0. s[p] \in Runs /\ s \in [Scripts -> Runs] /\ RunInOrder(s[p]) /\ s[p].pc = "write"
  BY RunIs DEF WriteId, AtStep
<1> DEFINE r == [s[p] EXCEPT !.pc = "remove", !.fd = "none", !.id = Nothing]
<1>1. /\ r \in Runs /\ Alike(s[p], r) /\ SameList(s[p], r) /\ r.file = s[p].file
      /\ r.fd = "none" /\ r.pc = "remove"
  BY <1>0 DEF Runs, Alike, SameList
<1>2. Moved(p, r)
  BY <1>0, <1>1, MoveIs DEF WriteId
<1> HIDE DEF r
<1>3. InHand(r) = InHand(s[p])
  BY <1>1 DEF InHand, SameList
<1>4. RunInOrder(r)
  BY <1>0, <1>1, <1>3 DEF Alike, SameList, RunInOrder, Listing, Noting, Own, Placing, Numbering
<1> QED
  BY <1>1, <1>2, <1>4

\* The file is removed, and the next one is looked at.
LEMMA RemoveFileMoves ==
    ASSUME SpoolShape, NEW p \in Scripts, RemoveFile(p)
    PROVE  /\ s[p].file \in InHand(s[p])
           /\ \E r \in Runs :
              /\ Moved(p, r) /\ RunInOrder(r) /\ Alike(s[p], r) /\ r.fd = s[p].fd
              /\ r.list = s[p].list \ {s[p].file} /\ r.unread \subseteq s[p].unread
              /\ InHand(r) \subseteq InHand(s[p]) \ {s[p].file}
              /\ \/ r.list = {} /\ Emptied(r) /\ r.pc = AfterFlush(s[p])
                 \/ r.pc = "note" /\ r.unread = s[p].unread
                 \/ r.pc = "read" /\ r.text = {} /\ r.unread = r.list /\ r.unread = s[p].unread
<1>0. /\ s[p] \in Runs /\ s \in [Scripts -> Runs] /\ RunInOrder(s[p]) /\ s[p].pc = "remove"
      /\ s[p].job \in Jobs /\ s[p].list \in SUBSET Names /\ s[p].file \in InHand(s[p])
      /\ s[p].digest \in BOOLEAN
  BY RunIs DEF RemoveFile, AtStep, RunInOrder, Noting
<1> DEFINE rest == s[p].list \ {s[p].file}
<1>1. Move(p, NextFile(s[p], rest)) /\ rest \in SUBSET Names
  BY <1>0 DEF RemoveFile
<1>2. CASE rest = {}
  <2> DEFINE r == Through(s[p], AfterFlush(s[p]))
  <2>1. /\ r \in Runs /\ RunInOrder(r) /\ Emptied(r) /\ Alike(s[p], r) /\ r.fd = s[p].fd
        /\ r.pc = AfterFlush(s[p])
    BY <1>0, ThroughIs
  <2>2. Moved(p, r)
    BY <1>0, <1>1, <1>2, <2>1, MoveIs DEF NextFile
  <2> HIDE DEF r
  <2>3. r.list = {} /\ r.unread = {} /\ InHand(r) = {}
    BY <2>1 DEF Emptied, InHand
  <2> QED
    BY <1>0, <1>2, <2>1, <2>2, <2>3
<1>3. CASE rest # {} /\ s[p].digest
  <2> DEFINE f == Oldest(rest)
             r == [s[p] EXCEPT !.pc = "note", !.list = rest, !.file = f]
  <2>1. f \in rest /\ f \in Names
    BY <1>1, <1>3, OldestIs
  <2>2. Move(p, r)
    BY <1>1, <1>3 DEF NextFile
  <2> HIDE DEF f, rest
  <2>3. /\ r \in Runs /\ Alike(s[p], r) /\ r.fd = s[p].fd /\ r.pc = "note" /\ r.list = rest
        /\ r.unread = s[p].unread /\ r.file = f /\ r.digest = s[p].digest /\ r.job = s[p].job
    BY <1>0, <1>1, <2>1 DEF Runs, Alike
  <2>4. Moved(p, r)
    BY <1>0, <2>2, <2>3, MoveIs
  <2> HIDE DEF r
  <2>5. s[p].unread = {}
    BY <1>0, <1>3 DEF RunInOrder, Noting
  <2>6. InHand(r) = rest /\ InHand(s[p]) = s[p].list
    BY <2>3, <2>5 DEF InHand
  <2>7. RunInOrder(r)
    BY <1>0, <1>3, <2>1, <2>3, <2>5, <2>6 DEF RunInOrder, Listing, Noting, Own, Placing, Numbering
  <2> QED
    BY <1>0, <2>3, <2>4, <2>6, <2>7 DEF rest
<1>4. CASE rest # {} /\ ~s[p].digest
  <2> DEFINE r == [s[p] EXCEPT !.pc = "read", !.list = rest, !.text = {}]
  <2>1. Move(p, r)
    BY <1>1, <1>4 DEF NextFile
  <2>2. rest = s[p].unread
    BY <1>0, <1>4 DEF RunInOrder, InHand, Noting
  <2> HIDE DEF rest
  <2>3. /\ r \in Runs /\ Alike(s[p], r) /\ r.fd = s[p].fd /\ r.pc = "read" /\ r.list = rest
        /\ r.unread = s[p].unread /\ r.text = {} /\ r.digest = s[p].digest /\ r.job = s[p].job
    BY <1>0, <1>1 DEF Runs, Alike
  <2>4. Moved(p, r)
    BY <1>0, <2>1, <2>3, MoveIs
  <2> HIDE DEF r
  <2>5. InHand(r) = {}
    BY <2>2, <2>3 DEF InHand
  <2>6. RunInOrder(r)
    BY <1>0, <1>4, <2>2, <2>3, <2>5 DEF RunInOrder, Listing, Noting, Own, Placing, Numbering
  <2> QED
    BY <1>0, <2>2, <2>3, <2>4, <2>5, <2>6 DEF rest
<1> QED
  BY <1>0, <1>2, <1>3, <1>4

\* The run's own mail is tried.
LEMMA DeliverMoves ==
    ASSUME SpoolShape, NEW p \in Scripts, Deliver(p)
    PROVE  \E r \in Runs, got \in BOOLEAN :
              /\ Moved(p, r) /\ RunInOrder(r) /\ Emptied(r) /\ r.job = s[p].job
              /\ r.banner = s[p].banner /\ r.fd = s[p].fd
              /\ inbox' = IF got THEN inbox \cup {s[p].job} ELSE inbox
              /\ (got /\ r.pc = "banner" /\ r.mail = "OK") \/ (r.pc = "seq" /\ r.mail = "FAIL")
<1>0. /\ s[p] \in Runs /\ s \in [Scripts -> Runs] /\ RunInOrder(s[p]) /\ s[p].pc = "deliver"
      /\ s[p].elapsed \in Nat
  BY RunIs DEF Deliver, AtStep
<1>1. PICK o \in Outcomes :
         /\ Move(p, [s[p] EXCEPT !.pc = IF o.ok THEN "banner" ELSE "seq",
                                 !.mail = IF o.ok THEN "OK" ELSE "FAIL",
                                 !.elapsed = @ + o.wait])
         /\ inbox' = IF o.got THEN inbox \cup {s[p].job} ELSE inbox
  BY DEF Deliver
<1> DEFINE pc == IF o.ok THEN "banner" ELSE "seq"
           mail == IF o.ok THEN "OK" ELSE "FAIL"
           w == s[p].elapsed + o.wait
           r == [s[p] EXCEPT !.pc = pc, !.mail = mail, !.elapsed = w]
<1>2. o.ok \in BOOLEAN /\ o.got \in BOOLEAN /\ o.wait \in Nat /\ (o.ok => o.got)
  BY OutcomesAre
<1>3. w \in Nat
  BY <1>0, <1>2
<1>4. (o.ok /\ pc = "banner" /\ mail = "OK") \/ (~o.ok /\ pc = "seq" /\ mail = "FAIL")
  OBVIOUS
<1>5. Move(p, r)
  BY <1>1
<1> HIDE DEF pc, mail, w
<1>6. pc \in {"banner", "seq"} /\ mail \in {"OK", "FAIL"}
  BY <1>4
<1>7. /\ r \in Runs /\ SameList(s[p], r) /\ r.job = s[p].job /\ r.banner = s[p].banner
      /\ r.fd = s[p].fd /\ r.pc = pc /\ r.mail = mail
  BY <1>0, <1>3, <1>6 DEF Runs, SameList
<1>8. Moved(p, r)
  BY <1>0, <1>5, <1>7, MoveIs
<1> HIDE DEF r
<1>9. RunInOrder(r) /\ Emptied(r)
  BY <1>0, <1>6, <1>7 DEF SameList, Emptied, RunInOrder, Listing, Noting, Own, Placing, Numbering
<1> QED
  BY <1>1, <1>2, <1>4, <1>7, <1>8, <1>9

\* Where a run adds its own mail to the spool.
AddSteps == Placing \cup {"move", "count", "oldest", "drop"}

\* Two runs that are about the same alert and have nothing else open.
SameRun(a, b) == b.job = a.job /\ b.banner = a.banner /\ b.fd = a.fd /\ SameList(a, b)

\* A run that adds its own mail has no list, and goes on with its own mail.
LEMMA AddingIs ==
    ASSUME SpoolShape, NEW p \in Scripts, s[p].pc \in AddSteps,
           NEW r \in Runs, Move(p, r), SameRun(s[p], r), r.pc \in AddSteps \cup {"banner"}
    PROVE  Moved(p, r) /\ RunInOrder(r) /\ Emptied(r)
<1>0. s[p] \in Runs /\ s \in [Scripts -> Runs] /\ RunInOrder(s[p])
  BY RunIs
<1>1. RunInOrder(r) /\ Emptied(r)
  BY <1>0 DEF SameRun, SameList, Emptied, RunInOrder, AddSteps, Listing, Noting, Own, Placing,
              Numbering
<1> QED
  BY <1>0, <1>1, MoveIs

\* spool_add gives the mail a number and a name, moves it to its place, and drops the oldest.
LEMMA AddStepMoves ==
    ASSUME SpoolShape, NEW p \in Scripts, AddStep(p)
    PROVE  \E r \in Runs :
              /\ Moved(p, r) /\ RunInOrder(r) /\ Emptied(r) /\ SameRun(s[p], r)
              /\ r.mail \in {s[p].mail, "SPOOLED"}
              /\ ReadSeq(p) => r.pc = "empty" /\ r.number = counter + 1
              /\ TruncateSeq(p) => r.pc = "number" /\ r.number = s[p].number
              /\ WriteSeq(p) => r.pc = "tmp" /\ r.number = s[p].number
              /\ WriteTmp(p) =>
                    /\ r.pc = "move" /\ r.file \in NamesOf(s[p].number) \cap Names
                    /\ tmp' = Put(tmp, r.file, s[p].job) /\ named' = named \cup {<<r.file, s[p].job>>}
              /\ MoveTmp(p) => r.pc \in {"count", "banner"}
              /\ CountSpool(p) => r.pc \in {"oldest", "banner"}
              /\ FindOldest(p) => r.pc \in {"drop", "banner"}
              /\ DropOldest(p) => r.pc = "count"
<1>0. /\ s[p] \in Runs /\ s \in [Scripts -> Runs] /\ s[p].number \in Nat /\ counter \in Nat
  BY RunIs DEF SpoolShape, SpoolTypeOK
<1> USE DEF SameRun, SameList, Runs, AddSteps, Placing, Numbering, AtStep
<1>1. CASE ReadSeq(p)
  <2> DEFINE n == counter + 1
             r == [s[p] EXCEPT !.pc = "empty", !.number = n]
  <2>1. n \in Nat /\ Move(p, r) /\ s[p].pc = "seq"
    BY <1>0, <1>1 DEF ReadSeq
  <2> HIDE DEF n
  <2>2. r \in Runs /\ SameRun(s[p], r) /\ r.pc = "empty" /\ r.number = n /\ r.mail = s[p].mail
    BY <1>0, <2>1
  <2>3. Moved(p, r) /\ RunInOrder(r) /\ Emptied(r)
    BY <2>1, <2>2, AddingIs
  <2> HIDE DEF r
  <2> QED
    BY <2>1, <2>2, <2>3 DEF n, TruncateSeq, WriteSeq, WriteTmp, MoveTmp, CountSpool, FindOldest, DropOldest
<1>2. CASE TruncateSeq(p)
  <2> DEFINE r == [s[p] EXCEPT !.pc = "number"]
  <2>1. Move(p, r) /\ s[p].pc = "empty"
    BY <1>0, <1>2, GoOnIs DEF TruncateSeq
  <2>2. r \in Runs /\ SameRun(s[p], r) /\ r.pc = "number" /\ r.number = s[p].number /\ r.mail = s[p].mail
    BY <1>0
  <2>3. Moved(p, r) /\ RunInOrder(r) /\ Emptied(r)
    BY <2>1, <2>2, AddingIs
  <2> HIDE DEF r
  <2> QED
    BY <2>1, <2>2, <2>3 DEF ReadSeq, WriteSeq, WriteTmp, MoveTmp, CountSpool, FindOldest, DropOldest
<1>3. CASE WriteSeq(p)
  <2> DEFINE r == [s[p] EXCEPT !.pc = "tmp"]
  <2>1. Move(p, r) /\ s[p].pc = "number"
    BY <1>0, <1>3, GoOnIs DEF WriteSeq
  <2>2. r \in Runs /\ SameRun(s[p], r) /\ r.pc = "tmp" /\ r.number = s[p].number /\ r.mail = s[p].mail
    BY <1>0
  <2>3. Moved(p, r) /\ RunInOrder(r) /\ Emptied(r)
    BY <2>1, <2>2, AddingIs
  <2> HIDE DEF r
  <2> QED
    BY <2>1, <2>2, <2>3 DEF ReadSeq, TruncateSeq, WriteTmp, MoveTmp, CountSpool, FindOldest, DropOldest
<1>4. CASE WriteTmp(p)
  <2>1. PICK f \in NamesOf(s[p].number) :
           /\ tmp' = Put(tmp, f, s[p].job) /\ named' = named \cup {<<f, s[p].job>>}
           /\ Move(p, [s[p] EXCEPT !.pc = "move", !.file = f, !.number = 0])
    BY <1>4 DEF WriteTmp
  <2>2. f \in Names
    BY <1>0, SpoolAssumption DEF NamesOf, Names
  <2> DEFINE r == [s[p] EXCEPT !.pc = "move", !.file = f, !.number = 0]
  <2>3. r \in Runs /\ SameRun(s[p], r) /\ r.pc = "move" /\ r.file = f /\ r.mail = s[p].mail
    BY <1>0, <2>2
  <2>4. s[p].pc = "tmp"
    BY <1>4 DEF WriteTmp
  <2>5. Moved(p, r) /\ RunInOrder(r) /\ Emptied(r)
    BY <2>1, <2>3, <2>4, AddingIs
  <2> HIDE DEF r
  <2> QED
    BY <2>1, <2>2, <2>3, <2>4, <2>5 DEF ReadSeq, TruncateSeq, WriteSeq, MoveTmp, CountSpool, FindOldest, DropOldest
<1>5. CASE MoveTmp(p)
  <2>1. PICK pc \in {"count", "banner"} : Move(p, [s[p] EXCEPT !.pc = pc, !.file = NoName])
    BY <1>5 DEF MoveTmp
  <2> DEFINE r == [s[p] EXCEPT !.pc = pc, !.file = NoName]
  <2>2. r \in Runs /\ SameRun(s[p], r) /\ r.pc = pc /\ r.mail = s[p].mail
    BY <1>0, NamesAreNumbers
  <2>3. s[p].pc = "move"
    BY <1>5 DEF MoveTmp
  <2>4. Moved(p, r) /\ RunInOrder(r) /\ Emptied(r)
    BY <2>1, <2>2, <2>3, AddingIs
  <2> HIDE DEF r
  <2> QED
    BY <2>2, <2>3, <2>4 DEF ReadSeq, TruncateSeq, WriteSeq, WriteTmp, CountSpool, FindOldest, DropOldest
<1>6. CASE CountSpool(p)
  <2>1. PICK r \in {[s[p] EXCEPT !.pc = "oldest"], [s[p] EXCEPT !.pc = "banner", !.mail = "SPOOLED"]} :
           Move(p, r)
    BY <1>6 DEF CountSpool
  <2>2. /\ r \in Runs /\ SameRun(s[p], r) /\ r.pc \in {"oldest", "banner"}
        /\ r.mail \in {s[p].mail, "SPOOLED"}
    <3>1. CASE r = [s[p] EXCEPT !.pc = "oldest"]
      BY <1>0, <3>1
    <3>2. CASE r = [s[p] EXCEPT !.pc = "banner", !.mail = "SPOOLED"]
      BY <1>0, <3>2
    <3> QED
      BY <2>1, <3>1, <3>2
  <2>3. s[p].pc = "count"
    BY <1>6 DEF CountSpool
  <2>4. Moved(p, r) /\ RunInOrder(r) /\ Emptied(r)
    BY <2>1, <2>2, <2>3, AddingIs
  <2> QED
    BY <2>2, <2>3, <2>4 DEF ReadSeq, TruncateSeq, WriteSeq, WriteTmp, MoveTmp, FindOldest, DropOldest
<1>7. CASE FindOldest(p)
  <2>1. DOMAIN spool # {} => Oldest(DOMAIN spool) \in Names
    BY SpoolIs, OldestIs
  <2> DEFINE f == Oldest(DOMAIN spool)
  <2>2. PICK r \in Runs : /\ Move(p, r) /\ SameRun(s[p], r) /\ r.pc \in {"drop", "banner"}
                          /\ r.mail \in {s[p].mail, "SPOOLED"}
    <3>1. CASE DOMAIN spool = {}
      <4> DEFINE r == [s[p] EXCEPT !.pc = "banner", !.mail = "SPOOLED"]
      <4>1. r \in Runs /\ SameRun(s[p], r) /\ r.pc = "banner" /\ r.mail = "SPOOLED"
        BY <1>0
      <4>2. Move(p, r)
        BY <1>7, <3>1 DEF FindOldest
      <4> QED
        BY <4>1, <4>2
    <3>2. CASE DOMAIN spool # {}
      <4> DEFINE r == [s[p] EXCEPT !.pc = "drop", !.file = f]
      <4>1. Move(p, r) /\ f \in Names
        BY <1>7, <2>1, <3>2 DEF FindOldest
      <4> HIDE DEF f
      <4>2. r \in Runs /\ SameRun(s[p], r) /\ r.pc = "drop" /\ r.mail = s[p].mail
        BY <1>0, <4>1
      <4> QED
        BY <4>1, <4>2
    <3> QED
      BY <3>1, <3>2
  <2>3. s[p].pc = "oldest"
    BY <1>7 DEF FindOldest
  <2>4. Moved(p, r) /\ RunInOrder(r) /\ Emptied(r)
    BY <2>2, <2>3, AddingIs
  <2> QED
    BY <2>2, <2>3, <2>4 DEF ReadSeq, TruncateSeq, WriteSeq, WriteTmp, MoveTmp, CountSpool, DropOldest
<1>8. CASE DropOldest(p)
  <2> DEFINE r == [s[p] EXCEPT !.pc = "count", !.file = NoName]
  <2>1. Move(p, r) /\ s[p].pc = "drop"
    BY <1>8 DEF DropOldest
  <2>2. r \in Runs /\ SameRun(s[p], r) /\ r.pc = "count" /\ r.mail = s[p].mail
    BY <1>0, NamesAreNumbers
  <2>3. Moved(p, r) /\ RunInOrder(r) /\ Emptied(r)
    BY <2>1, <2>2, AddingIs
  <2> HIDE DEF r
  <2> QED
    BY <2>1, <2>2, <2>3 DEF ReadSeq, TruncateSeq, WriteSeq, WriteTmp, MoveTmp, CountSpool, FindOldest
<1> QED
  BY <1>1, <1>2, <1>3, <1>4, <1>5, <1>6, <1>7, <1>8 DEF AddStep

\* The banner is shown or not.
LEMMA BannerMoves ==
    ASSUME SpoolShape, NEW p \in Scripts, Banner(p)
    PROVE  /\ s[p].job \in Alerts
           /\ \E r \in Runs : /\ Moved(p, r) /\ RunInOrder(r) /\ Emptied(r) /\ r.job = s[p].job
                              /\ r.mail = s[p].mail /\ r.fd = s[p].fd /\ r.pc = "exit"
                              /\ shown' = IF r.banner THEN shown \cup {s[p].job} ELSE shown
<1>0. s[p] \in Runs /\ s \in [Scripts -> Runs] /\ RunInOrder(s[p]) /\ s[p].pc = "banner"
  BY RunIs DEF Banner, AtStep
<1>1. PICK ok \in BOOLEAN : /\ shown' = IF ok THEN shown \cup {s[p].job} ELSE shown
                            /\ Move(p, [s[p] EXCEPT !.pc = "exit", !.banner = ok])
  BY DEF Banner
<1> DEFINE r == [s[p] EXCEPT !.pc = "exit", !.banner = ok]
<1>2. /\ r \in Runs /\ r.job = s[p].job /\ r.mail = s[p].mail /\ r.fd = s[p].fd /\ r.pc = "exit"
      /\ SameList(s[p], r) /\ r.banner = ok
  BY <1>0 DEF Runs, SameList
<1>3. Moved(p, r)
  BY <1>0, <1>1, <1>2, MoveIs
<1> HIDE DEF r
<1>4. RunInOrder(r) /\ Emptied(r) /\ s[p].job \in Alerts
  BY <1>0, <1>2 DEF SameList, Emptied, RunInOrder, Listing, Noting, Own, Placing, Numbering
<1> QED
  BY <1>1, <1>2, <1>3, <1>4

\* The script exits: the worker still has to read what it said.
LEMMA ExitMoves ==
    ASSUME SpoolShape, NEW p \in Scripts, Exit(p)
    PROVE  \E r \in Runs :
              /\ Moved(p, r) /\ RunInOrder(r) /\ Emptied(r)
              /\ r = Gone \/ (p = "worker" /\ Alike(s[p], r) /\ r.fd = s[p].fd /\ r.pc = "ended")
<1>0. s[p] \in Runs /\ s \in [Scripts -> Runs] /\ RunInOrder(s[p]) /\ s[p].pc = "exit"
  BY RunIs DEF Exit, AtStep
<1>1. CASE p = "worker"
  <2> DEFINE r == [s[p] EXCEPT !.pc = "ended"]
  <2>1. r \in Runs /\ Alike(s[p], r) /\ r.fd = s[p].fd /\ r.pc = "ended" /\ SameList(s[p], r)
    BY <1>0 DEF Runs, Alike, SameList
  <2>2. Moved(p, r)
    BY <1>0, <1>1, <2>1, GoOnIs, MoveIs DEF Exit
  <2> HIDE DEF r
  <2>3. RunInOrder(r) /\ Emptied(r)
    BY <1>0, <2>1 DEF SameList, Alike, Emptied, RunInOrder, Listing, Noting, Own, Placing, Numbering
  <2> QED
    BY <1>1, <2>1, <2>2, <2>3
<1>2. CASE p # "worker"
  BY <1>0, <1>2, GoneIs, MoveIs DEF Exit
<1> QED
  BY <1>1, <1>2

-----------------------------------------------------------------------------
(***************************************************************************)
(* What the collector and a person make of the runs                        *)
(***************************************************************************)
\* A run that begins.
Starting(pc, job) == [Gone EXCEPT !.pc = pc, !.job = job]

\* A run that begins is in order and has nothing yet.
LEMMA BegunIs ==
    ASSUME NEW pc \in {"dedupe", "lock"}, NEW job \in Jobs, pc = "dedupe" => job \in Alerts
    PROVE  /\ Starting(pc, job) \in Runs /\ RunInOrder(Starting(pc, job))
           /\ Emptied(Starting(pc, job))
           /\ Starting(pc, job).pc = pc /\ Starting(pc, job).job = job
           /\ Starting(pc, job).mail = "FAIL" /\ ~Starting(pc, job).banner
           /\ Starting(pc, job).fd = "none"
<1> DEFINE r == Starting(pc, job)
<1>1. /\ r \in Runs /\ Emptied(r) /\ r.pc = pc /\ r.job = job /\ r.mail = "FAIL" /\ ~r.banner
      /\ r.fd = "none"
  BY NamesAreNumbers DEF Starting, Gone, Runs, Emptied
<1> HIDE DEF r
<1>2. RunInOrder(r)
  BY <1>1 DEF Emptied, RunInOrder, Listing, Noting, Own, Placing, Numbering
<1> QED
  BY <1>1, <1>2 DEF r

\* TakeJob: the worker's run begins with the first of the queue.
LEMMA TakeJobMoves ==
    ASSUME SpoolShape, TakeJob
    PROVE  /\ Head(queue) \in Jobs /\ Tail(queue) \in Seq(Jobs) /\ queue # <<>>
           /\ \E r \in Runs :
                 /\ Moved("worker", r) /\ RunInOrder(r) /\ Emptied(r) /\ r.job = Head(queue)
                 /\ r.mail = "FAIL" /\ ~r.banner /\ r.fd = "none" /\ r.pc \in {"dedupe", "lock"}
<1>1. /\ Head(queue) \in Jobs /\ Tail(queue) \in Seq(Jobs) /\ queue # <<>>
      /\ s \in [Scripts -> Runs] /\ "worker" \in Scripts
  BY HeadTailProperties DEF SpoolShape, SpoolTypeOK, TakeJob, Scripts
<1> DEFINE job == Head(queue)
           pc == IF job = Flush THEN "lock" ELSE "dedupe"
           r == Starting(pc, job)
<1>2. Move("worker", r)
  BY DEF TakeJob, Move, Starting
<1>3. pc \in {"dedupe", "lock"} /\ job \in Jobs /\ (pc = "dedupe" => job \in Alerts)
  BY <1>1 DEF Jobs
<1> HIDE DEF pc, job
<1>4. /\ r \in Runs /\ RunInOrder(r) /\ Emptied(r) /\ r.pc = pc /\ r.job = job /\ r.mail = "FAIL"
      /\ ~r.banner /\ r.fd = "none"
  BY <1>3, BegunIs
<1>5. Moved("worker", r)
  BY <1>1, <1>2, <1>4, MoveIs
<1> HIDE DEF r
<1> QED
  BY <1>1, <1>3, <1>4, <1>5 DEF job

\* A person's run begins.
LEMMA PromptMoves ==
    ASSUME SpoolShape, Prompt
    PROVE  \E r \in Runs :
              /\ Moved("prompt", r) /\ RunInOrder(r) /\ Emptied(r) /\ r.job = Flush
              /\ r.mail = "FAIL" /\ ~r.banner /\ r.fd = "none" /\ r.pc = "lock"
<1> DEFINE r == Starting("lock", Flush)
<1>1. /\ r \in Runs /\ RunInOrder(r) /\ Emptied(r) /\ r.pc = "lock" /\ r.job = Flush
      /\ r.mail = "FAIL" /\ ~r.banner /\ r.fd = "none"
  BY BegunIs DEF Jobs
<1>2. "prompt" \in Scripts /\ s \in [Scripts -> Runs] /\ Move("prompt", r)
  BY DEF Scripts, SpoolShape, SpoolTypeOK, Prompt, Starting
<1> HIDE DEF r
<1> QED
  BY <1>1, <1>2, MoveIs

\* The worker is through with its run, or has killed it.
LEMMA WorkerEnds ==
    ASSUME SpoolShape, JobEnds \/ Kill
    PROVE  Moved("worker", Gone)
<1>1. "worker" \in Scripts /\ s \in [Scripts -> Runs]
  BY DEF Scripts, SpoolShape, SpoolTypeOK
<1> QED
  BY <1>1, GoneIs, MoveIs DEF JobEnds, Kill

\* The collector dies: its script goes on without it.
LEMMA DyingMoves ==
    ASSUME SpoolShape, WorkerDies
    PROVE  /\ s' \in [Scripts -> Runs] /\ s'["worker"] = Gone /\ s'["prompt"] = s["prompt"]
           /\ s'["orphan"] = IF AtStep("worker", "ended") THEN Gone ELSE s["worker"]
<1>1. {"worker", "orphan", "prompt"} = Scripts
  BY DEF Scripts
<1>2. s \in [Scripts -> Runs] /\ Gone \in Runs
  BY GoneIs DEF SpoolShape, SpoolTypeOK
<1> DEFINE r == IF AtStep("worker", "ended") THEN Gone ELSE s["worker"]
<1>3. r \in {Gone, s["worker"]} /\ r \in Runs
  BY <1>1, <1>2
<1>4. s' = [s EXCEPT !["orphan"] = r, !["worker"] = Gone]
  BY DEF WorkerDies
<1> HIDE DEF r
<1>5. /\ s' \in [Scripts -> Runs] /\ s'["orphan"] = r /\ s'["worker"] = Gone
      /\ s'["prompt"] = s["prompt"]
  BY <1>1, <1>2, <1>3, <1>4
<1> QED
  BY <1>5 DEF r

\* A run that has another file open.
Holding(r, fd) == [r EXCEPT !.fd = fd]

\* Two runs that are at the same place, whatever they have open.
SameButFile(a, b) ==
    /\ Alike(a, b) /\ SameList(a, b)
    /\ b.pc = a.pc /\ b.file = a.file /\ b.id = a.id /\ b.number = a.number

\* A file's name changes, not what its writers do.
LEMMA FilesMove ==
    ASSUME SpoolShape, RenameIds \/ RemoveIds
    PROVE  /\ s' \in [Scripts -> Runs]
           /\ \A q \in Scripts : /\ SameButFile(s[q], s'[q])
                                 /\ s'[q].fd = IF RemoveIds THEN Removed(s[q].fd)
                                               ELSE IF ids = Absent THEN s[q].fd
                                               ELSE Renamed(s[q].fd)
<1>0. s \in [Scripts -> Runs] /\ \A q \in Scripts : s[q] \in Runs
  BY DEF SpoolShape, SpoolTypeOK
<1>1. ASSUME NEW r \in Runs, NEW fd \in {"none", "ids", "taken", "unlinked"}
      PROVE  Holding(r, fd) \in Runs /\ SameButFile(r, Holding(r, fd)) /\ Holding(r, fd).fd = fd
  BY DEF Runs, SameButFile, SameList, Alike, Holding
<1>2. ASSUME NEW fd \in {"none", "ids", "taken", "unlinked"}
      PROVE  {Removed(fd), Renamed(fd)} \subseteq {"none", "ids", "taken", "unlinked"}
  BY DEF Removed, Renamed
<1>3. \A q \in Scripts : s[q].fd \in {"none", "ids", "taken", "unlinked"}
  BY <1>0 DEF Runs
<1>4. CASE RenameIds /\ ids = Absent
  <2>1. s' = s /\ ~RemoveIds
    BY <1>4 DEF RenameIds, RemoveIds
  <2> QED
    BY <1>0, <1>4, <2>1 DEF SameButFile, SameList, Alike
<1>5. CASE RenameIds /\ ids # Absent
  <2>0. s' = [q \in Scripts |-> Holding(s[q], Renamed(s[q].fd))] /\ ~RemoveIds
    BY <1>5 DEF RenameIds, RemoveIds, Holding
  <2>1. \A q \in Scripts : /\ Holding(s[q], Renamed(s[q].fd)) \in Runs
                           /\ SameButFile(s[q], Holding(s[q], Renamed(s[q].fd)))
                           /\ Holding(s[q], Renamed(s[q].fd)).fd = Renamed(s[q].fd)
    BY <1>0, <1>1, <1>2, <1>3
  <2> QED
    BY <1>5, <2>0, <2>1
<1>6. CASE RemoveIds
  <2>0. s' = [q \in Scripts |-> Holding(s[q], Removed(s[q].fd))]
    BY <1>6 DEF RemoveIds, Holding
  <2>1. \A q \in Scripts : /\ Holding(s[q], Removed(s[q].fd)) \in Runs
                           /\ SameButFile(s[q], Holding(s[q], Removed(s[q].fd)))
                           /\ Holding(s[q], Removed(s[q].fd)).fd = Removed(s[q].fd)
    BY <1>0, <1>1, <1>2, <1>3
  <2> QED
    BY <1>6, <2>0, <2>1
<1> QED
  BY <1>4, <1>5, <1>6

-----------------------------------------------------------------------------
(***************************************************************************)
(* The types, and what a run has where it is                               *)
(***************************************************************************)
\* A file of ids that is there holds alerts.
LEMMA IdsAreAlerts ==
    ASSUME NEW f \in IdFile
    PROVE  /\ f # Absent => f \subseteq Alerts
           /\ f \ Absent \subseteq Alerts
           /\ \A T : T \subseteq Alerts => T \in IdFile /\ T # Absent
BY AlertsAreNumbers DEF IdFile, Absent

\* A step of one run of the script that keeps its type and leaves the files of ids alone.
LEMMA ShapeKept ==
    ASSUME SpoolShape, SpoolTypeOK', NEW p \in Scripts, NEW r, Moved(p, r), RunInOrder(r),
           r.fd \in {s[p].fd, "none"}, UNCHANGED <<ids, taken>>,
           worker' = "read" => worker = "read"
    PROVE  SpoolShape'
<1>1. \A q \in Scripts : s'[q] = IF q = p THEN r ELSE s[q]
  BY DEF Moved
<1>2. \A q \in Scripts : RunInOrder(s[q])'
  BY <1>1 DEF SpoolShape, RunInOrder
<1>3. IdsInOrder'
  BY <1>1 DEF SpoolShape, IdsInOrder
<1> QED
  BY <1>2, <1>3 DEF SpoolShape

\* What the script does keeps the types.
LEMMA RunShape ==
    ASSUME SpoolShape, NEW p \in Scripts, Script(p)
    PROVE  SpoolShape'
<1>0. /\ SpoolTypeOK /\ RunInOrder(s[p]) /\ s[p].text \subseteq Alerts
  BY RunIs DEF SpoolShape
<1>1. CASE Dedupe(p)
  <2>1. PICK r \in Runs : Moved(p, r) /\ RunInOrder(r) /\ r.fd = s[p].fd
    BY <1>1, DedupeMoves
  <2>2. s' \in [Scripts -> Runs] /\ s[p].job \in Alerts
    BY <1>0, <1>1, <2>1 DEF Moved, Dedupe, AtStep, RunInOrder, Own
  <2>3. SpoolTypeOK'
    BY <1>0, <1>1, <2>2 DEF SpoolTypeOK, Dedupe, collector
  <2> QED
    BY <1>1, <2>1, <2>3, ShapeKept DEF Dedupe, collector
<1>2. CASE TakeLock(p)
  <2>1. PICK r \in Runs : Moved(p, r) /\ RunInOrder(r) /\ r.fd = s[p].fd
    BY <1>2, TakeLockMoves
  <2>2. s' \in [Scripts -> Runs] /\ lock' \in Scripts \cup {"free", "missing"} /\ unlocked' \in BOOLEAN
    BY <1>0, <1>2, <2>1 DEF Moved, TakeLock, SpoolTypeOK
  <2>3. SpoolTypeOK'
    BY <1>0, <1>2, <2>2 DEF SpoolTypeOK, TakeLock, collector, mails
  <2> QED
    BY <1>2, <2>1, <2>3, ShapeKept DEF TakeLock, collector
<1>3. CASE ListSpool(p) \/ ReadFile(p) \/ NoteId(p)
  <2>1. PICK r \in Runs : Moved(p, r) /\ RunInOrder(r) /\ r.fd = s[p].fd
    BY <1>3, ListSpoolMoves, ReadFileMoves, NoteIdMoves
  <2>2. UNCHANGED <<collector, prompts, files, seat, deaths, spool_history>>
    BY <1>3 DEF ListSpool, ReadFile, NoteId
  <2>3. SpoolTypeOK'
    BY <1>0, <2>1, <2>2 DEF SpoolTypeOK, Moved, collector, files, spool_history, mails
  <2> QED
    BY <2>1, <2>2, <2>3, ShapeKept DEF collector, files
<1>4. CASE HandOver(p)
  <2>1. PICK r \in Runs, got \in BOOLEAN :
           /\ Moved(p, r) /\ RunInOrder(r) /\ r.fd = s[p].fd
           /\ inbox' = IF got THEN inbox \cup s[p].text ELSE inbox
    BY <1>4, HandOverMoves
  <2>2. inbox' \subseteq Alerts
    BY <1>0, <2>1 DEF SpoolTypeOK
  <2>3. SpoolTypeOK'
    BY <1>0, <1>4, <2>1, <2>2 DEF SpoolTypeOK, HandOver, Moved, collector, files
  <2> QED
    BY <1>4, <2>1, <2>3, ShapeKept DEF HandOver, collector, files
<1>5. CASE OpenIds(p)
  <2>1. PICK r \in Runs : Moved(p, r) /\ RunInOrder(r) /\ r.fd = "ids"
    BY <1>5, OpenIdsMoves
  <2>2. ids' \in IdFile /\ ids' # Absent
    <3>1. {} \in IdFile /\ {} # Absent
      BY DEF IdFile, Absent
    <3> QED
      BY <1>0, <1>5, <3>1 DEF OpenIds, SpoolTypeOK
  <2>3. SpoolTypeOK'
    BY <1>0, <1>5, <2>1, <2>2 DEF SpoolTypeOK, OpenIds, Moved, collector, spool_history, mails
  <2>4. \A q \in Scripts : RunInOrder(s[q])'
    BY <2>1 DEF Moved, SpoolShape, RunInOrder
  <2>5. IdsInOrder'
    BY <1>5, <2>1, <2>2 DEF Moved, SpoolShape, IdsInOrder, OpenIds, collector
  <2> QED
    BY <2>3, <2>4, <2>5 DEF SpoolShape
<1>6. CASE WriteId(p)
  <2>1. PICK r \in Runs : Moved(p, r) /\ RunInOrder(r) /\ r.fd = "none"
    BY <1>6, WriteIdMoves
  <2>2. s[p].id \in Alerts /\ ids \in IdFile /\ taken \in IdFile
    BY <1>0, <1>6 DEF WriteId, AtStep, RunInOrder, SpoolTypeOK
  <2>3. /\ s[p].fd = "ids" => ids \cup {s[p].id} \subseteq Alerts
        /\ s[p].fd = "taken" => taken \cup {s[p].id} \subseteq Alerts
    BY <2>2, IdsAreAlerts DEF SpoolShape, IdsInOrder
  <2>4. /\ ids' \in IdFile /\ (ids # Absent => ids' # Absent)
        /\ taken' \in IdFile /\ (taken # Absent => taken' # Absent)
    BY <1>6, <2>2, <2>3, IdsAreAlerts DEF WriteId
  <2>5. noted' \subseteq Alerts /\ strayed' \subseteq Alerts
    <3>1. noted \subseteq Alerts /\ strayed \subseteq Alerts
      BY <1>0 DEF SpoolTypeOK
    <3>2. noted' = noted \cup {s[p].id} /\ strayed' \in {strayed, strayed \cup {s[p].id}}
      BY <1>6 DEF WriteId
    <3> QED
      BY <2>2, <3>1, <3>2
  <2>6. SpoolTypeOK'
    BY <1>0, <1>6, <2>1, <2>4, <2>5 DEF SpoolTypeOK, WriteId, Moved, collector, mails
  <2>7. \A q \in Scripts : RunInOrder(s[q])'
    BY <2>1 DEF Moved, SpoolShape, RunInOrder
  <2>8. IdsInOrder'
    <3>1. worker' = worker
      BY <1>6 DEF WriteId, collector
    <3> QED
      BY <2>1, <2>4, <3>1 DEF Moved, SpoolShape, IdsInOrder
  <2> QED
    BY <2>6, <2>7, <2>8 DEF SpoolShape
<1>7. CASE RemoveFile(p)
  <2>1. PICK r \in Runs : Moved(p, r) /\ RunInOrder(r) /\ r.fd = s[p].fd
    BY <1>7, RemoveFileMoves
  <2>2. DOMAIN spool' \subseteq Names /\ spool' \in [DOMAIN spool' -> Alerts]
    BY <1>0, <1>7 DEF RemoveFile, Without, SpoolTypeOK
  <2>3. SpoolTypeOK'
    BY <1>0, <1>7, <2>1, <2>2 DEF SpoolTypeOK, RemoveFile, Moved, collector, spool_history, mails
  <2> QED
    BY <1>7, <2>1, <2>3, ShapeKept DEF RemoveFile, collector
<1>8. CASE Deliver(p)
  <2>1. PICK r \in Runs, got \in BOOLEAN :
           /\ Moved(p, r) /\ RunInOrder(r) /\ r.fd = s[p].fd
           /\ inbox' = IF got THEN inbox \cup {s[p].job} ELSE inbox
    BY <1>8, DeliverMoves
  <2>2. inbox' \subseteq Alerts
    BY <1>0, <1>8, <2>1 DEF SpoolTypeOK, Deliver, AtStep, RunInOrder, Own
  <2>3. SpoolTypeOK'
    BY <1>0, <1>8, <2>1, <2>2 DEF SpoolTypeOK, Deliver, Moved, collector, files
  <2> QED
    BY <1>8, <2>1, <2>3, ShapeKept DEF Deliver, collector, files
<1>9. CASE AddStep(p)
  <2>1. PICK r \in Runs :
           /\ Moved(p, r) /\ RunInOrder(r) /\ r.fd = s[p].fd
           /\ WriteTmp(p) => /\ r.file \in Names /\ tmp' = Put(tmp, r.file, s[p].job)
                             /\ named' = named \cup {<<r.file, s[p].job>>}
    BY <1>9, AddStepMoves DEF SameRun
  <2>2. /\ UNCHANGED <<collector, prompts, lock, last, ids, taken, seat, deaths, inbox, shown,
                       duplicates, handled, noted, strayed, unlocked>>
    BY <1>9 DEF AddStep, ReadSeq, TruncateSeq, WriteSeq, WriteTmp, MoveTmp, CountSpool, FindOldest,
                DropOldest, files, spool_history, mails
  <2>3. s[p].job \in Alerts
    BY <1>0, <1>9 DEF AddStep, ReadSeq, TruncateSeq, WriteSeq, WriteTmp, MoveTmp, CountSpool,
                      FindOldest, DropOldest, AtStep, RunInOrder, Own, Placing, Numbering
  <2>4. counter' \in Nat
    <3>1. counter \in Nat /\ s[p].number \in Nat
      BY RunIs DEF SpoolShape, SpoolTypeOK
    <3>2. CASE TruncateSeq(p) \/ WriteSeq(p)
      BY <3>1, <3>2 DEF TruncateSeq, WriteSeq
    <3>3. CASE ~(TruncateSeq(p) \/ WriteSeq(p))
      <4>1. counter' = counter
        BY <1>9, <3>3 DEF AddStep, ReadSeq, WriteTmp, MoveTmp, CountSpool, FindOldest, DropOldest,
                          files
      <4> QED
        BY <3>1, <4>1
    <3> QED
      BY <3>2, <3>3
  <2>5. /\ DOMAIN spool' \subseteq Names /\ spool' \in [DOMAIN spool' -> Alerts]
        /\ DOMAIN tmp' \subseteq Names /\ tmp' \in [DOMAIN tmp' -> Alerts]
        /\ dropped' \subseteq Alerts /\ named' \subseteq Names \X Alerts
    <3>0. /\ DOMAIN spool \subseteq Names /\ spool \in [DOMAIN spool -> Alerts]
          /\ DOMAIN tmp \subseteq Names /\ tmp \in [DOMAIN tmp -> Alerts]
          /\ dropped \subseteq Alerts /\ named \subseteq Names \X Alerts /\ s[p].file \in Names
      BY <1>0, RunIs DEF SpoolTypeOK
    <3>1. CASE WriteTmp(p)
      <4>1. UNCHANGED <<spool, dropped>>
        BY <3>1 DEF WriteTmp, mails
      <4> QED
        BY <2>1, <2>3, <3>0, <3>1, <4>1 DEF Put
    <3>2. CASE MoveTmp(p)
      <4>1. UNCHANGED <<dropped, named>>
        BY <3>2 DEF MoveTmp, spool_history, mails
      <4>2. \/ UNCHANGED <<spool, tmp>>
            \/ /\ s[p].file \in DOMAIN tmp /\ spool' = Put(spool, s[p].file, tmp[s[p].file])
               /\ tmp' = Without(tmp, s[p].file)
        BY <3>2 DEF MoveTmp
      <4> QED
        BY <3>0, <4>1, <4>2 DEF Put, Without
    <3>3. CASE DropOldest(p)
      <4>1. UNCHANGED <<tmp, named>> /\ Content(s[p].file) \subseteq Alerts
        BY <3>3, SpoolIs DEF DropOldest
      <4> QED
        BY <3>0, <3>3, <4>1 DEF DropOldest, Without
    <3>4. CASE ReadSeq(p) \/ TruncateSeq(p) \/ WriteSeq(p) \/ CountSpool(p) \/ FindOldest(p)
      <4>1. UNCHANGED <<spool, tmp, dropped, named>>
        BY <3>4 DEF ReadSeq, TruncateSeq, WriteSeq, CountSpool, FindOldest, files, spool_history, mails
      <4> QED
        BY <3>0, <4>1
    <3> QED
      BY <1>9, <3>1, <3>2, <3>3, <3>4 DEF AddStep
  <2>6. SpoolTypeOK'
    BY <1>0, <2>1, <2>2, <2>4, <2>5 DEF SpoolTypeOK, Moved, collector
  <2> QED
    BY <2>1, <2>2, <2>6, ShapeKept DEF collector
<1>10. CASE Banner(p)
  <2>1. PICK r \in Runs : /\ Moved(p, r) /\ RunInOrder(r) /\ r.fd = s[p].fd
                          /\ shown' = IF r.banner THEN shown \cup {s[p].job} ELSE shown
    BY <1>10, BannerMoves
  <2>2. shown' \subseteq Alerts
    BY <1>0, <1>10, <2>1, BannerMoves DEF SpoolTypeOK
  <2>3. SpoolTypeOK'
    BY <1>0, <1>10, <2>1, <2>2 DEF SpoolTypeOK, Banner, Moved, collector, files
  <2> QED
    BY <1>10, <2>1, <2>3, ShapeKept DEF Banner, collector, files
<1>11. CASE Exit(p)
  <2>1. PICK r \in Runs : Moved(p, r) /\ RunInOrder(r) /\ r.fd \in {s[p].fd, "none"}
    BY <1>11, ExitMoves, GoneIs
  <2>2. lock' \in Scripts \cup {"free", "missing"}
    BY <1>0, <1>11 DEF SpoolTypeOK, Exit
  <2>3. SpoolTypeOK'
    BY <1>0, <1>11, <2>1, <2>2 DEF SpoolTypeOK, Exit, Moved, collector, spool_history, mails
  <2> QED
    BY <1>11, <2>1, <2>3, ShapeKept DEF Exit, collector
<1> QED
  BY <1>1, <1>2, <1>3, <1>4, <1>5, <1>6, <1>7, <1>8, <1>9, <1>10, <1>11 DEF Script, FlushStep

\* What the collector and a person do keeps the types.
LEMMA CollectorShape ==
    ASSUME SpoolShape,
           \/ SendAlert \/ SendFlush \/ Worker \/ Kill \/ WorkerDies \/ WorkerRestarts \/ Prompt
           \/ Mood
    PROVE  SpoolShape'
<1>0. /\ SpoolTypeOK /\ IdsInOrder /\ \A q \in Scripts : RunInOrder(s[q])
      /\ {"worker", "prompt", "orphan"} = Scripts
  BY DEF SpoolShape, Scripts
<1>1. CASE SendAlert \/ SendFlush
  <2>1. PICK job \in Jobs : queue' = Append(queue, job) /\ sent' \in 0 .. Len(Severity)
    <3>1. CASE SendAlert
      <4>1. sent + 1 \in Alerts /\ sent + 1 \in 0 .. Len(Severity)
        BY <1>0, <3>1, AlertsAreNumbers DEF SpoolTypeOK, SendAlert, Alerts
      <4> QED
        BY <3>1, <4>1 DEF SendAlert, Jobs
    <3>2. CASE SendFlush
      BY <1>0, <3>2 DEF SendFlush, Jobs, SpoolTypeOK
    <3> QED
      BY <1>1, <3>1, <3>2
  <2>2. queue' \in Seq(Jobs)
    BY <1>0, <2>1, AppendProperties DEF SpoolTypeOK
  <2>3. UNCHANGED <<prompts, s, files, worker, late, marked, seat, deaths, spool_history>>
    BY <1>1 DEF SendAlert, SendFlush
  <2>4. SpoolTypeOK'
    BY <1>0, <2>1, <2>2, <2>3 DEF SpoolTypeOK, files, spool_history, mails
  <2> QED
    BY <1>0, <2>3, <2>4 DEF SpoolShape, IdsInOrder, RunInOrder, files
<1>2. CASE TakeJob
  <2>1. PICK r \in Runs : Moved("worker", r) /\ RunInOrder(r) /\ r.fd = "none"
    BY <1>2, TakeJobMoves
  <2>2. Tail(queue) \in Seq(Jobs)
    BY <1>2, TakeJobMoves
  <2>3. SpoolTypeOK'
    BY <1>0, <1>2, <2>1, <2>2 DEF SpoolTypeOK, TakeJob, Moved, files, spool_history, mails
  <2> QED
    BY <1>0, <1>2, <2>1, <2>3, ShapeKept DEF TakeJob, files
<1>3. CASE JobEnds
  <2>1. Moved("worker", Gone)
    BY <1>3, WorkerEnds
  <2>2. s["worker"].job # Flush => s["worker"].job \in Alerts
    BY <1>0, <1>3 DEF JobEnds, AtStep, RunInOrder, Jobs
  <2>3. SpoolTypeOK'
    BY <1>0, <1>3, <2>1, <2>2 DEF SpoolTypeOK, JobEnds, Moved, files
  <2> QED
    BY <1>0, <1>3, <2>1, <2>3, GoneIs, ShapeKept DEF JobEnds, files
<1>4. CASE Kill
  <2>1. Moved("worker", Gone)
    BY <1>4, WorkerEnds
  <2>2. inbox' \subseteq Alerts
    <3>1. s["worker"].pc \in {"hand", "deliver"} /\ s["worker"].text \subseteq Alerts
      BY <1>0, <1>4, RunIs DEF Kill, Waiting
    <3>2. s["worker"].pc = "deliver" => s["worker"].job \in Alerts
      BY <1>0 DEF RunInOrder, Own
    <3> QED
      BY <1>0, <1>4, <3>1, <3>2 DEF SpoolTypeOK, Kill
  <2>3. lock' \in Scripts \cup {"free", "missing"}
    BY <1>0, <1>4 DEF SpoolTypeOK, Kill
  <2>4. SpoolTypeOK'
    BY <1>0, <1>4, <2>1, <2>2, <2>3 DEF SpoolTypeOK, Kill, Moved
  <2> QED
    BY <1>0, <1>4, <2>1, <2>4, GoneIs, ShapeKept DEF Kill
<1>5. CASE RenameIds \/ RemoveIds
  <2>1. /\ s' \in [Scripts -> Runs]
        /\ \A q \in Scripts : /\ SameButFile(s[q], s'[q])
                              /\ s'[q].fd = IF RemoveIds THEN Removed(s[q].fd)
                                            ELSE IF ids = Absent THEN s[q].fd
                                            ELSE Renamed(s[q].fd)
    BY <1>5, FilesMove
  <2>2. \A q \in Scripts : RunInOrder(s[q])'
    <3>1. ASSUME NEW a, NEW b, SameButFile(a, b), RunInOrder(a) PROVE RunInOrder(b)
      <4>1. InHand(b) = InHand(a)
        BY <3>1 DEF SameButFile, SameList, InHand
      <4> QED
        BY <3>1, <4>1 DEF SameButFile, SameList, Alike, RunInOrder
    <3>2. \A q \in Scripts : RunInOrder(s'[q])
      BY <1>0, <2>1, <3>1
    <3> QED
      BY <3>2 DEF RunInOrder
  <2>3. ids' \in IdFile /\ taken' \in IdFile
    BY <1>0, <1>5 DEF SpoolTypeOK, RenameIds, RemoveIds, IdFile
  <2>4. SpoolTypeOK'
    BY <1>0, <1>5, <2>1, <2>3 DEF SpoolTypeOK, RenameIds, RemoveIds, spool_history, mails
  <2>5. IdsInOrder'
    <3>1. CASE RemoveIds
      BY <1>0, <2>1, <3>1 DEF RemoveIds, IdsInOrder, Removed
    <3>2. CASE RenameIds /\ ids = Absent
      <4>1. ~RemoveIds /\ worker' # "read" /\ UNCHANGED <<ids, taken>>
        BY <3>2 DEF RenameIds, RemoveIds
      <4> QED
        BY <1>0, <2>1, <3>2, <4>1 DEF IdsInOrder
    <3>3. CASE RenameIds /\ ids # Absent
      <4>1. ~RemoveIds /\ taken' # Absent
        BY <3>3 DEF RenameIds, RemoveIds
      <4>2. \A q \in Scripts : s'[q].fd # "ids"
        BY <2>1, <3>3, <4>1 DEF Renamed, Removed
      <4> QED
        BY <4>1, <4>2 DEF IdsInOrder
    <3> QED
      BY <1>5, <3>1, <3>2, <3>3
  <2> QED
    BY <2>2, <2>4, <2>5 DEF SpoolShape
<1>6. CASE ReadIds \/ MarkLate
  <2>1. late' \subseteq Alerts
    BY <1>0, <1>6, IdsAreAlerts DEF SpoolTypeOK, IdsInOrder, ReadIds, MarkLate
  <2>2. SpoolTypeOK'
    BY <1>0, <1>6, <2>1 DEF SpoolTypeOK, ReadIds, MarkLate, files, spool_history, mails
  <2>3. s' = s /\ ids' = ids /\ taken' = taken /\ worker' # "read"
    BY <1>6 DEF ReadIds, MarkLate, files
  <2> QED
    BY <1>0, <2>2, <2>3 DEF SpoolShape, IdsInOrder, RunInOrder
<1>7. CASE WorkerDies
  <2>1. /\ s' \in [Scripts -> Runs] /\ s'["worker"] = Gone /\ s'["prompt"] = s["prompt"]
        /\ s'["orphan"] \in {Gone, s["worker"]}
    BY <1>7, DyingMoves
  <2>2. \A q \in Scripts : s'[q] \in {Gone, s["prompt"], s["worker"]}
    BY <1>0, <2>1
  <2>3. \A q \in Scripts : RunInOrder(s[q])'
    BY <1>0, <2>2, GoneIs DEF RunInOrder
  <2>4. <<>> \in Seq(Jobs) /\ deaths' \in 0 .. MaxDeaths
    BY <1>0, <1>7, EmptySeq, SpoolAssumption DEF SpoolTypeOK, WorkerDies
  <2>5. lock' \in Scripts \cup {"free", "missing"} /\ strayed' \subseteq Alerts
    BY <1>0, <1>7, IdsAreAlerts DEF SpoolTypeOK, WorkerDies
  <2>6. SpoolTypeOK'
    BY <1>0, <1>7, <2>1, <2>4, <2>5 DEF SpoolTypeOK, WorkerDies, mails
  <2>7. IdsInOrder'
    BY <1>0, <1>7, <2>2, GoneIs DEF IdsInOrder, WorkerDies
  <2> QED
    BY <2>3, <2>6, <2>7 DEF SpoolShape
<1>8. CASE WorkerRestarts \/ Mood
  <2>1. SpoolTypeOK'
    BY <1>0, <1>8 DEF SpoolTypeOK, WorkerRestarts, Mood, collector, files, spool_history, mails
  <2>2. s' = s /\ ids' = ids /\ taken' = taken /\ (worker' = "read" => worker = "read")
    BY <1>8 DEF WorkerRestarts, Mood, files, collector
  <2> QED
    BY <1>0, <2>1, <2>2 DEF SpoolShape, IdsInOrder, RunInOrder
<1>9. CASE Prompt
  <2>1. PICK r \in Runs : Moved("prompt", r) /\ RunInOrder(r) /\ r.fd = "none"
    BY <1>9, PromptMoves
  <2>2. prompts' \in 0 .. Prompts
    BY <1>0, <1>9, SpoolAssumption DEF SpoolTypeOK, Prompt
  <2>3. SpoolTypeOK'
    BY <1>0, <1>9, <2>1, <2>2 DEF SpoolTypeOK, Prompt, Moved, collector, files, spool_history, mails
  <2> QED
    BY <1>0, <1>9, <2>1, <2>3, ShapeKept DEF Prompt, collector, files
<1> QED
  BY <1>1, <1>2, <1>3, <1>4, <1>5, <1>6, <1>7, <1>8, <1>9 DEF Worker

-----------------------------------------------------------------------------
(***************************************************************************)
(* Each alert goes one way, once, and has one file                         *)
(***************************************************************************)
\* A run goes on with its alert, or with none, and what it has a list of is named.
Onward(a, b) ==
    /\ b.job = a.job \/ b.job \notin Alerts
    /\ RunIsNamed(b)

\* A run that has no list, and has not come to name a mail it did not have to name.
LEMMA OverIsOnward ==
    ASSUME NEW p \in Scripts, RunIsNamed(s[p]), NEW b, Emptied(b), b.pc # "move",
           b.job = s[p].job \/ b.job \notin Alerts, Unnamed(b) => Unnamed(s[p])
    PROVE  Onward(s[p], b)
BY DEF RunIsNamed, Onward, Emptied, Unnamed

\* A run that keeps its list and its alert.
LEMMA NotingIsOnward ==
    ASSUME NEW p \in Scripts, RunIsNamed(s[p]), s[p].pc \in Listing,
           NEW b, b.list \subseteq s[p].list, b.job = s[p].job, b.pc \in Listing,
           b.pc \in {"read", "hand"} => b.text = {}
    PROVE  Onward(s[p], b)
BY DEF RunIsNamed, Onward, Unnamed, Listing, Noting

\* A step of one run that names no file.
LEMMA NamedKept ==
    ASSUME AllNamed, NEW p \in Scripts, NEW r, Moved(p, r), Onward(s[p], r),
           UNCHANGED <<queue, sent, named>>,
           \A f \in DOMAIN spool' : <<f, spool'[f]>> \in named,
           \A f \in DOMAIN tmp' : <<f, tmp'[f]>> \in named,
           \A id \in inbox' : id \in inbox \/ Begun(id)
    PROVE  AllNamed'
<1>1. \A q \in Scripts : s'[q] = IF q = p THEN r ELSE s[q]
  BY DEF Moved
<1>2. \A id : Begun(id) => Begun(id)'
  BY DEF Begun
<1>3. QueueInOrder'
  BY DEF AllNamed, QueueInOrder
<1>4. OnlyBegun'
  BY <1>1, <1>2 DEF AllNamed, OnlyBegun, Onward
<1>5. FilesAreNamed'
  BY DEF AllNamed, FilesAreNamed
<1>6. RunsDiffer'
  BY <1>1 DEF AllNamed, RunsDiffer, Onward
<1>7. \A q \in Scripts : RunIsNamed(s[q])'
  <2>1. \A q \in Scripts : RunIsNamed(s'[q])
    BY <1>1 DEF AllNamed, Onward
  <2> QED
    BY <2>1 DEF RunIsNamed
<1> QED
  BY <1>3, <1>4, <1>5, <1>6, <1>7 DEF AllNamed

\* What a run has in hand was named, and so its alert has begun.
LEMMA TextHasBegun ==
    ASSUME AllNamed, NEW p \in Scripts, s[p].pc \in {"read", "hand"}
    PROVE  \A id \in s[p].text : Begun(id)
BY DEF AllNamed, RunIsNamed, OnlyBegun

\* The name that a mail is given is its own.
LEMMA NameGiven ==
    ASSUME SpoolShape, AllNamed, NEW p \in Scripts, WriteTmp(p)
    PROVE  AllNamed'
<1>1. PICK r \in Runs :
         /\ Moved(p, r) /\ Emptied(r) /\ SameRun(s[p], r) /\ r.pc = "move" /\ r.file \in Names
         /\ tmp' = Put(tmp, r.file, s[p].job) /\ named' = named \cup {<<r.file, s[p].job>>}
  BY AddStepMoves DEF AddStep
<1>2. UNCHANGED <<queue, sent, spool, inbox>>
  BY DEF WriteTmp, collector, mails
<1>3. s[p].job \in Alerts /\ s[p].pc = "tmp" /\ r.job = s[p].job
  BY <1>1, RunIs DEF WriteTmp, AtStep, RunInOrder, Own, Placing, Numbering, SameRun
<1>4. /\ Begun(s[p].job) /\ \A x \in named : x[2] # s[p].job
      /\ \A q \in Scripts \ {p} : s[q].job # s[p].job
  BY <1>3 DEF AllNamed, OnlyBegun, RunIsNamed, RunsDiffer, Unnamed, Placing, Numbering
<1>5. \A q \in Scripts : s'[q] = IF q = p THEN r ELSE s[q]
  BY <1>1 DEF Moved
<1>6. \A id : Begun(id) => Begun(id)'
  BY <1>2 DEF Begun
<1>7. named \subseteq named' /\ \A x \in named' : x \in named \/ x = <<r.file, s[p].job>>
  BY <1>1
<1>8. QueueInOrder'
  BY <1>2 DEF AllNamed, QueueInOrder
<1>9. OnlyBegun'
  BY <1>2, <1>3, <1>4, <1>5, <1>6, <1>7 DEF AllNamed, OnlyBegun
<1>10. FilesAreNamed'
  <2>1. \A f \in DOMAIN tmp' : <<f, tmp'[f]>> \in named'
    BY <1>1 DEF AllNamed, FilesAreNamed, Put
  <2>2. \A x, y \in named' : x[2] = y[2] => x = y
    BY <1>4, <1>7 DEF AllNamed, FilesAreNamed
  <2> QED
    BY <1>2, <1>7, <2>1, <2>2 DEF AllNamed, FilesAreNamed
<1>11. RunsDiffer'
  BY <1>3, <1>5 DEF AllNamed, RunsDiffer
<1>12. \A q \in Scripts : RunIsNamed(s[q])'
  <2>1. ASSUME NEW q \in Scripts \ {p} PROVE RunIsNamed(s[q])'
    <3>1. RunIsNamed(s[q]) /\ s'[q] = s[q]
      BY <1>5 DEF AllNamed
    <3>2. Unnamed(s[q]) => \A x \in named' : x[2] # s[q].job
      BY <1>4, <1>7, <3>1 DEF RunIsNamed
    <3> QED
      BY <1>7, <3>1, <3>2 DEF RunIsNamed
  <2>2. RunIsNamed(s[p])'
    BY <1>1, <1>3, <1>5 DEF RunIsNamed, Emptied, Unnamed, Listing, Noting, Placing, Numbering
  <2> QED
    BY <2>1, <2>2
<1> QED
  BY <1>8, <1>9, <1>10, <1>11, <1>12 DEF AllNamed

\* What the script does keeps alerts and names together.
LEMMA RunNames ==
    ASSUME SpoolShape, AllNamed, NEW p \in Scripts, Script(p)
    PROVE  AllNamed'
<1>0. /\ RunIsNamed(s[p]) /\ FilesAreNamed
      /\ (s[p].job \in Alerts => Begun(s[p].job))
  BY DEF AllNamed, OnlyBegun
<1>1. CASE Dedupe(p) \/ TakeLock(p) \/ Banner(p) \/ Exit(p)
  <2>1. PICK r \in Runs : Moved(p, r) /\ Onward(s[p], r)
    <3>1. PICK r \in Runs : /\ Moved(p, r) /\ Emptied(r) /\ (r.job = s[p].job \/ r.job \notin Alerts)
                            /\ r.pc \in {"exit", "lock", "list", "ended", "none"}
                            /\ r.pc \in {"lock", "list"} => s[p].pc \in {"dedupe", "lock"}
      <4>1. CASE Dedupe(p)
        BY <4>1, DedupeMoves DEF Dedupe, AtStep
      <4>2. CASE TakeLock(p)
        BY <4>2, TakeLockMoves DEF TakeLock, AtStep, Alike
      <4>3. CASE Banner(p)
        BY <4>3, BannerMoves
      <4>4. CASE Exit(p)
        BY <4>4, ExitMoves, GoneIs, AlertsAreNumbers DEF Alike
      <4> QED
        BY <1>1, <4>1, <4>2, <4>3, <4>4
    <3>2. Unnamed(r) => Unnamed(s[p])
      BY <3>1 DEF Unnamed, Listing, Noting, Placing, Numbering
    <3> QED
      BY <1>0, <3>1, <3>2, OverIsOnward
  <2>2. UNCHANGED <<queue, sent, named, spool, tmp, inbox>>
    BY <1>1 DEF Dedupe, TakeLock, Banner, Exit, collector, files, spool_history, mails
  <2> QED
    BY <1>0, <2>1, <2>2, NamedKept DEF FilesAreNamed
<1>2. CASE ListSpool(p) \/ ReadFile(p) \/ NoteId(p) \/ OpenIds(p) \/ WriteId(p)
  <2>1. PICK r \in Runs : Moved(p, r) /\ Onward(s[p], r)
    <3>1. CASE ListSpool(p)
      <4>1. PICK r \in Runs :
              /\ Moved(p, r) /\ r.job = s[p].job
              /\ \/ DOMAIN spool = {} /\ Emptied(r) /\ r.pc = AfterFlush(s[p])
                 \/ r.pc = "read" /\ r.list = DOMAIN spool /\ r.text = {}
        BY <3>1, ListSpoolMoves DEF Alike
      <4>2. s[p].pc = "list"
        BY <3>1 DEF ListSpool, AtStep
      <4>3. CASE Emptied(r) /\ r.pc = AfterFlush(s[p])
        <5>1. r.pc \in {"exit", "deliver"} /\ (Unnamed(r) => Unnamed(s[p]))
          BY <4>1, <4>2, <4>3 DEF AfterFlush, Unnamed, Listing, Noting, Placing, Numbering
        <5> QED
          BY <1>0, <4>1, <4>3, <5>1, OverIsOnward
      <4>4. CASE r.pc = "read" /\ r.list = DOMAIN spool /\ r.text = {}
        <5>1. \A f \in r.list : \E x \in named : x[1] = f
          <6>1. \A f \in DOMAIN spool : <<f, spool[f]>> \in named /\ <<f, spool[f]>>[1] = f
            BY <1>0 DEF FilesAreNamed
          <6> QED
            BY <4>4, <6>1
        <5> QED
          BY <1>0, <4>1, <4>2, <4>4, <5>1 DEF Onward, RunIsNamed, Unnamed
      <4> QED
        BY <4>1, <4>3, <4>4
    <3>2. CASE ReadFile(p)
      <4>1. PICK r \in Runs, f \in s[p].unread :
              /\ Moved(p, r) /\ r.job = s[p].job
              /\ r.pc \in {"read", "hand"} /\ r.list = s[p].list
              /\ InHand(r) = InHand(s[p]) \cup {f} /\ r.text = s[p].text \cup Content(f)
        BY <3>2, ReadFileMoves DEF Alike
      <4>2. s[p].pc = "read"
        BY <3>2 DEF ReadFile, AtStep
      <4>3. \A id \in r.text : \E g \in InHand(r) : <<g, id>> \in named
        BY <1>0, <4>1, <4>2 DEF RunIsNamed, Content, FilesAreNamed
      <4> QED
        BY <1>0, <4>1, <4>2, <4>3 DEF Onward, RunIsNamed, Unnamed, Listing
    <3>3. CASE NoteId(p) \/ OpenIds(p) \/ WriteId(p)
      <4>1. PICK r \in Runs : /\ Moved(p, r) /\ r.job = s[p].job /\ r.list = s[p].list
                              /\ r.pc \in {"open", "write", "remove"}
        BY <3>3, NoteIdMoves, OpenIdsMoves, WriteIdMoves DEF Alike, SameList
      <4>2. s[p].pc \in Listing /\ r.pc \in Listing
        BY <3>3, <4>1 DEF NoteId, OpenIds, WriteId, AtStep, Listing, Noting
      <4> QED
        BY <1>0, <4>1, <4>2, NotingIsOnward
    <3> QED
      BY <1>2, <3>1, <3>2, <3>3
  <2>2. UNCHANGED <<queue, sent, named, spool, tmp, inbox>>
    BY <1>2 DEF ListSpool, ReadFile, NoteId, OpenIds, WriteId, collector, files, spool_history, mails
  <2> QED
    BY <1>0, <2>1, <2>2, NamedKept DEF FilesAreNamed
<1>3. CASE HandOver(p)
  <2>1. PICK r \in Runs, got \in BOOLEAN :
          /\ Moved(p, r) /\ r.job = s[p].job
          /\ inbox' = IF got THEN inbox \cup s[p].text ELSE inbox
          /\ \/ r.pc = "note" /\ r.list = s[p].list
             \/ Emptied(r) /\ r.pc = AfterFailure(s[p])
    BY <1>3, HandOverMoves DEF Alike, SameList
  <2>2. s[p].pc = "hand"
    BY <1>3 DEF HandOver, AtStep
  <2>3. Onward(s[p], r)
    <3>1. CASE r.pc = "note" /\ r.list = s[p].list
      <4>1. s[p].pc \in Listing /\ r.pc \in Listing
        BY <2>2, <3>1 DEF Listing, Noting
      <4> QED
        BY <1>0, <2>1, <3>1, <4>1, NotingIsOnward
    <3>2. CASE Emptied(r) /\ r.pc = AfterFailure(s[p])
      <4>1. r.pc \in {"exit", "seq"} /\ (Unnamed(r) => Unnamed(s[p]))
        BY <2>1, <2>2, <3>2 DEF AfterFailure, Unnamed, Listing, Noting, Placing, Numbering
      <4> QED
        BY <1>0, <2>1, <3>2, <4>1, OverIsOnward
    <3> QED
      BY <2>1, <3>1, <3>2
  <2>4. \A id \in inbox' : id \in inbox \/ Begun(id)
    BY <2>1, <2>2, TextHasBegun
  <2>5. UNCHANGED <<queue, sent, named, spool, tmp>>
    BY <1>3 DEF HandOver, collector, files
  <2> QED
    BY <1>0, <2>1, <2>3, <2>4, <2>5, NamedKept DEF FilesAreNamed
<1>4. CASE RemoveFile(p)
  <2>1. PICK r \in Runs :
          /\ Moved(p, r) /\ r.job = s[p].job /\ r.list \subseteq s[p].list
          /\ \/ Emptied(r) /\ r.pc = AfterFlush(s[p])
             \/ r.pc = "note"
             \/ r.pc = "read" /\ r.text = {}
    BY <1>4, RemoveFileMoves DEF Alike
  <2>2. s[p].pc = "remove"
    BY <1>4 DEF RemoveFile, AtStep
  <2>3. Onward(s[p], r)
    <3>1. CASE r.pc = "note" \/ (r.pc = "read" /\ r.text = {})
      <4>1. s[p].pc \in Listing /\ r.pc \in Listing
        BY <2>2, <3>1 DEF Listing, Noting
      <4> QED
        BY <1>0, <2>1, <3>1, <4>1, NotingIsOnward
    <3>2. CASE Emptied(r) /\ r.pc = AfterFlush(s[p])
      <4>1. r.pc \in {"exit", "deliver"} /\ (Unnamed(r) => Unnamed(s[p]))
        BY <2>1, <2>2, <3>2 DEF AfterFlush, Unnamed, Listing, Noting, Placing, Numbering
      <4> QED
        BY <1>0, <2>1, <3>2, <4>1, OverIsOnward
    <3> QED
      BY <2>1, <3>1, <3>2
  <2>4. UNCHANGED <<queue, sent, named, tmp, inbox>> /\ spool' = Without(spool, s[p].file)
    BY <1>4 DEF RemoveFile, collector, spool_history, mails
  <2> QED
    BY <1>0, <2>1, <2>3, <2>4, NamedKept DEF FilesAreNamed, Without
<1>5. CASE Deliver(p)
  <2>1. PICK r \in Runs, got \in BOOLEAN :
          /\ Moved(p, r) /\ Emptied(r) /\ r.job = s[p].job /\ r.pc \in {"banner", "seq"}
          /\ inbox' = IF got THEN inbox \cup {s[p].job} ELSE inbox
    BY <1>5, DeliverMoves
  <2>2. s[p].pc = "deliver" /\ s[p].job \in Alerts
    BY <1>5, RunIs DEF Deliver, AtStep, RunInOrder, Own
  <2>3. Unnamed(r) => Unnamed(s[p])
    BY <2>1, <2>2 DEF Unnamed
  <2>4. UNCHANGED <<queue, sent, named, spool, tmp>>
    BY <1>5 DEF Deliver, collector, files
  <2> QED
    BY <1>0, <2>1, <2>2, <2>3, <2>4, OverIsOnward, NamedKept DEF FilesAreNamed
<1>6. CASE WriteTmp(p)
  BY <1>6, NameGiven
<1>7. CASE AddStep(p) /\ ~WriteTmp(p)
  <2>1. PICK r \in Runs :
          /\ Moved(p, r) /\ Emptied(r) /\ r.job = s[p].job
          /\ ReadSeq(p) => r.pc = "empty"
          /\ TruncateSeq(p) => r.pc = "number"
          /\ WriteSeq(p) => r.pc = "tmp"
          /\ MoveTmp(p) => r.pc \in {"count", "banner"}
          /\ CountSpool(p) => r.pc \in {"oldest", "banner"}
          /\ FindOldest(p) => r.pc \in {"drop", "banner"}
          /\ DropOldest(p) => r.pc = "count"
    BY <1>7, AddStepMoves DEF SameRun
  <2>2. r.pc # "move" /\ (r.pc \in Placing => s[p].pc \in Placing)
    BY <1>7, <2>1 DEF AddStep, ReadSeq, TruncateSeq, WriteSeq, MoveTmp, CountSpool, FindOldest,
                      DropOldest, AtStep, Placing, Numbering
  <2>3. Unnamed(r) => Unnamed(s[p])
    <3>1. r.pc \in {"empty", "number", "tmp", "count", "banner", "oldest", "drop"}
      BY <1>7, <2>1 DEF AddStep
    <3> QED
      BY <2>1, <2>2, <3>1 DEF Unnamed, Listing, Noting
  <2>4. UNCHANGED <<queue, sent, named, inbox>>
    BY <1>7 DEF AddStep, ReadSeq, TruncateSeq, WriteSeq, MoveTmp, CountSpool, FindOldest,
                DropOldest, collector, spool_history, mails
  <2>5. /\ \A f \in DOMAIN spool' : <<f, spool'[f]>> \in named
        /\ \A f \in DOMAIN tmp' : <<f, tmp'[f]>> \in named
    <3>1. CASE MoveTmp(p)
      BY <1>0, <3>1 DEF MoveTmp, FilesAreNamed, Put, Without
    <3>2. CASE DropOldest(p)
      BY <1>0, <3>2 DEF DropOldest, FilesAreNamed, Without
    <3>3. CASE ~MoveTmp(p) /\ ~DropOldest(p)
      <4>1. UNCHANGED <<spool, tmp>>
        BY <1>7, <3>3 DEF AddStep, ReadSeq, TruncateSeq, WriteSeq, CountSpool, FindOldest, files
      <4> QED
        BY <1>0, <4>1 DEF FilesAreNamed
    <3> QED
      BY <3>1, <3>2, <3>3
  <2>6. Onward(s[p], r)
    BY <1>0, <2>1, <2>2, <2>3, OverIsOnward
  <2> QED
    BY <2>1, <2>4, <2>5, <2>6, NamedKept
<1> QED
  BY <1>1, <1>2, <1>3, <1>4, <1>5, <1>6, <1>7 DEF Script, FlushStep

\* The poll loop sends an alert or a flush: what has begun has.
LEMMA QueueGrows ==
    ASSUME SpoolShape, AllNamed, SendAlert \/ SendFlush
    PROVE  AllNamed'
<1>1. /\ UNCHANGED <<s, spool, tmp, inbox, named>> /\ sent \in Int /\ queue \in Seq(Jobs)
      /\ Len(queue) \in Nat /\ sent >= 0 /\ inbox \subseteq Alerts
      /\ \A x \in named : x[2] \in Alerts
  BY LenProperties, AlertsAreNumbers
     DEF SendAlert, SendFlush, files, spool_history, mails, SpoolShape, SpoolTypeOK
<1>2. PICK job \in Jobs : /\ queue' = Append(queue, job) /\ sent' >= sent /\ sent' \in Int
                          /\ \/ job = Flush
                             \/ job = sent + 1 /\ sent' = sent + 1
  <2>1. CASE SendAlert
    <3>1. sent + 1 \in Jobs /\ sent' = sent + 1 /\ queue' = Append(queue, sent + 1)
      BY <1>1, <2>1, AlertsAreNumbers DEF SendAlert, Jobs, Alerts
    <3> QED
      BY <1>1, <3>1
  <2>2. CASE SendFlush
    <3>1. Flush \in Jobs /\ sent' = sent /\ queue' = Append(queue, Flush)
      BY <2>2 DEF SendFlush, Jobs
    <3> QED
      BY <1>1, <3>1
  <2> QED
    BY <2>1, <2>2
<1>3. /\ Len(queue') = Len(queue) + 1
      /\ \A i \in 1 .. Len(queue) : queue'[i] = queue[i]
      /\ queue'[Len(queue) + 1] = job
  BY <1>1, <1>2, AppendProperties
<1>4. \A i \in 1 .. Len(queue) : queue[i] \in Int /\ queue[i] <= sent
  <2>1. \A i \in 1 .. Len(queue) : queue[i] \in Jobs
    BY <1>1, ElementOfSeq
  <2>2. Jobs \subseteq Int
    BY AlertsAreNumbers DEF Jobs
  <2>3. \A i \in 1 .. Len(queue) : queue[i] <= sent
    BY DEF AllNamed, QueueInOrder
  <2> QED
    BY <2>1, <2>2, <2>3
<1>5. job \in Int /\ job <= sent' /\ (job \in Alerts => job = sent + 1)
  BY <1>1, <1>2, AlertsAreNumbers DEF Jobs, Flush
<1>6. \A i \in 1 .. Len(queue') : i \in 1 .. Len(queue) \/ i = Len(queue) + 1
  BY <1>1, <1>3
<1>7. QueueInOrder'
  <2>1. \A i \in 1 .. Len(queue') : queue'[i] <= sent'
    BY <1>1, <1>2, <1>3, <1>4, <1>5, <1>6
  <2>2. ASSUME NEW i \in 1 .. Len(queue'), NEW j \in 1 .. Len(queue'), i < j,
               queue'[i] \in Alerts, queue'[j] \in Alerts
        PROVE  queue'[i] < queue'[j]
    <3>1. i \in 1 .. Len(queue) /\ queue'[i] = queue[i]
      BY <1>1, <1>3, <1>6, <2>2
    <3>2. CASE j \in 1 .. Len(queue)
      BY <1>3, <2>2, <3>1, <3>2 DEF AllNamed, QueueInOrder
    <3>3. CASE j = Len(queue) + 1
      BY <1>1, <1>3, <1>4, <1>5, <2>2, <3>1, <3>3
    <3> QED
      BY <1>6, <3>2, <3>3
  <2> QED
    BY <2>1, <2>2 DEF QueueInOrder
<1>8. \A id \in Alerts : Begun(id) => Begun(id)'
  <2> TAKE id \in Alerts
  <2> HAVE Begun(id)
  <2>1. id <= sent /\ id \in Int
    BY AlertsAreNumbers DEF Begun, Past
  <2>2. ASSUME NEW i \in 1 .. Len(queue'), queue'[i] \in Alerts PROVE id < queue'[i]
    <3>1. CASE i \in 1 .. Len(queue)
      BY <1>3, <2>2, <3>1 DEF Begun, Past
    <3>2. CASE i = Len(queue) + 1
      BY <1>1, <1>3, <1>5, <2>1, <2>2, <3>2
    <3> QED
      BY <1>6, <3>1, <3>2
  <2>3. id <= sent'
    BY <1>1, <1>2, <2>1
  <2> QED
    BY <2>2, <2>3 DEF Begun, Past
<1>9. OnlyBegun'
  BY <1>1, <1>8 DEF AllNamed, OnlyBegun
<1>10. FilesAreNamed' /\ RunsDiffer' /\ \A p \in Scripts : RunIsNamed(s[p])'
  BY <1>1 DEF AllNamed, FilesAreNamed, RunsDiffer, RunIsNamed
<1> QED
  BY <1>7, <1>9, <1>10 DEF AllNamed

\* The worker takes the first alert of the queue: it is in nobody's hands and has no file yet.
LEMMA QueueShrinks ==
    ASSUME SpoolShape, AllNamed, TakeJob
    PROVE  /\ AllNamed'
           /\ Head(queue) \in Alerts => /\ \A x \in named : x[2] < Head(queue)
                                        /\ \A id \in inbox : id < Head(queue)
<1>1. /\ UNCHANGED <<spool, tmp, inbox, named, sent>> /\ queue \in Seq(Jobs) /\ queue # <<>>
      /\ queue' = Tail(queue) /\ Len(queue) \in Nat \ {0} /\ queue[1] = Head(queue)
      /\ Head(queue) \in Jobs
  BY LenProperties, EmptySeq, HeadTailProperties
     DEF TakeJob, files, spool_history, mails, SpoolShape, SpoolTypeOK
<1>2. /\ Len(queue') = Len(queue) - 1
      /\ \A i \in 1 .. Len(queue') : queue'[i] = queue[i + 1]
  BY <1>1, HeadTailProperties
<1>3. PICK r \in Runs : /\ Moved("worker", r) /\ r.job = Head(queue) /\ Emptied(r)
                        /\ r.pc \in {"dedupe", "lock"}
  BY TakeJobMoves
<1>4. \A i \in 1 .. Len(queue') : i + 1 \in 1 .. Len(queue) /\ 1 < i + 1
  BY <1>1, <1>2
<1>5. QueueInOrder'
  <2>1. \A i \in 1 .. Len(queue') : queue'[i] <= sent'
    BY <1>1, <1>2, <1>4 DEF AllNamed, QueueInOrder
  <2>2. ASSUME NEW i \in 1 .. Len(queue'), NEW j \in 1 .. Len(queue'), i < j,
               queue'[i] \in Alerts, queue'[j] \in Alerts
        PROVE  queue'[i] < queue'[j]
    <3>1. i + 1 < j + 1
      BY <2>2
    <3> QED
      BY <1>2, <1>4, <2>2, <3>1 DEF AllNamed, QueueInOrder
  <2> QED
    BY <2>1, <2>2 DEF QueueInOrder
<1>6. \A id : Begun(id) => Past(id, sent', queue')
  BY <1>1, <1>2, <1>4 DEF Begun, Past
<1>7. ASSUME Head(queue) \in Alerts
      PROVE  /\ Past(Head(queue), sent', queue')
             /\ \A id : Begun(id) => id < Head(queue) /\ id # Head(queue)
  <2>0. Alerts \subseteq Int /\ 1 \in 1 .. Len(queue)
    BY <1>1, AlertsAreNumbers
  <2>1. 1 \in 1 .. Len(queue) /\ Head(queue) \in Int
    BY <1>7, <2>0
  <2>2. \A id : Begun(id) => id < Head(queue)
    BY <1>1, <1>7, <2>1 DEF Begun, Past
  <2>3. Head(queue) <= sent'
    BY <1>1, <2>1 DEF AllNamed, QueueInOrder
  <2>4. \A i \in 1 .. Len(queue') : queue'[i] \in Alerts => Head(queue) < queue'[i]
    BY <1>1, <1>2, <1>4, <1>7, <2>1 DEF AllNamed, QueueInOrder
  <2>5. ~(Head(queue) < Head(queue))
    BY <2>1
  <2> QED
    BY <2>2, <2>3, <2>4, <2>5 DEF Past
<1>8. /\ s'["worker"] = r /\ \A q \in Scripts \ {"worker"} : s'[q] = s[q]
      /\ "worker" \in Scripts
  BY <1>3 DEF Moved, Scripts
<1>9. OnlyBegun'
  <2>1. \A id : Past(id, sent', queue') => Begun(id)'
    BY DEF Begun
  <2>2. \A q \in Scripts : s'[q].job \in Alerts => Past(s'[q].job, sent', queue')
    BY <1>3, <1>6, <1>7, <1>8 DEF AllNamed, OnlyBegun
  <2> QED
    BY <1>1, <1>6, <2>1, <2>2 DEF AllNamed, OnlyBegun
<1>10. RunsDiffer'
  <2> SUFFICES ASSUME NEW p \in Scripts, NEW q \in Scripts \ {p}, s'[p].job \in Alerts
               PROVE  s'[q].job # s'[p].job
    BY DEF RunsDiffer
  <2>1. CASE p = "worker"
    BY <1>3, <1>7, <1>8, <2>1 DEF AllNamed, OnlyBegun
  <2>2. CASE q = "worker"
    BY <1>3, <1>7, <1>8, <2>2 DEF AllNamed, OnlyBegun
  <2>3. CASE p # "worker" /\ q # "worker"
    BY <1>8, <2>3 DEF AllNamed, RunsDiffer
  <2> QED
    BY <2>1, <2>2, <2>3
<1>11. \A p \in Scripts : RunIsNamed(s[p])'
  <2>1. Unnamed(r) => \A x \in named : x[2] # r.job
    BY <1>3, <1>7 DEF Unnamed, AllNamed, OnlyBegun
  <2>2. RunIsNamed(r)
    BY <1>3, <2>1 DEF RunIsNamed, Emptied
  <2>3. \A p \in Scripts : RunIsNamed(s'[p])
    BY <1>8, <2>2 DEF AllNamed
  <2> QED
    BY <1>1, <2>3 DEF RunIsNamed
<1>12. FilesAreNamed'
  BY <1>1 DEF AllNamed, FilesAreNamed
<1> QED
  BY <1>5, <1>7, <1>9, <1>10, <1>11, <1>12 DEF AllNamed, OnlyBegun

\* The collector dies: its queue is gone, and its script keeps its alert.
LEMMA DyingNames ==
    ASSUME SpoolShape, AllNamed, WorkerDies
    PROVE  AllNamed'
<1>1. /\ UNCHANGED <<spool, tmp, inbox, named, sent>> /\ queue' = <<>> /\ Len(queue') = 0
  BY EmptySeq DEF WorkerDies, mails
<1>2. /\ s'["worker"] = Gone /\ s'["orphan"] \in {Gone, s["worker"]} /\ s'["prompt"] = s["prompt"]
      /\ Scripts = {"worker", "orphan", "prompt"}
  BY DyingMoves DEF Scripts
<1>3. Gone.job \notin Alerts /\ RunIsNamed(Gone)
  BY GoneIs, AlertsAreNumbers DEF Emptied, RunIsNamed, Unnamed
<1>4. \A id : Begun(id) => Begun(id)'
  BY <1>1 DEF Begun, Past
<1>5. OnlyBegun'
  <2>1. \A q \in Scripts : s'[q].job \in Alerts => Begun(s'[q].job)
    BY <1>2, <1>3 DEF AllNamed, OnlyBegun
  <2> QED
    BY <1>1, <1>4, <2>1 DEF AllNamed, OnlyBegun
<1>6. QueueInOrder' /\ FilesAreNamed'
  BY <1>1 DEF QueueInOrder, AllNamed, FilesAreNamed
<1>7. RunsDiffer'
  BY <1>2, <1>3 DEF AllNamed, RunsDiffer
<1>8. \A q \in Scripts : RunIsNamed(s[q])'
  <2>1. \A q \in Scripts : RunIsNamed(s'[q])
    BY <1>2, <1>3 DEF AllNamed
  <2> QED
    BY <1>1, <2>1 DEF RunIsNamed
<1> QED
  BY <1>5, <1>6, <1>7, <1>8 DEF AllNamed

\* Steps that leave the runs where they are.
Standing ==
    /\ \A q \in Scripts : SameButFile(s[q], s'[q])
    /\ UNCHANGED <<queue, sent, spool, tmp, inbox, shown, dropped, named, lock, counter, unlocked,
                   deaths>>

\* What the collector does with the ids, and the mood of the seat, leave the spool standing.
LEMMA StandingIs ==
    ASSUME SpoolShape, RenameIds \/ ReadIds \/ RemoveIds \/ MarkLate \/ WorkerRestarts \/ Mood
    PROVE  Standing
<1>1. \A q \in Scripts : SameButFile(s[q], s'[q])
  <2>1. CASE RenameIds \/ RemoveIds
    BY <2>1, FilesMove
  <2>2. CASE ReadIds \/ MarkLate \/ WorkerRestarts \/ Mood
    BY <2>2 DEF ReadIds, MarkLate, WorkerRestarts, Mood, SameButFile, SameList, Alike
  <2> QED
    BY <2>1, <2>2
<1> QED
  BY <1>1 DEF Standing, RenameIds, ReadIds, RemoveIds, MarkLate, WorkerRestarts, Mood, collector,
              files, spool_history, mails

\* What the collector and a person do keeps alerts and names together.
LEMMA CollectorNames ==
    ASSUME SpoolShape, AllNamed,
           \/ SendAlert \/ SendFlush \/ Worker \/ Kill \/ WorkerDies \/ WorkerRestarts \/ Prompt
           \/ Mood
    PROVE  AllNamed'
<1>0. /\ FilesAreNamed /\ (\A q \in Scripts : RunIsNamed(s[q])) /\ OnlyBegun
      /\ {"worker", "prompt", "orphan"} = Scripts
  BY DEF AllNamed, Scripts
<1>1. CASE JobEnds \/ Kill
  <2>1. Moved("worker", Gone) /\ Gone.job \notin Alerts
    BY <1>1, WorkerEnds, GoneIs, AlertsAreNumbers
  <2>2. Onward(s["worker"], Gone)
    BY <1>0, <2>1, GoneIs, OverIsOnward DEF Unnamed
  <2>3. \A id \in inbox' : id \in inbox \/ Begun(id)
    <3>1. CASE JobEnds
      BY <3>1 DEF JobEnds
    <3>2. CASE Kill
      <4>1. s["worker"].pc \in {"hand", "deliver"}
        BY <3>2 DEF Kill, Waiting
      <4>2. s["worker"].pc = "deliver" => s["worker"].job \in Alerts
        BY <1>0, RunIs DEF RunInOrder, Own
      <4>3. s["worker"].job \in Alerts => Begun(s["worker"].job)
        BY <1>0 DEF OnlyBegun
      <4>4. s["worker"].pc = "hand" => \A id \in s["worker"].text : Begun(id)
        BY <1>0, TextHasBegun
      <4> QED
        BY <3>2, <4>1, <4>2, <4>3, <4>4 DEF Kill
    <3> QED
      BY <1>1, <3>1, <3>2
  <2>4. UNCHANGED <<queue, sent, named, spool, tmp>>
    BY <1>1 DEF JobEnds, Kill, files
  <2> QED
    BY <1>0, <2>1, <2>2, <2>3, <2>4, NamedKept DEF FilesAreNamed
<1>2. CASE Prompt
  <2>1. PICK r \in Runs : Moved("prompt", r) /\ r.job = Flush /\ Emptied(r) /\ r.pc = "lock"
    BY <1>2, PromptMoves
  <2>2. Onward(s["prompt"], r)
    BY <1>0, <2>1, AlertsAreNumbers, OverIsOnward DEF Unnamed
  <2>3. UNCHANGED <<queue, sent, named, spool, tmp, inbox>>
    BY <1>2 DEF Prompt, collector, files, spool_history, mails
  <2> QED
    BY <1>0, <2>1, <2>2, <2>3, NamedKept DEF FilesAreNamed
<1>3. CASE RenameIds \/ ReadIds \/ RemoveIds \/ MarkLate \/ WorkerRestarts \/ Mood
  <2>1. Standing
    BY <1>3, StandingIs
  <2>2. \A q \in Scripts : RunIsNamed(s'[q])
    <3>1. ASSUME NEW a, NEW b, SameButFile(a, b), RunIsNamed(a) PROVE RunIsNamed(b)
      BY <3>1 DEF SameButFile, SameList, Alike, RunIsNamed, Unnamed, InHand
    <3> QED
      BY <1>0, <2>1, <3>1 DEF Standing
  <2>3. QueueInOrder' /\ FilesAreNamed' /\ RunsDiffer'
    BY <2>1 DEF Standing, SameButFile, Alike, AllNamed, QueueInOrder, FilesAreNamed, RunsDiffer
  <2>4. OnlyBegun'
    BY <2>1 DEF Standing, SameButFile, Alike, AllNamed, OnlyBegun, Begun
  <2>5. \A q \in Scripts : RunIsNamed(s[q])'
    BY <2>1, <2>2 DEF RunIsNamed, Standing
  <2> QED
    BY <2>3, <2>4, <2>5 DEF AllNamed
<1> QED
  BY <1>1, <1>2, <1>3, QueueGrows, QueueShrinks, DyingNames DEF Worker

-----------------------------------------------------------------------------
(***************************************************************************)
(* What is removed, marked or written down has arrived                     *)
(***************************************************************************)
\* Two alerts of one name clash, and no clash is undone.
LEMMA ClashIs ==
    ASSUME NEW f, NEW a, NEW b, <<f, a>> \in named, <<f, b>> \in named, a # b
    PROVE  a \in Clashed /\ b \in Clashed
<1>1. <<f, a>>[1] = f /\ <<f, a>>[2] = a /\ <<f, b>>[1] = f /\ <<f, b>>[2] = b
  OBVIOUS
<1> QED
  BY <1>1 DEF Clashed

\* Mails that clash go on to.
LEMMA ClashKept ==
    ASSUME named \subseteq named'
    PROVE  Clashed \subseteq Clashed'
BY DEF Clashed

\* A run has read again what it has read, when files go, and when mails clash.
StillRead(list) ==
    \A f \in list \cap DOMAIN spool' :
        spool'[f] \in Clashed \/ (f \in DOMAIN spool /\ spool'[f] = spool[f])

\* What a run has handed over stays so while files only go.
LEMMA HandedKept ==
    ASSUME NEW r, HandedOver(r), StillRead(InHand(r)), named \subseteq named', inbox \subseteq inbox'
    PROVE  HandedOver(r)'
<1>1. Clashed \subseteq Clashed'
  BY ClashKept
<1> QED
  BY <1>1 DEF HandedOver, StillRead, InHand

\* A run that has nothing in hand.
LEMMA NothingInHand ==
    ASSUME NEW r, r.list = r.unread, r.pc \notin {"open", "write"}
    PROVE  HandedOver(r)'
BY DEF HandedOver, InHand

\* A step of one run.
LEMMA ArrivedKept ==
    ASSUME SpoolShape, AllArrived, NEW p \in Scripts, NEW r, Moved(p, r),
           named \subseteq named', inbox \subseteq inbox', shown \subseteq shown',
           \A q \in Scripts : StillRead(s[q].list),
           HandedOver(r)', SaysWhatItDid(r)', TmpIsNew', NotedArrived'
    PROVE  AllArrived'
<1>1. \A q \in Scripts : s'[q] = IF q = p THEN r ELSE s[q]
  BY DEF Moved
<1>2. ASSUME NEW q \in Scripts \ {p} PROVE HandedOver(s[q])' /\ SaysWhatItDid(s[q])'
  <2>1. HandedOver(s[q]) /\ SaysWhatItDid(s[q]) /\ s'[q] = s[q]
    BY <1>1 DEF AllArrived
  <2>2. StillRead(InHand(s[q]))
    BY DEF StillRead, InHand
  <2> DEFINE a == s[q]
  <2>3. Clashed \subseteq Clashed'
    BY ClashKept
  <2>4. HandedOver(s[q])'
    BY <2>1, <2>2, <2>3 DEF HandedOver, StillRead, InHand
  <2>5. SaysWhatItDid(s[q])'
    BY <2>1 DEF SaysWhatItDid
  <2> QED
    BY <2>4, <2>5
<1>3. HandedOver(s[p])' /\ SaysWhatItDid(s[p])'
  BY <1>1 DEF HandedOver, SaysWhatItDid, InHand
<1> QED
  BY <1>2, <1>3 DEF AllArrived

\* Files that go, and lists of files that are there, make no .tmp file less new.
LEMMA TmpKept ==
    ASSUME TmpIsNew, named \subseteq named', tmp' = tmp, DOMAIN spool' \subseteq DOMAIN spool,
           \A q \in Scripts : s'[q].list \subseteq s[q].list \cup DOMAIN spool
    PROVE  TmpIsNew'
<1>1. Clashed \subseteq Clashed'
  BY ClashKept
<1> QED
  BY <1>1 DEF TmpIsNew

\* What was noted stays noted.
LEMMA NotedKept ==
    ASSUME NotedArrived, named \subseteq named', inbox \subseteq inbox', shown \subseteq shown',
           UNCHANGED <<ids, taken, late, marked>>
    PROVE  NotedArrived'
<1>1. Clashed \subseteq Clashed'
  BY ClashKept
<1> QED
  BY <1>1 DEF NotedArrived

\* What the script does keeps it.
LEMMA RunArrives ==
    ASSUME SpoolShape, AllNamed, AllArrived, NEW p \in Scripts, Script(p)
    PROVE  AllArrived'
<1>0. /\ HandedOver(s[p]) /\ SaysWhatItDid(s[p]) /\ TmpIsNew /\ NotedArrived /\ FilesAreNamed
      /\ RunInOrder(s[p])
  BY RunIs DEF AllArrived, AllNamed
<1>1. CASE Dedupe(p) \/ TakeLock(p) \/ Banner(p) \/ Exit(p) \/ Deliver(p)
  <2>1. UNCHANGED <<ids, taken, late, marked, spool, tmp, named>>
    BY <1>1 DEF Dedupe, TakeLock, Banner, Exit, Deliver, collector, files, spool_history, mails
  <2>2. inbox \subseteq inbox' /\ shown \subseteq shown'
    <3>1. CASE Deliver(p)
      <4>1. shown' = shown
        BY <3>1 DEF Deliver
      <4> QED
        BY <3>1, <4>1, DeliverMoves
    <3>2. CASE Banner(p)
      <4>1. inbox' = inbox
        BY <3>2 DEF Banner
      <4> QED
        BY <3>2, <4>1, BannerMoves
    <3>3. CASE Dedupe(p) \/ TakeLock(p) \/ Exit(p)
      BY <3>3 DEF Dedupe, TakeLock, Exit, spool_history, mails
    <3> QED
      BY <1>1, <3>1, <3>2, <3>3
  <2>3. PICK r \in Runs : /\ Moved(p, r) /\ Emptied(r) /\ SaysWhatItDid(r)'
                          /\ r.pc \in {"exit", "lock", "list", "ended", "none", "banner", "seq"}
    <3>1. CASE Dedupe(p)
      <4>1. PICK r \in Runs : /\ Moved(p, r) /\ Emptied(r) /\ r.job = s[p].job
                              /\ r.banner = s[p].banner /\ r.mail \in {s[p].mail, "SKIP"}
                              /\ r.pc \in {"exit", "lock"}
        BY <3>1, DedupeMoves
      <4> QED
        BY <1>0, <2>2, <4>1 DEF SaysWhatItDid
    <3>2. CASE TakeLock(p)
      <4>1. PICK r \in Runs : Moved(p, r) /\ Emptied(r) /\ Alike(s[p], r) /\ r.pc = "list"
        BY <3>2, TakeLockMoves
      <4> QED
        BY <1>0, <2>2, <4>1 DEF SaysWhatItDid, Alike
    <3>3. CASE Banner(p)
      <4>1. PICK r \in Runs : /\ Moved(p, r) /\ Emptied(r) /\ r.job = s[p].job
                              /\ r.mail = s[p].mail /\ r.pc = "exit"
                              /\ shown' = IF r.banner THEN shown \cup {s[p].job} ELSE shown
        BY <3>3, BannerMoves
      <4> QED
        BY <1>0, <2>2, <4>1 DEF SaysWhatItDid
    <3>4. CASE Exit(p)
      <4>1. PICK r \in Runs : /\ Moved(p, r) /\ Emptied(r)
                              /\ r = Gone \/ (Alike(s[p], r) /\ r.pc = "ended")
        BY <3>4, ExitMoves
      <4> QED
        BY <1>0, <2>2, <4>1, GoneIs DEF SaysWhatItDid, Alike
    <3>5. CASE Deliver(p)
      <4>1. PICK r \in Runs, got \in BOOLEAN :
              /\ Moved(p, r) /\ Emptied(r) /\ r.job = s[p].job /\ r.banner = s[p].banner
              /\ inbox' = IF got THEN inbox \cup {s[p].job} ELSE inbox
              /\ (got /\ r.pc = "banner" /\ r.mail = "OK") \/ (r.pc = "seq" /\ r.mail = "FAIL")
        BY <3>5, DeliverMoves
      <4> QED
        BY <1>0, <2>2, <4>1 DEF SaysWhatItDid
    <3> QED
      BY <1>1, <3>1, <3>2, <3>3, <3>4, <3>5
  <2>4. TmpIsNew'
    <3>1. \A q \in Scripts : s'[q].list \subseteq s[q].list
      BY <2>3 DEF Moved, Emptied
    <3> QED
      BY <1>0, <2>1, <3>1, TmpKept
  <2>5. NotedArrived'
    BY <1>0, <2>1, <2>2, NotedKept
  <2>6. \A q \in Scripts : StillRead(s[q].list)
    BY <2>1 DEF StillRead
  <2>7. HandedOver(r)'
    BY <2>3, NothingInHand DEF Emptied
  <2> QED
    BY <2>1, <2>2, <2>3, <2>4, <2>5, <2>6, <2>7, ArrivedKept
<1>2. CASE ListSpool(p) \/ ReadFile(p) \/ NoteId(p)
  <2>1. UNCHANGED <<ids, taken, late, marked, spool, tmp, named, inbox, shown>>
    BY <1>2 DEF ListSpool, ReadFile, NoteId, collector, files, spool_history, mails
  <2>2. PICK r \in Runs : /\ Moved(p, r) /\ Alike(s[p], r) /\ HandedOver(r)
                          /\ r.list \subseteq s[p].list \cup DOMAIN spool
    <3>1. CASE ListSpool(p)
      <4>1. PICK r \in Runs :
              /\ Moved(p, r) /\ Alike(s[p], r)
              /\ \/ DOMAIN spool = {} /\ Emptied(r) /\ r.pc = AfterFlush(s[p])
                 \/ r.pc = "read" /\ r.list = DOMAIN spool /\ r.unread = DOMAIN spool
        BY <3>1, ListSpoolMoves
      <4> QED
        BY <4>1 DEF Emptied, AfterFlush, HandedOver, InHand
    <3>2. CASE ReadFile(p)
      <4>1. PICK r \in Runs, f \in s[p].unread :
              /\ Moved(p, r) /\ Alike(s[p], r) /\ r.pc \in {"read", "hand"} /\ r.list = s[p].list
              /\ InHand(r) = InHand(s[p]) \cup {f} /\ r.text = s[p].text \cup Content(f)
        BY <3>2, ReadFileMoves
      <4>2. s[p].pc = "read"
        BY <3>2 DEF ReadFile, AtStep
      <4> QED
        BY <1>0, <4>1, <4>2 DEF HandedOver, Content, Noting
    <3>3. CASE NoteId(p)
      <4>1. PICK r \in Runs :
              /\ Moved(p, r) /\ Alike(s[p], r) /\ SameList(s[p], r)
              /\ IF s[p].file \in DOMAIN spool THEN r.pc = "open" /\ r.id = spool[s[p].file]
                                               ELSE r.pc = "remove"
        BY <3>3, NoteIdMoves
      <4>2. s[p].pc = "note" /\ s[p].file \in InHand(s[p])
        BY <1>0, <3>3 DEF NoteId, AtStep, RunInOrder, Noting
      <4> QED
        BY <1>0, <4>1, <4>2 DEF HandedOver, SameList, InHand, Noting
    <3> QED
      BY <1>2, <3>1, <3>2, <3>3
  <2>3. \A q \in Scripts : StillRead(s[q].list)
    BY <2>1 DEF StillRead
  <2>4. TmpIsNew'
    <3>1. \A q \in Scripts : s'[q].list \subseteq s[q].list \cup DOMAIN spool
      BY <2>2 DEF Moved
    <3> QED
      BY <1>0, <2>1, <3>1, TmpKept
  <2>5. NotedArrived'
    BY <1>0, <2>1, NotedKept
  <2>6. HandedOver(r)'
    <3>1. StillRead(InHand(r))
      BY <2>1 DEF StillRead
    <3> QED
      BY <2>1, <2>2, <3>1, HandedKept
  <2>7. SaysWhatItDid(r)'
    BY <1>0, <2>1, <2>2 DEF SaysWhatItDid, Alike
  <2> QED
    BY <2>1, <2>2, <2>3, <2>4, <2>5, <2>6, <2>7, ArrivedKept
<1>3. CASE HandOver(p)
  <2>1. UNCHANGED <<ids, taken, late, marked, spool, tmp, named, shown>>
    BY <1>3 DEF HandOver, collector, files
  <2>2. PICK r \in Runs, got \in BOOLEAN :
          /\ Moved(p, r) /\ Alike(s[p], r)
          /\ inbox' = IF got THEN inbox \cup s[p].text ELSE inbox
          /\ \/ got /\ r.pc = "note" /\ SameList(s[p], r)
             \/ Emptied(r) /\ r.pc = AfterFailure(s[p])
    BY <1>3, HandOverMoves
  <2>3. \A q \in Scripts : StillRead(s[q].list)
    BY <2>1 DEF StillRead
  <2>4. TmpIsNew'
    <3>1. \A q \in Scripts : s'[q].list \subseteq s[q].list
      BY <2>2 DEF Moved, SameList, Emptied
    <3> QED
      BY <1>0, <2>1, <3>1, TmpKept
  <2>5. inbox \subseteq inbox'
    BY <2>2
  <2>6. NotedArrived'
    BY <1>0, <2>1, <2>5, NotedKept
  <2>7. HandedOver(r)'
    <3>1. CASE Emptied(r) /\ r.pc = AfterFailure(s[p])
      BY <3>1, NothingInHand DEF Emptied, AfterFailure
    <3>2. CASE got /\ r.pc = "note" /\ SameList(s[p], r)
      <4>1. s[p].pc = "hand" /\ inbox' = inbox \cup s[p].text
        BY <1>3, <2>2, <3>2 DEF HandOver, AtStep
      <4>2. Clashed' = Clashed
        BY <2>1 DEF Clashed
      <4> QED
        BY <1>0, <2>1, <3>2, <4>1, <4>2 DEF HandedOver, SameList, InHand, Noting
    <3> QED
      BY <2>2, <3>1, <3>2
  <2>8. SaysWhatItDid(r)'
    BY <1>0, <2>1, <2>2, <2>5 DEF SaysWhatItDid, Alike
  <2> QED
    BY <2>1, <2>2, <2>3, <2>4, <2>5, <2>6, <2>7, <2>8, ArrivedKept
<1>4. CASE OpenIds(p) \/ WriteId(p)
  <2>1. UNCHANGED <<late, marked, spool, tmp, named, inbox, shown>>
    BY <1>4 DEF OpenIds, WriteId, collector, spool_history, mails
  <2>2. PICK r \in Runs : /\ Moved(p, r) /\ Alike(s[p], r) /\ SameList(s[p], r)
                          /\ \/ s[p].pc = "open" /\ r.pc = "write" /\ r.id = s[p].id
                             \/ s[p].pc = "write" /\ r.pc = "remove"
    BY <1>4, OpenIdsMoves, WriteIdMoves DEF OpenIds, WriteId, AtStep
  <2>3. HandedOver(r)
    BY <1>0, <2>2 DEF HandedOver, SameList, InHand, Noting
  <2>4. \A q \in Scripts : StillRead(s[q].list)
    BY <2>1 DEF StillRead
  <2>5. TmpIsNew'
    <3>1. \A q \in Scripts : s'[q].list \subseteq s[q].list
      BY <2>2 DEF Moved, SameList
    <3> QED
      BY <1>0, <2>1, <3>1, TmpKept
  <2>6. NotedArrived'
    <3>1. Clashed' = Clashed
      BY <2>1 DEF Clashed
    <3>2. CASE OpenIds(p)
      <4>1. taken' = taken /\ (ids' = ids \/ ids' = {})
        BY <3>2 DEF OpenIds
      <4> QED
        BY <1>0, <2>1, <3>1, <4>1 DEF NotedArrived
    <3>3. CASE WriteId(p)
      <4>1. s[p].id \in inbox \cup Clashed
        BY <1>0, <3>3 DEF HandedOver, WriteId, AtStep
      <4>2. ids' \subseteq ids \cup {s[p].id} /\ taken' \subseteq taken \cup {s[p].id}
        BY <3>3 DEF WriteId
      <4> QED
        BY <1>0, <2>1, <3>1, <4>1, <4>2 DEF NotedArrived
    <3> QED
      BY <1>4, <3>2, <3>3
  <2>7. HandedOver(r)'
    <3>1. StillRead(InHand(r))
      BY <2>1 DEF StillRead
    <3> QED
      BY <2>1, <2>3, <3>1, HandedKept
  <2>8. SaysWhatItDid(r)'
    BY <1>0, <2>1, <2>2 DEF SaysWhatItDid, Alike
  <2> QED
    BY <2>1, <2>2, <2>4, <2>5, <2>6, <2>7, <2>8, ArrivedKept
<1>5. CASE RemoveFile(p)
  <2>1. UNCHANGED <<ids, taken, late, marked, tmp, named, inbox, shown>>
        /\ spool' = Without(spool, s[p].file)
    BY <1>5 DEF RemoveFile, collector, spool_history, mails
  <2>2. PICK r \in Runs :
          /\ Moved(p, r) /\ Alike(s[p], r) /\ r.list \subseteq s[p].list
          /\ InHand(r) \subseteq InHand(s[p])
          /\ \/ Emptied(r) /\ r.pc = AfterFlush(s[p])
             \/ r.pc = "note"
             \/ r.pc = "read" /\ r.unread = r.list
    BY <1>5, RemoveFileMoves
  <2>3. \A q \in Scripts : StillRead(s[q].list)
    BY <2>1 DEF StillRead, Without
  <2>4. TmpIsNew'
    <3>1. \A q \in Scripts : s'[q].list \subseteq s[q].list
      BY <2>2 DEF Moved
    <3>2. DOMAIN spool' \subseteq DOMAIN spool
      BY <2>1 DEF Without
    <3> QED
      BY <1>0, <2>1, <3>1, <3>2, TmpKept
  <2>5. NotedArrived'
    BY <1>0, <2>1, NotedKept
  <2>6. HandedOver(r)'
    <3>1. CASE r.pc = "note"
      <4>1. s[p].pc = "remove"
        BY <1>5 DEF RemoveFile, AtStep
      <4>2. HandedOver(r)
        BY <1>0, <2>2, <3>1, <4>1 DEF HandedOver, Noting
      <4>3. StillRead(InHand(r))
        BY <2>1 DEF StillRead, Without
      <4> QED
        BY <2>1, <4>2, <4>3, HandedKept
    <3>2. CASE Emptied(r) /\ r.pc = AfterFlush(s[p])
      BY <3>2, NothingInHand DEF Emptied, AfterFlush
    <3>3. CASE r.pc = "read" /\ r.unread = r.list
      BY <3>3, NothingInHand
    <3> QED
      BY <2>2, <3>1, <3>2, <3>3
  <2>7. SaysWhatItDid(r)'
    BY <1>0, <2>1, <2>2 DEF SaysWhatItDid, Alike
  <2> QED
    BY <2>1, <2>2, <2>3, <2>4, <2>5, <2>6, <2>7, ArrivedKept
<1>6. CASE AddStep(p)
  <2>1. UNCHANGED <<ids, taken, late, marked, inbox, shown>>
    BY <1>6 DEF AddStep, ReadSeq, TruncateSeq, WriteSeq, WriteTmp, MoveTmp, CountSpool, FindOldest,
                DropOldest, collector, files, spool_history, mails
  <2>2. PICK r \in Runs :
          /\ Moved(p, r) /\ Emptied(r) /\ SameRun(s[p], r) /\ r.mail \in {s[p].mail, "SPOOLED"}
          /\ ReadSeq(p) => r.pc = "empty"
          /\ TruncateSeq(p) => r.pc = "number"
          /\ WriteSeq(p) => r.pc = "tmp"
          /\ WriteTmp(p) => /\ r.pc = "move"
                            /\ tmp' = Put(tmp, r.file, s[p].job)
                            /\ named' = named \cup {<<r.file, s[p].job>>}
          /\ MoveTmp(p) => r.pc \in {"count", "banner"}
          /\ CountSpool(p) => r.pc \in {"oldest", "banner"}
          /\ FindOldest(p) => r.pc \in {"drop", "banner"}
          /\ DropOldest(p) => r.pc = "count"
    BY <1>6, AddStepMoves
  <2>3. r.pc \notin {"open", "write"}
    BY <1>6, <2>2 DEF AddStep
  <2>4. HandedOver(r)'
    BY <2>2, <2>3, NothingInHand DEF Emptied
  <2>5. SaysWhatItDid(r)'
    BY <1>0, <2>1, <2>2 DEF SaysWhatItDid, SameRun
  <2>6. named \subseteq named'
    <3>1. ~WriteTmp(p) => named' = named
      BY <1>6 DEF AddStep, ReadSeq, TruncateSeq, WriteSeq, MoveTmp, CountSpool, FindOldest,
                  DropOldest, spool_history
    <3> QED
      BY <2>2, <3>1
  <2>7. NotedArrived'
    BY <1>0, <2>1, <2>6, NotedKept
  <2>8. \A q \in Scripts : s'[q].list \subseteq s[q].list
    BY <2>2 DEF Moved, Emptied
  <2>9. (\A q \in Scripts : StillRead(s[q].list)) /\ TmpIsNew'
    <3>1. CASE WriteTmp(p)
      <4>1. spool' = spool
        BY <3>1 DEF WriteTmp
      <4>2. s[p].job \in Alerts /\ \A x \in named : x[2] # s[p].job
        BY <1>0, <3>1 DEF WriteTmp, AtStep, RunInOrder, Own, Placing, Numbering, AllNamed,
                          RunIsNamed, Unnamed
      <4>3. tmp' = Put(tmp, r.file, s[p].job) /\ named' = named \cup {<<r.file, s[p].job>>}
        BY <2>2, <3>1
      <4>4. \A g \in DOMAIN tmp' : g # r.file => g \in DOMAIN tmp /\ tmp'[g] = tmp[g]
        BY <4>3 DEF Put
      <4>5. r.file \in DOMAIN tmp' /\ tmp'[r.file] = s[p].job
        BY <4>3 DEF Put
      <4>6. CASE \E x \in named : x[1] = r.file
        <5>1. PICK x \in named : x[1] = r.file
          BY <4>6
        <5>2. <<r.file, s[p].job>> \in named' /\ x \in named' /\ x[2] # s[p].job
          BY <4>2, <4>3
        <5>3. s[p].job \in Clashed'
          <6>1. <<r.file, s[p].job>>[1] = r.file /\ <<r.file, s[p].job>>[2] = s[p].job
            OBVIOUS
          <6> QED
            BY <5>1, <5>2, <6>1 DEF Clashed
        <5>4. Clashed \subseteq Clashed'
          BY <2>6, ClashKept
        <5> QED
          BY <1>0, <2>8, <4>1, <4>4, <4>5, <5>3, <5>4 DEF TmpIsNew, StillRead
      <4>7. CASE ~\E x \in named : x[1] = r.file
        <5>1. r.file \notin DOMAIN spool
          <6>1. \A f \in DOMAIN spool : <<f, spool[f]>> \in named /\ <<f, spool[f]>>[1] = f
            BY <1>0 DEF FilesAreNamed
          <6> QED
            BY <4>7, <6>1
        <5>2. \A q \in Scripts : r.file \notin s[q].list
          BY <4>7 DEF AllNamed, RunIsNamed
        <5>3. Clashed \subseteq Clashed'
          BY <2>6, ClashKept
        <5> QED
          BY <1>0, <2>8, <4>1, <4>4, <4>5, <5>1, <5>2, <5>3 DEF TmpIsNew, StillRead
      <4> QED
        BY <4>6, <4>7
    <3>2. CASE MoveTmp(p)
      <4> DEFINE f == s[p].file
      <4>1. Clashed \subseteq Clashed'
        BY <2>6, ClashKept
      <4>2. CASE f \in DOMAIN tmp
        <5>1. spool' = Put(spool, f, tmp[f]) /\ tmp' = Without(tmp, f)
          BY <3>2, <4>2 DEF MoveTmp
        <5>2. tmp[f] \in Clashed \/ \A q \in Scripts : f \notin s[q].list
          BY <1>0, <4>2 DEF TmpIsNew
        <5>3. \A q \in Scripts : StillRead(s[q].list)
          BY <5>1, <5>2 DEF StillRead, Put
        <5>4. \A g \in DOMAIN tmp' : g \in DOMAIN tmp /\ tmp'[g] = tmp[g] /\ g # f
          BY <5>1 DEF Without
        <5>5. \A g : g # f /\ g \notin DOMAIN spool => g \notin DOMAIN spool'
          BY <5>1 DEF Put
        <5> QED
          BY <1>0, <2>8, <4>1, <5>3, <5>4, <5>5 DEF TmpIsNew
      <4>3. CASE f \notin DOMAIN tmp
        <5>1. UNCHANGED <<spool, tmp>>
          BY <3>2, <4>3 DEF MoveTmp
        <5> QED
          BY <1>0, <2>6, <2>8, <5>1, TmpKept DEF StillRead
      <4> QED
        BY <4>2, <4>3
    <3>3. CASE ~WriteTmp(p) /\ ~MoveTmp(p)
      <4>1. tmp' = tmp /\ (spool' = spool \/ spool' = Without(spool, s[p].file))
        BY <1>6, <3>3 DEF AddStep, ReadSeq, TruncateSeq, WriteSeq, CountSpool, FindOldest,
                          DropOldest, files
      <4>2. DOMAIN spool' \subseteq DOMAIN spool /\ \A g \in DOMAIN spool' : spool'[g] = spool[g]
        BY <4>1 DEF Without
      <4> QED
        BY <1>0, <2>6, <2>8, <4>1, <4>2, TmpKept DEF StillRead
    <3> QED
      BY <3>1, <3>2, <3>3
  <2> QED
    BY <2>1, <2>2, <2>4, <2>5, <2>6, <2>7, <2>9, ArrivedKept
<1> QED
  BY <1>1, <1>2, <1>3, <1>4, <1>5, <1>6 DEF Script, FlushStep

\* What the collector and a person do keeps it.
LEMMA CollectorArrives ==
    ASSUME SpoolShape, AllNamed, AllArrived,
           \/ SendAlert \/ SendFlush \/ Worker \/ Kill \/ WorkerDies \/ WorkerRestarts \/ Prompt
           \/ Mood
    PROVE  AllArrived'
<1>0. /\ TmpIsNew /\ NotedArrived /\ {"worker", "prompt", "orphan"} = Scripts
      /\ \A q \in Scripts : HandedOver(s[q]) /\ SaysWhatItDid(s[q])
  BY DEF AllArrived, Scripts
<1>1. CASE SendAlert \/ SendFlush
  <2>1. UNCHANGED <<s, spool, tmp, ids, taken, late, marked, inbox, shown, named>>
    BY <1>1 DEF SendAlert, SendFlush, files, spool_history, mails
  <2> QED
    BY <1>0, <2>1 DEF AllArrived, TmpIsNew, NotedArrived, HandedOver, SaysWhatItDid, Clashed, InHand
<1>2. CASE TakeJob \/ Prompt
  <2>1. PICK p \in Scripts, r \in Runs :
           /\ Moved(p, r) /\ Emptied(r) /\ r.mail = "FAIL" /\ ~r.banner
           /\ r.pc \in {"dedupe", "lock"}
    BY <1>0, <1>2, TakeJobMoves, PromptMoves
  <2>2. UNCHANGED <<spool, tmp, ids, taken, late, marked, inbox, shown, named>>
    BY <1>2 DEF TakeJob, Prompt, collector, files, spool_history, mails
  <2>3. (\A q \in Scripts : s'[q].list \subseteq s[q].list) /\ \A q \in Scripts : StillRead(s[q].list)
    BY <2>1, <2>2 DEF Moved, Emptied, StillRead
  <2>4. HandedOver(r)' /\ SaysWhatItDid(r)'
    BY <2>1, NothingInHand DEF Emptied, SaysWhatItDid
  <2>5. TmpIsNew' /\ NotedArrived'
    BY <1>0, <2>2, <2>3, TmpKept, NotedKept
  <2> QED
    BY <2>1, <2>2, <2>3, <2>4, <2>5, ArrivedKept
<1>3. CASE JobEnds \/ Kill
  <2>1. Moved("worker", Gone)
    BY <1>3, WorkerEnds
  <2>2. UNCHANGED <<spool, tmp, ids, taken, late, shown, named>> /\ inbox \subseteq inbox'
    BY <1>3 DEF JobEnds, Kill, files
  <2>3. (\A q \in Scripts : s'[q].list \subseteq s[q].list) /\ \A q \in Scripts : StillRead(s[q].list)
    BY <2>1, <2>2, GoneIs DEF Moved, Emptied, StillRead
  <2>4. HandedOver(Gone)' /\ SaysWhatItDid(Gone)'
    BY NothingInHand, GoneIs DEF Emptied, SaysWhatItDid
  <2>5. TmpIsNew'
    BY <1>0, <2>2, <2>3, TmpKept
  <2>6. marked' \subseteq inbox' \cup shown' \cup Clashed'
    <3>1. CASE Kill
      BY <1>0, <2>2, <3>1 DEF Kill, NotedArrived, Clashed
    <3>2. CASE JobEnds
      <4>1. marked' \subseteq marked \cup inbox \cup shown
        BY <1>0, <3>2 DEF JobEnds, Delivered, SaysWhatItDid
      <4> QED
        BY <1>0, <2>2, <4>1 DEF NotedArrived, Clashed
    <3> QED
      BY <1>3, <3>1, <3>2
  <2>7. NotedArrived'
    BY <1>0, <2>2, <2>6 DEF NotedArrived, Clashed
  <2> QED
    BY <1>0, <2>1, <2>2, <2>3, <2>4, <2>5, <2>7, ArrivedKept
<1>4. CASE WorkerDies
  <2>1. UNCHANGED <<spool, tmp, ids, taken, marked, inbox, shown, named>> /\ late' = {}
    BY <1>4 DEF WorkerDies, mails
  <2>2. /\ s'["worker"] = Gone /\ s'["orphan"] \in {Gone, s["worker"]} /\ s'["prompt"] = s["prompt"]
    BY <1>4, DyingMoves
  <2>3. HandedOver(Gone) /\ SaysWhatItDid(Gone) /\ Gone.list = {}
    BY GoneIs DEF HandedOver, InHand, SaysWhatItDid, Emptied
  <2>4. \A q \in Scripts : HandedOver(s'[q]) /\ SaysWhatItDid(s'[q])
    BY <1>0, <2>2, <2>3
  <2>5. \A q \in Scripts : HandedOver(s[q])' /\ SaysWhatItDid(s[q])'
    BY <2>1, <2>4 DEF HandedOver, SaysWhatItDid, Clashed, InHand
  <2>6. TmpIsNew'
    BY <1>0, <2>1, <2>2, <2>3 DEF TmpIsNew, Clashed
  <2>7. NotedArrived'
    BY <1>0, <2>1 DEF NotedArrived, Clashed
  <2> QED
    BY <2>5, <2>6, <2>7 DEF AllArrived
<1>5. CASE RenameIds \/ ReadIds \/ RemoveIds \/ MarkLate \/ WorkerRestarts \/ Mood
  <2>1. Standing
    BY <1>5, StandingIs
  <2>2. \A q \in Scripts : HandedOver(s[q])' /\ SaysWhatItDid(s[q])'
    BY <1>0, <2>1 DEF Standing, SameButFile, SameList, Alike, HandedOver, SaysWhatItDid, Clashed, InHand
  <2>3. TmpIsNew'
    BY <1>0, <2>1 DEF Standing, SameButFile, SameList, TmpIsNew, Clashed
  <2>4. NotedArrived'
    <3>1. CASE MarkLate
      BY <1>0, <2>1, <3>1 DEF MarkLate, files, NotedArrived, Standing, Clashed
    <3>2. CASE RenameIds
      BY <1>0, <2>1, <3>2 DEF RenameIds, NotedArrived, Standing, Clashed
    <3>3. CASE ReadIds
      <4>1. Absent \notin {taken}
        BY <3>3 DEF ReadIds, SpoolShape, IdsInOrder
      <4>2. taken \in IdFile
        BY DEF SpoolShape, SpoolTypeOK
      <4>3. taken \ Absent = taken
        BY <4>1, <4>2, AlertsAreNumbers DEF IdFile, Absent
      <4>4. late' = taken /\ ids' = ids /\ taken' = taken /\ marked' = marked
        BY <3>3 DEF ReadIds, files
      <4> QED
        BY <1>0, <2>1, <4>3, <4>4 DEF NotedArrived, Standing, Clashed
    <3>4. CASE RemoveIds
      BY <1>0, <2>1, <3>4 DEF RemoveIds, NotedArrived, Standing, Clashed
    <3>5. CASE WorkerRestarts \/ Mood
      BY <1>0, <2>1, <3>5 DEF WorkerRestarts, Mood, collector, files, NotedArrived, Standing, Clashed
    <3> QED
      BY <1>5, <3>1, <3>2, <3>3, <3>4, <3>5
  <2> QED
    BY <2>2, <2>3, <2>4 DEF AllArrived
<1> QED
  BY <1>1, <1>2, <1>3, <1>4, <1>5 DEF Worker

\* The step keeps what is in the spool, but for what arrived, was dropped, or clashed.
LEMMA NothingLost ==
    ASSUME SpoolShape, AllNamed, AllArrived, SpoolNext
    PROVE  SpooledStays
<1>0. /\ FilesAreNamed /\ TmpIsNew /\ \A q \in Scripts : HandedOver(s[q])
      /\ \A q \in Scripts : RunInOrder(s[q])
  BY RunIs DEF AllArrived, AllNamed
<1>1. CASE \E p \in Scripts : RemoveFile(p)
  <2>1. PICK p \in Scripts : RemoveFile(p)
    BY <1>1
  <2>2. /\ spool' = Without(spool, s[p].file) /\ named' = named /\ inbox' = inbox
        /\ s[p].pc = "remove"
    BY <2>1 DEF RemoveFile, AtStep, spool_history, mails
  <2>3. s[p].file \in InHand(s[p])
    BY <2>1, RemoveFileMoves
  <2>4. s[p].file \in DOMAIN spool => spool[s[p].file] \in Clashed \cup inbox
    BY <1>0, <2>2, <2>3 DEF HandedOver, Noting
  <2>5. Clashed' = Clashed
    BY <2>2 DEF Clashed
  <2> QED
    BY <2>2, <2>4, <2>5 DEF SpooledStays, Without
<1>2. CASE \E p \in Scripts : DropOldest(p)
  <2>1. PICK p \in Scripts : DropOldest(p)
    BY <1>2
  <2>2. spool' = Without(spool, s[p].file) /\ dropped' = dropped \cup Content(s[p].file)
    BY <2>1 DEF DropOldest
  <2> QED
    BY <2>2 DEF SpooledStays, Without, Content
<1>3. CASE \E p \in Scripts : MoveTmp(p)
  <2>1. PICK p \in Scripts : MoveTmp(p)
    BY <1>3
  <2> DEFINE f == s[p].file
  <2>2. named' = named
    BY <2>1 DEF MoveTmp, spool_history
  <2>3. CASE f \in DOMAIN tmp
    <3>1. spool' = Put(spool, f, tmp[f])
      BY <2>1, <2>3 DEF MoveTmp
    <3>2. f \in DOMAIN spool /\ spool[f] # tmp[f] => spool[f] \in Clashed
      <4>1. f \in DOMAIN spool => <<f, spool[f]>> \in named /\ <<f, tmp[f]>> \in named
        BY <1>0, <2>3 DEF FilesAreNamed
      <4> HIDE DEF f
      <4> QED
        BY <4>1, ClashIs
    <3>3. Clashed' = Clashed
      BY <2>2 DEF Clashed
    <3> QED
      BY <3>1, <3>2, <3>3 DEF SpooledStays, Put
  <2>4. CASE f \notin DOMAIN tmp
    <3>1. spool' = spool
      BY <2>1, <2>4 DEF MoveTmp
    <3> QED
      BY <3>1 DEF SpooledStays
  <2> QED
    BY <2>3, <2>4
<1>4. CASE ~\E p \in Scripts : RemoveFile(p) \/ DropOldest(p) \/ MoveTmp(p)
  <2>1. spool' = spool
    <3>1. CASE SendAlert \/ SendFlush \/ TakeJob \/ JobEnds \/ Kill \/ WorkerDies \/ Prompt
      BY <3>1 DEF SendAlert, SendFlush, TakeJob, JobEnds, Kill, WorkerDies, Prompt, files
    <3>2. CASE RenameIds \/ ReadIds \/ RemoveIds \/ MarkLate \/ WorkerRestarts \/ Mood
      BY <3>2, StandingIs DEF Standing
    <3>3. CASE \E p \in Scripts : Script(p)
      BY <1>4, <3>3 DEF Script, FlushStep, AddStep, Dedupe, TakeLock, Deliver, Banner, Exit, ListSpool,
                        ReadFile, HandOver, NoteId, OpenIds, WriteId, ReadSeq, TruncateSeq, WriteSeq,
                        WriteTmp, CountSpool, FindOldest, files
    <3> QED
      BY <3>1, <3>2, <3>3 DEF SpoolNext, Worker
  <2> QED
    BY <2>1 DEF SpooledStays
<1> QED
  BY <1>1, <1>2, <1>3, <1>4

-----------------------------------------------------------------------------
(***************************************************************************)
(* Who may raise alerts, who has the lock, and who gives numbers           *)
(***************************************************************************)
\* A run is about its alert until it is over, gets past the lock by taking it or doing without,
\* and comes to number a mail only by reading the counter.
LEMMA RunGoesOn ==
    ASSUME SpoolShape, NEW p \in Scripts, Script(p)
    PROVE  \E r \in Runs :
              /\ Moved(p, r) /\ s[p].pc \notin {"none", "ended"}
              /\ r.job = s[p].job \/ r.job = Nothing
              /\ r.pc \in PastLock => s[p].pc \in PastLock \/ TakeLock(p)
              /\ r.pc \in Numbering \/ s[p].pc \in Numbering =>
                    ReadSeq(p) \/ TruncateSeq(p) \/ WriteSeq(p) \/ WriteTmp(p)
<1> USE DEF PastLock, Placing, Numbering, Listing, Noting
<1>0. s[p].job \in Alerts \/ s[p].job = Flush \/ s[p].job = Nothing
  BY RunIs DEF Jobs
<1>1. CASE Dedupe(p)
  <2>1. s[p].pc = "dedupe"
    BY <1>1 DEF Dedupe, AtStep
  <2> QED
    BY <1>1, <2>1, DedupeMoves
<1>2. CASE TakeLock(p)
  <2>1. s[p].pc = "lock"
    BY <1>2 DEF TakeLock, AtStep
  <2> QED
    BY <1>2, <2>1, TakeLockMoves DEF Alike
<1>3. CASE ListSpool(p)
  <2>1. s[p].pc = "list"
    BY <1>3 DEF ListSpool, AtStep
  <2> QED
    BY <1>3, <2>1, ListSpoolMoves DEF Alike, AfterFlush
<1>4. CASE ReadFile(p)
  <2>1. s[p].pc = "read"
    BY <1>4 DEF ReadFile, AtStep
  <2>2. PICK r \in Runs : Moved(p, r) /\ Alike(s[p], r) /\ r.pc \in {"read", "hand"}
    BY <1>4, ReadFileMoves
  <2> QED
    BY <2>1, <2>2 DEF Alike
<1>5. CASE HandOver(p)
  <2>1. s[p].pc = "hand"
    BY <1>5 DEF HandOver, AtStep
  <2>2. PICK r \in Runs : Moved(p, r) /\ Alike(s[p], r) /\ (r.pc = "note" \/ r.pc = AfterFailure(s[p]))
    BY <1>5, HandOverMoves
  <2> QED
    BY <2>1, <2>2 DEF Alike, AfterFailure
<1>6. CASE NoteId(p)
  <2>1. s[p].pc = "note"
    BY <1>6 DEF NoteId, AtStep
  <2> QED
    BY <1>6, <2>1, NoteIdMoves DEF Alike
<1>7. CASE OpenIds(p)
  <2>1. s[p].pc = "open"
    BY <1>7 DEF OpenIds, AtStep
  <2> QED
    BY <1>7, <2>1, OpenIdsMoves DEF Alike
<1>8. CASE WriteId(p)
  <2>1. s[p].pc = "write"
    BY <1>8 DEF WriteId, AtStep
  <2> QED
    BY <1>8, <2>1, WriteIdMoves DEF Alike
<1>9. CASE RemoveFile(p)
  <2>1. s[p].pc = "remove"
    BY <1>9 DEF RemoveFile, AtStep
  <2>2. PICK r \in Runs : Moved(p, r) /\ Alike(s[p], r) /\ r.pc \in {AfterFlush(s[p]), "note", "read"}
    BY <1>9, RemoveFileMoves
  <2> QED
    BY <2>1, <2>2 DEF Alike, AfterFlush
<1>10. CASE Deliver(p)
  <2>1. s[p].pc = "deliver"
    BY <1>10 DEF Deliver, AtStep
  <2>2. PICK r \in Runs : Moved(p, r) /\ r.job = s[p].job /\ r.pc \in {"banner", "seq"}
    BY <1>10, DeliverMoves
  <2> QED
    BY <2>1, <2>2
<1>11. CASE AddStep(p)
  <2>1. PICK r \in Runs :
          /\ Moved(p, r) /\ r.job = s[p].job
          /\ ReadSeq(p) => r.pc = "empty"
          /\ TruncateSeq(p) => r.pc = "number"
          /\ WriteSeq(p) => r.pc = "tmp"
          /\ WriteTmp(p) => r.pc = "move"
          /\ MoveTmp(p) => r.pc \in {"count", "banner"}
          /\ CountSpool(p) => r.pc \in {"oldest", "banner"}
          /\ FindOldest(p) => r.pc \in {"drop", "banner"}
          /\ DropOldest(p) => r.pc = "count"
    BY <1>11, AddStepMoves DEF SameRun
  <2>2. /\ s[p].pc \in Placing \cup {"move", "count", "oldest", "drop"}
        /\ MoveTmp(p) \/ CountSpool(p) \/ FindOldest(p) \/ DropOldest(p) =>
              s[p].pc \in {"move", "count", "oldest", "drop"}
    BY <1>11 DEF AddStep, ReadSeq, TruncateSeq, WriteSeq, WriteTmp, MoveTmp, CountSpool, FindOldest,
                 DropOldest, AtStep
  <2> QED
    BY <1>11, <2>1, <2>2 DEF AddStep
<1>12. CASE Banner(p)
  <2>1. s[p].pc = "banner"
    BY <1>12 DEF Banner, AtStep
  <2> QED
    BY <1>12, <2>1, BannerMoves
<1>13. CASE Exit(p)
  <2>1. s[p].pc = "exit"
    BY <1>13 DEF Exit, AtStep
  <2>2. PICK r \in Runs : /\ Moved(p, r) /\ r.pc \in {"none", "ended"}
                          /\ r.job = s[p].job \/ r.job = Nothing
    BY <1>13, ExitMoves, GoneIs DEF Alike
  <2> QED
    BY <2>1, <2>2
<1> QED
  BY <1>1, <1>2, <1>3, <1>4, <1>5, <1>6, <1>7, <1>8, <1>9, <1>10, <1>11, <1>12, <1>13
     DEF Script, FlushStep

\* The collector dies once at most, and a lock that a run did without is not made up for.
LEMMA OverlapsStay ==
    ASSUME SpoolShape, SpoolNext
    PROVE  /\ (deaths' = 0 => deaths = 0) /\ (unlocked => unlocked')
           /\ WorkerDies => deaths = 0
           /\ OneAfterOther' => OneAfterOther
<1>1. deaths \in Nat /\ (deaths < MaxDeaths => deaths = 0) /\ deaths + 1 # 0
  BY SpoolAssumption DEF SpoolShape, SpoolTypeOK
<1>2. CASE WorkerDies
  BY <1>1, <1>2 DEF WorkerDies, OneAfterOther
<1>3. CASE ~WorkerDies
  <2>1. deaths' = deaths
    BY <1>3 DEF SpoolNext, SendAlert, SendFlush, Worker, TakeJob, JobEnds, RenameIds, ReadIds, RemoveIds,
                MarkLate, Kill, WorkerRestarts, Prompt, Mood, Script, Dedupe, TakeLock, FlushStep,
                AddStep, Deliver, Banner, Exit, ListSpool, ReadFile, HandOver, NoteId, OpenIds,
                WriteId, RemoveFile, ReadSeq, TruncateSeq, WriteSeq, WriteTmp, MoveTmp, CountSpool,
                FindOldest, DropOldest
  <2>2. unlocked => unlocked'
    BY <1>3 DEF SpoolNext, SendAlert, SendFlush, Worker, TakeJob, JobEnds, RenameIds, ReadIds, RemoveIds,
                MarkLate, Kill, WorkerRestarts, Prompt, Mood, Script, Dedupe, TakeLock, FlushStep,
                AddStep, Deliver, Banner, Exit, ListSpool, ReadFile, HandOver, NoteId, OpenIds,
                WriteId, RemoveFile, ReadSeq, TruncateSeq, WriteSeq, WriteTmp, MoveTmp, CountSpool,
                FindOldest, DropOldest, spool_history
  <2> QED
    BY <1>3, <2>1, <2>2 DEF OneAfterOther
<1> QED
  BY <1>2, <1>3

\* Where runs are, who has the lock, and what of it a step changes.
LEMMA LocksKept ==
    ASSUME SpoolShape, OneRaises, LockIsHeld, SpoolNext
    PROVE  OneRaises' /\ LockIsHeld'
<1>0. /\ (deaths' = 0 => deaths = 0) /\ (unlocked => unlocked') /\ (WorkerDies => deaths = 0)
      /\ {"worker", "prompt", "orphan"} = Scripts /\ Flush \notin Alerts /\ Nothing \notin Alerts
  BY OverlapsStay, AlertsAreNumbers DEF Scripts
<1>1. ASSUME NEW p \in Scripts, Script(p) PROVE OneRaises' /\ LockIsHeld'
  <2>1. PICK r \in Runs :
           /\ Moved(p, r) /\ s[p].pc \notin {"none", "ended"}
           /\ r.job = s[p].job \/ r.job = Nothing
           /\ r.pc \in PastLock => s[p].pc \in PastLock \/ TakeLock(p)
    BY <1>1, RunGoesOn
  <2>2. \A q \in Scripts : s'[q] = IF q = p THEN r ELSE s[q]
    BY <2>1 DEF Moved
  <2>3. OneRaises'
    <3>1. worker' = worker
      BY <1>1 DEF Script, Dedupe, TakeLock, FlushStep, AddStep, Deliver, Banner, Exit, ListSpool, ReadFile,
                  HandOver, NoteId, OpenIds, WriteId, RemoveFile, ReadSeq, TruncateSeq, WriteSeq,
                  WriteTmp, MoveTmp, CountSpool, FindOldest, DropOldest, collector
    <3> QED
      BY <1>0, <2>1, <2>2, <3>1 DEF OneRaises
  <2>4. CASE TakeLock(p)
    <3>1. CASE lock = "free" /\ lock' = p
      <4>1. ~unlocked => \A q \in Scripts : s[q].pc \notin PastLock
        <5>1. \A q \in Scripts : q # "free"
          BY DEF Scripts
        <5> QED
          BY <3>1, <5>1 DEF LockIsHeld
      <4> QED
        BY <1>0, <2>2, <2>3, <3>1, <4>1 DEF LockIsHeld
    <3>2. CASE unlocked'
      BY <2>3, <3>2 DEF LockIsHeld
    <3> QED
      BY <2>4, <3>1, <3>2 DEF TakeLock
  <2>5. CASE Exit(p)
    <3>1. PICK a \in Runs : Moved(p, a) /\ a.pc \in {"none", "ended"}
      BY <2>5, ExitMoves, GoneIs
    <3>2. r = a /\ r.pc \notin PastLock
      BY <2>1, <3>1 DEF Moved, PastLock, Placing, Numbering, Listing, Noting
    <3>3. lock' = IF lock = p THEN "free" ELSE lock
      BY <2>5 DEF Exit
    <3> QED
      BY <1>0, <2>2, <2>3, <3>2, <3>3 DEF LockIsHeld
  <2>6. CASE ~TakeLock(p) /\ ~Exit(p)
    <3>1. lock' = lock
      BY <1>1, <2>6 DEF Script, Dedupe, FlushStep, AddStep, Deliver, Banner, ListSpool, ReadFile,
                        HandOver, NoteId, OpenIds, WriteId, RemoveFile, ReadSeq, TruncateSeq, WriteSeq,
                        WriteTmp, MoveTmp, CountSpool, FindOldest, DropOldest, files
    <3> QED
      BY <1>0, <2>1, <2>2, <2>3, <2>6, <3>1 DEF LockIsHeld
  <2> QED
    BY <2>4, <2>5, <2>6
<1>2. CASE SendAlert \/ SendFlush
  BY <1>0, <1>2 DEF SendAlert, SendFlush, files, OneRaises, LockIsHeld
<1>3. CASE TakeJob \/ Prompt
  <2>1. PICK p \in {"worker", "prompt"}, r \in Runs :
           /\ Moved(p, r) /\ r.pc \in {"dedupe", "lock"}
           /\ IF p = "prompt" THEN r.job = Flush /\ worker' = worker ELSE worker' = "running"
    <3>1. CASE TakeJob
      BY <3>1, TakeJobMoves DEF TakeJob
    <3>2. CASE Prompt
      BY <3>2, PromptMoves DEF Prompt, collector
    <3> QED
      BY <1>3, <3>1, <3>2
  <2>2. \A q \in Scripts : s'[q] = IF q = p THEN r ELSE s[q]
    BY <2>1 DEF Moved
  <2>3. r.pc \notin PastLock
    BY <2>1 DEF PastLock, Placing, Numbering, Listing, Noting
  <2>4. lock' = lock
    BY <1>3 DEF TakeJob, Prompt, files
  <2> QED
    BY <1>0, <2>1, <2>2, <2>3, <2>4 DEF OneRaises, LockIsHeld
<1>4. CASE JobEnds \/ Kill
  <2>1. Moved("worker", Gone)
    BY <1>4, WorkerEnds
  <2>2. \A q \in Scripts : s'[q] = IF q = "worker" THEN Gone ELSE s[q]
    BY <2>1 DEF Moved
  <2>3. Gone.pc \notin PastLock
    BY GoneIs DEF PastLock, Placing, Numbering, Listing, Noting
  <2>4. lock' = lock \/ (lock = "worker" /\ lock' = "free")
    BY <1>4 DEF JobEnds, Kill, files
  <2> QED
    BY <1>0, <2>2, <2>3, <2>4, GoneIs DEF OneRaises, LockIsHeld
<1>5. CASE WorkerDies
  <2>1. /\ s'["worker"] = Gone /\ s'["orphan"] \in {Gone, s["worker"]} /\ s'["prompt"] = s["prompt"]
    BY <1>5, DyingMoves
  <2>2. Gone.pc \notin PastLock
    BY GoneIs DEF PastLock, Placing, Numbering, Listing, Noting
  <2>3. lock' = (IF lock = "worker" THEN "orphan" ELSE lock) /\ unlocked' = unlocked /\ deaths' = deaths + 1
    BY <1>5 DEF WorkerDies
  <2>4. OneRaises'
    BY <1>0, <1>5, <2>1, <2>3, GoneIs DEF OneRaises
  <2>5. LockIsHeld'
    BY <1>0, <2>1, <2>2, <2>3 DEF LockIsHeld
  <2> QED
    BY <2>4, <2>5
<1>6. CASE RenameIds \/ ReadIds \/ RemoveIds \/ MarkLate \/ WorkerRestarts \/ Mood
  <2>1. Standing
    BY <1>6, StandingIs
  <2>2. worker' # "running" => worker # "running"
    BY <1>6 DEF RenameIds, ReadIds, RemoveIds, MarkLate, WorkerRestarts, Mood, collector
  <2> QED
    BY <1>0, <2>1, <2>2 DEF Standing, SameButFile, Alike, OneRaises, LockIsHeld
<1> QED
  BY <1>1, <1>2, <1>3, <1>4, <1>5, <1>6 DEF SpoolNext, Worker

\* No two runs number their mails at once, as long as runs are one after the other.
LEMMA OnePlaces ==
    ASSUME SpoolShape, OneRaises, LockIsHeld, OneAfterOther, NEW p \in Scripts, NEW q \in Scripts \ {p},
           s[p].pc \in Placing
    PROVE  s[q].pc \notin Placing
<1>1. \A r \in Scripts : s[r].pc \in Placing => s[r].pc \in PastLock /\ s[r].job \in Alerts
  BY RunIs DEF PastLock, RunInOrder, Own
<1>2. CASE ~unlocked
  BY <1>1, <1>2 DEF LockIsHeld
<1>3. CASE deaths = 0
  BY <1>1, <1>3 DEF OneRaises
<1> QED
  BY <1>2, <1>3 DEF OneAfterOther

\* What else there is to numbers.
Numbered ==
    /\ \A x, y \in named : x[1][1] = y[1][1] => x = y
    /\ \A p \in Scripts : s[p].pc \in Numbering => \A x \in named : x[1][1] < s[p].number
    /\ \A p \in Scripts : s[p].pc = "tmp" => counter = s[p].number
    /\ (\E p \in Scripts : s[p].pc = "number") \/ \A x \in named : x[1][1] <= counter

\* A step that leaves the counter and the names, and whoever numbers a mail, alone.
LEMMA NumbersKept ==
    ASSUME Numbered, UNCHANGED <<counter, named>>,
           \A q \in Scripts : s'[q].pc \in Numbering =>
               \E r \in Scripts : s[r].pc = s'[q].pc /\ s[r].number = s'[q].number,
           \A r \in Scripts : s[r].pc = "number" => \E q \in Scripts : s'[q].pc = "number"
    PROVE  Numbered'
<1>1. \A q \in Scripts : s'[q].pc = "tmp" => s'[q].pc \in Numbering
  BY DEF Numbering
<1>2. \A q \in Scripts : s'[q].pc \in Numbering => \A x \in named' : x[1][1] < s'[q].number
  BY DEF Numbered
<1>3. \A q \in Scripts : s'[q].pc = "tmp" => counter' = s'[q].number
  BY <1>1 DEF Numbered
<1>4. (\E q \in Scripts : s'[q].pc = "number") \/ \A x \in named' : x[1][1] <= counter'
  BY DEF Numbered
<1> QED
  BY <1>2, <1>3, <1>4 DEF Numbered

\* A step that gives a mail its number.
LEMMA NumberGiven ==
    ASSUME SpoolShape, AllNamed, Numbered, NEW p \in Scripts,
           ReadSeq(p) \/ TruncateSeq(p) \/ WriteSeq(p) \/ WriteTmp(p),
           \A q \in Scripts \ {p} : s[q].pc \notin Placing
    PROVE  Numbered'
<1>1. PICK r \in Runs :
         /\ Moved(p, r)
         /\ ReadSeq(p) => r.pc = "empty" /\ r.number = counter + 1
         /\ TruncateSeq(p) => r.pc = "number" /\ r.number = s[p].number
         /\ WriteSeq(p) => r.pc = "tmp" /\ r.number = s[p].number
         /\ WriteTmp(p) =>
               /\ r.pc = "move" /\ r.file \in NamesOf(s[p].number) \cap Names
               /\ named' = named \cup {<<r.file, s[p].job>>}
  BY AddStepMoves DEF AddStep
<1>2. /\ \A q \in Scripts : s'[q] = IF q = p THEN r ELSE s[q]
      /\ \A q \in Scripts \ {p} : s[q].pc \notin Numbering
  BY <1>1 DEF Moved, Placing
<1>3. /\ counter \in Nat /\ s[p].number \in Nat
      /\ \A x \in named : x[1] \in Names /\ x[1][1] \in Nat
  BY RunIs, NamesAreNumbers DEF SpoolShape, SpoolTypeOK
<1>4. CASE ReadSeq(p)
  <2>1. UNCHANGED <<counter, named>> /\ r.pc = "empty" /\ r.number = counter + 1 /\ s[p].pc = "seq"
    BY <1>1, <1>4 DEF ReadSeq, files, spool_history, AtStep
  <2>2. \A x \in named : x[1][1] <= counter
    BY <1>2, <2>1 DEF Numbered, Numbering
  <2>3. \A x \in named : x[1][1] < r.number
    BY <1>3, <2>1, <2>2
  <2> QED
    BY <1>2, <2>1, <2>2, <2>3 DEF Numbered, Numbering
<1>5. CASE TruncateSeq(p)
  <2>1. named' = named /\ r.pc = "number" /\ r.number = s[p].number /\ s[p].pc = "empty"
    BY <1>1, <1>5 DEF TruncateSeq, spool_history, AtStep
  <2>2. \A x \in named : x[1][1] < r.number
    BY <2>1 DEF Numbered, Numbering
  <2> QED
    BY <1>2, <2>1, <2>2 DEF Numbered, Numbering
<1>6. CASE WriteSeq(p)
  <2>1. named' = named /\ r.pc = "tmp" /\ r.number = s[p].number /\ s[p].pc = "number" /\ counter' = s[p].number
    BY <1>1, <1>6 DEF WriteSeq, spool_history, AtStep
  <2>2. \A x \in named : x[1][1] < r.number
    BY <2>1 DEF Numbered, Numbering
  <2>3. \A x \in named : x[1][1] <= counter'
    BY <1>3, <2>1, <2>2
  <2> QED
    BY <1>2, <2>1, <2>2, <2>3 DEF Numbered, Numbering
<1>7. CASE WriteTmp(p)
  <2>1. /\ counter' = counter /\ r.pc = "move" /\ s[p].pc = "tmp" /\ named' = named \cup {<<r.file, s[p].job>>}
        /\ r.file \in NamesOf(s[p].number)
    BY <1>1, <1>7 DEF WriteTmp, AtStep
  <2>2. r.file[1] = s[p].number
    BY <2>1 DEF NamesOf
  <2>3. counter = s[p].number /\ \A x \in named : x[1][1] < s[p].number
    BY <2>1 DEF Numbered, Numbering
  <2>4. /\ \A x \in named' : x \in named \/ x = <<r.file, s[p].job>>
        /\ <<r.file, s[p].job>>[1] = r.file
    BY <2>1
  <2>5. \A x, y \in named' : x[1][1] = y[1][1] => x = y
    <3>1. \A x \in named : x[1][1] # r.file[1]
      BY <1>3, <2>2, <2>3
    <3> QED
      BY <2>4, <3>1 DEF Numbered
  <2>6. \A x \in named' : x[1][1] <= counter'
    BY <1>3, <2>1, <2>2, <2>3, <2>4
  <2> QED
    BY <1>2, <2>1, <2>5, <2>6 DEF Numbered, Numbering
<1> QED
  BY <1>4, <1>5, <1>6, <1>7

\* So numbers grow.
LEMMA SerialKept ==
    ASSUME SpoolShape, AllNamed, Serial, SpoolNext, SpoolShape'
    PROVE  Serial'
<1>1. OneRaises' /\ LockIsHeld' /\ (OneAfterOther' => OneAfterOther)
  BY LocksKept, OverlapsStay DEF Serial
<1>2. SUFFICES ASSUME OneAfterOther' PROVE NumbersGrow'
  BY <1>1 DEF Serial, NumbersGrow
<1>3. OneAfterOther /\ Numbered
  BY <1>1, <1>2 DEF Serial, NumbersGrow, Numbered
<1>4. Numbered'
  <2>1. ASSUME NEW p \in Scripts, Script(p) PROVE Numbered'
    <3>1. CASE ReadSeq(p) \/ TruncateSeq(p) \/ WriteSeq(p) \/ WriteTmp(p)
      <4>1. s[p].pc \in Placing
        BY <3>1 DEF ReadSeq, TruncateSeq, WriteSeq, WriteTmp, AtStep, Placing, Numbering
      <4>2. \A q \in Scripts \ {p} : s[q].pc \notin Placing
        BY <1>3, <4>1, OnePlaces DEF Serial
      <4> QED
        BY <1>3, <3>1, <4>2, NumberGiven
    <3>2. CASE ~(ReadSeq(p) \/ TruncateSeq(p) \/ WriteSeq(p) \/ WriteTmp(p))
      <4>1. PICK r \in Runs : Moved(p, r) /\ r.pc \notin Numbering /\ s[p].pc \notin Numbering
        BY <2>1, <3>2, RunGoesOn
      <4>2. UNCHANGED <<counter, named>>
        BY <2>1, <3>2 DEF Script, Dedupe, TakeLock, FlushStep, AddStep, Deliver, Banner, Exit,
                          ListSpool, ReadFile, HandOver, NoteId, OpenIds, WriteId, RemoveFile,
                          MoveTmp, CountSpool, FindOldest, DropOldest, files, spool_history
      <4>3. /\ \A q \in Scripts : s'[q].pc \in Numbering => s'[q] = s[q]
            /\ \A q \in Scripts : s[q].pc \in Numbering => s'[q] = s[q]
        BY <4>1 DEF Moved
      <4> QED
        BY <1>3, <4>2, <4>3, NumbersKept DEF Numbering
    <3> QED
      BY <3>1, <3>2
  <2>2. CASE TakeJob \/ Prompt
    <3>1. PICK p \in Scripts, r \in Runs : Moved(p, r) /\ r.pc \in {"dedupe", "lock"}
      BY <2>2, TakeJobMoves, PromptMoves DEF Scripts
    <3>2. UNCHANGED <<counter, named>>
      BY <2>2 DEF TakeJob, Prompt, files, spool_history
    <3>3. \A q \in Scripts : s'[q].pc \in Numbering => s'[q] = s[q]
      BY <3>1 DEF Moved, Numbering
    <3>4. s[p].pc # "number"
      <4>1. CASE Prompt
        <5>1. s["prompt"].pc = "none"
          BY <4>1 DEF Prompt, AtStep
        <5>2. s'["prompt"] # s["prompt"]
          BY <4>1, <5>1, PromptMoves DEF Moved
        <5>3. p = "prompt"
          BY <3>1, <5>2 DEF Moved, Scripts
        <5> QED
          BY <5>1, <5>3
      <4>2. CASE TakeJob
        <5>1. s["worker"].pc = "none"
          BY <4>2 DEF TakeJob, Serial, OneRaises
        <5>2. s'["worker"] # s["worker"]
          BY <4>2, <5>1, TakeJobMoves DEF Moved
        <5>3. p = "worker"
          BY <3>1, <5>2 DEF Moved, Scripts
        <5> QED
          BY <5>1, <5>3
      <4> QED
        BY <2>2, <4>1, <4>2
    <3> QED
      BY <1>3, <3>1, <3>2, <3>3, <3>4, NumbersKept DEF Moved
  <2>3. CASE JobEnds \/ Kill
    <3>1. Moved("worker", Gone) /\ Gone.pc \notin Numbering
      BY <2>3, WorkerEnds, GoneIs DEF Numbering
    <3>2. UNCHANGED <<counter, named>> /\ s["worker"].pc \notin Numbering
      BY <2>3 DEF JobEnds, Kill, AtStep, Waiting, files, Numbering
    <3>3. /\ \A q \in Scripts : s'[q].pc \in Numbering => s'[q] = s[q]
          /\ \A q \in Scripts : s[q].pc \in Numbering => s'[q] = s[q]
      BY <3>1, <3>2 DEF Moved
    <3> QED
      BY <1>3, <3>2, <3>3, NumbersKept DEF Numbering
  <2>4. CASE WorkerDies
    <3>1. /\ s'["worker"] = Gone /\ s'["prompt"] = s["prompt"]
          /\ s'["orphan"] = IF s["worker"].pc = "ended" THEN Gone ELSE s["worker"]
          /\ Gone.pc \notin Numbering
      BY <2>4, DyingMoves, GoneIs DEF Numbering, AtStep
    <3>2. UNCHANGED <<counter, named>>
      BY <2>4 DEF WorkerDies
    <3>3. s["orphan"].pc = "none" /\ Scripts = {"worker", "prompt", "orphan"}
      BY <2>4, OverlapsStay DEF Serial, OneRaises, Scripts
    <3>4. \A q \in Scripts : s'[q].pc \in Numbering =>
             \E r \in Scripts : s[r].pc = s'[q].pc /\ s[r].number = s'[q].number
      BY <3>1, <3>3
    <3>5. \A r \in Scripts : s[r].pc = "number" => \E q \in Scripts : s'[q].pc = "number"
      BY <3>1, <3>3
    <3> QED
      BY <1>3, <3>2, <3>4, <3>5, NumbersKept
  <2>5. CASE SendAlert \/ SendFlush
    <3>1. UNCHANGED <<s, counter, named>>
      BY <2>5 DEF SendAlert, SendFlush, files, spool_history
    <3> QED
      BY <1>3, <3>1, NumbersKept
  <2>6. CASE RenameIds \/ ReadIds \/ RemoveIds \/ MarkLate \/ WorkerRestarts \/ Mood
    <3>1. Standing
      BY <2>6, StandingIs
    <3> QED
      BY <1>3, <3>1, NumbersKept DEF Standing, SameButFile
  <2> QED
    BY <2>1, <2>2, <2>3, <2>4, <2>5, <2>6 DEF SpoolNext, Worker
<1>5. \A p \in Scripts : \A q \in Scripts \ {p} : s'[p].pc \in Placing => s'[q].pc \notin Placing
  <2>1. \A r \in Scripts : s'[r].pc \in Placing => s'[r].pc \in PastLock /\ s'[r].job \in Alerts
    BY DEF SpoolShape, RunInOrder, PastLock, Own
  <2>2. CASE ~unlocked'
    BY <1>1, <2>1, <2>2 DEF LockIsHeld
  <2>3. CASE deaths' = 0
    BY <1>1, <2>1, <2>3 DEF OneRaises
  <2> QED
    BY <1>2, <2>2, <2>3 DEF OneAfterOther
<1> QED
  BY <1>4, <1>5 DEF NumbersGrow, Numbered

-----------------------------------------------------------------------------
(***************************************************************************)
(* Oldest first                                                            *)
(***************************************************************************)
\* As long as runs are one after the other no two mails have one name.
LEMMA NoneClash ==
    ASSUME NumbersGrow, OneAfterOther
    PROVE  Clashed = {} /\ \A x, y \in named : x[1] = y[1] => x = y
<1>1. \A x, y \in named : x[1] = y[1] => x = y
  BY DEF NumbersGrow
<1> QED
  BY <1>1 DEF Clashed

\* While the collector lives only its worker has an alert of its own.
LEMMA OnlyWorkerRaises ==
    ASSUME SpoolShape, OneRaises, deaths = 0, NEW p \in Scripts, Pending(s[p]) \/ s[p].pc \in Own
    PROVE  p = "worker" /\ s[p].job \in Alerts
BY RunIs DEF OneRaises, RunInOrder, Pending, Unnamed, Own

\* Of two files the one that sorts first is of the earlier alert.
LEMMA EarlierIs ==
    ASSUME SpoolShape, Ascending, NEW f, NEW a, NEW g, NEW b,
           <<f, a>> \in named, <<g, b>> \in named, Before(f, g), \A x, y \in named : x[2] = y[2] => x = y
    PROVE  a < b
<1>1. /\ f \in Names /\ g \in Names /\ a \in Alerts /\ b \in Alerts
  BY DEF SpoolShape, SpoolTypeOK
<1>2. ~Before(g, f) /\ f # g /\ f[1] <= g[1] /\ f[1] \in Nat /\ g[1] \in Nat /\ a \in Nat /\ b \in Nat
  BY <1>1, BeforeIs, NamesAreNumbers, AlertsAreNumbers
<1>3. a # b
  <2>1. <<f, a>>[2] = a /\ <<g, b>>[2] = b
    OBVIOUS
  <2>2. a = b => <<f, a>> = <<g, b>>
    BY <2>1
  <2> QED
    BY <1>2, <2>2
<1>4. ~(b < a)
  <2>1. <<f, a>>[2] = a /\ <<g, b>>[2] = b /\ <<f, a>>[1] = f /\ <<g, b>>[1] = g
    OBVIOUS
  <2>2. b < a => g[1] < f[1]
    BY <2>1 DEF Ascending
  <2> QED
    BY <1>2, <2>2
<1> QED
  BY <1>2, <1>3, <1>4

\* What comes into the inbox.
LEMMA InboxGrows ==
    ASSUME SpoolShape, SpoolNext
    PROVE  \/ inbox' = inbox
           \/ \E p \in Scripts :
                 /\ UNCHANGED <<spool, named, dropped>>
                 /\ \/ s[p].pc = "hand" /\ inbox' = inbox \cup s[p].text
                    \/ s[p].pc = "deliver" /\ inbox' = inbox \cup {s[p].job}
<1>1. CASE \E p \in Scripts : HandOver(p)
  BY <1>1, HandOverMoves DEF HandOver, AtStep, files
<1>2. CASE \E p \in Scripts : Deliver(p)
  BY <1>2, DeliverMoves DEF Deliver, AtStep, files
<1>3. CASE Kill
  <2>1. s["worker"].pc \in {"hand", "deliver"} /\ "worker" \in Scripts
    BY <1>3 DEF Kill, Waiting, Scripts
  <2>2. UNCHANGED <<spool, named, dropped>>
    BY <1>3 DEF Kill
  <2>3. \/ inbox' = inbox
        \/ s["worker"].pc = "hand" /\ inbox' = inbox \cup s["worker"].text
        \/ s["worker"].pc = "deliver" /\ inbox' = inbox \cup {s["worker"].job}
    BY <1>3, <2>1 DEF Kill
  <2> QED
    BY <2>1, <2>2, <2>3
<1>4. CASE ~((\E p \in Scripts : HandOver(p) \/ Deliver(p)) \/ Kill)
  <2>1. inbox' = inbox
    BY <1>4 DEF SpoolNext, SendAlert, SendFlush, Worker, TakeJob, JobEnds, RenameIds, ReadIds, RemoveIds,
                MarkLate, WorkerDies, WorkerRestarts, Prompt, Mood, Script, Dedupe, TakeLock, FlushStep,
                AddStep, Banner, Exit, ListSpool, ReadFile, NoteId, OpenIds, WriteId, RemoveFile,
                ReadSeq, TruncateSeq, WriteSeq, WriteTmp, MoveTmp, CountSpool, FindOldest, DropOldest,
                spool_history, mails
  <2> QED
    BY <2>1
<1> QED
  BY <1>1, <1>2, <1>3, <1>4

\* What comes into the spool.
LEMMA SpoolGrows ==
    ASSUME SpoolNext
    PROVE  \/ \A f \in DOMAIN spool' : f \in DOMAIN spool /\ spool'[f] = spool[f]
           \/ \E p \in Scripts : /\ MoveTmp(p) /\ s[p].file \in DOMAIN tmp
                                 /\ spool' = Put(spool, s[p].file, tmp[s[p].file])
<1>1. CASE \E p \in Scripts : MoveTmp(p)
  BY <1>1 DEF MoveTmp
<1>2. CASE \E p \in Scripts : RemoveFile(p) \/ DropOldest(p)
  BY <1>2 DEF RemoveFile, DropOldest, Without
<1>3. CASE ~\E p \in Scripts : MoveTmp(p) \/ RemoveFile(p) \/ DropOldest(p)
  <2>1. spool' = spool
    BY <1>3 DEF SpoolNext, SendAlert, SendFlush, Worker, TakeJob, JobEnds, RenameIds, ReadIds, RemoveIds,
                MarkLate, Kill, WorkerDies, WorkerRestarts, Prompt, Mood, Script, Dedupe, TakeLock,
                FlushStep, AddStep, Deliver, Banner, Exit, ListSpool, ReadFile, HandOver, NoteId,
                OpenIds, WriteId, ReadSeq, TruncateSeq, WriteSeq, WriteTmp, CountSpool, FindOldest, files
  <2> QED
    BY <2>1
<1> QED
  BY <1>1, <1>2, <1>3

\* Who names files.
LEMMA NamedGrows ==
    ASSUME SpoolNext
    PROVE  named' = named \/ \E p \in Scripts : WriteTmp(p)
<1>1. CASE ~\E p \in Scripts : WriteTmp(p)
  <2>1. named' = named
    BY <1>1 DEF SpoolNext, SendAlert, SendFlush, Worker, TakeJob, JobEnds, RenameIds, ReadIds, RemoveIds,
                MarkLate, Kill, WorkerDies, WorkerRestarts, Prompt, Mood, Script, Dedupe, TakeLock,
                FlushStep, AddStep, Deliver, Banner, Exit, ListSpool, ReadFile, HandOver, NoteId,
                OpenIds, WriteId, RemoveFile, ReadSeq, TruncateSeq, WriteSeq, MoveTmp, CountSpool,
                FindOldest, DropOldest, spool_history
  <2> QED
    BY <2>1
<1> QED
  BY <1>1

\* The state in which the order of the mails is looked at: the collector lives.
Living == SpoolShape /\ AllNamed /\ AllArrived /\ Serial /\ Orderly /\ deaths = 0

\* Then no mails clash, and only the worker has an alert of its own.
LEMMA LivingIs ==
    ASSUME Living
    PROVE  /\ Clashed = {} /\ (\A x, y \in named : x[2] = y[2] => x = y) /\ FilesAreNamed
           /\ \A p \in Scripts : /\ RunInOrder(s[p]) /\ RunIsNamed(s[p]) /\ HandedOver(s[p])
                                 /\ OwnIsNewest(s[p]) /\ ListIsOldest(s[p])
                                 /\ Pending(s[p]) \/ s[p].pc \in Own =>
                                       p = "worker" /\ s[p].job \in Alerts
           /\ Ascending /\ WaitingIsLater
<1>1. OneAfterOther /\ OneRaises /\ NumbersGrow
  BY DEF Living, Serial, OneAfterOther
<1> QED
  BY <1>1, NoneClash, OnlyWorkerRaises, RunIs DEF Living, AllNamed, FilesAreNamed, AllArrived, Orderly

\* A mail that a run has not read is later than what it has in hand.
LEMMA UnreadIsLater ==
    ASSUME Living, NEW p \in Scripts, s[p].pc = "hand", NEW f \in DOMAIN spool, spool[f] \notin s[p].text
    PROVE  \A early \in s[p].text : early < spool[f]
<1> TAKE early \in s[p].text
<1>1. PICK e \in InHand(s[p]) : <<e, early>> \in named
  BY LivingIs DEF RunIsNamed
<1>2. f \notin InHand(s[p])
  BY LivingIs DEF HandedOver, Noting
<1>3. Before(e, f)
  BY <1>1, <1>2, LivingIs DEF ListIsOldest, InHand
<1>4. <<f, spool[f]>> \in named /\ SpoolShape
  BY LivingIs DEF FilesAreNamed, Living
<1> QED
  BY <1>1, <1>3, <1>4, LivingIs, EarlierIs

\* What a run has in hand is no younger than the alert that the worker has still to deliver or
\* to spool.
LEMMA TextIsOlder ==
    ASSUME Living, NEW p \in Scripts, s[p].pc = "hand", NEW q \in Scripts, Pending(s[q])
    PROVE  \A early \in s[p].text : early <= s[q].job
<1> TAKE early \in s[p].text
<1>1. PICK e \in InHand(s[p]) : <<e, early>> \in named
  BY LivingIs DEF RunIsNamed
<1>2. <<e, early>>[2] = early /\ early \in Nat /\ s[q].job \in Nat
  BY <1>1, LivingIs, AlertsAreNumbers DEF Living, SpoolShape, SpoolTypeOK
<1>3. early < s[q].job \/ early = s[q].job
  BY <1>1, <1>2, LivingIs DEF OwnIsNewest
<1> QED
  BY <1>2, <1>3

\* A new file's number is higher than those of older alerts.
LEMMA AscendingKept ==
    ASSUME Living, SpoolNext
    PROVE  Ascending'
<1>1. CASE named' = named
  BY <1>1, LivingIs DEF Ascending
<1>2. CASE \E p \in Scripts : WriteTmp(p)
  <2>1. PICK p \in Scripts : WriteTmp(p)
    BY <1>2
  <2>2. PICK f \in NamesOf(s[p].number) : named' = named \cup {<<f, s[p].job>>}
    BY <2>1 DEF WriteTmp
  <2>3. s[p].pc = "tmp" /\ f[1] = s[p].number
    BY <2>1, <2>2 DEF WriteTmp, AtStep, NamesOf
  <2>4. \A x \in named : x[1][1] < f[1] /\ x[1][1] \in Nat
    <3>1. \A x \in named : x[1][1] < s[p].number
      BY <2>3 DEF Living, Serial, NumbersGrow, OneAfterOther, Numbering
    <3>2. \A x \in named : x[1] \in Names
      BY DEF Living, SpoolShape, SpoolTypeOK
    <3> QED
      BY <2>3, <3>1, <3>2, NamesAreNumbers
  <2>5. s[p].job \in Nat /\ \A x \in named : x[2] < s[p].job /\ x[2] \in Nat
    <3>1. s[p].job \in Alerts /\ Pending(s[p])
      BY <2>3, LivingIs DEF Own, Placing, Numbering, Pending, Unnamed
    <3>2. \A x \in named : x[2] \in Alerts
      BY DEF Living, SpoolShape, SpoolTypeOK
    <3> QED
      BY <2>3, <3>1, <3>2, LivingIs, AlertsAreNumbers DEF OwnIsNewest
  <2>6. \A x \in named : ~(s[p].job < x[2])
    BY <2>5
  <2>7. ~(s[p].job < s[p].job) /\ <<f, s[p].job>>[1] = f /\ <<f, s[p].job>>[2] = s[p].job
    BY <2>5
  <2>8. \A x, y \in named : x[2] < y[2] => x[1][1] < y[1][1]
    BY LivingIs DEF Ascending
  <2>9. ASSUME NEW x \in named', NEW y \in named', x[2] < y[2] PROVE x[1][1] < y[1][1]
    <3>1. CASE x \in named /\ y \in named
      BY <2>8, <2>9, <3>1
    <3>2. CASE x \in named /\ y = <<f, s[p].job>>
      BY <2>4, <2>7, <3>2
    <3>3. CASE x = <<f, s[p].job>>
      BY <2>2, <2>6, <2>7, <2>9, <3>3
    <3> QED
      BY <2>2, <3>1, <3>2, <3>3
  <2> QED
    BY <2>9 DEF Ascending
<1> QED
  BY <1>1, <1>2, NamedGrows

\* A file that is moved to its place is the worker's, and the newest.
LEMMA NewIsLast ==
    ASSUME Living, NEW p \in Scripts, MoveTmp(p), s[p].file \in DOMAIN tmp
    PROVE  /\ tmp[s[p].file] = s[p].job /\ s[p].job \in Alerts /\ s[p].pc = "move" /\ p = "worker"
           /\ \A early \in inbox : early < s[p].job \/ s[p].job \in inbox
           /\ s[p].file \notin DOMAIN spool
           /\ \A q \in Scripts : \A f \in s[q].list : Before(f, s[p].file)
<1> DEFINE g == s[p].file
<1>1. s[p].pc = "move" /\ <<g, s[p].job>> \in named /\ <<g, tmp[g]>> \in named
  BY LivingIs DEF MoveTmp, AtStep, RunIsNamed, FilesAreNamed
<1>2. tmp[g] = s[p].job
  BY <1>1, LivingIs, ClashIs
<1>3. Pending(s[p]) /\ s[p].job \in Alerts /\ p = "worker"
  BY <1>1, LivingIs DEF Pending
<1>4. \A early \in inbox : early <= s[p].job /\ early \in Nat /\ s[p].job \in Nat
  BY <1>3, LivingIs, AlertsAreNumbers DEF OwnIsNewest, Living, SpoolShape, SpoolTypeOK
<1>5. g \notin DOMAIN spool /\ \A q \in Scripts : g \notin s[q].list
  BY LivingIs DEF Living, AllArrived, TmpIsNew
<1>6. ASSUME NEW q \in Scripts, NEW f \in s[q].list PROVE Before(f, g)
  <2>1. PICK x \in named : x[1] = f
    BY LivingIs DEF RunIsNamed
  <2>2. <<g, s[p].job>>[1] = g /\ <<g, s[p].job>>[2] = s[p].job
    OBVIOUS
  <2>3. x[2] < s[p].job
    <3>1. x[2] # s[p].job
      BY <1>1, <1>5, <2>1, <2>2, LivingIs
    <3> QED
      BY <1>3, <3>1, LivingIs DEF OwnIsNewest
  <2>4. x[1][1] < g[1]
    BY <1>1, <2>2, <2>3, LivingIs DEF Ascending
  <2> QED
    BY <2>1, <2>4 DEF Before
<1> QED
  BY <1>1, <1>2, <1>3, <1>4, <1>5, <1>6

\* What waits is later than what has arrived, or has arrived.
LEMMA WaitingKept ==
    ASSUME Living, SpoolNext
    PROVE  WaitingIsLater'
<1>0. WaitingIsLater /\ SpoolShape
  BY LivingIs DEF Living
<1>1. CASE inbox' = inbox
  <2>1. CASE \A f \in DOMAIN spool' : f \in DOMAIN spool /\ spool'[f] = spool[f]
    BY <1>0, <1>1, <2>1 DEF WaitingIsLater
  <2>2. CASE \E p \in Scripts : /\ MoveTmp(p) /\ s[p].file \in DOMAIN tmp
                                /\ spool' = Put(spool, s[p].file, tmp[s[p].file])
    <3>1. PICK p \in Scripts : /\ MoveTmp(p) /\ s[p].file \in DOMAIN tmp
                               /\ spool' = Put(spool, s[p].file, tmp[s[p].file])
      BY <2>2
    <3>2. tmp[s[p].file] = s[p].job /\ \A early \in inbox : early < s[p].job \/ s[p].job \in inbox
      BY <3>1, NewIsLast
    <3>3. \A f \in DOMAIN spool' : spool'[f] = s[p].job \/ (f \in DOMAIN spool /\ spool'[f] = spool[f])
      BY <3>1, <3>2 DEF Put
    <3> QED
      BY <1>0, <1>1, <3>2, <3>3 DEF WaitingIsLater
  <2> QED
    BY <2>1, <2>2, SpoolGrows
<1>2. CASE inbox' # inbox
  <2>1. PICK p \in Scripts : /\ UNCHANGED <<spool, named, dropped>>
                             /\ \/ s[p].pc = "hand" /\ inbox' = inbox \cup s[p].text
                                \/ s[p].pc = "deliver" /\ inbox' = inbox \cup {s[p].job}
    BY <1>0, <1>2, InboxGrows
  <2>2. CASE s[p].pc = "hand" /\ inbox' = inbox \cup s[p].text
    BY <1>0, <2>1, <2>2, UnreadIsLater DEF WaitingIsLater
  <2>3. CASE s[p].pc = "deliver"
    <3>1. s[p].job \in Alerts /\ Pending(s[p])
      BY <2>3, LivingIs DEF Own, Pending, Unnamed
    <3>2. DOMAIN spool = {}
      BY <2>3, <3>1, LivingIs DEF OwnIsNewest
    <3> QED
      BY <2>1, <3>2 DEF WaitingIsLater
  <2> QED
    BY <2>1, <2>2, <2>3
<1> QED
  BY <1>1, <1>2

\* What gets through is later than what got through before, or was dropped meanwhile.
LEMMA InOrderDelivered ==
    ASSUME Living, SpoolNext
    PROVE  \A early \in inbox, new \in inbox' \ inbox : early < new \/ new \in dropped
<1>0. SpoolShape
  BY DEF Living
<1> TAKE early \in inbox, new \in inbox' \ inbox
<1>1. PICK p \in Scripts : /\ UNCHANGED <<spool, named, dropped>>
                           /\ \/ s[p].pc = "hand" /\ inbox' = inbox \cup s[p].text
                              \/ s[p].pc = "deliver" /\ inbox' = inbox \cup {s[p].job}
  BY <1>0, InboxGrows
<1>2. CASE s[p].pc = "hand" /\ inbox' = inbox \cup s[p].text
  <2>1. new \in dropped \/ \E f \in DOMAIN spool : new = spool[f]
    BY <1>2, LivingIs DEF ListIsOldest
  <2> QED
    BY <2>1, LivingIs DEF WaitingIsLater
<1>3. CASE s[p].pc = "deliver" /\ inbox' = inbox \cup {s[p].job}
  <2>1. s[p].job \in Alerts /\ Pending(s[p]) /\ new = s[p].job
    BY <1>3, LivingIs DEF Own, Pending, Unnamed
  <2>2. early <= new /\ early # new /\ early \in Nat /\ new \in Nat
    BY <2>1, LivingIs, AlertsAreNumbers DEF OwnIsNewest, Living, SpoolShape, SpoolTypeOK
  <2> QED
    BY <2>2
<1> QED
  BY <1>1, <1>2, <1>3

\* What arrives is no younger than the alert that the worker has still to deliver or to spool.
LEMMA ArrivedIsOlder ==
    ASSUME Living, SpoolNext, NEW q \in Scripts, Pending(s[q])
    PROVE  \A early \in inbox' : early <= s[q].job
<1>0. (\A early \in inbox : early <= s[q].job) /\ SpoolShape /\ q = "worker" /\ s[q].job \in Nat
  BY LivingIs, AlertsAreNumbers DEF OwnIsNewest, Living
<1>1. CASE inbox' = inbox
  BY <1>0, <1>1
<1>2. CASE inbox' # inbox
  <2>1. PICK p \in Scripts : \/ s[p].pc = "hand" /\ inbox' = inbox \cup s[p].text
                             \/ s[p].pc = "deliver" /\ inbox' = inbox \cup {s[p].job}
    BY <1>0, <1>2, InboxGrows
  <2>2. CASE s[p].pc = "hand" /\ inbox' = inbox \cup s[p].text
    BY <1>0, <2>2, TextIsOlder
  <2>3. CASE s[p].pc = "deliver" /\ inbox' = inbox \cup {s[p].job}
    <3>1. p = q
      BY <1>0, <2>3, LivingIs DEF Own
    <3> QED
      BY <1>0, <2>3, <3>1
  <2> QED
    BY <2>1, <2>2, <2>3
<1> QED
  BY <1>1, <1>2

\* What a run's alert will be, after the step.
NewestThen(r) ==
    Pending(r) =>
        /\ \A x \in named' : x[2] < r.job \/ (r.pc = "move" /\ x[2] = r.job)
        /\ \A early \in inbox' : early <= r.job
        /\ r.pc \in Listing => DOMAIN spool' \subseteq r.list
        /\ r.pc = "deliver" => DOMAIN spool' = {}

\* A run that goes on with its alert where it has not got it into the spool yet.
LEMMA OwnStays ==
    ASSUME Living, SpoolNext, NEW q \in Scripts, NEW r, named' = named,
           Pending(r) => /\ Pending(s[q]) /\ r.job = s[q].job
                         /\ r.pc = "move" <=> s[q].pc = "move"
                         /\ r.pc \in Listing => DOMAIN spool' \subseteq r.list
                         /\ r.pc = "deliver" => DOMAIN spool' = {}
    PROVE  NewestThen(r)
<1> SUFFICES ASSUME Pending(r)
             PROVE  /\ \A x \in named' : x[2] < r.job \/ (r.pc = "move" /\ x[2] = r.job)
                    /\ \A early \in inbox' : early <= r.job
  BY DEF NewestThen
<1>1. \A x \in named' : x[2] < r.job \/ (r.pc = "move" /\ x[2] = r.job)
  BY LivingIs DEF OwnIsNewest
<1>2. \A early \in inbox' : early <= r.job
  BY ArrivedIsOlder
<1> QED
  BY <1>1, <1>2

\* A run that has no alert to get into the spool.
LEMMA NothingPending ==
    ASSUME NEW r, ~Pending(r)
    PROVE  NewestThen(r)
BY DEF NewestThen

\* The worker's alert stays the newest.
LEMMA OwnKept ==
    ASSUME Living, SpoolNext, deaths' = 0
    PROVE  \A q \in Scripts : OwnIsNewest(s[q])'
<1> USE DEF Pending, Unnamed, Listing, Noting, Placing, Numbering
<1>0. SpoolShape /\ AllNamed /\ {"worker", "prompt", "orphan"} = Scripts /\ Flush \notin Alerts
      /\ Nothing \notin Alerts /\ ~WorkerDies
  <2>1. deaths = 0 /\ (WorkerDies => deaths' = deaths + 1)
    BY DEF Living, WorkerDies
  <2> QED
    BY <2>1, AlertsAreNumbers DEF Living, Scripts
<1>1. SUFFICES \A q \in Scripts : NewestThen(s'[q])
  BY DEF OwnIsNewest, NewestThen
<1>2. ASSUME NEW p \in Scripts, WriteTmp(p) PROVE \A q \in Scripts : NewestThen(s'[q])
  <2>1. PICK r \in Runs : /\ Moved(p, r) /\ SameRun(s[p], r) /\ r.pc = "move"
                          /\ named' = named \cup {<<r.file, s[p].job>>}
    BY <1>0, <1>2, AddStepMoves DEF AddStep
  <2>2. s[p].pc = "tmp" /\ UNCHANGED inbox
    BY <1>2 DEF WriteTmp, AtStep, mails
  <2>3. p = "worker" /\ s[p].job \in Alerts
    BY <2>2, LivingIs DEF Own
  <2>4. /\ \A x \in named : x[2] < s[p].job
        /\ \A early \in inbox : early <= s[p].job
    BY <2>2, <2>3, LivingIs DEF OwnIsNewest
  <2>5. r.job = s[p].job
    BY <2>1 DEF SameRun
  <2>6. NewestThen(r)
    BY <2>1, <2>2, <2>4, <2>5 DEF NewestThen
  <2>7. \A q \in Scripts \ {p} : s'[q] = s[q] /\ ~Pending(s[q])
    BY <2>1, <2>3, LivingIs DEF Moved
  <2>8. \A q \in Scripts \ {p} : NewestThen(s'[q])
    BY <2>7, NothingPending
  <2>9. s'[p] = r
    BY <2>1 DEF Moved
  <2> QED
    BY <2>6, <2>8, <2>9
<1>3. ASSUME NEW p \in Scripts, MoveTmp(p) PROVE \A q \in Scripts : NewestThen(s'[q])
  <2>1. PICK r \in Runs : Moved(p, r) /\ r.pc \in {"count", "banner"}
    BY <1>0, <1>3, AddStepMoves DEF AddStep
  <2>2. p = "worker"
    BY <1>3, LivingIs DEF MoveTmp, AtStep, Own
  <2>3. \A q \in Scripts : ~Pending(s'[q])
    <3>1. ~Pending(r)
      BY <2>1
    <3>2. \A q \in Scripts \ {p} : s'[q] = s[q] /\ ~Pending(s[q])
      BY <2>1, <2>2, LivingIs DEF Moved
    <3> QED
      BY <2>1, <3>1, <3>2 DEF Moved
  <2> QED
    BY <2>3, NothingPending
<1>4. CASE ~\E p \in Scripts : WriteTmp(p) \/ MoveTmp(p)
  <2>1. named' = named /\ DOMAIN spool' \subseteq DOMAIN spool
    BY <1>4, NamedGrows, SpoolGrows
  <2>2. ASSUME NEW q \in Scripts, s'[q] = s[q] PROVE NewestThen(s'[q])
    <3>1. Pending(s[q]) => /\ s[q].pc \in Listing => DOMAIN spool' \subseteq s[q].list
                           /\ s[q].pc = "deliver" => DOMAIN spool' = {}
      BY <2>1, LivingIs DEF OwnIsNewest
    <3> QED
      BY <2>1, <2>2, <3>1, OwnStays
  <2>3. ASSUME NEW p \in Scripts, Script(p) PROVE NewestThen(s'[p])
    <3>0. Pending(s[p]) => /\ s[p].pc \in Listing => DOMAIN spool \subseteq s[p].list
                           /\ s[p].pc = "deliver" => DOMAIN spool = {}
      BY LivingIs DEF OwnIsNewest
    <3>1. CASE Dedupe(p) \/ TakeLock(p)
      <4>1. PICK r \in Runs : Moved(p, r) /\ r.job = s[p].job /\ r.pc \in {"exit", "lock", "list"}
        BY <1>0, <3>1, DedupeMoves, TakeLockMoves DEF Alike
      <4>2. s[p].pc \in {"dedupe", "lock"}
        BY <3>1 DEF Dedupe, TakeLock, AtStep
      <4>3. NewestThen(r)
        BY <2>1, <4>1, <4>2, OwnStays
      <4> QED
        BY <4>1, <4>3 DEF Moved
    <3>2. CASE ListSpool(p)
      <4>1. PICK r \in Runs :
              /\ Moved(p, r) /\ Alike(s[p], r)
              /\ \/ DOMAIN spool = {} /\ r.pc = AfterFlush(s[p])
                 \/ r.pc = "read" /\ r.list = DOMAIN spool
        BY <1>0, <3>2, ListSpoolMoves
      <4>2. s[p].pc = "list" /\ r.pc \in {"exit", "deliver", "read"} /\ r.job = s[p].job
        BY <3>2, <4>1 DEF ListSpool, AtStep, AfterFlush, Alike
      <4>3. /\ r.pc \in Listing => DOMAIN spool' \subseteq r.list
            /\ r.pc = "deliver" => DOMAIN spool' = {}
        BY <2>1, <4>1, <4>2 DEF AfterFlush
      <4>4. NewestThen(r)
        BY <2>1, <4>2, <4>3, OwnStays
      <4> QED
        BY <4>1, <4>4 DEF Moved
    <3>3. CASE ReadFile(p) \/ NoteId(p) \/ OpenIds(p) \/ WriteId(p)
      <4>1. PICK r \in Runs : Moved(p, r) /\ Alike(s[p], r) /\ r.list = s[p].list
                              /\ r.pc \in {"read", "hand", "open", "write", "remove"}
        BY <1>0, <3>3, ReadFileMoves, NoteIdMoves, OpenIdsMoves, WriteIdMoves DEF SameList
      <4>2. s[p].pc \in Listing /\ r.pc \in Listing /\ r.job = s[p].job
        BY <3>3, <4>1 DEF ReadFile, NoteId, OpenIds, WriteId, AtStep, Alike
      <4>3. Pending(r) => Pending(s[p]) /\ DOMAIN spool' \subseteq r.list
        BY <2>1, <3>0, <4>1, <4>2
      <4>4. NewestThen(r)
        BY <2>1, <4>2, <4>3, OwnStays
      <4> QED
        BY <4>1, <4>4 DEF Moved
    <3>4. CASE HandOver(p)
      <4>1. PICK r \in Runs : /\ Moved(p, r) /\ Alike(s[p], r)
                              /\ \/ r.pc = "note" /\ r.list = s[p].list
                                 \/ r.pc = AfterFailure(s[p])
        BY <1>0, <3>4, HandOverMoves DEF SameList
      <4>2. s[p].pc = "hand" /\ r.pc \in {"note", "seq", "exit"} /\ r.job = s[p].job
        BY <3>4, <4>1 DEF HandOver, AtStep, Alike, AfterFailure
      <4>3. Pending(r) => Pending(s[p]) /\ (r.pc \in Listing => DOMAIN spool' \subseteq r.list)
        BY <2>1, <3>0, <4>1, <4>2 DEF AfterFailure
      <4>4. NewestThen(r)
        BY <2>1, <4>2, <4>3, OwnStays
      <4> QED
        BY <4>1, <4>4 DEF Moved
    <3>5. CASE RemoveFile(p)
      <4>1. PICK r \in Runs :
              /\ Moved(p, r) /\ Alike(s[p], r) /\ r.list = s[p].list \ {s[p].file}
              /\ \/ r.list = {} /\ r.pc = AfterFlush(s[p])
                 \/ r.pc \in {"note", "read"}
        BY <1>0, <3>5, RemoveFileMoves
      <4>2. /\ s[p].pc = "remove" /\ r.pc \in {"note", "read", "deliver", "exit"} /\ r.job = s[p].job
            /\ r.pc = "deliver" => r.list = {}
        BY <3>5, <4>1 DEF RemoveFile, AtStep, Alike, AfterFlush
      <4>3. DOMAIN spool' = DOMAIN spool \ {s[p].file}
        BY <3>5 DEF RemoveFile, Without
      <4>4. Pending(r) => Pending(s[p]) /\ DOMAIN spool' \subseteq r.list
        BY <3>0, <4>1, <4>2, <4>3
      <4>5. NewestThen(r)
        BY <2>1, <4>2, <4>4, OwnStays
      <4> QED
        BY <4>1, <4>5 DEF Moved
    <3>6. CASE Deliver(p)
      <4>1. PICK r \in Runs : Moved(p, r) /\ r.job = s[p].job /\ r.pc \in {"banner", "seq"}
        BY <1>0, <3>6, DeliverMoves
      <4>2. s[p].pc = "deliver"
        BY <3>6 DEF Deliver, AtStep
      <4>3. NewestThen(r)
        BY <2>1, <4>1, <4>2, OwnStays
      <4> QED
        BY <4>1, <4>3 DEF Moved
    <3>7. CASE ReadSeq(p) \/ TruncateSeq(p) \/ WriteSeq(p)
      <4>1. PICK r \in Runs : Moved(p, r) /\ r.job = s[p].job /\ r.pc \in Numbering
        BY <1>0, <3>7, AddStepMoves DEF SameRun, AddStep
      <4>2. s[p].pc \in Placing
        BY <3>7 DEF ReadSeq, TruncateSeq, WriteSeq, AtStep
      <4>3. NewestThen(r)
        BY <2>1, <4>1, <4>2, OwnStays
      <4> QED
        BY <4>1, <4>3 DEF Moved
    <3>8. CASE CountSpool(p) \/ FindOldest(p) \/ DropOldest(p) \/ Banner(p) \/ Exit(p)
      <4>1. PICK r \in Runs : Moved(p, r) /\ r.pc \in {"oldest", "banner", "drop", "count", "exit", "none",
                                                       "ended"}
        <5>1. CASE CountSpool(p) \/ FindOldest(p) \/ DropOldest(p)
          BY <1>0, <5>1, AddStepMoves DEF AddStep
        <5>2. CASE Banner(p)
          BY <1>0, <5>2, BannerMoves
        <5>3. CASE Exit(p)
          BY <1>0, <5>3, ExitMoves, GoneIs
        <5> QED
          BY <3>8, <5>1, <5>2, <5>3
      <4>2. ~Pending(r)
        BY <4>1
      <4>3. NewestThen(r)
        BY <4>2, NothingPending
      <4> QED
        BY <4>1, <4>3 DEF Moved
    <3> QED
      BY <1>4, <2>3, <3>1, <3>2, <3>3, <3>4, <3>5, <3>6, <3>7, <3>8 DEF Script, FlushStep, AddStep
  <2>4. ASSUME NEW p \in Scripts, Script(p) PROVE \A q \in Scripts : NewestThen(s'[q])
    <3>1. \A q \in Scripts \ {p} : s'[q] = s[q]
      BY <1>0, <2>4, RunGoesOn DEF Moved
    <3> QED
      BY <2>2, <2>3, <2>4, <3>1
  <2>5. CASE TakeJob
    <3>1. PICK r \in Runs : /\ Moved("worker", r) /\ r.job = Head(queue)
                            /\ r.pc \in {"dedupe", "lock"}
      BY <1>0, <2>5, TakeJobMoves
    <3>2. Head(queue) \in Alerts => /\ \A x \in named : x[2] < Head(queue)
                                    /\ \A id \in inbox : id < Head(queue)
      BY <1>0, <2>5, QueueShrinks
    <3>3. Head(queue) \in Alerts => \A id \in inbox : id <= Head(queue)
      <4>1. inbox \subseteq Nat /\ Alerts \subseteq Nat
        BY <1>0, AlertsAreNumbers DEF SpoolShape, SpoolTypeOK
      <4>2. \A a, b \in Nat : a < b => a <= b
        OBVIOUS
      <4> QED
        BY <3>2, <4>1, <4>2, Zenon
    <3>4. inbox' = inbox
      BY <2>5 DEF TakeJob, spool_history, mails
    <3>5. NewestThen(r)
      BY <2>1, <3>1, <3>2, <3>3, <3>4 DEF NewestThen
    <3>6. /\ s'["worker"] = r /\ \A q \in Scripts \ {"worker"} : s'[q] = s[q]
      BY <3>1 DEF Moved
    <3> QED
      BY <2>2, <3>5, <3>6
  <2>6. CASE Prompt \/ JobEnds \/ Kill
    <3>1. PICK p \in Scripts, r \in Runs : Moved(p, r) /\ r.job \notin Alerts /\ r.pc \in {"lock", "none"}
      BY <1>0, <2>6, PromptMoves, WorkerEnds, GoneIs
    <3>2. NewestThen(r)
      BY <3>1, NothingPending
    <3>3. /\ s'[p] = r /\ \A q \in Scripts \ {p} : s'[q] = s[q]
      BY <3>1 DEF Moved
    <3> QED
      BY <2>2, <3>2, <3>3
  <2>7. CASE SendAlert \/ SendFlush
    <3>1. s' = s
      BY <2>7 DEF SendAlert, SendFlush
    <3> QED
      BY <2>2, <3>1
  <2>8. CASE RenameIds \/ ReadIds \/ RemoveIds \/ MarkLate \/ WorkerRestarts \/ Mood
    <3>1. Standing
      BY <1>0, <2>8, StandingIs
    <3> TAKE q \in Scripts
    <3>2. s'[q].job = s[q].job /\ s'[q].pc = s[q].pc /\ s'[q].list = s[q].list
      BY <3>1 DEF Standing, SameButFile, SameList, Alike
    <3>3. Pending(s[q]) => /\ s[q].pc \in Listing => DOMAIN spool' \subseteq s[q].list
                           /\ s[q].pc = "deliver" => DOMAIN spool' = {}
      BY <2>1, LivingIs DEF OwnIsNewest
    <3> DEFINE r == s'[q]
    <3>4. /\ Pending(r) => /\ Pending(s[q]) /\ r.job = s[q].job
                           /\ r.pc = "move" <=> s[q].pc = "move"
                           /\ r.pc \in Listing => DOMAIN spool' \subseteq r.list
                           /\ r.pc = "deliver" => DOMAIN spool' = {}
      BY <3>2, <3>3
    <3> QED
      BY <2>1, <3>4, OwnStays
  <2> QED
    BY <1>0, <2>4, <2>5, <2>6, <2>7, <2>8 DEF SpoolNext, Worker
<1> QED
  BY <1>2, <1>3, <1>4

\* Nothing that was dropped is taken back.
LEMMA DroppedGrows ==
    ASSUME SpoolNext
    PROVE  dropped \subseteq dropped'
<1>1. CASE \E p \in Scripts : DropOldest(p)
  BY <1>1 DEF DropOldest
<1>2. CASE ~\E p \in Scripts : DropOldest(p)
  <2>1. dropped' = dropped
    BY <1>2 DEF SpoolNext, SendAlert, SendFlush, Worker, TakeJob, JobEnds, RenameIds, ReadIds, RemoveIds,
                MarkLate, Kill, WorkerDies, WorkerRestarts, Prompt, Mood, Script, Dedupe, TakeLock,
                FlushStep, AddStep, Deliver, Banner, Exit, ListSpool, ReadFile, HandOver, NoteId,
                OpenIds, WriteId, RemoveFile, ReadSeq, TruncateSeq, WriteSeq, WriteTmp, MoveTmp,
                CountSpool, FindOldest, spool_history, mails
  <2> QED
    BY <2>1
<1> QED
  BY <1>1, <1>2

\* What a run's list will be, after the step.
OldestThen(r) ==
    /\ \A f \in r.list, g \in DOMAIN spool' \ r.list : Before(f, g)
    /\ \A f \in InHand(r), g \in r.unread : Before(f, g)
    /\ r.pc \in {"read", "hand"} =>
          r.text \subseteq inbox' \cup dropped' \cup {spool'[f] : f \in DOMAIN spool'}

\* A run that keeps its list.
LEMMA ListStays ==
    ASSUME Living, SpoolNext, NEW q \in Scripts, NEW r, SameList(s[q], r), Clashed' = {},
           r.pc \in {"read", "hand"} => s[q].pc \in {"read", "hand"}
    PROVE  OldestThen(r)
<1>0. ListIsOldest(s[q]) /\ SpoolShape
  BY LivingIs DEF Living
<1>1. ASSUME NEW f \in s[q].list, NEW g \in DOMAIN spool' \ s[q].list PROVE Before(f, g)
  <2>1. CASE g \in DOMAIN spool
    BY <1>0, <2>1 DEF ListIsOldest
  <2>2. CASE \E p \in Scripts : /\ MoveTmp(p) /\ s[p].file \in DOMAIN tmp
                                /\ spool' = Put(spool, s[p].file, tmp[s[p].file])
    <3>1. PICK p \in Scripts : /\ MoveTmp(p) /\ s[p].file \in DOMAIN tmp
                               /\ spool' = Put(spool, s[p].file, tmp[s[p].file])
      BY <2>2
    <3>2. Before(f, s[p].file)
      BY <3>1, NewIsLast
    <3>3. g = s[p].file \/ g \in DOMAIN spool
      BY <3>1 DEF Put
    <3> QED
      BY <2>1, <3>2, <3>3
  <2> QED
    BY <2>1, <2>2, SpoolGrows
<1>2. \A f \in InHand(r), g \in r.unread : Before(f, g)
  BY <1>0 DEF ListIsOldest, SameList, InHand
<1>3. ASSUME r.pc \in {"read", "hand"}
      PROVE  r.text \subseteq inbox' \cup dropped' \cup {spool'[f] : f \in DOMAIN spool'}
  <2>1. s[q].text \subseteq inbox \cup dropped \cup {spool[f] : f \in DOMAIN spool}
    BY <1>0, <1>3 DEF ListIsOldest
  <2>2. inbox \subseteq inbox' /\ dropped \subseteq dropped'
    BY <1>0, InboxGrows, DroppedGrows
  <2>3. \A f \in DOMAIN spool :
           spool[f] \in inbox' \cup dropped' \cup {spool'[g] : g \in DOMAIN spool'}
    <3>1. SpooledStays
      BY NothingLost DEF Living
    <3> QED
      BY <3>1 DEF SpooledStays
  <2> QED
    BY <2>1, <2>2, <2>3 DEF SameList
<1> QED
  BY <1>1, <1>2, <1>3 DEF OldestThen, SameList

\* A run that has no list.
LEMMA NothingListed ==
    ASSUME NEW r, Emptied(r)
    PROVE  OldestThen(r)
BY DEF Emptied, OldestThen, InHand

\* The lists of the runs stay the oldest of the spool.
LEMMA ListKept ==
    ASSUME Living, SpoolNext, deaths' = 0, Clashed' = {}
    PROVE  \A q \in Scripts : ListIsOldest(s[q])'
<1>0. SpoolShape /\ {"worker", "prompt", "orphan"} = Scripts /\ ~WorkerDies
  <2>1. deaths = 0 /\ (WorkerDies => deaths' = deaths + 1)
    BY DEF Living, WorkerDies
  <2> QED
    BY <2>1 DEF Living, Scripts
<1>1. SUFFICES \A q \in Scripts : OldestThen(s'[q])
  BY DEF ListIsOldest, OldestThen, InHand
<1>2. ASSUME NEW q \in Scripts, s'[q] = s[q] PROVE OldestThen(s'[q])
  BY <1>2, ListStays DEF SameList
<1>3. ASSUME NEW p \in Scripts, Script(p) PROVE OldestThen(s'[p])
  <2>0. ListIsOldest(s[p]) /\ RunInOrder(s[p])
    BY LivingIs
  <2>1. CASE Dedupe(p) \/ TakeLock(p) \/ Deliver(p) \/ AddStep(p) \/ Banner(p) \/ Exit(p)
    <3>1. PICK r \in Runs : Moved(p, r) /\ Emptied(r)
      BY <1>0, <2>1, DedupeMoves, TakeLockMoves, DeliverMoves, AddStepMoves, BannerMoves, ExitMoves
    <3> QED
      BY <3>1, NothingListed DEF Moved
  <2>2. CASE ListSpool(p)
    <3>1. PICK r \in Runs :
            /\ Moved(p, r)
            /\ \/ Emptied(r)
               \/ r.list = DOMAIN spool /\ r.unread = DOMAIN spool /\ r.text = {}
      BY <1>0, <2>2, ListSpoolMoves
    <3>2. spool' = spool
      BY <2>2 DEF ListSpool, files
    <3>3. OldestThen(r)
      BY <3>1, <3>2, NothingListed DEF OldestThen, InHand
    <3> QED
      BY <3>1, <3>3 DEF Moved
  <2>3. CASE ReadFile(p)
    <3>1. PICK r \in Runs, f \in s[p].unread :
            /\ Moved(p, r) /\ r.list = s[p].list /\ r.unread = s[p].unread \ {f}
            /\ InHand(r) = InHand(s[p]) \cup {f} /\ r.text = s[p].text \cup Content(f)
            /\ \A g \in s[p].unread : g = f \/ Before(f, g)
      BY <1>0, <2>3, ReadFileMoves
    <3>2. spool' = spool /\ inbox' = inbox /\ dropped' = dropped /\ s[p].pc = "read"
      BY <2>3 DEF ReadFile, AtStep, files, spool_history, mails
    <3>3. \A e \in InHand(r), g \in r.unread : Before(e, g)
      BY <2>0, <3>1 DEF ListIsOldest
    <3>4. r.text \subseteq inbox' \cup dropped' \cup {spool'[g] : g \in DOMAIN spool'}
      BY <2>0, <3>1, <3>2 DEF ListIsOldest, Content
    <3>5. OldestThen(r)
      BY <2>0, <3>1, <3>2, <3>3, <3>4 DEF OldestThen, ListIsOldest
    <3> QED
      BY <3>1, <3>5 DEF Moved
  <2>4. CASE HandOver(p)
    <3>1. PICK r \in Runs : /\ Moved(p, r)
                            /\ (r.pc = "note" /\ SameList(s[p], r)) \/ Emptied(r)
      BY <1>0, <2>4, HandOverMoves
    <3>2. OldestThen(r)
      BY <3>1, ListStays, NothingListed
    <3> QED
      BY <3>1, <3>2 DEF Moved
  <2>5. CASE NoteId(p) \/ OpenIds(p) \/ WriteId(p)
    <3>1. PICK r \in Runs : /\ Moved(p, r) /\ SameList(s[p], r) /\ r.pc \in {"open", "write", "remove"}
      BY <1>0, <2>5, NoteIdMoves, OpenIdsMoves, WriteIdMoves
    <3>2. OldestThen(r)
      BY <3>1, ListStays
    <3> QED
      BY <3>1, <3>2 DEF Moved
  <2>6. CASE RemoveFile(p)
    <3>1. PICK r \in Runs :
            /\ Moved(p, r) /\ r.list = s[p].list \ {s[p].file}
            /\ r.unread \subseteq s[p].unread /\ InHand(r) \subseteq InHand(s[p])
            /\ r.pc = "note" \/ Emptied(r) \/ r.text = {}
      BY <1>0, <2>6, RemoveFileMoves
    <3>2. DOMAIN spool' = DOMAIN spool \ {s[p].file}
      BY <2>6 DEF RemoveFile, Without
    <3>3. OldestThen(r)
      BY <2>0, <3>1, <3>2, NothingListed DEF OldestThen, ListIsOldest
    <3> QED
      BY <3>1, <3>3 DEF Moved
  <2> QED
    BY <1>3, <2>1, <2>2, <2>3, <2>4, <2>5, <2>6 DEF Script, FlushStep
<1>4. ASSUME NEW p \in Scripts, Script(p) PROVE \A q \in Scripts : OldestThen(s'[q])
  <2>1. \A q \in Scripts \ {p} : s'[q] = s[q]
    BY <1>0, <1>4, RunGoesOn DEF Moved
  <2> QED
    BY <1>2, <1>3, <1>4, <2>1
<1>5. CASE TakeJob \/ Prompt \/ JobEnds \/ Kill
  <2>1. PICK p \in Scripts, r \in Runs : Moved(p, r) /\ Emptied(r)
    BY <1>0, <1>5, TakeJobMoves, PromptMoves, WorkerEnds, GoneIs
  <2>2. s'[p] = r /\ \A q \in Scripts \ {p} : s'[q] = s[q]
    BY <2>1 DEF Moved
  <2>3. OldestThen(r)
    BY <2>1, NothingListed
  <2> QED
    BY <1>2, <2>2, <2>3
<1>6. CASE SendAlert \/ SendFlush
  <2>1. s' = s
    BY <1>6 DEF SendAlert, SendFlush
  <2> QED
    BY <1>2, <2>1
<1>7. CASE RenameIds \/ ReadIds \/ RemoveIds \/ MarkLate \/ WorkerRestarts \/ Mood
  <2>1. Standing
    BY <1>0, <1>7, StandingIs
  <2> TAKE q \in Scripts
  <2> DEFINE r == s'[q]
  <2>2. SameList(s[q], r) /\ r.pc = s[q].pc
    BY <2>1 DEF Standing, SameButFile
  <2> QED
    BY <2>2, ListStays
<1> QED
  BY <1>0, <1>4, <1>5, <1>6, <1>7 DEF SpoolNext, Worker

-----------------------------------------------------------------------------
(***************************************************************************)
(* The theorems                                                            *)
(***************************************************************************)
\* Nothing has happened yet.
LEMMA InitSpool == SpoolInit => SpoolInv
<1> SUFFICES ASSUME SpoolInit PROVE SpoolInv
  OBVIOUS
<1>1. /\ queue = <<>> /\ sent = 0 /\ prompts = 0 /\ lock \in Locks /\ last = Nothing
      /\ spool = <<>> /\ tmp = <<>> /\ counter = 0 /\ ids = Absent /\ taken = Absent
      /\ worker = "idle" /\ late = {} /\ marked = {} /\ seat \in SeatMoods /\ deaths = 0
      /\ inbox = {} /\ shown = {} /\ dropped = {} /\ duplicates = {} /\ handled = {}
      /\ noted = {} /\ strayed = {} /\ named = {} /\ unlocked = FALSE
  BY DEF SpoolInit
<1>2. s \in [Scripts -> Runs] /\ (\A p \in Scripts : s[p] = Gone) /\ "worker" \in Scripts /\ "orphan" \in Scripts
  BY GoneIs DEF SpoolInit, Scripts
<1>3. /\ Gone.pc = "none" /\ Gone.job \notin Alerts /\ Emptied(Gone) /\ Gone.mail = "FAIL"
      /\ ~Gone.banner /\ Gone.fd = "none" /\ RunInOrder(Gone)
  BY GoneIs, AlertsAreNumbers
<1>4. DOMAIN spool = {} /\ DOMAIN tmp = {} /\ Len(queue) = 0
  BY <1>1
<1>5. SpoolTypeOK
  <2>1. sent \in 0 .. Len(Severity) /\ prompts \in 0 .. Prompts /\ deaths \in 0 .. MaxDeaths
    BY <1>1, AlertsAreNumbers, SpoolAssumption
  <2>2. queue \in Seq(Jobs) /\ lock \in Scripts \cup {"free", "missing"}
    BY <1>1, EmptySeq, SpoolAssumption
  <2>3. /\ DOMAIN spool \subseteq Names /\ spool \in [DOMAIN spool -> Alerts]
        /\ DOMAIN tmp \subseteq Names /\ tmp \in [DOMAIN tmp -> Alerts]
    BY <1>1, <1>4
  <2> QED
    BY <1>1, <1>2, <2>1, <2>2, <2>3 DEF SpoolTypeOK, IdFile
<1>6. SpoolShape
  BY <1>1, <1>2, <1>3, <1>5 DEF SpoolShape, IdsInOrder
<1>7. AllNamed
  BY <1>1, <1>2, <1>3, <1>4 DEF AllNamed, QueueInOrder, OnlyBegun, FilesAreNamed, RunsDiffer, RunIsNamed,
                                Emptied, Unnamed
<1>8. AllArrived
  BY <1>1, <1>2, <1>3, <1>4 DEF AllArrived, TmpIsNew, NotedArrived, HandedOver, SaysWhatItDid, Emptied, InHand
<1>9. Serial
  BY <1>1, <1>2, <1>3 DEF Serial, OneRaises, LockIsHeld, NumbersGrow, PastLock, Placing, Numbering,
                          Listing, Noting
<1>10. InOrder
  BY <1>1, <1>2, <1>3, <1>4 DEF InOrder, Orderly, Ascending, WaitingIsLater, OwnIsNewest, ListIsOldest,
                                Pending, Unnamed, Emptied, InHand
<1> QED
  BY <1>6, <1>7, <1>8, <1>9, <1>10 DEF SpoolInv

\* While the collector lives a step keeps the order, and mail arrives in it.
LEMMA OrderKept ==
    ASSUME SpoolInv, SpoolNext, Serial', deaths' = 0
    PROVE  Orderly' /\ \A early \in inbox, new \in inbox' \ inbox : early < new \/ new \in dropped
<1>1. Living
  <2>1. deaths = 0
    BY OverlapsStay DEF SpoolInv
  <2> QED
    BY <2>1 DEF SpoolInv, InOrder, Living
<1>2. Clashed' = {}
  <2>1. \A x, y \in named' : x[1] = y[1] => x = y
    BY DEF Serial, NumbersGrow, OneAfterOther
  <2> QED
    BY <2>1 DEF Clashed
<1> QED
  BY <1>1, <1>2, AscendingKept, WaitingKept, OwnKept, ListKept, InOrderDelivered DEF Orderly

\* Every step keeps it all.
LEMMA StepSpool == SpoolInv /\ [SpoolNext]_spool_vars => SpoolInv'
<1> SUFFICES ASSUME SpoolInv, [SpoolNext]_spool_vars PROVE SpoolInv'
  OBVIOUS
<1>1. CASE SpoolNext
  <2>1. SpoolShape' /\ AllNamed' /\ AllArrived'
    <3>1. CASE \E p \in Scripts : Script(p)
      BY <3>1, RunShape, RunNames, RunArrives DEF SpoolInv
    <3>2. CASE ~\E p \in Scripts : Script(p)
      BY <1>1, <3>2, CollectorShape, CollectorNames, CollectorArrives DEF SpoolInv, SpoolNext
    <3> QED
      BY <3>1, <3>2
  <2>2. Serial'
    BY <1>1, <2>1, SerialKept DEF SpoolInv
  <2>3. InOrder'
    BY <1>1, <2>2, OrderKept DEF InOrder
  <2> QED
    BY <2>1, <2>2, <2>3 DEF SpoolInv
<1>2. CASE UNCHANGED spool_vars
  <2>1. UNCHANGED <<queue, sent, worker, late, marked, prompts, s, lock, last, spool, tmp, counter, ids,
                    taken, seat, deaths, inbox, shown, dropped, duplicates, handled, noted, strayed,
                    named, unlocked>>
    BY <1>2 DEF spool_vars, collector, files, spool_history, mails
  <2>2. SpoolShape'
    BY <2>1 DEF SpoolInv, SpoolShape, SpoolTypeOK, RunInOrder, IdsInOrder
  <2>3. AllNamed'
    BY <2>1 DEF SpoolInv, AllNamed, QueueInOrder, OnlyBegun, Begun, FilesAreNamed, RunsDiffer, RunIsNamed
  <2>4. AllArrived'
    BY <2>1 DEF SpoolInv, AllArrived, TmpIsNew, NotedArrived, HandedOver, SaysWhatItDid, Clashed
  <2>5. Serial'
    BY <2>1 DEF SpoolInv, Serial, OneRaises, LockIsHeld, NumbersGrow, OneAfterOther
  <2>6. InOrder'
    BY <2>1 DEF SpoolInv, InOrder, Orderly, Ascending, WaitingIsLater, OwnIsNewest, ListIsOldest
  <2> QED
    BY <2>2, <2>3, <2>4, <2>5, <2>6 DEF SpoolInv
<1> QED
  BY <1>1, <1>2

\* Through every overlap of scripts, kill and broken connection (lss-alert.sh, alert.rs) every
\* variable has its type, a run that has the lock is alone past it, an alert is in one run's
\* hands and has one file at most, and what is about to be removed, marked or written down has
\* arrived.
THEOREM SpoolIsConsistent == SpoolSpec => []SpoolInv
<1>1. SpoolInit => SpoolInv
  BY InitSpool
<1>2. SpoolInv /\ [SpoolNext]_spool_vars => SpoolInv'
  BY StepSpool
<1> QED
  BY <1>1, <1>2, PTL DEF SpoolSpec

\* Every variable keeps its type (lss-alert.sh, alert.rs).
THEOREM SpoolTypeCorrect == SpoolSpec => []SpoolTypeOK
<1>1. SpoolInv => SpoolTypeOK
  BY DEF SpoolInv, SpoolShape
<1> QED
  BY <1>1, SpoolIsConsistent, PTL

\* The spool sorts oldest first while the collector lives, two mails are given one name only
\* where runs go on without the lock after it died, and a row says delivered only of what was
\* (lss-alert.sh, spool_add; alert.rs, take_late_deliveries).
THEOREM DeliveredAsTold == SpoolSpec => []DeliveriesAreAsTold
<1>1. SpoolInv => DeliveriesAreAsTold
  <2> SUFFICES ASSUME SpoolInv PROVE DeliveriesAreAsTold
    OBVIOUS
  <2>1. OldestFirst
    BY DEF SpoolInv, InOrder, Orderly, Ascending, OldestFirst, Before
  <2>2. NamesAreOnes
    <3>1. OneAfterOther => Clashed = {}
      BY NoneClash DEF SpoolInv, Serial
    <3>2. deaths \in Nat
      BY SpoolAssumption DEF SpoolInv, SpoolShape, SpoolTypeOK
    <3> QED
      BY <3>1, <3>2 DEF NamesAreOnes, OneAfterOther
  <2>3. DeliveredIsTrue
    BY DEF SpoolInv, AllArrived, NotedArrived, DeliveredIsTrue
  <2> QED
    BY <2>1, <2>2, <2>3 DEF DeliveriesAreAsTold
<1> QED
  BY <1>1, SpoolIsConsistent, PTL

\* A mail leaves the spool only when it got through, was dropped from the full spool or shared
\* its name with another, also where runs of the script overlap, go on without the lock or are
\* killed; and while the collector lives none overtakes an older one that was not dropped
\* (lss-alert.sh, flush_spool, main and spool_add).
THEOREM SpoolKeepsMail == SpoolSpec => MailIsKeptInOrder
<1>1. ASSUME SpoolInv, SpoolInv', [SpoolNext]_spool_vars
      PROVE  [SpooledStays /\ MailKeepsOrder]_spool_vars
  <2>1. CASE SpoolNext
    <3>1. SpooledStays
      BY <1>1, <2>1, NothingLost DEF SpoolInv
    <3>2. MailKeepsOrder
      BY <1>1, <2>1, OrderKept DEF SpoolInv, MailKeepsOrder
    <3> QED
      BY <3>1, <3>2
  <2>2. CASE UNCHANGED spool_vars
    BY <2>2
  <2> QED
    BY <1>1, <2>1, <2>2
<1> QED
  BY <1>1, SpoolIsConsistent, PTL DEF SpoolSpec, MailIsKeptInOrder

=============================================================================
