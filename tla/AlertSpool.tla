----------------------------- MODULE AlertSpool -----------------------------
(***************************************************************************)
(* How an alert leaves the machine: the collector's alert worker           *)
(* (crates/lss-collector/src/alert.rs) runs scripts/lss-alert.sh for one   *)
(* job at a time and kills it when it takes too long; the script delivers  *)
(* the mail, or keeps it in a spool that every later run tries first, and  *)
(* leaves the ids of late deliveries in a file for the worker to collect.  *)
(* A person at a prompt may flush the spool too, and the script of a       *)
(* collector that died goes on without it: an advisory lock keeps them     *)
(* apart, unless one of them has waited for it too long or there is none.  *)
(*                                                                         *)
(* One action is one file operation of the script, or one delivery: what a *)
(* run reads it has in hand until it uses it, whatever the others do.      *)
(***************************************************************************)
EXTENDS Integers, SequencesExt, Lists

CONSTANTS
    Severity,       \* per alert, in the order of their ids: warn, page, ...
    Text,           \* per alert: its text, as far as the duplicate check goes
    SPOOL_MAX,      \* LSS_ALERT_SPOOL_MAX
    DIGEST_OVER,    \* LSS_ALERT_DIGEST_OVER
    SeatMoods,      \* what the seat can be: idle, busy, down
    Locks,          \* alert.lock: "free"; "missing" on a machine without flock(1)
    Seconds,        \* bound: how many seconds files of one number are apart
    Prompts,        \* bound: how many prompts a person starts
    MaxDeaths       \* bound: how often the collector dies (0 or 1)

Alerts == 1 .. Len(Severity)

ASSUME SpoolAssumption ==
    /\ Severity \in Seq({"info", "warn", "page", "hardware"}) /\ Len(Text) = Len(Severity)
    /\ SPOOL_MAX \in Nat \ {0} /\ DIGEST_OVER \in Nat
    /\ SeatMoods \subseteq {"idle", "busy", "down"} /\ SeatMoods # {}
    /\ Locks \subseteq {"free", "missing"} /\ Locks # {}
    /\ Seconds \in Nat /\ Prompts \in Nat /\ MaxDeaths \in {0, 1}

\* Seconds of the worker's patience, the wait for an idle agent, the wait for the lock.
Timeout == 150
AgentWait == 45
LockWait == 60

\* The runs of the script there can be, and the job that is no alert.
Scripts == {"worker", "prompt", "orphan"}
Flush == 0
Nothing == -1

\* A file's name is its number and the second it was named in, and sorts by them.
Names == Nat \X (0 .. Seconds)
NoName == <<0, 0>>
Before(f, g) == f[1] < g[1] \/ (f[1] = g[1] /\ f[2] < g[2])
Oldest(files) == CHOOSE f \in files : \A g \in files : f = g \/ Before(f, g)

VARIABLES
    queue,      \* the channel to the worker
    sent,       \* how many alerts the poll loop has sent so far
    prompts,    \* how many prompts a person has started
    s,          \* per run of the script: where it is
    lock,       \* who holds alert.lock
    last,       \* alert-last: the text of the last alert that was not a duplicate
    spool,      \* the spool: per name of a file, its alert
    tmp,        \* its .tmp files, likewise
    counter,    \* mail-spool.seq: the last number given; 0: there is none, or it is empty
    ids, taken, \* mail-delivered.ids and .ids.taken: absent, or the ids in them
    worker,     \* the worker, between two runs
    late,       \* the ids it read from .ids.taken and has not marked yet
    marked,     \* the alert rows with delivered = 1
    seat,       \* the agent's mood
    deaths

\* History: the mails that got through; the banners that were shown; the mails the full spool
\* dropped; the duplicates; the alerts the worker is through with; the ids that were written
\* as late deliveries, and those of them that nobody will read; the names and the alerts they
\* were given to; whether a run has gone on without the lock.
VARIABLES inbox, shown, dropped, duplicates, handled, noted, strayed, named, unlocked

files == <<lock, last, spool, tmp, counter, ids, taken>>
collector == <<queue, sent, worker, late, marked>>
mails == <<inbox, shown, dropped, duplicates, handled>>
spool_history == <<mails, noted, strayed, named, unlocked>>
spool_vars == <<collector, prompts, s, files, seat, deaths, spool_history>>

Absent == {Nothing}
Gone == [pc |-> "none", job |-> Nothing, list |-> {}, unread |-> {}, file |-> NoName, text |-> {},
         digest |-> FALSE, id |-> Nothing, number |-> 0, elapsed |-> 0, mail |-> "FAIL",
         banner |-> FALSE, fd |-> "none"]

SpoolInit ==
    /\ queue = <<>> /\ sent = 0 /\ prompts = 0
    /\ s = [p \in Scripts |-> Gone]
    /\ lock \in Locks /\ last = Nothing
    /\ spool = <<>> /\ tmp = <<>> /\ counter = 0 /\ ids = Absent /\ taken = Absent
    /\ worker = "idle" /\ late = {} /\ marked = {}
    /\ seat \in SeatMoods
    /\ deaths = 0
    /\ inbox = {} /\ shown = {} /\ dropped = {} /\ duplicates = {} /\ handled = {}
    /\ noted = {} /\ strayed = {} /\ named = {} /\ unlocked = FALSE

\* What a file holds, if it is there; the files but one.
Content(f) == IF f \in DOMAIN spool THEN {spool[f]} ELSE {}
Without(table, f) == [g \in DOMAIN table \ {f} |-> table[g]]

\* The alerts that were given one name with another one.
Clashed == {x[2] : x \in {x \in named : \E y \in named : y[1] = x[1] /\ y[2] # x[2]}}

AtStep(p, pc) == s[p].pc = pc
Move(p, to) == s' = [s EXCEPT ![p] = to]
GoOn(p, pc) == s' = [s EXCEPT ![p].pc = pc]

\* The names of the files that runs have open, once .ids.taken is removed, and once .ids is
\* renamed to it: a run writes on in the file it has opened.
Removed(fd) == IF fd = "taken" THEN "unlinked" ELSE fd
Renamed(fd) == IF fd = "ids" THEN "taken" ELSE Removed(fd)

\* A run that waits for a busy agent.
Waiting(p) == s[p].pc \in {"hand", "deliver"} /\ seat = "busy"

\* Mutant: the new alert is tried although older mail is still waiting.
AfterFailureDeliver(run) == IF run.job = Flush THEN "exit" ELSE "deliver"

\* Where a run goes when the spool is flushed, and when it could not be.
AfterFlush(run) == IF run.job = Flush THEN "exit" ELSE "deliver"
AfterFailure(run) == IF run.job = Flush THEN "exit" ELSE "seq"

\* A run that is done with the spool.
Through(run, pc) ==
    [run EXCEPT !.pc = pc, !.list = {}, !.unread = {}, !.file = NoName, !.text = {}, !.id = Nothing]

\* The mail was tried: it got through and its files are noted and removed, oldest first, or
\* the flush is over.
Tried(run, o) ==
    IF o.ok THEN [run EXCEPT !.pc = "note", !.elapsed = @ + o.wait,
                             !.file = IF run.digest THEN Oldest(run.list) ELSE run.file]
    ELSE [Through(run, AfterFailure(run)) EXCEPT !.elapsed = @ + o.wait]

(***************************************************************************)
(* deliver_mail: an idle agent takes the mail at once; a busy one may turn *)
(* idle while the script waits; a seat that cannot be reached fails, and   *)
(* then the mail may have got through before the connection broke.         *)
(***************************************************************************)
Outcomes ==
    CASE seat = "idle" -> {[ok |-> TRUE, got |-> TRUE, wait |-> 0]}
      [] seat = "busy" -> {[ok |-> TRUE, got |-> TRUE, wait |-> AgentWait],
                           [ok |-> FALSE, got |-> FALSE, wait |-> AgentWait]}
      [] OTHER -> {[ok |-> FALSE, got |-> got, wait |-> 0] : got \in BOOLEAN}

-----------------------------------------------------------------------------
(***************************************************************************)
(* Mutants.                                                                *)
(***************************************************************************)
\* An alert that is safely spooled counts as delivered.
DeliveredSpooled(run) == run.mail \in {"OK", "SPOOLED"} \/ run.banner

\* Only a run with an alert of its own tries the spool.
ListSpoolForAlerts(p) ==
    /\ AtStep(p, "list")
    /\ LET found == DOMAIN spool
       IN  Move(p, IF found = {} \/ s[p].job = Flush THEN Through(s[p], AfterFlush(s[p]))
                   ELSE [s[p] EXCEPT !.pc = "read", !.list = found, !.unread = found,
                                     !.digest = Cardinality(found) > DIGEST_OVER])
    /\ UNCHANGED <<collector, prompts, files, seat, deaths, spool_history>>

-----------------------------------------------------------------------------
(***************************************************************************)
(* The collector.                                                          *)
(***************************************************************************)
\* The poll loop inserted an alert and sends it to the worker.
SendAlert ==
    /\ sent < Len(Severity) /\ worker # "dead"
    /\ sent' = sent + 1
    /\ queue' = Append(queue, sent + 1)
    /\ UNCHANGED <<prompts, s, files, worker, late, marked, seat, deaths, spool_history>>

\* Every alert_flush_secs; a bound: one at a time.
SendFlush ==
    /\ ~Contains(queue, Flush) /\ worker # "dead"
    /\ queue' = Append(queue, Flush)
    /\ UNCHANGED <<sent, prompts, s, files, worker, late, marked, seat, deaths, spool_history>>

\* The worker starts the script for the next job.
TakeJob ==
    /\ worker = "idle" /\ queue # <<>>
    /\ queue' = Tail(queue)
    /\ worker' = "running"
    /\ Move("worker", [Gone EXCEPT !.pc = IF Head(queue) = Flush THEN "lock" ELSE "dedupe",
                                   !.job = Head(queue)])
    /\ UNCHANGED <<sent, late, marked, prompts, files, seat, deaths, spool_history>>

\* What the worker reads from the script's last line.
Delivered(run) == run.mail = "OK" \/ run.banner

\* The script ended: the row of a delivered alert is marked.
JobEnds ==
    /\ worker = "running" /\ AtStep("worker", "ended")
    /\ marked' = IF s["worker"].job # Flush /\ Delivered(s["worker"])
                 THEN marked \cup {s["worker"].job} ELSE marked
    /\ handled' = handled \cup ({s["worker"].job} \cap Alerts)
    /\ Move("worker", Gone)
    /\ worker' = "rename"
    /\ UNCHANGED <<queue, sent, late, prompts, files, seat, deaths, inbox, shown, dropped,
                   duplicates, noted, strayed, named, unlocked>>

\* cmd::run_env: the script has run for too long and is killed with its group, in
\* one of its waits; a mail it was handing over may have got through.
Kill ==
    /\ worker = "running" /\ Waiting("worker")
    /\ s["worker"].elapsed + AgentWait >= Timeout
    /\ \E got \in BOOLEAN :
          LET run == s["worker"]
              mail == IF run.pc = "hand" THEN run.text ELSE {run.job}
          IN  inbox' = IF got THEN inbox \cup mail ELSE inbox
    /\ handled' = handled \cup ({s["worker"].job} \cap Alerts)
    /\ Move("worker", Gone)
    /\ lock' = IF lock = "worker" THEN "free" ELSE lock
    /\ worker' = "rename"
    /\ UNCHANGED <<queue, sent, late, marked, prompts, last, spool, tmp, counter, ids, taken, seat,
                   deaths, shown, dropped, duplicates, noted, strayed, named, unlocked>>

(***************************************************************************)
(* take_late_deliveries: the file is renamed, read and removed.  A script  *)
(* that has it open writes on in the renamed file.                         *)
(***************************************************************************)
RenameIds ==
    /\ worker = "rename"
    /\ IF ids = Absent
       THEN worker' = "idle" /\ UNCHANGED <<s, ids, taken>>
       ELSE /\ worker' = "read"
            /\ taken' = ids /\ ids' = Absent
            /\ s' = [p \in Scripts |-> [s[p] EXCEPT !.fd = Renamed(@)]]
    /\ UNCHANGED <<queue, sent, late, marked, prompts, lock, last, spool, tmp, counter, seat,
                   deaths, spool_history>>

ReadIds ==
    /\ worker = "read"
    /\ late' = taken
    /\ worker' = "remove"
    /\ UNCHANGED <<queue, sent, marked, prompts, s, files, seat, deaths, spool_history>>

RemoveIds ==
    /\ worker = "remove"
    /\ taken' = Absent
    /\ s' = [p \in Scripts |-> [s[p] EXCEPT !.fd = Removed(@)]]
    /\ worker' = "mark"
    /\ UNCHANGED <<queue, sent, late, marked, prompts, lock, last, spool, tmp, counter, ids, seat,
                   deaths, spool_history>>

MarkLate ==
    /\ worker = "mark"
    /\ marked' = marked \cup late
    /\ late' = {}
    /\ worker' = "idle"
    /\ UNCHANGED <<queue, sent, prompts, s, files, seat, deaths, spool_history>>

\* The collector dies; its script does not.  The ids it was about to mark are forgotten, and
\* nobody reads the file it has renamed.
WorkerDies ==
    /\ deaths < MaxDeaths
    /\ deaths' = deaths + 1
    /\ worker' = "dead" /\ queue' = <<>> /\ late' = {}
    /\ s' = [s EXCEPT !["orphan"] = IF AtStep("worker", "ended") THEN Gone ELSE s["worker"],
                    !["worker"] = Gone]
    /\ lock' = IF lock = "worker" THEN "orphan" ELSE lock
    /\ strayed' = strayed \cup late \cup (taken \ Absent)
    /\ UNCHANGED <<sent, marked, prompts, last, spool, tmp, counter, ids, taken, seat, mails, noted,
                   named, unlocked>>

WorkerRestarts ==
    /\ worker = "dead"
    /\ worker' = "idle"
    /\ UNCHANGED <<queue, sent, late, marked, prompts, s, files, seat, deaths, spool_history>>

-----------------------------------------------------------------------------
(***************************************************************************)
(* The script.                                                             *)
(***************************************************************************)
\* A person runs `lss-alert.sh --flush`.
Prompt ==
    /\ AtStep("prompt", "none") /\ prompts < Prompts
    /\ prompts' = prompts + 1
    /\ Move("prompt", [Gone EXCEPT !.pc = "lock", !.job = Flush])
    /\ UNCHANGED <<collector, files, seat, deaths, spool_history>>

\* The same alert less than 60 s ago is dropped; the time is left open.
Dedupe(p) ==
    /\ AtStep(p, "dedupe")
    /\ \/ /\ last = Text[s[p].job]
          /\ Move(p, [s[p] EXCEPT !.pc = "exit", !.mail = "SKIP"])
          /\ duplicates' = duplicates \cup {s[p].job}
          /\ UNCHANGED last
       \/ /\ last' = Text[s[p].job]
          /\ GoOn(p, "lock")
          /\ UNCHANGED duplicates
    /\ UNCHANGED <<collector, prompts, lock, spool, tmp, counter, ids, taken, seat, deaths, inbox,
                   shown, dropped, handled, noted, strayed, named, unlocked>>

\* take_lock: without flock(1), and after LockWait seconds, the script goes on without it.
TakeLock(p) ==
    /\ AtStep(p, "lock")
    /\ \/ /\ lock = "free" /\ lock' = p
          /\ GoOn(p, "list")
          /\ UNCHANGED unlocked
       \/ /\ lock = "missing"
          /\ GoOn(p, "list") /\ unlocked' = TRUE
          /\ UNCHANGED lock
       \/ /\ lock \in Scripts /\ Waiting(lock) /\ s[lock].elapsed + AgentWait > LockWait
          /\ Move(p, [s[p] EXCEPT !.pc = "list", !.elapsed = @ + LockWait]) /\ unlocked' = TRUE
          /\ UNCHANGED lock
    /\ UNCHANGED <<collector, prompts, last, spool, tmp, counter, ids, taken, seat, deaths, mails,
                   noted, strayed, named>>

(***************************************************************************)
(* flush_spool: the files there are now, one mail for each, or one for all.*)
(***************************************************************************)
ListSpool(p) ==
    /\ AtStep(p, "list")
    /\ LET found == DOMAIN spool
       IN  Move(p, IF found = {} THEN Through(s[p], AfterFlush(s[p]))
                   ELSE [s[p] EXCEPT !.pc = "read", !.list = found, !.unread = found,
                                     !.digest = Cardinality(found) > DIGEST_OVER])
    /\ UNCHANGED <<collector, prompts, files, seat, deaths, spool_history>>

\* The text of the oldest file not read yet is in hand before the mail goes out: nothing, when
\* another run has removed the file since.
ReadFile(p) ==
    /\ AtStep(p, "read")
    /\ LET f == Oldest(s[p].unread)
           rest == s[p].unread \ {f}
       IN  Move(p, [s[p] EXCEPT !.pc = IF s[p].digest /\ rest # {} THEN "read" ELSE "hand",
                                !.file = f, !.unread = rest, !.text = @ \cup Content(f)])
    /\ UNCHANGED <<collector, prompts, files, seat, deaths, spool_history>>

HandOver(p) ==
    /\ AtStep(p, "hand")
    /\ \E o \in Outcomes :
          /\ Move(p, Tried(s[p], o))
          /\ inbox' = IF o.got THEN inbox \cup s[p].text ELSE inbox
    /\ UNCHANGED <<collector, prompts, files, seat, deaths, shown, dropped, duplicates, handled,
                   noted, strayed, named, unlocked>>

\* mark_delivered: the id is read from the file as it is now, if it is there, ...
NoteId(p) ==
    /\ AtStep(p, "note")
    /\ LET f == s[p].file
       IN  Move(p, IF f \in DOMAIN spool THEN [s[p] EXCEPT !.pc = "open", !.id = spool[f]]
                   ELSE [s[p] EXCEPT !.pc = "remove"])
    /\ UNCHANGED <<collector, prompts, files, seat, deaths, spool_history>>

\* ... mail-delivered.ids is opened for appending ...
OpenIds(p) ==
    /\ AtStep(p, "open")
    /\ ids' = IF ids = Absent THEN {} ELSE ids
    /\ Move(p, [s[p] EXCEPT !.pc = "write", !.fd = "ids"])
    /\ UNCHANGED <<collector, prompts, lock, last, spool, tmp, counter, taken, seat, deaths,
                   spool_history>>

\* ... and the id is written to it, whatever the file is called by now, and whether or not the
\* worker has still to read it.
WriteId(p) ==
    /\ AtStep(p, "write")
    /\ LET id == s[p].id
           fd == s[p].fd
       IN  /\ ids' = IF fd = "ids" THEN ids \cup {id} ELSE ids
           /\ taken' = IF fd = "taken" THEN taken \cup {id} ELSE taken
           /\ noted' = noted \cup {id}
           /\ strayed' = IF fd = "ids" \/ (fd = "taken" /\ worker = "read") THEN strayed
                         ELSE strayed \cup {id}
    /\ Move(p, [s[p] EXCEPT !.pc = "remove", !.fd = "none", !.id = Nothing])
    /\ UNCHANGED <<collector, prompts, lock, last, spool, tmp, counter, seat, deaths, mails, named,
                   unlocked>>

\* Then the file goes, and the next one is tried, or noted.
NextFile(run, rest) ==
    IF rest = {} THEN Through(run, AfterFlush(run))
    ELSE IF run.digest THEN [run EXCEPT !.pc = "note", !.list = rest, !.file = Oldest(rest)]
    ELSE [run EXCEPT !.pc = "read", !.list = rest, !.text = {}]

RemoveFile(p) ==
    /\ AtStep(p, "remove")
    /\ spool' = Without(spool, s[p].file)
    /\ Move(p, NextFile(s[p], s[p].list \ {s[p].file}))
    /\ UNCHANGED <<collector, prompts, lock, last, tmp, counter, ids, taken, seat, deaths,
                   spool_history>>

\* The spool is empty: the new alert's own mail.
Deliver(p) ==
    /\ AtStep(p, "deliver")
    /\ \E o \in Outcomes :
          /\ Move(p, [s[p] EXCEPT !.pc = IF o.ok THEN "banner" ELSE "seq",
                                  !.mail = IF o.ok THEN "OK" ELSE "FAIL",
                                  !.elapsed = @ + o.wait])
          /\ inbox' = IF o.got THEN inbox \cup {s[p].job} ELSE inbox
    /\ UNCHANGED <<collector, prompts, files, seat, deaths, shown, dropped, duplicates, handled,
                   noted, strayed, named, unlocked>>

(***************************************************************************)
(* spool_add: the counter is read, emptied by the redirection and written; *)
(* the mail goes to a .tmp file of that number, which is moved to its      *)
(* place; beyond SPOOL_MAX files the oldest is dropped.                    *)
(***************************************************************************)
ReadSeq(p) ==
    /\ AtStep(p, "seq")
    /\ Move(p, [s[p] EXCEPT !.pc = "empty", !.number = counter + 1])
    /\ UNCHANGED <<collector, prompts, files, seat, deaths, spool_history>>

TruncateSeq(p) ==
    /\ AtStep(p, "empty")
    /\ counter' = 0
    /\ GoOn(p, "number")
    /\ UNCHANGED <<collector, prompts, lock, last, spool, tmp, ids, taken, seat, deaths,
                   spool_history>>

WriteSeq(p) ==
    /\ AtStep(p, "number")
    /\ counter' = s[p].number
    /\ GoOn(p, "tmp")
    /\ UNCHANGED <<collector, prompts, lock, last, spool, tmp, ids, taken, seat, deaths,
                   spool_history>>

\* The second matters only beside a file of the same number.
NamesOf(n) == IF \E x \in named : x[1][1] = n THEN {n} \X (0 .. Seconds) ELSE {<<n, 0>>}

WriteTmp(p) ==
    /\ AtStep(p, "tmp")
    /\ \E f \in NamesOf(s[p].number) :
          /\ tmp' = Put(tmp, f, s[p].job)
          /\ named' = named \cup {<<f, s[p].job>>}
          /\ Move(p, [s[p] EXCEPT !.pc = "move", !.file = f, !.number = 0])
    /\ UNCHANGED <<collector, prompts, lock, last, spool, counter, ids, taken, seat, deaths, mails,
                   noted, strayed, unlocked>>

\* mv: it fails when another run has moved the file of this name.
MoveTmp(p) ==
    /\ AtStep(p, "move")
    /\ LET f == s[p].file
       IN  IF f \in DOMAIN tmp
           THEN /\ spool' = Put(spool, f, tmp[f]) /\ tmp' = Without(tmp, f)
                /\ Move(p, [s[p] EXCEPT !.pc = "count", !.file = NoName])
           ELSE /\ Move(p, [s[p] EXCEPT !.pc = "banner", !.file = NoName])
                /\ UNCHANGED <<spool, tmp>>
    /\ UNCHANGED <<collector, prompts, lock, last, counter, ids, taken, seat, deaths,
                   spool_history>>

CountSpool(p) ==
    /\ AtStep(p, "count")
    /\ Move(p, IF Cardinality(DOMAIN spool) > SPOOL_MAX THEN [s[p] EXCEPT !.pc = "oldest"]
               ELSE [s[p] EXCEPT !.pc = "banner", !.mail = "SPOOLED"])
    /\ UNCHANGED <<collector, prompts, files, seat, deaths, spool_history>>

FindOldest(p) ==
    /\ AtStep(p, "oldest")
    /\ Move(p, IF DOMAIN spool = {} THEN [s[p] EXCEPT !.pc = "banner", !.mail = "SPOOLED"]
               ELSE [s[p] EXCEPT !.pc = "drop", !.file = Oldest(DOMAIN spool)])
    /\ UNCHANGED <<collector, prompts, files, seat, deaths, spool_history>>

DropOldest(p) ==
    /\ AtStep(p, "drop")
    /\ dropped' = dropped \cup Content(s[p].file)
    /\ spool' = Without(spool, s[p].file)
    /\ Move(p, [s[p] EXCEPT !.pc = "count", !.file = NoName])
    /\ UNCHANGED <<collector, prompts, lock, last, tmp, counter, ids, taken, seat, deaths, inbox,
                   shown, duplicates, handled, noted, strayed, named, unlocked>>

\* A page or a hardware alert, and a warning whose mail was not sent.
WantsBanner(run) ==
    \/ Severity[run.job] \in {"page", "hardware"}
    \/ Severity[run.job] = "warn" /\ run.mail # "OK"

Banner(p) ==
    /\ AtStep(p, "banner")
    /\ \E ok \in IF ~WantsBanner(s[p]) THEN {FALSE} ELSE {TRUE} \cup {seat # "down"} :
          /\ shown' = IF ok THEN shown \cup {s[p].job} ELSE shown
          /\ Move(p, [s[p] EXCEPT !.pc = "exit", !.banner = ok])
    /\ UNCHANGED <<collector, prompts, files, seat, deaths, inbox, dropped, duplicates, handled,
                   noted, strayed, named, unlocked>>

\* The script exits and its lock is released.
Exit(p) ==
    /\ AtStep(p, "exit")
    /\ lock' = IF lock = p THEN "free" ELSE lock
    /\ IF p = "worker" THEN GoOn(p, "ended") ELSE Move(p, Gone)
    /\ UNCHANGED <<collector, prompts, last, spool, tmp, counter, ids, taken, seat, deaths,
                   spool_history>>

\* The agent turns idle or busy, the seat goes down and comes back.
Mood ==
    /\ seat' \in SeatMoods \ {seat}
    /\ UNCHANGED <<collector, prompts, s, files, deaths, spool_history>>

FlushStep(p) ==
    \/ ListSpool(p) \/ ReadFile(p) \/ HandOver(p) \/ NoteId(p) \/ OpenIds(p) \/ WriteId(p)
    \/ RemoveFile(p)

AddStep(p) ==
    \/ ReadSeq(p) \/ TruncateSeq(p) \/ WriteSeq(p) \/ WriteTmp(p) \/ MoveTmp(p) \/ CountSpool(p)
    \/ FindOldest(p) \/ DropOldest(p)

Script(p) ==
    \/ Dedupe(p) \/ TakeLock(p) \/ FlushStep(p) \/ Deliver(p) \/ AddStep(p) \/ Banner(p) \/ Exit(p)

Worker == TakeJob \/ JobEnds \/ RenameIds \/ ReadIds \/ RemoveIds \/ MarkLate

SpoolNext ==
    \/ SendAlert \/ SendFlush \/ Worker \/ Kill \/ WorkerDies \/ WorkerRestarts
    \/ Prompt \/ \E p \in Scripts : Script(p)
    \/ Mood

SpoolSpec == SpoolInit /\ [][SpoolNext]_spool_vars

-----------------------------------------------------------------------------
IdFile == {Absent} \cup SUBSET Alerts

Jobs == Alerts \cup {Flush}

Runs ==
    [pc: {"none", "dedupe", "lock", "list", "read", "hand", "note", "open", "write", "remove",
          "deliver", "seq", "empty", "number", "tmp", "move", "count", "oldest", "drop", "banner",
          "exit", "ended"},
     job: Jobs \cup {Nothing}, list: SUBSET Names, unread: SUBSET Names, file: Names,
     text: SUBSET Alerts, digest: BOOLEAN, id: Alerts \cup {Nothing}, number: Nat, elapsed: Nat,
     mail: {"FAIL", "OK", "SPOOLED", "SKIP"}, banner: BOOLEAN,
     fd: {"none", "ids", "taken", "unlinked"}]

\* Every variable keeps its type.
SpoolTypeOK ==
    /\ queue \in Seq(Jobs) /\ sent \in 0 .. Len(Severity) /\ prompts \in 0 .. Prompts
    /\ s \in [Scripts -> Runs] /\ lock \in Scripts \cup {"free", "missing"}
    /\ DOMAIN spool \subseteq Names /\ spool \in [DOMAIN spool -> Alerts]
    /\ DOMAIN tmp \subseteq Names /\ tmp \in [DOMAIN tmp -> Alerts]
    /\ counter \in Nat /\ ids \in IdFile /\ taken \in IdFile
    /\ worker \in {"idle", "running", "rename", "read", "remove", "mark", "dead"}
    /\ seat \in SeatMoods /\ deaths \in 0 .. MaxDeaths
    /\ late \subseteq Alerts /\ marked \subseteq Alerts /\ inbox \subseteq Alerts
    /\ shown \subseteq Alerts /\ dropped \subseteq Alerts /\ duplicates \subseteq Alerts
    /\ handled \subseteq Alerts /\ noted \subseteq Alerts /\ strayed \subseteq Alerts
    /\ named \subseteq Names \X Alerts /\ unlocked \in BOOLEAN

\* The names of the files sort as their alerts were raised, which is all that "oldest" can mean
\* to a run that lists them: as long as no script is left on its own by a collector that died.
OldestFirst ==
    deaths = 0 => \A x, y \in named : x[2] < y[2] => Before(x[1], y[1])

\* Two mails are given one name only when such a script and the next collector's both go on
\* without the lock (lss-alert.sh:204).
NamesAreOnes == Clashed # {} => deaths > 0 /\ unlocked

\* A row says delivered only when its mail got through or its banner was shown, unless its
\* file had the name of another mail's.
DeliveredIsTrue == marked \subseteq inbox \cup shown \cup Clashed

\* So what the agent is to read next, and what the rows say that it has read, are the alerts
\* as they came (lss-alert.sh:94), through every overlap of scripts, kill and broken
\* connection.
DeliveriesAreAsTold == OldestFirst /\ NamesAreOnes /\ DeliveredIsTrue

\* A mail leaves the spool when it got through, or when it was dropped from a full spool; also
\* when runs of the script overlap or are killed, but for two mails of one name.
SpooledStays ==
    \A f \in DOMAIN spool :
        \/ f \in DOMAIN spool' /\ spool'[f] = spool[f]
        \/ spool[f] \in inbox' \cup dropped' \cup Clashed'

\* The agent hears of alerts in the order they were raised: a spool that could not be flushed
\* holds back the new alert too, as long as the collector lives.  What comes too late was
\* dropped from the full spool while another run had read it, and was waiting with it.
MailKeepsOrder ==
    deaths' = 0 => \A early \in inbox, new \in inbox' \ inbox : early < new \/ new \in dropped

\* So no step lets go of a waiting mail, and none lets a younger one overtake it
\* (lss-alert.sh:136, 238).
MailIsKeptInOrder == [][SpooledStays /\ MailKeepsOrder]_spool_vars

\* What waits is seen to (lss-alert.sh:211): the spool is emptied once the agent stays idle.
SpoolDrains == <>[](seat = "idle") => <>[](spool = <<>>)

\* What was delivered late is marked in the end (alert.rs:74), unless its id was written where
\* nobody reads it any more, or read by a collector that died.
LateIsMarked == \A id \in Alerts : (id \in noted) ~> (id \in marked \cup strayed)

WaitingIsSeenTo == SpoolDrains /\ LateIsMarked

\* crates/lss-collector/src/alert.rs:74 "The file is renamed before it is read so an id
\* appended meanwhile is never lost": it is in one of the files, with the worker, or marked.
AppendedIsKept == noted \subseteq ids \cup taken \cup late \cup marked

\* scripts/lss-alert.sh:19 "If the agent stays busy (or the ssh leg fails) the mail is
\* not lost": once the worker is through with an alert its mail got through, is in
\* the spool, or was dropped by the full spool or as a duplicate.
MailIsNotLost ==
    handled \subseteq inbox \cup {spool[f] : f \in DOMAIN spool} \cup dropped \cup duplicates

\* The worker and every run of the script get on with what they do, the poll loop keeps asking
\* for flushes, and a collector that died is started again (packaging/lss-collector.service:15).
\* Nobody need send an alert.
SpoolFairness ==
    /\ WF_spool_vars(Worker) /\ WF_spool_vars(SendFlush) /\ WF_spool_vars(WorkerRestarts)
    /\ \A p \in Scripts : WF_spool_vars(Script(p))

=============================================================================
