------------------------------- MODULE Screen -------------------------------
(***************************************************************************)
(* The client's screen (crates/lss/src/main.rs, ui/mod.rs, data.rs).  One  *)
(* thread takes keys and draws, another fetches.  They share the address   *)
(* of the collector on screen and the page that is wanted, each behind a   *)
(* mutex of its own, and a channel of answers.  A key may change the       *)
(* server, the page and the range while an answer to the old question is   *)
(* on its way.                                                             *)
(*                                                                         *)
(* Of the keys those are kept that change what is asked for, or ask a      *)
(* collector to do something; of an answer, who was asked for what.        *)
(***************************************************************************)
EXTENDS Integers, FiniteSets, SequencesExt

CONSTANTS
    NServers,       \* fleet.len(): the servers of the configuration, 0 .. NServers - 1
    Local,          \* those on this machine
    Gateless,       \* those without a gateway
    PageIds,        \* PageId::ALL, a sequence in key order
    GatewayPages,   \* the pages that are hidden without one
    Rangeless,      \* the pages whose documents have no range
    NRanges,        \* RANGES.len()
    MaxKeys,        \* bound: the keys pressed in a behaviour
    MaxQueue        \* bound: the answers that wait for the screen

ASSUME ScreenAssumption ==
    /\ {NServers, NRanges} \subseteq Nat \ {0} /\ {MaxKeys, MaxQueue} \subseteq Nat
    /\ {"none", "overview", "fleet", "watch"} \cap ToSet(PageIds) = {}
    /\ PageIds \in Seq(ToSet(PageIds))
    /\ \A i, j \in DOMAIN PageIds : PageIds[i] = PageIds[j] => i = j

VARIABLES
    app,        \* the fields of App: url, status, error, view, range_idx, page_data,
                \* bench_prompt, bench_local, bench_message
    addr,       \* the mutex `current`
    wanted,     \* the mutex `wanted`
    channel,
    screen_pc,  \* "drain", "key" or "want": what the screen's thread does next
    fetcher,    \* the fetch thread: pc, url, ctx, asked (last_status), last_page, want
    keys        \* how many keys were pressed

\* History: for whom the prompt was opened, and what was posted.
VARIABLES prompted, posted

screen_vars == <<app, addr, wanted, channel, screen_pc, fetcher, keys, prompted, posted>>

ServerIds == 0 .. NServers - 1
NoServer == -1
Pages == ToSet(PageIds)
NoPage == "none"
Nothing == [page |-> NoPage, range |-> 0]

\* What was fetched: from whom, and with which context.
NoAnswer == [from |-> NoServer, page |-> NoPage, range |-> 0, ctx |-> NoServer]

(***************************************************************************)
(* Mutants                                                                 *)
(***************************************************************************)
\* Any answer is taken.
IsOursAlways(m) == TRUE

\* The context of the server before is kept.
RestartedKeepsCtx(f, url) == [f EXCEPT !.url = url, !.asked = FALSE, !.last_page = Nothing]

\* PageId::next, whether the page is hidden or not.
NextInRingPlain(a) ==
    LET i == IF a.view \in Pages THEN CHOOSE i \in DOMAIN PageIds : PageIds[i] = a.view ELSE 0
        hidden == app.status.from # NoServer /\ app.status.from \in Gateless
    IN  CASE i = Len(PageIds) -> [a EXCEPT !.view = "overview"]
          [] i < Len(PageIds) /\ ~(hidden /\ PageIds[i + 1] \in GatewayPages) ->
                 [a EXCEPT !.view = PageIds[i + 1]]
          [] OTHER -> a

-----------------------------------------------------------------------------
(***************************************************************************)
(* What is on screen                                                       *)
(***************************************************************************)
\* PageData::is_for
IsFor(data, page, range) ==
    data.page = page /\ (data.range = range \/ page \in Rangeless)

\* App::gate_absent: unknown until a status came.
GateAbsent == app.status.from # NoServer /\ app.status.from \in Gateless

\* PageId::visible_pages
VisiblePages(gate_absent) == IF gate_absent THEN Pages \ GatewayPages ELSE Pages

Wanted(a) ==
    IF a.view \in Pages THEN [page |-> a.view, range |-> a.range_idx] ELSE Nothing

\* App::open: a hidden page is not; another page closes the prompt.
Opened(a, page) ==
    IF page \notin VisiblePages(GateAbsent) THEN a
    ELSE [a EXCEPT !.view = page, !.bench_prompt = (a.view = page /\ a.bench_prompt)]

Overview(a) == [a EXCEPT !.view = "overview"]

\* open_next_in_ring, open_prev_in_ring: the overview, then the visible pages in key order.
\* From a page that is hidden by now they go on to its visible neighbour.
Number == [page \in Pages |-> CHOOSE i \in DOMAIN PageIds : PageIds[i] = page]

FirstOf(pages) == CHOOSE p \in pages : \A q \in pages : Number[p] <= Number[q]
LastOf(pages) == CHOOSE p \in pages : \A q \in pages : Number[q] <= Number[p]

Step(a, beyond, nearest) ==
    CASE a.view \notin Pages \cup {"overview"} -> a
      [] a.view \in Pages \cup {"overview"} /\ beyond = {} -> Overview(a)
      [] OTHER -> Opened(a, nearest)

NextInRing(a) ==
    LET beyond == {p \in VisiblePages(GateAbsent) :
                      a.view \in Pages => Number[p] > Number[a.view]}
    IN  Step(a, beyond, FirstOf(beyond))

PrevInRing(a) ==
    LET beyond == {p \in VisiblePages(GateAbsent) :
                      a.view \in Pages => Number[p] < Number[a.view]}
    IN  Step(a, beyond, LastOf(beyond))

\* App::switch_server: all that is on screen belonged to the old one.
Switched(a, step) ==
    LET url == (a.url + step) % NServers
    IN  [a EXCEPT !.url = url, !.status = NoAnswer, !.error = NoServer, !.page_data = NoAnswer,
                  !.bench_message = NoServer, !.bench_local = (url \in Local)]

-----------------------------------------------------------------------------
(***************************************************************************)
(* The screen's thread: run_tui                                            *)
(***************************************************************************)
ScreenInit ==
    /\ app = [url |-> 0, status |-> NoAnswer, error |-> NoServer, view |-> "overview",
              range_idx |-> 1, page_data |-> NoAnswer, bench_prompt |-> FALSE,
              bench_local |-> 0 \in Local, bench_message |-> NoServer]
    /\ addr = 0 /\ wanted = Nothing /\ channel = <<>> /\ screen_pc = "drain" /\ keys = 0
    /\ fetcher = [pc |-> "current", url |-> NoServer, ctx |-> NoServer, asked |-> FALSE,
                  last_page |-> Nothing, want |-> Nothing]
    /\ prompted = NoServer /\ posted = {}

\* Every message says which collector it came from.
IsOurs(m) == m.from = app.url

Receive ==
    /\ screen_pc = "drain" /\ channel # <<>>
    /\ channel' = Tail(channel)
    /\ LET m == Head(channel)
       IN  app' = IF ~IsOurs(m) THEN app
                  ELSE CASE m.kind = "failed" -> [app EXCEPT !.error = m.answer.from]
                         [] m.kind = "status" -> [app EXCEPT !.status = m.answer, !.error = NoServer]
                         [] m.kind = "page" -> [app EXCEPT !.page_data = m.answer]
    /\ UNCHANGED <<addr, wanted, screen_pc, fetcher, keys, prompted, posted>>

\* Nothing is left to read: the screen is drawn, and a key waited for.
Draw ==
    /\ screen_pc = "drain" /\ channel = <<>> /\ screen_pc' = "key"
    /\ UNCHANGED <<app, addr, wanted, channel, fetcher, keys, prompted, posted>>

NoKey ==
    /\ screen_pc = "key" /\ screen_pc' = "drain"
    /\ UNCHANGED <<app, addr, wanted, channel, fetcher, keys, prompted, posted>>

\* A key is taken, and what it asks of the main loop is done: App::on_key, then the action.
Pressed(a) ==
    /\ screen_pc = "key" /\ keys < MaxKeys
    /\ keys' = keys + 1 /\ screen_pc' = "want"
    /\ app' = a
    /\ UNCHANGED <<wanted, channel, fetcher>>

Ordinary(a) == ~app.bench_prompt /\ Pressed(a) /\ UNCHANGED <<addr, prompted, posted>>

SwitchKey ==
    /\ ~app.bench_prompt /\ NServers > 1
    /\ \E step \in {-1, 1} : Pressed(Switched(app, step))
    /\ addr' = app'.url
    /\ UNCHANGED <<prompted, posted>>

PageKey == \E page \in Pages : Ordinary(Opened(app, page))
TabKey == Ordinary(NextInRing(app))
BackTabKey == Ordinary(PrevInRing(app))
OverviewKey == Ordinary(Overview(app))
FleetKey == NServers > 1 /\ Ordinary([app EXCEPT !.view = "fleet"])
WatchKey == Ordinary([app EXCEPT !.view = "watch"])
RangeKey == Ordinary([app EXCEPT !.range_idx = (@ + 1) % NRanges])

BenchKey ==
    /\ ~app.bench_prompt /\ app.view = "model"
    /\ Pressed([app EXCEPT !.bench_prompt = TRUE, !.bench_message = NoServer])
    /\ prompted' = app.url
    /\ UNCHANGED <<addr, posted>>

\* Yes, where it can be started from here; the answer is shown.
PromptKey ==
    /\ app.bench_prompt
    /\ \/ /\ app.bench_local
          /\ Pressed([app EXCEPT !.bench_prompt = FALSE, !.bench_message = app.url])
          /\ posted' = posted \cup {<<app.url, prompted>>}
       \/ /\ Pressed([app EXCEPT !.bench_prompt = FALSE])
          /\ UNCHANGED posted
    /\ UNCHANGED <<addr, prompted>>

TellWanted ==
    /\ screen_pc = "want" /\ screen_pc' = "drain"
    /\ wanted' = Wanted(app)
    /\ UNCHANGED <<app, addr, channel, fetcher, keys, prompted, posted>>

-----------------------------------------------------------------------------
(***************************************************************************)
(* The fetch thread: spawn_fetcher                                         *)
(***************************************************************************)
Restarted(f, url) ==
    [f EXCEPT !.url = url, !.ctx = NoServer, !.asked = FALSE, !.last_page = Nothing]

ReadAddr ==
    /\ fetcher.pc = "current"
    /\ fetcher' = [IF addr # fetcher.url THEN Restarted(fetcher, addr) ELSE fetcher
                      EXCEPT !.pc = "status"]
    /\ UNCHANGED <<app, addr, wanted, channel, screen_pc, keys, prompted, posted>>

Tell(kind, answer) ==
    /\ Len(channel) < MaxQueue
    /\ channel' = Append(channel, [kind |-> kind, from |-> fetcher.url, answer |-> answer])

\* /status, every two seconds and at once for another server.
FetchStatus ==
    /\ fetcher.pc = "status"
    /\ LET answer == [NoAnswer EXCEPT !.from = fetcher.url]
       IN  \/ /\ Tell("status", answer)
              /\ fetcher' = [fetcher EXCEPT !.pc = "wanted", !.asked = TRUE, !.ctx = fetcher.url]
           \/ /\ Tell("failed", answer)
              /\ fetcher' = [fetcher EXCEPT !.pc = "wanted", !.asked = TRUE]
    /\ UNCHANGED <<app, addr, wanted, screen_pc, keys, prompted, posted>>

StatusNotDue ==
    /\ fetcher.pc = "status" /\ fetcher.asked
    /\ fetcher' = [fetcher EXCEPT !.pc = "wanted"]
    /\ UNCHANGED <<app, addr, wanted, channel, screen_pc, keys, prompted, posted>>

ReadWanted ==
    /\ fetcher.pc = "wanted"
    /\ fetcher' = IF wanted = Nothing
                  THEN [fetcher EXCEPT !.pc = "current", !.last_page = Nothing]
                  ELSE [fetcher EXCEPT !.pc = "page", !.want = wanted]
    /\ UNCHANGED <<app, addr, wanted, channel, screen_pc, keys, prompted, posted>>

\* The page's history, every five seconds and at once for another page or range.
FetchPage ==
    /\ fetcher.pc = "page"
    /\ Tell("page", [from |-> fetcher.url, page |-> fetcher.want.page,
                     range |-> fetcher.want.range, ctx |-> fetcher.ctx])
    /\ fetcher' = [fetcher EXCEPT !.pc = "current", !.last_page = fetcher.want]
    /\ UNCHANGED <<app, addr, wanted, screen_pc, keys, prompted, posted>>

PageNotDue ==
    /\ fetcher.pc = "page" /\ fetcher.last_page = fetcher.want
    /\ fetcher' = [fetcher EXCEPT !.pc = "current"]
    /\ UNCHANGED <<app, addr, wanted, channel, screen_pc, keys, prompted, posted>>

ScreenNext ==
    \/ Receive \/ Draw \/ NoKey \/ TellWanted
    \/ SwitchKey \/ PageKey \/ TabKey \/ BackTabKey \/ OverviewKey
    \/ FleetKey \/ WatchKey \/ RangeKey
    \/ BenchKey \/ PromptKey
    \/ ReadAddr \/ FetchStatus \/ StatusNotDue \/ ReadWanted \/ FetchPage \/ PageNotDue

ScreenSpec == ScreenInit /\ [][ScreenNext]_screen_vars

-----------------------------------------------------------------------------
(***************************************************************************)
(* Properties                                                              *)
(***************************************************************************)
\* What is on screen is the server's that the header names, however fast it was switched
\* (main.rs:651, ui/mod.rs:356): status, error and the answer to a bench; the page that is
\* drawn was fetched for this page and range, with devices and users of the same server.  A
\* bench is started only here, and on the server the prompt was opened for.
Drawn == IsFor(app.page_data, app.view, app.range_idx)

ScreenIsOneServers ==
    /\ {app.status.from, app.error, app.bench_message, app.page_data.from}
          \subseteq {NoServer, app.url}
    /\ Drawn => /\ app.page_data.ctx \in {NoServer, app.url}
                /\ app.view \notin Rangeless => app.page_data.range = app.range_idx
    /\ \A p \in posted : p[1] = p[2] /\ p[1] \in Local

\* Tab and Shift-Tab always lead on (ui/mod.rs:417), also from a page that was hidden
\* meanwhile: as many steps as there are visible pages, and one more, meet each of them and
\* the overview; and from what is visible one undoes the other.
Walk(Leads(_), a, n) ==
    LET path[i \in 0 .. n] == IF i = 0 THEN a ELSE Leads(path[i - 1])
    IN  {path[i].view : i \in 1 .. n}

TabLeadsOn ==
    app.view \in Pages \cup {"overview"} =>
        LET stops == VisiblePages(GateAbsent) \cup {"overview"}
        IN  /\ Walk(NextInRing, app, Cardinality(stops)) = stops
            /\ Walk(PrevInRing, app, Cardinality(stops)) = stops
            /\ app.view \in stops => PrevInRing(NextInRing(app)).view = app.view

=============================================================================
