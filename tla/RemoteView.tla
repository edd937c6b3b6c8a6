----------------------------- MODULE RemoteView -----------------------------
(***************************************************************************)
(* A page of the frontend that shows a list and the detail of one of its   *)
(* entries, each with a useRemoteData hook of its own (RouteExplorerPage,  *)
(* ProvenancePage, OperationsPage).                                        *)
(*                                                                         *)
(*   hooks/useRemoteData.ts   the effect, its cleanup, timeout and retry   *)
(*   api.ts                   the requests                                 *)
(*   components/DataState.tsx which state offers a retry                   *)
(*                                                                         *)
(* Events run one at a time, with the microtasks they cause: an answer     *)
(* that arrives, a timer, a click, and React running the effects whose     *)
(* dependencies changed, some time after it rendered.  The answers of a    *)
(* loader's parallel requests are read by the server one by one.           *)
(***************************************************************************)
EXTENDS Naturals, Sequences

CONSTANTS
  Parts,      \* per hook, the requests its loader makes in parallel
  Listed,     \* the entries the server lists, by version of its data
  MaxClicks, MaxVisits   \* bounds: clicks on retry or an entry, navigations

Hooks    == {"list", "detail"}
Versions == 1..Len(Listed)
Entries  == UNION {{Listed[v][k] : k \in DOMAIN Listed[v]} : v \in Versions}

ASSUME ViewAssumption ==
  /\ DOMAIN Parts = Hooks /\ \A h \in Hooks : Parts[h] # {}
  /\ Len(Listed) > 0 /\ "" \notin Entries
  /\ MaxClicks \in Nat /\ MaxVisits \in Nat

VARIABLES
  server,    \* the version of the server's data
  selected,  \* the entry clicked, or ""
  attempt,   \* per hook, its retries
  asked,     \* per hook, the dependencies its effect last ran with
  newest,    \* per hook, the number of its last request
  live,      \* per hook, the request in flight
  gone,      \* requests that were cleaned up and have not settled
  shown,     \* per hook, the state it returns
  bounds

vars == <<server, selected, attempt, asked, newest, live, gone, shown, bounds>>

Never  == <<0, "never">>
NoRequest == [n |-> 0, key |-> "", got |-> <<>>]
Unserved(h) == [p \in Parts[h] |-> 0]

\* What a hook returns; the request it comes from and the key are kept as history.
Loading(n, key)   == [state |-> "loading", n |-> n, key |-> key, data |-> <<>>]
Failed(n, key)    == [state |-> "error", n |-> n, key |-> key, data |-> <<>>]
Ready(n, key, got) == [state |-> "ready", n |-> n, key |-> key, data |-> got]

\* Slip: a page that is opened again keeps the entry that was clicked.
SelectionKept(entry) == entry

AtMount(entry) == ""

Init ==
  /\ server = 1 /\ selected = ""
  /\ attempt = [h \in Hooks |-> 1] /\ asked = [h \in Hooks |-> Never]
  /\ newest = [h \in Hooks |-> 0]
  /\ live = [h \in Hooks |-> NoRequest] /\ gone = {}
  /\ shown = [h \in Hooks |-> Loading(0, "never")]
  /\ bounds = [clicks |-> 0, visits |-> 0]

-----------------------------------------------------------------------------
(* Rendering and effects.                                                  *)

\* The entries of the list shown: the version its first request was served with.
ListShown == IF shown["list"].state # "ready" THEN <<>>
             ELSE Listed[shown["list"].data["entries"]]

\* selected || data?.[0]?.id || ""
Effective == IF selected # "" THEN selected
             ELSE IF ListShown = <<>> THEN "" ELSE Head(ListShown)

Key(h) == IF h = "list" THEN "all" ELSE Effective
Dependencies(h) == <<attempt[h], Key(h)>>
Pending(h) == asked[h] # Dependencies(h)

Live(h) == live[h] # NoRequest

CleanedUp(hooks) == gone \cup {[of |-> h, request |-> live[h]] : h \in {g \in hooks : Live(g)}}

\* React runs the effects of the last render: cleanup, a new request, and in its
\* microtask the loading state; without a key the loader resolves to null at once.
RunEffects ==
  LET due == {h \in Hooks : Pending(h)}
      next(h) == newest[h] + 1
  IN /\ due # {}
     /\ gone' = CleanedUp(due)
     /\ asked' = [h \in Hooks |-> Dependencies(h)]
     /\ newest' = [h \in Hooks |-> IF h \in due THEN next(h) ELSE newest[h]]
     /\ live' = [h \in Hooks |->
          IF h \notin due THEN live[h]
          ELSE IF Key(h) = "" THEN NoRequest
          ELSE [n |-> next(h), key |-> Key(h), got |-> Unserved(h)]]
     /\ shown' = [h \in Hooks |->
          IF h \notin due THEN shown[h]
          ELSE IF Key(h) = "" THEN Ready(next(h), "", <<>>)
          ELSE Loading(next(h), Key(h))]
     /\ UNCHANGED <<server, selected, attempt, bounds>>

\* A click on an entry of the list.
Select(entry) ==
  /\ \E k \in DOMAIN ListShown : ListShown[k] = entry
  /\ selected # entry
  /\ bounds.clicks < MaxClicks
  /\ selected' = entry
  /\ bounds' = [bounds EXCEPT !.clicks = @ + 1]
  /\ UNCHANGED <<server, attempt, asked, newest, live, gone, shown>>

\* DataState offers a retry in the error state only.
Retry(h) ==
  /\ shown[h].state = "error"
  /\ bounds.clicks < MaxClicks
  /\ attempt' = [attempt EXCEPT ![h] = @ + 1]
  /\ bounds' = [bounds EXCEPT !.clicks = @ + 1]
  /\ UNCHANGED <<server, selected, asked, newest, live, gone, shown>>

\* The page is left, its effects are cleaned up, and it is opened again.
Revisit ==
  /\ bounds.visits < MaxVisits
  /\ gone' = CleanedUp(Hooks)
  /\ selected' = AtMount(selected)
  /\ attempt' = [h \in Hooks |-> 1] /\ asked' = [h \in Hooks |-> Never]
  /\ live' = [h \in Hooks |-> NoRequest]
  /\ shown' = [h \in Hooks |-> Loading(newest[h], "never")]
  /\ bounds' = [bounds EXCEPT !.visits = @ + 1]
  /\ UNCHANGED <<server, newest>>

-----------------------------------------------------------------------------
(* Requests.                                                               *)

\* The server reads its data for one request of the loader.
Serve(h, p) ==
  /\ Live(h) /\ live[h].got[p] = 0
  /\ live' = [live EXCEPT ![h].got[p] = server]
  /\ UNCHANGED <<server, selected, attempt, asked, newest, gone, shown, bounds>>

Settle(h, state) ==
  /\ live' = [live EXCEPT ![h] = NoRequest]
  /\ shown' = [shown EXCEPT ![h] = state]
  /\ UNCHANGED <<server, selected, attempt, asked, newest, gone, bounds>>

Served(r, h) == \A p \in Parts[h] : r.got[p] # 0

\* Promise.all: the last answer, or the first failure.
Deliver(h) ==
  /\ Live(h) /\ Served(live[h], h)
  /\ Settle(h, Ready(live[h].n, live[h].key, live[h].got))

Fail(h) ==
  /\ Live(h)
  /\ Settle(h, Failed(live[h].n, live[h].key))

\* Slip: the timer is cleared by the first answer of several.
ArmedAtFirst(h) == \A p \in Parts[h] : live[h].got[p] = 0

\* finally clears the timer, when the whole loader has settled.
Armed(h) == Live(h)

\* The abort rejects the loader, whose catch sets the error in the same task.
TimeOut(h) ==
  /\ Live(h) /\ Armed(h)
  /\ Settle(h, Failed(live[h].n, live[h].key))

\* Slip: the answer of an aborted request is taken.
HeededWhenServed(r) == Served(r.request, r.of)

\* then and catch do nothing once the cleanup has aborted the request.
Heeded(r) == FALSE

SettleLate(r) ==
  /\ r \in gone
  /\ gone' = gone \ {r}
  /\ shown' = IF Heeded(r)
              THEN [shown EXCEPT ![r.of] = Ready(r.request.n, r.request.key, r.request.got)]
              ELSE shown
  /\ UNCHANGED <<server, selected, attempt, asked, newest, live, bounds>>

Advance ==
  /\ server < Len(Listed)
  /\ server' = server + 1
  /\ UNCHANGED <<selected, attempt, asked, newest, live, gone, shown, bounds>>

Next == \/ RunEffects \/ Revisit \/ Advance
        \/ \E e \in Entries : Select(e)
        \/ \E h \in Hooks :
             \/ Retry(h) \/ Deliver(h) \/ Fail(h) \/ TimeOut(h)
             \/ \E p \in Parts[h] : Serve(h, p)
        \/ \E r \in gone : SettleLate(r)

\* React runs pending effects and timers fire; no server has to answer.
Spec == /\ Init /\ [][Next]_vars
        /\ WF_vars(RunEffects)
        /\ \A h \in Hooks : WF_vars(TimeOut(h))

-----------------------------------------------------------------------------
(* Properties.                                                             *)

\* Once the effects have run, what a hook shows comes from its newest request and
\* is about the entry the page is at: no answer of a request that a retry, another
\* entry or another visit replaced ever shows, in whatever order answers, failures
\* and timeouts arrive (the abort checks of useRemoteData).
ShownIsAsked ==
  \A h \in Hooks : ~Pending(h) => /\ shown[h].n = newest[h]
                                  /\ shown[h].key = Key(h)
                                  /\ shown[h].state = "loading" <=> Live(h)

\* A detail on the page was read no earlier than the list it was chosen from, by
\* every one of the loader's requests: the page never shows a newer list beside an
\* older detail (the detail's key is empty until the list is there).
DetailNotOlder ==
  shown["list"].state = "ready" /\ shown["detail"].state = "ready" /\ shown["detail"].key # "" =>
    \A p \in Parts["detail"], q \in Parts["list"] :
      shown["detail"].data[p] >= shown["list"].data[q]

\* No hook loads for ever, even when a server stops answering after some of the
\* requests of a loader: data, an error, or another visit ends it (the timeout).
LoadingEnds == \A h \in Hooks : (shown[h].state = "loading") ~> (shown[h].state # "loading")

=============================================================================
