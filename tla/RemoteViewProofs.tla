-------------------------- MODULE RemoteViewProofs --------------------------
(***************************************************************************)
(* Proofs about RemoteView, for every page, list and number of events:     *)
(* what a hook shows is what it asked for last, and no detail is older     *)
(* than the list beside it.                                                *)
(***************************************************************************)
EXTENDS RemoteView, TLAPS

-----------------------------------------------------------------------------
(* The inductive invariant.                                                *)

Shape ==
  /\ server \in Nat
  /\ attempt \in [Hooks -> Nat \ {0}] /\ newest \in [Hooks -> Nat]
  /\ DOMAIN asked = Hooks /\ DOMAIN live = Hooks /\ DOMAIN shown = Hooks

\* The request in flight is the newest, for what the effect last ran with.
InFlight(h) ==
  Live(h) => /\ newest[h] # 0
             /\ \E got \in [Parts[h] -> 0..server] :
                  live[h] = [n |-> newest[h], key |-> asked[h][2], got |-> got]

\* So is the state shown; a hook that loads waits for its request or its effect.
ShownIsNewest(h) ==
  /\ shown[h].n = newest[h] /\ shown[h].key = asked[h][2]
  /\ Live(h) => shown[h].state = "loading"
  /\ shown[h].state = "loading" => Live(h) \/ asked[h] = Never

\* A list that is there stays until the page is left; without one nothing is
\* chosen and no detail is asked for.
ListFirst ==
  /\ Live("list") \/ shown["list"].state = "ready" =>
       asked["list"] = <<attempt["list"], "all">>
  /\ shown["list"].state = "ready" => shown["list"].data \in [Parts["list"] -> 0..server]
  /\ shown["list"].state # "ready" =>
       /\ selected = "" /\ ~Live("detail")
       /\ shown["detail"].state = "ready" => shown["detail"].key = ""

\* What a detail has been served so far is no older than the list.
ServedLater ==
  shown["list"].state = "ready" /\ Live("detail") =>
    \A p \in Parts["detail"], q \in Parts["list"] :
      live["detail"].got[p] # 0 => live["detail"].got[p] >= shown["list"].data[q]

ViewInv ==
  /\ Shape
  /\ \A h \in Hooks : InFlight(h) /\ ShownIsNewest(h)
  /\ ListFirst /\ ServedLater /\ DetailNotOlder

-----------------------------------------------------------------------------
(* Every step keeps it.                                                    *)



LEMMA ViewInit == Init => ViewInv
<1> SUFFICES ASSUME Init PROVE ViewInv
  OBVIOUS
<1>1. Shape
  <2>1. attempt = [h \in Hooks |-> 1] /\ newest = [h \in Hooks |-> 0] /\ server = 1
    BY DEF Init
  <2>2. DOMAIN asked = Hooks /\ DOMAIN live = Hooks /\ DOMAIN shown = Hooks
    BY DEF Init
  <2>3. attempt \in [Hooks -> Nat \ {0}] /\ newest \in [Hooks -> Nat] /\ server \in Nat
    BY <2>1
  <2> QED BY <2>2, <2>3 DEF Shape
<1>2. \A h \in Hooks : ~Live(h) /\ asked[h] = Never /\ shown[h] = Loading(newest[h], "never")
  BY DEF Init, Live
<1>3. ASSUME NEW h \in Hooks PROVE InFlight(h) /\ ShownIsNewest(h)
  <2>1. Never[2] = "never"
    BY DEF Never
  <2>2. shown[h] = Loading(newest[h], asked[h][2]) /\ ~Live(h) /\ asked[h] = Never
    BY <1>2, <2>1
  <2> QED BY <2>2 DEF InFlight, ShownIsNewest, Loading
<1>4. ListFirst /\ ServedLater /\ DetailNotOlder
  BY <1>2 DEF Init, ListFirst, ServedLater, DetailNotOlder, Loading, Hooks
<1> QED BY <1>1, <1>3, <1>4 DEF ViewInv

\* What RunEffects does to one hook.
EffectOn(h) ==
  /\ newest'[h] \in Nat /\ asked'[h] = Dependencies(h)
  /\ ~Pending(h) => UNCHANGED <<newest[h], live[h], shown[h], asked[h]>>
  /\ Pending(h) =>
       /\ newest'[h] = newest[h] + 1 /\ newest'[h] # 0
       /\ Key(h) = "" => live'[h] = NoRequest /\ shown'[h] = Ready(newest'[h], Key(h), <<>>)
       /\ Key(h) # "" =>
            /\ live'[h] = [n |-> newest'[h], key |-> Key(h), got |-> Unserved(h)]
            /\ shown'[h] = Loading(newest'[h], Key(h))

LEMMA EffectsOnHook ==
  ASSUME ViewInv, RunEffects
  PROVE  \A h \in Hooks : EffectOn(h)
<1> TAKE h \in Hooks
<1>1. newest[h] \in Nat
  BY DEF ViewInv, Shape
<1>2. asked'[h] = Dependencies(h)
  BY DEF RunEffects
<1>3. CASE ~Pending(h)
  BY <1>1, <1>2, <1>3 DEF RunEffects, Pending, EffectOn
<1>4. CASE Pending(h)
  <2>1. newest'[h] = newest[h] + 1
    BY <1>4 DEF RunEffects
  <2>2. newest'[h] \in Nat /\ newest'[h] # 0
    BY <1>1, <2>1
  <2>3. Key(h) = "" => live'[h] = NoRequest /\ shown'[h] = Ready(newest'[h], Key(h), <<>>)
    BY <1>4, <2>1 DEF RunEffects
  <2>4. Key(h) # "" => /\ live'[h] = [n |-> newest'[h], key |-> Key(h), got |-> Unserved(h)]
                       /\ shown'[h] = Loading(newest'[h], Key(h))
    BY <1>4, <2>1 DEF RunEffects
  <2> QED BY <1>2, <1>4, <2>1, <2>2, <2>3, <2>4 DEF EffectOn
<1> QED BY <1>3, <1>4

\* Before the list is there, the page is at no entry.
LEMMA NoListNoKey ==
  ASSUME ViewInv, shown["list"].state # "ready"
  PROVE  Key("detail") = ""
BY DEF ViewInv, ListFirst, Key, Effective, ListShown

LEMMA EffectsStep == ASSUME ViewInv, RunEffects PROVE ViewInv'
<1> "list" \in Hooks /\ "detail" \in Hooks
  BY DEF Hooks
<1>e. \A h \in Hooks : EffectOn(h)
  BY EffectsOnHook
<1>1. Shape'
  <2>1. DOMAIN newest' = Hooks
    BY DEF RunEffects
  <2>2. \A h \in Hooks : newest'[h] \in Nat
    BY <1>e DEF EffectOn
  <2>3. newest' = [h \in Hooks |-> newest'[h]]
    BY DEF RunEffects
  <2>4. newest' \in [Hooks -> Nat]
    BY <2>2, <2>3
  <2>5. DOMAIN asked' = Hooks /\ DOMAIN live' = Hooks /\ DOMAIN shown' = Hooks
    BY DEF RunEffects
  <2> QED BY <2>4, <2>5 DEF RunEffects, ViewInv, Shape
<1>2. UNCHANGED <<server, selected, attempt>>
  BY DEF RunEffects
<1>3. ASSUME NEW h \in Hooks PROVE (InFlight(h) /\ ShownIsNewest(h))'
  <2>0. asked'[h][2] = Key(h)
    <3>1. Dependencies(h)[2] = Key(h)
      BY DEF Dependencies
    <3> QED BY <1>e, <3>1 DEF EffectOn
  <2>1. CASE ~Pending(h)
    <3>1. UNCHANGED <<server, newest[h], live[h], shown[h], asked[h]>>
      BY <1>e, <1>2, <2>1 DEF EffectOn
    <3>2. InFlight(h) /\ ShownIsNewest(h)
      BY DEF ViewInv
    <3> QED BY <3>1, <3>2 DEF InFlight, ShownIsNewest, Live
  <2>2. CASE Pending(h) /\ Key(h) = ""
    <3>1. live'[h] = NoRequest /\ shown'[h] = Ready(newest'[h], asked'[h][2], <<>>)
      BY <1>e, <2>0, <2>2 DEF EffectOn
    <3> QED BY <3>1 DEF InFlight, ShownIsNewest, Live, Ready
  <2>3. CASE Pending(h) /\ Key(h) # ""
    <3>1. /\ live'[h] = [n |-> newest'[h], key |-> asked'[h][2], got |-> Unserved(h)]
          /\ shown'[h] = Loading(newest'[h], asked'[h][2])
          /\ newest'[h] # 0
      BY <1>e, <2>0, <2>3 DEF EffectOn
    <3>2. Live(h)'
      <4>1. live'[h].n # 0 /\ NoRequest.n = 0
        BY <3>1 DEF NoRequest
      <4> QED BY <4>1 DEF Live
    <3>3. Unserved(h) \in [Parts[h] -> 0..server']
      BY <1>2 DEF ViewInv, Shape, Unserved
    <3>4. InFlight(h)'
      BY <3>1, <3>3 DEF InFlight
    <3> QED BY <3>1, <3>2, <3>4 DEF ShownIsNewest, Loading
  <2> QED BY <2>1, <2>2, <2>3
<1>4. CASE shown["list"].state = "ready"
  <2>1. ~Pending("list")
    BY <1>4 DEF ViewInv, ListFirst, Pending, Dependencies, Key
  <2>2. /\ asked'["list"] = asked["list"] /\ shown'["list"] = shown["list"]
        /\ live'["list"] = live["list"]
    BY <1>e, <2>1 DEF EffectOn
  <2>3. ListFirst'
    BY <1>2, <1>4, <2>2 DEF ListFirst, ViewInv, Live
  <2>4. CASE ~Pending("detail")
    <3>1. shown'["detail"] = shown["detail"] /\ live'["detail"] = live["detail"]
      BY <1>e, <2>4 DEF EffectOn
    <3> QED BY <1>1, <1>3, <2>2, <2>3, <3>1 DEF ViewInv, ServedLater, DetailNotOlder, Live
  <2>5. CASE Pending("detail") /\ Key("detail") = ""
    <3>0. /\ live'["detail"] = NoRequest
          /\ shown'["detail"] = Ready(newest'["detail"], Key("detail"), <<>>)
      BY <1>e, <2>5 DEF EffectOn
    <3>1. live'["detail"] = NoRequest /\ shown'["detail"].key = ""
      <4>1. shown'["detail"].key = Key("detail")
        BY <3>0 DEF Ready
      <4> QED BY <2>5, <3>0, <4>1
    <3>2. (ServedLater /\ DetailNotOlder)'
      BY <3>1 DEF ServedLater, DetailNotOlder, Live
    <3> QED BY <1>1, <1>3, <2>3, <3>2 DEF ViewInv
  <2>6. CASE Pending("detail") /\ Key("detail") # ""
    <3>0. /\ live'["detail"] = [n |-> newest'["detail"], key |-> Key("detail"),
                                got |-> Unserved("detail")]
          /\ shown'["detail"] = Loading(newest'["detail"], Key("detail"))
      BY <1>e, <2>6 DEF EffectOn
    <3>1. live'["detail"].got = Unserved("detail") /\ shown'["detail"].state = "loading"
      BY <3>0 DEF Loading
    <3>2. (ServedLater /\ DetailNotOlder)'
      BY <3>1 DEF ServedLater, DetailNotOlder, Unserved
    <3> QED BY <1>1, <1>3, <2>3, <3>2 DEF ViewInv
  <2> QED BY <2>4, <2>5, <2>6
<1>5. CASE shown["list"].state # "ready"
  <2>1. Key("detail") = ""
    BY <1>5, NoListNoKey
  <2>2. shown'["list"].state # "ready"
    <3>1. Key("list") = "all" /\ "all" # ""
      BY DEF Key
    <3>2. \/ shown'["list"] = shown["list"]
          \/ shown'["list"] = Loading(newest'["list"], "all")
      BY <1>e, <3>1 DEF EffectOn
    <3> QED BY <1>5, <3>2 DEF Loading
  <2>3. ~Live("detail")' /\ (shown'["detail"].state = "ready" => shown'["detail"].key = "")
    <3>1. CASE ~Pending("detail")
      <4>1. UNCHANGED <<live["detail"], shown["detail"]>>
        BY <1>e, <3>1 DEF EffectOn
      <4> QED BY <1>5, <4>1 DEF ViewInv, ListFirst, Live
    <3>2. CASE Pending("detail")
      <4>1. /\ live'["detail"] = NoRequest
            /\ shown'["detail"] = Ready(newest'["detail"], Key("detail"), <<>>)
        BY <1>e, <2>1, <3>2 DEF EffectOn
      <4>2. shown'["detail"].key = Key("detail")
        BY <4>1 DEF Ready
      <4> QED BY <2>1, <4>1, <4>2 DEF Live
    <3> QED BY <3>1, <3>2
  <2>4. asked'["list"] = <<attempt'["list"], "all">> /\ selected' = ""
    BY <1>e, <1>2, <1>5 DEF EffectOn, ViewInv, ListFirst, Dependencies, Key
  <2> QED BY <1>1, <1>3, <2>2, <2>3, <2>4
       DEF ViewInv, ListFirst, ServedLater, DetailNotOlder
<1> QED BY <1>4, <1>5

LEMMA SelectStep == ASSUME ViewInv, NEW entry \in Entries, Select(entry) PROVE ViewInv'
<1>1. shown["list"].state = "ready"
  BY DEF Select, ListShown
<1> QED BY <1>1 DEF Select, ViewInv, Shape, InFlight, ShownIsNewest, ListFirst, ServedLater,
               DetailNotOlder, Live

LEMMA RetryStep == ASSUME ViewInv, NEW h \in Hooks, Retry(h) PROVE ViewInv'
<1>1. Shape'
  BY DEF Retry, ViewInv, Shape
<1>2. h = "list" => shown["list"].state # "ready" /\ ~Live("list")
  BY DEF Retry, ViewInv, ShownIsNewest
<1>3. attempt'["list"] # attempt["list"] => h = "list"
  BY DEF Retry, ViewInv, Shape
<1>4. \A g \in Hooks : (InFlight(g) /\ ShownIsNewest(g))'
  BY DEF Retry, ViewInv, InFlight, ShownIsNewest, Live
<1>5. ListFirst'
  BY <1>2, <1>3 DEF Retry, ViewInv, ListFirst, Live
<1>6. (ServedLater /\ DetailNotOlder)'
  BY DEF Retry, ViewInv, ServedLater, DetailNotOlder, Live
<1> QED BY <1>1, <1>4, <1>5, <1>6 DEF ViewInv

LEMMA RevisitStep == ASSUME ViewInv, Revisit PROVE ViewInv'
<1>1. Shape'
  BY DEF Revisit, ViewInv, Shape
<1>2. \A h \in Hooks : /\ ~Live(h)' /\ asked'[h] = Never
                       /\ shown'[h] = Loading(newest'[h], "never")
  BY DEF Revisit, Live
<1>3. ASSUME NEW h \in Hooks PROVE (InFlight(h) /\ ShownIsNewest(h))'
  <2>1. Never[2] = "never"
    BY DEF Never
  <2>2. shown'[h] = Loading(newest'[h], asked'[h][2]) /\ ~Live(h)' /\ asked'[h] = Never
    BY <1>2, <2>1
  <2> QED BY <2>2 DEF InFlight, ShownIsNewest, Loading
<1>4. (ListFirst /\ ServedLater /\ DetailNotOlder)'
  BY <1>2 DEF Revisit, AtMount, ListFirst, ServedLater, DetailNotOlder, Loading, Hooks
<1> QED BY <1>1, <1>3, <1>4 DEF ViewInv

LEMMA ServeStep ==
  ASSUME ViewInv, NEW h \in Hooks, NEW p \in Parts[h], Serve(h, p)
  PROVE  ViewInv'
<1> PICK got \in [Parts[h] -> 0..server] :
      live[h] = [n |-> newest[h], key |-> asked[h][2], got |-> got]
  BY DEF Serve, ViewInv, InFlight
<1> DEFINE served == [got EXCEPT ![p] = server]
<1>1. live'[h] = [n |-> newest[h], key |-> asked[h][2], got |-> served]
  BY DEF Serve, ViewInv, Shape
<1>2. \A g \in Hooks : g # h => live'[g] = live[g]
  BY DEF Serve, ViewInv, Shape
<1>3. newest[h] # 0 /\ served \in [Parts[h] -> 0..server]
  BY DEF Serve, ViewInv, InFlight, Shape
<1>4. Live(h)' /\ Live(h)
  <2>1. live'[h].n # 0 /\ NoRequest.n = 0
    BY <1>1, <1>3 DEF NoRequest
  <2> QED BY <2>1 DEF Live, Serve
<1>5. Shape'
  BY DEF Serve, ViewInv, Shape
<1>6. \A g \in Hooks : Live(g)' <=> Live(g)
  BY <1>2, <1>4 DEF Live
<1>7. ASSUME NEW g \in Hooks PROVE (InFlight(g) /\ ShownIsNewest(g))'
  <2>1. InFlight(g) /\ ShownIsNewest(g) /\ UNCHANGED <<server, asked, newest, shown>>
    BY DEF Serve, ViewInv
  <2>2. ShownIsNewest(g)'
    BY <1>6, <2>1 DEF ShownIsNewest
  <2>3. CASE g = h
    BY <1>1, <1>3, <2>1, <2>2, <2>3 DEF InFlight
  <2>4. CASE g # h
    BY <1>2, <2>1, <2>2, <2>4 DEF InFlight, Live
  <2> QED BY <2>3, <2>4
<1>8. ListFirst'
  BY <1>6 DEF Serve, ViewInv, ListFirst, Hooks
<1>9. ServedLater'
  <2> SUFFICES ASSUME shown["list"].state = "ready", Live("detail"),
                      NEW r \in Parts["detail"], NEW q \in Parts["list"],
                      live'["detail"].got[r] # 0
               PROVE  live'["detail"].got[r] >= shown["list"].data[q]
    BY <1>6 DEF ServedLater, Serve, Hooks
  <2>1. server \in Nat /\ shown["list"].data[q] \in 0..server
    BY DEF ViewInv, Shape, ListFirst
  <2>2. CASE h = "detail" /\ r = p
    BY <1>1, <2>1, <2>2
  <2>3. CASE h = "detail" /\ r # p
    BY <1>1, <2>3 DEF ViewInv, ServedLater
  <2>4. CASE h # "detail"
    BY <1>2, <2>4 DEF ViewInv, ServedLater, Hooks
  <2> QED BY <2>2, <2>3, <2>4
<1>10. DetailNotOlder'
  BY DEF Serve, ViewInv, DetailNotOlder
<1> QED BY <1>5, <1>7, <1>8, <1>9, <1>10 DEF ViewInv

\* What settling does to the hooks.
SettledAs(h, state) ==
  /\ live'[h] = NoRequest /\ shown'[h] = state
  /\ \A g \in Hooks : g # h => live'[g] = live[g] /\ shown'[g] = shown[g]
  /\ UNCHANGED <<server, selected, attempt, asked, newest>>

LEMMA SettleOnHook ==
  ASSUME ViewInv, NEW h \in Hooks, NEW state, Settle(h, state)
  PROVE  SettledAs(h, state)
BY DEF Settle, SettledAs, ViewInv, Shape

LEMMA SettledIsNewest ==
  ASSUME ViewInv, NEW h \in Hooks, NEW state, Settle(h, state),
         state.n = newest[h], state.key = asked[h][2], state.state # "loading"
  PROVE  Shape' /\ \A g \in Hooks : (InFlight(g) /\ ShownIsNewest(g))'
<1>1. SettledAs(h, state)
  BY SettleOnHook
<1>2. Shape'
  BY DEF Settle, ViewInv, Shape
<1>3. ASSUME NEW g \in Hooks, g # h PROVE (InFlight(g) /\ ShownIsNewest(g))'
  <2>1. InFlight(g) /\ ShownIsNewest(g)
    BY DEF ViewInv
  <2>2. UNCHANGED <<server, newest, asked, live[g], shown[g]>>
    BY <1>1, <1>3 DEF SettledAs
  <2> QED BY <2>1, <2>2 DEF InFlight, ShownIsNewest, Live
<1>4. (InFlight(h) /\ ShownIsNewest(h))'
  BY <1>1 DEF SettledAs, InFlight, ShownIsNewest, Live
<1> QED BY <1>2, <1>3, <1>4

\* A failure and a timeout leave the same error.
LEMMA ErrorStep ==
  ASSUME ViewInv, NEW h \in Hooks, Live(h), Settle(h, Failed(live[h].n, live[h].key))
  PROVE  ViewInv'
<1>1. shown[h].state = "loading"
  BY DEF ViewInv, ShownIsNewest
<1>2. live[h].n = newest[h] /\ live[h].key = asked[h][2]
  <2> PICK got \in [Parts[h] -> 0..server] :
        live[h] = [n |-> newest[h], key |-> asked[h][2], got |-> got]
    BY DEF ViewInv, InFlight
  <2> QED OBVIOUS
<1>3. SettledAs(h, Failed(newest[h], asked[h][2]))
  BY <1>2, SettleOnHook
<1>4. shown'[h].state = "error"
  BY <1>3 DEF SettledAs, Failed
<1>5. Shape' /\ \A g \in Hooks : (InFlight(g) /\ ShownIsNewest(g))'
  <2> DEFINE state == Failed(newest[h], asked[h][2])
  <2>1. /\ state.n = newest[h] /\ state.key = asked[h][2] /\ state.state # "loading"
        /\ Settle(h, state)
    BY <1>2 DEF Failed
  <2> HIDE DEF state
  <2> QED BY <2>1, SettledIsNewest
<1>6. ListFirst'
  <2>1. CASE h = "list"
    BY <1>1, <1>3, <1>4, <2>1 DEF SettledAs, ViewInv, ListFirst, Live, Hooks
  <2>2. CASE h = "detail"
    BY <1>3, <1>4, <2>2 DEF SettledAs, ViewInv, ListFirst, Live, Hooks
  <2> QED BY <2>1, <2>2 DEF Hooks
<1>7. (ServedLater /\ DetailNotOlder)'
  <2>1. CASE h = "list"
    BY <1>4, <2>1 DEF ServedLater, DetailNotOlder
  <2>2. CASE h = "detail"
    BY <1>3, <1>4, <2>2 DEF SettledAs, ServedLater, DetailNotOlder, Live
  <2> QED BY <2>1, <2>2 DEF Hooks
<1> QED BY <1>5, <1>6, <1>7 DEF ViewInv

LEMMA DeliverStep == ASSUME ViewInv, NEW h \in Hooks, Deliver(h) PROVE ViewInv'
<1>1. PICK got \in [Parts[h] -> 0..server] :
        live[h] = [n |-> newest[h], key |-> asked[h][2], got |-> got]
  BY DEF Deliver, ViewInv, InFlight
<1>2. Live(h) /\ shown[h].state = "loading" /\ \A p \in Parts[h] : got[p] # 0
  BY <1>1 DEF Deliver, ViewInv, ShownIsNewest, Served
<1> DEFINE state == Ready(newest[h], asked[h][2], got)
<1>3. SettledAs(h, state)
  BY <1>1, SettleOnHook DEF Deliver
<1>4. shown'[h].state = "ready" /\ shown'[h].data = got /\ ~Live(h)'
  BY <1>3 DEF SettledAs, Ready, Live
<1>5. Shape' /\ \A g \in Hooks : (InFlight(g) /\ ShownIsNewest(g))'
  <2>1. /\ state.n = newest[h] /\ state.key = asked[h][2] /\ state.state # "loading"
        /\ Settle(h, state)
    BY <1>1 DEF Deliver, Ready
  <2> HIDE DEF state
  <2> QED BY <2>1, SettledIsNewest
<1>6. CASE h = "list"
  <2>1. /\ ~Live("detail") /\ selected = ""
        /\ shown["detail"].state = "ready" => shown["detail"].key = ""
    BY <1>2, <1>6 DEF ViewInv, ListFirst
  <2>2. live'["detail"] = live["detail"] /\ shown'["detail"] = shown["detail"]
    BY <1>3, <1>6 DEF SettledAs, Hooks
  <2>3. ListFirst'
    BY <1>2, <1>3, <1>4, <1>6 DEF SettledAs, ViewInv, ListFirst
  <2>4. (ServedLater /\ DetailNotOlder)'
    BY <2>1, <2>2 DEF ServedLater, DetailNotOlder, Live
  <2> QED BY <1>5, <2>3, <2>4 DEF ViewInv
<1>7. CASE h = "detail"
  <2>1. live'["list"] = live["list"] /\ shown'["list"] = shown["list"]
    BY <1>3, <1>7 DEF SettledAs, Hooks
  <2>2. shown["list"].state = "ready"
    BY <1>2, <1>7 DEF ViewInv, ListFirst
  <2>3. ListFirst'
    BY <1>3, <2>1, <2>2 DEF SettledAs, ViewInv, ListFirst, Live
  <2>4. ServedLater'
    BY <1>4, <1>7 DEF ServedLater
  <2>5. DetailNotOlder'
    <3>1. live["detail"].got = got
      BY <1>1, <1>7
    <3> QED BY <1>2, <1>4, <1>7, <2>1, <2>2, <3>1 DEF ViewInv, ServedLater, DetailNotOlder
  <2> QED BY <1>5, <2>3, <2>4, <2>5 DEF ViewInv
<1> QED BY <1>6, <1>7 DEF Hooks

\* An answer nobody waits for changes nothing; the server's data only ages.
LEMMA QuietStep ==
  ASSUME ViewInv, UNCHANGED <<selected, attempt, asked, newest, live, shown>>,
         server' \in Nat, server' >= server
  PROVE  ViewInv'
<1>1. \A n \in 0..server : n \in 0..server'
  BY DEF ViewInv, Shape
<1>2. \A h \in Hooks : InFlight(h)'
  BY <1>1 DEF ViewInv, InFlight, Live
<1>3. ListFirst'
  BY <1>1 DEF ViewInv, ListFirst, Live
<1> QED BY <1>2, <1>3
       DEF ViewInv, Shape, ShownIsNewest, ServedLater, DetailNotOlder, Live

LEMMA ViewStep == ASSUME ViewInv, [Next]_vars PROVE ViewInv'
<1>1. ASSUME NEW r \in gone, SettleLate(r) PROVE ViewInv'
  BY <1>1, QuietStep DEF SettleLate, Heeded, ViewInv, Shape
<1>2. CASE Advance
  BY <1>2, QuietStep DEF Advance, ViewInv, Shape
<1>3. CASE UNCHANGED vars
  BY <1>3, QuietStep DEF vars, ViewInv, Shape
<1>4. ASSUME NEW h \in Hooks, Fail(h) \/ TimeOut(h) PROVE ViewInv'
  BY <1>4, ErrorStep DEF Fail, TimeOut
<1> QED BY <1>1, <1>2, <1>3, <1>4, EffectsStep, SelectStep, RetryStep, RevisitStep,
           ServeStep, DeliverStep DEF Next

THEOREM ViewInvariant == Spec => []ViewInv
<1>1. ViewInv /\ [Next]_vars => ViewInv'
  BY ViewStep
<1> QED BY <1>1, ViewInit, PTL DEF Spec

-----------------------------------------------------------------------------
(* What follows.                                                           *)

\* Whatever the order of answers, failures, timeouts, clicks and visits, no answer
\* of a request that was replaced ever shows (the abort checks of useRemoteData).
THEOREM NoStaleAnswer == Spec => []ShownIsAsked
<1>1. ViewInv => ShownIsAsked
  <2> SUFFICES ASSUME ViewInv, NEW h \in Hooks, ~Pending(h)
               PROVE  /\ shown[h].n = newest[h] /\ shown[h].key = Key(h)
                      /\ shown[h].state = "loading" <=> Live(h)
    BY DEF ShownIsAsked
  <2>1. asked[h] = <<attempt[h], Key(h)>> /\ attempt[h] # 0
    BY DEF ViewInv, Shape, Pending, Dependencies
  <2> QED BY <2>1 DEF ViewInv, ShownIsNewest, Never
<1> QED BY <1>1, ViewInvariant, PTL

\* The detail shown was read, by each of its requests, no earlier than the list it
\* was chosen from (RouteExplorerPage's effective id).
THEOREM DetailIsNotOlder == Spec => []DetailNotOlder
<1>1. ViewInv => DetailNotOlder
  BY DEF ViewInv
<1> QED BY <1>1, ViewInvariant, PTL
=============================================================================
