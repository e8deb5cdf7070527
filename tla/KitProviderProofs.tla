-------------------------- MODULE KitProviderProofs ---------------------------
(***************************************************************************)
(* The browser's copy of a kit, for any number of kits, requests, batches  *)
(* and lost answers: one GET at a time, no answer of a page the user left, *)
(* and no step back.                                                       *)
(***************************************************************************)
EXTENDS KitProvider, TLAPS

-----------------------------------------------------------------------------
(* The inductive invariant *)

Phases == {"unborn", "open", "deleted"} \cup Settled
Views == [kit : Kits \cup {NoKit}, phase : Phases, revision : Nat]
Gets == [pc : {"free", "sent", "ok", "error"}, kit : Kits \cup {NoKit}, aborted : BOOLEAN, answer : Views]
Posts == [pc : {"unused", "sent", "refreshing", "done", "foreign"}, kit : Kits \cup {NoKit},
          route : Kits \cup {NoKit}, expected : Nat]

Typed ==
    /\ phase \in [Kits -> Phases] /\ revision \in [Kits -> Nat]
    /\ page \in Kits \cup {NoKit} /\ shown \in Views /\ inFlight \in BOOLEAN
    /\ get \in [Requests -> Gets] /\ post \in [Batches -> Posts]

\* The GET under way is the one the controller can abort.
SoleRequest == \A r \in Requests : get[r].pc # "free" => inFlight /\ controller = r

\* A kit that is loaded or shown without being that of the page is the kit of a
\* page a batch was sent from.
Excused(k, at, posts) == k = at \/ \E b \in Batches : posts[b].pc = "done" /\ posts[b].route = k

LoadsExcused ==
    /\ \A b \in Batches :
        /\ post[b].pc \in {"sent", "refreshing", "done"} => post[b].route \in Kits
        /\ post[b].pc = "sent" => post[b].kit \in Kits
    /\ \A r \in Requests : get[r].pc # "free" =>
        /\ get[r].kit \in Kits
        /\ ~get[r].aborted => Excused(get[r].kit, page, post)
        /\ get[r].pc = "ok" => get[r].answer.kit = get[r].kit
    /\ shown # NoView => shown.kit \in Kits /\ Excused(shown.kit, page, post)

\* A view tells what the row was: its revision can only have grown, and its
\* outcome stays until the row is deleted.
Past(v) ==
    phase[v.kit] \notin {"unborn", "deleted"} =>
        /\ v.revision <= revision[v.kit]
        /\ v.phase \in Settled => phase[v.kit] = v.phase

\* A later view of the same kit.
NotBefore(v, w) == w.revision >= v.revision /\ (v.phase \in Settled => w.phase = v.phase)

ViewsArePast ==
    /\ \A k \in Kits : phase[k] = "unborn" => revision[k] = 0
    /\ shown # NoView => Past(shown) /\ phase[shown.kit] # "unborn"
    /\ \A r \in Requests :
        /\ get[r].pc = "ok" => Past(get[r].answer) /\ phase[get[r].answer.kit] # "unborn"
        /\ get[r].pc = "ok" /\ shown # NoView /\ shown.kit = get[r].answer.kit
              => NotBefore(shown, get[r].answer)

Inv == Typed /\ SoleRequest /\ LoadsExcused /\ ViewsArePast
-----------------------------------------------------------------------------
(* load() *)

\* A request that has just been sent for kit k.
Sent(k) == [NoGet EXCEPT !.pc = "sent", !.kit = k]

\* The requests, some of them aborted.
SomeAborted(gets) ==
    /\ gets \in [Requests -> Gets]
    /\ \A r \in Requests : \/ gets[r] = get[r]
                           \/ get[r].pc # "free" /\ gets[r] = [get[r] EXCEPT !.aborted = TRUE]

\* The cleanup of an effect aborts whatever is under way.
LEMMA AbortsAll ==
    ASSUME Typed, SoleRequest
    PROVE  /\ SomeAborted(get) /\ SomeAborted(Aborted(get))
           /\ \A r \in Requests : get[r].pc # "free" => Aborted(get)[r].aborted
<1>1. Aborted(get) \in [Requests -> Gets] BY DEF Typed, Aborted, Gets
<1>2. \A r \in Requests : \/ Aborted(get)[r] = get[r]
                          \/ get[r].pc # "free" /\ Aborted(get)[r] = [get[r] EXCEPT !.aborted = TRUE]
  BY DEF Typed, Aborted
<1>3. \A r \in Requests : get[r].pc # "free" => Aborted(get)[r].aborted
  BY DEF Typed, Aborted, SoleRequest, Gets
<1>4. SomeAborted(get) BY DEF SomeAborted, Typed
<1> QED BY <1>1, <1>2, <1>3, <1>4 DEF SomeAborted

\* load() sends at most one GET, and only when none is under way.
LEMMA LoadSendsOne ==
    ASSUME Typed, SoleRequest, NEW k \in Kits \cup {NoKit}, NEW gets, SomeAborted(gets), Load(k, gets)
    PROVE  /\ get' \in [Requests -> Gets] /\ inFlight' \in BOOLEAN /\ SoleRequest'
           /\ \A r \in Requests : get'[r] = gets[r] \/ (get'[r] = Sent(k) /\ k \in Kits)
<1>0. gets \in [Requests -> Gets] BY DEF SomeAborted
<1>1. \A r \in Requests : gets[r].pc = get[r].pc BY DEF SomeAborted, Typed, Gets
<1>2. CASE k = NoKit \/ inFlight
  <2>1. get' = gets /\ UNCHANGED <<inFlight, controller>> BY <1>2 DEF Load
  <2> QED BY <1>0, <1>1, <2>1 DEF SoleRequest, Typed
<1>3. CASE ~(k = NoKit \/ inFlight)
  <2>1. PICK r \in Requests :
           /\ get' = [Aborted(gets) EXCEPT ![r] = [NoGet EXCEPT !.pc = "sent", !.kit = k]]
           /\ inFlight' = TRUE /\ controller' = r
    BY <1>3 DEF Load
  <2>2. \A s \in Requests : gets[s].pc = "free" BY <1>1, <1>3 DEF SoleRequest
  <2>3. Aborted(gets) = gets BY <1>0, <2>2 DEF Aborted
  <2>4. Sent(k) \in Gets BY DEF Sent, NoGet, Gets, NoView, Views, Phases
  <2>5. get' = [gets EXCEPT ![r] = Sent(k)] BY <2>1, <2>3 DEF Sent
  <2>6. get' \in [Requests -> Gets] BY <1>0, <2>4, <2>5
  <2>7. \A s \in Requests : get'[s] = gets[s] \/ (s = r /\ get'[s] = Sent(k)) BY <1>0, <2>5
  <2>8. SoleRequest' BY <2>1, <2>2, <2>7 DEF SoleRequest
  <2> QED BY <1>3, <2>1, <2>6, <2>7, <2>8
<1> QED BY <1>2, <1>3

-----------------------------------------------------------------------------
(* The server *)

\* Whatever changes a row: this tab, another one, or the worker.
ServerMoves ==
    \/ UNCHANGED server
    \/ \E k \in Kits : Api!Open(k) \/ Api!Settle(k) \/ Api!Remove(k) \/ \E b \in Batches : Api!Apply(k, b)

\* A row never returns to what it was: its revision grows and its outcome stays
\* until it is deleted, which is for good.
Onward(k) ==
    \/ phase'[k] = "deleted"
    \/ /\ revision'[k] >= revision[k] /\ phase[k] # "deleted"
       /\ phase'[k] = phase[k] \/ phase[k] \in {"unborn", "open"}
       /\ phase'[k] = "unborn" => phase[k] = "unborn" /\ revision'[k] = revision[k]

\* The server only moves a kit onward.
LEMMA ServerOnward ==
    ASSUME Typed, ServerMoves
    PROVE  /\ phase' \in [Kits -> Phases] /\ revision' \in [Kits -> Nat]
           /\ \A k \in Kits : Onward(k)
<1> DEFINE Kept == /\ phase' \in [Kits -> Phases] /\ revision' \in [Kits -> Nat]
                  /\ \A k \in Kits : Onward(k)
<1>0. phase \in [Kits -> Phases] /\ revision \in [Kits -> Nat] BY DEF Typed
<1>1. CASE UNCHANGED server BY <1>0, <1>1 DEF server, Onward
<1>2. ASSUME NEW k \in Kits, Api!Open(k) PROVE Kept
  BY <1>0, <1>2 DEF Api!Open, Onward, Phases
<1>3. ASSUME NEW k \in Kits, Api!Settle(k) PROVE Kept
  BY <1>0, <1>3, ProviderAssumption DEF Api!Settle, Onward, Phases
<1>4. ASSUME NEW k \in Kits, Api!Remove(k) PROVE Kept
  BY <1>0, <1>4 DEF Api!Remove, Onward, Phases
<1>5. ASSUME NEW k \in Kits, NEW b \in Batches, Api!Apply(k, b) PROVE Kept
  BY <1>0, <1>5, ProviderAssumption DEF Api!Apply, Onward, Phases
<1> QED BY <1>1, <1>2, <1>3, <1>4, <1>5 DEF ServerMoves

\* The server moves on under the browser.
LEMMA ServerKeepsViews ==
    ASSUME Typed, LoadsExcused, ViewsArePast, ServerMoves, UNCHANGED <<shown, get>>
    PROVE  /\ phase' \in [Kits -> Phases] /\ revision' \in [Kits -> Nat] /\ ViewsArePast'
<1>1. /\ phase' \in [Kits -> Phases] /\ revision' \in [Kits -> Nat]
      /\ \A k \in Kits : Onward(k)
  BY ServerOnward
<1>2. \A k \in Kits : phase'[k] = "unborn" => revision'[k] = 0
  BY <1>1 DEF Onward, ViewsArePast
<1>3. ASSUME shown # NoView PROVE Past(shown)' /\ phase'[shown.kit] # "unborn"
  <2>1. shown \in Views /\ shown.kit \in Kits /\ Past(shown) /\ phase[shown.kit] # "unborn"
    BY <1>3 DEF Typed, LoadsExcused, ViewsArePast
  <2>2. (Past(shown))' <=> (phase'[shown.kit] \notin {"unborn", "deleted"} =>
          shown.revision <= revision'[shown.kit] /\ (shown.phase \in Settled => phase'[shown.kit] = shown.phase))
    BY DEF Past
  <2> QED BY <1>1, <2>1, <2>2, ProviderAssumption DEF Typed, Onward, Past, Views, Phases
<1>4. ASSUME NEW r \in Requests, get[r].pc = "ok"
      PROVE  Past(get[r].answer)' /\ phase'[get[r].answer.kit] # "unborn"
  <2> DEFINE v == get[r].answer
  <2>1. v \in Views /\ v.kit \in Kits /\ Past(v) /\ phase[v.kit] # "unborn"
    BY <1>4 DEF Typed, Gets, LoadsExcused, ViewsArePast
  <2> HIDE DEF v
  <2>2. phase'[v.kit] \notin {"unborn", "deleted"} =>
          v.revision <= revision'[v.kit] /\ (v.phase \in Settled => phase'[v.kit] = v.phase)
    BY <1>1, <2>1, ProviderAssumption DEF Typed, Onward, Past, Views, Phases
  <2>3. phase'[v.kit] # "unborn" BY <1>1, <2>1, ProviderAssumption DEF Typed, Onward, Phases
  <2> QED BY <2>2, <2>3 DEF Past, v
<1> QED BY <1>2, <1>3, <1>4, <1>1 DEF ViewsArePast
-----------------------------------------------------------------------------
(* The invariant *)

\* A load() of the page, or of the page a batch was answered for, keeps what is
\* known of the requests and of the view.
LEMMA LoadKeeps ==
    ASSUME Inv, NEW k \in Kits \cup {NoKit}, NEW gets, SomeAborted(gets), Load(k, gets),
           UNCHANGED server, shown' \in {shown, NoView},
           k # NoKit => Excused(k, page', post'),
           \A r \in Requests :
               get[r].pc # "free" /\ ~gets[r].aborted => Excused(get[r].kit, page', post'),
           shown' # NoView => Excused(shown.kit, page', post'),
           \A b \in Batches :
               /\ post'[b].pc \in {"sent", "refreshing", "done"} => post'[b].route \in Kits
               /\ post'[b].pc = "sent" => post'[b].kit \in Kits
    PROVE  LoadsExcused' /\ ViewsArePast'
<1>1. /\ get' \in [Requests -> Gets]
      /\ \A r \in Requests : get'[r] = gets[r] \/ (get'[r] = Sent(k) /\ k \in Kits)
  BY LoadSendsOne DEF Inv
<1>2. \A r \in Requests :
        gets[r].pc = get[r].pc /\ gets[r].kit = get[r].kit /\ gets[r].answer = get[r].answer
  BY DEF SomeAborted, Inv, Typed, Gets
<1>3. Sent(k).pc = "sent" /\ Sent(k).kit = k BY DEF Sent, NoGet
<1>4. ASSUME NEW r \in Requests, get'[r].pc # "free"
      PROVE  /\ get'[r].kit \in Kits
             /\ ~get'[r].aborted => Excused(get'[r].kit, page', post')
             /\ get'[r].pc = "ok" => get'[r].answer.kit = get'[r].kit
  BY <1>1, <1>2, <1>3, <1>4, ProviderAssumption DEF Inv, LoadsExcused
<1>5. shown' # NoView => shown'.kit \in Kits /\ Excused(shown'.kit, page', post')
  BY DEF Inv, LoadsExcused
<1>6. LoadsExcused' BY <1>4, <1>5 DEF LoadsExcused
<1>7. \A r \in Requests : get'[r].pc = "ok" => get[r].pc = "ok" /\ get'[r].answer = get[r].answer
  BY <1>1, <1>2, <1>3
<1>8. phase' = phase /\ revision' = revision BY DEF server
<1>9. ViewsArePast' BY <1>7, <1>8 DEF Inv, ViewsArePast, Past
<1> QED BY <1>6, <1>9

\* Everything the browser and the server do keeps the invariant.
LEMMA InitInv == Init => Inv
<1> SUFFICES ASSUME Init PROVE Inv OBVIOUS
<1>1. NoView \in Views /\ NoGet \in Gets /\ NoPost \in Posts /\ NoGet.pc = "free" /\ NoPost.pc = "unused"
  BY DEF NoView, NoGet, NoPost, Views, Gets, Posts, Phases
<1>2. Typed BY <1>1 DEF Init, Api!Init, Typed, Phases
<1>3. \A r \in Requests : get[r].pc = "free" BY <1>1 DEF Init
<1>4. \A b \in Batches : post[b].pc = "unused" BY <1>1 DEF Init
<1>5. LoadsExcused BY <1>3, <1>4 DEF Init, LoadsExcused
<1>6. ViewsArePast BY <1>3 DEF Init, Api!Init, ViewsArePast
<1> QED BY <1>2, <1>3, <1>5, <1>6 DEF Inv, SoleRequest

\* Nothing changes, nothing breaks.
LEMMA StutterKeepsInv == ASSUME Inv, UNCHANGED vars PROVE Inv'
BY DEF vars, server, browser, Inv, Typed, SoleRequest, LoadsExcused, Excused, ViewsArePast, Past, NotBefore

\* The user follows a link.
LEMMA NavigateKeepsInv ==
    ASSUME Inv, NEW k \in Kits \cup {NoKit}, Navigate(k)
    PROVE  Inv'
<1> DEFINE gets == Aborted(get)
<1>1. SomeAborted(gets) /\ \A r \in Requests : get[r].pc # "free" => gets[r].aborted
  BY AbortsAll DEF Inv
<1>2. Load(k, gets) /\ page' = k /\ shown' = NoView /\ UNCHANGED <<server, post, losses>>
  BY DEF Navigate
<1> HIDE DEF gets
<1>3. get' \in [Requests -> Gets] /\ inFlight' \in BOOLEAN /\ SoleRequest'
  BY <1>1, <1>2, LoadSendsOne DEF Inv
<1>4. Typed' BY <1>2, <1>3 DEF server, Inv, Typed, NoView, Views, Phases
<1>5. LoadsExcused' /\ ViewsArePast'
  BY <1>1, <1>2, LoadKeeps DEF Excused, Inv, LoadsExcused
<1> QED BY <1>3, <1>4, <1>5 DEF Inv

\* The interval, or a retry button.
LEMMA ReloadKeepsInv ==
    ASSUME Inv, Load(page, get), UNCHANGED <<server, page, shown, loading, post, losses>>
    PROVE  Inv'
<1>1. SomeAborted(get) BY AbortsAll DEF Inv
<1>2. page \in Kits \cup {NoKit} BY DEF Inv, Typed
<1>3. get' \in [Requests -> Gets] /\ inFlight' \in BOOLEAN /\ SoleRequest'
  BY <1>1, <1>2, LoadSendsOne DEF Inv
<1>4. Typed' BY <1>3 DEF server, Inv, Typed
<1>5. LoadsExcused' /\ ViewsArePast'
  BY <1>1, <1>2, LoadKeeps DEF Excused, Inv, LoadsExcused
<1> QED BY <1>3, <1>4, <1>5 DEF Inv

\* The refresh after a batch.
LEMMA OnAppliedKeepsInv ==
    ASSUME Inv, NEW b \in Batches, OnApplied(b)
    PROVE  Inv'
<1>1. SomeAborted(get) BY AbortsAll DEF Inv
<1>2. /\ post[b].pc = "refreshing" /\ Load(post[b].route, get)
      /\ post' = [post EXCEPT ![b].pc = "done"]
      /\ UNCHANGED <<server, page, shown, loading, losses>>
  BY DEF OnApplied
<1>3. post[b].route \in Kits BY <1>2 DEF Inv, LoadsExcused
<1>4. get' \in [Requests -> Gets] /\ inFlight' \in BOOLEAN /\ SoleRequest'
  BY <1>1, <1>2, <1>3, LoadSendsOne DEF Inv
<1>5. /\ post' \in [Batches -> Posts]
      /\ \A c \in Batches : post'[c].route = post[c].route /\ (c = b \/ post'[c] = post[c])
      /\ post'[b].pc = "done"
  BY <1>2 DEF Inv, Typed, Posts
<1>6. Typed' BY <1>2, <1>4, <1>5 DEF server, Inv, Typed
<1>7. \A j : Excused(j, page, post) => Excused(j, page', post')
  BY <1>2, <1>5 DEF Excused
<1>8. Excused(post[b].route, page', post') BY <1>5 DEF Excused
<1>9. \A c \in Batches :
        /\ post'[c].pc \in {"sent", "refreshing", "done"} => post'[c].route \in Kits
        /\ post'[c].pc = "sent" => post'[c].kit \in Kits
  BY <1>3, <1>5 DEF Inv, LoadsExcused
<1>10. LoadsExcused' /\ ViewsArePast'
  BY <1>1, <1>2, <1>3, <1>7, <1>8, <1>9, LoadKeeps DEF Inv, LoadsExcused
<1> QED BY <1>4, <1>6, <1>10 DEF Inv

\* The server answers a GET with the row as it is.
LEMMA AnswerKeepsInv ==
    ASSUME Inv, NEW r \in Requests, Answer(r)
    PROVE  Inv'
<1> DEFINE k == get[r].kit
           gone == phase[k] \in {"unborn", "deleted"}
           g == [get[r] EXCEPT !.pc = IF gone THEN "error" ELSE "ok",
                               !.answer = IF gone THEN NoView ELSE ViewOf(k)]
<1>1. /\ get[r].pc = "sent" /\ get' = [get EXCEPT ![r] = g]
      /\ UNCHANGED <<server, page, shown, loading, inFlight, controller, post, losses>>
  BY DEF Answer, Inv, Typed, Gets
<1>2. k \in Kits BY <1>1 DEF Inv, LoadsExcused
<1>3. NoView \in Views /\ ViewOf(k) \in Views
  BY <1>2 DEF NoView, ViewOf, Views, Phases, Inv, Typed
<1>4. /\ g \in Gets /\ g.pc # "free" /\ g.kit = k /\ g.aborted = get[r].aborted
      /\ g.pc = "ok" => ~gone /\ g.answer = ViewOf(k)
  BY <1>1, <1>2, <1>3 DEF Inv, Typed, Gets
<1>5. get'[r] = g /\ \A s \in Requests : s # r => get'[s] = get[s]
  BY <1>1 DEF Inv, Typed
<1> HIDE DEF g
<1>6. Typed' BY <1>1, <1>4 DEF server, Inv, Typed
<1>7. SoleRequest' BY <1>1, <1>5 DEF Inv, SoleRequest
<1>8. ViewOf(k).kit = k BY DEF ViewOf
<1>9. LoadsExcused' BY <1>1, <1>2, <1>4, <1>5, <1>8 DEF Inv, LoadsExcused, Excused
<1>10. ViewsArePast'
  <2>1. phase' = phase /\ revision' = revision /\ shown' = shown BY <1>1 DEF server
  <2>2. ASSUME g.pc = "ok"
        PROVE  /\ Past(g.answer) /\ phase[g.answer.kit] # "unborn"
               /\ shown # NoView /\ shown.kit = g.answer.kit => NotBefore(shown, g.answer)
    BY <1>2, <1>4, <2>2 DEF ViewOf, Past, NotBefore, Inv, ViewsArePast, Typed
  <2> QED BY <1>5, <2>1, <2>2 DEF Inv, ViewsArePast, Past
<1> QED BY <1>6, <1>7, <1>9, <1>10 DEF Inv

\* The answer is lost.
LEMMA LoseAnswerKeepsInv ==
    ASSUME Inv, NEW r \in Requests, LoseAnswer(r)
    PROVE  Inv'
<1>1. /\ get[r].pc = "sent" /\ get' = [get EXCEPT ![r].pc = "error"]
      /\ UNCHANGED <<server, page, shown, loading, inFlight, controller, post>>
  BY DEF LoseAnswer
<1>2. /\ get' \in [Requests -> Gets] /\ \A s \in Requests : s # r => get'[s] = get[s]
      /\ get'[r].pc = "error" /\ get'[r].kit = get[r].kit /\ get'[r].aborted = get[r].aborted
  BY <1>1 DEF Inv, Typed, Gets
<1>3. Typed' BY <1>1, <1>2 DEF server, Inv, Typed
<1>4. SoleRequest' BY <1>1, <1>2 DEF Inv, SoleRequest
<1>5. LoadsExcused' BY <1>1, <1>2 DEF Inv, LoadsExcused, Excused
<1>6. ViewsArePast' BY <1>1, <1>2 DEF server, Inv, ViewsArePast, Past
<1> QED BY <1>3, <1>4, <1>5, <1>6 DEF Inv

\* load() shows the answer, or drops it.
LEMMA DeliverKeepsInv ==
    ASSUME Inv, NEW r \in Requests, Deliver(r)
    PROVE  Inv'
<1>1. /\ get[r].pc \in {"ok", "error"} /\ get' = [get EXCEPT ![r] = NoGet] /\ inFlight' = FALSE
      /\ \/ shown' = shown
         \/ ~get[r].aborted /\ get[r].pc = "ok" /\ shown' = get[r].answer
      /\ UNCHANGED <<server, page, controller, post, losses>>
  BY DEF Deliver
<1>2. NoGet \in Gets /\ NoGet.pc = "free" BY DEF NoGet, Gets, NoView, Views, Phases
<1>3. \A s \in Requests : get'[s].pc = "free"
  BY <1>1, <1>2 DEF Inv, Typed, SoleRequest
<1>4. Typed' BY <1>1, <1>2 DEF server, Inv, Typed, Gets
<1>5. SoleRequest' BY <1>3 DEF SoleRequest
<1>6. LoadsExcused' BY <1>1, <1>3 DEF Inv, LoadsExcused, Excused
<1>7. ViewsArePast' BY <1>1, <1>3 DEF server, Inv, ViewsArePast, Past
<1> QED BY <1>4, <1>5, <1>6, <1>7 DEF Inv

\* A batch is sent, answered or lost, and other clients act: the requests and the
\* view stay as they are, and no batch stops excusing a kit.
LEMMA ServerKeepsInv ==
    ASSUME Inv, ServerMoves, UNCHANGED browser, post' \in [Batches -> Posts],
           \A b \in Batches :
               /\ post[b].pc = "done" => post'[b] = post[b]
               /\ post'[b].pc \in {"sent", "refreshing", "done"} => post'[b].route \in Kits
               /\ post'[b].pc = "sent" => post'[b].kit \in Kits
    PROVE  Inv'
<1>1. /\ phase' \in [Kits -> Phases] /\ revision' \in [Kits -> Nat] /\ ViewsArePast'
  BY ServerKeepsViews DEF Inv, browser
<1>2. Typed' BY <1>1 DEF browser, Inv, Typed
<1>3. SoleRequest' BY DEF browser, Inv, SoleRequest
<1>4. \A j : Excused(j, page, post) => Excused(j, page', post') BY DEF browser, Excused
<1>5. LoadsExcused' BY <1>4 DEF browser, Inv, LoadsExcused
<1> QED BY <1>1, <1>2, <1>3, <1>5 DEF Inv

\* The user sends a batch for the kit on screen.
LEMMA ApplyKeepsInv ==
    ASSUME Inv, NEW b \in Batches, Apply(b)
    PROVE  Inv'
<1> DEFINE p == [pc |-> "sent", kit |-> shown.kit, route |-> page, expected |-> shown.revision]
<1>1. /\ post[b].pc = "unused" /\ page # NoKit /\ shown.phase \in Editable
      /\ post' = [post EXCEPT ![b] = p] /\ UNCHANGED <<server, browser>>
  BY DEF Apply
<1>2. shown # NoView BY <1>1, ProviderAssumption DEF NoView
<1>3. shown.kit \in Kits /\ page \in Kits BY <1>1, <1>2 DEF Inv, LoadsExcused, Typed
<1>4. p \in Posts BY <1>3 DEF Posts, Inv, Typed, Views
<1>5. post' \in [Batches -> Posts] BY <1>1, <1>4 DEF Inv, Typed
<1>6. \A c \in Batches :
         /\ post[c].pc = "done" => post'[c] = post[c]
         /\ post'[c].pc \in {"sent", "refreshing", "done"} => post'[c].route \in Kits
         /\ post'[c].pc = "sent" => post'[c].kit \in Kits
  BY <1>1, <1>3 DEF Inv, Typed, LoadsExcused
<1> QED BY <1>1, <1>5, <1>6, ServerKeepsInv DEF ServerMoves

\* The server answers a batch, or its answer is lost.
LEMMA CommitKeepsInv ==
    ASSUME Inv, NEW b \in Batches, Commit(b) \/ CommitFails(b)
    PROVE  Inv'
<1>1. post[b].pc = "sent" /\ UNCHANGED browser BY DEF Commit, CommitFails
<1>2. PICK q \in {"refreshing", "done"} : post' = [post EXCEPT ![b].pc = q]
  BY DEF Commit, CommitFails
<1>3. post[b].kit \in Kits BY <1>1 DEF Inv, LoadsExcused
<1>4. UNCHANGED server \/ Api!Apply(post[b].kit, b) BY DEF Commit, CommitFails
<1>5. ServerMoves BY <1>3, <1>4 DEF ServerMoves
<1>6. /\ post' \in [Batches -> Posts]
      /\ \A c \in Batches : post'[c].route = post[c].route /\ (c = b \/ post'[c] = post[c])
      /\ post'[b].pc = q
  BY <1>2 DEF Inv, Typed, Posts
<1>7. \A c \in Batches :
         /\ post[c].pc = "done" => post'[c] = post[c]
         /\ post'[c].pc \in {"sent", "refreshing", "done"} => post'[c].route \in Kits
         /\ post'[c].pc = "sent" => post'[c].kit \in Kits
  BY <1>1, <1>6 DEF Inv, LoadsExcused
<1> QED BY <1>1, <1>5, <1>6, <1>7, ServerKeepsInv

\* Other tabs and the worker.
LEMMA ElsewhereKeepsInv == ASSUME Inv, Elsewhere PROVE Inv'
<1>1. ServerMoves /\ UNCHANGED browser BY DEF Elsewhere, ServerMoves
<1>2. post' = post \/ \E b \in Batches :
         post[b].pc = "unused" /\ post' = [post EXCEPT ![b].pc = "foreign"]
  BY DEF Elsewhere
<1>3. /\ post' \in [Batches -> Posts]
      /\ \A c \in Batches :
            post'[c] = post[c] \/ (post[c].pc = "unused" /\ post'[c].pc = "foreign")
  BY <1>2 DEF Inv, Typed, Posts
<1>4. \A c \in Batches :
         /\ post[c].pc = "done" => post'[c] = post[c]
         /\ post'[c].pc \in {"sent", "refreshing", "done"} => post'[c].route \in Kits
         /\ post'[c].pc = "sent" => post'[c].kit \in Kits
  BY <1>3 DEF Inv, LoadsExcused
<1> QED BY <1>1, <1>3, <1>4, ServerKeepsInv

\* The invariant is inductive.
LEMMA NextKeepsInv == Inv /\ [Next]_vars => Inv'
<1> SUFFICES ASSUME Inv, [Next]_vars PROVE Inv' OBVIOUS
<1>1. ASSUME NEW k \in Kits \cup {NoKit}, Navigate(k) PROVE Inv' BY <1>1, NavigateKeepsInv
<1>2. CASE Poll BY <1>2, ReloadKeepsInv DEF Poll
<1>3. CASE Refresh BY <1>3, ReloadKeepsInv DEF Refresh
<1>4. CASE Elsewhere BY <1>4, ElsewhereKeepsInv
<1>5. ASSUME NEW r \in Requests, Request(r) PROVE Inv'
  BY <1>5, AnswerKeepsInv, LoseAnswerKeepsInv, DeliverKeepsInv DEF Request
<1>6. ASSUME NEW b \in Batches, Ledger(b) PROVE Inv'
  BY <1>6, ApplyKeepsInv, CommitKeepsInv, OnAppliedKeepsInv DEF Ledger
<1>7. CASE UNCHANGED vars BY <1>7, StutterKeepsInv
<1> QED BY <1>1, <1>2, <1>3, <1>4, <1>5, <1>6, <1>7 DEF Next

\* The invariant holds in every reachable state.
LEMMA InvAlways == Spec => []Inv
BY InitInv, NextKeepsInv, PTL DEF Spec

-----------------------------------------------------------------------------
(* Theorems *)

\* However polling, navigation, retries and batches interleave, two GETs are
\* never under way, and the one that is can be aborted.
THEOREM OneRequestAtATime == Spec => []NoOverlappingRequests
<1>1. Inv => NoOverlappingRequests BY DEF Inv, SoleRequest, NoOverlappingRequests
<1> QED BY <1>1, InvAlways, PTL

\* An answer that arrives after the user left its page is not shown on another,
\* unless a batch sent from that page asked for it.
THEOREM LateAnswersDropped == Spec => []LateAnswerNotShown
<1>1. Inv => LateAnswerNotShown BY DEF Inv, LoadsExcused, Excused, LateAnswerNotShown
<1> QED BY <1>1, InvAlways, PTL

\* The view of a kit never goes back to an earlier revision or another outcome.
THEOREM ViewsOnlyAdvance == Spec => ViewNeverGoesBack
<1> DEFINE Forward == shown # NoView /\ shown'.kit = shown.kit =>
                         /\ shown'.revision >= shown.revision
                         /\ shown.phase \in Settled => shown'.phase = shown.phase
<1>1. ASSUME Inv, Next PROVE [Forward]_vars
  <2>0. shown.revision \in Nat BY <1>1 DEF Inv, Typed, Views
  <2>1. CASE shown' = shown BY <2>0, <2>1
  <2>2. ASSUME NEW k \in Kits \cup {NoKit}, Navigate(k) PROVE Forward
    BY <1>1, <2>2, ProviderAssumption DEF Navigate, NoView, Inv, LoadsExcused
  <2>3. ASSUME NEW r \in Requests, Deliver(r) PROVE Forward
    BY <1>1, <2>0, <2>3 DEF Deliver, Inv, ViewsArePast, NotBefore
  <2> QED BY <1>1, <2>1, <2>2, <2>3
    DEF Next, Poll, Refresh, Elsewhere, Request, Answer, LoseAnswer, Ledger, Apply, Commit,
        CommitFails, OnApplied, browser
<1> QED BY <1>1, InvAlways, PTL DEF Spec, ViewNeverGoesBack
=============================================================================
