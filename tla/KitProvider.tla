---------------------------- MODULE KitProvider -----------------------------
(***************************************************************************)
(* The browser's one copy of a kit: KitProvider of apps/web (kit-context). *)
(* It lives in the application shell, so a navigation between kits changes *)
(* its kitId and never remounts it.  Its `load` is called by the kitId     *)
(* effect, by a 1.5 s interval while the shown kit is open, by retry       *)
(* buttons, and - through a closure captured when the user clicked - by    *)
(* the change ledger after a batch was answered.                           *)
(*                                                                         *)
(* The server is the contract of the API (KitContract, which KitLifecycle  *)
(* implements); other browser tabs and the worker act on it at any time.   *)
(***************************************************************************)
EXTENDS Naturals

CONSTANTS
    Kits, Batches,       \* kit ids; change batches, one use each (bound)
    Settled, Editable,   \* terminal statuses, and those that allow a batch
    NoKit,               \* kitId = null, no controller
    Requests,            \* identities of simultaneous GETs (bound)
    MaxLosses            \* answers the network loses (bound)

ASSUME ProviderAssumption ==
    /\ NoKit \notin Kits
    /\ Editable \subseteq Settled
    /\ Settled \cap {"unborn", "open", "deleted"} = {}

VARIABLES
    phase, revision, batches,  \* the server, as KitContract sees it
    page,        \* kitId of the route
    shown,       \* the kit in React state
    loading,     \* the loading flag
    inFlight,    \* inFlightRef
    controller,  \* controllerRef: the request it can abort
    get,         \* get[r]: a GET /kits/{id} and its AbortController
    post,        \* post[b]: a POST /kits/{id}/change-actions of this tab
    losses       \* answers lost so far

server == <<phase, revision, batches>>
browser == <<page, shown, loading, inFlight, controller, get>>
vars == <<server, browser, post, losses>>

Api == INSTANCE KitContract

-----------------------------------------------------------------------------
(* Values *)

\* The phases of a row are "unborn", "open", "deleted" and the settled ones.
NoView == [kit |-> NoKit, phase |-> "unborn", revision |-> 0]
ViewOf(k) == [kit |-> k, phase |-> phase[k], revision |-> revision[k]]

\* A GET is "free", "sent", or answered with "ok" or "error".
NoGet == [pc |-> "free", kit |-> NoKit, aborted |-> FALSE, answer |-> NoView]

\* A batch is "unused", "sent", "refreshing", "done", or "foreign": of another
\* client. route is the page whose closure reloads after it.
NoPost == [pc |-> "unused", kit |-> NoKit, route |-> NoKit, expected |-> 0]

\* The cleanup of an effect: controllerRef.current?.abort().
Aborted(gets) ==
    [r \in Requests |-> IF r = controller /\ gets[r].pc # "free"
                        THEN [gets[r] EXCEPT !.aborted = TRUE] ELSE gets[r]]

Lose == losses < MaxLosses /\ losses' = losses + 1

-----------------------------------------------------------------------------
(* load() *)

\* Mutated form of Load: neither the in-flight guard nor the abort.
LoadOverlapping(k, gets) ==
    IF k = NoKit
    THEN get' = gets /\ UNCHANGED <<inFlight, controller>>
    ELSE \E r \in Requests :
            /\ gets[r].pc = "free"
            /\ get' = [gets EXCEPT ![r] = [NoGet EXCEPT !.pc = "sent", !.kit = k]]
            /\ inFlight' = TRUE /\ controller' = r

\* load() of the closure whose kitId is k.
Load(k, gets) ==
    IF k = NoKit \/ inFlight
    THEN get' = gets /\ UNCHANGED <<inFlight, controller>>
    ELSE \E r \in Requests :
            /\ gets[r].pc = "free"
            /\ get' = [Aborted(gets) EXCEPT ![r] = [NoGet EXCEPT !.pc = "sent", !.kit = k]]
            /\ inFlight' = TRUE /\ controller' = r

\* Mutated form of Deliver: the flag is not cleared after an error.
DeliverKeepingFlag(r) ==
    /\ get[r].pc \in {"ok", "error"}
    /\ get' = [get EXCEPT ![r] = NoGet]
    /\ IF get[r].aborted THEN UNCHANGED <<shown, loading>>
       ELSE /\ shown' = IF get[r].pc = "ok" THEN get[r].answer ELSE shown
            /\ loading' = FALSE
    /\ inFlight' = (get[r].pc = "error")
    /\ UNCHANGED <<server, page, controller, post, losses>>

\* Mutated form of Deliver: an aborted request is not told apart.
DeliverAborted(r) ==
    /\ get[r].pc \in {"ok", "error"}
    /\ get' = [get EXCEPT ![r] = NoGet]
    /\ shown' = IF get[r].pc = "ok" THEN get[r].answer ELSE shown
    /\ loading' = FALSE
    /\ inFlight' = FALSE
    /\ UNCHANGED <<server, page, controller, post, losses>>

\* load() continues with the answer; an aborted request rejects and is dropped.
Deliver(r) ==
    /\ get[r].pc \in {"ok", "error"}
    /\ get' = [get EXCEPT ![r] = NoGet]
    /\ IF get[r].aborted THEN UNCHANGED <<shown, loading>>
       ELSE /\ shown' = IF get[r].pc = "ok" THEN get[r].answer ELSE shown
            /\ loading' = FALSE
    /\ inFlight' = FALSE
    /\ UNCHANGED <<server, page, controller, post, losses>>

\* GET /kits/{id}: the row as it is now, or 404.
Answer(r) ==
    LET k == get[r].kit
    IN  /\ get[r].pc = "sent"
        /\ get' = [get EXCEPT
                ![r].pc = IF phase[k] \in {"unborn", "deleted"} THEN "error" ELSE "ok",
                ![r].answer = IF phase[k] \in {"unborn", "deleted"} THEN NoView ELSE ViewOf(k)]
        /\ UNCHANGED <<server, page, shown, loading, inFlight, controller, post, losses>>

\* The API cannot be reached, or answers 5xx.
LoseAnswer(r) ==
    /\ get[r].pc = "sent" /\ Lose
    /\ get' = [get EXCEPT ![r].pc = "error"]
    /\ UNCHANGED <<server, page, shown, loading, inFlight, controller, post>>

-----------------------------------------------------------------------------
(* Callers of load() *)

\* The kitId effect: the cleanup of the old one, the resets, and load().
Navigate(k) ==
    /\ k # page
    /\ page' = k
    /\ shown' = NoView
    /\ loading' = (k # NoKit)
    /\ Load(k, Aborted(get))
    /\ UNCHANGED <<server, post, losses>>

\* A tick of the interval of the polling effect.
Poll ==
    /\ page # NoKit /\ shown.phase = "open" /\ ~inFlight
    /\ Load(page, get)
    /\ UNCHANGED <<server, page, shown, loading, post, losses>>

\* A retry button; KitStateBoundary renders none while the kit is loading.
Refresh ==
    /\ page # NoKit /\ ~inFlight /\ ~(loading /\ shown = NoView)
    /\ Load(page, get)
    /\ UNCHANGED <<server, page, shown, loading, post, losses>>

\* ChangeLedger.apply(): the POST, for the kit and the revision on screen.
Apply(b) ==
    /\ post[b].pc = "unused" /\ page # NoKit /\ shown.phase \in Editable
    /\ post' = [post EXCEPT ![b] = [pc |-> "sent", kit |-> shown.kit, route |-> page,
                                    expected |-> shown.revision]]
    /\ UNCHANGED <<server, browser, losses>>

\* The API answers: applied, or 409 when the revision moved on.
Commit(b) ==
    LET k == post[b].kit
    IN  /\ post[b].pc = "sent" /\ phase[k] \in Editable
        /\ IF revision[k] = post[b].expected THEN Api!Apply(k, b) ELSE UNCHANGED server
        /\ post' = [post EXCEPT ![b].pc = "refreshing"]
        /\ UNCHANGED <<browser, losses>>

\* 404 or 422, or an answer lost before or after the commit: no onApplied().
CommitFails(b) ==
    LET k == post[b].kit
    IN  /\ post[b].pc = "sent"
        /\ \/ UNCHANGED <<server, losses>>
           \/ Lose /\ UNCHANGED server
           \/ Lose /\ phase[k] \in Editable /\ revision[k] = post[b].expected /\ Api!Apply(k, b)
        /\ post' = [post EXCEPT ![b].pc = "done"]
        /\ UNCHANGED browser

\* await onApplied(): the load() of the page the user clicked on.
OnApplied(b) ==
    /\ post[b].pc = "refreshing"
    /\ Load(post[b].route, get)
    /\ post' = [post EXCEPT ![b].pc = "done"]
    /\ UNCHANGED <<server, page, shown, loading, losses>>

-----------------------------------------------------------------------------
(* The server: requests of other tabs, and the worker *)

Elsewhere ==
    \/ /\ \E k \in Kits : Api!Open(k) \/ Api!Settle(k) \/ Api!Remove(k)
       /\ UNCHANGED <<browser, post, losses>>
    \/ \E b \in Batches, k \in Kits :
            /\ post[b].pc = "unused"
            /\ Api!Apply(k, b)
            /\ post' = [post EXCEPT ![b].pc = "foreign"]
            /\ UNCHANGED <<browser, losses>>

-----------------------------------------------------------------------------
(* Specification *)

Init ==
    /\ Api!Init
    /\ page = NoKit /\ shown = NoView /\ loading = FALSE
    /\ inFlight = FALSE /\ controller = NoKit
    /\ get = [r \in Requests |-> NoGet]
    /\ post = [b \in Batches |-> NoPost]
    /\ losses = 0

Request(r) == Answer(r) \/ LoseAnswer(r) \/ Deliver(r)
Ledger(b) == Apply(b) \/ Commit(b) \/ CommitFails(b) \/ OnApplied(b)

Next == \/ \E k \in Kits \cup {NoKit} : Navigate(k)
        \/ Poll \/ Refresh \/ Elsewhere
        \/ \E r \in Requests : Request(r)
        \/ \E b \in Batches : Ledger(b)

Spec == Init /\ [][Next]_vars

\* The event loop runs timers and continuations; a fetch is answered or fails.
Fairness == /\ WF_vars(Poll)
            /\ \A r \in Requests : WF_vars(Request(r))
            /\ \A b \in Batches : WF_vars(Commit(b) \/ CommitFails(b) \/ OnApplied(b))

FairSpec == Spec /\ Fairness

-----------------------------------------------------------------------------
(* Properties *)

\* Polling, navigation, retries and ledgers never have two GETs under way, also
\* across aborts: the flag a request clears is its own (apps/web/README.md:135).
NoOverlappingRequests ==
    /\ \A r, s \in Requests : get[r].pc # "free" /\ get[s].pc # "free" => r = s
    /\ \A r \in Requests : get[r].pc # "free" => inFlight /\ controller = r

\* An answer that arrives after its page was left is not shown: a kit other than
\* the page's can only come from the refresh of a change batch sent on that page.
LateAnswerNotShown ==
    shown # NoView /\ shown.kit # page
        => \E b \in Batches : post[b].pc = "done" /\ post[b].route = shown.kit

\* What the user sees of one kit never goes back: not to an earlier revision, and
\* not from an outcome to pending or to another outcome (answers are applied in
\* the order they were read).
ViewNeverGoesBack ==
    [][shown # NoView /\ shown'.kit = shown.kit =>
          /\ shown'.revision >= shown.revision
          /\ shown.phase \in Settled => shown'.phase = shown.phase]_vars

\* A kit that settles while its page shows it as pending is shown settled, unless
\* the user leaves or the kit is deleted.
OutcomeReachesBrowser ==
    \A k \in Kits :
        shown.kit = k /\ page = k /\ shown.phase = "open" /\ phase[k] \in Settled
            ~> shown.kit # k \/ page # k \/ shown.phase # "open" \/ phase[k] = "deleted"
=============================================================================
