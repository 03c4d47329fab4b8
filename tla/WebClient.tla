----------------------------- MODULE WebClient -----------------------------
(***************************************************************************)
(* The web client: App, which keeps the access token, and under it either  *)
(* a TokenGate or a SearchWorkspace, whose requests outlive the event that *)
(* sent them.  A step is one task of the event loop with the microtasks it *)
(* leaves: an answer and the code behind its await, or an abort and the    *)
(* catch and finally clauses of the request it rejects.                    *)
(*                                                                         *)
(* A token or an answer is set in a task React renders later; a click is   *)
(* rendered at once.                                                       *)
(***************************************************************************)
EXTENDS Naturals, Sequences, SequencesExt

CONSTANTS Tokens, NoToken, MaxRequests

ASSUME WebAssumption == NoToken \notin Tokens /\ MaxRequests \in Nat \ {0}

VARIABLES
    token,      \* accessToken of App
    screens,    \* every component mounted so far; the last one is on the screen
    requests    \* every request sent so far

vars == <<token, screens, requests>>

(* isRequestPending, requestControllerRef (0 for null), and the request    *)
(* that the view tells of.                                                 *)
Fresh(t) == [token |-> t, busy |-> FALSE, current |-> 0, view |-> "idle", of |-> 0]

OnScreen == Len(screens)
Mounted == Last(screens)
Rendered == Mounted.token = token

Init ==
    /\ token = NoToken
    /\ screens = <<Fresh(NoToken)>>
    /\ requests = <<>>

Waiting(r) == r \in DOMAIN requests /\ requests[r].stage \in {"headers", "body"}

---------------------------------------------------------------------------
(* handleSubmit, up to the await of fetch. *)
Send(t) ==
    /\ Rendered
    /\ Len(requests) < MaxRequests
    /\ requests' = Append(requests,
            [by |-> OnScreen, token |-> t, stage |-> "headers", timer |-> TRUE,
             timedOut |-> FALSE, rejected |-> FALSE])
    /\ screens' = [screens EXCEPT ![OnScreen] =
            [@ EXCEPT !.busy = TRUE, !.current = Len(requests) + 1,
                      !.view = "pending", !.of = Len(requests) + 1]]
    /\ UNCHANGED token

SubmitToken(t) == token = NoToken /\ ~Mounted.busy /\ Send(t)

(* Mutant: a second submit is not refused. *)
SubmitSearchAgain == token # NoToken /\ Send(token)

SubmitSearch == token # NoToken /\ ~Mounted.busy /\ Send(token)

(* The view a request leaves to its component, if that is still mounted,   *)
(* and the finally clause; "pending" leaves the view alone.                *)
Settled(r, view) ==
    LET by == requests[r].by
        told == IF by = OnScreen /\ view # "pending"
                THEN [screens[by] EXCEPT !.view = view, !.of = r]
                ELSE screens[by]
    IN [screens EXCEPT ![by] =
            IF told.current = r THEN [told EXCEPT !.busy = FALSE, !.current = 0] ELSE told]

Closed(request) == [request EXCEPT !.stage = "settled", !.timer = FALSE]

Settle(r, view) ==
    /\ requests' = [requests EXCEPT ![r] = Closed(@)]
    /\ screens' = Settled(r, view)

(* TokenGate: any status but 200 is an error. *)
GateAnswer(r) ==
    /\ Waiting(r)
    /\ screens[requests[r].by].token = NoToken
    /\ \/ Settle(r, "idle") /\ token' = requests[r].token
       \/ Settle(r, "refused") /\ UNCHANGED token

(* Mutant: the timer is cleared as soon as there is a response. *)
SearchHeadersOnly(r) ==
    /\ Waiting(r) /\ requests[r].stage = "headers"
    /\ screens[requests[r].by].token # NoToken
    /\ requests' = [requests EXCEPT ![r].stage = "body", ![r].timer = FALSE]
    /\ UNCHANGED <<token, screens>>

(* SearchWorkspace: 401, another failure, or a body to read. *)
SearchHeaders(r) ==
    /\ Waiting(r) /\ requests[r].stage = "headers"
    /\ screens[requests[r].by].token # NoToken
    /\ \/ /\ requests' = [requests EXCEPT ![r] = [Closed(@) EXCEPT !.rejected = TRUE]]
          /\ screens' = Settled(r, "pending")
          /\ token' = NoToken
       \/ Settle(r, "refused") /\ UNCHANGED token
       \/ /\ requests' = [requests EXCEPT ![r].stage = "body"]
          /\ UNCHANGED <<token, screens>>

(* isSearchResponse and the status it tells. *)
SearchBody(r) ==
    /\ Waiting(r) /\ requests[r].stage = "body"
    /\ \E view \in {"ok", "no_evidence", "malformed"} : Settle(r, view)
    /\ UNCHANGED token

(* The network fails: of a body, the inner catch tells a malformed answer. *)
Lose(r) ==
    /\ Waiting(r)
    /\ Settle(r, IF requests[r].stage = "body" THEN "malformed" ELSE "network")
    /\ UNCHANGED token

---------------------------------------------------------------------------
(* controller.abort: fetch, or the reading of the body, rejects. *)
Aborted(request) == Closed(request)

(* What the catch clauses tell of a request that its timer aborted. *)
Told(r) == "timeout"

(* createTimedRequest: the timer of a request that is not cleared. *)
TimerFires(r) ==
    /\ Waiting(r) /\ requests[r].timer
    /\ requests' = [requests EXCEPT ![r] = Aborted([@ EXCEPT !.timer = FALSE, !.timedOut = TRUE])]
    /\ screens' = IF Waiting(r)' THEN screens ELSE Settled(r, Told(r))
    /\ UNCHANGED token

(* Mutant: a component is unmounted without a thought for its request. *)
MountOnly(t) == screens' = Append(screens, Fresh(t)) /\ UNCHANGED requests

(* React mounts the component of the token: the other one is unmounted and *)
(* aborts its request, whose catch clause then tells nothing.              *)
Mount(t) ==
    LET r == Mounted.current
    IN /\ requests' = IF Waiting(r) THEN [requests EXCEPT ![r] = Aborted(@)] ELSE requests
       /\ screens' = Append([screens EXCEPT ![OnScreen].busy = FALSE, ![OnScreen].current = 0],
                            Fresh(t))

Render == ~Rendered /\ Mount(token) /\ UNCHANGED token

(* handleDisconnect: aborts, and is rendered at once. *)
Disconnect ==
    /\ Mounted.token # NoToken
    /\ token' = NoToken
    /\ Mount(NoToken)

---------------------------------------------------------------------------
Next ==
    \/ \E t \in Tokens : SubmitToken(t)
    \/ SubmitSearch
    \/ \E r \in 1..MaxRequests :
          GateAnswer(r) \/ SearchHeaders(r) \/ SearchBody(r) \/ Lose(r) \/ TimerFires(r)
    \/ Render
    \/ Disconnect

(* Timers fire and React renders; nothing makes a user or a server act. *)
Fairness == WF_vars(Render) /\ \A r \in 1..MaxRequests : WF_vars(TimerFires(r))

Spec == Init /\ [][Next]_vars /\ Fairness

---------------------------------------------------------------------------
(* What a workspace shows answers the last search, sent by itself with its *)
(* token (SearchWorkspace.tsx: isRequestPending, requestControllerRef).    *)
AnswersAreOfLastSearch ==
    Mounted.view \in {"ok", "no_evidence"} =>
        /\ Mounted.of = Len(requests)
        /\ requests[Mounted.of].by = OnScreen
        /\ requests[Mounted.of].token = Mounted.token

(* A view tells of a timeout exactly when the timer ended its request, be  *)
(* it before the headers or in the body (SearchWorkspace.tsx: the two      *)
(* catch clauses; TokenGate.tsx: didTimeout).                              *)
TimeoutsAreTold ==
    Mounted.of # 0 => (Mounted.view = "timeout" <=> requests[Mounted.of].timedOut)

(* The answer on the screen is that of the last search of this screen, and *)
(* the user is told of a timeout exactly when there was one                *)
(* (SearchWorkspace.tsx, TokenGate.tsx: setView).                          *)
ScreenIsTrue == AnswersAreOfLastSearch /\ TimeoutsAreTold

(* A refused token disconnects only itself: an answer to a client that has *)
(* disconnected since does not touch the token it is given next            *)
(* (SearchWorkspace.tsx: onDisconnect on 401).                             *)
OnlyItsTokenIsRefused ==
    [][\A r \in DOMAIN requests : requests'[r].rejected /\ ~requests[r].rejected
          => requests[r].by = OnScreen]_vars

(* Every request ends, whether or not the server answers or goes on with   *)
(* the answer it has begun (requestTimeout.ts: createTimedRequest).        *)
EveryRequestEnds == \A r \in 1..MaxRequests : Waiting(r) ~> ~Waiting(r)
===========================================================================
