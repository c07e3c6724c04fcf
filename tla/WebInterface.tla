---------------------------- MODULE WebInterface ----------------------------
(***************************************************************************)
(* What a browser tab shows of its turns.  The hook of use-chat-stream.ts  *)
(* sends frames down the socket and folds the frames that come back into   *)
(* its cards with turn-controller.ts (which card) and turn-state.ts (what  *)
(* it becomes); the receive loop of routes/chat.py reads the ones and its  *)
(* turn writes the others.  Frames carry no turn number: what ties one to  *)
(* a card is only the card that is active when it arrives.  A text and the *)
(* turn it starts have one number here.                                    *)
(***************************************************************************)
EXTENDS Integers, Sequences

CONSTANTS
    MaxTexts,     \* bound: messages typed and plans approved
    OtherWindow,  \* another window of the session runs turns too
    MaxDrops      \* bound: connections lost

ASSUME TurnViewAssumption == MaxTexts \in Nat \ {0} /\ OtherWindow \in BOOLEAN /\ MaxDrops \in Nat

Texts == 1..MaxTexts

NoText == 0

VARIABLES
    \* the tab
    typed,    \* texts sent so far
    card,     \* what the assistant card of each text shows
    gates,    \* cards with an Approve box for a plan
    activeCard,   \* activeIdRef
    running,  \* runningRef
    phase,    \* phaseRef: "idle", "busy" or "awaiting_approval"
    pending,  \* pendingInterruptRef
    drafts,   \* texts put back into the composer
    \* the wire
    up, down,
    \* the server
    serverTurn,     \* the turn of this socket
    stage,    \* how far it is (bound: it asks once)
    other,    \* a turn of the other window holds the session's lock
    \* history
    refused,  \* texts that were answered with `busy`
    landed,   \* <<turn, card>>: a frame of the one was shown on the other
    crossed,  \* a turn was begun over an interrupt or a turn that was not resolved yet,
              \* in this window or by the other one
    stopped,  \* the user pressed Stop
    drops

clientVars == <<typed, card, gates, activeCard, running, phase, pending, drafts>>
serverVars == <<serverTurn, stage, other>>
historyVars == <<refused, landed, crossed, stopped, drops>>
viewVars == <<clientVars, up, down, serverVars, historyVars>>

Terminals == {"final", "error", "cancelled", "plan"}

ViewTypeOK ==
    /\ typed \in 0..MaxTexts
    /\ card \in [Texts -> {"none", "running", "done", "failed", "cancelled", "plan"}]
    /\ gates \subseteq Texts /\ drafts \subseteq Texts /\ refused \subseteq Texts
    /\ {activeCard, pending, serverTurn} \subseteq 0..MaxTexts
    /\ phase \in {"idle", "busy", "awaiting_approval"}
    /\ stage \in {"begun", "talking", "asking", "asked"}
    /\ {running, other, crossed, stopped} \subseteq BOOLEAN
    /\ landed \subseteq Texts \X Texts
    /\ \A i \in 1..Len(up) : up[i].kind \in {"message", "stopword", "cancel", "answer", "approval"}
    /\ \A i \in 1..Len(down) : down[i].kind \in {"status", "consent", "busy", "idle"} \cup Terminals
    /\ drops \in 0..MaxDrops

ViewInit ==
    /\ typed = 0 /\ card = [t \in Texts |-> "none"] /\ gates = {} /\ activeCard = NoText
    /\ running = FALSE /\ phase = "idle" /\ pending = NoText /\ drafts = {}
    /\ up = <<>> /\ down = <<>>
    /\ serverTurn = NoText /\ stage = "begun" /\ other = FALSE
    /\ refused = {} /\ landed = {} /\ crossed = FALSE /\ stopped = FALSE /\ drops = 0
-----------------------------------------------------------------------------
(* The tab: what the user does.                                             *)

Send(kind, text) == up' = Append(up, [kind |-> kind, text |-> text])

\* sendMessage, with settlePlanGates.
SendMessage ==
    /\ ~running /\ typed < MaxTexts
    /\ typed' = typed + 1
    /\ card' = [card EXCEPT ![typed'] = "running"]
    /\ gates' = {}
    /\ activeCard' = typed' /\ running' = TRUE /\ phase' = "busy"
    /\ Send("message", typed')
    /\ crossed' = (crossed \/ pending # NoText)
    /\ UNCHANGED <<pending, drafts, down, serverVars, refused, landed, stopped, drops>>

\* interrupt: the composer is off while a permission question is shown.
Interrupt ==
    /\ running /\ phase # "awaiting_approval" /\ typed < MaxTexts
    /\ typed' = typed + 1
    /\ pending' = typed'
    /\ \E kind \in {"message", "stopword"} : Send(kind, typed')
    /\ crossed' = (crossed \/ pending # NoText)
    /\ UNCHANGED <<card, gates, activeCard, running, phase, drafts, down, serverVars, refused, landed, stopped, drops>>

\* cancel: settled here without waiting for the reply.
Stop ==
    /\ running
    /\ card' = [card EXCEPT ![activeCard] = "cancelled"]
    /\ activeCard' = NoText /\ running' = FALSE /\ phase' = "idle" /\ pending' = NoText
    /\ Send("cancel", NoText)
    /\ stopped' = TRUE
    /\ UNCHANGED <<typed, gates, drafts, down, serverVars, refused, landed, crossed, drops>>

\* respondToApproval for a permission question of the turn that runs.
AnswerConsent ==
    /\ running /\ phase = "awaiting_approval"
    /\ phase' = "busy"
    /\ Send("answer", NoText)
    /\ UNCHANGED <<typed, card, gates, activeCard, running, pending, drafts, down, serverVars, historyVars>>

\* ... and for a plan: a card of its own, without a user message.
ApprovePlan(t) ==
    /\ t \in gates /\ typed < MaxTexts
    /\ typed' = typed + 1
    /\ gates' = gates \ {t}
    /\ card' = [card EXCEPT ![typed'] = "running"]
    /\ activeCard' = typed' /\ running' = TRUE /\ phase' = "busy"
    /\ Send("approval", typed')
    /\ crossed' = (crossed \/ pending # NoText \/ running)
    /\ UNCHANGED <<pending, drafts, down, serverVars, refused, landed, stopped, drops>>

RejectPlan(t) ==
    /\ t \in gates
    /\ gates' = gates \ {t}
    /\ card' = [card EXCEPT ![t] = "done"]
    /\ UNCHANGED <<typed, activeCard, running, phase, pending, drafts, up, down, serverVars, historyVars>>
-----------------------------------------------------------------------------
(* The tab: applyFrame.                                                     *)

Frame(kind) == down # <<>> /\ Head(down).kind = kind /\ down' = Tail(down)

\* The answer to a cancel belongs to no turn.
Lands(c) == landed' = landed \cup ({<<Head(down).text, c>>} \cap (Texts \X Texts))

\* A refusal never touches the card: a notice, and the pending text back.
SeeBusy ==
    /\ Frame("busy")
    /\ drafts' = drafts \cup ({pending} \ {NoText})
    /\ pending' = NoText
    /\ UNCHANGED <<typed, card, gates, activeCard, running, phase, up, serverVars, historyVars>>

\* A status with no active card is an interrupt that ran as a turn after all.
SeeStatus ==
    /\ \/ Frame("status")
       \/ Frame("idle")
    /\ \/ /\ activeCard # NoText
          /\ phase' = IF Head(down).kind = "idle" THEN "idle" ELSE "busy"
          /\ Lands(activeCard)
          /\ UNCHANGED <<card, activeCard, running, pending>>
       \/ /\ activeCard = NoText /\ pending # NoText
          /\ card' = [card EXCEPT ![pending] = "running"]
          /\ activeCard' = pending /\ pending' = NoText
          /\ running' = TRUE
          /\ phase' = IF Head(down).kind = "idle" THEN "idle" ELSE "busy"
          /\ Lands(pending)
       \/ /\ activeCard = NoText /\ pending = NoText
          /\ UNCHANGED <<card, activeCard, running, phase, pending, landed>>
    /\ UNCHANGED <<typed, gates, drafts, up, serverVars, refused, crossed, stopped, drops>>

SeeConsent ==
    /\ Frame("consent")
    /\ IF activeCard = NoText
       THEN UNCHANGED <<phase, landed>>
       ELSE phase' = "awaiting_approval" /\ Lands(activeCard)
    /\ UNCHANGED <<typed, card, gates, activeCard, running, pending, drafts, up, serverVars, refused, crossed, stopped, drops>>

Shown == [final |-> "done", error |-> "failed", cancelled |-> "cancelled", plan |-> "plan"]

\* The last frame of a turn ends the card that is active; with none it is stale,
\* except that an error is shown all the same.
SeeTerminal(kind) ==
    /\ Frame(kind)
    /\ \/ /\ activeCard # NoText
          /\ card' = [card EXCEPT ![activeCard] = Shown[kind]]
          /\ gates' = gates \cup (IF kind = "plan" THEN {activeCard} ELSE {})
          /\ Lands(activeCard)
          /\ activeCard' = NoText /\ running' = FALSE
          /\ phase' = IF kind = "plan" THEN "awaiting_approval" ELSE "idle"
          /\ pending' = IF kind = "cancelled" THEN NoText ELSE pending
       \/ /\ activeCard = NoText
          /\ running' = IF kind = "error" THEN FALSE ELSE running
          /\ phase' = IF kind = "error" THEN "idle" ELSE phase
          /\ UNCHANGED <<card, gates, activeCard, pending, landed>>
    /\ UNCHANGED <<typed, drafts, up, serverVars, refused, crossed, stopped, drops>>
-----------------------------------------------------------------------------
(* The server: the receive loop and its turn.                               *)

Reply(kind, text) == down' = Append(down, [kind |-> kind, text |-> text])

Reads(kind) == up # <<>> /\ Head(up).kind = kind /\ up' = Tail(up)

\* _cancel_task: the turn's last frame, unless it has sent one.
EndByCancel == serverTurn' = NoText /\ stage' = "begun" /\ Reply("cancelled", serverTurn)

Refuse == Reply("busy", NoText) /\ refused' = refused \cup {Head(up).text}

ReadMessage(kind) ==
    /\ Reads(kind)
    /\ \/ /\ serverTurn # NoText /\ kind = "stopword"
          /\ EndByCancel
          /\ UNCHANGED <<refused, crossed>>
       \/ /\ serverTurn # NoText /\ kind # "stopword"
          /\ Refuse
          /\ UNCHANGED <<serverTurn, stage, crossed>>
       \/ /\ serverTurn = NoText /\ other
          /\ Refuse
          /\ crossed' = TRUE
          /\ UNCHANGED <<serverTurn, stage>>
       \/ /\ serverTurn = NoText /\ ~other
          /\ serverTurn' = Head(up).text /\ stage' = "begun"
          /\ UNCHANGED <<down, refused, crossed>>
    /\ UNCHANGED <<clientVars, other, landed, stopped, drops>>

ReadCancel ==
    /\ Reads("cancel")
    /\ \/ serverTurn # NoText /\ EndByCancel
       \/ serverTurn = NoText /\ Reply("idle", NoText) /\ UNCHANGED <<serverTurn, stage>>
    /\ UNCHANGED <<clientVars, other, historyVars>>

\* ConsentBroker.resolve; an answer that nothing waits for is dropped.
ReadAnswer ==
    /\ Reads("answer")
    /\ stage' = IF stage = "asking" THEN "asked" ELSE stage
    /\ UNCHANGED <<clientVars, down, serverTurn, other, historyVars>>

\* A turn says what it does, may ask, and ends with one terminal frame.
TurnSpeaks ==
    /\ serverTurn # NoText /\ stage = "begun"
    /\ stage' = "talking"
    /\ Reply("status", serverTurn)
    /\ UNCHANGED <<clientVars, up, serverTurn, other, historyVars>>

TurnAsks ==
    /\ serverTurn # NoText /\ stage = "talking"
    /\ stage' = "asking"
    /\ Reply("consent", serverTurn)
    /\ UNCHANGED <<clientVars, up, serverTurn, other, historyVars>>

AskTimesOut ==
    /\ stage = "asking"
    /\ stage' = "asked"
    /\ UNCHANGED <<clientVars, up, down, serverTurn, other, historyVars>>

TurnEnds(kind) ==
    /\ serverTurn # NoText /\ stage \in {"talking", "asked"}
    /\ serverTurn' = NoText /\ stage' = "begun"
    /\ Reply(kind, serverTurn)
    /\ UNCHANGED <<clientVars, up, other, historyVars>>

OtherTurn ==
    /\ OtherWindow /\ serverTurn = NoText
    /\ other' = ~other
    /\ UNCHANGED <<clientVars, up, down, serverTurn, stage, historyVars>>

\* The socket closes on both sides: onclose in the tab, which connects again, and
\* WebSocketDisconnect in the loop, which cancels the turn.
Drop ==
    /\ drops < MaxDrops
    /\ drops' = drops + 1
    /\ up' = <<>> /\ down' = <<>>
    /\ serverTurn' = NoText /\ stage' = "begun"
    /\ IF activeCard = NoText
       THEN UNCHANGED <<card, activeCard, running, phase>>
       ELSE /\ card' = [card EXCEPT ![activeCard] = "failed"]
            /\ activeCard' = NoText /\ running' = FALSE /\ phase' = "idle"
    /\ UNCHANGED <<typed, gates, pending, drafts, other, refused, landed, crossed, stopped>>

ViewNext ==
    \/ SendMessage \/ Interrupt \/ Stop \/ AnswerConsent
    \/ \E t \in Texts : ApprovePlan(t) \/ RejectPlan(t)
    \/ SeeBusy \/ SeeStatus \/ SeeConsent \/ \E k \in Terminals : SeeTerminal(k)
    \/ \E k \in {"message", "stopword", "approval"} : ReadMessage(k)
    \/ ReadCancel \/ ReadAnswer
    \/ TurnSpeaks \/ TurnAsks \/ AskTimesOut \/ \E k \in Terminals \ {"cancelled"} : TurnEnds(k)
    \/ OtherTurn \/ Drop

ViewSpec == ViewInit /\ [][ViewNext]_viewVars
-----------------------------------------------------------------------------
(* Properties.                                                              *)

Quiet == up = <<>> /\ down = <<>> /\ serverTurn = NoText

\* Both hold while what is begun does not overlap what is unresolved; what happens
\* then, and after Stop, is in the README.

\* With no frame on the way and no turn at the server, no card is left running
\* and the composer is not left in its interrupt mode: "a finished turn never
\* stopped running" was a bug of this code (turn-controller.ts:12-13).
QuietMeansSettled ==
    Quiet /\ ~crossed => ~running /\ activeCard = NoText /\ \A t \in Texts : card[t] # "running"

\* Every frame lands on the card of its own turn, unless Stop is pressed.
ShowsItsOwn ==
    ~crossed /\ ~stopped => \A pair \in landed : pair[1] = pair[2]

\* The cards tell of the turns they belong to.
CardsHold == QuietMeansSettled /\ ShowsItsOwn

\* A message that is refused as busy is "handed back so the text is not lost"
\* (use-chat-stream.ts:403).
RefusedTextComesBack ==
    Quiet => refused \subseteq drafts
-----------------------------------------------------------------------------
(***************************************************************************)
(* One browser tab and the session it is in.  Its REST calls send whatever *)
(* id is stored and store the id that comes back (frontend/lib/api.ts);    *)
(* its chat socket is bound to one session when it connects and follows    *)
(* the stored id afterwards (session-recovery.ts, use-chat-stream.ts).     *)
(* The server forgets sessions: it restarts, evicts and drops them.        *)
(***************************************************************************)

CONSTANTS
    Calls,       \* REST calls that can be in flight at once
    MaxIds,      \* bound: sessions the server makes
    MaxForgets   \* bound: sessions it forgets

ASSUME TabSessionAssumption == MaxIds \in Nat \ {0} /\ MaxForgets \in Nat

Ids == 1..MaxIds

NoId == 0  \* no id

VARIABLES
    stored,    \* the id in localStorage
    socket,    \* the socket: where it is and what createSocketSession holds of it
    bound,     \* the session the server has it attached to
    frames,    \* session frames on their way to the tab
    busy,      \* turnBusy: a turn or an interrupt is in flight
    settling,  \* settleSocket's timer is set
    call,      \* the REST calls
    minting,   \* a recovery is in flight ...
    mint,      \* ... and the id it has been given
    live,      \* the sessions the server has
    made, forgets

tabVars == <<stored, socket, bound, frames, busy, settling, call, minting, mint, live, made, forgets>>

NoCall == [at |-> "idle", verb |-> "GET", sent |-> NoId, reply |-> NoId, replayed |-> FALSE]

Closed == [at |-> "closed", attached |-> NoId, held |-> NoId, stale |-> FALSE]

TabTypeOK ==
    /\ {stored, bound} \subseteq 0..MaxIds
    /\ socket \in [at : {"closed", "connecting", "open"}, attached : 0..MaxIds, held : 0..MaxIds, stale : BOOLEAN]
    /\ frames \in Seq(Ids)
    /\ {busy, settling} \subseteq BOOLEAN
    /\ call \in [Calls -> [at : {"idle", "sent", "answered", "gone", "waiting"}, verb : {"GET", "DELETE", "POST"},
                           sent : 0..MaxIds, reply : 0..MaxIds, replayed : BOOLEAN]]
    /\ minting \in BOOLEAN /\ mint \in 0..MaxIds
    /\ live \subseteq Ids /\ made \in 0..MaxIds /\ forgets \in 0..MaxForgets

TabInit ==
    /\ stored = NoId /\ socket = Closed /\ bound = NoId /\ frames = <<>>
    /\ busy = FALSE /\ settling = FALSE
    /\ call = [c \in Calls |-> NoCall] /\ minting = FALSE /\ mint = NoId
    /\ live = {} /\ made = 0 /\ forgets = 0
-----------------------------------------------------------------------------
(* What changes with the stored id and with what the socket is told.        *)

\* connect() right after the old socket was retired: the id in its URL is held.
Opening(url) == [at |-> "connecting", attached |-> NoId, held |-> url, stale |-> FALSE]

\* check: a needed move waits for a running turn, and is made at once without one.
Check(s, id, inTurn) ==
    IF s.attached = NoId \/ id = NoId \/ s.attached = id THEN [s EXCEPT !.stale = FALSE]
    ELSE IF inTurn THEN [s EXCEPT !.stale = TRUE]
    ELSE Opening(id)

\* storeSessionId and clearStoredSessionId: the listener hears of every change.
Store(id) ==
    /\ stored' = id
    /\ socket' = IF id = stored THEN socket ELSE Check(socket, id, busy)

\* The server's side of a socket that was retired goes with it.
ServerSide ==
    IF socket'.at = "connecting" /\ socket.at # "connecting"
    THEN bound' = NoId /\ frames' = <<>>
    ELSE UNCHANGED <<bound, frames>>

StoreAndFollow(id) == Store(id) /\ ServerSide

NextId == made + 1

\* SessionManager.create.
MakeSession ==
    /\ made < MaxIds
    /\ made' = NextId
    /\ live' = live \cup {NextId}
-----------------------------------------------------------------------------
(* The socket.                                                              *)

\* connect, on mount and on the reconnect timer.
Connect ==
    /\ socket.at = "closed"
    /\ socket' = Opening(stored)
    /\ UNCHANGED <<stored, bound, frames, busy, settling, call, minting, mint, live, made, forgets>>

\* The server accepts it: a dead or missing id gets a session of its own.
Accept ==
    /\ socket.at = "connecting" /\ bound = NoId
    /\ IF socket.held \in live
       THEN bound' = socket.held /\ UNCHANGED <<live, made>>
       ELSE MakeSession /\ bound' = NextId
    /\ frames' = Append(frames, bound')
    /\ socket' = [socket EXCEPT !.at = "open"]
    /\ UNCHANGED <<stored, busy, settling, call, minting, mint, forgets>>

\* resolve_session on any frame of the client: a session that is gone is replaced.
ResolveSession ==
    /\ socket.at = "open" /\ bound \notin live
    /\ MakeSession
    /\ bound' = NextId
    /\ frames' = Append(frames, NextId)
    /\ UNCHANGED <<stored, socket, busy, settling, call, minting, mint, forgets>>

\* announced: same, adopt or follow.
Announced ==
    LET id == Head(frames)
        told == [socket EXCEPT !.attached = id, !.held = id]
    IN
    /\ frames # <<>>
    /\ \/ /\ stored = id
          /\ socket' = told /\ frames' = Tail(frames)
          /\ UNCHANGED <<stored, bound>>
       \/ /\ stored # id /\ stored \in {NoId, socket.held}
          /\ stored' = id
          /\ socket' = Check(told, id, busy) /\ frames' = Tail(frames)
          /\ UNCHANGED bound
       \/ /\ stored # id /\ stored \notin {NoId, socket.held}
          /\ socket' = Check(told, stored, busy)
          /\ IF socket'.at = "connecting"
             THEN bound' = NoId /\ frames' = <<>>
             ELSE frames' = Tail(frames) /\ UNCHANGED bound
          /\ UNCHANGED stored
    /\ UNCHANGED <<busy, settling, call, minting, mint, live, made, forgets>>

\* onclose: a turn that was running is settled, an interrupt that waited is not.
Settled == busy' \in {FALSE, busy} /\ settling' = (settling \/ (busy /\ ~busy'))

SocketCloses ==
    /\ socket.at # "closed"
    /\ socket' = [socket EXCEPT !.at = "closed", !.attached = NoId]
    /\ bound' = NoId /\ frames' = <<>>
    /\ Settled
    /\ UNCHANGED <<stored, call, minting, mint, live, made, forgets>>

TurnBegins ==
    /\ ~busy /\ socket.at = "open"
    /\ busy' = TRUE
    /\ UNCHANGED <<stored, socket, bound, frames, settling, call, minting, mint, live, made, forgets>>

\* Its last frame, Stop, or an interrupt handed back: settleSocket.
TurnOver ==
    /\ busy
    /\ busy' = FALSE /\ settling' = TRUE
    /\ UNCHANGED <<stored, socket, bound, frames, call, minting, mint, live, made, forgets>>

\* Faulty variant: a move that waited is forgotten when its turn ends.
SettleForgetful ==
    /\ settling
    /\ settling' = FALSE /\ socket' = [socket EXCEPT !.stale = FALSE]
    /\ UNCHANGED <<stored, bound, frames, busy, call, minting, mint, live, made, forgets>>

\* turnEnded.
Settle ==
    /\ settling
    /\ settling' = FALSE
    /\ socket' = IF socket.stale THEN Check(socket, stored, busy) ELSE socket
    /\ ServerSide
    /\ UNCHANGED <<stored, busy, call, minting, mint, live, made, forgets>>
-----------------------------------------------------------------------------
(* REST calls.                                                              *)

Ask(c, verb, replayed) ==
    call' = [call EXCEPT ![c] = [at |-> "sent", verb |-> verb, sent |-> stored, reply |-> NoId, replayed |-> replayed]]

Request(c, verb) ==
    /\ call[c].at = "idle"
    /\ Ask(c, verb, FALSE)
    /\ UNCHANGED <<stored, socket, bound, frames, busy, settling, minting, mint, live, made, forgets>>

\* get_session: no id makes a session, a dead one is 404, and the id goes back in
\* the header, except from DELETE, which drops the session.
Serve(c) ==
    LET sent == call[c].sent IN
    /\ call[c].at = "sent"
    /\ \/ /\ sent = NoId
          /\ MakeSession
          /\ call' = [call EXCEPT ![c].at = "answered", ![c].reply = NextId]
       \/ /\ sent # NoId /\ sent \notin live
          /\ call' = [call EXCEPT ![c].at = "gone"]
          /\ UNCHANGED <<live, made>>
       \/ /\ sent \in live /\ call[c].verb # "DELETE"
          /\ call' = [call EXCEPT ![c].at = "answered", ![c].reply = sent]
          /\ UNCHANGED <<live, made>>
       \/ /\ sent \in live /\ call[c].verb = "DELETE"
          /\ live' = live \ {sent}
          /\ call' = [call EXCEPT ![c].at = "answered"]
          /\ UNCHANGED made
    /\ UNCHANGED <<stored, socket, bound, frames, busy, settling, minting, mint, forgets>>

\* request: adopt whatever comes back.  newChat clears the id when its DELETE is done
\* and reads the session again.
Answered(c) ==
    /\ call[c].at = "answered"
    /\ IF call[c].verb = "DELETE"
       THEN /\ StoreAndFollow(NoId)
            /\ call' = [call EXCEPT ![c] = [NoCall EXCEPT !.at = "sent"]]
       ELSE /\ StoreAndFollow(call[c].reply)
            /\ call' = [call EXCEPT ![c] = NoCall]
    /\ UNCHANGED <<busy, settling, minting, mint, live, made, forgets>>

\* A 404 of a write, or of a read that was replayed: only the id that failed is dropped.
GoneForGood(c) ==
    /\ call[c].at = "gone" /\ (call[c].verb # "GET" \/ call[c].replayed)
    /\ IF stored = call[c].sent THEN StoreAndFollow(NoId) ELSE UNCHANGED <<stored, socket, bound, frames>>
    /\ call' = [call EXCEPT ![c] = NoCall]
    /\ UNCHANGED <<busy, settling, minting, mint, live, made, forgets>>

\* recover: an id that something else has stored meanwhile is used as it is; the
\* others share one POST.
Recover(c) ==
    /\ call[c].at = "gone" /\ call[c].verb = "GET" /\ ~call[c].replayed
    /\ \/ /\ stored \notin {NoId, call[c].sent}
          /\ Ask(c, "GET", TRUE)
          /\ UNCHANGED <<stored, socket, bound, frames, minting>>
       \/ /\ stored \in {NoId, call[c].sent}
          /\ call' = [call EXCEPT ![c].at = "waiting"]
          /\ minting' = TRUE
          /\ IF ~minting
             THEN StoreAndFollow(NoId)
             ELSE UNCHANGED <<stored, socket, bound, frames>>
    /\ UNCHANGED <<busy, settling, mint, live, made, forgets>>

Mint ==
    /\ minting /\ mint = NoId
    /\ MakeSession
    /\ mint' = NextId
    /\ UNCHANGED <<stored, socket, bound, frames, busy, settling, call, minting, forgets>>

\* The mint is dropped if the socket has adopted a session meanwhile; whoever
\* waited for it asks again with the id that is stored.
Minted ==
    LET id == IF stored = NoId THEN mint ELSE stored IN
    /\ mint # NoId
    /\ StoreAndFollow(id)
    /\ minting' = FALSE /\ mint' = NoId
    /\ call' = [c \in Calls |-> IF call[c].at = "waiting"
                                THEN [NoCall EXCEPT !.at = "sent", !.sent = id, !.replayed = TRUE]
                                ELSE call[c]]
    /\ UNCHANGED <<busy, settling, live, made, forgets>>

\* Another tab writes the same key.
OtherTab ==
    /\ \E id \in live : StoreAndFollow(id)
    /\ UNCHANGED <<busy, settling, call, minting, mint, live, made, forgets>>

\* A session is evicted or reaped ...
ForgetSession(id) ==
    /\ forgets < MaxForgets /\ id \in live
    /\ live' = live \ {id}
    /\ forgets' = forgets + 1
    /\ UNCHANGED <<stored, socket, bound, frames, busy, settling, call, minting, mint, made>>

\* ... or the backend restarts, which also closes the socket.
RestartServer ==
    /\ forgets < MaxForgets /\ socket.at = "open"
    /\ live' = {}
    /\ forgets' = forgets + 1
    /\ socket' = [socket EXCEPT !.at = "closed", !.attached = NoId]
    /\ bound' = NoId /\ frames' = <<>>
    /\ Settled
    /\ UNCHANGED <<stored, call, minting, mint, made>>

TabNext ==
    \/ Connect \/ Accept \/ ResolveSession \/ Announced \/ SocketCloses
    \/ TurnBegins \/ TurnOver \/ Settle
    \/ \E c \in Calls :
        \/ \E verb \in {"GET", "POST", "DELETE"} : Request(c, verb)
        \/ Serve(c) \/ Answered(c) \/ GoneForGood(c) \/ Recover(c)
    \/ Mint \/ Minted \/ OtherTab
    \/ \E id \in Ids : ForgetSession(id)
    \/ RestartServer

TabSpec == TabInit /\ [][TabNext]_tabVars
-----------------------------------------------------------------------------
(* Properties.                                                              *)

\* With the socket open, nothing announced that it has not heard, no turn and no
\* move that waits for one, the socket is in the session the REST calls name: the
\* user never asks about a file in a session that has not seen it
\* (session-recovery.ts:76-84).
SocketFollowsStore ==
    (socket.at = "open" /\ frames = <<>> /\ ~busy /\ ~settling /\ stored # NoId) => bound = stored
=============================================================================
