------------------------------ MODULE Incoming ------------------------------
(***************************************************************************)
(* Incoming calls: the UA's receive loop (ua.go, dialog.go), the channel   *)
(* `incoming' of one place, waitForCall with Accept and Reject, and the    *)
(* goroutine that repeats the 200 until its ACK.  The callers are on the   *)
(* other side of a network that loses, repeats and reorders.               *)
(*                                                                         *)
(* The receive loop looks a request's dialog up under the UA's lock and    *)
(* acts after it has let go of it, so the two are separate steps.          *)
(***************************************************************************)
EXTENDS Naturals, Sequences, FiniteSets

CONSTANTS
    Callers,    \* the INVITEs' Call-IDs, one for each caller
    Offers,     \* what the callers' INVITEs are like, in the cases considered
    None,
    MaxWire     \* bound on the messages in flight; the rest is lost

\* "unwelcome": not in AllowFrom, or ParseAnswer fails; "noContact": no From
\* tag or no Contact; "unroutable": a Contact that names no address.
Kinds == {"good", "unwelcome", "noContact", "unroutable"}

ASSUME IncomingAssumption ==
    /\ Offers \subseteq [Callers -> Kinds] /\ None \notin Callers
    /\ MaxWire \in Nat \ {0}

VARIABLES
    kind,       \* each caller's INVITE
    waiter,     \* Run: "elsewhere" (it places a call), "waiting", "accepting",
                \* "up", "hanging" (its BYE is out), "over"
    held,       \* the call accepted, or being accepted
    queue,      \* UA.incoming
    loop,       \* the INVITE that the receive loop found no dialog for
    dialog,     \* UA.dialogs, which has one entry at most
    ended,      \* the dialog's termReason; "none" while terminated is open
    acked,      \* ackReceived is closed
    resender,   \* the goroutine that repeats the 200 runs
    replied,    \* the final answers given to each caller
    byed,       \* a BYE was sent
    caller,     \* the far ends
    wire        \* messages in flight

runVars  == <<waiter, held, queue>>
dlgVars  == <<dialog, ended, acked, resender>>
histVars == <<replied, byed>>
vars == <<kind, waiter, held, queue, loop, dialog, ended, acked, resender,
          replied, byed, caller, wire>>

ToUA   == {"INVITE", "ACK", "BYE"}
ToPeer == {"100", "200", "refused", "ourBYE"}

TypeOK ==
    /\ kind \in Offers
    /\ waiter \in {"elsewhere", "waiting", "accepting", "up", "hanging", "over"}
    /\ held \in Callers \union {None}
    /\ queue \in {<<>>} \union {<<c>> : c \in Callers}
    /\ loop \in Callers \union {None}
    /\ dialog \in Callers \union {None}
    /\ ended \in {"none", "remote-bye", "local-bye", "no-ack"}
    /\ acked \in BOOLEAN /\ resender \in BOOLEAN
    /\ replied \in [Callers -> SUBSET {"200", "refused"}]
    /\ byed \in BOOLEAN
    /\ caller \in [Callers -> {"idle", "calling", "ringing", "cancelling",
                               "talking", "refused", "gone"}]
    /\ wire \subseteq (ToUA \union ToPeer) \X Callers

Init ==
    /\ kind \in Offers
    /\ waiter \in {"elsewhere", "waiting"}     \* Config.AnswerMode
    /\ held = None /\ queue = <<>> /\ loop = None
    /\ dialog = None /\ ended = "none" /\ acked = FALSE /\ resender = FALSE
    /\ replied = [c \in Callers |-> {}] /\ byed = FALSE
    /\ caller = [c \in Callers |-> "idle"]
    /\ wire = {}

-----------------------------------------------------------------------------
\* The process is there.
Alive == waiter # "over"

\* w with the messages ms, as far as the network carries them.
Carry(w, ms) == IF Cardinality(w \union ms) <= MaxWire THEN w \union ms ELSE w

\* Message m arrives; a copy of it may follow.
Arrives(t, c, ms) ==
    /\ <<t, c>> \in wire
    /\ \E w \in {wire, wire \ {<<t, c>>}} : wire' = Carry(w, ms)

Replied(c, a) == replied' = [replied EXCEPT ![c] = @ \union {a}]

\* termOnce: the first reason stands.
Terminate(r) ==
    /\ ended' = IF ended = "none" THEN r ELSE ended
    /\ dialog' = None

-----------------------------------------------------------------------------
(***************************************************************************)
(* The receive loop.                                                       *)
(***************************************************************************)
\* An INVITE of the dialog is taken for a refresh and answered as before.
LookUpInvite(c) ==
    /\ Alive /\ loop = None
    /\ IF dialog = c
       THEN /\ Arrives("INVITE", c, {<<"200", c>>})
            /\ Replied(c, "200")
            /\ UNCHANGED loop
       ELSE /\ Arrives("INVITE", c, {})
            /\ loop' = c
            /\ UNCHANGED replied
    /\ UNCHANGED <<kind, runVars, dlgVars, byed, caller>>

\* (A slip: the channel taken to be empty.)
RoomAlways == TRUE

Room == queue = <<>>

\* handleIncomingInvite: 100, and into the channel or refused with 486.
QueueInvite ==
    /\ Alive /\ loop # None
    /\ loop' = None
    /\ IF Room
       THEN /\ queue' = Append(queue, loop)
            /\ wire' = Carry(wire, {<<"100", loop>>})
            /\ UNCHANGED replied
       ELSE /\ Replied(loop, "refused")
            /\ wire' = Carry(wire, {<<"100", loop>>, <<"refused", loop>>})
            /\ UNCHANGED queue
    /\ UNCHANGED <<kind, waiter, held, dlgVars, byed, caller>>

\* Any ACK with the dialog's Call-ID will do.
TakeAck(c) ==
    /\ Alive /\ loop = None
    /\ Arrives("ACK", c, {})
    /\ acked' = (acked \/ dialog = c)
    /\ UNCHANGED <<kind, runVars, loop, dialog, ended, resender, histVars, caller>>

TakeBye(c) ==
    /\ Alive /\ loop = None
    /\ Arrives("BYE", c, {})
    /\ IF dialog = c THEN Terminate("remote-bye") ELSE UNCHANGED <<dialog, ended>>
    /\ UNCHANGED <<kind, runVars, loop, acked, resender, histVars, caller>>

-----------------------------------------------------------------------------
(***************************************************************************)
(* waitForCall and Accept.                                                 *)
(***************************************************************************)
\* (A slip: the loop goes on without a word to the caller.)
RejectSilently(c) == UNCHANGED <<replied, wire>>

Reject(c) ==
    /\ Replied(c, "refused")
    /\ wire' = Carry(wire, {<<"refused", c>>})

TurnDown ==
    /\ waiter = "waiting" /\ queue # <<>>
    /\ kind[Head(queue)] = "unwelcome"
    /\ Reject(Head(queue))
    /\ queue' = Tail(queue)
    /\ UNCHANGED <<kind, waiter, held, loop, dlgVars, byed, caller>>

\* Accept's first half, up to addDialog; without a tag or a Contact it fails,
\* and Run with it, and the caller hears nothing.
AcceptBegins ==
    /\ waiter = "waiting" /\ queue # <<>>
    /\ queue' = Tail(queue)
    /\ \/ /\ kind[Head(queue)] \in {"good", "unroutable"}
          /\ held' = Head(queue) /\ dialog' = Head(queue)
          /\ waiter' = "accepting"
       \/ /\ kind[Head(queue)] = "noContact"
          /\ waiter' = "over"
          /\ UNCHANGED <<held, dialog>>
    /\ UNCHANGED <<kind, loop, ended, acked, resender, histVars, caller, wire>>

\* (A slip: waitForCall goes round again after it has accepted.)
KeepWaiting == "waiting"

AfterAccept == "up"

AcceptSends ==
    /\ waiter = "accepting"
    /\ Replied(held, "200")
    /\ wire' = Carry(wire, {<<"200", held>>})
    /\ resender' = TRUE
    /\ waiter' = AfterAccept
    /\ UNCHANGED <<kind, held, queue, loop, dialog, ended, acked, byed, caller>>

\* The 200 cannot be sent: the dialog is forgotten and Run fails.
AcceptFails ==
    /\ waiter = "accepting"
    /\ dialog' = None /\ held' = None
    /\ waiter' = "over"
    /\ UNCHANGED <<kind, queue, loop, ended, acked, resender, histVars, caller, wire>>

\* A signal; when the process places a call of its own, its end.
StopWaiting ==
    /\ waiter \in {"waiting", "elsewhere"}
    /\ waiter' = "over"
    /\ UNCHANGED <<kind, held, queue, loop, dlgVars, histVars, caller, wire>>

-----------------------------------------------------------------------------
(***************************************************************************)
(* The goroutine that repeats the 200.                                     *)
(***************************************************************************)
Resend ==
    /\ Alive /\ resender
    /\ wire' = Carry(wire, {<<"200", held>>})
    /\ UNCHANGED <<kind, runVars, loop, dlgVars, histVars, caller>>

ResenderStops ==
    /\ Alive /\ resender /\ (acked \/ ended # "none")
    /\ resender' = FALSE
    /\ UNCHANGED <<kind, runVars, loop, dialog, ended, acked, histVars, caller, wire>>

\* (A slip: no deadline.)
DeadlineNever == FALSE

DeadlineComes == resender

\* 32 s without an ACK; select may see this case and an ACK just come.
NoAck ==
    /\ Alive /\ DeadlineComes
    /\ Terminate("no-ack")
    /\ resender' = FALSE
    /\ UNCHANGED <<kind, runVars, loop, acked, histVars, caller, wire>>

-----------------------------------------------------------------------------
(***************************************************************************)
(* The end of the session: supervise returns, hangup, Bye.                 *)
(***************************************************************************)
\* (A slip: a call ended by the far end only.)
HangupNeeded == FALSE

NeedsBye == ended = "none"

\* The session ends, for a reason of its own or because the call did.
Hangup ==
    /\ waiter = "up"
    /\ IF NeedsBye /\ kind[held] # "unroutable"
       THEN /\ waiter' = "hanging" /\ byed' = TRUE
            /\ wire' = Carry(wire, {<<"ourBYE", held>>})
       ELSE waiter' = "over" /\ UNCHANGED <<byed, wire>>
    /\ UNCHANGED <<kind, held, queue, loop, dlgVars, replied, caller>>

ByeRepeats ==
    /\ waiter = "hanging"
    /\ wire' = Carry(wire, {<<"ourBYE", held>>})
    /\ UNCHANGED <<kind, runVars, loop, dlgVars, histVars, caller>>

\* The response, or the 2 s of hangup.
ByeEnds ==
    /\ waiter = "hanging"
    /\ Terminate("local-bye")
    /\ waiter' = "over"
    /\ UNCHANGED <<kind, held, queue, loop, acked, resender, histVars, caller, wire>>

-----------------------------------------------------------------------------
(***************************************************************************)
(* The callers and the network.                                            *)
(***************************************************************************)
\* A call, and its repetition until something is heard.  (Nothing more is
\* tried, or lost, once the process has gone.)
Invite(c) ==
    /\ Alive
    /\ caller[c] \in {"idle", "calling"}
    /\ caller' = [caller EXCEPT ![c] = "calling"]
    /\ wire' = Carry(wire, {<<"INVITE", c>>})
    /\ UNCHANGED <<kind, runVars, loop, dlgVars, histVars>>

\* A CANCEL is answered 481 and does nothing here: it is not on the wire.
Cancel(c) ==
    /\ Alive /\ caller[c] = "ringing"
    /\ caller' = [caller EXCEPT ![c] = "cancelling"]
    /\ UNCHANGED <<kind, runVars, loop, dlgVars, histVars, wire>>

GiveUp(c) ==
    /\ Alive /\ caller[c] \in {"calling", "cancelling"}
    /\ caller' = [caller EXCEPT ![c] = "gone"]
    /\ UNCHANGED <<kind, runVars, loop, dlgVars, histVars, wire>>

Becomes(c, s) == caller' = [caller EXCEPT ![c] = s]

Hears(c) ==
    /\ \/ /\ Arrives("100", c, {})
          /\ IF caller[c] = "calling" THEN Becomes(c, "ringing") ELSE UNCHANGED caller
       \/ /\ caller[c] \in {"calling", "ringing", "talking"}
          /\ Arrives("200", c, {<<"ACK", c>>})
          /\ Becomes(c, "talking")
       \/ /\ caller[c] = "cancelling"           \* too late: ACK and BYE
          /\ Arrives("200", c, {<<"ACK", c>>, <<"BYE", c>>})
          /\ Becomes(c, "gone")
       \/ /\ caller[c] \in {"calling", "ringing", "cancelling", "refused"}
          /\ Arrives("refused", c, {<<"ACK", c>>})
          /\ Becomes(c, "refused")
       \/ /\ caller[c] = "talking"
          /\ Arrives("ourBYE", c, {})
          /\ Becomes(c, "gone")
    /\ UNCHANGED <<kind, runVars, loop, dlgVars, histVars>>

CallerHangsUp(c) ==
    /\ caller[c] = "talking"
    /\ Becomes(c, "gone")
    /\ wire' = Carry(wire, {<<"BYE", c>>})
    /\ UNCHANGED <<kind, runVars, loop, dlgVars, histVars>>

Lose ==
    /\ Alive
    /\ \E m \in wire : wire' = wire \ {m}
    /\ UNCHANGED <<kind, runVars, loop, dlgVars, histVars, caller>>

-----------------------------------------------------------------------------
Receive == \/ QueueInvite
           \/ \E c \in Callers : LookUpInvite(c) \/ TakeAck(c) \/ TakeBye(c)

Wait == TurnDown \/ AcceptBegins \/ AcceptSends \/ AcceptFails \/ StopWaiting

Repeat == Resend \/ ResenderStops \/ NoAck

End == Hangup \/ ByeRepeats \/ ByeEnds

Peers == \/ \E c \in Callers : \/ Invite(c) \/ Cancel(c) \/ GiveUp(c)
                               \/ Hears(c) \/ CallerHangsUp(c)
         \/ Lose

Next == Receive \/ Wait \/ Repeat \/ End \/ Peers

Spec == Init /\ [][Next]_vars

\* The goroutines are scheduled and the deadlines come.  Nothing is owed by
\* the callers, the network or the reasons that end a session.
FairSpec ==
    /\ Spec
    /\ WF_vars(QueueInvite)
    /\ WF_vars(TurnDown) /\ WF_vars(AcceptBegins)
    /\ WF_vars(AcceptSends \/ AcceptFails)
    /\ WF_vars(ResenderStops) /\ WF_vars(NoAck)
    /\ WF_vars(ByeEnds)

-----------------------------------------------------------------------------
(***************************************************************************)
(* Properties.                                                             *)
(***************************************************************************)
\* One call for each process: whatever is repeated or arrives together, one
\* caller at most is told 200.
OneCall == Cardinality({c \in Callers : "200" \in replied[c]}) <= 1

\* The caller that Run went on with is not left in the call without a BYE,
\* unless its ACK never came or its Contact led nowhere.
CallerTold ==
    \A c \in Callers :
        ~Alive /\ c = held /\ caller[c] = "talking" =>
            byed \/ ended = "no-ack" \/ kind[c] = "unroutable"

\* A 200 is not repeated for ever: its ACK comes, or the call ends.
Confirmed == resender ~> (acked \/ ended # "none" \/ ~Alive)

\* Whoever waitForCall takes from the channel hears of it, or Run ends.
TakenIsAnswered ==
    \A c \in Callers :
        (waiter = "waiting" /\ queue = <<c>>) ~> (replied[c] # {} \/ ~Alive)
=============================================================================
