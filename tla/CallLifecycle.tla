--------------------------- MODULE CallLifecycle ---------------------------
(***************************************************************************)
(* What one run of ngntun promises about the three things it ties          *)
(* together: the call (which costs money while it is up), the kernel       *)
(* configuration that exists for its sake, and the command run over the    *)
(* tunnel.  "The call and the tun live and die together" (README,          *)
(* DESIGN 5.3).  How the program keeps the promise is module Session.      *)
(***************************************************************************)

VARIABLES
    call,     \* "none", "up", or "over": released, or ended by the far end
    config,   \* the kernel settings in force, a subset of Settings
    command,  \* "idle", "running" or "exited"
    done      \* session.Run has returned

vars == <<call, config, command, done>>

\* The tun's address and routes; the host route of the media relay.
Settings == {"tunconf", "hostroute"}

Init ==
    /\ call = "none"
    /\ config = {}
    /\ command = "idle"
    /\ done = FALSE

Establish ==
    /\ call = "none" /\ ~done
    /\ call' = "up"
    /\ UNCHANGED <<config, command, done>>

Release ==
    /\ call = "up"
    /\ call' = "over"
    /\ UNCHANGED <<config, command, done>>

\* Nothing is configured before there is a call; the far end may have
\* ended it by the time the settings are made.
Configure(s) ==
    /\ call # "none" /\ ~done
    /\ s \notin config
    /\ config' = config \union {s}
    /\ UNCHANGED <<call, command, done>>

\* Settings are withdrawn only once the call has been released ...
Withdraw(s) ==
    /\ call = "over"
    /\ s \in config
    /\ config' = config \ {s}
    /\ UNCHANGED <<call, command, done>>

\* ... except the tun's own: they vanish with the device, and a configuration
\* of it that fails half way is undone at once.
TunVanishes ==
    /\ "tunconf" \in config
    /\ config' = config \ {"tunconf"}
    /\ UNCHANGED <<call, command, done>>

StartCommand ==
    /\ command = "idle" /\ call # "none" /\ ~done
    /\ command' = "running"
    /\ UNCHANGED <<call, config, done>>

CommandExits ==
    /\ command = "running"
    /\ command' = "exited"
    /\ UNCHANGED <<call, config, done>>

\* The run ends with no call up, no setting left behind and no command.
Finish ==
    /\ ~done
    /\ call # "up" /\ config = {} /\ command # "running"
    /\ done' = TRUE
    /\ UNCHANGED <<call, config, command>>

Next ==
    \/ Establish \/ Release
    \/ \E s \in Settings : Configure(s) \/ Withdraw(s)
    \/ TunVanishes
    \/ StartCommand \/ CommandExits
    \/ Finish

Spec == Init /\ [][Next]_vars
=============================================================================
