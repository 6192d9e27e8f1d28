----------------------------- MODULE HandlerAbs -----------------------------
(***************************************************************************)
(* What the handler of one connection (NotifsHandler, handler/group.rs)    *)
(* promises to the behaviour: the commands it takes, the events it may     *)
(* emit and in which order.  The substreams are left out.                  *)
(*                                                                         *)
(*   Init         not told anything yet                                    *)
(*   Enabled      enabled, and no Open event emitted since the last Closed *)
(*   Open         the last of the events Open and Closed emitted is Open   *)
(*   Disabled     idle                                                     *)
(*   KillAsap     disabled while it was working: it closes the connection  *)
(*   KillOpening  the same, and an Open event is still to be emitted       *)
(*                                                                         *)
(* NotifsHandler.tla implements HandlerSpec.tla, which has these steps, and *)
(* GenericProto.tla is composed with them.                                 *)
(***************************************************************************)
EXTENDS Naturals, Sequences

HandlerStates == {"Init", "Enabled", "Open", "Disabled", "KillAsap", "KillOpening"}

HandlerEvents == {"Open", "Closed", "Message", "Notification", "Clogged", "ProtocolError"}

\* A state and the events that a step to it emits.
To(h, evs) == [state |-> h, events |-> evs]

\* The command Enable.
Enabling(h) == {To(IF h \in {"Init", "Disabled"} THEN "Enabled" ELSE h, <<>>)}

\* The command Disable.  A handler that has lost its substreams and has not
\* begun to open a new one has nothing to kill.
Disabling(h) ==
    CASE h = "Init"    -> {To("Disabled", <<>>)}
      [] h = "Enabled" -> {To("Disabled", <<>>), To("KillAsap", <<>>), To("KillOpening", <<>>)}
      [] h = "Open"    -> {To("KillAsap", <<>>)}
      [] OTHER         -> {To(h, <<>>)}

\* What it may do by itself.  A notification can overtake the Open event: group.rs
\* polls the notification substreams before the legacy one.
Stepping(h) ==
    CASE h = "Init"        -> {To(h, <<"Notification">>)}
      [] h = "Enabled"     -> {To("Open", <<"Open">>), To(h, <<"Notification">>), To(h, <<"ProtocolError">>)}
      [] h = "Open"        -> {To("Enabled", <<"Closed">>)} \cup
                              {To(h, <<e>>) : e \in {"Message", "Notification", "Clogged", "ProtocolError"}}
      [] h = "KillOpening" -> {To("KillAsap", <<"Open">>), To(h, <<"ProtocolError">>)}
      [] OTHER             -> {To(h, <<"ProtocolError">>)}
=============================================================================
