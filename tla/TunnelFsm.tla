----------------------------- MODULE TunnelFsm -----------------------------
(***************************************************************************)
(* tunnel_fsm.TunnelFSM: the life cycle of a control connection.           *)
(*                                                                         *)
(* A handler is an operator from the state to what the code's handler      *)
(* produces: the next state and the Action objects.  Every action list of  *)
(* the code is in the order: message, HELLO timer, signal.  The captured   *)
(* peer identity is only logged and is left out.                           *)
(***************************************************************************)
EXTENDS Messages

TunnelStates ==
    {"IDLE", "WAIT_CTL_REPLY", "WAIT_CTL_CONN", "ESTABLISHED", "SEND_STOPCCN"}

Step(state, send, hello, signal) ==
    [state |-> state, send |-> send, hello |-> hello, signal |-> signal]

\* The empty action list.
Nothing(state) == Step(state, None, "keep", "none")

\* TornDown is only signalled for a tunnel that was up.
TornDown(state) == IF state = "ESTABLISHED" THEN "torndown" ELSE "none"

on_local_open(state, ccid) ==
    IF state = "IDLE"
    THEN Step("WAIT_CTL_REPLY", build_sccrq(ccid), "keep", "none")
    ELSE Nothing(state)

\* Mutant: ClearHelloTimer is forgotten.
teardown_and_notify_timer_left(state, ccid) ==
    Step("SEND_STOPCCN", build_stopccn(ccid), "keep", TornDown(state))

\* on_local_close and _teardown_and_notify differ in the result code only.
teardown_and_notify(state, ccid) ==
    Step("SEND_STOPCCN", build_stopccn(ccid), "clear", TornDown(state))

on_local_close(state, ccid) ==
    IF state \in {"IDLE", "SEND_STOPCCN"}
    THEN Nothing(state)
    ELSE teardown_and_notify(state, ccid)

\* Mutant: the timer is not set again.
on_hello_timer_once(state) ==
    IF state = "ESTABLISHED"
    THEN Step(state, build_hello, "keep", "none")
    ELSE Nothing(state)

on_hello_timer(state) ==
    IF state = "ESTABLISHED"
    THEN Step(state, build_hello, "set", "none")
    ELSE Nothing(state)

\* Mutant: ClearHelloTimer is forgotten.
BackToIdle_timer_left(state) ==
    IF state = "IDLE" THEN Nothing(state)
    ELSE Step("IDLE", None, "keep", TornDown(state))

\* on_peer_dead, and _on_stopccn whatever the StopCCN says.
BackToIdle(state) ==
    IF state = "IDLE" THEN Nothing(state)
    ELSE Step("IDLE", None, "clear", TornDown(state))

on_peer_dead(state) == BackToIdle(state)
on_stopccn(state)   == BackToIdle(state)

on_sccrq(state, msg, ccid) ==
    IF state # "IDLE" THEN teardown_and_notify(state, ccid)
    ELSE IF ~msg.ok THEN Nothing(state)
    ELSE Step("WAIT_CTL_CONN", build_sccrp(ccid), "keep", "none")

\* Mutants: the SCCCN is not sent; the tunnel's sessions are not told.
on_sccrp_silent(state, msg, ccid) ==
    IF state # "WAIT_CTL_REPLY" THEN Nothing(state)
    ELSE Step("ESTABLISHED", None, "set", "established")

on_sccrp_unsignalled(state, msg, ccid) ==
    IF state # "WAIT_CTL_REPLY" THEN Nothing(state)
    ELSE Step("ESTABLISHED", build_scccn, "set", "none")

on_sccrp(state, msg, ccid) ==
    IF state # "WAIT_CTL_REPLY" THEN Nothing(state)
    ELSE IF ~msg.ok THEN teardown_and_notify(state, ccid)
    ELSE Step("ESTABLISHED", build_scccn, "set", "established")

on_scccn(state) ==
    IF state # "WAIT_CTL_CONN" THEN Nothing(state)
    ELSE Step("ESTABLISHED", None, "set", "established")

\* on_message(): HELLO and everything else is ignored.
on_tunnel_message(state, msg, ccid) ==
    CASE msg.t = "SCCRQ"   -> on_sccrq(state, msg, ccid)
      [] msg.t = "SCCRP"   -> on_sccrp(state, msg, ccid)
      [] msg.t = "SCCCN"   -> on_scccn(state)
      [] msg.t = "StopCCN" -> on_stopccn(state)
      [] OTHER             -> Nothing(state)
=============================================================================
