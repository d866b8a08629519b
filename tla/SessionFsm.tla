----------------------------- MODULE SessionFsm -----------------------------
(***************************************************************************)
(* session_fsm.SessionFSM: the life cycle of one pseudowire.               *)
(*                                                                         *)
(* A session is the record of the attributes that change; cfg is its       *)
(* SessionConfig.  A handler yields the session after it, the message to   *)
(* send and what the dataplane is asked to do, in that order in every      *)
(* action list of the code.                                                *)
(***************************************************************************)
EXTENDS Messages

SessionStates ==
    {"IDLE", "WAIT_SESSION_REPLY", "WAIT_SESSION_CONNECT", "ESTABLISHED", "SEND_CDN"}

NewSession == [state |-> "IDLE", peer_sid |-> 0, peer_cookie |-> None]

SessStep(sess, send, dp) == [sess |-> sess, send |-> send, dp |-> dp]

SessNothing(sess) == SessStep(sess, None, "none")

\* DataplaneDelSession is only asked for a session that was up.
Withdraw(sess) == IF sess.state = "ESTABLISHED" THEN "del" ELSE "none"

on_tunnel_established(cfg, sess) ==
    IF ~cfg.initiator \/ sess.state # "IDLE" THEN SessNothing(sess)
    ELSE SessStep([sess EXCEPT !.state = "WAIT_SESSION_REPLY"],
                  build_icrq(cfg.sid, cfg.name, cfg.cookie), "none")

\* on_local_close and _teardown_cdn differ in the result code only.
teardown_cdn(cfg, sess) ==
    SessStep([sess EXCEPT !.state = "SEND_CDN"],
             build_cdn(cfg.sid, sess.peer_sid), Withdraw(sess))

on_session_close(cfg, sess) ==
    IF sess.state \in {"IDLE", "SEND_CDN"} THEN SessNothing(sess)
    ELSE teardown_cdn(cfg, sess)

\* Mutant: the netdev is not withdrawn.
SessionDown_netdev_left(sess) ==
    IF sess.state = "IDLE" THEN SessNothing(sess)
    ELSE SessStep([sess EXCEPT !.state = "IDLE"], None, "none")

\* on_tunnel_down, and _on_cdn whatever the CDN says.
SessionDown(sess) ==
    IF sess.state = "IDLE" THEN SessNothing(sess)
    ELSE SessStep([sess EXCEPT !.state = "IDLE"], None, Withdraw(sess))

on_tunnel_down(sess) == SessionDown(sess)
on_cdn(sess)         == SessionDown(sess)

\* Mutant: the peer's cookie is not remembered.
Learn_without_cookie(sess, msg) == [sess EXCEPT !.peer_sid = msg.lsid]

\* Mutant: the first session ID that was learned is kept.
Learn_first_sid(sess, msg) ==
    [sess EXCEPT !.peer_sid    = IF @ = 0 THEN msg.lsid ELSE @,
                 !.peer_cookie = IF msg.cookie = None THEN @ ELSE msg.cookie]

\* The peer's session ID and, if it sent one, its cookie.
Learn(sess, msg) ==
    [sess EXCEPT !.peer_sid    = msg.lsid,
                 !.peer_cookie = IF msg.cookie = None THEN @ ELSE msg.cookie]

on_icrq(cfg, sess, msg) ==
    IF sess.state # "IDLE" THEN teardown_cdn(cfg, sess)
    ELSE IF ~msg.ok THEN SessNothing(sess)
    ELSE SessStep([Learn(sess, msg) EXCEPT !.state = "WAIT_SESSION_CONNECT"],
                  build_icrp(cfg.sid, msg.lsid, cfg.cookie), "none")

\* Mutant: the ICCN is not sent.
on_icrp_silent(cfg, sess, msg) ==
    IF sess.state # "WAIT_SESSION_REPLY" THEN SessNothing(sess)
    ELSE SessStep([Learn(sess, msg) EXCEPT !.state = "ESTABLISHED"], None, "add")

on_icrp(cfg, sess, msg) ==
    IF sess.state # "WAIT_SESSION_REPLY" THEN SessNothing(sess)
    ELSE IF ~msg.ok THEN teardown_cdn(cfg, sess)
    ELSE SessStep([Learn(sess, msg) EXCEPT !.state = "ESTABLISHED"],
                  build_iccn(cfg.sid, msg.lsid), "add")

on_iccn(cfg, sess, msg) ==
    IF sess.state # "WAIT_SESSION_CONNECT" THEN SessNothing(sess)
    ELSE IF ~msg.ok \/ msg.lsid # sess.peer_sid THEN teardown_cdn(cfg, sess)
    ELSE SessStep([sess EXCEPT !.state = "ESTABLISHED"], None, "add")

on_session_message(cfg, sess, msg) ==
    CASE msg.t = "ICRQ" -> on_icrq(cfg, sess, msg)
      [] msg.t = "ICRP" -> on_icrp(cfg, sess, msg)
      [] msg.t = "ICCN" -> on_iccn(cfg, sess, msg)
      [] msg.t = "CDN"  -> on_cdn(sess)

\* _dataplane_params: the learned cookie wins over the configured one, unless
\* it has no bytes.
dataplane_params(cfg, sess) ==
    [ remote_sid  |-> sess.peer_sid,
      cookie      |-> cfg.cookie,
      peer_cookie |-> IF sess.peer_cookie \in {None, EmptyCookie} THEN cfg.peer_cookie
                      ELSE sess.peer_cookie ]
=============================================================================
