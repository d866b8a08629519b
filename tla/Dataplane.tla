----------------------------- MODULE Dataplane -----------------------------
(***************************************************************************)
(* dataplane.IpCommandDataplane for one tunnel, and the kernel it drives.  *)
(*                                                                         *)
(* dp.tunnel and dp.sessions are the object's own records, dp.ktunnel and  *)
(* dp.ksessions what the kernel has.  An operation runs one or two ip      *)
(* commands; fail is the set of commands (with their session, 0 for the    *)
(* tunnel) that return an error for reasons of their own.  A command that  *)
(* fails raises DataplaneError, which ends the operation.                  *)
(***************************************************************************)
EXTENDS Messages

\* The kernel has no session with this ID: no parameters.
NoSession == <<>>

NewDataplane(sids) ==
    [ tunnel |-> FALSE, sessions |-> {}, ktunnel |-> FALSE,
      ksessions |-> [sid \in sids |-> NoSession] ]

\* The kernel refuses to add what exists and to delete what does not, a
\* session needs its tunnel, and a cookie has 4 or 8 bytes.  (ip-l2tp,
\* external.)
KernelAddsTunnel(dp)      == ~dp.ktunnel
KernelHasSession(dp, sid) == dp.ksessions[sid] # NoSession

KernelAddsSession(dp, sid, params) ==
    /\ dp.ktunnel /\ ~KernelHasSession(dp, sid)
    /\ EmptyCookie \notin {params.cookie, params.peer_cookie}

\* add_tunnel(): nothing to do for a tunnel it has recorded.
add_tunnel_fails(dp, fail) ==
    ~dp.tunnel /\ (<<"add_tunnel", 0>> \in fail \/ ~KernelAddsTunnel(dp))

add_tunnel(dp, fail) ==
    IF dp.tunnel \/ add_tunnel_fails(dp, fail) THEN dp
    ELSE [dp EXCEPT !.ktunnel = TRUE, !.tunnel = TRUE]

\* add_session(): add, then bring the netdev up; recorded after both.
add_session(dp, sid, params, fail) ==
    IF <<"add_session", sid>> \in fail \/ ~KernelAddsSession(dp, sid, params) THEN dp
    ELSE IF <<"link_up", sid>> \in fail
         THEN [dp EXCEPT !.ksessions[sid] = params]
    ELSE [dp EXCEPT !.ksessions[sid] = params, !.sessions = @ \cup {sid}]

\* del_session(): only what it has recorded.
del_session_works(dp, sid, fail) ==
    /\ sid \in dp.sessions
    /\ <<"del_session", sid>> \notin fail
    /\ KernelHasSession(dp, sid)

\* What is left when the sessions sids are deleted.
forget_sessions(dp, sids) ==
    [dp EXCEPT !.ksessions = [sid \in DOMAIN @ |->
                                 IF sid \in sids THEN NoSession ELSE @[sid]],
               !.sessions  = @ \ sids]

del_session(dp, sid, fail) ==
    IF del_session_works(dp, sid, fail) THEN forget_sessions(dp, {sid}) ELSE dp

\* del_tunnel(): refused while it has sessions recorded.  Deleting a kernel
\* tunnel takes along the sessions the kernel still has in it.
del_tunnel(dp, fail) ==
    IF ~dp.tunnel \/ dp.sessions # {} \/ <<"del_tunnel", 0>> \in fail \/ ~dp.ktunnel
    THEN dp
    ELSE [dp EXCEPT !.ktunnel = FALSE, !.tunnel = FALSE,
                    !.ksessions = [sid \in DOMAIN @ |-> NoSession]]
=============================================================================
