----------------------------- MODULE MCL2tpPair -----------------------------
(***************************************************************************)
(* Instances of L2tpPair for TLC: configurations of the two ends, and the  *)
(* scenarios made of them.                                                 *)
(***************************************************************************)
EXTENDS L2tpPair

CONSTANTS PwA, PwB, C1, C2, Secret

Session(id, pw, opens, own) ==
    [sid |-> id, name |-> pw, initiator |-> opens, cookie |-> own, peer_cookie |-> None]

Entry(local, remote, key, sess) ==
    [local_ccid |-> local, remote_ccid |-> remote, password |-> key,
     sessions |-> sess, order |-> SetToSortSeq(DOMAIN sess, <)]

NoSessions == [sid \in {} |-> 0]

\* A tunnel without sessions; each end knows the other's control connection
\* ID, as daemons need it.
KeepAlive == <<Entry(101, 102, None, NoSessions), Entry(102, 101, None, NoSessions)>>

\* One pseudowire, opened by end 1.
OneSession ==
    << Entry(101, 102, None, 5 :> Session(5, PwA, TRUE, C1)),
       Entry(102, 101, None, 6 :> Session(6, PwA, FALSE, C2)) >>

\* Two pseudowires whose session IDs are the other way round at the two ends;
\* each end opens one.
TwoSessions ==
    << Entry(101, 102, None, <<Session(1, PwA, TRUE, C1), Session(2, PwB, FALSE, None)>>),
       Entry(102, 101, None, <<Session(1, PwB, TRUE, C2), Session(2, PwA, FALSE, None)>>) >>

\* The configuration of the integration tests: control connection IDs are
\* learned; with a shared secret.
Signed ==
    << Entry(101, 0, Secret, NoSessions), Entry(102, 0, Secret, NoSessions) >>

\* In any step, one of these ip commands may fail.
SomeFailure == {{}, {<<"link_up", 1>>}, {<<"del_session", 2>>}}

\* Nothing but what the ends do by themselves.
Calm == [event \in Events |-> 0]

\* One daemon that opens and one that answers; every ip command succeeds.
Base(conf) == [config |-> conf, openers |-> {1}, daemon |-> TRUE,
               failing |-> {{}}, max |-> Calm]

\* The scenarios of the passing runs.
BringUp ==
    << [Base(OneSession) EXCEPT !.max = [Calm EXCEPT !.early = 1, !.hellos = 2, !.closes = 1]],
       [Base(TwoSessions) EXCEPT !.max = [Calm EXCEPT !.hellos = 1, !.closes = 1]],
       [Base(KeepAlive) EXCEPT !.max = [Calm EXCEPT !.faults = 2, !.hellos = 1]] >>

Lifetime ==
    << [Base(OneSession) EXCEPT !.max =
          [Calm EXCEPT !.early = 1, !.faults = 1, !.hellos = 1, !.closes = 1]],
       [Base(TwoSessions) EXCEPT !.failing = SomeFailure, !.max =
          [Calm EXCEPT !.faults = 1, !.stops = 1, !.crashes = 1]] >>

\* The scenarios of the findings.
Reordered   == << [Base(OneSession) EXCEPT !.max = [Calm EXCEPT !.faults = 1]] >>
BothOpen    == << [Base(KeepAlive) EXCEPT !.openers = {1, 2}] >>
SignedOnly  == << [Base(Signed) EXCEPT !.daemon = FALSE, !.max = [Calm EXCEPT !.hellos = 1]] >>
PeerRestart == << [Base(KeepAlive) EXCEPT !.max = [Calm EXCEPT !.crashes = 1]] >>
LateSession == << [Base(OneSession) EXCEPT !.max = [Calm EXCEPT !.faults = 1, !.stops = 1]] >>
=============================================================================
