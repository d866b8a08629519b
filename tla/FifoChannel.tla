---------------------------- MODULE FifoChannel ----------------------------
(***************************************************************************)
(* What transport.Peer promises to Tunnel, without sequence numbers,       *)
(* queues, timers or a network: each end's messages are taken by the other *)
(* end in order, several at a time perhaps, and an acknowledgement is      *)
(* never ahead of what was taken.                                          *)
(***************************************************************************)
EXTENDS Integers, Sequences

CONSTANT Ends

VARIABLES
    sent,   \* sent[e]: how many messages e has sent, numbered from 0
    taken,  \* taken[e]: the messages of e the other end has taken, in order
    acked   \* acked[e]: how many of its messages e knows to have been taken

vars == <<sent, taken, acked>>

Init ==
    /\ sent  = [e \in Ends |-> 0]
    /\ taken = [e \in Ends |-> <<>>]
    /\ acked = [e \in Ends |-> 0]

\* End e sends its next message.
Send(e) ==
    /\ sent' = [sent EXCEPT ![e] = @ + 1]
    /\ UNCHANGED <<taken, acked>>

\* An end processes what has reached it: it takes the next n messages of f,
\* and learns that some more of its own, e's, have been taken.
Exchange(e, f) ==
    /\ \E n \in 0 .. sent[f] - Len(taken[f]) :
         taken' = [taken EXCEPT ![f] =
                     @ \o [i \in 1 .. n |-> Len(taken[f]) + i - 1]]
    /\ \E k \in acked[e] .. Len(taken[e]) : acked' = [acked EXCEPT ![e] = k]
    /\ sent' = sent

Next ==
    \/ \E e \in Ends : Send(e)
    \/ \E e \in Ends : \E f \in Ends \ {e} : Exchange(e, f)

Spec == Init /\ [][Next]_vars
=============================================================================
