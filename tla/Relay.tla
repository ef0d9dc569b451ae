-------------------------------- MODULE Relay --------------------------------
(***************************************************************************)
(* What a proxied session promises the two peers: each direction is a      *)
(* FIFO stream that may be cut short, at any point, but never reordered,   *)
(* repeated or holed, and nothing is delivered once the session is over.   *)
(* The i-th byte that a peer sends is named i.                             *)
(***************************************************************************)
EXTENDS Naturals, Sequences

Dirs == {"up", "down"}      \* client to instance, instance to client

VARIABLES sent,             \* per direction, how many bytes the peer sent
          delivered,        \* per direction, the bytes handed to the other peer
          over              \* whether both connections are closed

Init ==
    /\ sent = [d \in Dirs |-> 0]
    /\ delivered = [d \in Dirs |-> <<>>]
    /\ over = FALSE

Send(d) ==
    /\ sent' = [sent EXCEPT ![d] = @ + 1]
    /\ UNCHANGED <<delivered, over>>

Deliver(d) ==
    /\ ~over
    /\ \E k \in Len(delivered[d])..sent[d] :
          delivered' = [delivered EXCEPT ![d] = [i \in 1..k |-> i]]
    /\ UNCHANGED <<sent, over>>

End ==
    /\ over' = TRUE
    /\ UNCHANGED <<sent, delivered>>

Next == End \/ \E d \in Dirs : Send(d) \/ Deliver(d)

Spec == Init /\ [][Next]_<<sent, delivered, over>>
==============================================================================
