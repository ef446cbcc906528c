---------------------------- MODULE NewsChannel ----------------------------
(***************************************************************************)
(* What the news channel promises its readers, whatever happens inside the *)
(* pipeline: an item appears once.  A send may be carried out and yet look *)
(* failed to the sender, who then tries again: every such post may be      *)
(* followed by one more.                                                   *)
(***************************************************************************)
EXTENDS Naturals

CONSTANT Items

VARIABLES
    posts,      \* how often each item stands in the channel
    lost        \* how many of its posts look failed to the sender

channel == <<posts, lost>>

Init == /\ posts = [i \in Items |-> 0]
        /\ lost = [i \in Items |-> 0]

Post(i) == /\ posts[i] = lost[i]
           /\ posts' = [posts EXCEPT ![i] = @ + 1]
           /\ lost' \in {lost, [lost EXCEPT ![i] = @ + 1]}

Next == \E i \in Items : Post(i)

Spec == Init /\ [][Next]_channel
=============================================================================
