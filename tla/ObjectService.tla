--------------------------- MODULE ObjectService ---------------------------
(***************************************************************************)
(* What the cluster master promises the slaves about single objects,       *)
(* without its files: a key shows a content or nothing, and at most one    *)
(* PUT at a time is on its way to being shown.                             *)
(***************************************************************************)
CONSTANTS Keys, Vals, None

VARIABLES
    shown,    \* [Keys -> Vals or None]: what a GET returns
    offered,  \* [Keys -> Vals or None]: the content of a PUT the master has taken on
    reading,  \* keys some GET is under way for
    late      \* keys whose bytes at the master are those of a GET that came too late

vars == <<shown, offered, reading, late>>

Content == Vals \cup {None}

Init ==
    /\ shown \in [Keys -> Content]
    /\ offered = [k \in Keys |-> None]
    /\ reading = {} /\ late = {}

\* The master takes on a PUT, one at a time for a key.
Offer(k, v) ==
    /\ offered[k] = None
    /\ offered' = [offered EXCEPT ![k] = v]
    /\ UNCHANGED shown

\* The content of the PUT is shown.
Show(k) ==
    /\ offered[k] # None
    /\ shown' = [shown EXCEPT ![k] = offered[k]]
    /\ UNCHANGED offered

\* The PUT is over, which it is only when its content is shown.
Settle(k) ==
    /\ offered[k] # None /\ shown[k] = offered[k]
    /\ offered' = [offered EXCEPT ![k] = None]
    /\ UNCHANGED shown

\* A DELETE hides the key; a PUT the master has taken on is settled first.
Hide(k) ==
    /\ offered[k] = None
    /\ shown' = [shown EXCEPT ![k] = None]
    /\ UNCHANGED offered

\* A key of a GET that came too late shows, or stops showing, older bytes.
Linger(k) ==
    /\ k \in late'
    /\ \E v \in Content : shown' = [shown EXCEPT ![k] = v]
    /\ UNCHANGED offered

\* A key becomes late only by a GET of it that is under way.
Next ==
    /\ \/ \E k \in Keys : \/ \E v \in Vals : Offer(k, v)
                          \/ Show(k) \/ Settle(k) \/ Hide(k) \/ Linger(k)
       \/ UNCHANGED <<shown, offered>>
    /\ late' \subseteq late \cup reading
    /\ reading' \subseteq Keys

Spec == Init /\ [][Next]_vars
=============================================================================
