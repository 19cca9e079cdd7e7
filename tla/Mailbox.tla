------------------------------- MODULE Mailbox -------------------------------
(***************************************************************************)
(* What broker and daemon promise together of direct messages: one that    *)
(* was accepted is owed until it has been handled at the other end or has  *)
(* grown too old, and each session is shown it at most once, unless the    *)
(* recipient has removed it in between.                                    *)
(***************************************************************************)
EXTENDS Naturals

CONSTANTS Cid, Session

VARIABLES
  owed,    \* messages accepted and not yet settled
  lapsed,  \* messages one of whose copies grew too old
  handled, \* messages the recipient has stored, or dropped as unreadable
  shown,   \* how often each session was shown each message
  deleted  \* messages the recipient has removed

vars == <<owed, lapsed, handled, shown, deleted>>

Init == /\ owed = {} /\ lapsed = {} /\ handled = {} /\ deleted = {}
        /\ shown = [s \in Session |-> [c \in Cid |-> 0]]

\* A message is accepted, perhaps not for the first time.
Accept(c) == /\ owed' = owed \cup {c}
             /\ UNCHANGED <<lapsed, handled, shown, deleted>>

\* A copy of it grows too old; there may be another.
Lapse(c) == /\ c \in owed
            /\ owed' \in {owed, owed \ {c}}
            /\ lapsed' = lapsed \cup {c}
            /\ UNCHANGED <<handled, shown, deleted>>

\* It reaches the recipient, and is shown to sessions that have not seen it.
Deliver(c) ==
  /\ c \in owed \cup lapsed \cup handled
  /\ handled' = handled \cup {c}
  /\ \E S \in SUBSET {s \in Session : shown[s][c] = 0 \/ c \in deleted} :
       shown' = [s \in Session |->
                   IF s \in S THEN [shown[s] EXCEPT ![c] = @ + 1] ELSE shown[s]]
  /\ UNCHANGED <<owed, lapsed, deleted>>

\* Otherwise only a message that has reached its recipient is no longer owed.
Settle(C) == /\ C \subseteq owed \cap handled
             /\ owed' = owed \ C
             /\ UNCHANGED <<lapsed, handled, shown, deleted>>

Remove(c) == /\ c \in handled
             /\ deleted' = deleted \cup {c}
             /\ UNCHANGED <<owed, lapsed, handled, shown>>

Next == \/ \E c \in Cid : Accept(c) \/ Lapse(c) \/ Deliver(c) \/ Remove(c)
        \/ \E C \in SUBSET owed : Settle(C)

Spec == Init /\ [][Next]_vars
=============================================================================
