------------------------------- MODULE Mailbox -------------------------------
(***************************************************************************)
(* What the one-place queue of BrymenbleClient promises (transport.py      *)
(* 598-611): one mailbox for each session, in which a new frame replaces   *)
(* the one nobody has taken, and from which a frame is taken once.  Module *)
(* MailboxRefinement shows that FramePath, with its waiters, timeouts and  *)
(* wake-ups, implements it.                                                *)
(***************************************************************************)
CONSTANTS
    Boxes,    \* sessions
    Letters,  \* frames
    Nothing   \* no frame, and not one of Letters

VARIABLES
    slot,     \* the frame in each box
    last,     \* the last frame put in each box
    given     \* frames taken

mailboxVars == <<slot, last, given>>

Init ==
    /\ slot = [b \in Boxes |-> Nothing]
    /\ last = [b \in Boxes |-> Nothing]
    /\ given = {}

Put(b, f) ==
    /\ f \notin given
    /\ slot' = [slot EXCEPT ![b] = f]
    /\ last' = [last EXCEPT ![b] = f]
    /\ UNCHANGED given

Take(b) ==
    /\ slot[b] # Nothing /\ slot[b] = last[b]
    /\ given' = given \cup {slot[b]}
    /\ slot' = [slot EXCEPT ![b] = Nothing]
    /\ UNCHANGED last

Next == \E b \in Boxes : Take(b) \/ \E f \in Letters : Put(b, f)

Spec == Init /\ [][Next]_mailboxVars
=============================================================================
