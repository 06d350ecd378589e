------------------------------ MODULE MailQueue ------------------------------
(***************************************************************************)
(* What mailboxes promise to those who use them, without their lists,      *)
(* slots and waiting processes: an open mailbox is a queue of messages.    *)
(* Every message sent is received once, in the order of sending, from the  *)
(* mailbox it was sent to, or is thrown away with it.                      *)
(***************************************************************************)
EXTENDS Sequences

CONSTANTS Boxes,      \* mailbox ids
          Users,      \* the processes that send and receive
          Letters,    \* messages
          None,       \* what a buffer holds before the first message
          Opened      \* the mailboxes that are open from the start

VARIABLES open,       \* the mailboxes that can be used
          box,        \* mailbox -> its messages, the oldest first
          received    \* process -> the message it received last
vars == <<open, box, received>>

Init == /\ open = Opened
        /\ box = [b \in Boxes |-> <<>>]
        /\ received = [p \in Users |-> None]

Create(b) == /\ b \notin open
             /\ open' = open \cup {b}
             /\ UNCHANGED <<box, received>>

Send(b, m) == /\ b \in open
              /\ box' = [box EXCEPT ![b] = Append(@, m)]
              /\ UNCHANGED <<open, received>>

Receive(p, b) == /\ box[b] # <<>>
                 /\ received' = [received EXCEPT ![p] = Head(box[b])]
                 /\ box' = [box EXCEPT ![b] = Tail(@)]
                 /\ UNCHANGED open

Release(b) == /\ open' = open \ {b}
              /\ box' = [box EXCEPT ![b] = <<>>]
              /\ UNCHANGED received

Next == \E b \in Boxes : \/ Create(b) \/ Release(b)
                         \/ \E m \in Letters : Send(b, m)
                         \/ \E p \in Users : Receive(p, b)

Spec == Init /\ [][Next]_vars
=============================================================================
