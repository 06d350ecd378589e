------------------------------ MODULE MCMailbox ------------------------------
(***************************************************************************)
(* Small instances of the mailboxes: which process makes which calls.      *)
(* Process 9 is the sentinel.                                              *)
(***************************************************************************)
EXTENDS MailboxProperties

Anything == {"MboxSend", "MboxRecv", "MboxCreate"}
Receiving == {"MboxRecv", "MboxCondRecv", "yield"}

\* Two processes that use every mailbox in every way.
AllAlike == [p \in Procs |-> IF p = 9 THEN {} ELSE Anything]
\* Nobody but 1 receives; 2 makes the mailboxes and throws them away.
Mixed ==
    [p \in Procs |->
        CASE p = 9 -> {}
          [] p = 1 -> {"MboxSend", "MboxRecv", "MboxCondRecv"}
          [] OTHER -> {"MboxSend", "MboxCondSend", "MboxCreate", "MboxRelease"}]
\* One receiver, who also makes and releases, and senders.
OneReceiver ==
    [p \in Procs |->
        CASE p = 9 -> {}
          [] p = 1 -> Receiving \cup {"MboxCreate", "MboxRelease"}
          [] OTHER -> {"MboxSend", "yield"}]
\* One sender, who also makes and releases, and receivers.
OneSender ==
    [p \in Procs |->
        CASE p = 9 -> {}
          [] p = 1 -> {"MboxSend", "MboxCreate", "MboxRelease", "yield"}
          [] OTHER -> Receiving]
\* The same, and the table slots of those that end are used again.
OneSenderReplaced ==
    [p \in Procs |-> IF p \in {1, 9} THEN OneSender[p]
                                     ELSE OneSender[p] \cup {"replace"}]
\* One sender and one receiver.
Pair == [p \in Procs |->
            CASE p = 9 -> {}
              [] p = 1 -> Receiving
              [] OTHER -> {"MboxSend", "MboxCreate", "yield"}]
\* A device driver, another that sends, and interrupts.
Interrupted == [p \in Procs |->
            CASE p = 9 -> {"handler"}
              [] p = 1 -> {"waitDevice", "yield", "handler"}
              [] OTHER -> {"MboxSend", "yield", "handler"}]

Queueing == {AllAlike, Mixed}
OneToMany == {OneReceiver, OneSender, OneSenderReplaced}
PairOrDriver == {Pair, Interrupted}

OneSize == [m \in Messages |-> 1]
=============================================================================
