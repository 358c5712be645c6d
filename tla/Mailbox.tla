------------------------------ MODULE Mailbox -------------------------------
(***************************************************************************)
(* What the users of a MsgTask rely on: the messages it accepts are        *)
(* handled one at a time, each once, in the order in which they were sent; *)
(* after it has been closed no message is accepted and those that wait may *)
(* be dropped.                                                             *)
(***************************************************************************)
EXTENDS Sequences

CONSTANTS Msgs, None

VARIABLES
  open,     \* messages are accepted
  box,      \* the accepted messages that wait
  current,  \* the message being handled, or None
  handled   \* the messages that have been handled, in that order

mailVars == <<open, box, current, handled>>

In(m, seq) == \E i \in DOMAIN seq : seq[i] = m

MailInit == open = TRUE /\ box = <<>> /\ current = None /\ handled = <<>>

Accept(m) ==
  /\ open
  /\ ~ In(m, box) /\ m # current /\ ~ In(m, handled)
  /\ box' = Append(box, m)
  /\ UNCHANGED <<open, current, handled>>

Begin ==
  /\ current = None
  /\ box # <<>>
  /\ current' = Head(box)
  /\ box' = Tail(box)
  /\ UNCHANGED <<open, handled>>

Finish ==
  /\ current # None
  /\ handled' = Append(handled, current)
  /\ current' = None
  /\ UNCHANGED <<open, box>>

Close == open /\ open' = FALSE /\ UNCHANGED <<box, current, handled>>

Drop == ~ open /\ current = None /\ box' = <<>> /\ UNCHANGED <<open, current, handled>>

MailNext == Begin \/ Finish \/ Close \/ Drop \/ \E m \in Msgs : Accept(m)

MailSpec == MailInit /\ [][MailNext]_mailVars
=============================================================================
