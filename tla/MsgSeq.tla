------------------------------- MODULE MsgSeq -------------------------------
(***************************************************************************)
(* What a buffer of messages promises: a sequence of messages, to which    *)
(* both ends can add and from whose front they are taken whole.            *)
(***************************************************************************)
EXTENDS Sequences

CONSTANTS Msgs,
          AtFront  \* for each message, what is at the front after it is put there

VARIABLES msgs,  \* the messages in the buffer
          call   \* the last call, with the message it put or returned

Init == msgs = <<>> /\ call = <<"reset">>
Push(m) == msgs' = Append(msgs, m) /\ call' = <<"push", m>>
HeadPush(m) == (\E n \in AtFront[m] : msgs' = <<n>> \o msgs) /\ call' = <<"head_push", m>>
Pop == msgs # <<>> /\ msgs' = Tail(msgs) /\ call' = <<"pop", Head(msgs)>>
Reset == msgs' = <<>> /\ call' = <<"reset">>

Next == Pop \/ Reset \/ \E m \in Msgs : Push(m) \/ HeadPush(m)
Spec == Init /\ [][Next]_<<msgs, call>>
=============================================================================
