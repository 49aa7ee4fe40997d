-------------------------- MODULE MCMailboxMessages --------------------------
(* Instances of MailboxMessages: mail of other peers, one message of it     *)
(* large, a support message and a trade message to this client; all are     *)
(* model values.                                                            *)
EXTENDS MailboxMessages
=============================================================================
