-------------------------- MODULE MailboxRefinement --------------------------
(* FramePath implements Mailbox.                                           *)
EXTENDS FramePath

Promise == INSTANCE Mailbox WITH
    Boxes <- Sessions, Letters <- Frames, Nothing <- Empty,
    slot <- buf, last <- newest, given <- delivered

\* Whatever timeouts, wake-ups, cancellations and reconnects happen, a frame
\* leaves its queue only by being given to a consumer or replaced by a newer
\* one, and one that was given never comes back.
ImplementsMailbox == Promise!Spec
=============================================================================
