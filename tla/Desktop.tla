------------------------------- MODULE Desktop -------------------------------
(***************************************************************************)
(* What the daemon does on the desktop: Notifier and Focus.  Whether a     *)
(* message is worth a notification is decided by the one and made by the   *)
(* other; they share no state.                                             *)
(***************************************************************************)
EXTENDS Notifier, Focus

\* A click on a notification finds its conversation (notifier.go:84-100); with the
\* compositor's events read the daemon knows whether its client has the focus
\* (main.go:2269-2358), and a message that comes then is told, or marked read, as
\* the user has it in front or not (main.go:2160-2218).
DesktopAgrees == VisibleIsRouted /\ FocusIsKnown /\ MessageIsJudged
=============================================================================
