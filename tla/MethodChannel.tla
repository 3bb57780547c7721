--------------------------- MODULE MethodChannel ---------------------------
(***************************************************************************)
(* The method channel between the Dart client and the native broker.  The  *)
(* client awaits every call, and the broker runs a handler to its end      *)
(* before it takes the next, so one call at a time is in progress.         *)
(***************************************************************************)

VARIABLES
  call,    \* the call in progress, then the handler's place in it, or "idle"
  reply    \* the broker's last answer, "none" until it is there

Replies == {"none", "ok", "error",
            "committed", "notCommitted", "rolledBack", "indeterminate"}

ChannelInit == call = "idle" /\ reply = "none"

(* The client's side. *)

Ask(method) ==
  /\ call' = method
  /\ reply' = "none"

Answered == call = "idle" /\ reply # "none"

\* The answer is taken and no call follows.
Rest ==
  /\ UNCHANGED call
  /\ reply' = "none"

(* The broker's side. *)

Answer(r) ==
  /\ call' = "idle"
  /\ reply' = r

Continue(point) ==
  /\ call' = point
  /\ UNCHANGED reply
=============================================================================
