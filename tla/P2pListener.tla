----------------------------- MODULE P2pListener -----------------------------
(***************************************************************************)
(* What a P2pEventListener may rely on: the abstract specification of      *)
(* P2pLinkManager.  A device comes into range, possibly with a message to  *)
(* be confirmed or already being sent; it may come and go without the      *)
(* listener knowing, but for a hint while a message is being sent; at most *)
(* one of "sent", "received" and "not supported" ends a send; and nothing  *)
(* is heard of a device that is out of range.                              *)
(***************************************************************************)
EXTENDS Sequences

VARIABLES phase,   \* what the user sees of the tap
          heard    \* the callbacks of the last step

Phases == {"out", "idle", "asking", "sending", "sent"}

Init == phase = "out" /\ heard = <<>>

(* An appliance is asked and has confirmed before the callback returns. *)
Appear ==
    /\ phase = "out"
    /\ \/ phase' \in {"idle", "sending"} /\ heard' = <<"onP2pInRange">>
       \/ /\ phase' \in {"asking", "sending"}
          /\ heard' = <<"onP2pInRange", "onP2pSendConfirmationRequested">>

Confirmed ==
    /\ phase = "asking" /\ phase' = "sending"
    /\ heard' \in {<<>>, <<"onP2pSendDebounce">>}

Hint ==
    /\ phase = "sending"
    /\ heard' \in {<<"onP2pSendDebounce">>, <<"onP2pResumeSend">>}
    /\ UNCHANGED phase

Sent == phase = "sending" /\ phase' = "sent" /\ heard' = <<"onP2pSendComplete">>

NotSupported ==
    phase = "sending" /\ phase' = "idle" /\ heard' = <<"onP2pHandoverNotSupported">>

Received == phase # "out" /\ phase' = "idle" /\ heard' = <<"onP2pReceiveComplete">>

Leave == phase # "out" /\ phase' = "out" /\ heard' = <<"onP2pOutOfRange">>

(* The link manager works without calling the listener. *)
Quiet == heard' = <<>> /\ UNCHANGED phase

Next == Appear \/ Confirmed \/ Hint \/ Sent \/ NotSupported \/ Received \/ Leave \/ Quiet

vars == <<phase, heard>>
Spec == Init /\ [][Next]_vars
=============================================================================
