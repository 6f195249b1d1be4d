---------------------------- MODULE MCChannelHub ----------------------------
(* Instances of ChannelHub for TLC. *)
EXTENDS ChannelService

CONSTANTS c1, e1

(* /await?contains= a text found in the event e1 and in the command c1, as    *)
(* when one waits for an event that the command subscribes to.                *)
ContainsEventAndCommand == [a \in Awaits |-> {c1, e1} \cap Bodies]
=============================================================================
