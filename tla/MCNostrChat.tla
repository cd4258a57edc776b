----------------------------- MODULE MCNostrChat -----------------------------
(***************************************************************************)
(* The chat actor with one relay.  A peer's rumor m1 may be delivered      *)
(* again and again; a message sent here is rumor s1, whose copy for this   *)
(* identity the relay may deliver back.                                    *)
(***************************************************************************)
EXTENDS NostrChat

MCEvents == {"peer", "wrap", "copy", "list"}
MCInbound == {"peer", "copy"}
MCOpened == [e \in MCEvents |->
    IF e = "peer" THEN "m1" ELSE IF e = "copy" THEN "s1" ELSE NoRumor]
MCWrapFor == [m \in {"s1"} |-> "wrap"]
MCSelfCopy == [m \in {"s1"} |-> "copy"]

=============================================================================
