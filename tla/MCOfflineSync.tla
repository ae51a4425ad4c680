---------------------------- MODULE MCOfflineSync ----------------------------
(* Small instances of OfflineSync for TLC.                                 *)
EXTENDS OfflineSync

CONSTANTS new, ack, resolved

Base == [kind |-> "create", wellformed |-> TRUE, permitted |-> TRUE, keyed |-> FALSE,
         value |-> new, checked |-> FALSE]
Creation(keyed) == [Base EXCEPT !.keyed = keyed]
Edit(v) == [Base EXCEPT !.kind = "status", !.value = v]
Message == [Base EXCEPT !.kind = "message"]
Denied(a) == [a EXCEPT !.permitted = FALSE]

(* A student's outbox (status edits are denied), an officer's (creations   *)
(* are), one with a denied message, one with a malformed action, one whose *)
(* edits go back and forth.                                                *)
MCOutbox ==
  { <<Creation(TRUE), Denied(Edit(ack)), Message>>,
    <<Message, Creation(FALSE), Creation(TRUE)>>,
    <<Denied(Creation(TRUE)), Edit(ack), Edit(resolved)>>,
    <<Edit(ack), Edit(resolved), Edit(new)>>,
    <<Edit(ack), Message, [Edit(resolved) EXCEPT !.checked = TRUE]>>,
    <<Denied(Message), Edit(resolved), Message>>,
    <<Creation(TRUE), Message, [Edit(ack) EXCEPT !.wellformed = FALSE]>> }
=============================================================================
