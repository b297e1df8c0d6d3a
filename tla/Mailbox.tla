------------------------------ MODULE Mailbox ------------------------------
(***************************************************************************)
(* What the mesh's inboxes promise ("pull-based, at-most-once"): a message *)
(* for a session waits until it is shown to it once, or is lost, and then  *)
(* never comes back.                                                       *)
(***************************************************************************)
CONSTANT Deliveries   \* a message and a session it may be for

VARIABLE mail   \* where a message is; nowhere before it is sent

States == {{}, {"pending"}, {"shown"}, {"lost"}}
Moves == {<<{}, {"pending"}>>, <<{}, {"lost"}>>,
          <<{"pending"}, {"shown"}>>, <<{"pending"}, {"lost"}>>}

Init == mail = [d \in Deliveries |-> {}]

\* A drain shows several at a time, a crash loses several.
Next ==
  /\ mail' \in [Deliveries -> States]
  /\ \A d \in Deliveries : mail'[d] = mail[d] \/ <<mail[d], mail'[d]>> \in Moves

Spec == Init /\ [][Next]_mail
=============================================================================
