----------------------- MODULE RoutePropagation_proofs -----------------------
(***************************************************************************)
(* The copy that is shared by all peers carries a token that every one of  *)
(* them can use, for any number of peers and any order, as long as posts   *)
(* to SAFE do not fail.                                                    *)
(***************************************************************************)
EXTENDS RoutePropagation, TLAPS

(***************************************************************************)
(* What makes the late read of the copy harmless: its token only grows, so *)
(* a thread that has been started finds the statement to its peer there    *)
(* for good.                                                               *)
(***************************************************************************)
TokenServes ==
  /\ Received \in token
  /\ \A p \in posting : p \in token

IInv == TokenServes /\ DeliveredVerifies

\* No peer is told the route with a token that does not let it verify the
\* route, as long as posts to SAFE do not fail.
THEOREM Verifiable ==
  ASSUME ~ PostsFail
  PROVE  Spec => []DeliveredVerifies
<1>1. Init => IInv
  BY DEF Init, IInv, TokenServes, DeliveredVerifies
<1>2. IInv /\ [Next]_vars => IInv'
  <2> SUFFICES ASSUME IInv, [Next]_vars PROVE IInv'
    OBVIOUS
  <2>1. ASSUME NEW p \in Peers, Refuse(p) PROVE IInv'
    BY <2>1 DEF Refuse, IInv, TokenServes, DeliveredVerifies
  <2>2. ASSUME NEW p \in Peers, Advertise(p) PROVE IInv'
    <3>1. token' = token \cup {p}
      BY <2>2 DEF Advertise, Posted
    <3>2. posting' = posting \cup {p} /\ delivered' = delivered
      BY <2>2 DEF Advertise
    <3>3. QED
      BY <3>1, <3>2 DEF IInv, TokenServes, DeliveredVerifies
  <2>3. ASSUME NEW p \in Peers, Deliver(p) PROVE IInv'
    <3>1. TokenServes'
      BY <2>3 DEF Deliver, IInv, TokenServes
    <3>2. {Received, p} \subseteq token
      BY <2>3 DEF Deliver, IInv, TokenServes
    <3>3. delivered' = delivered \cup {<<p, token>>}
      BY <2>3 DEF Deliver
    <3>4. QED
      BY <3>1, <3>2, <3>3 DEF IInv, DeliveredVerifies
  <2>4. CASE UNCHANGED vars
    BY <2>4 DEF vars, IInv, TokenServes, DeliveredVerifies
  <2>5. QED
    BY <2>1, <2>2, <2>3, <2>4 DEF Next
<1>3. IInv => DeliveredVerifies
  BY DEF IInv
<1>4. QED
  BY <1>1, <1>2, <1>3, PTL DEF Spec
==============================================================================
