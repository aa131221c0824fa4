---------------------------- MODULE MCRequestList ----------------------------
(***************************************************************************)
(* Requests are listed again and again while merchants and a custodian use *)
(* the deployed system of MCFactory.                                       *)
(***************************************************************************)
EXTENDS RequestList, MCFactory

ListNext ==
    \/ ListStep
    \/ /\ CustodianInstruction(custodian) \/ \E m \in merchants : MerchantInstruction(m)
       /\ UNCHANGED lvars

ListSpec == Deployed /\ ListInit /\ [][ListNext]_listVars
=============================================================================
