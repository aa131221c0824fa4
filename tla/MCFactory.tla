----------------------------- MODULE MCFactory ------------------------------
(***************************************************************************)
(* Two ways of running Factory. From Init with a single wallet that plays  *)
(* every role, so that every order of deployment, configuration and use is *)
(* covered. And from a configured system with merchants and a custodian of *)
(* their own, where the roles and not the deployment change.               *)
(***************************************************************************)
EXTENDS Factory, FiniteSets, FiniteSetsExt

CONSTANTS owner, custodian, merchants

\* Addresses and txids as tuples of symbols. Of the two addresses, one is the
\* other followed by the txid, so that their texts can coincide in a hash.
OneAddress == {<<"a">>}
OneTxId == {<<"t">>}
TwoAddresses == {<<"a">>, <<"a", "t">>}

\* The Members program and the Controller as the deployment steps leave them,
\* the mint authority with the controller's PDA, and no request made.
Configured ==
    /\ members_store = [owner |-> owner, custodian |-> custodian,
                        merchant_count |-> Cardinality(merchants), pending_owner |-> NoKey]
    /\ merchant_infos = merchants
    /\ controller_store =
          [members |-> MembersId, factory |-> FactoryId, owner |-> owner,
           pending_owner |-> NoKey, pending_mint_authority |-> NoKey]
    /\ mint_authority = ControllerPda
    /\ mint_requests = [n \in Nonces |-> NoAccount]
    /\ burn_requests = [n \in Nonces |-> NoAccount]

\* The factory is still to be initialized, no deposit address is set, and each
\* merchant has a token that was minted before the PDA got the authority.
WithoutFactory ==
    /\ Configured
    /\ supply = Cardinality(merchants)
    /\ balance = [k \in Keys |-> IF k \in merchants THEN 1 ELSE 0]
    /\ factory_store = NoAccount
    /\ custodian_btc_address = [k \in Keys |-> NoAccount]
    /\ merchant_btc_address = [k \in Keys |-> NoAccount]

\* Every program is initialized, and the merchants' addresses are set.
Deployed ==
    /\ Configured
    /\ supply = 0
    /\ balance = [k \in Keys |-> 0]
    /\ factory_store = [mint_request_counter |-> 0, burn_request_counter |-> 0,
                        controller |-> ControllerId]
    /\ \E a \in BtcAddresses :
          /\ custodian_btc_address =
                [k \in Keys |-> IF k \in merchants THEN a ELSE NoAccount]
          /\ merchant_btc_address =
                [k \in Keys |-> IF k \in merchants THEN a ELSE NoAccount]

\* The owner of Members removes and admits merchants; the configuration and
\* the mint authority stay.
RolesChange ==
    /\ \E m \in merchants :
          Members!AddMerchant(owner, m) \/ Members!RemoveMerchant(owner, m)
    /\ UNCHANGED <<controller_store, tokenVars, factoryVars>>

OperatingNext ==
    \/ \E m \in merchants : MerchantInstruction(m)
    \/ CustodianInstruction(custodian)
    \/ \E k \in Keys : WalletInstruction(k)
    \/ RolesChange

OperatingSpec == Deployed /\ [][OperatingNext]_vars
=============================================================================
