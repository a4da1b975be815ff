-------------------------- MODULE MCEscrowManager --------------------------
(* Instances of EscrowManager: one buyer, seller and lender, two assets, two *)
(* oracles, up to two collaterals and a handful of escrow configurations.    *)
EXTENDS EscrowManager

CONSTANTS buyer, seller, lender, usd, eur, o1, o2, t1, t2

Base ==
    [buyer |-> buyer, seller |-> seller, lender |-> lender,
     collateral_id |-> 1, amount |-> 10, asset |-> usd,
     required_confirmation |-> 2, expiry_ts |-> 0,
     destination_asset |-> usd, min_destination_amount |-> 10,
     required_confirmations |-> 0, oracle_set |-> <<>>]

\* Two oracles must agree, on another event; the buyer lends to itself.
Consensus ==
    [Base EXCEPT !.required_confirmations = 2, !.oracle_set = <<o1, o2>>,
                 !.required_confirmation = 1,
                 !.lender = buyer, !.collateral_id = 2, !.amount = 20, !.expiry_ts = 1]

\* What create_escrow must refuse.
Invalid ==
    {[Base EXCEPT !.amount = 0],
     [Base EXCEPT !.min_destination_amount = 0],
     [Base EXCEPT !.required_confirmations = 1],
     [Base EXCEPT !.required_confirmations = 2, !.oracle_set = <<o1>>],
     [Base EXCEPT !.required_confirmations = 2, !.oracle_set = <<o1, o1>>]}

\* Pays in another asset than it is funded in.
CrossAsset == [Base EXCEPT !.destination_asset = eur]
Euro == [Base EXCEPT !.asset = eur, !.destination_asset = eur, !.collateral_id = 2]

\* Asks for more than it holds, in the same asset.
AboveAmount == [Base EXCEPT !.min_destination_amount = 20]

SameAssetConfigs == {Base, Consensus} \cup Invalid
CrossConfigs == {Base, CrossAsset, Euro}
DirectConfigs == {Base, CrossAsset, AboveAmount, [Euro EXCEPT !.collateral_id = 1]}
MinimumConfigs == {Base, AboveAmount}
LiveConfigs == {Consensus, [Base EXCEPT !.required_confirmation = 1]} \cup Invalid

MCBalance ==
    [a \in {usd, eur} |-> [p \in {buyer, seller, lender} |->
        IF p = seller THEN 0 ELSE 20]]

Events == {2}
FirstEvent == {1}
TwoEvents == {1, 2}
OneValuation == {1}
NoRef == {0}
NoRates == {}
SomeRates == {500000, 2000000}
TenPercent == [t \in {t1} |-> 1000]
============================================================================
