--------------------------- MODULE MC_TokenBridge ---------------------------
(***************************************************************************)
(* One user and one relayer, the native token and another one.             *)
(***************************************************************************)
EXTENDS TokenBridge

CONSTANTS u, r, sovereign, treasury, here, elsewhere, root, agent, zero, t1, t2

MC_Users     == {u}
MC_Relayers  == {r}
MC_Locations == {here, elsewhere}
MC_TokenIdOf == here :> t1 @@ elsewhere :> t2
MC_Origins   == {root, agent, zero}
MC_SenderOrigins == {agent}
MC_Messages  ==
    {build_mint_message(amount, fee) : amount \in Amounts, fee \in Fees}
    \cup [origin : MC_SenderOrigins, command : {"RegisterForeignToken"}, arg : {t1, t2}, fee : {0}]
    \cup [origin : {root}, command : {"SetOperatingMode"},
          arg : {"Normal", "RejectingOutboundMessages"}, fee : {0}]
    \cup [origin : {root}, command : {"Upgrade"}, arg : {1}, fee : {0}]

=============================================================================
