--------------------------- MODULE MCSystemBroker ---------------------------
EXTENDS SystemBroker, TLC
CONSTANTS cmdA, cmdB
MCCommands == {cmdA, cmdB}
UpdateAndPower == (cmdA :> "update") @@ (cmdB :> "power")
=============================================================================
