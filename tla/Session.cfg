SPECIFICATION Spec
CONSTANTS
    phantom = phantom
    solflare = solflare
    d1 = d1
    d2 = d2
    None = None
    Name = {phantom, solflare}
    Drop = {d1, d2}
INVARIANTS SessionInv ProgramFitsWallet PageShowsWallet
PROPERTIES ConnectSettles
CHECK_DEADLOCK FALSE
