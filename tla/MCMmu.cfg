CONSTANTS
    Vpn1s = {0}
    Vpn0s = {0, 1, 2}
    Radix = 3
    TLB_SIZE = 2
    Ptes <- PteChoices
    Roots = {4, 6}
    Regimes <- RegimeChoices
SPECIFICATION Spec
INVARIANTS TlbTransparent UseMarked
