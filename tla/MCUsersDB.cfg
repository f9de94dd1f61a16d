SPECIFICATION Spec
CONSTANTS
    Blocks = {b1, b2}
    Conns = {c1, c2, c3}
    Names = {n1, n2, n3}
    Passwords = {w1, w2}
    Null = Null
    Broken = Broken
SYMMETRY Symmetry
INVARIANTS SessionsMatch SessionIsOwn
PROPERTIES StoredAccountsStay
