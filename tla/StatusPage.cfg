\* Two pages of one browser, one server; the first cookie is any, or none.
SPECIFICATION PageSpec
CONSTANTS
    tab1 = tab1
    tab2 = tab2
    serverA = serverA
    serverB = serverB
    Pages <- TwoPages
    Panels = {serverA, serverB}
SYMMETRY PageSymmetry
INVARIANTS
    PageTypeOK
    OnlyOtherPagesOverwrite
    PanelsFollowTheLabel
