\* Passes with every fault, beside resets that may overlap, and traffic.
CONSTANTS
    main = main
    node = node
    a1 = a1
    Main = main
    Users = {u1, u2}
    Admins = {a1}
    Cores = {main, node}
    Owner <- OneAdmin
    NoAdmin = NoAdmin
    Scale = 2
    Factor <- HalfUnits
    Handlers = {h1, h2}
    MaxMoved = 2
    Faults = {"link", "poll", "core", "statement", "panel"}
    NoUser = NoUser
    NoCore = NoCore
SPECIFICATION Spec
SYMMETRY UserSymmetry
CONSTRAINT ResetsMeet
INVARIANTS TypeOK NeverOvercharged AdminsPayForUsers ChartIsComplete
