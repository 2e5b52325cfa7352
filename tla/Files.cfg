SPECIFICATION Spec
CONSTANTS
    Procs = {p1, p2}
    init = p1
    NFILE = 3
    NOFILE = 2
    Inodes = {root, tty}
    Devices = {tty}
    Root = root
    Pages = {g1}
    None = None
INVARIANTS FileRefExact ObjectsExact
