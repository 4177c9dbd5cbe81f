\* Two browsers, a superuser, the demo account, a GitHub account, two secrets.
CONSTANTS
    b1 = b1
    b2 = b2
    admin = admin
    demo = demo
    new1 = new1
    new2 = new2
    octo = octo
    p1 = p1
    p2 = p2
    NoUser = NoUser
    NoToken = NoToken
    Browser = {b1, b2}
    User = {admin, demo, new1, new2}
    WithPassword = {admin, demo}
    Identity = {octo}
    Superuser = {admin}
    Demo = {demo}
    Asker = {admin}
    PermRow = {p1, p2}
    MaxSecret = 1
SPECIFICATION Spec
SYMMETRY MCSymmetry
INVARIANTS TypeOK SameUserEachTime GrantHolds PullsGranted
CHECK_DEADLOCK FALSE
