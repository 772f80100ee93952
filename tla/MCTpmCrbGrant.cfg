CONSTANTS
    Clients = {vm1, vm2}
    Localities = {l0, l1}
    NotifIds = {65}
    BitmapWidth = 64
    None = None
SYMMETRY Symmetry
SPECIFICATION Spec
PROPERTY NoExecutionWithoutGrant
