CONSTANTS
    Clients = {vm1, vm2}
    Localities = {l0, l1}
    NotifIds = {65}
    BitmapWidth = 64
    None = None
SYMMETRY Symmetry
SPECIFICATION Spec
INVARIANTS TypeOK GrantedIffActive DeferredIffOutstanding
PROPERTIES DeferredUntilFinished RefusedChangesNothing ResponseHandshake OwnershipSpec
