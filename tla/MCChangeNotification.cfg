CONSTANTS
    Controllers = {c1}
    k1 = k1
    k2 = k2
    Keys = {k1, k2}
    Edits = {"create", "update", "delete"}
    NumTermWatermarks = 1
    MaxChanges = 2
    ns = ns
    nt = nt
    Watchers = {ns, nt}
    Notifies = {nt}
    Filter <- MCFilter
    Mask <- MCMask
SPECIFICATION SysSpec
INVARIANTS SysTypeOK NoLostUpdate TermHandshake WatchedIsRegistered
