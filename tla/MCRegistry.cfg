SPECIFICATION Spec
CONSTANTS
    a1 = a1
    a2 = a2
    r1 = r1
    Admins = {a1, a2}
    Requests = {r1}
    None = None
    NewProviders <- NewChannels
    NewModels <- NewPublicModels
    Items = {"i1", "i2"}
    ProviderPatches <- ProviderEdits
    ModelPatches <- ModelEdits
    SwitchPatches <- SwitchEdits
    FirstProvider <- AProvider
    FirstModel <- AModel
    MaxEdits = 2
    MaxId = 2
CONSTRAINT FewAtOnce
SYMMETRY Symmetry
INVARIANTS CacheCurrent RetiredTokensDead ActiveRowsKept MonitorAgrees
PROPERTIES AdmittedIsOffered OnlyEditsPublish
