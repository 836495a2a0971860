SPECIFICATION Spec
CONSTANTS
    sda = sda
    sat = sat
    permissive = permissive
    unbalanced = unbalanced
    Device = {sda}
    Type = {sat}
    Params = {permissive, unbalanced}
    Unbalanced = {unbalanced}
    Setting = {"smartctl_options"}
    OtherSetting = {"default_size_w"}
    Value = {0, 1}
    Default <- MCDefault
    Empty = empty
    Malformed = malformed
    Listed <- MCListed
    MaxRows = 2
PROPERTIES ChangesOwnRow SavesWhatIsShown LookingChangesNothing
