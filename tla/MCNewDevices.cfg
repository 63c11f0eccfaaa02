CONSTANTS
    ntfy = ntfy
    toast = toast
    Hosts = {1, 2}
    Self = 1
    Scanners = {job, terminal}
    Owners = {o1, o2}
    Channels <- BothChannels
    Loud = {"medium"}
    None = 0
SPECIFICATION DevicesSpec
INVARIANTS DevicesTypeOK EveryDeviceIsAskedAbout  TrustAnswers
