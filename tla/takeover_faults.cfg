SPECIFICATION Spec
CONSTANTS
    eth = eth
    wifi = wifi
    vpn = vpn
    router = router
    quad9 = quad9
    Iface <- TwoIface
    Server <- MCServer
    Dhcp <- TwoDhcp
    Lease <- TwoLease
    Proc = {p1}
    Uninstaller = {p1}
    Automatic = Automatic
    Loopback = Loopback
    NoAddr = NoAddr
    NoEntry = NoEntry
    NoProc = NoProc
    Faults = {"crash", "psfail", "unplug", "io", "bind", "mute", "stat"}
    MaxCrashes = 2
INVARIANTS
    TypeOK
    NoLoss
    IInv
    CapturedWhileServing
    BootstrapIsUsers
PROPERTIES
    ImplementsCustody
