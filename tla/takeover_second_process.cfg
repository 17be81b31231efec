SPECIFICATION Spec
CONSTANTS
    eth = eth
    wifi = wifi
    vpn = vpn
    router = router
    quad9 = quad9
    Iface <- TwoIface
    Server <- MCServer
    Dhcp <- TwoDhcp
    Lease <- TwoLease
    Proc = {p1, p2}
    Uninstaller = {}
    Automatic = Automatic
    Loopback = Loopback
    NoAddr = NoAddr
    NoEntry = NoEntry
    NoProc = NoProc
    Faults = {"overlap"}
    MaxCrashes = 0
INVARIANTS
    ServingCaptures
