SPECIFICATION FairSpec
CONSTANTS
    eth = eth
    wifi = wifi
    vpn = vpn
    router = router
    quad9 = quad9
    Iface <- MCIface
    Server <- MCServer
    Dhcp <- MCDhcp
    Lease <- MCLease
    Proc = {p1}
    Uninstaller = {p1}
    Automatic = Automatic
    Loopback = Loopback
    NoAddr = NoAddr
    NoEntry = NoEntry
    NoProc = NoProc
    Faults = {"crash", "dhcpq"}
    MaxCrashes = 2
INVARIANTS
    NoResolverLoss
PROPERTIES
    StopRestores
