CONSTANTS
  a = a
  b = b
  Devices <- ThreeDevices
  Dists = {k1, k2, k3}
  Senders = {s1}
  MaxRetries = 2
  MaxEvents = 1
  MaxFaults = 1
SPECIFICATION FairSpec
INVARIANTS RemovedDevicesLackKey AddressedDevicesHaveKey
PROPERTY SendsReturn
