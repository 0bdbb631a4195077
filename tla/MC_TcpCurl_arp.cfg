\* The gateway and two other hosts for a two-entry ARP cache (spec.md:
\* eight entries), so that learn_arp must evict entry 0 while resolve_arp
\* waits.  One curl call; once it has returned and the network is quiet
\* nothing more happens, hence no deadlock check.
CONSTANTS
  N = 1
  BufCap = 1
  ArpSlots = 2
  G = G
  S = S
  H1 = H1  H2 = H2
  Gw <- G
  Srv <- S
  Others <- MCOthers2
  RxCap = 2
  MaxSrvSends = 2
  MaxNoise = 2
  InOrder = TRUE
  ArpWait = 2
  CurlWait = 2
  MaxTxFail = 0
SPECIFICATION Spec
CHECK_DEADLOCK FALSE
INVARIANT ArpTimeoutOnlyUnanswered
