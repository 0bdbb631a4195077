\* The spec's network: in-order delivery, where a segment may be lost or
\* sent again.  A three-byte body into a two-byte buffer; two ARP entries
\* for the gateway and one other host; two ticks for each wait loop.  One
\* curl call; once it has returned and the network is quiet nothing more
\* happens, hence no deadlock check.
CONSTANTS
  N = 3
  BufCap = 2
  ArpSlots = 2
  G = G
  S = S
  H1 = H1  H2 = H2
  Gw <- G
  Srv <- S
  Others <- MCOthers
  RxCap = 2
  MaxSrvSends = 5
  MaxNoise = 1
  InOrder = TRUE
  ArpWait = 2
  CurlWait = 2
  MaxTxFail = 0
SPECIFICATION Spec
CHECK_DEADLOCK FALSE
INVARIANT ResponseIsPrefix
