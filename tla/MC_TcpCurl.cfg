\* The spec's network: in-order delivery with loss and duplication.  A
\* two-byte body into a one-byte buffer, so a copy runs out of room; two
\* ARP entries for the gateway and one other host.  Budgets of two ticks
\* for both loops, so a loop goes round more than once; one failed send.
\* One curl call; once it has returned and the network is quiet nothing
\* more happens, hence no deadlock check.
CONSTANTS
  N = 2
  BufCap = 1
  ArpSlots = 2
  G = G
  S = S
  H1 = H1  H2 = H2
  Gw <- G
  Srv <- S
  Others <- MCOthers
  RxCap = 2
  MaxSrvSends = 5
  MaxNoise = 2
  InOrder = TRUE
  ArpWait = 2
  CurlWait = 2
  MaxTxFail = 1
SPECIFICATION FairSpec
CHECK_DEADLOCK FALSE
INVARIANT TypeOK
PROPERTY CurlReturns
