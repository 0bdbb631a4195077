------------------------------- MODULE TcpCurl -------------------------------
(***************************************************************************)
(* `curl http://...` in kernel/src/net/mod.rs: curl_http_roundtrip, the    *)
(* one-connection TCP client it drives through handle_tcp, the ARP cache  *)
(* it resolves the next hop with (resolve_arp, learn_arp, lookup_arp), and *)
(* the receive path poll -> poll_rx_once -> process_frame that feeds both. *)
(*                                                                         *)
(* The other end is the network: the gateway answering ARP, other hosts    *)
(* whose frames fill the ARP cache, and an HTTP server behind the gateway  *)
(* that may send any of its segments any number of times or never (loss   *)
(* and duplication), in the order of their sequence numbers when InOrder, *)
(* the delivery spec.md assumes, or in any order.  The device's transmit   *)
(* path may fail a send (transmit_frame's errors, MaxTxFail times); the    *)
(* frame may still have gone out.                                          *)
(*                                                                         *)
(* Time is the PIT's tick counter relative to the start of the wait loop  *)
(* running (resolve_arp's 200 ticks, curl's CURL_WAIT_TICKS), kept no     *)
(* further than its budget: later ticks change nothing.                    *)
(*                                                                         *)
(* Sequence numbers are relative to the two initial sequence numbers, so   *)
(* u32 wrapping does not show: both ends wrap alike.  The client's request *)
(* is one unit of sequence space; the server's body is the bytes 1..N, one *)
(* per segment, byte i at sequence number i.  An IP address stands for its *)
(* MAC too: every host answers with its own.                               *)
(***************************************************************************)
EXTENDS Naturals, Sequences, FiniteSets

CONSTANTS
  N,            \* bytes of the server's response
  BufCap,       \* CURL_HTTP_BUF
  ArpSlots,     \* entries of NetState.arp
  Gw, Srv,      \* the gateway and the HTTP server behind it
  Others,       \* other hosts on the LAN
  RxCap,        \* frames waiting in the device at once
  MaxSrvSends,  \* segments the server sends in a behaviour
  MaxNoise,     \* frames the other hosts send in a behaviour
  InOrder,      \* the server's segments arrive in sequence order
  ArpWait,      \* resolve_arp's budget (200 ticks)
  CurlWait,     \* CURL_WAIT_TICKS (300)
  MaxTxFail     \* failed sends in a behaviour

Hosts == {Gw, Srv} \cup Others
NoIp == "none"
ArpIdx == 0 .. ArpSlots - 1
EmptyArp == [valid |-> FALSE, ip |-> NoIp]

(* A TCP segment from the server; data = 0 when it carries none.  The    *)
(* server's FIN follows its last byte, alone or on the same segment.     *)
Seg(syn, fin, rst, seq, ack, data) ==
  [syn |-> syn, fin |-> fin, rst |-> rst, seq |-> seq, ack |-> ack, data |-> data]
SynAck == Seg(TRUE, FALSE, FALSE, 0, 1, 0)
DataSeg(i, fin) == Seg(FALSE, fin, FALSE, i, 2, i)
FinSeg == Seg(FALSE, TRUE, FALSE, N + 1, 2, 0)
RstSeg == Seg(FALSE, FALSE, TRUE, 0, 2, 0)
ServerSegs ==
  {SynAck, FinSeg, RstSeg, DataSeg(N, TRUE)} \cup {DataSeg(i, FALSE) : i \in 1 .. N}

(* Where a segment stands in the server's stream; a reset stands anywhere. *)
Pos(s) == IF s.syn THEN 0 ELSE IF s.data # 0 THEN s.data ELSE N + 1

(* Frames as process_frame sees them: an ARP packet from its sender, or an *)
(* IPv4 packet carrying a TCP segment from a source address.            *)
NoSeg == "none"
Frame(kind, src, seg) == [kind |-> kind, src |-> src, seg |-> seg]

(* PendingHttpCurl::empty() *)
EmptyPending ==
  [active |-> FALSE, established |-> FALSE, sentRequest |-> FALSE,
   finished |-> FALSE, seqNext |-> 0, ackNext |-> 0, response |-> <<>>]

VARIABLES
  arp,        \* NetState.arp, with each entry's IP (its MAC is the IP's)
  pending,    \* NetState.pending_http
  pc,         \* where the shell's curl call is
  result,     \* what curl_http_roundtrip returned
  rx,         \* frames the device holds for the RX queue, in order
  arpAsked,   \* send_arp_request has gone out
  synSent,    \* the SYN has gone out
  reqSent,    \* the HTTP request has gone out
  srvSends, noise,
  gwHeard,    \* history: the gateway's ARP reply went through process_frame
              \* while resolve_arp waited for it
  elapsed,    \* time::ticks() - start of the running wait loop
  srvPos,     \* Pos of the server's last segment
  txFails

vars == <<arp, pending, pc, result, rx, arpAsked, synSent, reqSent,
          srvSends, noise, gwHeard, elapsed, srvPos, txFails>>

TypeOK ==
  /\ arp \in [ArpIdx -> [valid : BOOLEAN, ip : Hosts \cup {NoIp}]]
  /\ pending.response \in Seq(1 .. N) /\ Len(pending.response) <= BufCap
  /\ pending.seqNext \in 0 .. 2 /\ pending.ackNext \in 0 .. N + 1 + MaxSrvSends
  /\ pc \in {"idle", "arpTop", "arp", "top", "drain", "exit", "done"}
  /\ result \in {"none", "Ok", "IoTimeout", "ArpTimeout", "TxError"}
  /\ Len(rx) <= RxCap
  /\ elapsed \in 0 .. (IF ArpWait > CurlWait THEN ArpWait ELSE CurlWait)
  /\ srvPos \in 0 .. N + 1
  /\ txFails \in 0 .. MaxTxFail

Init ==
  /\ arp = [i \in ArpIdx |-> EmptyArp]
  /\ pending = EmptyPending
  /\ pc = "idle" /\ result = "none"
  /\ rx = <<>>
  /\ arpAsked = FALSE /\ synSent = FALSE /\ reqSent = FALSE
  /\ srvSends = 0 /\ noise = 0
  /\ gwHeard = FALSE
  /\ elapsed = 0 /\ srvPos = 0 /\ txFails = 0

----------------------------------------------------------------------------
(* ARP cache *)

(* learn_arp: refresh the entry of a known address, else take the first   *)
(* free entry, else overwrite entry 0.                                     *)
LearnArp(a, ip) ==
  IF \E i \in ArpIdx : a[i].valid /\ a[i].ip = ip THEN a
  ELSE IF \E i \in ArpIdx : ~a[i].valid
  THEN LET i == CHOOSE j \in ArpIdx :
                  ~a[j].valid /\ \A k \in 0 .. j - 1 : a[k].valid
       IN [a EXCEPT ![i] = [valid |-> TRUE, ip |-> ip]]
  ELSE [a EXCEPT ![0] = [valid |-> TRUE, ip |-> ip]]

(* lookup_arp *)
Known(a, ip) == \E i \in ArpIdx : a[i].valid /\ a[i].ip = ip

----------------------------------------------------------------------------
(* handle_tcp on the pending connection; returns the new pending_http.    *)
(* The ACKs it sends change nothing the server model reacts to.           *)

(* Not the pending connection: ignored.  RST: finished.  SYN-ACK before   *)
(* established: taken when it acknowledges the SYN.  Then, data at         *)
(* ack_next is copied as far as the buffer has room and ack_next moves     *)
(* past all of it; other data is only acknowledged.  FIN, wherever its     *)
(* sequence number is: ack_next + 1 and finished.                          *)
(* Data goes into the response buffer as far as it has room. *)
CopyNoRoomCheck(r, d) == Append(r, d)
CopyToResponse(r, d) == IF Len(r) < BufCap THEN Append(r, d) ELSE r

(* The segment accept rule: data only at ack_next. *)
Accepts(p, s) == s.seq = p.ackNext

HandleTcp(p, s) ==
  IF ~p.active THEN p
  ELSE IF s.rst THEN [p EXCEPT !.finished = TRUE]
  ELSE IF s.syn /\ ~p.established
  THEN IF s.ack = p.seqNext
       THEN [p EXCEPT !.ackNext = s.seq + 1, !.established = TRUE]
       ELSE p
  ELSE IF ~p.established THEN p
  ELSE LET q == IF s.data # 0 /\ Accepts(p, s)
                THEN [p EXCEPT
                        !.response = CopyToResponse(p.response, s.data),
                        !.ackNext = p.ackNext + 1]
                ELSE p
       IN IF s.fin THEN [q EXCEPT !.ackNext = q.ackNext + 1, !.finished = TRUE]
          ELSE q

----------------------------------------------------------------------------
(* The driver *)

(* poll_rx_once: the next frame is taken out of RX_BUFFER, the buffer is   *)
(* posted again and the frame goes through process_frame.  handle_arp and  *)
(* handle_ipv4 both learn the sender before anything else; a TCP segment   *)
(* then goes to handle_tcp.  net::poll in the main loop drains frames      *)
(* outside curl too; inside a wait loop, poll drains them at each turn.    *)
PollRxOnce ==
  /\ rx # <<>> /\ pc \in {"idle", "arp", "drain", "done"}
  /\ LET f == Head(rx) IN
       /\ arp' = LearnArp(arp, f.src)
       /\ pending' = IF f.kind = "tcp" THEN HandleTcp(pending, f.seg) ELSE pending
  /\ rx' = Tail(rx)
  /\ gwHeard' = (gwHeard \/ (pc = "arp" /\ Head(rx).src = Gw))
  /\ UNCHANGED <<pc, result, arpAsked, synSent, reqSent, srvSends, noise,
                 elapsed, srvPos, txFails>>

(* Whether a send through transmit_frame succeeds. *)
TxOk == IF txFails < MaxTxFail THEN BOOLEAN ELSE {TRUE}

(* A frame whose send failed may still have gone out. *)
Sent(ok) == IF ok THEN {TRUE} ELSE BOOLEAN

(* After a send: on success the call goes on at next; an error returns    *)
(* it from curl_http_roundtrip at once (the `?`), pending_http as it is.  *)
SendOutcome(ok, next) ==
  /\ pc' = (IF ok THEN next ELSE "done")
  /\ result' = (IF ok THEN result ELSE "TxError")
  /\ txFails' = (IF ok THEN txFails ELSE txFails + 1)

(* curl_http_roundtrip once the next hop's MAC is known: pending_http     *)
(* cleared and made active, the SYN sent, seq_next + 1, and the wait loop  *)
(* starts its clock.                                                       *)
OpenConnection == [EmptyPending EXCEPT !.active = TRUE]

SendSyn(ok) ==
  /\ pending' = [OpenConnection EXCEPT !.seqNext = IF ok THEN 1 ELSE 0]
  /\ synSent' \in Sent(ok)
  /\ elapsed' = 0
  /\ SendOutcome(ok, "top")

(* select_next_hop gives the gateway; resolve_arp either finds it in the  *)
(* cache, or sends an ARP request and enters its wait loop.               *)
CurlStart ==
  /\ pc = "idle"
  /\ \E ok \in TxOk :
       IF Known(arp, Gw)
       THEN SendSyn(ok) /\ UNCHANGED arpAsked
       ELSE /\ arpAsked' \in Sent(ok) /\ elapsed' = 0
            /\ SendOutcome(ok, "arpTop")
            /\ UNCHANGED <<pending, synSent>>
  /\ UNCHANGED <<arp, rx, reqSent, srvSends, noise, gwHeard, srvPos>>

(* The head of resolve_arp's loop: 200 ticks not yet over, poll again;    *)
(* else ArpTimeout.                                                        *)
ArpPoll ==
  /\ pc = "arpTop" /\ elapsed < ArpWait
  /\ pc' = "arp"
  /\ UNCHANGED <<arp, pending, result, rx, arpAsked, synSent, reqSent,
                 srvSends, noise, gwHeard, elapsed, srvPos, txFails>>

ArpTimeout ==
  /\ pc = "arpTop" /\ elapsed >= ArpWait
  /\ result' = "ArpTimeout" /\ pc' = "done"
  /\ UNCHANGED <<arp, pending, rx, arpAsked, synSent, reqSent, srvSends,
                 noise, gwHeard, elapsed, srvPos, txFails>>

(* After the poll has drained the device: lookup_arp.  Found, curl goes   *)
(* on; else back to the head of the loop.                                  *)
ArpLookup ==
  /\ pc = "arp" /\ rx = <<>>
  /\ IF Known(arp, Gw)
     THEN \E ok \in TxOk : SendSyn(ok)
     ELSE /\ pc' = "arpTop"
          /\ UNCHANGED <<pending, synSent, elapsed, result, txFails>>
  /\ UNCHANGED <<arp, rx, arpAsked, reqSent, srvSends, noise, gwHeard, srvPos>>

(* The head of curl's wait loop: CURL_WAIT_TICKS not yet over, poll;      *)
(* else leave the loop.                                                    *)
CurlLoopTopNoDeadline ==
  /\ pc = "top"
  /\ pc' = "drain"
  /\ UNCHANGED <<arp, pending, result, rx, arpAsked, synSent, reqSent,
                 srvSends, noise, gwHeard, elapsed, srvPos, txFails>>

CurlLoopTop ==
  /\ pc = "top"
  /\ pc' = IF elapsed < CurlWait THEN "drain" ELSE "exit"
  /\ UNCHANGED <<arp, pending, result, rx, arpAsked, synSent, reqSent,
                 srvSends, noise, gwHeard, elapsed, srvPos, txFails>>

(* The rest of the loop's body once poll has drained the device: the      *)
(* request goes out the first time the connection is established; the    *)
(* loop ends when finished, else goes round.                               *)
CurlLoop ==
  /\ pc = "drain" /\ rx = <<>>
  /\ LET after == IF pending.finished THEN "exit" ELSE "top" IN
       IF pending.established /\ ~pending.sentRequest
       THEN \E ok \in TxOk :
              /\ pending' = IF ok THEN [pending EXCEPT !.seqNext = @ + 1,
                                                       !.sentRequest = TRUE]
                            ELSE pending
              /\ reqSent' \in Sent(ok)
              /\ SendOutcome(ok, after)
       ELSE /\ pc' = after
            /\ UNCHANGED <<pending, reqSent, result, txFails>>
  /\ UNCHANGED <<arp, rx, arpAsked, synSent, srvSends, noise, gwHeard,
                 elapsed, srvPos>>

(* After the loop: RST if not finished, pending_http cleared, Ok when     *)
(* any response byte arrived, else IoTimeout.                              *)
CurlReturn ==
  /\ pc = "exit"
  /\ result' = IF pending.response # <<>> THEN "Ok" ELSE "IoTimeout"
  /\ pending' = EmptyPending
  /\ pc' = "done"
  /\ UNCHANGED <<arp, rx, arpAsked, synSent, reqSent, srvSends, noise, gwHeard,
                 elapsed, srvPos, txFails>>

(* The PIT: time::on_timer_tick during a wait loop. *)
Tick ==
  /\ pc \in {"arpTop", "arp", "top", "drain"}
  /\ elapsed < (IF pc \in {"arpTop", "arp"} THEN ArpWait ELSE CurlWait)
  /\ elapsed' = elapsed + 1
  /\ UNCHANGED <<arp, pending, pc, result, rx, arpAsked, synSent, reqSent,
                 srvSends, noise, gwHeard, srvPos, txFails>>

----------------------------------------------------------------------------
(* The network *)

Deliver(f) == Len(rx) < RxCap /\ rx' = Append(rx, f)

(* The gateway answers the ARP request. *)
GwArpReply ==
  /\ arpAsked /\ srvSends < MaxSrvSends
  /\ Deliver(Frame("arp", Gw, NoSeg))
  /\ srvSends' = srvSends + 1
  /\ UNCHANGED <<arp, pending, pc, result, arpAsked, synSent, reqSent, noise,
                 gwHeard, elapsed, srvPos, txFails>>

(* The server sends a segment it has reason to send: the SYN-ACK once the *)
(* SYN is out, the body, the FIN or a reset once the request is out.  In  *)
(* order, a segment may repeat the last one or skip lost ones, never go   *)
(* back.                                                                   *)
ServerSend ==
  /\ srvSends < MaxSrvSends
  /\ \E s \in ServerSegs :
       /\ IF s = SynAck THEN synSent ELSE reqSent
       /\ InOrder => s.rst \/ Pos(s) >= srvPos
       /\ Deliver(Frame("tcp", Srv, s))
       /\ srvPos' = IF s.rst THEN srvPos ELSE Pos(s)
  /\ srvSends' = srvSends + 1
  /\ UNCHANGED <<arp, pending, pc, result, arpAsked, synSent, reqSent, noise,
                 gwHeard, elapsed, txFails>>

(* Another host's ARP traffic (its IPv4 broadcasts are learnt alike). *)
Noise ==
  /\ noise < MaxNoise
  /\ \E h \in Others : Deliver(Frame("arp", h, NoSeg))
  /\ noise' = noise + 1
  /\ UNCHANGED <<arp, pending, pc, result, arpAsked, synSent, reqSent,
                 srvSends, gwHeard, elapsed, srvPos, txFails>>

Next ==
  \/ PollRxOnce \/ CurlStart \/ ArpPoll \/ ArpTimeout \/ ArpLookup
  \/ CurlLoopTop \/ CurlLoop \/ CurlReturn \/ Tick
  \/ GwArpReply \/ ServerSend \/ Noise

Spec == Init /\ [][Next]_vars

(* The kernel runs curl's loops to the end on its one core, the main loop *)
(* polls the device and the PIT keeps ticking: every step of the driver    *)
(* and the tick are weakly fair.  The network and the shell are not.       *)
FairSpec ==
  /\ Spec
  /\ WF_vars(PollRxOnce) /\ WF_vars(ArpPoll) /\ WF_vars(ArpTimeout)
  /\ WF_vars(ArpLookup) /\ WF_vars(CurlLoopTop) /\ WF_vars(CurlLoop)
  /\ WF_vars(CurlReturn) /\ WF_vars(Tick)

----------------------------------------------------------------------------
(* handle_tcp copies data only at ack_next, whatever segments are lost   *)
(* or repeated: the response buffer always holds the start of the         *)
(* server's body, in order and without repeats.                           *)
ResponseIsPrefix ==
  \A i \in 1 .. Len(pending.response) : pending.response[i] = i


(* spec.md section 6 (ARP) and its test 3: once the gateway has answered  *)
(* the ARP request, resolve_arp returns its MAC and the caller goes on.   *)
(* learn_arp overwrites entry 0 whenever the cache is full, so other      *)
(* hosts' broadcasts drained by the same poll can push the gateway out     *)
(* before lookup_arp looks for it.                                         *)
ArpTimeoutOnlyUnanswered ==
  result = "ArpTimeout" => ~gwHeard

(* Neither the ARP request, the SYN nor the HTTP request is ever sent     *)
(* again, so a single lost frame leaves curl waiting for nothing: only the *)
(* tick budgets of resolve_arp's and curl_http_roundtrip's loops end the   *)
(* call.  Every curl call returns to the shell.                            *)
CurlReturns ==
  pc \in {"arpTop", "arp", "top", "drain", "exit"} ~> pc = "done"
=============================================================================
