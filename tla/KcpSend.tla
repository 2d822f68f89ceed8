------------------------------- MODULE KcpSend -------------------------------
(***************************************************************************)
(* The sending half of one KCP endpoint (crates/kcp/src/kcp.rs): send(),   *)
(* what input() does with the una, wnd and ACK fields of any segment, and  *)
(* the window-probe, admission, (re)transmission and congestion parts of   *)
(* flush(), including the two optimisations the port adds to kcp-go:       *)
(*                                                                         *)
(*   - D31: an acknowledged segment is found at its ring offset            *)
(*     sn - snd_una, with a linear scan as the fallback;                   *)
(*   - D29: flush() remembers what it learnt about snd_buf (flush_scan)    *)
(*     and skips the transmitted head of snd_buf when that proves it a     *)
(*     no-op.                                                              *)
(*                                                                         *)
(* The peer is arbitrary: any una, sn, ts and window may arrive.  Every    *)
(* handler runs under the session mutex, so input() is split into its loop *)
(* iterations (InputSegment) and its end with nothing in between.  The     *)
(* transmit task drains the output queue concurrently; whether it has room *)
(* at a given test (has_room!) is a free choice.                           *)
(*                                                                         *)
(* Times are milliseconds since the process started.  They are kept        *)
(* unwrapped: the code compares them with _itimediff, which is exact for   *)
(* times less than 2^31 ms apart.  Payloads are abstracted away, so        *)
(* snd_queue is the number of segments in it.  The RTT estimator           *)
(* (update_ack) is abstracted to the choice of a new rx_rto.               *)
(***************************************************************************)
EXTENDS KcpSeq, Sequences

CONSTANTS
    InitSn,       \* segments an idle session has carried before Init (modulo 2^32)
    SndWnds,      \* the send windows set_window_size may choose
    RmtWnds,      \* the windows a peer may advertise (u16)
    InitRmtWnd,   \* IKCP_WND_RCV, assumed of a peer that has not spoken
    Regular,      \* whether packets arrive (TRUE) or are recovered by FEC (FALSE)
    Options,      \* the settings nodelay() may choose
    RtoValues,    \* what update_ack() may set rx_rto to
    FastackMax,   \* 0xFFFFFFFF, the fastack of a fast-retransmitted segment
    Mss,          \* mtu - IKCP_OVERHEAD
    ThreshMin,    \* IKCP_THRESH_MIN
    ThreshInit,   \* IKCP_THRESH_INIT
    ProbeInit,    \* IKCP_PROBE_INIT
    ProbeLimit,   \* IKCP_PROBE_LIMIT
    QueueMax,     \* bound on snd_queue
    MaxTime,      \* bound on the clock
    Drift         \* bound on how far the clock moves during one flush

OptionType ==
    [nodelay: BOOLEAN, interval: Nat \ {0}, fastresend: Nat, nocwnd: BOOLEAN]

ASSUME InitSnAssumption == InitSn \in Seq32
ASSUME WndAssumption ==
    /\ SndWnds \subseteq Nat \ {0} /\ SndWnds # {}
    /\ RmtWnds \subseteq 0..(Half - 1) /\ InitRmtWnd \in 0..(Half - 1)
ASSUME RegularAssumption == Regular \subseteq BOOLEAN
ASSUME OptionsAssumption == Options \subseteq OptionType /\ Options # {}
ASSUME RtoAssumption == RtoValues \subseteq Nat \ {0} /\ RtoValues # {}
ASSUME BoundsAssumption ==
    /\ FastackMax \in Nat \ {0} /\ QueueMax \in Nat /\ MaxTime \in Nat /\ Drift \in Nat
ASSUME CongestionAssumption ==
    /\ Mss \in Nat \ {0} /\ ThreshMin \in Nat \ {0, 1} /\ ThreshInit \in Nat
    /\ ProbeInit \in Nat \ {0} /\ ProbeLimit \in Nat \ {0}

VARIABLES
    now,          \* the clock
    pc,           \* "idle", or "input" while input() walks a packet
    snd_queue,    \* number of segments waiting to enter the window
    snd_buf,      \* segments in flight, oldest first
    snd_una,      \* first unacknowledged sequence number
    snd_nxt,      \* next sequence number to assign
    wnd,          \* [snd: snd_wnd, rmt: rmt_wnd]
    opt,          \* nodelay, interval, fastresend, nocwnd
    rx_rto,       \* retransmission timeout
    cong,         \* [cwnd, ssthresh, incr]
    prb,          \* [wait: probe_wait, ts: ts_probe, ask: probe & IKCP_ASK_SEND]
    scan,         \* flush_scan: [due, at, no_fastack, unsent]
    inp           \* input()'s locals: [moved, flush, rtt, regular]

vars == <<now, pc, snd_queue, snd_buf, snd_una, snd_nxt, wnd, opt, rx_rto, cong,
          prb, scan, inp>>

Segment ==
    [sn: Seq32, xmit: Nat, fastack: 0..FastackMax, acked: BOOLEAN,
     ts: Int, rto: Int, resendts: Int]

(* ScanBound: nothing known, nothing waiting, or not before `at'. *)
Scan == [due: {"unknown", "nothing", "notbefore"}, at: Int,
         no_fastack: BOOLEAN, unsent: Nat]

TypeOK ==
    /\ now \in Nat
    /\ pc \in {"idle", "input"}
    /\ snd_queue \in Nat
    /\ snd_buf \in Seq(Segment)
    /\ snd_una \in Seq32
    /\ snd_nxt \in Seq32
    /\ wnd \in [snd: SndWnds, rmt: 0..(Half - 1)]
    /\ opt \in Options
    /\ rx_rto \in RtoValues
    /\ cong \in [cwnd: Nat, ssthresh: Nat, incr: Nat]
    /\ prb \in [wait: Nat, ts: Nat, ask: BOOLEAN]
    /\ scan \in Scan
    /\ inp \in [moved: BOOLEAN, flush: BOOLEAN, rtt: BOOLEAN, regular: BOOLEAN]

NoInput == [moved |-> FALSE, flush |-> FALSE, rtt |-> FALSE, regular |-> TRUE]

Init ==
    /\ now = 0
    /\ pc = "idle"
    /\ snd_queue = 0
    /\ snd_buf = <<>>
    /\ snd_una = InitSn
    /\ snd_nxt = InitSn
    /\ wnd \in [snd: SndWnds, rmt: {InitRmtWnd}]
    /\ opt \in Options
    /\ rx_rto \in RtoValues
    /\ cong = [cwnd |-> 0, ssthresh |-> ThreshInit, incr |-> 0]
    /\ prb = [wait |-> 0, ts |-> 0, ask |-> FALSE]
    /\ scan = [due |-> "unknown", at |-> 0, no_fastack |-> FALSE, unsent |-> 0]
    /\ inp = NoInput

-----------------------------------------------------------------------------
(* The acknowledgement path.                                               *)

(* scan_for_sn(): the index the linear scan stops at, if it finds sn. *)
scan_for_sn(buf, sn) ==
    {i \in 1..Len(buf) :
        /\ buf[i].sn = sn
        /\ \A j \in 1..(i - 1) : buf[j].sn # sn /\ itimediff(sn, buf[j].sn) >= 0}

(* Mutant: the index counts from the segment before snd_una. *)
snd_buf_offset_off_by_one(buf, una, sn) ==
    {i \in 1..Len(buf) : i = WrappingSub(sn, una) /\ buf[i].sn = sn}

(* snd_buf_offset(): the ring offset of sn (D31), checked before it is     *)
(* trusted; {} is None.                                                    *)
snd_buf_offset(buf, una, sn) ==
    {i \in 1..Len(buf) : i = WrappingSub(sn, una) + 1 /\ buf[i].sn = sn}

(* The range check of parse_ack() and parse_fastack(). *)
InFlight(una, sn) == itimediff(sn, una) >= 0 /\ itimediff(sn, snd_nxt) < 0

(* seg.acked = 1. *)
Marked(seg) == [seg EXCEPT !.acked = TRUE]

(* parse_ack(): mark the segment; it leaves snd_buf when una passes it. *)
parse_ack(buf, una, sn) ==
    LET hit == snd_buf_offset(buf, una, sn)
        at  == IF hit # {} THEN hit ELSE scan_for_sn(buf, sn)
    IN  IF InFlight(una, sn)
        THEN [i \in 1..Len(buf) |->
                IF i \in at THEN Marked(buf[i]) ELSE buf[i]]
        ELSE buf

(* The segments parse_fastack() walks: those before sn. *)
Before(buf, una, sn) ==
    LET hit == snd_buf_offset(buf, una, sn)
    IN  IF ~InFlight(una, sn) THEN {}
        ELSE IF hit # {} THEN {i \in 1..Len(buf) : \A o \in hit : i < o}
        ELSE {i \in 1..Len(buf) :
                buf[i].sn # sn /\ \A j \in 1..i : itimediff(sn, buf[j].sn) >= 0}

(* bump_fastack() *)
bump_fastack(seg) == [seg EXCEPT !.fastack = @ + 1]

(* bump_fastack() applies: sent no later than the acknowledged copy. *)
Bumps(buf, una, sn, ts) ==
    {i \in Before(buf, una, sn) : buf[i].ts <= ts /\ buf[i].fastack # FastackMax}

(* parse_fastack() *)
parse_fastack(buf, una, sn, ts) ==
    [i \in 1..Len(buf) |->
        IF i \in Bumps(buf, una, sn, ts) THEN bump_fastack(buf[i]) ELSE buf[i]]

(* parse_una() drops the first c segments: those before una. *)
UnaPasses(una, c) ==
    /\ c \in 0..Len(snd_buf)
    /\ \A i \in 1..c : itimediff(una, snd_buf[i].sn) > 0
    /\ c < Len(snd_buf) => ~(itimediff(una, snd_buf[c + 1].sn) > 0)

(* Mutant: an empty snd_buf leaves snd_una one too low. *)
shrink_buf_low(buf) == IF buf = <<>> THEN WrappingSub(snd_nxt, 1) ELSE buf[1].sn

(* shrink_buf(): snd_una follows the head of snd_buf. *)
shrink_buf(buf) == IF buf = <<>> THEN snd_nxt ELSE buf[1].sn

(* One segment of a packet.  cmd is "ack" or any other command: every      *)
(* command updates rmt_wnd (unless FEC recovered the packet) and una, an   *)
(* ACK also its own segment and the duplicate counters of those before it. *)
InputSegment(cmd, regular, w, una, sn, ts) ==
    /\ pc = "input" => regular = inp.regular
    /\ pc' = "input"
    /\ wnd' = IF regular THEN [wnd EXCEPT !.rmt = w] ELSE wnd
    /\ \E c \in 0..Len(snd_buf) :
         LET rest == SubSeq(snd_buf, c + 1, Len(snd_buf))
             una1 == shrink_buf(rest)
             marked == parse_ack(rest, una1, sn)
             bumps == IF cmd = "ack" THEN Bumps(marked, una1, sn, ts) ELSE {}
             buf1 == IF cmd = "ack" THEN parse_fastack(marked, una1, sn, ts) ELSE rest
         IN  /\ UnaPasses(una, c)
             /\ snd_buf' = buf1
             /\ snd_una' = una1
             /\ scan' = [scan EXCEPT
                   !.unsent = IF @ <= Len(rest) THEN @ ELSE Len(rest),
                   !.no_fastack = @ /\ \A i \in bumps : marked[i].acked]
             /\ inp' = [regular |-> regular,
                        moved |-> inp.moved \/ itimediff(una1, snd_una) > 0,
                        rtt |-> inp.rtt \/ (cmd = "ack" /\ regular),
                        flush |-> inp.flush \/ c > 0
                                    \/ \E i \in bumps : buf1[i].fastack >= opt.fastresend]
    /\ UNCHANGED <<now, snd_queue, snd_nxt, opt, rx_rto, cong, prb>>

-----------------------------------------------------------------------------
(* flush(): the parts that concern sending.                                *)

(* The probe timer: armed while rmt_wnd is 0, reset otherwise. *)
ProbeTimer ==
    IF wnd.rmt # 0 THEN [prb EXCEPT !.wait = 0, !.ts = 0]
    ELSE IF prb.wait = 0 THEN [prb EXCEPT !.wait = ProbeInit, !.ts = now + ProbeInit]
    ELSE IF now >= prb.ts
    THEN LET base == IF prb.wait < ProbeInit THEN ProbeInit ELSE prb.wait
             grown == base + base \div 2
             wait == IF grown > ProbeLimit THEN ProbeLimit ELSE grown
         IN  [wait |-> wait, ts |-> now + wait, ask |-> TRUE]
    ELSE prb

(* Mutant: the peer's window is ignored. *)
Window_ignores_remote(w, nocwnd, cwnd) == w.snd

(* The window flush() fills. *)
Window(w, nocwnd, cwnd) ==
    LET both == IF w.snd <= w.rmt THEN w.snd ELSE w.rmt
    IN  IF nocwnd \/ both <= cwnd THEN both ELSE cwnd

(* The admission loop moves k segments from snd_queue to snd_buf. *)
Admits(cw, k) ==
    /\ k \in 0..snd_queue
    /\ \A j \in 0..(k - 1) :
         itimediff(WrappingAdd(snd_nxt, j), WrappingAdd(snd_una, cw)) < 0
    /\ k < snd_queue =>
         itimediff(WrappingAdd(snd_nxt, k), WrappingAdd(snd_una, cw)) >= 0

NewSegment(sn) ==
    [sn |-> sn, xmit |-> 0, fastack |-> 0, acked |-> FALSE,
     ts |-> 0, rto |-> 0, resendts |-> 0]

(* Mutant: the last sequence number is not wrapped. *)
Admitted_unwrapped(k) == snd_buf \o [j \in 1..k |-> NewSegment(snd_nxt + j)]

Admitted(k) == snd_buf \o [j \in 1..k |-> NewSegment(WrappingAdd(snd_nxt, j - 1))]

(* FlushScan::can_skip. *)
can_skip ==
    /\ scan.no_fastack
    /\ \/ scan.due = "nothing"
       \/ scan.due = "notbefore" /\ scan.at - now > 0 /\ scan.at - now >= opt.interval

(* How many segments at the head of buf the scan leaves alone. *)
Skipped(buf, k) ==
    IF can_skip /\ Len(buf) > scan.unsent + k THEN Len(buf) - (scan.unsent + k) ELSE 0

(* fastresend = 0 disables fast retransmission. *)
Fast(seg) == opt.fastresend > 0 /\ seg.fastack >= opt.fastresend /\ seg.fastack # FastackMax

(* Early retransmission: duplicates seen and nothing new to send. *)
Early(seg, k) == seg.fastack > 0 /\ seg.fastack # FastackMax /\ k = 0

(* Some branch of the loop sends the segment at time c. *)
WouldSend(seg, k, c) ==
    seg.xmit = 0 \/ Fast(seg) \/ Early(seg, k) \/ c >= seg.resendts

(* It is the timeout branch that does. *)
TimedOut(seg, k) == seg.xmit # 0 /\ ~Fast(seg) /\ ~Early(seg, k)

(* The segment after it was sent: branch taken at c, clock read again at d. *)
Transmit(seg, k, c, d) ==
    LET rto == IF TimedOut(seg, k)
               THEN seg.rto + (IF opt.nodelay THEN rx_rto \div 2 ELSE rx_rto)
               ELSE rx_rto
        fa  == IF seg.xmit = 0 THEN seg.fastack
               ELSE IF TimedOut(seg, k) THEN 0 ELSE FastackMax
    IN  [sn |-> seg.sn, xmit |-> seg.xmit + 1, fastack |-> fa, acked |-> seg.acked,
         ts |-> d, rto |-> rto, resendts |-> c + rto]

(* The readings of the clock during a scan of n segments: cur[i] is        *)
(* `current' when segment i is examined. *)
Readings(n) ==
    {cur \in [1..(n + 1) -> now..(now + Drift)] :
        cur[1] = now /\ \A i \in 1..n : cur[i] <= cur[i + 1]}

(* The segments a scan sends: not skipped, not acked, wanted by a branch,  *)
(* and before `stop', the first one the output queue had no room for.      *)
SendSet(buf, skipped, k, cur, stop) ==
    {i \in (skipped + 1)..Len(buf) :
        ~buf[i].acked /\ i < stop /\ WouldSend(buf[i], k, cur[i])}

(* Such a stop is one the loop can make, and the clock is read again only  *)
(* after a segment was sent.                                               *)
Plausible(buf, skipped, k, cur, stop) ==
    /\ stop <= Len(buf) =>
         /\ stop > skipped /\ ~buf[stop].acked
         /\ WouldSend(buf[stop], k, cur[stop])
    /\ \A i \in 1..Len(buf) :
         cur[i] # cur[i + 1] => i \in SendSet(buf, skipped, k, cur, stop)

(* The scan's result for snd_buf. *)
Scanned(buf, sent, k, cur) ==
    [i \in 1..Len(buf) |->
        IF i \in sent THEN Transmit(buf[i], k, cur[i], cur[i + 1]) ELSE buf[i]]

(* The earliest of a set of times; a set, so that it is empty if there is  *)
(* none.                                                                   *)
Earliest(ats) == {t \in ats : \A u \in ats : t <= u}

(* Mutant: the bound of the skipped head is forgotten. *)
MergeDue_forgets(skipped, ats) ==
    IF ats = {} THEN {[due |-> "nothing", at |-> 0]}
    ELSE {[due |-> "notbefore", at |-> t] : t \in Earliest(ats)}

(* ScanBound::merge of the bound kept for the skipped head with the        *)
(* retransmission times of the scanned part.                               *)
MergeDue(skipped, ats) ==
    LET all == ats \cup (IF skipped > 0 /\ scan.due = "notbefore" THEN {scan.at} ELSE {})
    IN  IF all = {} THEN {[due |-> "nothing", at |-> 0]}
        ELSE {[due |-> "notbefore", at |-> t] : t \in Earliest(all)}

(* The last segment that was ever transmitted, 0 if none was. *)
LastSent(buf) ==
    {n \in 0..Len(buf) :
        /\ n > 0 => buf[n].xmit # 0
        /\ \A i \in (n + 1)..Len(buf) : buf[i].xmit = 0}

(* What a scan learns about the transmitted part of snd_buf.  Times are    *)
(* relative to the first reading of the clock (scan_base), so the bound    *)
(* only errs early.  `last' is the end of that part: the untransmitted     *)
(* segments must be the rest; if not, nothing is known.                    *)
Learnt(new, skipped, last, bound) ==
    LET suffix == skipped <= last /\ \A i \in (skipped + 1)..last : new[i].xmit # 0
    IN  [due |-> IF suffix THEN bound.due ELSE "unknown",
         at  |-> IF suffix THEN bound.at ELSE 0,
         no_fastack |-> \A i \in (skipped + 1)..Len(new) :
                            new[i].acked \/ new[i].fastack \in {0, FastackMax},
         unsent |-> IF suffix THEN Len(new) - last ELSE 0]

(* The retransmission times the scan saw. *)
Waiting(new, skipped, cur, stop) ==
    {now + (new[i].resendts - (IF i >= stop THEN cur[i] ELSE cur[i + 1])) :
        i \in {j \in (skipped + 1)..Len(new) : ~new[j].acked /\ new[j].xmit # 0}}

(* flush_scan after a full flush. *)
Summary(new, skipped, cur, stop) ==
    {Learnt(new, skipped, last, bound) :
        last \in LastSent(new), bound \in MergeDue(skipped, Waiting(new, skipped, cur, stop))}

(* Mutant: the floor of one segment is not applied after a loss. *)
Congestion_no_floor(c0, buf, sent, k, cw, inflight) ==
    IF opt.nocwnd THEN c0
    ELSE IF \E i \in sent : TimedOut(buf[i], k)
    THEN [cwnd |-> inflight \div 2, ssthresh |-> cw \div 2, incr |-> Mss]
    ELSE IF c0.cwnd < 1 THEN [c0 EXCEPT !.cwnd = 1, !.incr = Mss] ELSE c0

(* The congestion window after a flush that filled the window cw and sent  *)
(* `sent' of buf. *)
Congestion(c0, buf, sent, k, cw, inflight) ==
    LET lost   == \E i \in sent : TimedOut(buf[i], k)
        change == \E i \in sent : buf[i].xmit # 0 /\ ~TimedOut(buf[i], k)
        half(n) == IF n \div 2 >= ThreshMin THEN n \div 2 ELSE ThreshMin
        thresh == half(inflight)
        \* resent is 0xFFFFFFFF when fastresend is 0: the u32 sum wraps
        cut    == IF opt.fastresend = 0 THEN thresh - 1 ELSE thresh + opt.fastresend
        c1 == IF change THEN [cwnd |-> cut, ssthresh |-> thresh, incr |-> cut * Mss]
              ELSE c0
    IN  IF opt.nocwnd THEN c0
        ELSE IF lost THEN [cwnd |-> 1, ssthresh |-> half(cw), incr |-> Mss]
        ELSE IF c1.cwnd < 1 THEN [c1 EXCEPT !.cwnd = 1, !.incr = Mss]
        ELSE c1

(* flush() with the congestion state c0.  The admission loop runs in both  *)
(* kinds of flush, the scan of snd_buf only in a full one.                 *)
FlushWith(full, c0) ==
    LET cw == Window(wnd, opt.nocwnd, c0.cwnd)
    IN  \E k \in 0..snd_queue, room \in BOOLEAN :
          /\ Admits(cw, k)
          /\ prb' = [ProbeTimer EXCEPT !.ask = @ /\ ~room]
          /\ snd_queue' = snd_queue - k
          /\ snd_nxt' = WrappingAdd(snd_nxt, k)
          /\ LET buf == Admitted(k)
                 n   == Len(snd_buf) + k
                 skipped == Skipped(buf, k)
             IN  IF full
                 THEN \E cur \in Readings(n), stop \in 1..(n + 1) :
                        LET sent == SendSet(buf, skipped, k, cur, stop)
                            new  == Scanned(buf, sent, k, cur)
                        IN  /\ Plausible(buf, skipped, k, cur, stop)
                            /\ cur[n + 1] <= MaxTime
                            /\ snd_buf' = new
                            /\ scan' \in Summary(new, skipped, cur, stop)
                            /\ now' = cur[n + 1]
                            /\ cong' = Congestion(c0, buf, sent, k, cw,
                                          WrappingSub(WrappingAdd(snd_nxt, k), snd_una))
                 ELSE /\ snd_buf' = buf
                      /\ scan' = [scan EXCEPT !.unsent = @ + k]
                      /\ now' = now
                      /\ cong' = Congestion(c0, buf, {}, k, cw, 0)

-----------------------------------------------------------------------------
(* Slow start, and congestion avoidance. *)
SlowStart(c) == [cwnd |-> c.cwnd + 1, ssthresh |-> c.ssthresh, incr |-> c.incr + Mss]

Avoidance(c) ==
    LET base == IF c.incr < Mss THEN Mss ELSE c.incr
        incr == base + (Mss * Mss) \div base + Mss \div 16
    IN  [cwnd |-> IF (c.cwnd + 1) * Mss <= incr THEN (incr + Mss - 1) \div Mss ELSE c.cwnd,
         ssthresh |-> c.ssthresh, incr |-> incr]

(* Congestion window growth at the end of an input() that advanced una. *)
Grow(c) ==
    LET grown == IF c.cwnd < c.ssthresh THEN SlowStart(c) ELSE Avoidance(c)
    IN  IF opt.nocwnd \/ ~inp.moved \/ ~(c.cwnd < wnd.rmt) THEN c
        ELSE IF grown.cwnd > wnd.rmt
        THEN [cwnd |-> wnd.rmt, ssthresh |-> c.ssthresh, incr |-> wnd.rmt * Mss]
        ELSE grown

(* The end of input(): a new RTT sample, congestion window growth, then a  *)
(* full flush if una moved or a duplicate count asks for one; otherwise an *)
(* ack-only flush or none, as the receiving half's acklist decides.        *)
InputEnd ==
    /\ pc = "input"
    /\ pc' = "idle"
    /\ inp' = NoInput
    /\ \/ inp.rtt /\ rx_rto' \in RtoValues
       \/ UNCHANGED rx_rto
    /\ \/ FlushWith(inp.flush, Grow(cong))
       \/ /\ ~inp.flush
          /\ cong' = Grow(cong)
          /\ UNCHANGED <<now, snd_queue, snd_buf, snd_nxt, prb, scan>>
    /\ UNCHANGED <<snd_una, wnd, opt>>

(* input() returns early on a foreign conv, a truncated payload or an      *)
(* unknown command: what came before stays, nothing is flushed.            *)
InputReject ==
    /\ pc = "input"
    /\ pc' = "idle"
    /\ inp' = NoInput
    /\ UNCHANGED <<now, snd_queue, snd_buf, snd_una, snd_nxt, wnd, opt, rx_rto,
                   cong, prb, scan>>

(* send(): the message becomes one or more segments at the end of          *)
(* snd_queue (none when stream mode merged it into the last one).          *)
Send ==
    /\ pc = "idle"
    /\ \E n \in 1..QueueMax :
         /\ snd_queue + n <= QueueMax
         /\ snd_queue' = snd_queue + n
    /\ UNCHANGED <<now, pc, snd_buf, snd_una, snd_nxt, wnd, opt, rx_rto, cong, prb,
                   scan, inp>>

(* flush() from the updater, a write or a close. *)
Flush ==
    /\ pc = "idle"
    /\ FlushWith(TRUE, cong)
    /\ UNCHANGED <<pc, snd_una, wnd, opt, rx_rto, inp>>

(* wnd_size() and nodelay(). *)
WndSize ==
    /\ pc = "idle"
    /\ \E w \in SndWnds : wnd' = [wnd EXCEPT !.snd = w]
    /\ UNCHANGED <<now, pc, snd_queue, snd_buf, snd_una, snd_nxt, opt, rx_rto, cong,
                   prb, scan, inp>>

Nodelay ==
    /\ pc = "idle"
    /\ opt' \in Options
    /\ UNCHANGED <<now, pc, snd_queue, snd_buf, snd_una, snd_nxt, wnd, rx_rto, cong,
                   prb, scan, inp>>

Tick ==
    /\ pc = "idle"
    /\ now < MaxTime
    /\ now' = now + 1
    /\ UNCHANGED <<pc, snd_queue, snd_buf, snd_una, snd_nxt, wnd, opt, rx_rto, cong,
                   prb, scan, inp>>

(* Any segment a peer may send.  An echoed ts matters only through its     *)
(* comparison with the ts of the segments in flight, so those times and    *)
(* one before all of them stand for every ts.                              *)
Input ==
    \E regular \in Regular, w \in RmtWnds, una \in Seq32 :
        \/ InputSegment("other", regular, w, una, una, now)
        \/ \E sn \in Seq32, ts \in {-1} \cup {snd_buf[i].ts : i \in 1..Len(snd_buf)} :
              InputSegment("ack", regular, w, una, sn, ts)

Next ==
    \/ Input
    \/ InputEnd
    \/ InputReject
    \/ Send
    \/ Flush
    \/ WndSize
    \/ Nodelay
    \/ Tick

Spec == Init /\ [][Next]_vars

-----------------------------------------------------------------------------
(* snd_buf holds exactly the sequence numbers from snd_una up to snd_nxt,  *)
(* in order: the claim the D31 ring offset rests on ("contiguous in `sn`   *)
(* by construction").                                                      *)
SndBufContiguous ==
    /\ \A i \in 1..Len(snd_buf) : snd_buf[i].sn = WrappingAdd(snd_una, i - 1)
    /\ snd_nxt = WrappingAdd(snd_una, Len(snd_buf))

(* The ring offset always finds an acknowledged segment, at the place the  *)
(* linear scan would stop: "Nothing a peer can send" makes it miss, and    *)
(* the debug_assert_eq of parse_ack() and parse_fastack() cannot fail.     *)
AckIndexNeverMisses ==
    \A sn \in Seq32 :
        InFlight(snd_una, sn) =>
            /\ snd_buf_offset(snd_buf, snd_una, sn) # {}
            /\ snd_buf_offset(snd_buf, snd_una, sn) = scan_for_sn(snd_buf, sn)

(* D29: whenever flush() would skip the head of snd_buf, scanning it would *)
(* have changed nothing: every skipped segment is acknowledged, or it was  *)
(* transmitted, has no duplicate acks pending, and falls due no earlier    *)
(* than `interval' from now, so that it cannot lower next_update either.   *)
SkipIsNoOp ==
    can_skip =>
        \A i \in 1..(Len(snd_buf) - scan.unsent) :
            \/ snd_buf[i].acked
            \/ /\ ~WouldSend(snd_buf[i], 0, now)
               /\ snd_buf[i].resendts - now >= opt.interval

(* An acknowledgement never takes back ground: snd_una only moves forward, *)
(* and never beyond what was assigned, whatever una the peer claims.       *)
UnaAdvances ==
    [][/\ itimediff(snd_una', snd_una) >= 0
       /\ itimediff(snd_nxt', snd_una') >= 0]_vars

(* Congestion control never closes the window: once segments are in        *)
(* flight, cwnd is at least 1, also where the u32 sum ssthresh + resent    *)
(* wraps.                                                                  *)
CwndOpen == snd_buf # <<>> /\ ~opt.nocwnd => cong.cwnd >= 1

(* ArqSender's view: the acknowledged part of snd_buf is the set `acked',  *)
(* timers and congestion control disappear.                                *)
AckedNumbers == {snd_buf[i].sn : i \in {j \in 1..Len(snd_buf) : snd_buf[j].acked}}

Arq == INSTANCE ArqSender WITH acked <- AckedNumbers, rmt_wnd <- wnd.rmt

(* Whatever the timers, the congestion window, the clock and the transmit  *)
(* queue do, input(), flush() and send() move the window as ArqSender      *)
(* says: within the peer's window, forward, marking only what is in        *)
(* flight.                                                                 *)
ArqSpec == Arq!Spec

-----------------------------------------------------------------------------
(* The inductive invariant of KcpSendProofs.                               *)

(* No more than 2^31 - 1 segments are ever in flight. *)
FlightBounded == Len(snd_buf) < Half

(* What flush_scan claims of the transmitted head of snd_buf is true.      *)
ScanSound ==
    \A i \in 1..(Len(snd_buf) - scan.unsent) :
        \/ snd_buf[i].acked
        \/ /\ scan.due # "unknown" =>
                /\ snd_buf[i].xmit # 0
                /\ scan.due = "notbefore" /\ snd_buf[i].resendts >= scan.at
           /\ scan.no_fastack => snd_buf[i].fastack \in {0, FastackMax}

IInv == TypeOK /\ SndBufContiguous /\ FlightBounded /\ ScanSound
=============================================================================
