------------------------------ MODULE SwitchMmu ------------------------------
(***************************************************************************)
(* The memory-management unit of a lossless switch (switch-mmu.{h,cc}):    *)
(* per (port, queue) byte accounting over a reserved, a shared and a       *)
(* headroom pool, the dynamic PFC threshold, the pause/resume hysteresis   *)
(* and the ECN marking decision.                                           *)
(*                                                                         *)
(* The MMU is a passive object whose methods the switch calls one at a     *)
(* time inside a packet event.  Its runtime state is one record, and each  *)
(* method that changes it is an operator from a record to a record, so     *)
(* that SwitchNode can compose the calls a handler makes in the order it   *)
(* makes them.                                                             *)
(***************************************************************************)
EXTENDS Naturals, FiniteSets, FiniteSetsExt

CONSTANTS
    Ports,          \* device indices 1..n_port of the switch
    Queues,         \* priority indices in use; 0 is the lossless control class
    BufferSize,     \* buffer_size, set by ConfigBufferSize
    Reserve,        \* reserve: bytes guaranteed to every (port, queue)
    ResumeOffset,   \* resume_offset: hysteresis band of the resume decision
    Headroom,       \* headroom[port], set by ConfigHdrm
    PfcShift,       \* pfc_a_shift[port]
    Kmin, Kmax,     \* kmin[port], kmax[port] in bytes (ConfigEcn scales by 1000)
    PmaxPct,        \* pmax[port] as a percentage
    Word            \* modulus of the code's uint32_t arithmetic

ASSUME ConfigAssumption ==
    /\ Ports \subseteq Nat \ {0} /\ Ports # {}
    /\ 0 \in Queues /\ Queues \subseteq 0..7
    /\ \A n \in {BufferSize, Reserve, ResumeOffset} : n \in Nat
    /\ \A p \in Ports : /\ Headroom[p] \in Nat /\ PfcShift[p] \in Nat
                        /\ Kmin[p] \in Nat /\ Kmax[p] \in Nat
                        /\ PmaxPct[p] \in 0..100
    /\ Word \in Nat \ {0}

DataQueues == Queues \ {0}

\* Unsigned wrap-around of a 32-bit subtraction or addition.
U32(x) == x % Word

\* x >> s on an unsigned value.
ShiftRight(x, s) == x \div (2 ^ s)

(***************************************************************************)
(* ConfigNPort: total_hdrm and total_rsrv are summed once per PORT.        *)
(***************************************************************************)
TotalHdrm == MapThenSumSet(LAMBDA p : Headroom[p], Ports)
TotalRsrv == Cardinality(Ports) * Reserve

PortQueue == Ports \X Queues

\* The constructor: every counter and flag zero.
InitMmu ==
    [ shared_used_bytes    |-> 0,
      hdrm_bytes           |-> [pq \in PortQueue |-> 0],
      ingress_bytes        |-> [pq \in PortQueue |-> 0],
      paused               |-> [pq \in PortQueue |-> FALSE],
      egress_bytes         |-> [pq \in PortQueue |-> 0],
      ingress_queue_length |-> [pq \in PortQueue |-> 0],
      egress_queue_length  |-> [pq \in PortQueue |-> 0] ]

-----------------------------------------------------------------------------
(* Queries.                                                                *)

GetPfcThreshold(m, port) ==
    ShiftRight(U32(BufferSize - TotalHdrm - TotalRsrv - m.shared_used_bytes),
               PfcShift[port])

GetSharedUsed(m, port, q) ==
    IF m.ingress_bytes[port, q] > Reserve
    THEN m.ingress_bytes[port, q] - Reserve ELSE 0

CheckIngressAdmission(m, port, q, psize) ==
    ~ /\ psize + m.hdrm_bytes[port, q] > Headroom[port]
      /\ psize + GetSharedUsed(m, port, q) > GetPfcThreshold(m, port)

\* CheckEgressAdmission always admits.
CheckEgressAdmission(m, port, q, psize) == TRUE

\* Mutant: pause only on the shared pool, ignoring headroom in use.
CheckShouldPauseSharedOnly(m, port, q) ==
    /\ ~ m.paused[port, q]
    /\ GetSharedUsed(m, port, q) >= GetPfcThreshold(m, port)

CheckShouldPause(m, port, q) ==
    /\ ~ m.paused[port, q]
    /\ \/ m.hdrm_bytes[port, q] > 0
       \/ GetSharedUsed(m, port, q) >= GetPfcThreshold(m, port)

\* Mutant: resume only through the hysteresis band, without the
\* "shared usage is zero" escape.
CheckShouldResumeBandOnly(m, port, q) ==
    /\ m.paused[port, q]
    /\ m.hdrm_bytes[port, q] = 0
    /\ GetSharedUsed(m, port, q) + ResumeOffset <= GetPfcThreshold(m, port)

CheckShouldResume(m, port, q) ==
    /\ m.paused[port, q]
    /\ m.hdrm_bytes[port, q] = 0
    /\ \/ GetSharedUsed(m, port, q) = 0
       \/ GetSharedUsed(m, port, q) + ResumeOffset <= GetPfcThreshold(m, port)

(***************************************************************************)
(* ShouldSendCN draws UniformVariable(0,1) < p: the set of outcomes it can *)
(* return.  p = pmax * (egress - kmin) / (kmax - kmin) is never above      *)
(* pmax here, and the draw is certain only when p reaches 1.              *)
(***************************************************************************)
ShouldSendCN(m, port, q) ==
    LET e == m.egress_bytes[port, q] IN
    IF q = 0 THEN {FALSE}
    ELSE IF e > Kmax[port] THEN {TRUE}
    ELSE IF e > Kmin[port]
         THEN IF PmaxPct[port] = 0 THEN {FALSE}
              ELSE IF PmaxPct[port] * (e - Kmin[port]) >= 100 * (Kmax[port] - Kmin[port])
                   THEN {TRUE} ELSE {TRUE, FALSE}
    ELSE {FALSE}

-----------------------------------------------------------------------------
(* Updates.                                                                *)

\* Mutant: charge the whole packet to the shared pool when it crosses the
\* reserve line.
UpdateIngressAdmissionWholeShared(m, port, q, psize) ==
    LET new_bytes == m.ingress_bytes[port, q] + psize
        thresh    == GetPfcThreshold(m, port)
        m1 == IF new_bytes <= Reserve
              THEN [m EXCEPT !.ingress_bytes[port, q] = @ + psize]
              ELSE IF new_bytes - Reserve > thresh
              THEN [m EXCEPT !.hdrm_bytes[port, q] = @ + psize]
              ELSE [m EXCEPT !.ingress_bytes[port, q] = @ + psize,
                             !.shared_used_bytes = @ + psize]
    IN [m1 EXCEPT !.ingress_queue_length[port, q] = @ + 1]

UpdateIngressAdmission(m, port, q, psize) ==
    LET new_bytes == m.ingress_bytes[port, q] + psize
        thresh    == GetPfcThreshold(m, port)
        m1 == IF new_bytes <= Reserve
              THEN [m EXCEPT !.ingress_bytes[port, q] = @ + psize]
              ELSE IF new_bytes - Reserve > thresh
              THEN [m EXCEPT !.hdrm_bytes[port, q] = @ + psize]
              ELSE [m EXCEPT !.ingress_bytes[port, q] = @ + psize,
                             !.shared_used_bytes =
                                 @ + Min({psize, new_bytes - Reserve})]
    IN [m1 EXCEPT !.ingress_queue_length[port, q] = @ + 1]

\* Mutant: the queue-length increment is missing.
UpdateEgressAdmissionNoLength(m, port, q, psize) ==
    [m EXCEPT !.egress_bytes[port, q] = @ + psize]

UpdateEgressAdmission(m, port, q, psize) ==
    [m EXCEPT !.egress_bytes[port, q] = @ + psize,
              !.egress_queue_length[port, q] = @ + 1]

\* Mutant: the headroom share is computed but never released.
RemoveFromIngressAdmissionKeepHdrm(m, port, q, psize) ==
    LET from_hdrm   == Min({m.hdrm_bytes[port, q], psize})
        from_shared == Min({psize - from_hdrm,
                            IF m.ingress_bytes[port, q] > Reserve
                            THEN m.ingress_bytes[port, q] - Reserve ELSE 0})
    IN [m EXCEPT !.ingress_bytes[port, q] = U32(@ - (psize - from_hdrm)),
                 !.shared_used_bytes = U32(@ - from_shared),
                 !.ingress_queue_length[port, q] = U32(@ - 1)]

RemoveFromIngressAdmission(m, port, q, psize) ==
    LET from_hdrm   == Min({m.hdrm_bytes[port, q], psize})
        from_shared == Min({psize - from_hdrm,
                            IF m.ingress_bytes[port, q] > Reserve
                            THEN m.ingress_bytes[port, q] - Reserve ELSE 0})
    IN [m EXCEPT !.hdrm_bytes[port, q] = U32(@ - from_hdrm),
                 !.ingress_bytes[port, q] = U32(@ - (psize - from_hdrm)),
                 !.shared_used_bytes = U32(@ - from_shared),
                 !.ingress_queue_length[port, q] = U32(@ - 1)]

RemoveFromEgressAdmission(m, port, q, psize) ==
    [m EXCEPT !.egress_bytes[port, q] = U32(@ - psize),
              !.egress_queue_length[port, q] = U32(@ - 1)]

SetPause(m, port, q)  == [m EXCEPT !.paused[port, q] = TRUE]
SetResume(m, port, q) == [m EXCEPT !.paused[port, q] = FALSE]

=============================================================================
